---------------------------- MODULE MCEventFlow ----------------------------
(***************************************************************************)
(* Instances of EventFlow for TLC.                                         *)
(***************************************************************************)
EXTENDS EventFlow

MCCap == [A |-> 1, W |-> 2]
MCBeaconIds == 0 .. 1
MCNames == {"n1", "n2"}
OneName == {"n1"}
FlowFails == [n \in MCNames |-> IF n = "n1" THEN 3 ELSE 1]
NoFails == [n \in MCNames |-> 0]
NameOps == {"assert", "reach", "declare", "inject"}
FlowOps == NameOps \cup {"frame"}
StreamOps == {"beacon", "frame", "log", "inject"}
=============================================================================
