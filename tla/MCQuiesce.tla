----------------------------- MODULE MCQuiesce -----------------------------
(***************************************************************************)
(* Instances of Quiesce for TLC.  The workload's output plays no part.     *)
(***************************************************************************)
EXTENDS Quiesce

MCStreams == {}
MCTokens == 1 .. 2

\* The host waits for the acknowledgement, or gives up on a cooperative quiesce
\* and sends the Resume over ring C, behind the request.
Sound == {Path("COOP", "I", FALSE), Path("FORCED", "C", FALSE), Path("COOP", "C", TRUE)}
\* The other two ways to give up.
ForcedTimeout == {Path("FORCED", "C", TRUE)}
Overtaken == {Path("COOP", "I", TRUE)}
=============================================================================
