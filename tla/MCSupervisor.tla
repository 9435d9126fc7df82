---------------------------- MODULE MCSupervisor ----------------------------
(***************************************************************************)
(* An instance of Supervisor for TLC: every command, and one stream.  The  *)
(* two streams of a workload do not touch each other's state.              *)
(***************************************************************************)
EXTENDS Supervisor

OneStream == {"out"}
MCTokens == {1}
AllCommands == {StartWorkload, StartUnknown, Quiesce(1, "COOP"), Quiesce(1, "FORCED"),
                Resume(1), Shutdown("graceful"), Shutdown("immediate"), [kind |-> "Other"]}
=============================================================================
