------------------------------ MODULE Process ------------------------------
(***************************************************************************)
(* The supervised child as the guest kernel shows it to the agent: the     *)
(* signals kill() leaves pending, the job-control stop that                *)
(* waitpid(WUNTRACED) reports once, and the zombie that it reaps.  This is *)
(* kernel behaviour, outside the repository; supervise.rs uses no more of  *)
(* it than this.                                                           *)
(***************************************************************************)
EXTENDS FiniteSets

Signals == {"TERM", "STOP", "KILL"}
Process == [state : {"none", "running", "stopped", "zombie"},
            pending : SUBSET Signals,
            report : BOOLEAN]       \* a stop waitpid has not reported yet

NoChild == [state |-> "none", pending |-> {}, report |-> FALSE]
Spawned == [state |-> "running", pending |-> {}, report |-> FALSE]

Alive(p) == p.state \in {"running", "stopped"}

\* kill(pid, SIGTERM | SIGSTOP | SIGKILL).  A stop sent to a child that is
\* already stopped changes nothing: there is no second stop to report.
Kill(p, sig) ==
    IF Alive(p) /\ ~(sig = "STOP" /\ p.state = "stopped")
    THEN [p EXCEPT !.pending = @ \cup {sig}] ELSE p

\* kill(pid, SIGCONT): wakes a stopped child and cancels a pending stop.
Continue(p) ==
    IF Alive(p)
    THEN [p EXCEPT !.state = "running", !.pending = @ \ {"STOP"}, !.report = FALSE]
    ELSE p

\* User code of the child runs: no pending signal stands in front of it.
Runs(p) == p.state = "running" /\ p.pending \cap {"STOP", "KILL"} = {}

\* The steps the kernel takes with the child: a pending stop takes effect, or
\* the child dies (killed, terminated, or exiting on its own).
StopLands(p, q) ==
    /\ p.state = "running" /\ "STOP" \in p.pending
    /\ q = [p EXCEPT !.state = "stopped", !.pending = @ \ {"STOP"}, !.report = TRUE]

Dies(p, q) ==
    /\ \/ Alive(p) /\ "KILL" \in p.pending
       \/ p.state = "running" /\ "TERM" \in p.pending
       \/ Runs(p)
    /\ q = [state |-> "zombie", pending |-> {}, report |-> FALSE]

\* What waitpid(-1, WNOHANG | WUNTRACED) has to say something about.
Reportable(p) == p.report \/ p.state = "zombie"
=============================================================================
