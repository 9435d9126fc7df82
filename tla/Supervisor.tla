----------------------------- MODULE Supervisor -----------------------------
(***************************************************************************)
(* The agent's steady state: the epoll loop of Supervisor::run, the        *)
(* dispatch of ring-C commands, and the child it supervises.  The child    *)
(* and the host take their steps between any two steps of the agent: the   *)
(* guest has one virtual CPU, but it is preempted and paused anywhere.     *)
(*                                                                         *)
(* A ring is a bounded queue of records here, which is what the Ring       *)
(* module shows it to be.  A workload stream is a queue of writes, each of *)
(* them a terminated line or an unterminated fragment.  The log mask,      *)
(* which only thins out LogLine events, is left out.                       *)
(***************************************************************************)
EXTENDS Process, Naturals, Sequences

CONSTANTS Streams,      \* the workload's pipes: stdout and stderr
          Tokens,       \* quiesce tokens the host uses, all of them non-zero
          Commands,     \* what the host may push onto ring C
          CapC, CapI,   \* records that fit into rings C and I
          MaxCommands,  \* bound: commands pushed in a behaviour
          MaxWrites     \* bound: writes of one workload to each stream

ASSUME SupervisorAssumption ==
    /\ CapC \in Nat \ {0} /\ CapI \in Nat \ {0}
    /\ MaxCommands \in Nat /\ MaxWrites \in Nat
    /\ 0 \notin Tokens

VARIABLES
  \* the kernel and the workload
  child,        \* the child process
  sigchld,      \* the signalfd is readable
  pipe,         \* what each pipe holds unread
  closed,       \* the streams the workload has closed
  writes,       \* bound: writes to each stream so far
  \* the channel
  ringC, ringI,
  pushed,       \* bound: commands pushed so far
  started,      \* WorkloadStarted events emitted
  exited,       \* WorkloadExited events emitted
  ready,        \* the tokens of the QuiesceReady events emitted
  \* the agent
  apc,          \* where the loop is
  todo, hups,   \* what epoll_wait returned and is still to be handled
  workload,     \* Supervisor.workload
  registered,   \* the streams registered with epoll
  buf,          \* the line buffers that hold an unterminated line
  forced_token, \* Supervisor.forced_token
  shutdown,     \* Supervisor.shutdown, with its deadline passed or not
  \* history
  owed          \* lines written and not yet handed to emit_lines

kernel == <<child, sigchld, pipe, closed, writes>>
rings == <<ringC, ringI, pushed>>
emitted == <<started, exited, ready>>
agent == <<apc, todo, hups, workload, registered, buf, forced_token, shutdown>>
vars == <<kernel, rings, emitted, agent, owed>>

NoWorkload == [running |-> FALSE, stopped |-> FALSE]
Workload == [running : BOOLEAN, stopped : BOOLEAN]

StartWorkload == [kind |-> "StartWorkload"]
StartUnknown == [kind |-> "StartUnknown"]
Quiesce(token, mode) == [kind |-> "Quiesce", token |-> token, mode |-> mode]
Resume(token) == [kind |-> "Resume", token |-> token]
Shutdown(mode) == [kind |-> "Shutdown", mode |-> mode]
QuiesceReq(token) == [kind |-> "QuiesceReq", token |-> token]

Empty == [s \in Streams |-> <<>>]
None == [s \in Streams |-> 0]

\* The loop starts after Ready: with the autostart unit running or with none.
Init ==
    /\ \E running \in BOOLEAN :
         /\ child = IF running THEN Spawned ELSE NoChild
         /\ workload = [running |-> running, stopped |-> FALSE]
         /\ registered = IF running THEN Streams ELSE {}
         /\ started = IF running THEN 1 ELSE 0
    /\ sigchld = FALSE /\ pipe = Empty /\ closed = {} /\ writes = None
    /\ ringC = <<>> /\ ringI = <<>> /\ pushed = 0
    /\ exited = 0 /\ ready = {}
    /\ apc = "wait" /\ todo = {} /\ hups = {}
    /\ buf = {}
    /\ forced_token = 0 /\ shutdown = "none"
    /\ owed = None

-----------------------------------------------------------------------------
(***************************************************************************)
(* The kernel and the workload.                                            *)
(***************************************************************************)
ChildStops ==
    /\ StopLands(child, child') /\ sigchld' = TRUE
    /\ UNCHANGED <<pipe, closed, writes, rings, emitted, agent, owed>>

ChildDies ==
    /\ Dies(child, child') /\ sigchld' = TRUE
    /\ UNCHANGED <<pipe, closed, writes, rings, emitted, agent, owed>>

\* A line is still open when the last write left a fragment, in the pipe or
\* in the agent's buffer.
Open(s) == IF pipe[s] = <<>> THEN s \in buf ELSE pipe[s][Len(pipe[s])] = "frag"

ChildWrites(s, w) ==
    /\ Runs(child) /\ s \notin closed /\ writes[s] < MaxWrites
    /\ pipe' = [pipe EXCEPT ![s] = Append(@, w)]
    /\ writes' = [writes EXCEPT ![s] = @ + 1]
    /\ owed' = [owed EXCEPT ![s] = @ + IF Open(s) THEN 0 ELSE 1]
    /\ UNCHANGED <<child, sigchld, closed, rings, emitted, agent>>

ChildCloses(s) ==
    /\ Runs(child) /\ s \notin closed
    /\ closed' = closed \cup {s}
    /\ UNCHANGED <<child, sigchld, pipe, writes, rings, emitted, agent, owed>>

\* The grace period of a graceful shutdown passes.
Expire ==
    /\ shutdown = "armed" /\ shutdown' = "expired"
    /\ UNCHANGED <<kernel, rings, emitted, apc, todo, hups, workload, registered, buf,
                   forced_token, owed>>

\* Channel::push_command, with the vCPU paused.  On a full ring it fails and
\* changes nothing.
PushCommand(cmd) ==
    /\ pushed < MaxCommands /\ Len(ringC) < CapC
    /\ ringC' = Append(ringC, cmd)
    /\ pushed' = pushed + 1
    /\ UNCHANGED <<kernel, ringI, emitted, agent, owed>>

Environment ==
    \/ ChildStops
    \/ ChildDies
    \/ \E s \in Streams, w \in {"line", "frag"} : ChildWrites(s, w)
    \/ \E s \in Streams : ChildCloses(s)
    \/ Expire

-----------------------------------------------------------------------------
(***************************************************************************)
(* One pass of Supervisor::run.                                            *)
(***************************************************************************)
Hup(s) == s \in closed \/ child.state = "zombie"
ReadyFds == (IF sigchld THEN {"sig"} ELSE {})
              \cup {s \in registered : pipe[s] # <<>> \/ Hup(s)}

\* epoll_wait returns what is ready, which is nothing when it times out.
Wait ==
    /\ apc = "wait"
    /\ todo' = ReadyFds /\ hups' = {s \in registered : Hup(s)}
    /\ apc' = "events"
    /\ UNCHANGED <<kernel, rings, emitted, workload, registered, buf, forced_token,
                   shutdown, owed>>

\* TOK_SIG: the signalfd is emptied first, the children are reaped after it.
DrainSigfd ==
    /\ apc = "events" /\ "sig" \in todo
    /\ sigchld' = FALSE
    /\ todo' = todo \ {"sig"}
    /\ apc' = "reap"
    /\ UNCHANGED <<child, pipe, closed, writes, rings, emitted, hups, workload, registered,
                   buf, forced_token, shutdown, owed>>

\* waitpid reports a stop: QuiesceReady with the outstanding token.
ReapStopped ==
    /\ apc = "reap" /\ child.report
    /\ child' = [child EXCEPT !.report = FALSE]
    /\ workload' = [workload EXCEPT !.stopped = TRUE]
    /\ ready' = ready \cup {forced_token}
    /\ UNCHANGED <<sigchld, pipe, closed, writes, rings, started, exited, apc, todo, hups,
                   registered, buf, forced_token, shutdown, owed>>

\* Lines the agent makes of what is in a pipe, and of what was left over.
LinesIn(q) == Len(SelectSeq(q, LAMBDA w : w = "line"))
LeftOver(s) == IF Open(s) THEN 1 ELSE 0

\* Mutant: an unterminated last line is not flushed.
ReapExitedNoFlush ==
    /\ apc = "reap" /\ child.state = "zombie"
    /\ owed' = [s \in Streams |-> owed[s] - LinesIn(pipe[s])]
    /\ exited' = exited + 1
    /\ child' = NoChild /\ workload' = NoWorkload
    /\ pipe' = Empty /\ buf' = {} /\ registered' = {}
    /\ UNCHANGED <<sigchld, closed, writes, rings, started, ready, apc, todo, hups,
                   forced_token, shutdown>>

\* waitpid reaps the child: the last of its output, then WorkloadExited.
ReapExited ==
    /\ apc = "reap" /\ child.state = "zombie"
    /\ owed' = [s \in Streams |-> owed[s] - (LinesIn(pipe[s]) + LeftOver(s))]
    /\ exited' = exited + 1
    /\ child' = NoChild /\ workload' = NoWorkload
    /\ pipe' = Empty /\ buf' = {} /\ registered' = {}
    /\ UNCHANGED <<sigchld, closed, writes, rings, started, ready, apc, todo, hups,
                   forced_token, shutdown>>

\* Mutant: waitpid is asked once for each SIGCHLD, not until it has nothing.
ReapOnce ==
    /\ apc = "reap"
    /\ apc' = "events"
    /\ UNCHANGED <<kernel, rings, emitted, todo, hups, workload, registered, buf,
                   forced_token, shutdown, owed>>

ReapDone ==
    /\ apc = "reap" /\ ~Reportable(child)
    /\ apc' = "events"
    /\ UNCHANGED <<kernel, rings, emitted, todo, hups, workload, registered, buf,
                   forced_token, shutdown, owed>>

\* Mutant: a pipe that has hung up stays registered.
ServicePipeKeeps(s) ==
    /\ apc = "events" /\ s \in todo
    /\ todo' = todo \ {s}
    /\ IF workload.running
       THEN /\ pipe' = [pipe EXCEPT ![s] = <<>>]
            /\ buf' = IF Open(s) THEN buf \cup {s} ELSE buf \ {s}
            /\ owed' = [owed EXCEPT ![s] = @ - LinesIn(pipe[s])]
       ELSE UNCHANGED <<pipe, buf, owed>>
    /\ UNCHANGED <<child, sigchld, closed, writes, rings, emitted, apc, hups, workload,
                   registered, forced_token, shutdown>>

\* TOK_OUT, TOK_ERR: drain the pipe, and drop its registration when the other
\* end has hung up.  After the child has been reaped there is nothing to do.
ServicePipe(s) ==
    /\ apc = "events" /\ s \in todo
    /\ todo' = todo \ {s}
    /\ IF workload.running
       THEN /\ pipe' = [pipe EXCEPT ![s] = <<>>]
            /\ buf' = IF Open(s) THEN buf \cup {s} ELSE buf \ {s}
            /\ owed' = [owed EXCEPT ![s] = @ - LinesIn(pipe[s])]
            /\ registered' = IF s \in hups THEN registered \ {s} ELSE registered
       ELSE UNCHANGED <<pipe, buf, owed, registered>>
    /\ UNCHANGED <<child, sigchld, closed, writes, rings, emitted, apc, hups, workload,
                   forced_token, shutdown>>

EventsDone ==
    /\ apc = "events" /\ todo = {}
    /\ apc' = "sweep"
    /\ UNCHANGED <<kernel, rings, emitted, todo, hups, workload, registered, buf,
                   forced_token, shutdown, owed>>

\* Mutants: power off when the grace period is over, the child reaped or not;
\* wait for the child without ever killing it.
SweepHasty ==
    /\ apc = "sweep"
    /\ apc' = IF shutdown = "expired" THEN "off" ELSE "cmds"
    /\ child' = IF shutdown = "expired" THEN Kill(child, "KILL") ELSE child
    /\ UNCHANGED <<sigchld, pipe, closed, writes, rings, emitted, todo, hups, workload,
                   registered, buf, forced_token, shutdown, owed>>
SweepNoKill ==
    /\ apc = "sweep"
    /\ apc' = IF shutdown # "none" /\ ~workload.running THEN "off" ELSE "cmds"
    /\ UNCHANGED <<kernel, rings, emitted, todo, hups, workload, registered, buf,
                   forced_token, shutdown, owed>>

\* Shutdown progress: kill after the grace period, power off once there is no
\* workload left.
Sweep ==
    /\ apc = "sweep"
    /\ apc' = IF shutdown # "none" /\ ~workload.running THEN "off" ELSE "cmds"
    /\ child' = IF shutdown = "expired" THEN Kill(child, "KILL") ELSE child
    /\ UNCHANGED <<sigchld, pipe, closed, writes, rings, emitted, todo, hups, workload,
                   registered, buf, forced_token, shutdown, owed>>

CommandsDone ==
    /\ apc = "cmds" /\ ringC = <<>>
    /\ apc' = "wait"
    /\ UNCHANGED <<kernel, rings, emitted, todo, hups, workload, registered, buf,
                   forced_token, shutdown, owed>>

-----------------------------------------------------------------------------
(***************************************************************************)
(* commands::handle, one command of ring C.                                *)
(***************************************************************************)
Takes(kind) ==
    /\ apc = "cmds" /\ ringC # <<>> /\ Head(ringC).kind = kind
    /\ ringC' = Tail(ringC)
    /\ UNCHANGED pushed

\* AgentChannel::relay_workload_ctrl: a record that does not fit is lost, the
\* caller discards the error.
Relay(rec) == ringI' = IF Len(ringI) < CapI THEN Append(ringI, rec) ELSE ringI

\* Mutant: a second workload is started beside the first.
HandleStartAnyway ==
    /\ Takes("StartWorkload")
    /\ child' = Spawned
    /\ workload' = [running |-> TRUE, stopped |-> FALSE]
    /\ registered' = Streams
    /\ pipe' = Empty /\ closed' = {} /\ writes' = None /\ buf' = {}
    /\ started' = started + 1
    /\ UNCHANGED <<sigchld, ringI, exited, ready, apc, todo, hups, forced_token, shutdown, owed>>

\* Supervisor::start_unit: refused while a workload is there; an unknown unit
\* ends the loop with an error.
HandleStart ==
    /\ Takes("StartWorkload")
    /\ IF workload.running
       THEN UNCHANGED <<child, workload, registered, pipe, closed, writes, buf, started>>
       ELSE /\ child' = Spawned
            /\ workload' = [running |-> TRUE, stopped |-> FALSE]
            /\ registered' = Streams
            /\ pipe' = Empty /\ closed' = {} /\ writes' = None /\ buf' = {}
            /\ started' = started + 1
    /\ UNCHANGED <<sigchld, ringI, exited, ready, apc, todo, hups, forced_token, shutdown, owed>>

HandleStartUnknown ==
    /\ Takes("StartUnknown")
    /\ apc' = IF workload.running THEN apc ELSE "failed"
    /\ UNCHANGED <<kernel, ringI, emitted, todo, hups, workload, registered, buf,
                   forced_token, shutdown, owed>>

HandleCoop ==
    /\ Takes("Quiesce") /\ Head(ringC).mode = "COOP"
    /\ Relay(QuiesceReq(Head(ringC).token))
    /\ UNCHANGED <<kernel, emitted, agent, owed>>

\* Mutant: QuiesceReady is sent in place of the SIGSTOP.
HandleForcedAcks ==
    /\ Takes("Quiesce") /\ Head(ringC).mode = "FORCED"
    /\ forced_token' = Head(ringC).token
    /\ ready' = ready \cup {Head(ringC).token}
    /\ UNCHANGED <<kernel, ringI, started, exited, apc, todo, hups, workload, registered,
                   buf, shutdown, owed>>

\* Supervisor::forced_quiesce: stop the child and let the reap acknowledge, or
\* acknowledge at once when there is no workload.
HandleForced ==
    /\ Takes("Quiesce") /\ Head(ringC).mode = "FORCED"
    /\ forced_token' = Head(ringC).token
    /\ IF workload.running
       THEN child' = Kill(child, "STOP") /\ UNCHANGED ready
       ELSE ready' = ready \cup {Head(ringC).token} /\ UNCHANGED child
    /\ UNCHANGED <<sigchld, pipe, closed, writes, ringI, started, exited, apc, todo, hups,
                   workload, registered, buf, shutdown, owed>>

\* Mutants: the view of the child is not updated; the child is not continued.
HandleResumeKeepsView ==
    /\ Takes("Resume")
    /\ child' = IF workload.stopped THEN Continue(child) ELSE child
    /\ Relay(Resume(Head(ringC).token))
    /\ UNCHANGED <<sigchld, pipe, closed, writes, emitted, agent, owed>>
HandleResumeNoCont ==
    /\ Takes("Resume")
    /\ workload' = [workload EXCEPT !.stopped = FALSE]
    /\ Relay(Resume(Head(ringC).token))
    /\ UNCHANGED <<kernel, emitted, apc, todo, hups, registered, buf, forced_token,
                   shutdown, owed>>

\* Supervisor::forced_resume, then the relay for a parked SDK.
HandleResume ==
    /\ Takes("Resume")
    /\ child' = IF workload.stopped THEN Continue(child) ELSE child
    /\ workload' = [workload EXCEPT !.stopped = FALSE]
    /\ Relay(Resume(Head(ringC).token))
    /\ UNCHANGED <<sigchld, pipe, closed, writes, emitted, apc, todo, hups, registered, buf,
                   forced_token, shutdown, owed>>

\* begin_graceful_shutdown: the deadline is set anew by every command, and has
\* passed already when there is no workload.
HandleGraceful ==
    /\ Takes("Shutdown") /\ Head(ringC).mode = "graceful"
    /\ child' = Kill(child, "TERM")
    /\ shutdown' = IF workload.running THEN "armed" ELSE "expired"
    /\ UNCHANGED <<sigchld, pipe, closed, writes, ringI, emitted, apc, todo, hups, workload,
                   registered, buf, forced_token, owed>>

\* immediate_shutdown: kill, wait for the child, report, and leave the loop.
HandleImmediate ==
    /\ Takes("Shutdown") /\ Head(ringC).mode = "immediate"
    /\ child' = NoChild /\ workload' = NoWorkload
    /\ exited' = IF workload.running THEN exited + 1 ELSE exited
    /\ apc' = "off"
    /\ UNCHANGED <<sigchld, pipe, closed, writes, ringI, started, ready, todo, hups,
                   registered, buf, forced_token, shutdown, owed>>

\* SetLogMask and ReverifyRegions change nothing that is modelled here.
HandleOther ==
    /\ Takes("Other")
    /\ UNCHANGED <<kernel, ringI, emitted, agent, owed>>

Handle ==
    \/ HandleStart \/ HandleStartUnknown
    \/ HandleCoop \/ HandleForced \/ HandleResume
    \/ HandleGraceful \/ HandleImmediate \/ HandleOther

Agent ==
    \/ Wait \/ DrainSigfd \/ ReapStopped \/ ReapExited \/ ReapDone
    \/ \E s \in Streams : ServicePipe(s)
    \/ EventsDone \/ Sweep \/ Handle \/ CommandsDone

\* run has returned and the VM is powered off.
Off == apc \in {"off", "failed"}

Next ==
    \/ ~Off /\ Environment
    \/ ~Off /\ \E cmd \in Commands : PushCommand(cmd)
    \/ ~Off /\ Agent
    \/ Off /\ UNCHANGED vars

\* The loop runs on a periodic timer, virtual time passes, and the kernel
\* carries out the signals it has been given.  Nothing makes a workload exit,
\* or the host send anything.
Fairness ==
    /\ WF_vars(~Off /\ Agent)
    /\ WF_vars(~Off /\ Expire)
    /\ WF_vars(~Off /\ ChildStops)
    /\ WF_vars(~Off /\ "KILL" \in child.pending /\ ChildDies)

Spec == Init /\ [][Next]_vars /\ Fairness

-----------------------------------------------------------------------------
\* Every workload that was started is either the one the supervisor holds, and
\* then the kernel still has it, or its exit has been reported, once.
AccountedFor ==
    /\ workload.running <=> child.state # "none"
    /\ started = exited + IF workload.running THEN 1 ELSE 0

\* However run ends, the VM is not powered off under a live workload and no
\* exit goes unreported.
NoOrphanAtPowerOff == Off => child.state = "none" /\ started = exited

\* The signalfd is emptied before waitpid is asked, so a child that stops or
\* dies in between is never forgotten by a loop that goes back to wait.
NoLostWakeup == apc = "wait" /\ Reportable(child) => sigchld

\* The supervisor takes the workload for stopped only while it is stopped (or
\* dead): a Resume is never spent on a running child.
StoppedViewIsTrue == workload.stopped => child.state \in {"stopped", "zombie"}

\* When the loop reports an exit, everything the workload wrote has become
\* lines, an unterminated last line included, and no line was made twice.
OutputComplete ==
    [][exited' # exited /\ apc' # "off" => \A s \in Streams : owed'[s] = 0]_vars

\* A shutdown that was begun ends with the VM powered off, whatever the child
\* does: ignore SIGTERM, stand stopped, or die in any order with the commands.
ShutdownCompletes == shutdown # "none" ~> Off

\* A pipe whose other end has hung up does not keep the loop awake for ever.
NoBusySpin == \A s \in Streams : s \in ReadyFds ~> (s \notin ReadyFds \/ Off)

-----------------------------------------------------------------------------
\* The inductive invariant behind the safety properties: a stop that waitpid has
\* still to report is a stop that stands, and what waitpid has to report is
\* announced by the signalfd or is being asked for.
SInv ==
    /\ child \in Process /\ workload \in Workload
    /\ started \in Nat /\ exited \in Nat
    /\ AccountedFor
    /\ Off => ~workload.running
    /\ StoppedViewIsTrue
    /\ child.report => child.state = "stopped"
    /\ Reportable(child) => sigchld = TRUE \/ apc = "reap"
=============================================================================
