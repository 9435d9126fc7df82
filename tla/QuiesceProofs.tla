--------------------------- MODULE QuiesceProofs ---------------------------
(***************************************************************************)
(* The safety of the agent's loop for any set of streams, commands and     *)
(* tokens, any ring capacity and any number of commands: the supervisor's  *)
(* book-keeping and the kernel never disagree about the child.  On it      *)
(* rests the quiesce protocol, safe for every way the host may quiesce: an *)
(* acknowledged workload stays stopped or parked until the host resumes it.*)
(***************************************************************************)
EXTENDS Quiesce, TLAPS

-----------------------------------------------------------------------------
(***************************************************************************)
(* What the kernel's operations do to a process.                           *)
(***************************************************************************)
\* kill(2) leaves signals pending and changes nothing else at once.
LEMMA KillFacts ==
    ASSUME NEW p \in Process, NEW sig \in Signals
    PROVE  /\ Kill(p, sig) \in Process
           /\ Kill(p, sig).state = p.state
           /\ Kill(p, sig).report = p.report
BY DEF Kill, Process, Alive

\* SIGCONT takes a stop back with its report, and revives nothing.
LEMMA ContinueFacts ==
    ASSUME NEW p \in Process
    PROVE  /\ Continue(p) \in Process
           /\ Continue(p).state = "none" <=> p.state = "none"
           /\ Continue(p).state = "zombie" <=> p.state = "zombie"
           /\ Alive(p) => Continue(p).report = FALSE
           /\ ~Alive(p) => Continue(p) = p
BY DEF Continue, Process, Alive, Signals

\* A stop that lands is a stopped process with a report to make.
LEMMA StopFacts ==
    ASSUME NEW p \in Process, NEW q, StopLands(p, q)
    PROVE  q \in Process /\ p.state = "running" /\ q.state = "stopped"
BY DEF StopLands, Process

\* Only a live process dies; it leaves a zombie and no stop to report.
LEMMA DeathFacts ==
    ASSUME NEW p \in Process, NEW q, Dies(p, q)
    PROVE  q \in Process /\ Alive(p) /\ q.state = "zombie" /\ q.report = FALSE
BY DEF Dies, Process, Alive, Runs

\* The slot before a fork holds no child, and a fork makes a running one; neither
\* has a stop for waitpid to report.
LEMMA FreshFacts ==
    /\ NoChild \in Process /\ NoChild.state = "none" /\ NoChild.report = FALSE
    /\ Spawned \in Process /\ Spawned.state = "running" /\ Spawned.report = FALSE
BY DEF NoChild, Spawned, Process

-----------------------------------------------------------------------------
\* The loop starts after Ready with the invariant in place.
LEMMA InitSInv == Init => SInv
BY FreshFacts DEF Init, SInv, AccountedFor, StoppedViewIsTrue, Off, Reportable,
                  NoChild, Spawned, Process, Workload

\* What every case below uses of the invariant, spelled out once.
LEMMA SInvFacts ==
    ASSUME SInv
    PROVE  /\ child \in Process /\ workload \in Workload
           /\ workload.running \in BOOLEAN /\ workload.stopped \in BOOLEAN
           /\ started \in Nat /\ exited \in Nat
           /\ workload.running <=> child.state # "none"
           /\ workload.running => started = exited + 1
           /\ ~workload.running => started = exited
           /\ workload.stopped => child.state \in {"stopped", "zombie"}
           /\ child.report => child.state = "stopped"
           /\ child.state = "zombie" \/ child.report => sigchld = TRUE \/ apc = "reap"
BY DEF SInv, AccountedFor, StoppedViewIsTrue, Reportable, Workload

\* A step that leaves the child and its book-keeping alone, and does not take
\* the loop out of the reap with a report outstanding, keeps the invariant.
LEMMA QuietSInv ==
    ASSUME SInv, UNCHANGED <<child, sigchld, workload, started, exited>>,
           apc' # apc => (apc # "reap" \/ ~Reportable(child)),
           apc' \in {"off", "failed"} => apc' = apc \/ ~workload.running
    PROVE  SInv'
BY DEF SInv, AccountedFor, StoppedViewIsTrue, Off, Reportable

\* The kernel and the workload.
LEMMA EnvironmentSInv == SInv /\ Environment => SInv'
<1> SUFFICES ASSUME SInv, Environment PROVE SInv'
  OBVIOUS
<1>1. CASE ChildStops
  <2>1. child' \in Process /\ child.state = "running" /\ child'.state = "stopped"
    BY <1>1, SInvFacts, StopFacts DEF ChildStops
  <2>2. sigchld' = TRUE /\ UNCHANGED <<workload, started, exited, apc>>
    BY <1>1 DEF ChildStops, emitted, agent
  <2> QED
    BY <2>1, <2>2 DEF SInv, AccountedFor, StoppedViewIsTrue, Off, Reportable
<1>2. CASE ChildDies
  <2>1. child' \in Process /\ Alive(child) /\ child'.state = "zombie" /\ child'.report = FALSE
    BY <1>2, SInvFacts, DeathFacts DEF ChildDies
  <2>2. sigchld' = TRUE /\ UNCHANGED <<workload, started, exited, apc>>
    BY <1>2 DEF ChildDies, emitted, agent
  <2> QED
    BY <2>1, <2>2 DEF SInv, AccountedFor, StoppedViewIsTrue, Off, Reportable, Alive
<1>3. CASE \E s \in Streams, w \in {"line", "frag"} : ChildWrites(s, w)
  BY <1>3, QuietSInv DEF ChildWrites, emitted, agent
<1>4. CASE \E s \in Streams : ChildCloses(s)
  BY <1>4, QuietSInv DEF ChildCloses, emitted, agent
<1>5. CASE Expire
  BY <1>5, QuietSInv DEF Expire, kernel, emitted
<1> QED
  BY <1>1, <1>2, <1>3, <1>4, <1>5 DEF Environment

\* The steps of one pass of the loop, up to the commands.
LEMMA LoopSInv ==
    ASSUME SInv,
           \/ Wait \/ DrainSigfd \/ ReapStopped \/ ReapExited \/ ReapDone
           \/ \E s \in Streams : ServicePipe(s)
           \/ EventsDone \/ Sweep \/ CommandsDone
    PROVE  SInv'
<1>1. CASE Wait
  BY <1>1, QuietSInv DEF Wait, kernel, emitted
<1>2. CASE DrainSigfd
  <2>1. apc' = "reap" /\ UNCHANGED <<child, workload, started, exited>>
    BY <1>2 DEF DrainSigfd, emitted
  <2> QED
    BY <2>1 DEF SInv, AccountedFor, StoppedViewIsTrue, Off, Reportable
<1>3. CASE ReapStopped
  <2>1. /\ child.report /\ apc' = "reap"
        /\ child' = [child EXCEPT !.report = FALSE]
        /\ workload' = [workload EXCEPT !.stopped = TRUE]
        /\ UNCHANGED <<started, exited>>
    BY <1>3 DEF ReapStopped
  <2>2. /\ child' \in Process /\ child'.state = "stopped" /\ child'.report = FALSE
        /\ workload' \in Workload /\ workload'.running = workload.running
    BY <2>1, SInvFacts DEF Process, Workload
  <2> QED
    BY <2>1, <2>2, SInvFacts DEF SInv, AccountedFor, StoppedViewIsTrue, Off, Reportable
<1>4. CASE ReapExited
  <2>1. /\ child.state = "zombie" /\ apc' = "reap" /\ exited' = exited + 1
        /\ child' = NoChild /\ workload' = NoWorkload /\ started' = started
    BY <1>4 DEF ReapExited
  <2>2. workload' \in Workload /\ ~workload'.running /\ ~workload'.stopped
    BY <2>1 DEF NoWorkload, Workload
  <2>3. started = exited + 1
    BY <2>1, SInvFacts
  <2> QED
    BY <2>1, <2>2, <2>3, SInvFacts, FreshFacts
       DEF SInv, AccountedFor, StoppedViewIsTrue, Off, Reportable
<1>5. CASE ReapDone
  BY <1>5, QuietSInv DEF ReapDone, kernel, emitted
<1>6. CASE \E s \in Streams : ServicePipe(s)
  BY <1>6, QuietSInv DEF ServicePipe, emitted
<1>7. CASE EventsDone
  BY <1>7, QuietSInv DEF EventsDone, kernel, emitted
<1>8. CASE Sweep
  <2>1. /\ child' \in Process /\ child'.state = child.state /\ child'.report = child.report
    BY <1>8, SInvFacts, KillFacts DEF Sweep, Signals
  <2>2. /\ apc = "sweep" /\ UNCHANGED <<sigchld, workload, started, exited>>
        /\ (apc' = "off" /\ ~workload.running) \/ apc' = "cmds"
    BY <1>8 DEF Sweep, emitted
  <2> QED
    BY <2>1, <2>2 DEF SInv, AccountedFor, StoppedViewIsTrue, Off, Reportable
<1>9. CASE CommandsDone
  BY <1>9, QuietSInv DEF CommandsDone, kernel, emitted
<1> QED
  BY <1>1, <1>2, <1>3, <1>4, <1>5, <1>6, <1>7, <1>8, <1>9

\* commands::handle, one command.
LEMMA HandleSInv == SInv /\ Handle => SInv'
<1> SUFFICES ASSUME SInv, Handle PROVE SInv'
  OBVIOUS
<1>1. CASE HandleStart
  <2>1. CASE workload.running
    BY <1>1, <2>1, QuietSInv DEF HandleStart
  <2>2. CASE ~workload.running
    <3>1. /\ child' = Spawned /\ workload' = [running |-> TRUE, stopped |-> FALSE]
          /\ started' = started + 1 /\ UNCHANGED <<sigchld, exited, apc>> /\ apc = "cmds"
      BY <1>1, <2>2 DEF HandleStart, Takes
    <3>2. workload' \in Workload /\ workload'.running /\ ~workload'.stopped
      BY <3>1 DEF Workload
    <3>3. started = exited
      BY <2>2, SInvFacts
    <3> QED
      BY <3>1, <3>2, <3>3, SInvFacts, FreshFacts
         DEF SInv, AccountedFor, StoppedViewIsTrue, Off, Reportable
  <2> QED
    BY <2>1, <2>2
<1>2. CASE HandleStartUnknown
  BY <1>2, QuietSInv DEF HandleStartUnknown, Takes, kernel, emitted
<1>3. CASE HandleCoop
  BY <1>3, QuietSInv DEF HandleCoop, kernel, emitted, agent
<1>4. CASE HandleForced
  <2>1. child' \in Process /\ child'.state = child.state /\ child'.report = child.report
    BY <1>4, SInvFacts, KillFacts DEF HandleForced, Signals
  <2>2. UNCHANGED <<sigchld, workload, started, exited, apc>>
    BY <1>4 DEF HandleForced
  <2> QED
    BY <2>1, <2>2 DEF SInv, AccountedFor, StoppedViewIsTrue, Off, Reportable
<1>5. CASE HandleResume
  <2>1. /\ UNCHANGED <<sigchld, started, exited, apc>>
        /\ child' = IF workload.stopped THEN Continue(child) ELSE child
        /\ workload' = [workload EXCEPT !.stopped = FALSE]
    BY <1>5 DEF HandleResume, emitted
  <2>2. workload' \in Workload /\ workload'.running = workload.running /\ ~workload'.stopped
    BY <2>1, SInvFacts DEF Workload
  <2>3. /\ child' \in Process
        /\ child'.state = "none" <=> child.state = "none"
        /\ child'.state = "zombie" <=> child.state = "zombie"
        /\ child'.report => child.report /\ child'.state = child.state
    BY <2>1, SInvFacts, ContinueFacts DEF Process, Alive
  <2> QED
    BY <2>1, <2>2, <2>3, SInvFacts DEF SInv, AccountedFor, StoppedViewIsTrue, Off, Reportable
<1>6. CASE HandleGraceful
  <2>1. child' \in Process /\ child'.state = child.state /\ child'.report = child.report
    BY <1>6, SInvFacts, KillFacts DEF HandleGraceful, Signals
  <2>2. UNCHANGED <<sigchld, workload, started, exited, apc>>
    BY <1>6 DEF HandleGraceful, emitted
  <2> QED
    BY <2>1, <2>2 DEF SInv, AccountedFor, StoppedViewIsTrue, Off, Reportable
<1>7. CASE HandleImmediate
  <2>1. /\ child' = NoChild /\ workload' = NoWorkload /\ started' = started
        /\ exited' = IF workload.running THEN exited + 1 ELSE exited
    BY <1>7 DEF HandleImmediate
  <2>2. workload' \in Workload /\ ~workload'.running /\ ~workload'.stopped
    BY <2>1 DEF NoWorkload, Workload
  <2>3. exited' \in Nat /\ started' = exited'
    BY <2>1, SInvFacts
  <2> QED
    BY <2>1, <2>2, <2>3, SInvFacts, FreshFacts
       DEF SInv, AccountedFor, StoppedViewIsTrue, Off, Reportable
<1>8. CASE HandleOther
  BY <1>8, QuietSInv DEF HandleOther, kernel, emitted, agent
<1> QED
  BY <1>1, <1>2, <1>3, <1>4, <1>5, <1>6, <1>7, <1>8 DEF Handle

\* Every step of the loop and of what surrounds it keeps the invariant.
LEMMA NextSInv == SInv /\ [Next]_vars => SInv'
<1> SUFFICES ASSUME SInv, [Next]_vars PROVE SInv'
  OBVIOUS
<1>1. CASE Environment
  BY <1>1, EnvironmentSInv
<1>2. CASE \E cmd \in Commands : PushCommand(cmd)
  BY <1>2, QuietSInv DEF PushCommand, kernel, emitted, agent
<1>3. CASE Agent
  BY <1>3, LoopSInv, HandleSInv DEF Agent
<1>4. CASE UNCHANGED vars
  BY <1>4, QuietSInv DEF vars, kernel, emitted, agent
<1> QED
  BY <1>1, <1>2, <1>3, <1>4 DEF Next

\* The inductive invariant holds in every reachable state of the loop.
THEOREM SupervisorInvariance == Spec => []SInv
BY InitSInv, NextSInv, PTL DEF Spec

-----------------------------------------------------------------------------
\* Whatever the commands and the order they come in, every workload started is
\* the one the kernel has or was reported as exited, once (start_unit_inner,
\* handle_child_status, immediate_shutdown).
THEOREM AlwaysAccountedFor == Spec => []AccountedFor
<1>1. SInv => AccountedFor
  BY DEF SInv
<1> QED
  BY <1>1, SupervisorInvariance, PTL

\* The VM is never powered off under a live workload or with an exit that was
\* not reported (run's shutdown progress, immediate_shutdown).
THEOREM NoOrphans == Spec => []NoOrphanAtPowerOff
<1>1. SInv => NoOrphanAtPowerOff
  BY SInvFacts DEF SInv, NoOrphanAtPowerOff
<1> QED
  BY <1>1, SupervisorInvariance, PTL

\* A loop that goes back to epoll_wait has not forgotten a child that stopped or
\* died between the signalfd read and waitpid (run, reap).
THEOREM NoWakeupLost == Spec => []NoLostWakeup
<1>1. SInv => NoLostWakeup
  BY DEF SInv, NoLostWakeup
<1> QED
  BY <1>1, SupervisorInvariance, PTL

\* Workload.stopped is set only while the child stands stopped or is dead
\* (handle_child_status, forced_resume).
THEOREM StoppedViewTrue == Spec => []StoppedViewIsTrue
<1>1. SInv => StoppedViewIsTrue
  BY DEF SInv
<1> QED
  BY <1>1, SupervisorInvariance, PTL

-----------------------------------------------------------------------------
(***************************************************************************)
(* The quiesce protocol on top of the loop.                                *)
(***************************************************************************)
\* What a record on ring C is, by its kind.
LEMMA CommandFacts ==
    ASSUME NEW c \in CommandC
    PROVE  /\ c.kind \in {"StartWorkload", "Quiesce", "Resume"}
           /\ c.kind = "StartWorkload" <=> c = StartWorkload
           /\ c # StartWorkload => c.token \in Nat
           /\ c.kind = "Quiesce" => c = Quiesce(c.token, c.mode) /\ c.mode \in {"COOP", "FORCED"}
           /\ c.kind = "Resume" => c = Resume(c.token)
BY DEF CommandC, StartWorkload, Quiesce, Resume

\* The records of the protocol are legal on their rings.
LEMMA RecordFacts ==
    ASSUME NEW t \in Nat, NEW m \in {"COOP", "FORCED"}
    PROVE  /\ Quiesce(t, m) \in CommandC /\ Resume(t) \in CommandC /\ StartWorkload \in CommandC
           /\ QuiesceReq(t) \in ControlI /\ Resume(t) \in ControlI
           /\ Quiesce(t, m) # StartWorkload /\ Quiesce(t, m).token = t
           /\ Quiesce(t, m).kind = "Quiesce" /\ Quiesce(t, m).mode = m
           /\ Resume(t) # StartWorkload /\ Resume(t).token = t /\ Resume(t).kind = "Resume"
           /\ QuiesceReq(t).token = t /\ QuiesceReq(t).kind = "QuiesceReq"
           /\ \A u : Quiesce(t, m) # Resume(u) /\ QuiesceReq(t) # Resume(u)
           /\ \A u : Resume(t) # QuiesceReq(u)
BY DEF CommandC, ControlI, StartWorkload, Quiesce, Resume, QuiesceReq

\* A step of the kernel or of the loop that takes no command leaves the rings
\* alone, lets no stopped child run, and acknowledges only a stop that stands.
QuietStep ==
    /\ UNCHANGED <<ringC, ringI, forced_token, started>>
    /\ Runs(child') => Runs(child)
    /\ \/ ready' = ready
       \/ ready' = ready \cup {forced_token} /\ ~Runs(child')

\* The child's and the kernel's steps and the passing of virtual time are such steps.
LEMMA EnvironmentIsQuiet == SInv /\ Environment => QuietStep
<1> SUFFICES ASSUME SInv, Environment PROVE QuietStep
  OBVIOUS
<1>1. CASE ChildStops
  BY <1>1, SInvFacts, StopFacts DEF ChildStops, QuietStep, rings, emitted, agent, Runs
<1>2. CASE ChildDies
  BY <1>2, SInvFacts, DeathFacts DEF ChildDies, QuietStep, rings, emitted, agent, Runs
<1>3. CASE \E s \in Streams, w \in {"line", "frag"} : ChildWrites(s, w)
  BY <1>3 DEF ChildWrites, QuietStep, rings, emitted, agent
<1>4. CASE \E s \in Streams : ChildCloses(s)
  BY <1>4 DEF ChildCloses, QuietStep, rings, emitted, agent
<1>5. CASE Expire
  BY <1>5 DEF Expire, QuietStep, kernel, rings, emitted
<1> QED
  BY <1>1, <1>2, <1>3, <1>4, <1>5 DEF Environment

\* The steps of Supervisor::run that take no command off ring C.
Loop ==
    \/ Wait \/ DrainSigfd \/ ReapStopped \/ ReapExited \/ ReapDone
    \/ \E s \in Streams : ServicePipe(s)
    \/ EventsDone \/ Sweep \/ CommandsDone

\* The steps of the loop are such steps too: the reap of a stop acknowledges the token
\* the agent holds, of a child that is then stopped.
LEMMA LoopIsQuiet == SInv /\ Loop => QuietStep
<1> SUFFICES ASSUME SInv, Loop PROVE QuietStep
  OBVIOUS
<1>1. CASE Wait
  BY <1>1 DEF Wait, QuietStep, kernel, rings, emitted
<1>2. CASE DrainSigfd
  BY <1>2 DEF DrainSigfd, QuietStep, rings, emitted
<1>3. CASE ReapStopped
  <2>1. child'.state = "stopped"
    BY <1>3, SInvFacts DEF ReapStopped, Process
  <2> QED
    BY <1>3, <2>1 DEF ReapStopped, QuietStep, rings, Runs
<1>4. CASE ReapExited
  BY <1>4, FreshFacts DEF ReapExited, QuietStep, rings, Runs
<1>5. CASE ReapDone
  BY <1>5 DEF ReapDone, QuietStep, kernel, rings, emitted
<1>6. CASE \E s \in Streams : ServicePipe(s)
  BY <1>6 DEF ServicePipe, QuietStep, rings, emitted
<1>7. CASE EventsDone
  BY <1>7 DEF EventsDone, QuietStep, kernel, rings, emitted
<1>8. CASE Sweep
  <2>1. Runs(child') => Runs(child)
    BY <1>8, SInvFacts DEF Sweep, Kill, Process, Runs
  <2> QED
    BY <1>8, <2>1 DEF Sweep, QuietStep, rings, emitted
<1>9. CASE CommandsDone
  BY <1>9 DEF CommandsDone, QuietStep, kernel, rings, emitted
<1> QED
  BY <1>1, <1>2, <1>3, <1>4, <1>5, <1>6, <1>7, <1>8, <1>9 DEF Loop

\* Such a step keeps the invariant.
LEMMA QuietQInv ==
    ASSUME QInv, SInv', QuietStep, UNCHANGED <<sdk, host>>
    PROVE  QInv'
<1>1. QTyped'
  BY DEF QInv, QTyped, QuietStep
<1>2. NewestToken'
  BY DEF QInv, QTyped, NewestToken, QuietStep
<1>3. NoResumeYet => NoResumeYet'
  BY DEF NoResumeYet, QuietStep
<1>4. NotRelayed => NotRelayed'
  BY DEF NotRelayed, QuietStep
<1>5. Undelivered => Undelivered'
  BY <1>4 DEF Undelivered, QuietStep
<1>6. Delivered => Delivered'
  BY <1>4 DEF Delivered, QuietStep
<1> QED
  BY <1>1, <1>2, <1>3, <1>5, <1>6 DEF QInv, QuietStep

-----------------------------------------------------------------------------
(***************************************************************************)
(* The commands.                                                           *)
(***************************************************************************)
\* A relayed record is the only thing new on ring I, if it got there at all.
LEMMA RelayFacts ==
    ASSUME ringI \in Seq(ControlI), NEW rec \in ControlI, Relay(rec)
    PROVE  /\ ringI' \in Seq(ControlI)
           /\ \A i \in DOMAIN ringI' : ringI'[i] = rec \/ \E j \in DOMAIN ringI : ringI'[i] = ringI[j]
BY DEF Relay

\* The rest of ring C after a command is taken: what was there, moved up.
LEMMA TakeFacts ==
    ASSUME QInv, NEW kind, Takes(kind)
    PROVE  /\ Head(ringC) \in CommandC /\ Head(ringC).kind = kind
           /\ Head(ringC) = ringC[1] /\ Len(ringC) \in Nat \ {0}
           /\ ringC' \in Seq(CommandC) /\ Len(ringC') = Len(ringC) - 1
           /\ \A i \in DOMAIN ringC' : i + 1 \in DOMAIN ringC /\ ringC'[i] = ringC[i + 1]
           /\ Head(ringC) # StartWorkload => Head(ringC).token <= host.token
BY DEF QInv, QTyped, Takes, NewestToken

\* Where the taken command stands to the host's own: it is the host's Quiesce and
\* ring C is empty behind it, or it is older and the Quiesce still waits.
OwnTaken ==
    /\ Head(ringC) = Quiesce(host.token, host.path.mode) /\ ringC' = <<>>
    /\ host.token \notin ready /\ forced_token # host.token /\ NotRelayed
OlderTaken ==
    /\ Head(ringC) # StartWorkload => Head(ringC).token # host.token
    /\ ringC' # <<>> /\ ringC'[Len(ringC')] = Quiesce(host.token, host.path.mode)
    /\ \A i \in 1 .. Len(ringC') - 1 :
          ringC'[i] # StartWorkload => ringC'[i].token # host.token
    /\ host.token \notin ready /\ forced_token # host.token /\ NotRelayed

\* While a quiesce is under way, the command that drain_ring_c takes is the host's own
\* Quiesce or an older one, and its Resume is not on the way.
LEMMA TakenFacts ==
    ASSUME QInv, NEW kind, Takes(kind), host.phase # "idle"
    PROVE  NoResumeYet /\ (OwnTaken \/ OlderTaken)
<1>1. NoResumeYet /\ Undelivered
  BY DEF QInv, Takes, Delivered
<1>2. CASE Len(ringC) = 1
  BY <1>1, <1>2, TakeFacts DEF Undelivered, OwnTaken
<1>3. CASE Len(ringC) # 1
  <2>0. Len(ringC) \in Nat \ {0} /\ Len(ringC') = Len(ringC) - 1
    BY TakeFacts
  <2>1. Len(ringC') \in Nat \ {0} /\ Len(ringC') = Len(ringC) - 1
    BY <1>3, <2>0
  <2>2. ringC'[Len(ringC')] = ringC[Len(ringC)]
    BY <2>1, TakeFacts
  <2>3. \A i \in 1 .. Len(ringC') - 1 : ringC'[i] = ringC[i + 1] /\ i + 1 \in 1 .. Len(ringC) - 1
    BY <2>1, TakeFacts
  <2>4. 1 \in 1 .. Len(ringC) - 1
    BY <2>1
  <2>5. Head(ringC) # StartWorkload => Head(ringC).token # host.token
    BY <1>1, <2>4, TakeFacts DEF Undelivered
  <2>6. ringC' # <<>>
    BY <2>1
  <2> QED
    BY <1>1, <2>2, <2>3, <2>5, <2>6 DEF Undelivered, OlderTaken
<1> QED
  BY <1>2, <1>3

\* A command taken leaves the tokens of ring C in order.
LEMMA TakenTokens ==
    ASSUME QInv, NEW kind, Takes(kind), UNCHANGED host
    PROVE  /\ \A i \in DOMAIN ringC' : ringC'[i] # StartWorkload => ringC'[i].token <= host'.token
           /\ NoResumeYet => \A i \in DOMAIN ringC' : ringC'[i] # Resume(host'.token)
BY TakeFacts DEF QInv, NewestToken, NoResumeYet

\* The invariant after a command, from what the command changed.
LEMMA CommandQInv ==
    ASSUME QInv, SInv', NEW kind, Takes(kind), UNCHANGED host,
           sdk' \in [parked : BOOLEAN, token : Nat],
           ringI' \in Seq(ControlI), forced_token' \in Nat, ready' \subseteq Nat,
           \A i \in DOMAIN ringI' : ringI'[i].token <= host.token,
           \A t \in ready' : t <= host.token,
           forced_token' <= host.token,
           host.phase # "idle" =>
               /\ \A i \in DOMAIN ringI' : ringI'[i] # Resume(host.token)
               /\ OwnTaken => Delivered'
               /\ OlderTaken => host.token \notin ready' /\ forced_token' # host.token /\ NotRelayed'
    PROVE  QInv'
<1>1. QTyped'
  BY TakeFacts DEF QInv, QTyped
<1>2. NewestToken'
  BY TakenTokens DEF NewestToken
<1>3. ASSUME host.phase # "idle" PROVE NoResumeYet' /\ (Undelivered' \/ Delivered') /\ host.phase # "ready"
  <2>1. NoResumeYet'
    BY <1>3, TakenTokens, TakenFacts DEF NoResumeYet
  <2>2. OlderTaken => Undelivered'
    BY <1>3 DEF OlderTaken, Undelivered
  <2>3. host.token \notin ready
    BY <1>3, TakenFacts DEF OwnTaken, OlderTaken
  <2> QED
    BY <1>3, <2>1, <2>2, <2>3, TakenFacts DEF QInv
<1> QED
  BY <1>1, <1>2, <1>3 DEF QInv

\* commands::handle, one command of ring C.
LEMMA HandleQInv ==
    ASSUME QInv, SInv', Handle, sdk' = IF started' # started THEN NotParked ELSE sdk,
           UNCHANGED host
    PROVE  QInv'
<1> DEFINE c == Head(ringC)
<1>1. /\ sdk' \in [parked : BOOLEAN, token : Nat] /\ host.token \in Nat
      /\ ringI \in Seq(ControlI) /\ forced_token \in Nat /\ ready \subseteq Nat
      /\ \A i \in DOMAIN ringI : ringI[i].token <= host.token
      /\ \A t \in ready : t <= host.token
      /\ forced_token <= host.token
  BY DEF QInv, QTyped, NewestToken, NotParked
<1>2. CASE HandleStart
  <2>1. Takes("StartWorkload") /\ UNCHANGED <<ringI, ready, forced_token>>
    BY <1>2 DEF HandleStart
  <2>2. c.kind = "StartWorkload"
    BY <2>1, TakeFacts
  <2>3. ~OwnTaken
    BY <2>2 DEF OwnTaken, Quiesce
  <2>4. host.phase # "idle" => \A i \in DOMAIN ringI' : ringI'[i] # Resume(host.token)
    BY <2>1, TakenFacts DEF NoResumeYet
  <2>5. OlderTaken => host.token \notin ready' /\ forced_token' # host.token /\ NotRelayed'
    BY <2>1 DEF OlderTaken, NotRelayed
  <2> QED
    BY <1>1, <2>1, <2>3, <2>4, <2>5, CommandQInv
<1>3. CASE HandleCoop
  <2>1. /\ Takes("Quiesce") /\ c.mode = "COOP" /\ Relay(QuiesceReq(c.token))
        /\ UNCHANGED <<child, ready, forced_token>>
    BY <1>3 DEF HandleCoop, kernel, emitted, agent
  <2>2. c = Quiesce(c.token, "COOP") /\ c.token \in Nat /\ c.token <= host.token
    BY <2>1, TakeFacts, CommandFacts DEF StartWorkload
  <2>3. QuiesceReq(c.token) \in ControlI /\ QuiesceReq(c.token).token = c.token
    BY <2>2, RecordFacts
  <2>4. /\ ringI' \in Seq(ControlI)
        /\ \A i \in DOMAIN ringI' :
             ringI'[i] = QuiesceReq(c.token) \/ \E j \in DOMAIN ringI : ringI'[i] = ringI[j]
    BY <1>1, <2>1, <2>3, RelayFacts
  <2>5. \A i \in DOMAIN ringI' : ringI'[i].token <= host.token
    BY <1>1, <2>2, <2>3, <2>4
  <2>6. QuiesceReq(c.token) # Resume(host.token)
    BY <2>2, RecordFacts
  <2>7. host.phase # "idle" => \A i \in DOMAIN ringI' : ringI'[i] # Resume(host.token)
    BY <2>1, <2>4, <2>6, TakenFacts DEF NoResumeYet
  <2>8. OwnTaken => Delivered'
    <3> SUFFICES ASSUME OwnTaken PROVE Delivered'
      OBVIOUS
    <3>1. host.path.mode = "COOP"
      BY <2>2 DEF OwnTaken, Quiesce
    <3> QED
      BY <2>1, <3>1 DEF OwnTaken, Delivered
  <2>9. OlderTaken => host.token \notin ready' /\ forced_token' # host.token /\ NotRelayed'
    <3> SUFFICES ASSUME OlderTaken PROVE NotRelayed'
      BY <2>1 DEF OlderTaken
    <3>1. c # StartWorkload
      BY <2>2 DEF Quiesce, StartWorkload
    <3>2. QuiesceReq(c.token) # QuiesceReq(host.token)
      BY <3>1 DEF OlderTaken, QuiesceReq
    <3> QED
      BY <2>4, <3>2 DEF OlderTaken, NotRelayed
  <2> QED
    BY <1>1, <2>1, <2>4, <2>5, <2>7, <2>8, <2>9, CommandQInv
<1>4. CASE HandleForced
  <2>1. /\ Takes("Quiesce") /\ c.mode = "FORCED" /\ forced_token' = c.token
        /\ ready' = ready \/ (ready' = ready \cup {c.token} /\ ~workload.running /\ UNCHANGED child)
        /\ UNCHANGED ringI
    BY <1>4 DEF HandleForced
  <2>2. c = Quiesce(c.token, "FORCED") /\ c.token \in Nat /\ c.token <= host.token
    BY <2>1, TakeFacts, CommandFacts DEF StartWorkload
  <2>3. ~workload.running => ~Runs(child)
    BY SInvFacts DEF QInv, Runs
  <2>4. ready' \subseteq Nat /\ \A t \in ready' : t <= host.token
    BY <1>1, <2>1, <2>2
  <2>5. host.phase # "idle" => \A i \in DOMAIN ringI' : ringI'[i] # Resume(host.token)
    BY <2>1, TakenFacts DEF NoResumeYet
  <2>6. OwnTaken => Delivered'
    <3> SUFFICES ASSUME OwnTaken PROVE Delivered'
      OBVIOUS
    <3>1. host.path.mode = "FORCED"
      BY <2>2 DEF OwnTaken, Quiesce
    <3>2. host.token \in ready' => ~Runs(child')
      BY <2>1, <2>3 DEF OwnTaken
    <3> QED
      BY <2>1, <3>1, <3>2 DEF OwnTaken, Delivered, NotRelayed
  <2>7. OlderTaken => host.token \notin ready' /\ forced_token' # host.token /\ NotRelayed'
    <3> SUFFICES ASSUME OlderTaken PROVE host.token \notin ready' /\ c.token # host.token /\ NotRelayed'
      BY <2>1
    <3>1. c # StartWorkload
      BY <2>2 DEF Quiesce, StartWorkload
    <3> QED
      BY <2>1, <3>1 DEF OlderTaken, NotRelayed
  <2> QED
    BY <1>1, <2>1, <2>2, <2>4, <2>5, <2>6, <2>7, CommandQInv
<1>5. CASE HandleResume
  <2>1. /\ Takes("Resume") /\ Relay(Resume(c.token))
        /\ UNCHANGED <<ready, forced_token>>
    BY <1>5 DEF HandleResume, emitted
  <2>2. c = Resume(c.token) /\ c.token \in Nat /\ c.token <= host.token
    BY <2>1, TakeFacts, CommandFacts DEF StartWorkload
  <2>3. Resume(c.token) \in ControlI /\ Resume(c.token).token = c.token
    BY <2>2, RecordFacts
  <2>4. /\ ringI' \in Seq(ControlI)
        /\ \A i \in DOMAIN ringI' :
             ringI'[i] = Resume(c.token) \/ \E j \in DOMAIN ringI : ringI'[i] = ringI[j]
    BY <1>1, <2>1, <2>3, RelayFacts
  <2>5. \A i \in DOMAIN ringI' : ringI'[i].token <= host.token
    BY <1>1, <2>2, <2>3, <2>4
  <2>6. ~OwnTaken
    BY <2>2 DEF OwnTaken, Quiesce, Resume
  <2>7. host.phase # "idle" => \A i \in DOMAIN ringI' : ringI'[i] # Resume(host.token)
    <3> SUFFICES ASSUME host.phase # "idle" PROVE \A i \in DOMAIN ringI' : ringI'[i] # Resume(host.token)
      OBVIOUS
    <3>1. NoResumeYet /\ OlderTaken
      BY <2>1, <2>6, TakenFacts
    <3>2. c # StartWorkload
      BY <2>2 DEF Resume, StartWorkload
    <3>3. Resume(c.token) # Resume(host.token)
      BY <3>1, <3>2 DEF OlderTaken, Resume
    <3> QED
      BY <2>4, <3>1, <3>3 DEF NoResumeYet
  <2>8. OlderTaken => host.token \notin ready' /\ forced_token' # host.token /\ NotRelayed'
    <3>1. Resume(c.token) # QuiesceReq(host.token)
      BY <2>2, RecordFacts
    <3> QED
      BY <2>1, <2>4, <3>1 DEF OlderTaken, NotRelayed
  <2> QED
    BY <1>1, <2>1, <2>4, <2>5, <2>6, <2>7, <2>8, CommandQInv
<1>6. ~(HandleStartUnknown \/ HandleGraceful \/ HandleImmediate \/ HandleOther)
  <2>1. \A kind : Takes(kind) => kind \in {"StartWorkload", "Quiesce", "Resume"}
    BY TakeFacts, CommandFacts
  <2> QED
    BY <2>1 DEF HandleStartUnknown, HandleGraceful, HandleImmediate, HandleOther
<1> QED
  BY <1>2, <1>3, <1>4, <1>5, <1>6 DEF Handle

-----------------------------------------------------------------------------
(***************************************************************************)
(* The SDK and the host.                                                   *)
(***************************************************************************)
\* The SDK takes a record off ring I: the supervisor is not touched.
LEMMA SdkQInv == QInv /\ Sdk => QInv'
<1> SUFFICES ASSUME QInv, Sdk PROVE QInv'
  OBVIOUS
<1>1. /\ ringI # <<>> /\ ringI' = Tail(ringI) /\ Runs(child)
      /\ UNCHANGED <<kernel, ringC, started, exited, agent, host>>
  BY DEF Sdk, Parks, Unparks, Ignores, emitted
<1>2. UNCHANGED <<child, sigchld, ringC, started, exited, workload, apc, forced_token, host>>
  BY <1>1 DEF kernel, agent
<1>3. SInv'
  BY <1>2, QuietSInv DEF QInv
<1>4. /\ ringI' \in Seq(ControlI) /\ Head(ringI) \in ControlI /\ Head(ringI) = ringI[1]
      /\ 1 \in DOMAIN ringI
      /\ \A i \in DOMAIN ringI' : i + 1 \in DOMAIN ringI /\ ringI'[i] = ringI[i + 1]
  BY <1>1 DEF QInv, QTyped
<1>5. \/ UNCHANGED ready
      \/ /\ ~sdk.parked /\ Head(ringI).kind = "QuiesceReq"
         /\ ready' = ready \cup {Head(ringI).token}
         /\ sdk' = [parked |-> TRUE, token |-> Head(ringI).token]
  BY DEF Sdk, Parks, Unparks, Ignores, emitted
<1>6. QTyped'
  <2>1. Head(ringI).token \in Nat
    BY <1>4 DEF ControlI
  <2>2. sdk' = [parked |-> TRUE, token |-> Head(ringI).token] \/ sdk' = NotParked \/ sdk' = sdk
    BY DEF Sdk, Parks, Unparks, Ignores
  <2>3. sdk \in [parked : BOOLEAN, token : Nat] /\ NotParked \in [parked : BOOLEAN, token : Nat]
    BY DEF QInv, QTyped, NotParked
  <2>4. [parked |-> TRUE, token |-> Head(ringI).token] \in [parked : BOOLEAN, token : Nat]
    BY <2>1
  <2>5. sdk' \in [parked : BOOLEAN, token : Nat]
    BY <2>2, <2>3, <2>4, Zenon
  <2> QED
    BY <1>2, <1>4, <1>5, <2>1, <2>5 DEF QInv, QTyped
<1>7. NewestToken'
  BY <1>2, <1>4, <1>5 DEF QInv, NewestToken
<1>8. NoResumeYet => NoResumeYet'
  BY <1>2, <1>4 DEF NoResumeYet
<1>9. NotRelayed => NotRelayed' /\ Head(ringI) # QuiesceReq(host.token)
  BY <1>2, <1>4 DEF NotRelayed
<1>10. Head(ringI).kind = "QuiesceReq" => Head(ringI) = QuiesceReq(Head(ringI).token)
  BY <1>4 DEF ControlI, QuiesceReq
<1>11. NotRelayed /\ host.token \notin ready => host.token \notin ready'
  BY <1>5, <1>9, <1>10
<1>12. Undelivered => Undelivered'
  BY <1>2, <1>9, <1>11 DEF Undelivered
<1>13. NoResumeYet /\ Delivered => Delivered'
  <2> SUFFICES ASSUME NoResumeYet, Delivered PROVE Delivered'
    OBVIOUS
  <2>1. CASE host.path.mode = "FORCED"
    BY <1>2, <1>9, <1>11, <2>1 DEF Delivered
  <2>2. CASE host.path.mode # "FORCED" /\ host.token \in ready
    <3>1. sdk = [parked |-> TRUE, token |-> host.token]
      BY <1>1, <2>2 DEF Delivered
    <3>2. Head(ringI) # Resume(sdk.token)
      BY <1>4, <3>1 DEF NoResumeYet
    <3>3. UNCHANGED sdk
      BY <3>1, <3>2 DEF Sdk, Parks, Unparks, Ignores
    <3> QED
      BY <1>2, <2>2, <3>1, <3>3 DEF Delivered
  <2>3. CASE host.path.mode # "FORCED" /\ host.token \notin ready
    BY <1>2, <1>5, <2>3 DEF Delivered
  <2> QED
    BY <2>1, <2>2, <2>3
<1> QED
  BY <1>2, <1>3, <1>5, <1>6, <1>7, <1>8, <1>12, <1>13 DEF QInv

\* A push changes ring C and the bound only.
LEMMA PushFacts ==
    ASSUME QInv, NEW cmd \in CommandC, PushCommand(cmd)
    PROVE  /\ SInv' /\ ringC' \in Seq(CommandC) /\ Len(ringC') = Len(ringC) + 1
           /\ Len(ringC) \in Nat /\ ringC'[Len(ringC) + 1] = cmd
           /\ \A i \in 1 .. Len(ringC) : i \in DOMAIN ringC /\ ringC'[i] = ringC[i]
           /\ UNCHANGED <<child, ringI, ready, forced_token>>
<1>1. UNCHANGED <<child, sigchld, workload, started, exited, apc>>
  BY DEF PushCommand, kernel, emitted, agent
<1>2. SInv'
  BY <1>1, QuietSInv DEF QInv
<1>3. ringC \in Seq(CommandC)
  BY DEF QInv, QTyped
<1> QED
  BY <1>1, <1>2, <1>3 DEF PushCommand, kernel, emitted, agent

\* Channel::push_command with a Quiesce: its token is new to everything.
LEMMA HostQuiescesQInv ==
    ASSUME QInv, NEW path \in Paths, HostQuiesces(path)
    PROVE  QInv'
<1>1. PICK t \in Tokens :
        /\ \A u \in Tokens : u < t <=> u <= host.token
        /\ PushCommand(Quiesce(t, path.mode))
        /\ host' = [phase |-> "waiting", token |-> t, path |-> path]
  BY DEF HostQuiesces
<1>2. /\ t \in Nat /\ path \in AllPaths /\ path.mode \in {"COOP", "FORCED"}
      /\ host.token \in Nat /\ UNCHANGED sdk
  BY QuiesceAssumption DEF HostQuiesces, AllPaths, QInv, QTyped
<1>3. host.token < t
  BY <1>1, <1>2
<1>4. Quiesce(t, path.mode) \in CommandC /\ Quiesce(t, path.mode).token = t
  BY <1>2, RecordFacts
<1>5. \A u : Quiesce(t, path.mode) # Resume(u)
  BY <1>2, RecordFacts
<1>6. host'.phase = "waiting" /\ host'.token = t /\ host'.path = path
  BY <1>1
<1>7. QTyped'
  BY <1>1, <1>2, <1>4, PushFacts DEF QInv, QTyped
<1>8. /\ \A i \in DOMAIN ringC : ringC[i] # StartWorkload => ringC[i].token < t
      /\ \A i \in DOMAIN ringI : ringI[i].token < t
      /\ \A u \in ready : u < t
      /\ forced_token < t
  <2>1. \A i \in DOMAIN ringC : ringC[i] # StartWorkload => ringC[i].token \in Nat
    BY CommandFacts DEF QInv, QTyped
  <2>2. \A i \in DOMAIN ringI : ringI[i].token \in Nat
    <3>1. \A r \in ControlI : r.token \in Nat
      BY DEF ControlI
    <3> QED
      BY <3>1 DEF QInv, QTyped
  <2> QED
    BY <1>2, <1>3, <2>1, <2>2 DEF QInv, QTyped, NewestToken
<1>9. /\ ringC' \in Seq(CommandC) /\ Len(ringC') = Len(ringC) + 1
      /\ Len(ringC) \in Nat /\ ringC'[Len(ringC) + 1] = Quiesce(t, path.mode)
      /\ \A i \in 1 .. Len(ringC) : i \in DOMAIN ringC /\ ringC'[i] = ringC[i]
      /\ UNCHANGED <<child, ringI, ready, forced_token>> /\ SInv'
  BY <1>1, <1>4, PushFacts
<1>10. NewestToken'
  <2>1. \A i \in DOMAIN ringC' : ringC'[i] # StartWorkload => ringC'[i].token <= t
    <3> SUFFICES ASSUME NEW i \in DOMAIN ringC', ringC'[i] # StartWorkload
                 PROVE  ringC'[i].token <= t
      OBVIOUS
    <3>1. i \in 1 .. Len(ringC) + 1
      BY <1>9
    <3>2. CASE i = Len(ringC) + 1
      BY <1>2, <1>4, <1>9, <3>2
    <3>3. CASE i # Len(ringC) + 1
      <4>1. i \in 1 .. Len(ringC)
        BY <1>9, <3>1, <3>3
      <4>2. ringC'[i].token < t
        BY <1>8, <1>9, <4>1
      <4> QED
        BY <4>2, <1>2, <1>7, CommandFacts DEF QTyped
    <3> QED
      BY <3>2, <3>3
  <2>2. \A i \in DOMAIN ringI' : ringI'[i].token <= t
    <3>1. \A r \in ControlI : r.token \in Nat
      BY DEF ControlI
    <3> QED
      BY <1>2, <1>7, <1>8, <1>9, <3>1 DEF QTyped
  <2>3. (\A u \in ready' : u <= t) /\ forced_token' <= t
    BY <1>2, <1>7, <1>8, <1>9 DEF QTyped
  <2> QED
    BY <1>6, <2>1, <2>2, <2>3 DEF NewestToken
<1>11. \A i \in DOMAIN ringC : ringC[i] # Resume(t)
  BY <1>2, <1>8, RecordFacts
<1>12. \A i \in DOMAIN ringI : ringI[i] # Resume(t) /\ ringI[i] # QuiesceReq(t)
  BY <1>2, <1>8, RecordFacts
<1>13. NoResumeYet'
  BY <1>5, <1>6, <1>9, <1>11, <1>12 DEF NoResumeYet
<1>14. NotRelayed'
  BY <1>6, <1>9, <1>12 DEF NotRelayed
<1>15. Undelivered'
  <2>1. \A i \in 1 .. Len(ringC') - 1 : ringC'[i] # StartWorkload => ringC'[i].token # t
    BY <1>2, <1>8, <1>9
  <2>2. t \notin ready' /\ forced_token' # t
    BY <1>2, <1>8, <1>9
  <2>3. ringC' # <<>> /\ ringC'[Len(ringC')] = Quiesce(t, path.mode)
    BY <1>9
  <2> QED
    BY <1>6, <1>14, <2>1, <2>2, <2>3 DEF Undelivered
<1> QED
  BY <1>6, <1>7, <1>9, <1>10, <1>13, <1>15 DEF QInv

\* The host sees the acknowledgement, or stops waiting for it.
LEMMA HostWaitsQInv == QInv /\ (HostSeesReady \/ HostTimesOut) => QInv'
<1> SUFFICES ASSUME QInv, HostSeesReady \/ HostTimesOut PROVE QInv'
  OBVIOUS
<1>1. /\ host.phase = "waiting" /\ host' = [host EXCEPT !.phase = host'.phase]
      /\ \/ host'.phase = "ready" /\ host.token \in ready
         \/ host'.phase = "gaveup"
      /\ UNCHANGED <<child, sigchld, workload, started, exited, apc>>
      /\ UNCHANGED <<ringC, ringI, ready, forced_token, sdk>>
  BY DEF HostSeesReady, HostTimesOut, vars, kernel, rings, emitted, agent, QInv, QTyped
<1>2. SInv'
  BY <1>1, QuietSInv DEF QInv
<1>3. host'.token = host.token /\ host'.path = host.path
  BY <1>1 DEF QInv, QTyped
<1>4. QTyped'
  BY <1>1, <1>3 DEF QInv, QTyped
<1>5. NewestToken' /\ NoResumeYet' /\ (Undelivered' \/ Delivered')
  BY <1>1, <1>3 DEF QInv, NewestToken, NoResumeYet, NotRelayed, Undelivered, Delivered
<1> QED
  BY <1>1, <1>2, <1>3, <1>4, <1>5 DEF QInv

\* The host resumes, on either ring; an idle host may start a workload.
LEMMA HostIdleQInv == QInv /\ (HostResumes \/ HostRestarts) => QInv'
<1> SUFFICES ASSUME QInv, HostResumes \/ HostRestarts PROVE QInv'
  OBVIOUS
<1>1. host'.phase = "idle" /\ host'.token = host.token /\ host'.path = host.path
  BY DEF HostResumes, HostRestarts, QInv, QTyped
<1>2. /\ host' \in [phase : {"idle", "waiting", "ready", "gaveup"}, token : Nat, path : AllPaths]
      /\ UNCHANGED sdk /\ host.token \in Nat /\ host.path.mode \in {"COOP", "FORCED"}
  BY <1>1 DEF HostResumes, HostRestarts, QInv, QTyped, AllPaths
<1>3. CASE HostResumes /\ host.path.ring = "I"
  <2>1. /\ ringI' = Append(ringI, Resume(host.token))
        /\ UNCHANGED <<child, sigchld, workload, started, exited, apc>>
        /\ UNCHANGED <<ringC, ready, forced_token>>
    BY <1>3 DEF HostResumes, kernel, emitted, agent
  <2>2. SInv'
    BY <2>1, QuietSInv DEF QInv
  <2>3. Resume(host.token) \in ControlI /\ Resume(host.token).token = host.token
    BY <1>2, RecordFacts
  <2>4. QTyped'
    BY <1>2, <2>1, <2>3 DEF QInv, QTyped
  <2>5. NewestToken'
    <3>1. \A i \in DOMAIN ringI' : ringI'[i] = Resume(host.token) \/ (i \in DOMAIN ringI /\ ringI'[i] = ringI[i])
      BY <2>1, <2>3 DEF QInv, QTyped
    <3>2. \A i \in DOMAIN ringI' : ringI'[i].token <= host.token
      BY <1>2, <2>3, <3>1 DEF QInv, NewestToken
    <3> QED
      BY <1>1, <2>1, <3>2 DEF QInv, NewestToken
  <2> QED
    BY <1>1, <2>2, <2>4, <2>5 DEF QInv
<1>4. ASSUME NEW cmd \in CommandC, PushCommand(cmd), cmd # StartWorkload => cmd.token = host.token
      PROVE  QInv'
  <2>1. /\ SInv' /\ ringC' \in Seq(CommandC) /\ Len(ringC') = Len(ringC) + 1
        /\ Len(ringC) \in Nat /\ ringC'[Len(ringC) + 1] = cmd
        /\ \A i \in 1 .. Len(ringC) : i \in DOMAIN ringC /\ ringC'[i] = ringC[i]
        /\ UNCHANGED <<child, ringI, ready, forced_token>>
    BY <1>4, PushFacts
  <2>2. QTyped'
    BY <1>2, <2>1 DEF QInv, QTyped
  <2>3. \A i \in DOMAIN ringC' : ringC'[i] # StartWorkload => ringC'[i].token <= host.token
    <3> SUFFICES ASSUME NEW i \in DOMAIN ringC', ringC'[i] # StartWorkload
                 PROVE  ringC'[i].token <= host.token
      OBVIOUS
    <3>1. i \in 1 .. Len(ringC) + 1
      BY <2>1
    <3>2. CASE i = Len(ringC) + 1
      BY <1>2, <1>4, <2>1, <3>2
    <3>3. CASE i # Len(ringC) + 1
      <4>1. i \in DOMAIN ringC /\ ringC'[i] = ringC[i]
        BY <2>1, <3>1, <3>3
      <4> QED
        BY <4>1 DEF QInv, NewestToken
    <3> QED
      BY <3>2, <3>3
  <2>4. NewestToken'
    BY <1>1, <2>1, <2>3 DEF QInv, NewestToken
  <2> QED
    BY <1>1, <2>1, <2>2, <2>4 DEF QInv
<1>5. CASE HostResumes /\ host.path.ring # "I"
  <2>1. PushCommand(Resume(host.token))
    BY <1>5 DEF HostResumes
  <2>2. Resume(host.token) \in CommandC /\ Resume(host.token).token = host.token
    BY <1>2, RecordFacts
  <2> QED
    BY <1>4, <2>1, <2>2
<1>6. CASE HostRestarts
  <2>1. PushCommand(StartWorkload)
    BY <1>6 DEF HostRestarts
  <2>2. StartWorkload \in CommandC
    BY DEF CommandC
  <2> QED
    BY <1>4, <2>1, <2>2
<1> QED
  BY <1>3, <1>5, <1>6

-----------------------------------------------------------------------------
\* A supervisor at the start of its loop, an idle host, empty rings.
LEMMA InitQInv == QInit => QInv
<1> SUFFICES ASSUME QInit PROVE QInv
  OBVIOUS
<1>1. SInv
  BY InitSInv DEF QInit
<1>2. PICK path \in Paths : host = [phase |-> "idle", token |-> 0, path |-> path]
  BY DEF QInit
<1>3. QTyped
  <2>1. ringC = <<>> /\ ringI = <<>> /\ ready = {} /\ forced_token = 0 /\ sdk = NotParked
    BY DEF QInit, Init
  <2>2. path \in AllPaths
    BY QuiesceAssumption
  <2> QED
    BY <1>2, <2>1, <2>2 DEF QTyped, NotParked
<1>4. NewestToken
  BY <1>2 DEF QInit, Init, NewestToken
<1> QED
  BY <1>1, <1>2, <1>3, <1>4 DEF QInv

\* Every step of the composition keeps the invariant.
LEMMA NextQInv == QInv /\ [QNext]_qvars => QInv'
<1> SUFFICES ASSUME QInv, [QNext]_qvars PROVE QInv'
  OBVIOUS
<1>1. CASE SupervisorStep
  <2>1. SInv'
    BY <1>1, EnvironmentSInv, LoopSInv, HandleSInv DEF SupervisorStep, Agent, QInv
  <2>2. CASE Handle
    BY <1>1, <2>1, <2>2, HandleQInv DEF SupervisorStep
  <2>3. CASE Environment \/ Loop
    <3>1. QuietStep
      BY <2>3, EnvironmentIsQuiet, LoopIsQuiet DEF QInv
    <3>2. UNCHANGED <<sdk, host>>
      BY <1>1, <3>1 DEF SupervisorStep, QuietStep
    <3> QED
      BY <2>1, <3>1, <3>2, QuietQInv
  <2> QED
    BY <1>1, <2>2, <2>3 DEF SupervisorStep, Agent, Loop
<1>2. CASE Sdk
  BY <1>2, SdkQInv
<1>3. CASE \E path \in Paths : HostQuiesces(path)
  BY <1>3, HostQuiescesQInv
<1>4. CASE HostSeesReady \/ HostTimesOut
  BY <1>4, HostWaitsQInv
<1>5. CASE HostResumes \/ HostRestarts
  BY <1>5, HostIdleQInv
<1>6. CASE UNCHANGED qvars
  <2>1. /\ UNCHANGED <<child, sigchld, workload, started, exited, apc>>
        /\ UNCHANGED <<ringC, ringI, ready, forced_token, sdk, host>>
    BY <1>6 DEF qvars, vars, kernel, rings, emitted, agent
  <2>2. SInv'
    BY <2>1, QuietSInv DEF QInv
  <2>3. QuietStep
    BY <2>1 DEF QuietStep
  <2> QED
    BY <2>1, <2>2, <2>3, QuietQInv
<1> QED
  BY <1>1, <1>2, <1>3, <1>4, <1>5, <1>6 DEF QNext

\* The invariant of the protocol holds in every reachable state.
THEOREM QuiesceInvariance == QSpec => []QInv
BY InitQInv, NextQInv, PTL DEF QSpec

\* From the QuiesceReady the host saw to the Resume it has not sent, no workload
\* code runs outside park_until_resume (commands::handle, forced_quiesce, reap,
\* quiesce_check): for every mode, ring of the Resume and timeout policy, the
\* ones whose Resume may be lost included.
THEOREM SnapshotsAreQuiesced == QSpec => []SnapshotIsQuiesced
<1>1. QInv => SnapshotIsQuiesced
  <2> SUFFICES ASSUME QInv, host.phase = "ready" PROVE SnapshotIsQuiesced
    BY DEF SnapshotIsQuiesced
  <2>1. host.token \in ready /\ Delivered
    BY DEF QInv, Undelivered
  <2> QED
    BY <2>1 DEF Delivered, SnapshotIsQuiesced
<1> QED
  BY <1>1, QuiesceInvariance, PTL
=============================================================================
