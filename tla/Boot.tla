-------------------------------- MODULE Boot --------------------------------
(***************************************************************************)
(* PID 1 from its first step to Ready or to a boot fault: runtime::run,     *)
(* autostart_and_ready, the control leg with the autostarted unit          *)
(* (control::drive_refwork_start) and the gate on the expected regions.     *)
(*                                                                         *)
(* The agent blocks in one place, Supervisor::wait_boot_io.  A guest may    *)
(* run without timer ticks: then nothing but a readable descriptor ends     *)
(* that wait.  The unit is external: it answers the control messages,       *)
(* registers its regions, prints, and may break the protocol or die at any  *)
(* step.  What a registration writes is the subject of Manifest, and what   *)
(* happens after Ready that of Supervisor.                                  *)
(***************************************************************************)
EXTENDS BootToml, PvBlk, ChannelHeader, FiniteSets

CONSTANTS Regions,    \* the regions the unit registers
          Documents,  \* the boot.toml files
          GameDevices, \* the pv-blk devices
          U16_MAX,    \* u16::MAX
          WakeLimit,  \* CONTROL_RECV_WAKE_LIMIT and READY_REGION_WAKE_LIMIT
          MaxPrints,  \* bound: how often the unit prints
          MaxOdd      \* bound: how often the unit breaks the protocol

ASSUME BootAssumption ==
  /\ IsFiniteSet(Regions) /\ WakeLimit \in Nat /\ MaxPrints \in Nat /\ MaxOdd \in Nat

VARIABLES conf,      \* boot.toml and the guest: the unit, its regions, ticks
          at,        \* where the agent is
          detail,    \* what the boot fault's LogLine says
          io,        \* "run"; "wait" in epoll_wait; "handle" after it
          events,    \* what epoll_wait returned
          wakes,     \* iterations of the innermost bounded loop
          workload,  \* the agent's view of the unit, as its events report it
          live,      \* the regions live at their pinned layout_version
          snapshot,  \* what the gate saw of them when it passed
          unit,      \* where the unit is
          left,      \* what the unit may still do
          toUnit, toAgent,  \* the control socket's two directions
          request, reply,   \* the unit's region call and its answer
          conn,      \* the unit's connection to agent.sock
          pipe, sig  \* the unit's output pipe; a pending SIGCHLD

agentVars == <<at, detail, io, events, wakes, workload, live, snapshot>>
unitVars == <<unit, left, toUnit, toAgent, request, reply, conn, pipe, sig>>
vars == <<conf, agentVars, unitVars>>

None == "none"
\* What boot depends on of a parsed boot.toml: the autostart unit and whether it has a
\* control socket, where its game comes from, whether the agent speaks its protocol,
\* and the regions Ready waits for.
Plan(m) ==
  LET u == m.units[m.autostart.i + 1]
      control == m.ok /\ m.autostart # Missing /\ u.control # Missing
  IN [unit |-> CASE ~m.ok -> "bad" [] m.autostart = Missing -> None
                 [] control -> "control" [] OTHER -> "plain",
      game |-> CASE ~control -> None [] u.game_source # Missing -> "pv-blk"
                 [] u.game_dev.t = "Str" -> "game_dev" [] OTHER -> "missing",
      speaks |-> control /\ u.control = Str("refwork-ctl") /\ u.proto_version.i <= U16_MAX,
      expected |-> IF m.ok THEN m.expected ELSE {}]
Configurations == [plan : {Plan(parse(text)) : text \in Documents}, tick : BOOLEAN]
NoRequest == [op |-> None, region |-> None]
Replies == {"HelloAck", "GameLoaded", "Region", "Ready", "Bad"}
\* The replies drive_refwork_start waits for, in this order.
Stages == {"HelloAck", "GameLoaded", "Ready"}
Ended == {"up", "fault", "off"}
Sources == {"sig", "pipe", "hup", "conn", "control", "tick"}

\* The agent is PID 1 of a fresh guest, and there is no unit.
Init ==
  /\ conf \in Configurations
  /\ at = "boot" /\ detail = None /\ io = "run" /\ events = {} /\ wakes = 0
  /\ workload = None /\ live = {} /\ snapshot = {}
  /\ unit = None /\ left = [regions |-> Regions, prints |-> MaxPrints, odd |-> MaxOdd]
  /\ toUnit = <<>> /\ toAgent = <<>>
  /\ request = NoRequest /\ reply = FALSE /\ conn = None /\ pipe = None /\ sig = FALSE

Alive == unit \notin {None, "dead"}
At(place) == at = place /\ io = "run"
-----------------------------------------------------------------------------
(* The agent. *)

\* boot_fault: a LogLine with the detail, and power off.
BootFault(why) ==
  /\ at' = "fault" /\ detail' = why
  /\ UNCHANGED <<io, events, wakes, workload, live, snapshot>>

Goto(place) ==
  /\ at' = place /\ wakes' = 0
  /\ UNCHANGED <<detail, io, events, workload, live, snapshot>>

\* The mounts, then the channel: alloc with its canonical header, the ports, IDENT,
\* the channel's address, CHANNEL_INIT with the host's answer, the agent's Hello.
\* Each may fail, and only the console says so.
BringUpChannel ==
  /\ At("boot")
  /\ \/ \E mapped \in BOOLEAN : init_status(attach(canonical, mapped)) = 0 /\ Goto("config")
     \/ Goto("off")
  /\ UNCHANGED <<conf, unitVars>>

\* boot.toml, the supervisor, agent.sock.  Without a supervisor the agent powers
\* off; a failure of the other two is a boot fault, and so is a file that cannot be
\* read.
Configure ==
  /\ At("config")
  /\ \/ conf.plan.unit # "bad" /\ Goto("autostart")
     \/ conf.plan.unit # "bad" /\ Goto("off")
     \/ BootFault("setup")
  /\ UNCHANGED <<conf, unitVars>>

\* Without an autostart unit, Ready at once.
NoAutostart ==
  /\ At("autostart") /\ conf.plan.unit = None
  /\ Goto("up")
  /\ UNCHANGED <<conf, unitVars>>

\* The path LoadGame will name.  An image on pv-blk is copied first, before there is
\* a unit that a failure would leave behind.
GamePath ==
  CASE conf.plan.game = "pv-blk" ->
         \E dev \in GameDevices, mishap \in Mishaps : materialize(dev, mishap).ok
    [] conf.plan.game = "missing" -> FALSE
    [] OTHER -> TRUE

\* The game's path, the socket or the unit's process is not to be had.
SpawnFails ==
  /\ At("autostart") /\ conf.plan.unit # None
  /\ BootFault("setup")
  /\ UNCHANGED <<conf, unitVars>>

StartUnit ==
  /\ At("autostart") /\ conf.plan.unit # None /\ GamePath
  /\ at' = IF conf.plan.unit = "control" THEN "hello" ELSE "gate"
  /\ workload' = "running"
  /\ unit' = IF conf.plan.unit = "control" THEN "hello" ELSE "regions"
  /\ pipe' = "idle"
  /\ UNCHANGED <<conf, detail, io, events, wakes, live, snapshot, left, toUnit, toAgent,
                 request, reply, conn, sig>>

\* ControlSocket::send, and on to the next place.  It fails on a closed socket.
Send(message, next) ==
  IF Alive
  THEN toUnit' = Append(toUnit, message) /\ Goto(next)
  ELSE UNCHANGED toUnit /\ BootFault("send")

\* drive_refwork_start: a protocol the agent does not speak, or a version that Hello
\* has no room for, is a fault with the unit running.
SendHello ==
  /\ At("hello")
  /\ IF conf.plan.speaks THEN Send("Hello", "HelloAck")
     ELSE BootFault("setup") /\ UNCHANGED toUnit
  /\ UNCHANGED <<conf, unit, left, toAgent, request, reply, conn, pipe, sig>>

\* A datagram taken off the socket.  HelloAck is answered with LoadGame, Ready with
\* Start; announcements of regions are skipped once the game is loading; anything
\* else is a fault.
Take(message) ==
  CASE message = at /\ at = "HelloAck" -> Send("LoadGame", "GameLoaded")
    [] message = at /\ at = "GameLoaded" -> Goto("Ready") /\ UNCHANGED toUnit
    [] message = at /\ at = "Ready" -> Send("Start", "unlink")
    [] message = "Region" /\ at # "HelloAck" -> Goto(at) /\ UNCHANGED toUnit
    [] OTHER -> BootFault("reply") /\ UNCHANGED toUnit

\* wait_boot_io is entered; the caller's loop has used one more iteration.
Block ==
  /\ io' = "wait" /\ wakes' = wakes + 1
  /\ UNCHANGED <<at, detail, events, workload, live, snapshot>>

\* ControlSocket::recv: a bounded number of polls with a wait after each empty one.
Recv ==
  /\ io = "run" /\ at \in Stages
  /\ CASE wakes = WakeLimit -> BootFault("limit") /\ UNCHANGED <<toUnit, toAgent>>
       [] wakes < WakeLimit /\ toAgent # <<>> ->
            toAgent' = Tail(toAgent) /\ Take(Head(toAgent))
       [] wakes < WakeLimit /\ toAgent = <<>> /\ ~Alive ->
            BootFault("eof") /\ UNCHANGED <<toUnit, toAgent>>
       [] OTHER -> Block /\ UNCHANGED <<toUnit, toAgent>>
  /\ UNCHANGED <<conf, unit, left, request, reply, conn, pipe, sig>>

\* The descriptors in the epoll set that are readable; it is level-triggered.  The
\* control socket is in it for the control leg only.
Readable ==
  {s \in Sources :
     CASE s = "sig" -> sig
       [] s = "pipe" -> pipe = "data"
       [] s = "hup" -> pipe = "hup"
       [] s = "conn" -> request # NoRequest \/ conn = "eof"
       [] s = "control" -> at \in Stages /\ (toAgent # <<>> \/ ~Alive)
       [] s = "tick" -> conf.tick}

\* epoll_wait returns what is readable.
Wake ==
  /\ io = "wait" /\ Readable # {}
  /\ io' = "handle" /\ events' = Readable
  /\ UNCHANGED <<conf, at, detail, wakes, workload, live, snapshot, unitVars>>

\* Mutant: a request is served whoever sent it.
ServiceUnbound(supervised) ==
  /\ live' = IF request = NoRequest THEN live ELSE live \cup {request.region}
  /\ request' = NoRequest
  /\ reply' = (reply \/ (request # NoRequest /\ Alive))
  /\ conn' = IF conn = "eof" THEN None ELSE conn

\* RegionIpc::service: it answers every request that waits and drops a connection at
\* its end.  Only the unit that is still supervised is served, and a dead process
\* has no pages for a registration to translate.
Service(supervised) ==
  /\ live' = CASE supervised /\ request.op = "unregister" -> live \ {request.region}
               [] supervised /\ request.op = "register" /\ Alive -> live \cup {request.region}
               [] OTHER -> live
  /\ request' = NoRequest
  /\ reply' = (reply \/ (request # NoRequest /\ Alive))
  /\ conn' = IF conn = "eof" THEN None ELSE conn

\* Mutant: the signal is drained and nothing reaped.
NoReap == UNCHANGED workload

\* SIGCHLD is drained and the unit, if it is dead, reaped: its exit is reported.
Reap ==
  workload' = IF "sig" \in events /\ workload = "running" /\ unit = "dead"
              THEN "exited" ELSE workload

\* Mutant: what the unit printed stays in the pipe.
DrainKeepsData ==
  pipe' = IF workload' # workload \/ "hup" \in events THEN None ELSE pipe

\* The pipe is drained when it is readable, and dropped when it is hung up or when
\* the unit was reaped.
DrainPipe ==
  pipe' = CASE workload' # workload \/ "hup" \in events -> None
            [] "pipe" \in events /\ pipe = "data" -> "idle"
            [] OTHER -> pipe

\* The rest of wait_boot_io: what the events ask for, then region IPC whatever they
\* were.  A readable control socket is left to the caller's next recv.
Handle ==
  /\ io = "handle"
  /\ io' = "run" /\ events' = {}
  /\ sig' = (sig /\ "sig" \notin events)
  /\ Reap
  /\ DrainPipe
  /\ Service(workload' = "running")
  /\ UNCHANGED <<conf, at, detail, wakes, snapshot, unit, left, toUnit, toAgent>>

\* The leg is over and its socket kept; a materialised image is removed.
Unlink ==
  /\ At("unlink")
  /\ Goto("gate") \/ (conf.plan.game = "pv-blk" /\ BootFault("setup"))
  /\ UNCHANGED <<conf, unitVars>>

\* wait_for_expected_regions: serve, check, and only then block; a bounded number
\* of times.
GateServe ==
  /\ At("gate")
  /\ \/ /\ wakes = WakeLimit
        /\ BootFault("limit")
        /\ UNCHANGED unitVars
     \/ /\ wakes < WakeLimit
        /\ Service(workload = "running")
        /\ at' = "check"
        /\ UNCHANGED <<detail, io, events, wakes, workload, snapshot,
                       unit, left, toUnit, toAgent, pipe, sig>>
  /\ UNCHANGED conf

expected_regions_ready == conf.plan.expected \subseteq live

GateDecides(ready) ==
  /\ At("check")
  /\ IF ready
     THEN /\ at' = "evidence" /\ snapshot' = live
          /\ UNCHANGED <<detail, io, events, wakes, workload, live>>
     ELSE /\ at' = "gate" /\ io' = "wait" /\ wakes' = wakes + 1
          /\ UNCHANGED <<detail, events, workload, live, snapshot>>
  /\ UNCHANGED <<conf, unitVars>>

\* Mutant: the gate blocks before its first check.
GateCheckLast == GateDecides(wakes > 0 /\ expected_regions_ready)

GateCheck == GateDecides(expected_regions_ready)

\* emit_expected_region_evidence reads the manifest again, and gives up when it is
\* not what the gate saw; then emit_ready.
Evidence ==
  /\ At("evidence")
  /\ IF conf.plan.expected # {} /\ (~expected_regions_ready \/ live # snapshot)
     THEN BootFault("stale")
     ELSE Goto("up")
  /\ UNCHANGED <<conf, unitVars>>

Agent ==
  \/ BringUpChannel \/ Configure \/ NoAutostart \/ SpawnFails \/ StartUnit
  \/ SendHello \/ Recv \/ Unlink
  \/ Wake \/ Handle
  \/ GateServe \/ GateCheck \/ Evidence
-----------------------------------------------------------------------------
(* The unit, external.  It runs until the machine is off; what it does after *)
(* Ready belongs to other modules.                                           *)

Running == Alive /\ at \notin Ended
Say(message) ==
  toAgent' = IF conf.plan.unit = "control" THEN Append(toAgent, message) ELSE toAgent

\* It answers Hello and LoadGame, and takes Start.
UnitAnswers ==
  /\ Running /\ toUnit # <<>>
  /\ \/ unit = "hello" /\ Head(toUnit) = "Hello" /\ unit' = "load" /\ Say("HelloAck")
     \/ unit = "load" /\ Head(toUnit) = "LoadGame" /\ unit' = "regions" /\ Say("GameLoaded")
     \/ unit = "start" /\ Head(toUnit) = "Start" /\ unit' = "run" /\ UNCHANGED toAgent
  /\ toUnit' = Tail(toUnit)
  /\ UNCHANGED <<conf, agentVars, left, request, reply, conn, pipe, sig>>

\* A region call: the request goes out, and the unit waits for its reply.
UnitRegisters(r) ==
  /\ Running /\ unit = "regions" /\ r \in left.regions
  /\ request = NoRequest /\ ~reply
  /\ request' = [op |-> "register", region |-> r] /\ conn' = "open"
  /\ left' = [left EXCEPT !.regions = @ \ {r}]
  /\ UNCHANGED <<conf, agentVars, unit, toUnit, toAgent, reply, pipe, sig>>

\* The reply; a unit with a control socket announces the region there.
UnitTakesReply ==
  /\ Running /\ reply
  /\ reply' = FALSE
  /\ IF unit = "regions" THEN Say("Region") ELSE UNCHANGED toAgent
  /\ UNCHANGED <<conf, agentVars, unit, left, toUnit, request, conn, pipe, sig>>

\* With its regions registered it is ready.
UnitReady ==
  /\ Running /\ unit = "regions" /\ left.regions = {} /\ request = NoRequest /\ ~reply
  /\ unit' = IF conf.plan.unit = "control" THEN "start" ELSE "run"
  /\ Say("Ready")
  /\ UNCHANGED <<conf, agentVars, left, toUnit, request, reply, conn, pipe, sig>>

UnitPrints ==
  /\ Running /\ left.prints > 0
  /\ left' = [left EXCEPT !.prints = @ - 1]
  /\ pipe' = "data"
  /\ UNCHANGED <<conf, agentVars, unit, toUnit, toAgent, request, reply, conn, sig>>

\* It breaks the protocol: a reply out of place, or a region taken back early.
UnitStrays ==
  /\ Running /\ left.odd > 0
  /\ left' = [left EXCEPT !.odd = @ - 1]
  /\ \/ /\ conf.plan.unit = "control"
        /\ \E message \in Replies : Say(message)
        /\ UNCHANGED request
     \/ /\ request = NoRequest /\ ~reply
        /\ \E r \in live : request' = [op |-> "unregister", region |-> r]
        /\ UNCHANGED toAgent
  /\ UNCHANGED <<conf, agentVars, unit, toUnit, reply, conn, pipe, sig>>

\* It dies, and its ends of the pipe, the control socket and the connection close.
UnitDies ==
  /\ Running
  /\ unit' = "dead" /\ sig' = TRUE /\ pipe' = "hup"
  /\ conn' = IF conn = "open" THEN "eof" ELSE conn
  /\ reply' = FALSE
  /\ UNCHANGED <<conf, agentVars, left, toUnit, toAgent, request>>

UnitKeepsOn ==
  \/ UnitAnswers \/ UnitTakesReply \/ UnitReady
  \/ \E r \in Regions : UnitRegisters(r)

Next == Agent \/ UnitKeepsOn \/ UnitPrints \/ UnitStrays \/ UnitDies
\* The agent is never preempted for ever, nor is a unit that has something to do.
Spec == Init /\ [][Next]_vars /\ WF_vars(Agent) /\ WF_vars(UnitKeepsOn)
-----------------------------------------------------------------------------
\* A unit that has kept to the protocol so far.
Sound == unit # "dead" /\ left.odd = MaxOdd

\* A unit that keeps to the protocol is not the cause of a boot fault: its output and
\* its requests do not use up the wake-up limits in a guest without ticks, and the
\* manifest does not change between the gate and its evidence (runtime.rs, the
\* limits of recv and of the gate).
NoFalseFault ==
  at = "fault" =>
    /\ detail # "stale"
    /\ Sound => detail = "setup" \/ (conf.tick /\ detail = "limit")

\* Ready is emitted only while every expected region is live, whatever the unit
\* registered or took back in the meantime (wait_for_expected_regions), and never
\* behind the unit's WorkloadExited: once it is reaped no request of its can
\* complete the gate (the pid binding of RegionIpc::handle).
ReadyIsEarned ==
  [][at' = "up" /\ at # "up" /\ conf.plan.unit # None =>
       conf.plan.expected \subseteq live' /\ workload' = "running"]_vars

\* With a unit that keeps to the protocol, boot ends, ticks or no ticks: the agent
\* never blocks in wait_boot_io on something that already happened.
BootCompletes == []Sound => <>(at \in Ended)

\* A death while the agent boots is noticed: it is reported, unless boot ends first,
\* since the wait reaps and does not only drain the signal (wait_boot_io); and in the
\* control leg it makes a boot fault, never a Ready (ControlSocket::recv and send).
DeathNoticed ==
  /\ unit = "dead" ~> (workload = "exited" \/ at \in Ended)
  /\ (at \in Stages /\ unit = "dead") ~> (at = "fault")
-----------------------------------------------------------------------------
(***************************************************************************)
(* The inductive invariant behind NoFalseFault and ReadyIsEarned.  A boot  *)
(* without ticks is woken only by what the unit still has to do: Causes    *)
(* counts it, and each wake-up uses one up or brings a control message.    *)
(***************************************************************************)
Leg == {"hello", "unlink"} \cup Stages
Gate == {"gate", "check", "evidence"}

BTyped ==
  /\ conf.tick \in BOOLEAN /\ io \in {"run", "wait", "handle"} /\ wakes \in Nat
  /\ left \in [regions : SUBSET Regions, prints : 0 .. MaxPrints, odd : 0 .. MaxOdd]
  /\ toUnit \in Seq({"Hello", "LoadGame", "Start"}) /\ toAgent \in Seq(Replies)

\* Before the unit is started there is nothing of it; where it was started, it is
\* there or has died, and only a dead one was reaped.
UnitKnown ==
  /\ at \in {"boot", "config", "autostart"} =>
       /\ unit = None /\ toUnit = <<>> /\ toAgent = <<>> /\ request = NoRequest
       /\ pipe = None /\ wakes = 0 /\ io = "run"
  /\ at \in Leg \cup Gate => unit # None /\ workload \in {"running", "exited"}
  /\ at \in Leg => conf.plan.unit = "control"
  /\ workload = "exited" => unit = "dead"
  /\ unit # "dead" => ~sig /\ pipe # "hup" /\ conn # "eof"
  /\ io # "run" => at \in Stages \cup {"gate"}

\* The gate waits for what it lacks, and what a dead unit has not registered it will
\* lack for ever; once it has passed, nothing changes.
GateHolds ==
  /\ at = "gate" /\ io # "run" => ~expected_regions_ready
  /\ at \in {"gate", "check"} => workload = "running" \/ ~expected_regions_ready
  /\ at \in {"unlink", "evidence"} => workload = "running"
  /\ at = "evidence" => expected_regions_ready /\ live = snapshot

\* How far the two ends of the control leg have come.
LegHolds ==
  Sound =>
    /\ at = "hello" => unit = "hello" /\ toUnit = <<>> /\ toAgent = <<>>
    /\ at = "HelloAck" =>
         \/ unit = "hello" /\ toUnit = <<"Hello">> /\ toAgent = <<>>
         \/ unit = "load" /\ toUnit = <<>> /\ toAgent = <<"HelloAck">>
    /\ at = "GameLoaded" =>
         \/ unit = "load" /\ toUnit = <<"LoadGame">> /\ toAgent = <<>>
         \/ /\ unit \in {"regions", "start"} /\ toUnit = <<>>
            /\ toAgent # <<>> /\ Head(toAgent) = "GameLoaded"
            /\ Tail(toAgent) \in Seq({"Region", "Ready"})
    /\ at = "Ready" =>
         /\ unit \in {"regions", "start"} /\ toUnit = <<>>
         /\ toAgent \in Seq({"Region", "Ready"})

Causes ==
  Cardinality(left.regions) + left.prints + (IF request = NoRequest THEN 0 ELSE 1)
    + (IF pipe = "data" THEN 1 ELSE 0)
MaxCauses == Cardinality(Regions) + MaxPrints

\* What epoll_wait returned is still so when it is handled.
EventsStand ==
  io = "handle" =>
    /\ events \subseteq {"pipe", "conn", "control"} /\ events # {}
    /\ "pipe" \in events => pipe = "data"
    /\ "conn" \in events => request # NoRequest
    /\ "control" \in events => at \in Stages /\ toAgent # <<>>

WakesHold ==
  Sound =>
    /\ Causes <= MaxCauses
    /\ ~conf.tick =>
         /\ EventsStand
         /\ at \in Stages \cup {"gate", "check"} =>
              \/ wakes + Causes <= MaxCauses
              \/ /\ wakes + Causes <= MaxCauses + 1
                 /\ io # "run" \/ (at \in Stages /\ toAgent # <<>>)

BInv == BTyped /\ UnitKnown /\ GateHolds /\ LegHolds /\ WakesHold /\ NoFalseFault
=============================================================================
