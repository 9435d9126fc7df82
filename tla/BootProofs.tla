----------------------------- MODULE BootProofs -----------------------------
(***************************************************************************)
(* PID 1 blames no unit that keeps to the protocol, and reports Ready only *)
(* behind the gate, for any boot.toml, any set of regions and any output   *)
(* of the unit that the wake-up limits have room for.                      *)
(***************************************************************************)
EXTENDS Boot, FiniteSetTheorems, TLAPS

\* The limits leave room for what one healthy unit can cause in one bounded loop,
\* for the wait that ends with its control message and for that message's receipt.
RoomForWakes == MaxCauses + 2 <= WakeLimit

\* The causes of wake-ups that the unit has left are numbers.
LEMMA CauseFacts ==
    ASSUME BTyped
    PROVE  /\ IsFiniteSet(left.regions) /\ Cardinality(left.regions) \in Nat
           /\ left.prints \in Nat /\ left.odd \in Nat /\ left.odd <= MaxOdd
           /\ Causes \in Nat /\ MaxCauses \in Nat
           /\ left.regions \subseteq Regions /\ Cardinality(Regions) \in Nat
           /\ Cardinality(left.regions) <= Cardinality(Regions)
<1>1. left.regions \subseteq Regions /\ left.prints \in 0 .. MaxPrints /\ left.odd \in 0 .. MaxOdd
  BY DEF BTyped
<1>2. /\ IsFiniteSet(left.regions) /\ Cardinality(left.regions) <= Cardinality(Regions)
      /\ Cardinality(left.regions) \in Nat /\ Cardinality(Regions) \in Nat
  BY <1>1, BootAssumption, FS_Subset, FS_CardinalityType
<1> QED
  BY <1>1, <1>2, BootAssumption DEF Causes, MaxCauses

\* PID 1 of a fresh guest.
LEMMA InitBoot == Init => BInv
<1> SUFFICES ASSUME Init PROVE BInv
  OBVIOUS
<1>1. BTyped
  BY BootAssumption DEF Init, BTyped, Configurations, None, Replies
<1>2. UnitKnown
  BY DEF Init, UnitKnown, None, NoRequest, Leg, Gate, Stages
<1>3. GateHolds
  BY DEF Init, GateHolds
<1>4. LegHolds
  BY DEF Init, LegHolds
<1>5. left.regions = Regions /\ left.prints = MaxPrints /\ request = NoRequest /\ pipe = None
  BY DEF Init
<1>6. Causes <= MaxCauses
  BY <1>1, <1>5, CauseFacts DEF Causes, MaxCauses, None
<1>7. WakesHold
  BY <1>6 DEF Init, WakesHold, EventsStand, Stages
<1> QED
  BY <1>1, <1>2, <1>3, <1>4, <1>7 DEF BInv, Init, NoFalseFault

-----------------------------------------------------------------------------
(* The gate: the facts that need no bound on what the unit causes. *)

GInv == BTyped /\ UnitKnown /\ GateHolds

\* run, up to the unit's start, and the end of the control leg.
LEMMA StartSteps ==
    ASSUME GInv,
           BringUpChannel \/ Configure \/ NoAutostart \/ SpawnFails \/ StartUnit \/ Unlink
    PROVE  GInv'
<1> USE DEF GInv, BTyped, UnitKnown, GateHolds, expected_regions_ready, At, Goto, BootFault,
            Leg, Gate, Stages, unitVars, None
<1>1. CASE BringUpChannel
  BY <1>1 DEF BringUpChannel
<1>2. CASE Configure
  BY <1>2 DEF Configure
<1>3. CASE NoAutostart
  BY <1>3 DEF NoAutostart
<1>4. CASE SpawnFails
  BY <1>4 DEF SpawnFails
<1>5. CASE StartUnit
  BY <1>5 DEF StartUnit
<1>6. CASE Unlink
  BY <1>6 DEF Unlink
<1> QED
  BY <1>1, <1>2, <1>3, <1>4, <1>5, <1>6

\* Adding to and taking from the two directions of the control socket.
LEMMA SocketTypes ==
    ASSUME BTyped
    PROVE  /\ \A m \in {"Hello", "LoadGame", "Start"} :
                Append(toUnit, m) \in Seq({"Hello", "LoadGame", "Start"})
           /\ \A m \in Replies : Append(toAgent, m) \in Seq(Replies)
           /\ toUnit # <<>> => Tail(toUnit) \in Seq({"Hello", "LoadGame", "Start"})
           /\ toAgent # <<>> => Tail(toAgent) \in Seq(Replies) /\ Head(toAgent) \in Replies
  BY DEF BTyped

\* The control leg: drive_refwork_start.
LEMMA LegSteps ==
    ASSUME GInv, SendHello \/ Recv
    PROVE  GInv'
<1> USE DEF GInv, UnitKnown, GateHolds, expected_regions_ready, At, Goto, BootFault,
            Leg, Gate, Stages, None
<1>1. CASE SendHello
  <2>1. toUnit' \in Seq({"Hello", "LoadGame", "Start"})
    BY <1>1, SocketTypes DEF SendHello, Send, BTyped
  <2> QED
    BY <1>1, <2>1 DEF SendHello, Send, BTyped
<1>2. CASE Recv
  <2>1. toUnit' \in Seq({"Hello", "LoadGame", "Start"}) /\ toAgent' \in Seq(Replies)
    BY <1>2, SocketTypes DEF Recv, Take, Send, BTyped
  <2>2. \/ BootFault("limit") \/ BootFault("eof") \/ BootFault("reply") \/ BootFault("send")
        \/ Goto("GameLoaded") \/ Goto("Ready") \/ Goto("unlink") \/ Goto(at) \/ Block
    BY <1>2 DEF Recv, Take, Send
  <2>3. (at \in Stages /\ at' = "unlink") => Alive
    BY <1>2 DEF Recv, Take, Send, Block
  <2> QED
    BY <1>2, <2>1, <2>2, <2>3 DEF Recv, Block, BTyped, Alive
<1> QED
  BY <1>1, <1>2

\* wait_boot_io and the gate.
LEMMA WaitSteps ==
    ASSUME GInv, Wake \/ Handle \/ GateServe \/ GateCheck \/ Evidence
    PROVE  GInv'
<1> USE DEF GInv, BTyped, UnitKnown, GateHolds, expected_regions_ready, At, Goto, BootFault,
            Leg, Gate, Stages, None, unitVars
<1>1. CASE Wake
  BY <1>1 DEF Wake
<1>2. CASE Handle
  <2>1. BTyped' /\ UnitKnown'
    BY <1>2 DEF Handle, Reap, DrainPipe, Service
  <2>2. workload' # "running" => live' = live
    BY <1>2 DEF Handle, Service
  <2>4. at' = at /\ conf' = conf /\ io' = "run"
    BY <1>2 DEF Handle
  <2>5. at' \in {"HelloAck", "GameLoaded", "Ready", "gate"}
        /\ (at' = "gate" => ~(conf.plan.expected \subseteq live))
    BY <1>2, <2>4 DEF Handle
  <2>6. workload' = "running" \/ live' = live
    BY <2>2
  <2>7. GateHolds'
    BY ONLY <2>4, <2>5, <2>6 DEF GateHolds, expected_regions_ready
  <2> QED
    BY <2>1, <2>7
<1>3. CASE GateServe
  BY <1>3 DEF GateServe, Service
<1>4. CASE GateCheck
  BY <1>4 DEF GateCheck, GateDecides
<1>5. CASE Evidence
  BY <1>5 DEF Evidence
<1> QED
  BY <1>1, <1>2, <1>3, <1>4, <1>5

\* The unit's steps leave the agent alone.
LEMMA UnitGateSteps ==
    ASSUME GInv, UnitKeepsOn \/ UnitPrints \/ UnitStrays \/ UnitDies
    PROVE  GInv'
<1> USE DEF Running, Alive, agentVars
<1>1. UNCHANGED <<conf, agentVars>> /\ Alive /\ at \notin Ended
  BY DEF UnitKeepsOn, UnitAnswers, UnitTakesReply, UnitReady, UnitRegisters, UnitPrints,
         UnitStrays, UnitDies
<1>2. at \notin {"boot", "config", "autostart"}
  BY <1>1 DEF GInv, UnitKnown, None
<1>3. GateHolds'
  BY <1>1 DEF GInv, GateHolds, expected_regions_ready
<1>4. unit' # None /\ workload # "exited"
  BY <1>1 DEF UnitKeepsOn, UnitAnswers, UnitTakesReply, UnitReady, UnitRegisters, UnitPrints,
         UnitStrays, UnitDies, None, GInv, UnitKnown
<1>5. unit' # "dead" => ~sig' /\ pipe' # "hup" /\ conn' # "eof"
  BY <1>1 DEF UnitKeepsOn, UnitAnswers, UnitTakesReply, UnitReady, UnitRegisters, UnitPrints,
         UnitStrays, UnitDies, GInv, UnitKnown
<1>6. UnitKnown'
  BY <1>1, <1>2, <1>4, <1>5 DEF GInv, UnitKnown
<1>7. toUnit' \in Seq({"Hello", "LoadGame", "Start"})
  BY SocketTypes DEF GInv, BTyped, UnitKeepsOn, UnitAnswers, UnitTakesReply, UnitReady,
         UnitRegisters, UnitPrints, UnitStrays, UnitDies
<1>8. toAgent' \in Seq(Replies)
  <2>1. {"HelloAck", "GameLoaded", "Region", "Ready"} \subseteq Replies
    BY DEF Replies
  <2>2. toAgent' = toAgent \/ \E m \in Replies : toAgent' = Append(toAgent, m)
    BY <2>1 DEF Say, UnitKeepsOn, UnitAnswers, UnitTakesReply, UnitReady,
         UnitRegisters, UnitPrints, UnitStrays, UnitDies
  <2> QED
    BY <2>2, SocketTypes DEF GInv, BTyped
<1>9. left' \in [regions : SUBSET Regions, prints : 0 .. MaxPrints, odd : 0 .. MaxOdd]
  BY BootAssumption DEF GInv, BTyped, UnitKeepsOn, UnitAnswers, UnitTakesReply, UnitReady,
         UnitRegisters, UnitPrints, UnitStrays, UnitDies
<1> QED
  BY <1>1, <1>3, <1>6, <1>7, <1>8, <1>9 DEF GInv, BTyped

\* No unit, nothing live, and the gate far away.
LEMMA GateInit == Init => GInv
  BY InitBoot DEF BInv, GInv

\* Every step of PID 1 and of the unit keeps the gate's facts.
LEMMA GateStep == GInv /\ [Next]_vars => GInv'
<1> SUFFICES ASSUME GInv, [Next]_vars PROVE GInv'
  OBVIOUS
<1>1. CASE Next
  BY <1>1, StartSteps, LegSteps, WaitSteps, UnitGateSteps DEF Next, Agent
<1>2. CASE UNCHANGED vars
  BY <1>2 DEF vars, agentVars, unitVars, GInv, BTyped, UnitKnown, GateHolds,
              expected_regions_ready
<1> QED
  BY <1>1, <1>2

\* emit_ready is reached in two ways, and one of them has no unit.
LEMMA StepIntoReady ==
    ASSUME GInv, Next, at' = "up", at # "up"
    PROVE  NoAutostart \/ (Evidence /\ Goto("up"))
<1>1. ~(UnitKeepsOn \/ UnitPrints \/ UnitStrays \/ UnitDies)
  BY DEF UnitKeepsOn, UnitAnswers, UnitTakesReply, UnitReady, UnitRegisters, UnitPrints,
         UnitStrays, UnitDies, agentVars
<1>2. ~(BringUpChannel \/ Configure \/ SpawnFails \/ StartUnit \/ Unlink)
  BY DEF BringUpChannel, Configure, SpawnFails, StartUnit, Unlink, Goto, BootFault
<1>3. ~(SendHello \/ Recv)
  BY DEF SendHello, Recv, Take, Send, Goto, BootFault, Block
<1>4. ~(Wake \/ Handle \/ GateServe \/ GateCheck)
  BY DEF Wake, Handle, GateServe, GateCheck, GateDecides, BootFault
<1>5. Evidence => Goto("up")
  BY DEF Evidence, BootFault
<1> QED
  BY <1>1, <1>2, <1>3, <1>4, <1>5 DEF Next, Agent

\* Ready is emitted only while every expected region is live and the unit has not been
\* reaped (wait_for_expected_regions and RegionIpc::handle's pid binding), whatever the
\* unit does and however often the agent wakes up.
THEOREM ReadyIsAlwaysEarned == Spec => ReadyIsEarned
<1> DEFINE Earned ==
      at' = "up" /\ at # "up" /\ conf.plan.unit # None =>
        conf.plan.expected \subseteq live' /\ workload' = "running"
<1>1. GInv /\ [Next]_vars => [Earned]_vars
  <2> SUFFICES ASSUME GInv, Next, at' = "up", at # "up", conf.plan.unit # None
               PROVE  conf.plan.expected \subseteq live' /\ workload' = "running"
    OBVIOUS
  <2>1. Evidence /\ Goto("up")
    BY StepIntoReady DEF NoAutostart
  <2> QED
    BY <2>1 DEF Evidence, Goto, At, GInv, GateHolds, expected_regions_ready
<1> QED
  BY <1>1, GateInit, GateStep, PTL DEF Spec, ReadyIsEarned

-----------------------------------------------------------------------------
(* A unit that keeps to the protocol, and the wake-ups it causes. *)

\* A unit that has strayed or died does not become sound again.
LEMMA SoundBefore ==
    ASSUME GInv, Next, Sound'
    PROVE  Sound
<1>1. left.odd \in 0 .. MaxOdd /\ MaxOdd \in Nat
  BY BootAssumption DEF GInv, BTyped
<1>2. CASE UnitKeepsOn \/ UnitPrints \/ UnitStrays \/ UnitDies
  BY <1>1, <1>2 DEF Sound, Running, Alive, UnitKeepsOn, UnitAnswers, UnitTakesReply, UnitReady,
         UnitRegisters, UnitPrints, UnitStrays, UnitDies, GInv, BTyped
<1>3. CASE StartUnit
  BY <1>3 DEF StartUnit, Sound, At, GInv, UnitKnown, None
<1>4. CASE Agent /\ ~StartUnit
  BY <1>4 DEF Agent, Sound, unitVars, BringUpChannel, Configure, NoAutostart, SpawnFails,
         SendHello, Recv, Unlink, Wake, Handle, GateServe, GateCheck, GateDecides, Evidence
<1> QED
  BY <1>2, <1>3, <1>4 DEF Next

\* The replies of the leg's last stages, one more and one fewer.
LEMMA ReplySeqs ==
    ASSUME NEW s \in Seq(Replies), s # <<>>, NEW m \in {"Region", "Ready"}
    PROVE  /\ Append(s, m) # <<>> /\ Head(Append(s, m)) = Head(s)
           /\ Tail(s) \in Seq({"Region", "Ready"}) =>
                Tail(Append(s, m)) \in Seq({"Region", "Ready"})
<1>1. Tail(Append(s, m)) = Append(Tail(s), m)
  BY DEF Replies
<1>2. Append(s, m) # <<>> /\ Head(Append(s, m)) = Head(s)
  BY DEF Replies
<1>3. Tail(s) \in Seq({"Region", "Ready"}) => Append(Tail(s), m) \in Seq({"Region", "Ready"})
  OBVIOUS
<1> QED
  BY <1>1, <1>2, <1>3

\* The unit's answers come in the order drive_refwork_start waits for them.
LEMMA LegStepOfUnit ==
    ASSUME GInv, LegHolds, Sound, Sound',
           UnitKeepsOn \/ UnitPrints \/ UnitStrays \/ UnitDies
    PROVE  LegHolds'
<1>1. UNCHANGED <<conf, at>>
  BY DEF UnitKeepsOn, UnitAnswers, UnitTakesReply, UnitReady, UnitRegisters, UnitPrints,
         UnitStrays, UnitDies, agentVars
<1>2. SUFFICES ASSUME at \in Leg PROVE LegHolds'
  BY <1>1 DEF LegHolds, Leg, Stages
<1>3. conf.plan.unit = "control"
  BY <1>2 DEF GInv, UnitKnown
<1>4. ~UnitDies /\ ~UnitStrays
  BY BootAssumption DEF UnitDies, UnitStrays, Sound, GInv, BTyped
<1>5. CASE UnitAnswers
  <2>1. toUnit # <<>> /\ toUnit' = Tail(toUnit) /\ unit \in {"hello", "load", "start"}
    BY <1>5 DEF UnitAnswers
  <2>2. \/ at = "HelloAck" /\ unit = "hello" /\ toUnit = <<"Hello">> /\ toAgent = <<>>
        \/ at = "GameLoaded" /\ unit = "load" /\ toUnit = <<"LoadGame">> /\ toAgent = <<>>
        \/ at = "unlink"
    BY <1>2, <2>1 DEF LegHolds, Leg, Stages
  <2>3. CASE at = "HelloAck" /\ unit = "hello" /\ toUnit = <<"Hello">> /\ toAgent = <<>>
    <3>1. unit' = "load" /\ toAgent' = Append(toAgent, "HelloAck")
      BY <1>3, <1>5, <2>3 DEF UnitAnswers, Say
    <3>2. toUnit' = <<>> /\ toAgent' = <<"HelloAck">>
      BY <2>1, <2>3, <3>1
    <3> QED
      BY <1>1, <2>3, <3>1, <3>2 DEF LegHolds
  <2>4. CASE at = "GameLoaded" /\ unit = "load" /\ toUnit = <<"LoadGame">> /\ toAgent = <<>>
    <3>1. unit' = "regions" /\ toAgent' = Append(toAgent, "GameLoaded")
      BY <1>3, <1>5, <2>4 DEF UnitAnswers, Say
    <3>2. toUnit' = <<>> /\ toAgent' = <<"GameLoaded">>
      BY <2>1, <2>4, <3>1
    <3>3. toAgent' # <<>> /\ Head(toAgent') = "GameLoaded"
          /\ Tail(toAgent') \in Seq({"Region", "Ready"})
      BY <3>2
    <3> QED
      BY <1>1, <2>4, <3>1, <3>2, <3>3 DEF LegHolds
  <2>5. CASE at = "unlink"
    BY <1>1, <2>5 DEF LegHolds
  <2> QED
    BY <2>2, <2>3, <2>4, <2>5
<1>6. CASE UnitTakesReply \/ UnitReady
  <2>1. CASE UNCHANGED <<toAgent, toUnit, unit>>
    BY <1>1, <2>1 DEF LegHolds
  <2>2. CASE ~UNCHANGED <<toAgent, toUnit, unit>>
    <3>1. /\ unit = "regions" /\ unit' \in {"regions", "start"} /\ toUnit' = toUnit
          /\ toAgent' \in {Append(toAgent, "Region"), Append(toAgent, "Ready")}
      BY <1>3, <1>6, <2>2 DEF UnitTakesReply, UnitReady, Say
    <3>2. at \in {"GameLoaded", "Ready", "unlink"}
      BY <1>2, <3>1 DEF LegHolds, Leg, Stages
    <3>3. CASE at = "GameLoaded"
      <4>1. toAgent # <<>> /\ toAgent \in Seq(Replies) /\ Head(toAgent) = "GameLoaded"
            /\ Tail(toAgent) \in Seq({"Region", "Ready"}) /\ toUnit = <<>>
        BY <3>1, <3>3 DEF LegHolds, GInv, BTyped
      <4>2. toAgent' # <<>> /\ Head(toAgent') = "GameLoaded"
            /\ Tail(toAgent') \in Seq({"Region", "Ready"})
        BY <4>1, <3>1, ReplySeqs
      <4> QED
        BY <1>1, <3>1, <3>3, <4>1, <4>2 DEF LegHolds
    <3>4. CASE at = "Ready"
      <4>1. toAgent \in Seq({"Region", "Ready"}) /\ toUnit = <<>>
        BY <3>4 DEF LegHolds
      <4>2. toAgent' \in Seq({"Region", "Ready"})
        BY <4>1, <3>1
      <4> QED
        BY <1>1, <3>1, <3>4, <4>1, <4>2 DEF LegHolds
    <3>5. CASE at = "unlink"
      BY <1>1, <3>5 DEF LegHolds
    <3> QED
      BY <3>2, <3>3, <3>4, <3>5
  <2> QED
    BY <2>1, <2>2
<1>7. CASE UnitPrints \/ \E r \in Regions : UnitRegisters(r)
  BY <1>1, <1>7 DEF UnitPrints, UnitRegisters, LegHolds
<1> QED
  BY <1>4, <1>5, <1>6, <1>7 DEF UnitKeepsOn

\* What a received datagram can be while the unit keeps to the protocol, and where
\* drive_refwork_start is after it.
LEMMA RecvOfSound ==
    ASSUME GInv, LegHolds, Sound, Recv, wakes < WakeLimit, toAgent # <<>>
    PROVE  /\ \/ at = "HelloAck" /\ at' = "GameLoaded"
              \/ at = "GameLoaded" /\ at' = "Ready"
              \/ at = "Ready" /\ at' \in {"Ready", "unlink"}
           /\ wakes' = 0 /\ UNCHANGED <<io, events, unit, left, request, pipe>>
           /\ LegHolds'
<1>1. Alive /\ io = "run" /\ at \in Stages
  BY DEF Recv, GInv, UnitKnown, Leg, Sound, Alive, None
<1>2. toAgent' = Tail(toAgent) /\ Take(Head(toAgent)) /\ wakes \in Nat
      /\ UNCHANGED <<conf, unit, left, request, pipe>>
  BY BootAssumption DEF Recv, GInv, BTyped
<1>3. CASE at = "HelloAck"
  <2>1. unit = "load" /\ toUnit = <<>> /\ toAgent = <<"HelloAck">>
    BY <1>3 DEF LegHolds
  <2>2. Head(toAgent) = "HelloAck" /\ toAgent' = <<>>
    BY <1>2, <2>1
  <2>3. Goto("GameLoaded") /\ toUnit' = Append(toUnit, "LoadGame")
    BY <1>1, <1>2, <1>3, <2>2 DEF Take, Send
  <2>4. toUnit' = <<"LoadGame">>
    BY <2>1, <2>3
  <2> QED
    BY <1>2, <1>3, <2>1, <2>2, <2>3, <2>4 DEF LegHolds, Goto
<1>4. CASE at = "GameLoaded"
  <2>1. unit \in {"regions", "start"} /\ toUnit = <<>> /\ Head(toAgent) = "GameLoaded"
        /\ Tail(toAgent) \in Seq({"Region", "Ready"})
    BY <1>4 DEF LegHolds
  <2>2. Goto("Ready") /\ UNCHANGED toUnit
    BY <1>2, <1>4, <2>1 DEF Take
  <2> QED
    BY <1>2, <1>4, <2>1, <2>2 DEF LegHolds, Goto
<1>5. CASE at = "Ready"
  <2>1. unit \in {"regions", "start"} /\ toUnit = <<>> /\ toAgent \in Seq({"Region", "Ready"})
    BY <1>5 DEF LegHolds
  <2>2. Head(toAgent) \in {"Region", "Ready"} /\ toAgent' \in Seq({"Region", "Ready"})
    BY <1>2, <2>1
  <2>3. Goto("unlink") \/ (Goto("Ready") /\ UNCHANGED toUnit)
    BY <1>1, <1>2, <1>5, <2>2 DEF Take, Send
  <2> QED
    BY <1>2, <1>5, <2>1, <2>2, <2>3 DEF LegHolds, Goto
<1> QED
  BY <1>1, <1>3, <1>4, <1>5 DEF Stages

\* With nothing to receive, or at the limit, recv blocks or gives up.
LEMMA RecvNothing ==
    ASSUME GInv, Recv, ~(wakes < WakeLimit /\ toAgent # <<>>)
    PROVE  /\ UNCHANGED <<conf, unit, left, toUnit, toAgent, request, pipe>>
           /\ \/ BootFault("limit") /\ wakes = WakeLimit
              \/ BootFault("eof") /\ ~Alive
              \/ Block /\ (toAgent = <<>> \/ wakes > WakeLimit)
<1>1. wakes \in Nat /\ WakeLimit \in Nat
  BY BootAssumption DEF GInv, BTyped
<1>2. CASE wakes = WakeLimit
  BY <1>2 DEF Recv
<1>3. CASE wakes < WakeLimit /\ toAgent = <<>>
  BY <1>1, <1>3 DEF Recv
<1>4. CASE wakes > WakeLimit
  BY <1>1, <1>4 DEF Recv
<1> QED
  BY <1>1, <1>2, <1>3, <1>4

\* PID 1's steps keep the two ends of the leg in step.
LEMMA LegStepOfAgent ==
    ASSUME GInv, LegHolds, Sound, Agent
    PROVE  LegHolds'
<1>1. CASE BringUpChannel \/ Configure \/ NoAutostart \/ SpawnFails \/ Unlink \/ Evidence
  BY <1>1 DEF BringUpChannel, Configure, NoAutostart, SpawnFails, Unlink, Evidence, Goto,
              BootFault, LegHolds
<1>2. CASE StartUnit
  BY <1>2 DEF StartUnit, LegHolds, At, GInv, UnitKnown
<1>3. CASE SendHello
  <2>1. toUnit = <<>> /\ toAgent = <<>> /\ unit = "hello"
    BY <1>3 DEF SendHello, At, LegHolds
  <2>2. Append(toUnit, "Hello") = <<"Hello">>
    BY <2>1
  <2> QED
    BY <1>3, <2>1, <2>2 DEF SendHello, Send, Goto, BootFault, LegHolds
<1>4. CASE Recv
  BY <1>4, RecvOfSound, RecvNothing DEF BootFault, Block, LegHolds
<1>5. CASE Wake \/ Handle
  BY <1>5 DEF Wake, Handle, LegHolds, unitVars, Sound
<1>6. CASE GateServe \/ GateCheck
  BY <1>6 DEF GateServe, GateCheck, GateDecides, LegHolds, BootFault
<1> QED
  BY <1>1, <1>2, <1>3, <1>4, <1>5, <1>6 DEF Agent

\* Each thing the unit does moves a cause on or uses it up.
LEMMA CausesOfUnit ==
    ASSUME GInv, UnitKeepsOn \/ UnitPrints
    PROVE  /\ Causes' <= Causes
           /\ toAgent # <<>> => toAgent' # <<>>
           /\ pipe = "data" => pipe' = "data"
           /\ request # NoRequest => request' # NoRequest
<1>1. toAgent # <<>> => toAgent' # <<>>
  BY DEF GInv, BTyped, UnitKeepsOn, UnitAnswers, UnitTakesReply, UnitReady, UnitRegisters,
         UnitPrints, Say
<1>2. /\ pipe = "data" => pipe' = "data"
      /\ request # NoRequest => request' # NoRequest
  BY DEF UnitKeepsOn, UnitAnswers, UnitTakesReply, UnitReady, UnitRegisters, UnitPrints
<1>3. BTyped /\ Causes \in Nat /\ Cardinality(left.regions) \in Nat /\ left.prints \in Nat
      /\ IsFiniteSet(left.regions)
  BY CauseFacts DEF GInv
<1>4. CASE UnitAnswers \/ UnitTakesReply \/ UnitReady
  <2>1. Causes' = Causes
    BY <1>4 DEF UnitAnswers, UnitTakesReply, UnitReady, Causes
  <2> QED
    BY <1>1, <1>2, <1>3, <2>1
<1>5. ASSUME NEW r \in Regions, UnitRegisters(r) PROVE Causes' <= Causes
  <2>1. /\ r \in left.regions /\ request = NoRequest /\ request' # NoRequest
        /\ left'.regions = left.regions \ {r} /\ left'.prints = left.prints /\ pipe' = pipe
    BY <1>3, <1>5 DEF UnitRegisters, NoRequest, None, BTyped
  <2>2. Cardinality(left.regions \ {r}) = Cardinality(left.regions) - 1
    BY <1>3, <2>1, FS_RemoveElement
  <2> QED
    BY <1>3, <2>1, <2>2 DEF Causes
<1>6. CASE UnitPrints
  <2>1. /\ left'.regions = left.regions /\ left'.prints = left.prints - 1
        /\ pipe' = "data" /\ request' = request
    BY <1>6 DEF UnitPrints, GInv, BTyped
  <2> QED
    BY <1>1, <1>2, <1>3, <2>1 DEF Causes
<1> QED
  BY <1>1, <1>2, <1>4, <1>5, <1>6 DEF UnitKeepsOn

\* wait_boot_io uses up the cause it was woken for, or leaves a control message to recv.
LEMMA HandleUsesCause ==
    ASSUME GInv, Sound, EventsStand, Handle
    PROVE  /\ Causes' <= Causes
           /\ Causes' <= Causes - 1 \/ (at \in Stages /\ toAgent # <<>>)
<1>1. BTyped /\ Causes \in Nat /\ Cardinality(left.regions) \in Nat /\ left.prints \in Nat
  BY CauseFacts DEF GInv
<1>2. left' = left /\ request' = NoRequest /\ toAgent' = toAgent /\ at' = at
  BY DEF Handle, Service
<1>3. "hup" \notin events /\ workload' = workload
  BY DEF EventsStand, Handle, Reap, Sound
<1>4. pipe' = "data" => pipe = "data" /\ "pipe" \notin events
  BY <1>3 DEF Handle, DrainPipe
<1>5. /\ "pipe" \in events => pipe = "data"
      /\ "conn" \in events => request # NoRequest
      /\ "control" \in events => at \in Stages /\ toAgent # <<>>
      /\ "pipe" \in events \/ "conn" \in events \/ "control" \in events
  BY DEF EventsStand, Handle
<1> QED
  BY <1>1, <1>2, <1>4, <1>5 DEF Causes

\* epoll_wait returns only what a sound unit caused, in a guest without ticks.
LEMMA WakeHasCause ==
    ASSUME GInv, Sound, ~conf.tick, Wake
    PROVE  EventsStand'
<1>1. ~sig /\ pipe # "hup" /\ conn # "eof" /\ UNCHANGED <<at, pipe, request, toAgent>>
  BY DEF GInv, UnitKnown, Sound, Wake, unitVars
<1>2. events' = Readable /\ Readable # {}
  BY DEF Wake
<1>3. at \in Stages => Alive
  BY DEF GInv, UnitKnown, Leg, Sound, Alive, None
<1>4. \A s \in Readable :
        \/ s = "pipe" /\ pipe = "data"
        \/ s = "conn" /\ request # NoRequest
        \/ s = "control" /\ at \in Stages /\ toAgent # <<>>
  BY <1>1, <1>3 DEF Readable, Sources
<1> QED
  BY <1>1, <1>2, <1>4 DEF EventsStand

\* A sound unit without ticks has caused too few wake-ups to reach a limit.
LEMMA WakesBounded ==
    ASSUME GInv, WakesHold, Sound, ~conf.tick, RoomForWakes,
           at \in Stages \cup {"gate", "check"}
    PROVE  /\ wakes < WakeLimit
           /\ io = "run" /\ (at \in Stages => toAgent = <<>>) => wakes + Causes <= MaxCauses
<1>1. Causes \in Nat /\ MaxCauses \in Nat /\ wakes \in Nat /\ WakeLimit \in Nat
  BY CauseFacts, BootAssumption DEF GInv, BTyped
<1> QED
  BY <1>1 DEF WakesHold, RoomForWakes

\* A wake-up less one cause is within the bound, and no cause more stays within it.
LEMMA FewerCauses ==
    ASSUME NEW w \in Nat, NEW c \in Nat, NEW d \in Nat, NEW n \in Nat, w + c <= n
    PROVE  (d <= c => w + d <= n) /\ (d <= c - 1 => w + d <= n - 1)
  OBVIOUS

\* The causes left and the wake-ups spent stay within what the unit can cause.
LEMMA WakesStep ==
    ASSUME GInv, GInv', LegHolds, WakesHold, RoomForWakes, Next, Sound, Sound'
    PROVE  WakesHold'
<1>1. /\ Causes \in Nat /\ MaxCauses \in Nat /\ wakes \in Nat /\ WakeLimit \in Nat
      /\ Causes <= MaxCauses /\ MaxCauses' = MaxCauses /\ conf' = conf
  <2>1. conf' = conf
    BY DEF Next, Agent, UnitKeepsOn, UnitAnswers, UnitTakesReply, UnitReady, UnitRegisters,
         UnitPrints, UnitStrays, UnitDies, BringUpChannel, Configure, NoAutostart, SpawnFails,
         StartUnit, SendHello, Recv, Unlink, Wake, Handle, GateServe, GateCheck, GateDecides,
         Evidence
  <2> QED
    BY <2>1, CauseFacts, BootAssumption DEF GInv, BTyped, WakesHold, MaxCauses
<1>2. Causes' \in Nat
  <2>1. /\ IsFiniteSet(left'.regions) /\ left'.prints \in Nat
    BY BootAssumption, FS_Subset DEF GInv, BTyped
  <2>2. Cardinality(left'.regions) \in Nat
    BY <2>1, FS_CardinalityType
  <2> QED
    BY <2>1, <2>2 DEF Causes
<1>3. UNCHANGED <<left, request, pipe>> => Causes' = Causes
  BY DEF Causes
<1>4. CASE BringUpChannel \/ Configure \/ NoAutostart \/ SpawnFails \/ SendHello \/ Unlink
           \/ Evidence
  <2>1. UNCHANGED <<left, request, pipe, io, conf>> /\ io = "run"
    BY <1>4 DEF BringUpChannel, Configure, NoAutostart, SpawnFails, SendHello, Unlink, Evidence,
         Send, Goto, BootFault, At, unitVars
  <2>2. at' \in Stages \cup {"gate", "check"} => wakes' = 0
    BY <1>4 DEF BringUpChannel, Configure, NoAutostart, SpawnFails, SendHello, Unlink, Evidence,
         Send, Goto, BootFault, Stages
  <2> QED
    BY <1>1, <1>3, <2>1, <2>2 DEF WakesHold, EventsStand
<1>5. CASE StartUnit
  <2>1. pipe = None /\ pipe' = "idle" /\ UNCHANGED <<left, request, io, wakes>>
        /\ io = "run" /\ wakes = 0
    BY <1>5 DEF StartUnit, At, GInv, UnitKnown
  <2>2. Causes' = Causes
    BY <2>1 DEF Causes, None
  <2> QED
    BY <1>1, <2>1, <2>2 DEF WakesHold, EventsStand
<1>6. CASE Recv
  <2>1. io = "run" /\ at \in Stages
    BY <1>6 DEF Recv
  <2>2. CASE wakes < WakeLimit /\ toAgent # <<>>
    <3>1. Causes' = Causes /\ io' = "run" /\ wakes' = 0
      BY <1>3, <1>6, <2>1, <2>2, RecvOfSound
    <3> QED
      BY <1>1, <3>1 DEF WakesHold, EventsStand
  <2>3. CASE ~(wakes < WakeLimit /\ toAgent # <<>>)
    <3>1. Causes' = Causes
      BY <1>3, <1>6, <2>3, RecvNothing
    <3>2. CASE at' = "fault"
      <4>1. io' = "run"
        BY <1>6, <2>1, <2>3, <3>2, RecvNothing DEF BootFault, Block, Stages
      <4> QED
        BY <1>1, <3>1, <3>2, <4>1 DEF WakesHold, EventsStand, Stages
    <3>3. CASE Block
      <4>1. io' = "wait" /\ wakes' = wakes + 1 /\ at' = at
        BY <3>3 DEF Block
      <4>2. ~conf.tick => wakes + Causes <= MaxCauses
        BY <2>1, <2>3, WakesBounded
      <4> QED
        BY <1>1, <3>1, <4>1, <4>2 DEF WakesHold, EventsStand
    <3> QED
      BY <1>6, <2>3, <3>2, <3>3, RecvNothing DEF BootFault
  <2> QED
    BY <2>2, <2>3
<1>7. CASE Wake
  <2>1. Causes' = Causes /\ UNCHANGED <<at, wakes, toAgent>> /\ io = "wait" /\ io' = "handle"
    BY <1>3, <1>7 DEF Wake, unitVars
  <2>2. ~conf.tick => EventsStand'
    BY <1>7, WakeHasCause
  <2> QED
    BY <1>1, <2>1, <2>2 DEF WakesHold
<1>8. CASE Handle
  <2>1. UNCHANGED <<at, wakes, toAgent>> /\ io = "handle" /\ io' = "run"
    BY <1>8 DEF Handle
  <2>2. Causes' <= Causes
    <3>1. left' = left /\ request' = NoRequest /\ (pipe' = "data" => pipe = "data")
      BY <1>8 DEF Handle, Service, DrainPipe, None
    <3>2. Cardinality(left.regions) \in Nat /\ left.prints \in Nat
      BY CauseFacts DEF GInv
    <3> QED
      BY <3>1, <3>2 DEF Causes
  <2>3. ~conf.tick => Causes' <= Causes - 1 \/ (at \in Stages /\ toAgent # <<>>)
    BY <1>8, HandleUsesCause DEF WakesHold
  <2>4. ~conf.tick /\ at \in Stages \cup {"gate", "check"} => wakes + Causes <= MaxCauses + 1
    BY <1>1 DEF WakesHold
  <2>5. Causes' <= MaxCauses
    BY <1>1, <1>2, <2>2
  <2>6. ~conf.tick /\ at \in Stages \cup {"gate", "check"} =>
          \/ wakes + Causes' <= MaxCauses
          \/ wakes + Causes' <= MaxCauses + 1 /\ at \in Stages /\ toAgent # <<>>
    <3> SUFFICES ASSUME ~conf.tick, at \in Stages \cup {"gate", "check"}
                 PROVE  \/ wakes + Causes' <= MaxCauses
                        \/ wakes + Causes' <= MaxCauses + 1 /\ at \in Stages /\ toAgent # <<>>
      OBVIOUS
    <3>1. MaxCauses + 1 \in Nat /\ MaxCauses + 1 - 1 = MaxCauses
      BY <1>1
    <3>2. wakes + Causes <= MaxCauses + 1
      BY <2>4
    <3>3. \A d \in Nat : (d <= Causes => wakes + d <= MaxCauses + 1)
                        /\ (d <= Causes - 1 => wakes + d <= MaxCauses + 1 - 1)
      BY ONLY <1>1, <3>1, <3>2, FewerCauses
    <3> QED
      BY <1>2, <2>2, <2>3, <3>1, <3>3
  <2>7. EventsStand'
    BY <2>1 DEF EventsStand
  <2> QED
    BY <1>1, <2>1, <2>5, <2>6, <2>7 DEF WakesHold

<1>9. CASE GateServe \/ GateCheck
  <2>1. io = "run" /\ at \in {"gate", "check"} /\ at \notin Stages
    BY <1>9 DEF GateServe, GateCheck, GateDecides, At, Stages
  <2>2. Causes' <= Causes
    <3>1. left' = left /\ pipe' = pipe /\ request' \in {request, NoRequest}
      BY <1>9 DEF GateServe, GateCheck, GateDecides, Service, unitVars
    <3>2. Cardinality(left.regions) \in Nat /\ left.prints \in Nat
      BY CauseFacts DEF GInv
    <3> QED
      BY <3>1, <3>2 DEF Causes
  <2>3. \/ io' = "run" /\ wakes' = wakes
        \/ io' = "wait" /\ wakes' = wakes + 1
    BY <1>9, <2>1 DEF GateServe, GateCheck, GateDecides, BootFault
  <2>4. ~conf.tick => wakes + Causes <= MaxCauses
    BY <2>1, WakesBounded
  <2> QED
    BY <1>1, <1>2, <2>2, <2>3, <2>4 DEF WakesHold, EventsStand
<1>10. CASE UnitKeepsOn \/ UnitPrints \/ UnitStrays \/ UnitDies
  <2>1. ~UnitStrays /\ ~UnitDies
    BY BootAssumption DEF UnitDies, UnitStrays, Sound, GInv, BTyped
  <2>2. UNCHANGED <<at, io, events, wakes>>
    BY <1>10, <2>1 DEF UnitKeepsOn, UnitAnswers, UnitTakesReply, UnitReady, UnitRegisters,
         UnitPrints, agentVars
  <2>3. /\ Causes' <= Causes
        /\ toAgent # <<>> => toAgent' # <<>>
        /\ pipe = "data" => pipe' = "data"
        /\ request # NoRequest => request' # NoRequest
    BY <1>10, <2>1, CausesOfUnit
  <2>4. EventsStand => EventsStand'
    BY <2>2, <2>3 DEF EventsStand
  <2>5. Causes' <= MaxCauses
    BY <1>1, <1>2, <2>3
  <2>6. ~conf.tick => EventsStand'
    BY <2>4 DEF WakesHold
  <2>7. ~conf.tick /\ at \in Stages \cup {"gate", "check"} =>
          \/ wakes + Causes <= MaxCauses
          \/ /\ wakes + Causes <= MaxCauses + 1
             /\ io # "run" \/ (at \in Stages /\ toAgent # <<>>)
    BY DEF WakesHold
  <2>8. \A n \in Nat : wakes + Causes <= n => wakes + Causes' <= n
    BY ONLY <1>1, <1>2, <2>3, FewerCauses
  <2>9. ~conf.tick /\ at \in Stages \cup {"gate", "check"} =>
          \/ wakes + Causes' <= MaxCauses
          \/ /\ wakes + Causes' <= MaxCauses + 1
             /\ io # "run" \/ (at \in Stages /\ toAgent' # <<>>)
    BY <1>1, <2>3, <2>7, <2>8
  <2> QED
    BY <1>1, <2>2, <2>5, <2>6, <2>9 DEF WakesHold
<1> QED
  BY <1>4, <1>5, <1>6, <1>7, <1>8, <1>9, <1>10 DEF Next, Agent

\* No step into a boot fault blames a sound unit.
LEMMA FaultStep ==
    ASSUME GInv, LegHolds, WakesHold, NoFalseFault, RoomForWakes, Next, Sound' => Sound
    PROVE  NoFalseFault'
<1> SUFFICES ASSUME at' = "fault"
             PROVE  /\ detail' # "stale"
                    /\ Sound' => detail' = "setup" \/ (conf.tick /\ detail' = "limit")
                    /\ conf' = conf
  BY DEF NoFalseFault
<1>1. CASE BringUpChannel \/ Configure \/ NoAutostart \/ SpawnFails \/ StartUnit \/ Unlink
  BY <1>1 DEF BringUpChannel, Configure, NoAutostart, SpawnFails, StartUnit, Unlink, Goto,
              BootFault
<1>2. CASE SendHello
  <2>1. Sound => Alive
    BY <1>2 DEF SendHello, At, GInv, UnitKnown, Leg, Sound, Alive, None
  <2> QED
    BY <1>2, <2>1 DEF SendHello, Send, Goto, BootFault
<1>3. CASE Recv
  <2>1. io = "run" /\ at \in Stages /\ conf' = conf
    BY <1>3 DEF Recv
  <2>2. CASE wakes < WakeLimit /\ toAgent # <<>>
    <3>1. ~Sound
      BY <1>3, <2>2, RecvOfSound
    <3>2. detail' \in {"send", "reply"}
      BY <1>3, <2>2 DEF Recv, Take, Send, Goto, BootFault, GInv, BTyped, Stages
    <3> QED
      BY <2>1, <3>1, <3>2
  <2>3. CASE ~(wakes < WakeLimit /\ toAgent # <<>>)
    <3>1. \/ detail' = "limit" /\ wakes = WakeLimit
          \/ detail' = "eof" /\ ~Alive
      BY <1>3, <2>1, <2>3, RecvNothing DEF BootFault, Block, Stages
    <3>2. Sound => Alive
      BY <2>1 DEF GInv, UnitKnown, Leg, Sound, Alive, None
    <3>3. Sound /\ ~conf.tick => wakes < WakeLimit
      BY <2>1, WakesBounded
    <3>4. wakes \in Nat
      BY DEF GInv, BTyped
    <3> QED
      BY <2>1, <3>1, <3>2, <3>3, <3>4
  <2> QED
    BY <2>2, <2>3
<1>4. CASE Wake \/ Handle \/ GateCheck
  <2>1. at \in Stages \cup {"gate", "check"}
    BY <1>4 DEF Wake, Handle, GateCheck, GateDecides, At, GInv, UnitKnown
  <2> QED
    BY <1>4, <2>1 DEF Wake, Handle, GateCheck, GateDecides, Stages
<1>5. CASE GateServe
  <2>1. Sound /\ ~conf.tick => wakes < WakeLimit
    BY <1>5, WakesBounded DEF GateServe, At
  <2>2. wakes \in Nat
    BY DEF GInv, BTyped
  <2> QED
    BY <1>5, <2>1, <2>2 DEF GateServe, BootFault
<1>6. CASE Evidence
  BY <1>6 DEF Evidence, Goto, At, GInv, GateHolds
<1>7. CASE UnitKeepsOn \/ UnitPrints \/ UnitStrays \/ UnitDies
  BY <1>7 DEF UnitKeepsOn, UnitAnswers, UnitTakesReply, UnitReady, UnitRegisters, UnitPrints,
         UnitStrays, UnitDies, Running, Ended, agentVars
<1> QED
  BY <1>1, <1>2, <1>3, <1>4, <1>5, <1>6, <1>7 DEF Next, Agent

\* The invariant is inductive when the limits have room for the unit's causes.
LEMMA BootStep ==
    ASSUME BInv, RoomForWakes, [Next]_vars
    PROVE  BInv'
<1>1. GInv /\ GInv' /\ LegHolds /\ WakesHold /\ NoFalseFault
  BY GateStep DEF BInv, GInv
<1>2. CASE Next
  <2>1. Sound' => Sound
    BY <1>1, <1>2, SoundBefore
  <2>2. LegHolds'
    <3>1. CASE ~Sound'
      BY <3>1 DEF LegHolds
    <3>2. CASE Sound'
      BY <1>1, <1>2, <2>1, <3>2, LegStepOfUnit, LegStepOfAgent DEF Next
    <3> QED
      BY <3>1, <3>2
  <2>3. WakesHold'
    <3>1. CASE ~Sound'
      BY <3>1 DEF WakesHold
    <3>2. CASE Sound'
      BY <1>1, <1>2, <2>1, <3>2, WakesStep
    <3> QED
      BY <3>1, <3>2
  <2>4. NoFalseFault'
    BY <1>1, <1>2, <2>1, FaultStep
  <2> QED
    BY <1>1, <2>2, <2>3, <2>4 DEF BInv, GInv
<1>3. CASE UNCHANGED vars
  <2>1. LegHolds' /\ NoFalseFault'
    BY <1>1, <1>3 DEF vars, agentVars, unitVars, LegHolds, NoFalseFault, Sound
  <2>2. WakesHold'
    BY <1>1, <1>3 DEF vars, agentVars, unitVars, WakesHold, EventsStand, Causes, MaxCauses, Sound
  <2> QED
    BY <1>1, <2>1, <2>2 DEF BInv, GInv
<1> QED
  BY <1>2, <1>3

\* PID 1 blames no unit that keeps to the protocol: whatever boot.toml says, and in a
\* guest without ticks for any number of regions and prints that the wake-up limits of
\* recv and of the gate have room for, a boot fault is one of the set-up before the
\* unit's own steps, and the manifest never changes between the gate and its evidence.
THEOREM NoUnitIsBlamed ==
    ASSUME RoomForWakes
    PROVE  Spec => []NoFalseFault
<1>1. BInv /\ [Next]_vars => BInv'
  BY BootStep
<1>2. BInv => NoFalseFault
  BY DEF BInv
<1> QED
  BY <1>1, <1>2, InitBoot, PTL DEF Spec
=============================================================================
