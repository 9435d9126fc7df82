----------------------------- MODULE EventFlow -----------------------------
(***************************************************************************)
(* Events on their way from the guest to the host: the calls of the SDK    *)
(* and the agent that make events, the two emit disciplines (a critical    *)
(* event rings the doorbell until it fits, a droppable one is counted and  *)
(* dropped), the rings A and W, and drain_events with what it folds into   *)
(* the host's tables.  A ring is a bounded queue of whole records, which   *)
(* is what the Ring module shows it to be.                                 *)
(*                                                                         *)
(* A call is broken up where the guest can be preempted or paused: between *)
(* the records it emits and at each port access.  An event carries, beside *)
(* its wire fields, the name the SDK means, which no host code reads.      *)
(***************************************************************************)
EXTENDS Naturals, FiniteSets, Sequences, FiniteSetsExt

CONSTANTS Names,        \* the names the workload passes to the SDK
          BeaconIds,    \* the beacon ids it passes
          BEACON_SLOTS, NAME_SLOTS, ASSERT_REPEAT_LIMIT,
          Cap,          \* records that fit into ring "A", and into ring "W"
          Ops,          \* the SDK calls this workload makes
          MaxFrames, MaxQueries, MaxLogs,     \* bounds on them
          MaxFails,     \* and on the failures of each name
          MaxLives      \* bound: workloads started one after the other

Rings == {"A", "W"}

ASSUME EventFlowAssumption ==
    /\ IsFiniteSet(Names) /\ BeaconIds \subseteq Nat
    /\ BEACON_SLOTS \in Nat \ {0} /\ NAME_SLOTS \in Nat /\ ASSERT_REPEAT_LIMIT \in Nat
    /\ Cap \in [Rings -> Nat \ {0}]

VARIABLES
  call,         \* what the agent's and the SDK's current calls still have to do
  ring, dropped,\* rings A and W, and their dropped_records counters
  ids, hits, fails, seen, frame_index, next_iseq,   \* SdkState
  stats,        \* StatsRegion, which the host can read: its tables by name id
  latch,        \* what IN 0xD384 will read
  frame_reg,    \* the frame counter of the pv-pad device
  host,         \* the host's Channel
  lives,        \* bound: workloads so far
  logs,         \* bound: log lines by each producer
  offered       \* history: droppable events emitted

sdk == <<ids, hits, fails, seen, frame_index, next_iseq>>
outside == <<ring, dropped, stats, latch, frame_reg, host, lives, logs>>
vars == <<call, sdk, outside, offered>>

-----------------------------------------------------------------------------
(***************************************************************************)
(* Events, and the steps a call is made of.                                *)
(***************************************************************************)
NameIntern(id, n, decl) == [kind |-> "NameIntern", id |-> id, name |-> n, decl |-> decl]
AssertViolation(id, n, count) ==
    [kind |-> "AssertViolation", id |-> id, name |-> n, count |-> count]
Reachable(id, n) == [kind |-> "Reachable", id |-> id, name |-> n]
InjectQuery(iseq, id, n) == [kind |-> "InjectQuery", iseq |-> iseq, id |-> id, name |-> n]
Beacon(slot) == [kind |-> "Beacon", slot |-> slot]
FrameMark(i) == [kind |-> "FrameMark", index |-> i]
LogLine == [kind |-> "LogLine"]
WorkloadStarted == [kind |-> "WorkloadStarted"]

is_critical(ev) == ev.kind \notin {"Beacon", "LogLine"}

Emit(ev) == <<[do |-> "emit", ev |-> ev]>>
Doorbell == <<[do |-> "doorbell"]>>
Out(iseq) == <<[do |-> "out", iseq |-> iseq]>>
FrameReg(i) == <<[do |-> "frame_reg", index |-> i]>>
In(iseq, id) == <<[do |-> "in", iseq |-> iseq, id |-> id]>>
Stat(table, id, count) == <<[do |-> "stat", table |-> table, id |-> id, count |-> count]>>

-----------------------------------------------------------------------------
(***************************************************************************)
(* The host.  drain_events takes ring A fully, then ring W, and folds each *)
(* event into the channel's state; the first binding of an id wins.        *)
(***************************************************************************)
NoTable == [x \in {} |-> x]
NoStats == [assertions |-> <<>>, reachable |-> <<>>]

NewChannel ==
    [interns |-> NoTable, pending |-> NoTable, unmatched |-> 0, redefinitions |-> 0,
     frame |-> 0, violations |-> [n \in Names |-> 0], reached |-> {},
     droppable |-> [r \in Rings |-> 0]]

\* BTreeMap::insert
Bind(table, key, value) ==
    [k \in DOMAIN table \cup {key} |-> IF k = key THEN value ELSE table[k]]

FoldIntern(h, ev) ==
    IF ev.id \in DOMAIN h.interns
    THEN [h EXCEPT !.interns[ev.id].decl = @ \/ ev.decl,
                   !.redefinitions = @ + IF h.interns[ev.id].name # ev.name THEN 1 ELSE 0]
    ELSE [h EXCEPT !.interns = Bind(@, ev.id, [name |-> ev.name, decl |-> ev.decl])]

\* What the consumer of the events makes of them rests on the host's table of
\* names, as intern_name resolves them.
Resolve(h, ev) == h.interns[ev.id].name

FoldEvent(h, ev, r) ==
    CASE ev.kind = "NameIntern" -> FoldIntern(h, ev)
      [] ev.kind = "InjectQuery" -> [h EXCEPT !.pending = Bind(@, ev.iseq, ev.id)]
      [] ev.kind = "FrameMark" -> [h EXCEPT !.frame = ev.index]
      [] ev.kind = "AssertViolation" -> [h EXCEPT !.violations[Resolve(h, ev)] = ev.count]
      [] ev.kind = "Reachable" -> [h EXCEPT !.reached = @ \cup {Resolve(h, ev)}]
      [] ~is_critical(ev) -> [h EXCEPT !.droppable[r] = @ + 1]
      [] OTHER -> h

\* The loop over the records of ring r: the channel after the first i of them.
Folding(h, evs, r) ==
    LET g[i \in 0 .. Len(evs)] == IF i = 0 THEN h ELSE FoldEvent(g[i - 1], evs[i], r)
    IN  g
drain_ring(h, r) == Folding(h, ring[r], r)[Len(ring[r])]
drain_events(h) == drain_ring(drain_ring(h, "A"), "W")

Drains ==
    /\ host' = drain_events(host)
    /\ ring' = [r \in Rings |-> <<>>]

\* The hypervisor drains at any pause it likes.
HostPause ==
    /\ \E r \in Rings : ring[r] # <<>>
    /\ Drains
    /\ UNCHANGED <<call, dropped, sdk, stats, latch, frame_reg, lives, logs, offered>>

\* InjectResponder::answer, after the drain inside the same exit.
Answer(h, iseq) ==
    IF iseq \in DOMAIN h.pending
    THEN [h EXCEPT !.pending = [k \in DOMAIN @ \ {iseq} |-> @[k]]]
    ELSE [h EXCEPT !.unmatched = @ + 1]

Decision(h, iseq) == IF iseq \in DOMAIN h.pending THEN <<iseq, h.pending[iseq]>> ELSE <<>>

-----------------------------------------------------------------------------
(***************************************************************************)
(* One step of a call in progress: RingW::emit and AgentChannel::emit, the *)
(* doorbell, and the two halves of the inject detcall.                     *)
(***************************************************************************)
Does(r, what) == call[r] # <<>> /\ Head(call[r]).do = what
Event(r) == Head(call[r]).ev
Proceed(r) == call' = [call EXCEPT ![r] = Tail(@)]
Full(r) == Len(ring[r]) >= Cap[r]
Offer(r) == offered' = [offered EXCEPT ![r] = @ + IF is_critical(Event(r)) THEN 0 ELSE 1]

EmitPush(r) ==
    /\ Does(r, "emit") /\ ~Full(r)
    /\ ring' = [ring EXCEPT ![r] = Append(@, Event(r))]
    /\ Proceed(r) /\ Offer(r)
    /\ UNCHANGED <<dropped, sdk, stats, latch, frame_reg, host, lives, logs>>

\* Mutant: the drop is not counted.
EmitDropsSilently(r) ==
    /\ Does(r, "emit") /\ Full(r) /\ ~is_critical(Event(r))
    /\ Proceed(r) /\ Offer(r)
    /\ UNCHANGED <<ring, dropped, sdk, stats, latch, frame_reg, host, lives, logs>>

EmitDrops(r) ==
    /\ Does(r, "emit") /\ Full(r) /\ ~is_critical(Event(r))
    /\ dropped' = [dropped EXCEPT ![r] = @ + 1]
    /\ Proceed(r) /\ Offer(r)
    /\ UNCHANGED <<ring, sdk, stats, latch, frame_reg, host, lives, logs>>

\* Mutant: a critical event is retried with no doorbell.
EmitSpins(r) ==
    /\ Does(r, "emit") /\ Full(r) /\ is_critical(Event(r))
    /\ UNCHANGED vars

\* A critical event that does not fit: ring the doorbell and try again.
EmitRetries(r) ==
    /\ Does(r, "emit") /\ Full(r) /\ is_critical(Event(r))
    /\ Drains
    /\ UNCHANGED <<call, dropped, sdk, stats, latch, frame_reg, lives, logs, offered>>

RingDoorbell(r) ==
    /\ Does(r, "doorbell")
    /\ Drains /\ Proceed(r)
    /\ UNCHANGED <<dropped, sdk, stats, latch, frame_reg, lives, logs, offered>>

InjectOut ==
    /\ Does("W", "out")
    /\ ring' = [r \in Rings |-> <<>>]
    /\ LET h == drain_events(host)
           iseq == Head(call["W"]).iseq
       IN host' = Answer(h, iseq) /\ latch' = Decision(h, iseq)
    /\ Proceed("W")
    /\ UNCHANGED <<dropped, sdk, stats, frame_reg, lives, logs, offered>>

InjectIn ==
    /\ Does("W", "in")
    /\ Proceed("W")
    /\ UNCHANGED <<ring, dropped, sdk, stats, latch, frame_reg, host, lives, logs, offered>>

\* PioState::write_frame_counter
WriteFrameCounter ==
    /\ Does("W", "frame_reg")
    /\ frame_reg' = Head(call["W"]).index
    /\ Proceed("W")
    /\ UNCHANGED <<ring, dropped, sdk, stats, latch, host, lives, logs, offered>>

\* record_assert and record_reachable: named_slot finds the entry of the id, or
\* else the first one free; a name that finds neither is not in the region.
\* (The totals and the counts of passes are left out.)
named_slot(entries, id) ==
    LET at == {i \in DOMAIN entries : entries[i].id = id}
    IN  IF at = {} THEN Len(entries) + 1 ELSE Min(at)
Recorded(entries, id, count) ==
    LET at == named_slot(entries, id)
    IN  IF at > NAME_SLOTS THEN entries
        ELSE IF at > Len(entries) THEN Append(entries, [id |-> id, count |-> count])
        ELSE [entries EXCEPT ![at].count = count]

WriteStat ==
    /\ Does("W", "stat")
    /\ LET step == Head(call["W"])
       IN  stats' = [stats EXCEPT ![step.table] = Recorded(@, step.id, step.count)]
    /\ Proceed("W")
    /\ UNCHANGED <<ring, dropped, sdk, latch, frame_reg, host, lives, logs, offered>>

-----------------------------------------------------------------------------
(***************************************************************************)
(* The calls.  Each is made under the SDK's mutex, one at a time.          *)
(***************************************************************************)
Calls(r, steps) ==
    /\ call[r] = <<>>
    /\ call' = [call EXCEPT ![r] = steps]

next_id == 1 + Cardinality({n \in Names : ids[n] # 0})
NameId(n) == IF ids[n] = 0 THEN next_id ELSE ids[n]

\* SdkState::intern_name: NameIntern goes first, and only once.
intern_name(n, decl) ==
    IF ids[n] = 0 THEN Emit(NameIntern(NameId(n), n, decl)) ELSE <<>>
Interned(n) == ids' = [ids EXCEPT ![n] = NameId(n)]

\* Mutants: the event goes out before the name it uses; one report too few.
AssertBeforeName(n, cond) ==
    /\ "assert" \in Ops /\ fails[n] < MaxFails[n] /\ ~cond
    /\ Calls("W", Emit(AssertViolation(NameId(n), n, fails[n] + 1)) \o intern_name(n, FALSE))
    /\ Interned(n)
    /\ fails' = [fails EXCEPT ![n] = @ + 1]
    /\ UNCHANGED <<outside, hits, seen, frame_index, next_iseq, offered>>
AssertSuppressesEarly(n, cond) ==
    /\ "assert" \in Ops /\ fails[n] < MaxFails[n] /\ ~cond
    /\ Calls("W", intern_name(n, FALSE) \o Stat("assertions", NameId(n), fails[n] + 1)
                    \o IF fails[n] >= ASSERT_REPEAT_LIMIT THEN <<>>
                       ELSE Emit(AssertViolation(NameId(n), n, fails[n] + 1)))
    /\ Interned(n)
    /\ fails' = [fails EXCEPT ![n] = @ + 1]
    /\ UNCHANGED <<outside, hits, seen, frame_index, next_iseq, offered>>

\* The violation after the last reported one is reported as the notice that
\* further ones are suppressed.
assert_always(n, cond) ==
    /\ "assert" \in Ops /\ fails[n] < MaxFails[n]
    /\ LET count == fails[n] + IF cond THEN 0 ELSE 1
       IN /\ Calls("W", intern_name(n, FALSE) \o Stat("assertions", NameId(n), count)
                          \o IF cond \/ count > ASSERT_REPEAT_LIMIT + 1 THEN <<>>
                             ELSE Emit(AssertViolation(NameId(n), n, count)))
          /\ fails' = [fails EXCEPT ![n] = count]
    /\ Interned(n)
    /\ UNCHANGED <<outside, hits, seen, frame_index, next_iseq, offered>>

expect_reachable(n) ==
    /\ "reach" \in Ops
    /\ Calls("W", intern_name(n, FALSE) \o Stat("reachable", NameId(n), 1)
                    \o IF hits[n] = 0 THEN Emit(Reachable(NameId(n), n)) ELSE <<>>)
    /\ Interned(n)
    /\ hits' = [hits EXCEPT ![n] = 1]
    /\ UNCHANGED <<outside, fails, seen, frame_index, next_iseq, offered>>

declare_reachable(n) ==
    /\ "declare" \in Ops
    /\ Calls("W", intern_name(n, TRUE))
    /\ Interned(n)
    /\ UNCHANGED <<outside, hits, fails, seen, frame_index, next_iseq, offered>>

coverage_beacon(id) ==
    /\ "beacon" \in Ops
    /\ LET slot == id % BEACON_SLOTS
       IN /\ Calls("W", IF slot \in seen THEN <<>> ELSE Emit(Beacon(slot)))
          /\ seen' = seen \cup {slot}
    /\ UNCHANGED <<outside, ids, hits, fails, frame_index, next_iseq, offered>>

\* Mutant: the detcall is made before the query is published.
InjectAsksFirst(n) ==
    /\ "inject" \in Ops /\ next_iseq <= MaxQueries
    /\ Calls("W", intern_name(n, FALSE) \o Out(next_iseq) \o In(next_iseq, NameId(n))
                    \o Emit(InjectQuery(next_iseq, NameId(n), n)) \o Doorbell)
    /\ Interned(n)
    /\ next_iseq' = next_iseq + 1
    /\ UNCHANGED <<outside, hits, fails, seen, frame_index, offered>>

inject_point(n) ==
    /\ "inject" \in Ops /\ next_iseq <= MaxQueries
    /\ Calls("W", intern_name(n, FALSE) \o Emit(InjectQuery(next_iseq, NameId(n), n))
                    \o Doorbell \o Out(next_iseq) \o In(next_iseq, NameId(n)))
    /\ Interned(n)
    /\ next_iseq' = next_iseq + 1
    /\ UNCHANGED <<outside, hits, fails, seen, frame_index, offered>>

\* Mutant: the counter is written before the record.
FrameMarkLate ==
    /\ "frame" \in Ops /\ frame_index < MaxFrames
    /\ Calls("W", FrameReg(frame_index + 1) \o Emit(FrameMark(frame_index + 1)))
    /\ frame_index' = frame_index + 1
    /\ UNCHANGED <<outside, ids, hits, fails, seen, next_iseq, offered>>

frame_mark ==
    /\ "frame" \in Ops /\ frame_index < MaxFrames
    /\ Calls("W", Emit(FrameMark(frame_index + 1)) \o FrameReg(frame_index + 1))
    /\ frame_index' = frame_index + 1
    /\ UNCHANGED <<outside, ids, hits, fails, seen, next_iseq, offered>>

\* log_line of the SDK and emit_lines of the agent.
log_line(r) ==
    /\ "log" \in Ops /\ logs[r] < MaxLogs
    /\ Calls(r, Emit(LogLine))
    /\ logs' = [logs EXCEPT ![r] = @ + 1]
    /\ UNCHANGED <<ring, dropped, sdk, stats, latch, frame_reg, host, lives, offered>>

\* The workload dies, wherever it is in a call, and the agent starts it again:
\* a new process with a new SdkState on the same rings.
Restart ==
    /\ lives < MaxLives
    /\ call["A"] = <<>>
    /\ call' = [A |-> Emit(WorkloadStarted) \o Doorbell, W |-> <<>>]
    /\ ids' = [n \in Names |-> 0] /\ hits' = [n \in Names |-> 0]
    /\ fails' = [n \in Names |-> 0] /\ seen' = {}
    /\ frame_index' = 0 /\ next_iseq' = 1 /\ stats' = NoStats
    /\ lives' = lives + 1
    /\ UNCHANGED <<ring, dropped, latch, frame_reg, host, logs, offered>>

-----------------------------------------------------------------------------
Init ==
    /\ call = [r \in Rings |-> <<>>]
    /\ ring = [r \in Rings |-> <<>>] /\ dropped = [r \in Rings |-> 0]
    /\ ids = [n \in Names |-> 0] /\ hits = [n \in Names |-> 0] /\ fails = [n \in Names |-> 0]
    /\ seen = {} /\ frame_index = 0 /\ next_iseq = 1 /\ stats = NoStats
    /\ latch = <<>> /\ frame_reg = 0 /\ host = NewChannel
    /\ lives = 1 /\ logs = [r \in Rings |-> 0]
    /\ offered = [r \in Rings |-> 0]

NewCall ==
    \/ \E n \in Names : \/ \E cond \in BOOLEAN : assert_always(n, cond)
                        \/ expect_reachable(n) \/ declare_reachable(n) \/ inject_point(n)
    \/ \E id \in BeaconIds : coverage_beacon(id)
    \/ frame_mark
    \/ \E r \in Rings : log_line(r)

CallStep(r) ==
    \/ EmitPush(r) \/ EmitDrops(r) \/ EmitRetries(r) \/ RingDoorbell(r)
    \/ r = "W" /\ (WriteStat \/ InjectOut \/ InjectIn \/ WriteFrameCounter)

Next ==
    \/ NewCall
    \/ \E r \in Rings : CallStep(r)
    \/ HostPause
    \/ Restart

\* A call that has begun goes on: the guest is scheduled, and the host answers
\* every exit.  Nothing makes the workload call, or the host pause the guest.
Spec == Init /\ [][Next]_vars /\ \A r \in Rings : WF_vars(CallStep(r))

-----------------------------------------------------------------------------
\* Whatever the host drains next, and wherever the drain stops, it knows every
\* name an event refers to, and knows it as the name the SDK meant.
NamesResolve ==
    \A i \in 1 .. Len(ring["W"]) :
        LET ev == ring["W"][i]
            h == Folding(host, ring["W"], "W")[i - 1]
        IN ev.kind \in {"AssertViolation", "Reachable", "InjectQuery"} =>
               ev.id \in DOMAIN h.interns /\ h.interns[ev.id].name = ev.name

\* The decision IN returns is the one for the query this call published, never
\* that of an earlier query and never an unmatched Proceed.
InjectMatched ==
    /\ host.unmatched = 0
    /\ Does("W", "in") => latch = <<Head(call["W"]).iseq, Head(call["W"]).id>>

\* The host's two sources agree with the SDK and with each other.  Between two
\* calls, with ring W drained, the events have told it the last frame, the
\* violations of each name up to the notice that ends them, and the names
\* reached.  At any pause, the stats region names no id that a drain would not
\* bind, is never behind the violations reported, and has a slot for every name
\* while there are slots.
HostViewComplete ==
    /\ call["W"] = <<>> /\ ring["W"] = <<>> =>
        /\ host.frame = frame_index
        /\ \A n \in Names : host.violations[n] = Min({fails[n], ASSERT_REPEAT_LIMIT + 1})
        /\ host.reached = {n \in Names : hits[n] > 0}
        /\ Len(stats.reachable) = Min({NAME_SLOTS, Cardinality(host.reached)})
    /\ \A t \in DOMAIN stats : \A i \in DOMAIN stats[t] :
         LET id == stats[t][i].id
         IN  /\ \/ id \in DOMAIN host.interns
                \/ \E j \in DOMAIN ring["W"] :
                     ring["W"][j].kind = "NameIntern" /\ ring["W"][j].id = id
             /\ \A j \in 1 .. (i - 1) : stats[t][j].id # id
             /\ t = "assertions" => \E n \in Names :
                  ids[n] = id /\ stats[t][i].count \in host.violations[n] .. fails[n]

\* Every droppable event is in the ring, at the host, or in the drop counter.
DropsAccounted ==
    \A r \in Rings :
        offered[r] = host.droppable[r] + dropped[r]
                       + Cardinality({i \in DOMAIN ring[r] : ~is_critical(ring[r][i])})

\* Whoever sees a frame number in the pv-pad device finds that frame's record at
\* the host already, or in ring W: frame_mark publishes the record first, and no
\* restart in the middle of it lets the counter run ahead.
FrameRecordFirst ==
    [][frame_reg' # frame_reg =>
          \/ host.frame = frame_reg'
          \/ \E i \in 1 .. Len(ring["W"]) : ring["W"][i] = FrameMark(frame_reg')]_vars

\* A call that has begun comes to its end, on a full ring too.
CallsReturn == \A r \in Rings : call[r] # <<>> ~> call[r] = <<>>

-----------------------------------------------------------------------------
(***************************************************************************)
(* The inductive invariants behind these properties.  The first holds in   *)
(* every life of the workload: what the records and the steps of a call    *)
(* are, how far a call that must publish a record first has come, and the  *)
(* account of the droppable records.                                       *)
(***************************************************************************)
Ids == Nat \ {0}
Tables == {"assertions", "reachable"}

AgentEvents == [kind : {"LogLine", "WorkloadStarted"}]
Events == AgentEvents \cup [kind : {"NameIntern"}, id : Ids, name : Names, decl : BOOLEAN]
            \cup [kind : {"AssertViolation"}, id : Ids, name : Names, count : Nat]
            \cup [kind : {"Reachable"}, id : Ids, name : Names]
            \cup [kind : {"InjectQuery"}, iseq : Nat, id : Ids, name : Names]
            \cup [kind : {"Beacon"}, slot : Nat] \cup [kind : {"FrameMark"}, index : Nat]
AgentSteps == [do : {"emit"}, ev : AgentEvents] \cup [do : {"doorbell"}]
PlainSteps == [do : {"emit"}, ev : Events]
                \cup [do : {"stat"}, table : Tables, id : Ids, count : Nat]
Steps == PlainSteps \cup [do : {"doorbell"}] \cup [do : {"out"}, iseq : Nat]
           \cup [do : {"in"}, iseq : Nat, id : Ids] \cup [do : {"frame_reg"}, index : Nat]

HasFields(h) == DOMAIN h = DOMAIN NewChannel
IsChannel(h) == HasFields(h) /\ h.droppable \in [Rings -> Nat]

TypedSdk ==
    /\ ids \in [Names -> Nat] /\ hits \in [Names -> Nat] /\ fails \in [Names -> Nat]
    /\ frame_index \in Nat /\ next_iseq \in Nat

Typed ==
    /\ DOMAIN call = Rings /\ call["A"] \in Seq(AgentSteps) /\ call["W"] \in Seq(Steps)
    /\ DOMAIN ring = Rings /\ ring["A"] \in Seq(AgentEvents) /\ ring["W"] \in Seq(Events)
    /\ dropped \in [Rings -> Nat] /\ offered \in [Rings -> Nat] /\ lives \in Nat \ {0}
    /\ IsChannel(host)

\* The record is the last of ring W, or the drain that emptied the ring folded it.
Newest(ev) == ring["W"] # <<>> /\ ring["W"][Len(ring["W"])] = ev
Asked(iseq, id) ==
    \/ \E n \in Names : Newest(InjectQuery(iseq, id, n))
    \/ ring["W"] = <<>> /\ iseq \in DOMAIN host.pending /\ host.pending[iseq] = id
Marked(i) == Newest(FrameMark(i)) \/ (ring["W"] = <<>> /\ host.frame = i)

AtFrame ==
    \E i \in Nat :
        \/ call["W"] = Emit(FrameMark(i)) \o FrameReg(i)
        \/ call["W"] = FrameReg(i) /\ Marked(i)
\* What is left of inject_point: the name, the query, the doorbell, OUT and IN.
ToOut(iseq, id) == Out(iseq) \o In(iseq, id)
ToRing(iseq, id) == Doorbell \o Out(iseq) \o In(iseq, id)
ToAsk(iseq, id, n) == Emit(InjectQuery(iseq, id, n)) \o Doorbell \o Out(iseq) \o In(iseq, id)
ToName(iseq, id, n) ==
    Emit(NameIntern(id, n, FALSE)) \o Emit(InjectQuery(iseq, id, n))
      \o Doorbell \o Out(iseq) \o In(iseq, id)
AtQuery ==
    \E iseq \in Nat, id \in Ids, n \in Names :
        \/ call["W"] \in {ToName(iseq, id, n), ToAsk(iseq, id, n)}
        \/ call["W"] \in {ToRing(iseq, id), ToOut(iseq, id)} /\ Asked(iseq, id)
        \/ call["W"] = In(iseq, id) /\ latch = <<iseq, id>>
Staged == call["W"] \in Seq(PlainSteps) \/ AtFrame \/ AtQuery

FlowInv == Typed /\ TypedSdk /\ host.unmatched = 0 /\ Staged /\ DropsAccounted

(***************************************************************************)
(* The others hold until the workload is first restarted.  Told is what    *)
(* the host will know once ring W is drained, Owed the events that the     *)
(* current call has still to emit, and Due the stats it has to record.     *)
(***************************************************************************)
Told == drain_ring(host, "W")
OwedBy(steps) == {steps[i].ev : i \in {j \in DOMAIN steps : steps[j].do = "emit"}}
DueBy(steps) == {steps[i] : i \in {j \in DOMAIN steps : steps[j].do = "stat"}}
Owed == OwedBy(call["W"])
Due == DueBy(call["W"])

\* The call is about to publish the name of this id.
Naming(id) == Does("W", "emit") /\ Event("W").kind = "NameIntern" /\ Event("W").id = id
NameKinds == {"NameIntern", "AssertViolation", "Reachable", "InjectQuery"}

\* intern_name numbers the names apart, and the next number is a new one.
NumbersApart ==
    \A n \in Names : /\ ids[n] < next_id
                     /\ \A m \in Names : ids[m] = ids[n] /\ ids[n] # 0 => m = n
IsIntern(e) == DOMAIN e = {"name", "decl"} /\ e.name \in Names
TrueInterns(h) ==
    \A id \in DOMAIN h.interns :
        id \in Ids /\ IsIntern(h.interns[id]) /\ ids[h.interns[id].name] = id
NamesInv ==
    /\ NumbersApart /\ TrueInterns(Told)
    /\ \A n \in Names : ids[n] # 0 => ids[n] \in DOMAIN Told.interns \/ Naming(ids[n])
    /\ \A ev \in Owed : ev.kind \in NameKinds => ids[ev.name] = ev.id
    /\ NamesResolve

\* What the call owes the host is what the host has yet to be told.
OwedIsNews ==
    \A ev \in Owed :
        /\ ev.kind = "FrameMark" => ev.index = frame_index
        /\ ev.kind = "AssertViolation" =>
             ev.count = fails[ev.name] /\ ev.count <= ASSERT_REPEAT_LIMIT + 1
        /\ ev.kind = "Reachable" => hits[ev.name] > 0
Owes(kind, n) == \E ev \in Owed : ev.kind = kind /\ ev.name = n
OwesFrame == \E ev \in Owed : ev.kind = "FrameMark"
ViewInv ==
    /\ OwedIsNews
    /\ OwesFrame \/ Told.frame = frame_index
    /\ Told.violations \in [Names -> Nat] /\ Told.reached \subseteq Names
    /\ host.violations \in [Names -> Nat]
    /\ \A n \in Names :
         /\ \/ Owes("AssertViolation", n)
            \/ Told.violations[n] = Min({fails[n], ASSERT_REPEAT_LIMIT + 1})
         /\ Owes("Reachable", n) \/ (n \in Told.reached <=> hits[n] > 0)

\* An entry of the stats region is that of a name the host will know, and there is
\* one entry for it; a stat is recorded after the name's record, before the report.
Entries == [id : Ids, count : Nat]
StatsTyped ==
    /\ DOMAIN stats = Tables
    /\ \A t \in Tables :
         /\ stats[t] \in Seq(Entries) /\ Len(stats[t]) <= NAME_SLOTS
         /\ \A i, j \in DOMAIN stats[t] : stats[t][i].id = stats[t][j].id => i = j
StatsNamed ==
    \A t \in Tables : \A i \in DOMAIN stats[t] :
        stats[t][i].id \in DOMAIN Told.interns /\ \E n \in Names : ids[n] = stats[t][i].id
StatsBeforeReports ==
    \A j \in DOMAIN call["W"] : call["W"][j].do = "stat" =>
        \A i \in 1 .. (j - 1) : call["W"][i].do = "emit" /\ call["W"][i].ev.kind = "NameIntern"
DueIsNews ==
    \A s \in Due : \E n \in Names :
        /\ ids[n] = s.id
        /\ s.table = "assertions" => s.count = fails[n]
        /\ s.table = "reachable" => hits[n] > 0
IsDue(table, id) == \E s \in Due : s.table = table /\ s.id = id

\* No report of a violation says more than c of name n.
AtMost(n, c) ==
    /\ host.violations[n] <= c
    /\ \A i \in DOMAIN ring["W"] :
         ring["W"][i].kind = "AssertViolation" /\ ring["W"][i].name = n => ring["W"][i].count <= c
AssertionsLead ==
    \A n \in Names :
        /\ AtMost(n, fails[n])
        /\ \A k \in DOMAIN stats["assertions"] :
             LET e == stats["assertions"][k]
             IN  e.id = ids[n] => /\ AtMost(n, e.count) /\ e.count <= fails[n]
                                  /\ IsDue("assertions", e.id) \/ e.count = fails[n]
ReachedAreSlotted ==
    /\ \A k \in DOMAIN stats["reachable"] :
         \E n \in Names : ids[n] = stats["reachable"][k].id /\ hits[n] > 0
    /\ \A n \in Names : hits[n] > 0 /\ ~IsDue("reachable", ids[n]) =>
         \/ Len(stats["reachable"]) = NAME_SLOTS
         \/ \E k \in DOMAIN stats["reachable"] : stats["reachable"][k].id = ids[n]
StatsInv ==
    /\ StatsTyped /\ StatsNamed /\ StatsBeforeReports /\ DueIsNews
    /\ AssertionsLead /\ ReachedAreSlotted

FirstLife == lives = 1 => NamesInv /\ ViewInv /\ StatsInv
=============================================================================
