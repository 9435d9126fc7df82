--------------------------- MODULE EventFlowProofs ---------------------------
(***************************************************************************)
(* The event stream is sound for any set of names, any ring capacity and   *)
(* any number of calls and restarts.  The last sections prepare what       *)
(* EventViewProofs shows of the workload's first life: they follow Told,   *)
(* the channel as it will be once ring W is drained.                       *)
(***************************************************************************)
EXTENDS EventFlow, FiniteSetTheorems, TLAPS

-----------------------------------------------------------------------------
(***************************************************************************)
(* Induction over the natural numbers in the form the provers can apply:   *)
(* over a set instead of a predicate.  Drain loops and queues of calls are *)
(* recursive functions, and what is said of them rests on it.              *)
(***************************************************************************)
\* A set of naturals that is not empty has a least element.
LEMMA LeastNatural ==
    ASSUME NEW T \in SUBSET Nat, T # {}
    PROVE  \E m \in T : \A k \in T : m <= k
<1> DEFINE R == OpToRel(<, Nat)
<1>1. IsWellFoundedOn(R, Nat)
  BY NatLessThanWellFounded
<1>2. \A x, y \in Nat : x < y => <<x, y>> \in R
  BY DEF OpToRel
<1> HIDE DEF R
<1>3. \E m \in T : \A k \in T : ~(<<k, m>> \in R)
  BY Zenon, <1>1, WFMin
<1>4. \E m \in T : \A k \in T : ~(k < m)
  BY Zenon, <1>2, <1>3
<1> QED
  BY <1>4

\* A set that has 0 and, below n, the successor of each of its members has
\* every number up to n.
LEMMA UpTo ==
    ASSUME NEW n \in Nat, NEW T, 0 \in T, \A i \in 0 .. n - 1 : i \in T => i + 1 \in T
    PROVE  \A i \in 0 .. n : i \in T
<1> DEFINE C == {i \in 0 .. n : i \notin T}
<1> SUFFICES ASSUME C # {} PROVE FALSE
  OBVIOUS
<1>1. C \in SUBSET Nat
  OBVIOUS
<1>2. PICK m \in C : \A k \in C : m <= k
  BY Zenon, <1>1, LeastNatural
<1>3. m # 0 /\ m - 1 \in 0 .. n - 1 /\ m - 1 \notin C
  BY <1>2
<1> QED
  BY <1>3

-----------------------------------------------------------------------------
(***************************************************************************)
(* The drain loop.                                                         *)
(***************************************************************************)
IsFolding(g, h, evs, r) ==
    g = [i \in 0 .. Len(evs) |-> IF i = 0 THEN h ELSE FoldEvent(g[i - 1], evs[i], r)]

\* The loop of drain_events over one ring is a recursive function, and there is one.
LEMMA FoldingExists ==
    ASSUME NEW A, NEW evs \in Seq(A), NEW h, NEW r
    PROVE  \E g : IsFolding(g, h, evs, r)
<1> DEFINE n == Len(evs)
           Step(a, i) == FoldEvent(a, evs[i], r)
           T == {k \in 0 .. n : \E g : g = [i \in 0 .. k |-> IF i = 0 THEN h ELSE Step(g[i - 1], i)]}
<1>0. n \in Nat
  OBVIOUS
<1> HIDE DEF n, Step
<1>1. 0 \in T
  <2> DEFINE g == [i \in 0 .. 0 |-> h]
  <2>1. g = [i \in 0 .. 0 |-> IF i = 0 THEN h ELSE Step(g[i - 1], i)]
    OBVIOUS
  <2> HIDE DEF g
  <2>2. 0 \in 0 .. n
    BY <1>0
  <2> QED
    BY <2>1, <2>2
<1>2. ASSUME NEW k \in 0 .. n - 1, k \in T PROVE k + 1 \in T
  <2>1. PICK g : g = [i \in 0 .. k |-> IF i = 0 THEN h ELSE Step(g[i - 1], i)]
    BY <1>2
  <2> DEFINE f == [i \in 0 .. k + 1 |-> IF i = k + 1 THEN Step(g[k], k + 1) ELSE g[i]]
  <2>2. \A i \in 0 .. k : g[i] = IF i = 0 THEN h ELSE Step(g[i - 1], i)
    BY <2>1
  <2>3. \A i \in 0 .. k : f[i] = g[i]
    BY <1>0
  <2>4. \A i \in 0 .. k + 1 : f[i] = IF i = 0 THEN h ELSE Step(f[i - 1], i)
    <3> SUFFICES ASSUME NEW i \in 0 .. k + 1
                 PROVE  f[i] = IF i = 0 THEN h ELSE Step(f[i - 1], i)
      OBVIOUS
    <3>1. CASE i = k + 1
      <4>1. i - 1 = k /\ f[k] = g[k] /\ i # 0
        BY <1>0, <2>3, <3>1
      <4> QED
        BY <3>1, <4>1
    <3>2. CASE i # k + 1
      <4>1. i \in 0 .. k /\ (i # 0 => i - 1 \in 0 .. k)
        BY <1>0, <3>2
      <4> QED
        BY <2>2, <2>3, <4>1
    <3> QED
      BY <3>1, <3>2
  <2> HIDE DEF f
  <2>5. f = [i \in 0 .. k + 1 |-> IF i = 0 THEN h ELSE Step(f[i - 1], i)]
    BY <2>4 DEF f
  <2>6. k + 1 \in 0 .. n
    BY <1>0
  <2> QED
    BY ZenonT(30), <2>5, <2>6
<1> HIDE DEF T
<1>3. \A i \in 0 .. n : i \in T
  BY <1>0, <1>1, <1>2, UpTo
<1>4. n \in T
  BY <1>0, <1>3
<1> QED
  BY <1>4 DEF T, Step, n, IsFolding

\* f[i] is the channel after i records.
FoldsBy(f, h, evs, r) ==
    f[0] = h /\ \A i \in 0 .. Len(evs) - 1 : f[i + 1] = FoldEvent(f[i], evs[i + 1], r)

\* The channel before the first record, and after each.
LEMMA FoldingSteps ==
    ASSUME NEW A, NEW evs \in Seq(A), NEW h, NEW r
    PROVE  FoldsBy(Folding(h, evs, r), h, evs, r)
<1> DEFINE g == CHOOSE f : IsFolding(f, h, evs, r)
           n == Len(evs)
<1>1. Folding(h, evs, r) = g
  BY DEF Folding, IsFolding
<1>2. IsFolding(g, h, evs, r)
  BY FoldingExists
<1> HIDE DEF g
<1>3. \A i \in 0 .. n : g[i] = IF i = 0 THEN h ELSE FoldEvent(g[i - 1], evs[i], r)
  BY <1>2 DEF IsFolding
<1>4. n \in Nat
  OBVIOUS
<1> HIDE DEF n
<1>5. g[0] = h
  BY <1>3, <1>4
<1>6. ASSUME NEW i \in 0 .. n - 1 PROVE g[i + 1] = FoldEvent(g[i], evs[i + 1], r)
  <2> DEFINE j == i + 1
  <2>1. j \in 0 .. n /\ j # 0 /\ j - 1 = i
    BY <1>4
  <2> HIDE DEF j
  <2>2. g[j] = FoldEvent(g[i], evs[j], r)
    BY <1>3, <2>1
  <2> QED
    BY <2>2 DEF j
<1> QED
  BY Zenon, <1>1, <1>5, <1>6 DEF n, FoldsBy

\* The kinds of an event, and the channel it is folded into.
LEMMA EventKinds ==
    ASSUME NEW ev \in Events
    PROVE  ev.kind \in {"LogLine", "WorkloadStarted", "NameIntern", "AssertViolation",
                        "Reachable", "InjectQuery", "Beacon", "FrameMark"}
BY DEF Events, AgentEvents

\* The fields of the host's channel.
LEMMA ChannelFields ==
    DOMAIN NewChannel = {"interns", "pending", "unmatched", "redefinitions", "frame",
                         "violations", "reached", "droppable"}
BY Zenon DEF NewChannel

\* What a violation, a reached point and a droppable event change.
Violated(h, ev) == [h.violations EXCEPT ![Resolve(h, ev)] = ev.count]
Reaches(h, ev) == h.reached \cup {Resolve(h, ev)}
Counted(d, r) == [d EXCEPT ![r] = @ + 1]

\* What one record leaves in each field of the host's channel.
FoldsTo(h, ev, r, g) ==
    /\ HasFields(g)
    /\ g.unmatched = h.unmatched
    /\ g.pending = IF ev.kind = "InjectQuery" THEN Bind(h.pending, ev.iseq, ev.id) ELSE h.pending
    /\ g.frame = IF ev.kind = "FrameMark" THEN ev.index ELSE h.frame
    /\ g.interns = IF ev.kind = "NameIntern" THEN FoldIntern(h, ev).interns ELSE h.interns
    /\ g.violations = IF ev.kind = "AssertViolation" THEN Violated(h, ev) ELSE h.violations
    /\ g.reached = IF ev.kind = "Reachable" THEN Reaches(h, ev) ELSE h.reached
    /\ g.droppable = IF is_critical(ev) THEN h.droppable ELSE Counted(h.droppable, r)

\* What one record changes of the channel, field by field.
LEMMA FoldFields ==
    ASSUME NEW h, HasFields(h), NEW ev \in Events, NEW r,
           NEW g, g = FoldEvent(h, ev, r)
    PROVE  FoldsTo(h, ev, r, g)
<1> DEFINE F == {"interns", "pending", "unmatched", "redefinitions", "frame",
                 "violations", "reached", "droppable"}
<1>1. DOMAIN h = F
  BY ChannelFields DEF HasFields
<1>2. CASE ev.kind = "NameIntern"
  <2>1. g = FoldIntern(h, ev) /\ is_critical(ev)
    BY <1>2 DEF FoldEvent, is_critical
  <2>2. /\ DOMAIN g = F /\ g.unmatched = h.unmatched /\ g.pending = h.pending /\ g.frame = h.frame
        /\ g.violations = h.violations /\ g.reached = h.reached /\ g.droppable = h.droppable
    BY <1>1, <2>1 DEF FoldIntern
  <2> QED
    BY <1>2, <2>1, <2>2, ChannelFields DEF HasFields, FoldsTo
<1>3. CASE ev.kind = "InjectQuery"
  <2>1. g = [h EXCEPT !.pending = Bind(@, ev.iseq, ev.id)] /\ is_critical(ev)
    BY <1>3 DEF FoldEvent, is_critical
  <2> QED
    BY <1>1, <1>3, <2>1, ChannelFields DEF HasFields, FoldsTo
<1>4. CASE ev.kind = "FrameMark"
  <2>1. g = [h EXCEPT !.frame = ev.index] /\ is_critical(ev)
    BY <1>4 DEF FoldEvent, is_critical
  <2> QED
    BY <1>1, <1>4, <2>1, ChannelFields DEF HasFields, FoldsTo
<1>5. CASE ev.kind = "AssertViolation"
  <2>1. g = [h EXCEPT !.violations[Resolve(h, ev)] = ev.count] /\ is_critical(ev)
    BY <1>5 DEF FoldEvent, is_critical
  <2> QED
    BY <1>1, <1>5, <2>1, ChannelFields DEF HasFields, FoldsTo, Violated
<1>6. CASE ev.kind = "Reachable"
  <2>1. g = [h EXCEPT !.reached = @ \cup {Resolve(h, ev)}] /\ is_critical(ev)
    BY <1>6 DEF FoldEvent, is_critical
  <2> QED
    BY <1>1, <1>6, <2>1, ChannelFields DEF HasFields, FoldsTo, Reaches
<1>7. CASE ev.kind \in {"Beacon", "LogLine"}
  <2>1. g = [h EXCEPT !.droppable[r] = @ + 1] /\ ~is_critical(ev)
    BY <1>7 DEF FoldEvent, is_critical
  <2> QED
    BY <1>1, <1>7, <2>1, ChannelFields DEF HasFields, FoldsTo, Counted
<1>8. CASE ev.kind = "WorkloadStarted"
  <2>1. g = h /\ is_critical(ev)
    BY <1>8 DEF FoldEvent, is_critical
  <2> QED
    BY <1>1, <1>8, <2>1, ChannelFields DEF HasFields, FoldsTo
<1> QED
  BY <1>2, <1>3, <1>4, <1>5, <1>6, <1>7, <1>8, EventKinds

\* The droppable events among the first i records, one more at a time.
Droppables(evs, i) == {j \in 1 .. i : ~is_critical(evs[j])}

\* One more record is one more droppable event, or none.
LEMMA DroppablesGrow ==
    ASSUME NEW evs, NEW i \in Nat
    PROVE  /\ Cardinality(Droppables(evs, i)) \in Nat
           /\ Cardinality(Droppables(evs, i + 1)) =
                Cardinality(Droppables(evs, i)) + IF is_critical(evs[i + 1]) THEN 0 ELSE 1
<1> DEFINE D == Droppables(evs, i)
           j == i + 1
<1>1. IsFiniteSet(1 .. i)
  BY FS_Interval
<1>2. IsFiniteSet(D) /\ Cardinality(D) \in Nat
  BY <1>1, FS_Subset, FS_CardinalityType DEF Droppables
<1>3. j \notin D /\ 1 .. j = (1 .. i) \cup {j}
  BY DEF Droppables
<1> HIDE DEF j
<1>4. Droppables(evs, j) = IF is_critical(evs[j]) THEN D ELSE D \cup {j}
  BY <1>3 DEF Droppables
<1>5. Cardinality(D \cup {j}) = Cardinality(D) + 1
  BY <1>2, <1>3, FS_AddElement
<1> HIDE DEF D
<1>6. Cardinality(Droppables(evs, j)) = Cardinality(D) + IF is_critical(evs[j]) THEN 0 ELSE 1
  BY <1>2, <1>4, <1>5
<1> QED
  BY <1>2, <1>6 DEF D, j

\* The channel g after i records of a ring: their droppable ones are counted.
CountsTo(h, evs, r, i, g) ==
    /\ IsChannel(g) /\ g.unmatched = h.unmatched
    /\ g.droppable = [h.droppable EXCEPT ![r] = @ + Cardinality(Droppables(evs, i))]

\* The loop over one ring counts that ring's droppable events, and nothing else.
LEMMA FoldingCounts ==
    ASSUME NEW h, IsChannel(h), NEW evs \in Seq(Events), NEW r \in Rings
    PROVE  \A i \in 0 .. Len(evs) : CountsTo(h, evs, r, i, Folding(h, evs, r)[i])
<1> DEFINE f == Folding(h, evs, r)
           n == Len(evs)
           T == {i \in 0 .. n : CountsTo(h, evs, r, i, f[i])}
<1>1. n \in Nat /\ \A i \in 1 .. n : evs[i] \in Events
  OBVIOUS
<1>2. f[0] = h /\ \A i \in 0 .. n - 1 : f[i + 1] = FoldEvent(f[i], evs[i + 1], r)
  <2>1. FoldsBy(f, h, evs, r)
    BY Zenon, FoldingSteps
  <2> QED
    BY Zenon, <2>1 DEF FoldsBy
<1> HIDE DEF f, n
<1>3. h.droppable \in [Rings -> Nat] /\ h.droppable[r] \in Nat
  BY DEF IsChannel
<1>4. 0 \in T
  <2>1. Droppables(evs, 0) = {}
    BY DEF Droppables
  <2>2. Cardinality(Droppables(evs, 0)) = 0
    BY ZenonT(30), <2>1, FS_EmptySet
  <2>3. \A d \in [Rings -> Nat] : \A c : c = 0 => [d EXCEPT ![r] = @ + c] = d
    OBVIOUS
  <2>4. [h.droppable EXCEPT ![r] = @ + Cardinality(Droppables(evs, 0))] = h.droppable
    BY <1>3, <2>2, <2>3
  <2> QED
    BY <1>1, <1>2, <2>4 DEF CountsTo
<1>5. ASSUME NEW i \in 0 .. n - 1, i \in T PROVE i + 1 \in T
  <2> DEFINE j == i + 1
             c == Cardinality(Droppables(evs, i))
             ev == evs[j]
  <2>1. j \in 0 .. n /\ j \in 1 .. n /\ i \in Nat
    BY <1>1
  <2>2. f[j] = FoldEvent(f[i], ev, r) /\ ev \in Events
    BY <1>1, <1>2, <2>1
  <2>3. HasFields(f[i]) /\ f[i].unmatched = h.unmatched
    BY Zenon, <1>5 DEF CountsTo, IsChannel
  <2>4. f[i].droppable = [h.droppable EXCEPT ![r] = @ + c]
    BY Zenon, <1>5 DEF CountsTo
  <2>5. c \in Nat /\ Cardinality(Droppables(evs, j)) = c + IF is_critical(ev) THEN 0 ELSE 1
    BY Zenon, <2>1, DroppablesGrow
  <2> HIDE DEF j, c, ev
  <2>6. /\ HasFields(f[j]) /\ f[j].unmatched = h.unmatched
        /\ f[j].droppable = IF is_critical(ev) THEN f[i].droppable ELSE Counted(f[i].droppable, r)
    <3>1. FoldsTo(f[i], ev, r, f[j])
      BY Zenon, <2>2, <2>3, FoldFields
    <3> QED
      BY Zenon, <2>3, <3>1 DEF FoldsTo
  <2>7. f[j].droppable = [h.droppable EXCEPT ![r] = @ + Cardinality(Droppables(evs, j))]
    BY <1>3, <2>4, <2>5, <2>6 DEF Counted
  <2>8. Cardinality(Droppables(evs, j)) \in Nat
    BY <2>5
  <2>9. f[j].droppable \in [Rings -> Nat]
    BY <1>3, <2>7, <2>8
  <2>10. j \in T
    BY ZenonT(30), <2>1, <2>6, <2>7, <2>9 DEF CountsTo, IsChannel
  <2> QED
    BY <2>10 DEF j
<1> HIDE DEF T
<1>6. \A i \in 0 .. n : i \in T
  BY Zenon, <1>1, <1>4, <1>5, UpTo
<1> QED
  BY <1>6 DEF T, f, n

\* What the host has of the workload; the agent's records leave it alone.
SameView(g, h) ==
    /\ g.interns = h.interns /\ g.pending = h.pending /\ g.frame = h.frame
    /\ g.violations = h.violations /\ g.reached = h.reached

\* The loop over ring A leaves the host's view of the workload alone.
LEMMA FoldingAgent ==
    ASSUME NEW h, HasFields(h), NEW evs \in Seq(AgentEvents), NEW r
    PROVE  LET g == Folding(h, evs, r)[Len(evs)] IN HasFields(g) /\ SameView(g, h)
<1> DEFINE f == Folding(h, evs, r)
           n == Len(evs)
           T == {i \in 0 .. n : HasFields(f[i]) /\ SameView(f[i], h)}
<1>1. n \in Nat /\ \A i \in 1 .. n : evs[i] \in AgentEvents
  OBVIOUS
<1>2. f[0] = h /\ \A i \in 0 .. n - 1 : f[i + 1] = FoldEvent(f[i], evs[i + 1], r)
  <2>1. FoldsBy(f, h, evs, r)
    BY Zenon, FoldingSteps
  <2> QED
    BY Zenon, <2>1 DEF FoldsBy
<1> HIDE DEF f, n
<1>3. 0 \in T
  BY <1>1, <1>2 DEF SameView
<1>4. ASSUME NEW i \in 0 .. n - 1, i \in T PROVE i + 1 \in T
  <2> DEFINE j == i + 1
             ev == evs[j]
  <2>1. j \in 0 .. n /\ j \in 1 .. n /\ f[j] = FoldEvent(f[i], ev, r)
    BY <1>1, <1>2
  <2>2. HasFields(f[i]) /\ SameView(f[i], h)
    BY <1>4
  <2>3. ev \in AgentEvents
    BY <1>1, <2>1
  <2> HIDE DEF j, ev
  <2>4. ev \in Events /\ ev.kind \in {"LogLine", "WorkloadStarted"}
    BY Zenon, <2>3 DEF AgentEvents, Events
  <2>5. HasFields(f[j]) /\ SameView(f[j], f[i])
    <3>1. FoldsTo(f[i], ev, r, f[j])
      BY Zenon, <2>1, <2>2, <2>4, FoldFields
    <3> QED
      BY Zenon, <2>4, <3>1 DEF FoldsTo, SameView
  <2>6. j \in T
    BY Zenon, <2>1, <2>2, <2>5 DEF SameView
  <2> QED
    BY Zenon, <2>6 DEF j
<1> HIDE DEF T
<1>5. \A i \in 0 .. n : i \in T
  BY Zenon, <1>1, <1>3, <1>4, UpTo
<1>6. n \in T
  BY <1>1, <1>5
<1> QED
  BY <1>6 DEF T, f, n

\* The channel after drain_events is the loop over ring W from the channel that
\* the loop over ring A leaves.
LEMMA DrainTwoRings ==
    ASSUME Typed
    PROVE  \E a : /\ a = drain_ring(host, "A") /\ IsChannel(a) /\ SameView(a, host)
                  /\ a.unmatched = host.unmatched
                  /\ a.droppable = [host.droppable EXCEPT !["A"] =
                                      @ + Cardinality(Droppables(ring["A"], Len(ring["A"])))]
                  /\ drain_events(host) = Folding(a, ring["W"], "W")[Len(ring["W"])]
<1> DEFINE a == drain_ring(host, "A")
           n == Len(ring["A"])
<1>1. IsChannel(host) /\ ring["A"] \in Seq(AgentEvents) /\ "A" \in Rings
  BY DEF Typed, Rings
<1>2. AgentEvents \subseteq Events
  BY DEF Events
<1>3. ring["A"] \in Seq(Events) /\ n \in 0 .. n
  BY <1>1, <1>2
<1>4. a = Folding(host, ring["A"], "A")[n]
  BY Zenon DEF drain_ring
<1>5. /\ IsChannel(a) /\ a.unmatched = host.unmatched
      /\ a.droppable = [host.droppable EXCEPT !["A"] = @ + Cardinality(Droppables(ring["A"], n))]
  <2>1. CountsTo(host, ring["A"], "A", n, a)
    BY Zenon, <1>1, <1>3, <1>4, FoldingCounts
  <2> QED
    BY Zenon, <2>1 DEF CountsTo
<1>6. SameView(a, host)
  BY Zenon, <1>1, <1>4, FoldingAgent DEF IsChannel
<1>7. drain_events(host) = Folding(a, ring["W"], "W")[Len(ring["W"])]
  BY Zenon DEF drain_events, drain_ring
<1> QED
  BY Zenon, <1>5, <1>6, <1>7

\* A drain counts the droppable events of both rings and matches no query; the
\* query or the frame mark that is published is folded when it is done.
LEMMA DrainFacts ==
    ASSUME Typed, NEW d, d = drain_events(host)
    PROVE  /\ IsChannel(d) /\ d.unmatched = host.unmatched
           /\ \A r \in Rings : d.droppable[r] = host.droppable[r]
                                 + Cardinality({i \in DOMAIN ring[r] : ~is_critical(ring[r][i])})
           /\ \A iseq : \A id : Asked(iseq, id) => iseq \in DOMAIN d.pending /\ d.pending[iseq] = id
           /\ \A i : Marked(i) => d.frame = i
<1> DEFINE w == ring["W"]
           n == Len(w)
           m == Len(ring["A"])
<1>1. PICK a : /\ IsChannel(a) /\ SameView(a, host) /\ a.unmatched = host.unmatched
               /\ a.droppable = [host.droppable EXCEPT !["A"] =
                                   @ + Cardinality(Droppables(ring["A"], m))]
               /\ d = Folding(a, w, "W")[n]
  BY DrainTwoRings
<1> DEFINE f == Folding(a, w, "W")
<1>2. /\ w \in Seq(Events) /\ n \in Nat /\ m \in Nat /\ DOMAIN w = 1 .. n
      /\ DOMAIN ring["A"] = 1 .. m /\ IsChannel(host)
  BY DEF Typed
<1>3. /\ f[0] = a /\ d = f[n]
      /\ \A i \in 0 .. n - 1 : f[i + 1] = FoldEvent(f[i], w[i + 1], "W")
  <2>1. FoldsBy(f, a, w, "W")
    BY Zenon, <1>1, <1>2, FoldingSteps
  <2> QED
    BY Zenon, <1>1, <1>2, <2>1 DEF FoldsBy
<1>4. \A i \in 0 .. n : /\ IsChannel(f[i]) /\ f[i].unmatched = a.unmatched
                        /\ f[i].droppable = [a.droppable EXCEPT !["W"] =
                                               @ + Cardinality(Droppables(w, i))]
  <2>1. "W" \in Rings
    BY DEF Rings
  <2>2. \A i \in 0 .. n : CountsTo(a, w, "W", i, f[i])
    BY Zenon, <1>1, <1>2, <2>1, FoldingCounts
  <2> HIDE DEF f
  <2> QED
    BY Zenon, <2>2 DEF CountsTo
<1>5. /\ IsChannel(d) /\ d.unmatched = host.unmatched
      /\ d.droppable = [a.droppable EXCEPT !["W"] = @ + Cardinality(Droppables(w, n))]
  BY <1>1, <1>2, <1>3, <1>4
<1>6. ASSUME NEW r \in Rings
      PROVE  d.droppable[r] = host.droppable[r]
                                + Cardinality({i \in DOMAIN ring[r] : ~is_critical(ring[r][i])})
  <2>1. /\ {i \in DOMAIN ring["A"] : ~is_critical(ring["A"][i])} = Droppables(ring["A"], m)
        /\ {i \in DOMAIN ring["W"] : ~is_critical(ring["W"][i])} = Droppables(w, n)
    BY Zenon, <1>2 DEF Droppables
  <2>2. host.droppable \in [Rings -> Nat] /\ r \in {"A", "W"} /\ Rings = {"A", "W"}
    BY Zenon, <1>2 DEF IsChannel, Rings
  <2> DEFINE ca == Cardinality(Droppables(ring["A"], m))
             cw == Cardinality(Droppables(w, n))
  <2> HIDE DEF w, n, m, ca, cw
  <2>3. d.droppable = [[host.droppable EXCEPT !["A"] = @ + ca] EXCEPT !["W"] = @ + cw]
    BY <1>1, <1>5 DEF ca, cw
  <2>4. d.droppable["A"] = host.droppable["A"] + ca /\ d.droppable["W"] = host.droppable["W"] + cw
    BY <2>2, <2>3
  <2> QED
    BY ZenonT(30), <2>1, <2>2, <2>4 DEF ca, cw
<1>7. w = <<>> => d = a
  BY Zenon, <1>3
<1>8. ASSUME NEW ev, Newest(ev)
      PROVE  ev \in Events /\ \E g : HasFields(g) /\ d = FoldEvent(g, ev, "W")
  <2>1. w # <<>> /\ ev = w[n]
    BY <1>8 DEF Newest
  <2>2. n # 0 /\ ev \in Events
    BY <1>2, <2>1
  <2> DEFINE k == n - 1
  <2>3. k \in 0 .. n - 1 /\ k \in 0 .. n /\ k + 1 = n
    BY <1>2, <2>2
  <2> HIDE DEF k
  <2>4. f[n] = FoldEvent(f[k], w[n], "W")
    BY <1>3, <2>3
  <2>5. HasFields(f[k])
    BY ZenonT(30), <1>4, <2>3 DEF IsChannel
  <2> QED
    BY <1>3, <2>1, <2>2, <2>4, <2>5
<1> HIDE DEF w, n, m, f
<1>9. ASSUME NEW iseq, NEW id, Asked(iseq, id)
      PROVE  iseq \in DOMAIN d.pending /\ d.pending[iseq] = id
  <2>1. CASE \E nm \in Names : Newest(InjectQuery(iseq, id, nm))
    <3>1. PICK nm \in Names : Newest(InjectQuery(iseq, id, nm))
      BY <2>1
    <3> DEFINE ev == InjectQuery(iseq, id, nm)
    <3>2. ev.kind = "InjectQuery" /\ ev.iseq = iseq /\ ev.id = id
      BY DEF InjectQuery
    <3>3. PICK g : HasFields(g) /\ d = FoldEvent(g, ev, "W") /\ ev \in Events
      BY Zenon, <1>8, <3>1
    <3> HIDE DEF ev
    <3>4. d.pending = Bind(g.pending, iseq, id)
      <4>1. FoldsTo(g, ev, "W", d)
        BY Zenon, <3>3, FoldFields
      <4> QED
        BY Zenon, <3>2, <4>1 DEF FoldsTo
    <3> QED
      BY <3>4 DEF Bind
  <2>2. CASE w = <<>> /\ iseq \in DOMAIN host.pending /\ host.pending[iseq] = id
    BY Zenon, <1>1, <1>7, <2>2 DEF SameView
  <2> QED
    BY <1>9, <2>1, <2>2 DEF Asked, w
<1>10. ASSUME NEW i, Marked(i) PROVE d.frame = i
  <2>1. CASE Newest(FrameMark(i))
    <3> DEFINE ev == FrameMark(i)
    <3>1. ev.kind = "FrameMark" /\ ev.index = i
      BY Zenon DEF FrameMark
    <3>2. PICK g : HasFields(g) /\ d = FoldEvent(g, ev, "W") /\ ev \in Events
      BY Zenon, <1>8, <2>1
    <3> HIDE DEF ev
    <3> QED
      <4>1. FoldsTo(g, ev, "W", d)
        BY Zenon, <3>2, FoldFields
      <4> QED
        BY Zenon, <3>1, <4>1 DEF FoldsTo
  <2>2. CASE w = <<>> /\ host.frame = i
    BY Zenon, <1>1, <1>7, <2>2 DEF SameView
  <2> QED
    BY Zenon, <1>10, <2>1, <2>2 DEF Marked, w
<1> QED
  BY Zenon, <1>5, <1>6, <1>9, <1>10

-----------------------------------------------------------------------------
(***************************************************************************)
(* FlowInv: the steps of a call.                                           *)
(***************************************************************************)
\* The step a call has come to.
LEMMA HeadFacts ==
    ASSUME Typed, NEW r \in Rings, call[r] # <<>>
    PROVE  /\ Head(call[r]) \in Steps
           /\ r = "A" => Head(call[r]) \in AgentSteps
           /\ r = "W" => Tail(call["W"]) \in Seq(Steps)
           /\ r = "A" => Tail(call["A"]) \in Seq(AgentSteps)
<1>1. AgentSteps \subseteq Steps
  BY Zenon DEF AgentSteps, Steps, PlainSteps, Events
<1> QED
  BY <1>1 DEF Typed, Rings

\* A step that emits has an event of its ring to emit.
LEMMA EmitFacts ==
    ASSUME Typed, NEW r \in Rings, Does(r, "emit")
    PROVE  Event(r) \in Events /\ (r = "A" => Event(r) \in AgentEvents)
<1>1. Head(call[r]) \in Steps /\ (r = "A" => Head(call[r]) \in AgentSteps)
  BY Zenon, HeadFacts DEF Does
<1> QED
  BY Zenon, <1>1 DEF Does, Event, Steps, PlainSteps, AgentSteps

\* What a call in one of the two that publish a record first has come to.
LEMMA FrameStages ==
    ASSUME NEW i
    PROVE  /\ Emit(FrameMark(i)) \o FrameReg(i) # <<>>
           /\ Head(Emit(FrameMark(i)) \o FrameReg(i)).do = "emit"
           /\ Head(Emit(FrameMark(i)) \o FrameReg(i)).ev = FrameMark(i)
           /\ Tail(Emit(FrameMark(i)) \o FrameReg(i)) = FrameReg(i)
           /\ FrameReg(i) # <<>> /\ Tail(FrameReg(i)) = <<>>
           /\ Head(FrameReg(i)).do = "frame_reg" /\ Head(FrameReg(i)).index = i
<1>1. FrameReg(i) \in Seq({[do |-> "frame_reg", index |-> i]})
  BY DEF FrameReg
<1>2. \A S : \A a : \A t \in Seq(S) : Tail(<<a>> \o t) = t /\ Head(<<a>> \o t) = a /\ <<a>> \o t # <<>>
  OBVIOUS
<1>3. /\ Emit(FrameMark(i)) \o FrameReg(i) # <<>>
      /\ Head(Emit(FrameMark(i)) \o FrameReg(i)) = [do |-> "emit", ev |-> FrameMark(i)]
      /\ Tail(Emit(FrameMark(i)) \o FrameReg(i)) = FrameReg(i)
  BY <1>1, <1>2 DEF Emit
<1>4. /\ FrameReg(i) # <<>> /\ Head(FrameReg(i)) = [do |-> "frame_reg", index |-> i]
      /\ Tail(FrameReg(i)) = <<>>
  BY DEF FrameReg
<1> QED
  BY <1>3, <1>4

\* What inject_point has come to once its query is out.
LEMMA DetcallStages ==
    ASSUME NEW iseq, NEW id
    PROVE  /\ ToRing(iseq, id) # <<>> /\ ToOut(iseq, id) # <<>> /\ In(iseq, id) # <<>>
           /\ Tail(ToRing(iseq, id)) = ToOut(iseq, id)
           /\ Tail(ToOut(iseq, id)) = In(iseq, id) /\ Tail(In(iseq, id)) = <<>>
           /\ Head(ToRing(iseq, id)).do = "doorbell"
           /\ Head(ToOut(iseq, id)).do = "out" /\ Head(ToOut(iseq, id)).iseq = iseq
           /\ Head(In(iseq, id)).do = "in" /\ Head(In(iseq, id)).iseq = iseq
           /\ Head(In(iseq, id)).id = id
<1> DEFINE d == [do |-> "doorbell"]
           o == [do |-> "out", iseq |-> iseq]
           i == [do |-> "in", iseq |-> iseq, id |-> id]
<1>1. Doorbell = <<d>> /\ Out(iseq) = <<o>> /\ In(iseq, id) = <<i>>
  BY Zenon DEF Doorbell, Out, In
<1>2. /\ d.do = "doorbell" /\ o.do = "out" /\ o.iseq = iseq
      /\ i.do = "in" /\ i.iseq = iseq /\ i.id = id
  OBVIOUS
<1> HIDE DEF d, o, i
<1>3. /\ <<d>> \o <<o>> \o <<i>> # <<>> /\ Head(<<d>> \o <<o>> \o <<i>>) = d
      /\ Tail(<<d>> \o <<o>> \o <<i>>) = <<o>> \o <<i>>
  OBVIOUS
<1>4. <<o>> \o <<i>> # <<>> /\ Head(<<o>> \o <<i>>) = o /\ Tail(<<o>> \o <<i>>) = <<i>>
  <2>1. <<i>> \in Seq({i})
    OBVIOUS
  <2>2. \A S : \A x : \A t \in Seq(S) : Tail(<<x>> \o t) = t /\ Head(<<x>> \o t) = x /\ <<x>> \o t # <<>>
    OBVIOUS
  <2> QED
    BY ZenonT(30), <2>1, <2>2
<1>5. <<i>> # <<>> /\ Head(<<i>>) = i /\ Tail(<<i>>) = <<>>
  OBVIOUS
<1> QED
  BY <1>1, <1>2, <1>3, <1>4, <1>5, Zenon DEF ToRing, ToOut

\* The record of a name that inject_point uses for the first time.
NewName(id, n) == NameIntern(id, n, FALSE)

\* What inject_point has come to before that.
LEMMA QueryStages ==
    ASSUME NEW iseq, NEW id, NEW n
    PROVE  /\ ToName(iseq, id, n) # <<>> /\ ToAsk(iseq, id, n) # <<>>
           /\ Tail(ToName(iseq, id, n)) = ToAsk(iseq, id, n)
           /\ Tail(ToAsk(iseq, id, n)) = ToRing(iseq, id)
           /\ Head(ToName(iseq, id, n)).do = "emit"
           /\ Head(ToName(iseq, id, n)).ev = NewName(id, n)
           /\ Head(ToAsk(iseq, id, n)).do = "emit"
           /\ Head(ToAsk(iseq, id, n)).ev = InjectQuery(iseq, id, n)
<1> DEFINE a == [do |-> "emit", ev |-> NameIntern(id, n, FALSE)]
           b == [do |-> "emit", ev |-> InjectQuery(iseq, id, n)]
           d == [do |-> "doorbell"]
           o == [do |-> "out", iseq |-> iseq]
           i == [do |-> "in", iseq |-> iseq, id |-> id]
<1>1. /\ Emit(NameIntern(id, n, FALSE)) = <<a>> /\ Emit(InjectQuery(iseq, id, n)) = <<b>>
      /\ Doorbell = <<d>> /\ Out(iseq) = <<o>> /\ In(iseq, id) = <<i>>
  BY DEF Emit, Doorbell, Out, In
<1>2. a.do = "emit" /\ a.ev = NewName(id, n) /\ b.do = "emit" /\ b.ev = InjectQuery(iseq, id, n)
  BY DEF NewName
<1> HIDE DEF a, b, d, o, i
<1>3. /\ <<a>> \o <<b>> \o <<d>> \o <<o>> \o <<i>> # <<>>
      /\ Head(<<a>> \o <<b>> \o <<d>> \o <<o>> \o <<i>>) = a
      /\ Tail(<<a>> \o <<b>> \o <<d>> \o <<o>> \o <<i>>) = <<b>> \o <<d>> \o <<o>> \o <<i>>
  OBVIOUS
<1>4. /\ <<b>> \o <<d>> \o <<o>> \o <<i>> # <<>> /\ Head(<<b>> \o <<d>> \o <<o>> \o <<i>>) = b
      /\ Tail(<<b>> \o <<d>> \o <<o>> \o <<i>>) = <<d>> \o <<o>> \o <<i>>
  OBVIOUS
<1> QED
  BY <1>1, <1>2, <1>3, <1>4, Zenon DEF ToName, ToAsk, ToRing

\* The stage of the workload's call rests on its own records alone.
LEMMA StagedKept ==
    ASSUME Staged, call["W"]' = call["W"], ring["W"]' = ring["W"], latch' = latch,
           host.pending' = host.pending, host.frame' = host.frame
    PROVE  Staged'
<1>1. \A iseq, id : Asked(iseq, id)' <=> Asked(iseq, id)
  BY DEF Asked, Newest
<1>2. \A i : Marked(i)' <=> Marked(i)
  BY DEF Marked, Newest
<1>3. AtFrame => AtFrame'
  BY ZenonT(30), <1>2 DEF AtFrame
<1>4. AtQuery => AtQuery'
  BY <1>1 DEF AtQuery
<1> QED
  BY Zenon, <1>3, <1>4 DEF Staged

\* The account of a ring that gains one record.
LEMMA AccountPush ==
    ASSUME NEW s \in Seq(Events), NEW ev \in Events, NEW t, t = Append(s, ev)
    PROVE  /\ Cardinality({i \in DOMAIN s : ~is_critical(s[i])}) \in Nat
           /\ Cardinality({i \in DOMAIN t : ~is_critical(t[i])}) =
                Cardinality({i \in DOMAIN s : ~is_critical(s[i])}) + IF is_critical(ev) THEN 0 ELSE 1
<1> DEFINE n == Len(s)
           m == n + 1
<1>1. /\ n \in Nat /\ DOMAIN s = 1 .. n /\ DOMAIN t = 1 .. m /\ t[m] = ev
      /\ \A i \in 1 .. n : t[i] = s[i]
  OBVIOUS
<1>2. /\ {i \in DOMAIN s : ~is_critical(s[i])} = Droppables(s, n)
      /\ {i \in DOMAIN t : ~is_critical(t[i])} = Droppables(t, m)
      /\ Droppables(t, n) = Droppables(s, n)
  BY <1>1 DEF Droppables
<1>3. /\ Cardinality(Droppables(t, n)) \in Nat
      /\ Cardinality(Droppables(t, m)) =
           Cardinality(Droppables(t, n)) + IF is_critical(t[m]) THEN 0 ELSE 1
  BY ZenonT(30), <1>1, DroppablesGrow
<1> HIDE DEF n, m
<1> QED
  BY ZenonT(30), <1>1, <1>2, <1>3

\* The droppable records of a ring are finitely many.
LEMMA AccountNat ==
    ASSUME Typed, NEW r \in Rings
    PROVE  Cardinality({i \in DOMAIN ring[r] : ~is_critical(ring[r][i])}) \in Nat
<1> DEFINE n == Len(ring[r])
<1>1. DOMAIN ring[r] = 1 .. n /\ n \in Nat
  BY DEF Typed, Rings
<1>2. {i \in DOMAIN ring[r] : ~is_critical(ring[r][i])} = Droppables(ring[r], n)
  BY Zenon, <1>1 DEF Droppables
<1> QED
  BY ZenonT(30), <1>1, <1>2, DroppablesGrow

\* A record that fits goes to the end of its ring, and the call goes on.
LEMMA PushFlow == \A r \in Rings : FlowInv /\ EmitPush(r) => FlowInv'
<1> SUFFICES ASSUME NEW r \in Rings, FlowInv, EmitPush(r) PROVE FlowInv'
  OBVIOUS
<1>0. PICK ev : ev = Event(r)
  OBVIOUS
<1>1. /\ Typed /\ TypedSdk /\ host.unmatched = 0 /\ Staged /\ DropsAccounted /\ Does(r, "emit")
      /\ ring' = [ring EXCEPT ![r] = Append(@, ev)] /\ call' = [call EXCEPT ![r] = Tail(@)]
      /\ offered' = [offered EXCEPT ![r] = @ + IF is_critical(ev) THEN 0 ELSE 1]
      /\ UNCHANGED <<dropped, sdk, stats, latch, frame_reg, host, lives, logs>>
  BY Zenon, <1>0 DEF FlowInv, EmitPush, Proceed, Offer
<1>2. ev \in Events /\ (r = "A" => ev \in AgentEvents)
  BY Zenon, <1>0, <1>1, EmitFacts
<1>3. call[r] # <<>> /\ Head(call[r]).do = "emit" /\ Head(call[r]).ev = ev
  BY ZenonT(30), <1>0, <1>1 DEF Does, Event
<1>4. /\ r = "W" => Tail(call["W"]) \in Seq(Steps)
      /\ r = "A" => Tail(call["A"]) \in Seq(AgentSteps)
  BY ZenonT(30), <1>1, <1>3, HeadFacts
<1>5. Typed'
  <2>1. r \in {"A", "W"} /\ Rings = {"A", "W"}
    BY Zenon DEF Rings
  <2>2. offered' \in [Rings -> Nat]
    BY <1>1 DEF Typed
  <2>3. IsChannel(host)'
    BY Zenon, <1>1 DEF Typed, IsChannel, HasFields
  <2> QED
    BY <1>1, <1>2, <1>4, <2>1, <2>2, <2>3 DEF Typed
<1>6. TypedSdk' /\ host.unmatched' = 0
  BY Zenon, <1>1 DEF TypedSdk, sdk
<1>7. Staged'
  <2>1. CASE r = "A"
    <3>1. call["W"]' = call["W"] /\ ring["W"]' = ring["W"]
      BY ZenonT(30), <1>1, <2>1 DEF Typed, Rings
    <3> QED
      BY ZenonT(30), <1>1, <3>1, StagedKept
  <2>2. CASE r = "W"
    <3>1. /\ call["W"]' = Tail(call["W"]) /\ ring["W"]' = Append(ring["W"], ev)
          /\ ring["W"] \in Seq(Events)
      BY <1>1, <2>2 DEF Typed, Rings
    <3>2. Newest(ev)'
      BY <1>2, <3>1 DEF Newest
    <3>3. CASE call["W"] \in Seq(PlainSteps)
      BY <1>3, <2>2, <3>1, <3>3 DEF Staged
    <3>4. CASE AtFrame
      <4>1. PICK i \in Nat : \/ call["W"] = Emit(FrameMark(i)) \o FrameReg(i)
                             \/ call["W"] = FrameReg(i)
        BY <3>4 DEF AtFrame
      <4>2. ev = FrameMark(i) /\ Tail(call["W"]) = FrameReg(i)
        <5>1. FrameReg(i) # call["W"]
          BY <1>3, <2>2, FrameStages
        <5> QED
          BY ZenonT(30), <1>3, <2>2, <4>1, <5>1, FrameStages
      <4>3. call["W"]' = FrameReg(i) /\ Marked(i)'
        BY Zenon, <3>1, <3>2, <4>2 DEF Marked
      <4> QED
        BY Zenon, <4>3 DEF Staged, AtFrame
    <3>5. CASE AtQuery
      <4>1. PICK iseq \in Nat, id \in Ids, n \in Names :
              call["W"] \in {ToName(iseq, id, n), ToAsk(iseq, id, n), ToRing(iseq, id),
                            ToOut(iseq, id), In(iseq, id)}
        BY ZenonT(30), <3>5 DEF AtQuery
      <4>2. \/ call["W"]' = ToAsk(iseq, id, n)
            \/ call["W"]' = ToRing(iseq, id) /\ ev = InjectQuery(iseq, id, n)
        <5>1. call["W"] \notin {ToRing(iseq, id), ToOut(iseq, id), In(iseq, id)}
          BY SMTT(30), <1>3, <2>2, DetcallStages
        <5>2. CASE call["W"] = ToName(iseq, id, n)
          BY SMTT(30), <3>1, <5>2, QueryStages
        <5>3. CASE call["W"] = ToAsk(iseq, id, n)
          BY <1>3, <2>2, <3>1, <5>3, QueryStages
        <5> QED
          BY ZenonT(30), <4>1, <5>1, <5>2, <5>3
      <4>3. ev = InjectQuery(iseq, id, n) => Asked(iseq, id)'
        BY Zenon, <3>2 DEF Asked
      <4> QED
        BY <4>2, <4>3 DEF Staged, AtQuery
    <3> QED
      BY <1>1, <3>3, <3>4, <3>5 DEF Staged
  <2> QED
    BY Zenon, <2>1, <2>2 DEF Rings
<1>8. DropsAccounted'
  <2> SUFFICES ASSUME NEW q \in Rings
               PROVE  offered[q]' = host.droppable[q]' + dropped[q]'
                        + Cardinality({i \in DOMAIN ring[q] : ~is_critical(ring[q][i])})'
    BY Zenon DEF DropsAccounted
  <2>1. offered[q] = host.droppable[q] + dropped[q]
                       + Cardinality({i \in DOMAIN ring[q] : ~is_critical(ring[q][i])})
    BY Zenon, <1>1 DEF DropsAccounted
  <2>2. CASE q # r
    <3>1. ring'[q] = ring[q] /\ offered'[q] = offered[q]
      BY <1>1, <2>2 DEF Typed
    <3> QED
      BY ZenonT(30), <1>1, <2>1, <3>1
  <2>3. CASE q = r
    <3> DEFINE s == ring[r]
               t == ring'[r]
               c == Cardinality({i \in DOMAIN s : ~is_critical(s[i])})
               e == IF is_critical(ev) THEN 0 ELSE 1
    <3>1. s \in Seq(Events)
      <4>1. AgentEvents \subseteq Events
        BY Zenon DEF Events
      <4> QED
        BY <1>1, <4>1 DEF Typed, Rings
    <3>2. t = Append(s, ev) /\ offered'[r] = offered[r] + e
      BY <1>1 DEF Typed
    <3>3. /\ c \in Nat
          /\ Cardinality({i \in DOMAIN t : ~is_critical(t[i])}) = c + e /\ e \in Nat
      BY ZenonT(30), <1>2, <3>1, <3>2, AccountPush
    <3>4. host.droppable[r] \in Nat /\ dropped[r] \in Nat /\ offered[r] \in Nat
      BY <1>1 DEF Typed, IsChannel
    <3>5. offered[r] = host.droppable[r] + dropped[r] + c
      BY <2>1, <2>3
    <3> DEFINE x == host.droppable[r]
               y == dropped[r]
               z == Cardinality({i \in DOMAIN t : ~is_critical(t[i])})
    <3> HIDE DEF c, e, x, y, z
    <3>51. /\ offered'[r] = (x + y + c) + e /\ z = c + e
           /\ x \in Nat /\ y \in Nat /\ c \in Nat /\ e \in Nat
      BY ZenonT(30), <3>2, <3>3, <3>4, <3>5 DEF x, y, z
    <3>52. offered'[r] = x + y + z
      BY <3>51
    <3>6. offered'[r] = host.droppable[r] + dropped[r]
                          + Cardinality({i \in DOMAIN t : ~is_critical(t[i])})
      BY Zenon, <3>52 DEF x, y, z
    <3> QED
      BY ZenonT(30), <1>1, <2>3, <3>6
  <2> QED
    BY <2>2, <2>3
<1> QED
  BY <1>5, <1>6, <1>7, <1>8 DEF FlowInv

\* A record that does not fit and may be dropped is counted, and no call that has
\* to publish a record first can lose it this way.
LEMMA DropFlow == \A r \in Rings : FlowInv /\ EmitDrops(r) => FlowInv'
<1> SUFFICES ASSUME NEW r \in Rings, FlowInv, EmitDrops(r) PROVE FlowInv'
  OBVIOUS
<1>0. PICK ev : ev = Event(r)
  OBVIOUS
<1>1. /\ Typed /\ TypedSdk /\ host.unmatched = 0 /\ Staged /\ DropsAccounted /\ Does(r, "emit")
      /\ ~is_critical(ev) /\ call' = [call EXCEPT ![r] = Tail(@)]
      /\ dropped' = [dropped EXCEPT ![r] = @ + 1]
      /\ offered' = [offered EXCEPT ![r] = @ + 1]
      /\ UNCHANGED <<ring, sdk, stats, latch, frame_reg, host, lives, logs>>
  BY ZenonT(30), <1>0 DEF FlowInv, EmitDrops, Proceed, Offer
<1>2. call[r] # <<>> /\ Head(call[r]).do = "emit" /\ Head(call[r]).ev = ev
  BY <1>0, <1>1 DEF Does, Event
<1>3. /\ r = "W" => Tail(call["W"]) \in Seq(Steps)
      /\ r = "A" => Tail(call["A"]) \in Seq(AgentSteps)
  BY ZenonT(30), <1>1, <1>2, HeadFacts
<1>4. Typed'
  <2>1. r \in {"A", "W"} /\ Rings = {"A", "W"}
    BY DEF Rings
  <2>2. offered' \in [Rings -> Nat] /\ dropped' \in [Rings -> Nat]
    <3>1. \A f \in [Rings -> Nat] : [f EXCEPT ![r] = @ + 1] \in [Rings -> Nat]
      OBVIOUS
    <3>2. offered \in [Rings -> Nat] /\ dropped \in [Rings -> Nat]
      BY Zenon, <1>1 DEF Typed
    <3> QED
      BY Zenon, <1>1, <3>1, <3>2
  <2>3. IsChannel(host)'
    BY <1>1 DEF Typed, IsChannel, HasFields
  <2> QED
    BY ZenonT(30), <1>1, <1>3, <2>1, <2>2, <2>3 DEF Typed
<1>5. TypedSdk' /\ host.unmatched' = 0
  BY Zenon, <1>1 DEF TypedSdk, sdk
<1>6. Staged'
  <2>1. CASE r = "A"
    <3>1. call["W"]' = call["W"] /\ ring["W"]' = ring["W"]
      BY <1>1, <2>1 DEF Typed, Rings
    <3> QED
      BY Zenon, <1>1, <3>1, StagedKept
  <2>2. CASE r = "W"
    <3>1. call["W"]' = Tail(call["W"])
      BY <1>1, <2>2 DEF Typed, Rings
    <3>2. CASE call["W"] \in Seq(PlainSteps)
      BY <1>2, <2>2, <3>1, <3>2 DEF Staged
    <3>3. CASE AtFrame
      <4>1. PICK i \in Nat : \/ call["W"] = Emit(FrameMark(i)) \o FrameReg(i)
                             \/ call["W"] = FrameReg(i)
        BY <3>3 DEF AtFrame
      <4>2. FrameReg(i) # call["W"]
        BY <1>2, <2>2, FrameStages
      <4>3. ev = FrameMark(i)
        BY SMTT(30), <1>2, <2>2, <4>1, <4>2, FrameStages
      <4> QED
        BY ZenonT(30), <1>1, <4>3 DEF FrameMark, is_critical
    <3>4. CASE AtQuery
      <4>1. PICK iseq \in Nat, id \in Ids, n \in Names :
              call["W"] \in {ToName(iseq, id, n), ToAsk(iseq, id, n), ToRing(iseq, id),
                            ToOut(iseq, id), In(iseq, id)}
        BY <3>4 DEF AtQuery
      <4>2. call["W"] \notin {ToRing(iseq, id), ToOut(iseq, id), In(iseq, id)}
        BY <1>2, <2>2, DetcallStages
      <4>3. ev = NewName(id, n) \/ ev = InjectQuery(iseq, id, n)
        <5>1. /\ Head(ToName(iseq, id, n)).ev = NewName(id, n)
              /\ Head(ToAsk(iseq, id, n)).ev = InjectQuery(iseq, id, n)
          BY Zenon, QueryStages
        <5>2. call["W"] \in {ToName(iseq, id, n), ToAsk(iseq, id, n)}
          BY Zenon, <4>1, <4>2
        <5> QED
          BY Zenon, <1>2, <2>2, <5>1, <5>2
      <4>4. is_critical(NewName(id, n)) /\ is_critical(InjectQuery(iseq, id, n))
        BY DEF NewName, NameIntern, InjectQuery, is_critical
      <4> QED
        BY Zenon, <1>1, <4>3, <4>4
    <3> QED
      BY <1>1, <3>2, <3>3, <3>4 DEF Staged
  <2> QED
    BY <2>1, <2>2 DEF Rings
<1>7. DropsAccounted'
  <2> SUFFICES ASSUME NEW q \in Rings
               PROVE  offered[q]' = host.droppable[q]' + dropped[q]'
                        + Cardinality({i \in DOMAIN ring[q] : ~is_critical(ring[q][i])})'
    BY DEF DropsAccounted
  <2> DEFINE c == Cardinality({i \in DOMAIN ring[q] : ~is_critical(ring[q][i])})
             x == host.droppable[q]
  <2>1. offered[q] = x + dropped[q] + c
    BY Zenon, <1>1 DEF DropsAccounted
  <2>2. c \in Nat
    BY Zenon, <1>1, AccountNat
  <2>3. x \in Nat /\ dropped[q] \in Nat /\ offered[q] \in Nat
    BY Zenon, <1>1 DEF Typed, IsChannel
  <2>4. /\ q = r => offered'[q] = offered[q] + 1 /\ dropped'[q] = dropped[q] + 1
        /\ q # r => offered'[q] = offered[q] /\ dropped'[q] = dropped[q]
    BY Zenon, <1>1 DEF Typed
  <2>5. c' = c /\ x' = x
    BY Zenon, <1>1
  <2> HIDE DEF c, x
  <2>6. offered'[q] = x + dropped'[q] + c
    BY SMTT(30), <2>1, <2>2, <2>3, <2>4
  <2> QED
    BY Zenon, <2>5, <2>6 DEF c, x
<1> QED
  BY <1>4, <1>5, <1>6, <1>7 DEF FlowInv

\* A drain that empties the rings moves their droppable records to the host's count.
LEMMA AccountDrain ==
    ASSUME Typed, DropsAccounted, ring' = [r \in Rings |-> <<>>], UNCHANGED <<dropped, offered>>,
           host'.droppable = drain_events(host).droppable
    PROVE  DropsAccounted'
<1> SUFFICES ASSUME NEW q \in Rings
             PROVE  offered[q]' = host.droppable[q]' + dropped[q]'
                      + Cardinality({i \in DOMAIN ring[q] : ~is_critical(ring[q][i])})'
  BY Zenon DEF DropsAccounted
<1> DEFINE c == Cardinality({i \in DOMAIN ring[q] : ~is_critical(ring[q][i])})
           x == host.droppable[q]
           d == drain_events(host)
<1>1. offered[q] = x + dropped[q] + c
  BY Zenon DEF DropsAccounted
<1>2. c \in Nat
  BY Zenon, AccountNat
<1>3. x \in Nat /\ dropped[q] \in Nat /\ offered[q] \in Nat
  BY Zenon DEF Typed, IsChannel
<1>4. d.droppable[q] = x + c
  BY Zenon, DrainFacts
<1>5. {i \in DOMAIN ring[q] : ~is_critical(ring[q][i])}' = {}
  BY SMTT(30)
<1>6. c' = 0
  BY Zenon, <1>5, FS_EmptySet
<1>7. x' = d.droppable[q]
  OBVIOUS
<1> HIDE DEF c, x, d
<1>8. offered[q] = (x + c) + dropped[q] + 0
  BY SMTT(30), <1>1, <1>2, <1>3
<1> QED
  BY ZenonT(30), <1>4, <1>6, <1>7, <1>8 DEF c, x

\* A drain at a doorbell or a pause.
LEMMA DrainKeeps ==
    ASSUME Typed, DropsAccounted, Drains, UNCHANGED <<dropped, offered>>
    PROVE  /\ IsChannel(host)' /\ host.unmatched' = host.unmatched /\ DropsAccounted'
           /\ DOMAIN ring' = Rings /\ ring'["A"] \in Seq(AgentEvents) /\ ring'["W"] \in Seq(Events)
           /\ \A iseq : \A id : Asked(iseq, id) => Asked(iseq, id)'
           /\ \A i : Marked(i) => Marked(i)'
<1>1. host' = drain_events(host) /\ ring' = [r \in Rings |-> <<>>]
  BY Zenon DEF Drains
<1>2. DropsAccounted'
  BY ZenonT(30), <1>1, AccountDrain
<1>3. /\ IsChannel(host') /\ host'.unmatched = host.unmatched
      /\ \A iseq : \A id : Asked(iseq, id) => iseq \in DOMAIN host'.pending /\ host'.pending[iseq] = id
      /\ \A i : Marked(i) => host'.frame = i
  BY SMTT(30), <1>1, DrainFacts
<1>4. IsChannel(host)'
  BY Zenon, <1>3 DEF IsChannel, HasFields
<1>5. DOMAIN ring' = Rings /\ ring'["A"] = <<>> /\ ring'["W"] = <<>>
  BY Zenon, <1>1 DEF Rings
<1>6. \A iseq : \A id : Asked(iseq, id) => Asked(iseq, id)'
  BY Zenon, <1>3, <1>5 DEF Asked
<1>7. \A i : Marked(i) => Marked(i)'
  BY Zenon, <1>3, <1>5 DEF Marked
<1> QED
  BY SMTT(30), <1>2, <1>3, <1>4, <1>5, <1>6, <1>7

\* A drain leaves a call where it is, and what it published stays published.
LEMMA StagedDrained ==
    ASSUME Staged, call["W"]' = call["W"], latch' = latch,
           \A iseq : \A id : Asked(iseq, id) => Asked(iseq, id)',
           \A i : Marked(i) => Marked(i)'
    PROVE  Staged'
<1>1. AtFrame => AtFrame'
  BY Zenon DEF AtFrame
<1>2. AtQuery => AtQuery'
  BY DEF AtQuery
<1> QED
  BY Zenon, <1>1, <1>2 DEF Staged

\* The host drains at a pause, and at the doorbell of a record that did not fit.
LEMMA PauseFlow ==
    ASSUME FlowInv, Drains, UNCHANGED <<call, dropped, sdk, latch, lives, offered>>
    PROVE  FlowInv'
<1>1. Typed /\ TypedSdk /\ host.unmatched = 0 /\ Staged /\ DropsAccounted
  BY Zenon DEF FlowInv
<1>2. /\ IsChannel(host)' /\ host.unmatched' = host.unmatched /\ DropsAccounted'
      /\ DOMAIN ring' = Rings /\ ring'["A"] \in Seq(AgentEvents) /\ ring'["W"] \in Seq(Events)
  BY Zenon, <1>1, DrainKeeps
<1>3. /\ \A iseq : \A id : Asked(iseq, id) => Asked(iseq, id)'
      /\ \A i : Marked(i) => Marked(i)'
  BY Zenon, <1>1, DrainKeeps
<1>4. Typed'
  BY ZenonT(30), <1>1, <1>2 DEF Typed
<1>5. TypedSdk' /\ host.unmatched' = 0
  BY <1>1, <1>2 DEF TypedSdk, sdk
<1>6. Staged'
  BY ZenonT(30), <1>1, <1>3, StagedDrained
<1> QED
  BY Zenon, <1>2, <1>4, <1>5, <1>6 DEF FlowInv

\* The doorbell of a call: the record published before it stays published.
LEMMA DoorbellFlow == \A r \in Rings : FlowInv /\ RingDoorbell(r) => FlowInv'
<1> SUFFICES ASSUME NEW r \in Rings, FlowInv, RingDoorbell(r) PROVE FlowInv'
  OBVIOUS
<1>1. /\ Typed /\ TypedSdk /\ host.unmatched = 0 /\ Staged /\ DropsAccounted
      /\ call[r] # <<>> /\ Head(call[r]).do = "doorbell"
      /\ Drains /\ call' = [call EXCEPT ![r] = Tail(@)]
      /\ UNCHANGED <<dropped, sdk, stats, latch, frame_reg, lives, logs, offered>>
  BY Zenon DEF FlowInv, RingDoorbell, Proceed, Does
<1>2. /\ IsChannel(host)' /\ host.unmatched' = host.unmatched /\ DropsAccounted'
      /\ DOMAIN ring' = Rings /\ ring'["A"] \in Seq(AgentEvents) /\ ring'["W"] \in Seq(Events)
  BY <1>1, DrainKeeps
<1>3. /\ \A iseq : \A id : Asked(iseq, id) => Asked(iseq, id)'
      /\ \A i : Marked(i) => Marked(i)'
  BY <1>1, DrainKeeps
<1>4. /\ r = "W" => Tail(call["W"]) \in Seq(Steps)
      /\ r = "A" => Tail(call["A"]) \in Seq(AgentSteps)
  BY <1>1, HeadFacts
<1>5. Typed'
  <2>1. r \in {"A", "W"} /\ Rings = {"A", "W"}
    BY DEF Rings
  <2> QED
    BY ZenonT(30), <1>1, <1>2, <1>4, <2>1 DEF Typed
<1>6. TypedSdk' /\ host.unmatched' = 0
  BY ZenonT(30), <1>1, <1>2 DEF TypedSdk, sdk
<1>7. Staged'
  <2>1. CASE r = "A"
    <3>1. call["W"]' = call["W"]
      BY <1>1, <2>1 DEF Typed, Rings
    <3> QED
      BY ZenonT(30), <1>1, <1>3, <3>1, StagedDrained
  <2>2. CASE r = "W"
    <3>1. call["W"]' = Tail(call["W"])
      BY <1>1, <2>2 DEF Typed, Rings
    <3>2. CASE call["W"] \in Seq(PlainSteps)
      BY SMTT(30), <1>1, <2>2, <3>1, <3>2 DEF Staged
    <3>3. CASE AtFrame
      <4>1. PICK i \in Nat : \/ call["W"] = Emit(FrameMark(i)) \o FrameReg(i)
                             \/ call["W"] = FrameReg(i)
        BY <3>3 DEF AtFrame
      <4> QED
        BY ZenonT(30), <1>1, <2>2, <4>1, FrameStages
    <3>4. CASE AtQuery
      <4>1. PICK iseq \in Nat, id \in Ids, n \in Names :
              \/ call["W"] \in {ToName(iseq, id, n), ToAsk(iseq, id, n)}
              \/ call["W"] \in {ToRing(iseq, id), ToOut(iseq, id)} /\ Asked(iseq, id)
              \/ call["W"] = In(iseq, id)
        BY Zenon, <3>4 DEF AtQuery
      <4>2. call["W"] \notin {ToOut(iseq, id), In(iseq, id)}
        BY SMTT(30), <1>1, <2>2, DetcallStages
      <4>3. call["W"] \notin {ToName(iseq, id, n), ToAsk(iseq, id, n)}
        BY <1>1, <2>2, QueryStages
      <4>4. call["W"] = ToRing(iseq, id) /\ Asked(iseq, id)
        BY ZenonT(30), <4>1, <4>2, <4>3
      <4>5. Tail(ToRing(iseq, id)) = ToOut(iseq, id)
        BY DetcallStages
      <4>6. call["W"]' = ToOut(iseq, id) /\ Asked(iseq, id)'
        BY Zenon, <1>3, <3>1, <4>4, <4>5
      <4> QED
        BY Zenon, <4>6 DEF Staged, AtQuery
    <3> QED
      BY ZenonT(30), <1>1, <3>2, <3>3, <3>4 DEF Staged
  <2> QED
    BY <2>1, <2>2 DEF Rings
<1> QED
  BY ZenonT(30), <1>2, <1>5, <1>6, <1>7 DEF FlowInv

\* The steps of a call that must publish a record first, other than its records
\* and its doorbell: what was published when the call came there.
LEMMA StageFacts ==
    ASSUME Staged, call["W"] # <<>>
    PROVE  /\ Head(call["W"]).do = "stat" => call["W"] \in Seq(PlainSteps)
           /\ Head(call["W"]).do = "frame_reg" =>
                Tail(call["W"]) = <<>> /\ Marked(Head(call["W"]).index)
           /\ Head(call["W"]).do = "out" =>
                \E iseq \in Nat : \E id \in Ids :
                   /\ Head(call["W"]).iseq = iseq /\ Asked(iseq, id)
                   /\ Tail(call["W"]) = In(iseq, id)
           /\ Head(call["W"]).do = "in" =>
                Tail(call["W"]) = <<>> /\ latch = <<Head(call["W"]).iseq, Head(call["W"]).id>>
<1>1. CASE call["W"] \in Seq(PlainSteps)
  <2>1. Head(call["W"]) \in PlainSteps
    BY <1>1
  <2>2. Head(call["W"]).do \in {"emit", "stat"}
    BY Zenon, <2>1 DEF PlainSteps
  <2> QED
    BY Zenon, <1>1, <2>2
<1>2. CASE AtFrame
  <2>1. PICK i \in Nat : \/ call["W"] = Emit(FrameMark(i)) \o FrameReg(i)
                         \/ call["W"] = FrameReg(i) /\ Marked(i)
    BY ZenonT(30), <1>2 DEF AtFrame
  <2> QED
    BY <2>1, FrameStages
<1>3. CASE AtQuery
  <2>1. PICK iseq \in Nat, id \in Ids, n \in Names :
          \/ call["W"] \in {ToName(iseq, id, n), ToAsk(iseq, id, n)}
          \/ call["W"] \in {ToRing(iseq, id), ToOut(iseq, id)} /\ Asked(iseq, id)
          \/ call["W"] = In(iseq, id) /\ latch = <<iseq, id>>
    BY Zenon, <1>3 DEF AtQuery
  <2>2. CASE call["W"] \in {ToName(iseq, id, n), ToAsk(iseq, id, n)}
    <3>1. Head(ToName(iseq, id, n)).do = "emit" /\ Head(ToAsk(iseq, id, n)).do = "emit"
      BY Zenon, QueryStages
    <3>2. Head(call["W"]).do = "emit"
      BY Zenon, <2>2, <3>1
    <3> QED
      BY Zenon, <3>2
  <2>3. CASE call["W"] = ToRing(iseq, id)
    <3>1. Head(ToRing(iseq, id)).do = "doorbell"
      BY DetcallStages
    <3> QED
      BY Zenon, <2>3, <3>1
  <2>4. CASE call["W"] = ToOut(iseq, id) /\ Asked(iseq, id)
    BY <2>4, DetcallStages
  <2>5. CASE call["W"] = In(iseq, id) /\ latch = <<iseq, id>>
    BY <2>5, DetcallStages
  <2> QED
    BY ZenonT(30), <2>1, <2>2, <2>3, <2>4, <2>5
<1> QED
  BY Zenon, <1>1, <1>2, <1>3 DEF Staged

\* OUT 0xD380: the drain in its exit has folded this call's query, so the answer
\* is matched and is the one IN will read.
LEMMA OutFlow == FlowInv /\ InjectOut => FlowInv'
<1> SUFFICES ASSUME FlowInv, InjectOut PROVE FlowInv'
  OBVIOUS
<1>0. PICK d : d = drain_events(host)
  OBVIOUS
<1>1. /\ Typed /\ TypedSdk /\ host.unmatched = 0 /\ Staged /\ DropsAccounted
      /\ call["W"] # <<>> /\ Head(call["W"]).do = "out"
      /\ ring' = [r \in Rings |-> <<>>] /\ call' = [call EXCEPT !["W"] = Tail(@)]
      /\ host' = Answer(d, Head(call["W"]).iseq) /\ latch' = Decision(d, Head(call["W"]).iseq)
      /\ UNCHANGED <<dropped, sdk, stats, frame_reg, lives, logs, offered>>
  BY <1>0 DEF FlowInv, InjectOut, Proceed, Does
<1>2. PICK iseq \in Nat : \E id \in Ids :
        Head(call["W"]).iseq = iseq /\ Asked(iseq, id) /\ Tail(call["W"]) = In(iseq, id)
  BY <1>1, StageFacts
<1>3. PICK id \in Ids :
        Head(call["W"]).iseq = iseq /\ Asked(iseq, id) /\ Tail(call["W"]) = In(iseq, id)
  BY SMTT(30), <1>2
<1>4. /\ IsChannel(d) /\ d.unmatched = host.unmatched
      /\ iseq \in DOMAIN d.pending /\ d.pending[iseq] = id
  <2>1. /\ IsChannel(d) /\ d.unmatched = host.unmatched
        /\ \A k : \A j : Asked(k, j) => k \in DOMAIN d.pending /\ d.pending[k] = j
    BY <1>0, <1>1, DrainFacts
  <2> QED
    BY Zenon, <1>3, <2>1
<1>5. latch' = <<iseq, id>>
  BY Zenon, <1>1, <1>3, <1>4 DEF Decision
<1>6. host' = [d EXCEPT !.pending = [k \in DOMAIN @ \ {iseq} |-> @[k]]]
  BY ZenonT(30), <1>1, <1>3, <1>4 DEF Answer
<1>7. /\ host'.unmatched = d.unmatched /\ host'.droppable = d.droppable
      /\ DOMAIN host' = DOMAIN d
  BY ZenonT(30), <1>4, <1>6, ChannelFields DEF IsChannel, HasFields
<1>8. IsChannel(host)'
  BY ZenonT(30), <1>4, <1>7 DEF IsChannel, HasFields, NewChannel
<1>9. DropsAccounted'
  BY <1>0, <1>1, <1>7, AccountDrain
<1>10. DOMAIN ring' = Rings /\ ring'["A"] = <<>> /\ ring'["W"] = <<>>
  BY Zenon, <1>1 DEF Rings
<1>11. call["W"]' = In(iseq, id) /\ call["A"]' = call["A"] /\ DOMAIN call' = Rings
  BY ZenonT(30), <1>1, <1>3 DEF Typed, Rings
<1>12. Tail(call["W"]) \in Seq(Steps)
  BY ZenonT(30), <1>1, HeadFacts DEF Rings
<1>13. Typed'
  <2>1. ring'["A"] \in Seq(AgentEvents) /\ ring'["W"] \in Seq(Events)
    BY <1>10
  <2>2. call'["W"] \in Seq(Steps) /\ call'["A"] \in Seq(AgentSteps)
    BY ZenonT(30), <1>1, <1>3, <1>11, <1>12 DEF Typed
  <2> QED
    BY SMTT(30), <1>1, <1>8, <1>10, <1>11, <2>1, <2>2 DEF Typed
<1>14. TypedSdk' /\ host.unmatched' = 0
  BY ZenonT(30), <1>1, <1>4, <1>7 DEF TypedSdk, sdk
<1>15. Staged'
  <2>1. \E n \in Names : TRUE
    <3>1. \/ AtQuery \/ call["W"] \in Seq(PlainSteps) \/ AtFrame
      BY Zenon, <1>1 DEF Staged
    <3>2. ~(call["W"] \in Seq(PlainSteps))
      <4>1. call["W"] \in Seq(PlainSteps) => Head(call["W"]) \in PlainSteps
        BY <1>1
      <4> QED
        BY Zenon, <1>1, <4>1 DEF PlainSteps
    <3>3. ~AtFrame
      BY <1>1, FrameStages DEF AtFrame
    <3> QED
      BY ZenonT(30), <3>1, <3>2, <3>3 DEF AtQuery
  <2> QED
    BY ZenonT(30), <1>5, <1>11, <2>1 DEF Staged, AtQuery
<1> QED
  BY <1>9, <1>13, <1>14, <1>15 DEF FlowInv

\* A step that touches neither ring nor host keeps FlowInv when the calls it
\* leaves are calls, at a stage one may be at.
LEMMA QuietFlow ==
    ASSUME FlowInv, UNCHANGED <<ring, dropped, host, offered>>, lives' \in Nat \ {0}, TypedSdk',
           DOMAIN call' = Rings, call'["A"] \in Seq(AgentSteps), call'["W"] \in Seq(Steps), Staged'
    PROVE  FlowInv'
<1>1. Typed /\ host.unmatched = 0 /\ DropsAccounted
  BY Zenon DEF FlowInv
<1>2. IsChannel(host)'
  BY Zenon, <1>1 DEF Typed, IsChannel, HasFields
<1>3. Typed'
  BY Zenon, <1>1, <1>2 DEF Typed
<1>4. DropsAccounted'
  BY Zenon, <1>1 DEF DropsAccounted
<1> QED
  BY <1>1, <1>3, <1>4 DEF FlowInv

\* The steps of a call that touch neither ring: IN, the frame counter, the stats.
LEMMA PortFlow == FlowInv /\ (InjectIn \/ WriteFrameCounter \/ WriteStat) => FlowInv'
<1> SUFFICES ASSUME FlowInv, InjectIn \/ WriteFrameCounter \/ WriteStat PROVE FlowInv'
  BY Zenon
<1>1. /\ Typed /\ TypedSdk /\ Staged /\ call["W"] # <<>>
      /\ Head(call["W"]).do \in {"in", "frame_reg", "stat"}
      /\ call' = [call EXCEPT !["W"] = Tail(@)]
      /\ UNCHANGED <<ring, dropped, sdk, host, lives, offered>>
  BY Zenon DEF FlowInv, InjectIn, WriteFrameCounter, WriteStat, Proceed, Does
<1>2. Tail(call["W"]) \in Seq(Steps)
  BY Zenon, <1>1, HeadFacts DEF Rings
<1>3. /\ DOMAIN call' = Rings /\ call["A"]' = call["A"] /\ call["W"]' = Tail(call["W"])
      /\ call["A"] \in Seq(AgentSteps) /\ lives \in Nat \ {0}
  BY Zenon, <1>1 DEF Typed, Rings
<1>4. Tail(call["W"]) = <<>> \/ call["W"] \in Seq(PlainSteps)
  BY <1>1, StageFacts
<1>5. Tail(call["W"]) \in Seq(PlainSteps)
  <2>1. <<>> \in Seq(PlainSteps)
    OBVIOUS
  <2>2. \A S : \A q \in Seq(S) : q # <<>> => Tail(q) \in Seq(S)
    OBVIOUS
  <2> QED
    BY ZenonT(30), <1>1, <1>4, <2>1, <2>2
<1>6. Staged' /\ TypedSdk'
  BY <1>1, <1>3, <1>5 DEF Staged, TypedSdk, sdk
<1> QED
  BY ZenonT(30), <1>1, <1>2, <1>3, <1>6, QuietFlow

-----------------------------------------------------------------------------
(***************************************************************************)
(* FlowInv: the calls.                                                     *)
(***************************************************************************)
\* intern_name gives a name a number that is not zero.
LEMMA NameIdType ==
    ASSUME TypedSdk, NEW n \in Names
    PROVE  NameId(n) \in Ids /\ next_id \in Ids
<1> DEFINE U == {m \in Names : ids[m] # 0}
<1>1. IsFiniteSet(U)
  BY Zenon, EventFlowAssumption, FS_Subset
<1>2. Cardinality(U) \in Nat
  BY Zenon, <1>1, FS_CardinalityType
<1> HIDE DEF U
<1>3. next_id = 1 + Cardinality(U)
  BY Zenon DEF next_id, U
<1>4. next_id \in Ids
  BY <1>2, <1>3 DEF Ids
<1>5. ids[n] \in Nat
  BY DEF TypedSdk
<1> QED
  BY ZenonT(30), <1>4, <1>5 DEF NameId, Ids

\* Sequences of steps put together are sequences of steps.
LEMMA Joined ==
    ASSUME NEW S, NEW s \in Seq(S), NEW t \in Seq(S)
    PROVE  s \o t \in Seq(S)
OBVIOUS

\* The steps intern_name adds to a call.
LEMMA InternSteps ==
    ASSUME TypedSdk, NEW n \in Names, NEW decl \in BOOLEAN
    PROVE  intern_name(n, decl) \in Seq(PlainSteps)
<1>1. NameId(n) \in Ids
  BY Zenon, NameIdType
<1> DEFINE ev == NameIntern(NameId(n), n, decl)
<1>2. ev \in Events
  BY Zenon, <1>1 DEF Events, NameIntern
<1> HIDE DEF ev
<1>3. [do |-> "emit", ev |-> ev] \in PlainSteps
  BY Zenon, <1>2 DEF PlainSteps
<1>4. Emit(ev) \in Seq(PlainSteps)
  BY <1>3 DEF Emit
<1>5. <<>> \in Seq(PlainSteps)
  OBVIOUS
<1> QED
  BY <1>4, <1>5 DEF intern_name, ev

\* A step that emits an event is a plain step.
LEMMA EmitSteps ==
    ASSUME NEW ev \in Events
    PROVE  Emit(ev) \in Seq(PlainSteps)
<1>1. [do |-> "emit", ev |-> ev] \in PlainSteps
  BY Zenon DEF PlainSteps
<1> QED
  BY <1>1 DEF Emit

\* A step that records into the stats region is a plain step.
LEMMA StatSteps ==
    ASSUME NEW table \in Tables, NEW id \in Ids, NEW count \in Nat
    PROVE  Stat(table, id, count) \in Seq(PlainSteps)
<1>1. [do |-> "stat", table |-> table, id |-> id, count |-> count] \in PlainSteps
  BY Zenon DEF PlainSteps
<1> QED
  BY SMTT(30), <1>1 DEF Stat

\* A call that publishes nothing another party waits for.
LEMMA PlainCall ==
    ASSUME FlowInv, NEW steps \in Seq(PlainSteps), Calls("W", steps),
           UNCHANGED <<outside, offered>>, TypedSdk'
    PROVE  FlowInv'
<1>1. /\ Typed /\ DOMAIN call' = Rings /\ call'["W"] = steps /\ call'["A"] = call["A"]
  BY DEF FlowInv, Calls, Typed, Rings
<1>2. PlainSteps \subseteq Steps
  BY DEF Steps
<1>3. steps \in Seq(Steps)
  BY <1>2
<1>4. call'["A"] \in Seq(AgentSteps) /\ call'["W"] \in Seq(Steps) /\ lives' \in Nat \ {0}
  BY ZenonT(30), <1>1, <1>3 DEF Typed, outside
<1>5. Staged'
  BY Zenon, <1>1 DEF Staged
<1>6. UNCHANGED <<ring, dropped, host, offered>>
  BY Zenon DEF outside
<1> QED
  BY ZenonT(30), <1>1, <1>4, <1>5, <1>6, QuietFlow

\* assert_always
LEMMA AssertFlow ==
    \A n \in Names : \A cond \in BOOLEAN : FlowInv /\ assert_always(n, cond) => FlowInv'
<1> SUFFICES ASSUME NEW n \in Names, NEW cond \in BOOLEAN, FlowInv, assert_always(n, cond)
             PROVE  FlowInv'
  OBVIOUS
<1>0. PICK count : count = fails[n] + IF cond THEN 0 ELSE 1
  OBVIOUS
<1> DEFINE report == IF cond \/ count > ASSERT_REPEAT_LIMIT + 1 THEN <<>>
                     ELSE Emit(AssertViolation(NameId(n), n, count))
           steps == intern_name(n, FALSE) \o Stat("assertions", NameId(n), count) \o report
<1>1. TypedSdk
  BY DEF FlowInv
<1>2. /\ Calls("W", steps) /\ fails' = [fails EXCEPT ![n] = count]
      /\ ids' = [ids EXCEPT ![n] = NameId(n)]
      /\ UNCHANGED <<outside, hits, seen, frame_index, next_iseq, offered>>
  BY ZenonT(30), <1>0 DEF assert_always, Interned
<1>3. count \in Nat
  BY <1>0, <1>1 DEF TypedSdk
<1>4. NameId(n) \in Ids
  BY ZenonT(30), <1>1, NameIdType
<1>5. AssertViolation(NameId(n), n, count) \in Events
  BY ZenonT(30), <1>3, <1>4 DEF AssertViolation, Events
<1>6. report \in Seq(PlainSteps)
  <2>1. <<>> \in Seq(PlainSteps)
    OBVIOUS
  <2> QED
    BY <1>5, <2>1, EmitSteps
<1>7. intern_name(n, FALSE) \in Seq(PlainSteps)
  BY ZenonT(30), <1>1, InternSteps
<1>8. Stat("assertions", NameId(n), count) \in Seq(PlainSteps)
  BY <1>3, <1>4, StatSteps DEF Tables
<1> HIDE DEF report
<1>9. steps \in Seq(PlainSteps)
  BY ZenonT(30), <1>6, <1>7, <1>8, Joined
<1>10. TypedSdk'
  BY ZenonT(30), <1>1, <1>2, <1>3, <1>4 DEF TypedSdk, Ids
<1> HIDE DEF steps
<1> QED
  BY <1>2, <1>9, <1>10, PlainCall

\* expect_reachable and declare_reachable
LEMMA ReachableFlow ==
    \A n \in Names : FlowInv /\ (expect_reachable(n) \/ declare_reachable(n)) => FlowInv'
<1> SUFFICES ASSUME NEW n \in Names, FlowInv, expect_reachable(n) \/ declare_reachable(n)
             PROVE  FlowInv'
  OBVIOUS
<1> DEFINE report == IF hits[n] = 0 THEN Emit(Reachable(NameId(n), n)) ELSE <<>>
           reached == intern_name(n, FALSE) \o Stat("reachable", NameId(n), 1) \o report
           declared == intern_name(n, TRUE)
<1>1. TypedSdk
  BY DEF FlowInv
<1>2. /\ Calls("W", reached) \/ Calls("W", declared)
      /\ hits' \in {hits, [hits EXCEPT ![n] = 1]}
      /\ ids' = [ids EXCEPT ![n] = NameId(n)]
      /\ UNCHANGED <<outside, fails, seen, frame_index, next_iseq, offered>>
  BY ZenonT(30) DEF expect_reachable, declare_reachable, Interned
<1>3. NameId(n) \in Ids
  BY ZenonT(30), <1>1, NameIdType
<1>4. Reachable(NameId(n), n) \in Events
  BY Zenon, <1>3 DEF Reachable, Events
<1>5. report \in Seq(PlainSteps)
  <2>1. <<>> \in Seq(PlainSteps)
    OBVIOUS
  <2> QED
    BY <1>4, <2>1, EmitSteps
<1>6. intern_name(n, FALSE) \in Seq(PlainSteps) /\ declared \in Seq(PlainSteps)
  BY ZenonT(30), <1>1, InternSteps
<1>7. Stat("reachable", NameId(n), 1) \in Seq(PlainSteps)
  BY <1>3, StatSteps DEF Tables
<1> HIDE DEF report
<1>8. reached \in Seq(PlainSteps)
  BY ZenonT(30), <1>5, <1>6, <1>7, Joined
<1>9. TypedSdk'
  BY <1>1, <1>2, <1>3 DEF TypedSdk, Ids
<1> HIDE DEF reached, declared
<1> QED
  BY SMTT(30), <1>2, <1>6, <1>8, <1>9, PlainCall

\* coverage_beacon
LEMMA BeaconFlow == \A id \in BeaconIds : FlowInv /\ coverage_beacon(id) => FlowInv'
<1> SUFFICES ASSUME NEW id \in BeaconIds, FlowInv, coverage_beacon(id) PROVE FlowInv'
  OBVIOUS
<1> DEFINE slot == id % BEACON_SLOTS
           steps == IF slot \in seen THEN <<>> ELSE Emit(Beacon(slot))
<1>1. TypedSdk
  BY Zenon DEF FlowInv
<1>2. /\ Calls("W", steps)
      /\ UNCHANGED <<outside, ids, hits, fails, frame_index, next_iseq, offered>>
  BY Zenon DEF coverage_beacon
<1>3. slot \in Nat
  BY SMTT(30), EventFlowAssumption
<1> HIDE DEF slot
<1>4. Beacon(slot) \in Events
  BY Zenon, <1>3 DEF Beacon, Events
<1>5. steps \in Seq(PlainSteps)
  <2>1. <<>> \in Seq(PlainSteps)
    OBVIOUS
  <2> QED
    BY Zenon, <1>4, <2>1, EmitSteps
<1>6. TypedSdk'
  BY Zenon, <1>1, <1>2 DEF TypedSdk
<1> HIDE DEF steps
<1> QED
  BY Zenon, <1>2, <1>5, <1>6, PlainCall

\* inject_point: the query goes out before the detcall that asks for its answer.
LEMMA InjectFlow == \A n \in Names : FlowInv /\ inject_point(n) => FlowInv'
<1> SUFFICES ASSUME NEW n \in Names, FlowInv, inject_point(n) PROVE FlowInv'
  OBVIOUS
<1>0. PICK iseq, id : iseq = next_iseq /\ id = NameId(n)
  OBVIOUS
<1> DEFINE steps == intern_name(n, FALSE) \o Emit(InjectQuery(iseq, id, n))
                      \o Doorbell \o Out(iseq) \o In(iseq, id)
<1>1. TypedSdk /\ Typed
  BY DEF FlowInv
<1>2. /\ Calls("W", steps) /\ next_iseq' = next_iseq + 1 /\ ids' = [ids EXCEPT ![n] = NameId(n)]
      /\ UNCHANGED <<outside, hits, fails, seen, frame_index, offered>>
  BY ZenonT(30), <1>0 DEF inject_point, Interned
<1>3. id \in Ids /\ iseq \in Nat
  BY <1>0, <1>1, NameIdType DEF TypedSdk
<1>4. steps \in {ToName(iseq, id, n), ToAsk(iseq, id, n)}
  <2>1. CASE ids[n] = 0
    BY <1>0, <2>1 DEF intern_name, ToName
  <2>2. CASE ids[n] # 0
    <3>1. \A S : \A t \in Seq(S) : <<>> \o t = t
      OBVIOUS
    <3>2. Emit(InjectQuery(iseq, id, n)) \in Seq({[do |-> "emit", ev |-> InjectQuery(iseq, id, n)]})
      BY DEF Emit
    <3>3. <<>> \o Emit(InjectQuery(iseq, id, n)) = Emit(InjectQuery(iseq, id, n))
      BY <3>1, <3>2
    <3> QED
      BY ZenonT(30), <2>2, <3>3 DEF intern_name, ToAsk
  <2> QED
    BY ZenonT(30), <2>1, <2>2
<1>5. steps \in Seq(Steps)
  <2>1. InjectQuery(iseq, id, n) \in Events
    BY Zenon, <1>3 DEF InjectQuery, Events
  <2>2. PlainSteps \subseteq Steps
    BY DEF Steps
  <2>3. intern_name(n, FALSE) \in Seq(PlainSteps)
    BY ZenonT(30), <1>1, InternSteps
  <2>4. Emit(InjectQuery(iseq, id, n)) \in Seq(PlainSteps)
    BY Zenon, <2>1, EmitSteps
  <2>5. \A q \in Seq(PlainSteps) : q \in Seq(Steps)
    BY <2>2
  <2>6. /\ [do |-> "doorbell"] \in Steps /\ [do |-> "out", iseq |-> iseq] \in Steps
        /\ [do |-> "in", iseq |-> iseq, id |-> id] \in Steps
    BY Zenon, <1>3 DEF Steps
  <2>7. Doorbell \in Seq(Steps) /\ Out(iseq) \in Seq(Steps) /\ In(iseq, id) \in Seq(Steps)
    BY SMTT(30), <2>6 DEF Doorbell, Out, In
  <2> QED
    BY ZenonT(30), <2>3, <2>4, <2>5, <2>7, Joined
<1> HIDE DEF steps
<1>6. DOMAIN call' = Rings /\ call'["W"] = steps /\ call'["A"] = call["A"]
  BY ZenonT(30), <1>1, <1>2 DEF Calls, Typed, Rings
<1>7. call'["A"] \in Seq(AgentSteps) /\ call'["W"] \in Seq(Steps) /\ lives' \in Nat \ {0}
  BY ZenonT(30), <1>1, <1>2, <1>5, <1>6 DEF Typed, outside
<1>8. Staged'
  BY ZenonT(30), <1>3, <1>4, <1>6 DEF Staged, AtQuery
<1>9. TypedSdk'
  BY SMTT(30), <1>0, <1>1, <1>2, <1>3 DEF TypedSdk, Ids
<1>10. UNCHANGED <<ring, dropped, host, offered>>
  BY Zenon, <1>2 DEF outside
<1> QED
  BY SMTT(30), <1>6, <1>7, <1>8, <1>9, <1>10, QuietFlow

\* frame_mark: the record goes out before the counter is written.
LEMMA FrameFlow == FlowInv /\ frame_mark => FlowInv'
<1> SUFFICES ASSUME FlowInv, frame_mark PROVE FlowInv'
  OBVIOUS
<1>0. PICK i : i = frame_index + 1
  OBVIOUS
<1> DEFINE steps == Emit(FrameMark(i)) \o FrameReg(i)
<1>1. TypedSdk /\ Typed
  BY Zenon DEF FlowInv
<1>2. /\ Calls("W", steps) /\ frame_index' = i
      /\ UNCHANGED <<outside, ids, hits, fails, seen, next_iseq, offered>>
  BY Zenon, <1>0 DEF frame_mark
<1>3. i \in Nat
  BY <1>0, <1>1 DEF TypedSdk
<1>4. steps \in Seq(Steps)
  <2>1. FrameMark(i) \in Events
    BY ZenonT(30), <1>3 DEF FrameMark, Events
  <2>2. PlainSteps \subseteq Steps
    BY Zenon DEF Steps
  <2>3. Emit(FrameMark(i)) \in Seq(PlainSteps)
    BY <2>1, EmitSteps
  <2>4. Emit(FrameMark(i)) \in Seq(Steps)
    BY <2>2, <2>3
  <2>5. [do |-> "frame_reg", index |-> i] \in Steps
    BY <1>3 DEF Steps
  <2>6. FrameReg(i) \in Seq(Steps)
    BY <2>5 DEF FrameReg
  <2> QED
    BY ZenonT(30), <2>4, <2>6, Joined
<1>5. DOMAIN call' = Rings /\ call'["W"] = steps /\ call'["A"] = call["A"]
  BY <1>1, <1>2 DEF Calls, Typed, Rings
<1>6. Staged'
  BY ZenonT(30), <1>3, <1>5 DEF Staged, AtFrame
<1> HIDE DEF steps
<1>7. call'["A"] \in Seq(AgentSteps) /\ call'["W"] \in Seq(Steps) /\ lives' \in Nat \ {0}
  BY ZenonT(30), <1>1, <1>2, <1>4, <1>5 DEF Typed, outside
<1>8. TypedSdk'
  BY ZenonT(30), <1>1, <1>2, <1>3 DEF TypedSdk
<1>9. UNCHANGED <<ring, dropped, host, offered>>
  BY Zenon, <1>2 DEF outside
<1> QED
  BY Zenon, <1>5, <1>6, <1>7, <1>8, <1>9, QuietFlow

\* log_line of the SDK and emit_lines of the agent.
LEMMA LogFlow == \A r \in Rings : FlowInv /\ log_line(r) => FlowInv'
<1> SUFFICES ASSUME NEW r \in Rings, FlowInv, log_line(r) PROVE FlowInv'
  OBVIOUS
<1>1. /\ Typed /\ TypedSdk /\ Staged
      /\ call[r] = <<>> /\ call' = [call EXCEPT ![r] = Emit(LogLine)]
      /\ UNCHANGED <<ring, dropped, sdk, stats, latch, frame_reg, host, lives, offered>>
  BY Zenon DEF FlowInv, log_line, Calls
<1>2. LogLine \in AgentEvents /\ LogLine \in Events
  BY Zenon DEF LogLine, AgentEvents, Events
<1>3. [do |-> "emit", ev |-> LogLine] \in AgentSteps
  BY ZenonT(30), <1>2 DEF AgentSteps
<1>4. Emit(LogLine) \in Seq(AgentSteps)
  BY <1>3 DEF Emit
<1>5. Emit(LogLine) \in Seq(PlainSteps) /\ PlainSteps \subseteq Steps
  BY Zenon, <1>2, EmitSteps DEF Steps
<1>6. Emit(LogLine) \in Seq(Steps)
  BY SMTT(30), <1>5
<1>7. /\ DOMAIN call' = Rings
      /\ r = "A" => call'["A"] = Emit(LogLine) /\ call'["W"] = call["W"]
      /\ r = "W" => call'["W"] = Emit(LogLine) /\ call'["A"] = call["A"]
  BY Zenon, <1>1 DEF Typed, Rings
<1>8. r \in {"A", "W"}
  BY Zenon DEF Rings
<1>9. call'["A"] \in Seq(AgentSteps) /\ call'["W"] \in Seq(Steps) /\ lives' \in Nat \ {0}
  BY SMTT(30), <1>1, <1>4, <1>6, <1>7, <1>8 DEF Typed
<1>10. Staged'
  <2>1. CASE r = "A"
    BY ZenonT(30), <1>1, <1>7, <2>1, StagedKept
  <2>2. CASE r = "W"
    BY ZenonT(30), <1>5, <1>7, <2>2 DEF Staged
  <2> QED
    BY ZenonT(30), <1>8, <2>1, <2>2
<1>11. TypedSdk'
  BY Zenon, <1>1 DEF TypedSdk, sdk
<1> QED
  BY ZenonT(30), <1>1, <1>7, <1>9, <1>10, <1>11, QuietFlow

\* The agent starts the workload again.
LEMMA RestartFlow == FlowInv /\ Restart => FlowInv'
<1> SUFFICES ASSUME FlowInv, Restart PROVE FlowInv'
  OBVIOUS
<1> DEFINE steps == Emit(WorkloadStarted) \o Doorbell
<1>1. /\ Typed /\ call' = [A |-> steps, W |-> <<>>] /\ lives' = lives + 1
      /\ ids' = [n \in Names |-> 0] /\ hits' = [n \in Names |-> 0]
      /\ fails' = [n \in Names |-> 0] /\ frame_index' = 0 /\ next_iseq' = 1
      /\ UNCHANGED <<ring, dropped, latch, frame_reg, host, logs, offered>>
  BY Zenon DEF FlowInv, Restart
<1>2. WorkloadStarted \in AgentEvents
  BY Zenon DEF WorkloadStarted, AgentEvents
<1>3. [do |-> "emit", ev |-> WorkloadStarted] \in AgentSteps /\ [do |-> "doorbell"] \in AgentSteps
  BY ZenonT(30), <1>2 DEF AgentSteps
<1>4. Emit(WorkloadStarted) \in Seq(AgentSteps) /\ Doorbell \in Seq(AgentSteps)
  BY <1>3 DEF Emit, Doorbell
<1>5. steps \in Seq(AgentSteps)
  BY ZenonT(30), <1>4, Joined
<1> HIDE DEF steps
<1>6. DOMAIN call' = Rings /\ call'["A"] = steps /\ call'["W"] = <<>>
  BY Zenon, <1>1 DEF Rings
<1>7. lives' \in Nat \ {0} /\ TypedSdk'
  BY <1>1 DEF Typed, TypedSdk
<1>8. <<>> \in Seq(PlainSteps) /\ <<>> \in Seq(Steps)
  OBVIOUS
<1>9. Staged'
  BY ZenonT(30), <1>6, <1>8 DEF Staged
<1> QED
  BY ZenonT(30), <1>1, <1>5, <1>6, <1>7, <1>8, <1>9, QuietFlow

\* Every state the program starts in.
LEMMA InitFlow == Init => FlowInv
<1> SUFFICES ASSUME Init PROVE FlowInv
  OBVIOUS
<1>1. /\ call = [r \in Rings |-> <<>>] /\ ring = [r \in Rings |-> <<>>]
      /\ dropped = [r \in Rings |-> 0] /\ offered = [r \in Rings |-> 0]
      /\ host = NewChannel /\ lives \in Nat \ {0}
  BY DEF Init
<1>2. DOMAIN call = Rings /\ call["A"] = <<>> /\ call["W"] = <<>>
  BY Zenon, <1>1 DEF Rings
<1>3. DOMAIN ring = Rings /\ ring["A"] = <<>> /\ ring["W"] = <<>>
  BY Zenon, <1>1 DEF Rings
<1>4. host.droppable = [r \in Rings |-> 0] /\ host.unmatched = 0
  BY Zenon, <1>1 DEF NewChannel
<1>5. IsChannel(host)
  BY <1>1, <1>4 DEF IsChannel, HasFields
<1>6. /\ <<>> \in Seq(PlainSteps) /\ <<>> \in Seq(Steps) /\ <<>> \in Seq(AgentSteps)
      /\ <<>> \in Seq(AgentEvents) /\ <<>> \in Seq(Events)
  OBVIOUS
<1>7. Typed
  <2>1. dropped \in [Rings -> Nat] /\ offered \in [Rings -> Nat]
    BY Zenon, <1>1
  <2> QED
    BY <1>1, <1>2, <1>3, <1>5, <1>6, <2>1, Zenon DEF Typed
<1>8. Staged
  BY Zenon, <1>2, <1>6 DEF Staged
<1>9. DropsAccounted
  <2> SUFFICES ASSUME NEW r \in Rings
               PROVE  offered[r] = host.droppable[r] + dropped[r]
                        + Cardinality({i \in DOMAIN ring[r] : ~is_critical(ring[r][i])})
    BY Zenon DEF DropsAccounted
  <2>1. {i \in DOMAIN ring[r] : ~is_critical(ring[r][i])} = {}
    BY <1>1
  <2>2. Cardinality({i \in DOMAIN ring[r] : ~is_critical(ring[r][i])}) = 0
    BY Zenon, <2>1, FS_EmptySet
  <2>3. offered[r] = 0 /\ dropped[r] = 0 /\ host.droppable[r] = 0
    BY ZenonT(30), <1>1, <1>4
  <2> HIDE DEF Init
  <2> QED
    BY ONLY <2>2, <2>3
<1>10. TypedSdk
  BY Zenon DEF Init, TypedSdk
<1> QED
  BY ZenonT(30), <1>4, <1>7, <1>8, <1>9, <1>10 DEF FlowInv

\* Every step of the guest and the host.
LEMMA NextFlow == FlowInv /\ [Next]_vars => FlowInv'
<1> SUFFICES ASSUME FlowInv, [Next]_vars PROVE FlowInv'
  OBVIOUS
<1>1. CASE NewCall
  BY ZenonT(30), <1>1, AssertFlow, ReachableFlow, InjectFlow, BeaconFlow, FrameFlow, LogFlow DEF NewCall
<1>2. ASSUME NEW r \in Rings, CallStep(r) PROVE FlowInv'
  <2>1. CASE EmitPush(r)
    BY Zenon, <2>1, PushFlow
  <2>2. CASE EmitDrops(r)
    BY Zenon, <2>2, DropFlow
  <2>3. CASE EmitRetries(r)
    BY Zenon, <2>3, PauseFlow DEF EmitRetries
  <2>4. CASE RingDoorbell(r)
    BY <2>4, DoorbellFlow
  <2>5. CASE InjectOut
    BY Zenon, <2>5, OutFlow
  <2>6. CASE WriteStat \/ InjectIn \/ WriteFrameCounter
    BY Zenon, <2>6, PortFlow
  <2> QED
    BY ZenonT(30), <1>2, <2>1, <2>2, <2>3, <2>4, <2>5, <2>6 DEF CallStep
<1>3. CASE HostPause
  BY Zenon, <1>3, PauseFlow DEF HostPause
<1>4. CASE Restart
  BY Zenon, <1>4, RestartFlow
<1>5. CASE UNCHANGED vars
  <2>1. UNCHANGED <<call, ring, dropped, host, offered, lives, latch, sdk>>
    BY Zenon, <1>5 DEF vars, outside
  <2>2. Typed /\ TypedSdk /\ Staged
    BY Zenon DEF FlowInv
  <2>3. Staged'
    BY Zenon, <2>1, <2>2, StagedKept
  <2>4. TypedSdk'
    BY Zenon, <2>1, <2>2 DEF TypedSdk, sdk
  <2>5. /\ lives' \in Nat \ {0} /\ DOMAIN call' = Rings /\ call'["A"] \in Seq(AgentSteps)
        /\ call'["W"] \in Seq(Steps)
    BY <2>1, <2>2 DEF Typed
  <2> QED
    BY ZenonT(30), <2>1, <2>3, <2>4, <2>5, QuietFlow
<1> QED
  BY Zenon, <1>1, <1>2, <1>3, <1>4, <1>5 DEF Next

\* The records, the calls in progress and the account of the droppable records
\* stay as FlowInv has them, whatever the workload calls, wherever it is preempted
\* or killed, and whenever the host drains.
THEOREM FlowInvariance == Spec => []FlowInv
<1>1. Init => FlowInv
  BY Zenon, InitFlow
<1>2. FlowInv /\ [Next]_vars => FlowInv'
  BY Zenon, NextFlow
<1> QED
  BY <1>1, <1>2, PTL DEF Spec

\* Every droppable event that RingW::emit or AgentChannel::emit was given is in its
\* ring, at the host, or in dropped_records, in every life of the workload.
THEOREM DropsAreAccounted == Spec => []DropsAccounted
<1>1. FlowInv => DropsAccounted
  BY Zenon DEF FlowInv
<1> QED
  BY <1>1, FlowInvariance, PTL

\* What inject_point reads from IN is the decision for the query it published, and
\* the host never meets a detcall without its query.
THEOREM InjectionsAreMatched == Spec => []InjectMatched
<1>1. FlowInv => InjectMatched
  BY StageFacts DEF FlowInv, InjectMatched, Does
<1> QED
  BY <1>1, FlowInvariance, PTL

\* The pv-pad frame counter never runs ahead of the frame's record.
THEOREM FramesAreRecordedFirst == Spec => FrameRecordFirst
<1> DEFINE Step == frame_reg' # frame_reg =>
                     \/ host.frame = frame_reg'
                     \/ \E i \in 1 .. Len(ring["W"]) : ring["W"][i] = FrameMark(frame_reg')
<1>1. FlowInv /\ [Next]_vars => [Step]_vars
  <2> SUFFICES ASSUME FlowInv, Next, frame_reg' # frame_reg PROVE Step
    BY Zenon
  <2>1. WriteFrameCounter
    BY ZenonT(30) DEF Next, NewCall, CallStep, HostPause, Restart, EmitPush, EmitDrops, EmitRetries,
           RingDoorbell, InjectOut, InjectIn, WriteStat, assert_always, expect_reachable,
           declare_reachable, coverage_beacon, inject_point, frame_mark, log_line, outside
  <2>2. call["W"] # <<>> /\ Head(call["W"]).do = "frame_reg" /\ frame_reg' = Head(call["W"]).index
    BY Zenon, <2>1 DEF WriteFrameCounter, Does
  <2>3. Marked(frame_reg') /\ ring["W"] \in Seq(Events)
    BY <2>2, StageFacts DEF FlowInv, Typed
  <2> QED
    BY <2>3 DEF Marked, Newest
<1> QED
  BY <1>1, FlowInvariance, PTL DEF Spec, FrameRecordFirst

-----------------------------------------------------------------------------
(***************************************************************************)
(* What the host will know.                                                *)
(***************************************************************************)
\* The loop over a ring that has gained records at its end.
LEMMA FoldingPrefix ==
    ASSUME NEW s \in Seq(Events), NEW t \in Seq(Events), NEW h, NEW r, Len(s) <= Len(t),
           \A i \in 1 .. Len(s) : t[i] = s[i]
    PROVE  \A i \in 0 .. Len(s) : Folding(h, t, r)[i] = Folding(h, s, r)[i]
<1> DEFINE f == Folding(h, s, r)
           g == Folding(h, t, r)
           n == Len(s)
           m == Len(t)
           T == {i \in 0 .. n : g[i] = f[i]}
<1>1. f[0] = h /\ \A i \in 0 .. n - 1 : f[i + 1] = FoldEvent(f[i], s[i + 1], r)
  <2>1. FoldsBy(f, h, s, r)
    BY Zenon, FoldingSteps
  <2> QED
    BY Zenon, <2>1 DEF FoldsBy
<1>2. g[0] = h /\ \A i \in 0 .. m - 1 : g[i + 1] = FoldEvent(g[i], t[i + 1], r)
  <2>1. FoldsBy(g, h, t, r)
    BY Zenon, FoldingSteps
  <2> QED
    BY Zenon, <2>1 DEF FoldsBy
<1>3. n \in Nat /\ m \in Nat /\ n <= m /\ \A i \in 1 .. n : t[i] = s[i]
  OBVIOUS
<1> HIDE DEF f, g, n, m
<1>4. 0 \in T
  BY <1>1, <1>2, <1>3
<1>5. ASSUME NEW i \in 0 .. n - 1, i \in T PROVE i + 1 \in T
  <2> DEFINE j == i + 1
  <2>1. j \in 1 .. n /\ j \in 0 .. n /\ i \in 0 .. m - 1
    BY <1>3
  <2>2. f[j] = FoldEvent(f[i], s[j], r) /\ g[j] = FoldEvent(g[i], t[j], r)
    BY Zenon, <1>1, <1>2, <2>1
  <2>3. g[i] = f[i]
    BY <1>5
  <2> HIDE DEF j
  <2>4. j \in T
    BY <1>3, <2>1, <2>2, <2>3
  <2> QED
    BY Zenon, <2>4 DEF j
<1> HIDE DEF T
<1>6. \A i \in 0 .. n : i \in T
  BY ZenonT(30), <1>3, <1>4, <1>5, UpTo
<1> QED
  BY <1>6 DEF T, f, g, n

\* The tables the host keeps of the workload, apart from its open queries.
SameTables(g, h) ==
    /\ g.interns = h.interns /\ g.frame = h.frame
    /\ g.violations = h.violations /\ g.reached = h.reached

\* The table of names after one more NameIntern.
Told1(interns, ev) ==
    IF ev.id \in DOMAIN interns THEN [interns EXCEPT ![ev.id].decl = @ \/ ev.decl]
    ELSE Bind(interns, ev.id, [name |-> ev.name, decl |-> ev.decl])

\* FoldIntern changes the table of names by itself.
LEMMA InternTable ==
    ASSUME NEW h, HasFields(h), NEW ev
    PROVE  FoldIntern(h, ev).interns = Told1(h.interns, ev)
<1>1. "interns" \in DOMAIN h /\ "redefinitions" \in DOMAIN h
  BY ChannelFields DEF HasFields
<1>2. CASE ev.id \in DOMAIN h.interns
  BY <1>1, <1>2 DEF FoldIntern, Told1
<1>3. CASE ev.id \notin DOMAIN h.interns
  BY <1>1, <1>3 DEF FoldIntern, Told1
<1> QED
  BY <1>2, <1>3

\* One record changes equal tables in the same way.
LEMMA FoldTables ==
    ASSUME NEW a, HasFields(a), NEW h, HasFields(h), SameTables(a, h),
           NEW ev \in Events, NEW r, NEW p, p = FoldEvent(a, ev, r), NEW q, q = FoldEvent(h, ev, r)
    PROVE  HasFields(p) /\ HasFields(q) /\ SameTables(p, q)
<1>1. FoldsTo(a, ev, r, p)
  BY Zenon, FoldFields
<1>2. FoldsTo(h, ev, r, q)
  BY Zenon, FoldFields
<1>3. FoldIntern(a, ev).interns = FoldIntern(h, ev).interns
  <2>1. a.interns = h.interns
    BY DEF SameTables
  <2>2. FoldIntern(a, ev).interns = Told1(a.interns, ev)
    BY InternTable
  <2>3. FoldIntern(h, ev).interns = Told1(h.interns, ev)
    BY InternTable
  <2> QED
    BY Zenon, <2>1, <2>2, <2>3
<1>4. Violated(a, ev) = Violated(h, ev) /\ Reaches(a, ev) = Reaches(h, ev)
  BY DEF SameTables, Violated, Reaches, Resolve
<1> QED
  BY Zenon, <1>1, <1>2, <1>3, <1>4 DEF SameTables, FoldsTo

\* So does the whole loop.
LEMMA FoldingTables ==
    ASSUME NEW a, HasFields(a), NEW h, HasFields(h), SameTables(a, h),
           NEW evs \in Seq(Events), NEW r
    PROVE  \A i \in 0 .. Len(evs) : SameTables(Folding(a, evs, r)[i], Folding(h, evs, r)[i])
<1> DEFINE f == Folding(a, evs, r)
           g == Folding(h, evs, r)
           n == Len(evs)
           T == {i \in 0 .. n : HasFields(f[i]) /\ HasFields(g[i]) /\ SameTables(f[i], g[i])}
<1>1. f[0] = a /\ \A i \in 0 .. n - 1 : f[i + 1] = FoldEvent(f[i], evs[i + 1], r)
  <2>1. FoldsBy(f, a, evs, r)
    BY Zenon, FoldingSteps
  <2> QED
    BY Zenon, <2>1 DEF FoldsBy
<1>2. g[0] = h /\ \A i \in 0 .. n - 1 : g[i + 1] = FoldEvent(g[i], evs[i + 1], r)
  <2>1. FoldsBy(g, h, evs, r)
    BY Zenon, FoldingSteps
  <2> QED
    BY Zenon, <2>1 DEF FoldsBy
<1>3. n \in Nat /\ \A i \in 1 .. n : evs[i] \in Events
  OBVIOUS
<1> HIDE DEF f, g, n
<1>4. 0 \in T
  BY <1>1, <1>2, <1>3
<1>5. ASSUME NEW i \in 0 .. n - 1, i \in T PROVE i + 1 \in T
  <2> DEFINE j == i + 1
  <2>1. j \in 1 .. n /\ j \in 0 .. n
    BY <1>3
  <2>2. f[j] = FoldEvent(f[i], evs[j], r) /\ g[j] = FoldEvent(g[i], evs[j], r)
    BY Zenon, <1>1, <1>2, <2>1
  <2>3. HasFields(f[i]) /\ HasFields(g[i]) /\ SameTables(f[i], g[i]) /\ evs[j] \in Events
    BY ZenonT(30), <1>3, <1>5, <2>1
  <2> HIDE DEF j
  <2>4. HasFields(f[j]) /\ HasFields(g[j]) /\ SameTables(f[j], g[j])
    BY <2>2, <2>3, FoldTables
  <2>5. j \in T
    BY <2>1, <2>4
  <2> QED
    BY Zenon, <2>5 DEF j
<1> HIDE DEF T
<1>6. \A i \in 0 .. n : i \in T
  BY <1>3, <1>4, <1>5, UpTo
<1> QED
  BY <1>6 DEF T, f, g, n

\* The smaller of two numbers.
LEMMA MinTwo ==
    ASSUME NEW a \in Nat, NEW b \in Nat
    PROVE  Min({a, b}) = IF a <= b THEN a ELSE b
<1> DEFINE m == IF a <= b THEN a ELSE b
<1>1. m \in {a, b} /\ \A y \in {a, b} : m <= y
  OBVIOUS
<1>2. \A x \in {a, b} : (\A y \in {a, b} : x <= y) => x = m
  OBVIOUS
<1> HIDE DEF m
<1>3. Min({a, b}) = m
  BY <1>1, <1>2 DEF Min
<1> QED
  BY <1>3 DEF m

\* Told is a channel, and it is the host's when ring W is empty.
LEMMA ToldFields ==
    ASSUME Typed
    PROVE  HasFields(Told) /\ (ring["W"] = <<>> => Told = host)
<1> DEFINE n == Len(ring["W"])
<1>1. Told = Folding(host, ring["W"], "W")[n]
  BY DEF Told, drain_ring
<1>2. ring["W"] \in Seq(Events) /\ n \in 0 .. n /\ IsChannel(host) /\ "W" \in Rings
  BY DEF Typed, Rings
<1>3. IsChannel(Told)
  BY ZenonT(30), <1>1, <1>2, FoldingCounts DEF CountsTo
<1>4. Folding(host, ring["W"], "W")[0] = host
  BY Zenon, <1>2, FoldingSteps DEF FoldsBy
<1> QED
  BY <1>1, <1>3, <1>4 DEF IsChannel

\* A record pushed to ring W is folded into Told.
LEMMA ToldPush ==
    ASSUME Typed, NEW ev \in Events, ring'["W"] = Append(ring["W"], ev), host' = host
    PROVE  /\ Told' = FoldEvent(Told, ev, "W")
           /\ \A i \in 0 .. Len(ring["W"]) :
                Folding(host, ring["W"], "W")[i]' = Folding(host, ring["W"], "W")[i]
<1> DEFINE s == ring["W"]
           t == ring'["W"]
           n == Len(s)
<1>1. s \in Seq(Events) /\ t \in Seq(Events) /\ n \in Nat /\ Len(t) = n + 1 /\ t[n + 1] = ev
  BY DEF Typed
<1>2. Len(s) <= Len(t) /\ \A i \in 1 .. Len(s) : t[i] = s[i]
  BY <1>1
<1>3. Told = Folding(host, s, "W")[n] /\ Told' = Folding(host, t, "W")[n + 1]
  BY Zenon, <1>1 DEF Told, drain_ring
<1> HIDE DEF s, t
<1>4. \A i \in 0 .. n : Folding(host, t, "W")[i] = Folding(host, s, "W")[i]
  BY <1>1, <1>2, FoldingPrefix
<1>5. \A i \in 0 .. Len(t) - 1 :
        Folding(host, t, "W")[i + 1] = FoldEvent(Folding(host, t, "W")[i], t[i + 1], "W")
  <2>1. FoldsBy(Folding(host, t, "W"), host, t, "W")
    BY Zenon, <1>1, FoldingSteps
  <2> QED
    BY Zenon, <1>1, <2>1 DEF FoldsBy
<1>6. n \in 0 .. n /\ n \in 0 .. Len(t) - 1
  BY <1>1
<1> HIDE DEF n
<1>7. Told' = FoldEvent(Told, ev, "W")
  BY <1>1, <1>3, <1>4, <1>5, <1>6
<1> QED
  BY Zenon, <1>4, <1>7 DEF n, s, t

\* The loop over an empty ring does nothing.
LEMMA FoldingNothing ==
    ASSUME NEW h, NEW r, NEW s, s = <<>>
    PROVE  Folding(h, s, r)[Len(s)] = h
<1>1. s \in Seq(Events) /\ Len(s) = 0
  OBVIOUS
<1>2. \A q \in Seq(Events) : Folding(h, q, r)[0] = h
  BY Zenon, FoldingSteps DEF FoldsBy
<1> QED
  BY ZenonT(30), <1>1, <1>2

\* A drain, and the answer that may follow it, leave the tables of Told alone.
LEMMA ToldDrained ==
    ASSUME Typed, ring' = [r \in Rings |-> <<>>], SameTables(host', drain_events(host))
    PROVE  SameTables(Told', Told) /\ Told' = host'
<1> DEFINE w == ring["W"]
           n == Len(w)
<1>1. PICK a : IsChannel(a) /\ SameView(a, host) /\ drain_events(host) = Folding(a, w, "W")[n]
  BY Zenon, DrainTwoRings
<1>2. HasFields(a) /\ HasFields(host) /\ SameTables(a, host) /\ w \in Seq(Events) /\ n \in 0 .. n
  <2>1. HasFields(a) /\ HasFields(host) /\ SameTables(a, host) /\ w \in Seq(Events)
    BY Zenon, <1>1 DEF IsChannel, SameView, SameTables, Typed
  <2>2. \A s \in Seq(Events) : Len(s) \in 0 .. Len(s)
    OBVIOUS
  <2> QED
    BY Zenon, <2>1, <2>2
<1>3. SameTables(Folding(a, w, "W")[n], Folding(host, w, "W")[n])
  BY <1>2, FoldingTables
<1>4. Told = Folding(host, w, "W")[n]
  BY DEF Told, drain_ring
<1>5. Told' = host'
  <2>1. ring'["W"] = <<>>
    BY DEF Rings
  <2>2. Told' = Folding(host', ring'["W"], "W")[Len(ring'["W"])]
    BY DEF Told, drain_ring
  <2> QED
    BY <2>1, <2>2, FoldingNothing
<1> QED
  BY Zenon, <1>1, <1>3, <1>4, <1>5 DEF SameTables

-----------------------------------------------------------------------------
(***************************************************************************)
(* What a call still has to do.                                            *)
(***************************************************************************)
\* The call goes on by one step.
LEMMA OwedTail ==
    ASSUME NEW s \in Seq(Steps), s # <<>>
    PROVE  /\ \A ev : ev \in OwedBy(s) <=>
                        (Head(s).do = "emit" /\ ev = Head(s).ev) \/ ev \in OwedBy(Tail(s))
           /\ \A d : d \in DueBy(s) <=> (Head(s).do = "stat" /\ d = Head(s)) \/ d \in DueBy(Tail(s))
<1> DEFINE t == Tail(s)
           n == Len(s)
           m == n - 1
<1>1. /\ n \in Nat /\ n # 0 /\ DOMAIN s = 1 .. n /\ DOMAIN t = 1 .. m /\ Head(s) = s[1]
      /\ \A i \in 1 .. m : t[i] = s[i + 1]
  OBVIOUS
<1> HIDE DEF t, n
<1>2. \A i \in 1 .. n : i = 1 \/ (i - 1 \in 1 .. m /\ s[i] = t[i - 1])
  <2> SUFFICES ASSUME NEW i \in 1 .. n, i # 1 PROVE i - 1 \in 1 .. m /\ s[i] = t[i - 1]
    OBVIOUS
  <2> DEFINE j == i - 1
  <2>1. j \in 1 .. m /\ j + 1 = i
    BY <1>1
  <2> HIDE DEF j
  <2>2. t[j] = s[i]
    BY Zenon, <1>1, <2>1
  <2> QED
    BY <2>1, <2>2 DEF j
<1>3. \A i \in 1 .. m : i + 1 \in 1 .. n /\ s[i + 1] = t[i]
  BY <1>1
<1>4. 1 \in 1 .. n
  BY <1>1
<1> HIDE DEF m
<1>5. ASSUME NEW ev
      PROVE  ev \in OwedBy(s) <=> (Head(s).do = "emit" /\ ev = Head(s).ev) \/ ev \in OwedBy(t)
  <2>1. ev \in OwedBy(s) <=> \E i \in 1 .. n : s[i].do = "emit" /\ ev = s[i].ev
    BY <1>1 DEF OwedBy
  <2>2. ev \in OwedBy(t) <=> \E i \in 1 .. m : t[i].do = "emit" /\ ev = t[i].ev
    BY <1>1 DEF OwedBy
  <2>3. ASSUME NEW i \in 1 .. n, s[i].do = "emit", ev = s[i].ev
        PROVE  (Head(s).do = "emit" /\ ev = Head(s).ev) \/ ev \in OwedBy(t)
    BY ZenonT(30), <1>1, <1>2, <2>2, <2>3
  <2>4. ASSUME NEW i \in 1 .. m, t[i].do = "emit", ev = t[i].ev
        PROVE  ev \in OwedBy(s)
    BY <1>3, <2>1, <2>4
  <2>5. Head(s).do = "emit" /\ ev = Head(s).ev => ev \in OwedBy(s)
    BY <1>1, <1>4, <2>1
  <2> QED
    BY Zenon, <2>1, <2>2, <2>3, <2>4, <2>5
<1>6. ASSUME NEW d
      PROVE  d \in DueBy(s) <=> (Head(s).do = "stat" /\ d = Head(s)) \/ d \in DueBy(t)
  <2>1. d \in DueBy(s) <=> \E i \in 1 .. n : s[i].do = "stat" /\ d = s[i]
    BY <1>1 DEF DueBy
  <2>2. d \in DueBy(t) <=> \E i \in 1 .. m : t[i].do = "stat" /\ d = t[i]
    BY <1>1 DEF DueBy
  <2>3. ASSUME NEW i \in 1 .. n, s[i].do = "stat", d = s[i]
        PROVE  (Head(s).do = "stat" /\ d = Head(s)) \/ d \in DueBy(t)
    BY <1>1, <1>2, <2>2, <2>3
  <2>4. ASSUME NEW i \in 1 .. m, t[i].do = "stat", d = t[i]
        PROVE  d \in DueBy(s)
    BY <1>3, <2>1, <2>4
  <2>5. Head(s).do = "stat" /\ d = Head(s) => d \in DueBy(s)
    BY <1>1, <1>4, <2>1
  <2> QED
    BY <2>1, <2>2, <2>3, <2>4, <2>5
<1> QED
  BY <1>5, <1>6 DEF t

\* Steps put together.
LEMMA OwedJoin ==
    ASSUME NEW s \in Seq(Steps), NEW t \in Seq(Steps)
    PROVE  /\ \A ev : ev \in OwedBy(s \o t) <=> ev \in OwedBy(s) \/ ev \in OwedBy(t)
           /\ \A d : d \in DueBy(s \o t) <=> d \in DueBy(s) \/ d \in DueBy(t)
<1> DEFINE u == s \o t
           n == Len(s)
           m == Len(t)
<1>1. /\ n \in Nat /\ m \in Nat /\ DOMAIN s = 1 .. n /\ DOMAIN t = 1 .. m /\ DOMAIN u = 1 .. n + m
      /\ \A i \in 1 .. n : u[i] = s[i]
      /\ \A i \in 1 .. m : u[n + i] = t[i]
  OBVIOUS
<1> HIDE DEF u, n, m
<1>2. \A i \in 1 .. n + m : i \in 1 .. n \/ (i - n \in 1 .. m /\ u[i] = t[i - n])
  <2> SUFFICES ASSUME NEW i \in 1 .. n + m, i \notin 1 .. n
               PROVE  i - n \in 1 .. m /\ u[i] = t[i - n]
    OBVIOUS
  <2> DEFINE j == i - n
  <2>1. j \in 1 .. m /\ n + j = i
    BY <1>1
  <2> HIDE DEF j
  <2>2. u[i] = t[j]
    BY ZenonT(30), <1>1, <2>1
  <2> QED
    BY <2>1, <2>2 DEF j
<1>3. \A i \in 1 .. n : i \in 1 .. n + m /\ u[i] = s[i]
  BY <1>1
<1>4. \A i \in 1 .. m : n + i \in 1 .. n + m /\ u[n + i] = t[i]
  BY <1>1
<1>5. ASSUME NEW ev
      PROVE  ev \in OwedBy(u) <=> ev \in OwedBy(s) \/ ev \in OwedBy(t)
  <2>1. ev \in OwedBy(u) <=> \E i \in 1 .. n + m : u[i].do = "emit" /\ ev = u[i].ev
    BY Zenon, <1>1 DEF OwedBy
  <2>2. ev \in OwedBy(s) <=> \E i \in 1 .. n : s[i].do = "emit" /\ ev = s[i].ev
    BY Zenon, <1>1 DEF OwedBy
  <2>3. ev \in OwedBy(t) <=> \E i \in 1 .. m : t[i].do = "emit" /\ ev = t[i].ev
    BY ZenonT(30), <1>1 DEF OwedBy
  <2> QED
    BY <1>2, <1>3, <1>4, <2>1, <2>2, <2>3
<1>6. ASSUME NEW d
      PROVE  d \in DueBy(u) <=> d \in DueBy(s) \/ d \in DueBy(t)
  <2>1. d \in DueBy(u) <=> \E i \in 1 .. n + m : u[i].do = "stat" /\ d = u[i]
    BY Zenon, <1>1 DEF DueBy
  <2>2. d \in DueBy(s) <=> \E i \in 1 .. n : s[i].do = "stat" /\ d = s[i]
    BY Zenon, <1>1 DEF DueBy
  <2>3. d \in DueBy(t) <=> \E i \in 1 .. m : t[i].do = "stat" /\ d = t[i]
    BY ZenonT(30), <1>1 DEF DueBy
  <2> QED
    BY <1>2, <1>3, <1>4, <2>1, <2>2, <2>3
<1> QED
  BY <1>5, <1>6 DEF u

\* Single steps, and none.
LEMMA OwedSingle ==
    /\ \A x : x \notin OwedBy(<<>>) /\ x \notin DueBy(<<>>)
    /\ \A ev : \A x : (x \in OwedBy(Emit(ev)) <=> x = ev) /\ x \notin DueBy(Emit(ev))
<1>1. \A ev : DOMAIN Emit(ev) = {1} /\ Emit(ev)[1].do = "emit" /\ Emit(ev)[1].ev = ev
  BY DEF Emit
<1> QED
  BY <1>1 DEF OwedBy, DueBy

\* Single steps that emit nothing.
LEMMA OwedOthers ==
    /\ \A x : x \notin OwedBy(Doorbell) /\ x \notin DueBy(Doorbell)
    /\ \A i : \A x : x \notin OwedBy(Out(i)) /\ x \notin DueBy(Out(i))
    /\ \A i : \A x : x \notin OwedBy(FrameReg(i)) /\ x \notin DueBy(FrameReg(i))
    /\ \A i : \A id : \A x : x \notin OwedBy(In(i, id)) /\ x \notin DueBy(In(i, id))
<1>1. DOMAIN Doorbell = {1} /\ Doorbell[1].do = "doorbell"
  BY DEF Doorbell
<1>2. \A i : DOMAIN Out(i) = {1} /\ Out(i)[1].do = "out"
  BY DEF Out
<1>3. \A i : DOMAIN FrameReg(i) = {1} /\ FrameReg(i)[1].do = "frame_reg"
  BY DEF FrameReg
<1>4. \A i : \A id : DOMAIN In(i, id) = {1} /\ In(i, id)[1].do = "in"
  BY DEF In
<1> QED
  BY <1>1, <1>2, <1>3, <1>4 DEF OwedBy, DueBy

\* A step that records.
LEMMA OwedStat ==
    ASSUME NEW table, NEW id, NEW count
    PROVE  /\ \A x : x \notin OwedBy(Stat(table, id, count))
           /\ \A d : d \in DueBy(Stat(table, id, count)) =>
                d.do = "stat" /\ d.table = table /\ d.id = id /\ d.count = count
           /\ \E d \in DueBy(Stat(table, id, count)) : d.table = table /\ d.id = id
<1> DEFINE e == [do |-> "stat", table |-> table, id |-> id, count |-> count]
<1>1. DOMAIN Stat(table, id, count) = {1} /\ Stat(table, id, count)[1] = e
  BY DEF Stat
<1>2. e.do = "stat" /\ e.table = table /\ e.id = id /\ e.count = count
  OBVIOUS
<1> HIDE DEF e
<1> QED
  BY <1>1, <1>2 DEF OwedBy, DueBy

-----------------------------------------------------------------------------
(***************************************************************************)
(* NamesInv.                                                               *)
(***************************************************************************)
\* FoldIntern adds one name, and never renames one.
LEMMA InternFacts ==
    ASSUME NEW interns, \A id \in DOMAIN interns : IsIntern(interns[id]),
           NEW ev, ev.name \in Names, NEW t, t = Told1(interns, ev)
    PROVE  /\ \A id : id \in DOMAIN t <=> id \in DOMAIN interns \/ id = ev.id
           /\ \A id \in DOMAIN interns : IsIntern(t[id]) /\ t[id].name = interns[id].name
           /\ ev.id \notin DOMAIN interns => IsIntern(t[ev.id]) /\ t[ev.id].name = ev.name
<1>1. CASE ev.id \in DOMAIN interns
  <2>1. t = [interns EXCEPT ![ev.id].decl = @ \/ ev.decl]
    BY Zenon, <1>1 DEF Told1
  <2>2. PICK e : e = interns[ev.id]
    OBVIOUS
  <2>3. PICK x : x = [e EXCEPT !.decl = @ \/ ev.decl]
    BY ZenonT(30)
  <2>4. t = [interns EXCEPT ![ev.id] = x]
    BY <2>1, <2>2, <2>3, Zenon
  <2>5. IsIntern(e)
    BY <1>1, <2>2
  <2>6. IsIntern(x) /\ x.name = e.name
    BY <2>3, <2>5 DEF IsIntern
  <2> QED
    BY <1>1, <2>2, <2>4, <2>6
<1>2. CASE ev.id \notin DOMAIN interns
  <2>1. t = Bind(interns, ev.id, [name |-> ev.name, decl |-> ev.decl])
    BY <1>2 DEF Told1
  <2>2. PICK x : x = [name |-> ev.name, decl |-> ev.decl]
    BY ZenonT(30)
  <2>3. IsIntern(x) /\ x.name = ev.name
    BY Zenon, <2>2 DEF IsIntern
  <2>4. t = [k \in DOMAIN interns \cup {ev.id} |-> IF k = ev.id THEN x ELSE interns[k]]
    BY ZenonT(30), <2>1, <2>2 DEF Bind
  <2> QED
    BY <1>2, <2>3, <2>4
<1> QED
  BY <1>1, <1>2

\* A step that publishes nothing on ring W, and begins no call: the host will know
\* what it would have known, and the call owes it what it owed.
Quiet ==
    /\ SameTables(Told', Told) /\ UNCHANGED <<ids, hits, fails, frame_index>>
    /\ \A ev : (ev \in Owed' => ev \in Owed) /\ (ev \in Owed /\ is_critical(ev) => ev \in Owed')
    /\ \A id : Naming(id) => Naming(id)'
    /\ NamesResolve => NamesResolve'

\* Such a step leaves the names alone.
LEMMA NamesStep ==
    ASSUME NamesInv, Quiet
    PROVE  NamesInv'
<1>0. /\ ids' = ids /\ SameTables(Told', Told) /\ (\A ev \in Owed' : ev \in Owed)
      /\ (\A id : Naming(id) => Naming(id)') /\ NamesResolve'
  BY Zenon DEF Quiet, NamesInv
<1>1. NumbersApart'
  BY <1>0 DEF NamesInv, NumbersApart, next_id
<1>2. TrueInterns(Told)'
  BY <1>0 DEF NamesInv, TrueInterns, SameTables
<1>3. (\A n \in Names : ids[n] # 0 => ids[n] \in DOMAIN Told.interns \/ Naming(ids[n]))'
  <2> SUFFICES ASSUME NEW n \in Names, ids[n] # 0
               PROVE  ids[n] \in DOMAIN Told'.interns \/ Naming(ids[n])'
    BY <1>0
  <2>1. Told'.interns = Told.interns
    BY <1>0 DEF SameTables
  <2>2. ids[n] \in DOMAIN Told.interns \/ Naming(ids[n])
    BY Zenon DEF NamesInv
  <2>3. Naming(ids[n]) => Naming(ids[n])'
    <3>1. PICK id : id = ids[n] /\ id = ids'[n]
      BY <1>0
    <3>2. Naming(id) => Naming(id)'
      BY ZenonT(30), <1>0
    <3> QED
      BY <3>1, <3>2 DEF Naming
  <2> QED
    BY <2>1, <2>2, <2>3
<1>4. (\A ev \in Owed : ev.kind \in NameKinds => ids[ev.name] = ev.id)'
  BY ZenonT(30), <1>0 DEF NamesInv, NameKinds
<1> QED
  BY <1>0, <1>1, <1>2, <1>3, <1>4 DEF NamesInv

\* The host resolves nothing of an empty ring.
LEMMA NothingToResolve ==
    ASSUME ring["W"] = <<>>
    PROVE  NamesResolve
<1>1. 1 .. Len(ring["W"]) = {}
  OBVIOUS
<1> QED
  BY <1>1 DEF NamesResolve

\* The name of the event a call is about to emit is one the host will know.
LEMMA ResolvesTold ==
    ASSUME Typed, NamesInv, NEW ev, Does("W", "emit"), ev = Event("W"),
           ev.kind \in {"AssertViolation", "Reachable", "InjectQuery"}
    PROVE  ev.id \in DOMAIN Told.interns /\ Told.interns[ev.id].name = ev.name /\ ev.name \in Names
<1>1. ev \in Events
  BY EmitFacts DEF Rings
<1>2. ev.name \in Names /\ ev.id \in Ids
  BY <1>1 DEF Events, AgentEvents
<1>3. ev \in Owed
  BY ZenonT(30), OwedTail DEF Owed, Typed, Does, Event
<1>4. ids[ev.name] = ev.id
  BY <1>3 DEF NamesInv, NameKinds
<1>5. ~Naming(ids[ev.name])
  BY Zenon DEF Naming
<1>6. ev.id \in DOMAIN Told.interns
  BY ZenonT(30), <1>2, <1>4, <1>5 DEF NamesInv, Ids
<1>7. Told.interns[ev.id].name \in Names /\ ids[Told.interns[ev.id].name] = ev.id
  BY <1>6 DEF NamesInv, TrueInterns, IsIntern
<1>8. NumbersApart /\ ev.id # 0
  BY ZenonT(30), <1>2 DEF NamesInv, Ids
<1> QED
  BY SMTT(30), <1>2, <1>4, <1>6, <1>7, <1>8 DEF NumbersApart

\* A record pushed to ring W: a name goes out before the events that use it, so
\* whatever the host folds, it knows the names of.
LEMMA NamesPush ==
    ASSUME Typed, NamesInv, EmitPush("W")
    PROVE  NamesInv'
<1>0. PICK ev : ev = Event("W")
  OBVIOUS
<1>1. /\ Does("W", "emit") /\ ring' = [ring EXCEPT !["W"] = Append(@, ev)]
      /\ call' = [call EXCEPT !["W"] = Tail(@)] /\ ids' = ids /\ host' = host
  BY ZenonT(30), <1>0 DEF EmitPush, Proceed, sdk
<1>2. /\ ring'["W"] = Append(ring["W"], ev) /\ call'["W"] = Tail(call["W"])
      /\ call["W"] \in Seq(Steps) /\ call["W"] # <<>> /\ ring["W"] \in Seq(Events)
      /\ Head(call["W"]).do = "emit" /\ Head(call["W"]).ev = ev
  BY <1>0, <1>1 DEF Typed, Does, Event, Rings
<1>3. ev \in Events
  BY <1>0, <1>1, EmitFacts DEF Rings
<1>4. HasFields(Told) /\ Told' = FoldEvent(Told, ev, "W")
  BY ZenonT(30), <1>1, <1>2, <1>3, ToldFields, ToldPush
<1>5. \A i \in 0 .. Len(ring["W"]) :
        Folding(host, ring["W"], "W")[i]' = Folding(host, ring["W"], "W")[i]
  BY <1>1, <1>2, <1>3, ToldPush
<1>6. ev \in Owed /\ \A x \in Owed' : x \in Owed
  BY ZenonT(30), <1>2, OwedTail DEF Owed
<1>7. /\ NumbersApart /\ TrueInterns(Told) /\ NamesResolve
      /\ \A n \in Names : ids[n] # 0 => ids[n] \in DOMAIN Told.interns \/ Naming(ids[n])
      /\ \A x \in Owed : x.kind \in NameKinds => ids[x.name] = x.id
  BY DEF NamesInv
<1>8. ev.kind \in NameKinds => ev.name \in Names /\ ev.id \in Ids /\ ids[ev.name] = ev.id
  <2>1. ev.kind \in NameKinds => ev.name \in Names /\ ev.id \in Ids
    BY <1>3 DEF Events, AgentEvents, NameKinds
  <2> QED
    BY <1>6, <1>7, <2>1
<1>9. \A id : Naming(id) <=> ev.kind = "NameIntern" /\ ev.id = id
  BY ONLY SMTT(30), <1>0, <1>1 DEF Naming
<1>10. Told'.interns = IF ev.kind = "NameIntern" THEN Told1(Told.interns, ev) ELSE Told.interns
  <2>1. FoldsTo(Told, ev, "W", Told')
    BY Zenon, <1>3, <1>4, FoldFields
  <2>2. FoldIntern(Told, ev).interns = Told1(Told.interns, ev)
    BY Zenon, <1>4, InternTable
  <2> QED
    BY Zenon, <2>1, <2>2 DEF FoldsTo
<1>11. /\ \A id : id \in DOMAIN Told'.interns <=>
                    id \in DOMAIN Told.interns \/ (ev.kind = "NameIntern" /\ id = ev.id)
       /\ \A id \in DOMAIN Told.interns :
            IsIntern(Told'.interns[id]) /\ Told'.interns[id].name = Told.interns[id].name
       /\ ev.kind = "NameIntern" /\ ev.id \notin DOMAIN Told.interns =>
            IsIntern(Told'.interns[ev.id]) /\ Told'.interns[ev.id].name = ev.name
  <2>1. \A id \in DOMAIN Told.interns : IsIntern(Told.interns[id])
    BY Zenon, <1>7 DEF TrueInterns
  <2>2. CASE ev.kind = "NameIntern"
    <3>1. ev.name \in Names /\ Told'.interns = Told1(Told.interns, ev)
      BY Zenon, <1>8, <1>10, <2>2 DEF NameKinds
    <3> QED
      BY SMTT(30), <2>1, <2>2, <3>1, InternFacts
  <2>3. CASE ev.kind # "NameIntern"
    BY Zenon, <1>10, <2>1, <2>3
  <2> QED
    BY Zenon, <2>2, <2>3
<1>12. NumbersApart'
  <2>1. ids' = ids /\ NumbersApart
    BY Zenon, <1>1, <1>7
  <2> QED
    BY ZenonT(30), <2>1 DEF NumbersApart, next_id
<1>13. TrueInterns(Told)'
  <2> SUFFICES ASSUME NEW id \in DOMAIN Told'.interns
               PROVE  id \in Ids /\ IsIntern(Told'.interns[id]) /\ ids[Told'.interns[id].name] = id
    BY ZenonT(30), <1>1 DEF TrueInterns, IsIntern
  <2>1. CASE id \in DOMAIN Told.interns
    BY ZenonT(30), <1>7, <1>11, <2>1 DEF TrueInterns
  <2>2. CASE id \notin DOMAIN Told.interns
    <3>1. ev.kind = "NameIntern" /\ id = ev.id
      BY ZenonT(30), <1>11, <2>2
    <3>2. ev.id \in Ids /\ ids[ev.name] = ev.id
      BY <1>8, <3>1 DEF NameKinds
    <3> QED
      BY SMTT(30), <1>11, <2>2, <3>1, <3>2
  <2> QED
    BY SMTT(30), <2>1, <2>2
<1>14. (\A n \in Names : ids[n] # 0 => ids[n] \in DOMAIN Told.interns \/ Naming(ids[n]))'
  <2> SUFFICES ASSUME NEW n \in Names, ids[n] # 0
               PROVE  ids[n] \in DOMAIN Told'.interns
    BY <1>1
  <2>1. ids[n] \in DOMAIN Told.interns \/ Naming(ids[n])
    BY <1>7
  <2> QED
    BY <1>9, <1>11, <2>1
<1>15. (\A x \in Owed : x.kind \in NameKinds => ids[x.name] = x.id)'
  BY ZenonT(30), <1>1, <1>6, <1>7 DEF NameKinds
<1>16. NamesResolve'
  <2> DEFINE n == Len(ring["W"])
             f == Folding(host, ring["W"], "W")
             M == {"AssertViolation", "Reachable", "InjectQuery"}
  <2>1. /\ n \in Nat /\ Len(ring'["W"]) = n + 1 /\ ring'["W"][n + 1] = ev
        /\ \A i \in 1 .. n : ring'["W"][i] = ring["W"][i]
    BY <1>2, <1>3
  <2>2. f[n] = Told
    BY Zenon DEF Told, drain_ring
  <2>3. ASSUME NEW i \in 1 .. n + 1, ring'["W"][i].kind \in M
        PROVE  /\ ring'["W"][i].id \in DOMAIN f[i - 1].interns
               /\ f[i - 1].interns[ring'["W"][i].id].name = ring'["W"][i].name
    <3>1. CASE i \in 1 .. n
      <4>1. ring["W"][i].kind \in M => /\ ring["W"][i].id \in DOMAIN f[i - 1].interns
                                       /\ f[i - 1].interns[ring["W"][i].id].name = ring["W"][i].name
        BY <1>7, <3>1, Zenon DEF NamesResolve
      <4> HIDE DEF f
      <4> QED
        BY ZenonT(30), <2>1, <2>3, <3>1, <4>1
    <3>2. CASE i = n + 1
      <4>1. ring'["W"][i] = ev /\ i - 1 = n /\ f[i - 1] = Told
        BY <2>1, <2>2, <3>2
      <4>2. ev.kind \in M /\ ev.kind # "NameIntern"
        BY <2>3, <4>1
      <4>3. ev.id \in DOMAIN Told.interns /\ Told.interns[ev.id].name = ev.name
        BY SMTT(30), <1>0, <1>1, <4>2, ResolvesTold
      <4> QED
        BY ZenonT(30), <4>1, <4>3
    <3>3. i \in 1 .. n \/ i = n + 1
      BY <2>1
    <3> QED
      BY ZenonT(30), <3>1, <3>2, <3>3
  <2>4. \A i \in 1 .. n + 1 : f[i - 1]' = f[i - 1]
    <3>1. \A i \in 1 .. n + 1 : i - 1 \in 0 .. n
      BY <2>1
    <3> QED
      BY Zenon, <1>5, <3>1
  <2> HIDE DEF n, f
  <2>5. \A i \in 1 .. Len(ring'["W"]) : ring'["W"][i].kind \in M =>
          /\ ring'["W"][i].id \in DOMAIN f[i - 1]'.interns
          /\ f[i - 1]'.interns[ring'["W"][i].id].name = ring'["W"][i].name
    BY ONLY SMTT(30), <2>1, <2>3, <2>4
  <2> QED
    BY Zenon, <2>5 DEF NamesResolve, f
<1> QED
  BY ZenonT(30), <1>12, <1>13, <1>14, <1>15, <1>16 DEF NamesInv

\* A call under one name: the name has a number from then on, and is published
\* first when the number is new.
LEMMA NamesCall ==
    ASSUME Typed, TypedSdk, NamesInv, NEW n \in Names, call["W"] = <<>>,
           ids' = [ids EXCEPT ![n] = NameId(n)], ring' = ring, host' = host,
           \A ev \in Owed' : ev.kind \in NameKinds => ev.name = n /\ ev.id = NameId(n),
           ids[n] = 0 => \A id : id = NameId(n) => Naming(id)'
    PROVE  NamesInv'
<1>1. /\ NumbersApart /\ TrueInterns(Told) /\ NamesResolve
      /\ \A m \in Names : ids[m] # 0 => ids[m] \in DOMAIN Told.interns \/ Naming(ids[m])
  BY Zenon DEF NamesInv
<1>2. \A m \in Names : ids[m] # 0 => ids[m] \in DOMAIN Told.interns
  BY <1>1 DEF Naming, Does
<1>3. NameId(n) \in Ids /\ next_id \in Ids /\ ids \in [Names -> Nat]
  BY ZenonT(30), NameIdType DEF TypedSdk
<1>4. Told' = Told /\ NamesResolve'
  BY ZenonT(30), <1>1 DEF Told, drain_ring, NamesResolve
<1>5. NumbersApart'
  <2>1. CASE ids[n] # 0
    <3>1. ids' = ids
      BY Zenon, <1>3, <2>1 DEF NameId
    <3> QED
      BY ZenonT(30), <1>1, <3>1 DEF NumbersApart, next_id
  <2>2. CASE ids[n] = 0
    <3> DEFINE U == {m \in Names : ids[m] # 0}
               V == {m \in Names : ids'[m] # 0}
    <3>1. ids' = [ids EXCEPT ![n] = next_id]
      BY Zenon, <2>2 DEF NameId
    <3>2. V = U \cup {n} /\ n \notin U
      BY SMTT(30), <1>3, <2>2, <3>1 DEF Ids
    <3>3. IsFiniteSet(U)
      BY Zenon, EventFlowAssumption, FS_Subset
    <3>4. Cardinality(V) = Cardinality(U) + 1 /\ Cardinality(U) \in Nat
      BY Zenon, <3>2, <3>3, FS_AddElement, FS_CardinalityType
    <3>5. next_id = 1 + Cardinality(U) /\ next_id' = 1 + Cardinality(V)
      BY DEF next_id
    <3> HIDE DEF U, V
    <3>6. next_id' = next_id + 1 /\ next_id \in Nat
      BY ONLY SMTT(30), <3>4, <3>5
    <3>7. \A m \in Names : ids[m] \in Nat /\ ids[m] < next_id
      BY <1>1, <1>3 DEF NumbersApart
    <3>8. \A m \in Names : ids'[m] = IF m = n THEN next_id ELSE ids[m]
      BY <1>3, <3>1
    <3>9. \A m \in Names : ids'[m] < next_id'
      BY ONLY SMTT(30), <3>6, <3>7, <3>8
    <3>10. \A m, k \in Names : ids'[m] = ids'[k] /\ ids'[k] # 0 => m = k
      BY SMTT(30), <1>1, <3>6, <3>7, <3>8 DEF NumbersApart
    <3> QED
      BY Zenon, <3>9, <3>10 DEF NumbersApart
  <2> QED
    BY SMTT(30), <2>1, <2>2
<1>6. TrueInterns(Told)'
  <2> SUFFICES ASSUME NEW id \in DOMAIN Told.interns
               PROVE  id \in Ids /\ IsIntern(Told.interns[id]) /\ ids'[Told.interns[id].name] = id
    BY Zenon, <1>4 DEF TrueInterns
  <2>1. /\ id \in Ids /\ IsIntern(Told.interns[id]) /\ ids[Told.interns[id].name] = id
        /\ Told.interns[id].name \in Names
    BY Zenon, <1>1 DEF TrueInterns, IsIntern
  <2> QED
    BY Zenon, <1>3, <2>1 DEF NameId, Ids
<1>7. (\A m \in Names : ids[m] # 0 => ids[m] \in DOMAIN Told.interns \/ Naming(ids[m]))'
  <2> SUFFICES ASSUME NEW m \in Names, ids'[m] # 0
               PROVE  ids'[m] \in DOMAIN Told.interns \/ Naming(ids[m])'
    BY ZenonT(30), <1>4
  <2>1. CASE m = n /\ ids[n] = 0
    <3>1. PICK id : id = NameId(n) /\ id = ids'[m]
      BY ZenonT(30), <1>3, <2>1
    <3>2. Naming(id)'
      BY ZenonT(30), <2>1, <3>1
    <3> QED
      BY ZenonT(30), <3>1, <3>2 DEF Naming
  <2>2. CASE ~(m = n /\ ids[n] = 0)
    <3>1. ids'[m] = ids[m]
      BY <1>3, <2>2 DEF NameId
    <3> QED
      BY <1>2, <3>1
  <2> QED
    BY ZenonT(30), <2>1, <2>2
<1>8. (\A ev \in Owed : ev.kind \in NameKinds => ids[ev.name] = ev.id)'
  BY Zenon, <1>3 DEF NameKinds
<1> QED
  BY Zenon, <1>4, <1>5, <1>6, <1>7, <1>8 DEF NamesInv

\* A call under no name.
LEMMA NamesIdle ==
    ASSUME Typed, NamesInv, call["W"] = <<>>, UNCHANGED <<ids, ring, host>>,
           \A ev \in Owed' : ev.kind \notin NameKinds
    PROVE  NamesInv'
<1>1. /\ NumbersApart /\ TrueInterns(Told) /\ NamesResolve
      /\ \A m \in Names : ids[m] # 0 => ids[m] \in DOMAIN Told.interns \/ Naming(ids[m])
  BY DEF NamesInv
<1>2. \A m \in Names : ids[m] # 0 => ids[m] \in DOMAIN Told.interns
  BY ZenonT(30), <1>1 DEF Naming, Does
<1>3. Told' = Told /\ NamesResolve'
  BY ZenonT(30), <1>1 DEF Told, drain_ring, NamesResolve
<1>4. NumbersApart' /\ TrueInterns(Told)'
  BY ZenonT(30), <1>1, <1>3 DEF NumbersApart, next_id, TrueInterns
<1>5. (\A m \in Names : ids[m] # 0 => ids[m] \in DOMAIN Told.interns \/ Naming(ids[m]))'
  BY <1>2, <1>3
<1>6. (\A ev \in Owed : ev.kind \in NameKinds => ids[ev.name] = ev.id)'
  BY DEF NameKinds
<1> QED
  BY ZenonT(30), <1>3, <1>4, <1>5, <1>6 DEF NamesInv

-----------------------------------------------------------------------------
(***************************************************************************)
(* The steps that are quiet: all but a record pushed to ring W, a new call *)
(* and a restart.                                                          *)
(***************************************************************************)
\* The workload's call stays, or goes on by a step that publishes nothing.
CallIsQuiet ==
    \/ call'["W"] = call["W"]
    \/ /\ call["W"] # <<>> /\ call'["W"] = Tail(call["W"])
       /\ Head(call["W"]).do = "emit" => ~is_critical(Head(call["W"]).ev)

\* Then it owes what it owed.
LEMMA QuietCall ==
    ASSUME Typed, CallIsQuiet
    PROVE  /\ \A ev : (ev \in Owed' => ev \in Owed) /\ (ev \in Owed /\ is_critical(ev) => ev \in Owed')
           /\ \A id : Naming(id) => Naming(id)'
<1>1. CASE call'["W"] = call["W"]
  BY <1>1 DEF Owed, Naming, Does, Event
<1>2. CASE /\ call["W"] # <<>> /\ call'["W"] = Tail(call["W"])
           /\ Head(call["W"]).do = "emit" => ~is_critical(Head(call["W"]).ev)
  <2>1. \A ev : ev \in OwedBy(call["W"]) <=>
          (Head(call["W"]).do = "emit" /\ ev = Head(call["W"]).ev) \/ ev \in OwedBy(Tail(call["W"]))
    BY SMTT(30), <1>2, OwedTail DEF Typed
  <2>2. \A id : ~Naming(id)
    BY <1>2 DEF Naming, Does, Event, is_critical
  <2> QED
    BY ZenonT(30), <1>2, <2>1, <2>2 DEF Owed
<1> QED
  BY <1>1, <1>2 DEF CallIsQuiet

\* A step that leaves ring W and the host alone is quiet.
LEMMA QuietStay ==
    ASSUME Typed, CallIsQuiet, UNCHANGED <<ids, hits, fails, frame_index>>,
           ring'["W"] = ring["W"], host' = host
    PROVE  Quiet /\ Told' = Told
<1>1. Told' = Told
  BY SMTT(30) DEF Told, drain_ring
<1>2. NamesResolve => NamesResolve'
  BY ZenonT(30) DEF NamesResolve
<1> QED
  BY ZenonT(30), <1>1, <1>2, QuietCall DEF Quiet, SameTables

\* A drain is quiet.
LEMMA QuietDrain ==
    ASSUME Typed, CallIsQuiet, UNCHANGED <<ids, hits, fails, frame_index>>,
           ring' = [r \in Rings |-> <<>>], SameTables(host', drain_events(host))
    PROVE  Quiet
<1>1. SameTables(Told', Told)
  BY ToldDrained
<1>2. ring'["W"] = <<>>
  BY Zenon DEF Rings
<1>3. NamesResolve'
  <2>1. 1 .. Len(ring'["W"]) = {}
    BY <1>2
  <2> QED
    BY <2>1 DEF NamesResolve
<1> QED
  BY ZenonT(30), <1>1, <1>3, QuietCall DEF Quiet

\* What the steps that are quiet do to the host and to ring W.
Drained == ring' = [r \in Rings |-> <<>>] /\ SameTables(host', drain_events(host))
Stayed == ring'["W"] = ring["W"] /\ host' = host

\* Every step of a call but a record pushed to ring W, and every pause.
LEMMA QuietSteps ==
    ASSUME FlowInv,
           \/ HostPause \/ EmitPush("A") \/ \E r \in Rings : EmitDrops(r) \/ EmitRetries(r) \/ RingDoorbell(r)
           \/ InjectOut \/ InjectIn \/ WriteFrameCounter \/ WriteStat
    PROVE  CallIsQuiet /\ UNCHANGED sdk /\ (Drained \/ Stayed)
<1>1. Typed /\ DOMAIN call = Rings /\ DOMAIN ring = Rings
  BY DEF FlowInv, Typed
<1>2. \A h : SameTables(h, h)
  BY Zenon DEF SameTables
<1>3. CASE HostPause
  BY ZenonT(30), <1>2, <1>3 DEF HostPause, Drains, CallIsQuiet, Drained
<1>4. CASE EmitPush("A")
  BY SMTT(30), <1>1, <1>4 DEF EmitPush, Proceed, CallIsQuiet, Stayed, Rings
<1>5. ASSUME NEW r \in Rings, EmitDrops(r) PROVE CallIsQuiet /\ UNCHANGED sdk /\ Stayed
  <2>1. r \in {"A", "W"} /\ Rings = {"A", "W"}
    BY Zenon DEF Rings
  <2>2. CASE r = "A"
    BY ZenonT(30), <1>1, <1>5, <2>1, <2>2 DEF EmitDrops, Proceed, CallIsQuiet, Stayed
  <2>3. CASE r = "W"
    BY ZenonT(30), <1>1, <1>5, <2>1, <2>3 DEF EmitDrops, Proceed, CallIsQuiet, Stayed, Does, Event
  <2> QED
    BY SMTT(30), <2>1, <2>2, <2>3
<1>6. ASSUME NEW r \in Rings, EmitRetries(r) PROVE CallIsQuiet /\ UNCHANGED sdk /\ Drained
  BY ZenonT(30), <1>2, <1>6 DEF EmitRetries, Drains, CallIsQuiet, Drained
<1>7. ASSUME NEW r \in Rings, RingDoorbell(r) PROVE CallIsQuiet /\ UNCHANGED sdk /\ Drained
  <2>1. r \in {"A", "W"} /\ Rings = {"A", "W"}
    BY DEF Rings
  <2>2. UNCHANGED sdk /\ Drained
    BY ZenonT(30), <1>2, <1>7 DEF RingDoorbell, Drains, Drained
  <2>3. CASE r = "A"
    BY ZenonT(30), <1>1, <1>7, <2>1, <2>2, <2>3 DEF RingDoorbell, Proceed, CallIsQuiet
  <2>4. CASE r = "W"
    BY SMTT(30), <1>1, <1>7, <2>1, <2>2, <2>4 DEF RingDoorbell, Proceed, CallIsQuiet, Does
  <2> QED
    BY <2>1, <2>3, <2>4
<1>8. CASE InjectOut
  <2>1. PICK d, iseq : d = drain_events(host) /\ iseq = Head(call["W"]).iseq
    OBVIOUS
  <2>2. /\ ring' = [r \in Rings |-> <<>>] /\ host' = Answer(d, iseq) /\ UNCHANGED sdk
        /\ call' = [call EXCEPT !["W"] = Tail(@)] /\ Does("W", "out")
    BY ZenonT(30), <1>8, <2>1 DEF InjectOut, Proceed
  <2>3. HasFields(d)
    BY <1>1, <2>1, DrainFacts DEF IsChannel
  <2>4. SameTables(host', d)
    <3>1. \/ host' = [d EXCEPT !.pending = [k \in DOMAIN @ \ {iseq} |-> @[k]]]
          \/ host' = [d EXCEPT !.unmatched = @ + 1]
      BY <2>2 DEF Answer
    <3>2. DOMAIN d = {"interns", "pending", "unmatched", "redefinitions", "frame",
                      "violations", "reached", "droppable"}
      BY <2>3, ChannelFields DEF HasFields
    <3> QED
      BY <3>1, <3>2 DEF SameTables
  <2>5. CallIsQuiet
    BY ZenonT(30), <1>1, <2>2 DEF CallIsQuiet, Does, Rings
  <2> QED
    BY ZenonT(30), <2>1, <2>2, <2>4, <2>5 DEF Drained
<1>9. CASE InjectIn \/ WriteFrameCounter \/ WriteStat
  <2>1. /\ call["W"] # <<>> /\ Head(call["W"]).do \in {"in", "frame_reg", "stat"}
        /\ call' = [call EXCEPT !["W"] = Tail(@)] /\ UNCHANGED <<ring, host, sdk>>
    BY ZenonT(30), <1>9 DEF InjectIn, WriteFrameCounter, WriteStat, Proceed, Does
  <2> QED
    BY ZenonT(30), <1>1, <2>1 DEF CallIsQuiet, Stayed, Rings
<1> QED
  BY ZenonT(30), <1>3, <1>4, <1>5, <1>6, <1>7, <1>8, <1>9

-----------------------------------------------------------------------------
(***************************************************************************)
(* ViewInv.                                                                *)
(***************************************************************************)
\* A quiet step.
LEMMA ViewStep ==
    ASSUME Typed, ViewInv, Quiet, Drained \/ Stayed
    PROVE  ViewInv'
<1>1. /\ Told'.frame = Told.frame /\ Told'.violations = Told.violations
      /\ Told'.reached = Told.reached
      /\ hits' = hits /\ fails' = fails /\ frame_index' = frame_index
  BY DEF Quiet, SameTables
<1>2. \A ev \in Owed' : ev \in Owed
  BY DEF Quiet
<1>3. \A ev : ev \in Owed /\ is_critical(ev) => ev \in Owed'
  BY DEF Quiet
<1>4. host'.violations \in [Names -> Nat]
  <2>1. CASE Stayed
    BY Zenon, <2>1 DEF Stayed, ViewInv
  <2>2. CASE Drained
    <3>1. Told' = host'
      BY ZenonT(30), <2>2, ToldDrained DEF Drained
    <3> QED
      BY <1>1, <3>1 DEF ViewInv
  <2> QED
    BY ZenonT(30), <2>1, <2>2
<1>5. OwedIsNews'
  BY <1>1, <1>2 DEF ViewInv, OwedIsNews
<1>6. OwesFrame => OwesFrame'
  BY <1>3 DEF OwesFrame, is_critical
<1>7. \A n : /\ Owes("AssertViolation", n) => Owes("AssertViolation", n)'
             /\ Owes("Reachable", n) => Owes("Reachable", n)'
  BY ZenonT(30), <1>3 DEF Owes, is_critical
<1> QED
  <2>1. (\A n \in Names :
           \/ Owes("AssertViolation", n)
           \/ Told.violations[n] = Min({fails[n], ASSERT_REPEAT_LIMIT + 1}))'
    BY ZenonT(30), <1>1, <1>7 DEF ViewInv
  <2>2. (\A n \in Names : Owes("Reachable", n) \/ (n \in Told.reached <=> hits[n] > 0))'
    BY ZenonT(30), <1>1, <1>7 DEF ViewInv
  <2>3. (OwesFrame \/ Told.frame = frame_index)'
    BY ZenonT(30), <1>1, <1>6 DEF ViewInv
  <2>4. (Told.violations \in [Names -> Nat] /\ Told.reached \subseteq Names)'
    BY ZenonT(30), <1>1 DEF ViewInv
  <2> QED
    BY ZenonT(30), <1>4, <1>5, <2>1, <2>2, <2>3, <2>4 DEF ViewInv

\* A record pushed to ring W: what the call owed the host with it, the host is told.
LEMMA ViewPush ==
    ASSUME Typed, TypedSdk, NamesInv, ViewInv, EmitPush("W")
    PROVE  ViewInv'
<1>0. PICK ev : ev = Event("W")
  OBVIOUS
<1>1. /\ Does("W", "emit") /\ ring' = [ring EXCEPT !["W"] = Append(@, ev)]
      /\ call' = [call EXCEPT !["W"] = Tail(@)] /\ UNCHANGED sdk /\ host' = host
  BY ZenonT(30), <1>0 DEF EmitPush, Proceed
<1>2. /\ ring'["W"] = Append(ring["W"], ev) /\ call'["W"] = Tail(call["W"])
      /\ call["W"] \in Seq(Steps) /\ call["W"] # <<>>
      /\ Head(call["W"]).do = "emit" /\ Head(call["W"]).ev = ev
  BY ZenonT(30), <1>0, <1>1 DEF Typed, Does, Event, Rings
<1>3. ev \in Events
  BY ZenonT(30), <1>0, <1>1, EmitFacts DEF Rings
<1>4. HasFields(Told) /\ Told' = FoldEvent(Told, ev, "W")
  BY ZenonT(30), <1>1, <1>2, <1>3, ToldFields, ToldPush
<1>5. \A x : x \in Owed <=> x = ev \/ x \in Owed'
  BY ZenonT(30), <1>2, OwedTail DEF Owed
<1>6. /\ Told'.frame = IF ev.kind = "FrameMark" THEN ev.index ELSE Told.frame
      /\ Told'.violations = IF ev.kind = "AssertViolation" THEN Violated(Told, ev) ELSE Told.violations
      /\ Told'.reached = IF ev.kind = "Reachable" THEN Reaches(Told, ev) ELSE Told.reached
  <2>1. FoldsTo(Told, ev, "W", Told')
    BY Zenon, <1>3, <1>4, FoldFields
  <2> QED
    BY Zenon, <2>1 DEF FoldsTo
<1>7. /\ OwedIsNews /\ (OwesFrame \/ Told.frame = frame_index)
      /\ Told.violations \in [Names -> Nat] /\ Told.reached \subseteq Names
      /\ host.violations \in [Names -> Nat]
  BY Zenon DEF ViewInv
<1>8. hits' = hits /\ fails' = fails /\ frame_index' = frame_index
  BY Zenon, <1>1 DEF sdk
<1>9. ev.kind \in {"AssertViolation", "Reachable"} => Resolve(Told, ev) = ev.name /\ ev.name \in Names
  BY Zenon, <1>0, <1>1, ResolvesTold DEF Resolve
<1>10. OwedIsNews'
  BY Zenon, <1>5, <1>7, <1>8 DEF OwedIsNews
<1>11. OwesFrame' \/ Told'.frame = frame_index'
  <2>1. CASE ev.kind = "FrameMark"
    BY ZenonT(30), <1>5, <1>6, <1>7, <1>8, <2>1 DEF OwedIsNews
  <2>2. CASE ev.kind # "FrameMark"
    BY ZenonT(30), <1>5, <1>6, <1>7, <1>8, <2>2 DEF OwesFrame
  <2> QED
    BY ZenonT(30), <2>1, <2>2
<1>12. ev.kind = "AssertViolation" =>
         /\ ev.count = fails[ev.name] /\ ev.count \in Nat /\ ev.count <= ASSERT_REPEAT_LIMIT + 1
         /\ Told'.violations = [Told.violations EXCEPT ![ev.name] = ev.count]
  <2> SUFFICES ASSUME ev.kind = "AssertViolation"
               PROVE  /\ ev.count = fails[ev.name] /\ ev.count \in Nat
                      /\ ev.count <= ASSERT_REPEAT_LIMIT + 1
                      /\ Told'.violations = [Told.violations EXCEPT ![ev.name] = ev.count]
    OBVIOUS
  <2>1. ev \in Owed
    BY Zenon, <1>5
  <2>2. ev.count = fails[ev.name] /\ ev.count <= ASSERT_REPEAT_LIMIT + 1
    BY ZenonT(30), <1>7, <2>1 DEF OwedIsNews
  <2>3. ev.count \in Nat
    BY ZenonT(30), <1>9, <2>2 DEF TypedSdk
  <2> QED
    BY ZenonT(30), <1>6, <1>9, <2>2, <2>3 DEF Violated
<1>13. ev.kind = "Reachable" => hits[ev.name] > 0 /\ Told'.reached = Told.reached \cup {ev.name}
  <2>1. ev.kind = "Reachable" => hits[ev.name] > 0
    BY ZenonT(30), <1>5, <1>7 DEF OwedIsNews
  <2> QED
    BY ZenonT(30), <1>6, <1>9, <2>1 DEF Reaches
<1>14. Told'.violations \in [Names -> Nat] /\ Told'.reached \subseteq Names
  BY ZenonT(30), <1>6, <1>7, <1>9, <1>12, <1>13
<1>15. ASSUME NEW n \in Names
       PROVE  \/ Owes("AssertViolation", n)'
              \/ Told'.violations[n] = Min({fails[n], ASSERT_REPEAT_LIMIT + 1})
  <2>1. CASE ev.kind = "AssertViolation" /\ ev.name = n
    <3>1. Told'.violations[n] = fails[n] /\ fails[n] <= ASSERT_REPEAT_LIMIT + 1 /\ fails[n] \in Nat
      BY Zenon, <1>7, <1>9, <1>12, <2>1
    <3>2. ASSERT_REPEAT_LIMIT \in Nat
      BY Zenon, EventFlowAssumption
    <3> QED
      BY SMTT(30), <3>1, <3>2, MinTwo
  <2>2. CASE ~(ev.kind = "AssertViolation" /\ ev.name = n)
    <3>1. Owes("AssertViolation", n) => Owes("AssertViolation", n)'
      BY ZenonT(30), <1>5, <2>2 DEF Owes
    <3>2. Told'.violations[n] = Told.violations[n]
      BY ZenonT(30), <1>6, <1>7, <1>9, <1>12, <2>2
    <3> QED
      BY ZenonT(30), <3>1, <3>2 DEF ViewInv
  <2> QED
    BY ZenonT(30), <2>1, <2>2
<1>16. ASSUME NEW n \in Names
       PROVE  Owes("Reachable", n)' \/ (n \in Told'.reached <=> hits[n] > 0)
  <2>1. CASE ev.kind = "Reachable" /\ ev.name = n
    BY SMTT(30), <1>13, <2>1
  <2>2. CASE ~(ev.kind = "Reachable" /\ ev.name = n)
    <3>1. Owes("Reachable", n) => Owes("Reachable", n)'
      BY ZenonT(30), <1>5, <2>2 DEF Owes
    <3>2. n \in Told'.reached <=> n \in Told.reached
      BY <1>6, <1>13, <2>2
    <3> QED
      BY ZenonT(30), <3>1, <3>2 DEF ViewInv
  <2> QED
    BY ZenonT(30), <2>1, <2>2
<1> QED
  <2>1. (\A n \in Names :
           \/ Owes("AssertViolation", n)
           \/ Told.violations[n] = Min({fails[n], ASSERT_REPEAT_LIMIT + 1}))'
    BY ZenonT(30), <1>8, <1>15
  <2>2. (\A n \in Names : Owes("Reachable", n) \/ (n \in Told.reached <=> hits[n] > 0))'
    BY ZenonT(30), <1>8, <1>16
  <2> QED
    BY ZenonT(30), <1>1, <1>7, <1>10, <1>11, <1>14, <2>1, <2>2 DEF ViewInv
=============================================================================
