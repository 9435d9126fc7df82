---------------------------- MODULE ReplayProofs ----------------------------
(***************************************************************************)
(* What a snapshot keeps of the host's side of a channel is enough, and    *)
(* the trace of the host's writes rebuilds the channel, for any ring       *)
(* sizes, fault plans, numbers of queries and of restores.  And the        *)
(* packing of a decision loses nothing, for any widths of its fields.      *)
(***************************************************************************)
EXTENDS Replay, TLAPS

-----------------------------------------------------------------------------
\* The first record of a name or of a query goes onto ring W: what was carried
\* before still is, and so is the record.
LEMMA AppendKeeps ==
    ASSUME NEW evs \in Seq(WEvents), NEW ev \in WEvents
    PROVE  /\ Append(evs, ev) \in Seq(WEvents)
           /\ \A i \in DOMAIN evs : i \in DOMAIN Append(evs, ev) /\ Append(evs, ev)[i] = evs[i]
           /\ \E i \in DOMAIN Append(evs, ev) : Append(evs, ev)[i] = ev
<1>1. Append(evs, ev)[Len(evs) + 1] = ev /\ Len(evs) + 1 \in DOMAIN Append(evs, ev)
  OBVIOUS
<1> QED
  BY <1>1

\* The tables drain_events leaves gain the name and the queries that were in the
\* ring, and nothing else.
LEMMA FoldFinds ==
    ASSUME NEW evs \in Seq(WEvents)
    PROVE  /\ NamesIn(evs) \subseteq {NameId}
           /\ QueriesIn(evs) \subseteq Pending
           /\ \A i \in DOMAIN evs : evs[i].kind = "NameIntern" => NameId \in NamesIn(evs)
           /\ \A i \in DOMAIN evs : evs[i].kind = "InjectQuery"
                => \E q \in QueriesIn(evs) : q.iseq = evs[i].iseq
<1>1. ASSUME NEW i \in DOMAIN evs
      PROVE  /\ evs[i].name_id = NameId
             /\ evs[i].kind = "InjectQuery" => evs[i].iseq \in Nat
  <2>1. evs[i] \in WEvents
    OBVIOUS
  <2> QED
    BY <2>1 DEF WEvents
<1>2. NamesIn(evs) \subseteq {NameId}
  BY <1>1 DEF NamesIn
<1>3. QueriesIn(evs) \subseteq Pending
  BY <1>1 DEF QueriesIn, Pending
<1>4. ASSUME NEW i \in DOMAIN evs, evs[i].kind = "NameIntern"
      PROVE  NameId \in NamesIn(evs)
  BY Zenon, <1>1, <1>4 DEF NamesIn
<1>5. ASSUME NEW i \in DOMAIN evs, evs[i].kind = "InjectQuery"
      PROVE  \E q \in QueriesIn(evs) : q.iseq = evs[i].iseq
  <2> DEFINE q == [iseq |-> evs[i].iseq, name_id |-> evs[i].name_id]
  <2>1. q \in QueriesIn(evs)
    BY Zenon, <1>5 DEF QueriesIn
  <2>2. q.iseq = evs[i].iseq
    OBVIOUS
  <2> QED
    BY Zenon, <2>1, <2>2
<1> QED
  BY Zenon, <1>2, <1>3, <1>4, <1>5

\* drain_events moves what ring W carried into the host's tables.
LEMMA FoldCarries ==
    ASSUME NEW i, NEW p, NEW evs, NEW g, NEW a, Carries(i, p, evs, g, a)
    PROVE  Carries(i \cup NamesIn(evs), p \cup QueriesIn(evs), <<>>, g, a)
<1>1. evs \in Seq(WEvents)
  BY Zenon DEF Carries
<1>2. NameId \in Nat
  BY Zenon DEF NameId
<1>3. i \cup NamesIn(evs) \subseteq Nat /\ p \cup QueriesIn(evs) \subseteq Pending
  BY ZenonT(30), <1>1, <1>2, FoldFinds DEF Carries
<1>4. g.named => NameId \in i \cup NamesIn(evs)
  BY Zenon, <1>1, FoldFinds DEF Carries
<1>5. g.pc # "run" => \E q \in p \cup QueriesIn(evs) : q.iseq = g.iseq
  BY <1>1, FoldFinds DEF Carries
<1> QED
  BY <1>3, <1>4, <1>5 DEF Carries

-----------------------------------------------------------------------------
\* A channel that has just been attached carries nothing, and needs nothing.
LEMMA InitRInv == RInit => RInv
BY DEF RInit, RInv, Carries, FreshHost, FreshGuest, Init, Pending, WEvents

\* Ring I's steps do not touch what RInv is about, except for the host's counter.
LEMMA QuietRInv ==
    ASSUME RInv,
           UNCHANGED <<wring, guest, host, ans, snap>>,
           next_seq_i' = usedSeq'
    PROVE  RInv'
BY DEF RInv, Carries

\* Ring W takes a record of the inject point.
LEMMA EmitRInv ==
    ASSUME RInv, GuestNames \/ GuestAsks
    PROVE  RInv'
<1>1. Carries(host.interns, host.pending, wring, guest, ans) /\ wring \in Seq(WEvents)
  BY Zenon DEF RInv, Carries
<1>2. UNCHANGED <<host, ans, snap, next_seq_i, usedSeq>>
  BY Zenon DEF GuestNames, GuestAsks, ivars, svars, hvars
<1>3. CASE GuestNames
  <2> DEFINE ev == [kind |-> "NameIntern", name_id |-> NameId]
  <2>1. ev \in WEvents /\ ev.kind = "NameIntern"
    BY Zenon DEF WEvents
  <2>2. wring' = Append(wring, ev) /\ guest' = [guest EXCEPT !.named = TRUE] /\ guest.pc = "run"
    BY Zenon, <1>3 DEF GuestNames, Emit
  <2> HIDE DEF ev
  <2>3. /\ wring' \in Seq(WEvents)
        /\ \E i \in DOMAIN wring' : wring'[i].kind = "NameIntern"
    BY <1>1, <2>1, <2>2, AppendKeeps
  <2>4. /\ guest' \in [pc : {"run", "published", "asked"}, iseq : Nat, named : BOOLEAN]
        /\ guest'.pc = "run" /\ guest'.iseq = guest.iseq /\ guest'.named
    BY ZenonT(30), <1>1, <2>2 DEF Carries
  <2>5. Carries(host.interns, host.pending, wring', guest', ans)
    BY Zenon, <1>1, <2>2, <2>3, <2>4 DEF Carries
  <2> QED
    BY Zenon, <1>2, <2>5 DEF RInv
<1>4. CASE GuestAsks
  <2> DEFINE ev == [kind |-> "InjectQuery", iseq |-> guest.iseq + 1, name_id |-> NameId]
  <2>1. ev \in WEvents /\ ev.kind = "InjectQuery" /\ ev.iseq = guest.iseq + 1
    BY <1>1 DEF WEvents, Carries
  <2>2. /\ wring' = Append(wring, ev) /\ guest.pc = "run" /\ guest.named
        /\ guest' = [guest EXCEPT !.pc = "published", !.iseq = @ + 1]
    BY Zenon, <1>4 DEF GuestAsks, Emit
  <2> HIDE DEF ev
  <2>3. /\ wring' \in Seq(WEvents)
        /\ \A i \in DOMAIN wring : i \in DOMAIN wring' /\ wring'[i] = wring[i]
        /\ \E i \in DOMAIN wring' : wring'[i].kind = "InjectQuery" /\ wring'[i].iseq = guest.iseq + 1
    BY <1>1, <2>1, <2>2, AppendKeeps
  <2> DEFINE G == [pc : {"run", "published", "asked"}, iseq : Nat, named : BOOLEAN]
  <2>4. guest' \in G /\ guest'.pc = "published" /\ guest'.iseq = guest.iseq + 1 /\ guest'.iseq > 0
    <3>1. guest \in G
      BY Zenon, <1>1 DEF Carries
    <3>2. guest.iseq \in Nat
      BY Zenon, <3>1
    <3>3. guest' = [guest EXCEPT !.pc = "published", !.iseq = guest.iseq + 1]
      BY <2>2, Zenon
    <3>4. guest'.pc = "published" /\ guest'.iseq = guest.iseq + 1 /\ guest'.named = guest.named
      BY Zenon, <3>1, <3>3
    <3>5. guest' = [pc |-> "published", iseq |-> guest.iseq + 1, named |-> guest.named]
      BY ZenonT(30), <3>1, <3>3
    <3> QED
      BY <3>1, <3>2, <3>4, <3>5
  <2>5. NameId \in host.interns \/ \E i \in DOMAIN wring' : wring'[i].kind = "NameIntern"
    BY <1>1, <2>2, <2>3 DEF Carries
  <2>6. Carries(host.interns, host.pending, wring', guest', ans)
    BY <1>1, <2>2, <2>3, <2>4, <2>5 DEF Carries
  <2> QED
    BY <1>2, <2>6 DEF RInv
<1> QED
  BY <1>3, <1>4

\* A drain at a pause, and the one behind the query.
LEMMA DrainRInv ==
    ASSUME RInv, HostDrains \/ GuestRings
    PROVE  RInv'
<1>1. Carries(host.interns \cup NamesIn(wring), host.pending \cup QueriesIn(wring), <<>>, guest, ans)
  BY FoldCarries DEF RInv
<1>2. UNCHANGED <<ans, snap, next_seq_i, usedSeq>> /\ wring' = <<>> /\ host' = Folded(host, wring)
  BY Zenon DEF HostDrains, GuestRings, Bumps, ivars, svars, hvars
<1>3. host'.interns = host.interns \cup NamesIn(wring) /\ host'.pending = host.pending \cup QueriesIn(wring)
  BY <1>2 DEF Folded
<1>4. Carries(host'.interns, host'.pending, wring', guest', ans')
  <2>1. CASE HostDrains
    BY Zenon, <1>1, <1>2, <1>3, <2>1 DEF HostDrains
  <2>2. CASE GuestRings
    <3>1. guest.pc = "published" /\ guest' = [guest EXCEPT !.pc = "asked"]
      BY Zenon, <2>2 DEF GuestRings
    <3> QED
      BY <1>1, <1>2, <1>3, <3>1 DEF Carries
  <2> QED
    BY Zenon, <2>1, <2>2
<1> QED
  BY Zenon, <1>2, <1>4 DEF RInv

\* InjectResponder::answer finds the query and its name after the drain of the
\* INJECT exit, so the answer is the one for that query.
LEMMA AnswerRInv ==
    ASSUME RInv, HostAnswers
    PROVE  RInv'
<1> DEFINE h == Folded(host, wring)
           mine == {q \in h.pending : q.iseq = guest.iseq}
           name_id == (CHOOSE q \in mine : TRUE).name_id
<1>1. Carries(host.interns \cup NamesIn(wring), host.pending \cup QueriesIn(wring), <<>>, guest, ans)
  BY Zenon, FoldCarries DEF RInv
<1>2. h.interns = host.interns \cup NamesIn(wring) /\ h.pending = host.pending \cup QueriesIn(wring)
  BY Zenon DEF Folded
<1>3. guest.pc = "asked" /\ guest' = [guest EXCEPT !.pc = "run"]
  BY ZenonT(30) DEF HostAnswers
<1>4. /\ UNCHANGED <<snap, next_seq_i, usedSeq>>
      /\ wring' = <<>>
  BY ZenonT(30) DEF HostAnswers, Bumps, ivars, svars, hvars
<1>5. mine # {} /\ mine \subseteq Pending
  BY <1>1, <1>2, <1>3 DEF Carries
<1>6. name_id = NameId /\ NameId \in h.interns
  <2>1. (CHOOSE q \in mine : TRUE) \in mine
    BY Zenon, <1>5
  <2>2. guest.named
    BY Zenon, <1>1, <1>3 DEF Carries
  <2>3. NameId \in h.interns
    BY <1>1, <1>2, <2>2 DEF Carries
  <2> QED
    BY Zenon, <1>5, <2>1, <2>3 DEF Pending
<1>7. ans' = "named"
  <2>1. ans' = IF mine = {} THEN "unmatched"
               ELSE IF name_id \in h.interns THEN "named" ELSE "nameless"
    BY Zenon DEF HostAnswers
  <2> QED
    BY Zenon, <1>5, <1>6, <2>1
<1>8. host'.interns = h.interns /\ host'.pending = h.pending \ mine
  <2>1. host' = [h EXCEPT !.pending = @ \ mine,
                          !.unmatched = IF mine = {} THEN @ + 1 ELSE @]
    BY Zenon DEF HostAnswers
  <2> QED
    BY <2>1 DEF Folded
<1>9. /\ guest' \in [pc : {"run", "published", "asked"}, iseq : Nat, named : BOOLEAN]
      /\ guest'.pc = "run" /\ guest'.iseq = guest.iseq /\ guest'.named = guest.named
  BY Zenon, <1>1, <1>3 DEF Carries
<1>10. Carries(host'.interns, host'.pending, wring', guest', ans')
  <2> HIDE DEF h, mine, name_id
  <2> QED
    BY ZenonT(30), <1>1, <1>2, <1>4, <1>6, <1>7, <1>8, <1>9 DEF Carries
<1> QED
  BY Zenon, <1>4, <1>10 DEF RInv

\* The snapshot takes what the channel carries, and a restore brings it back.
LEMMA SnapshotRInv ==
    ASSUME RInv, Snapshot \/ Restore
    PROVE  RInv'
<1>1. CASE Snapshot
  <2>1. UNCHANGED <<wring, guest, host, ans, next_seq_i, usedSeq>>
    BY Zenon, <1>1 DEF Snapshot, ivars, wvars, hvars
  <2>2. snap' = <<[ram |-> Ram, saved |-> Exported]>>
    BY Zenon, <1>1 DEF Snapshot
  <2>3. /\ snap'[1].saved.interns = host.interns /\ snap'[1].saved.pending = host.pending
        /\ snap'[1].saved.seqs = next_seq_i /\ snap'[1].ram.usedSeq = usedSeq
        /\ snap'[1].ram.wring = wring /\ snap'[1].ram.guest = guest /\ snap'[1].ram.ans = ans
    BY Zenon, <2>2 DEF Ram, Exported, producer_seqs
  <2> QED
    BY Zenon, <2>1, <2>3 DEF RInv
<1>2. CASE Restore
  <2>1. /\ snap # <<>> /\ snap' = snap
        /\ wring' = snap[1].ram.wring /\ guest' = snap[1].ram.guest /\ ans' = snap[1].ram.ans
        /\ usedSeq' = snap[1].ram.usedSeq /\ next_seq_i' = snap[1].saved.seqs
        /\ host' = [FreshHost EXCEPT !.interns = snap[1].saved.interns, !.pending = snap[1].saved.pending]
    BY <1>2, Zenon DEF Restore, Reattach
  <2>2. host'.interns = snap[1].saved.interns /\ host'.pending = snap[1].saved.pending
    BY Zenon, <2>1 DEF FreshHost
  <2> QED
    BY <2>1, <2>2 DEF RInv
<1> QED
  BY <1>1, <1>2

\* Every step of the channel, of its snapshot and of its restores keeps RInv.
LEMMA NextRInv == RInv /\ [RNext]_rvars => RInv'
<1> SUFFICES ASSUME RInv, [RNext]_rvars PROVE RInv'
  OBVIOUS
<1>1. ASSUME NEW rec \in Records, HostPushes(rec) \/ HostPushFails(rec)
      PROVE  RInv'
  <2>1. UNCHANGED <<wring, guest, host, ans, snap>>
    BY Zenon, <1>1 DEF HostPushes, HostPushFails, wvars, svars
  <2>2. next_seq_i' = usedSeq'
    BY Zenon, <1>1 DEF HostPushes, HostPushFails, RInv
  <2> QED
    BY Zenon, <2>1, <2>2, QuietRInv
<1>2. CASE GuestOnRingI
  <2>1. UNCHANGED <<wring, guest, host, ans, snap, usedSeq>>
    BY Zenon, <1>2 DEF GuestOnRingI, wvars, svars, hvars
  <2>2. UNCHANGED next_seq_i
    BY Zenon, <1>2 DEF GuestOnRingI, RelayLoad, RelayWrite, RelayPublish, Poll
  <2> QED
    BY <2>1, <2>2, QuietRInv DEF RInv
<1>3. CASE UNCHANGED rvars
  BY <1>3, QuietRInv DEF RInv, rvars, ivars, wvars, svars, hvars
<1> QED
  BY Zenon, <1>1, <1>2, <1>3, EmitRInv, DrainRInv, AnswerRInv, SnapshotRInv DEF RNext

\* RestoreIsComplete for any rings, rules, numbers of queries and of restores:
\* wherever drains, snapshots and restores fall, the host gives no seq out twice
\* and answers every inject query by its name (producer_seqs, interns,
\* pending_injects and their restores).
THEOREM RestoreComplete == RSpec => []RestoreIsComplete
<1>1. RInv => RestoreIsComplete
  BY Zenon DEF RInv, Carries, RestoreIsComplete
<1> QED
  BY <1>1, InitRInv, NextRInv, PTL DEF RSpec

-----------------------------------------------------------------------------
\* The two fields of a packed word are its remainder and its quotient.
LEMMA TwoFields ==
    ASSUME NEW m \in Nat \ {0}, NEW k \in 0 .. (m - 1), NEW a \in Nat
    PROVE  (k + a * m) % m = k /\ (k + a * m) \div m = a
<1> DEFINE w == k + a * m
           q == w \div m
           r == w % m
<1>1. w \in Int
  OBVIOUS
<1>2. w = k + a * m
  OBVIOUS
<1> HIDE DEF w
<1>3. q \in Int /\ r \in 0 .. (m - 1) /\ w = m * q + r
  BY <1>1
<1> HIDE DEF q, r
<1>4. m * (q - a) = k - r
  BY <1>2, <1>3
<1>5. q - a >= 1 => m * (q - a) >= m
  BY <1>3
<1>6. q - a <= -1 => m * (q - a) <= -m
  BY <1>3
<1>7. q - a = 0
  BY <1>3, <1>4, <1>5, <1>6
<1>8. q = a /\ r = k
  BY <1>3, <1>4, <1>7
<1> QED
  BY Zenon, <1>2, <1>8 DEF q, r

\* ports.rs: a decision survives the trip through the 32 bits of the IN answer,
\* for any widths of the two fields.
THEOREM PackRoundTrip == \A d \in Decisions : unpack(pack(d)) = d
<1> SUFFICES ASSUME NEW d \in Decisions PROVE unpack(pack(d)) = d
  OBVIOUS
<1>1. CASE d = Proceed
  BY <1>1, FaultAssumption DEF Proceed, pack, unpack
<1>2. CASE d # Proceed
  <2>1. /\ d.kind \in 1 .. (KindMod - 1) /\ d.arg \in 0 .. (ArgMod - 1)
        /\ d.class = IF d.kind < FirstWorkload THEN "Platform" ELSE "Workload"
        /\ d = [class |-> d.class, kind |-> d.kind, arg |-> d.arg]
    BY <1>2, FaultAssumption DEF Decisions
  <2> DEFINE v == d.kind + d.arg * KindMod
  <2>2. pack(d) = v
    <3>1. d.arg \in Nat /\ d.arg % ArgMod = d.arg
      BY <2>1, FaultAssumption
    <3>2. d.class # "Proceed"
      BY Zenon, <2>1
    <3> QED
      BY Zenon, <3>1, <3>2 DEF pack
  <2>3. v % KindMod = d.kind /\ v \div KindMod = d.arg
    <3>1. KindMod \in Nat \ {0} /\ d.kind \in 0 .. (KindMod - 1) /\ d.arg \in Nat
      BY <2>1, FaultAssumption
    <3> QED
      BY <3>1, TwoFields, Zenon
  <2> HIDE DEF v
  <2>4. unpack(v) = [class |-> d.class, kind |-> d.kind, arg |-> d.arg]
    BY <2>1, <2>3, FaultAssumption DEF unpack
  <2> QED
    BY Zenon, <2>1, <2>2, <2>4
<1> QED
  BY Zenon, <1>1, <1>2

-----------------------------------------------------------------------------
(***************************************************************************)
(* The index arithmetic of ring I: what RingProofs shows of it for the     *)
(* other rings, as far as it is needed here.                               *)
(***************************************************************************)
\* The index wraps after at least two laps.
LEMMA IndexModFacts == IndexMod \in Nat /\ IndexMod >= 2 * Size /\ IndexMod >= Size
<1>1. IndexMod \in Nat
  BY RingAssumption DEF IndexMod
<1>2. (Laps - 2) * Size >= 0
  BY RingAssumption
<1>3. Laps * Size = (Laps - 2) * Size + 2 * Size
  BY RingAssumption
<1> QED
  BY <1>1, <1>2, <1>3, RingAssumption DEF IndexMod

\* A remainder is the number itself, or one modulus away from it, when the
\* number is within one modulus of the range.
LEMMA ModForm ==
  ASSUME NEW m \in Nat \ {0}, NEW a \in Int, -m <= a, a < 2 * m
  PROVE  /\ a % m \in 0 .. (m - 1)
         /\ a < 0 => a % m = a + m
         /\ 0 <= a /\ a < m => a % m = a
         /\ m <= a => a % m = a - m
<1>1. a % m \in 0 .. (m - 1) /\ a = m * (a \div m) + (a % m)
  OBVIOUS
<1> DEFINE q == a \div m
<1>2. q \in Int
  OBVIOUS
<1> HIDE DEF q
<1>3. q < -1 => m * q <= -2 * m
  BY <1>2
<1>4. q > 1 => m * q >= 2 * m
  BY <1>2
<1>5. q \in {-1, 0, 1}
  BY <1>1, <1>2, <1>3, <1>4 DEF q
<1> QED
  BY <1>1, <1>5 DEF q

\* wrapping_add without a remainder.
LEMMA AddForm ==
  ASSUME NEW p \in Index, NEW n \in 0 .. Size
  PROVE  /\ wrapping_add(p, n) \in Index
         /\ wrapping_add(p, n) = IF p + n < IndexMod THEN p + n ELSE (p + n) - IndexMod
<1> DEFINE a == p + n
<1>1. a \in Int /\ -IndexMod <= a /\ a < 2 * IndexMod /\ 0 <= a
  BY IndexModFacts, RingAssumption DEF Index
<1>2. IndexMod \in Nat \ {0}
  BY IndexModFacts, RingAssumption
<1> HIDE DEF a
<1>3. /\ a % IndexMod \in 0 .. (IndexMod - 1)
      /\ a < IndexMod => a % IndexMod = a
      /\ IndexMod <= a => a % IndexMod = a - IndexMod
  BY ZenonT(30), <1>1, <1>2, ModForm
<1>4. /\ a % IndexMod \in Index
      /\ a % IndexMod = IF a < IndexMod THEN a ELSE a - IndexMod
  BY <1>1, <1>2, <1>3 DEF Index
<1> QED
  BY Zenon, <1>4 DEF a, wrapping_add

\* used without a remainder.
LEMMA UsedForm ==
  ASSUME NEW p \in Index, NEW c \in Index
  PROVE  /\ used(p, c) \in Index
         /\ used(p, c) = IF p >= c THEN p - c ELSE p - c + IndexMod
<1>1. p - c \in Int /\ -IndexMod <= p - c /\ p - c < IndexMod
  BY IndexModFacts, RingAssumption DEF Index
<1>2. IndexMod \in Nat \ {0} /\ p - c < 2 * IndexMod
  BY <1>1, IndexModFacts, RingAssumption
<1>3. /\ (p - c) % IndexMod \in 0 .. (IndexMod - 1)
      /\ p - c < 0 => (p - c) % IndexMod = p - c + IndexMod
      /\ 0 <= p - c => (p - c) % IndexMod = p - c
  BY ZenonT(30), <1>1, <1>2, ModForm
<1>4. p \in Int /\ c \in Int
  BY IndexModFacts DEF Index
<1> QED
  BY <1>1, <1>2, <1>3, <1>4 DEF Index, wrapping_sub, used

\* A masked index points into the ring.
LEMMA OffsetRange ==
  ASSUME NEW p \in Index
  PROVE  Offset(p) \in 0 .. (Size - 1) /\ contiguous_tail(p) \in 1 .. Size
<1>1. p \in Int
  BY IndexModFacts DEF Index
<1>2. p % Size \in 0 .. (Size - 1)
  BY <1>1, RingAssumption
<1> QED
  BY <1>2, RingAssumption DEF Offset, contiguous_tail

\* The remainder determines a number up to whole laps.
LEMMA ModUnique ==
  ASSUME NEW m \in Nat \ {0}, NEW a \in Int, NEW k \in Int, NEW r \in 0 .. (m - 1),
         a = k * m + r
  PROVE  a % m = r
<1> DEFINE q == a \div m
<1>1. a = m * q + (a % m) /\ q \in Int /\ a % m \in 0 .. (m - 1)
  OBVIOUS
<1> HIDE DEF q
<1>2. m * (q - k) = r - (a % m)
  BY <1>1
<1>3. q - k >= 1 => m * (q - k) >= m
  BY <1>1
<1>4. q - k <= -1 => m * (q - k) <= -m
  BY <1>1
<1>5. q - k = 0
  BY <1>1, <1>2, <1>3, <1>4
<1> QED
  BY <1>1, <1>2, <1>5

\* The wrap of the index falls on a lap boundary: it moves no offset.
LEMMA OffsetOfWrap ==
  ASSUME NEW p \in Index, NEW n \in 0 .. Size
  PROVE  Offset(wrapping_add(p, n)) = (p + n) % Size
<1> DEFINE a == p + n
           q == a \div Size
           r == a % Size
<1>1. a \in Int /\ a = Size * q + r /\ q \in Int /\ r \in 0 .. (Size - 1)
  BY RingAssumption, IndexModFacts DEF Index
<1>2. CASE a < IndexMod
  BY Zenon, <1>2, AddForm DEF Offset
<1>3. CASE a >= IndexMod
  <2>1. wrapping_add(p, n) = a - IndexMod
    <3>1. wrapping_add(p, n) = IF p + n < IndexMod THEN p + n ELSE (p + n) - IndexMod
      BY Zenon, AddForm
    <3> QED
      BY <3>1, <1>3, <1>1, IndexModFacts
  <2> HIDE DEF a, q, r
  <2>2. a - IndexMod = (q - Laps) * Size + r
    BY <1>1, RingAssumption DEF IndexMod
  <2>3. a - IndexMod \in Int /\ q - Laps \in Int
    BY <1>1, RingAssumption, IndexModFacts
  <2>4. (a - IndexMod) % Size = r
    BY Zenon, <2>2, <2>3, <1>1, RingAssumption, ModUnique
  <2> QED
    BY Zenon, <2>1, <2>4 DEF Offset, a, r
<1> QED
  BY <1>1, <1>2, <1>3, IndexModFacts

\* Moving within the tail moves the offset by as much; moving to its end
\* comes back to offset 0.
LEMMA OffsetAdd ==
  ASSUME NEW p \in Index, NEW n \in Nat, Offset(p) + n <= Size
  PROVE  Offset(wrapping_add(p, n)) = IF Offset(p) + n = Size THEN 0 ELSE Offset(p) + n
<1> DEFINE q == p \div Size
           r == p % Size
<1>1. p \in Int /\ p = Size * q + r /\ q \in Int /\ r \in 0 .. (Size - 1)
  BY RingAssumption, IndexModFacts DEF Index
<1>2. n \in 0 .. Size
  BY <1>1, RingAssumption DEF Offset
<1>3. Offset(wrapping_add(p, n)) = (p + n) % Size
  BY <1>2, OffsetOfWrap
<1>4. Offset(p) = r
  BY Zenon DEF Offset
<1> HIDE DEF q, r
<1>5. CASE r + n = Size
  <2>1. p + n = (q + 1) * Size + 0
    BY <1>1, <1>5, RingAssumption
  <2>2. (p + n) % Size = 0
    BY <2>1, <1>1, RingAssumption, ModUnique
  <2> QED
    BY <2>2, <1>3, <1>4, <1>5
<1>6. CASE r + n < Size
  <2>1. p + n = q * Size + (r + n)
    BY <1>1, RingAssumption
  <2>2. r + n \in 0 .. (Size - 1)
    BY <1>1, <1>6, RingAssumption
  <2>3. p + n \in Int
    BY <1>1
  <2>4. (p + n) % Size = r + n
    BY ZenonT(30), <2>1, <2>2, <2>3, <1>1, RingAssumption, ModUnique
  <2> QED
    BY <2>4, <1>3, <1>4, <1>6, <1>1, RingAssumption
<1> QED
  BY <1>1, <1>4, <1>5, <1>6, RingAssumption

\* Words counted back from the producer index stay in its lap.
LEMMA OffsetBack ==
  ASSUME NEW p \in Index, NEW c \in Index, used(p, c) <= Offset(p)
  PROVE  /\ Offset(c) = Offset(p) - used(p, c)
         /\ \A d \in 0 .. used(p, c) : Offset(c + d) = Offset(c) + d
<1> DEFINE q == p \div Size
           r == p % Size
           u == used(p, c)
<1>1. /\ p \in Int /\ c \in Int /\ p = q * Size + r /\ q \in Int /\ r \in 0 .. (Size - 1)
      /\ Size \in Nat \ {0} /\ Laps \in Nat
  BY RingAssumption, IndexModFacts DEF Index
<1>2. u \in Nat /\ (c = p - u \/ c = p - u + Laps * Size)
  <2>1. u \in Index /\ u = IF p >= c THEN p - c ELSE p - c + IndexMod
    BY Zenon, UsedForm
  <2>2. IndexMod \in Nat /\ u \in Nat
    BY <2>1, IndexModFacts DEF Index
  <2> HIDE DEF u, q, r
  <2>3. c = p - u \/ c = p - u + IndexMod
    BY <1>1, <2>1, <2>2
  <2> QED
    BY Zenon, <2>2, <2>3 DEF IndexMod
<1>3. Offset(p) = r /\ u <= r
  BY Zenon DEF Offset
<1> HIDE DEF q, r, u
<1>4. PICK k \in Int : c = k * Size + (r - u)
  <2>1. CASE c = p - u
    BY <1>1, <1>2, <2>1
  <2>2. CASE c = p - u + Laps * Size
    <3>1. c = (q + Laps) * Size + (r - u) /\ q + Laps \in Int
      BY <1>1, <1>2, <2>2
    <3> QED
      BY Zenon, <3>1
  <2> QED
    BY Zenon, <1>2, <2>1, <2>2
<1>5. ASSUME NEW d \in 0 .. u PROVE (c + d) % Size = (r - u) + d
  <2>1. c + d = k * Size + ((r - u) + d) /\ c + d \in Int
    BY <1>1, <1>2, <1>4
  <2>2. (r - u) + d \in 0 .. (Size - 1)
    BY <1>1, <1>2, <1>3
  <2> QED
    BY ZenonT(30), <1>1, <2>1, <2>2, ModUnique
<1>6. 0 \in 0 .. u /\ c + 0 = c /\ (r - u) + 0 = r - u
  BY <1>1, <1>2
<1>7. c % Size = r - u
  BY Zenon, <1>5, <1>6
<1> QED
  BY Zenon, <1>3, <1>5, <1>7 DEF Offset, u

\* What was pushed is taken back by as much.
LEMMA SubAdd ==
  ASSUME NEW p \in Index, NEW n \in 0 .. Size
  PROVE  wrapping_sub(wrapping_add(p, n), n) = p
<1> DEFINE w == wrapping_add(p, n)
<1>1. w \in Index /\ w = IF p + n < IndexMod THEN p + n ELSE (p + n) - IndexMod
  BY Zenon, AddForm
<1>2. IndexMod \in Nat /\ IndexMod >= Size /\ Size \in Nat \ {0} /\ p \in 0 .. (IndexMod - 1)
  BY Zenon, IndexModFacts, RingAssumption DEF Index
<1> HIDE DEF w
<1>3. w - n \in Int /\ -IndexMod <= w - n /\ w - n < 2 * IndexMod
      /\ (w - n = p \/ w - n = p - IndexMod)
  BY <1>1, <1>2
<1>4. (w - n) % IndexMod = p
  <2>1. IndexMod \in Nat \ {0}
    BY <1>2
  <2> DEFINE a == w - n
             m == IndexMod
  <2> HIDE DEF a, m
  <2>2. /\ a \in Int /\ -m <= a /\ a < 2 * m /\ m \in Nat \ {0} /\ p \in 0 .. (m - 1)
        /\ a = p \/ a = p - m
    BY Zenon, <1>2, <1>3, <2>1 DEF a, m
  <2>3. (a < 0 => a % m = a + m) /\ (0 <= a /\ a < m => a % m = a)
    BY ZenonT(30), <2>2, ModForm
  <2>4. a % m = p
    BY <2>2, <2>3
  <2> QED
    BY Zenon, <2>4 DEF a, m
<1> QED
  BY Zenon, <1>4 DEF w, wrapping_sub

\* A step of the consumer over n words that are there.
LEMMA UsedLess ==
  ASSUME NEW p \in Index, NEW c \in Index, NEW n \in 0 .. Size, n <= used(p, c)
  PROVE  used(p, wrapping_add(c, n)) = used(p, c) - n
<1> DEFINE w == wrapping_add(c, n)
<1>1. w \in Index /\ w = IF c + n < IndexMod THEN c + n ELSE (c + n) - IndexMod
  BY Zenon, AddForm
<1>2. used(p, c) = IF p >= c THEN p - c ELSE p - c + IndexMod
  BY Zenon, UsedForm
<1>3. used(p, w) = IF p >= w THEN p - w ELSE p - w + IndexMod
  BY Zenon, <1>1, UsedForm
<1>4. IndexMod \in Nat /\ IndexMod >= Size /\ p \in 0 .. (IndexMod - 1) /\ c \in 0 .. (IndexMod - 1)
  BY Zenon, IndexModFacts DEF Index
<1> HIDE DEF w
<1>5. used(p, w) = used(p, c) - n
  BY <1>1, <1>2, <1>3, <1>4, RingAssumption
<1> QED
  BY Zenon, <1>5 DEF w

\* Slots are Len1 words apart, from the start of the ring on.
LEMMA SlotFacts ==
  /\ Len1 \in Nat \ {0} /\ Len1 <= Size /\ Slot(0) /\ Slot(Len1)
  /\ \A o \in Nat : Slot(o) => Slot(o + Len1)
  /\ \A o, n \in Nat : Slot(o) /\ Slot(n) /\ o < n => o + Len1 <= n
<1>1. Len1 \in Nat \ {0} /\ Len1 <= Size
  BY Zenon, RingAssumption, RingIAssumption DEF Len1
<1> DEFINE L == Len1
<1> HIDE DEF L
<1>2. L \in Nat \ {0}
  BY Zenon, <1>1 DEF L
<1>3. ASSUME NEW k \in Int PROVE (k * L) % L = 0
  <2>1. k * L \in Int /\ k * L = k * L + 0 /\ 0 \in 0 .. (L - 1)
    BY <1>2
  <2> QED
    BY Zenon, <1>2, <2>1, ModUnique
<1>4. ASSUME NEW o \in Nat, o % L = 0 PROVE \E k \in Int : o = k * L
  <2>1. o = L * (o \div L) + (o % L) /\ o \div L \in Int
    BY <1>2
  <2> QED
    BY <1>2, <1>4, <2>1
<1>5. 0 % L = 0 /\ L % L = 0
  <2>1. 0 * L = 0 /\ 1 * L = L
    BY <1>2
  <2> QED
    BY <1>3, <2>1
<1>6. ASSUME NEW o \in Nat, o % L = 0 PROVE (o + L) % L = 0
  <2>1. PICK k \in Int : o = k * L
    BY Zenon, <1>4, <1>6
  <2>2. o + L = (k + 1) * L /\ k + 1 \in Int
    BY <1>2, <2>1
  <2> QED
    BY <1>3, <2>2
<1>7. ASSUME NEW o \in Nat, NEW n \in Nat, o % L = 0, n % L = 0, o < n PROVE o + L <= n
  <2>1. PICK k \in Int, j \in Int : o = k * L /\ n = j * L
    BY Zenon, <1>4, <1>7
  <2>2. (j - k) * L > 0
    BY <1>2, <1>7, <2>1
  <2>3. j - k <= 0 => (j - k) * L <= 0
    BY <1>2
  <2>4. j - k >= 1 /\ j - k \in Int
    <3>1. (j - k) * L \in Int
      BY <1>2
    <3> QED
      BY <2>2, <2>3, <3>1
  <2>5. (j - k - 1) * L >= 0
    BY <1>2, <2>4
  <2> QED
    BY <1>2, <2>1, <2>5
<1> QED
  BY Zenon, <1>1, <1>5, <1>6, <1>7 DEF L, Slot

-----------------------------------------------------------------------------
(***************************************************************************)
(* What a push writes.                                                     *)
(***************************************************************************)
Word(rec, k, seq) == [rec |-> rec, at |-> k, seq |-> seq]

\* The two shapes of a span: the record, or the pad and the record.
LEMMA SpanFacts ==
  ASSUME NEW p \in Index, Slot(Offset(p)), NEW rec, NEW padSeq, NEW seq,
         NEW span, span = Span(p, rec, padSeq, seq), NEW t, t = contiguous_tail(p)
  PROVE  /\ t = Size - Offset(p) /\ t \in 1 .. Size /\ Offset(p) \in 0 .. (Size - 1)
         /\ Pads(p) <=> Len1 > t
         /\ Len(span) \in 1 .. Size
         /\ ~Pads(p) => /\ Len(span) = Len1
                        /\ \A i \in 1 .. Len1 : span[i] = Word(rec, i, seq)
         /\ Pads(p) => /\ Len1 <= Offset(p) /\ Len(span) = t + Len1
                       /\ \A i \in 1 .. t : span[i] = Word(Pad, i, padSeq)
                       /\ \A i \in 1 .. Len1 : span[t + i] = Word(rec, i, seq)
                       /\ Len(SubSeq(span, 1, t)) = t
                       /\ \A i \in 1 .. t : SubSeq(span, 1, t)[i] = span[i]
<1> DEFINE P == Offset(p)
           L == Len1
<1>1. t = Size - P /\ t \in 1 .. Size /\ P \in 0 .. (Size - 1) /\ Size \in Nat
  BY Zenon, OffsetRange, RingAssumption DEF contiguous_tail
<1>2. L \in Nat \ {0} /\ L <= Size
  BY Zenon, SlotFacts
<1> HIDE DEF P, L
<1>3. Pads(p) <=> L > t
  BY <1>1, <1>2 DEF Pads, bytes_needed, L
<1>4. Pads(p) => L <= P
  <2>1. 0 \in Nat /\ P \in Nat /\ Slot(0) /\ Slot(P)
    BY <1>1, SlotFacts DEF P
  <2>2. 0 < P => 0 + L <= P
    BY Zenon, <2>1, SlotFacts DEF L
  <2> QED
    BY <1>1, <1>2, <1>3, <2>2
<1> DEFINE a == Words(Pad, padSeq, t)
           b == Words(rec, seq, L)
<1>5. /\ a \in Seq({a[i] : i \in 1 .. t}) /\ Len(a) = t /\ \A i \in 1 .. t : a[i] = Word(Pad, i, padSeq)
  BY <1>1 DEF Words, Word
<1>6. /\ b \in Seq({b[i] : i \in 1 .. L}) /\ Len(b) = L /\ \A i \in 1 .. L : b[i] = Word(rec, i, seq)
  BY <1>2 DEF Words, Word
<1>7. span = IF Pads(p) THEN a \o b ELSE b
  BY Zenon DEF Span, Pads, L
<1> HIDE DEF a, b
<1> DEFINE A == {a[i] : i \in 1 .. t} \cup {b[i] : i \in 1 .. L}
<1>8. a \in Seq(A) /\ b \in Seq(A)
  BY <1>5, <1>6
<1> HIDE DEF A
<1>9. ASSUME Pads(p)
      PROVE  /\ span \in Seq(A) /\ Len(span) = t + L
             /\ \A i \in 1 .. t : span[i] = a[i]
             /\ \A i \in 1 .. L : span[t + i] = b[i]
  <2>1. span = a \o b
    BY Zenon, <1>7, <1>9
  <2>2. t \in Nat /\ L \in Nat /\ Len(a) = t /\ Len(b) = L
    BY <1>1, <1>2, <1>5, <1>6
  <2>3. span \in Seq(A) /\ Len(span) = t + L
    <3>1. a \o b \in Seq(A)
      BY ONLY SMTT(30), <1>8
    <3>2. Len(a \o b) = Len(a) + Len(b)
      BY ONLY SMTT(30), <1>8
    <3> QED
      BY Zenon, <2>1, <2>2, <3>1, <3>2
  <2>4. \A i \in 1 .. t : span[i] = a[i]
    BY ONLY SMTT(30), <1>8, <2>1, <2>2
  <2>5. ASSUME NEW i \in 1 .. L PROVE span[t + i] = b[i]
    <3>1. t + i \in 1 .. (Len(a) + Len(b)) /\ ~(t + i <= Len(a)) /\ t + i - Len(a) = i
      BY ONLY SMTT(30), <2>2, <2>5
    <3> QED
      BY ONLY SMTT(30), <1>8, <2>1, <2>2, <3>1
  <2> QED
    BY Zenon, <2>3, <2>4, <2>5
<1>10. ASSUME Pads(p)
       PROVE  Len(SubSeq(span, 1, t)) = t /\ \A i \in 1 .. t : SubSeq(span, 1, t)[i] = span[i]
  BY SMTT(30), <1>1, <1>2, <1>9, <1>10
<1>11. Len(span) \in 1 .. Size
  BY SMTT(30), <1>1, <1>2, <1>3, <1>4, <1>6, <1>7, <1>9
<1> QED
  BY Zenon, <1>1, <1>3, <1>4, <1>5, <1>6, <1>7, <1>9, <1>10, <1>11 DEF P, L

\* A span lies in the ring from its position on, and goes on at the start.
LEMMA WriteFacts ==
  ASSUME NEW m, DOMAIN m = 0 .. (Size - 1), NEW p \in Index, NEW span, Len(span) \in 1 .. Size
  PROVE  /\ DOMAIN Write(m, p, span) = 0 .. (Size - 1)
         /\ \A o \in 0 .. (Size - 1) : Offset(p) <= o =>
              Write(m, p, span)[o] =
                IF o - Offset(p) < Len(span) THEN span[o - Offset(p) + 1] ELSE m[o]
         /\ \A o \in 0 .. (Size - 1) : o < Offset(p) =>
              Write(m, p, span)[o] =
                IF o - Offset(p) + Size < Len(span) THEN span[o - Offset(p) + Size + 1] ELSE m[o]
<1> DEFINE P == Offset(p)
<1>1. P \in 0 .. (Size - 1) /\ Size \in Nat \ {0}
  BY Zenon, OffsetRange, RingAssumption
<1>2. /\ DOMAIN Write(m, p, span) = 0 .. (Size - 1)
      /\ \A o \in 0 .. (Size - 1) :
           Write(m, p, span)[o] =
             IF (o - P) % Size < Len(span) THEN span[((o - P) % Size) + 1] ELSE m[o]
  BY Zenon DEF Write
<1> HIDE DEF P
<1>3. ASSUME NEW o \in 0 .. (Size - 1), P <= o PROVE (o - P) % Size = o - P
  <2> DEFINE a == o - P
  <2>1. a \in Int /\ -Size <= a /\ a < 2 * Size /\ 0 <= a /\ a < Size
    BY <1>1, <1>3
  <2> HIDE DEF a
  <2>2. a % Size = a
    BY ZenonT(30), <1>1, <2>1, ModForm
  <2> QED
    BY Zenon, <2>2 DEF a
<1>4. ASSUME NEW o \in 0 .. (Size - 1), o < P PROVE (o - P) % Size = o - P + Size
  <2> DEFINE a == o - P
  <2>1. a \in Int /\ -Size <= a /\ a < 2 * Size /\ a < 0
    BY <1>1, <1>4
  <2> HIDE DEF a
  <2>2. a % Size = a + Size
    BY ZenonT(30), <1>1, <2>1, ModForm
  <2> QED
    BY Zenon, <2>2 DEF a
<1> QED
  BY Zenon, <1>2, <1>3, <1>4 DEF P

Pushed(m, p, rec, padSeq, seq) == Write(m, p, Span(p, rec, padSeq, seq))

\* w is m with the record at offset P; with the pad there and the record at the start.
Straight(m, w, P, rec, seq) ==
    /\ P + Len1 <= Size
    /\ \A o \in 0 .. (Size - 1) :
         w[o] = IF P <= o /\ o < P + Len1 THEN Word(rec, o - P + 1, seq) ELSE m[o]
Wrapped(m, w, P, rec, padSeq, seq) ==
    /\ P + Len1 > Size /\ Len1 <= P
    /\ \A o \in 0 .. (Size - 1) :
         w[o] = IF P <= o THEN Word(Pad, o - P + 1, padSeq)
                ELSE IF o < Len1 THEN Word(rec, o + 1, seq) ELSE m[o]

\* The memory after a push, word by word.
LEMMA PushWrites ==
  ASSUME NEW m, DOMAIN m = 0 .. (Size - 1), NEW p \in Index, Slot(Offset(p)),
         NEW rec, NEW padSeq, NEW seq
  PROVE  /\ ~Pads(p) => Straight(m, Pushed(m, p, rec, padSeq, seq), Offset(p), rec, seq)
         /\ Pads(p) => Wrapped(m, Pushed(m, p, rec, padSeq, seq), Offset(p), rec, padSeq, seq)
<1>0. PICK span, t, P, w :
        /\ span = Span(p, rec, padSeq, seq) /\ t = contiguous_tail(p)
        /\ P = Offset(p) /\ w = Pushed(m, p, rec, padSeq, seq) /\ w = Write(m, p, span)
  BY Zenon DEF Pushed
<1>1. Len1 \in Nat \ {0} /\ Len1 <= Size /\ Size \in Nat
  BY Zenon, SlotFacts, RingAssumption
<1>2. /\ t = Size - P /\ t \in 1 .. Size /\ P \in 0 .. (Size - 1)
      /\ Pads(p) <=> Len1 > t
      /\ Len(span) \in 1 .. Size
      /\ ~Pads(p) => Len(span) = Len1 /\ \A i \in 1 .. Len1 : span[i] = Word(rec, i, seq)
      /\ Pads(p) => /\ Len1 <= P /\ Len(span) = t + Len1
                    /\ \A i \in 1 .. t : span[i] = Word(Pad, i, padSeq)
                    /\ \A i \in 1 .. Len1 : span[t + i] = Word(rec, i, seq)
  BY SMTT(30), <1>0, SpanFacts
<1>3. /\ DOMAIN w = 0 .. (Size - 1)
      /\ \A o \in 0 .. (Size - 1) : P <= o =>
           w[o] = IF o - P < Len(span) THEN span[o - P + 1] ELSE m[o]
      /\ \A o \in 0 .. (Size - 1) : o < P =>
           w[o] = IF o - P + Size < Len(span) THEN span[o - P + Size + 1] ELSE m[o]
  <2>1. Len(span) \in 1 .. Size
    BY Zenon, <1>2
  <2>2. DOMAIN Write(m, p, span) = 0 .. (Size - 1)
    BY Zenon, <2>1, WriteFacts
  <2>3. \A o \in 0 .. (Size - 1) : Offset(p) <= o =>
          Write(m, p, span)[o] =
            IF o - Offset(p) < Len(span) THEN span[o - Offset(p) + 1] ELSE m[o]
    BY Zenon, <2>1, WriteFacts
  <2>4. \A o \in 0 .. (Size - 1) : o < Offset(p) =>
          Write(m, p, span)[o] =
            IF o - Offset(p) + Size < Len(span) THEN span[o - Offset(p) + Size + 1] ELSE m[o]
    BY Zenon, <2>1, WriteFacts
  <2> QED
    BY Zenon, <1>0, <2>2, <2>3, <2>4
<1>4. ASSUME ~Pads(p), NEW o \in 0 .. (Size - 1)
      PROVE  w[o] = IF P <= o /\ o < P + Len1 THEN Word(rec, o - P + 1, seq) ELSE m[o]
  <2>1. CASE P <= o
    <3>1. w[o] = IF o - P < Len(span) THEN span[o - P + 1] ELSE m[o]
      BY Zenon, <1>3, <2>1
    <3>2. Len(span) = Len1 /\ P \in Int
      BY <1>2, <1>4
    <3>3. CASE o < P + Len1
      <4>1. o - P + 1 \in 1 .. Len1 /\ o - P < Len(span)
        BY <1>1, <2>1, <3>2, <3>3
      <4> QED
        BY Zenon, <1>2, <1>4, <2>1, <3>1, <3>3, <4>1
    <3>4. CASE ~(o < P + Len1)
      <4>1. ~(o - P < Len(span))
        BY <1>1, <2>1, <3>2, <3>4
      <4> QED
        BY Zenon, <2>1, <3>1, <3>4, <4>1
    <3> QED
      BY Zenon, <3>3, <3>4
  <2>2. CASE ~(P <= o)
    <3>1. o < P /\ ~(o - P + Size < Len(span))
      BY SMTT(30), <1>1, <1>2, <1>4, <2>2
    <3> QED
      BY Zenon, <1>3, <2>2, <3>1
  <2> QED
    BY Zenon, <2>1, <2>2
<1>5. ASSUME Pads(p), NEW o \in 0 .. (Size - 1)
      PROVE  w[o] = IF P <= o THEN Word(Pad, o - P + 1, padSeq)
                    ELSE IF o < Len1 THEN Word(rec, o + 1, seq) ELSE m[o]
  <2>1. CASE P <= o
    <3>1. o - P < Len(span) /\ o - P + 1 \in 1 .. t
      BY <1>1, <1>2, <1>5, <2>1
    <3> QED
      BY Zenon, <1>2, <1>3, <1>5, <2>1, <3>1
  <2>2. CASE o < P /\ o < Len1
    <3>1. o < P /\ o - P + Size < Len(span) /\ o - P + Size + 1 = t + (o + 1)
          /\ o + 1 \in 1 .. Len1
      <4>1. t = Size - P /\ t \in 1 .. Size /\ P \in 0 .. (Size - 1) /\ Len(span) = t + Len1
        BY Zenon, <1>2, <1>5
      <4> QED
        BY ONLY SMTT(30), <1>1, <1>5, <2>2, <4>1
    <3>2. w[o] = span[t + (o + 1)]
      <4>1. w[o] = IF o - P + Size < Len(span) THEN span[o - P + Size + 1] ELSE m[o]
        BY Zenon, <1>3, <3>1
      <4> QED
        BY Zenon, <3>1, <4>1
    <3>3. w[o] = Word(rec, o + 1, seq)
      BY Zenon, <1>2, <1>5, <3>1, <3>2
    <3> QED
      BY <1>2, <2>2, <3>3
  <2>3. CASE o < P /\ ~(o < Len1)
    <3>1. o < P /\ ~(o - P + Size < Len(span)) /\ ~(P <= o)
      BY <1>1, <1>2, <1>5, <2>3
    <3> QED
      BY Zenon, <1>3, <2>3, <3>1
  <2> QED
    BY <1>2, <2>1, <2>2, <2>3
<1>6. (~Pads(p) => P + Len1 <= Size) /\ (Pads(p) => P + Len1 > Size)
  BY <1>1, <1>2
<1> QED
  BY Zenon, <1>0, <1>2, <1>4, <1>5, <1>6 DEF Straight, Wrapped

\* A push leaves every beginning of a record one, of this record or of another.
LEMMA PushLays ==
  ASSUME NEW m, Heads(m), NEW p \in Index, Slot(Offset(p)), NEW rec \in Records,
         NEW padSeq, NEW seq, NEW w, w = Pushed(m, p, rec, padSeq, seq)
  PROVE  /\ Heads(w)
         /\ \A o \in 0 .. (Size - 1) : Begins(m, o) => Begins(w, o)
         /\ Begins(w, IF Pads(p) THEN 0 ELSE Offset(p))
<1>0. PICK P : P = Offset(p)
  OBVIOUS
<1>1. P \in 0 .. (Size - 1) /\ Size \in Nat \ {0} /\ Len1 \in Nat \ {0} /\ Len1 <= Size
  BY Zenon, <1>0, OffsetRange, SlotFacts, RingAssumption
<1>2. DOMAIN m = 0 .. (Size - 1) /\ \A o \in 0 .. (Size - 1) : Begins(m, o) => Slot(o) /\ o + Len1 <= Size
  BY Zenon DEF Heads
<1>3. DOMAIN w = 0 .. (Size - 1)
  BY Zenon, <1>2 DEF Pushed, Write
<1>4. ASSUME ~Pads(p)
      PROVE  /\ P + Len1 <= Size
             /\ \A o \in 0 .. (Size - 1) :
                  w[o] = IF P <= o /\ o < P + Len1 THEN Word(rec, o - P + 1, seq) ELSE m[o]
  <2>1. Straight(m, w, P, rec, seq)
    BY Zenon, <1>0, <1>2, <1>4, PushWrites
  <2> QED
    BY Zenon, <2>1 DEF Straight
<1>5. ASSUME Pads(p)
      PROVE  /\ P + Len1 > Size /\ Len1 <= P
             /\ \A o \in 0 .. (Size - 1) :
                  w[o] = IF P <= o THEN Word(Pad, o - P + 1, padSeq)
                         ELSE IF o < Len1 THEN Word(rec, o + 1, seq) ELSE m[o]
  <2>1. Wrapped(m, w, P, rec, padSeq, seq)
    BY Zenon, <1>0, <1>2, <1>5, PushWrites
  <2> QED
    BY Zenon, <2>1 DEF Wrapped
<1>7. \A o, n \in 0 .. (Size - 1) : Slot(o) /\ Slot(n) /\ o < n => o + Len1 <= n
  BY <1>1, SlotFacts
<1>8. Slot(0) /\ Slot(P)
  BY Zenon, <1>0, SlotFacts
<1>9. CASE ~Pads(p)
  <2>1. ASSUME NEW o \in 0 .. (Size - 1), P <= o, o < P + Len1
        PROVE  w[o].rec = rec /\ w[o].at = o - P + 1
    <3>1. w[o] = Word(rec, o - P + 1, seq)
      BY Zenon, <1>4, <1>9, <2>1
    <3> QED
      BY <3>1 DEF Word
  <2>2. ASSUME NEW o \in 0 .. (Size - 1), ~(P <= o /\ o < P + Len1) PROVE w[o] = m[o]
    BY Zenon, <1>4, <1>9, <2>2
  <2>3. Begins(w, P)
    <3>1. P <= P /\ P < P + Len1 /\ P - P + 1 = 1
      BY <1>1
    <3> QED
      BY Zenon, <1>1, <2>1, <3>1 DEF Begins
  <2>4. ASSUME NEW o \in 0 .. (Size - 1), Begins(w, o) PROVE Slot(o) /\ o + Len1 <= Size
    <3>1. CASE P <= o /\ o < P + Len1
      <4>1. o - P + 1 = 1
        BY Zenon, <2>1, <2>4, <3>1 DEF Begins
      <4>2. o = P
        BY <1>1, <4>1
      <4> QED
        BY Zenon, <1>4, <1>8, <1>9, <4>2
    <3>2. CASE ~(P <= o /\ o < P + Len1)
      BY Zenon, <1>2, <2>2, <2>4, <3>2 DEF Begins
    <3> QED
      BY Zenon, <3>1, <3>2
  <2>5. ASSUME NEW o \in 0 .. (Size - 1), Begins(m, o) PROVE Begins(w, o)
    <3>1. CASE P <= o /\ o < P + Len1
      <4>1. o = P
        <5>1. P < o => P + Len1 <= o
          BY Zenon, <1>1, <1>2, <1>7, <1>8, <2>5
        <5> QED
          BY <1>1, <3>1, <5>1
      <4> QED
        BY Zenon, <2>3, <4>1
    <3>2. CASE ~(P <= o /\ o < P + Len1)
      BY Zenon, <2>2, <2>5, <3>2 DEF Begins
    <3> QED
      BY Zenon, <3>1, <3>2
  <2> QED
    BY Zenon, <1>0, <1>3, <1>9, <2>3, <2>4, <2>5 DEF Heads
<1>10. CASE Pads(p)
  <2>1. ASSUME NEW o \in 0 .. (Size - 1), P <= o PROVE w[o].rec = Pad
    <3>1. w[o] = Word(Pad, o - P + 1, padSeq)
      BY Zenon, <1>5, <1>10, <2>1
    <3> QED
      BY <3>1 DEF Word
  <2>2. ASSUME NEW o \in 0 .. (Size - 1), ~(P <= o), o < Len1
        PROVE  w[o].rec = rec /\ w[o].at = o + 1
    <3>1. w[o] = Word(rec, o + 1, seq)
      BY Zenon, <1>5, <1>10, <2>2
    <3> QED
      BY <3>1 DEF Word
  <2>3. ASSUME NEW o \in 0 .. (Size - 1), ~(P <= o), ~(o < Len1) PROVE w[o] = m[o]
    BY Zenon, <1>5, <1>10, <2>3
  <2>4. Begins(w, 0) /\ 0 \in 0 .. (Size - 1)
    <3>1. 0 \in 0 .. (Size - 1) /\ ~(P <= 0) /\ 0 < Len1 /\ 0 + 1 = 1
      BY <1>1, <1>5, <1>10
    <3> QED
      BY Zenon, <2>2, <3>1 DEF Begins
  <2>5. ASSUME NEW o \in 0 .. (Size - 1), Begins(w, o) PROVE Slot(o) /\ o + Len1 <= Size
    <3>1. CASE P <= o
      BY Zenon, <2>1, <2>5, <3>1, RingIAssumption DEF Begins
    <3>2. CASE ~(P <= o) /\ o < Len1
      <4>1. o + 1 = 1
        BY Zenon, <2>2, <2>5, <3>2 DEF Begins
      <4>2. o = 0 /\ 0 + Len1 <= Size
        BY <1>1, <4>1
      <4> QED
        BY Zenon, <1>8, <4>2
    <3>3. CASE ~(P <= o) /\ ~(o < Len1)
      BY Zenon, <1>2, <2>3, <2>5, <3>3 DEF Begins
    <3> QED
      BY Zenon, <3>1, <3>2, <3>3
  <2>6. ASSUME NEW o \in 0 .. (Size - 1), Begins(m, o) PROVE Begins(w, o)
    <3>0. Slot(o) /\ o + Len1 <= Size
      BY Zenon, <1>2, <2>6
    <3>1. ~(P <= o)
      BY <1>1, <1>5, <1>10, <3>0
    <3>2. CASE o < Len1
      <4>1. 0 < o => 0 + Len1 <= o
        BY Zenon, <1>7, <1>8, <2>4, <3>0
      <4>2. o = 0
        BY <1>1, <3>2, <4>1
      <4> QED
        BY Zenon, <2>4, <4>2
    <3>3. CASE ~(o < Len1)
      BY Zenon, <2>3, <2>6, <3>1, <3>3 DEF Begins
    <3> QED
      BY Zenon, <3>2, <3>3
  <2> QED
    BY Zenon, <1>3, <1>10, <2>4, <2>5, <2>6 DEF Heads
<1> QED
  BY Zenon, <1>9, <1>10

\* The index a push publishes is a slot again, and there are records up to it.
LEMMA PushReaches ==
  ASSUME NEW m, NEW p, Reached(m, p), Begins(m, IF Pads(p) THEN 0 ELSE Offset(p)),
         NEW rec, NEW padSeq, NEW seq, NEW q, q = wrapping_add(p, Len(Span(p, rec, padSeq, seq)))
  PROVE  Reached(m, q)
<1>0. PICK P, t, n : P = Offset(p) /\ t = contiguous_tail(p) /\ n = Len(Span(p, rec, padSeq, seq))
  OBVIOUS
<1>1. p \in Index /\ Slot(P) /\ \A o \in 0 .. (P - 1) : Slot(o) => Begins(m, o)
  BY Zenon, <1>0 DEF Reached, Filled
<1>2. P \in 0 .. (Size - 1) /\ Size \in Nat \ {0} /\ Len1 \in Nat \ {0} /\ Len1 <= Size /\ t = Size - P
  BY Zenon, <1>0, <1>1, OffsetRange, SlotFacts, RingAssumption DEF contiguous_tail
<1>3. /\ Pads(p) <=> Len1 > t
      /\ n \in 1 .. Size
      /\ ~Pads(p) => n = Len1
      /\ Pads(p) => n = t + Len1 /\ Len1 <= P
  BY SMTT(30), <1>0, <1>1, SpanFacts
<1>4. q \in Index /\ Offset(q) = (p + n) % Size
  <2>1. n \in 0 .. Size
    BY <1>2, <1>3
  <2> QED
    BY Zenon, <1>0, <1>1, <2>1, AddForm, OffsetOfWrap
<1>5. CASE ~Pads(p)
  <2>1. n = Len1 /\ n \in Nat /\ P + n <= Size
    BY <1>2, <1>3, <1>5
  <2>2. Offset(q) = IF P + n = Size THEN 0 ELSE P + n
    BY Zenon, <1>0, <1>1, <2>1, OffsetAdd
  <2>3. Slot(0) /\ Slot(P + Len1)
    BY <1>1, <1>2, SlotFacts
  <2>4. ASSUME NEW o \in 0 .. (P + Len1 - 1), Slot(o) PROVE Begins(m, o)
    <3>1. P < o => P + Len1 <= o
      BY <1>1, <1>2, <2>4, SlotFacts
    <3>2. o \in 0 .. (P - 1) \/ o = P
      BY <1>2, <3>1
    <3> QED
      BY Zenon, <1>0, <1>1, <1>5, <2>4, <3>2
  <2>5. \A o \in 0 .. (Offset(q) - 1) : o \in 0 .. (P + Len1 - 1)
    BY <1>2, <2>1, <2>2
  <2>6. Slot(Offset(q))
    BY Zenon, <2>1, <2>2, <2>3
  <2> QED
    BY Zenon, <1>4, <2>4, <2>5, <2>6 DEF Reached, Filled
<1>6. CASE Pads(p)
  <2>1. n = t + Len1 /\ Len1 <= P
    BY Zenon, <1>3, <1>6
  <2>2. Offset(q) = Len1
    <3>1. p \in Int /\ p = Size * (p \div Size) + P /\ p \div Size \in Int
      BY <1>0, <1>1, RingAssumption, IndexModFacts DEF Index, Offset
    <3>2. PICK k \in Int : k = p \div Size
      BY Zenon, <3>1
    <3>3. p + n = (k + 1) * Size + Len1 /\ Len1 \in 0 .. (Size - 1) /\ p + n \in Int
      BY <1>2, <2>1, <3>1, <3>2
    <3>4. k + 1 \in Int
      OBVIOUS
    <3>5. (p + n) % Size = Len1
      BY ONLY SMTT(30), <1>2, <3>3, <3>4, ModUnique
    <3> QED
      BY Zenon, <1>4, <3>5
  <2>3. ASSUME NEW o \in 0 .. (Len1 - 1), Slot(o) PROVE Begins(m, o)
    <3>1. 0 < o => 0 + Len1 <= o
      BY <1>2, <2>3, SlotFacts
    <3>2. o = 0
      BY <1>2, <3>1
    <3> QED
      BY Zenon, <1>6, <3>2
  <2>4. Slot(Len1)
    BY Zenon, SlotFacts
  <2> QED
    BY Zenon, <1>4, <2>2, <2>3, <2>4 DEF Reached, Filled
<1> QED
  BY Zenon, <1>5, <1>6

\* The pad of a push that fails is where no record can begin.
LEMMA PadWrites ==
  ASSUME NEW m, Heads(m), NEW p \in Index, Slot(Offset(p)), Pads(p), NEW rec, NEW padSeq, NEW seq,
         NEW w, w = Write(m, p, SubSeq(Span(p, rec, padSeq, seq), 1, contiguous_tail(p)))
  PROVE  /\ Heads(w)
         /\ \A o \in 0 .. (Size - 1) : Begins(m, o) => Begins(w, o)
         /\ \A o \in 0 .. (Offset(p) - 1) : w[o] = m[o]
<1>0. PICK span, t, P, pad :
        /\ span = Span(p, rec, padSeq, seq) /\ t = contiguous_tail(p) /\ P = Offset(p)
        /\ pad = SubSeq(span, 1, t)
  BY ZenonT(30)
<1>1. Len1 \in Nat \ {0} /\ Len1 <= Size /\ Size \in Nat
  BY Zenon, SlotFacts, RingAssumption
<1>2. /\ t = Size - P /\ t \in 1 .. Size /\ P \in 0 .. (Size - 1) /\ Len1 > t
      /\ Len(pad) = t /\ \A i \in 1 .. t : pad[i] = Word(Pad, i, padSeq)
  BY SMTT(30), <1>0, SpanFacts
<1>3. /\ DOMAIN m = 0 .. (Size - 1)
      /\ \A o \in 0 .. (Size - 1) : Begins(m, o) => Slot(o) /\ o + Len1 <= Size
  BY Zenon DEF Heads
<1>4. /\ DOMAIN w = 0 .. (Size - 1)
      /\ \A o \in 0 .. (Size - 1) : P <= o => w[o] = IF o - P < Len(pad) THEN pad[o - P + 1] ELSE m[o]
      /\ \A o \in 0 .. (Size - 1) : o < P =>
           w[o] = IF o - P + Size < Len(pad) THEN pad[o - P + Size + 1] ELSE m[o]
  <2>1. Len(pad) \in 1 .. Size /\ w = Write(m, p, pad)
    BY Zenon, <1>0, <1>2
  <2>2. DOMAIN Write(m, p, pad) = 0 .. (Size - 1)
    BY Zenon, <1>3, <2>1, WriteFacts
  <2>3. \A o \in 0 .. (Size - 1) : Offset(p) <= o =>
          Write(m, p, pad)[o] = IF o - Offset(p) < Len(pad) THEN pad[o - Offset(p) + 1] ELSE m[o]
    BY ZenonT(30), <1>3, <2>1, WriteFacts
  <2>4. \A o \in 0 .. (Size - 1) : o < Offset(p) =>
          Write(m, p, pad)[o] =
            IF o - Offset(p) + Size < Len(pad) THEN pad[o - Offset(p) + Size + 1] ELSE m[o]
    BY ZenonT(30), <1>3, <2>1, WriteFacts
  <2> QED
    BY Zenon, <1>0, <2>1, <2>2, <2>3, <2>4
<1>5. \A o \in 0 .. (Size - 1) : o < P => w[o] = m[o]
  BY SMTT(30), <1>1, <1>2, <1>4
<1>6. \A o \in 0 .. (Size - 1) : P <= o => ~Begins(w, o)
  <2> SUFFICES ASSUME NEW o \in 0 .. (Size - 1), P <= o PROVE ~Begins(w, o)
    OBVIOUS
  <2>1. o - P < Len(pad) /\ o - P + 1 \in 1 .. t
    BY <1>1, <1>2
  <2>2. w[o] = Word(Pad, o - P + 1, padSeq)
    BY Zenon, <1>2, <1>4, <2>1
  <2> QED
    BY <2>2, RingIAssumption DEF Word, Begins
<1>7. \A o \in 0 .. (Size - 1) : P <= o => ~Begins(m, o)
  <2> SUFFICES ASSUME NEW o \in 0 .. (Size - 1), P <= o, Begins(m, o) PROVE FALSE
    OBVIOUS
  <2>1. Slot(o) /\ o + Len1 <= Size
    BY Zenon, <1>3
  <2>2. P < o => P + Len1 <= o
    BY <1>0, <1>2, <2>1, SlotFacts
  <2> QED
    BY <1>1, <1>2, <2>1, <2>2
<1>8. \A o \in 0 .. (Size - 1) : Begins(w, o) <=> Begins(m, o)
  <2> SUFFICES ASSUME NEW o \in 0 .. (Size - 1) PROVE Begins(w, o) <=> Begins(m, o)
    OBVIOUS
  <2>1. P <= o \/ o < P
    BY <1>2
  <2> QED
    BY Zenon, <1>5, <1>6, <1>7, <2>1 DEF Begins
<1>9. \A o \in 0 .. (P - 1) : o \in 0 .. (Size - 1) /\ o < P
  BY <1>1, <1>2
<1> QED
  BY Zenon, <1>0, <1>3, <1>4, <1>5, <1>8, <1>9 DEF Heads

AgreeBelow(n, m, P) == \A o \in 0 .. (P - 1) : n[o] = m[o]

\* The next push over such a pad leaves nothing of it.
LEMMA HealsPad ==
  ASSUME NEW m, DOMAIN m = 0 .. (Size - 1), NEW n, DOMAIN n = 0 .. (Size - 1),
         NEW p \in Index, Slot(Offset(p)), Pads(p), AgreeBelow(n, m, Offset(p)),
         NEW rec, NEW padSeq, NEW seq
  PROVE  Pushed(n, p, rec, padSeq, seq) = Pushed(m, p, rec, padSeq, seq)
<1>0. PICK v, w, P : /\ v = Pushed(n, p, rec, padSeq, seq) /\ w = Pushed(m, p, rec, padSeq, seq)
                     /\ P = Offset(p)
  OBVIOUS
<1>1. Wrapped(n, v, P, rec, padSeq, seq) /\ Wrapped(m, w, P, rec, padSeq, seq)
  BY Zenon, <1>0, PushWrites
<1>2. P \in 0 .. (Size - 1)
  BY Zenon, <1>0, OffsetRange
<1>3. ASSUME NEW o \in 0 .. (Size - 1) PROVE v[o] = w[o]
  <2>1. P <= o \/ o \in 0 .. (P - 1)
    BY <1>2
  <2>2. CASE P <= o
    BY Zenon, <1>1, <2>2 DEF Wrapped
  <2>3. CASE o \in 0 .. (P - 1)
    <3>1. n[o] = m[o]
      BY Zenon, <1>0, <2>3 DEF AgreeBelow
    <3> QED
      BY Zenon, <1>1, <3>1 DEF Wrapped
  <2> QED
    BY Zenon, <2>1, <2>2, <2>3
<1>4. v = [o \in 0 .. (Size - 1) |-> v[o]] /\ w = [o \in 0 .. (Size - 1) |-> w[o]]
  BY Zenon, <1>0 DEF Pushed, Write
<1> QED
  BY Zenon, <1>0, <1>3, <1>4

-----------------------------------------------------------------------------
(***************************************************************************)
(* Laid, step by step.                                                     *)
(***************************************************************************)
\* A write that leaves every beginning of a record one disturbs nothing.
LEMMA LaidKept ==
  ASSUME NEW m, NEW p, NEW c, NEW pc, NEW r, Laid(m, p, c, pc, r),
         NEW w, Heads(w), \A o \in 0 .. (Size - 1) : Begins(m, o) => Begins(w, o)
  PROVE  Laid(w, p, c, pc, r)
<1>1. ASSUME NEW q, Reached(m, q) PROVE Reached(w, q)
  <2>1. q \in Index /\ Slot(Offset(q)) /\ \A o \in 0 .. (Offset(q) - 1) : Slot(o) => Begins(m, o)
    BY Zenon, <1>1 DEF Reached, Filled
  <2>2. Offset(q) \in 0 .. (Size - 1) /\ Size \in Nat
    BY Zenon, <2>1, OffsetRange, RingAssumption
  <2>3. \A o \in 0 .. (Offset(q) - 1) : o \in 0 .. (Size - 1)
    BY <2>2
  <2> QED
    BY Zenon, <2>1, <2>3 DEF Reached, Filled
<1>2. pc = "publish" => Begins(w, IF Pads(r.prod) THEN 0 ELSE Offset(r.prod))
  <2> SUFFICES ASSUME pc = "publish"
               PROVE  Begins(w, IF Pads(r.prod) THEN 0 ELSE Offset(r.prod))
    OBVIOUS
  <2>1. r.prod \in Index /\ Begins(m, IF Pads(r.prod) THEN 0 ELSE Offset(r.prod))
    BY Zenon DEF Laid, Reached
  <2>2. 0 \in 0 .. (Size - 1) /\ Offset(r.prod) \in 0 .. (Size - 1)
    BY <2>1, OffsetRange, RingAssumption
  <2> QED
    BY Zenon, <2>1, <2>2
<1> QED
  BY Zenon, <1>1, <1>2 DEF Laid

\* The host pushes a record.
LEMMA LaidPush ==
  ASSUME NEW m, NEW p, NEW c, NEW pc, NEW r, Laid(m, p, c, pc, r), NEW rec \in Records,
         NEW padSeq, NEW seq, NEW w, w = Pushed(m, p, rec, padSeq, seq),
         NEW q, q = wrapping_add(p, Len(Span(p, rec, padSeq, seq)))
  PROVE  Laid(w, q, c, pc, r)
<1>1. Heads(m) /\ Reached(m, p) /\ p \in Index /\ Slot(Offset(p))
  BY Zenon DEF Laid, Reached
<1>2. Heads(w)
  BY <1>1, PushLays
<1>3. \A o \in 0 .. (Size - 1) : Begins(m, o) => Begins(w, o)
  BY <1>1, PushLays
<1>4. Begins(w, IF Pads(p) THEN 0 ELSE Offset(p))
  BY <1>1, PushLays
<1>5. Laid(w, p, c, pc, r)
  BY Zenon, <1>2, <1>3, LaidKept
<1>6. Reached(w, q)
  BY Zenon, <1>4, <1>5, PushReaches DEF Laid
<1> QED
  BY Zenon, <1>5, <1>6 DEF Laid

\* The push of the host fails after its pad.
LEMMA LaidFails ==
  ASSUME NEW m, NEW p, NEW c, NEW pc, NEW r, Laid(m, p, c, pc, r), Pads(p), NEW rec,
         NEW padSeq, NEW seq,
         NEW w, w = Write(m, p, SubSeq(Span(p, rec, padSeq, seq), 1, contiguous_tail(p)))
  PROVE  Laid(w, p, c, pc, r) /\ \A o \in 0 .. (Offset(p) - 1) : w[o] = m[o]
<1>1. Heads(m) /\ p \in Index /\ Slot(Offset(p))
  BY Zenon DEF Laid, Reached
<1>2. Heads(w)
  BY <1>1, PadWrites
<1>3. \A o \in 0 .. (Size - 1) : Begins(m, o) => Begins(w, o)
  BY <1>1, PadWrites
<1>4. \A o \in 0 .. (Offset(p) - 1) : w[o] = m[o]
  BY <1>1, PadWrites
<1>5. Laid(w, p, c, pc, r)
  BY Zenon, <1>2, <1>3, LaidKept
<1> QED
  BY Zenon, <1>4, <1>5

\* The relay writes the record it has a place for.
LEMMA LaidRelay ==
  ASSUME NEW m, NEW p, NEW c, NEW r, Laid(m, p, c, "write", r),
         NEW padSeq, NEW seq, NEW w, w = Pushed(m, r.prod, r.rec, padSeq, seq)
  PROVE  Laid(w, p, c, "publish", r)
<1>1. Heads(m) /\ Reached(m, r.prod) /\ r.prod \in Index /\ Slot(Offset(r.prod)) /\ r.rec \in Records
  BY Zenon DEF Laid, Reached
<1>2. Heads(w)
  BY <1>1, PushLays
<1>3. \A o \in 0 .. (Size - 1) : Begins(m, o) => Begins(w, o)
  BY <1>1, PushLays
<1>4. Begins(w, IF Pads(r.prod) THEN 0 ELSE Offset(r.prod))
  BY <1>1, PushLays
<1>5. Laid(w, p, c, "write", r)
  BY Zenon, <1>2, <1>3, LaidKept
<1> QED
  BY Zenon, <1>4, <1>5 DEF Laid

\* The relay publishes its index, wherever the host's has gone meanwhile.
LEMMA LaidPublish ==
  ASSUME NEW m, NEW p, NEW c, NEW r, Laid(m, p, c, "publish", r), NEW padSeq, NEW seq,
         NEW q, q = wrapping_add(r.prod, Len(Span(r.prod, r.rec, padSeq, seq))), NEW r1
  PROVE  Laid(m, q, c, "idle", r1)
<1>1. Reached(m, r.prod) /\ Begins(m, IF Pads(r.prod) THEN 0 ELSE Offset(r.prod))
  BY Zenon DEF Laid
<1>2. Reached(m, q)
  BY Zenon, <1>1, PushReaches
<1> QED
  BY Zenon, <1>2 DEF Laid

\* A poll finds the beginning of a record, so it ends at a slot.
LEMMA LaidPoll ==
  ASSUME NEW m, NEW p, NEW c, NEW pc, NEW r, Laid(m, p, c, pc, r),
         NEW b, b \in {c, wrapping_add(c, contiguous_tail(c))}, Begins(m, Offset(b)),
         NEW d, d = wrapping_add(b, Len1)
  PROVE  /\ Laid(m, p, d, pc, r) /\ b \in Index
         /\ Offset(b) + Len1 <= Size /\ Offset(d) = IF Offset(b) + Len1 = Size THEN 0 ELSE Offset(b) + Len1
<1>1. Len1 \in Nat \ {0} /\ Len1 <= Size /\ Size \in Nat /\ Slot(0)
  BY Zenon, SlotFacts, RingAssumption
<1>2. c \in Index /\ Heads(m)
  BY Zenon DEF Laid
<1>3. b \in Index
  <2>1. contiguous_tail(c) \in 0 .. Size
    BY <1>1, <1>2, OffsetRange
  <2>2. wrapping_add(c, contiguous_tail(c)) \in Index
    BY Zenon, <1>2, <2>1, AddForm
  <2> QED
    BY Zenon, <1>2, <2>2
<1>4. Offset(b) \in 0 .. (Size - 1)
  BY Zenon, <1>3, OffsetRange
<1>5. Slot(Offset(b)) /\ Offset(b) + Len1 <= Size
  BY Zenon, <1>2, <1>4 DEF Heads
<1>6. Offset(b) \in Nat /\ Len1 \in 0 .. Size
  BY <1>1, <1>4
<1>7. Slot(Offset(b) + Len1)
  BY Zenon, <1>5, <1>6, SlotFacts
<1>8. Offset(d) = IF Offset(b) + Len1 = Size THEN 0 ELSE Offset(b) + Len1
  BY Zenon, <1>1, <1>3, <1>5, OffsetAdd
<1>9. d \in Index
  BY Zenon, <1>3, <1>6, AddForm
<1>10. Slot(Offset(d))
  BY Zenon, <1>1, <1>7, <1>8
<1> QED
  BY Zenon, <1>3, <1>5, <1>8, <1>9, <1>10 DEF Laid

-----------------------------------------------------------------------------
(***************************************************************************)
(* TInv, step by step.                                                     *)
(***************************************************************************)
\* A new log has nothing to serve.
LEMMA NewLogT == CaughtUp(NewLog(<<>>))
<1>1. PICK l : l = NewLog(<<>>)
  OBVIOUS
<1>2. l = [log |-> <<>>, cursor |-> 0, divergences |-> <<>>]
  BY Zenon, <1>1 DEF NewLog
<1>3. /\ DOMAIN l = {"log", "cursor", "divergences"}
      /\ l.log = <<>> /\ l.cursor = 0 /\ l.divergences = <<>>
  BY Zenon, <1>2
<1>4. \A S : <<>> \in Seq(S)
  OBVIOUS
<1>5. Len(<<>>) = 0
  OBVIOUS
<1> QED
  BY Zenon, <1>1, <1>3, <1>4, <1>5 DEF CaughtUp

\* Two channels at rest: the ring is empty and the twin has the same memory.
LEMMA InitTInv == RInit => TInv
<1> SUFFICES ASSUME RInit PROVE TInv
  OBVIOUS
<1>1. /\ mem = [o \in 0 .. (Size - 1) |-> [rec |-> Pad, at |-> 0, seq |-> 0]]
      /\ prod = 0 /\ cons = 0 /\ rpc = "idle" /\ snap = <<>> /\ wcons = 0
      /\ twin = [mem |-> mem, prod |-> 0, wcons |-> 0, log |-> NewLog(<<>>), answer |-> 0, value |-> 0]
  BY Zenon DEF RInit, Init
<1>2. Size \in Nat \ {0} /\ 0 \in Index /\ Offset(0) = 0
  BY RingAssumption, IndexModFacts DEF Index, Offset
<1>3. Heads(mem)
  <2>1. \A o \in 0 .. (Size - 1) : mem[o].rec = Pad
    BY Zenon, <1>1
  <2>2. DOMAIN mem = 0 .. (Size - 1)
    BY Zenon, <1>1
  <2> QED
    BY Zenon, <2>1, <2>2, RingIAssumption DEF Heads, Begins
<1>4. Slot(Offset(0))
  BY Zenon, <1>2, SlotFacts
<1>5. Filled(mem, Offset(0))
  <2>1. \A o \in 0 .. (0 - 1) : FALSE
    BY SMTT(30)
  <2> QED
    BY Zenon, <1>2, <2>1 DEF Filled
<1>6. Laid(mem, prod, cons, rpc, relay)
  BY ZenonT(30), <1>1, <1>2, <1>3, <1>4, <1>5 DEF Laid, Reached
<1>7. Rebuilt
  BY Zenon, <1>1, <1>3 DEF Rebuilt, Heads
<1>8. CaughtUp(twin.log)
  BY Zenon, <1>1, NewLogT
<1> QED
  BY Zenon, <1>1, <1>6, <1>7, <1>8 DEF TInv

\* A push is put back where it was: its bytes end at the index it published.
LEMMA PutBack ==
  ASSUME NEW t, DOMAIN t = {"mem", "prod", "wcons", "log", "answer", "value"},
         NEW p \in Index, Slot(Offset(p)), NEW rec, NEW padSeq, NEW seq,
         NEW span, span = Span(p, rec, padSeq, seq), NEW q, q = wrapping_add(p, Len(span)),
         NEW u, u = apply_sink_op(t, ring_push(span, q))
  PROVE  /\ DOMAIN u = {"mem", "prod", "wcons", "log", "answer", "value"}
         /\ u.mem = Pushed(t.mem, p, rec, padSeq, seq) /\ u.prod = q
         /\ u.wcons = t.wcons /\ u.log = t.log /\ u.answer = t.answer /\ u.value = t.value
<1>1. Len(span) \in 0 .. Size
  <2>1. Len(span) \in 1 .. Size
    BY ZenonT(30), SpanFacts
  <2> QED
    BY SMTT(30), <2>1, RingAssumption
<1>2. wrapping_sub(q, Len(span)) = p
  BY Zenon, <1>1, SubAdd
<1>3. PICK op : op = ring_push(span, q)
  OBVIOUS
<1>4. op.kind = "RingPush" /\ op.bytes = span /\ op.new_prod = q
  BY Zenon, <1>3 DEF ring_push
<1>5. u = [t EXCEPT !.mem = Write(@, wrapping_sub(op.new_prod, Len(op.bytes)), op.bytes),
                    !.prod = op.new_prod]
  BY <1>3, <1>4 DEF apply_sink_op
<1>6. u = [t EXCEPT !.mem = Write(t.mem, p, span), !.prod = q]
  BY <1>2, <1>4, <1>5
<1>7. Pushed(t.mem, p, rec, padSeq, seq) = Write(t.mem, p, span)
  BY Zenon DEF Pushed
<1> QED
  BY Zenon, <1>6, <1>7

\* The same push makes the two memories equal, whichever way they differed.
LEMMA PushAgrees ==
  ASSUME TInv, ~botched, NEW rec, NEW padSeq, NEW seq
  PROVE  Pushed(twin.mem, prod, rec, padSeq, seq) = Pushed(mem, prod, rec, padSeq, seq)
<1>1. prod \in Index /\ Slot(Offset(prod)) /\ DOMAIN mem = 0 .. (Size - 1) /\ DOMAIN twin.mem = 0 .. (Size - 1)
  BY Zenon DEF TInv, Laid, Reached, Heads, Rebuilt
<1>2. CASE twin.mem = mem
  BY Zenon, <1>2
<1>3. CASE Stray
  <2>1. Pads(prod) /\ AgreeBelow(twin.mem, mem, Offset(prod))
    BY Zenon, <1>3 DEF Stray, AgreeBelow
  <2> QED
    BY SMTT(30), <1>1, <2>1, HealsPad
<1> QED
  BY Zenon, <1>2, <1>3 DEF TInv, Rebuilt

\* push_record, reported as one span.
LEMMA HostPushT ==
  ASSUME TInv, NEW rec \in Records, HostPushes(rec)
  PROVE  TInv'
<1>0. PICK a, b : a = next_seq_i /\ b = IF bytes_needed(prod, Len1) > Len1 THEN next_seq_i + 1 ELSE next_seq_i
  OBVIOUS
<1> DEFINE span == Span(prod, rec, a, b)
<1>1. /\ mem' = Write(mem, prod, span) /\ prod' = wrapping_add(prod, Len(span))
      /\ twin' = apply_sink_op(twin, ring_push(span, prod'))
      /\ UNCHANGED <<cons, rpc, relay, wcons, snap, botched>>
  BY Zenon, <1>0 DEF HostPushes, HostPush, HostSpan, wvars, svars
<1>2. /\ Laid(mem, prod, cons, rpc, relay) /\ prod \in Index /\ Slot(Offset(prod))
      /\ DOMAIN twin = {"mem", "prod", "wcons", "log", "answer", "value"}
      /\ twin.wcons = wcons /\ wcons \in Nat /\ twin.answer = twin.value /\ CaughtUp(twin.log)
      /\ DOMAIN twin.mem = 0 .. (Size - 1)
  BY Zenon DEF TInv, Laid, Reached, Rebuilt
<1>3. mem' = Pushed(mem, prod, rec, a, b)
  BY Zenon, <1>1 DEF Pushed
<1>4. /\ DOMAIN twin' = {"mem", "prod", "wcons", "log", "answer", "value"}
      /\ twin'.mem = Pushed(twin.mem, prod, rec, a, b) /\ twin'.prod = prod'
      /\ twin'.wcons = twin.wcons /\ twin'.log = twin.log
      /\ twin'.answer = twin.answer /\ twin'.value = twin.value
  <2>1. PICK t, p, sp, q, u : t = twin /\ p = prod /\ sp = span /\ q = prod' /\ u = twin'
    BY Zenon
  <2>2. /\ DOMAIN t = {"mem", "prod", "wcons", "log", "answer", "value"}
        /\ p \in Index /\ Slot(Offset(p)) /\ sp = Span(p, rec, a, b)
        /\ q = wrapping_add(p, Len(sp)) /\ u = apply_sink_op(t, ring_push(sp, q))
    BY Zenon, <1>1, <1>2, <2>1
  <2>3. /\ DOMAIN u = {"mem", "prod", "wcons", "log", "answer", "value"}
        /\ u.mem = Pushed(t.mem, p, rec, a, b) /\ u.prod = q
        /\ u.wcons = t.wcons /\ u.log = t.log /\ u.answer = t.answer /\ u.value = t.value
    BY ONLY SMTT(30), <2>2, PutBack
  <2> QED
    BY Zenon, <2>1, <2>3
<1>5. Laid(mem, prod, cons, rpc, relay)'
  <2>1. Laid(mem', prod', cons, rpc, relay)
    BY Zenon, <1>1, <1>2, <1>3, LaidPush
  <2> QED
    BY Zenon, <1>1, <2>1
<1>6. DOMAIN twin'.mem = 0 .. (Size - 1)
  BY Zenon, <1>2, <1>4 DEF Pushed, Write
<1>7. ~botched' => twin'.mem = mem'
  BY Zenon, <1>1, <1>3, <1>4, PushAgrees
<1>8. Rebuilt'
  BY Zenon, <1>1, <1>2, <1>4, <1>6, <1>7 DEF Rebuilt
<1>9. CaughtUp(twin.log)'
  BY Zenon, <1>2, <1>4 DEF CaughtUp
<1> QED
  BY Zenon, <1>1, <1>5, <1>8, <1>9 DEF TInv

\* A push that fails after its pad: what it left is beyond what is published, and
\* where it is about to be, in a relay's hands, botched says so.
LEMMA HostFailsT ==
  ASSUME TInv, NEW rec \in Records, HostPushFails(rec)
  PROVE  TInv'
<1>0. PICK a, b, P : /\ a = next_seq_i /\ P = Offset(prod)
                     /\ b = IF bytes_needed(prod, Len1) > Len1 THEN next_seq_i + 1 ELSE next_seq_i
  OBVIOUS
<1> DEFINE span == Span(prod, rec, a, b)
<1>1. /\ mem' = Write(mem, prod, SubSeq(span, 1, contiguous_tail(prod))) /\ Pads(prod) /\ HasRoom
      /\ botched' = (botched \/ rpc # "idle")
      /\ UNCHANGED <<prod, cons, rpc, relay, wcons, snap, twin>>
  BY Zenon, <1>0 DEF HostPushFails, HostSpan, wvars, svars, Pads
<1>2. /\ Laid(mem, prod, cons, rpc, relay) /\ Rebuilt /\ CaughtUp(twin.log)
      /\ prod \in Index /\ cons \in Index /\ Slot(P)
  BY Zenon, <1>0 DEF TInv, Laid, Reached
<1>3. /\ Laid(mem', prod, cons, rpc, relay)
      /\ \A o \in 0 .. (Offset(prod) - 1) : mem'[o] = mem[o]
  BY <1>1, <1>2, LaidFails
<1>4. used(prod, cons) <= P
  <2>1. used(prod, cons) \in Index
    BY Zenon, <1>2, UsedForm
  <2>2. P \in 0 .. (Size - 1) /\ contiguous_tail(prod) = Size - P /\ Size \in Nat
    BY Zenon, <1>0, <1>2, OffsetRange, RingAssumption DEF contiguous_tail
  <2>3. Len1 \in Nat \ {0}
    BY Zenon, SlotFacts
  <2>4. bytes_needed(prod, Len1) > Size - P
    BY <1>1, <2>2, <2>3 DEF bytes_needed, Pads
  <2>5. used(prod, cons) < Size => Size - used(prod, cons) > Size - P
    BY <1>1, <2>1, <2>2, <2>3, <2>4 DEF HasRoom, free, bytes_needed, Index
  <2>6. used(prod, cons) < Size
    BY <1>1, <2>1, <2>2, <2>3, <2>4 DEF HasRoom, free, bytes_needed, Index
  <2> QED
    BY <2>1, <2>2, <2>5, <2>6, IndexModFacts DEF Index
<1>5. ~botched' => Stray'
  <2> SUFFICES ASSUME ~botched' PROVE Stray'
    OBVIOUS
  <2>1. ~botched /\ rpc = "idle" /\ rpc' = "idle"
    BY Zenon, <1>1
  <2>2. \A o \in 0 .. (Offset(prod) - 1) : twin.mem[o] = mem[o]
    BY Zenon, <1>2, <2>1 DEF Rebuilt, Stray
  <2>3. (\A o \in 0 .. (Offset(prod) - 1) : twin.mem[o] = mem[o])'
    BY Zenon, <1>1, <1>3, <2>2
  <2>4. (Pads(prod) /\ used(prod, cons) <= Offset(prod))'
    BY Zenon, <1>0, <1>1, <1>4
  <2> QED
    BY Zenon, <2>1, <2>3, <2>4 DEF Stray
<1>6. Rebuilt'
  BY Zenon, <1>1, <1>2, <1>5 DEF Rebuilt
<1>7. Laid(mem, prod, cons, rpc, relay)' /\ CaughtUp(twin.log)'
  BY Zenon, <1>1, <1>2, <1>3
<1> QED
  BY Zenon, <1>1, <1>6, <1>7 DEF TInv

\* The relay loads the index.
LEMMA RelayLoadT ==
  ASSUME TInv, NEW rec \in Records, RelayLoad(rec), UNCHANGED <<twin, wvars, svars, hvars>>
  PROVE  TInv'
<1>1. /\ rpc = "idle" /\ rpc' = "write" /\ relay'.prod = prod /\ relay'.rec = rec
      /\ UNCHANGED <<mem, prod, cons, wcons, snap, botched, twin>>
  <2>1. rpc = "idle" /\ rpc' = "write" /\ relay' = [prod |-> prod, rec |-> rec, n |-> relay.n + 1]
        /\ UNCHANGED <<mem, prod, cons, wcons, snap, botched, twin>>
    BY Zenon DEF RelayLoad, wvars, svars, hvars
  <2>2. \A x, y, z : LET r == [prod |-> x, rec |-> y, n |-> z] IN r.prod = x /\ r.rec = y
    OBVIOUS
  <2> QED
    BY Zenon, <2>1, <2>2
<1>2. Laid(mem, prod, cons, rpc, relay) /\ Rebuilt /\ CaughtUp(twin.log)
  BY Zenon DEF TInv
<1>3. Laid(mem, prod, cons, rpc, relay)'
  BY ZenonT(30), <1>1, <1>2 DEF Laid
<1>4. ~botched /\ Stray => Stray'
  BY Zenon, <1>1 DEF Stray
<1>5. Rebuilt'
  BY Zenon, <1>1, <1>2, <1>4 DEF Rebuilt
<1> QED
  BY Zenon, <1>1, <1>2, <1>3, <1>5 DEF TInv

\* The relay writes: both guests run the same instructions.
LEMMA RelayWriteT ==
  ASSUME TInv, RelayWrite, twin' = [twin EXCEPT !.mem = Write(@, relay.prod, RelaySpan)],
         UNCHANGED <<wvars, svars, hvars>>
  PROVE  TInv'
<1>0. PICK q, rec, a, b :
        /\ q = relay.prod /\ rec = relay.rec /\ a = relay.prod
        /\ b = IF bytes_needed(relay.prod, Len1) > Len1
               THEN wrapping_add(relay.prod, contiguous_tail(relay.prod)) ELSE relay.prod
  OBVIOUS
<1>1. /\ rpc = "write" /\ rpc' = "publish" /\ mem' = Pushed(mem, q, rec, a, b)
      /\ UNCHANGED <<prod, cons, relay, wcons, snap, botched>>
  BY Zenon, <1>0 DEF RelayWrite, RelaySpan, wvars, svars, hvars, Pushed
<1>2. /\ Laid(mem, prod, cons, rpc, relay) /\ Rebuilt /\ CaughtUp(twin.log)
      /\ DOMAIN twin = {"mem", "prod", "wcons", "log", "answer", "value"}
      /\ DOMAIN twin.mem = 0 .. (Size - 1)
  BY Zenon DEF TInv, Rebuilt
<1>3. /\ DOMAIN twin' = DOMAIN twin /\ twin'.mem = Pushed(twin.mem, q, rec, a, b)
      /\ twin'.prod = twin.prod /\ twin'.wcons = twin.wcons /\ twin'.log = twin.log
      /\ twin'.answer = twin.answer /\ twin'.value = twin.value
  <2>1. PICK w : w = Write(twin.mem, relay.prod, RelaySpan)
    OBVIOUS
  <2>2. twin' = [twin EXCEPT !.mem = w]
    BY Zenon, <2>1
  <2>3. w = Pushed(twin.mem, q, rec, a, b)
    BY Zenon, <1>0, <2>1 DEF Pushed, RelaySpan
  <2> QED
    BY ZenonT(30), <1>2, <2>2, <2>3
<1>4. Laid(mem, prod, cons, rpc, relay)'
  <2>1. Laid(mem, prod, cons, "write", relay)
    BY Zenon, <1>1, <1>2
  <2>2. Laid(mem', prod, cons, "publish", relay)
    BY Zenon, <1>0, <1>1, <2>1, LaidRelay
  <2> QED
    BY Zenon, <1>1, <2>2
<1>5. ~botched' => twin'.mem = mem'
  <2> SUFFICES ASSUME ~botched PROVE twin'.mem = mem'
    BY Zenon, <1>1
  <2>1. CASE twin.mem = mem
    BY Zenon, <1>1, <1>3, <2>1
  <2>2. CASE Stray
    <3>1. q = prod
      BY Zenon, <1>0, <1>1, <2>2 DEF Stray
    <3> QED
      BY Zenon, <1>1, <1>3, <3>1, PushAgrees
  <2> QED
    BY Zenon, <1>2, <2>1, <2>2 DEF Rebuilt
<1>6. DOMAIN twin'.mem = 0 .. (Size - 1)
  BY Zenon, <1>2, <1>3 DEF Pushed, Write
<1>7. Rebuilt'
  BY Zenon, <1>1, <1>2, <1>3, <1>5, <1>6 DEF Rebuilt
<1>8. CaughtUp(twin.log)'
  BY Zenon, <1>2, <1>3
<1> QED
  BY Zenon, <1>1, <1>2, <1>4, <1>7, <1>8 DEF TInv

\* The relay publishes: by then the two memories agree.
LEMMA RelayPublishT ==
  ASSUME TInv, RelayPublish, twin' = [twin EXCEPT !.prod = prod'], UNCHANGED <<wvars, svars, hvars>>
  PROVE  TInv'
<1>0. PICK a, b :
        /\ a = relay.prod
        /\ b = IF bytes_needed(relay.prod, Len1) > Len1
               THEN wrapping_add(relay.prod, contiguous_tail(relay.prod)) ELSE relay.prod
  OBVIOUS
<1>1. /\ rpc = "publish" /\ rpc' = "idle"
      /\ prod' = wrapping_add(relay.prod, Len(Span(relay.prod, relay.rec, a, b)))
      /\ UNCHANGED <<mem, cons, wcons, snap, botched>>
  BY Zenon, <1>0 DEF RelayPublish, RelaySpan, wvars, svars, hvars
<1>2. /\ Laid(mem, prod, cons, rpc, relay) /\ Rebuilt /\ CaughtUp(twin.log)
      /\ DOMAIN twin = {"mem", "prod", "wcons", "log", "answer", "value"}
  BY Zenon DEF TInv, Rebuilt
<1>3. /\ DOMAIN twin' = DOMAIN twin /\ twin'.mem = twin.mem /\ twin'.prod = prod'
      /\ twin'.wcons = twin.wcons /\ twin'.log = twin.log
      /\ twin'.answer = twin.answer /\ twin'.value = twin.value
  BY Zenon, <1>2
<1>4. Laid(mem, prod, cons, rpc, relay)'
  <2>1. Laid(mem, prod, cons, "publish", relay)
    BY Zenon, <1>1, <1>2
  <2>2. Laid(mem, prod', cons, "idle", relay')
    BY Zenon, <1>1, <2>1, LaidPublish
  <2> QED
    BY Zenon, <1>1, <2>2
<1>5. ~botched' => twin'.mem = mem'
  BY Zenon, <1>1, <1>2, <1>3 DEF Rebuilt, Stray
<1>6. Rebuilt'
  BY Zenon, <1>1, <1>2, <1>3, <1>5 DEF Rebuilt
<1>7. CaughtUp(twin.log)'
  BY Zenon, <1>2, <1>3
<1> QED
  BY Zenon, <1>1, <1>2, <1>4, <1>6, <1>7 DEF TInv

\* A poll: over a stray pad there are records up to the producer index, so the
\* poll takes one of these.
LEMMA PollT ==
  ASSUME TInv, Poll, UNCHANGED <<twin, wvars, svars, hvars>>
  PROVE  TInv'
<1>0. PICK b : b = SkipPad(cons)
  OBVIOUS
<1>1. /\ used(prod, cons) # 0 /\ Begins(mem, Offset(b)) /\ cons' = wrapping_add(b, Len1)
      /\ UNCHANGED <<mem, prod, rpc, relay, wcons, snap, botched, twin>>
  BY Zenon, <1>0 DEF Poll, Begins, wvars, svars, hvars
<1>2. /\ Laid(mem, prod, cons, rpc, relay) /\ Rebuilt /\ CaughtUp(twin.log)
      /\ prod \in Index /\ Slot(Offset(prod)) /\ cons \in Index /\ Slot(Offset(cons))
      /\ \A o \in 0 .. (Offset(prod) - 1) : Slot(o) => Begins(mem, o)
  BY Zenon DEF TInv, Laid, Reached, Filled
<1>3. Laid(mem, prod, cons', rpc, relay)
  <2>1. b \in {cons, wrapping_add(cons, contiguous_tail(cons))}
    BY Zenon, <1>0 DEF SkipPad
  <2> QED
    BY <1>1, <1>2, <2>1, LaidPoll
<1>4. Laid(mem, prod, cons, rpc, relay)'
  BY Zenon, <1>1, <1>3
<1>5. ASSUME Stray PROVE Stray'
  <2>1. used(prod, cons) <= Offset(prod) /\ used(prod, cons) \in Index
    BY Zenon, <1>2, <1>5, UsedForm DEF Stray
  <2>2. Offset(cons) = Offset(prod) - used(prod, cons)
    BY Zenon, <1>2, <2>1, OffsetBack
  <2>3. /\ Offset(prod) \in 0 .. (Size - 1) /\ Offset(cons) \in 0 .. (Size - 1)
        /\ Size \in Nat /\ Len1 \in Nat \ {0} /\ Len1 <= Size
    BY Zenon, <1>2, OffsetRange, SlotFacts, RingAssumption
  <2>4. used(prod, cons) \in Nat /\ used(prod, cons) # 0 /\ Offset(cons) < Offset(prod)
    BY <1>1, <2>1, <2>2, <2>3, IndexModFacts DEF Index
  <2>5. Offset(cons) \in 0 .. (Offset(prod) - 1)
    BY <2>3, <2>4
  <2>6. mem[Offset(cons)].rec # Pad
    BY Zenon, <1>2, <2>5, RingIAssumption DEF Begins
  <2>7. b = cons
    BY Zenon, <1>0, <2>6 DEF SkipPad
  <2>8. Offset(cons) + Len1 <= Offset(prod)
    BY <1>2, <2>3, <2>4, SlotFacts
  <2>9. Len1 <= used(prod, cons) /\ Len1 \in 0 .. Size
    BY <2>2, <2>3, <2>4, <2>8
  <2>10. used(prod, cons') = used(prod, cons) - Len1
    BY Zenon, <1>1, <1>2, <2>7, <2>9, UsedLess
  <2>11. used(prod, cons') <= Offset(prod)
    BY <2>1, <2>3, <2>4, <2>10
  <2> QED
    BY Zenon, <1>1, <1>5, <2>11 DEF Stray
<1>6. Rebuilt'
  BY Zenon, <1>1, <1>2, <1>5 DEF Rebuilt
<1> QED
  BY Zenon, <1>1, <1>2, <1>4, <1>6 DEF TInv

\* A snapshot keeps a ring that is laid out, and a restore brings one back.
LEMMA SnapshotT ==
  ASSUME TInv, Snapshot \/ Restore
  PROVE  TInv'
<1>1. CASE Snapshot
  <2>1. /\ snap' = <<[ram |-> Ram, saved |-> Exported]>>
        /\ UNCHANGED <<mem, prod, cons, rpc, relay, wcons, botched, twin>>
    BY Zenon, <1>1 DEF Snapshot, ivars, wvars, hvars
  <2>2. /\ snap'[1].ram.mem = mem /\ snap'[1].ram.prod = prod /\ snap'[1].ram.cons = cons
        /\ snap'[1].ram.rpc = rpc /\ snap'[1].ram.relay = relay /\ snap'[1].ram.wcons = wcons
    BY Zenon, <2>1 DEF Ram
  <2>3. Laid(mem, prod, cons, rpc, relay) /\ Rebuilt /\ CaughtUp(twin.log)
    BY Zenon DEF TInv
  <2>4. Rebuilt'
    BY Zenon, <2>1, <2>3 DEF Rebuilt, Stray
  <2>5. Laid(mem, prod, cons, rpc, relay)' /\ CaughtUp(twin.log)'
    BY Zenon, <2>1, <2>3
  <2>6. Laid(snap[1].ram.mem, snap[1].ram.prod, snap[1].ram.cons, snap[1].ram.rpc, snap[1].ram.relay)'
    BY Zenon, <2>2, <2>3
  <2>7. (snap[1].ram.wcons \in Nat)'
    BY Zenon, <2>2, <2>3 DEF Rebuilt
  <2> QED
    BY Zenon, <2>4, <2>5, <2>6, <2>7 DEF TInv
<1>2. CASE Restore
  <2>1. PICK s : s = snap[1].ram
    OBVIOUS
  <2>2. /\ mem' = s.mem /\ prod' = s.prod /\ cons' = s.cons /\ rpc' = s.rpc /\ relay' = s.relay
        /\ wcons' = s.wcons /\ snap' = snap /\ snap # <<>>
        /\ twin' = [mem |-> s.mem, prod |-> s.prod, wcons |-> s.wcons,
                    log |-> NewLog(<<>>), answer |-> 0, value |-> 0]
    BY Zenon, <1>2, <2>1 DEF Restore
  <2>3. Laid(s.mem, s.prod, s.cons, s.rpc, s.relay) /\ s.wcons \in Nat
    BY Zenon, <2>1, <2>2 DEF TInv
  <2>4. Laid(mem, prod, cons, rpc, relay)'
    BY Zenon, <2>2, <2>3
  <2>5. /\ DOMAIN twin' = {"mem", "prod", "wcons", "log", "answer", "value"}
        /\ twin'.mem = s.mem /\ twin'.prod = s.prod /\ twin'.wcons = s.wcons
        /\ twin'.log = NewLog(<<>>) /\ twin'.answer = twin'.value
    BY Zenon, <2>2
  <2>6. Rebuilt'
    BY Zenon, <2>2, <2>3, <2>5 DEF Rebuilt, Laid, Heads
  <2>7. CaughtUp(twin.log)'
    BY Zenon, <2>5, NewLogT
  <2>8. Laid(snap[1].ram.mem, snap[1].ram.prod, snap[1].ram.cons, snap[1].ram.rpc, snap[1].ram.relay)'
    BY Zenon, <2>1, <2>2, <2>3
  <2>9. (snap[1].ram.wcons \in Nat)'
    BY Zenon, <2>1, <2>2, <2>3
  <2> QED
    BY Zenon, <2>4, <2>6, <2>7, <2>8, <2>9 DEF TInv
<1> QED
  BY Zenon, <1>1, <1>2

-----------------------------------------------------------------------------
(***************************************************************************)
(* Ring W and the answers.                                                 *)
(***************************************************************************)
\* A drain that is reported moves the twin's index as it moved the channel's.
LEMMA BumpKeeps ==
  ASSUME TInv, wring \in Seq(WEvents), NEW t, t = Bumped(twin)
  PROVE  /\ DOMAIN t = {"mem", "prod", "wcons", "log", "answer", "value"}
         /\ t.mem = twin.mem /\ t.prod = twin.prod /\ t.log = twin.log
         /\ t.answer = twin.answer /\ t.value = twin.value
         /\ t.wcons = wcons + Len(wring) /\ wcons + Len(wring) \in Nat
<1>1. /\ DOMAIN twin = {"mem", "prod", "wcons", "log", "answer", "value"}
      /\ twin.wcons = wcons /\ wcons \in Nat
  BY Zenon DEF TInv, Rebuilt
<1>2. Len(wring) \in Nat /\ (wring = <<>> => Len(wring) = 0)
  OBVIOUS
<1>3. CASE wring = <<>>
  <2>1. t = twin
    BY Zenon, <1>3 DEF Bumped
  <2> QED
    BY <1>1, <1>2, <1>3, <2>1
<1>4. CASE wring # <<>>
  <2>1. PICK n \in Nat : n = wcons + Len(wring)
    BY <1>1, <1>2
  <2>2. PICK op : op = cons_bump(n)
    OBVIOUS
  <2>3. op.kind = "ConsBump" /\ op.new_cons = n
    BY Zenon, <2>2 DEF cons_bump
  <2>4. t = apply_sink_op(twin, op)
    BY Zenon, <1>4, <2>1, <2>2 DEF Bumped
  <2>5. t = [twin EXCEPT !.wcons = n]
    BY Zenon, <2>3, <2>4 DEF apply_sink_op
  <2> QED
    BY Zenon, <1>1, <2>1, <2>5
<1> QED
  BY Zenon, <1>3, <1>4

\* The steps of ring W leave ring I and its twin alone.
LEMMA QuietT ==
  ASSUME TInv, UNCHANGED <<mem, prod, cons, rpc, relay, snap, botched>>, wcons' \in Nat,
         DOMAIN twin' = {"mem", "prod", "wcons", "log", "answer", "value"},
         twin'.mem = twin.mem, twin'.prod = twin.prod, twin'.wcons = wcons',
         twin'.answer = twin'.value, CaughtUp(twin'.log)
  PROVE  TInv'
<1>1. Laid(mem, prod, cons, rpc, relay) /\ Rebuilt
  BY Zenon DEF TInv
<1>2. Laid(mem, prod, cons, rpc, relay)'
  BY Zenon, <1>1
<1>3. Stray => Stray'
  BY Zenon DEF Stray
<1>4. Rebuilt'
  BY Zenon, <1>1, <1>3 DEF Rebuilt
<1> QED
  BY Zenon, <1>2, <1>4 DEF TInv

\* A sequence is one of its own elements.
LEMMA OwnRange ==
  ASSUME NEW S, NEW s \in Seq(S)
  PROVE  s \in Seq({s[i] : i \in DOMAIN s})
<1> DEFINE R == {s[i] : i \in DOMAIN s}
<1>1. \A i \in 1 .. Len(s) : s[i] \in R
  OBVIOUS
<1>2. Len(s) \in Nat /\ DOMAIN s = 1 .. Len(s) /\ s = [i \in 1 .. Len(s) |-> s[i]]
  OBVIOUS
<1> HIDE DEF R
<1>3. s \in [1 .. Len(s) -> R]
  BY Zenon, <1>1, <1>2
<1>4. s \in Seq(R)
  BY <1>2, <1>3
<1> QED
  BY Zenon, <1>4 DEF R

\* A log plan that is at the end of its log serves the entry recorded next.
LEMMA LogServes ==
  ASSUME NEW l, CaughtUp(l), NEW iseq, NEW name_id, NEW decision,
         NEW e, e = [iseq |-> iseq, name_id |-> name_id, decision |-> decision],
         NEW g, g = log_decide([l EXCEPT !.log = Append(@, e)], iseq, name_id)
  PROVE  g.out = decision /\ CaughtUp(g.plan)
<1>1. PICK s, n : s = Append(l.log, e) /\ n = Len(l.log)
  BY ZenonT(30)
<1>2. PICK S : l.log \in Seq(S)
  BY Zenon DEF CaughtUp
<1>3. n \in Nat /\ Len(s) = n + 1 /\ s[n + 1] = e /\ s \in Seq(S \cup {e})
  BY <1>1, <1>2
<1>4. PICK k : k = [l EXCEPT !.log = s]
  BY ZenonT(30)
<1>5. /\ DOMAIN k = {"log", "cursor", "divergences"}
      /\ k.log = s /\ k.cursor = n /\ k.divergences = <<>>
  BY Zenon, <1>1, <1>4 DEF CaughtUp
<1>6. g = log_decide(k, iseq, name_id)
  BY Zenon, <1>1, <1>4
<1>7. e.iseq = iseq /\ e.name_id = name_id /\ e.decision = decision
  OBVIOUS
<1>8. g = [out |-> decision, plan |-> [k EXCEPT !.cursor = n + 1, !.divergences = @]]
  <2>1. ~(k.cursor + 1 > Len(k.log)) /\ k.cursor + 1 = n + 1 /\ k.log[k.cursor + 1] = e
    BY <1>3, <1>5
  <2> QED
    BY ZenonT(30), <1>6, <1>7, <2>1 DEF log_decide
<1>9. PICK q : q = [k EXCEPT !.cursor = n + 1, !.divergences = @]
  OBVIOUS
<1>10. /\ DOMAIN q = {"log", "cursor", "divergences"}
       /\ q.log = s /\ q.cursor = n + 1 /\ q.divergences = <<>>
  BY Zenon, <1>5, <1>9
<1>11. g.out = decision /\ g.plan = q
  BY <1>8, <1>9
<1>12. s \in Seq({s[i] : i \in DOMAIN s})
  BY Zenon, <1>3, OwnRange
<1> QED
  BY Zenon, <1>3, <1>10, <1>11, <1>12 DEF CaughtUp

\* The records of the inject point, its doorbell, and the drains.
LEMMA RingWT ==
  ASSUME TInv, wring \in Seq(WEvents), GuestNames \/ GuestAsks \/ GuestRings \/ HostDrains
  PROVE  TInv'
<1>1. /\ DOMAIN twin = {"mem", "prod", "wcons", "log", "answer", "value"} /\ twin.wcons = wcons
      /\ wcons \in Nat /\ twin.answer = twin.value /\ CaughtUp(twin.log)
  BY Zenon DEF TInv, Rebuilt
<1>2. UNCHANGED <<mem, prod, cons, rpc, relay, snap, botched>>
  BY Zenon DEF GuestNames, GuestAsks, GuestRings, HostDrains, ivars, svars, hvars
<1>3. CASE GuestNames \/ GuestAsks
  <2>1. UNCHANGED <<wcons, twin>>
    BY Zenon, <1>3 DEF GuestNames, GuestAsks
  <2> QED
    BY Zenon, <1>1, <1>2, <2>1, QuietT
<1>4. CASE GuestRings \/ HostDrains
  <2>1. wcons' = wcons + Len(wring) /\ twin' = Bumped(twin)
    BY Zenon, <1>4 DEF GuestRings, HostDrains, Bumps
  <2>2. /\ DOMAIN twin' = {"mem", "prod", "wcons", "log", "answer", "value"}
        /\ twin'.mem = twin.mem /\ twin'.prod = twin.prod /\ twin'.log = twin.log
        /\ twin'.answer = twin.answer /\ twin'.value = twin.value
        /\ twin'.wcons = wcons' /\ wcons' \in Nat
    BY Zenon, <2>1, BumpKeeps
  <2> QED
    BY Zenon, <1>1, <1>2, <2>2, QuietT
<1> QED
  BY Zenon, <1>3, <1>4

\* InjectResponder::answer: the replay's log plan gives what the fault plan gave.
LEMMA AnswerT ==
  ASSUME TInv, wring \in Seq(WEvents), HostAnswers
  PROVE  TInv'
<1> DEFINE h == Folded(host, wring)
           mine == {q \in h.pending : q.iseq = guest.iseq}
           nid == (CHOOSE q \in mine : TRUE).name_id
           r == table_decide(Rules, plan, guest.iseq, IF nid \in h.interns THEN Point ELSE NoName)
           t == Bumped(twin)
           e == [iseq |-> guest.iseq, name_id |-> nid, decision |-> r.out]
           l == log_decide([t.log EXCEPT !.log = Append(@, e)], guest.iseq, nid)
           value == IF mine = {} THEN pack(Proceed) ELSE pack(r.out)
           log1 == IF mine = {} THEN t.log ELSE l.plan
           answer1 == IF mine = {} THEN pack(Proceed) ELSE pack(l.out)
<1>1. /\ wcons' = wcons + Len(wring)
      /\ twin' = [apply_sink_op(t, pio_answer(value)) EXCEPT
                    !.log = IF mine = {} THEN @ ELSE l.plan, !.answer = answer1, !.value = value]
      /\ UNCHANGED <<mem, prod, cons, rpc, relay, snap, botched>>
  BY ZenonT(30) DEF HostAnswers, Bumps, ivars, svars, hvars
<1> HIDE DEF h, mine, nid, r
<1>2. /\ DOMAIN t = {"mem", "prod", "wcons", "log", "answer", "value"}
      /\ t.mem = twin.mem /\ t.prod = twin.prod /\ t.log = twin.log
      /\ t.wcons = wcons' /\ wcons' \in Nat
  BY Zenon, <1>1, BumpKeeps
<1> HIDE DEF t
<1>3. CaughtUp(t.log)
  BY Zenon, <1>2 DEF TInv
<1>4. l.out = r.out /\ CaughtUp(l.plan)
  <2>1. e = [iseq |-> guest.iseq, name_id |-> nid, decision |-> r.out]
    OBVIOUS
  <2> HIDE DEF e
  <2>2. l = log_decide([t.log EXCEPT !.log = Append(@, e)], guest.iseq, nid)
    OBVIOUS
  <2> HIDE DEF l
  <2> QED
    BY <1>3, <2>1, <2>2, LogServes
<1> HIDE DEF l, e
<1>5. apply_sink_op(t, pio_answer(value)) = t
  <2>1. pio_answer(value).kind = "PioAnswer"
    BY DEF pio_answer
  <2> HIDE DEF value
  <2> QED
    BY Zenon, <2>1 DEF apply_sink_op
<1>6. answer1 = value /\ CaughtUp(log1)
  BY Zenon, <1>3, <1>4
<1>7. twin' = [t EXCEPT !.log = log1, !.answer = answer1, !.value = value]
  BY Zenon, <1>1, <1>5
<1> HIDE DEF value, log1, answer1
<1>8. /\ DOMAIN twin' = {"mem", "prod", "wcons", "log", "answer", "value"}
      /\ twin'.mem = twin.mem /\ twin'.prod = twin.prod /\ twin'.wcons = wcons'
      /\ twin'.log = log1 /\ twin'.answer = answer1 /\ twin'.value = value
  BY Zenon, <1>2, <1>7
<1> QED
  BY Zenon, <1>1, <1>2, <1>6, <1>8, QuietT

-----------------------------------------------------------------------------
\* Every step of the channel keeps the twin in step with it.
LEMMA NextTInv == RInv /\ TInv /\ [RNext]_rvars => TInv'
<1> SUFFICES ASSUME RInv, TInv, [RNext]_rvars PROVE TInv'
  OBVIOUS
<1>0. wring \in Seq(WEvents)
  BY Zenon DEF RInv, Carries
<1>1. ASSUME NEW rec \in Records, HostPushes(rec) PROVE TInv'
  BY Zenon, <1>1, HostPushT
<1>2. ASSUME NEW rec \in Records, HostPushFails(rec) PROVE TInv'
  BY Zenon, <1>2, HostFailsT
<1>3. CASE GuestOnRingI
  <2>1. UNCHANGED <<wvars, svars, hvars>>
    BY Zenon, <1>3 DEF GuestOnRingI
  <2>2. ASSUME NEW rec \in Records, RelayLoad(rec), UNCHANGED twin PROVE TInv'
    BY Zenon, <2>1, <2>2, RelayLoadT
  <2>3. CASE RelayWrite /\ twin' = [twin EXCEPT !.mem = Write(@, relay.prod, RelaySpan)]
    BY Zenon, <2>1, <2>3, RelayWriteT
  <2>4. CASE RelayPublish /\ twin' = [twin EXCEPT !.prod = prod']
    BY Zenon, <2>1, <2>4, RelayPublishT
  <2>5. CASE Poll /\ UNCHANGED twin
    BY Zenon, <2>1, <2>5, PollT
  <2> QED
    BY Zenon, <1>3, <2>2, <2>3, <2>4, <2>5 DEF GuestOnRingI
<1>4. CASE GuestNames \/ GuestAsks \/ GuestRings \/ HostDrains
  BY Zenon, <1>0, <1>4, RingWT
<1>5. CASE HostAnswers
  BY Zenon, <1>0, <1>5, AnswerT
<1>6. CASE Snapshot \/ Restore
  BY Zenon, <1>6, SnapshotT
<1>7. CASE UNCHANGED rvars
  <2>1. UNCHANGED <<mem, prod, cons, rpc, relay, snap, botched, wcons, twin>>
    BY Zenon, <1>7 DEF rvars, ivars, wvars, svars, hvars
  <2>2. /\ DOMAIN twin = {"mem", "prod", "wcons", "log", "answer", "value"} /\ twin.wcons = wcons
        /\ wcons \in Nat /\ twin.answer = twin.value /\ CaughtUp(twin.log)
    BY Zenon DEF TInv, Rebuilt
  <2> QED
    BY Zenon, <2>1, <2>2, QuietT
<1> QED
  BY Zenon, <1>1, <1>2, <1>3, <1>4, <1>5, <1>6, <1>7 DEF RNext

\* What a consumer may read lies before a stray pad, in the lap of the producer.
LEMMA TInvReplays == TInv => ReplayReproduces
<1> SUFFICES ASSUME TInv PROVE ReplayReproduces
  OBVIOUS
<1>1. Rebuilt /\ CaughtUp(twin.log) /\ prod \in Index /\ cons \in Index
  BY Zenon DEF TInv, Laid, Reached
<1>2. ~botched => \A d \in 0 .. (used(prod, cons) - 1) :
        twin.mem[Offset(cons + d)] = mem[Offset(cons + d)]
  <2> SUFFICES ASSUME ~botched, NEW d \in 0 .. (used(prod, cons) - 1)
               PROVE  twin.mem[Offset(cons + d)] = mem[Offset(cons + d)]
    OBVIOUS
  <2>1. CASE twin.mem = mem
    BY Zenon, <2>1
  <2>2. CASE Stray
    <3>1. used(prod, cons) <= Offset(prod) /\ used(prod, cons) \in Index
      BY Zenon, <1>1, <2>2, UsedForm DEF Stray
    <3>2. used(prod, cons) \in Nat
      BY <3>1, IndexModFacts DEF Index
    <3>3. d \in 0 .. used(prod, cons)
      BY <3>2
    <3>4. Offset(cons) = Offset(prod) - used(prod, cons)
      BY Zenon, <1>1, <3>1, OffsetBack
    <3>5. Offset(cons + d) = Offset(cons) + d
      BY Zenon, <1>1, <3>1, <3>3, OffsetBack
    <3>6. Offset(cons) \in 0 .. (Size - 1) /\ Offset(prod) \in 0 .. (Size - 1) /\ Size \in Nat
      BY Zenon, <1>1, OffsetRange, RingAssumption
    <3>7. Offset(cons) + d \in 0 .. (Offset(prod) - 1)
      BY <3>2, <3>4, <3>6
    <3> QED
      BY Zenon, <2>2, <3>5, <3>7 DEF Stray
  <2> QED
    BY Zenon, <1>1, <2>1, <2>2 DEF Rebuilt
<1>3. remaining(twin.log) = 0
  <2>1. PICK s : s = twin.log.log
    OBVIOUS
  <2>2. s \in Seq({s[i] : i \in DOMAIN s}) /\ twin.log.cursor = Len(s)
    BY Zenon, <1>1, <2>1 DEF CaughtUp
  <2>3. Len(s) \in Nat
    BY <2>2
  <2>4. Len(s) - Len(s) = 0
    BY <2>3
  <2> QED
    BY Zenon, <2>1, <2>2, <2>4 DEF remaining
<1> QED
  BY Zenon, <1>1, <1>2, <1>3 DEF ReplayReproduces, Rebuilt, CaughtUp

\* The trace a ChannelWriteSink records is enough to put the channel back
\* (apply_trace, LogFaultPlan), for any ring, any records, and any interleaving of
\* the two producers, failed pushes, snapshots and restores included.
THEOREM ReplayIsFaithful == RSpec => []ReplayReproduces
<1>1. RInit => RInv /\ TInv
  BY Zenon, InitRInv, InitTInv
<1>2. RInv /\ TInv /\ [RNext]_rvars => (RInv /\ TInv)'
  BY Zenon, NextRInv, NextTInv
<1>3. RInv /\ TInv => ReplayReproduces
  BY Zenon, TInvReplays
<1> QED
  BY <1>1, <1>2, <1>3, PTL DEF RSpec
=============================================================================
