------------------------------- MODULE RingI -------------------------------
(***************************************************************************)
(* Ring I has two producers.  The host pushes workload-control records     *)
(* while the vCPU is paused (Channel::push_workload_ctrl); the agent       *)
(* relays the ones it got as ring-C commands (relay_workload_ctrl) by      *)
(* loading the producer index, writing at it and storing it again.  A      *)
(* pause can fall between any two instructions of the relay.               *)
(*                                                                         *)
(* Every record of this ring has the same length, MinLen = MaxLen words,   *)
(* which need not divide the ring: the last words of a lap are then a pad. *)
(* A word of the ring says which record it is a word of, the how-manieth,  *)
(* and the seq the header carries.                                         *)
(***************************************************************************)
EXTENDS RingMath, Sequences

CONSTANTS Records,          \* the control records the two producers send
          Pad,              \* what the words of a pad belong to
          MaxPushes,        \* bound: how many seqs the host hands out
          MaxRelays,        \* bound: how many records the agent relays
          HostWaits         \* the host leaves ring I alone while a relay runs

ASSUME RingIAssumption ==
    /\ MinLen = MaxLen /\ Pad \notin Records
    /\ MaxPushes \in Nat /\ MaxRelays \in Nat /\ HostWaits \in BOOLEAN

VARIABLES
  mem, prod, cons,  \* the ring
  next_seq_i,       \* the host's own counter (pads consume one too)
  rpc, relay,       \* where relay_workload_ctrl is, and its locals
  queue,            \* history: pushed with success and not yet delivered
  out               \* what the SDK's last poll returned

ivars == <<mem, prod, cons, next_seq_i, rpc, relay, queue, out>>

\* n counts the relays, for the bound.
IdleRelay(n) == [prod |-> 0, rec |-> CHOOSE r \in Records : TRUE, n |-> n]

Len1 == MinLen

Words(rec, seq, n) == [k \in 1 .. n |-> [rec |-> rec, at |-> k, seq |-> seq]]

\* The whole span a push writes: the pad that closes the lap, when one is
\* needed, and the record, with their seqs.
Span(p, rec, padSeq, seq) ==
    IF bytes_needed(p, Len1) > Len1
    THEN Words(Pad, padSeq, contiguous_tail(p)) \o Words(rec, seq, Len1)
    ELSE Words(rec, seq, Len1)

\* Mutant: a span that passes the end of the ring is cut off there.
WriteCut(m, p, span) ==
    [o \in DOMAIN m |->
        IF o >= Offset(p) /\ o - Offset(p) < Len(span) THEN span[o - Offset(p) + 1] ELSE m[o]]

\* m with span written from position p on, going on at the start of the ring.
Write(m, p, span) ==
    [o \in DOMAIN m |->
        LET d == (o - Offset(p)) % Size IN IF d < Len(span) THEN span[d + 1] ELSE m[o]]

HasRoom == free(prod, cons) >= bytes_needed(prod, Len1)

Init ==
    /\ mem = [o \in 0 .. (Size - 1) |-> [rec |-> Pad, at |-> 0, seq |-> 0]]
    /\ prod = 0 /\ cons = 0
    /\ next_seq_i = 0
    /\ rpc = "idle" /\ relay = IdleRelay(0)
    /\ queue = <<>> /\ out = <<>>

HostSpan(rec) ==
    Span(prod, rec, next_seq_i,
         IF bytes_needed(prod, Len1) > Len1 THEN next_seq_i + 1 ELSE next_seq_i)

\* Channel::push_workload_ctrl: the guest does not run, so it is one step.  The
\* seqs are committed with the push; on a full ring nothing changes.
HostPush(rec) ==
    /\ HostWaits => rpc = "idle"
    /\ HasRoom /\ next_seq_i < MaxPushes
    /\ mem' = Write(mem, prod, HostSpan(rec))
    /\ prod' = wrapping_add(prod, Len(HostSpan(rec)))
    /\ next_seq_i' = HostSpan(rec)[Len(HostSpan(rec))].seq + 1
    /\ queue' = Append(queue, rec)
    /\ UNCHANGED <<cons, rpc, relay, out>>

\* relay_workload_ctrl: both indices are loaded and the space is checked; on a
\* full ring the caller drops the record.
RelayLoad(rec) ==
    /\ rpc = "idle" /\ HasRoom /\ relay.n < MaxRelays
    /\ relay' = [prod |-> prod, rec |-> rec, n |-> relay.n + 1]
    /\ rpc' = "write"
    /\ UNCHANGED <<mem, prod, cons, next_seq_i, queue, out>>

\* The relay has no counter: it takes the position for the seq.
RelaySpan ==
    Span(relay.prod, relay.rec, relay.prod,
         IF bytes_needed(relay.prod, Len1) > Len1
         THEN wrapping_add(relay.prod, contiguous_tail(relay.prod)) ELSE relay.prod)

RelayWrite ==
    /\ rpc = "write"
    /\ mem' = Write(mem, relay.prod, RelaySpan)
    /\ rpc' = "publish"
    /\ UNCHANGED <<prod, cons, next_seq_i, relay, queue, out>>

\* Mutant: the index moves by the record alone, not by the pad before it.
RelayForgetsPad ==
    /\ rpc = "publish"
    /\ prod' = wrapping_add(relay.prod, Len1)
    /\ queue' = Append(queue, relay.rec)
    /\ rpc' = "idle" /\ relay' = IdleRelay(relay.n)
    /\ UNCHANGED <<mem, cons, next_seq_i, out>>

RelayPublish ==
    /\ rpc = "publish"
    /\ prod' = wrapping_add(relay.prod, Len(RelaySpan))
    /\ queue' = Append(queue, relay.rec)
    /\ rpc' = "idle" /\ relay' = IdleRelay(relay.n)
    /\ UNCHANGED <<mem, cons, next_seq_i, out>>

\* Where the record after a pad begins, when there is a pad at c.
SkipPad(c) ==
    IF mem[Offset(c)].rec = Pad THEN wrapping_add(c, contiguous_tail(c)) ELSE c

\* poll_workload_ctrl: the pad is consumed silently, and whatever record lies at
\* the consumer index is the next one; words that are no record's beginning are
\* a framing error, which moves nothing.
Poll ==
    LET c == SkipPad(cons) IN
    /\ used(prod, cons) # 0
    /\ mem[Offset(c)].rec \in Records /\ mem[Offset(c)].at = 1
    /\ out' = <<mem[Offset(c)].rec>>
    /\ cons' = wrapping_add(c, Len1)
    /\ queue' = IF queue = <<>> THEN queue ELSE Tail(queue)
    /\ UNCHANGED <<mem, prod, next_seq_i, rpc, relay>>

Next ==
    \/ \E rec \in Records : HostPush(rec) \/ RelayLoad(rec)
    \/ RelayWrite
    \/ RelayPublish
    \/ Poll

Spec == Init /\ [][Next]_ivars

-----------------------------------------------------------------------------
\* The first words of the records between the indices, in order: what polling
\* until the ring is empty would return.
Contents ==
    LET rest[d \in 0 .. (IndexMod - 1)] ==
          LET c == wrapping_sub(prod, d)
              w == mem[Offset(c)]
          IN  CASE d = 0 -> <<>>
                [] d # 0 /\ w.rec = Pad ->
                     IF contiguous_tail(c) > d THEN <<w>> ELSE rest[d - contiguous_tail(c)]
                [] d # 0 /\ w.rec # Pad ->
                     IF Len1 > d THEN <<w>> ELSE <<w>> \o rest[d - Len1]
    IN  rest[used(prod, cons)]

\* What either producer pushed with success, and the SDK has not polled, is in
\* the ring, whole and in the order of the pushes, and nothing else is: no push
\* undoes another one's.
NoPushLost ==
    /\ [i \in 1 .. Len(Contents) |-> Contents[i].rec] = queue
    /\ \A i \in 1 .. Len(Contents) : Contents[i].at = 1
=============================================================================
