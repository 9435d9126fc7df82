-------------------------------- MODULE Ring --------------------------------
(***************************************************************************)
(* One single-producer single-consumer byte ring of the channel page:      *)
(* Producer::try_push and Consumer::pop_into of detguest-wire, ring.rs,    *)
(* running concurrently.  Neither is atomic: the ring's memory is written  *)
(* and copied a word at a time, and the two halves meet only in the two    *)
(* index cells.                                                            *)
(*                                                                         *)
(* queue is a history variable: the records that have been published and   *)
(* not yet consumed, with the index each one starts at.  No step of either *)
(* half reads it.                                                          *)
(***************************************************************************)
EXTENDS RingMath, Sequences

CONSTANTS SeqMod,       \* the record sequence number wraps here (2^32 in the code)
          EncodeMayFail \* whether the caller's encoder may return an error

ASSUME SeqAssumption == SeqMod \in Nat \ {0} /\ EncodeMayFail \in BOOLEAN

VARIABLES
  mem,        \* the data area, a word per offset
  prod, cons, \* the shared index cells
  next_seq,   \* Producer.next_seq
  ppc,        \* where try_push is
  push,       \* the locals of try_push
  cpc,        \* where pop_into is
  pop,        \* the locals of pop_into
  queue,      \* history: published and not consumed
  out         \* what the last pop_into handed its caller

pvars == <<next_seq, ppc, push>>
cvars == <<cpc, pop, out>>
vars == <<mem, prod, cons, next_seq, ppc, push, cpc, pop, queue, out>>

(***************************************************************************)
(* Records.  A record is named by its kind, length and sequence number;    *)
(* its k-th word is <<record, k>>, and word 0 is the header word that      *)
(* carries all three.  ZeroWord is a word of the freshly zeroed page: read *)
(* as a header it has length 0.                                            *)
(***************************************************************************)
Seqs == 0 .. (SeqMod - 1)
Record == [kind : {"pad", "data"}, len : 0 .. MaxLen, seq : Seqs]
NoRecord == [kind |-> "pad", len |-> 0, seq |-> 0]
Word == [rec : Record, k : 0 .. (MaxLen - 1)]
WordOf(r, k) == [rec |-> r, k |-> k]
ZeroWord == WordOf(NoRecord, 0)
Words(r) == [i \in 1 .. r.len |-> WordOf(r, i - 1)]

MinLenOf(kind) == IF kind = "pad" THEN 1 ELSE MinLen

IdlePush == [pos |-> 0, needed |-> 0, rec |-> NoRecord, pad |-> NoRecord, k |-> 0]
IdlePop == [avail |-> 0, len |-> 0, scratch |-> <<>>]

Init ==
    /\ mem = [o \in 0 .. (Size - 1) |-> ZeroWord]
    /\ prod = 0 /\ cons = 0
    /\ next_seq = 0
    /\ ppc = "idle" /\ push = IdlePush
    /\ cpc = "idle" /\ pop = IdlePop
    /\ queue = <<>>
    /\ out = <<>>

-----------------------------------------------------------------------------
(***************************************************************************)
(* Producer::try_push.                                                     *)
(***************************************************************************)
NextSeq(s) == (s + 1) % SeqMod

\* Mutant: the pad carries the number of the record that follows it.
TryPushPadSharesSeq(len) ==
    LET needed == bytes_needed(prod, len)
        padded == needed > len
        pad == IF padded THEN [kind |-> "pad", len |-> contiguous_tail(prod), seq |-> next_seq]
                         ELSE NoRecord
    IN /\ ppc = "idle"
       /\ free(prod, cons) >= needed
       /\ push' = [pos |-> prod, needed |-> needed, pad |-> pad, k |-> 0,
                   rec |-> [kind |-> "data", len |-> len, seq |-> next_seq]]
       /\ next_seq' = NextSeq(next_seq)
       /\ ppc' = IF padded THEN "pad" ELSE "rec"
       /\ UNCHANGED <<mem, prod, cons, cvars, queue>>

\* Both indices are loaded, the space is checked, and the sequence numbers of
\* the tail pad (if any) and of the record are allocated in that order.  When
\* the space is short try_push returns RingFull and has changed nothing.
TryPush(len) ==
    LET needed == bytes_needed(prod, len)
        padded == needed > len
        tail == contiguous_tail(prod)
        seq == IF padded THEN NextSeq(next_seq) ELSE next_seq
        pad == IF padded THEN [kind |-> "pad", len |-> tail, seq |-> next_seq]
                         ELSE NoRecord
    IN /\ ppc = "idle"
       /\ free(prod, cons) >= needed
       /\ push' = [pos |-> prod, needed |-> needed, pad |-> pad, k |-> 0,
                   rec |-> [kind |-> "data", len |-> len, seq |-> seq]]
       /\ next_seq' = NextSeq(seq)
       /\ ppc' = IF padded THEN "pad" ELSE "rec"
       /\ UNCHANGED <<mem, prod, cons, cvars, queue>>

\* encode_pad fills the tail, a word at a time.
WritePad ==
    /\ ppc = "pad"
    /\ mem' = [mem EXCEPT ![Offset(push.pos) + push.k] = WordOf(push.pad, push.k)]
    /\ IF push.k + 1 < push.pad.len
       THEN /\ push' = [push EXCEPT !.k = @ + 1]
            /\ UNCHANGED ppc
       ELSE /\ push' = [push EXCEPT !.k = 0,
                                    !.pos = wrapping_add(@, push.pad.len)]
            /\ ppc' = "rec"
    /\ UNCHANGED <<prod, cons, next_seq, cvars, queue>>

\* The caller's encoder fills the claimed slice, a word at a time.
WriteRecord ==
    /\ ppc = "rec"
    /\ mem' = [mem EXCEPT ![Offset(push.pos) + push.k] = WordOf(push.rec, push.k)]
    /\ IF push.k + 1 < push.rec.len
       THEN push' = [push EXCEPT !.k = @ + 1] /\ UNCHANGED ppc
       ELSE ppc' = "publish" /\ UNCHANGED push
    /\ UNCHANGED <<prod, cons, next_seq, cvars, queue>>

\* Mutant: the encoder's error is ignored and the record published.
EncodeErrorIgnored ==
    /\ EncodeMayFail
    /\ ppc = "rec"
    /\ ppc' = "publish"
    /\ UNCHANGED <<mem, prod, cons, next_seq, push, cvars, queue>>

\* The caller's encoder returns an error: try_push returns RingFull.  The
\* allocated sequence numbers are not given back.
EncodeFails ==
    /\ EncodeMayFail
    /\ ppc = "rec"
    /\ ppc' = "idle" /\ push' = IdlePush
    /\ UNCHANGED <<mem, prod, cons, next_seq, cvars, queue>>

\* Mutant: the index is advanced by the record and not by the pad before it.
PublishRecordOnly ==
    /\ ppc = "publish"
    /\ prod' = wrapping_add(prod, push.rec.len)
    /\ queue' = Append(queue, [rec |-> push.rec, pos |-> push.pos])
    /\ ppc' = "idle" /\ push' = IdlePush
    /\ UNCHANGED <<mem, cons, next_seq, cvars>>

\* One Release store of the producer index publishes pad and record together.
Publish ==
    LET padEntry == [rec |-> push.pad, pos |-> prod]
        recEntry == [rec |-> push.rec, pos |-> push.pos]
        padded == IF push.pad.len > 0 THEN Append(queue, padEntry) ELSE queue
    IN /\ ppc = "publish"
       /\ prod' = wrapping_add(prod, push.needed)
       /\ queue' = Append(padded, recEntry)
       /\ ppc' = "idle" /\ push' = IdlePush
       /\ UNCHANGED <<mem, cons, next_seq, cvars>>

-----------------------------------------------------------------------------
(***************************************************************************)
(* Consumer::pop_into.  With nothing available it returns None and changes *)
(* nothing.                                                                *)
(***************************************************************************)
PopLoad ==
    /\ cpc = "idle"
    /\ used(prod, cons) # 0
    /\ pop' = [IdlePop EXCEPT !.avail = used(prod, cons)]
    /\ cpc' = "peek"
    /\ UNCHANGED <<mem, prod, cons, pvars, queue, out>>

\* RecordHeader::read_from: what a header word may say of a record of which
\* at most limit words are there.  A word that is not a header word holds
\* payload bytes: no length read from it means anything.
HeaderOk(w, limit) ==
    /\ w.k = 0
    /\ w.rec.len >= MinLenOf(w.rec.kind)
    /\ w.rec.len <= MaxLen
    /\ w.rec.len <= limit

\* Read the header word and learn the length; BadLen and Truncated consume
\* nothing and the caller stops draining.
Peek ==
    LET w == mem[Offset(cons)]
    IN /\ cpc = "peek"
       /\ IF HeaderOk(w, pop.avail) /\ w.rec.len <= contiguous_tail(cons)
          THEN /\ cpc' = "copy"
               /\ pop' = [pop EXCEPT !.len = w.rec.len]
          ELSE /\ cpc' = "corrupt"
               /\ UNCHANGED pop
       /\ UNCHANGED <<mem, prod, cons, pvars, queue, out>>

CopyWord ==
    /\ cpc = "copy"
    /\ Len(pop.scratch) < pop.len
    /\ pop' = [pop EXCEPT !.scratch = Append(@, mem[Offset(cons) + Len(@)])]
    /\ UNCHANGED <<mem, prod, cons, pvars, cpc, queue, out>>

\* The copy is complete.  The header is parsed again from the local copy, the
\* consumer index is Release-stored and the copy is the caller's.
Consume ==
    /\ cpc = "copy"
    /\ Len(pop.scratch) = pop.len
    /\ IF HeaderOk(pop.scratch[1], pop.len)
       THEN /\ cons' = wrapping_add(cons, pop.len)
            /\ queue' = Tail(queue)
            /\ out' = pop.scratch
            /\ cpc' = "idle" /\ pop' = IdlePop
       ELSE /\ cpc' = "corrupt"
            /\ UNCHANGED <<cons, queue, out, pop>>
    /\ UNCHANGED <<mem, prod, pvars>>

Next ==
    \/ \E len \in MinLen .. MaxLen : TryPush(len)
    \/ WritePad
    \/ WriteRecord
    \/ EncodeFails
    \/ Publish
    \/ PopLoad
    \/ Peek
    \/ CopyWord
    \/ Consume

Spec == Init /\ [][Next]_vars

-----------------------------------------------------------------------------
PushLocals == [pos : Index, needed : 0 .. Size, rec : Record, pad : Record,
               k : 0 .. MaxLen]
PopLocals == [avail : 0 .. Size, len : 0 .. MaxLen, scratch : Seq(Word)]
Entry == [rec : Record, pos : Index]

\* Every variable has its type; in particular no index leaves its range and
\* no more than Size words are ever in the ring.
TypeOK ==
    /\ mem \in [0 .. (Size - 1) -> Word]
    /\ prod \in Index /\ cons \in Index
    /\ next_seq \in Seqs
    /\ ppc \in {"idle", "pad", "rec", "publish"} /\ push \in PushLocals
    /\ cpc \in {"idle", "peek", "copy", "corrupt"} /\ pop \in PopLocals
    /\ queue \in Seq(Entry)
    /\ out \in Seq(Word)

\* The framing checks of pop_into never fail on a ring that only try_push
\* writes: they are there for corrupted memory alone, as its comment says.
FramingNeverFails == cpc # "corrupt"

\* The offsets a push in progress still owns, and those of published records.
Claimed ==
    IF ppc \in {"pad", "rec"}
    THEN {Offset(wrapping_add(prod, i)) : i \in 0 .. (push.needed - 1)}
    ELSE {}
Unconsumed ==
    {Offset(wrapping_add(cons, i)) : i \in 0 .. (used(prod, cons) - 1)}

\* The soundness argument at the head of ring.rs: what the producer may be
\* writing and what the consumer may be reading never share a word, although
\* the producer works from a consumer index it loaded earlier.
OwnershipDisjoint ==
    /\ Claimed \cap Unconsumed = {}
    /\ ppc \in {"pad", "rec"} => Offset(push.pos) + push.k \in Claimed
    /\ cpc = "copy" => \A i \in 0 .. (pop.len - 1) : Offset(cons) + i \in Unconsumed

\* No record is split over the end of the ring, so that a consumer's copy is
\* one slice: slice_mut and copy_out both rely on it.
NeverWrapsTheEnd ==
    \A i \in DOMAIN queue : Offset(queue[i].pos) + queue[i].rec.len <= Size

\* A tail pad never stands alone: the record it makes room for is published with
\* it, begins at the start of the ring and carries the next number, also when an
\* earlier push was given up after it had written a pad in the same place.
PadBelongs ==
    \A i \in DOMAIN queue : queue[i].rec.kind = "pad" =>
        /\ i < Len(queue) /\ queue[i + 1].rec.kind = "data"
        /\ Offset(queue[i + 1].pos) = 0
        /\ queue[i + 1].rec.seq = NextSeq(queue[i].rec.seq)

\* A ring that is empty takes any record, wherever its indices stand: without
\* it a critical event would doorbell and retry for ever on an empty ring.
EmptyRingAccepts ==
    prod = cons => \A len \in MinLen .. MaxLen : free(prod, cons) >= bytes_needed(prod, len)

Fifo == INSTANCE Fifo WITH items <- [i \in DOMAIN queue |-> queue[i].rec],
                           delivered <- out

\* The two halves together implement a first-in first-out queue of whole
\* records: what pop_into copies out of the memory, a word at a time while
\* the producer writes, is the oldest published record, complete, once.
ImplementsFifo == Fifo!Spec

-----------------------------------------------------------------------------
(***************************************************************************)
(* The inductive invariant behind the properties above.                    *)
(***************************************************************************)
\* The records of q, in order, tile the words from c to p, and none of them
\* is split over the end of the ring.
Tiles(q, p, c) ==
    /\ used(p, c) <= Size
    /\ q = <<>> => p = c
    /\ q # <<>> => q[1].pos = c
    /\ \A i \in 1 .. Len(q) :
         /\ q[i].rec.len >= MinLenOf(q[i].rec.kind)
         /\ Offset(q[i].pos) + q[i].rec.len <= Size
         /\ used(q[i].pos, c) + q[i].rec.len <= used(p, c)
         /\ wrapping_add(q[i].pos, q[i].rec.len)
              = IF i = Len(q) THEN p ELSE q[i + 1].pos
    /\ \A i, j \in 1 .. Len(q) : i < j =>
         used(q[i].pos, c) + q[i].rec.len <= used(q[j].pos, c)

\* The published records tile the words from cons to prod.
Tiling == Tiles(queue, prod, cons)

\* The first n words of r are in memory m from position p on.
Holds(m, p, r, n) == \A k \in 0 .. (n - 1) : m[Offset(p) + k] = WordOf(r, k)

\* The memory holds every published record.
MemoryHolds ==
    \A i \in 1 .. Len(queue) : Holds(mem, queue[i].pos, queue[i].rec, queue[i].rec.len)

\* A push in progress has room, and what it wrote is still there.
PushInv ==
    ppc # "idle" =>
      /\ push.rec.kind = "data" /\ push.rec.len >= MinLen
      /\ used(prod, cons) + push.needed <= Size
      /\ Offset(push.pos) + push.rec.len <= Size \/ ppc = "pad"
      /\ push.pad.len = 0 =>
           /\ ppc # "pad" /\ push.pos = prod /\ push.needed = push.rec.len
      /\ push.pad.len > 0 =>
           /\ push.pad.kind = "pad"
           /\ Offset(prod) + push.pad.len = Size
           /\ push.needed = push.pad.len + push.rec.len
           /\ push.pos = IF ppc = "pad" THEN prod ELSE wrapping_add(prod, push.pad.len)
           /\ Holds(mem, prod, push.pad, IF ppc = "pad" THEN push.k ELSE push.pad.len)
      /\ ppc = "pad" => push.k < push.pad.len
      /\ ppc = "rec" => push.k < push.rec.len /\ Holds(mem, push.pos, push.rec, push.k)
      /\ ppc = "publish" => Holds(mem, push.pos, push.rec, push.rec.len)

\* A pop in progress works on the oldest published record.
PopInv ==
    /\ cpc # "corrupt"
    /\ cpc # "idle" => queue # <<>> /\ queue[1].rec.len <= pop.avail
    /\ cpc = "peek" => pop.scratch = <<>>
    /\ cpc = "copy" =>
         /\ pop.len = queue[1].rec.len
         /\ Len(pop.scratch) <= pop.len
         /\ \A i \in 1 .. Len(pop.scratch) : pop.scratch[i] = WordOf(queue[1].rec, i - 1)

IInv == TypeOK /\ Tiling /\ MemoryHolds /\ PushInv /\ PopInv
=============================================================================
