----------------------------- MODULE RingProofs -----------------------------
(***************************************************************************)
(* The properties of Ring, for every ring size, record size and wrap.      *)
(* The inductive invariant is IInv of module Ring: the published records   *)
(* tile the ring from cons to prod, the memory holds them, a push in       *)
(* progress has room and keeps what it wrote, and a pop in progress works  *)
(* on the oldest record.                                                   *)
(***************************************************************************)
EXTENDS Ring, TLAPS

-----------------------------------------------------------------------------
(***************************************************************************)
(* Facts about the index arithmetic of ring.rs, for every ring size, every *)
(* number of laps before the index wraps and every pair of record bounds.  *)
(* The proofs about the rings use these and never open a remainder.        *)
(***************************************************************************)
\* The index wraps after at least two laps.
LEMMA IndexModFacts == IndexMod \in Nat /\ IndexMod >= 2 * Size /\ IndexMod >= Size
<1>1. IndexMod \in Nat
  BY RingAssumption DEF IndexMod
<1>2. (Laps - 2) * Size >= 0
  BY RingAssumption
<1>3. Laps * Size = (Laps - 2) * Size + 2 * Size
  BY RingAssumption
<1> QED
  BY <1>1, <1>2, <1>3, RingAssumption DEF IndexMod

\* A remainder is the number itself, or one modulus away from it, when the
\* number is within one modulus of the range.
LEMMA ModForm ==
  ASSUME NEW m \in Nat \ {0}, NEW a \in Int, -m <= a, a < 2 * m
  PROVE  /\ a % m \in 0 .. (m - 1)
         /\ a < 0 => a % m = a + m
         /\ 0 <= a /\ a < m => a % m = a
         /\ m <= a => a % m = a - m
<1>1. a % m \in 0 .. (m - 1) /\ a = m * (a \div m) + (a % m)
  OBVIOUS
<1> DEFINE q == a \div m
<1>2. q \in Int
  OBVIOUS
<1> HIDE DEF q
<1>3. q < -1 => m * q <= -2 * m
  BY <1>2
<1>4. q > 1 => m * q >= 2 * m
  BY <1>2
<1>5. q \in {-1, 0, 1}
  BY <1>1, <1>2, <1>3, <1>4 DEF q
<1> QED
  BY <1>1, <1>5 DEF q

\* wrapping_add without a remainder.
LEMMA AddForm ==
  ASSUME NEW p \in Index, NEW n \in 0 .. Size
  PROVE  /\ wrapping_add(p, n) \in Index
         /\ wrapping_add(p, n) = IF p + n < IndexMod THEN p + n ELSE (p + n) - IndexMod
<1> DEFINE a == p + n
<1>1. a \in Int /\ -IndexMod <= a /\ a < 2 * IndexMod /\ 0 <= a
  BY IndexModFacts, RingAssumption DEF Index
<1>2. IndexMod \in Nat \ {0}
  BY IndexModFacts, RingAssumption
<1> HIDE DEF a
<1>3. /\ a % IndexMod \in 0 .. (IndexMod - 1)
      /\ a < IndexMod => a % IndexMod = a
      /\ IndexMod <= a => a % IndexMod = a - IndexMod
  BY ZenonT(30), <1>1, <1>2, ModForm
<1>4. /\ a % IndexMod \in Index
      /\ a % IndexMod = IF a < IndexMod THEN a ELSE a - IndexMod
  BY <1>1, <1>2, <1>3 DEF Index
<1> QED
  BY Zenon, <1>4 DEF a, wrapping_add

\* used without a remainder.
LEMMA UsedForm ==
  ASSUME NEW p \in Index, NEW c \in Index
  PROVE  /\ used(p, c) \in Index
         /\ used(p, c) = IF p >= c THEN p - c ELSE p - c + IndexMod
<1>1. p - c \in Int /\ -IndexMod <= p - c /\ p - c < IndexMod
  BY IndexModFacts, RingAssumption DEF Index
<1>2. IndexMod \in Nat \ {0} /\ p - c < 2 * IndexMod
  BY <1>1, IndexModFacts, RingAssumption
<1>3. /\ (p - c) % IndexMod \in 0 .. (IndexMod - 1)
      /\ p - c < 0 => (p - c) % IndexMod = p - c + IndexMod
      /\ 0 <= p - c => (p - c) % IndexMod = p - c
  BY ZenonT(30), <1>1, <1>2, ModForm
<1>4. p \in Int /\ c \in Int
  BY IndexModFacts DEF Index
<1> QED
  BY <1>1, <1>2, <1>3, <1>4 DEF Index, wrapping_sub, used

\* What used computes for two indices is a number of words below the index's
\* modulus.
LEMMA UsedNat ==
  ASSUME NEW p \in Index, NEW c \in Index
  PROVE  used(p, c) \in Nat
<1>1. used(p, c) \in Index
  BY Zenon, UsedForm
<1> QED
  BY <1>1, IndexModFacts DEF Index

\* A masked index points into the ring.
LEMMA OffsetRange ==
  ASSUME NEW p \in Index
  PROVE  Offset(p) \in 0 .. (Size - 1) /\ contiguous_tail(p) \in 1 .. Size
<1>1. p \in Int
  BY IndexModFacts DEF Index
<1>2. p % Size \in 0 .. (Size - 1)
  BY <1>1, RingAssumption
<1> QED
  BY <1>2, RingAssumption DEF Offset, contiguous_tail

\* Two numbers less than one lap apart with the same remainder are equal.
LEMMA ModInjective ==
  ASSUME NEW m \in Nat \ {0}, NEW a \in Int, NEW b \in Int,
         a % m = b % m, a - b < m, b - a < m
  PROVE  a = b
<1> DEFINE q == a \div m
           r == b \div m
<1>1. a = m * q + (a % m) /\ b = m * r + (b % m) /\ q \in Int /\ r \in Int
  OBVIOUS
<1>2. a % m \in Int /\ b % m \in Int
  OBVIOUS
<1> HIDE DEF q, r
<1>3. a - b = m * (q - r)
  BY <1>1, <1>2
<1>4. q - r >= 1 => m * (q - r) >= m
  BY <1>1
<1>5. q - r <= -1 => m * (q - r) <= -m
  BY <1>1
<1>6. q - r = 0
  BY <1>1, <1>3, <1>4, <1>5
<1> QED
  BY <1>3, <1>6, <1>1

\* The remainder determines a number up to whole laps.
LEMMA ModUnique ==
  ASSUME NEW m \in Nat \ {0}, NEW a \in Int, NEW k \in Int, NEW r \in 0 .. (m - 1),
         a = k * m + r
  PROVE  a % m = r
<1> DEFINE q == a \div m
<1>1. a = m * q + (a % m) /\ q \in Int /\ a % m \in 0 .. (m - 1)
  OBVIOUS
<1> HIDE DEF q
<1>2. m * (q - k) = r - (a % m)
  BY <1>1
<1>3. q - k >= 1 => m * (q - k) >= m
  BY <1>1
<1>4. q - k <= -1 => m * (q - k) <= -m
  BY <1>1
<1>5. q - k = 0
  BY <1>1, <1>2, <1>3, <1>4
<1> QED
  BY <1>1, <1>2, <1>5

\* The wrap of the index falls on a lap boundary: it moves no offset.
LEMMA OffsetOfWrap ==
  ASSUME NEW p \in Index, NEW n \in 0 .. Size
  PROVE  Offset(wrapping_add(p, n)) = (p + n) % Size
<1> DEFINE a == p + n
           q == a \div Size
           r == a % Size
<1>1. a \in Int /\ a = Size * q + r /\ q \in Int /\ r \in 0 .. (Size - 1)
  BY RingAssumption, IndexModFacts DEF Index
<1>2. CASE a < IndexMod
  BY <1>2, AddForm DEF Offset
<1>3. CASE a >= IndexMod
  <2>1. wrapping_add(p, n) = a - IndexMod
    <3>1. wrapping_add(p, n) = IF p + n < IndexMod THEN p + n ELSE (p + n) - IndexMod
      BY Zenon, AddForm
    <3> QED
      BY <3>1, <1>3, <1>1, IndexModFacts
  <2> HIDE DEF a, q, r
  <2>2. a - IndexMod = (q - Laps) * Size + r
    BY <1>1, RingAssumption DEF IndexMod
  <2>3. a - IndexMod \in Int /\ q - Laps \in Int
    BY <1>1, RingAssumption, IndexModFacts
  <2>4. (a - IndexMod) % Size = r
    BY ZenonT(30), <2>2, <2>3, <1>1, RingAssumption, ModUnique
  <2> QED
    BY Zenon, <2>1, <2>4 DEF Offset, a, r
<1> QED
  BY <1>1, <1>2, <1>3, IndexModFacts

\* Moving within the tail moves the offset by as much; moving to its end
\* comes back to offset 0.
LEMMA OffsetAdd ==
  ASSUME NEW p \in Index, NEW n \in Nat, Offset(p) + n <= Size
  PROVE  Offset(wrapping_add(p, n)) = IF Offset(p) + n = Size THEN 0 ELSE Offset(p) + n
<1> DEFINE q == p \div Size
           r == p % Size
<1>1. p \in Int /\ p = Size * q + r /\ q \in Int /\ r \in 0 .. (Size - 1)
  BY RingAssumption, IndexModFacts DEF Index
<1>2. n \in 0 .. Size
  BY <1>1, RingAssumption DEF Offset
<1>3. Offset(wrapping_add(p, n)) = (p + n) % Size
  BY Zenon, <1>2, OffsetOfWrap
<1>4. Offset(p) = r
  BY Zenon DEF Offset
<1> HIDE DEF q, r
<1>5. CASE r + n = Size
  <2>1. p + n = (q + 1) * Size + 0
    BY <1>1, <1>5, RingAssumption
  <2>2. (p + n) % Size = 0
    BY <2>1, <1>1, RingAssumption, ModUnique
  <2> QED
    BY Zenon, <2>2, <1>3, <1>4, <1>5
<1>6. CASE r + n < Size
  <2>1. p + n = q * Size + (r + n)
    BY <1>1, RingAssumption
  <2>2. r + n \in 0 .. (Size - 1)
    BY <1>1, <1>6, RingAssumption
  <2>3. p + n \in Int
    BY <1>1
  <2>4. (p + n) % Size = r + n
    BY ZenonT(30), <2>1, <2>2, <2>3, <1>1, RingAssumption, ModUnique
  <2> QED
    BY <2>4, <1>3, <1>4, <1>6, <1>1, RingAssumption
<1> QED
  BY <1>1, <1>4, <1>5, <1>6, RingAssumption

\* Two positions of the same lap (less than Size words apart) never share a
\* word of the ring.
LEMMA OffsetInjective ==
  ASSUME NEW c \in Index, NEW i \in 0 .. (Size - 1), NEW j \in 0 .. (Size - 1),
         Offset(wrapping_add(c, i)) = Offset(wrapping_add(c, j))
  PROVE  i = j
<1>1. c \in Int /\ i \in 0 .. Size /\ j \in 0 .. Size /\ Size \in Nat \ {0}
  BY RingAssumption, IndexModFacts DEF Index
<1>2. (c + i) % Size = (c + j) % Size
  BY <1>1, OffsetOfWrap
<1>3. /\ c + i \in Int /\ c + j \in Int
      /\ (c + i) - (c + j) < Size /\ (c + j) - (c + i) < Size
  BY <1>1
<1>4. c + i = c + j
  BY ZenonT(30), <1>1, <1>2, <1>3, ModInjective
<1> QED
  BY <1>1, <1>4

\* Distances from the consumer index add up, as long as they stay on the lap.
LEMMA UsedAdd ==
  ASSUME NEW p \in Index, NEW c \in Index, NEW n \in Nat, used(p, c) + n <= Size
  PROVE  used(wrapping_add(p, n), c) = used(p, c) + n
<1> DEFINE s == wrapping_add(p, n)
<1>1. used(p, c) \in Index /\ used(p, c) = IF p >= c THEN p - c ELSE p - c + IndexMod
  BY Zenon, UsedForm
<1>2. n \in 0 .. Size
  BY <1>1, RingAssumption, IndexModFacts DEF Index
<1>3. s \in Index /\ s = IF p + n < IndexMod THEN p + n ELSE (p + n) - IndexMod
  BY Zenon, <1>2, AddForm
<1> HIDE DEF s
<1>4. used(s, c) = IF s >= c THEN s - c ELSE s - c + IndexMod
  BY <1>3, UsedForm
<1>5. used(s, c) = used(p, c) + n
  BY <1>1, <1>2, <1>3, <1>4, RingAssumption, IndexModFacts DEF Index
<1> QED
  BY Zenon, <1>5 DEF s

\* Consuming moves the consumer index towards every later position.
LEMMA UsedConsume ==
  ASSUME NEW p \in Index, NEW c \in Index, NEW n \in 0 .. Size, n <= used(p, c)
  PROVE  used(p, wrapping_add(c, n)) = used(p, c) - n
<1> DEFINE s == wrapping_add(c, n)
<1>1. used(p, c) \in Index /\ used(p, c) = IF p >= c THEN p - c ELSE p - c + IndexMod
  BY Zenon, UsedForm
<1>2. s \in Index /\ s = IF c + n < IndexMod THEN c + n ELSE (c + n) - IndexMod
  BY Zenon, AddForm
<1> HIDE DEF s
<1>3. used(p, s) = IF p >= s THEN p - s ELSE p - s + IndexMod
  BY <1>2, UsedForm
<1>4. used(p, s) = used(p, c) - n
  BY <1>1, <1>2, <1>3, RingAssumption, IndexModFacts DEF Index
<1> QED
  BY Zenon, <1>4 DEF s

\* A position is the consumer index plus its distance from it.
LEMMA AddUsed ==
  ASSUME NEW p \in Index, NEW c \in Index, used(p, c) <= Size
  PROVE  wrapping_add(c, used(p, c)) = p
<1> DEFINE d == used(p, c)
<1>1. d \in Index /\ d = IF p >= c THEN p - c ELSE p - c + IndexMod
  BY UsedForm
<1>2. d <= Size
  OBVIOUS
<1> HIDE DEF d
<1>3. d \in 0 .. Size
  BY <1>1, <1>2, RingAssumption, IndexModFacts DEF Index
<1>4. wrapping_add(c, d) = IF c + d < IndexMod THEN c + d ELSE (c + d) - IndexMod
  BY <1>3, AddForm
<1>5. wrapping_add(c, d) = p
  BY <1>1, <1>3, <1>4, RingAssumption, IndexModFacts DEF Index
<1> QED
  BY Zenon, <1>5 DEF d

\* Additions compose.
LEMMA AddAdd ==
  ASSUME NEW p \in Index, NEW m \in 0 .. Size, NEW n \in 0 .. Size, m + n <= Size
  PROVE  wrapping_add(wrapping_add(p, m), n) = wrapping_add(p, m + n)
<1> DEFINE s == wrapping_add(p, m)
           k == m + n
<1>1. s \in Index /\ s = IF p + m < IndexMod THEN p + m ELSE (p + m) - IndexMod
  BY Zenon, AddForm
<1>2. k \in 0 .. Size /\ k = m + n
  BY RingAssumption
<1> HIDE DEF s, k
<1>3. wrapping_add(s, n) = IF s + n < IndexMod THEN s + n ELSE (s + n) - IndexMod
  BY <1>1, AddForm
<1>4. wrapping_add(p, k) = IF p + k < IndexMod THEN p + k ELSE (p + k) - IndexMod
  BY Zenon, <1>2, AddForm
<1>5. wrapping_add(s, n) = wrapping_add(p, k)
  BY <1>1, <1>2, <1>3, <1>4, RingAssumption, IndexModFacts DEF Index
<1> QED
  BY <1>5 DEF s, k

\* The distance between two indices is 0 exactly when they are equal.
LEMMA UsedZero ==
  ASSUME NEW p \in Index, NEW c \in Index
  PROVE  used(p, c) = 0 <=> p = c
<1>1. used(p, c) = IF p >= c THEN p - c ELSE p - c + IndexMod
  BY Zenon, UsedForm
<1> QED
  BY <1>1, IndexModFacts DEF Index

\* Where the k-th word after position p lies, measured from c.
LEMMA WordPosition ==
  ASSUME NEW c \in Index, NEW p \in Index, NEW k \in Nat,
         Offset(p) + k < Size, used(p, c) + k < Size
  PROVE  Offset(p) + k = Offset(wrapping_add(c, used(p, c) + k))
<1> DEFINE u == used(p, c)
<1>0. u \in Nat /\ u + k < Size
  BY UsedForm, IndexModFacts DEF Index
<1> HIDE DEF u
<1>1. u <= Size /\ k \in 0 .. Size /\ u \in 0 .. Size /\ u + k <= Size
  BY <1>0, RingAssumption
<1>2. wrapping_add(c, u) = p
  BY Zenon, <1>1, AddUsed DEF u
<1>3. wrapping_add(wrapping_add(c, u), k) = wrapping_add(c, u + k)
  BY <1>1, AddAdd
<1>4. Offset(wrapping_add(p, k)) = Offset(p) + k
  BY OffsetAdd, OffsetRange, RingAssumption
<1> QED
  BY Zenon, <1>2, <1>3, <1>4 DEF u

\* Words at different distances from c, both on the lap, are different words.
LEMMA WordsApart ==
  ASSUME NEW c \in Index, NEW p \in Index, NEW q \in Index,
         NEW j \in Nat, NEW k \in Nat,
         Offset(p) + j < Size, Offset(q) + k < Size,
         used(p, c) + j < Size, used(q, c) + k < Size,
         used(p, c) + j # used(q, c) + k
  PROVE  Offset(p) + j # Offset(q) + k
<1> DEFINE a == used(p, c) + j
           b == used(q, c) + k
<1>1. used(p, c) \in Nat /\ used(q, c) \in Nat
  BY UsedForm, IndexModFacts DEF Index
<1>2. a \in 0 .. (Size - 1) /\ b \in 0 .. (Size - 1) /\ a # b
  BY <1>1, RingAssumption
<1>3. Offset(p) + j = Offset(wrapping_add(c, a)) /\ Offset(q) + k = Offset(wrapping_add(c, b))
  BY WordPosition
<1> HIDE DEF a, b
<1>4. Offset(wrapping_add(c, a)) # Offset(wrapping_add(c, b))
  BY Zenon, <1>2, OffsetInjective
<1> QED
  BY Zenon, <1>3, <1>4

-----------------------------------------------------------------------------
(***************************************************************************)
(* The ring: its two sides and the words between them.                     *)
(***************************************************************************)
USE RingAssumption, SeqAssumption

\* The placeholders for no record and for memory never written have the types
\* of a record and of a word.
LEMMA NoRecordType == NoRecord \in Record /\ ZeroWord \in Word
<1>1. 0 \in Seqs /\ 0 \in 0 .. MaxLen /\ 0 \in 0 .. (MaxLen - 1)
  BY DEF Seqs
<1>2. NoRecord \in Record
  BY Zenon, <1>1 DEF NoRecord, Record
<1> QED
  BY Zenon, <1>1, <1>2 DEF ZeroWord, Word, WordOf

\* A word of a record that encode_pad or RecordHeader::write_to writes is a
\* word of memory.
LEMMA WordType ==
  ASSUME NEW r \in Record, NEW k \in 0 .. (r.len - 1)
  PROVE  WordOf(r, k) \in Word
<1>1. r.len \in 0 .. MaxLen
  BY Zenon DEF Record
<1>2. k \in 0 .. (MaxLen - 1)
  BY <1>1
<1> QED
  BY Zenon, <1>2 DEF WordOf, Word

\* The locals of try_push and pop_into have their types between two calls.
LEMMA IdleTypes == IdlePush \in PushLocals /\ IdlePop \in PopLocals
<1>1. 0 \in Index
  BY IndexModFacts DEF Index
<1>2. IdlePush \in PushLocals
  BY <1>1, NoRecordType DEF IdlePush, PushLocals
<1>3. IdlePop \in PopLocals
  BY DEF IdlePop, PopLocals
<1> QED
  BY Zenon, <1>2, <1>3

\* The ring as from_raw finds it, zeroed and empty, satisfies the invariant.
LEMMA InitInv == Init => IInv
<1> SUFFICES ASSUME Init PROVE IInv
  OBVIOUS
<1>1. TypeOK
  <2>1. mem \in [0 .. (Size - 1) -> Word]
    BY NoRecordType DEF Init
  <2>2. next_seq \in Seqs
    BY DEF Init, Seqs
  <2> QED
    BY <2>1, <2>2, IdleTypes DEF Init, TypeOK
<1>2. Tiling
  BY UsedZero DEF Init, Tiling, Tiles
<1>3. MemoryHolds /\ PushInv /\ PopInv
  BY DEF Init, MemoryHolds, PushInv, PopInv
<1> QED
  BY <1>1, <1>2, <1>3 DEF IInv

\* alloc_seq yields a sequence number, past the wrap too.
LEMMA NextSeqType == ASSUME NEW s \in Seqs PROVE NextSeq(s) \in Seqs
  BY DEF Seqs, NextSeq

\* The beginning of try_push, the space check and the choice of a pad, keeps
\* the invariant.
LEMMA TryPushInv ==
  ASSUME IInv, NEW len \in MinLen .. MaxLen, TryPush(len)
  PROVE  IInv'
<1> DEFINE tail == contiguous_tail(prod)
           needed == bytes_needed(prod, len)
<1>1. prod \in Index /\ cons \in Index /\ next_seq \in Seqs
  BY DEF IInv, TypeOK
<1>2. /\ tail \in 1 .. Size /\ tail = Size - Offset(prod) /\ Offset(prod) \in 0 .. (Size - 1)
      /\ needed = IF len > tail THEN tail + len ELSE len
  BY <1>1, OffsetRange DEF contiguous_tail, bytes_needed
<1>3. used(prod, cons) \in Nat /\ used(prod, cons) <= Size
  BY <1>1, UsedForm, IndexModFacts DEF IInv, Tiling, Tiles, Index
<1>4. used(prod, cons) + needed <= Size /\ needed \in 0 .. Size
  BY <1>2, <1>3 DEF TryPush, free
<1>5. UNCHANGED <<mem, prod, cons, cpc, pop, queue, out>>
  BY Zenon DEF TryPush, cvars
<1> HIDE DEF tail, needed
<1>6. TypeOK'
  <2>1. next_seq' \in Seqs
    BY Zenon, <1>1, NextSeqType DEF TryPush
  <2>2. push' \in PushLocals
    <3> DEFINE seq == IF needed > len THEN NextSeq(next_seq) ELSE next_seq
               pad == IF needed > len THEN [kind |-> "pad", len |-> tail, seq |-> next_seq]
                                      ELSE NoRecord
               rec == [kind |-> "data", len |-> len, seq |-> seq]
    <3>1. push' = [pos |-> prod, needed |-> needed, pad |-> pad, k |-> 0, rec |-> rec]
      BY Zenon DEF TryPush, needed, tail
    <3>2. rec \in Record
      BY <1>1, NextSeqType DEF Record
    <3>3. pad \in Record
      BY <1>1, <1>2, NoRecordType DEF Record
    <3> HIDE DEF seq, pad, rec
    <3> QED
      BY <3>1, <3>2, <3>3, <1>1, <1>4 DEF PushLocals
  <2>3. ppc' \in {"idle", "pad", "rec", "publish"}
    BY Zenon DEF TryPush
  <2> QED
    BY Zenon, <2>1, <2>2, <2>3, <1>5 DEF IInv, TypeOK
<1>7. Tiling' /\ MemoryHolds' /\ PopInv'
  BY <1>5 DEF IInv, Tiling, Tiles, MemoryHolds, Holds, PopInv
<1>8. PushInv'
  <2>1. /\ push'.pos = prod /\ push'.needed = needed /\ push'.k = 0
        /\ push'.rec.kind = "data" /\ push'.rec.len = len
        /\ needed > len => /\ push'.pad.kind = "pad" /\ push'.pad.len = tail
                           /\ ppc' = "pad"
        /\ ~(needed > len) => push'.pad.len = 0 /\ ppc' = "rec"
    BY Zenon DEF TryPush, needed, tail, NoRecord
  <2> QED
    BY <2>1, <1>2, <1>4, <1>5 DEF PushInv, Holds
<1> QED
  BY <1>6, <1>7, <1>8 DEF IInv

\* What the invariant says of one published record.
LEMMA EntryFacts ==
  ASSUME IInv, NEW i \in 1 .. Len(queue)
  PROVE  /\ queue[i] \in Entry /\ queue[i].pos \in Index /\ queue[i].rec \in Record
         /\ queue[i].rec.len \in 1 .. MaxLen
         /\ used(queue[i].pos, cons) \in Nat /\ used(prod, cons) \in Nat
         /\ used(queue[i].pos, cons) + queue[i].rec.len <= used(prod, cons)
         /\ Offset(queue[i].pos) \in 0 .. (Size - 1)
         /\ Offset(queue[i].pos) + queue[i].rec.len <= Size
<1>1. queue[i] \in Entry /\ prod \in Index /\ cons \in Index
  BY DEF IInv, TypeOK
<1>2. queue[i].pos \in Index /\ queue[i].rec \in Record
  BY Zenon, <1>1 DEF Entry
<1>3. queue[i].rec.len \in 0 .. MaxLen
  BY Zenon, <1>2 DEF Record
<1>4. queue[i].rec.len >= 1
  BY <1>3 DEF IInv, Tiling, Tiles, MinLenOf
<1>5. used(queue[i].pos, cons) \in Nat /\ used(prod, cons) \in Nat
  BY Zenon, <1>1, <1>2, UsedNat
<1>6. Offset(queue[i].pos) \in 0 .. (Size - 1)
  BY Zenon, <1>2, OffsetRange
<1> QED
  BY <1>1, <1>2, <1>3, <1>4, <1>5, <1>6 DEF IInv, Tiling, Tiles

\* The word a push is about to write is no word of a published record, and
\* while the record is written no word of the pad before it.
LEMMA FreshWord ==
  ASSUME IInv, ppc \in {"pad", "rec"}
  PROVE  /\ Offset(push.pos) + push.k \in 0 .. (Size - 1)
         /\ \A i \in 1 .. Len(queue) : \A k \in 0 .. (queue[i].rec.len - 1) :
              /\ Offset(queue[i].pos) + k \in 0 .. (Size - 1)
              /\ Offset(queue[i].pos) + k # Offset(push.pos) + push.k
         /\ ppc = "rec" => \A k \in 0 .. (push.pad.len - 1) :
              /\ Offset(prod) + k \in 0 .. (Size - 1)
              /\ Offset(prod) + k # Offset(push.pos) + push.k
<1> DEFINE u == used(prod, cons)
           d == used(push.pos, cons) + push.k
<1>1. /\ prod \in Index /\ cons \in Index /\ push.pos \in Index /\ push.k \in Nat
      /\ push.pad.len \in 0 .. MaxLen /\ push.rec.len \in 0 .. MaxLen
      /\ push.needed \in 0 .. Size
  BY DEF IInv, TypeOK, PushLocals, Record
<1>2. Offset(push.pos) \in 0 .. (Size - 1) /\ Offset(prod) \in 0 .. (Size - 1)
  BY Zenon, <1>1, OffsetRange
<1>3. u \in Nat /\ u + push.needed <= Size
  BY Zenon, <1>1, UsedNat DEF IInv, PushInv
<1>4. /\ Offset(push.pos) + push.k < Size
      /\ u <= d /\ d < Size /\ d \in Nat
      /\ ppc = "rec" => u + push.pad.len <= d
  <2>1. CASE push.pad.len = 0
    BY <2>1, <1>1, <1>2, <1>3 DEF IInv, PushInv
  <2>2. CASE push.pad.len > 0 /\ ppc = "pad"
    BY <2>2, <1>1, <1>2, <1>3 DEF IInv, PushInv
  <2>3. CASE push.pad.len > 0 /\ ppc = "rec"
    <3>1. /\ push.pos = wrapping_add(prod, push.pad.len)
          /\ push.needed = push.pad.len + push.rec.len
          /\ push.k < push.rec.len /\ Offset(push.pos) + push.rec.len <= Size
      BY Zenon, <2>3 DEF IInv, PushInv
    <3>2. used(push.pos, cons) = u + push.pad.len
      BY <3>1, <1>1, <1>3, UsedAdd
    <3> QED
      BY <3>1, <3>2, <1>1, <1>2, <1>3
  <2> QED
    BY <2>1, <2>2, <2>3, <1>1
<1>5. ASSUME NEW i \in 1 .. Len(queue), NEW k \in 0 .. (queue[i].rec.len - 1)
      PROVE  /\ Offset(queue[i].pos) + k \in 0 .. (Size - 1)
             /\ Offset(queue[i].pos) + k # Offset(push.pos) + push.k
  <2> DEFINE p == queue[i].pos
             n == queue[i].rec.len
  <2>1. /\ p \in Index /\ n \in 1 .. MaxLen /\ k \in 0 .. (n - 1)
        /\ used(p, cons) \in Nat /\ used(p, cons) + n <= u
        /\ Offset(p) \in 0 .. (Size - 1) /\ Offset(p) + n <= Size
    BY Zenon, EntryFacts
  <2> HIDE DEF p, n, u, d
  <2>0. u \in Nat /\ u <= Size /\ d \in Nat /\ u <= d
    BY <1>1, <1>3, <1>4
  <2>2. /\ Offset(p) + k \in 0 .. (Size - 1) /\ Offset(p) + k < Size
        /\ used(p, cons) + k < Size /\ used(p, cons) + k # d
        /\ k \in Nat
    BY SMTT(30), <2>0, <2>1
  <2>3. Offset(p) + k # Offset(push.pos) + push.k
    BY ZenonT(30), <2>1, <2>2, <1>1, <1>4, WordsApart DEF d
  <2> QED
    BY Zenon, <2>2, <2>3 DEF p
<1>6. ASSUME ppc = "rec", NEW k \in 0 .. (push.pad.len - 1)
      PROVE  /\ Offset(prod) + k \in 0 .. (Size - 1)
             /\ Offset(prod) + k # Offset(push.pos) + push.k
  <2>1. Offset(prod) + push.pad.len = Size
    BY <1>6, <1>1 DEF IInv, PushInv
  <2>2. /\ Offset(prod) + k < Size /\ k \in Nat
        /\ u + k < Size /\ u + k # d
    BY <2>1, <1>1, <1>2, <1>3, <1>4, <1>6
  <2> QED
    BY <2>2, <1>1, <1>2, <1>4, WordsApart
<1> QED
  BY <1>1, <1>2, <1>4, <1>5, <1>6

\* encode_pad, one word of it, keeps the invariant: the word lies in the free
\* part of the ring.
LEMMA WritePadInv ==
  ASSUME IInv, WritePad
  PROVE  IInv'
<1> DEFINE o == Offset(push.pos) + push.k
<1>1. /\ prod \in Index /\ push.pos \in Index /\ push.k \in Nat
      /\ push.pad \in Record /\ push.rec \in Record
      /\ push.pad.len \in 0 .. MaxLen /\ push.rec.len \in 0 .. MaxLen
      /\ push \in PushLocals
      /\ mem \in [0 .. (Size - 1) -> Word]
  BY DEF IInv, TypeOK, PushLocals, Record
<1>2. /\ ppc = "pad" /\ push.k < push.pad.len /\ push.pos = prod /\ push.pad.len > 0
      /\ push.pad.kind = "pad" /\ Offset(prod) + push.pad.len = Size
      /\ Holds(mem, prod, push.pad, push.k)
      /\ push.rec.kind = "data" /\ push.rec.len >= MinLen
      /\ push.needed = push.pad.len + push.rec.len
      /\ used(prod, cons) + push.needed <= Size
  BY <1>1 DEF WritePad, IInv, PushInv
<1>3. /\ mem' = [mem EXCEPT ![o] = WordOf(push.pad, push.k)]
      /\ UNCHANGED <<prod, cons, next_seq, cpc, pop, out, queue>>
  BY Zenon DEF WritePad, cvars
<1>4. o \in 0 .. (Size - 1)
  BY <1>2, FreshWord
<1>5. WordOf(push.pad, push.k) \in Word
  BY <1>1, <1>2, WordType
<1>6. wrapping_add(prod, push.pad.len) \in Index
  BY <1>1, AddForm
<1>7. TypeOK'
  <2>1. mem' \in [0 .. (Size - 1) -> Word]
    BY Zenon, <1>1, <1>3, <1>4, <1>5
  <2>2. push' \in PushLocals /\ ppc' \in {"idle", "pad", "rec", "publish"}
    <3>1. push.k + 1 \in 0 .. MaxLen /\ 0 \in 0 .. MaxLen
      BY <1>1, <1>2
    <3> QED
      BY ZenonT(30), <3>1, <1>1, <1>2, <1>6 DEF WritePad, PushLocals
  <2> QED
    BY Zenon, <2>1, <2>2, <1>3 DEF IInv, TypeOK
<1>8. Tiling' /\ PopInv'
  BY <1>3 DEF IInv, Tiling, Tiles, PopInv
<1>9. MemoryHolds'
  <2> SUFFICES ASSUME NEW i \in 1 .. Len(queue), NEW k \in 0 .. (queue[i].rec.len - 1)
               PROVE  mem'[Offset(queue[i].pos) + k] = WordOf(queue[i].rec, k)
    BY <1>3 DEF MemoryHolds, Holds
  <2>1. mem[Offset(queue[i].pos) + k] = WordOf(queue[i].rec, k)
    BY Zenon DEF IInv, MemoryHolds, Holds
  <2>2. Offset(queue[i].pos) + k \in 0 .. (Size - 1) /\ Offset(queue[i].pos) + k # o
    BY Zenon, <1>2, FreshWord
  <2> HIDE DEF o
  <2> QED
    BY <2>1, <2>2, <1>1, <1>3
<1>10. Holds(mem', prod, push.pad, push.k + 1)
  <2>1. Offset(prod) \in 0 .. (Size - 1)
    BY Zenon, <1>1, OffsetRange
  <2> SUFFICES ASSUME NEW k \in 0 .. push.k
               PROVE  mem'[Offset(prod) + k] = WordOf(push.pad, k)
    BY <1>1 DEF Holds
  <2>2. CASE k = push.k
    BY Zenon, <2>2, <1>1, <1>2, <1>3, <1>4
  <2>3. CASE k # push.k
    <3>1. k \in 0 .. (push.k - 1)
      BY <2>3, <1>1
    <3>2. o = Offset(prod) + push.k
      BY Zenon, <1>2
    <3>3. push.k \in Nat /\ push.pad.len \in Nat /\ push.k < push.pad.len
      BY <1>1, <1>2
    <3>4. Offset(prod) + push.pad.len = Size
      BY Zenon, <1>2
    <3> HIDE DEF o
    <3>5. Offset(prod) + k # o /\ Offset(prod) + k \in 0 .. (Size - 1)
      BY <3>1, <3>2, <3>3, <3>4, <2>1
    <3> QED
      BY Zenon, <3>1, <3>5, <1>1, <1>2, <1>3, <1>4 DEF Holds
  <2> QED
    BY Zenon, <2>2, <2>3
<1>11. PushInv'
  <2>1. CASE push.k + 1 < push.pad.len
    <3>1. push' = [push EXCEPT !.k = push.k + 1] /\ ppc' = "pad"
      BY Zenon, <2>1, <1>2 DEF WritePad
    <3>2. /\ push'.pos = prod /\ push'.k = push.k + 1 /\ push'.pad = push.pad
          /\ push'.rec = push.rec /\ push'.needed = push.needed
      BY <3>1, <1>1, <1>2 DEF PushLocals
    <3> QED
      BY <3>1, <3>2, <2>1, <1>1, <1>2, <1>3, <1>10 DEF PushInv
  <2>2. CASE ~(push.k + 1 < push.pad.len)
    <3>1. /\ push' = [push EXCEPT !.k = 0, !.pos = wrapping_add(push.pos, push.pad.len)]
          /\ ppc' = "rec"
      BY <2>2 DEF WritePad
    <3>2. /\ push'.pos = wrapping_add(prod, push.pad.len) /\ push'.k = 0
          /\ push'.pad = push.pad /\ push'.rec = push.rec /\ push'.needed = push.needed
      BY <3>1, <1>1, <1>2 DEF PushLocals
    <3>3. push.k + 1 = push.pad.len
      BY <2>2, <1>1, <1>2
    <3>4. Offset(push'.pos) = 0
      BY <3>2, <1>1, <1>2, OffsetAdd
    <3>5. Holds(mem', push'.pos, push'.rec, 0)
      BY DEF Holds
    <3> QED
      BY SMTT(30), <3>1, <3>2, <3>3, <3>4, <3>5, <1>1, <1>2, <1>3, <1>10 DEF PushInv
  <2> QED
    BY Zenon, <2>1, <2>2
<1> QED
  BY Zenon, <1>7, <1>8, <1>9, <1>11 DEF IInv

\* One word of the record's encoder keeps the invariant, for the same reason.
LEMMA WriteRecordInv ==
  ASSUME IInv, WriteRecord
  PROVE  IInv'
<1> DEFINE o == Offset(push.pos) + push.k
<1>1. /\ prod \in Index /\ push.pos \in Index /\ push.k \in Nat
      /\ push.pad \in Record /\ push.rec \in Record
      /\ push.pad.len \in 0 .. MaxLen /\ push.rec.len \in 0 .. MaxLen
      /\ push \in PushLocals
      /\ mem \in [0 .. (Size - 1) -> Word]
  BY DEF IInv, TypeOK, PushLocals, Record
<1>2. /\ ppc = "rec" /\ push.k < push.rec.len
      /\ Offset(push.pos) + push.rec.len <= Size
      /\ Holds(mem, push.pos, push.rec, push.k)
  BY Zenon DEF WriteRecord, IInv, PushInv
<1>3. /\ mem' = [mem EXCEPT ![o] = WordOf(push.rec, push.k)]
      /\ UNCHANGED <<prod, cons, next_seq, cpc, pop, out, queue>>
  BY Zenon DEF WriteRecord, cvars
<1>4. o \in 0 .. (Size - 1)
  BY Zenon, <1>2, FreshWord
<1>5. WordOf(push.rec, push.k) \in Word
  BY <1>1, <1>2, WordType
<1>6. TypeOK'
  <2>1. mem' \in [0 .. (Size - 1) -> Word]
    BY Zenon, <1>1, <1>3, <1>4, <1>5
  <2>2. push' \in PushLocals /\ ppc' \in {"idle", "pad", "rec", "publish"}
    <3>1. push.k + 1 \in 0 .. MaxLen
      BY <1>1, <1>2
    <3> QED
      BY ZenonT(30), <3>1, <1>1, <1>2 DEF WriteRecord, PushLocals
  <2> QED
    BY Zenon, <2>1, <2>2, <1>3 DEF IInv, TypeOK
<1>7. Tiling' /\ PopInv'
  BY ZenonT(30), <1>3 DEF IInv, Tiling, Tiles, PopInv
<1>8. MemoryHolds'
  <2> SUFFICES ASSUME NEW i \in 1 .. Len(queue), NEW k \in 0 .. (queue[i].rec.len - 1)
               PROVE  mem'[Offset(queue[i].pos) + k] = WordOf(queue[i].rec, k)
    BY <1>3 DEF MemoryHolds, Holds
  <2>1. mem[Offset(queue[i].pos) + k] = WordOf(queue[i].rec, k)
    BY DEF IInv, MemoryHolds, Holds
  <2>2. Offset(queue[i].pos) + k \in 0 .. (Size - 1) /\ Offset(queue[i].pos) + k # o
    BY Zenon, <1>2, FreshWord
  <2> HIDE DEF o
  <2> QED
    BY Zenon, <2>1, <2>2, <1>1, <1>3
<1>9. Holds(mem', push.pos, push.rec, push.k + 1)
  <2>1. Offset(push.pos) \in 0 .. (Size - 1)
    BY Zenon, <1>1, OffsetRange
  <2> SUFFICES ASSUME NEW k \in 0 .. push.k
               PROVE  mem'[Offset(push.pos) + k] = WordOf(push.rec, k)
    BY <1>1 DEF Holds
  <2>2. CASE k = push.k
    BY Zenon, <2>2, <1>1, <1>3, <1>4
  <2>3. CASE k # push.k
    <3>1. k \in 0 .. (push.k - 1)
      BY <2>3, <1>1
    <3>2. push.k \in Nat /\ push.rec.len \in Nat /\ push.k < push.rec.len
      BY <1>1, <1>2
    <3>3. Offset(push.pos) + push.rec.len <= Size
      BY Zenon, <1>2
    <3>4. Offset(push.pos) + k # o /\ Offset(push.pos) + k \in 0 .. (Size - 1)
      BY <3>1, <3>2, <3>3, <2>1
    <3> HIDE DEF o
    <3> QED
      BY Zenon, <3>1, <3>4, <1>1, <1>2, <1>3, <1>4 DEF Holds
  <2> QED
    BY Zenon, <2>2, <2>3
<1>10. push.pad.len > 0 => Holds(mem', prod, push.pad, push.pad.len)
  <2> SUFFICES ASSUME push.pad.len > 0, NEW k \in 0 .. (push.pad.len - 1)
               PROVE  mem'[Offset(prod) + k] = WordOf(push.pad, k)
    BY Zenon DEF Holds
  <2>1. mem[Offset(prod) + k] = WordOf(push.pad, k)
    BY Zenon, <1>2 DEF IInv, PushInv, Holds
  <2>2. Offset(prod) + k \in 0 .. (Size - 1) /\ Offset(prod) + k # o
    BY Zenon, <1>2, FreshWord
  <2> HIDE DEF o
  <2> QED
    BY Zenon, <2>1, <2>2, <1>1, <1>3
<1>11. PushInv'
  <2>1. CASE push.k + 1 < push.rec.len
    <3>1. push' = [push EXCEPT !.k = push.k + 1] /\ ppc' = "rec"
      BY Zenon, <2>1, <1>2 DEF WriteRecord
    <3>2. /\ push'.pos = push.pos /\ push'.k = push.k + 1 /\ push'.pad = push.pad
          /\ push'.rec = push.rec /\ push'.needed = push.needed
      BY Zenon, <3>1, <1>1 DEF PushLocals
    <3> QED
      BY <3>1, <3>2, <2>1, <1>1, <1>2, <1>3, <1>9, <1>10 DEF IInv, PushInv
  <2>2. CASE ~(push.k + 1 < push.rec.len)
    <3>1. push' = push /\ ppc' = "publish"
      BY Zenon, <2>2 DEF WriteRecord
    <3>2. push.k + 1 = push.rec.len
      BY SMTT(30), <2>2, <1>1, <1>2
    <3> QED
      BY <3>1, <3>2, <1>1, <1>2, <1>3, <1>9, <1>10 DEF IInv, PushInv
  <2> QED
    BY Zenon, <2>1, <2>2
<1> QED
  BY <1>6, <1>7, <1>8, <1>11 DEF IInv

\* A push given up on an encoder error keeps the invariant: what it wrote was
\* never published.
LEMMA EncodeFailsInv ==
  ASSUME IInv, EncodeFails
  PROVE  IInv'
<1>1. /\ ppc' = "idle" /\ push' = IdlePush
      /\ UNCHANGED <<mem, prod, cons, next_seq, cpc, pop, out, queue>>
  BY Zenon DEF EncodeFails, cvars
<1>2. TypeOK'
  BY Zenon, <1>1, IdleTypes DEF IInv, TypeOK
<1> QED
  BY <1>1, <1>2 DEF IInv, Tiling, Tiles, MemoryHolds, Holds, PushInv, PopInv

\* pop_into's load of the producer index keeps the invariant.
LEMMA PopLoadInv ==
  ASSUME IInv, PopLoad
  PROVE  IInv'
<1>1. /\ cpc' = "peek" /\ pop' = [IdlePop EXCEPT !.avail = used(prod, cons)]
      /\ used(prod, cons) # 0
      /\ UNCHANGED <<mem, prod, cons, next_seq, ppc, push, queue, out>>
  BY Zenon DEF PopLoad, pvars
<1>2. prod \in Index /\ cons \in Index /\ queue \in Seq(Entry)
  BY Zenon DEF IInv, TypeOK
<1>3. used(prod, cons) \in 0 .. Size
  BY <1>2, UsedNat DEF IInv, Tiling, Tiles
<1>4. pop' \in PopLocals /\ pop'.avail = used(prod, cons)
  BY ZenonT(30), <1>1, <1>3, IdleTypes DEF PopLocals, IdlePop
<1>5. TypeOK'
  BY Zenon, <1>1, <1>4 DEF IInv, TypeOK
<1>6. queue # <<>>
  BY <1>1, <1>2, UsedZero DEF IInv, Tiling, Tiles
<1>7. 1 \in 1 .. Len(queue)
  BY <1>2, <1>6
<1>8. queue[1].rec.len <= used(prod, cons)
  <2>1. /\ queue[1].rec.len \in 1 .. MaxLen /\ used(queue[1].pos, cons) \in Nat
        /\ used(queue[1].pos, cons) + queue[1].rec.len <= used(prod, cons)
    BY Zenon, <1>7, EntryFacts
  <2> QED
    BY <2>1, <1>3
<1>9. PopInv'
  BY <1>1, <1>4, <1>6, <1>8 DEF PopInv, IdlePop
<1> QED
  BY <1>1, <1>5, <1>9 DEF IInv, Tiling, Tiles, MemoryHolds, Holds, PushInv

\* The oldest record starts at cons, and its words are in memory from there.
LEMMA HeadFacts ==
  ASSUME IInv, queue # <<>>
  PROVE  /\ 1 \in 1 .. Len(queue)
         /\ queue[1].pos = cons /\ queue[1].rec \in Record
         /\ queue[1].rec.len \in 1 .. MaxLen
         /\ Offset(cons) \in 0 .. (Size - 1) /\ Offset(cons) + queue[1].rec.len <= Size
         /\ \A k \in 0 .. (queue[1].rec.len - 1) :
              mem[Offset(cons) + k] = WordOf(queue[1].rec, k)
<1>1. 1 \in 1 .. Len(queue)
  BY DEF IInv, TypeOK
<1>2. queue[1].pos = cons
  BY Zenon DEF IInv, Tiling, Tiles
<1>3. /\ queue[1].rec \in Record /\ queue[1].rec.len \in 1 .. MaxLen
      /\ Offset(cons) \in 0 .. (Size - 1) /\ Offset(cons) + queue[1].rec.len <= Size
  BY Zenon, <1>1, <1>2, EntryFacts
<1>4. Holds(mem, queue[1].pos, queue[1].rec, queue[1].rec.len)
  BY Zenon, <1>1 DEF IInv, MemoryHolds
<1> QED
  BY ZenonT(30), <1>1, <1>2, <1>3, <1>4 DEF Holds

\* pop_into's look at the header keeps the invariant: what it finds there is
\* the oldest published record's header, so none of its checks fails.
LEMMA PeekInv ==
  ASSUME IInv, Peek
  PROVE  IInv'
<1> DEFINE w == mem[Offset(cons)]
<1>1. cpc = "peek" /\ queue # <<>> /\ queue[1].rec.len <= pop.avail
  BY Zenon DEF Peek, IInv, PopInv
<1>2. /\ queue[1].rec.len \in 1 .. MaxLen
      /\ Offset(cons) \in 0 .. (Size - 1) /\ Offset(cons) + queue[1].rec.len <= Size
      /\ 1 \in 1 .. Len(queue)
  BY Zenon, <1>1, HeadFacts
<1>3. w = WordOf(queue[1].rec, 0)
  <2>1. 0 \in 0 .. (queue[1].rec.len - 1)
    BY <1>2
  <2>2. mem[Offset(cons) + 0] = WordOf(queue[1].rec, 0)
    BY Zenon, <2>1, <1>1, HeadFacts
  <2> QED
    BY <2>2, <1>2
<1>4. w.k = 0 /\ w.rec = queue[1].rec
  BY <1>3 DEF WordOf
<1>5. w.rec.len >= MinLenOf(w.rec.kind)
  BY Zenon, <1>2, <1>4 DEF IInv, Tiling, Tiles
<1>6. w.rec.len <= contiguous_tail(cons)
  BY <1>2, <1>4 DEF contiguous_tail
<1> HIDE DEF w
<1>7. HeaderOk(w, pop.avail) /\ w.rec.len <= contiguous_tail(cons)
  BY <1>1, <1>2, <1>4, <1>5, <1>6 DEF HeaderOk
<1>8. /\ cpc' = "copy" /\ pop' = [pop EXCEPT !.len = w.rec.len]
      /\ UNCHANGED <<mem, prod, cons, next_seq, ppc, push, queue, out>>
  BY Zenon, <1>7 DEF Peek, pvars, w
<1>9. pop \in PopLocals
  BY Zenon DEF IInv, TypeOK
<1>10. cpc = "peek" => pop.scratch = <<>>
  BY Zenon DEF IInv, PopInv
<1>11. /\ pop' \in PopLocals /\ pop'.len = queue[1].rec.len /\ pop'.avail = pop.avail
       /\ pop'.scratch = <<>>
  <2>1. w.rec.len = queue[1].rec.len /\ w.rec.len \in 0 .. MaxLen
    BY <1>2, <1>4
  <2>2. pop' \in PopLocals
    BY ZenonT(30), <2>1, <1>8, <1>9 DEF PopLocals
  <2>3. pop'.len = w.rec.len /\ pop'.avail = pop.avail /\ pop'.scratch = pop.scratch
    BY Zenon, <1>8, <1>9 DEF PopLocals
  <2> QED
    BY Zenon, <2>1, <2>2, <2>3, <1>1, <1>10
<1>12. TypeOK'
  BY Zenon, <1>8, <1>11 DEF IInv, TypeOK
<1>13. PopInv'
  BY SMTT(30), <1>1, <1>2, <1>8, <1>11 DEF PopInv
<1> QED
  BY <1>8, <1>12, <1>13 DEF IInv, Tiling, Tiles, MemoryHolds, Holds, PushInv

\* copy_out, one word of it, keeps the invariant: the word copied is that of
\* the oldest published record.
LEMMA CopyWordInv ==
  ASSUME IInv, CopyWord
  PROVE  IInv'
<1> DEFINE n == Len(pop.scratch)
           w == mem[Offset(cons) + n]
<1>1. /\ cpc = "copy" /\ queue # <<>> /\ pop.len = queue[1].rec.len
      /\ queue[1].rec.len <= pop.avail
      /\ pop \in PopLocals /\ pop.scratch \in Seq(Word)
  BY ZenonT(30) DEF CopyWord, IInv, PopInv, TypeOK, PopLocals
<1>2. n \in 0 .. (pop.len - 1)
  BY SMTT(30), <1>1 DEF CopyWord, PopLocals
<1>3. w = WordOf(queue[1].rec, n) /\ queue[1].rec \in Record
  BY Zenon, <1>1, <1>2, HeadFacts
<1>4. w \in Word
  BY Zenon, <1>1, <1>2, <1>3, WordType
<1>5. /\ cpc' = "copy" /\ pop' = [pop EXCEPT !.scratch = Append(pop.scratch, w)]
      /\ UNCHANGED <<mem, prod, cons, next_seq, ppc, push, queue, out>>
  BY Zenon, <1>1 DEF CopyWord, pvars
<1> HIDE DEF w
<1>6. /\ pop'.scratch = Append(pop.scratch, w) /\ pop'.len = pop.len
      /\ pop'.avail = pop.avail
  BY Zenon, <1>1, <1>5 DEF PopLocals
<1>7. Append(pop.scratch, w) \in Seq(Word)
  BY <1>1, <1>4
<1>8. pop' \in PopLocals
  BY ZenonT(30), <1>1, <1>5, <1>7 DEF PopLocals
<1>9. TypeOK'
  BY Zenon, <1>5, <1>8 DEF IInv, TypeOK
<1>10. PopInv'
  <2>1. Len(pop'.scratch) = n + 1
    BY <1>1, <1>6
  <2>2. ASSUME NEW i \in 1 .. (n + 1)
        PROVE  pop'.scratch[i] = WordOf(queue[1].rec, i - 1)
    <3>1. CASE i = n + 1
      BY <3>1, <1>1, <1>2, <1>3, <1>6
    <3>2. CASE i # n + 1
      <4>1. i \in 1 .. Len(pop.scratch)
        BY <3>2, <1>2
      <4>2. pop.scratch[i] = WordOf(queue[1].rec, i - 1)
        BY Zenon, <4>1, <1>1 DEF IInv, PopInv
      <4> QED
        BY <4>1, <4>2, <1>1, <1>6
    <3> QED
      BY Zenon, <3>1, <3>2
  <2>3. n + 1 <= pop.len
    BY <1>1, <1>2 DEF PopLocals
  <2> QED
    BY Zenon, <2>1, <2>2, <2>3, <1>1, <1>5, <1>6 DEF PopInv
<1> QED
  BY <1>5, <1>9, <1>10 DEF IInv, Tiling, Tiles, MemoryHolds, Holds, PushInv

\* The store of the consumer index keeps the invariant: the rest of the queue
\* tiles what is left.
LEMMA ConsumeInv ==
  ASSUME IInv, Consume
  PROVE  IInv' /\ queue # <<>> /\ queue' = Tail(queue) /\ out' = Words(queue[1].rec)
<1> DEFINE r == queue[1].rec
           n == queue[1].rec.len
<1>1. /\ cpc = "copy" /\ queue # <<>> /\ pop.len = n /\ Len(pop.scratch) = n
      /\ \A i \in 1 .. n : pop.scratch[i] = WordOf(r, i - 1)
      /\ pop.scratch \in Seq(Word) /\ queue \in Seq(Entry)
      /\ prod \in Index /\ cons \in Index
  BY Zenon DEF Consume, IInv, PopInv, TypeOK, PopLocals
<1>2. n \in 1 .. MaxLen /\ r \in Record /\ 1 \in 1 .. Len(queue) /\ queue[1].pos = cons
  BY Zenon, <1>1, HeadFacts
<1>3. pop.scratch[1].k = 0 /\ pop.scratch[1].rec = r
  <2>1. pop.scratch[1] = WordOf(r, 0)
    BY <1>1, <1>2
  <2> QED
    BY <2>1 DEF WordOf
<1>4. HeaderOk(pop.scratch[1], pop.len)
  <2>1. n >= MinLenOf(r.kind)
    BY Zenon, <1>2 DEF IInv, Tiling, Tiles
  <2> QED
    BY <2>1, <1>1, <1>2, <1>3 DEF HeaderOk
<1>5. /\ cons' = wrapping_add(cons, n) /\ queue' = Tail(queue) /\ out' = pop.scratch
      /\ cpc' = "idle" /\ pop' = IdlePop
      /\ UNCHANGED <<mem, prod, next_seq, ppc, push>>
  BY Zenon, <1>1, <1>4 DEF Consume, pvars
<1>6. pop.scratch = Words(r)
  <2>1. pop.scratch = [i \in 1 .. n |-> pop.scratch[i]]
    BY <1>1
  <2>2. Words(r) = [i \in 1 .. n |-> WordOf(r, i - 1)]
    BY Zenon DEF Words
  <2> QED
    BY <2>1, <2>2, <1>1, Zenon
<1>7. n \in 0 .. Size /\ cons' \in Index
  BY SMTT(30), <1>1, <1>2, <1>5, AddForm
<1>8. TypeOK'
  <2>1. queue' \in Seq(Entry)
    BY <1>1, <1>5
  <2> QED
    BY Zenon, <2>1, <1>1, <1>5, <1>7, IdleTypes DEF IInv, TypeOK
<1>9. /\ Len(queue') = Len(queue) - 1
      /\ \A i \in 1 .. Len(queue') : queue'[i] = queue[i + 1] /\ i + 1 \in 1 .. Len(queue)
  BY <1>1, <1>5
<1>10. used(prod, cons') = used(prod, cons) - n /\ used(prod, cons) \in Nat /\ n <= used(prod, cons)
  <2>1. /\ used(queue[1].pos, cons) \in Nat /\ used(prod, cons) \in Nat
        /\ used(queue[1].pos, cons) + n <= used(prod, cons)
    BY Zenon, <1>2, EntryFacts
  <2>2. n <= used(prod, cons)
    BY SMTT(30), <2>1, <1>2
  <2> QED
    BY <2>1, <2>2, <1>1, <1>5, <1>7, UsedConsume
<1>11. ASSUME NEW j \in 1 .. Len(queue), j # 1
       PROVE  /\ used(queue[j].pos, cons') = used(queue[j].pos, cons) - n
              /\ used(queue[j].pos, cons) \in Nat
  <2>1. used(queue[1].pos, cons) + n <= used(queue[j].pos, cons)
    BY <1>2, <1>11 DEF IInv, Tiling, Tiles
  <2>2. queue[j].pos \in Index /\ used(queue[j].pos, cons) \in Nat
    BY Zenon, EntryFacts
  <2>3. used(queue[1].pos, cons) = 0
    BY Zenon, <1>1, <1>2, UsedZero
  <2>4. n <= used(queue[j].pos, cons)
    BY SMTT(30), <2>1, <2>2, <2>3, <1>2
  <2> QED
    BY SMTT(30), <2>2, <2>4, <1>1, <1>5, <1>7, UsedConsume
<1>12. Tiling'
  <2>1. used(prod, cons') <= Size
    BY <1>10, <1>2 DEF IInv, Tiling, Tiles
  <2>2. wrapping_add(cons, n) = IF Len(queue) = 1 THEN prod ELSE queue[2].pos
    <3>1. wrapping_add(queue[1].pos, queue[1].rec.len)
            = IF 1 = Len(queue) THEN prod ELSE queue[1 + 1].pos
      BY ZenonT(30), <1>2 DEF IInv, Tiling, Tiles
    <3> QED
      BY <3>1, <1>2
  <2>3. queue' = <<>> => prod' = cons'
    <3> SUFFICES ASSUME queue' = <<>> PROVE prod' = cons'
      OBVIOUS
    <3>1. Len(queue') = 0
      OBVIOUS
    <3>2. Len(queue) = 1
      BY <3>1, <1>1, <1>9
    <3> QED
      BY <3>2, <2>2, <1>5
  <2>4. queue' # <<>> => queue'[1].pos = cons'
    BY SMTT(30), <2>2, <1>1, <1>2, <1>5, <1>9
  <2>5. ASSUME NEW i \in 1 .. Len(queue')
        PROVE  /\ queue'[i].rec.len >= MinLenOf(queue'[i].rec.kind)
               /\ Offset(queue'[i].pos) + queue'[i].rec.len <= Size
               /\ used(queue'[i].pos, cons') + queue'[i].rec.len <= used(prod', cons')
               /\ wrapping_add(queue'[i].pos, queue'[i].rec.len)
                    = IF i = Len(queue') THEN prod' ELSE queue'[i + 1].pos
    <3>1. queue'[i] = queue[i + 1] /\ i + 1 \in 1 .. Len(queue) /\ i + 1 # 1
      BY <1>9, <1>1
    <3>2. /\ queue[i + 1].rec.len >= MinLenOf(queue[i + 1].rec.kind)
          /\ Offset(queue[i + 1].pos) + queue[i + 1].rec.len <= Size
          /\ used(queue[i + 1].pos, cons) + queue[i + 1].rec.len <= used(prod, cons)
          /\ wrapping_add(queue[i + 1].pos, queue[i + 1].rec.len)
               = IF i + 1 = Len(queue) THEN prod ELSE queue[(i + 1) + 1].pos
      BY Zenon, <3>1 DEF IInv, Tiling, Tiles
    <3>3. /\ used(queue[i + 1].pos, cons') = used(queue[i + 1].pos, cons) - n
          /\ used(queue[i + 1].pos, cons) \in Nat
      BY Zenon, <3>1, <1>11
    <3>4. queue[i + 1].rec.len \in 1 .. MaxLen
      BY Zenon, <3>1, EntryFacts
    <3>5. used(queue[i + 1].pos, cons') + queue[i + 1].rec.len <= used(prod, cons')
      <4> DEFINE a == used(queue[i + 1].pos, cons)
                 b == used(prod, cons)
                 l == queue[i + 1].rec.len
      <4>1. a \in Int /\ b \in Int /\ l \in Int /\ n \in Int /\ a + l <= b
        BY SMTT(30), <3>2, <3>3, <3>4, <1>2, <1>10
      <4> HIDE DEF a, b, l, n
      <4>2. (a - n) + l <= b - n
        BY <4>1
      <4> QED
        BY Zenon, <4>2, <3>3, <1>10 DEF a, b, l, n
    <3>6. i # Len(queue') => queue'[i + 1] = queue[(i + 1) + 1]
      BY SMTT(30), <1>9, <1>1
    <3>7. i = Len(queue') <=> i + 1 = Len(queue)
      BY <1>9, <1>1
    <3> QED
      BY Zenon, <3>1, <3>2, <3>5, <3>6, <3>7, <1>5
  <2>6. ASSUME NEW i \in 1 .. Len(queue'), NEW j \in 1 .. Len(queue'), i < j
        PROVE  used(queue'[i].pos, cons') + queue'[i].rec.len <= used(queue'[j].pos, cons')
    <3>1. /\ queue'[i] = queue[i + 1] /\ i + 1 \in 1 .. Len(queue) /\ i + 1 # 1
          /\ queue'[j] = queue[j + 1] /\ j + 1 \in 1 .. Len(queue) /\ j + 1 # 1
          /\ i + 1 < j + 1
      BY <1>9, <1>1, <2>6
    <3>2. used(queue[i + 1].pos, cons) + queue[i + 1].rec.len <= used(queue[j + 1].pos, cons)
      BY Zenon, <3>1 DEF IInv, Tiling, Tiles
    <3>3. /\ used(queue[i + 1].pos, cons') = used(queue[i + 1].pos, cons) - n
          /\ used(queue[j + 1].pos, cons') = used(queue[j + 1].pos, cons) - n
          /\ used(queue[i + 1].pos, cons) \in Nat /\ used(queue[j + 1].pos, cons) \in Nat
      BY Zenon, <3>1, <1>11
    <3>4. queue[i + 1].rec.len \in 1 .. MaxLen
      BY ZenonT(30), <3>1, EntryFacts
    <3> DEFINE a == used(queue[i + 1].pos, cons)
               b == used(queue[j + 1].pos, cons)
               l == queue[i + 1].rec.len
    <3>5. a \in Int /\ b \in Int /\ l \in Int /\ n \in Int /\ a + l <= b
      BY SMTT(30), <3>2, <3>3, <3>4, <1>2
    <3> HIDE DEF a, b, l, n
    <3>6. (a - n) + l <= b - n
      BY <3>5
    <3> QED
      BY Zenon, <3>1, <3>3, <3>6 DEF a, b, l, n
  <2> QED
    BY Zenon, <2>1, <2>3, <2>4, <2>5, <2>6, <1>5 DEF Tiling, Tiles
<1>13. MemoryHolds'
  BY <1>5, <1>9 DEF IInv, MemoryHolds, Holds
<1>14. PushInv'
  <2>1. used(prod, cons') <= used(prod, cons)
    BY <1>2, <1>10
  <2>2. ppc # "idle" => used(prod, cons') + push.needed <= Size
    <3> SUFFICES ASSUME ppc # "idle" PROVE used(prod, cons') + push.needed <= Size
      OBVIOUS
    <3>1. push.needed \in Nat
      BY DEF IInv, TypeOK, PushLocals
    <3>2. used(prod, cons) + push.needed <= Size
      BY Zenon DEF IInv, PushInv
    <3> QED
      BY SMTT(30), <3>1, <3>2, <1>2, <1>10
  <2> QED
    BY <2>2, <1>5 DEF IInv, PushInv, Holds
<1>15. PopInv'
  BY Zenon, <1>5 DEF PopInv
<1> QED
  BY ZenonT(30), <1>1, <1>5, <1>6, <1>8, <1>12, <1>13, <1>14, <1>15 DEF IInv

\* Appending a record where the tiling ends extends the tiling.
LEMMA TilesAppend ==
  ASSUME NEW q \in Seq(Entry), NEW p \in Index, NEW c \in Index, NEW r \in Record,
         Tiles(q, p, c),
         r.len >= MinLenOf(r.kind), r.len >= 1,
         Offset(p) + r.len <= Size, used(p, c) + r.len <= Size
  PROVE  /\ Tiles(Append(q, [rec |-> r, pos |-> p]), wrapping_add(p, r.len), c)
         /\ Append(q, [rec |-> r, pos |-> p]) \in Seq(Entry)
         /\ wrapping_add(p, r.len) \in Index
         /\ used(wrapping_add(p, r.len), c) = used(p, c) + r.len
<1> DEFINE e == [rec |-> r, pos |-> p]
           s == Append(q, e)
           t == wrapping_add(p, r.len)
           u == used(p, c)
<1>1. r.len \in 1 .. MaxLen /\ r.len \in 0 .. Size /\ e \in Entry /\ e.rec = r /\ e.pos = p
  BY DEF Record, Entry
<1>2. t \in Index /\ used(t, c) = u + r.len /\ u \in Nat
  <2>1. t \in Index
    BY Zenon, <1>1, AddForm
  <2>2. u \in Nat
    BY Zenon, UsedNat
  <2>3. used(t, c) = u + r.len
    BY <1>1, UsedAdd
  <2> QED
    BY Zenon, <2>1, <2>2, <2>3
<1> HIDE DEF e, t
<1>3. /\ s \in Seq(Entry) /\ Len(s) = Len(q) + 1 /\ s[Len(q) + 1] = e /\ Len(q) \in Nat
      /\ \A i \in 1 .. Len(q) : s[i] = q[i]
      /\ s # <<>>
  BY <1>1
<1> HIDE DEF s
<1>4. s[1].pos = c
  <2>1. CASE q = <<>>
    BY <2>1, <1>1, <1>3 DEF Tiles
  <2>2. CASE q # <<>>
    BY SMTT(30), <2>2, <1>3 DEF Tiles
  <2> QED
    BY Zenon, <2>1, <2>2
<1>5. ASSUME NEW i \in 1 .. Len(s)
      PROVE  /\ s[i].rec.len >= MinLenOf(s[i].rec.kind)
             /\ Offset(s[i].pos) + s[i].rec.len <= Size
             /\ used(s[i].pos, c) + s[i].rec.len <= used(t, c)
             /\ wrapping_add(s[i].pos, s[i].rec.len)
                  = IF i = Len(s) THEN t ELSE s[i + 1].pos
  <2>1. CASE i = Len(q) + 1
    BY SMTT(30), <2>1, <1>1, <1>2, <1>3 DEF t
  <2>2. CASE i # Len(q) + 1
    <3>1. i \in 1 .. Len(q) /\ s[i] = q[i] /\ i # Len(s)
      BY <2>2, <1>3
    <3>2. /\ q[i].rec.len >= MinLenOf(q[i].rec.kind)
          /\ Offset(q[i].pos) + q[i].rec.len <= Size
          /\ used(q[i].pos, c) + q[i].rec.len <= u
          /\ wrapping_add(q[i].pos, q[i].rec.len)
               = IF i = Len(q) THEN p ELSE q[i + 1].pos
      BY Zenon, <3>1 DEF Tiles
    <3>3. q[i].pos \in Index /\ q[i].rec.len \in Nat
      <4>1. q[i] \in Entry
        BY <3>1
      <4> QED
        BY SMTT(30), <4>1 DEF Entry, Record
    <3>4. used(q[i].pos, c) \in Nat
      BY ZenonT(30), <3>3, UsedNat
    <3>5. used(q[i].pos, c) + q[i].rec.len <= used(t, c)
      <4> HIDE DEF u
      <4> QED
        BY SMTT(30), <3>2, <3>3, <3>4, <1>1, <1>2
    <3>6. s[i + 1].pos = IF i = Len(q) THEN p ELSE q[i + 1].pos
      BY SMTT(30), <3>1, <1>1, <1>3
    <3> QED
      BY Zenon, <3>1, <3>2, <3>5, <3>6
  <2> QED
    BY Zenon, <2>1, <2>2
<1>6. ASSUME NEW i \in 1 .. Len(s), NEW j \in 1 .. Len(s), i < j
      PROVE  used(s[i].pos, c) + s[i].rec.len <= used(s[j].pos, c)
  <2>1. i \in 1 .. Len(q) /\ s[i] = q[i]
    BY <1>3, <1>6
  <2>2. CASE j = Len(q) + 1
    <3>1. s[j].pos = p
      BY Zenon, <2>2, <1>1, <1>3
    <3>2. used(q[i].pos, c) + q[i].rec.len <= used(p, c)
      BY Zenon, <2>1 DEF Tiles
    <3> QED
      BY Zenon, <3>1, <3>2, <2>1
  <2>3. CASE j # Len(q) + 1
    <3>1. j \in 1 .. Len(q) /\ s[j] = q[j]
      BY SMTT(30), <2>3, <1>3
    <3>2. used(q[i].pos, c) + q[i].rec.len <= used(q[j].pos, c)
      BY ZenonT(30), <2>1, <3>1, <1>6 DEF Tiles
    <3> QED
      BY Zenon, <2>1, <3>1, <3>2
  <2> QED
    BY Zenon, <2>2, <2>3
<1>7. used(t, c) <= Size
  BY Zenon, <1>2
<1>8. Tiles(s, t, c)
  BY Zenon, <1>3, <1>4, <1>5, <1>6, <1>7 DEF Tiles
<1> QED
  BY Zenon, <1>2, <1>3, <1>8 DEF s, t, e

\* The Release store of the producer index keeps the invariant: the pad and
\* the record it publishes continue the tiling.
LEMMA PublishInv ==
  ASSUME IInv, Publish
  PROVE  IInv'
<1> DEFINE padEntry == [rec |-> push.pad, pos |-> prod]
           recEntry == [rec |-> push.rec, pos |-> push.pos]
           padded == IF push.pad.len > 0 THEN Append(queue, padEntry) ELSE queue
<1>1. /\ prod' = wrapping_add(prod, push.needed)
      /\ queue' = Append(padded, recEntry)
      /\ ppc' = "idle" /\ push' = IdlePush
      /\ UNCHANGED <<mem, cons, next_seq, cpc, pop, out>>
  BY Zenon DEF Publish, cvars
<1>2. /\ prod \in Index /\ cons \in Index /\ push.pos \in Index /\ queue \in Seq(Entry)
      /\ push.pad \in Record /\ push.rec \in Record
      /\ push.pad.len \in 0 .. MaxLen /\ push.rec.len \in 0 .. MaxLen
  BY Zenon DEF IInv, TypeOK, PushLocals, Record
<1>3. /\ ppc = "publish"
      /\ push.rec.kind = "data" /\ push.rec.len >= MinLen
      /\ used(prod, cons) + push.needed <= Size
      /\ Offset(push.pos) + push.rec.len <= Size
      /\ Holds(mem, push.pos, push.rec, push.rec.len)
      /\ push.pad.len = 0 => push.pos = prod /\ push.needed = push.rec.len
      /\ push.pad.len > 0 =>
           /\ push.pad.kind = "pad"
           /\ Offset(prod) + push.pad.len = Size
           /\ push.needed = push.pad.len + push.rec.len
           /\ push.pos = wrapping_add(prod, push.pad.len)
           /\ Holds(mem, prod, push.pad, push.pad.len)
  BY Zenon DEF Publish, IInv, PushInv
<1>4. used(prod, cons) \in Nat
  BY Zenon, <1>2, UsedNat
<1>5. push.rec.len >= MinLenOf(push.rec.kind) /\ push.rec.len >= 1
  BY SMTT(30), <1>2, <1>3 DEF MinLenOf
<1>6. /\ Tiles(padded, push.pos, cons) /\ padded \in Seq(Entry)
      /\ used(push.pos, cons) + push.rec.len <= Size
      /\ prod' = wrapping_add(push.pos, push.rec.len)
      /\ \A i \in 1 .. Len(padded) : Holds(mem, padded[i].pos, padded[i].rec, padded[i].rec.len)
  <2>1. CASE push.pad.len = 0
    BY SMTT(30), <2>1, <1>1, <1>2, <1>3 DEF IInv, Tiling, MemoryHolds
  <2>2. CASE push.pad.len > 0
    <3>1. push.pad.len >= MinLenOf(push.pad.kind) /\ push.pad.len >= 1
      BY <2>2, <1>2, <1>3 DEF MinLenOf
    <3>2. Offset(prod) + push.pad.len <= Size /\ used(prod, cons) + push.pad.len <= Size
      BY SMTT(30), <2>2, <1>2, <1>3, <1>4
    <3>3. Tiles(queue, prod, cons)
      BY DEF IInv, Tiling
    <3>4. /\ Tiles(Append(queue, padEntry), wrapping_add(prod, push.pad.len), cons)
          /\ Append(queue, padEntry) \in Seq(Entry)
          /\ used(wrapping_add(prod, push.pad.len), cons) = used(prod, cons) + push.pad.len
      BY SMTT(30), <3>1, <3>2, <3>3, <1>2, TilesAppend
    <3>5. used(push.pos, cons) + push.rec.len <= Size
      BY SMTT(30), <3>4, <2>2, <1>2, <1>3, <1>4
    <3>6. prod' = wrapping_add(push.pos, push.rec.len)
      <4>1. /\ push.pad.len \in 0 .. Size /\ push.rec.len \in 0 .. Size
            /\ push.pad.len + push.rec.len <= Size
        BY <2>2, <1>2, <1>3, <1>4
      <4> QED
        BY SMTT(30), <4>1, <2>2, <1>1, <1>2, <1>3, AddAdd
    <3>7. ASSUME NEW i \in 1 .. Len(padded)
          PROVE  Holds(mem, padded[i].pos, padded[i].rec, padded[i].rec.len)
      <4>1. CASE i = Len(queue) + 1
        BY SMTT(30), <4>1, <2>2, <1>2, <1>3
      <4>2. CASE i # Len(queue) + 1
        <5>1. i \in 1 .. Len(queue) /\ padded[i] = queue[i]
          BY SMTT(30), <4>2, <2>2, <1>2
        <5> HIDE DEF padded
        <5> QED
          BY Zenon, <5>1 DEF IInv, MemoryHolds
      <4> QED
        BY Zenon, <4>1, <4>2
    <3> QED
      BY Zenon, <3>4, <3>5, <3>6, <3>7, <2>2, <1>3
  <2> QED
    BY SMTT(30), <2>1, <2>2, <1>2
<1> HIDE DEF padded
<1>7. /\ Tiles(queue', prod', cons) /\ queue' \in Seq(Entry) /\ prod' \in Index
  BY SMTT(30), <1>1, <1>2, <1>3, <1>5, <1>6, TilesAppend
<1>8. MemoryHolds'
  <2> SUFFICES ASSUME NEW i \in 1 .. Len(queue')
               PROVE  Holds(mem, queue'[i].pos, queue'[i].rec, queue'[i].rec.len)
    BY Zenon, <1>1 DEF MemoryHolds
  <2>1. CASE i = Len(padded) + 1
    BY <2>1, <1>1, <1>3, <1>6
  <2>2. CASE i # Len(padded) + 1
    <3>1. i \in 1 .. Len(padded) /\ queue'[i] = padded[i]
      BY <2>2, <1>1, <1>6
    <3> QED
      BY Zenon, <3>1, <1>6
  <2> QED
    BY Zenon, <2>1, <2>2
<1>9. TypeOK'
  BY Zenon, <1>1, <1>7, IdleTypes DEF IInv, TypeOK
<1>10. PushInv'
  BY Zenon, <1>1 DEF PushInv
<1>11. PopInv'
  <2>1. queue # <<>> => queue' # <<>> /\ queue'[1] = queue[1]
    <3> SUFFICES ASSUME queue # <<>> PROVE queue' # <<>> /\ queue'[1] = queue[1]
      OBVIOUS
    <3>1. padded # <<>> /\ padded[1] = queue[1]
      BY <1>2 DEF padded
    <3> QED
      BY <3>1, <1>1, <1>6
  <2> QED
    BY ZenonT(30), <2>1, <1>1 DEF IInv, PopInv
<1> QED
  BY Zenon, <1>1, <1>7, <1>8, <1>9, <1>10, <1>11 DEF IInv, Tiling
-----------------------------------------------------------------------------
\* Every step of either half keeps the inductive invariant.
LEMMA NextInv ==
  ASSUME IInv, [Next]_vars
  PROVE  IInv'
<1>1. ASSUME NEW len \in MinLen .. MaxLen, TryPush(len)
      PROVE  IInv'
  BY Zenon, <1>1, TryPushInv
<1>2. CASE WritePad
  BY Zenon, <1>2, WritePadInv
<1>3. CASE WriteRecord
  BY Zenon, <1>3, WriteRecordInv
<1>4. CASE EncodeFails
  BY <1>4, EncodeFailsInv
<1>5. CASE Publish
  BY <1>5, PublishInv
<1>6. CASE PopLoad
  BY <1>6, PopLoadInv
<1>7. CASE Peek
  BY <1>7, PeekInv
<1>8. CASE CopyWord
  BY <1>8, CopyWordInv
<1>9. CASE Consume
  BY Zenon, <1>9, ConsumeInv
<1>10. CASE UNCHANGED vars
  BY ZenonT(30), <1>10 DEF vars, IInv, TypeOK, Tiling, MemoryHolds, PushInv, PopInv
<1> QED
  BY Zenon, <1>1, <1>2, <1>3, <1>4, <1>5, <1>6, <1>7, <1>8, <1>9, <1>10 DEF Next

\* The inductive invariant holds in every reachable state.
THEOREM Invariance == Spec => []IInv
BY InitInv, NextInv, PTL DEF Spec

\* For every ring size, record size and index width the ring stays well
\* typed: try_push and pop_into keep both indices in range.
THEOREM TypeCorrect == Spec => []TypeOK
<1>1. IInv => TypeOK
  BY Zenon DEF IInv
<1> QED
  BY <1>1, Invariance, PTL

\* For every instance, pop_into never reports BadLen or Truncated on a ring
\* that try_push alone writes.
THEOREM FramingHolds == Spec => []FramingNeverFails
<1>1. IInv => FramingNeverFails
  BY Zenon DEF IInv, PopInv, FramingNeverFails
<1> QED
  BY <1>1, Invariance, PTL

\* For every instance, no published record is split over the ring's end.
THEOREM NeverSplit == Spec => []NeverWrapsTheEnd
<1>1. IInv => NeverWrapsTheEnd
  <2> SUFFICES ASSUME IInv, NEW i \in DOMAIN queue
               PROVE  Offset(queue[i].pos) + queue[i].rec.len <= Size
    BY Zenon DEF NeverWrapsTheEnd
  <2>1. i \in 1 .. Len(queue)
    BY DEF IInv, TypeOK
  <2> QED
    BY Zenon, <2>1 DEF IInv, Tiling, Tiles
<1> QED
  BY <1>1, Invariance, PTL

\* A word that lies before the ring's end has the offset one expects.
LEMMA WordOffset ==
  ASSUME NEW p \in Index, NEW k \in Nat, Offset(p) + k < Size
  PROVE  Offset(wrapping_add(p, k)) = Offset(p) + k
<1>1. Offset(p) \in 0 .. (Size - 1)
  BY Zenon, OffsetRange
<1>2. Offset(p) + k <= Size /\ Offset(p) + k # Size
  BY <1>1
<1> QED
  BY Zenon, <1>2, OffsetAdd

\* The invariant keeps the two halves out of each other's words.
LEMMA InvOwnership ==
  ASSUME IInv
  PROVE  OwnershipDisjoint
<1>1. /\ prod \in Index /\ cons \in Index /\ push.pos \in Index
      /\ push.needed \in 0 .. Size /\ push.k \in Nat
      /\ push.pad.len \in 0 .. MaxLen /\ push.rec.len \in 0 .. MaxLen
      /\ ppc \in {"idle", "pad", "rec", "publish"}
  BY DEF IInv, TypeOK, PushLocals, Record
<1>2. used(prod, cons) \in 0 .. Size
  BY <1>1, UsedNat DEF IInv, Tiling, Tiles
<1>3. ASSUME ppc \in {"pad", "rec"}, NEW i \in 0 .. (push.needed - 1)
      PROVE  Offset(wrapping_add(prod, i)) \notin Unconsumed
  <2> SUFFICES ASSUME NEW j \in 0 .. (used(prod, cons) - 1),
                      Offset(wrapping_add(prod, i)) = Offset(wrapping_add(cons, j))
               PROVE  FALSE
    BY Zenon DEF Unconsumed
  <2> DEFINE u == used(prod, cons)
  <2>1. u + push.needed <= Size
    BY Zenon, <1>3 DEF IInv, PushInv
  <2>2. wrapping_add(cons, u) = prod
    BY <1>1, <1>2, AddUsed
  <2> HIDE DEF u
  <2>3. u \in 0 .. Size
    BY Zenon, <1>2 DEF u
  <2>4. /\ i \in 0 .. Size /\ u + i <= Size /\ u + i \in 0 .. (Size - 1)
        /\ j \in 0 .. (Size - 1) /\ j < u
    BY <2>1, <2>3, <1>1, RingAssumption DEF u
  <2>5. wrapping_add(prod, i) = wrapping_add(cons, u + i)
    BY <2>2, <2>3, <2>4, <1>1, AddAdd
  <2>6. u + i = j
    BY Zenon, <2>4, <2>5, <1>1, OffsetInjective
  <2> QED
    BY <2>3, <2>4, <2>6
<1>4. Claimed \cap Unconsumed = {}
  BY Zenon, <1>3 DEF Claimed
<1>5. ASSUME ppc \in {"pad", "rec"}
      PROVE  Offset(push.pos) + push.k \in Claimed
  <2>1. /\ push.pad.len = 0 =>
             /\ ppc = "rec" /\ push.pos = prod /\ push.needed = push.rec.len
        /\ push.pad.len > 0 =>
             /\ Offset(prod) + push.pad.len = Size
             /\ push.needed = push.pad.len + push.rec.len
             /\ push.pos = IF ppc = "pad" THEN prod ELSE wrapping_add(prod, push.pad.len)
        /\ ppc = "pad" => push.k < push.pad.len
        /\ ppc = "rec" => push.k < push.rec.len /\ Offset(push.pos) + push.rec.len <= Size
    BY Zenon, <1>1, <1>5 DEF IInv, PushInv
  <2>2. Offset(push.pos) \in 0 .. (Size - 1) /\ Offset(prod) \in 0 .. (Size - 1)
    BY Zenon, <1>1, OffsetRange
  <2>3. CASE push.pos = prod
    <3>1. push.k \in 0 .. (push.needed - 1) /\ Offset(prod) + push.k < Size
      BY <2>1, <2>2, <2>3, <1>1, <1>5
    <3>2. Offset(wrapping_add(prod, push.k)) = Offset(push.pos) + push.k
      BY Zenon, <3>1, <2>3, <1>1, WordOffset
    <3> QED
      BY Zenon, <3>1, <3>2, <1>5 DEF Claimed
  <2>4. CASE push.pos # prod
    <3>1. /\ ppc = "rec" /\ push.pad.len > 0 /\ push.pos = wrapping_add(prod, push.pad.len)
          /\ push.pad.len + push.k \in 0 .. (push.needed - 1)
          /\ Offset(push.pos) + push.k < Size
      BY <2>1, <2>2, <2>4, <1>1, <1>5
    <3>2. /\ push.pad.len \in 0 .. Size /\ push.k \in 0 .. Size
          /\ push.pad.len + push.k <= Size
      BY <3>1, <1>1, RingAssumption
    <3>3. Offset(wrapping_add(push.pos, push.k)) = Offset(push.pos) + push.k
      BY Zenon, <3>1, <1>1, WordOffset
    <3>4. wrapping_add(push.pos, push.k) = wrapping_add(prod, push.pad.len + push.k)
      BY <3>1, <3>2, <1>1, AddAdd
    <3> QED
      BY Zenon, <3>1, <3>3, <3>4, <1>5 DEF Claimed
  <2> QED
    BY Zenon, <2>3, <2>4
<1>6. ASSUME cpc = "copy", NEW i \in 0 .. (pop.len - 1)
      PROVE  Offset(cons) + i \in Unconsumed
  <2>1. queue # <<>> /\ pop.len = queue[1].rec.len
    BY Zenon, <1>6 DEF IInv, PopInv
  <2>2. /\ 1 \in 1 .. Len(queue) /\ queue[1].pos = cons /\ queue[1].rec.len \in 1 .. MaxLen
        /\ Offset(cons) \in 0 .. (Size - 1) /\ Offset(cons) + queue[1].rec.len <= Size
    BY Zenon, <2>1, HeadFacts
  <2>3. used(cons, cons) + queue[1].rec.len <= used(prod, cons)
    BY Zenon, <2>2 DEF IInv, Tiling, Tiles
  <2>4. used(cons, cons) = 0
    BY Zenon, <1>1, UsedZero
  <2>5. i \in Nat /\ Offset(cons) + i < Size /\ i \in 0 .. (used(prod, cons) - 1)
    BY SMTT(30), <2>1, <2>2, <2>3, <2>4, <1>2
  <2>6. Offset(wrapping_add(cons, i)) = Offset(cons) + i
    BY <2>5, <1>1, WordOffset
  <2> QED
    BY Zenon, <2>5, <2>6 DEF Unconsumed
<1> QED
  BY Zenon, <1>4, <1>5, <1>6 DEF OwnershipDisjoint

\* For every instance, try_push and pop_into never touch the same word at the
\* same time: the soundness argument of ring.rs.
THEOREM Ownership == Spec => []OwnershipDisjoint
BY Invariance, InvOwnership, PTL

\* PadBelongs, and what makes it inductive: a push that has a pad has numbered
\* its record right behind it.
PadInv ==
    /\ PadBelongs
    /\ ppc # "idle" /\ push.pad.len > 0 => push.rec.seq = NextSeq(push.pad.seq)

\* Every step keeps it: alloc_seq is called for the pad and then for the record,
\* one store publishes both, and a pop takes the oldest.
LEMMA NextPadInv ==
  ASSUME IInv, PadInv, [Next]_vars
  PROVE  PadInv'
<1>0. queue \in Seq(Entry) /\ prod \in Index /\ push \in PushLocals
  BY DEF IInv, TypeOK
<1>1. ASSUME NEW len \in MinLen .. MaxLen, TryPush(len)
      PROVE  PadInv'
  <2>1. /\ push'.pad.len > 0 => push'.rec.seq = NextSeq(push'.pad.seq)
        /\ queue' = queue
    BY <1>1 DEF TryPush, NoRecord
  <2> QED
    BY Zenon, <2>1 DEF PadInv, PadBelongs
<1>2. CASE WritePad
  BY ZenonT(30), <1>2, <1>0 DEF WritePad, PadInv, PadBelongs, PushLocals
<1>3. CASE WriteRecord
  BY ZenonT(30), <1>3, <1>0 DEF WriteRecord, PadInv, PadBelongs, PushLocals
<1>4. CASE EncodeFails
  BY <1>4 DEF EncodeFails, PadInv, PadBelongs
<1>5. CASE Publish
  <2> DEFINE padEntry == [rec |-> push.pad, pos |-> prod]
             recEntry == [rec |-> push.rec, pos |-> push.pos]
             n == Len(queue)
  <2>1. /\ ppc = "publish" /\ ppc' = "idle" /\ push.rec.kind = "data"
        /\ push.pad \in Record /\ push.rec \in Record /\ push.pos \in Index
        /\ push.pad.len \in Nat
    BY SMTT(30), <1>5, <1>0 DEF Publish, IInv, PushInv, PushLocals, Record
  <2>2. \A i \in 1 .. n : queue[i].rec.kind = "pad" => i < n
    BY SMTT(30), <1>0 DEF PadInv, PadBelongs
  <2>3. CASE push.pad.len = 0
    <3>1. queue' = Append(queue, recEntry)
      BY <1>5, <2>3 DEF Publish
    <3>2. /\ DOMAIN queue' = 1 .. (n + 1) /\ Len(queue') = n + 1 /\ queue'[n + 1] = recEntry
          /\ \A i \in 1 .. n : queue'[i] = queue[i]
      BY <3>1, <1>0
    <3> QED
      BY <3>2, <2>1, <2>2, <1>0 DEF PadInv, PadBelongs
  <2>4. CASE push.pad.len > 0
    <3>1. queue' = Append(Append(queue, padEntry), recEntry)
      BY Zenon, <1>5, <2>4 DEF Publish
    <3>2. /\ DOMAIN queue' = 1 .. (n + 2) /\ Len(queue') = n + 2
          /\ queue'[n + 1] = padEntry /\ queue'[n + 2] = recEntry
          /\ \A i \in 1 .. n : queue'[i] = queue[i]
      BY <3>1, <1>0
    <3>3. push.rec.seq = NextSeq(push.pad.seq)
      BY Zenon, <2>1, <2>4 DEF PadInv
    <3>4. Offset(push.pos) = 0
      <4>1. Offset(prod) + push.pad.len = Size /\ push.pos = wrapping_add(prod, push.pad.len)
        BY Zenon, <2>1, <2>4 DEF IInv, PushInv
      <4> QED
        BY SMTT(30), <4>1, <2>1, <1>0, OffsetAdd
    <3> QED
      BY <3>2, <3>3, <3>4, <2>1, <2>2, <1>0 DEF PadInv, PadBelongs
  <2> QED
    BY <2>1, <2>3, <2>4
<1>6. CASE PopLoad \/ Peek \/ CopyWord
  BY Zenon, <1>6 DEF PopLoad, Peek, CopyWord, pvars, PadInv, PadBelongs
<1>7. CASE Consume
  <2>1. queue # <<>> /\ queue' = Tail(queue)
    BY Zenon, <1>7, ConsumeInv
  <2>2. /\ DOMAIN queue' = 1 .. (Len(queue) - 1) /\ Len(queue') = Len(queue) - 1
        /\ \A i \in 1 .. (Len(queue) - 1) : queue'[i] = queue[i + 1]
    BY SMTT(30), <2>1, <1>0
  <2>3. UNCHANGED <<ppc, push>>
    BY Zenon, <1>7 DEF Consume, pvars
  <2>4. ASSUME NEW i \in DOMAIN queue', queue'[i].rec.kind = "pad"
        PROVE  /\ i < Len(queue') /\ queue'[i + 1].rec.kind = "data"
               /\ Offset(queue'[i + 1].pos) = 0
               /\ queue'[i + 1].rec.seq = NextSeq(queue'[i].rec.seq)
    <3>1. i + 1 \in DOMAIN queue /\ queue'[i] = queue[i + 1] /\ Len(queue) \in Nat
      BY <2>2, <1>0
    <3>2. /\ i + 1 < Len(queue) /\ queue[i + 2].rec.kind = "data"
          /\ Offset(queue[i + 2].pos) = 0
          /\ queue[i + 2].rec.seq = NextSeq(queue[i + 1].rec.seq)
      BY <3>1, <2>2, <2>4 DEF PadInv, PadBelongs
    <3> QED
      BY <3>1, <3>2, <2>2
  <2> QED
    BY Zenon, <2>3, <2>4 DEF PadInv, PadBelongs
<1>8. CASE UNCHANGED vars
  BY <1>8 DEF vars, pvars, PadInv, PadBelongs
<1> QED
  BY <1>1, <1>2, <1>3, <1>4, <1>5, <1>6, <1>7, <1>8 DEF Next

\* For every instance, and whatever pushes the encoder gives up, a consumer that
\* meets a tail pad finds its record behind it at the start of the ring, under
\* the next number: try_push publishes the two with one store.
THEOREM PadsBelong == Spec => []PadBelongs
<1>1. Init => PadInv
  BY DEF Init, PadInv, PadBelongs
<1>2. PadInv => PadBelongs
  BY Zenon DEF PadInv
<1> QED
  BY <1>1, <1>2, Invariance, NextPadInv, PTL DEF Spec

\* When the ring holds two largest records less a word, an empty ring takes
\* any record.  from_raw asks only for room for one record; the channel's
\* smallest ring, 16 KiB against records of at most 4 KiB, has that room.
THEOREM EmptyAccepts ==
  ASSUME Size >= 2 * MaxLen - 1
  PROVE  Spec => []EmptyRingAccepts
<1>1. IInv => EmptyRingAccepts
  <2> SUFFICES ASSUME IInv, prod = cons, NEW len \in MinLen .. MaxLen
               PROVE  free(prod, cons) >= bytes_needed(prod, len)
    BY Zenon DEF EmptyRingAccepts
  <2>1. prod \in Index /\ cons \in Index
    BY Zenon DEF IInv, TypeOK
  <2>2. used(prod, cons) = 0
    BY Zenon, <2>1, UsedZero
  <2>3. free(prod, cons) = Size
    BY <2>2, RingAssumption DEF free
  <2>4. contiguous_tail(prod) \in 1 .. Size
    BY Zenon, <2>1, OffsetRange
  <2>5. CASE len > contiguous_tail(prod)
    <3>1. bytes_needed(prod, len) = contiguous_tail(prod) + len
      BY Zenon, <2>5 DEF bytes_needed
    <3> QED
      BY <3>1, <2>3, <2>4, <2>5, RingAssumption
  <2>6. CASE ~(len > contiguous_tail(prod))
    <3>1. bytes_needed(prod, len) = len
      BY Zenon, <2>6 DEF bytes_needed
    <3> QED
      BY <3>1, <2>3, RingAssumption
  <2> QED
    BY Zenon, <2>5, <2>6
<1> QED
  BY <1>1, Invariance, PTL

-----------------------------------------------------------------------------
(***************************************************************************)
(* The refinement.  Publishing is the abstract push, consuming the         *)
(* abstract pop, and every other step of either half is invisible.         *)
(***************************************************************************)
Items(q) == [i \in DOMAIN q |-> q[i].rec]

\* A queue abstracts to a sequence of its length.
LEMMA ItemsType ==
  ASSUME NEW q \in Seq(Entry)
  PROVE  /\ Items(q) \in Seq(Record) /\ Len(Items(q)) = Len(q)
         /\ \A i \in 1 .. Len(q) : Items(q)[i] = q[i].rec
<1> DEFINE n == Len(q)
<1>1. n \in Nat /\ DOMAIN q = 1 .. n /\ \A i \in 1 .. n : q[i] \in Entry
  OBVIOUS
<1>2. \A i \in 1 .. n : q[i].rec \in Record
  BY <1>1 DEF Entry
<1> HIDE DEF n
<1>3. Items(q) = [i \in 1 .. n |-> q[i].rec]
  BY <1>1, Zenon DEF Items
<1>4. [i \in 1 .. n |-> q[i].rec] \in Seq(Record) /\ Len([i \in 1 .. n |-> q[i].rec]) = n
  BY <1>1, <1>2
<1> QED
  BY Zenon, <1>3, <1>4 DEF n

\* Appending to the queue appends to what it abstracts to.
LEMMA ItemsAppend ==
  ASSUME NEW q \in Seq(Entry), NEW e \in Entry
  PROVE  /\ Items(q) \in Seq(Record) /\ Len(Items(q)) = Len(q)
         /\ Append(q, e) \in Seq(Entry)
         /\ Items(Append(q, e)) = Append(Items(q), e.rec)
<1>1. Items(q) \in Seq(Record) /\ Len(Items(q)) = Len(q)
  BY Zenon, ItemsType
<1>2. Append(q, e) \in Seq(Entry) /\ Len(Append(q, e)) = Len(q) + 1
  OBVIOUS
<1>3. Items(Append(q, e)) \in Seq(Record) /\ Len(Items(Append(q, e))) = Len(q) + 1
  BY ZenonT(30), <1>2, ItemsType
<1>4. Append(Items(q), e.rec) \in Seq(Record) /\ Len(Append(Items(q), e.rec)) = Len(q) + 1
  BY <1>1 DEF Entry
<1>5. ASSUME NEW i \in 1 .. (Len(q) + 1)
      PROVE  Items(Append(q, e))[i] = Append(Items(q), e.rec)[i]
  BY <1>1, <1>2 DEF Items, Entry
<1> QED
  BY <1>1, <1>2, <1>3, <1>4, <1>5

\* The initial states are initial states of the abstract queue.
LEMMA RefinesInit ==
  ASSUME Init
  PROVE  Fifo!Init
BY DEF Init, Fifo!Init

\* Publishing a record, or a pad and a record, is a push.
LEMMA RefinesPush ==
  ASSUME IInv, Publish
  PROVE  Fifo!Push
<1> DEFINE padEntry == [rec |-> push.pad, pos |-> prod]
           recEntry == [rec |-> push.rec, pos |-> push.pos]
           padded == IF push.pad.len > 0 THEN Append(queue, padEntry) ELSE queue
           items == Items(queue)
<1>1. queue' = Append(padded, recEntry) /\ out' = out
  BY Zenon DEF Publish, cvars
<1>2. queue \in Seq(Entry) /\ padEntry \in Entry /\ recEntry \in Entry
  BY DEF IInv, TypeOK, PushLocals, Entry
<1>3. items \in Seq(Record) /\ push.pad \in Record /\ push.rec \in Record
  BY ZenonT(30), <1>2, ItemsAppend DEF Entry
<1>4. \/ Items(queue') = Append(items, push.rec)
      \/ Items(queue') = Append(Append(items, push.pad), push.rec)
  <2>1. CASE push.pad.len > 0
    <3>1. padded \in Seq(Entry) /\ Items(padded) = Append(items, push.pad)
      BY Zenon, <2>1, <1>2, ItemsAppend
    <3>2. Items(queue') = Append(Items(padded), push.rec)
      BY ZenonT(30), <3>1, <1>1, <1>2, ItemsAppend
    <3> QED
      BY Zenon, <3>1, <3>2
  <2>2. CASE ~(push.pad.len > 0)
    BY Zenon, <2>2, <1>1, <1>2, ItemsAppend
  <2> QED
    BY Zenon, <2>1, <2>2
<1> HIDE DEF items
<1>5. /\ Len(Items(queue')) \in {Len(items) + 1, Len(items) + 2}
      /\ SubSeq(Items(queue'), 1, Len(items)) = items
  BY SMTT(30), <1>3, <1>4
<1> QED
  BY Zenon, <1>1, <1>5 DEF items, Items, Fifo!Push

\* Consuming is a pop: what was copied is the oldest record.
LEMMA RefinesPop ==
  ASSUME IInv, Consume
  PROVE  Fifo!Pop
<1>1. queue # <<>> /\ queue' = Tail(queue) /\ out' = Words(queue[1].rec)
  BY ConsumeInv
<1>2. queue \in Seq(Entry)
  BY DEF IInv, TypeOK
<1>3. Items(queue) # <<>> /\ Items(queue') = Tail(Items(queue)) /\ Head(Items(queue)) = queue[1].rec
  <2>1. Items(queue) \in Seq(Record) /\ Len(Items(queue)) = Len(queue) /\ Len(queue) >= 1
    BY <1>1, <1>2, ItemsType
  <2>2. Tail(queue) \in Seq(Entry) /\ Len(Tail(queue)) = Len(queue) - 1
    BY <1>1, <1>2
  <2>3. Items(queue') \in Seq(Record) /\ Len(Items(queue')) = Len(queue) - 1
    BY ZenonT(30), <1>1, <2>2, ItemsType
  <2>4. Tail(Items(queue)) \in Seq(Record) /\ Len(Tail(Items(queue))) = Len(queue) - 1
    BY <2>1
  <2>5. ASSUME NEW i \in 1 .. (Len(queue) - 1)
        PROVE  Items(queue')[i] = Tail(Items(queue))[i]
    BY <1>1, <1>2, <2>1, <2>2 DEF Items
  <2>6. Head(Items(queue)) = queue[1].rec
    BY <2>1, <1>2 DEF Items
  <2> QED
    BY SMTT(30), <2>1, <2>3, <2>4, <2>5, <2>6
<1> QED
  BY <1>1, <1>3 DEF Items, Fifo!Pop

\* For every instance, the ring implements the abstract queue: pop_into
\* returns the published records whole, in order and once each, however its
\* word-by-word copy interleaves with a push in progress.
THEOREM Refinement == Spec => ImplementsFifo
<1> DEFINE fvars == <<[i \in DOMAIN queue |-> queue[i].rec], out>>
<1>1. ASSUME IInv, [Next]_vars
      PROVE  [Fifo!Next]_fvars
  <2>1. CASE Publish
    BY Zenon, <1>1, <2>1, RefinesPush DEF Fifo!Next
  <2>2. CASE Consume
    BY Zenon, <1>1, <2>2, RefinesPop DEF Fifo!Next
  <2>3. CASE UNCHANGED <<queue, out>>
    BY <2>3
  <2> QED
    BY Zenon, <1>1, <2>1, <2>2, <2>3 DEF Next, TryPush, WritePad, WriteRecord, EncodeFails,
       PopLoad, Peek, CopyWord, vars, cvars
<1> QED
  BY <1>1, Invariance, RefinesInit, PTL DEF Spec, ImplementsFifo, Fifo!Spec

=============================================================================
