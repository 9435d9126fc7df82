------------------------------ MODULE RingMath ------------------------------
(***************************************************************************)
(* The index arithmetic of a detchannel ring (detguest-wire, ring.rs).     *)
(* Lengths and positions count 8-byte words: every record is 8-byte        *)
(* aligned (RECORD_ALIGN), so a word is the smallest unit anything moves   *)
(* by.  Indices are free-running unsigned integers that wrap; the code     *)
(* wraps them at 2^32 bytes, here they wrap at Laps * Size words.          *)
(***************************************************************************)
EXTENDS Integers

CONSTANTS Size,     \* words in the ring's data area
          Laps,     \* the index wraps after this many laps of the ring
          MinLen,   \* words in the smallest record that is not a pad
          MaxLen    \* words in the largest record

(***************************************************************************)
(* The code asks for a power of two, so that masking with size - 1 is      *)
(* taking the remainder and the wrap at 2^32 falls on a lap boundary.      *)
(* What the arithmetic needs of that is stated here: the remainder itself, *)
(* and a wrap that is a whole number of laps, at least two of them.        *)
(***************************************************************************)
ASSUME RingAssumption ==
    /\ Size \in Nat \ {0}
    /\ Laps \in Nat /\ Laps >= 2
    /\ MinLen \in Nat \ {0} /\ MaxLen \in Nat
    /\ MinLen <= MaxLen
    /\ MaxLen <= Size

IndexMod == Laps * Size
Index == 0 .. (IndexMod - 1)

wrapping_add(p, n) == (p + n) % IndexMod
wrapping_sub(p, q) == (p - q) % IndexMod

\* pos & mask
Offset(p) == p % Size

used(p, c) == wrapping_sub(p, c)

\* Mutant: one word too many is taken for free.
FreeOneTooMany(p, c) == Size - used(p, c) + 1

\* size.saturating_sub(used): never negative, whatever the two indices are.
free(p, c) == IF used(p, c) >= Size THEN 0 ELSE Size - used(p, c)

contiguous_tail(p) == Size - Offset(p)

\* Mutants: the tail is never padded; the tail is padded for every record.
NeverPads(p, len) == len
AlwaysPads(p, len) == contiguous_tail(p) + len

\* The record alone when it fits before the end of the ring, otherwise the
\* whole tail (which a pad will cover) and the record after it.
bytes_needed(p, len) ==
    IF len > contiguous_tail(p) THEN contiguous_tail(p) + len ELSE len
=============================================================================
