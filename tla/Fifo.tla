-------------------------------- MODULE Fifo --------------------------------
(***************************************************************************)
(* What a ring promises its two sides: records come out whole, in the      *)
(* order in which they went in, each of them once.  A push adds one record *)
(* or a pad and a record; both become visible in the same step.            *)
(***************************************************************************)
EXTENDS Naturals, Sequences

CONSTANT Words(_)       \* the words a record is made of

VARIABLES items,        \* in the ring, oldest first
          delivered     \* the words the last pop returned

Init == items = <<>> /\ delivered = <<>>

Push ==
    /\ Len(items') \in {Len(items) + 1, Len(items) + 2}
    /\ SubSeq(items', 1, Len(items)) = items
    /\ UNCHANGED delivered

Pop ==
    /\ items # <<>>
    /\ items' = Tail(items)
    /\ delivered' = Words(Head(items))

Next == Push \/ Pop

Spec == Init /\ [][Next]_<<items, delivered>>
=============================================================================
