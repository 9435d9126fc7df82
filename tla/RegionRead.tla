---------------------------- MODULE RegionRead -----------------------------
(***************************************************************************)
(* The walk over a region's extents that reads a piece of the region from  *)
(* guest memory (detguest-host manifest.rs, guestmem.rs).  A byte is known *)
(* by its address.                                                         *)
(***************************************************************************)
EXTENDS Translate, SequencesExt

\* GuestMem::read over the segments that are mapped: a read has to lie in one.
locate(segments, gpa, len) ==
    \E s \in segments : gpa >= s.base /\ gpa + len <= s.base + s.size

\* Mutant: what was skipped in one extent is skipped in the next as well.
ReadSkipsAgain(segments, region, offset, want) ==
    LET covered == FoldLeft(LAMBDA n, x : n + x.len, 0, region.extents)
        Walk(acc, x) ==
          IF ~acc.ok \/ Len(acc.v) = want THEN acc
          ELSE IF acc.skip >= x.len THEN [acc EXCEPT !.skip = @ - x.len]
          ELSE LET take == Min({x.len - acc.skip, want - Len(acc.v)})
                   gpa == x.gpa + acc.skip
               IN  IF ~locate(segments, gpa, take) THEN Err("Unmapped")
                   ELSE [acc EXCEPT !.v = @ \o [i \in 1 .. take |-> gpa + i - 1]]
    IN  IF offset + want > region.len \/ covered < region.len THEN Err("OutOfBounds")
        ELSE FoldLeft(Walk, [ok |-> TRUE, v |-> <<>>, skip |-> offset], region.extents)

\* read_region, of a resolved region: the addresses of the bytes that fill the
\* buffer, in order.
read_region(segments, region, offset, want) ==
    LET covered == FoldLeft(LAMBDA n, x : n + x.len, 0, region.extents)
        Walk(acc, x) ==
          IF ~acc.ok \/ Len(acc.v) = want THEN acc
          ELSE IF acc.skip >= x.len THEN [acc EXCEPT !.skip = @ - x.len]
          ELSE LET take == Min({x.len - acc.skip, want - Len(acc.v)})
                   gpa == x.gpa + acc.skip
               IN  IF ~locate(segments, gpa, take) THEN Err("Unmapped")
                   ELSE [acc EXCEPT !.v = @ \o [i \in 1 .. take |-> gpa + i - 1], !.skip = 0]
    IN  IF offset + want > region.len \/ covered < region.len THEN Err("OutOfBounds")
        ELSE FoldLeft(Walk, [ok |-> TRUE, v |-> <<>>, skip |-> offset], region.extents)
=============================================================================
