----------------------------- MODULE Translate -----------------------------
(***************************************************************************)
(* From a range of a process's memory to guest memory: the pagemap walk    *)
(* that builds a region's extents (detguest-agent translate.rs).           *)
(*                                                                         *)
(* A pagemap is a function from pages to entries; a page outside its       *)
(* domain cannot be read.                                                  *)
(***************************************************************************)
EXTENDS Naturals, Sequences, FiniteSetsExt

CONSTANTS PAGE,               \* bytes in a page (4096 in the code)
          VTop,               \* the end of the virtual address space (2^64)
          EXTENT_CAPACITY     \* slots in the manifest's extent pool

ASSUME TranslateAssumption ==
    /\ PAGE \in Nat \ {0} /\ VTop \in Nat /\ VTop % PAGE = 0
    /\ EXTENT_CAPACITY \in Nat \ {0}

Ok(v) == [ok |-> TRUE, v |-> v]
Err(e) == [ok |-> FALSE, e |-> e]

-----------------------------------------------------------------------------
decode_entry(entry) ==
    IF entry.swapped THEN Err("Swapped")
    ELSE IF ~entry.present THEN Err("NotPresent")
    ELSE IF entry.pfn = 0 THEN Err("PfnHidden")
    ELSE Ok(entry.pfn * PAGE)

gva_to_gpa(pagemap, vaddr) ==
    LET page == vaddr \div PAGE
        base == decode_entry(pagemap[page])
    IN  IF page \notin DOMAIN pagemap THEN Err("Io")
        ELSE IF base.ok THEN Ok(base.v + (vaddr % PAGE)) ELSE base

\* A page that follows the last extent in guest memory lengthens it.
Coalesce(extents, gpa, chunk) ==
    LET last == extents[Len(extents)]
    IN  IF extents # <<>> /\ last.gpa + last.len = gpa
        THEN [extents EXCEPT ![Len(extents)].len = @ + chunk]
        ELSE Append(extents, [gpa |-> gpa, len |-> chunk])

\* One page of the walk, unless an earlier one has ended it.  A range that ends
\* with the address space has no next address.
WalkPage(pagemap, start, len, acc, p) ==
    LET vaddr == Max({start, p * PAGE})
        next == Min({start + len, (p + 1) * PAGE})
        gpa == gva_to_gpa(pagemap, vaddr)
        extents == Coalesce(acc.v, gpa.v, next - vaddr)
    IN  IF ~acc.ok THEN acc
        ELSE IF ~gpa.ok THEN gpa
        ELSE IF Len(extents) > EXTENT_CAPACITY \/ next = VTop THEN Err("TooManyExtents")
        ELSE Ok(extents)

\* build_extents: page by page, up to the first page that does not translate.
LastPage(start, len) == (start + len - 1) \div PAGE

build_extents(pagemap, start, len) ==
    LET first == start \div PAGE
        n == LastPage(start, len) - first + 1
        walk[i \in 0 .. n] ==
          IF i = 0 THEN Ok(<<>>)
          ELSE WalkPage(pagemap, start, len, walk[i - 1], first + i - 1)
    IN  IF len = 0 THEN Ok(<<>>) ELSE walk[n]

build_error_status(e) ==
    CASE e = "Io" -> "INTERNAL"
      [] e \in {"Swapped", "NotPresent", "PfnHidden"} -> "NOT_PINNED"
      [] e = "TooManyExtents" -> "TOO_MANY_EXTENTS"
=============================================================================
