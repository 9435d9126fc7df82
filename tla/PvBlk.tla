-------------------------------- MODULE PvBlk --------------------------------
(***************************************************************************)
(* The game image copied off the pv-blk device into a file before the unit  *)
(* starts (detguest-agent pvblk.rs).  The device has no capacity register:  *)
(* its size is found by reading whole pages until one is refused, and then  *)
(* the rest in halves.  A file is a sequence of sectors, the unit the code   *)
(* moves data by; the device's sector s holds s.  The checksum keeps every   *)
(* sector it folded with the offset it was folded at, so two streams that    *)
(* agree in it agree.                                                       *)
(***************************************************************************)
EXTENDS Naturals, Sequences, SequencesExt

CONSTANTS SECTORS_PER_PAGE,  \* sectors in the DMA page
          MAX_GAME_SECTORS   \* MAX_GAME_BYTES in sectors

ASSUME PvBlkAssumption ==
  /\ SECTORS_PER_PAGE \in Nat \ {0} /\ MAX_GAME_SECTORS \in Nat
  /\ MAX_GAME_SECTORS % SECTORS_PER_PAGE = 0

Intact == "intact"
\* What can go wrong around the copy: a system call that fails, or a file that
\* does not keep what was written to it.
Mishaps == {Intact, "map", "create", "write", "flush", "reopen", "short", "garbled"}
\* A device: whether it is there, how many sectors it has, and those it cannot read.
Devices(n) ==
  [present : BOOLEAN, sectors : 0 .. n, bad : {{}} \cup {{s} : s \in 0 .. n - 1}]

\* The device's answer to CMD_READ: a range past its end is a bad request, a range
\* with the bad sector an I/O error.
read_sectors(dev, sector, count) ==
  CASE sector + count > dev.sectors -> "BAD_REQUEST"
    [] dev.bad \cap (sector .. sector + count - 1) # {} -> "IO_ERROR"
    [] OTHER -> "OK"

checksum_fold(sum, bytes, offset) ==
  sum \o [i \in 1 .. Len(bytes) |-> <<bytes[i], offset + i - 1>>]

\* The copy so far: the next sector, what was written, its checksum, and how it goes.
Start == [sector |-> 0, out |-> <<>>, sum |-> <<>>, st |-> "reading"]

append(copy, count, mishap) ==
  LET bytes == [i \in 1 .. count |-> copy.sector + i - 1]
  IN IF mishap = "write"
     THEN [copy EXCEPT !.st = "failed"]
     ELSE [copy EXCEPT !.sector = @ + count, !.out = @ \o bytes,
                       !.sum = checksum_fold(@, bytes, copy.sector)]

\* One turn of the loop over whole pages; the cap is looked at after each.
ReadPage(dev, mishap, copy, count) ==
  LET status == read_sectors(dev, copy.sector, count)
      next == append(copy, count, mishap)
  IN CASE copy.st # "reading" -> copy
       [] status = "BAD_REQUEST" -> [copy EXCEPT !.st = "tail"]
       [] status = "OK" /\ next.sector > MAX_GAME_SECTORS -> [next EXCEPT !.st = "failed"]
       [] status = "OK" -> next
       [] OTHER -> [copy EXCEPT !.st = "failed"]

\* One narrower read of the tail.
ReadTail(dev, mishap, copy, count) ==
  LET status == read_sectors(dev, copy.sector, count)
  IN CASE copy.st # "tail" \/ status = "BAD_REQUEST" -> copy
       [] status = "OK" -> append(copy, count, mishap)
       [] OTHER -> [copy EXCEPT !.st = "failed"]

\* Mutant: the tail is narrowed from two sectors.
ReadDeviceShortTail(dev, mishap) ==
  LET pages == [i \in 1 .. dev.sectors \div SECTORS_PER_PAGE + 1 |-> SECTORS_PER_PAGE]
      Page(copy, count) == ReadPage(dev, mishap, copy, count)
      Rest(copy, count) == ReadTail(dev, mishap, copy, count)
      copy == FoldLeft(Rest, FoldLeft(Page, Start, pages), <<2, 1>>)
  IN [copy EXCEPT !.st = IF @ = "tail" /\ copy.sector > 0 THEN "read" ELSE "failed"]

\* read_device: pages until one is refused, the tail in reads of four, two and one
\* sector, and a device without a sector is a fault.
read_device(dev, mishap) ==
  LET pages == [i \in 1 .. dev.sectors \div SECTORS_PER_PAGE + 1 |-> SECTORS_PER_PAGE]
      Page(copy, count) == ReadPage(dev, mishap, copy, count)
      Rest(copy, count) == ReadTail(dev, mishap, copy, count)
      copy == FoldLeft(Rest, FoldLeft(Page, Start, pages), <<4, 2, 1>>)
  IN [copy EXCEPT !.st = IF @ = "tail" /\ copy.sector > 0 THEN "read" ELSE "failed"]

\* What is in the file when it is opened again.
Stored(out, mishap) ==
  CASE mishap = "short" -> Front(out)
    [] mishap = "garbled" -> [out EXCEPT ![1] = Len(out)]
    [] OTHER -> out

\* verify_file reads the file again a page at a time, and compares.
verify_file(file, bytes, sum) ==
  LET chunks == [i \in 0 .. Len(file) \div SECTORS_PER_PAGE |->
                   SubSeq(file, i * SECTORS_PER_PAGE + 1,
                          IF (i + 1) * SECTORS_PER_PAGE < Len(file)
                          THEN (i + 1) * SECTORS_PER_PAGE ELSE Len(file))]
      Fold(acc, i) == [len |-> acc.len + Len(chunks[i]),
                       sum |-> checksum_fold(acc.sum, chunks[i], acc.len)]
      read == FoldLeft(Fold, [len |-> 0, sum |-> <<>>],
                       [i \in 1 .. Len(file) \div SECTORS_PER_PAGE + 1 |-> i - 1])
  IN read.len = bytes /\ read.sum = sum

\* What comes of a copy: every step around it, and the check of the file.
Outcome(dev, mishap, copy) ==
  LET file == Stored(copy.out, mishap)
      ok == /\ mishap # "map" /\ dev.present /\ mishap # "create"
            /\ copy.st = "read"
            /\ mishap \notin {"flush", "reopen"}
            /\ verify_file(file, copy.sector, copy.sum)
  IN [ok |-> ok, bytes |-> IF ok THEN copy.sector ELSE 0, file |-> IF ok THEN file ELSE <<>>]

\* materialize: the mapping, the device's magic, the file, the copy, the check.
materialize(dev, mishap) == Outcome(dev, mishap, read_device(dev, mishap))
=============================================================================
