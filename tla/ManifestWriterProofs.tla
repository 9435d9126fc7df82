------------------------ MODULE ManifestWriterProofs ------------------------
(***************************************************************************)
(* The writer of the region manifest: whatever pages a walk finds and      *)
(* however many regions and extents there are, every step of a seqlock     *)
(* write keeps manifest and ledger in order.                               *)
(***************************************************************************)
EXTENDS Manifest, TLAPS

-----------------------------------------------------------------------------
(***************************************************************************)
(* Induction over the natural numbers in the form the provers can apply:   *)
(* over a set instead of a predicate.                                      *)
(***************************************************************************)
WF == INSTANCE WellFoundedInduction

\* A set of naturals that is not empty has a least element.
LEMMA LeastNatural ==
    ASSUME NEW T \in SUBSET Nat, T # {}
    PROVE  \E m \in T : \A k \in T : m <= k
<1> DEFINE R == WF!OpToRel(<, Nat)
<1>1. WF!IsWellFoundedOn(R, Nat)
  BY WF!NatLessThanWellFounded
<1>2. \A x, y \in Nat : x < y => <<x, y>> \in R
  BY Zenon DEF WF!OpToRel
<1> HIDE DEF R
<1>3. \E m \in T : \A k \in T : ~(<<k, m>> \in R)
  BY Zenon, <1>1, WF!WFMin
<1>4. \E m \in T : \A k \in T : ~(k < m)
  BY Zenon, <1>2, <1>3
<1> QED
  BY <1>4

\* A set that has 0 and, below n, the successor of each of its members has
\* every number up to n.
LEMMA UpTo ==
    ASSUME NEW n \in Nat, NEW T, 0 \in T, \A i \in 0 .. n - 1 : i \in T => i + 1 \in T
    PROVE  \A i \in 0 .. n : i \in T
<1> DEFINE C == {i \in 0 .. n : i \notin T}
<1> SUFFICES ASSUME C # {} PROVE FALSE
  OBVIOUS
<1>1. C \in SUBSET Nat
  OBVIOUS
<1>2. PICK m \in C : \A k \in C : m <= k
  BY Zenon, <1>1, LeastNatural
<1>3. m # 0 /\ m - 1 \in 0 .. n - 1 /\ m - 1 \notin C
  BY <1>2
<1> QED
  BY <1>3

-----------------------------------------------------------------------------
(***************************************************************************)
(* build_extents returns a list of extents or an error.                    *)
(***************************************************************************)
BuildError == {"Io", "Swapped", "NotPresent", "PfnHidden", "TooManyExtents"}
Walked(walk) ==
    IF walk.ok THEN walk = Ok(walk.v) /\ walk.v \in Seq(Extent)
    ELSE walk = Err(walk.e) /\ walk.e \in BuildError

\* The larger and the smaller of two numbers.
LEMMA MaxMinOfTwo ==
    ASSUME NEW a \in Int, NEW b \in Int
    PROVE  /\ Max({a, b}) = IF a >= b THEN a ELSE b
           /\ Min({a, b}) = IF a <= b THEN a ELSE b
<1>1. \E x \in {a, b} : \A y \in {a, b} : x >= y
  OBVIOUS
<1>2. \E x \in {a, b} : \A y \in {a, b} : x <= y
  OBVIOUS
<1>3. Max({a, b}) \in {a, b} /\ \A y \in {a, b} : Max({a, b}) >= y
  BY <1>1 DEF Max
<1>4. Min({a, b}) \in {a, b} /\ \A y \in {a, b} : Min({a, b}) <= y
  BY <1>2 DEF Min
<1> QED
  BY <1>3, <1>4

\* The page of an address, and the addresses of a page.
LEMMA PageFacts ==
    ASSUME NEW v \in Nat
    PROVE  /\ v \div PAGE \in Nat /\ v % PAGE \in Nat
           /\ (v \div PAGE) * PAGE <= v /\ v < (v \div PAGE + 1) * PAGE
<1>1. v = PAGE * (v \div PAGE) + (v % PAGE) /\ v % PAGE \in 0 .. (PAGE - 1) /\ v \div PAGE \in Int
  BY TranslateAssumption
<1> DEFINE q == v \div PAGE
<1>2. q \in Int /\ v = PAGE * q + (v % PAGE)
  BY <1>1
<1> HIDE DEF q
<1>3. q < 0 => PAGE * q <= -PAGE
  BY <1>2, TranslateAssumption
<1>4. q \in Nat
  <2> DEFINE p == PAGE * q
             m == v % PAGE
  <2>1. p \in Int /\ m \in 0 .. (PAGE - 1) /\ PAGE \in Nat /\ v = p + m
    BY <1>1, <1>2, TranslateAssumption
  <2>2. q < 0 => p <= -PAGE
    BY Zenon, <1>3
  <2> HIDE DEF p, m
  <2> QED
    BY <1>2, <2>1, <2>2
<1>5. (q + 1) * PAGE = PAGE * q + PAGE /\ q * PAGE = PAGE * q
  BY <1>4, TranslateAssumption
<1> QED
  BY <1>1, <1>2, <1>4, <1>5, TranslateAssumption DEF q

\* An earlier address is on the same page or on an earlier one.
LEMMA PageMonotone ==
    ASSUME NEW v \in Nat, NEW w \in Nat, v <= w
    PROVE  v \div PAGE <= w \div PAGE
<1> DEFINE p == v \div PAGE
           q == w \div PAGE
<1>1. p \in Nat /\ q \in Nat /\ p * PAGE <= v /\ w < (q + 1) * PAGE
  BY Zenon, PageFacts
<1> HIDE DEF p, q
<1>2. p >= q + 1 => p * PAGE >= (q + 1) * PAGE
  BY <1>1, TranslateAssumption
<1>3. p * PAGE \in Nat /\ (q + 1) * PAGE \in Nat
  BY <1>1, TranslateAssumption
<1> QED
  BY <1>1, <1>2, <1>3 DEF p, q

\* One page's translation.
LEMMA GpaTyped ==
    ASSUME NEW pages \in PageMaps, NEW v \in Nat
    PROVE  LET gpa == gva_to_gpa(pages, v)
           IN  \/ gpa = Ok(gpa.v) /\ gpa.ok /\ gpa.v \in Nat
               \/ gpa = Err(gpa.e) /\ ~gpa.ok /\ gpa.e \in BuildError
<1> DEFINE page == v \div PAGE
<1>1. v % PAGE \in Nat
  BY Zenon, PageFacts
<1>2. CASE page \notin DOMAIN pages
  BY Zenon, <1>2 DEF gva_to_gpa, Err, BuildError
<1>3. CASE page \in DOMAIN pages
  <2> DEFINE base == decode_entry(pages[page])
  <2>1. pages[page].pfn \in Nat
    BY Zenon, <1>3, ManifestAssumption
  <2>2. pages[page].pfn * PAGE \in Nat
    BY <2>1, TranslateAssumption
  <2>3. \/ base = Ok(base.v) /\ base.ok /\ base.v \in Nat
        \/ base = Err(base.e) /\ ~base.ok /\ base.e \in BuildError
    BY ZenonT(30), <2>2 DEF decode_entry, Ok, Err, BuildError
  <2> HIDE DEF base
  <2>4. gva_to_gpa(pages, v) = IF base.ok THEN Ok(base.v + (v % PAGE)) ELSE base
    BY Zenon, <1>3 DEF gva_to_gpa, base
  <2>5. CASE base = Ok(base.v) /\ base.ok /\ base.v \in Nat
    <3>1. gva_to_gpa(pages, v) = Ok(base.v + (v % PAGE)) /\ base.v + (v % PAGE) \in Nat
      BY <1>1, <2>4, <2>5
    <3> QED
      BY <3>1 DEF Ok
  <2>6. CASE base = Err(base.e) /\ ~base.ok /\ base.e \in BuildError
    BY <2>4, <2>6
  <2> QED
    BY Zenon, <2>3, <2>5, <2>6
<1> QED
  BY Zenon, <1>2, <1>3

\* A page is coalesced with the last extent or makes one of its own.
LEMMA CoalesceTyped ==
    ASSUME NEW exts \in Seq(Extent), NEW gpa \in Nat, NEW chunk \in Nat
    PROVE  Coalesce(exts, gpa, chunk) \in Seq(Extent)
<1>1. [gpa |-> gpa, len |-> chunk] \in Extent
  BY DEF Extent
<1>2. CASE exts # <<>> /\ exts[Len(exts)].gpa + exts[Len(exts)].len = gpa
  <2>1. Len(exts) \in DOMAIN exts /\ exts[Len(exts)] \in Extent
    BY <1>2
  <2>2. [exts[Len(exts)] EXCEPT !.len = @ + chunk] \in Extent
    BY SMTT(30), <2>1 DEF Extent
  <2>3. Coalesce(exts, gpa, chunk) = [exts EXCEPT ![Len(exts)] = [exts[Len(exts)] EXCEPT !.len = @ + chunk]]
    BY <1>2, <2>1 DEF Coalesce
  <2> QED
    BY <2>1, <2>2, <2>3
<1>3. CASE ~(exts # <<>> /\ exts[Len(exts)].gpa + exts[Len(exts)].len = gpa)
  <2>1. Coalesce(exts, gpa, chunk) = Append(exts, [gpa |-> gpa, len |-> chunk])
    BY <1>3 DEF Coalesce
  <2> QED
    BY <1>1, <2>1
<1> QED
  BY <1>2, <1>3

\* One page of the walk.
LEMMA WalkPageTyped ==
    ASSUME NEW pages \in PageMaps, NEW acc, Walked(acc),
           NEW p \in Nat, Gva \div PAGE <= p, p <= LastPage(Gva, RegionLen)
    PROVE  Walked(WalkPage(pages, Gva, RegionLen, acc, p))
<1> DEFINE vaddr == Max({Gva, p * PAGE})
           next == Min({Gva + RegionLen, (p + 1) * PAGE})
           gpa == gva_to_gpa(pages, vaddr)
           exts == Coalesce(acc.v, gpa.v, next - vaddr)
<1>1. p * PAGE \in Nat /\ (p + 1) * PAGE \in Nat /\ p * PAGE <= (p + 1) * PAGE
  <2>1. (p + 1) * PAGE = p * PAGE + PAGE
    BY TranslateAssumption
  <2> QED
    BY <2>1, TranslateAssumption
<1>2. Gva < (p + 1) * PAGE
  <2>1. Gva \div PAGE \in Nat /\ Gva < (Gva \div PAGE + 1) * PAGE
    BY Zenon, PageFacts, ManifestAssumption
  <2> DEFINE q == Gva \div PAGE
  <2>2. q \in Nat /\ q <= p
    BY Zenon, <2>1
  <2> HIDE DEF q
  <2>3. (q + 1) * PAGE <= (p + 1) * PAGE
    BY <2>2, TranslateAssumption
  <2>4. (q + 1) * PAGE \in Nat
    BY <2>2, TranslateAssumption
  <2> QED
    BY <1>1, <2>1, <2>3, <2>4, ManifestAssumption DEF q
<1>3. p * PAGE <= Gva + RegionLen
  <2> DEFINE last == Gva + RegionLen - 1
             q == last \div PAGE
  <2>1. last \in Nat
    BY ManifestAssumption
  <2>2. q \in Nat /\ q * PAGE <= last
    BY <2>1, PageFacts
  <2>3. p <= q
    BY DEF LastPage
  <2> HIDE DEF q
  <2>4. p * PAGE <= q * PAGE
    BY <2>2, <2>3, TranslateAssumption
  <2>5. q * PAGE \in Nat
    BY <2>2, TranslateAssumption
  <2> QED
    BY <1>1, <2>1, <2>2, <2>4, <2>5, ManifestAssumption
<1>4. vaddr \in Nat /\ next - vaddr \in Nat
  <2>1. vaddr = IF Gva >= p * PAGE THEN Gva ELSE p * PAGE
    BY <1>1, ManifestAssumption, MaxMinOfTwo
  <2>2. next = IF Gva + RegionLen <= (p + 1) * PAGE THEN Gva + RegionLen ELSE (p + 1) * PAGE
    <3>1. Gva + RegionLen \in Int /\ (p + 1) * PAGE \in Int
      BY <1>1, ManifestAssumption
    <3> QED
      BY ZenonT(30), <3>1, MaxMinOfTwo
  <2> QED
    BY <1>1, <1>2, <1>3, <2>1, <2>2, ManifestAssumption
<1> HIDE DEF vaddr, next
<1>5. \/ gpa = Ok(gpa.v) /\ gpa.ok /\ gpa.v \in Nat
      \/ gpa = Err(gpa.e) /\ ~gpa.ok /\ gpa.e \in BuildError
  BY Zenon, <1>4, GpaTyped
<1> HIDE DEF gpa
<1>6. acc.ok /\ gpa.ok => exts \in Seq(Extent)
  BY ZenonT(30), <1>4, <1>5, CoalesceTyped DEF Walked, Err
<1> HIDE DEF exts
<1> DEFINE res == WalkPage(pages, Gva, RegionLen, acc, p)
<1>7. res = IF ~acc.ok THEN acc
            ELSE IF ~gpa.ok THEN gpa
            ELSE IF Len(exts) > EXTENT_CAPACITY \/ next = VTop THEN Err("TooManyExtents")
            ELSE Ok(exts)
  BY DEF WalkPage, vaddr, next, gpa, exts
<1> HIDE DEF res
<1> SUFFICES Walked(res)
  BY DEF res
<1>8. CASE ~acc.ok
  BY <1>7, <1>8
<1>9. CASE acc.ok /\ ~gpa.ok
  BY <1>5, <1>7, <1>9 DEF Walked
<1>10. CASE acc.ok /\ gpa.ok /\ (Len(exts) > EXTENT_CAPACITY \/ next = VTop)
  <2>1. res = Err("TooManyExtents")
    BY Zenon, <1>7, <1>10
  <2> QED
    BY <2>1 DEF Walked, Err, BuildError
<1>11. CASE acc.ok /\ gpa.ok /\ ~(Len(exts) > EXTENT_CAPACITY \/ next = VTop)
  <2>1. res = Ok(exts) /\ exts \in Seq(Extent)
    BY Zenon, <1>6, <1>7, <1>11
  <2> QED
    BY Zenon, <2>1 DEF Walked, Ok
<1> QED
  BY <1>8, <1>9, <1>10, <1>11

\* The loop of build_extents as a recursive function.
IsWalk(g, pages, first, n) ==
    g = [i \in 0 .. n |->
           IF i = 0 THEN Ok(<<>>)
           ELSE WalkPage(pages, Gva, RegionLen, g[i - 1], first + i - 1)]

\* There is such a function: the loop is defined for any pages.
LEMMA WalkExists ==
    ASSUME NEW pages, NEW first, NEW n \in Nat
    PROVE  \E g : IsWalk(g, pages, first, n)
<1> DEFINE Step(a, i) == WalkPage(pages, Gva, RegionLen, a, first + i - 1)
           Init0 == Ok(<<>>)
           T == {k \in 0 .. n : \E g : g = [i \in 0 .. k |-> IF i = 0 THEN Init0 ELSE Step(g[i - 1], i)]}
<1> HIDE DEF Step, Init0
<1>1. 0 \in T
  <2> DEFINE g == [i \in 0 .. 0 |-> Init0]
  <2>1. g = [i \in 0 .. 0 |-> IF i = 0 THEN Init0 ELSE Step(g[i - 1], i)]
    OBVIOUS
  <2> HIDE DEF g
  <2>2. 0 \in 0 .. n
    OBVIOUS
  <2> QED
    BY <2>1, <2>2
<1>2. ASSUME NEW k \in 0 .. n - 1, k \in T PROVE k + 1 \in T
  <2>1. PICK g : g = [i \in 0 .. k |-> IF i = 0 THEN Init0 ELSE Step(g[i - 1], i)]
    BY Zenon, <1>2
  <2> DEFINE h == [i \in 0 .. k + 1 |-> IF i = k + 1 THEN Step(g[k], k + 1) ELSE g[i]]
  <2>2. \A i \in 0 .. k : g[i] = IF i = 0 THEN Init0 ELSE Step(g[i - 1], i)
    BY Zenon, <2>1
  <2>3. \A i \in 0 .. k : h[i] = g[i]
    OBVIOUS
  <2>4. \A i \in 0 .. k + 1 : h[i] = IF i = 0 THEN Init0 ELSE Step(h[i - 1], i)
    <3> SUFFICES ASSUME NEW i \in 0 .. k + 1
                 PROVE  h[i] = IF i = 0 THEN Init0 ELSE Step(h[i - 1], i)
      OBVIOUS
    <3>1. CASE i = k + 1
      <4>1. i - 1 = k /\ h[k] = g[k] /\ i # 0
        BY <2>3, <3>1
      <4> QED
        BY Zenon, <3>1, <4>1
    <3>2. CASE i # k + 1
      <4>1. i \in 0 .. k /\ (i # 0 => i - 1 \in 0 .. k)
        BY <3>2
      <4> QED
        BY <2>2, <2>3, <4>1
    <3> QED
      BY Zenon, <3>1, <3>2
  <2> HIDE DEF h
  <2>5. h = [i \in 0 .. k + 1 |-> IF i = 0 THEN Init0 ELSE Step(h[i - 1], i)]
    BY Zenon, <2>4 DEF h
  <2> QED
    BY <2>5
<1> HIDE DEF T
<1>3. n \in T
  BY <1>1, <1>2, UpTo
<1> QED
  BY <1>3 DEF T, Step, Init0, IsWalk

\* build_extents of the region's range, whatever the pages are.
LEMMA BuildExtentsTyped ==
    ASSUME NEW pages \in PageMaps
    PROVE  Walked(build_extents(pages, Gva, RegionLen))
<1> DEFINE first == Gva \div PAGE
           n == LastPage(Gva, RegionLen) - first + 1
           walk == CHOOSE g : IsWalk(g, pages, first, n)
<1>1. first \in Nat /\ n \in Nat /\ LastPage(Gva, RegionLen) \in Nat
  <2>1. Gva \in Nat /\ Gva + RegionLen - 1 \in Nat /\ Gva <= Gva + RegionLen - 1
    BY ManifestAssumption
  <2>2. first \in Nat /\ LastPage(Gva, RegionLen) \in Nat /\ first <= LastPage(Gva, RegionLen)
    BY Zenon, <2>1, PageFacts, PageMonotone DEF LastPage
  <2> QED
    BY <2>2
<1>2. build_extents(pages, Gva, RegionLen) = walk[n]
  BY Zenon, ManifestAssumption DEF build_extents, IsWalk
<1> HIDE DEF first, n
<1>3. IsWalk(walk, pages, first, n)
  BY Zenon, <1>1, WalkExists
<1> HIDE DEF walk
<1>5. walk[0] = Ok(<<>>)
  BY <1>1, <1>3 DEF IsWalk
<1>6. \A i \in 1 .. n : walk[i] = WalkPage(pages, Gva, RegionLen, walk[i - 1], first + i - 1)
  BY <1>1, <1>3 DEF IsWalk
<1> DEFINE T == {i \in 0 .. n : Walked(walk[i])}
<1>7. 0 \in T
  <2>1. Walked(Ok(<<>>))
    BY DEF Walked, Ok
  <2> QED
    BY <1>1, <1>5, <2>1
<1>8. ASSUME NEW i \in 0 .. n - 1, i \in T PROVE i + 1 \in T
  <2>1. i + 1 \in 1 .. n /\ i + 1 \in 0 .. n /\ (i + 1) - 1 = i
    BY <1>1
  <2>2. walk[i + 1] = WalkPage(pages, Gva, RegionLen, walk[i], first + i)
    BY <1>1, <1>6, <2>1
  <2>3. first + i \in Nat /\ first <= first + i /\ first + i <= LastPage(Gva, RegionLen)
    BY <1>1 DEF n
  <2>4. Walked(walk[i])
    BY Zenon, <1>8
  <2>5. Walked(walk[i + 1])
    BY Zenon, <2>2, <2>3, <2>4, WalkPageTyped DEF first
  <2> QED
    BY <2>1, <2>5
<1> HIDE DEF T
<1>9. n \in T
  BY <1>1, <1>7, <1>8, UpTo
<1> QED
  BY Zenon, <1>2, <1>9 DEF T

\* What a walk of a region finds: extents, and then the process is the one that
\* runs, or the error of the first page that has none.
LEMMA TranslateTyped ==
    ASSUME NEW owner, NEW pages \in PageMaps
    PROVE  /\ Walked(translate(owner, pages))
           /\ translate(owner, pages).ok => owner = pid /\ alive
BY ZenonT(30), BuildExtentsTyped DEF translate, Walked, Err, BuildError

-----------------------------------------------------------------------------
(***************************************************************************)
(* The order of the accepted links is kept by accept_pending and retain.   *)
(***************************************************************************)
IsKept(g, s, S) ==
    g = [i \in 0 .. Len(s) |->
           IF i = 0 THEN <<>>
           ELSE IF s[i] \in S THEN Append(g[i - 1], s[i]) ELSE g[i - 1]]

\* The loop of Keep is a recursive function, and there is one.
LEMMA KeptExists ==
    ASSUME NEW A, NEW s \in Seq(A), NEW S
    PROVE  \E g : IsKept(g, s, S)
<1> DEFINE n == Len(s)
           Step(a, i) == IF s[i] \in S THEN Append(a, s[i]) ELSE a
           Init0 == <<>>
           T == {k \in 0 .. n : \E g : g = [i \in 0 .. k |-> IF i = 0 THEN Init0 ELSE Step(g[i - 1], i)]}
<1>0. n \in Nat
  OBVIOUS
<1> HIDE DEF n, Step, Init0
<1>1. 0 \in T
  <2> DEFINE g == [i \in 0 .. 0 |-> Init0]
  <2>1. g = [i \in 0 .. 0 |-> IF i = 0 THEN Init0 ELSE Step(g[i - 1], i)]
    OBVIOUS
  <2> HIDE DEF g
  <2>2. 0 \in 0 .. n
    BY <1>0
  <2> QED
    BY Zenon, <2>1, <2>2
<1>2. ASSUME NEW k \in 0 .. n - 1, k \in T PROVE k + 1 \in T
  <2>1. PICK g : g = [i \in 0 .. k |-> IF i = 0 THEN Init0 ELSE Step(g[i - 1], i)]
    BY Zenon, <1>2
  <2> DEFINE h == [i \in 0 .. k + 1 |-> IF i = k + 1 THEN Step(g[k], k + 1) ELSE g[i]]
  <2>2. \A i \in 0 .. k : g[i] = IF i = 0 THEN Init0 ELSE Step(g[i - 1], i)
    BY Zenon, <2>1
  <2>3. \A i \in 0 .. k : h[i] = g[i]
    BY <1>0
  <2>4. \A i \in 0 .. k + 1 : h[i] = IF i = 0 THEN Init0 ELSE Step(h[i - 1], i)
    <3> SUFFICES ASSUME NEW i \in 0 .. k + 1
                 PROVE  h[i] = IF i = 0 THEN Init0 ELSE Step(h[i - 1], i)
      OBVIOUS
    <3>1. CASE i = k + 1
      <4>1. i - 1 = k /\ h[k] = g[k] /\ i # 0
        BY <1>0, <2>3, <3>1
      <4> QED
        BY Zenon, <3>1, <4>1
    <3>2. CASE i # k + 1
      <4>1. i \in 0 .. k /\ (i # 0 => i - 1 \in 0 .. k)
        BY <1>0, <3>2
      <4> QED
        BY <2>2, <2>3, <4>1
    <3> QED
      BY Zenon, <3>1, <3>2
  <2> HIDE DEF h
  <2>5. h = [i \in 0 .. k + 1 |-> IF i = 0 THEN Init0 ELSE Step(h[i - 1], i)]
    BY Zenon, <2>4 DEF h
  <2>6. k + 1 \in 0 .. n
    BY <1>0
  <2> QED
    BY Zenon, <2>5, <2>6
<1> HIDE DEF T
<1>3. \A i \in 0 .. n : i \in T
  BY ZenonT(30), <1>0, <1>1, <1>2, UpTo
<1>4. n \in T
  BY <1>0, <1>3
<1> QED
  BY <1>4 DEF T, Step, Init0, n, IsKept

\* What is kept was there, and is in S.
LEMMA KeepTyped ==
    ASSUME NEW A, NEW s \in Seq(A), NEW S
    PROVE  Keep(s, S) \in Seq(A \cap S)
<1> DEFINE kept == CHOOSE g : IsKept(g, s, S)
<1>1. Keep(s, S) = kept[Len(s)]
  BY Zenon DEF Keep, IsKept
<1>2. IsKept(kept, s, S)
  BY Zenon, KeptExists
<1> HIDE DEF kept
<1> DEFINE n == Len(s)
           T == {i \in 0 .. n : kept[i] \in Seq(A \cap S)}
<1>3. n \in Nat
  OBVIOUS
<1>4. /\ kept[0] = <<>>
      /\ \A i \in 1 .. n : kept[i] = IF s[i] \in S THEN Append(kept[i - 1], s[i]) ELSE kept[i - 1]
  <2>1. \A i \in 0 .. n : kept[i] = IF i = 0 THEN <<>>
                                   ELSE IF s[i] \in S THEN Append(kept[i - 1], s[i]) ELSE kept[i - 1]
    BY ZenonT(30), <1>2 DEF IsKept
  <2> HIDE DEF n
  <2> QED
    BY <1>3, <2>1
<1>5. \A i \in 1 .. n : s[i] \in A
  OBVIOUS
<1> HIDE DEF n
<1>6. 0 \in T
  <2>1. <<>> \in Seq(A \cap S)
    OBVIOUS
  <2>2. kept[0] \in Seq(A \cap S)
    BY Zenon, <1>4, <2>1
  <2> QED
    BY <1>3, <2>2
<1>7. ASSUME NEW i \in 0 .. n - 1, i \in T PROVE i + 1 \in T
  <2>1. i + 1 \in 1 .. n /\ i + 1 \in 0 .. n /\ (i + 1) - 1 = i
    BY <1>3
  <2>2. kept[i + 1] = IF s[i + 1] \in S THEN Append(kept[i], s[i + 1]) ELSE kept[i]
    BY Zenon, <1>4, <2>1
  <2>3. kept[i] \in Seq(A \cap S) /\ s[i + 1] \in A
    BY Zenon, <1>5, <1>7, <2>1
  <2>4. kept[i + 1] \in Seq(A \cap S)
    BY <2>2, <2>3
  <2> QED
    BY Zenon, <2>1, <2>4
<1> HIDE DEF T
<1>8. \A i \in 0 .. n : i \in T
  BY <1>3, <1>6, <1>7, UpTo
<1>9. n \in T
  BY <1>3, <1>8
<1> QED
  BY Zenon, <1>1, <1>9 DEF T, n

-----------------------------------------------------------------------------
(***************************************************************************)
(* The manifest and the ledger during a write.                             *)
(***************************************************************************)
wvars == <<generation, region_count, extent_count, entries, extents, records, wpc, op>>

\* What the cases below use of the types, spelled out once.
LEMMA EntryFacts ==
    ASSUME WInv
    PROVE  /\ \A s \in Slots : /\ entries[s] \in Entry /\ entries[s].off \in Nat /\ entries[s].n \in Nat
                               /\ entries[s].dead \in BOOLEAN
           /\ \A i \in DOMAIN records :
                /\ i \in Nat /\ i - 1 \in Slots /\ records[i] \in Record
                /\ records[i].exts \in Seq(Extent) /\ Len(records[i].exts) \in Nat
                /\ records[i].dead \in BOOLEAN
           /\ Len(records) \in Nat /\ DOMAIN records = 1 .. Len(records)
           /\ Len(records) <= region_count /\ region_count \in Nat /\ extent_count \in Nat
<1>1. \A s \in Slots : /\ entries[s] \in Entry /\ entries[s].off \in Nat /\ entries[s].n \in Nat
                       /\ entries[s].dead \in BOOLEAN
  BY Zenon DEF WInv, MTyped, Entry
<1>2. /\ Len(records) \in Nat /\ DOMAIN records = 1 .. Len(records)
      /\ Len(records) <= region_count /\ region_count \in Nat /\ region_count <= REGION_CAPACITY
      /\ extent_count \in Nat
  BY DEF WInv, MTyped, LedgerKept
<1>3. \A i \in DOMAIN records : i \in Nat /\ i - 1 \in Slots
  BY <1>2, ManifestAssumption DEF Slots
<1>4. \A i \in DOMAIN records : records[i] \in Record
  BY DEF WInv, MTyped
<1>5. \A r \in Record : r.exts \in Seq(Extent) /\ Len(r.exts) \in Nat /\ r.dead \in BOOLEAN
  BY DEF Record
<1> QED
  BY ZenonT(30), <1>1, <1>2, <1>3, <1>4, <1>5

\* The types of the write in hand.
LEMMA OpFacts ==
    ASSUME WInv, wpc # "idle"
    PROVE  /\ op \in Op /\ op.kind \in {"register", "rewrite", "dead"} /\ op.id \in Slots
           /\ op.exts \in Seq(Extent) /\ Len(op.exts) \in Nat /\ op.off \in Nat
           /\ op.w \in Nat /\ op.bump \in BOOLEAN /\ op.entry \in Entry
           /\ op.entry.off \in Nat /\ op.entry.n \in Nat /\ op.entry.dead \in BOOLEAN
           /\ op.id \in Nat
BY SMTT(30) DEF WInv, MTyped, Op, Entry, Slots

\* A step that writes nothing.
LEMMA QuietWInv == WInv /\ UNCHANGED wvars => WInv'
BY DEF WInv, wvars, MTyped, Parity, Layout, LedgerKept, OpFits, InWrite, Written, Counted

\* writer_begin: the generation becomes odd.
LEMMA BeginWInv == WInv /\ Begin /\ UNCHANGED records => WInv'
<1> SUFFICES ASSUME WInv, Begin, UNCHANGED records PROVE WInv'
  OBVIOUS
<1>1. /\ wpc = "begin" /\ wpc' = "extents" /\ generation' = generation + 1
      /\ UNCHANGED <<region_count, extent_count, entries, extents, op, records>>
  BY Zenon DEF Begin
<1>2. MTyped' /\ Parity'
  BY <1>1 DEF WInv, MTyped, Parity
<1>3. Layout'
  BY ZenonT(30), <1>1 DEF WInv, Layout
<1>4. LedgerKept'
  BY SMTT(30), <1>1 DEF WInv, LedgerKept, InWrite, Written, Counted
<1>5. OpFits'
  BY Zenon, <1>1 DEF WInv, OpFits, Written, Counted
<1> QED
  BY Zenon, <1>2, <1>3, <1>4, <1>5 DEF WInv

\* One extent is written, into a slot that is in no other region.
LEMMA WriteExtentWInv == WInv /\ WriteExtent /\ UNCHANGED records => WInv'
<1> SUFFICES ASSUME WInv, WriteExtent, UNCHANGED records PROVE WInv'
  OBVIOUS
<1> DEFINE x == op.off + op.w
<1>1. /\ wpc = "extents" /\ op.w < Len(op.exts) /\ wpc' = "extents"
      /\ extents' = [extents EXCEPT ![x] = op.exts[op.w + 1]]
      /\ op' = [op EXCEPT !.w = @ + 1]
      /\ UNCHANGED <<generation, region_count, extent_count, entries, records>>
  BY Zenon DEF WriteExtent, header
<1>2. /\ op.exts \in Seq(Extent) /\ op.off \in Nat /\ op.w \in Nat /\ Len(op.exts) \in Nat
      /\ op.id \in Slots /\ op \in Op
  BY Zenon, <1>1, OpFacts
<1>3. /\ op'.w = op.w + 1 /\ op'.exts = op.exts /\ op'.off = op.off /\ op'.id = op.id
      /\ op'.kind = op.kind /\ op'.bump = op.bump /\ op'.entry = op.entry /\ op' \in Op
  BY <1>1, <1>2 DEF Op
<1>4. OpFits
  BY Zenon, <1>1 DEF WInv
<1>5. x \in 0 .. (EXTENT_CAPACITY - 1) /\ op.exts[op.w + 1] \in Extent
  BY SMTT(30), <1>1, <1>2, <1>4, TranslateAssumption DEF OpFits
<1>6. MTyped' /\ Parity'
  BY Zenon, <1>1, <1>3, <1>5 DEF WInv, MTyped, Parity
<1>7. Layout'
  BY <1>1, <1>3 DEF WInv, Layout
<1>8. \A y \in 0 .. (EXTENT_CAPACITY - 1) : y # x => extents'[y] = extents[y]
  BY <1>1 DEF WInv, MTyped
<1>9. extents'[x] = op.exts[op.w + 1]
  BY <1>1, <1>5 DEF WInv, MTyped
<1>10. ASSUME NEW i \in DOMAIN records, ~(op.kind = "rewrite" /\ op.id = i - 1),
              NEW k \in 1 .. Len(records[i].exts)
       PROVE  /\ entries[i - 1].off + k - 1 # x
              /\ entries[i - 1].off + k - 1 \in 0 .. (EXTENT_CAPACITY - 1)
  <2> DEFINE s == i - 1
  <2>1. /\ s \in Slots /\ entries[s].off \in Nat /\ entries[s].n \in Nat
        /\ Len(records[i].exts) \in Nat /\ entries[s].n = Len(records[i].exts)
    BY ZenonT(30), <1>10, EntryFacts DEF WInv, LedgerKept
  <2>2. s # op.id /\ op.kind # "dead"
    <3>1. op.kind # "dead"
      BY <1>1, <1>2, <1>4 DEF OpFits
    <3>2. i <= Len(records) /\ i \in Nat /\ Len(records) \in Nat
      BY EntryFacts
    <3>3. s # Len(records)
      BY <3>2
    <3>4. op.kind = "register" => op.id = Len(records)
      BY Zenon, <1>4 DEF OpFits
    <3> QED
      BY ZenonT(30), <1>1, <1>2, <1>10, <3>1, <3>3, <3>4 DEF Op
  <2>3. Apart(op.off, Len(op.exts), entries[s].off, entries[s].n)
    BY Zenon, <1>4, <2>1, <2>2 DEF OpFits
  <2>4. entries[s].off + entries[s].n <= extent_count /\ extent_count <= EXTENT_CAPACITY
    BY ZenonT(30), <1>1, <2>1 DEF WInv, Layout, MTyped
  <2> HIDE DEF s
  <2>5. extent_count \in Nat
    BY Zenon, EntryFacts
  <2>6. k \in Nat /\ 1 <= k /\ k <= entries[s].n
    BY <1>10, <2>1
  <2>7. entries[s].off + k - 1 # x
    BY SMTT(30), <1>1, <1>2, <2>1, <2>3, <2>6 DEF Apart
  <2>8. entries[s].off + k - 1 \in 0 .. (EXTENT_CAPACITY - 1)
    BY SMTT(30), <2>1, <2>4, <2>5, <2>6, TranslateAssumption
  <2> QED
    BY <2>7, <2>8 DEF s
<1>11. LedgerKept'
  <2>1. /\ InWrite /\ InWrite' /\ ~Written /\ ~Written' /\ ~Counted /\ ~Counted'
    BY Zenon, <1>1 DEF InWrite, Written, Counted
  <2>2. ASSUME NEW i \in DOMAIN records, ~(op.kind = "rewrite" /\ op.id = i - 1)
        PROVE  \A k \in 1 .. Len(records[i].exts) :
                 extents'[entries[i - 1].off + k - 1] = records[i].exts[k]
    BY ZenonT(30), <1>8, <1>10, <2>1, <2>2 DEF WInv, LedgerKept
  <2> QED
    BY <1>1, <1>3, <2>1, <2>2 DEF WInv, LedgerKept
<1>12. OpFits'
  <2>1. \A k \in 1 .. op.w + 1 : extents'[op.off + k - 1] = op.exts[k]
    <3> SUFFICES ASSUME NEW k \in 1 .. op.w + 1 PROVE extents'[op.off + k - 1] = op.exts[k]
      OBVIOUS
    <3>1. CASE k = op.w + 1
      <4>1. op.off + k - 1 = x
        BY SMTT(30), <1>2, <3>1
      <4> QED
        BY Zenon, <1>9, <3>1, <4>1
    <3>2. CASE k # op.w + 1
      <4>1. k \in 1 .. op.w /\ op.off + k - 1 # x /\ op.off + k - 1 \in 0 .. (EXTENT_CAPACITY - 1)
        BY SMTT(30), <1>2, <1>5, <3>2, TranslateAssumption
      <4> QED
        BY Zenon, <1>4, <1>8, <4>1 DEF OpFits
    <3> QED
      BY Zenon, <3>1, <3>2
  <2>2. op.w + 1 <= Len(op.exts)
    BY <1>1, <1>2
  <2> QED
    BY <1>1, <1>3, <1>4, <2>1, <2>2 DEF OpFits, Written, Counted
<1> QED
  BY <1>6, <1>7, <1>11, <1>12 DEF WInv

\* What the region being written is, in the ledger's terms.
LEMMA OpTarget ==
    ASSUME WInv, wpc # "idle"
    PROVE  /\ op.kind = "register" => \A i \in DOMAIN records : i - 1 # op.id
           /\ op.kind # "register" =>
                /\ op.id + 1 \in DOMAIN records /\ op.entry.name = entries[op.id].name
                /\ ~records[op.id + 1].dead /\ op.id + 1 - 1 = op.id
<1>1. OpFits
  BY Zenon DEF WInv
<1>2. /\ Len(records) \in Nat /\ \A i \in DOMAIN records : i \in Nat /\ i <= Len(records)
      /\ op.id \in Nat
  BY SMTT(30), EntryFacts, OpFacts
<1>3. op.kind = "register" => \A i \in DOMAIN records : i - 1 # op.id
  BY <1>1, <1>2 DEF OpFits
<1> QED
  BY <1>1, <1>2, <1>3 DEF OpFits

\* The entry is written: until the header is, nobody counts on what is new in it.
LEMMA WriteEntryWInv == WInv /\ WriteEntry /\ UNCHANGED records => WInv'
<1> SUFFICES ASSUME WInv, WriteEntry, UNCHANGED records PROVE WInv'
  OBVIOUS
<1>1. /\ wpc = "extents" /\ op.w = Len(op.exts)
      /\ wpc' = IF op.bump THEN "header" ELSE "end"
      /\ entries' = [entries EXCEPT ![op.id] = op.entry]
      /\ UNCHANGED <<generation, region_count, extent_count, extents, op, records>>
  BY Zenon DEF WriteEntry, header
<1>2. /\ op \in Op /\ op.kind \in {"register", "rewrite", "dead"} /\ op.id \in Slots
      /\ op.exts \in Seq(Extent) /\ Len(op.exts) \in Nat /\ op.off \in Nat
      /\ op.bump \in BOOLEAN /\ op.entry \in Entry
      /\ op.entry.off \in Nat /\ op.entry.n \in Nat
  BY Zenon, <1>1, OpFacts
<1>3. OpFits
  BY Zenon, <1>1 DEF WInv
<1>4. /\ entries'[op.id] = op.entry
      /\ \A s \in Slots : s # op.id => entries'[s] = entries[s]
  BY Zenon, <1>1, <1>2 DEF WInv, MTyped
<1>5. MTyped' /\ Parity'
  BY ZenonT(30), <1>1, <1>2 DEF WInv, MTyped, Parity
<1>6. /\ InWrite /\ InWrite' /\ ~Written /\ Written' /\ ~Counted /\ (Counted' <=> ~op.bump)
      /\ op' = op /\ (wpc' = "header" <=> op.bump) /\ wpc' # "begin"
  BY ZenonT(30), <1>1, <1>2 DEF InWrite, Written, Counted
<1>7. \A s \in Slots : entries[s].off \in Nat /\ entries[s].n \in Nat
  BY ZenonT(30), EntryFacts
<1>8. Layout'
  <2>1. \A s \in Slots : entries[s].off + entries[s].n <= extent_count
    BY ZenonT(30), <1>1 DEF WInv, Layout
  <2>2. ~op.bump => op.entry.off + op.entry.n <= extent_count
    BY ZenonT(30), <1>2, <1>3, <2>1 DEF OpFits
  <2>3. \A s \in Slots : s # op.id =>
           Apart(op.entry.off, op.entry.n, entries[s].off, entries[s].n)
    BY ZenonT(30), <1>2, <1>3 DEF OpFits, WInv, Layout
  <2>4. \A s \in Slots : s # op.id =>
           Apart(entries[s].off, entries[s].n, op.entry.off, op.entry.n)
    BY Zenon, <2>3 DEF Apart
  <2>5. \A s, t \in Slots : s # t =>
           Apart(entries'[s].off, entries'[s].n, entries'[t].off, entries'[t].n)
    BY ZenonT(30), <1>4, <2>3, <2>4 DEF WInv, Layout
  <2>6. \A s \in Slots : ~(wpc' = "header" /\ s = op.id) =>
           entries'[s].off + entries'[s].n <= extent_count
    BY ZenonT(30), <1>4, <1>6, <2>1, <2>2
  <2> QED
    BY ZenonT(30), <1>1, <1>6, <2>5, <2>6 DEF Layout
<1>9. LedgerKept'
  <2>1. \A i \in DOMAIN records : i - 1 \in Slots
    BY Zenon, EntryFacts
  <2>2. /\ op.kind = "register" => \A i \in DOMAIN records : i - 1 # op.id
        /\ op.kind # "register" => op.entry.name = entries[op.id].name
    BY Zenon, <1>1, OpTarget
  <2>3. op.kind = "dead" => op.entry.n = entries[op.id].n /\ op.entry.off = entries[op.id].off
    BY Zenon, <1>3 DEF OpFits
  <2>4. op.kind = "register" => op.bump
    BY Zenon, <1>3 DEF OpFits
  <2>5. ASSUME NEW i \in DOMAIN records
        PROVE  /\ records[i].name = entries'[i - 1].name
               /\ op.id # i - 1 => records[i].dead = entries'[i - 1].dead
               /\ ~(op.kind = "rewrite" /\ op.id = i - 1) =>
                    /\ entries'[i - 1].n = Len(records[i].exts)
                    /\ \A k \in 1 .. Len(records[i].exts) :
                         extents[entries'[i - 1].off + k - 1] = records[i].exts[k]
    <3>1. CASE op.id # i - 1
      BY ZenonT(30), <1>4, <1>6, <2>1, <3>1 DEF WInv, LedgerKept
    <3>2. CASE op.id = i - 1
      BY SMTT(30), <1>2, <1>4, <1>6, <2>2, <2>3, <3>2 DEF WInv, LedgerKept
    <3> QED
      BY Zenon, <3>1, <3>2
  <2>6. Len(records) = region_count - IF Counted' /\ op.kind = "register" THEN 1 ELSE 0
    BY Zenon, <1>6, <2>4 DEF WInv, LedgerKept
  <2> QED
    BY <1>1, <1>6, <2>5, <2>6 DEF LedgerKept
<1>10. OpFits'
  <2>1. op.kind # "register" => op.entry.name = entries'[op.id].name
    BY SMTT(30), <1>4
  <2>2. /\ op.kind = "dead" => op.entry.off = entries'[op.id].off /\ op.entry.n = entries'[op.id].n
        /\ \A s \in Slots : s # op.id /\ op.kind # "dead" =>
             Apart(op.off, Len(op.exts), entries'[s].off, entries'[s].n)
    BY ZenonT(30), <1>3, <1>4 DEF OpFits
  <2>3. IF op.bump THEN op.off = extent_count - IF Counted' THEN Len(op.exts) ELSE 0
        ELSE wpc' # "header" /\ op.off + Len(op.exts) <= extent_count
    BY ZenonT(30), <1>3, <1>6 DEF OpFits
  <2> QED
    BY ZenonT(30), <1>1, <1>3, <1>4, <1>6, <2>1, <2>2, <2>3 DEF OpFits
<1> QED
  BY <1>5, <1>8, <1>9, <1>10 DEF WInv

\* The header is written: the new extents and the new entry count.
LEMMA WriteHeaderWInv == WInv /\ WriteHeader /\ UNCHANGED records => WInv'
<1> SUFFICES ASSUME WInv, WriteHeader, UNCHANGED records PROVE WInv'
  OBVIOUS
<1>1. /\ wpc = "header" /\ wpc' = "end"
      /\ region_count' = region_count + IF op.kind = "register" THEN 1 ELSE 0
      /\ extent_count' = extent_count + Len(op.exts)
      /\ UNCHANGED <<generation, entries, extents, op, records>>
  BY Zenon DEF WriteHeader
<1>2. /\ op.id \in Slots /\ op.id \in Nat /\ Len(op.exts) \in Nat /\ op.off \in Nat /\ op \in Op
      /\ op.entry.off \in Nat /\ op.entry.n \in Nat
  BY ZenonT(30), <1>1, OpFacts
<1>3. OpFits
  BY ZenonT(30), <1>1 DEF WInv
<1>4. /\ InWrite /\ InWrite' /\ Written /\ Written' /\ ~Counted /\ Counted' /\ op' = op
  BY Zenon, <1>1 DEF InWrite, Written, Counted
<1>5. op.bump /\ op.off = extent_count /\ op.kind # "dead" /\ entries[op.id] = op.entry
  <2>1. extent_count \in Nat
    BY Zenon, EntryFacts
  <2> QED
    BY <1>1, <1>3, <1>4, <2>1 DEF OpFits
<1>6. /\ region_count \in Nat /\ extent_count \in Nat /\ Len(records) = region_count
      /\ extent_count \in Nat /\ extent_count <= EXTENT_CAPACITY /\ region_count <= REGION_CAPACITY
  BY SMTT(30), <1>4 DEF WInv, MTyped, LedgerKept
<1>7. op.kind = "register" => region_count + 1 <= REGION_CAPACITY
  BY SMTT(30), <1>2, <1>3, <1>6, ManifestAssumption DEF OpFits, Slots
<1>8. extent_count' <= EXTENT_CAPACITY /\ extent_count' \in Nat /\ extent_count <= extent_count'
  BY <1>1, <1>2, <1>3, <1>5, <1>6, TranslateAssumption DEF OpFits
<1>9. region_count' \in Nat /\ region_count' <= REGION_CAPACITY
  BY <1>1, <1>6, <1>7
<1>10. MTyped' /\ Parity'
  BY Zenon, <1>1, <1>2, <1>8, <1>9 DEF WInv, MTyped, Parity
<1>11. Layout'
  <2>1. \A s \in Slots : entries[s].off \in Nat /\ entries[s].n \in Nat
    BY EntryFacts
  <2>2. \A s \in Slots : s # op.id => entries[s].off + entries[s].n <= extent_count
    BY ZenonT(30), <1>1 DEF WInv, Layout
  <2>3. entries[op.id].off + entries[op.id].n <= extent_count'
    BY <1>1, <1>2, <1>3, <1>5, <1>6 DEF OpFits
  <2>4. \A s \in Slots : entries[s].off + entries[s].n <= extent_count'
    BY SMTT(30), <1>6, <1>8, <2>1, <2>2, <2>3
  <2> QED
    BY ZenonT(30), <1>1, <2>4 DEF WInv, Layout
<1>12. LedgerKept'
  <2>1. Len(records) = region_count' - IF op.kind = "register" THEN 1 ELSE 0
    BY SMTT(30), <1>1, <1>6
  <2> QED
    BY <1>1, <1>4, <2>1 DEF WInv, LedgerKept
<1>13. OpFits'
  <2>1. op.off = extent_count' - Len(op.exts)
    BY <1>1, <1>2, <1>5, <1>6
  <2> QED
    BY <1>1, <1>3, <1>4, <1>5, <2>1 DEF OpFits
<1> QED
  BY <1>10, <1>11, <1>12, <1>13 DEF WInv

\* writer_end: the generation is even again, and the manifest complete.
LEMMA EndWInv == WInv /\ End /\ UNCHANGED records => WInv'
<1> SUFFICES ASSUME WInv, End, UNCHANGED records PROVE WInv'
  OBVIOUS
<1>1. /\ wpc = "end" /\ wpc' = "after" /\ generation' = generation + 1
      /\ UNCHANGED <<region_count, extent_count, entries, extents, op, records>>
  BY Zenon DEF End
<1>2. MTyped' /\ Parity'
  BY SMTT(30), <1>1 DEF WInv, MTyped, Parity
<1>3. Layout' /\ LedgerKept' /\ OpFits'
  BY <1>1 DEF WInv, Layout, LedgerKept, OpFits, InWrite, Written, Counted
<1> QED
  BY ZenonT(30), <1>2, <1>3 DEF WInv

\* What the ledger becomes once the manifest is written.
LEMMA LedgerFacts ==
    ASSUME WInv, wpc = "after", NEW owner \in Nat, records' = Ledger(owner)
    PROVE  /\ records' \in Seq(Record)
           /\ Len(records') = Len(records) + IF op.kind = "register" THEN 1 ELSE 0
           /\ DOMAIN records \subseteq DOMAIN records'
           /\ \A i \in DOMAIN records : i - 1 # op.id => records'[i] = records[i]
           /\ op.id + 1 \in DOMAIN records'
           /\ op.kind = "register" =>
                /\ op.id = Len(records)
                /\ records'[op.id + 1] = [pid |-> owner, name |-> op.entry.name, exts |-> op.exts,
                                          dead |-> FALSE, lost |-> FALSE]
           /\ op.kind = "rewrite" =>
                records'[op.id + 1] = [records[op.id + 1] EXCEPT !.exts = op.exts]
           /\ op.kind = "dead" =>
                records'[op.id + 1] = [records[op.id + 1] EXCEPT !.dead = TRUE,
                                                                 !.lost = (reverifying # 0)]
<1> DEFINE lost == reverifying # 0
<1>0. lost \in BOOLEAN
  OBVIOUS
<1>1. records' = CASE op.kind = "register" ->
                        Append(records, [pid |-> owner, name |-> op.entry.name, exts |-> op.exts,
                                         dead |-> FALSE, lost |-> FALSE])
                   [] op.kind = "rewrite" -> [records EXCEPT ![op.id + 1].exts = op.exts]
                   [] op.kind = "dead" -> [records EXCEPT ![op.id + 1].dead = TRUE,
                                                          ![op.id + 1].lost = lost]
  BY Zenon DEF Ledger
<1> HIDE DEF lost
<1>2. /\ op.kind \in {"register", "rewrite", "dead"} /\ op.exts \in Seq(Extent) /\ op.id \in Nat
  BY Zenon, OpFacts
<1>3. /\ records \in Seq(Record) /\ Len(records) \in Nat /\ DOMAIN records = 1 .. Len(records)
      /\ \A i \in DOMAIN records : i \in Nat
  BY Zenon, EntryFacts DEF WInv, MTyped
<1>4. OpFits
  BY Zenon DEF WInv
<1>5. CASE op.kind = "register"
  <2> DEFINE new == [pid |-> owner, name |-> op.entry.name, exts |-> op.exts,
                     dead |-> FALSE, lost |-> FALSE]
  <2>1. op.id = Len(records) /\ new \in Record
    BY <1>2, <1>4, <1>5 DEF OpFits, Record
  <2>2. records' = Append(records, new)
    BY ZenonT(30), <1>1, <1>5
  <2> HIDE DEF new
  <2>3. /\ records' \in Seq(Record) /\ Len(records') = Len(records) + 1
        /\ \A i \in DOMAIN records : i \in DOMAIN records' /\ records'[i] = records[i]
        /\ Len(records) + 1 \in DOMAIN records' /\ records'[Len(records) + 1] = new
    BY <1>3, <2>1, <2>2
  <2> QED
    BY ZenonT(30), <1>5, <2>1, <2>3 DEF new
<1>6. CASE op.kind = "rewrite"
  <2> DEFINE new == [records[op.id + 1] EXCEPT !.exts = op.exts]
  <2>1. op.id + 1 \in DOMAIN records
    BY Zenon, <1>4, <1>6 DEF OpFits
  <2>2. new \in Record
    <3>1. records[op.id + 1] \in Record
      BY <1>3, <2>1
    <3> QED
      BY Zenon, <1>2, <3>1 DEF Record
  <2>3. records' = [records EXCEPT ![op.id + 1] = new]
    BY ZenonT(30), <1>1, <1>6, <2>1
  <2> HIDE DEF new
  <2>4. /\ records' \in Seq(Record) /\ Len(records') = Len(records)
        /\ DOMAIN records' = DOMAIN records
        /\ \A i \in DOMAIN records : i # op.id + 1 => records'[i] = records[i]
        /\ records'[op.id + 1] = new
    BY <1>3, <2>1, <2>2, <2>3
  <2>5. \A i \in DOMAIN records : i - 1 # op.id => i # op.id + 1
    BY <1>2, <1>3
  <2> QED
    BY SMTT(30), <1>3, <1>6, <2>1, <2>4, <2>5 DEF new
<1>7. CASE op.kind = "dead"
  <2> DEFINE new == [records[op.id + 1] EXCEPT !.dead = TRUE, !.lost = lost]
  <2>1. op.id + 1 \in DOMAIN records
    BY Zenon, <1>4, <1>7 DEF OpFits
  <2>2. new \in Record
    <3>1. records[op.id + 1] \in Record
      BY <1>3, <2>1
    <3> QED
      BY ZenonT(30), <1>0, <3>1 DEF Record
  <2>3. records' = [records EXCEPT ![op.id + 1] = new]
    BY ZenonT(30), <1>1, <1>7, <2>1
  <2> HIDE DEF new
  <2>4. /\ records' \in Seq(Record) /\ Len(records') = Len(records)
        /\ DOMAIN records' = DOMAIN records
        /\ \A i \in DOMAIN records : i # op.id + 1 => records'[i] = records[i]
        /\ records'[op.id + 1] = new
    BY <1>3, <2>1, <2>2, <2>3
  <2>5. \A i \in DOMAIN records : i - 1 # op.id => i # op.id + 1
    BY <1>2, <1>3
  <2> QED
    BY SMTT(30), <1>3, <1>7, <2>1, <2>4, <2>5 DEF new, lost
<1> QED
  BY <1>2, <1>5, <1>6, <1>7

\* The ledger follows: it says of the region that was written what the manifest
\* says of it.
LEMMA AfterWInv ==
    ASSUME WInv, wpc = "after", NEW owner \in Nat, records' = Ledger(owner),
           wpc' = "idle", UNCHANGED manifest
    PROVE  WInv'
<1>1. UNCHANGED <<generation, region_count, extent_count, entries, extents>>
  BY DEF manifest, header
<1>2. /\ records' \in Seq(Record)
      /\ Len(records') = Len(records) + IF op.kind = "register" THEN 1 ELSE 0
      /\ \A i \in DOMAIN records : i - 1 # op.id => records'[i] = records[i]
  BY ZenonT(30), LedgerFacts
<1>3. /\ op.kind = "register" =>
           /\ op.id = Len(records)
           /\ records'[op.id + 1] = [pid |-> owner, name |-> op.entry.name, exts |-> op.exts,
                                     dead |-> FALSE, lost |-> FALSE]
      /\ op.kind = "rewrite" =>
           records'[op.id + 1] = [records[op.id + 1] EXCEPT !.exts = op.exts]
      /\ op.kind = "dead" =>
           records'[op.id + 1] = [records[op.id + 1] EXCEPT !.dead = TRUE,
                                                            !.lost = (reverifying # 0)]
  BY LedgerFacts
<1>4. OpFits /\ Counted /\ Written /\ InWrite /\ ~Counted' /\ ~Written' /\ ~InWrite'
  BY Zenon DEF WInv, Counted, Written, InWrite
<1>5. /\ op.kind \in {"register", "rewrite", "dead"} /\ op.id \in Nat
      /\ op.exts \in Seq(Extent) /\ op.entry.dead \in BOOLEAN
  BY ZenonT(30), OpFacts
<1>6. MTyped' /\ Parity' /\ Layout'
  BY ZenonT(30), <1>1, <1>2 DEF WInv, MTyped, Parity, Layout
<1>7. /\ Len(records) \in Nat /\ region_count \in Nat /\ DOMAIN records = 1 .. Len(records)
      /\ \A i \in DOMAIN records : records[i] \in Record
  BY ZenonT(30), EntryFacts
<1>8. Len(records') = region_count
  BY SMTT(30), <1>2, <1>4, <1>7 DEF WInv, LedgerKept
<1>9. ASSUME NEW i \in DOMAIN records'
      PROVE  /\ records'[i].name = entries[i - 1].name
             /\ records'[i].dead = entries[i - 1].dead
             /\ entries[i - 1].n = Len(records'[i].exts)
             /\ \A k \in 1 .. Len(records'[i].exts) :
                  extents[entries[i - 1].off + k - 1] = records'[i].exts[k]
  <2>0. i \in Nat /\ (i - 1 # op.id => i \in DOMAIN records)
    BY SMTT(30), <1>2, <1>3, <1>5, <1>7
  <2>1. CASE i - 1 # op.id
    BY SMTT(30), <1>2, <1>4, <2>0, <2>1 DEF WInv, LedgerKept
  <2>2. CASE i - 1 = op.id
    <3>1. i = op.id + 1
      BY SMTT(30), <1>5, <2>0, <2>2
    <3>2. /\ entries[op.id] = op.entry /\ op.w = Len(op.exts)
          /\ \A k \in 1 .. Len(op.exts) : extents[op.off + k - 1] = op.exts[k]
      BY <1>4 DEF OpFits
    <3>3. CASE op.kind = "register"
      <4>1. /\ records'[i].name = op.entry.name /\ records'[i].exts = op.exts
            /\ records'[i].dead = FALSE
        BY <1>3, <3>1, <3>3
      <4>2. op.entry.off = op.off /\ op.entry.n = Len(op.exts) /\ op.entry.dead = FALSE
        BY Zenon, <1>4, <1>5, <3>3 DEF OpFits
      <4> QED
        BY ZenonT(30), <2>2, <3>2, <4>1, <4>2
    <3>4. CASE op.kind # "register"
      <4>1. /\ op.id + 1 \in DOMAIN records /\ op.entry.name = entries[op.id].name
            /\ records[op.id + 1] \in Record /\ ~records[op.id + 1].dead
        BY ZenonT(30), <1>4, <1>7, <3>4 DEF OpFits
      <4>2. /\ records[op.id + 1].name = entries[op.id].name
            /\ op.kind = "dead" =>
                 /\ entries[op.id].n = Len(records[op.id + 1].exts)
                 /\ \A k \in 1 .. Len(records[op.id + 1].exts) :
                      extents[entries[op.id].off + k - 1] = records[op.id + 1].exts[k]
        BY ZenonT(30), <2>2, <3>1, <4>1 DEF WInv, LedgerKept
      <4>3. CASE op.kind = "rewrite"
        <5>1. /\ records'[i].name = records[op.id + 1].name /\ records'[i].exts = op.exts
              /\ records'[i].dead = records[op.id + 1].dead
          BY Zenon, <1>3, <3>1, <4>1, <4>3 DEF Record
        <5>2. op.entry.off = op.off /\ op.entry.n = Len(op.exts) /\ ~op.entry.dead
          BY Zenon, <1>4, <4>3 DEF OpFits
        <5>3. records'[i].dead = entries[i - 1].dead
          <6>1. records[op.id + 1].dead = FALSE /\ op.entry.dead = FALSE
            BY Zenon, <1>5, <4>1, <5>2 DEF Record
          <6> QED
            BY ZenonT(30), <2>2, <3>2, <5>1, <6>1
        <5> QED
          BY <2>2, <3>2, <4>2, <5>1, <5>2, <5>3
      <4>4. CASE op.kind = "dead"
        <5>1. /\ records'[i].name = records[op.id + 1].name /\ records'[i].dead = TRUE
              /\ records'[i].exts = records[op.id + 1].exts
          BY ZenonT(30), <1>3, <3>1, <4>1, <4>4 DEF Record
        <5>2. op.entry.dead = TRUE
          BY Zenon, <1>4, <1>5, <4>4 DEF OpFits
        <5>3. records'[i].dead = entries[i - 1].dead
          BY ZenonT(30), <2>2, <3>2, <5>1, <5>2
        <5>4. Len(records'[i].exts) = Len(records[op.id + 1].exts)
          BY Zenon, <5>1
        <5> QED
          BY ZenonT(30), <2>2, <3>2, <4>1, <4>2, <4>4, <5>1, <5>3, <5>4
      <4> QED
        BY Zenon, <1>5, <3>4, <4>3, <4>4
    <3> QED
      BY Zenon, <3>3, <3>4
  <2> QED
    BY Zenon, <2>1, <2>2
<1>10. LedgerKept'
  BY <1>1, <1>4, <1>8, <1>9 DEF LedgerKept
<1> QED
  BY <1>6, <1>10 DEF WInv

\* A write begins with nothing written: what is left to show is that it fits.
LEMMA StartWInv ==
    ASSUME WInv, wpc = "idle", wpc' = "begin", UNCHANGED <<manifest, records>>,
           op' \in Op, OpFits'
    PROVE  WInv'
<1>1. UNCHANGED <<generation, region_count, extent_count, entries, extents, records>>
  BY Zenon DEF manifest, header
<1>2. /\ ~InWrite /\ ~Written /\ ~Counted /\ ~InWrite' /\ ~Written' /\ ~Counted'
  BY Zenon DEF InWrite, Written, Counted
<1>3. MTyped' /\ Parity' /\ Layout'
  BY Zenon, <1>1 DEF WInv, MTyped, Parity, Layout
<1>4. LedgerKept'
  BY <1>1, <1>2 DEF WInv, LedgerKept
<1> QED
  BY Zenon, <1>3, <1>4 DEF WInv

\* write_region: the checks of handle leave room for the entry and its extents.
LEMMA WriteRegionWInv ==
    ASSUME WInv, wpc = "idle", wpc' = "begin", UNCHANGED <<manifest, records>>,
           NEW req, NEW walk \in Seq(Extent), op' = WriteRegion(req, walk), req.name \in Names,
           region_count < REGION_CAPACITY, extent_count + Len(walk) <= EXTENT_CAPACITY
    PROVE  WInv'
<1>1. UNCHANGED <<generation, region_count, extent_count, entries, extents, records>>
  BY Zenon DEF manifest, header
<1>2. /\ region_count \in Nat /\ extent_count \in Nat /\ Len(walk) \in Nat
      /\ \A s \in Slots : /\ entries[s].off \in Nat /\ entries[s].n \in Nat
                          /\ entries[s].off + entries[s].n <= extent_count
  BY SMTT(30), EntryFacts DEF WInv, Layout
<1>3. region_count = Len(records)
  BY SMTT(30) DEF WInv, LedgerKept, Counted, MTyped
<1>4. /\ op'.kind = "register" /\ op'.id = region_count /\ op'.exts = walk /\ op'.off = extent_count
      /\ op'.bump = TRUE /\ op'.w = 0
      /\ op'.entry = [name |-> req.name, dead |-> FALSE, off |-> extent_count, n |-> Len(walk)]
  BY Zenon DEF WriteRegion
<1>5. op' \in Op
  <2>1. [name |-> req.name, dead |-> FALSE, off |-> extent_count, n |-> Len(walk)] \in Entry
    BY Zenon, <1>2 DEF Entry
  <2>2. region_count \in Slots
    BY <1>2, ManifestAssumption DEF Slots
  <2> QED
    BY Zenon, <1>2, <2>1, <2>2 DEF WriteRegion, Op
<1>6. \A s \in Slots : Apart(extent_count, Len(walk), entries[s].off, entries[s].n)
  BY ZenonT(30), <1>2 DEF Apart
<1>7. /\ op'.entry.name = req.name /\ op'.entry.dead = FALSE /\ op'.entry.off = extent_count
      /\ op'.entry.n = Len(walk)
  BY SMTT(30), <1>4
<1>8. OpFits'
  BY SMTT(30), <1>1, <1>2, <1>3, <1>4, <1>6, <1>7 DEF OpFits, Written, Counted
<1> QED
  BY Zenon, <1>5, <1>8, StartWInv

\* mark_region_dead: only the flag of a live entry changes.
LEMMA DeadWInv ==
    ASSUME WInv, wpc = "idle", wpc' = "begin", UNCHANGED <<manifest, records>>,
           NEW id \in Nat, LiveRecord(id), op' = Dead(id)
    PROVE  WInv'
<1>1. UNCHANGED <<generation, region_count, extent_count, entries, extents, records>>
  BY Zenon DEF manifest, header
<1>2. /\ id + 1 \in DOMAIN records /\ ~records[id + 1].dead /\ id \in Slots
  <2>1. id + 1 \in DOMAIN records /\ ~records[id + 1].dead /\ id + 1 - 1 = id
    BY DEF LiveRecord
  <2>2. id + 1 - 1 \in Slots
    BY <2>1, EntryFacts
  <2> QED
    BY Zenon, <2>1, <2>2
<1>3. /\ op'.kind = "dead" /\ op'.id = id /\ op'.exts = <<>> /\ op'.off = 0
      /\ op'.bump = FALSE /\ op'.w = 0 /\ op'.entry = [entries[id] EXCEPT !.dead = TRUE]
  BY Zenon DEF Dead
<1>4. entries[id] \in Entry
  BY <1>2, EntryFacts
<1>5. [entries[id] EXCEPT !.dead = TRUE] \in Entry
  BY ZenonT(30), <1>4 DEF Entry
<1>6. /\ op'.entry.dead = TRUE /\ op'.entry.off = entries[id].off
      /\ op'.entry.n = entries[id].n /\ op'.entry.name = entries[id].name
  BY <1>3, <1>4 DEF Entry
<1>7. op' \in Op
  <2>1. <<>> \in Seq(Extent)
    OBVIOUS
  <2> QED
    BY <1>2, <1>5, <2>1 DEF Dead, Op
<1>8. extent_count \in Nat /\ Len(<<>>) = 0
  BY Zenon, EntryFacts
<1>9. OpFits'
  BY <1>1, <1>2, <1>3, <1>6, <1>8, TranslateAssumption DEF OpFits, Written, Counted
<1> QED
  BY ZenonT(30), <1>7, <1>9, StartWInv

\* A shorter list in the same place is still apart from the others.
LEMMA ApartShrinks ==
    ASSUME NEW o \in Nat, NEW n \in Nat, NEW m \in Nat, NEW x \in Nat, NEW y \in Nat,
           m <= n, Apart(o, n, x, y)
    PROVE  Apart(o, m, x, y)
BY DEF Apart

\* rewrite_extents: in the region's own place, or behind every other region.
LEMMA RewriteWInv ==
    ASSUME WInv, wpc = "idle", wpc' = "begin", UNCHANGED <<manifest, records>>,
           NEW id \in Nat, LiveRecord(id), NEW walk \in Seq(Extent), RewriteFits(id, walk),
           op' = Rewrite(id, walk)
    PROVE  WInv'
<1> DEFINE grows == Len(walk) > entries[id].n
           off == IF grows THEN extent_count ELSE entries[id].off
<1>1. UNCHANGED <<generation, region_count, extent_count, entries, extents, records>>
  BY Zenon DEF manifest, header
<1>2. /\ id + 1 \in DOMAIN records /\ ~records[id + 1].dead /\ id \in Slots
      /\ records[id + 1].dead = entries[id].dead
  <2>1. id + 1 \in DOMAIN records /\ ~records[id + 1].dead /\ id + 1 - 1 = id
    BY SMTT(30) DEF LiveRecord
  <2>2. id + 1 - 1 \in Slots /\ records[id + 1].dead = entries[id + 1 - 1].dead
    BY SMTT(30), <2>1, EntryFacts DEF WInv, LedgerKept, Written
  <2> QED
    BY ZenonT(30), <2>1, <2>2
<1>3. /\ op'.kind = "rewrite" /\ op'.id = id /\ op'.exts = walk /\ op'.off = off
      /\ op'.bump = grows /\ op'.w = 0
      /\ op'.entry = [entries[id] EXCEPT !.off = off, !.n = Len(walk)]
  BY DEF Rewrite
<1>4. /\ entries[id] \in Entry /\ extent_count \in Nat /\ Len(walk) \in Nat
      /\ \A s \in Slots : /\ entries[s].off \in Nat /\ entries[s].n \in Nat
                          /\ entries[s].off + entries[s].n <= extent_count
      /\ extent_count <= EXTENT_CAPACITY
  BY SMTT(30), <1>2, EntryFacts DEF WInv, Layout, MTyped
<1>5. grows \in BOOLEAN /\ off \in Nat
  BY <1>2, <1>4
<1>6. /\ grows => off = extent_count /\ extent_count + Len(walk) <= EXTENT_CAPACITY
      /\ ~grows => off = entries[id].off /\ Len(walk) <= entries[id].n
  BY <1>2, <1>4 DEF RewriteFits
<1>7. op' = [kind |-> "rewrite", id |-> id, exts |-> walk, off |-> off, bump |-> grows, w |-> 0,
             entry |-> [entries[id] EXCEPT !.off = off, !.n = Len(walk)]]
  BY DEF Rewrite
<1> HIDE DEF grows, off
<1>8. [entries[id] EXCEPT !.off = off, !.n = Len(walk)] \in Entry
  BY ZenonT(30), <1>4, <1>5 DEF Entry
<1>9. op' \in Op
  BY <1>2, <1>5, <1>7, <1>8 DEF Op
<1>10. /\ op'.entry.off = off /\ op'.entry.n = Len(walk) /\ op'.entry.name = entries[id].name
       /\ op'.entry.dead = entries[id].dead
  BY Zenon, <1>3, <1>4 DEF Entry
<1>11. \A s \in Slots : s # id => Apart(off, Len(walk), entries[s].off, entries[s].n)
  <2>1. \A s \in Slots : s # id => Apart(entries[id].off, entries[id].n, entries[s].off, entries[s].n)
    BY Zenon, <1>2 DEF WInv, Layout
  <2>2. CASE grows
    BY Zenon, <1>4, <1>5, <1>6, <2>2 DEF Apart
  <2>3. CASE ~grows
    <3>1. /\ off = entries[id].off /\ Len(walk) <= entries[id].n /\ entries[id].n \in Nat
          /\ entries[id].off \in Nat
      BY ZenonT(30), <1>2, <1>4, <1>6, <2>3
    <3> QED
      BY ZenonT(30), <1>4, <2>1, <3>1, ApartShrinks
  <2> QED
    BY Zenon, <2>2, <2>3
<1>12. off + Len(walk) <= EXTENT_CAPACITY /\ (~grows => off + Len(walk) <= extent_count)
  BY <1>2, <1>4, <1>5, <1>6, TranslateAssumption
<1>13. OpFits'
  BY <1>1, <1>2, <1>3, <1>4, <1>5, <1>6, <1>10, <1>11, <1>12 DEF OpFits, Written, Counted
<1> QED
  BY Zenon, <1>9, <1>13, StartWInv
=============================================================================
