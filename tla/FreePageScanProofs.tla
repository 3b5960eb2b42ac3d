------------------------- MODULE FreePageScanProofs -------------------------
(***************************************************************************)
(* What mm_get_free_page guarantees on every memory map, of any length.    *)
(***************************************************************************)
EXTENDS FreePageScan, TLAPS

Lists == INSTANCE PageListProofs

(* While a call runs, every slot the cursor went past is in use, and the   *)
(* call started at the slot returned last or, when there is none yet, at a *)
(* slot with none above it.                                                *)
PassedInUse ==
    pc = "scan" =>
        /\ loopStart # NoSlot =>
               \A s \in Passed(mmap, loopStart, cur) : PageOf(mmap, s) \in used
        /\ LET start == IF loopStart = NoSlot THEN cur ELSE loopStart
           IN  IF last # NoSlot THEN start = last
               ELSE \A s \in Slots(mmap) : ~Above(s, start)

ScanInv == TypeOK /\ PassedInUse /\ OomOnlyWhenFull

-----------------------------------------------------------------------------
(* A slot is a pair of natural numbers within the bounds of its descriptor.*)
LEMMA SlotType ==
    ASSUME NEW m \in Mmaps, NEW s
    PROVE  s \in Slots(m) <=>
               \E r \in DescIndex, i \in Nat :
                   s = <<r, i>> /\ m[r].usable /\ m[r].pages # 0 /\ i < m[r].pages
BY ScanConstants DEF Slots, Scannable, DescIndex, Descriptor

(* What a search for the next descriptor finds: a slot below the bound,    *)
(* with every other slot below the bound below it.                         *)
LEMMA HighestBelowTop ==
    ASSUME NEW m \in Mmaps, NEW b \in 0 .. MaxDesc, NEW s \in HighestBelow(m, b)
    PROVE  /\ s \in Slots(m)
           /\ s[1] < b
           /\ \A t \in Slots(m) : t[1] < b => ~Above(t, s)
<1>1. PICK r \in 0 .. b - 1 : /\ s = <<r, m[r].pages - 1>>
                              /\ Scannable(m, r)
                              /\ \A p \in r + 1 .. b - 1 : ~Scannable(m, p)
  BY DEF HighestBelow
<1>2. r \in DescIndex /\ m[r].pages \in Nat
  BY ScanConstants DEF DescIndex, Descriptor
<1>3. s \in Slots(m) /\ s[1] < b
  BY <1>1, <1>2, SlotType DEF Scannable
<1>4. ASSUME NEW t \in Slots(m), t[1] < b
      PROVE  ~Above(t, s)
  <2>1. PICK q \in DescIndex, i \in Nat :
            t = <<q, i>> /\ m[q].usable /\ m[q].pages # 0 /\ i < m[q].pages
    BY SlotType
  <2>2. q <= r
    BY <1>1, <1>2, <1>4, <2>1, ScanConstants DEF Scannable, DescIndex
  <2>3. m[q].pages \in Nat
    BY <2>1, ScanConstants DEF Descriptor
  <2> QED
    BY <1>1, <1>2, <2>1, <2>2, <2>3, ScanConstants DEF Above, DescIndex
<1> QED
  BY <1>3, <1>4

(* The slot after c in a downward walk: the one below it, or the highest   *)
(* one when c is the lowest.                                               *)
Follows(m, c, n) ==
    /\ n \in Slots(m)
    /\ \/ Above(c, n) /\ \A t \in Slots(m) : ~(Above(c, t) /\ Above(t, n))
       \/ \A t \in Slots(m) : ~Above(c, t) /\ ~Above(t, n)

(* Decrementing the page index goes to the following slot.                 *)
LEMMA PreviousPageFollows ==
    ASSUME NEW m \in Mmaps, NEW c \in Slots(m), c[2] > 0
    PROVE  Follows(m, c, <<c[1], c[2] - 1>>)
<1>1. PICK r \in DescIndex, i \in Nat :
          c = <<r, i>> /\ m[r].usable /\ m[r].pages # 0 /\ i < m[r].pages
  BY SlotType
<1>2. m[r].pages \in Nat
  BY ScanConstants DEF Descriptor
<1>3. <<r, i - 1>> \in Slots(m)
  BY <1>1, <1>2, SlotType
<1>4. ASSUME NEW t \in Slots(m)
      PROVE  ~(Above(c, t) /\ Above(t, <<r, i - 1>>))
  <2>1. PICK q \in DescIndex, j \in Nat : t = <<q, j>>
    BY SlotType
  <2> QED
    BY <1>1, <2>1 DEF Above, DescIndex
<1> QED
  BY <1>1, <1>3, <1>4 DEF Follows, Above

(* Leaving a descriptor goes to the following slot, wrap included.         *)
LEMMA PreviousRegionFollows ==
    ASSUME NEW m \in Mmaps, NEW c \in Slots(m), c[2] = 0,
           NEW n \in HighestBelow(m, SearchBound(c[1]))
    PROVE  Follows(m, c, n)
<1>1. PICK r \in DescIndex, i \in Nat :
          c = <<r, i>> /\ m[r].usable /\ m[r].pages # 0 /\ i < m[r].pages
  BY SlotType
<1>2. SearchBound(r) \in 0 .. MaxDesc
  BY ScanConstants DEF SearchBound, DescIndex
<1>3. /\ n \in Slots(m)
      /\ n[1] < SearchBound(r)
      /\ \A t \in Slots(m) : t[1] < SearchBound(r) => ~Above(t, n)
  BY <1>1, <1>2, HighestBelowTop
<1>4. PICK rn \in DescIndex, k \in Nat : n = <<rn, k>>
  BY <1>3, SlotType
<1>5. ASSUME r = 0, NEW t \in Slots(m)
      PROVE  ~Above(c, t) /\ ~Above(t, n)
  <2>1. PICK q \in DescIndex, j \in Nat : t = <<q, j>>
    BY SlotType
  <2> QED
    BY <1>1, <1>3, <1>5, <2>1, ScanConstants DEF Above, SearchBound, DescIndex
<1>6. ASSUME r # 0
      PROVE  Above(c, n) /\ \A t \in Slots(m) : ~(Above(c, t) /\ Above(t, n))
  <2>1. Above(c, n)
    BY <1>1, <1>3, <1>4, <1>6 DEF Above, SearchBound, DescIndex
  <2>2. ASSUME NEW t \in Slots(m), Above(c, t), Above(t, n)
        PROVE  FALSE
    <3>1. PICK q \in DescIndex, j \in Nat : t = <<q, j>>
      BY SlotType
    <3>2. q < r
      BY <1>1, <2>2, <3>1 DEF Above, DescIndex
    <3> QED
      BY <1>3, <1>6, <2>2, <3>1, <3>2 DEF SearchBound
  <2> QED
    BY <2>1, <2>2
<1> QED
  BY <1>3, <1>5, <1>6 DEF Follows

(* One step of the walk adds exactly the slot it leaves to those passed.   *)
LEMMA PassedGrows ==
    ASSUME NEW m \in Mmaps, NEW st \in Slots(m), NEW c \in Slots(m), NEW n,
           Follows(m, c, n), c # st,
           NEW t \in Passed(m, st, n)
    PROVE  t = c \/ t \in Passed(m, st, c)
<1>1. n \in Slots(m) /\ t \in Slots(m)
  BY DEF Follows, Passed
<1>2. PICK r1 \in DescIndex, i1 \in Nat : c = <<r1, i1>>
  BY SlotType
<1>3. PICK r2 \in DescIndex, i2 \in Nat : n = <<r2, i2>>
  BY <1>1, SlotType
<1>4. PICK r3 \in DescIndex, i3 \in Nat : t = <<r3, i3>>
  BY <1>1, SlotType
<1>5. PICK r4 \in DescIndex, i4 \in Nat : st = <<r4, i4>>
  BY SlotType
<1>6. IF Above(st, n) THEN ~Above(t, st) /\ Above(t, n)
                      ELSE ~Above(t, st) \/ Above(t, n)
  BY DEF Passed
<1>7. t # c => IF Above(st, c) THEN ~Above(t, st) /\ Above(t, c)
                               ELSE ~Above(t, st) \/ Above(t, c)
  <2>1. \/ Above(c, n) /\ ~(Above(c, t) /\ Above(t, n)) /\ ~(Above(c, st) /\ Above(st, n))
        \/ ~Above(c, t) /\ ~Above(t, n) /\ ~Above(c, st) /\ ~Above(st, n)
    BY <1>1 DEF Follows
  <2> QED
    BY <2>1, <1>2, <1>3, <1>4, <1>5, <1>6 DEF Above, DescIndex
<1> QED
  BY <1>1, <1>7 DEF Passed

(* The first step of the walk has passed only the slot it started from.    *)
LEMMA PassedStarts ==
    ASSUME NEW m \in Mmaps, NEW c \in Slots(m), NEW n,
           Follows(m, c, n),
           NEW t \in Passed(m, c, n)
    PROVE  t = c
<1>1. n \in Slots(m) /\ t \in Slots(m)
  BY DEF Follows, Passed
<1>2. PICK r1 \in DescIndex, i1 \in Nat : c = <<r1, i1>>
  BY SlotType
<1>3. PICK r2 \in DescIndex, i2 \in Nat : n = <<r2, i2>>
  BY <1>1, SlotType
<1>4. PICK r3 \in DescIndex, i3 \in Nat : t = <<r3, i3>>
  BY <1>1, SlotType
<1>5. IF Above(c, n) THEN ~Above(t, c) /\ Above(t, n)
                     ELSE ~Above(t, c) \/ Above(t, n)
  BY DEF Passed
<1>6. \/ Above(c, n) /\ ~(Above(c, t) /\ Above(t, n))
      \/ ~Above(c, t) /\ ~Above(t, n)
  BY <1>1 DEF Follows
<1> QED
  BY <1>2, <1>3, <1>4, <1>5, <1>6 DEF Above, DescIndex

(* Back at its start, the walk has passed every slot.                      *)
LEMMA PassedAll ==
    ASSUME NEW m \in Mmaps, NEW c \in Slots(m), NEW t \in Slots(m)
    PROVE  t \in Passed(m, c, c)
<1>1. PICK r1 \in DescIndex, i1 \in Nat : c = <<r1, i1>>
  BY SlotType
<1>2. PICK r2 \in DescIndex, i2 \in Nat : t = <<r2, i2>>
  BY SlotType
<1> QED
  BY <1>1, <1>2 DEF Passed, Above, DescIndex

(* The unset slot is no slot.                                              *)
LEMMA NoSlotOutside ==
    ASSUME NEW m \in Mmaps
    PROVE  NoSlot \notin Slots(m)
<1>1. SUFFICES ASSUME NoSlot \in Slots(m) PROVE FALSE
  OBVIOUS
<1>2. PICK r \in DescIndex, i \in Nat : NoSlot = <<r, i>>
  BY <1>1, SlotType
<1> QED
  BY <1>2 DEF NoSlot

-----------------------------------------------------------------------------
LEMMA InitScanInv == Init => ScanInv
BY DEF Init, ScanInv, TypeOK, PassedInUse, OomOnlyWhenFull

(* A step that probes a slot in use and moves the cursor to the following  *)
(* one keeps the invariant.                                                *)
LEMMA MissScanInv ==
    ASSUME ScanInv, Miss, UNCHANGED pc, Follows(mmap, cur, cur')
    PROVE  ScanInv'
<1> USE DEF Miss
<1>1. mmap \in Mmaps /\ cur \in Slots(mmap) /\ cur' \in Slots(mmap)
  BY DEF ScanInv, TypeOK, Follows
<1>2. TypeOK'
  BY <1>1, NoSlotOutside DEF ScanInv, TypeOK
<1>3. ASSUME NEW s \in Passed(mmap, loopStart', cur')
      PROVE  PageOf(mmap, s) \in used
  <2>1. CASE loopStart = NoSlot
    BY <1>1, <1>3, <2>1, PassedStarts
  <2>2. CASE loopStart # NoSlot
    <3>1. loopStart \in Slots(mmap)
      BY <2>2 DEF ScanInv, TypeOK
    <3>2. s = cur \/ s \in Passed(mmap, loopStart, cur)
      BY <1>1, <1>3, <2>2, <3>1, PassedGrows
    <3> QED
      BY <2>2, <3>2 DEF ScanInv, PassedInUse
  <2> QED
    BY <2>1, <2>2
<1>4. loopStart' # NoSlot
  BY <1>1, NoSlotOutside
<1>5. PassedInUse'
  BY <1>3, <1>4 DEF ScanInv, PassedInUse
<1> QED
  BY <1>2, <1>5 DEF ScanInv, OomOnlyWhenFull

LEMMA NextScanInv == ScanInv /\ [Next]_vars => ScanInv'
<1> SUFFICES ASSUME ScanInv, [Next]_vars PROVE ScanInv'
  OBVIOUS
<1>m. mmap \in Mmaps
  BY DEF ScanInv, TypeOK
<1>1. CASE UsersChange
  BY <1>1 DEF UsersChange, ScanInv, TypeOK, PassedInUse, OomOnlyWhenFull
<1>2. CASE FirstCall
  <2>1. /\ cur' \in Slots(mmap)
        /\ \A t \in Slots(mmap) : t[1] < MaxDesc => ~Above(t, cur')
    BY <1>2, <1>m, HighestBelowTop, ScanConstants DEF FirstCall
  <2>2. \A t \in Slots(mmap) : t[1] < MaxDesc
    BY <1>m, SlotType, ScanConstants DEF DescIndex
  <2>3. cur' # NoSlot
    BY <2>1, <1>m, NoSlotOutside
  <2> QED
    BY <1>2, <2>1, <2>2, <2>3 DEF FirstCall, ScanInv, TypeOK, PassedInUse, OomOnlyWhenFull
<1>3. CASE FirstCallOutOfBounds
  BY <1>3 DEF FirstCallOutOfBounds, ScanInv, TypeOK, PassedInUse, OomOnlyWhenFull
<1>4. CASE LaterCall
  BY <1>4 DEF LaterCall, ScanInv, TypeOK, PassedInUse, OomOnlyWhenFull
<1>5. CASE Found
  <2>1. cur \in Slots(mmap)
    BY <1>5 DEF Found, ScanInv, TypeOK
  <2>2. PageOf(mmap, cur) \in UsablePages(mmap)
    BY <2>1 DEF UsablePages
  <2> QED
    BY <1>5, <2>1, <2>2 DEF Found, ScanInv, TypeOK, PassedInUse, OomOnlyWhenFull
<1>6. CASE PreviousPage
  <2>1. cur \in Slots(mmap)
    BY <1>6 DEF PreviousPage, Miss, ScanInv, TypeOK
  <2>2. Follows(mmap, cur, cur')
    BY <1>6, <1>m, <2>1, PreviousPageFollows DEF PreviousPage
  <2> QED
    BY <1>6, <2>2, MissScanInv DEF PreviousPage
<1>7. CASE PreviousRegion
  <2>1. cur \in Slots(mmap)
    BY <1>7 DEF PreviousRegion, Miss, ScanInv, TypeOK
  <2>2. Follows(mmap, cur, cur')
    BY <1>7, <1>m, <2>1, PreviousRegionFollows DEF PreviousRegion
  <2> QED
    BY <1>7, <2>2, MissScanInv DEF PreviousRegion
<1>8. CASE PreviousRegionOutOfBounds
  BY <1>8 DEF PreviousRegionOutOfBounds, Miss, ScanInv, TypeOK, PassedInUse, OomOnlyWhenFull
<1>9. CASE Exhausted
  <2>1. cur \in Slots(mmap) /\ cur = loopStart /\ cur # NoSlot
    BY <1>9 DEF Exhausted, ScanInv, TypeOK
  <2>2. \A s \in Slots(mmap) : PageOf(mmap, s) \in used
    BY <1>9, <1>m, <2>1, PassedAll DEF Exhausted, ScanInv, PassedInUse
  <2>3. UsablePages(mmap) \subseteq used
    BY <2>2 DEF UsablePages
  <2> QED
    BY <1>9, <2>3 DEF Exhausted, ScanInv, TypeOK, PassedInUse, OomOnlyWhenFull
<1>10. CASE UNCHANGED vars
  BY <1>10 DEF vars, ScanInv, TypeOK, PassedInUse, OomOnlyWhenFull
<1> QED
  BY <1>1, <1>2, <1>3, <1>4, <1>5, <1>6, <1>7, <1>8, <1>9, <1>10 DEF Next, Scan

(* The indices of mm_get_free_page stay within the descriptors, on every   *)
(* memory map.                                                             *)
THEOREM ScanTypeCorrect == Spec => []TypeOK
BY InitScanInv, NextScanInv, PTL DEF Spec, ScanInv

(* The "OOM :(" panic is reached only with every usable page in use, on    *)
(* every memory map and after every sequence of calls.                     *)
THEOREM OomIsHonest == Spec => []OomOnlyWhenFull
BY InitScanInv, NextScanInv, PTL DEF Spec, ScanInv

(* What a call passed over between the page returned last and the one it   *)
(* returns now is in use.                                                  *)
THEOREM NothingIsSkipped == Spec => NothingSkipped
<1>1. ASSUME ScanInv, [Next]_vars, last' # last,
             NEW s \in Passed(mmap, last, last')
      PROVE  PageOf(mmap, s) \in used
  <2>1. Found
    BY <1>1 DEF Next, Scan, vars, UsersChange, FirstCall, FirstCallOutOfBounds, LaterCall,
                PreviousPage, PreviousRegion, PreviousRegionOutOfBounds, Miss, Exhausted
  <2>2. mmap \in Mmaps /\ cur \in Slots(mmap) /\ last' = cur /\ s \in Slots(mmap)
    BY <1>1, <2>1 DEF Found, ScanInv, TypeOK, Passed
  <2>3. CASE last # NoSlot
    <3>1. last = loopStart
      BY <1>1, <2>1, <2>2, <2>3 DEF Found, ScanInv, PassedInUse
    <3> QED
      BY <1>1, <2>1, <2>2, <2>3, <3>1 DEF Found, ScanInv, PassedInUse
  <2>4. CASE last = NoSlot
    <3>1. PICK r \in DescIndex, i \in Nat : s = <<r, i>>
      BY <2>2, SlotType
    <3>2. PICK q \in DescIndex, j \in Nat : cur = <<q, j>>
      BY <2>2, SlotType
    <3>3. Above(s, cur)
      BY <1>1, <2>2, <2>4, <3>1, <3>2 DEF Passed, Above, NoSlot, DescIndex
    <3>4. loopStart # NoSlot
      BY <1>1, <2>1, <2>2, <2>4, <3>3 DEF Found, ScanInv, PassedInUse
    <3>5. \A t \in Slots(mmap) : ~Above(t, loopStart)
      BY <2>1, <2>4, <3>4, <1>1 DEF Found, ScanInv, PassedInUse
    <3>6. s \in Passed(mmap, loopStart, cur)
      BY <2>2, <3>3, <3>5 DEF Passed
    <3> QED
      BY <1>1, <2>1, <3>4, <3>6 DEF Found, ScanInv, PassedInUse
  <2> QED
    BY <2>3, <2>4
<1>2. ScanInv /\ [Next]_vars =>
          [last' # last => \A s \in Passed(mmap, last, last') : PageOf(mmap, s) \in used]_vars
  BY <1>1
<1> QED
  BY <1>2, InitScanInv, NextScanInv, PTL DEF Spec, NothingSkipped

-----------------------------------------------------------------------------
(* With a usable descriptor 0 a search always finds a descriptor.          *)
LEMMA SearchFinds ==
    ASSUME NEW m \in Mmaps, Scannable(m, 0), NEW b \in 1 .. MaxDesc
    PROVE  HighestBelow(m, b) # {}
<1> DEFINE S == {q \in 0 .. b - 1 : Scannable(m, q)}
<1>1. S \subseteq 0 .. b - 1 /\ S # {} /\ b - 1 \in Nat
  BY ScanConstants
<1>2. PICK x \in S : \A y \in S : y <= x
  BY <1>1, Lists!GreatestExists
<1>3. \A p \in x + 1 .. b - 1 : ~Scannable(m, p)
  BY <1>1, <1>2
<1> QED
  BY <1>1, <1>2, <1>3 DEF HighestBelow

(* The two steps that leave the table need a descriptor 0 that does not    *)
(* stop the search.                                                        *)
LEMMA EscapeNeedsLow ==
    ASSUME ScanInv, FirstCallOutOfBounds \/ PreviousRegionOutOfBounds
    PROVE  ~Scannable(mmap, 0)
<1> SUFFICES ASSUME Scannable(mmap, 0) PROVE FALSE
  OBVIOUS
<1>1. CASE FirstCallOutOfBounds
  BY <1>1, SearchFinds, ScanConstants DEF FirstCallOutOfBounds, ScanInv, TypeOK
<1>2. CASE PreviousRegionOutOfBounds
  <2>1. mmap \in Mmaps /\ cur \in Slots(mmap)
    BY <1>2 DEF PreviousRegionOutOfBounds, Miss, ScanInv, TypeOK
  <2>2. PICK r \in DescIndex, i \in Nat : cur = <<r, i>>
    BY <2>1, SlotType
  <2>3. SearchBound(cur[1]) \in 1 .. MaxDesc
    BY <2>2, ScanConstants DEF SearchBound, DescIndex
  <2> QED
    BY <1>2, <2>1, <2>3, SearchFinds DEF PreviousRegionOutOfBounds
<1> QED
  BY <1>1, <1>2

(* When descriptor 0 is usable the scan never leaves efi_mmap_usable.      *)
THEOREM LowUsableInBounds == Spec => []InBounds
<1>1. Init => InBounds
  BY DEF Init, InBounds, NoOutOfBounds
<1>2. ASSUME ScanInv, InBounds, [Next]_vars
      PROVE  InBounds'
  <2>1. CASE FirstCallOutOfBounds \/ PreviousRegionOutOfBounds
    BY <1>2, <2>1, EscapeNeedsLow
       DEF FirstCallOutOfBounds, PreviousRegionOutOfBounds, Miss, InBounds
  <2>2. CASE ~(FirstCallOutOfBounds \/ PreviousRegionOutOfBounds)
    BY <1>2, <2>2 DEF Next, Scan, InBounds, NoOutOfBounds, vars, UsersChange, FirstCall,
       LaterCall, Found, PreviousPage, PreviousRegion, Miss, Exhausted
  <2> QED
    BY <2>1, <2>2
<1> QED
  BY <1>1, <1>2, InitScanInv, NextScanInv, PTL DEF Spec

(* mm_get_free_page implements the allocator its callers rely on.          *)
THEOREM ScanImplementsAllocator == Spec => ImplementsAllocator
<1>1. Init => Allocator!Init
  BY DEF Init, Allocator!Init
<1>2. ASSUME ScanInv, ScanInv', [Next]_vars
      PROVE  [Allocator!Next]_(Allocator!vars)
  <2> USE <1>2
  <2>1. CASE UsersChange
    BY <2>1 DEF UsersChange, Allocator!Next, Allocator!UsersChange
  <2>2. CASE FirstCall \/ LaterCall
    BY <2>2 DEF FirstCall, LaterCall, Allocator!Next, Allocator!Request
  <2>3. CASE Found
    <3>1. cur \in Slots(mmap)
      BY <2>3 DEF Found, ScanInv, TypeOK
    <3>2. PageOf(mmap, cur) \in UsablePages(mmap) \ used
      BY <2>3, <3>1 DEF Found, UsablePages
    <3> QED
      BY <2>3, <3>2 DEF Found, Allocator!Next, Allocator!Grant
  <2>4. CASE PreviousPage \/ PreviousRegion
    BY <2>4 DEF PreviousPage, PreviousRegion, Miss, Allocator!vars
  <2>5. CASE Exhausted
    BY <2>5 DEF Exhausted, ScanInv, OomOnlyWhenFull, Allocator!Next, Allocator!Fail
  <2>6. CASE FirstCallOutOfBounds \/ PreviousRegionOutOfBounds
    <3>1. ~Scannable(mmap, 0)
      BY <2>6, EscapeNeedsLow
    <3> QED
      BY <2>6, <3>1 DEF FirstCallOutOfBounds, PreviousRegionOutOfBounds, Miss,
         Allocator!Next, Allocator!Escape
  <2>7. CASE UNCHANGED vars
    BY <2>7 DEF vars, Allocator!vars
  <2> QED
    BY <2>1, <2>2, <2>3, <2>4, <2>5, <2>6, <2>7 DEF Next, Scan
<1> QED
  BY <1>1, <1>2, InitScanInv, NextScanInv, PTL
     DEF Spec, ImplementsAllocator, Allocator!Spec
=============================================================================
