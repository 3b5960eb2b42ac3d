---------------------------- MODULE StartupProofs ----------------------------
(***************************************************************************)
(* The bootloader's account of the machine's pages is right when the       *)
(* hypervisor is entered, and a guest is launched with its memory mapped   *)
(* and its kernel in place: for any firmware memory map and any placement  *)
(* of pages, any number of firmware events and any image.  The last part   *)
(* follows the page tables that the bootloader builds: the hypervisor is   *)
(* entered in exactly the address space that memory_map.h promises.        *)
(***************************************************************************)
EXTENDS Startup, SequenceTheorems, FiniteSetTheorems, TLAPS

Lists == INSTANCE PageListProofs

LoaderType == {"LoaderCode", "LoaderData"}
Role == {"nothing", "chainload", "section", "attachment", "table"}
Region == [at : Nat, pages : Nat]
Offer == [at : Nat, pages : Nat, usable : BOOLEAN]
Descriptor == [at : Nat, pages : Nat, type : MemoryType]

ChainRecord ==
    [page : Page, sections : Seq(Page), attachment : [at : Page, size : Nat],
     regions : Seq(Region), usable : Seq(Offer)]
LocalRecord == [section : Nat, page : Nat, pml4 : Page, pdpt : Page]
MmapRecord ==
    [size : Nat, sized : BOOLEAN, at : Page, descriptors : SUBSET Descriptor, current : BOOLEAN]
FirmwareRecord == [policy : Policies, switches : Nat, events : Nat]

Statuses == {"none", "firmware", "level", "map", "EFI_BUFFER_TOO_SMALL", "EFI_UNSUPPORTED",
             "EFI_OUT_OF_RESOURCES"}

BootType ==
    /\ types \in [Page -> MemoryType]
    /\ holds \in [Page -> Role]
    /\ chain \in ChainRecord
    /\ local \in LocalRecord
    /\ mmap \in MmapRecord
    /\ fw \in FirmwareRecord
    /\ DOMAIN tables \subseteq Page
    /\ error \in Statuses

(* The capacities of the chainload page.                                   *)
WithinCapacity == Len(chain.regions) <= MaxRegions /\ Len(chain.usable) <= MaxDescriptors

(* What the bootloader put somewhere stays allocated to it.                *)
Owned == \A p \in Page : holds[p] # "nothing" => types[p] \in LoaderType

(* The chainload page tells where all of it is.                            *)
Accounted == \A p \in Page : holds[p] # "nothing" => UsedByChainload(p)

(* Where efi_main is: nothing is stored at the start, the buffer of the    *)
(* memory map holds nothing that is kept, sections and attachment come in  *)
(* order.                                                                  *)
Progress ==
    /\ pc = "start" => chain = NoChain /\ \A p \in Page : holds[p] = "nothing"
    /\ pc \in {"read", "exit", "retry"} => holds[mmap.at] = "nothing"
    /\ pc \in {"start", "sections"} => Len(chain.sections) < 4
    /\ pc \in {"start", "sections", "attachments"} => chain.attachment.size = 0

InRegion(p, r) == p \in Span(r.at, r.pages)

RegionsInv ==
    /\ \A p \in Page : holds[p] = "table" => \E i \in DOMAIN chain.regions : InRegion(p, chain.regions[i])
    /\ \A i \in DOMAIN chain.regions : \A p \in Nat :
          InRegion(p, chain.regions[i]) => p \in Page /\ holds[p] = "table"
    /\ \A i, j \in DOMAIN chain.regions : \A p \in Nat :
          InRegion(p, chain.regions[i]) /\ InRegion(p, chain.regions[j]) => i = j

(* The offers of the chainload page made so far, and those still to come   *)
(* from the descriptors that are left.                                     *)
Covers(p, d) == p \in Span(d.at, d.pages)

OffersSound ==
    \A i \in DOMAIN chain.usable : chain.usable[i].usable =>
        \A p \in Nat : Covers(p, chain.usable[i]) => p \in Page /\ Usable(types[p])

IsOffered(p) ==
    \E i \in DOMAIN chain.usable : chain.usable[i].usable /\ Covers(p, chain.usable[i])

MergeInv ==
    /\ pc = "exit" /\ mmap.current => mmap.descriptors = Descriptors
    /\ pc = "merge" =>
          /\ mmap.descriptors \subseteq Descriptors
          /\ \A p \in Page : Usable(types[p]) => IsOffered(p) \/ \E d \in mmap.descriptors : Covers(p, d)
    /\ pc \in {"merge", "chainload", "hvmain"} => OffersSound
    /\ pc \in {"chainload", "hvmain"} /\ Len(chain.usable) < MaxDescriptors =>
          \A p \in Page : Usable(types[p]) => IsOffered(p)
    /\ pc \notin {"merge", "chainload", "hvmain"} => chain.usable = <<>>

BootInv == BootType /\ WithinCapacity /\ Owned /\ Accounted /\ Progress /\ RegionsInv /\ MergeInv

-----------------------------------------------------------------------------
(* An address below 512 GiB is the digits the walk takes it apart into.    *)
LEMMA ThreeDigits ==
    ASSUME NEW E \in Nat \ {0}, NEW la \in Nat, la < E * E * E
    PROVE  /\ (la \div (E * E * E)) % E = 0
           /\ (la \div (E * E)) % E \in 0 .. E - 1
           /\ (la \div E) % E \in 0 .. E - 1
           /\ (((la \div (E * E)) % E) * E + ((la \div E) % E)) * E + (la % E) = la
<1>1. PICK q \in Nat, r \in 0 .. E - 1 : la = E * q + r /\ la \div E = q /\ la % E = r
  BY Lists!DivMod
<1>2. PICK i \in Nat, j \in 0 .. E - 1 : q = E * i + j /\ q \div E = i /\ q % E = j
  BY Lists!DivMod
<1>3. E * E \in Nat \ {0} /\ E * E * E \in Nat \ {0}
  OBVIOUS
<1>4. E * j + r \in 0 .. E * E - 1
  OBVIOUS
<1>5. la = (E * E) * i + (E * j + r)
  BY <1>1, <1>2
<1>6. la \div (E * E) = i
  BY <1>3, <1>4, <1>5, Lists!DivUnique
<1>7. i < E
  BY <1>3, <1>4, <1>5
<1>8. i % E = i
  BY <1>7
<1>9. la \div (E * E * E) = 0
  BY <1>3, Lists!DivUnique
<1>10. 0 % E = 0
  OBVIOUS
<1>11. (i * E + j) * E + r = la
  BY <1>1, <1>2
<1> QED
  BY <1>1, <1>2, <1>6, <1>7, <1>8, <1>9, <1>10, <1>11

LEMMA PageFacts ==
    /\ PageCount \in Nat \ {0}
    /\ Page \subseteq Nat /\ Page \subseteq 0 .. PageCount
    /\ 0 \in Page
    /\ SECTION_PAGES \in Nat \ {0}
    /\ Entries \in Nat \ {0, 1}
<1>1. PageCount \in Nat \ {0}
  BY BootConstants, EntriesAssumption
<1>2. Entries \div 2 \in Nat \ {0}
  BY BootConstants, EntriesAssumption
<1> QED
  BY <1>1, <1>2, EntriesAssumption DEF Page, SECTION_PAGES

LEMMA SpanGrows ==
    ASSUME NEW a \in Nat, NEW n \in Nat, NEW k \in 0 .. n
    PROVE  Span(a, k) \subseteq Span(a, n)
BY DEF Span

(* A block the firmware hands out is free memory of the machine.           *)
LEMMA BlockFree ==
    ASSUME NEW n \in Nat \ {0}, NEW b \in Blocks(n)
    PROVE  /\ b.at \in Page
           /\ \A p \in Span(b.at, n) : p \in Page /\ types[p] = "Conventional"
           /\ b.policy \in Policies
<1>1. PICK q \in Policies : \E a \in Placed(q, n) : b = [policy |-> q, at |-> a]
  BY DEF Blocks
<1>2. b.at \in Fitting(q, n) /\ b.policy = q
  BY <1>1 DEF Placed
<1>3. b.at \in Nat
  BY <1>2, PageFacts DEF Fitting
<1>4. Span(b.at, n) \subseteq Span(b.at, n + 1)
  BY <1>3, SpanGrows
<1> QED
  BY <1>2, <1>4 DEF Fitting

(* A file read short fills no more pages than were allocated for it.       *)
LEMMA PagesOfRead ==
    ASSUME NEW s \in Nat \ {0}, NEW r \in {s - 1, s}
    PROVE  PagesOf(r) \in Nat /\ PagesOf(s) \in Nat \ {0} /\ PagesOf(r) <= PagesOf(s)
BY BootConstants DEF PagesOf

LEMMA PagesOfNothing == PagesOf(0) = 0
BY BootConstants DEF PagesOf

(* AllocatePages, and the pages of the block marked with what they hold.   *)
LEMMA Allocation ==
    ASSUME BootType, Owned,
           NEW n \in Nat \ {0}, NEW b \in Blocks(n), NEW k \in 0 .. n,
           NEW type \in LoaderType, NEW role \in Role,
           AllocatePages(b, n, type), holds' = Marked(b.at, k, role)
    PROVE  /\ types' \in [Page -> MemoryType]
           /\ holds' \in [Page -> Role]
           /\ fw' \in FirmwareRecord
           /\ b.at \in Page
           /\ \A p \in Page : holds'[p] # "nothing" => types'[p] \in LoaderType
           /\ \A p \in Span(b.at, k) : p \in Page /\ holds[p] = "nothing" /\ holds'[p] = role
           /\ \A p \in Page : p \notin Span(b.at, k) => holds'[p] = holds[p]
<1>1. /\ b.at \in Page /\ b.policy \in Policies
      /\ \A p \in Span(b.at, n) : p \in Page /\ types[p] = "Conventional"
  BY BlockFree
<1>2. Span(b.at, k) \subseteq Span(b.at, n)
  BY <1>1, PageFacts, SpanGrows
<1>3. types' \in [Page -> MemoryType]
  BY DEF BootType, AllocatePages, LoaderType, MemoryType
<1>4. holds' \in [Page -> Role]
  BY DEF BootType, Marked
<1>5. fw' \in FirmwareRecord
  <2>1. fw \in FirmwareRecord /\ fw.switches \in Nat
    BY DEF BootType, FirmwareRecord
  <2> DEFINE more == IF b.policy = fw.policy THEN 0 ELSE 1
  <2>2. fw' = [fw EXCEPT !.policy = b.policy, !.switches = fw.switches + more]
    BY <2>1 DEF AllocatePages, FirmwareRecord
  <2>3. fw.switches + more \in Nat
    BY <2>1
  <2> HIDE DEF more
  <2> QED
    BY <1>1, <2>1, <2>2, <2>3 DEF FirmwareRecord
<1>6. \A p \in Span(b.at, n) : holds[p] = "nothing"
  BY <1>1 DEF Owned, LoaderType
<1>7. \A p \in Page : holds'[p] # "nothing" => types'[p] \in LoaderType
  BY <1>2 DEF Owned, AllocatePages, Marked
<1>8. \A p \in Span(b.at, k) : p \in Page /\ holds[p] = "nothing"
  BY <1>1, <1>2, <1>6
<1>9. /\ \A p \in Span(b.at, k) : holds'[p] = role
      /\ \A p \in Page : p \notin Span(b.at, k) => holds'[p] = holds[p]
  BY <1>8 DEF Marked
<1> QED
  BY <1>1, <1>3, <1>4, <1>5, <1>7, <1>8, <1>9

-----------------------------------------------------------------------------
(* The region collapser: the regions cover the new block besides what they *)
(* covered, each page once, within the capacity.                           *)
LEMMA RecordedRegions ==
    ASSUME NEW r \in Seq(Region), NEW at \in Nat, NEW n \in Nat \ {0},
           Recordable(r, at, n), Len(r) <= MaxRegions,
           \A i \in DOMAIN r : \A p \in Nat : InRegion(p, r[i]) => p \notin Span(at, n),
           \A i, j \in DOMAIN r : \A p \in Nat : InRegion(p, r[i]) /\ InRegion(p, r[j]) => i = j
    PROVE  /\ Recorded(r, at, n) \in Seq(Region)
           /\ Len(Recorded(r, at, n)) <= MaxRegions
           /\ \A p \in Nat :
                 (\E i \in DOMAIN Recorded(r, at, n) : InRegion(p, Recorded(r, at, n)[i])) <=>
                     (p \in Span(at, n) \/ \E i \in DOMAIN r : InRegion(p, r[i]))
           /\ \A i, j \in DOMAIN Recorded(r, at, n) : \A p \in Nat :
                 InRegion(p, Recorded(r, at, n)[i]) /\ InRegion(p, Recorded(r, at, n)[j]) => i = j
<1> DEFINE R == Recorded(r, at, n)
<1>0. \A i \in DOMAIN r : r[i] \in Region /\ r[i].at \in Nat /\ r[i].pages \in Nat
  <2>1. \A i \in DOMAIN r : r[i] \in Region
    OBVIOUS
  <2> QED
    BY <2>1 DEF Region
<1>1. CASE Adjacent(r, at, n) = {}
  <2> DEFINE new == [at |-> at, pages |-> n]
  <2>1. R = Append(r, new) /\ new \in Region /\ MaxRegions \in Nat
    BY <1>1, BootConstants DEF Recorded, Region
  <2>2. Len(r) < MaxRegions
    BY <1>1 DEF Recordable
  <2>3. /\ R \in Seq(Region) /\ Len(R) = Len(r) + 1
        /\ R[Len(r) + 1] = new /\ \A i \in DOMAIN r : R[i] = r[i]
        /\ DOMAIN R = DOMAIN r \cup {Len(r) + 1}
    BY <2>1
  <2>4. \A p : InRegion(p, new) <=> p \in Span(at, n)
    BY DEF InRegion
  <2>5. Len(r) + 1 \notin DOMAIN r /\ Len(r) \in Nat
    OBVIOUS
  <2> HIDE DEF R, new
  <2>6. Len(R) <= MaxRegions
    BY <2>1, <2>2, <2>3, <2>5
  <2>7. \A p \in Nat : (\E i \in DOMAIN R : InRegion(p, R[i])) <=>
                          (p \in Span(at, n) \/ \E i \in DOMAIN r : InRegion(p, r[i]))
    BY <2>3, <2>4
  <2>8. \A i, j \in DOMAIN R : \A p \in Nat : InRegion(p, R[i]) /\ InRegion(p, R[j]) => i = j
    BY <2>3, <2>4, <2>5
  <2> QED
    BY <2>3, <2>6, <2>7, <2>8 DEF R
<1>2. CASE Adjacent(r, at, n) # {}
  <2>1. Adjacent(r, at, n) \subseteq DOMAIN r /\ DOMAIN r \subseteq Nat
    BY DEF Adjacent
  <2>2. PICK x \in Adjacent(r, at, n) : \A y \in Adjacent(r, at, n) : x <= y
    BY <1>2, <2>1, Lists!LeastExists
  <2>3. PICK m : m = Min(Adjacent(r, at, n))
    OBVIOUS
  <2>4. m \in DOMAIN r /\ (at + n = r[m].at \/ at = r[m].at + r[m].pages)
    BY <2>2, <2>3 DEF Min, Adjacent
  <2> DEFINE grown == [at |-> IF at < r[m].at THEN at ELSE r[m].at, pages |-> r[m].pages + n]
  <2>5. R = [r EXCEPT ![m] = grown]
    BY <1>2, <2>3, <2>4 DEF Recorded
  <2>6. grown \in Region
    BY <1>0, <2>4 DEF Region
  <2>7. \A p \in Nat : InRegion(p, grown) <=> p \in Span(at, n) \/ InRegion(p, r[m])
    <3>1. r[m].at \in Nat /\ r[m].pages \in Nat
      BY <1>0, <2>4
    <3>2. PICK base, size \in Nat : base = r[m].at /\ size = r[m].pages
      BY <3>1
    <3>3. grown = [at |-> IF at < base THEN at ELSE base, pages |-> size + n]
      BY <3>2
    <3>4. grown.at = (IF at < base THEN at ELSE base) /\ grown.pages = size + n
      BY <3>3
    <3>5. at + n = base \/ at = base + size
      BY <2>4, <3>2
    <3> HIDE DEF grown
    <3>6. \A p \in Nat : p \in Span(grown.at, grown.pages) <=> p \in Span(at, n) \/ p \in Span(base, size)
      BY <3>4, <3>5 DEF Span
    <3> QED
      BY <3>2, <3>6 DEF InRegion
  <2> HIDE DEF grown
  <2>8. R \in Seq(Region) /\ Len(R) = Len(r) /\ DOMAIN R = DOMAIN r
    BY <2>4, <2>5, <2>6
  <2>9. R[m] = grown /\ \A i \in DOMAIN r : i # m => R[i] = r[i]
    BY <2>4, <2>5
  <2> HIDE DEF R
  <2>10. \A p \in Nat : (\E i \in DOMAIN R : InRegion(p, R[i])) <=>
                          (p \in Span(at, n) \/ \E i \in DOMAIN r : InRegion(p, r[i]))
    BY <2>4, <2>7, <2>8, <2>9
  <2>11. \A i, j \in DOMAIN R : \A p \in Nat : InRegion(p, R[i]) /\ InRegion(p, R[j]) => i = j
    BY <2>4, <2>7, <2>8, <2>9
  <2> QED
    BY <2>8, <2>10, <2>11 DEF R
<1> QED
  BY <1>1, <1>2

-----------------------------------------------------------------------------
(* The firmware's map: the pages of a descriptor have its type.            *)
LEMMA DescriptorPages ==
    ASSUME types \in [Page -> MemoryType], NEW d \in Descriptors
    PROVE  /\ d \in Descriptor
           /\ \A p \in Nat : Covers(p, d) => p \in Page /\ types[p] = d.type /\ d.type # "Hole"
<1>1. PICK a \in Starts : d = [at |-> a, pages |-> Min({q \in Ends : q > a}) - a, type |-> types[a]]
  BY DEF Descriptors
<1>2. a \in Page /\ a \in Nat /\ types[a] # "Hole" /\ types[a] \in MemoryType
  BY PageFacts DEF Starts
<1>3. {q \in Ends : q > a} \subseteq Nat /\ PageCount \in {q \in Ends : q > a}
  BY <1>2, PageFacts DEF Ends, Starts, Page
<1>4. PICK e \in {q \in Ends : q > a} : \A q \in {q \in Ends : q > a} : e <= q
  BY <1>3, Lists!LeastExists
<1>5. PICK m : m = Min({q \in Ends : q > a})
  OBVIOUS
<1>6. m \in Ends /\ m > a /\ \A q \in Ends : q > a => m <= q
  BY <1>4, <1>5 DEF Min
<1>7. m \in Nat /\ m <= PageCount
  BY <1>3, <1>6
<1>8. d = [at |-> a, pages |-> m - a, type |-> types[a]] /\ m - a \in Nat
  BY <1>1, <1>2, <1>5, <1>6, <1>7
<1>9. d \in Descriptor
  BY <1>2, <1>8 DEF Descriptor
<1>10. \A p \in Nat : Covers(p, d) <=> (a <= p /\ p < m)
  BY <1>2, <1>7, <1>8 DEF Covers, Span
<1>11. \A p \in Nat : p < m => p \in Page
  BY <1>7, PageFacts DEF Page
<1>12. \A p \in Nat : a <= p /\ p < m => types[p] = types[a]
  <2> DEFINE odd == {p \in a .. m - 1 : types[p] # types[a]}
  <2>1. SUFFICES ASSUME odd # {} PROVE FALSE
    BY <1>2, <1>7
  <2>2. odd \subseteq Nat
    BY <1>2, <1>7
  <2>3. PICK p \in odd : \A q \in odd : p <= q
    BY <2>1, <2>2, Lists!LeastExists
  <2>4. p \in Nat /\ a < p /\ p < m /\ types[p] # types[a]
    BY <2>3, <1>2, <1>7
  <2>5. p - 1 \in a .. m - 1 /\ ~(p <= p - 1)
    BY <1>2, <1>7, <2>4
  <2>6. types[p - 1] = types[a]
    BY <2>3, <2>5
  <2>7. p \in Page
    BY <1>11, <2>4
  <2>8. p \in Ends
    BY <2>4, <2>6, <2>7 DEF Ends, Starts
  <2> QED
    BY <1>2, <1>6, <1>7, <2>4, <2>8
<1> QED
  BY <1>2, <1>8, <1>9, <1>10, <1>11, <1>12

(* Every page outside of the holes is in a descriptor.                     *)
LEMMA DescriptorsComplete ==
    ASSUME types \in [Page -> MemoryType], NEW p \in Page, types[p] # "Hole"
    PROVE  \E d \in Descriptors : Covers(p, d)
<1> DEFINE breaks == {x \in 0 .. p : x = 0 \/ x \in Splits \/ types[x - 1] # types[x]}
<1>1. p \in Nat /\ breaks \subseteq 0 .. p /\ 0 \in breaks /\ \A x \in 0 .. p : x \in Page
  BY PageFacts DEF Page
<1>2. PICK a \in breaks : \A y \in breaks : y <= a
  BY <1>1, Lists!GreatestExists
<1>3. a \in Nat /\ a <= p /\ a \in Page
  BY <1>1, <1>2
<1>4. \A x \in a .. p : types[x] = types[a]
  <2> DEFINE odd == {x \in a .. p : types[x] # types[a]}
  <2>1. SUFFICES ASSUME odd # {} PROVE FALSE
    OBVIOUS
  <2>2. odd \subseteq Nat
    BY <1>1, <1>3
  <2>3. PICK x \in odd : \A y \in odd : x <= y
    BY <2>1, <2>2, Lists!LeastExists
  <2>4. x \in Nat /\ a < x /\ x <= p /\ types[x] # types[a]
    BY <1>1, <1>3, <2>3
  <2>5. x - 1 \in a .. p /\ ~(x <= x - 1)
    BY <1>1, <1>3, <2>4
  <2>6. types[x - 1] = types[a]
    BY <2>3, <2>5
  <2>7. x \in breaks
    BY <1>1, <2>4, <2>6
  <2> QED
    BY <1>2, <1>3, <2>4, <2>7
<1>5. types[a] = types[p] /\ a \in Starts
  BY <1>1, <1>2, <1>3, <1>4 DEF Starts
<1>6. {q \in Ends : q > a} \subseteq Nat /\ PageCount \in {q \in Ends : q > a}
  BY <1>3, PageFacts DEF Ends, Starts, Page
<1>7. PICK e \in {q \in Ends : q > a} : \A q \in {q \in Ends : q > a} : e <= q
  BY <1>6, Lists!LeastExists
<1>8. PICK m : m = Min({q \in Ends : q > a})
  OBVIOUS
<1>9. m \in Ends /\ m > a /\ m \in Nat
  BY <1>6, <1>7, <1>8 DEF Min
<1>10. p < m
  <2>1. SUFFICES ASSUME m <= p PROVE FALSE
    BY <1>1, <1>9
  <2>2. m \in a .. p /\ m \in 0 .. p
    BY <1>1, <1>3, <1>9, <2>1
  <2>3. m \notin breaks
    BY <1>2, <1>3, <1>9
  <2>4. types[m] = types[a] /\ types[m] # "Hole"
    BY <1>4, <1>5, <2>2
  <2>5. m \notin Starts
    BY <2>2, <2>3 DEF Starts
  <2>6. m = PageCount
    BY <1>9, <2>4, <2>5 DEF Ends
  <2> QED
    BY <2>1, <2>6, PageFacts DEF Page
<1> DEFINE d == [at |-> a, pages |-> m - a, type |-> types[a]]
<1>11. d \in Descriptors
  BY <1>5, <1>8 DEF Descriptors
<1>12. Covers(p, d)
  BY <1>1, <1>3, <1>9, <1>10 DEF Covers, Span
<1> QED
  BY <1>11, <1>12

-----------------------------------------------------------------------------
Merging == {"merge", "chainload", "hvmain"}

LEMMA ChainFields ==
    ASSUME BootType
    PROVE  /\ chain \in ChainRecord
           /\ chain.page \in Page /\ chain.sections \in Seq(Page)
           /\ chain.attachment \in [at : Page, size : Nat]
           /\ chain.attachment.at \in Nat /\ chain.attachment.size \in Nat
           /\ chain.regions \in Seq(Region) /\ chain.usable \in Seq(Offer)
BY PageFacts DEF BootType, ChainRecord

(* Steps that leave the memory, its map and the chainload page alone.      *)
LEMMA MemoryKept ==
    ASSUME BootInv, UNCHANGED <<types, holds, chain>>
    PROVE  /\ WithinCapacity' /\ Owned' /\ Accounted' /\ RegionsInv'
           /\ Descriptors' = Descriptors
           /\ OffersSound' <=> OffersSound
           /\ \A p : IsOffered(p)' <=> IsOffered(p)
           /\ \A p : (Usable(types[p]))' <=> Usable(types[p])
<1>1. WithinCapacity' /\ Owned'
  BY DEF BootInv, WithinCapacity, Owned
<1>2. Accounted'
  BY DEF BootInv, Accounted, UsedByChainload
<1>3. RegionsInv'
  BY DEF BootInv, RegionsInv
<1>4. Descriptors' = Descriptors
  BY DEF Descriptors, Starts, Ends
<1>5. OffersSound' <=> OffersSound
  BY DEF OffersSound
<1>6. \A p : IsOffered(p)' <=> IsOffered(p)
  BY DEF IsOffered
<1> QED
  BY <1>1, <1>2, <1>3, <1>4, <1>5, <1>6

(* efi_main gives up.                                                      *)
LEMMA FailStep ==
    ASSUME BootInv, pc \notin Merging, NEW status \in Statuses, Fail(status)
    PROVE  BootInv'
<1>1. /\ pc' = "failed" /\ error' \in Statuses
      /\ UNCHANGED <<types, fw, holds, chain, tables, local, mmap>>
  BY DEF Fail
<1>2. BootType'
  BY <1>1 DEF BootInv, BootType
<1>3. Progress'
  BY <1>1 DEF Progress
<1>4. MergeInv'
  BY <1>1 DEF BootInv, MergeInv, Merging
<1> QED
  BY <1>1, <1>2, <1>3, <1>4, MemoryKept DEF BootInv

(* Steps that leave the memory alone and do not end in the merging.        *)
LEMMA QuietStep ==
    ASSUME BootInv, UNCHANGED <<types, fw, holds, chain, error>>,
           pc \notin Merging, pc' \notin Merging,
           pc' \notin {"start", "sections", "attachments"},
           local' \in LocalRecord, mmap' \in MmapRecord, DOMAIN tables' \subseteq Page,
           pc' \in {"read", "exit", "retry"} => pc \in {"read", "exit", "retry"} /\ mmap'.at = mmap.at,
           pc' = "exit" /\ mmap'.current => mmap'.descriptors = Descriptors
    PROVE  BootInv'
<1>1. BootType'
  BY DEF BootInv, BootType
<1>2. Progress'
  BY DEF BootInv, Progress
<1>3. MergeInv'
  BY MemoryKept DEF BootInv, MergeInv, Merging
<1> QED
  BY <1>1, <1>2, <1>3, MemoryKept DEF BootInv

(* An allocation from which the chainload page gains what the block holds. *)
LEMMA AllocationStep ==
    ASSUME BootInv, pc \notin Merging,
           NEW n \in Nat \ {0}, NEW b \in Blocks(n), NEW k \in 0 .. n,
           NEW type \in LoaderType, NEW role \in Role,
           AllocatePages(b, n, type), holds' = Marked(b.at, k, role),
           chain' \in ChainRecord, chain'.usable = chain.usable, Len(chain'.regions) <= MaxRegions,
           \A p \in Page : holds[p] # "nothing" /\ UsedByChainload(p) => UsedByChainload(p)',
           \A p \in Span(b.at, k) : UsedByChainload(p)',
           RegionsInv',
           local' \in LocalRecord, DOMAIN tables' \subseteq Page,
           UNCHANGED <<error, mmap>>,
           pc' \notin Merging, pc' \notin {"start", "read", "exit", "retry"},
           pc' = "sections" => Len(chain'.sections) < 4,
           pc' \in {"sections", "attachments"} => chain'.attachment.size = 0
    PROVE  BootInv'
<1>1. BootType /\ Owned
  BY DEF BootInv
<1>2. /\ types' \in [Page -> MemoryType]
      /\ holds' \in [Page -> Role]
      /\ fw' \in FirmwareRecord
      /\ \A p \in Page : holds'[p] # "nothing" => types'[p] \in LoaderType
      /\ \A p \in Page : p \notin Span(b.at, k) => holds'[p] = holds[p]
  BY <1>1, Allocation
<1>3. BootType'
  BY <1>1, <1>2 DEF BootType
<1>4. WithinCapacity'
  BY DEF BootInv, WithinCapacity
<1>5. Owned'
  BY <1>2 DEF Owned
<1>6. Accounted'
  BY <1>2 DEF BootInv, Accounted
<1>7. Progress'
  BY DEF Progress
<1>8. MergeInv'
  BY DEF BootInv, MergeInv, Merging
<1> QED
  BY <1>3, <1>4, <1>5, <1>6, <1>7, <1>8 DEF BootInv

(* The regions when a block that is not a table is taken.                  *)
LEMMA RegionsKept ==
    ASSUME BootInv, NEW n \in Nat \ {0}, NEW b \in Blocks(n), NEW k \in 0 .. n,
           NEW type \in LoaderType, NEW role \in Role \ {"table"},
           AllocatePages(b, n, type), holds' = Marked(b.at, k, role),
           chain'.regions = chain.regions
    PROVE  RegionsInv'
<1>1. BootType /\ Owned
  BY DEF BootInv
<1>2. /\ \A p \in Span(b.at, k) : p \in Page /\ holds[p] = "nothing" /\ holds'[p] = role
      /\ \A p \in Page : p \notin Span(b.at, k) => holds'[p] = holds[p]
  BY <1>1, Allocation
<1>3. \A p \in Page : holds'[p] = "table" <=> holds[p] = "table"
  BY <1>2
<1> QED
  BY <1>3 DEF BootInv, RegionsInv

-----------------------------------------------------------------------------
(* The steps of efi_main, one by one.                                      *)
LEMMA NoChainTyped == NoChain \in ChainRecord
<1>1. <<>> \in Seq(Page) /\ <<>> \in Seq(Region) /\ <<>> \in Seq(Offer)
  OBVIOUS
<1> QED
  BY <1>1, PageFacts DEF NoChain, ChainRecord

LEMMA AllocateChainloadStep == ASSUME BootInv, AllocateChainload PROVE BootInv'
<1>1. PICK b \in Blocks(1) :
          /\ AllocatePages(b, 1, "LoaderData")
          /\ holds' = Marked(b.at, 1, "chainload")
          /\ chain' = [NoChain EXCEPT !.page = b.at]
  BY DEF AllocateChainload
<1>2. /\ pc = "start" /\ pc' = "sections"
      /\ UNCHANGED <<error, tables, local, mmap>>
      /\ chain = NoChain /\ chain.attachment.size = 0 /\ Len(chain.sections) < 4
      /\ \A p \in Page : holds[p] = "nothing"
  BY DEF AllocateChainload, BootInv, Progress
<1>3. b.at \in Page
  BY BlockFree
<1>4. /\ chain' \in ChainRecord /\ chain'.page = b.at
      /\ chain'.usable = chain.usable /\ chain'.regions = chain.regions
      /\ chain'.attachment = chain.attachment /\ chain'.sections = chain.sections
  BY <1>1, <1>2, <1>3, NoChainTyped DEF ChainRecord
<1>5. \A p \in Span(b.at, 1) : UsedByChainload(p)'
  <2>1. b.at \in Nat
    BY <1>3, PageFacts
  <2>2. \A p \in Span(b.at, 1) : p = b.at
    BY <2>1 DEF Span
  <2> QED
    BY <1>4, <2>2 DEF UsedByChainload
<1>6. RegionsInv'
  BY <1>1, <1>4, RegionsKept DEF Role, LoaderType
<1>7. /\ local' \in LocalRecord /\ DOMAIN tables' \subseteq Page /\ Len(chain'.regions) <= MaxRegions
      /\ pc \notin Merging /\ pc' \notin Merging \cup {"start", "read", "exit", "retry"}
  BY <1>2, <1>4 DEF BootInv, BootType, WithinCapacity, Merging
<1> QED
  BY <1>1, <1>2, <1>4, <1>5, <1>6, <1>7, AllocationStep DEF Role, LoaderType

LEMMA SectionTypes ==
    /\ Len(Sections) = 4
    /\ \A s \in 1 .. 4 : Sections[s].type \in LoaderType
BY DEF Sections, Section, LoaderType

LEMMA LoadSectionStep == ASSUME BootInv, LoadSection PROVE BootInv'
<1> DEFINE s == Len(chain.sections) + 1
<1>0. BootType /\ chain \in ChainRecord /\ chain.sections \in Seq(Page) /\ SECTION_PAGES \in Nat \ {0}
  BY ChainFields, PageFacts DEF BootInv
<1>1. PICK b \in Blocks(SECTION_PAGES) :
          /\ AllocatePages(b, SECTION_PAGES, Sections[s].type)
          /\ holds' = Marked(b.at, SECTION_PAGES, "section")
          /\ chain' = [chain EXCEPT !.sections = Append(@, b.at)]
  BY DEF LoadSection
<1>2. /\ pc = "sections"
      /\ pc' = IF s = Len(Sections) THEN "attachments" ELSE "sections"
      /\ UNCHANGED <<error, tables, local, mmap>>
      /\ chain.attachment.size = 0 /\ Len(chain.sections) < 4
  BY DEF LoadSection, BootInv, Progress
<1>3. s \in 1 .. 4 /\ Sections[s].type \in LoaderType
  BY <1>0, <1>2, SectionTypes
<1>4. b.at \in Page
  BY <1>0, BlockFree
<1>5. Append(chain.sections, b.at) \in Seq(Page) /\ Len(Append(chain.sections, b.at)) = s
      /\ \A i \in DOMAIN chain.sections : i \in DOMAIN Append(chain.sections, b.at)
                                          /\ Append(chain.sections, b.at)[i] = chain.sections[i]
      /\ s \in DOMAIN Append(chain.sections, b.at) /\ Append(chain.sections, b.at)[s] = b.at
  BY <1>0, <1>4
<1>6. /\ chain' \in ChainRecord /\ chain'.page = chain.page
      /\ chain'.usable = chain.usable /\ chain'.regions = chain.regions
      /\ chain'.attachment = chain.attachment
      /\ chain'.sections = Append(chain.sections, b.at)
  BY <1>0, <1>1, <1>5 DEF ChainRecord
<1> HIDE DEF s
<1>7. \A p \in Page : UsedByChainload(p) => UsedByChainload(p)'
  BY <1>5, <1>6 DEF UsedByChainload
<1>8. \A p \in Span(b.at, SECTION_PAGES) : UsedByChainload(p)'
  BY <1>5, <1>6 DEF UsedByChainload
<1>9. SECTION_PAGES \in 0 .. SECTION_PAGES /\ "section" \in Role \ {"table"}
  BY <1>0 DEF Role
<1>10. RegionsInv'
  BY <1>0, <1>1, <1>3, <1>6, <1>9, RegionsKept
<1>11. /\ local' \in LocalRecord /\ DOMAIN tables' \subseteq Page /\ Len(chain'.regions) <= MaxRegions
       /\ pc \notin Merging /\ pc' \notin Merging \cup {"start", "read", "exit", "retry"}
  BY <1>2, <1>6 DEF BootInv, BootType, WithinCapacity, Merging
<1>12. pc' = "sections" => Len(chain'.sections) < 4
  BY <1>2, <1>3, <1>5, <1>6, SectionTypes
<1> QED
  BY <1>0, <1>1, <1>2, <1>3, <1>6, <1>7, <1>8, <1>9, <1>10, <1>11, <1>12, AllocationStep

LEMMA LoadAttachmentStep == ASSUME BootInv, LoadAttachment PROVE BootInv'
<1>0. /\ BootType /\ chain \in ChainRecord
      /\ chain.attachment.at \in Nat
  BY ChainFields DEF BootInv
<1>a. PICK size \in FileSizes : \E read \in {size - 1, size} :
          \E b \in Blocks(PagesOf(size)) :
              /\ AllocatePages(b, PagesOf(size), "LoaderData")
              /\ holds' = Marked(b.at, PagesOf(read), "attachment")
              /\ chain' = [chain EXCEPT !.attachment = [at |-> b.at, size |-> read]]
  BY DEF LoadAttachment
<1>1. PICK read \in {size - 1, size} :
          \E b \in Blocks(PagesOf(size)) :
              /\ AllocatePages(b, PagesOf(size), "LoaderData")
              /\ holds' = Marked(b.at, PagesOf(read), "attachment")
              /\ chain' = [chain EXCEPT !.attachment = [at |-> b.at, size |-> read]]
  BY <1>a
<1>2. /\ pc = "attachments" /\ pc' = "pml4"
      /\ UNCHANGED <<error, tables, local, mmap>>
      /\ chain.attachment.size = 0
  BY DEF LoadAttachment, BootInv, Progress
<1>3. PICK b \in Blocks(PagesOf(size)) :
              /\ AllocatePages(b, PagesOf(size), "LoaderData")
              /\ holds' = Marked(b.at, PagesOf(read), "attachment")
              /\ chain' = [chain EXCEPT !.attachment = [at |-> b.at, size |-> read]]
  BY <1>1
<1>4. /\ size \in Nat \ {0} /\ read \in Nat
      /\ PagesOf(size) \in Nat \ {0} /\ PagesOf(read) \in 0 .. PagesOf(size)
  <2>1. size \in Nat \ {0} /\ read \in Nat
    BY BootConstants
  <2> QED
    BY <2>1, PagesOfRead
<1>5. b.at \in Page
  BY <1>4, BlockFree
<1> DEFINE a == [at |-> b.at, size |-> read]
<1>6. a \in [at : Page, size : Nat] /\ a.at = b.at /\ a.size = read
  BY <1>4, <1>5
<1> HIDE DEF a
<1>7. /\ chain' \in ChainRecord /\ chain'.page = chain.page
      /\ chain'.usable = chain.usable /\ chain'.regions = chain.regions
      /\ chain'.sections = chain.sections
      /\ chain'.attachment = a
  <2>1. chain' = [chain EXCEPT !.attachment = a]
    BY <1>3 DEF a
  <2> QED
    BY <1>0, <1>6, <2>1 DEF ChainRecord
<1>8. ASSUME NEW p \in Page, UsedByChainload(p) PROVE UsedByChainload(p)'
  <2>1. PagesOf(chain.attachment.size) = 0
    BY <1>2, PagesOfNothing
  <2>2. p \notin Span(chain.attachment.at, PagesOf(chain.attachment.size))
    BY <1>0, <2>1 DEF Span
  <2> QED
    BY <1>7, <1>8, <2>2 DEF UsedByChainload
<1>9. \A p \in Span(b.at, PagesOf(read)) : UsedByChainload(p)'
  BY <1>6, <1>7 DEF UsedByChainload
<1>10. "attachment" \in Role \ {"table"} /\ "LoaderData" \in LoaderType
  BY DEF Role, LoaderType
<1>11. RegionsInv'
  BY <1>0, <1>3, <1>4, <1>7, <1>10, RegionsKept
<1>12. /\ local' \in LocalRecord /\ DOMAIN tables' \subseteq Page /\ Len(chain'.regions) <= MaxRegions
       /\ pc \notin Merging /\ pc' \notin Merging \cup {"start", "read", "exit", "retry"}
       /\ pc' \notin {"sections", "attachments"}
  BY <1>2, <1>7 DEF BootInv, BootType, WithinCapacity, Merging
<1> QED
  BY <1>0, <1>2, <1>3, <1>4, <1>7, <1>8, <1>9, <1>10, <1>11, <1>12, AllocationStep

LEMMA AttachmentNotFoundStep == ASSUME BootInv, AttachmentNotFound PROVE BootInv'
BY QuietStep DEF AttachmentNotFound, BootInv, BootType, Merging

(* paging_allocate_page, whatever its caller writes into the tables.       *)
LEMMA PagingAllocatePageStep ==
    ASSUME BootInv, pc \notin Merging,
           NEW n \in Nat \ {0}, NEW b \in Blocks(n), NEW written, NEW locals, NEW next,
           DOMAIN written \subseteq Page, locals \in LocalRecord, next \in {"map", "pds", "level"},
           PagingAllocatePage(b, n, written, locals, next)
    PROVE  BootInv'
<1>1. CASE Fail("EFI_BUFFER_TOO_SMALL")
  BY <1>1, FailStep DEF Statuses
<1>2. CASE ~Fail("EFI_BUFFER_TOO_SMALL")
  <2>1. /\ Recordable(chain.regions, b.at, n)
        /\ AllocatePages(b, n, "LoaderData")
        /\ holds' = Marked(b.at, n, "table")
        /\ chain' = [chain EXCEPT !.regions = Recorded(@, b.at, n)]
        /\ tables' = written /\ local' = locals
        /\ pc' = next
        /\ UNCHANGED <<error, mmap>>
    BY <1>2 DEF PagingAllocatePage
  <2>2. BootType /\ chain \in ChainRecord /\ chain.regions \in Seq(Region) /\ Owned
    BY ChainFields DEF BootInv
  <2>3. n \in 0 .. n /\ "table" \in Role /\ "LoaderData" \in LoaderType
    BY DEF Role, LoaderType
  <2>4. /\ b.at \in Page
        /\ \A p \in Span(b.at, n) : p \in Page /\ holds[p] = "nothing" /\ holds'[p] = "table"
        /\ \A p \in Page : p \notin Span(b.at, n) => holds'[p] = holds[p]
    BY <2>1, <2>2, <2>3, Allocation
  <2>5. b.at \in Nat
    BY <2>4, PageFacts
  <2>6. \A i \in DOMAIN chain.regions : \A p \in Nat : InRegion(p, chain.regions[i]) => p \notin Span(b.at, n)
    BY <2>4 DEF BootInv, RegionsInv
  <2>7. PICK R : R = Recorded(chain.regions, b.at, n)
    OBVIOUS
  <2>8. /\ R \in Seq(Region) /\ Len(R) <= MaxRegions
        /\ \A p \in Nat : (\E i \in DOMAIN R : InRegion(p, R[i])) <=>
               (p \in Span(b.at, n) \/ \E i \in DOMAIN chain.regions : InRegion(p, chain.regions[i]))
        /\ \A i, j \in DOMAIN R : \A p \in Nat : InRegion(p, R[i]) /\ InRegion(p, R[j]) => i = j
    BY <2>1, <2>2, <2>5, <2>6, <2>7, RecordedRegions DEF BootInv, RegionsInv, WithinCapacity
  <2>9. /\ chain' \in ChainRecord /\ chain'.page = chain.page
        /\ chain'.usable = chain.usable /\ chain'.regions = R
        /\ chain'.sections = chain.sections /\ chain'.attachment = chain.attachment
    BY <2>1, <2>2, <2>7, <2>8 DEF ChainRecord
  <2>10. RegionsInv'
    <3>1. \A p \in Page : holds'[p] = "table" => \E i \in DOMAIN R : InRegion(p, R[i])
      BY <2>4, <2>8, PageFacts DEF BootInv, RegionsInv
    <3>2. \A i \in DOMAIN R : \A p \in Nat : InRegion(p, R[i]) => p \in Page /\ holds'[p] = "table"
      <4> SUFFICES ASSUME NEW i \in DOMAIN R, NEW p \in Nat, InRegion(p, R[i])
                   PROVE  p \in Page /\ holds'[p] = "table"
        OBVIOUS
      <4>1. p \in Span(b.at, n) \/ \E j \in DOMAIN chain.regions : InRegion(p, chain.regions[j])
        BY <2>8
      <4> QED
        BY <2>4, <4>1 DEF BootInv, RegionsInv
    <3> QED
      BY <2>8, <2>9, <3>1, <3>2 DEF RegionsInv
  <2>11. ASSUME NEW p \in Page, UsedByChainload(p) PROVE UsedByChainload(p)'
    <3>1. p \in Nat
      BY PageFacts
    <3>2. (\E r \in DOMAIN chain.regions : p \in Span(chain.regions[r].at, chain.regions[r].pages)) =>
              \E r \in DOMAIN R : p \in Span(R[r].at, R[r].pages)
      BY <2>8, <3>1 DEF InRegion
    <3> QED
      BY <2>9, <2>11, <3>2 DEF UsedByChainload
  <2>12. ASSUME NEW p \in Span(b.at, n) PROVE UsedByChainload(p)'
    <3>1. p \in Nat
      BY <2>4, PageFacts
    <3>2. \E r \in DOMAIN R : p \in Span(R[r].at, R[r].pages)
      BY <2>8, <3>1 DEF InRegion
    <3> QED
      BY <2>9, <3>2 DEF UsedByChainload
  <2>13. /\ pc' \notin Merging \cup {"start", "read", "exit", "retry"}
         /\ pc' \notin {"sections", "attachments"}
    BY <2>1 DEF Merging
  <2> QED
    BY <2>1, <2>2, <2>3, <2>8, <2>9, <2>10, <2>11, <2>12, <2>13, AllocationStep
<1> QED
  BY <1>1, <1>2

LEMMA LocalFields ==
    ASSUME BootType
    PROVE  /\ local \in LocalRecord /\ local.pml4 \in Page /\ local.pdpt \in Page
           /\ local.section \in Nat /\ local.page \in Nat
BY DEF BootType, LocalRecord

LEMMA AllocatePml4Step == ASSUME BootInv, AllocatePml4 PROVE BootInv'
<1>0. BootType /\ DOMAIN tables \subseteq Page
  BY DEF BootInv, BootType
<1>1. PICK b \in Blocks(1) :
          PagingAllocatePage(b, 1, Store(tables, b.at, Zeroed), [local EXCEPT !.pml4 = b.at], "map")
  BY DEF AllocatePml4
<1>2. b.at \in Page
  BY BlockFree
<1>3. DOMAIN Store(tables, b.at, Zeroed) \subseteq Page
  BY <1>0, <1>2 DEF Store
<1>4. [local EXCEPT !.pml4 = b.at] \in LocalRecord
  BY <1>0, <1>2, LocalFields DEF LocalRecord
<1>5. pc \notin Merging
  BY DEF AllocatePml4, Merging
<1> QED
  BY <1>1, <1>3, <1>4, <1>5, PagingAllocatePageStep

LEMMA AllocateTableStep == ASSUME BootInv, AllocateTable PROVE BootInv'
<1>0. BootType /\ DOMAIN tables \subseteq Page /\ local \in LocalRecord
  BY DEF BootInv, BootType
<1>1. PICK t, i : \E b \in Blocks(1) :
          PagingAllocatePage(b, 1, Store([tables EXCEPT ![t][i] = Table(b.at)], b.at, Zeroed), local, "map")
  BY DEF AllocateTable
<1>2. PICK b \in Blocks(1) :
          PagingAllocatePage(b, 1, Store([tables EXCEPT ![t][i] = Table(b.at)], b.at, Zeroed), local, "map")
  BY <1>1
<1>3. b.at \in Page
  BY BlockFree
<1>4. DOMAIN Store([tables EXCEPT ![t][i] = Table(b.at)], b.at, Zeroed) \subseteq Page
  BY <1>0, <1>3 DEF Store
<1>5. pc \notin Merging
  BY DEF AllocateTable, Merging
<1>6. PICK w : w = Store([tables EXCEPT ![t][i] = Table(b.at)], b.at, Zeroed)
  OBVIOUS
<1>7. DOMAIN w \subseteq Page /\ PagingAllocatePage(b, 1, w, local, "map")
  BY <1>2, <1>4, <1>6
<1> QED
  BY <1>0, <1>5, <1>7, PagingAllocatePageStep

LEMMA MapPageStep == ASSUME BootInv, MapPage PROVE BootInv'
<1>1. CASE Fail(ConflictStatus)
  BY <1>1, FailStep DEF MapPage, ConflictStatus, Statuses, Merging
<1>2. CASE ~Fail(ConflictStatus)
  <2>0. BootType /\ DOMAIN tables \subseteq Page /\ mmap \in MmapRecord
    BY DEF BootInv, BootType
  <2>1. DOMAIN tables' = DOMAIN tables
    BY <1>2 DEF MapPage
  <2>2. /\ local' = IF LastPage THEN [local EXCEPT !.section = @ + 1, !.page = 0]
                    ELSE [local EXCEPT !.page = @ + 1]
        /\ pc = "map" /\ pc' \in {"pdpt", "map"}
        /\ UNCHANGED <<error, types, fw, holds, chain, mmap>>
    BY <1>2 DEF MapPage
  <2>3. DOMAIN tables' \subseteq Page
    BY <2>0, <2>1
  <2>4. local' \in LocalRecord
    <3>1. /\ local \in LocalRecord /\ local.section + 1 \in Nat /\ local.page + 1 \in Nat
      BY <2>0, LocalFields
    <3>2. CASE LastPage
      BY <2>2, <3>1, <3>2 DEF LocalRecord
    <3>3. CASE ~LastPage
      BY <2>2, <3>1, <3>3 DEF LocalRecord
    <3> QED
      BY <3>2, <3>3
  <2> QED
    BY <2>0, <2>2, <2>3, <2>4, QuietStep DEF Merging
<1> QED
  BY <1>1, <1>2

LEMMA AllocatePdptStep == ASSUME BootInv, AllocatePdpt PROVE BootInv'
<1>0. BootType /\ DOMAIN tables \subseteq Page
  BY DEF BootInv, BootType
<1>1. CASE Fail("EFI_OUT_OF_RESOURCES")
  BY <1>1, FailStep DEF AllocatePdpt, Statuses, Merging
<1>2. CASE ~Fail("EFI_OUT_OF_RESOURCES")
  <2>1. PICK b \in Blocks(1) :
            PagingAllocatePage(b, 1, Store(tables, b.at, Zeroed), [local EXCEPT !.pdpt = b.at], "pds")
    BY <1>2 DEF AllocatePdpt
  <2>2. b.at \in Page
    BY BlockFree
  <2>3. DOMAIN Store(tables, b.at, Zeroed) \subseteq Page
    BY <1>0, <2>2 DEF Store
  <2>4. [local EXCEPT !.pdpt = b.at] \in LocalRecord
    BY <1>0, <2>2, LocalFields DEF LocalRecord
  <2>5. pc \notin Merging
    BY DEF AllocatePdpt, Merging
  <2> QED
    BY <2>1, <2>3, <2>4, <2>5, PagingAllocatePageStep
<1> QED
  BY <1>1, <1>2

LEMMA MapPhysicalStep == ASSUME BootInv, MapPhysical PROVE BootInv'
<1>0. BootType /\ DOMAIN tables \subseteq Page /\ local \in LocalRecord
  BY DEF BootInv, BootType
<1>1. PICK b \in Blocks(Entries) :
          \E pml4, pdpt : PagingAllocatePage(b, Entries,
              Store(Store(StoreAll(tables, [p \in Span(b.at, Entries) |-> PhysicalPd(p - b.at)]),
                          local.pdpt, pdpt), local.pml4, pml4),
              local, "level")
  BY DEF MapPhysical
<1>2. PICK pml4, pdpt : PagingAllocatePage(b, Entries,
              Store(Store(StoreAll(tables, [p \in Span(b.at, Entries) |-> PhysicalPd(p - b.at)]),
                          local.pdpt, pdpt), local.pml4, pml4),
              local, "level")
  BY <1>1
<1>3. Entries \in Nat \ {0} /\ Span(b.at, Entries) \subseteq Page
  BY BlockFree, PageFacts
<1> DEFINE pds == [p \in Span(b.at, Entries) |-> PhysicalPd(p - b.at)]
<1>4. DOMAIN pds \subseteq Page
  BY <1>3
<1>5. local.pml4 \in Page /\ local.pdpt \in Page
  BY <1>0, LocalFields
<1> HIDE DEF pds
<1>6. DOMAIN Store(Store(StoreAll(tables, pds), local.pdpt, pdpt), local.pml4, pml4) \subseteq Page
  BY <1>0, <1>4, <1>5 DEF Store, StoreAll
<1>7. pc \notin Merging
  BY DEF MapPhysical, Merging
<1> QED
  BY <1>0, <1>2, <1>3, <1>6, <1>7, PagingAllocatePageStep DEF pds

-----------------------------------------------------------------------------
LEMMA StartsCounted == Cardinality(Starts) \in Nat
<1>1. IsFiniteSet(0 .. PageCount)
  BY PageFacts, FS_Interval
<1>2. Starts \subseteq 0 .. PageCount
  BY PageFacts DEF Starts
<1> QED
  BY <1>1, <1>2, FS_Subset, FS_CardinalityType

LEMMA LevelSupportedStep == ASSUME BootInv, LevelSupported PROVE BootInv'
<1>1. mmap \in MmapRecord /\ local \in LocalRecord /\ DOMAIN tables \subseteq Page
  BY DEF BootInv, BootType
<1>2. mmap' \in MmapRecord
  BY <1>1, BootConstants DEF LevelSupported, MmapRecord
<1> QED
  BY <1>1, <1>2, QuietStep DEF LevelSupported, Merging

LEMMA LevelUnsupportedStep == ASSUME BootInv, LevelUnsupported PROVE BootInv'
BY FailStep DEF LevelUnsupported, Merging, Statuses

LEMMA MapTooLargeStep == ASSUME BootInv, MapTooLarge PROVE BootInv'
BY FailStep DEF MapTooLarge, Merging, Statuses

LEMMA FirmwareErrorStep == ASSUME BootInv, FirmwareError PROVE BootInv'
BY FailStep DEF FirmwareError, Merging, Statuses

LEMMA SizeMapStep == ASSUME BootInv, SizeMap PROVE BootInv'
<1>1. mmap \in MmapRecord /\ local \in LocalRecord /\ DOMAIN tables \subseteq Page /\ mmap.size \in Nat
  BY DEF BootInv, BootType, MmapRecord
<1>2. Cardinality(Starts) + 4 \in Nat /\ mmap.size + 4 \in Nat /\ 0 \in Nat /\ Garbage \in Nat
  BY <1>1, StartsCounted, BootConstants
<1>3. \/ mmap' = [mmap EXCEPT !.size = Cardinality(Starts) + 4, !.sized = TRUE]
      \/ \E size \in {mmap.size + 4, 0, Garbage} : mmap' = [mmap EXCEPT !.size = size]
  BY DEF SizeMap
<1>4. mmap' \in MmapRecord
  BY <1>1, <1>2, <1>3 DEF MmapRecord
<1> QED
  BY <1>1, <1>4, QuietStep DEF SizeMap, Merging

LEMMA ReadMapStep == ASSUME BootInv, ReadMap PROVE BootInv'
<1>1. mmap \in MmapRecord /\ local \in LocalRecord /\ DOMAIN tables \subseteq Page
      /\ types \in [Page -> MemoryType]
  BY DEF BootInv, BootType
<1>2. Descriptors \subseteq Descriptor
  BY <1>1, DescriptorPages
<1>3. mmap' \in MmapRecord /\ mmap'.at = mmap.at /\ mmap'.descriptors = Descriptors
  BY <1>1, <1>2, StartsCounted DEF ReadMap, MmapRecord
<1> QED
  BY <1>1, <1>3, QuietStep DEF ReadMap, Merging

LEMMA ExitRefusedStep == ASSUME BootInv, ExitRefused PROVE BootInv'
BY QuietStep DEF ExitRefused, BootInv, BootType, Merging

(* Only the firmware's buffer is taken, which the bootloader gives back.   *)
LEMMA AllocateBufferStep == ASSUME BootInv, AllocateBuffer PROVE BootInv'
<1>1. PICK b \in Blocks(1) :
          /\ AllocatePages(b, 1, "LoaderData")
          /\ mmap' = [mmap EXCEPT !.at = b.at, !.current = FALSE]
  BY DEF AllocateBuffer
<1>2. pc = "pool" /\ pc' = "read" /\ UNCHANGED <<error, holds, chain, tables, local>>
  BY DEF AllocateBuffer
<1>3. /\ b.at \in Page /\ b.policy \in Policies
      /\ \A p \in Span(b.at, 1) : p \in Page /\ types[p] = "Conventional"
  BY BlockFree
<1>4. holds = Marked(b.at, 0, "nothing")
  <2>1. b.at \in Nat
    BY <1>3, PageFacts
  <2>2. Span(b.at, 0) = {}
    BY <2>1 DEF Span
  <2> QED
    BY <2>2 DEF Marked, BootInv, BootType
<1>5. /\ types' \in [Page -> MemoryType]
      /\ fw' \in FirmwareRecord
      /\ \A p \in Page : holds'[p] # "nothing" => types'[p] \in LoaderType
  BY <1>1, <1>2, <1>4, Allocation DEF BootInv, Role, LoaderType
<1>6. mmap' \in MmapRecord /\ mmap'.at = b.at
  BY <1>1, <1>3 DEF BootInv, BootType, MmapRecord
<1>7. BootType'
  BY <1>2, <1>5, <1>6 DEF BootInv, BootType
<1>8. WithinCapacity' /\ Owned' /\ Accounted' /\ RegionsInv'
  <2>1. Owned'
    BY <1>5 DEF Owned
  <2>2. Accounted'
    BY <1>2 DEF BootInv, Accounted, UsedByChainload
  <2> QED
    BY <1>2, <2>1, <2>2 DEF BootInv, WithinCapacity, RegionsInv
<1>9. Progress'
  <2>1. b.at \in Nat
    BY <1>3, PageFacts
  <2>2. b.at \in Span(b.at, 1)
    BY <2>1 DEF Span
  <2>3. holds[b.at] = "nothing"
    BY <1>3, <2>2 DEF BootInv, Owned, LoaderType
  <2> QED
    BY <1>2, <1>6, <2>3 DEF Progress
<1>10. MergeInv'
  BY <1>2 DEF BootInv, MergeInv
<1> QED
  BY <1>7, <1>8, <1>9, <1>10 DEF BootInv

(* ExitBootServices agrees: the map read is the current one.               *)
LEMMA ExitBootServicesStep == ASSUME BootInv, ExitBootServices PROVE BootInv'
<1>1. /\ pc = "exit" /\ pc' = "merge"
      /\ UNCHANGED <<error, types, fw, holds, chain, tables, local, mmap>>
      /\ mmap.descriptors = Descriptors
      /\ chain.usable = <<>>
  BY DEF ExitBootServices, BootInv, MergeInv
<1>2. BootType'
  BY <1>1 DEF BootInv, BootType
<1>3. Progress'
  BY <1>1 DEF Progress
<1>4. types \in [Page -> MemoryType]
  BY DEF BootInv, BootType
<1>5. \A p \in Page : Usable(types[p]) => \E d \in Descriptors : Covers(p, d)
  BY <1>4, DescriptorsComplete DEF Usable
<1>6. OffersSound
  BY <1>1 DEF OffersSound
<1>7. MergeInv'
  BY <1>1, <1>5, <1>6, MemoryKept DEF MergeInv
<1> QED
  BY <1>1, <1>2, <1>3, <1>7, MemoryKept DEF BootInv

(* The firmware frees or takes pages that the bootloader does not use.     *)
LEMMA TypesChanged ==
    ASSUME BootInv, UNCHANGED <<error, holds, chain, tables, local>>,
           NEW p \in Page, holds[p] = "nothing", NEW type \in MemoryType,
           types' = [types EXCEPT ![p] = type],
           fw' \in FirmwareRecord, mmap' \in MmapRecord, ~mmap'.current,
           pc \notin Merging, pc \notin {"start", "sections", "attachments"},
           (pc' = pc /\ mmap'.at = mmap.at) \/ pc' = "size"
    PROVE  BootInv'
<1>1. BootType'
  BY DEF BootInv, BootType
<1>2. WithinCapacity' /\ RegionsInv'
  BY DEF BootInv, WithinCapacity, RegionsInv
<1>3. Owned'
  BY DEF BootInv, BootType, Owned
<1>4. Accounted'
  BY DEF BootInv, Accounted, UsedByChainload
<1>5. Progress'
  BY DEF BootInv, Progress
<1>6. MergeInv'
  BY DEF BootInv, MergeInv, Merging
<1> QED
  BY <1>1, <1>2, <1>3, <1>4, <1>5, <1>6 DEF BootInv

LEMMA RetryStep == ASSUME BootInv, Retry PROVE BootInv'
<1>1. /\ pc = "retry" /\ pc' = "size"
      /\ UNCHANGED <<error, fw, holds, chain, tables, local>>
      /\ types' = [types EXCEPT ![mmap.at] = "Conventional"]
      /\ mmap' = [mmap EXCEPT !.at = 0, !.current = FALSE]
  BY DEF Retry
<1>2. mmap \in MmapRecord /\ mmap.at \in Page /\ holds[mmap.at] = "nothing" /\ fw \in FirmwareRecord
  BY <1>1 DEF BootInv, BootType, MmapRecord, Progress
<1>3. mmap' \in MmapRecord /\ ~mmap'.current
  BY <1>1, <1>2, PageFacts DEF MmapRecord
<1> QED
  BY <1>1, <1>2, <1>3, TypesChanged DEF Merging, MemoryType

LEMMA FirmwareEventStep == ASSUME BootInv, FirmwareEvent PROVE BootInv'
<1>1. /\ pc \in {"size", "pool", "read", "exit", "retry"} /\ pc' = pc
      /\ fw' = [fw EXCEPT !.events = @ + 1]
      /\ mmap' = [mmap EXCEPT !.current = FALSE]
      /\ UNCHANGED <<error, holds, chain, tables, local>>
  BY DEF FirmwareEvent
<1>2. PICK p \in EventPages :
          \/ types[p] = "Conventional" /\ types' = [types EXCEPT ![p] = "Runtime"]
          \/ types[p] = "BootServices" /\ types' = [types EXCEPT ![p] = "Conventional"]
  BY DEF FirmwareEvent
<1>3. p \in Page /\ types[p] \notin LoaderType
  BY <1>2, BootConstants DEF LoaderType
<1>4. holds[p] = "nothing"
  BY <1>3 DEF BootInv, Owned
<1>5. mmap \in MmapRecord /\ fw \in FirmwareRecord
  BY DEF BootInv, BootType
<1>6. mmap' \in MmapRecord /\ ~mmap'.current /\ mmap'.at = mmap.at
  BY <1>1, <1>5 DEF MmapRecord
<1>7. fw' \in FirmwareRecord
  BY <1>1, <1>5 DEF FirmwareRecord
<1>8. pc \notin Merging /\ pc \notin {"start", "sections", "attachments"}
  BY <1>1 DEF Merging
<1>9. PICK type \in MemoryType : types' = [types EXCEPT ![p] = type]
  BY <1>2 DEF MemoryType
<1> QED
  BY <1>1, <1>3, <1>4, <1>6, <1>7, <1>8, <1>9, TypesChanged

-----------------------------------------------------------------------------
(* A turn of the merging: offers that gain exactly the pages of one        *)
(* descriptor, as usable as the descriptor says, keep what the firmware's  *)
(* map says and lose nothing.                                              *)
LEMMA OffersGain ==
    ASSUME NEW d \in Descriptors, types \in [Page -> MemoryType],
           chain.usable \in Seq(Offer), chain'.usable \in Seq(Offer),
           UNCHANGED types, OffersSound,
           \A i \in DOMAIN chain'.usable : \A p \in Nat : Covers(p, chain'.usable[i]) =>
               \/ Covers(p, d) /\ chain'.usable[i].usable = Usable(d.type)
               \/ \E j \in DOMAIN chain.usable :
                     Covers(p, chain.usable[j]) /\ chain.usable[j].usable = chain'.usable[i].usable,
           \A j \in DOMAIN chain.usable : \A p \in Nat : Covers(p, chain.usable[j]) =>
               \E i \in DOMAIN chain'.usable :
                   Covers(p, chain'.usable[i]) /\ chain.usable[j].usable = chain'.usable[i].usable,
           \A p \in Nat : Covers(p, d) =>
               \E i \in DOMAIN chain'.usable :
                   Covers(p, chain'.usable[i]) /\ chain'.usable[i].usable = Usable(d.type)
    PROVE  /\ OffersSound'
           /\ \A p \in Page : IsOffered(p) => IsOffered(p)'
           /\ \A p \in Page : Usable(types[p]) /\ Covers(p, d) => IsOffered(p)'
<1>1. \A p \in Nat : Covers(p, d) => p \in Page /\ types[p] = d.type
  BY DescriptorPages
<1>2. OffersSound'
  <2>1. SUFFICES ASSUME NEW i \in DOMAIN chain'.usable, chain'.usable[i].usable,
                        NEW p \in Nat, Covers(p, chain'.usable[i])
                 PROVE  p \in Page /\ Usable(types[p])
    BY DEF OffersSound
  <2>2. CASE Covers(p, d) /\ chain'.usable[i].usable = Usable(d.type)
    BY <1>1, <2>1, <2>2
  <2>3. CASE \E j \in DOMAIN chain.usable :
                 Covers(p, chain.usable[j]) /\ chain.usable[j].usable = chain'.usable[i].usable
    BY <2>1, <2>3 DEF OffersSound
  <2> QED
    BY <2>1, <2>2, <2>3
<1>3. \A p \in Page : IsOffered(p) => IsOffered(p)'
  BY PageFacts DEF IsOffered
<1>4. \A p \in Page : Usable(types[p]) /\ Covers(p, d) => IsOffered(p)'
  BY <1>1, PageFacts DEF IsOffered
<1> QED
  BY <1>2, <1>3, <1>4

LEMMA NextDescriptorIn ==
    ASSUME mmap.descriptors \subseteq Descriptor, mmap.descriptors # {}
    PROVE  NextDescriptor \in mmap.descriptors
<1> DEFINE S == {d.at : d \in mmap.descriptors}
<1>1. \A d \in mmap.descriptors : d.at \in Nat
  BY DEF Descriptor
<1>2. S \subseteq Nat /\ S # {}
  BY <1>1
<1>3. PICK x \in S : \A y \in S : x <= y
  BY <1>2, Lists!LeastExists
<1>4. \E d \in mmap.descriptors : \A e \in mmap.descriptors : d.at <= e.at
  BY <1>3
<1> QED
  BY <1>4 DEF NextDescriptor

LEMMA MergeDescriptorStep == ASSUME BootInv, MergeDescriptor PROVE BootInv'
<1>0. /\ BootType /\ types \in [Page -> MemoryType]
      /\ chain \in ChainRecord /\ chain.usable \in Seq(Offer)
      /\ mmap \in MmapRecord /\ mmap.descriptors \subseteq Descriptor
  BY ChainFields DEF BootInv, BootType, MmapRecord
<1>1. /\ pc = "merge" /\ pc' = "merge"
      /\ UNCHANGED <<pc, error, types, fw, holds, tables, local>>
      /\ mmap.descriptors # {}
      /\ mmap' = [mmap EXCEPT !.descriptors = @ \ {NextDescriptor}]
  BY DEF MergeDescriptor
<1>2. PICK d : d = NextDescriptor
  OBVIOUS
<1>3. d \in mmap.descriptors /\ d \in Descriptors
  BY <1>0, <1>1, <1>2, NextDescriptorIn DEF BootInv, MergeInv
<1>4. d \in Descriptor /\ d.at \in Nat /\ d.pages \in Nat
  BY <1>0, <1>3 DEF Descriptor
<1>5. PICK out : out = chain.usable
  OBVIOUS
<1>6. out \in Seq(Offer) /\ \A i \in DOMAIN out : out[i] \in Offer
  BY <1>0, <1>5
<1>7. \A i \in DOMAIN out : out[i].at \in Nat /\ out[i].pages \in Nat /\ out[i].usable \in BOOLEAN
  BY <1>6 DEF Offer
<1> DEFINE Gains ==
      /\ chain'.usable \in Seq(Offer)
      /\ Len(chain'.usable) <= MaxDescriptors
      /\ \A i \in DOMAIN chain'.usable : \A p \in Nat : Covers(p, chain'.usable[i]) =>
            \/ Covers(p, d) /\ chain'.usable[i].usable = Usable(d.type)
            \/ \E j \in DOMAIN out :
                  Covers(p, out[j]) /\ out[j].usable = chain'.usable[i].usable
      /\ \A j \in DOMAIN out : \A p \in Nat : Covers(p, out[j]) =>
            \E i \in DOMAIN chain'.usable :
                Covers(p, chain'.usable[i]) /\ out[j].usable = chain'.usable[i].usable
      /\ \A p \in Nat : Covers(p, d) =>
            \E i \in DOMAIN chain'.usable :
                Covers(p, chain'.usable[i]) /\ chain'.usable[i].usable = Usable(d.type)
      /\ chain' \in ChainRecord
      /\ chain'.page = chain.page /\ chain'.sections = chain.sections
      /\ chain'.attachment = chain.attachment /\ chain'.regions = chain.regions
<1>8. ASSUME out # <<>> /\ Continues(d, Last(out)) PROVE Gains
  <2>1. PICK n : n = Len(out)
    OBVIOUS
  <2>2. n \in DOMAIN out
    BY <1>6, <1>8, <2>1
  <2>3. chain' = [chain EXCEPT !.usable[n].pages = @ + d.pages]
    BY <1>2, <1>5, <1>8, <2>1 DEF MergeDescriptor
  <2> DEFINE grown == [at |-> out[n].at, pages |-> out[n].pages + d.pages, usable |-> out[n].usable]
  <2>4. out[n].usable = Usable(d.type) /\ out[n].at + out[n].pages = d.at
    BY <1>8, <2>1 DEF Continues, Last
  <2>5. grown \in Offer /\ grown.usable = out[n].usable
    BY <1>4, <1>7, <2>2 DEF Offer
  <2>6. [out[n] EXCEPT !.pages = @ + d.pages] = grown
    BY <1>6, <2>2 DEF Offer
  <2>7. \A p \in Nat : Covers(p, grown) <=> Covers(p, out[n]) \/ Covers(p, d)
    <3>1. PICK a, k \in Nat : a = out[n].at /\ k = out[n].pages
      BY <1>7, <2>2
    <3>2. grown.at = a /\ grown.pages = k + d.pages /\ a + k = d.at
      BY <2>4, <3>1
    <3> HIDE DEF grown
    <3>3. \A p \in Nat : p \in Span(grown.at, grown.pages) <=> p \in Span(a, k) \/ p \in Span(d.at, d.pages)
      BY <1>4, <3>2 DEF Span
    <3> QED
      BY <3>1, <3>3 DEF Covers
  <2> HIDE DEF grown
  <2>8. chain' = [chain EXCEPT !.usable = [out EXCEPT ![n] = grown]]
    BY <1>0, <1>5, <2>3, <2>6 DEF ChainRecord
  <2>9. [out EXCEPT ![n] = grown] \in Seq(Offer)
    BY <1>6, <2>2, <2>5
  <2>10. /\ chain' \in ChainRecord /\ chain'.usable = [out EXCEPT ![n] = grown]
         /\ chain'.page = chain.page /\ chain'.sections = chain.sections
         /\ chain'.attachment = chain.attachment /\ chain'.regions = chain.regions
    BY <1>0, <2>8, <2>9 DEF ChainRecord
  <2>11. /\ chain'.usable[n] = grown
         /\ \A i \in DOMAIN out : i # n => chain'.usable[i] = out[i]
         /\ DOMAIN chain'.usable = DOMAIN out
         /\ Len(chain'.usable) = Len(out)
    BY <1>6, <2>2, <2>10
  <2>12. Len(chain'.usable) <= MaxDescriptors
    BY <1>5, <2>11 DEF BootInv, WithinCapacity
  <2>13. \A i \in DOMAIN out : \A p \in Nat : Covers(p, chain'.usable[i]) =>
            \/ Covers(p, d) /\ chain'.usable[i].usable = Usable(d.type)
            \/ \E j \in DOMAIN out : Covers(p, out[j]) /\ out[j].usable = chain'.usable[i].usable
    BY <2>2, <2>4, <2>5, <2>7, <2>11
  <2>14. \A j \in DOMAIN out : \A p \in Nat : Covers(p, out[j]) =>
            Covers(p, chain'.usable[j]) /\ out[j].usable = chain'.usable[j].usable
    BY <2>2, <2>5, <2>7, <2>11
  <2>15. \A p \in Nat : Covers(p, d) => Covers(p, chain'.usable[n]) /\ chain'.usable[n].usable = Usable(d.type)
    BY <2>2, <2>4, <2>5, <2>7, <2>11
  <2> QED
    BY <2>2, <2>9, <2>10, <2>11, <2>12, <2>13, <2>14, <2>15
<1>9. ASSUME ~(out # <<>> /\ Continues(d, Last(out))) PROVE Gains
  <2> DEFINE new == [at |-> d.at, pages |-> d.pages, usable |-> Usable(d.type)]
  <2>1. /\ HasRoom(out)
        /\ chain' = [chain EXCEPT !.usable = Append(out, new)]
    BY <1>0, <1>2, <1>5, <1>9 DEF MergeDescriptor, ChainRecord
  <2>2. new \in Offer /\ new.usable = Usable(d.type)
    BY <1>4 DEF Offer, Usable
  <2>3. \A p \in Nat : Covers(p, new) <=> Covers(p, d)
    BY DEF Covers
  <2> HIDE DEF new
  <2>4. Append(out, new) \in Seq(Offer)
    BY <1>6, <2>2
  <2>5. /\ chain' \in ChainRecord /\ chain'.usable = Append(out, new)
        /\ chain'.page = chain.page /\ chain'.sections = chain.sections
        /\ chain'.attachment = chain.attachment /\ chain'.regions = chain.regions
    BY <1>0, <2>1, <2>4 DEF ChainRecord
  <2>6. /\ chain'.usable[Len(out) + 1] = new
        /\ \A i \in DOMAIN out : chain'.usable[i] = out[i]
        /\ DOMAIN chain'.usable = DOMAIN out \cup {Len(out) + 1}
        /\ Len(chain'.usable) = Len(out) + 1
    BY <1>6, <2>2, <2>5
  <2>7. Len(chain'.usable) <= MaxDescriptors
    BY <1>6, <2>1, <2>6, BootConstants DEF HasRoom
  <2>8. \A i \in DOMAIN chain'.usable : \A p \in Nat : Covers(p, chain'.usable[i]) =>
            \/ Covers(p, d) /\ chain'.usable[i].usable = Usable(d.type)
            \/ \E j \in DOMAIN out : Covers(p, out[j]) /\ out[j].usable = chain'.usable[i].usable
    BY <2>2, <2>3, <2>6
  <2>9. \A j \in DOMAIN out : \A p \in Nat : Covers(p, out[j]) =>
            \E i \in DOMAIN chain'.usable :
                Covers(p, chain'.usable[i]) /\ out[j].usable = chain'.usable[i].usable
    BY <2>6
  <2>10. \A p \in Nat : Covers(p, d) =>
            \E i \in DOMAIN chain'.usable :
                Covers(p, chain'.usable[i]) /\ chain'.usable[i].usable = Usable(d.type)
    BY <2>2, <2>3, <2>6
  <2> QED
    BY <2>4, <2>5, <2>7, <2>8, <2>9, <2>10
<1>10. Gains
  BY <1>8, <1>9
<1>11. /\ OffersSound'
       /\ \A p \in Page : IsOffered(p) => IsOffered(p)'
       /\ \A p \in Page : Usable(types[p]) /\ Covers(p, d) => IsOffered(p)'
  BY <1>0, <1>1, <1>3, <1>5, <1>10, OffersGain DEF BootInv, MergeInv
<1>12. mmap' \in MmapRecord /\ mmap'.descriptors = mmap.descriptors \ {d}
  BY <1>0, <1>1, <1>2 DEF MmapRecord
<1>13. BootType'
  BY <1>0, <1>1, <1>10, <1>12 DEF BootType
<1>14. WithinCapacity' /\ Owned' /\ Accounted' /\ RegionsInv'
  <2>1. Owned' /\ WithinCapacity'
    BY <1>1, <1>10 DEF BootInv, Owned, WithinCapacity
  <2>2. Accounted'
    BY <1>1, <1>10 DEF BootInv, Accounted, UsedByChainload
  <2>3. RegionsInv'
    BY <1>1, <1>10 DEF BootInv, RegionsInv
  <2> QED
    BY <2>1, <2>2, <2>3
<1>15. Progress'
  BY <1>1 DEF Progress
<1>16. MergeInv'
  <2>1. Descriptors' = Descriptors
    BY <1>1 DEF Descriptors, Starts, Ends
  <2>2. mmap'.descriptors \subseteq Descriptors'
    BY <1>1, <1>12, <2>1 DEF BootInv, MergeInv
  <2>3. \A p \in Page : Usable(types[p]) => IsOffered(p)' \/ \E e \in mmap'.descriptors : Covers(p, e)
    BY <1>1, <1>11, <1>12 DEF BootInv, MergeInv
  <2> QED
    BY <1>1, <1>11, <2>2, <2>3 DEF MergeInv
<1> QED
  BY <1>13, <1>14, <1>15, <1>16 DEF BootInv

LEMMA MergeEndsStep == ASSUME BootInv, MergeEnds PROVE BootInv'
<1>1. /\ pc = "merge" /\ pc' = "chainload"
      /\ UNCHANGED <<error, types, fw, holds, chain, tables, local, mmap>>
  BY DEF MergeEnds
<1>2. BootType'
  BY <1>1 DEF BootInv, BootType
<1>3. Progress'
  BY <1>1 DEF Progress
<1>4. Len(chain.usable) < MaxDescriptors => mmap.descriptors = {}
  BY DEF MergeEnds, HasRoom
<1>5. MergeInv'
  <2>1. OffersSound
    BY <1>1 DEF BootInv, MergeInv
  <2>2. Len(chain.usable) < MaxDescriptors => \A p \in Page : Usable(types[p]) => IsOffered(p)
    BY <1>1, <1>4 DEF BootInv, MergeInv
  <2> QED
    BY <1>1, <2>1, <2>2, MemoryKept DEF MergeInv
<1> QED
  BY <1>1, <1>2, <1>3, <1>5, MemoryKept DEF BootInv

LEMMA ChainloadStep == ASSUME BootInv, Chainload PROVE BootInv'
<1>1. /\ pc = "chainload" /\ pc' = "hvmain"
      /\ UNCHANGED <<error, types, fw, holds, chain, local, mmap>>
      /\ DOMAIN tables' = DOMAIN tables
  BY DEF Chainload
<1>2. BootType'
  BY <1>1 DEF BootInv, BootType
<1>3. Progress'
  BY <1>1 DEF Progress
<1>4. MergeInv'
  BY <1>1, MemoryKept DEF BootInv, MergeInv
<1> QED
  BY <1>1, <1>2, <1>3, <1>4, MemoryKept DEF BootInv

(* Nothing stored, nothing recorded: how the bootloader starts, and what   *)
(* is left of its variables once hvmain runs.                              *)
Fresh ==
    /\ types = FirstTypes /\ fw = [policy |-> FirstPolicy, switches |-> 0, events |-> 0]
    /\ holds = [p \in Page |-> "nothing"] /\ chain = NoChain /\ tables = <<>>
    /\ local = NoLocal /\ mmap = NoMmap /\ error \in Statuses
    /\ pc \in {"start", "entered"}

LEMMA NothingYet == Fresh => BootInv
<1> SUFFICES ASSUME Fresh PROVE BootInv
  OBVIOUS
<1> USE DEF Fresh
<1>1. chain \in ChainRecord /\ chain.usable = <<>> /\ chain.regions = <<>>
      /\ chain.sections = <<>> /\ chain.attachment.size = 0
  BY NoChainTyped DEF NoChain
<1>2. BootType
  <2>1. local \in LocalRecord /\ mmap \in MmapRecord
    BY PageFacts DEF NoLocal, NoMmap, LocalRecord, MmapRecord
  <2>2. fw \in FirmwareRecord /\ holds \in [Page -> Role] /\ types \in [Page -> MemoryType]
    BY BootConstants DEF FirmwareRecord, Role
  <2>3. DOMAIN tables \subseteq Page
    OBVIOUS
  <2> QED
    BY <1>1, <2>1, <2>2, <2>3 DEF BootType
<1>3. WithinCapacity
  BY <1>1, BootConstants DEF WithinCapacity
<1>4. Owned /\ Accounted
  BY DEF Owned, Accounted
<1>5. Progress
  BY <1>1 DEF Progress
<1>6. RegionsInv
  BY <1>1 DEF RegionsInv
<1>7. MergeInv
  BY <1>1 DEF MergeInv
<1> QED
  BY <1>2, <1>3, <1>4, <1>5, <1>6, <1>7 DEF BootInv

LEMMA BootStepKeeps == ASSUME BootInv, BootStep PROVE BootInv'
BY AllocateChainloadStep, LoadSectionStep, LoadAttachmentStep, AttachmentNotFoundStep,
   AllocatePml4Step, AllocateTableStep, MapPageStep, AllocatePdptStep, MapPhysicalStep,
   LevelSupportedStep, LevelUnsupportedStep, SizeMapStep, AllocateBufferStep, ReadMapStep,
   MapTooLargeStep, ExitBootServicesStep, ExitRefusedStep, RetryStep, MergeDescriptorStep,
   MergeEndsStep, ChainloadStep, FirmwareErrorStep
DEF BootStep

LEMMA HvMainStep == ASSUME BootInv, HvMain PROVE BootInv'
<1>1. Fresh'
  BY DEF HvMain, BootInv, BootType, Fresh
<1>2. Fresh' => BootInv'
  BY NothingYet, PTL
<1> QED
  BY <1>1, <1>2

(* Unless the guest's variables are all that changes.                      *)
LEMMA BootUnchanged == ASSUME BootInv, UNCHANGED bootVars PROVE BootInv'
<1>1. UNCHANGED <<pc, error, types, fw, holds, chain, tables, local, mmap>>
  BY DEF bootVars
<1>2. BootType' /\ Progress'
  BY <1>1 DEF BootInv, BootType, Progress
<1>3. MergeInv'
  BY <1>1, MemoryKept DEF BootInv, MergeInv
<1> QED
  BY <1>1, <1>2, <1>3, MemoryKept DEF BootInv

-----------------------------------------------------------------------------
(* The guest's memory.                                                     *)
ImageRecord == [size : Nat, header : Headers \cup {Guest!NoHeader}]
VmRecord == [used : Nat, cr3 : Int, rip : Int, rsi : Int]

(* The tables vm_guest_paging_setup_identity writes.                       *)
TablesInPlace ==
    /\ vm.cr3 = GuestPages - 1
    /\ mem[GuestPages - 1].entries = [Guest!Zeroed EXCEPT ![0] = Guest!Table(GuestPages - 2)]
    /\ mem[GuestPages - 2].entries = [i \in Guest!Index |-> Guest!Table(GuestPages - 3 - i)]
    /\ \A i \in Guest!Index : mem[GuestPages - 3 - i].entries = Guest!IdentityPd(i)

GuestType ==
    /\ image \in ImageRecord
    /\ vm \in VmRecord
    /\ DOMAIN mem = 0 .. GuestPages - 1

GuestInv ==
    /\ GuestType
    /\ vm.used \in 0 .. Entries + 4
    /\ stage \in {"off", "identity"} => vm.used = 0
    /\ stage \in {"linux", "hello"} => vm.used = Entries + 2 /\ TablesInPlace
    /\ stage = "launch" /\ (vm.rip = CodePage \/ AsExpected) => TablesInPlace
    /\ LinuxReady

LEMMA GuestFacts ==
    /\ GuestPages \in Nat /\ PreferredPage \in Nat /\ CodePage \in Nat /\ Entries \in Nat \ {0, 1}
    /\ PreferredPage + Entries + 4 < GuestPages /\ CodePage < PreferredPage
    /\ PageSectors \in Nat \ {0} /\ SizeValues \in Nat
BY GuestConstants, BootConstants, EntriesAssumption

(* A walk through those tables ends where it started.                      *)
LEMMA IdentityWalk ==
    ASSUME GuestType, TablesInPlace, NEW la \in 0 .. GuestPages - 1
    PROVE  Guest!GuestPhysical(la) = Large(la, "RWX")
<1>0. /\ GuestPages \in Nat /\ Entries \in Nat \ {0, 1} /\ la \in Nat
      /\ Entries + 4 < GuestPages
  BY GuestFacts
<1>1. la < Entries * Entries * Entries
  BY <1>0, GuestConstants DEF EntrySpan
<1> DEFINE i == (la \div (Entries * Entries)) % Entries
           j == (la \div Entries) % Entries
<1>2. /\ Guest!IndexAt(la, 3) = 0 /\ Guest!IndexAt(la, 2) = i /\ Guest!IndexAt(la, 1) = j
  BY <1>0, <1>1, ThreeDigits DEF Guest!IndexAt, Guest!EntrySpan
<1>3. i \in 0 .. Entries - 1 /\ j \in 0 .. Entries - 1 /\ (i * Entries + j) * Entries + (la % Entries) = la
  <2>1. Entries \in Nat \ {0} /\ la \in Nat
    BY <1>0
  <2> QED
    BY <1>1, <2>1, ThreeDigits, Zenon
<1> HIDE DEF i, j
<1>4. 0 \in Guest!Index /\ i \in Guest!Index /\ j \in Guest!Index
  BY <1>0, <1>3 DEF Guest!Index
<1> DEFINE R == Guest!ReadGuest
<1>5. /\ DOMAIN R = 0 .. GuestPages - 1
      /\ \A p \in 0 .. GuestPages - 1 : R[p] = mem[p].entries
  BY DEF Guest!ReadGuest, Guest!GuestPage
<1>6. /\ GuestPages - 1 \in 0 .. GuestPages - 1 /\ GuestPages - 2 \in 0 .. GuestPages - 1
      /\ GuestPages - 3 - i \in 0 .. GuestPages - 1
  BY <1>0, <1>3
<1> HIDE DEF R
<1> DEFINE pml4e == Guest!EntryOf(R, vm.cr3, Guest!IndexAt(la, 3))
           pdpte == Guest!EntryOf(R, pml4e.to, Guest!IndexAt(la, 2))
           pde == Guest!EntryOf(R, pdpte.to, Guest!IndexAt(la, 1))
<1>7. pml4e = Guest!Table(GuestPages - 2)
  <2>1. R[GuestPages - 1][0] = Guest!Table(GuestPages - 2)
    BY <1>4, <1>5, <1>6 DEF TablesInPlace, Guest!Zeroed
  <2> QED
    BY <1>2, <1>5, <1>6, <2>1 DEF TablesInPlace, Guest!EntryOf
<1>8. pml4e.present /\ pml4e.to = GuestPages - 2
  BY <1>7 DEF Guest!Table, Guest!Absent
<1> HIDE DEF pml4e
<1>9. pdpte = Guest!Table(GuestPages - 3 - i)
  <2>1. R[GuestPages - 2][i] = Guest!Table(GuestPages - 3 - i)
    BY <1>4, <1>5, <1>6 DEF TablesInPlace
  <2> QED
    BY <1>2, <1>5, <1>6, <1>8, <2>1 DEF Guest!EntryOf
<1>10. pdpte.present /\ ~pdpte.large /\ pdpte.to = GuestPages - 3 - i
  BY <1>9 DEF Guest!Table, Guest!Absent
<1> HIDE DEF pdpte
<1>11. pde = Guest!Large((i * Entries + j) * Entries, "RWX")
  <2>1. R[GuestPages - 3 - i] = Guest!IdentityPd(i)
    BY <1>4, <1>5, <1>6 DEF TablesInPlace
  <2>2. Guest!IdentityPd(i)[j] = Guest!Large((i * Entries + j) * Entries, "RWX")
    BY <1>4 DEF Guest!IdentityPd
  <2> QED
    BY <1>2, <1>5, <1>6, <1>10, <2>1, <2>2 DEF Guest!EntryOf
<1>12. pde.present /\ pde.large
  BY <1>11 DEF Guest!Large
<1>13. Guest!Inside(pde, la, 1) = Large(la, "RWX")
  <2>1. Guest!EntrySpan(1) = Entries
    BY DEF Guest!EntrySpan
  <2>2. PICK x, y \in Int : x = (i * Entries + j) * Entries /\ y = la % Entries /\ x + y = la
    BY <1>0, <1>3
  <2>3. pde = [present |-> TRUE, to |-> x, large |-> TRUE, perm |-> "RWX"]
    BY <1>11, <2>2 DEF Guest!Large
  <2> HIDE DEF pde
  <2>4. pde \in [present : BOOLEAN, to : Int, large : BOOLEAN, perm : {"RWX"}]
    BY <2>3
  <2>5. Guest!Inside(pde, la, 1) = [pde EXCEPT !.to = @ + y]
    BY <2>1, <2>2 DEF Guest!Inside
  <2>6. [pde EXCEPT !.to = @ + y] = [present |-> TRUE, to |-> x + y, large |-> TRUE, perm |-> "RWX"]
    <3>1. pde.to = x /\ pde.present /\ pde.large /\ pde.perm = "RWX"
      BY <2>3
    <3>2. [pde EXCEPT !.to = @ + y] = [pde EXCEPT !.to = x + y]
      BY <2>4, <3>1
    <3>3. x + y \in Int
      OBVIOUS
    <3>4. ASSUME NEW z \in Int
          PROVE  [pde EXCEPT !.to = z] = [present |-> TRUE, to |-> z, large |-> TRUE, perm |-> "RWX"]
      <4>1. PICK w : w = [pde EXCEPT !.to = z]
        OBVIOUS
      <4>2. w \in [present : BOOLEAN, to : Int, large : BOOLEAN, perm : {"RWX"}] /\ w.to = z
        BY <2>4, <4>1
      <4>3. w.present = TRUE /\ w.large = TRUE /\ w.perm = "RWX"
        BY <2>4, <3>1, <4>1
      <4> QED
        BY <4>1, <4>2, <4>3
    <3> QED
      BY <3>2, <3>3, <3>4
  <2> QED
    BY <2>2, <2>5, <2>6 DEF Large
<1>14. Guest!Walk(R, vm.cr3, la) = Guest!Inside(pde, la, 1)
  BY <1>8, <1>10, <1>12 DEF Guest!Walk, pml4e, pdpte
<1> QED
  BY <1>13, <1>14 DEF Guest!GuestPhysical, R

(* Giving up leaves the guest's memory alone.                              *)
LEMMA PanicStep == ASSUME GuestInv, Guest!Panic PROVE GuestInv'
<1>1. stage' = "panic" /\ UNCHANGED <<image, mem, vm>>
  BY DEF Guest!Panic
<1>2. GuestType'
  BY <1>1 DEF GuestInv, GuestType
<1>3. LinuxReady'
  BY <1>1 DEF LinuxReady
<1> QED
  BY <1>1, <1>2, <1>3 DEF GuestInv

LEMMA GetAttachmentStep ==
    ASSUME GuestInv, NEW size \in Nat, Guest!GetAttachment(size) PROVE GuestInv'
<1>1. /\ stage = "off" /\ stage' = "identity" /\ UNCHANGED <<mem, vm>>
      /\ image' = [image EXCEPT !.size = size]
  BY DEF Guest!GetAttachment
<1>2. GuestType'
  BY <1>1 DEF GuestInv, GuestType, ImageRecord
<1>3. LinuxReady'
  BY <1>1 DEF LinuxReady
<1> QED
  BY <1>1, <1>2, <1>3 DEF GuestInv

LEMMA SetupIdentityStep == ASSUME GuestInv, Guest!SetupIdentity PROVE GuestInv'
<1>1. CASE Guest!Panic
  BY <1>1, PanicStep
<1>2. CASE ~Guest!Panic
  <2>0. /\ GuestPages \in Nat /\ Entries \in Nat \ {0, 1} /\ Entries + 4 < GuestPages
        /\ DOMAIN mem = 0 .. GuestPages - 1 /\ vm \in VmRecord /\ image \in ImageRecord
    BY GuestFacts DEF GuestInv, GuestType
  <2> DEFINE pml4 == GuestPages - 1
             pdpt == pml4 - 1
             pds == {Guest!PdPage(pdpt, i) : i \in Guest!Index}
             root == Guest!TablePage([Guest!Zeroed EXCEPT ![0] = Guest!Table(pdpt)])
             directory == Guest!TablePage([i \in Guest!Index |-> Guest!Table(Guest!PdPage(pdpt, i))])
             leaves == [p \in pds |-> Guest!TablePage(Guest!IdentityPd(
                                          CHOOSE i \in Guest!Index : Guest!PdPage(pdpt, i) = p))]
  <2>1. /\ mem' = Guest!Store(Guest!Store(Guest!StoreAll(mem, leaves), pdpt, directory), pml4, root)
        /\ vm' = [vm EXCEPT !.used = Entries + 2, !.cr3 = pml4]
        /\ stage' = IF image.size > 0 THEN "linux" ELSE "hello"
        /\ UNCHANGED image
    BY <1>2, Zenon DEF Guest!SetupIdentity
  <2>2. \A i \in Guest!Index : i \in 0 .. Entries - 1 /\ Guest!PdPage(pdpt, i) = GuestPages - 3 - i
    BY <2>0 DEF Guest!PdPage, Guest!Index
  <2>3. \A p \in pds : p \in 0 .. GuestPages - 3
    BY <2>0, <2>2
  <2>4. \A i \in Guest!Index : leaves[GuestPages - 3 - i].entries = Guest!IdentityPd(i)
    <3> SUFFICES ASSUME NEW i \in Guest!Index
                 PROVE  leaves[GuestPages - 3 - i].entries = Guest!IdentityPd(i)
      OBVIOUS
    <3>1. \A k \in Guest!Index : Guest!PdPage(pdpt, k) = GuestPages - 3 - i => k = i
      BY <2>0, <2>2
    <3>2. (CHOOSE k \in Guest!Index : Guest!PdPage(pdpt, k) = GuestPages - 3 - i) = i
      BY <2>2, <3>1
    <3>3. GuestPages - 3 - i \in pds
      BY <2>2
    <3>4. leaves[GuestPages - 3 - i] = Guest!TablePage(Guest!IdentityPd(i))
      BY <3>2, <3>3
    <3> QED
      BY <3>4 DEF Guest!TablePage
  <2>5. DOMAIN leaves = pds
    OBVIOUS
  <2>6. root.entries = [Guest!Zeroed EXCEPT ![0] = Guest!Table(GuestPages - 2)]
    BY <2>0 DEF Guest!TablePage
  <2>7. directory.entries = [i \in Guest!Index |-> Guest!Table(GuestPages - 3 - i)]
    BY <2>2 DEF Guest!TablePage
  <2>8. pml4 = GuestPages - 1 /\ pdpt = GuestPages - 2
    BY <2>0
  <2>9. \A i \in Guest!Index : GuestPages - 3 - i \in pds
    BY <2>2
  <2> HIDE DEF root, directory, leaves, pds, pml4, pdpt
  <2>10. DOMAIN mem' = 0 .. GuestPages - 1
    BY <2>0, <2>1, <2>3, <2>5, <2>8 DEF Guest!Store, Guest!StoreAll
  <2>11. mem'[GuestPages - 1] = root /\ mem'[GuestPages - 2] = directory
    BY <2>0, <2>1, <2>8 DEF Guest!Store
  <2>12. \A p \in pds : mem'[p] = leaves[p]
    BY <2>0, <2>1, <2>3, <2>5, <2>8 DEF Guest!Store, Guest!StoreAll
  <2>13. vm' \in VmRecord /\ vm'.used = Entries + 2 /\ vm'.cr3 = GuestPages - 1
    <3>1. PICK u \in Nat, c \in Int : u = Entries + 2 /\ c = GuestPages - 1
      BY <2>0
    <3>2. vm' = [vm EXCEPT !.used = u, !.cr3 = c]
      BY <2>1, <2>8, <3>1
    <3> QED
      BY <2>0, <3>1, <3>2 DEF VmRecord
  <2>14. TablesInPlace'
    <3>1. mem'[GuestPages - 1].entries = [Guest!Zeroed EXCEPT ![0] = Guest!Table(GuestPages - 2)]
      BY <2>6, <2>11
    <3>2. mem'[GuestPages - 2].entries = [i \in Guest!Index |-> Guest!Table(GuestPages - 3 - i)]
      BY <2>7, <2>11
    <3>3. \A i \in Guest!Index : mem'[GuestPages - 3 - i].entries = Guest!IdentityPd(i)
      BY <2>4, <2>9, <2>12
    <3> QED
      BY <2>13, <3>1, <3>2, <3>3 DEF TablesInPlace
  <2>15. GuestType'
    BY <2>0, <2>1, <2>10, <2>13 DEF GuestType
  <2>16. stage' \in {"linux", "hello"} /\ LinuxReady'
    BY <2>1 DEF LinuxReady
  <2>17. vm'.used \in 0 .. Entries + 4
    BY <2>0, <2>13
  <2> QED
    BY <2>13, <2>14, <2>15, <2>16, <2>17 DEF GuestInv
<1> QED
  BY <1>1, <1>2

LEMMA CopyHelloWorldStep == ASSUME GuestInv, Guest!CopyHelloWorld PROVE GuestInv'
<1>1. CASE Guest!Panic
  BY <1>1, PanicStep
<1>2. CASE ~Guest!Panic
  <2>0. /\ GuestPages \in Nat /\ Entries \in Nat \ {0, 1} /\ CodePage \in Nat
        /\ CodePage + Entries + 4 < GuestPages
        /\ DOMAIN mem = 0 .. GuestPages - 1 /\ vm \in VmRecord /\ image \in ImageRecord
    BY GuestFacts DEF GuestInv, GuestType
  <2>1. /\ mem' = [mem EXCEPT ![CodePage] = Guest!Holding("code", 0)]
        /\ vm' = [vm EXCEPT !.rip = CodePage]
        /\ stage = "hello" /\ stage' = "launch"
        /\ UNCHANGED image
    BY <1>2 DEF Guest!CopyHelloWorld
  <2>2. vm' \in VmRecord /\ vm'.rip = CodePage /\ vm'.used = vm.used /\ vm'.cr3 = vm.cr3
    BY <2>0, <2>1 DEF VmRecord
  <2>3. DOMAIN mem' = 0 .. GuestPages - 1 /\ \A p \in 0 .. GuestPages - 1 : p # CodePage => mem'[p] = mem[p]
    BY <2>0, <2>1
  <2>4. GuestType'
    BY <2>0, <2>1, <2>2, <2>3 DEF GuestType
  <2>5. /\ GuestPages - 1 \in 0 .. GuestPages - 1 /\ GuestPages - 1 # CodePage
        /\ GuestPages - 2 \in 0 .. GuestPages - 1 /\ GuestPages - 2 # CodePage
        /\ \A i \in Guest!Index : GuestPages - 3 - i \in 0 .. GuestPages - 1 /\ GuestPages - 3 - i # CodePage
    BY <2>0 DEF Guest!Index
  <2>6. TablesInPlace'
    BY <2>1, <2>2, <2>3, <2>5 DEF GuestInv, TablesInPlace
  <2>7. LinuxReady'
    BY <2>2 DEF LinuxReady
  <2> QED
    BY <2>1, <2>2, <2>4, <2>6, <2>7 DEF GuestInv
<1> QED
  BY <1>1, <1>2

-----------------------------------------------------------------------------
(* What the loader accepts: the image is no shorter than its setup, so     *)
(* that the unsigned subtraction does not wrap, and the kernel fits below  *)
(* the command line, unless it prefers a higher address than expected.     *)
LEMMA AcceptedImage ==
    ASSUME GuestType, vm.used = Entries + 2, NEW h \in Headers, Guest!LoaderAccepts(h)
    PROVE  LET setup == (IF h.setup_sects = 0 THEN 4 ELSE h.setup_sects) + 1
               pages == Guest!KernelPages(image.size, h.setup_sects)
           IN  /\ h.pref \in Nat /\ setup \in Nat /\ pages \in Nat
               /\ image.size >= setup
               /\ \A k \in Nat : k < pages <=> k * PageSectors < image.size - setup
               /\ pages <= GuestPages - (Entries + 4) - PreferredPage
               /\ \A k \in 0 .. pages - 1 : h.pref + k \in 0 .. GuestPages - 1
<1> DEFINE setup == (IF h.setup_sects = 0 THEN 4 ELSE h.setup_sects) + 1
           s == Guest!KernelSize(image.size, h.setup_sects)
           pages == Guest!KernelPages(image.size, h.setup_sects)
<1>0. /\ GuestPages \in Nat /\ Entries \in Nat /\ PreferredPage \in Nat
      /\ PreferredPage + Entries + 4 < GuestPages
      /\ PageSectors \in Nat \ {0} /\ SizeValues \in Nat
      /\ image.size \in Nat
  BY GuestFacts DEF GuestType, ImageRecord
<1>1. /\ h.pref \in Nat /\ h.setup_sects \in Nat
      /\ GuestPages * PageSectors + h.setup_sects + 5 < SizeValues
  BY GuestConstants
<1>2. setup \in Nat /\ setup <= h.setup_sects + 5
  BY <1>1
<1>3. PICK G \in Nat : G = GuestPages * PageSectors
  BY <1>0
<1>4. GuestPages <= G /\ G + setup < SizeValues /\ G + 1 < SizeValues
  <2>1. GuestPages <= GuestPages * PageSectors
    BY <1>0
  <2> QED
    BY <1>0, <1>1, <1>2, <1>3, <2>1
<1>5. s = (image.size - setup) % SizeValues
  BY DEF Guest!KernelSize
<1>6. pages = (s \div PageSectors) + (IF s % PageSectors = 0 THEN 0 ELSE 1)
  BY DEF Guest!KernelPages
<1>7. \A k \in 0 .. pages - 1 : h.pref + k \in 0 .. GuestPages - 1
  BY DEF Guest!LoaderAccepts, Guest!EptMapped, Guest!GuestPage
<1>8. image.size \div PageSectors < GuestPages - (Entries + 4) - PreferredPage
  <2>1. (GuestPages - (vm.used + 2) - PreferredPage) % SizeValues > image.size \div PageSectors
    BY DEF Guest!LoaderAccepts, Guest!EnoughMemory
  <2>2. PICK x \in Nat : x = GuestPages - (Entries + 4) - PreferredPage
    BY <1>0
  <2>3. GuestPages - (vm.used + 2) - PreferredPage = x /\ x < SizeValues
    BY <1>0, <1>4, <2>2
  <2>4. x % SizeValues = x
    BY <1>0, <2>3
  <2> QED
    BY <1>0, <2>1, <2>2, <2>3, <2>4
<1> HIDE DEF setup, s, pages
<1>9. PICK q \in Nat : q = image.size \div PageSectors /\ image.size < PageSectors * (q + 1)
  <2>0. PICK z \in Nat : z = image.size
    BY <1>0
  <2>1. PICK q \in Nat, r \in 0 .. PageSectors - 1 :
            z \div PageSectors = q /\ z % PageSectors = r /\ z = PageSectors * q + r
    <3>1. PageSectors \in Nat \ {0}
      BY <1>0
    <3> QED
      BY <3>1, Lists!DivMod
  <2>2. PageSectors * (q + 1) = PageSectors * q + PageSectors
    BY <1>0
  <2> QED
    BY <1>0, <2>0, <2>1, <2>2
<1>10. image.size < G
  <2>1. q + 1 <= GuestPages
    BY <1>0, <1>8, <1>9
  <2>2. PageSectors * (q + 1) <= PageSectors * GuestPages
    BY <1>0, <2>1
  <2> QED
    BY <1>0, <1>3, <1>9, <2>2
<1>11. s \in Nat
  BY <1>0, <1>2, <1>4, <1>5
<1>12. pages \in Nat /\ \A k \in Nat : k < pages <=> k * PageSectors < s
  <2>1. pages \in Nat
    BY <1>0, <1>6, <1>11
  <2> QED
    BY <1>0, <1>6, <1>11, <2>1, Lists!Ceiling
<1>13. image.size >= setup
  <2>1. SUFFICES ASSUME image.size < setup PROVE FALSE
    BY <1>0, <1>2
  <2>2. s = image.size - setup + SizeValues
    BY <1>0, <1>2, <1>4, <1>5, <2>1
  <2>3. s > GuestPages * PageSectors
    BY <1>0, <1>2, <1>3, <1>4, <2>2
  <2>4. GuestPages < pages
    BY <1>0, <1>12, <2>3
  <2>5. GuestPages \in 0 .. pages - 1
    BY <1>0, <1>12, <2>4
  <2>6. h.pref + GuestPages \in 0 .. GuestPages - 1
    BY <1>7, <2>5
  <2> QED
    BY <1>0, <1>1, <2>6
<1>14. s = image.size - setup
  BY <1>0, <1>2, <1>4, <1>5, <1>10, <1>13
<1>15. pages <= q + 1
  <2>1. SUFFICES ASSUME q + 1 < pages PROVE FALSE
    BY <1>12
  <2>2. (q + 1) * PageSectors < s
    BY <1>12, <2>1
  <2> QED
    BY <1>0, <1>2, <1>9, <1>14, <2>2
<1>16. pages <= GuestPages - (Entries + 4) - PreferredPage
  BY <1>0, <1>8, <1>9, <1>12, <1>15
<1> QED
  BY <1>1, <1>2, <1>7, <1>12, <1>13, <1>14, <1>16 DEF setup, pages

LEMMA LoadLinuxStep == ASSUME GuestInv, Guest!LoadLinux PROVE GuestInv'
<1>0. /\ GuestPages \in Nat /\ Entries \in Nat \ {0, 1} /\ PreferredPage \in Nat /\ CodePage \in Nat
      /\ PreferredPage + Entries + 4 < GuestPages /\ CodePage < PreferredPage
      /\ DOMAIN mem = 0 .. GuestPages - 1 /\ vm \in VmRecord /\ image \in ImageRecord
      /\ PageSectors \in Nat \ {0} /\ image.size \in Nat
  BY GuestFacts DEF GuestInv, GuestType, ImageRecord
<1>1. /\ stage = "linux" /\ stage' = "launch" /\ GuestType
      /\ vm.used = Entries + 2 /\ TablesInPlace
  BY DEF Guest!LoadLinux, GuestInv
<1>2. PICK Z, C \in Nat : /\ Z = GuestPages - Entries - 3 /\ C = GuestPages - Entries - 4
                          /\ Guest!ZeroPage = Z /\ Guest!CmdlinePage = C
  BY <1>0, <1>1 DEF Guest!ZeroPage, Guest!CmdlinePage
<1>3. PICK h \in Headers :
          /\ Guest!LoaderAccepts(h)
          /\ image' = [image EXCEPT !.header = h]
          /\ mem' = Guest!StoreAll(
                 Guest!Store(Guest!Store(mem, Guest!ZeroPage, Guest!Holding("zeropage", Guest!CmdlinePage)),
                             Guest!CmdlinePage, Guest!Holding("cmdline", 0)),
                 [p \in h.pref .. h.pref + Guest!KernelPages(image.size, h.setup_sects) - 1 |->
                     Guest!Holding("kernel", p - h.pref)])
          /\ vm' = [vm EXCEPT !.used = @ + 2, !.rip = h.pref, !.rsi = Guest!ZeroPage]
  BY DEF Guest!LoadLinux
<1> DEFINE setup == (IF h.setup_sects = 0 THEN 4 ELSE h.setup_sects) + 1
<1>4. PICK n : n = Guest!KernelPages(image.size, h.setup_sects)
  OBVIOUS
<1>5. /\ h.pref \in Nat /\ setup \in Nat /\ n \in Nat
      /\ image.size >= setup
      /\ \A k \in Nat : k < n <=> k * PageSectors < image.size - setup
      /\ n <= GuestPages - (Entries + 4) - PreferredPage
      /\ \A k \in 0 .. n - 1 : h.pref + k \in 0 .. GuestPages - 1
  BY <1>1, <1>3, <1>4, AcceptedImage
<1> DEFINE kernel == [p \in h.pref .. h.pref + n - 1 |-> Guest!Holding("kernel", p - h.pref)]
<1>6. mem' = Guest!StoreAll(Guest!Store(Guest!Store(mem, Z, Guest!Holding("zeropage", C)),
                                        C, Guest!Holding("cmdline", 0)), kernel)
  BY <1>2, <1>3, <1>4
<1>7. DOMAIN kernel = h.pref .. h.pref + n - 1
  OBVIOUS
<1>8. \A p \in h.pref .. h.pref + n - 1 : p \in 0 .. GuestPages - 1
  <2> SUFFICES ASSUME NEW p \in h.pref .. h.pref + n - 1 PROVE p \in 0 .. GuestPages - 1
    OBVIOUS
  <2>1. p - h.pref \in 0 .. n - 1 /\ h.pref + (p - h.pref) = p
    BY <1>5
  <2> QED
    BY <1>5, <2>1
<1> HIDE DEF kernel, setup
<1>9. DOMAIN mem' = 0 .. GuestPages - 1
  BY <1>0, <1>2, <1>6, <1>7, <1>8 DEF Guest!StoreAll, Guest!Store
<1>10. \A p \in DOMAIN kernel : mem'[p] = kernel[p]
  BY <1>6 DEF Guest!StoreAll
<1>11. \A p \in 0 .. GuestPages - 1 : p \notin DOMAIN kernel =>
           mem'[p] = IF p = C THEN Guest!Holding("cmdline", 0)
                     ELSE IF p = Z THEN Guest!Holding("zeropage", C) ELSE mem[p]
  BY <1>0, <1>6 DEF Guest!StoreAll, Guest!Store
<1>12. /\ image' \in ImageRecord /\ image'.size = image.size /\ image'.header = h
  BY <1>0, <1>3 DEF ImageRecord
<1>13. /\ vm' \in VmRecord /\ vm'.used = Entries + 4 /\ vm'.cr3 = vm.cr3
       /\ vm'.rip = h.pref /\ vm'.rsi = Z
  <2>1. PICK u \in Nat : u = Entries + 4 /\ u = vm.used + 2
    BY <1>0, <1>1
  <2>2. vm' = [vm EXCEPT !.used = u, !.rip = h.pref, !.rsi = Z]
    BY <1>0, <1>2, <1>3, <2>1 DEF VmRecord
  <2>3. PICK r, z \in Int : r = h.pref /\ z = Z
    BY <1>2, <1>5
  <2>4. vm' = [vm EXCEPT !.used = u, !.rip = r, !.rsi = z]
    BY <2>2, <2>3
  <2> QED
    BY <1>0, <2>1, <2>3, <2>4 DEF VmRecord
<1>14. GuestType'
  BY <1>9, <1>12, <1>13 DEF GuestType
<1>15. h.pref <= PreferredPage => \A p \in DOMAIN kernel : p < C
  BY <1>0, <1>2, <1>5, <1>7
<1>16. h.pref <= PreferredPage => TablesInPlace'
  <2> SUFFICES ASSUME h.pref <= PreferredPage PROVE TablesInPlace'
    OBVIOUS
  <2>1. \A p \in 0 .. GuestPages - 1 : p > Z => mem'[p] = mem[p]
    BY <1>0, <1>2, <1>11, <1>15
  <2>2. /\ GuestPages - 1 \in 0 .. GuestPages - 1 /\ GuestPages - 1 > Z
        /\ GuestPages - 2 \in 0 .. GuestPages - 1 /\ GuestPages - 2 > Z
        /\ \A i \in Guest!Index : GuestPages - 3 - i \in 0 .. GuestPages - 1 /\ GuestPages - 3 - i > Z
    BY <1>0, <1>2 DEF Guest!Index
  <2> QED
    BY <1>1, <1>13, <2>1, <2>2 DEF TablesInPlace
<1>17. (vm'.rip = CodePage \/ AsExpected') => h.pref <= PreferredPage
  BY <1>0, <1>5, <1>12, <1>13 DEF AsExpected
<1>18. LinuxReady'
  <2>1. SUFFICES ASSUME AsExpected' PROVE LinuxReady'
    BY DEF LinuxReady
  <2>2. h.pref = PreferredPage /\ SetupSectors' = setup
    BY <1>12, <2>1 DEF AsExpected, SetupSectors, setup
  <2>3. ASSUME NEW k \in 0 .. GuestPages, k * PageSectors < image.size - setup
        PROVE  PreferredPage + k < GuestPages /\ mem'[PreferredPage + k] = Guest!Holding("kernel", k)
    <3>1. k \in Nat /\ k < n
      BY <1>0, <1>5, <2>3
    <3>2. PreferredPage + k \in DOMAIN kernel /\ (PreferredPage + k) - PreferredPage = k
      BY <1>0, <1>5, <1>7, <2>2, <3>1
    <3>3. mem'[PreferredPage + k] = kernel[PreferredPage + k]
      BY <1>10, <3>2
    <3>4. kernel[PreferredPage + k] = Guest!Holding("kernel", k)
      BY <1>7, <2>2, <3>2 DEF kernel
    <3> QED
      BY <1>0, <1>7, <1>8, <3>2, <3>3, <3>4
  <2>4. Z \in 0 .. GuestPages - 1 /\ C \in 0 .. GuestPages - 1 /\ Z # C
        /\ Z \notin DOMAIN kernel /\ C \notin DOMAIN kernel
    BY <1>0, <1>2, <1>15, <2>2
  <2>5. mem'[Z] = Guest!Holding("zeropage", C) /\ mem'[C] = Guest!Holding("cmdline", 0)
    BY <1>11, <2>4
  <2>6. mem'[Z].kind = "zeropage" /\ mem'[Z].n = C /\ mem'[C].kind = "cmdline"
    BY <2>5 DEF Guest!Holding
  <2> QED
    BY <1>5, <1>12, <1>13, <2>2, <2>3, <2>6 DEF LinuxReady
<1>19. vm'.used \in 0 .. Entries + 4
  BY <1>0, <1>13
<1> QED
  BY <1>1, <1>14, <1>16, <1>17, <1>18, <1>19 DEF GuestInv

LEMMA GuestStepKeeps == ASSUME GuestInv, Guest!GuestStep PROVE GuestInv'
BY SetupIdentityStep, LoadLinuxStep, CopyHelloWorldStep, PanicStep
DEF Guest!GuestStep, Guest!LoaderPanics

LEMMA GuestUnchanged == ASSUME GuestInv, UNCHANGED guestVars PROVE GuestInv'
<1>1. UNCHANGED <<stage, image, mem, vm>>
  BY DEF guestVars
<1>2. GuestType' /\ (TablesInPlace' <=> TablesInPlace)
  BY <1>1 DEF GuestInv, GuestType, TablesInPlace
<1>3. LinuxReady'
  BY <1>1 DEF GuestInv, LinuxReady, AsExpected, SetupSectors
<1> QED
  BY <1>1, <1>2, <1>3 DEF GuestInv, AsExpected

LEMMA GuestStarts == Guest!Init => GuestInv
<1> SUFFICES ASSUME Guest!Init PROVE GuestInv
  OBVIOUS
<1>1. image \in ImageRecord
  BY DEF Guest!Init, ImageRecord
<1>2. vm \in VmRecord /\ vm.used = 0 /\ stage = "off"
  BY DEF Guest!Init, Guest!NoAddress, VmRecord
<1>3. DOMAIN mem = 0 .. GuestPages - 1
  BY DEF Guest!Init, Guest!GuestPage
<1>4. LinuxReady
  BY <1>2 DEF LinuxReady
<1> QED
  BY <1>1, <1>2, <1>3, <1>4, GuestFacts DEF GuestInv, GuestType

-----------------------------------------------------------------------------
StartupInv == BootInv /\ GuestInv

LEMMA StartupStarts == StartupInit => StartupInv
<1> SUFFICES ASSUME StartupInit PROVE StartupInv
  OBVIOUS
<1>1. Fresh
  BY DEF StartupInit, Init, Fresh, Statuses
<1> QED
  BY <1>1, NothingYet, GuestStarts DEF StartupInit, StartupInv

LEMMA StartupKeeps == StartupInv /\ [StartupNext]_vars => StartupInv'
<1> SUFFICES ASSUME BootInv, GuestInv, [StartupNext]_vars PROVE BootInv' /\ GuestInv'
  BY DEF StartupInv
<1>1. CASE BootPhase
  BY <1>1, BootStepKeeps, GuestUnchanged DEF BootPhase
<1>2. CASE HvMain
  <2>1. chain.attachment.size \in Nat
    BY ChainFields DEF BootInv
  <2> QED
    BY <1>2, <2>1, HvMainStep, GetAttachmentStep DEF HvMain
<1>3. CASE GuestPhase
  BY <1>3, GuestStepKeeps, BootUnchanged DEF GuestPhase
<1>4. CASE FirmwareEvent /\ UNCHANGED guestVars
  BY <1>4, FirmwareEventStep, GuestUnchanged
<1>5. CASE UNCHANGED vars
  BY <1>5, BootUnchanged, GuestUnchanged DEF vars
<1> QED
  BY <1>1, <1>2, <1>3, <1>4, <1>5 DEF StartupNext, Step

LEMMA StartupAlways == StartupSpec => []StartupInv
BY StartupStarts, StartupKeeps, PTL DEF StartupSpec

(* The chainload page keeps within its tables, the bootloader's page       *)
(* tables are pages of the machine, the loaders stay in the guest.         *)
THEOREM StartupTypeCorrect == StartupSpec => []TypeOK
<1>1. StartupInv => TypeOK
  <2> SUFFICES ASSUME BootInv, GuestInv PROVE TypeOK
    BY DEF StartupInv
  <2>1. types \in [Page -> MemoryType] /\ DOMAIN tables \subseteq Page /\ error \in Statuses
    BY DEF BootInv, BootType
  <2>2. Len(chain.regions) <= MaxRegions /\ Len(chain.usable) <= MaxDescriptors
    BY DEF BootInv, WithinCapacity
  <2>3. DOMAIN mem = 0 .. GuestPages - 1 /\ vm.used \in 0 .. Entries + 4
    BY DEF GuestInv, GuestType
  <2> QED
    BY <2>1, <2>2, <2>3 DEF TypeOK, Statuses
<1> QED
  BY <1>1, StartupAlways, PTL

(* An offer covers pages of the machine.                                   *)
LEMMA OfferedPages ==
    ASSUME BootInv, NEW p
    PROVE  p \in Offered <=> p \in Nat /\ IsOffered(p)
<1>1. chain.usable \in Seq(Offer)
  BY ChainFields DEF BootInv
<1>2. \A i \in DOMAIN chain.usable : chain.usable[i] \in Offer
  BY <1>1
<1>3. \A i \in DOMAIN chain.usable : chain.usable[i].at \in Nat /\ chain.usable[i].pages \in Nat
  BY <1>2 DEF Offer
<1>4. p \in Offered <=> IsOffered(p)
  BY DEF Offered, IsOffered, Covers, Range
<1>5. IsOffered(p) => p \in Nat
  BY <1>3 DEF IsOffered, Covers, Span
<1> QED
  BY <1>4, <1>5

(* The merged memory map offers the hypervisor usable pages only, as the   *)
(* firmware's map is when the boot services end, and all of them unless    *)
(* the table is full.                                                      *)
THEOREM OfferedAlwaysUsable == StartupSpec => []OfferedIsUsable
<1>1. StartupInv => OfferedIsUsable
  <2> SUFFICES ASSUME BootInv, pc = "hvmain"
               PROVE  /\ \A p \in Offered : p \in Page /\ Usable(types[p])
                      /\ Len(chain.usable) < MaxDescriptors =>
                            \A p \in Page : Usable(types[p]) => p \in Offered
    BY DEF StartupInv, OfferedIsUsable
  <2>1. \A p \in Offered : p \in Page /\ Usable(types[p])
    BY OfferedPages DEF BootInv, MergeInv, OffersSound, IsOffered
  <2>2. Len(chain.usable) < MaxDescriptors => \A p \in Page : Usable(types[p]) => p \in Offered
    BY OfferedPages, PageFacts DEF BootInv, MergeInv
  <2> QED
    BY <2>1, <2>2
<1> QED
  BY <1>1, StartupAlways, PTL

(* Whatever placement the firmware chose and however often it changed its  *)
(* map, the hypervisor is never offered a page with its own code, stack,   *)
(* tables, chainload page or attachment without mm_page_used_by_chainload  *)
(* knowing.                                                                *)
THEOREM NothingNeededEverFree == StartupSpec => []NothingNeededIsFree
<1>1. StartupInv => NothingNeededIsFree
  <2> SUFFICES ASSUME BootInv, pc = "hvmain", NEW p \in Offered, holds[p] # "nothing"
               PROVE  UsedByChainload(p)
    BY DEF StartupInv, NothingNeededIsFree
  <2>1. p \in Page
    BY OfferedPages DEF BootInv, MergeInv, OffersSound, IsOffered
  <2> QED
    BY <2>1 DEF BootInv, Accounted
<1> QED
  BY <1>1, StartupAlways, PTL

(* Every page-table page is in exactly one region of the chainload page,   *)
(* and nothing else is, at every moment of the collapsing.                 *)
THEOREM RegionsAlwaysExact == StartupSpec => []RegionsExact
<1>1. StartupInv => RegionsExact
  <2> SUFFICES ASSUME BootInv
               PROVE  /\ \A p \in Page : (holds[p] = "table") <=>
                            \E i \in DOMAIN chain.regions :
                                p \in Span(chain.regions[i].at, chain.regions[i].pages)
                      /\ \A i, j \in DOMAIN chain.regions : i # j =>
                            Span(chain.regions[i].at, chain.regions[i].pages)
                                \cap Span(chain.regions[j].at, chain.regions[j].pages) = {}
    BY DEF StartupInv, RegionsExact
  <2>1. \A p \in Page : (holds[p] = "table") <=>
            \E i \in DOMAIN chain.regions : p \in Span(chain.regions[i].at, chain.regions[i].pages)
    BY PageFacts DEF BootInv, RegionsInv, InRegion
  <2>2. \A i \in DOMAIN chain.regions : chain.regions[i] \in Region
    BY ChainFields DEF BootInv
  <2>3. \A i \in DOMAIN chain.regions : chain.regions[i].at \in Nat /\ chain.regions[i].pages \in Nat
    BY <2>2 DEF Region
  <2>4. \A i \in DOMAIN chain.regions :
            \A p \in Span(chain.regions[i].at, chain.regions[i].pages) : p \in Nat
    BY <2>3 DEF Span
  <2>5. \A i, j \in DOMAIN chain.regions : \A p \in Nat :
            p \in Span(chain.regions[i].at, chain.regions[i].pages)
            /\ p \in Span(chain.regions[j].at, chain.regions[j].pages) => i = j
    BY DEF BootInv, RegionsInv, InRegion
  <2> QED
    BY <2>1, <2>4, <2>5
<1> QED
  BY <1>1, StartupAlways, PTL

(* A guest is launched with all of its memory mapped to itself, after all  *)
(* of the loader's writes, whatever its size and the image's.              *)
THEOREM AlwaysIdentityMapped == StartupSpec => []IdentityMapped
<1>1. StartupInv => IdentityMapped
  BY IdentityWalk DEF StartupInv, GuestInv, IdentityMapped
<1> QED
  BY <1>1, StartupAlways, PTL

(* A Linux guest is launched with its whole kernel, the boot parameters    *)
(* and the command line in place, and with no image shorter than its own   *)
(* setup.                                                                  *)
THEOREM LinuxAlwaysReady == StartupSpec => []LinuxReady
<1>1. StartupInv => LinuxReady
  BY DEF StartupInv, GuestInv
<1> QED
  BY <1>1, StartupAlways, PTL

(***************************************************************************)
(* The page tables of the hypervisor, while they are built and after.  The *)
(* sections need eight tables: 1 is the PML4; 2, 3 and 4 lead to the page  *)
(* table of the code and the read-only data, 5 is that of the data; 6, 7   *)
(* and 8 lead to the stack.  They are allocated in this order.             *)
(***************************************************************************)
Parent(c) == IF c \in {2, 6} THEN 1 ELSE IF c = 5 THEN 3 ELSE c - 1
Slot(c) ==
    IF c = 2 THEN Entries - 2 ELSE IF c = 5 THEN 1 ELSE IF c >= 6 THEN Entries - 1 ELSE 0

(* The page table of a section, and the section's first entry in it.       *)
PtOf(s) == IF s = 3 THEN 5 ELSE IF s = 4 THEN 8 ELSE 4
FirstSlot(s) == IF s \in {2, 4} THEN SECTION_PAGES ELSE 0

(* The table of each level on the walk for a page of section s.            *)
OnPath(s, level) ==
    IF level = 0 THEN PtOf(s)
    ELSE IF level = 1 THEN Parent(PtOf(s))
    ELSE IF level = 2 THEN Parent(Parent(PtOf(s)))
    ELSE 1

(* What the entries of the first k tables, in the pages n, stand for.      *)
Linked(k, c, i) == \E d \in 2 .. k : Parent(d) = c /\ Slot(d) = i
Mapped(l, s, j) == s < l.section \/ (s = l.section /\ j < l.page)
Filled(l, c, i) ==
    \E s \in 1 .. 4, j \in 0 .. SECTION_PAGES - 1 :
        Mapped(l, s, j) /\ PtOf(s) = c /\ FirstSlot(s) + j = i

(* The tree of the tables: links, pages mapped so far, links of the PML4   *)
(* to the PDPT of the physical memory, and nothing else.                   *)
Links(n, k) == \A d \in 2 .. k : tables[n[Parent(d)]][Slot(d)] = Table(n[d])
Leaves(n) ==
    \A s \in 1 .. 4, j \in 0 .. SECTION_PAGES - 1 : Mapped(local, s, j) =>
        tables[n[PtOf(s)]][FirstSlot(s) + j] = Leaf(chain.sections[s] + j, Sections[s].perm)
NothingElse(n, k, low) ==
    \A c \in 1 .. k, i \in Index :
        ~Linked(k, c, i) /\ ~Filled(local, c, i) /\ ~(c = 1 /\ i \in low) => tables[n[c]][i] = Absent

Tree(n, k, low) ==
    /\ n[1] = local.pml4
    /\ \A c \in 1 .. k : n[c] \in DOMAIN tables /\ DOMAIN tables[n[c]] = Index
    /\ \A c, d \in 1 .. k : n[c] = n[d] => c = d
    /\ Links(n, k) /\ Leaves(n) /\ NothingElse(n, k, low)
    /\ \A i \in low : tables[n[1]][i] = Table(local.pdpt)

(* The tables of a section are allocated before its first page is mapped,  *)
(* those of the sections before it are there.                              *)
InOrder(k) ==
    /\ local.section \in 1 .. 4 /\ local.page \in 0 .. SECTION_PAGES - 1
    /\ k \in (IF local.section = 1 THEN 1 ELSE PtOf(local.section - 1)) .. PtOf(local.section)
    /\ local.page > 0 => k = PtOf(local.section)
    /\ Len(chain.regions) <= k

(* The PDPT of the physical memory, and its PDs in the pages from pd on.   *)
Physical(n, pd) ==
    /\ local.pdpt \in DOMAIN tables /\ \A c \in 1 .. 8 : n[c] # local.pdpt
    /\ DOMAIN tables[local.pdpt] = Index
    /\ \A i \in Index :
          /\ tables[local.pdpt][i] = Table(pd + i)
          /\ pd + i \in DOMAIN tables /\ pd + i # local.pdpt /\ \A c \in 1 .. 8 : n[c] # pd + i
          /\ tables[pd + i] = PhysicalPd(i)

(* Where the tables are; when all are built; what of the PML4 leads to the *)
(* physical memory, of which chainload drops the identity mapping.         *)
Nodes == [1 .. 8 -> Page]
Built == {"level", "size", "pool", "read", "exit", "retry", "merge", "chainload", "hvmain"}
LowLinks == IF pc = "hvmain" THEN {PhysicalIndex} ELSE {0, PhysicalIndex}

(* The tables at each step of efi_main.                                    *)
TablesInv ==
    /\ \A p \in DOMAIN tables : holds[p] = "table"
    /\ pc \in {"start", "sections", "attachments", "pml4"} =>
          tables = <<>> /\ local = NoLocal /\ chain.regions = <<>>
    /\ pc \notin {"start", "sections", "failed", "entered"} => Len(chain.sections) = 4
    /\ pc = "map" => \E n \in Nodes : \E k \in 1 .. 8 : Tree(n, k, {}) /\ InOrder(k)
    /\ pc \in {"pdpt", "pds"} =>
          /\ local.section = 5
          /\ Len(chain.regions) <= IF pc = "pdpt" THEN 8 ELSE 9
          /\ \E n \in Nodes :
                /\ Tree(n, 8, {})
                /\ pc = "pds" => local.pdpt \in DOMAIN tables /\ \A c \in 1 .. 8 : n[c] # local.pdpt
    /\ pc \in Built =>
          local.section = 5 /\ \E n \in Nodes : \E pd \in Page : Tree(n, 8, LowLinks) /\ Physical(n, pd)
    /\ MaxRegions >= 10 => error \in {"none", "firmware", "level", "map"}

(* A section takes half the entries of a page table.                       *)
LEMMA TableSizes ==
    /\ Entries \in Nat /\ Entries >= 4 /\ SECTION_PAGES \in Nat \ {0}
    /\ Entries = 2 * SECTION_PAGES
    /\ PhysicalIndex \in 1 .. Entries - 3
BY BootConstants, EntriesAssumption DEF SECTION_PAGES

(* The digits of a linear address are the indices the walk uses.           *)
Address(a3, a2, a1, a0) == ((a3 * Entries + a2) * Entries + a1) * Entries + a0

(* What an entry of each level spans.                                      *)
LEMMA SpanOfEntry ==
    /\ EntrySpan(0) = 1 /\ EntrySpan(1) = Entries /\ EntrySpan(2) = Entries * Entries
    /\ EntrySpan(3) = Entries * Entries * Entries
    /\ EntrySpan(4) = Entries * Entries * Entries * Entries
BY DEF EntrySpan

(* The indices of a linear address are its digits.                         *)
LEMMA AddressIndices ==
    ASSUME NEW a3 \in Index, NEW a2 \in Index, NEW a1 \in Index, NEW a0 \in Index
    PROVE  LET la == Address(a3, a2, a1, a0)
           IN  /\ IndexAt(la, 3) = a3 /\ IndexAt(la, 2) = a2
               /\ IndexAt(la, 1) = a1 /\ IndexAt(la, 0) = a0
               /\ la \in Nat /\ la % EntrySpan(1) = a0
<1>0. PICK E \in Nat \ {0} : E = Entries
  BY TableSizes
<1>15. PICK b3, b2, b1, b0 \in 0 .. E - 1 : b3 = a3 /\ b2 = a2 /\ b1 = a1 /\ b0 = a0
  BY <1>0 DEF Index
<1>16. PICK la \in Nat : la = ((b3 * E + b2) * E + b1) * E + b0
  OBVIOUS
<1>1. PICK y \in Nat : y = E * b3 + b2
  OBVIOUS
<1>2. PICK x \in Nat : x = E * y + b1
  OBVIOUS
<1>3. la = E * x + b0
  BY <1>1, <1>2, <1>16
<1>4. la \div E = x /\ la % E = b0
  BY <1>3, Lists!DivUnique
<1>5. x % E = b1 /\ y % E = b2
  BY <1>1, <1>2, Lists!DivUnique
<1>6. E * E \in Nat \ {0} /\ E * b1 + b0 \in 0 .. E * E - 1
  OBVIOUS
<1>7. la = (E * E) * y + (E * b1 + b0)
  BY <1>2, <1>3
<1>8. la \div (E * E) = y
  BY <1>6, <1>7, Lists!DivUnique
<1>9. PICK D \in Nat \ {0} : D = E * E
  BY <1>6
<1>10. PICK r \in 0 .. D - 1 : r = E * b1 + b0
  BY <1>6, <1>9
<1>11. D * E \in Nat \ {0} /\ D * b2 + r \in 0 .. D * E - 1
  OBVIOUS
<1>12. la = (D * E) * b3 + (D * b2 + r)
  BY <1>1, <1>7, <1>9, <1>10
<1>13. la \div (D * E) = b3
  BY <1>11, <1>12, Lists!DivUnique
<1>14. b3 % E = b3
  OBVIOUS
<1>17. la = Address(a3, a2, a1, a0) /\ la \div 1 = la
  BY <1>0, <1>15, <1>16 DEF Address
<1>18. /\ IndexAt(la, 3) = a3 /\ IndexAt(la, 2) = a2
       /\ IndexAt(la, 1) = a1 /\ IndexAt(la, 0) = a0
       /\ la % EntrySpan(1) = a0
  BY <1>0, <1>4, <1>5, <1>8, <1>9, <1>13, <1>14, <1>15, <1>17, SpanOfEntry DEF IndexAt
<1> QED
  BY <1>17, <1>18

(* Every linear address has its digits.                                    *)
LEMMA AddressDigits ==
    ASSUME NEW la \in 0 .. EntrySpan(4) - 1
    PROVE  \E a3, a2, a1, a0 \in Index : la = Address(a3, a2, a1, a0)
<1>0. PICK E \in Nat \ {0} : E = Entries
  BY TableSizes
<1>1. la \in Nat /\ la < E * E * E * E
  BY <1>0, SpanOfEntry
<1>2. PICK x \in Nat, a0 \in 0 .. E - 1 : la = E * x + a0
  BY <1>1, Lists!DivMod
<1>3. PICK y \in Nat, a1 \in 0 .. E - 1 : x = E * y + a1
  BY Lists!DivMod
<1>4. PICK a3 \in Nat, a2 \in 0 .. E - 1 : y = E * a3 + a2
  BY Lists!DivMod
<1>5. PICK D \in Nat \ {0} : D = E * E * E
  OBVIOUS
<1>6. la >= D * a3 /\ la < D * E
  BY <1>1, <1>2, <1>3, <1>4, <1>5
<1>7. a3 < E
  BY <1>6
<1>8. la = ((a3 * E + a2) * E + a1) * E + a0
  BY <1>2, <1>3, <1>4
<1>9. la = Address(a3, a2, a1, a0)
  BY <1>0, <1>8 DEF Address
<1>10. a3 \in Index /\ a2 \in Index /\ a1 \in Index /\ a0 \in Index
  BY <1>0, <1>7 DEF Index
<1> QED
  BY ONLY <1>9, <1>10

(* Page j of section s, in digits.                                         *)
LEMMA SectionAddress ==
    ASSUME NEW s \in 1 .. 4, NEW j \in 0 .. SECTION_PAGES - 1
    PROVE  /\ Sections[s].base + j =
                  Address(Slot(OnPath(s, 2)), Slot(OnPath(s, 1)), Slot(OnPath(s, 0)), FirstSlot(s) + j)
           /\ Slot(OnPath(s, 2)) \in Index /\ Slot(OnPath(s, 1)) \in Index
           /\ Slot(OnPath(s, 0)) \in Index /\ FirstSlot(s) + j \in Index
           /\ Sections[s].base \in Nat
<1>0. PICK E \in Nat, S \in Nat \ {0} : E = Entries /\ S = SECTION_PAGES /\ E = 2 * S /\ E >= 4
  BY TableSizes
<1>1. CASE s = 1
  BY <1>0, <1>1, SpanOfEntry
  DEF Sections, Section, Address, Slot, OnPath, PtOf, FirstSlot, Parent, Index, RKHV_RX_BASE
<1>2. CASE s = 2
  BY <1>0, <1>2, SpanOfEntry
  DEF Sections, Section, Address, Slot, OnPath, PtOf, FirstSlot, Parent, Index, RKHV_RX_BASE
<1>3. CASE s = 3
  BY <1>0, <1>3, SpanOfEntry
  DEF Sections, Section, Address, Slot, OnPath, PtOf, FirstSlot, Parent, Index, RKHV_RX_BASE
<1>4. CASE s = 4
  BY <1>0, <1>4, SpanOfEntry
  DEF Sections, Section, Address, Slot, OnPath, PtOf, FirstSlot, Parent, Index, RKHV_RX_BASE
<1> QED
  BY <1>1, <1>2, <1>3, <1>4

(* Each of the eight tables hangs from an entry of its own.                *)
LEMMA TreeShape ==
    /\ \A d \in 2 .. 8 : Parent(d) \in 1 .. d - 1 /\ Parent(d) \notin {4, 5, 8} /\ Slot(d) \in Index
    /\ \A d, e \in 2 .. 8 : Parent(d) = Parent(e) /\ Slot(d) = Slot(e) => d = e
    /\ \A d \in 2 .. 8 : Parent(d) = 1 => Slot(d) > PhysicalIndex
    /\ \A s \in 1 .. 4 : PtOf(s) \in {4, 5, 8}
    /\ \A s, t \in 1 .. 4, i, j \in 0 .. SECTION_PAGES - 1 :
          PtOf(s) = PtOf(t) /\ FirstSlot(s) + i = FirstSlot(t) + j => s = t /\ i = j
    /\ \A s \in 1 .. 4, j \in 0 .. SECTION_PAGES - 1 : FirstSlot(s) + j \in Index
    /\ 0 \in Index /\ PhysicalIndex \in Index /\ PhysicalIndex # 0
<1>1. \A d \in 2 .. 8 : Parent(d) \in 1 .. d - 1 /\ Parent(d) \notin {4, 5, 8} /\ Slot(d) \in Index
  BY TableSizes DEF Parent, Slot, Index
<1>2. \A d, e \in 2 .. 8 : Parent(d) = Parent(e) /\ Slot(d) = Slot(e) => d = e
  BY TableSizes DEF Parent, Slot
<1>3. \A d \in 2 .. 8 : Parent(d) = 1 => Slot(d) > PhysicalIndex
  BY TableSizes DEF Parent, Slot
<1>4. \A s \in 1 .. 4 : PtOf(s) \in {4, 5, 8}
  BY DEF PtOf
<1>5. \A s, t \in 1 .. 4, i, j \in 0 .. SECTION_PAGES - 1 :
          PtOf(s) = PtOf(t) /\ FirstSlot(s) + i = FirstSlot(t) + j => s = t /\ i = j
  BY TableSizes DEF PtOf, FirstSlot
<1>6. \A s \in 1 .. 4, j \in 0 .. SECTION_PAGES - 1 : FirstSlot(s) + j \in Index
  BY TableSizes DEF FirstSlot, Index
<1>7. 0 \in Index /\ PhysicalIndex \in Index /\ PhysicalIndex # 0
  BY TableSizes DEF Index
<1> QED
  BY <1>1, <1>2, <1>3, <1>4, <1>5, <1>6, <1>7

(* Each section is reached through four of them.                           *)
LEMMA PathShape ==
    ASSUME NEW s \in 1 .. 4
    PROVE  /\ OnPath(s, 3) = 1 /\ OnPath(s, 0) = PtOf(s)
           /\ \A level \in 0 .. 2 :
                 OnPath(s, level) \in 2 .. PtOf(s) /\ Parent(OnPath(s, level)) = OnPath(s, level + 1)
BY DEF OnPath, PtOf, Parent

(* The table that is missing for a section is the next one.                *)
LEMMA NextOnPath ==
    ASSUME NEW s \in 1 .. 4,
           NEW k \in (IF s = 1 THEN 1 ELSE PtOf(s - 1)) .. PtOf(s) - 1
    PROVE  \E level \in 1 .. 3 :
               /\ OnPath(s, level - 1) = k + 1
               /\ \A l \in level .. 3 : OnPath(s, l) <= k
<1>1. CASE s = 1
  <2>1. k \in {1, 2, 3}
    BY <1>1 DEF PtOf
  <2> QED
    BY <1>1, <2>1 DEF OnPath, PtOf, Parent
<1>2. CASE s = 2
  BY <1>2 DEF PtOf
<1>3. CASE s = 3
  <2>1. k = 4
    BY <1>3 DEF PtOf
  <2> QED
    BY <1>3, <2>1 DEF OnPath, PtOf, Parent
<1>4. CASE s = 4
  <2>1. k \in {5, 6, 7}
    BY <1>4 DEF PtOf
  <2> QED
    BY <1>4, <2>1 DEF OnPath, PtOf, Parent
<1> QED
  BY <1>1, <1>2, <1>3, <1>4

(* The recursion of paging_map_page over the levels, unrolled.             *)
LEMMA TableAtLevels ==
    /\ TableAt[3] = local.pml4
    /\ TableAt[2] = ReadEntry(TableAt[3], IndexAt(MappedAddress, 3)).to
    /\ TableAt[1] = ReadEntry(TableAt[2], IndexAt(MappedAddress, 2)).to
    /\ TableAt[0] = ReadEntry(TableAt[1], IndexAt(MappedAddress, 1)).to
<1> DEFINE R(page, level) == ReadEntry(page, IndexAt(MappedAddress, level)).to
           Def(t) == t = [level \in 0 .. 3 |-> IF level = 3 THEN local.pml4 ELSE R(t[level + 1], level + 1)]
<1>1. TableAt = CHOOSE t : Def(t)
  BY DEF TableAt
<1>2. PICK t3 : t3 = local.pml4
  OBVIOUS
<1>3. PICK t2 : t2 = R(t3, 3)
  OBVIOUS
<1>4. PICK t1 : t1 = R(t2, 2)
  OBVIOUS
<1>5. PICK t0 : t0 = R(t1, 1)
  OBVIOUS
<1> HIDE DEF R
<1>6. \E t : Def(t)
  <2> DEFINE t == [level \in 0 .. 3 |-> IF level = 3 THEN t3 ELSE IF level = 2 THEN t2
                                         ELSE IF level = 1 THEN t1 ELSE t0]
  <2>1. t[3] = t3 /\ t[2] = t2 /\ t[1] = t1 /\ t[0] = t0
    OBVIOUS
  <2>2. DOMAIN t = 0 .. 3 /\ 0 .. 3 = {0, 1, 2, 3}
    OBVIOUS
  <2> DEFINE u == [level \in 0 .. 3 |-> IF level = 3 THEN local.pml4 ELSE R(t[level + 1], level + 1)]
  <2>3. u[3] = t3 /\ u[2] = t2 /\ u[1] = t1 /\ u[0] = t0
    BY <1>2, <1>3, <1>4, <1>5, <2>1
  <2>4. DOMAIN u = 0 .. 3
    OBVIOUS
  <2>5. t = u
    BY <2>1, <2>2, <2>3
  <2> QED
    BY <2>5
<1>7. Def(TableAt)
  BY <1>1, <1>6
<1>8. TableAt = [level \in 0 .. 3 |-> IF level = 3 THEN local.pml4 ELSE R(TableAt[level + 1], level + 1)]
  BY <1>7
<1> QED
  BY <1>8 DEF R

(* Where paging_map_page looks for page local.page of the section.         *)
LEMMA MappedIndices ==
    ASSUME local.section \in 1 .. 4, local.page \in 0 .. SECTION_PAGES - 1
    PROVE  /\ \A level \in 0 .. 2 : IndexAt(MappedAddress, level + 1) = Slot(OnPath(local.section, level))
           /\ IndexAt(MappedAddress, 0) = FirstSlot(local.section) + local.page
<1>1. PICK s \in 1 .. 4, j \in 0 .. SECTION_PAGES - 1 : s = local.section /\ j = local.page
  OBVIOUS
<1>2. PICK a3, a2, a1, a0 \in Index :
          /\ MappedAddress = Address(a3, a2, a1, a0)
          /\ a3 = Slot(OnPath(s, 2)) /\ a2 = Slot(OnPath(s, 1)) /\ a1 = Slot(OnPath(s, 0))
          /\ a0 = FirstSlot(s) + j
  BY <1>1, SectionAddress DEF MappedAddress
<1>3. /\ IndexAt(MappedAddress, 3) = a3 /\ IndexAt(MappedAddress, 2) = a2
      /\ IndexAt(MappedAddress, 1) = a1 /\ IndexAt(MappedAddress, 0) = a0
  BY <1>2, AddressIndices
<1>4. \A level \in 0 .. 2 : level = 0 \/ level = 1 \/ level = 2
  OBVIOUS
<1> QED
  BY <1>1, <1>2, <1>3, <1>4

(* The entry that links a table that is there.                             *)
LEMMA ReadLink ==
    ASSUME NEW n, NEW k \in 1 .. 8, NEW low, Tree(n, k, low), NEW d \in 2 .. k
    PROVE  ReadEntry(n[Parent(d)], Slot(d)) = Table(n[d])
<1>1. Parent(d) \in 1 .. k
  BY TreeShape
<1> QED
  BY <1>1 DEF Tree, Links, ReadEntry

(* The entry for a table that is not there yet.                            *)
LEMMA ReadMissing ==
    ASSUME NEW n, NEW k \in 1 .. 8, Tree(n, k, {}), NEW d \in 2 .. 8, d > k, Parent(d) <= k
    PROVE  ReadEntry(n[Parent(d)], Slot(d)) = Absent
<1>1. Parent(d) \in 1 .. k /\ Parent(d) \notin {4, 5, 8} /\ Slot(d) \in Index
  BY TreeShape
<1>2. ~Linked(k, Parent(d), Slot(d))
  BY TreeShape DEF Linked
<1>3. ~Filled(local, Parent(d), Slot(d))
  BY <1>1, TreeShape DEF Filled
<1> QED
  BY <1>1, <1>2, <1>3 DEF Tree, NothingElse, ReadEntry

(* The walk goes as far as there are tables.                               *)
LEMMA WalkTree ==
    ASSUME NEW n, NEW k \in 1 .. 8, Tree(n, k, {}),
           local.section \in 1 .. 4, local.page \in 0 .. SECTION_PAGES - 1
    PROVE  /\ TableAt[3] = n[1]
           /\ \A level \in 0 .. 2 : OnPath(local.section, level) <= k =>
                 /\ TableAt[level] = n[OnPath(local.section, level)]
                 /\ EntryAt(level + 1) = Table(n[OnPath(local.section, level)])
<1>1. PICK s \in 1 .. 4 : s = local.section
  OBVIOUS
<1>2. TableAt[3] = n[1]
  BY TableAtLevels DEF Tree
<1>3. \A d : Table(d).to = d
  BY DEF Table, Absent
<1>4. ASSUME NEW level \in 0 .. 2, OnPath(s, level) <= k,
             TableAt[level + 1] = n[OnPath(s, level + 1)]
      PROVE  /\ TableAt[level] = n[OnPath(s, level)]
             /\ EntryAt(level + 1) = Table(n[OnPath(s, level)])
  <2>1. PICK d \in 2 .. k : d = OnPath(s, level)
    BY <1>4, PathShape, TreeShape
  <2>2. Parent(d) = OnPath(s, level + 1) /\ IndexAt(MappedAddress, level + 1) = Slot(d)
    BY <1>1, <2>1, PathShape, MappedIndices
  <2>3. EntryAt(level + 1) = Table(n[d])
    BY <1>4, <2>2, ReadLink DEF EntryAt
  <2>4. TableAt[level] = EntryAt(level + 1).to
    <3>1. level = 0 \/ level = 1 \/ level = 2
      OBVIOUS
    <3> QED
      BY <3>1, TableAtLevels DEF EntryAt
  <2> QED
    BY <1>3, <2>1, <2>3, <2>4
<1>5. \A level \in 0 .. 1 : OnPath(s, level) <= k => OnPath(s, level + 1) <= k
  BY PathShape, TreeShape
<1>6. OnPath(s, 3) = 1
  BY PathShape
<1>7. OnPath(s, 2) <= k => TableAt[2] = n[OnPath(s, 2)] /\ EntryAt(3) = Table(n[OnPath(s, 2)])
  BY <1>2, <1>4, <1>6
<1>8. OnPath(s, 1) <= k => TableAt[1] = n[OnPath(s, 1)] /\ EntryAt(2) = Table(n[OnPath(s, 1)])
  BY <1>4, <1>5, <1>7
<1>9. OnPath(s, 0) <= k => TableAt[0] = n[OnPath(s, 0)] /\ EntryAt(1) = Table(n[OnPath(s, 0)])
  BY <1>4, <1>5, <1>8
<1>10. \A level \in 0 .. 2 : level = 0 \/ level = 1 \/ level = 2
  OBVIOUS
<1> QED
  BY <1>1, <1>2, <1>7, <1>8, <1>9, <1>10

(* A table is missing while the section's own is not allocated, and it is  *)
(* the next one that is.                                                   *)
LEMMA MissingTable ==
    ASSUME NEW n, NEW k \in 1 .. 8, Tree(n, k, {}), InOrder(k)
    PROVE  /\ k = PtOf(local.section) => MissingLevels = {}
           /\ k < PtOf(local.section) =>
                 /\ MissingLevels # {}
                 /\ TableAt[Max(MissingLevels)] = n[Parent(k + 1)]
                 /\ IndexAt(MappedAddress, Max(MissingLevels)) = Slot(k + 1)
                 /\ k + 1 \in 2 .. 8
<1>1. PICK s \in 1 .. 4 : s = local.section /\ local.page \in 0 .. SECTION_PAGES - 1
  BY DEF InOrder
<1>2. PtOf(s) \in 1 .. 8
  BY TreeShape
<1>3. \A d : Table(d).present = TRUE
  BY DEF Table, Absent
<1>4. ASSUME k = PtOf(s) PROVE MissingLevels = {}
  <2>1. \A level \in 0 .. 2 : OnPath(s, level) <= k
    BY <1>4, PathShape
  <2>2. \A level \in 1 .. 3 : EntryAt(level).present = TRUE
    <3> SUFFICES ASSUME NEW level \in 1 .. 3 PROVE EntryAt(level).present = TRUE
      OBVIOUS
    <3>1. level - 1 \in 0 .. 2 /\ (level - 1) + 1 = level
      OBVIOUS
    <3> QED
      BY <1>1, <1>3, <2>1, <3>1, WalkTree
  <2> QED
    BY <2>2 DEF MissingLevels
<1>5. ASSUME k < PtOf(s)
      PROVE  /\ MissingLevels # {}
             /\ TableAt[Max(MissingLevels)] = n[Parent(k + 1)]
             /\ IndexAt(MappedAddress, Max(MissingLevels)) = Slot(k + 1)
             /\ k + 1 \in 2 .. 8
  <2>1. k \in (IF s = 1 THEN 1 ELSE PtOf(s - 1)) .. PtOf(s) - 1
    BY <1>1, <1>2, <1>5, TreeShape DEF InOrder
  <2>2. PICK m \in 1 .. 3 : OnPath(s, m - 1) = k + 1 /\ \A l \in m .. 3 : OnPath(s, l) <= k
    BY <2>1, NextOnPath
  <2>3. PICK l \in 0 .. 2 : l + 1 = m /\ OnPath(s, l) = k + 1
    BY <2>2
  <2>4. Parent(k + 1) = OnPath(s, m) /\ k + 1 \in 2 .. 8
    BY <1>2, <2>3, PathShape
  <2>5. TableAt[m] = n[Parent(k + 1)]
    <3>1. CASE m = 3
      BY <1>1, <2>4, <3>1, PathShape, WalkTree
    <3>2. CASE m # 3
      BY <1>1, <2>2, <2>4, <3>2, WalkTree
    <3> QED
      BY <3>1, <3>2
  <2>6. IndexAt(MappedAddress, m) = Slot(k + 1)
    BY <1>1, <2>3, MappedIndices
  <2>7. EntryAt(m) = Absent
    BY <2>2, <2>4, <2>5, <2>6, ReadMissing DEF EntryAt
  <2>8. m \in MissingLevels
    BY <2>7 DEF MissingLevels, Absent
  <2>9. \A level \in MissingLevels : m >= level
    <3>1. ASSUME NEW level \in 1 .. 3, level > m PROVE EntryAt(level).present = TRUE
      <4>1. PICK h \in 0 .. 2 : h + 1 = level /\ h \in m .. 3
        BY <3>1
      <4>2. EntryAt(level) = Table(n[OnPath(s, h)])
        BY <1>1, <2>2, <4>1, WalkTree
      <4> QED
        BY <1>3, <4>2
    <3>2. \A level \in MissingLevels : level \in 1 .. 3 /\ ~(level > m)
      BY <3>1 DEF MissingLevels
    <3> QED
      BY <3>2
  <2>10. \A x \in MissingLevels : (\A y \in MissingLevels : x >= y) => x = m
    <3>1. MissingLevels \subseteq 1 .. 3
      BY DEF MissingLevels
    <3> QED
      BY <2>8, <2>9, <3>1
  <2>11. Max(MissingLevels) = m
    BY <2>8, <2>9, <2>10 DEF Max
  <2> QED
    BY <2>4, <2>5, <2>6, <2>8, <2>11
<1> QED
  BY <1>1, <1>4, <1>5

(* paging_map_page never meets a page that is mapped.                      *)
LEMMA NoConflict ==
    ASSUME NEW n, NEW k \in 1 .. 8, Tree(n, k, {}), InOrder(k), MissingLevels = {}
    PROVE  /\ k = PtOf(local.section) /\ TableAt[0] = n[k]
           /\ IndexAt(MappedAddress, 0) = FirstSlot(local.section) + local.page
           /\ ~Conflict
<1>1. PICK s \in 1 .. 4, j \in 0 .. SECTION_PAGES - 1 : s = local.section /\ j = local.page
  BY DEF InOrder
<1>2. k = PtOf(s)
  <2>1. k \in Nat /\ k <= PtOf(s) /\ PtOf(s) \in Nat
    BY <1>1, TreeShape DEF InOrder
  <2> QED
    BY <1>1, <2>1, MissingTable
<1>3. \A level \in 0 .. 2 : OnPath(s, level) <= k
  BY <1>2, PathShape
<1>4. /\ TableAt[0] = n[OnPath(s, 0)]
      /\ EntryAt(1) = Table(n[OnPath(s, 0)]) /\ EntryAt(2) = Table(n[OnPath(s, 1)])
  BY <1>1, <1>3, WalkTree
<1>5. TableAt[0] = n[k]
  BY <1>2, <1>4, PathShape
<1>6. IndexAt(MappedAddress, 0) = FirstSlot(s) + j /\ FirstSlot(s) + j \in Index
  BY <1>1, MappedIndices, TreeShape
<1>7. ~Linked(k, k, FirstSlot(s) + j)
  BY <1>2, TreeShape DEF Linked
<1>8. ~Filled(local, k, FirstSlot(s) + j)
  BY <1>1, <1>2, TreeShape DEF Filled, Mapped
<1>9. EntryAt(0) = Absent
  BY <1>5, <1>6, <1>7, <1>8 DEF EntryAt, ReadEntry, Tree, NothingElse
<1>10. ~Conflict
  <2>1. EntryAt(2).large = FALSE /\ EntryAt(1).large = FALSE /\ EntryAt(0).present = FALSE
    <3>1. \A d : Table(d).large = FALSE
      BY DEF Table, Absent
    <3>2. Absent.present = FALSE
      BY DEF Absent
    <3> QED
      BY <1>4, <1>9, <3>1, <3>2
  <2> QED
    BY <2>1 DEF Conflict
<1> QED
  BY <1>1, <1>2, <1>5, <1>6, <1>10

-----------------------------------------------------------------------------
(* A table is allocated and linked.                                        *)
LEMMA GrowTree ==
    ASSUME NEW n \in Nodes, NEW k \in 1 .. 7, Tree(n, k, {}), NEW b \in Page, b \notin DOMAIN tables,
           \A s \in 1 .. 4, j \in 0 .. SECTION_PAGES - 1 : Mapped(local, s, j) => PtOf(s) <= k,
           tables' = Store([tables EXCEPT ![n[Parent(k + 1)]][Slot(k + 1)] = Table(b)], b, Zeroed),
           local' = local, chain'.sections = chain.sections
    PROVE  [n EXCEPT ![k + 1] = b] \in Nodes /\ Tree([n EXCEPT ![k + 1] = b], k + 1, {})'
<1> DEFINE m == [n EXCEPT ![k + 1] = b]
<1>1. m \in Nodes /\ m[k + 1] = b /\ \A c \in 1 .. k : m[c] = n[c]
  BY DEF Nodes
<1>2. PICK q \in 1 .. k, x \in Index :
          q = Parent(k + 1) /\ x = Slot(k + 1) /\ q \notin {4, 5, 8}
  BY TreeShape
<1>3. \A c \in 1 .. k : n[c] \in DOMAIN tables /\ DOMAIN tables[n[c]] = Index /\ n[c] # b
  BY DEF Tree
<1>4. \A c, d \in 1 .. k : n[c] = n[d] => c = d
  BY DEF Tree
<1> HIDE DEF m
<1>5. DOMAIN tables' = DOMAIN tables \cup {b} /\ tables'[b] = Zeroed
  BY DEF Store
<1>6. /\ \A c \in 1 .. k : c # q => tables'[m[c]] = tables[n[c]]
      /\ tables'[m[q]] = [tables[n[q]] EXCEPT ![x] = Table(b)]
  BY <1>1, <1>2, <1>3, <1>4 DEF Store
<1>7. /\ tables'[m[q]][x] = Table(b)
      /\ \A c \in 1 .. k, i \in Index : c # q \/ i # x => tables'[m[c]][i] = tables[n[c]][i]
      /\ \A c \in 1 .. k : DOMAIN tables'[m[c]] = Index
  <2>1. PICK f, g : f = tables[n[q]] /\ DOMAIN f = Index /\ g = [f EXCEPT ![x] = Table(b)] /\ tables'[m[q]] = g
    BY <1>3, <1>6
  <2>2. g[x] = Table(b) /\ DOMAIN g = Index /\ \A i \in Index : i # x => g[i] = f[i]
    BY <2>1
  <2>3. \A c \in 1 .. k : tables'[m[c]] = IF c = q THEN g ELSE tables[n[c]]
    BY <1>6, <2>1
  <2> QED
    BY <1>3, <2>1, <2>2, <2>3
<1>8. DOMAIN Zeroed = Index /\ \A i \in Index : Zeroed[i] = Absent
  BY DEF Zeroed
<1>9. \A c \in 1 .. k + 1 : m[c] \in DOMAIN tables' /\ DOMAIN tables'[m[c]] = Index
  <2>1. \A c \in 1 .. k : m[c] \in DOMAIN tables' /\ DOMAIN tables'[m[c]] = Index
    BY <1>1, <1>3, <1>5, <1>7
  <2>2. m[k + 1] \in DOMAIN tables' /\ DOMAIN tables'[m[k + 1]] = Index
    BY <1>1, <1>5, <1>8
  <2>3. \A c \in 1 .. k + 1 : c \in 1 .. k \/ c = k + 1
    OBVIOUS
  <2> QED
    BY <2>1, <2>2, <2>3
<1>10. \A c, d \in 1 .. k + 1 : m[c] = m[d] => c = d
  BY <1>1, <1>3, <1>4
<1>11. \A d \in 2 .. k + 1 : tables'[m[Parent(d)]][Slot(d)] = Table(m[d])
  <2>1. ASSUME NEW d \in 2 .. k PROVE tables'[m[Parent(d)]][Slot(d)] = Table(m[d])
    <3>1. Parent(d) \in 1 .. k /\ Slot(d) \in Index /\ (Parent(d) # q \/ Slot(d) # x)
      BY <1>2, TreeShape
    <3>2. tables[n[Parent(d)]][Slot(d)] = Table(n[d])
      BY DEF Tree, Links
    <3>3. PICK c \in 1 .. k, i \in Index : c = Parent(d) /\ i = Slot(d) /\ (c # q \/ i # x)
      BY <3>1
    <3>4. tables'[m[c]][i] = tables[n[c]][i]
      BY <1>7, <3>3
    <3>5. m[d] = n[d]
      BY <1>1
    <3> QED
      BY <3>2, <3>3, <3>4, <3>5
  <2>2. \A d \in 2 .. k + 1 : d \in 2 .. k \/ d = k + 1
    OBVIOUS
  <2> QED
    BY <1>1, <1>2, <1>7, <2>1, <2>2
<1>12. ASSUME NEW s \in 1 .. 4, NEW j \in 0 .. SECTION_PAGES - 1, Mapped(local, s, j)
       PROVE  tables'[m[PtOf(s)]][FirstSlot(s) + j] = Leaf(chain.sections[s] + j, Sections[s].perm)
  <2>1. PtOf(s) \in 1 .. k /\ PtOf(s) # q /\ FirstSlot(s) + j \in Index
    BY <1>2, <1>12, TreeShape
  <2>2. tables[n[PtOf(s)]][FirstSlot(s) + j] = Leaf(chain.sections[s] + j, Sections[s].perm)
    BY <1>12 DEF Tree, Leaves
  <2> QED
    BY <1>7, <2>1, <2>2
<1>13. ASSUME NEW c \in 1 .. k + 1, NEW i \in Index, ~Linked(k + 1, c, i), ~Filled(local, c, i)
       PROVE  tables'[m[c]][i] = Absent
  <2>1. CASE c = k + 1
    BY <1>1, <1>5, <1>8, <2>1
  <2>2. CASE c # k + 1
    <3>1. c \in 1 .. k /\ ~Linked(k, c, i) /\ (c # q \/ i # x)
      BY <1>2, <1>13, <2>2 DEF Linked
    <3>2. tables[n[c]][i] = Absent
      BY <1>13, <3>1 DEF Tree, NothingElse
    <3> QED
      BY <1>7, <3>1, <3>2
  <2> QED
    BY <2>1, <2>2
<1>14. m[1] = local'.pml4
  BY <1>1 DEF Tree
<1>15. Links(m, k + 1)'
  BY <1>11 DEF Links
<1>16. Leaves(m)'
  BY <1>12 DEF Leaves, Mapped
<1>17. NothingElse(m, k + 1, {})'
  BY <1>13 DEF NothingElse, Filled, Mapped
<1>18. Tree(m, k + 1, {})'
  BY <1>9, <1>10, <1>14, <1>15, <1>16, <1>17 DEF Tree
<1> QED
  BY <1>1, <1>18 DEF m

(* A page is mapped.                                                       *)
LEMMA FillTree ==
    ASSUME NEW n \in Nodes, NEW k \in 1 .. 8, Tree(n, k, {}),
           NEW s \in 1 .. 4, NEW j \in 0 .. SECTION_PAGES - 1, k = PtOf(s),
           \A t \in 1 .. 4, i \in 0 .. SECTION_PAGES - 1 : Mapped(local, t, i) => PtOf(t) <= k,
           tables' = [tables EXCEPT ![n[k]][FirstSlot(s) + j] =
                         Leaf(chain.sections[s] + j, Sections[s].perm)],
           chain'.sections = chain.sections, local'.pml4 = local.pml4,
           \A t \in 1 .. 4, i \in 0 .. SECTION_PAGES - 1 :
               Mapped(local', t, i) <=> Mapped(local, t, i) \/ (t = s /\ i = j)
    PROVE  Tree(n, k, {})'
<1>1. PICK x \in Index : x = FirstSlot(s) + j
  BY TreeShape
<1>2. PICK e : e = Leaf(chain.sections[s] + j, Sections[s].perm)
  OBVIOUS
<1>3. /\ \A c \in 1 .. k : n[c] \in DOMAIN tables /\ DOMAIN tables[n[c]] = Index
      /\ \A c, d \in 1 .. k : n[c] = n[d] => c = d
  BY DEF Tree
<1>4. /\ DOMAIN tables' = DOMAIN tables
      /\ \A c \in 1 .. k : c # k => tables'[n[c]] = tables[n[c]]
      /\ tables'[n[k]] = [tables[n[k]] EXCEPT ![x] = e]
  BY <1>1, <1>2, <1>3
<1>5. /\ tables'[n[k]][x] = e
      /\ \A c \in 1 .. k, i \in Index : c # k \/ i # x => tables'[n[c]][i] = tables[n[c]][i]
      /\ \A c \in 1 .. k : n[c] \in DOMAIN tables' /\ DOMAIN tables'[n[c]] = Index
  BY <1>3, <1>4
<1>6. Links(n, k)'
  <2> SUFFICES ASSUME NEW d \in 2 .. k PROVE tables'[n[Parent(d)]][Slot(d)] = Table(n[d])
    BY DEF Links
  <2>1. Parent(d) \in 1 .. k /\ Slot(d) \in Index /\ Parent(d) # k
    BY TreeShape
  <2>2. tables[n[Parent(d)]][Slot(d)] = Table(n[d])
    BY DEF Tree, Links
  <2> QED
    BY <1>5, <2>1, <2>2
<1>7. Leaves(n)'
  <2>1. ASSUME NEW t \in 1 .. 4, NEW i \in 0 .. SECTION_PAGES - 1, Mapped(local', t, i)
        PROVE  tables'[n[PtOf(t)]][FirstSlot(t) + i] = Leaf(chain.sections[t] + i, Sections[t].perm)
    <3>1. CASE t = s /\ i = j
      BY <1>1, <1>2, <1>5, <3>1
    <3>2. CASE ~(t = s /\ i = j)
      <4>1. Mapped(local, t, i)
        BY <2>1, <3>2
      <4>2. PtOf(t) \in 1 .. k /\ FirstSlot(t) + i \in Index /\ (PtOf(t) # k \/ FirstSlot(t) + i # x)
        BY <1>1, <3>2, <4>1, TreeShape
      <4>3. tables[n[PtOf(t)]][FirstSlot(t) + i] = Leaf(chain.sections[t] + i, Sections[t].perm)
        BY <4>1 DEF Tree, Leaves
      <4> QED
        BY <1>5, <4>2, <4>3
    <3> QED
      BY <3>1, <3>2
  <2> QED
    BY <2>1 DEF Leaves
<1>8. NothingElse(n, k, {})'
  <2>1. ASSUME NEW c \in 1 .. k, NEW i \in Index, ~Linked(k, c, i), ~Filled(local', c, i)
        PROVE  tables'[n[c]][i] = Absent
    <3>1. ~Filled(local, c, i) /\ (c # k \/ i # x)
      BY <1>1, <2>1 DEF Filled
    <3>2. tables[n[c]][i] = Absent
      BY <2>1, <3>1 DEF Tree, NothingElse
    <3> QED
      BY <1>5, <3>1, <3>2
  <2> QED
    BY <2>1 DEF NothingElse
<1> QED
  BY <1>3, <1>5, <1>6, <1>7, <1>8 DEF Tree

(* The PML4 is linked to the PDPT of the physical memory.                  *)
LEMMA LinkPhysical ==
    ASSUME NEW n \in Nodes, Tree(n, 8, {}),
           local.pdpt \in DOMAIN tables, \A c \in 1 .. 8 : n[c] # local.pdpt,
           NEW b \in Page, \A p \in Span(b, Entries) : p \notin DOMAIN tables,
           NEW pml4, NEW pdpt, NEW pds,
           pml4 = [tables[local.pml4] EXCEPT ![0] = Table(local.pdpt), ![PhysicalIndex] = Table(local.pdpt)],
           pdpt = [i \in Index |-> Table(b + i)],
           pds = [p \in Span(b, Entries) |-> PhysicalPd(p - b)],
           tables' = Store(Store(StoreAll(tables, pds), local.pdpt, pdpt), local.pml4, pml4),
           local' = local, chain'.sections = chain.sections
    PROVE  Tree(n, 8, {0, PhysicalIndex})' /\ Physical(n, b)'
<1>1. /\ \A c \in 1 .. 8 : n[c] \in DOMAIN tables /\ DOMAIN tables[n[c]] = Index
      /\ \A c, d \in 1 .. 8 : n[c] = n[d] => c = d
      /\ n[1] = local.pml4
  BY DEF Tree
<1>2. b \in Nat /\ Entries \in Nat /\ 1 \in 1 .. 8
  BY PageFacts
<1>3. DOMAIN tables' = DOMAIN tables \cup Span(b, Entries)
  BY <1>1 DEF Store, StoreAll
<1>4. tables'[n[1]] = pml4
  BY <1>1 DEF Store
<1>5. \A c \in 2 .. 8 : tables'[n[c]] = tables[n[c]]
  <2> SUFFICES ASSUME NEW c \in 2 .. 8 PROVE tables'[n[c]] = tables[n[c]]
    OBVIOUS
  <2>1. n[c] # local.pml4 /\ n[c] # local.pdpt /\ n[c] \in DOMAIN tables /\ n[c] \notin Span(b, Entries)
    BY <1>1
  <2> QED
    BY <2>1 DEF Store, StoreAll
<1>6. tables'[local.pdpt] = pdpt
  <2>1. local.pdpt # local.pml4
    BY <1>1
  <2> QED
    BY <2>1 DEF Store, StoreAll
<1>7. \A i \in Index : /\ b + i \in Span(b, Entries) /\ b + i # local.pml4 /\ b + i # local.pdpt
                       /\ tables'[b + i] = PhysicalPd(i)
  <2> SUFFICES ASSUME NEW i \in Index
               PROVE  /\ b + i \in Span(b, Entries) /\ b + i # local.pml4 /\ b + i # local.pdpt
                      /\ tables'[b + i] = PhysicalPd(i)
    OBVIOUS
  <2>1. b + i \in Span(b, Entries) /\ (b + i) - b = i
    BY <1>2 DEF Index, Span
  <2>2. b + i # local.pml4 /\ b + i # local.pdpt
    BY <1>1, <2>1
  <2>3. tables'[b + i] = pds[b + i]
    BY <2>1, <2>2 DEF Store, StoreAll
  <2> QED
    BY <2>1, <2>2, <2>3
<1>8. PICK f : f = tables[n[1]] /\ DOMAIN f = Index
  BY <1>1, <1>2
<1>9. /\ DOMAIN pml4 = Index
      /\ pml4[0] = Table(local.pdpt) /\ pml4[PhysicalIndex] = Table(local.pdpt)
      /\ \A i \in Index : i # 0 /\ i # PhysicalIndex => pml4[i] = f[i]
  BY <1>1, <1>8, TreeShape
<1>10. Links(n, 8)'
  <2> SUFFICES ASSUME NEW d \in 2 .. 8 PROVE tables'[n[Parent(d)]][Slot(d)] = Table(n[d])
    BY DEF Links
  <2>1. Parent(d) \in 1 .. 8 /\ Slot(d) \in Index /\ tables[n[Parent(d)]][Slot(d)] = Table(n[d])
    BY TreeShape DEF Tree, Links
  <2>2. CASE Parent(d) = 1
    <3>1. Slot(d) # 0 /\ Slot(d) # PhysicalIndex
      BY <2>1, <2>2, TreeShape, TableSizes
    <3> QED
      BY <1>4, <1>8, <1>9, <2>1, <2>2, <3>1
  <2>3. CASE Parent(d) # 1
    <3>1. Parent(d) \in 2 .. 8
      BY <2>1, <2>3
    <3> QED
      BY <1>5, <2>1, <3>1
  <2> QED
    BY <2>2, <2>3
<1>11. Leaves(n)'
  <2>1. \A s \in 1 .. 4 : PtOf(s) \in 2 .. 8
    BY TreeShape
  <2> QED
    BY <1>5, <2>1 DEF Tree, Leaves, Mapped
<1>12. NothingElse(n, 8, {0, PhysicalIndex})'
  <2> SUFFICES ASSUME NEW c \in 1 .. 8, NEW i \in Index, ~Linked(8, c, i), ~Filled(local, c, i),
                      ~(c = 1 /\ i \in {0, PhysicalIndex})
               PROVE  tables'[n[c]][i] = Absent
    BY DEF NothingElse, Filled, Mapped
  <2>1. tables[n[c]][i] = Absent
    BY DEF Tree, NothingElse
  <2>2. CASE c = 1
    BY <1>4, <1>8, <1>9, <2>1, <2>2
  <2>3. CASE c # 1
    <3>1. c \in 2 .. 8
      BY <2>3
    <3> QED
      BY <1>5, <2>1, <3>1
  <2> QED
    BY <2>2, <2>3
<1>13. \A c \in 1 .. 8 : n[c] \in DOMAIN tables' /\ DOMAIN tables'[n[c]] = Index
  <2>1. \A c \in 1 .. 8 : c = 1 \/ c \in 2 .. 8
    OBVIOUS
  <2> QED
    BY <1>1, <1>3, <1>4, <1>5, <1>9, <2>1
<1>14. Tree(n, 8, {0, PhysicalIndex})'
  BY <1>1, <1>4, <1>9, <1>10, <1>11, <1>12, <1>13 DEF Tree
<1>15. DOMAIN pdpt = Index /\ \A i \in Index : pdpt[i] = Table(b + i)
  OBVIOUS
<1>16. \A c \in 1 .. 8, i \in Index : n[c] # b + i
  BY <1>1, <1>7
<1>17. Physical(n, b)'
  BY <1>3, <1>6, <1>7, <1>15, <1>16 DEF Physical
<1> QED
  BY <1>14, <1>17

(* The low mapping is taken out.                                           *)
LEMMA UnlinkLow ==
    ASSUME NEW n \in Nodes, NEW pd \in Page, Tree(n, 8, {0, PhysicalIndex}), Physical(n, pd),
           tables' = [tables EXCEPT ![local.pml4][0] = Absent],
           local' = local, chain'.sections = chain.sections
    PROVE  Tree(n, 8, {PhysicalIndex})' /\ Physical(n, pd)'
<1>1. /\ \A c \in 1 .. 8 : n[c] \in DOMAIN tables /\ DOMAIN tables[n[c]] = Index
      /\ \A c, d \in 1 .. 8 : n[c] = n[d] => c = d
      /\ n[1] = local.pml4 /\ 1 \in 1 .. 8
      /\ tables[n[1]][PhysicalIndex] = Table(local.pdpt)
  BY DEF Tree
<1>2. PICK f, g : f = tables[n[1]] /\ DOMAIN f = Index /\ g = [f EXCEPT ![0] = Absent]
  BY <1>1
<1>3. g[0] = Absent /\ DOMAIN g = Index /\ \A i \in Index : i # 0 => g[i] = f[i]
  BY <1>2, TreeShape
<1>4. /\ DOMAIN tables' = DOMAIN tables /\ tables'[n[1]] = g
      /\ \A p \in DOMAIN tables : p # n[1] => tables'[p] = tables[p]
  BY <1>1, <1>2
<1>5. \A c \in 2 .. 8 : tables'[n[c]] = tables[n[c]]
  BY <1>1, <1>4
<1>6. Links(n, 8)'
  <2> SUFFICES ASSUME NEW d \in 2 .. 8 PROVE tables'[n[Parent(d)]][Slot(d)] = Table(n[d])
    BY DEF Links
  <2>1. Parent(d) \in 1 .. 8 /\ Slot(d) \in Index /\ tables[n[Parent(d)]][Slot(d)] = Table(n[d])
    BY TreeShape DEF Tree, Links
  <2>2. CASE Parent(d) = 1
    <3>1. Slot(d) # 0
      BY <2>1, <2>2, TreeShape, TableSizes
    <3> QED
      BY <1>2, <1>3, <1>4, <2>1, <2>2, <3>1
  <2>3. CASE Parent(d) # 1
    <3>1. Parent(d) \in 2 .. 8
      BY <2>1, <2>3
    <3> QED
      BY <1>5, <2>1, <3>1
  <2> QED
    BY <2>2, <2>3
<1>7. Leaves(n)'
  <2>1. \A s \in 1 .. 4 : PtOf(s) \in 2 .. 8
    BY TreeShape
  <2> QED
    BY <1>5, <2>1 DEF Tree, Leaves, Mapped
<1>8. NothingElse(n, 8, {PhysicalIndex})'
  <2> SUFFICES ASSUME NEW c \in 1 .. 8, NEW i \in Index, ~Linked(8, c, i), ~Filled(local, c, i),
                      ~(c = 1 /\ i \in {PhysicalIndex})
               PROVE  tables'[n[c]][i] = Absent
    BY DEF NothingElse, Filled, Mapped
  <2>1. CASE c = 1 /\ i = 0
    BY <1>3, <1>4, <2>1
  <2>2. CASE ~(c = 1 /\ i = 0)
    <3>1. tables[n[c]][i] = Absent
      BY <2>2 DEF Tree, NothingElse
    <3>2. CASE c = 1
      BY <1>2, <1>3, <1>4, <2>2, <3>1, <3>2
    <3>3. CASE c \in 2 .. 8
      BY <1>5, <3>1, <3>3
    <3> QED
      BY <3>2, <3>3
  <2> QED
    BY <2>1, <2>2
<1>9. \A c \in 1 .. 8 : n[c] \in DOMAIN tables' /\ DOMAIN tables'[n[c]] = Index
  <2>1. \A c \in 1 .. 8 : c = 1 \/ c \in 2 .. 8
    OBVIOUS
  <2> QED
    BY <1>1, <1>3, <1>4, <1>5, <2>1
<1>10. tables'[n[1]][PhysicalIndex] = Table(local.pdpt)
  BY <1>1, <1>2, <1>3, <1>4, TreeShape
<1>11. Tree(n, 8, {PhysicalIndex})'
  BY <1>1, <1>6, <1>7, <1>8, <1>9, <1>10 DEF Tree
<1>12. local.pdpt # n[1] /\ \A i \in Index : pd + i # n[1]
  BY <1>1 DEF Physical
<1>13. /\ local.pdpt \in DOMAIN tables /\ tables'[local.pdpt] = tables[local.pdpt]
       /\ \A i \in Index : pd + i \in DOMAIN tables /\ tables'[pd + i] = tables[pd + i]
  BY <1>4, <1>12 DEF Physical
<1>14. Physical(n, pd)'
  BY <1>4, <1>13 DEF Physical
<1> QED
  BY <1>11, <1>14

-----------------------------------------------------------------------------
(* The steps of efi_main again, for the tables.                            *)
Expected == {"none", "firmware", "level", "map"}
Early == {"start", "sections", "attachments", "pml4"}

(* A step that fails leaves nothing to show of the tables.                 *)
LEMMA TablesFail ==
    ASSUME TablesInv, NEW status, Fail(status), MaxRegions >= 10 => status \in Expected
    PROVE  TablesInv'
BY DEF Fail, TablesInv, Expected, Built

(* A step that leaves the tables and the sections alone keeps the tree.    *)
LEMMA TreeKept ==
    ASSUME UNCHANGED <<tables, local>>, chain'.sections = chain.sections
    PROVE  \A n, k, low : Tree(n, k, low)' <=> Tree(n, k, low)
<1>1. \A n, k : Links(n, k)' <=> Links(n, k)
  BY DEF Links
<1>2. \A n : Leaves(n)' <=> Leaves(n)
  BY DEF Leaves, Mapped
<1>3. \A n, k, low : NothingElse(n, k, low)' <=> NothingElse(n, k, low)
  BY DEF NothingElse, Filled, Mapped
<1> QED
  BY <1>1, <1>2, <1>3 DEF Tree

LEMMA PhysicalKept ==
    ASSUME UNCHANGED <<tables, local>>
    PROVE  \A n, pd : Physical(n, pd)' <=> Physical(n, pd)
BY DEF Physical

(* Steps after the tables are built.                                       *)
LEMMA TablesRest ==
    ASSUME TablesInv, UNCHANGED <<tables, local, holds, error>>, chain'.sections = chain.sections,
           pc \in Built \ {"hvmain"}, pc' \in Built \ {"hvmain"}
    PROVE  TablesInv'
<1>1. PICK n \in Nodes, pd \in Page : Tree(n, 8, {0, PhysicalIndex}) /\ Physical(n, pd)
  BY DEF TablesInv, LowLinks
<1>2. Tree(n, 8, {0, PhysicalIndex})' /\ Physical(n, pd)'
  BY <1>1, TreeKept, PhysicalKept
<1>3. LowLinks' = {0, PhysicalIndex}
  BY DEF LowLinks, Built
<1>4. Tree(n, 8, LowLinks)' /\ local'.section = 5 /\ Len(chain'.sections) = 4
  BY <1>2, <1>3 DEF TablesInv, Built, Tree, NothingElse
<1> QED
  BY <1>2, <1>4 DEF TablesInv, Built

(* Steps before them.                                                      *)
LEMMA TablesBefore ==
    ASSUME TablesInv, UNCHANGED <<tables, local, error>>, chain'.regions = chain.regions,
           pc \in Early, pc' \in Early,
           pc' \in {"attachments", "pml4"} => Len(chain'.sections) = 4
    PROVE  TablesInv'
BY DEF TablesInv, Built, Early

(* One lemma per step of the bootloader.                                   *)
LEMMA AllocateChainloadTables == ASSUME BootInv, TablesInv, AllocateChainload PROVE TablesInv'
<1>1. chain' \in {[NoChain EXCEPT !.page = p] : p \in Page}
  BY BlockFree DEF AllocateChainload
<1>2. chain'.regions = <<>> /\ chain.regions = <<>>
  BY <1>1 DEF NoChain, AllocateChainload, TablesInv
<1> QED
  BY <1>2, TablesBefore DEF AllocateChainload, Early

LEMMA LoadSectionTables == ASSUME BootInv, TablesInv, LoadSection PROVE TablesInv'
<1>1. PICK at : chain' = [chain EXCEPT !.sections = Append(@, at)]
  BY DEF LoadSection
<1>2. chain \in ChainRecord /\ chain.sections \in Seq(Page)
  BY ChainFields DEF BootInv
<1>3. chain'.regions = chain.regions /\ chain'.sections = Append(chain.sections, at)
  BY <1>1, <1>2 DEF ChainRecord
<1>4. Len(chain'.sections) = Len(chain.sections) + 1
  BY <1>2, <1>3
<1>5. pc' = "attachments" => Len(chain.sections) + 1 = 4
  BY DEF LoadSection, Sections
<1> QED
  BY <1>3, <1>4, <1>5, TablesBefore DEF LoadSection, Early

LEMMA LoadAttachmentTables ==
    ASSUME BootInv, TablesInv, LoadAttachment \/ AttachmentNotFound PROVE TablesInv'
<1>1. chain \in ChainRecord
  BY ChainFields DEF BootInv
<1>2. (\E a : chain' = [chain EXCEPT !.attachment = a]) \/ chain' = chain
  BY DEF LoadAttachment, AttachmentNotFound
<1>3. chain'.regions = chain.regions /\ chain'.sections = chain.sections
  BY <1>1, <1>2 DEF ChainRecord
<1>4. Len(chain.sections) = 4 /\ pc = "attachments" /\ pc' = "pml4" /\ UNCHANGED <<tables, local, error>>
  BY DEF LoadAttachment, AttachmentNotFound, TablesInv
<1> QED
  BY <1>3, <1>4, TablesBefore DEF Early

(* paging_allocate_page fails only when the table of regions is full; the  *)
(* block becomes table pages, and at most one region is added.             *)
LEMMA PagingAllocates ==
    ASSUME BootInv, TablesInv, Len(chain.regions) <= 9,
           NEW n \in Nat \ {0}, NEW b \in Blocks(n), NEW written, NEW locals, NEW next,
           PagingAllocatePage(b, n, written, locals, next)
    PROVE  \/ MaxRegions < 10 /\ Fail("EFI_BUFFER_TOO_SMALL")
           \/ /\ tables' = written /\ local' = locals /\ pc' = next /\ error' = error
              /\ chain'.sections = chain.sections
              /\ Len(chain'.regions) <= Len(chain.regions) + 1
              /\ b.at \in Page
              /\ \A p \in Span(b.at, n) : p \in Page /\ p \notin DOMAIN tables /\ holds'[p] = "table"
              /\ \A p \in DOMAIN tables : holds'[p] = "table"
              /\ DOMAIN tables \subseteq Page
<1>0. BootType /\ chain \in ChainRecord /\ chain.regions \in Seq(Region) /\ Owned /\ DOMAIN tables \subseteq Page
  BY ChainFields DEF BootInv, BootType
<1>1. Len(chain.regions) \in Nat /\ MaxRegions \in Nat
  BY <1>0, BootConstants
<1>2. MaxRegions >= 10 => Recordable(chain.regions, b.at, n)
  BY <1>1 DEF Recordable
<1>3. CASE ~Recordable(chain.regions, b.at, n)
  BY <1>1, <1>2, <1>3 DEF PagingAllocatePage
<1>4. CASE Recordable(chain.regions, b.at, n)
  <2>1. /\ AllocatePages(b, n, "LoaderData")
        /\ holds' = Marked(b.at, n, "table")
        /\ chain' = [chain EXCEPT !.regions = Recorded(@, b.at, n)]
        /\ tables' = written /\ local' = locals
        /\ pc' = next
        /\ UNCHANGED <<error, mmap>>
    BY <1>4 DEF PagingAllocatePage
  <2>2. n \in 0 .. n /\ "table" \in Role /\ "LoaderData" \in LoaderType
    BY DEF Role, LoaderType
  <2>3. /\ b.at \in Page
        /\ \A p \in Span(b.at, n) : p \in Page /\ holds[p] = "nothing" /\ holds'[p] = "table"
        /\ \A p \in Page : p \notin Span(b.at, n) => holds'[p] = holds[p]
    BY <1>0, <2>1, <2>2, Allocation
  <2>4. \A p \in DOMAIN tables : holds[p] = "table"
    BY DEF TablesInv
  <2>5. chain'.sections = chain.sections /\ chain'.regions = Recorded(chain.regions, b.at, n)
    BY <1>0, <2>1 DEF ChainRecord
  <2>6. Len(Recorded(chain.regions, b.at, n)) <= Len(chain.regions) + 1
    <3>1. CASE Adjacent(chain.regions, b.at, n) = {}
      BY <1>0, <3>1 DEF Recorded
    <3>2. CASE Adjacent(chain.regions, b.at, n) # {}
      <4>1. PICK i, e : Recorded(chain.regions, b.at, n) = [chain.regions EXCEPT ![i] = e]
        BY <3>2 DEF Recorded
      <4>2. PICK R : R = [chain.regions EXCEPT ![i] = e]
        OBVIOUS
      <4>3. Len(R) = Len(chain.regions)
        BY <1>0, <1>1, <4>2
      <4> QED
        BY <1>1, <4>1, <4>2, <4>3
    <3> QED
      BY <3>1, <3>2
  <2> QED
    BY <1>0, <2>1, <2>3, <2>4, <2>5, <2>6
<1> QED
  BY <1>3, <1>4

LEMMA AllocatePml4Tables == ASSUME BootInv, TablesInv, AllocatePml4 PROVE TablesInv'
<1>1. PICK b \in Blocks(1) :
          PagingAllocatePage(b, 1, Store(tables, b.at, Zeroed), [local EXCEPT !.pml4 = b.at], "map")
  BY DEF AllocatePml4
<1>2. /\ pc = "pml4" /\ tables = <<>> /\ local = NoLocal /\ chain.regions = <<>>
      /\ Len(chain.sections) = 4 /\ Len(chain.regions) = 0
  BY DEF AllocatePml4, TablesInv
<1>3. CASE MaxRegions < 10 /\ Fail("EFI_BUFFER_TOO_SMALL")
  BY <1>3, BootConstants, TablesFail
<1>4. CASE ~(MaxRegions < 10 /\ Fail("EFI_BUFFER_TOO_SMALL"))
  <2>1. /\ tables' = Store(tables, b.at, Zeroed) /\ local' = [local EXCEPT !.pml4 = b.at]
        /\ pc' = "map" /\ error' = error
        /\ chain'.sections = chain.sections /\ Len(chain'.regions) <= Len(chain.regions) + 1
        /\ b.at \in Page /\ \A p \in Span(b.at, 1) : holds'[p] = "table"
    BY <1>1, <1>2, <1>4, PagingAllocates
  <2>2. local'.pml4 = b.at /\ local'.section = 1 /\ local'.page = 0
    BY <1>2, <2>1 DEF NoLocal
  <2>3. DOMAIN tables' = {b.at} /\ tables'[b.at] = Zeroed
    BY <1>2, <2>1 DEF Store
  <2>4. \A p \in DOMAIN tables' : holds'[p] = "table"
    BY <2>1, <2>3, PageFacts DEF Span
  <2> DEFINE n == [c \in 1 .. 8 |-> b.at]
  <2>5. n \in Nodes /\ \A c \in 1 .. 1 : c = 1 /\ n[c] = b.at
    BY <2>1 DEF Nodes
  <2> HIDE DEF n
  <2>6. \A s, j : s \in 1 .. 4 /\ j \in 0 .. SECTION_PAGES - 1 => ~Mapped(local', s, j)
    BY <2>2, TableSizes DEF Mapped
  <2>7. Links(n, 1)' /\ Leaves(n)'
    BY <2>6 DEF Links, Leaves
  <2>8. NothingElse(n, 1, {})'
    BY <2>3, <2>5 DEF NothingElse, Zeroed
  <2>9. Tree(n, 1, {})'
    BY <2>2, <2>3, <2>5, <2>7, <2>8 DEF Tree, Zeroed
  <2>10. InOrder(1)'
    <3>1. PtOf(1) = 4 /\ SECTION_PAGES \in Nat \ {0}
      BY TableSizes DEF PtOf
    <3> QED
      BY <1>2, <2>1, <2>2, <3>1 DEF InOrder
  <2>11. error' \in Expected \/ ~(MaxRegions >= 10)
    BY <2>1 DEF TablesInv, Expected
  <2>12. \E m \in Nodes : \E k \in 1 .. 8 : (Tree(m, k, {}) /\ InOrder(k))'
    BY <2>5, <2>9, <2>10
  <2> QED
    BY <1>2, <2>1, <2>4, <2>11, <2>12 DEF TablesInv, Built, Expected
<1> QED
  BY <1>3, <1>4

(* The sections mapped so far have their tables.                           *)
LEMMA MappedHaveTables ==
    ASSUME NEW k \in 1 .. 8, InOrder(k)
    PROVE  \A s \in 1 .. 4, j \in 0 .. SECTION_PAGES - 1 : Mapped(local, s, j) => PtOf(s) <= k
<1>1. PICK l \in 1 .. 4 : l = local.section
  BY DEF InOrder
<1>2. \A s, t \in 1 .. 4 : s < t => PtOf(s) <= PtOf(t - 1)
  BY DEF PtOf
<1>3. ASSUME NEW s \in 1 .. 4, NEW j \in 0 .. SECTION_PAGES - 1, Mapped(local, s, j)
      PROVE  PtOf(s) <= k
  <2>1. CASE s < l
    <3>1. PtOf(l - 1) <= k /\ PtOf(s) <= PtOf(l - 1)
      BY <1>1, <1>2, <2>1 DEF InOrder
    <3> QED
      BY <3>1, <2>1, TreeShape
  <2>2. CASE ~(s < l)
    <3>1. s = l /\ j < local.page
      BY <1>1, <1>3, <2>2 DEF Mapped
    <3>2. local.page > 0
      BY <3>1 DEF InOrder
    <3> QED
      BY <1>1, <3>1, <3>2, TreeShape DEF InOrder
  <2> QED
    BY <2>1, <2>2
<1> QED
  BY <1>3

LEMMA AllocateTableTables == ASSUME BootInv, TablesInv, AllocateTable PROVE TablesInv'
<1>1. PICK n \in Nodes, k \in 1 .. 8 : Tree(n, k, {}) /\ InOrder(k)
  BY DEF AllocateTable, TablesInv
<1>2. PICK s \in 1 .. 4 : s = local.section /\ PtOf(s) \in 1 .. 8 /\ k <= PtOf(s)
  BY <1>1, TreeShape DEF InOrder
<1>3. /\ k < PtOf(s) /\ TableAt[Max(MissingLevels)] = n[Parent(k + 1)]
      /\ IndexAt(MappedAddress, Max(MissingLevels)) = Slot(k + 1)
  BY <1>1, <1>2, MissingTable DEF AllocateTable
<1>4. PICK b \in Blocks(1) :
          PagingAllocatePage(b, 1,
              Store([tables EXCEPT ![n[Parent(k + 1)]][Slot(k + 1)] = Table(b.at)], b.at, Zeroed), local, "map")
  BY <1>3 DEF AllocateTable
<1>5. k \in 1 .. 7
  BY <1>2, <1>3
<1>6. Len(chain.regions) \in Nat /\ Len(chain.regions) <= 9 /\ pc = "map" /\ Len(chain.sections) = 4
  <2>1. chain.regions \in Seq(Region)
    BY ChainFields DEF BootInv
  <2>2. Len(chain.regions) <= k
    BY <1>1 DEF InOrder
  <2> QED
    BY <1>5, <2>1, <2>2 DEF AllocateTable, TablesInv
<1>7. CASE MaxRegions < 10 /\ Fail("EFI_BUFFER_TOO_SMALL")
  BY <1>7, BootConstants, TablesFail
<1>8. CASE ~(MaxRegions < 10 /\ Fail("EFI_BUFFER_TOO_SMALL"))
  <2>1. PICK w : w = Store([tables EXCEPT ![n[Parent(k + 1)]][Slot(k + 1)] = Table(b.at)], b.at, Zeroed)
    OBVIOUS
  <2>2. PagingAllocatePage(b, 1, w, local, "map")
    BY <1>4, <2>1
  <2>3. /\ tables' = w /\ local' = local /\ pc' = "map" /\ error' = error
        /\ chain'.sections = chain.sections /\ Len(chain'.regions) <= Len(chain.regions) + 1
        /\ b.at \in Page /\ \A p \in Span(b.at, 1) : p \notin DOMAIN tables /\ holds'[p] = "table"
        /\ \A p \in DOMAIN tables : holds'[p] = "table"
    BY <1>6, <1>8, <2>2, PagingAllocates
  <2>4. b.at \in Span(b.at, 1)
    BY <2>3, PageFacts DEF Span
  <2>5. DOMAIN w = DOMAIN tables \cup {b.at}
    BY <2>1 DEF Store
  <2> DEFINE m == [n EXCEPT ![k + 1] = b.at]
  <2>6. m \in Nodes /\ Tree(m, k + 1, {})'
    BY <1>1, <1>5, <2>1, <2>3, <2>4, MappedHaveTables, GrowTree
  <2> HIDE DEF m
  <2>7. chain'.regions \in Seq(Region) /\ k + 1 \in 1 .. 8
    <3>1. BootInv'
      BY AllocateTableStep
    <3> QED
      BY <1>5, <3>1 DEF BootInv, BootType, ChainRecord
  <2>8. InOrder(k + 1)'
    <3>1. Len(chain'.regions) <= k + 1
      BY <1>1, <1>6, <2>3, <2>7 DEF InOrder
    <3>2. local.page > 0 => k = PtOf(s)
      BY <1>1, <1>2 DEF InOrder
    <3>3. ~(local.page > 0)
      BY <1>2, <1>3, <3>2
    <3>4. k + 1 \in (IF s = 1 THEN 1 ELSE PtOf(s - 1)) .. PtOf(s)
      <4>1. k \in (IF s = 1 THEN 1 ELSE PtOf(s - 1)) .. PtOf(s)
        BY <1>1, <1>2 DEF InOrder
      <4>2. (IF s = 1 THEN 1 ELSE PtOf(s - 1)) \in Int
        BY TreeShape
      <4> QED
        BY <1>2, <1>3, <4>1, <4>2
    <3> QED
      BY <1>1, <1>2, <2>3, <3>1, <3>3, <3>4 DEF InOrder
  <2>9. \A p \in DOMAIN tables' : holds'[p] = "table"
    BY <2>3, <2>4, <2>5
  <2>10. \E x \in Nodes : \E y \in 1 .. 8 : (Tree(x, y, {}) /\ InOrder(y))'
    BY <2>6, <2>7, <2>8
  <2>11. error' \in Expected \/ ~(MaxRegions >= 10)
    BY <2>3 DEF TablesInv, Expected
  <2> QED
    BY <1>6, <2>3, <2>9, <2>10, <2>11 DEF TablesInv, Built, Expected
<1> QED
  BY <1>7, <1>8

LEMMA MapPageTables == ASSUME BootInv, TablesInv, MapPage PROVE TablesInv'
<1>1. PICK n \in Nodes, k \in 1 .. 8 : Tree(n, k, {}) /\ InOrder(k)
  BY DEF MapPage, TablesInv
<1>2. PICK s \in 1 .. 4, j \in 0 .. SECTION_PAGES - 1 : s = local.section /\ j = local.page
  BY <1>1 DEF InOrder
<1>3. /\ k = PtOf(s) /\ TableAt[0] = n[k] /\ ~Conflict
      /\ IndexAt(MappedAddress, 0) = FirstSlot(s) + j
  BY <1>1, <1>2, NoConflict DEF MapPage
<1>4. /\ pc = "map" /\ UNCHANGED <<error, types, fw, holds, chain, mmap>>
      /\ tables' = [tables EXCEPT ![n[k]][FirstSlot(s) + j] =
                       Leaf(chain.sections[s] + j, Sections[s].perm)]
      /\ local' = IF LastPage THEN [local EXCEPT !.section = @ + 1, !.page = 0]
                  ELSE [local EXCEPT !.page = @ + 1]
      /\ pc' = IF LastPage /\ s = 4 THEN "pdpt" ELSE "map"
  BY <1>2, <1>3 DEF MapPage, Sections
<1>5. SECTION_PAGES \in Nat \ {0} /\ (LastPage <=> j = SECTION_PAGES - 1)
  BY <1>2, TableSizes DEF LastPage
<1>6. /\ local'.pml4 = local.pml4
      /\ local'.section = (IF j = SECTION_PAGES - 1 THEN s + 1 ELSE s)
      /\ local'.page = (IF j = SECTION_PAGES - 1 THEN 0 ELSE j + 1)
  <2>1. local \in LocalRecord
    BY LocalFields DEF BootInv
  <2> QED
    BY <1>2, <1>4, <1>5, <2>1 DEF LocalRecord
<1>7. \A t \in 1 .. 4, i \in 0 .. SECTION_PAGES - 1 :
          Mapped(local', t, i) <=> Mapped(local, t, i) \/ (t = s /\ i = j)
  BY <1>2, <1>5, <1>6 DEF Mapped
<1>8. Tree(n, k, {})'
  BY <1>1, <1>3, <1>4, <1>6, <1>7, MappedHaveTables, FillTree
<1>9. Len(chain.regions) <= k /\ chain' = chain /\ Len(chain.sections) = 4
  BY <1>1, <1>4 DEF InOrder, TablesInv
<1>10. (\A p \in DOMAIN tables' : holds'[p] = "table") /\ (MaxRegions >= 10 => error' \in Expected)
  BY <1>4 DEF TablesInv, Expected
<1>11. CASE j = SECTION_PAGES - 1 /\ s = 4
  <2>1. k = 8 /\ pc' = "pdpt" /\ local'.section = 5
    BY <1>3, <1>4, <1>5, <1>6, <1>11 DEF PtOf
  <2> QED
    BY <1>8, <1>9, <1>10, <2>1 DEF TablesInv, Built, Expected
<1>12. CASE ~(j = SECTION_PAGES - 1 /\ s = 4)
  <2>1. pc' = "map"
    BY <1>4, <1>5, <1>12
  <2>2. InOrder(k)'
    <3>1. CASE j = SECTION_PAGES - 1
      <4>1. s \in 1 .. 3 /\ s + 1 \in 2 .. 4 /\ (s + 1) - 1 = s
        BY <1>12, <3>1
      <4>2. k \in PtOf(s) .. PtOf(s + 1)
        BY <1>3, <4>1 DEF PtOf
      <4> QED
        BY <1>5, <1>6, <1>9, <3>1, <4>1, <4>2 DEF InOrder
    <3>2. CASE j # SECTION_PAGES - 1
      <4>1. local'.section = s /\ local'.page = j + 1 /\ j + 1 \in 0 .. SECTION_PAGES - 1
        BY <1>5, <1>6, <3>2
      <4>2. k \in (IF s = 1 THEN 1 ELSE PtOf(s - 1)) .. PtOf(s)
        BY <1>1, <1>2 DEF InOrder
      <4> QED
        BY <1>3, <1>9, <4>1, <4>2 DEF InOrder
    <3> QED
      BY <3>1, <3>2
  <2>3. \E x \in Nodes : \E y \in 1 .. 8 : (Tree(x, y, {}) /\ InOrder(y))'
    BY <1>8, <2>2
  <2> QED
    BY <1>9, <1>10, <2>1, <2>3 DEF TablesInv, Built, Expected
<1> QED
  BY <1>11, <1>12

LEMMA AllocatePdptTables == ASSUME BootInv, TablesInv, AllocatePdpt PROVE TablesInv'
<1>1. /\ pc = "pdpt" /\ local.section = 5 /\ Len(chain.regions) <= 8 /\ Len(chain.sections) = 4
      /\ Len(chain.regions) <= 9 /\ Len(chain.regions) \in Nat
  <2>1. chain.regions \in Seq(Region)
    BY ChainFields DEF BootInv
  <2>2. pc = "pdpt" /\ local.section = 5 /\ Len(chain.regions) <= 8 /\ Len(chain.sections) = 4
    BY DEF AllocatePdpt, TablesInv
  <2> QED
    BY <2>1, <2>2
<1>2. PICK n \in Nodes : Tree(n, 8, {})
  BY <1>1 DEF TablesInv
<1>3. ReadEntry(local.pml4, 0).present = FALSE
  <2>1. ~Linked(8, 1, 0) /\ ~Filled(local, 1, 0) /\ 0 \in Index /\ 1 \in 1 .. 8
    BY TreeShape, TableSizes DEF Linked, Filled
  <2>2. ReadEntry(local.pml4, 0) = Absent
    BY <1>2, <2>1 DEF Tree, NothingElse, ReadEntry
  <2> QED
    BY <2>2 DEF Absent
<1>4. PICK b \in Blocks(1) :
          PagingAllocatePage(b, 1, Store(tables, b.at, Zeroed), [local EXCEPT !.pdpt = b.at], "pds")
  BY <1>3 DEF AllocatePdpt
<1>5. CASE MaxRegions < 10 /\ Fail("EFI_BUFFER_TOO_SMALL")
  BY <1>5, BootConstants, TablesFail
<1>6. CASE ~(MaxRegions < 10 /\ Fail("EFI_BUFFER_TOO_SMALL"))
  <2>1. /\ tables' = Store(tables, b.at, Zeroed) /\ local' = [local EXCEPT !.pdpt = b.at]
        /\ pc' = "pds" /\ error' = error
        /\ chain'.sections = chain.sections /\ Len(chain'.regions) <= Len(chain.regions) + 1
        /\ b.at \in Page /\ \A p \in Span(b.at, 1) : p \notin DOMAIN tables /\ holds'[p] = "table"
        /\ \A p \in DOMAIN tables : holds'[p] = "table"
    BY <1>1, <1>4, <1>6, PagingAllocates
  <2>2. b.at \in Span(b.at, 1)
    BY <2>1, PageFacts DEF Span
  <2>3. /\ local'.pml4 = local.pml4 /\ local'.section = local.section /\ local'.page = local.page
        /\ local'.pdpt = b.at
    <3>1. local \in LocalRecord
      BY LocalFields DEF BootInv
    <3> QED
      BY <2>1, <3>1 DEF LocalRecord
  <2>4. DOMAIN tables' = DOMAIN tables \cup {b.at} /\ \A p \in DOMAIN tables : tables'[p] = tables[p]
    BY <2>1, <2>2 DEF Store
  <2>5. \A c \in 1 .. 8 : n[c] \in DOMAIN tables /\ tables'[n[c]] = tables[n[c]] /\ n[c] # b.at
    BY <1>2, <2>1, <2>2, <2>4 DEF Tree
  <2>6. Links(n, 8)'
    <3>1. \A d \in 2 .. 8 : Parent(d) \in 1 .. 8
      BY TreeShape
    <3> QED
      BY <1>2, <2>5, <3>1 DEF Tree, Links
  <2>7. Leaves(n)'
    <3>1. \A s \in 1 .. 4 : PtOf(s) \in 1 .. 8
      BY TreeShape
    <3> QED
      BY <1>2, <2>1, <2>3, <2>5, <3>1 DEF Tree, Leaves, Mapped
  <2>8. NothingElse(n, 8, {})'
    BY <1>2, <2>3, <2>5 DEF Tree, NothingElse, Filled, Mapped
  <2>9. Tree(n, 8, {})'
    BY <1>2, <2>3, <2>4, <2>5, <2>6, <2>7, <2>8 DEF Tree
  <2>10. Len(chain'.regions) <= 9
    <3>1. BootInv'
      BY AllocatePdptStep
    <3>2. chain'.regions \in Seq(Region)
      BY <3>1 DEF BootInv, BootType, ChainRecord
    <3> QED
      BY <1>1, <2>1, <3>2
  <2>11. \A p \in DOMAIN tables' : holds'[p] = "table"
    BY <2>1, <2>2, <2>4
  <2>12. MaxRegions >= 10 => error' \in Expected
    BY <2>1 DEF TablesInv, Expected
  <2> QED
    BY <1>1, <2>1, <2>3, <2>4, <2>5, <2>9, <2>10, <2>11, <2>12 DEF TablesInv, Built, Expected
<1> QED
  BY <1>5, <1>6

LEMMA MapPhysicalTables == ASSUME BootInv, TablesInv, MapPhysical PROVE TablesInv'
<1>1. /\ pc = "pds" /\ local.section = 5 /\ Len(chain.regions) <= 9 /\ Len(chain.sections) = 4
      /\ local.pdpt \in DOMAIN tables
  BY DEF MapPhysical, TablesInv
<1>2. PICK n \in Nodes : Tree(n, 8, {}) /\ \A c \in 1 .. 8 : n[c] # local.pdpt
  BY <1>1 DEF TablesInv
<1> DEFINE Linking(b, pml4, pdpt, pds) ==
          /\ pml4 = [tables[local.pml4] EXCEPT ![0] = Table(local.pdpt), ![PhysicalIndex] = Table(local.pdpt)]
          /\ pdpt = [i \in Index |-> Table(b.at + i)]
          /\ pds = [p \in Span(b.at, Entries) |-> PhysicalPd(p - b.at)]
          /\ PagingAllocatePage(b, Entries,
                 Store(Store(StoreAll(tables, pds), local.pdpt, pdpt), local.pml4, pml4), local, "level")
<1>8. PICK b \in Blocks(Entries) : \E pml4, pdpt, pds : Linking(b, pml4, pdpt, pds)
  BY DEF MapPhysical
<1>3. PICK pml4, pdpt, pds : Linking(b, pml4, pdpt, pds)
  BY <1>8
<1>4. PICK w : w = Store(Store(StoreAll(tables, pds), local.pdpt, pdpt), local.pml4, pml4)
  OBVIOUS
<1>5. PagingAllocatePage(b, Entries, w, local, "level") /\ Entries \in Nat \ {0}
  BY <1>3, <1>4, PageFacts
<1>6. CASE MaxRegions < 10 /\ Fail("EFI_BUFFER_TOO_SMALL")
  BY <1>6, BootConstants, TablesFail
<1>7. CASE ~(MaxRegions < 10 /\ Fail("EFI_BUFFER_TOO_SMALL"))
  <2>1. /\ tables' = w /\ local' = local /\ pc' = "level" /\ error' = error
        /\ chain'.sections = chain.sections /\ b.at \in Page
        /\ \A p \in Span(b.at, Entries) : p \in Page /\ p \notin DOMAIN tables /\ holds'[p] = "table"
        /\ \A p \in DOMAIN tables : holds'[p] = "table"
    BY <1>1, <1>5, <1>7, PagingAllocates
  <2>2. PICK at \in Page : at = b.at
    BY <2>1
  <2>3. /\ \A p \in Span(at, Entries) : p \notin DOMAIN tables
        /\ pdpt = [i \in Index |-> Table(at + i)]
        /\ pds = [p \in Span(at, Entries) |-> PhysicalPd(p - at)]
    BY <1>3, <2>1, <2>2
  <2>4. Tree(n, 8, {0, PhysicalIndex})' /\ Physical(n, at)'
    BY <1>1, <1>2, <1>3, <1>4, <2>1, <2>3, LinkPhysical
  <2>5. DOMAIN pds = Span(b.at, Entries)
    BY <1>3
  <2>6. local.pml4 \in DOMAIN tables
    BY <1>2 DEF Tree
  <2>7. DOMAIN tables' = DOMAIN tables \cup Span(b.at, Entries)
    BY <1>1, <1>4, <2>1, <2>5, <2>6 DEF Store, StoreAll
  <2>8. \A p \in DOMAIN tables' : holds'[p] = "table"
    BY <2>1, <2>7
  <2>9. LowLinks' = {0, PhysicalIndex}
    BY <2>1 DEF LowLinks
  <2>10. Tree(n, 8, LowLinks)'
    BY <2>4, <2>9 DEF Tree, NothingElse
  <2>11. MaxRegions >= 10 => error' \in Expected
    BY <2>1 DEF TablesInv, Expected
  <2> QED
    BY <1>1, <2>1, <2>4, <2>8, <2>10, <2>11 DEF TablesInv, Built, Expected
<1> QED
  BY <1>6, <1>7

LEMMA ChainloadTables == ASSUME BootInv, TablesInv, Chainload PROVE TablesInv'
<1>1. PICK n \in Nodes, pd \in Page : Tree(n, 8, {0, PhysicalIndex}) /\ Physical(n, pd)
  BY DEF TablesInv, Chainload, Built, LowLinks
<1>2. Tree(n, 8, {PhysicalIndex})' /\ Physical(n, pd)'
  BY <1>1, UnlinkLow DEF Chainload
<1>3. LowLinks' = {PhysicalIndex}
  BY DEF LowLinks, Chainload
<1>4. Tree(n, 8, LowLinks)'
  BY <1>2, <1>3 DEF Tree, NothingElse
<1>5. /\ pc = "chainload" /\ pc' = "hvmain" /\ UNCHANGED <<local, chain, holds, error>>
      /\ DOMAIN tables' = DOMAIN tables
  BY DEF Chainload
<1>6. /\ \A p \in DOMAIN tables' : holds'[p] = "table"
      /\ local'.section = 5 /\ Len(chain'.sections) = 4
      /\ (MaxRegions >= 10 => error' \in Expected)
  BY <1>5 DEF TablesInv, Built, Expected
<1> QED
  BY <1>2, <1>4, <1>5, <1>6 DEF TablesInv, Built, Expected

(* The steps that end in the firmware's or the processor's refusal, and    *)
(* those that read the memory map and leave the boot services.             *)
LEMMA RefusedTables ==
    ASSUME TablesInv, LevelUnsupported \/ MapTooLarge \/ FirmwareError PROVE TablesInv'
BY TablesFail DEF LevelUnsupported, MapTooLarge, FirmwareError, Expected

LEMMA ExitTables ==
    ASSUME TablesInv,
           \/ LevelSupported \/ SizeMap \/ AllocateBuffer \/ ReadMap
           \/ ExitBootServices \/ ExitRefused \/ Retry \/ MergeEnds \/ FirmwareEvent
    PROVE  TablesInv'
<1>1. UNCHANGED <<tables, local, holds, error, chain>> /\ pc \in Built \ {"hvmain"} /\ pc' \in Built \ {"hvmain"}
  BY DEF LevelSupported, SizeMap, AllocateBuffer, ReadMap, ExitBootServices, ExitRefused, Retry,
         MergeEnds, FirmwareEvent, Built
<1> QED
  BY <1>1, TablesRest

LEMMA MergeDescriptorTables == ASSUME BootInv, TablesInv, MergeDescriptor PROVE TablesInv'
<1>1. chain \in ChainRecord
  BY ChainFields DEF BootInv
<1>2. \E u : chain' = [chain EXCEPT !.usable = u]
  BY <1>1 DEF MergeDescriptor, ChainRecord
<1>3. chain'.sections = chain.sections
  BY <1>1, <1>2 DEF ChainRecord
<1> QED
  BY <1>3, TablesRest DEF MergeDescriptor, Built

(* Every step keeps the tables as they should be.                          *)
LEMMA TablesStep == ASSUME BootInv, TablesInv, BootStep PROVE TablesInv'
BY AllocateChainloadTables, LoadSectionTables, LoadAttachmentTables, AllocatePml4Tables,
   AllocateTableTables, MapPageTables, AllocatePdptTables, MapPhysicalTables, ChainloadTables,
   RefusedTables, ExitTables, MergeDescriptorTables
DEF BootStep

LEMMA TablesUnchanged == ASSUME TablesInv, UNCHANGED bootVars PROVE TablesInv'
<1>1. UNCHANGED <<pc, error, holds, chain, tables, local>>
  BY DEF bootVars
<1>2. \A n, k, low : Tree(n, k, low)' <=> Tree(n, k, low)
  BY <1>1, TreeKept
<1>3. \A n, pd : Physical(n, pd)' <=> Physical(n, pd)
  BY <1>1, PhysicalKept
<1>4. \A k : InOrder(k)' <=> InOrder(k)
  BY <1>1 DEF InOrder
<1>5. LowLinks' = LowLinks
  BY <1>1 DEF LowLinks
<1>6. pc' = "map" => \E n \in Nodes : \E k \in 1 .. 8 : (Tree(n, k, {}) /\ InOrder(k))'
  BY <1>1, <1>2, <1>4 DEF TablesInv
<1>7. pc' \in {"pdpt", "pds"} =>
          \E n \in Nodes :
              /\ Tree(n, 8, {})'
              /\ pc' = "pds" => local'.pdpt \in DOMAIN tables' /\ \A c \in 1 .. 8 : n[c] # local'.pdpt
  BY <1>1, <1>2 DEF TablesInv
<1>8. pc' \in Built => \E n \in Nodes : \E pd \in Page : (Tree(n, 8, LowLinks) /\ Physical(n, pd))'
  <2> SUFFICES ASSUME pc' \in Built
               PROVE  \E n \in Nodes : \E pd \in Page : (Tree(n, 8, LowLinks) /\ Physical(n, pd))'
    OBVIOUS
  <2>0. PICK low : low = LowLinks
    OBVIOUS
  <2>1. PICK n \in Nodes, pd \in Page : Tree(n, 8, low) /\ Physical(n, pd)
    BY <1>1, <2>0 DEF TablesInv
  <2>2. Tree(n, 8, low)' /\ Physical(n, pd)' /\ LowLinks' = low
    BY <1>2, <1>3, <1>5, <2>0, <2>1
  <2>3. Tree(n, 8, LowLinks)'
    BY <2>2 DEF Tree, NothingElse
  <2> QED
    BY <2>2, <2>3
<1> QED
  BY <1>1, <1>6, <1>7, <1>8 DEF TablesInv, Built

(* The tables are as they should be in every state.                        *)
LEMMA TablesAlways == StartupSpec => []TablesInv
<1>1. StartupInit => TablesInv
  BY DEF StartupInit, Init, NoChain, TablesInv, Built
<1>2. StartupInv /\ TablesInv /\ [StartupNext]_vars => TablesInv'
  <2> SUFFICES ASSUME BootInv, TablesInv, [StartupNext]_vars PROVE TablesInv'
    BY DEF StartupInv
  <2>1. CASE BootPhase
    BY <2>1, TablesStep DEF BootPhase
  <2>2. CASE HvMain
    BY <2>2 DEF HvMain, TablesInv, NoChain, Built
  <2>3. CASE GuestPhase
    BY <2>3, TablesUnchanged DEF GuestPhase
  <2>4. CASE FirmwareEvent
    BY <2>4, ExitTables
  <2>5. CASE UNCHANGED vars
    BY <2>5, TablesUnchanged DEF vars
  <2> QED
    BY <2>1, <2>2, <2>3, <2>4, <2>5 DEF StartupNext, Step
<1> QED
  BY <1>1, <1>2, StartupAlways, PTL DEF StartupSpec

-----------------------------------------------------------------------------
(* What memory_map.h promises at an address.                               *)
LEMMA PromisedSection ==
    ASSUME NEW s \in 1 .. 4, NEW j \in 0 .. SECTION_PAGES - 1, chain.sections[s] \in Int
    PROVE  Promised(Sections[s].base + j) = Leaf(chain.sections[s] + j, Sections[s].perm)
<1>1. PICK base \in Nat : base = Sections[s].base
  BY SectionAddress
<1>2. PICK la \in Nat : la = base + j
  BY <1>1, TableSizes
<1> DEFINE inSection == {t \in DOMAIN Sections : la \in Span(Sections[t].base, SECTION_PAGES)}
<1>3. DOMAIN Sections = 1 .. 4
  BY DEF Sections
<1>4. s \in inSection
  BY <1>1, <1>2, <1>3, TableSizes DEF Span
<1>5. ASSUME NEW t \in 1 .. 4, la \in Span(Sections[t].base, SECTION_PAGES) PROVE t = s
  <2>1. PICK i \in 0 .. SECTION_PAGES - 1 : la = Sections[t].base + i
    <3>1. PICK low \in Nat : low = Sections[t].base
      BY SectionAddress, TableSizes
    <3>2. la - low \in 0 .. SECTION_PAGES - 1 /\ la = low + (la - low)
      BY <1>2, <1>5, <3>1, TableSizes DEF Span
    <3> QED
      BY <3>1, <3>2
  <2>2. /\ Slot(OnPath(s, 2)) = Slot(OnPath(t, 2)) /\ Slot(OnPath(s, 1)) = Slot(OnPath(t, 1))
        /\ Slot(OnPath(s, 0)) = Slot(OnPath(t, 0)) /\ FirstSlot(s) + j = FirstSlot(t) + i
    <3>1. PICK a3, a2, a1, a0 \in Index :
              /\ a3 = Slot(OnPath(s, 2)) /\ a2 = Slot(OnPath(s, 1)) /\ a1 = Slot(OnPath(s, 0))
              /\ a0 = FirstSlot(s) + j /\ la = Address(a3, a2, a1, a0)
      BY <1>1, <1>2, SectionAddress
    <3>2. PICK b3, b2, b1, b0 \in Index :
              /\ b3 = Slot(OnPath(t, 2)) /\ b2 = Slot(OnPath(t, 1)) /\ b1 = Slot(OnPath(t, 0))
              /\ b0 = FirstSlot(t) + i /\ la = Address(b3, b2, b1, b0)
      BY <2>1, SectionAddress
    <3>3. a3 = b3 /\ a2 = b2 /\ a1 = b1 /\ a0 = b0
      <4>1. IndexAt(la, 3) = a3 /\ IndexAt(la, 2) = a2 /\ IndexAt(la, 1) = a1 /\ IndexAt(la, 0) = a0
        BY <3>1, AddressIndices
      <4>2. IndexAt(la, 3) = b3 /\ IndexAt(la, 2) = b2 /\ IndexAt(la, 1) = b1 /\ IndexAt(la, 0) = b0
        BY <3>2, AddressIndices
      <4> QED
        BY ONLY <4>1, <4>2
    <3> QED
      BY <3>1, <3>2, <3>3
  <2>3. PtOf(s) = PtOf(t)
    BY <2>2, TableSizes DEF OnPath, PtOf, Slot, Parent
  <2> QED
    BY <2>2, <2>3, TreeShape
<1>6. inSection = {s}
  BY <1>3, <1>4, <1>5
<1>7. Promised(la) = Leaf(chain.sections[s] + la - Sections[s].base, Sections[s].perm)
  <2>1. (CHOOSE t \in inSection : TRUE) = s
    BY <1>6
  <2> HIDE DEF inSection
  <2>2. Promised(la) = IF inSection # {}
                       THEN LET t == CHOOSE t \in inSection : TRUE
                            IN  Leaf(chain.sections[t] + la - Sections[t].base, Sections[t].perm)
                       ELSE IF la \in Span(RKHV_PHYSICAL_MEMORY_BASE, EntrySpan(3))
                       THEN Large(la - RKHV_PHYSICAL_MEMORY_BASE, "RWX")
                       ELSE Absent
    BY DEF Promised, inSection
  <2> QED
    BY <1>4, <2>1, <2>2
<1>8. chain.sections[s] + la - Sections[s].base = chain.sections[s] + j
  BY <1>1, <1>2
<1> QED
  BY <1>1, <1>2, <1>7, <1>8

(* Addresses in no section.                                                *)
LEMMA PromisedOutside ==
    ASSUME NEW a3 \in Index, NEW a2 \in Index, NEW a1 \in Index, NEW a0 \in Index,
           \A s \in 1 .. 4, j \in 0 .. SECTION_PAGES - 1 :
               Address(a3, a2, a1, a0) # Sections[s].base + j
    PROVE  Promised(Address(a3, a2, a1, a0)) =
               IF a3 = PhysicalIndex THEN Large((a2 * Entries + a1) * Entries + a0, "RWX") ELSE Absent
<1>0. PICK E \in Nat \ {0} : E = Entries
  BY TableSizes
<1>1. PICK b3, b2, b1, b0 \in 0 .. E - 1 : b3 = a3 /\ b2 = a2 /\ b1 = a1 /\ b0 = a0
  BY <1>0 DEF Index
<1>2. PICK D \in Nat \ {0} : D = E * E * E
  OBVIOUS
<1>3. PICK r \in Nat : r = (b2 * E + b1) * E + b0
  OBVIOUS
<1>4. r < D
  <2>1. b2 * E + b1 \in 0 .. E * E - 1
    OBVIOUS
  <2>2. PICK x \in Nat, F \in Nat : x = b2 * E + b1 /\ F = E * E /\ x <= F - 1
    BY <2>1
  <2>3. x * E + b0 < F * E
    BY <2>2
  <2> QED
    BY <1>2, <1>3, <2>2, <2>3
<1>5. PICK la \in Nat : la = D * b3 + r
  OBVIOUS
<1>6. la = Address(a3, a2, a1, a0)
  BY <1>0, <1>1, <1>2, <1>3, <1>5 DEF Address
<1>7. PICK P \in Nat : P = PhysicalIndex /\ RKHV_PHYSICAL_MEMORY_BASE = P * D
  BY <1>0, <1>2, TableSizes, SpanOfEntry DEF RKHV_PHYSICAL_MEMORY_BASE
<1>8. la \in P * D .. P * D + D - 1 <=> b3 = P
  <2>1. CASE b3 = P
    BY <1>4, <1>5, <2>1
  <2>2. CASE b3 > P
    <3>1. D * b3 >= D * (P + 1)
      BY <2>2
    <3> QED
      BY <1>4, <1>5, <2>2, <3>1
  <2>3. CASE b3 < P
    <3>1. D * (b3 + 1) <= D * P
      BY <2>3
    <3> QED
      BY <1>4, <1>5, <2>3, <3>1
  <2> QED
    BY <2>1, <2>2, <2>3
<1>9. {s \in DOMAIN Sections : la \in Span(Sections[s].base, SECTION_PAGES)} = {}
  <2> SUFFICES ASSUME NEW s \in 1 .. 4, la \in Span(Sections[s].base, SECTION_PAGES) PROVE FALSE
    BY DEF Sections
  <2>1. PICK low \in Nat : low = Sections[s].base
    BY SectionAddress, TableSizes
  <2>2. la - low \in 0 .. SECTION_PAGES - 1 /\ la = low + (la - low)
    BY <2>1, TableSizes DEF Span
  <2> QED
    BY <1>6, <2>1, <2>2
<1>10. Promised(la) = IF la \in Span(RKHV_PHYSICAL_MEMORY_BASE, EntrySpan(3))
                      THEN Large(la - RKHV_PHYSICAL_MEMORY_BASE, "RWX") ELSE Absent
  BY <1>9 DEF Promised
<1>11. Span(RKHV_PHYSICAL_MEMORY_BASE, EntrySpan(3)) = P * D .. P * D + D - 1
  BY <1>0, <1>2, <1>7, SpanOfEntry DEF Span
<1>12. b3 = P => la - RKHV_PHYSICAL_MEMORY_BASE = r
  BY <1>5, <1>7
<1> QED
  BY <1>0, <1>1, <1>3, <1>6, <1>7, <1>8, <1>10, <1>11, <1>12

(* The walk, entry by entry.                                               *)
LEMMA WalkEntries ==
    ASSUME NEW contents, NEW root, NEW la, NEW e3, NEW e2, NEW e1, NEW e0,
           e3 = EntryOf(contents, root, IndexAt(la, 3)),
           e2 = EntryOf(contents, e3.to, IndexAt(la, 2)),
           e1 = EntryOf(contents, e2.to, IndexAt(la, 1)),
           e0 = EntryOf(contents, e1.to, IndexAt(la, 0))
    PROVE  Walk(contents, root, la) =
               IF ~e3.present \/ ~e2.present THEN Absent
               ELSE IF e2.large THEN Inside(e2, la, 2)
               ELSE IF ~e1.present THEN Absent
               ELSE IF e1.large THEN Inside(e1, la, 1)
               ELSE e0
BY DEF Walk

(* What the fields of an entry are.                                        *)
LEMMA TableEntry ==
    /\ \A p : Table(p).present = TRUE /\ Table(p).large = FALSE /\ Table(p).to = p
    /\ Absent.present = FALSE
    /\ \A p, m : Large(p, m).present = TRUE /\ Large(p, m).large = TRUE
<1>1. \A p : Table(p).present = TRUE
  BY DEF Table, Absent
<1>2. \A p : Table(p).large = FALSE
  BY DEF Table, Absent
<1>3. \A p : Table(p).to = p
  BY DEF Table, Absent
<1>4. Absent.present = FALSE
  BY DEF Absent
<1>5. \A p, m : Large(p, m).present = TRUE /\ Large(p, m).large = TRUE
  BY DEF Large
<1> QED
  BY <1>1, <1>2, <1>3, <1>4, <1>5

(* A table of the bootloader is read from its own contents.                *)
LEMMA EntryRead ==
    ASSUME DOMAIN tables \subseteq Page, NEW p \in DOMAIN tables, NEW i \in Index
    PROVE  EntryOf(AllEntries, p, i) = tables[p][i]
<1>1. p \in DOMAIN AllEntries /\ AllEntries[p][i] = ReadEntry(p, i)
  BY DEF AllEntries
<1> QED
  BY <1>1 DEF EntryOf, ReadEntry

(* The walk of the finished tables, for the three kinds of addresses.      *)
Finished(n, pd) ==
    /\ DOMAIN tables \subseteq Page /\ local.section = 5 /\ \A s \in 1 .. 4 : chain.sections[s] \in Int
    /\ Tree(n, 8, {PhysicalIndex}) /\ Physical(n, pd)

(* The entries of the eight tables, once all is mapped.                    *)
LEMMA FinishedEntry ==
    ASSUME NEW n, NEW pd, Finished(n, pd)
    PROVE  /\ \A d \in 2 .. 8 : EntryOf(AllEntries, n[Parent(d)], Slot(d)) = Table(n[d])
           /\ \A s \in 1 .. 4, j \in 0 .. SECTION_PAGES - 1 :
                 EntryOf(AllEntries, n[PtOf(s)], FirstSlot(s) + j) =
                     Leaf(chain.sections[s] + j, Sections[s].perm)
           /\ EntryOf(AllEntries, n[1], PhysicalIndex) = Table(local.pdpt)
           /\ \A c \in 1 .. 8, i \in Index :
                 ~Linked(8, c, i) /\ ~(c = 1 /\ i = PhysicalIndex)
                 /\ (\A s \in 1 .. 4, j \in 0 .. SECTION_PAGES - 1 : ~(PtOf(s) = c /\ FirstSlot(s) + j = i))
                 => EntryOf(AllEntries, n[c], i) = Absent
<1>1. \A c \in 1 .. 8, i \in Index : EntryOf(AllEntries, n[c], i) = tables[n[c]][i]
  BY EntryRead DEF Finished, Tree
<1>2. \A d \in 2 .. 8 : EntryOf(AllEntries, n[Parent(d)], Slot(d)) = Table(n[d])
  <2> SUFFICES ASSUME NEW d \in 2 .. 8 PROVE EntryOf(AllEntries, n[Parent(d)], Slot(d)) = Table(n[d])
    OBVIOUS
  <2>1. Parent(d) \in 1 .. 8 /\ Slot(d) \in Index
    BY TreeShape
  <2> QED
    BY <1>1, <2>1 DEF Finished, Tree, Links
<1>3. ASSUME NEW s \in 1 .. 4, NEW j \in 0 .. SECTION_PAGES - 1
      PROVE  EntryOf(AllEntries, n[PtOf(s)], FirstSlot(s) + j) = Leaf(chain.sections[s] + j, Sections[s].perm)
  <2>1. PtOf(s) \in 1 .. 8 /\ FirstSlot(s) + j \in Index
    BY TreeShape
  <2>2. Mapped(local, s, j)
    BY DEF Finished, Mapped
  <2> QED
    BY <1>1, <2>1, <2>2 DEF Finished, Tree, Leaves
<1>4. EntryOf(AllEntries, n[1], PhysicalIndex) = Table(local.pdpt)
  <2>1. 1 \in 1 .. 8 /\ PhysicalIndex \in Index
    BY TreeShape
  <2> QED
    BY <1>1, <2>1 DEF Finished, Tree
<1>5. ASSUME NEW c \in 1 .. 8, NEW i \in Index, ~Linked(8, c, i), ~(c = 1 /\ i = PhysicalIndex),
             \A s \in 1 .. 4, j \in 0 .. SECTION_PAGES - 1 : ~(PtOf(s) = c /\ FirstSlot(s) + j = i)
      PROVE  EntryOf(AllEntries, n[c], i) = Absent
  <2>1. ~Filled(local, c, i)
    BY <1>5 DEF Filled
  <2> QED
    BY <1>1, <1>5, <2>1 DEF Finished, Tree, NothingElse
<1> QED
  BY <1>2, <1>3, <1>4, <1>5

(* The walk for a page of a section ends at that page.                     *)
LEMMA WalkSection ==
    ASSUME NEW n, NEW pd, Finished(n, pd), NEW s \in 1 .. 4, NEW j \in 0 .. SECTION_PAGES - 1
    PROVE  Walk(AllEntries, local.pml4, Sections[s].base + j) =
               Leaf(chain.sections[s] + j, Sections[s].perm)
<1>1. PICK d3, d2, d1 \in 2 .. 8 :
          /\ d3 = OnPath(s, 2) /\ d2 = OnPath(s, 1) /\ d1 = OnPath(s, 0) /\ d1 = PtOf(s)
          /\ Parent(d3) = 1 /\ Parent(d2) = d3 /\ Parent(d1) = d2
  <2>1. PtOf(s) <= 8 /\ PtOf(s) \in Nat
    BY TreeShape
  <2> QED
    BY <2>1, PathShape
<1>2. PICK la : la = Sections[s].base + j
  OBVIOUS
<1>3. /\ IndexAt(la, 3) = Slot(d3) /\ IndexAt(la, 2) = Slot(d2) /\ IndexAt(la, 1) = Slot(d1)
      /\ IndexAt(la, 0) = FirstSlot(s) + j
  <2>1. PICK a3, a2, a1, a0 \in Index :
            /\ a3 = Slot(d3) /\ a2 = Slot(d2) /\ a1 = Slot(d1) /\ a0 = FirstSlot(s) + j
            /\ la = Address(a3, a2, a1, a0)
    BY <1>1, <1>2, SectionAddress
  <2> QED
    BY <2>1, AddressIndices
<1>4. n[1] = local.pml4
  BY DEF Finished, Tree
<1>5. /\ EntryOf(AllEntries, local.pml4, IndexAt(la, 3)) = Table(n[d3])
      /\ EntryOf(AllEntries, n[d3], IndexAt(la, 2)) = Table(n[d2])
      /\ EntryOf(AllEntries, n[d2], IndexAt(la, 1)) = Table(n[d1])
      /\ EntryOf(AllEntries, n[d1], IndexAt(la, 0)) = Leaf(chain.sections[s] + j, Sections[s].perm)
  BY <1>1, <1>3, <1>4, FinishedEntry
<1>6. Walk(AllEntries, local.pml4, la) = Leaf(chain.sections[s] + j, Sections[s].perm)
  BY <1>5, TableEntry, WalkEntries
<1> QED
  BY <1>2, <1>6

(* An address inside a large page.                                         *)
LEMMA LargeMoved ==
    ASSUME NEW x \in Int, NEW y \in Int
    PROVE  [Large(x, "RWX") EXCEPT !.to = y] = Large(y, "RWX")
<1>1. PICK e : e = Large(x, "RWX")
  OBVIOUS
<1>2. /\ e \in [present : BOOLEAN, to : Int, large : BOOLEAN, perm : {"RWX"}]
      /\ e.to = x /\ e.present = TRUE /\ e.large = TRUE /\ e.perm = "RWX"
  BY <1>1 DEF Large
<1>3. PICK w : w = [e EXCEPT !.to = y]
  OBVIOUS
<1>4. /\ w \in [present : BOOLEAN, to : Int, large : BOOLEAN, perm : {"RWX"}]
      /\ w.to = y /\ w.present = TRUE /\ w.large = TRUE /\ w.perm = "RWX"
  BY <1>2, <1>3
<1>5. w = Large(y, "RWX")
  BY <1>4 DEF Large
<1> QED
  BY <1>1, <1>3, <1>5

(* The walk in the slot of the physical memory ends at the page itself.    *)
LEMMA WalkPhysical ==
    ASSUME NEW n, NEW pd \in Page, Finished(n, pd), NEW a2 \in Index, NEW a1 \in Index, NEW a0 \in Index
    PROVE  Walk(AllEntries, local.pml4, Address(PhysicalIndex, a2, a1, a0)) =
               Large((a2 * Entries + a1) * Entries + a0, "RWX")
<1>1. PICK la : la = Address(PhysicalIndex, a2, a1, a0)
  OBVIOUS
<1>2. /\ IndexAt(la, 3) = PhysicalIndex /\ IndexAt(la, 2) = a2 /\ IndexAt(la, 1) = a1
      /\ la % EntrySpan(1) = a0
  BY <1>1, AddressIndices, TreeShape
<1>3. EntryOf(AllEntries, local.pml4, IndexAt(la, 3)) = Table(local.pdpt)
  BY <1>2, FinishedEntry DEF Finished, Tree
<1>4. EntryOf(AllEntries, local.pdpt, IndexAt(la, 2)) = Table(pd + a2)
  BY <1>2, EntryRead DEF Finished, Physical
<1>5. EntryOf(AllEntries, pd + a2, IndexAt(la, 1)) = Large((a2 * Entries + a1) * Entries, "RWX")
  <2>1. EntryOf(AllEntries, pd + a2, a1) = tables[pd + a2][a1]
    BY EntryRead DEF Finished, Physical
  <2>2. tables[pd + a2] = PhysicalPd(a2)
    BY DEF Finished, Physical
  <2> QED
    BY <1>2, <2>1, <2>2 DEF PhysicalPd
<1>6. PICK x, e : x = (a2 * Entries + a1) * Entries /\ e = Large(x, "RWX")
  OBVIOUS
<1>7. Walk(AllEntries, local.pml4, la) = Inside(e, la, 1)
  <2>1. e.present = TRUE /\ e.large = TRUE
    BY <1>6, TableEntry
  <2> QED
    BY <1>3, <1>4, <1>5, <1>6, <2>1, TableEntry, WalkEntries
<1>8. Inside(e, la, 1) = Large((a2 * Entries + a1) * Entries + a0, "RWX")
  <2>1. Inside(e, la, 1) = [e EXCEPT !.to = x + a0]
    <3>1. e.to = x
      BY <1>6 DEF Large
    <3> QED
      BY ONLY <1>2, <3>1 DEF Inside
  <2>2. [e EXCEPT !.to = x + a0] = Large(x + a0, "RWX")
    <3>1. x \in Int /\ x + a0 \in Int
      BY <1>6, EntriesAssumption DEF Index
    <3> QED
      BY <1>6, <3>1, LargeMoved
  <2> QED
    BY <1>6, <2>1, <2>2
<1> QED
  BY <1>1, <1>7, <1>8

(* The walk for any other address ends at an absent entry.                 *)
LEMMA WalkNothing ==
    ASSUME NEW n, NEW pd, Finished(n, pd),
           NEW a3 \in Index, NEW a2 \in Index, NEW a1 \in Index, NEW a0 \in Index, a3 # PhysicalIndex,
           \A s \in 1 .. 4, j \in 0 .. SECTION_PAGES - 1 : Address(a3, a2, a1, a0) # Sections[s].base + j
    PROVE  Walk(AllEntries, local.pml4, Address(a3, a2, a1, a0)) = Absent
<1>1. PICK la : la = Address(a3, a2, a1, a0)
  OBVIOUS
<1>2. IndexAt(la, 3) = a3 /\ IndexAt(la, 2) = a2 /\ IndexAt(la, 1) = a1 /\ IndexAt(la, 0) = a0
  BY <1>1, AddressIndices
<1>3. PICK e3 : e3 = EntryOf(AllEntries, local.pml4, IndexAt(la, 3))
  OBVIOUS
<1>4. PICK e2 : e2 = EntryOf(AllEntries, e3.to, IndexAt(la, 2))
  OBVIOUS
<1>5. PICK e1 : e1 = EntryOf(AllEntries, e2.to, IndexAt(la, 1))
  OBVIOUS
<1>6. PICK e0 : e0 = EntryOf(AllEntries, e1.to, IndexAt(la, 0))
  OBVIOUS
<1>7. Walk(AllEntries, local.pml4, la) =
          IF ~e3.present \/ ~e2.present THEN Absent
          ELSE IF e2.large THEN Inside(e2, la, 2)
          ELSE IF ~e1.present THEN Absent
          ELSE IF e1.large THEN Inside(e1, la, 1)
          ELSE e0
  BY <1>3, <1>4, <1>5, <1>6, WalkEntries
<1>8. ASSUME NEW c \in 1 .. 8, c \notin {4, 5, 8}, NEW i \in Index, ~(c = 1 /\ i = PhysicalIndex)
      PROVE  \/ EntryOf(AllEntries, n[c], i) = Absent
             \/ \E d \in 2 .. 8 : /\ Parent(d) = c /\ Slot(d) = i
                                  /\ EntryOf(AllEntries, n[c], i) = Table(n[d])
  <2>1. CASE Linked(8, c, i)
    BY <2>1, FinishedEntry DEF Linked
  <2>2. CASE ~Linked(8, c, i)
    BY <1>8, <2>2, FinishedEntry, TreeShape
  <2> QED
    BY <2>1, <2>2
<1>9. CASE e3 = Absent
  BY <1>1, <1>7, <1>9, TableEntry
<1>10. CASE e3 # Absent
  <2>1. PICK d3 \in 2 .. 8 : Parent(d3) = 1 /\ Slot(d3) = a3 /\ e3 = Table(n[d3])
    BY <1>2, <1>3, <1>8, <1>10 DEF Finished, Tree
  <2>2. CASE e2 = Absent
    BY <1>1, <1>7, <2>2, TableEntry
  <2>3. CASE e2 # Absent
    <3>0. d3 \in {2, 6}
      BY <2>1 DEF Parent
    <3>1. PICK d2 \in 2 .. 8 : Parent(d2) = d3 /\ Slot(d2) = a2 /\ e2 = Table(n[d2])
      BY <1>2, <1>4, <1>8, <2>1, <2>3, <3>0, TableEntry
    <3>2. d2 \in {3, 7}
      BY <3>0, <3>1 DEF Parent
    <3>3. CASE e1 = Absent
      BY <1>1, <1>7, <3>1, <3>3, TableEntry
    <3>4. CASE e1 # Absent
      <4>1. PICK d1 \in 2 .. 8 : Parent(d1) = d2 /\ Slot(d1) = a1 /\ e1 = Table(n[d1])
        BY <1>2, <1>5, <1>8, <3>1, <3>2, <3>4, TableEntry
      <4>2. d1 \in {4, 5, 8}
        BY <3>2, <4>1 DEF Parent
      <4>3. ~Linked(8, d1, a0)
        BY <4>2, TreeShape DEF Linked
      <4>4. ASSUME NEW s \in 1 .. 4, NEW j \in 0 .. SECTION_PAGES - 1, PtOf(s) = d1, FirstSlot(s) + j = a0
            PROVE  FALSE
        <5>1. OnPath(s, 0) = d1 /\ OnPath(s, 1) = d2 /\ OnPath(s, 2) = d3
          BY <2>1, <3>1, <4>1, <4>4 DEF OnPath
        <5>2. Sections[s].base + j = Address(a3, a2, a1, a0)
          BY <2>1, <3>1, <4>1, <4>4, <5>1, SectionAddress
        <5> QED
          BY <5>2
      <4>5. e0 = Absent
        <5>1. e0 = EntryOf(AllEntries, n[d1], a0)
          BY <1>2, <1>6, <4>1, TableEntry
        <5> QED
          BY <4>2, <4>3, <4>4, <5>1, FinishedEntry
      <4> QED
        BY <1>1, <1>7, <2>1, <3>1, <4>1, <4>5, TableEntry
    <3> QED
      BY <3>3, <3>4
  <2> QED
    BY <2>2, <2>3
<1> QED
  BY <1>9, <1>10

(* The hypervisor is entered in exactly the address space of memory_map.h, *)
(* for tables of any size, wherever the firmware puts them and the         *)
(* sections: each section at its address with its permission, all of the   *)
(* physical memory, and nothing else.                                      *)
THEOREM AddressSpaceAlwaysExact == StartupSpec => []AddressSpaceExact
<1>1. StartupInv /\ TablesInv => AddressSpaceExact
  <2> SUFFICES ASSUME BootInv, TablesInv, pc = "hvmain", NEW la \in 0 .. EntrySpan(4) - 1
               PROVE  Walk(AllEntries, local.pml4, la) = Promised(la)
    BY DEF StartupInv, AddressSpaceExact
  <2>1. PICK n \in Nodes, pd \in Page : Finished(n, pd)
    <3>1. chain.sections \in Seq(Page) /\ Len(chain.sections) = 4
      BY ChainFields DEF BootInv, TablesInv
    <3>2. \A s \in 1 .. 4 : chain.sections[s] \in Int
      <4>1. \A s \in 1 .. 4 : chain.sections[s] \in Page
        BY <3>1
      <4>2. Page \subseteq Int
        BY PageFacts
      <4> QED
        BY ONLY <4>1, <4>2
    <3>3. DOMAIN tables \subseteq Page
      BY DEF BootInv, BootType
    <3>4. PICK n \in Nodes, pd \in Page : Tree(n, 8, LowLinks) /\ Physical(n, pd) /\ local.section = 5
      BY DEF TablesInv, Built
    <3> QED
      BY <3>2, <3>3, <3>4 DEF Finished, LowLinks
  <2>2. PICK a3, a2, a1, a0 \in Index : la = Address(a3, a2, a1, a0)
    BY AddressDigits
  <2>3. CASE \E s \in 1 .. 4, j \in 0 .. SECTION_PAGES - 1 : la = Sections[s].base + j
    BY <2>1, <2>3, WalkSection, PromisedSection DEF Finished
  <2>4. CASE ~\E s \in 1 .. 4, j \in 0 .. SECTION_PAGES - 1 : la = Sections[s].base + j
    <3>1. Promised(la) =
              IF a3 = PhysicalIndex THEN Large((a2 * Entries + a1) * Entries + a0, "RWX") ELSE Absent
      BY <2>2, <2>4, PromisedOutside
    <3>2. CASE a3 = PhysicalIndex
      BY <2>1, <2>2, <3>1, <3>2, WalkPhysical
    <3>3. CASE a3 # PhysicalIndex
      <4>1. Walk(AllEntries, local.pml4, la) = Absent
        BY <2>1, <2>2, <2>4, <3>3, WalkNothing
      <4> QED
        BY <3>1, <3>3, <4>1
    <3> QED
      BY <3>2, <3>3
  <2> QED
    BY <2>3, <2>4
<1> QED
  BY <1>1, StartupAlways, TablesAlways, PTL

(* With room for ten regions, one for each allocation of page tables,      *)
(* booting fails only because the firmware or the processor refuses: no    *)
(* placement of the tables overflows the chainload page, and               *)
(* paging_map_page never finds a page mapped already.  The code has 16     *)
(* (RKHV_MAX_PAGE_TABLE_REGIONS).                                          *)
THEOREM OnlyFirmwareEverFails == ASSUME MaxRegions >= 10 PROVE StartupSpec => []OnlyFirmwareFails
<1>1. TablesInv => OnlyFirmwareFails
  BY DEF TablesInv, OnlyFirmwareFails
<1> QED
  BY <1>1, TablesAlways, PTL

-----------------------------------------------------------------------------
(* The spare descriptors.  A page that changes its type adds at most two   *)
(* descriptors: one that starts at it and one that starts after it.        *)
LEMMA StartsGrow ==
    ASSUME NEW p \in Page, \A q \in Page : q # p => types'[q] = types[q]
    PROVE  /\ Cardinality(Starts) \in Nat /\ Cardinality(Starts') \in Nat
           /\ Cardinality(Starts') <= Cardinality(Starts) + 2
<1>1. IsFiniteSet(Starts) /\ Cardinality(Starts) \in Nat
  <2>1. IsFiniteSet(0 .. PageCount)
    BY PageFacts, FS_Interval
  <2>2. Starts \subseteq 0 .. PageCount
    BY PageFacts DEF Starts
  <2> QED
    BY <2>1, <2>2, FS_Subset, FS_CardinalityType
<1> DEFINE S == Starts
           T == S \cup {p}
           U == T \cup {p + 1}
<1>2. Starts' \subseteq U
  <2> SUFFICES ASSUME NEW q \in Starts', q # p, q # p + 1
               PROVE  q \in Starts
    OBVIOUS
  <2>1. q \in Page /\ p \in Nat /\ q \in Nat
    BY PageFacts DEF Starts
  <2>2. q = 0 \/ (q - 1 \in Page /\ q - 1 # p)
    BY <2>1, PageFacts DEF Page
  <2>3. types'[q] = types[q] /\ (q = 0 \/ types'[q - 1] = types[q - 1])
    BY <2>1, <2>2
  <2> QED
    BY <2>1, <2>3 DEF Starts
<1> HIDE DEF S
<1>3. IsFiniteSet(S) /\ Cardinality(S) \in Nat
  BY <1>1 DEF S
<1>4. IsFiniteSet(T) /\ Cardinality(T) = IF p \in S THEN Cardinality(S) ELSE Cardinality(S) + 1
  BY <1>3, FS_AddElement
<1> HIDE DEF T
<1>5. IsFiniteSet(U) /\ Cardinality(U) = IF p + 1 \in T THEN Cardinality(T) ELSE Cardinality(T) + 1
  BY <1>4, FS_AddElement
<1> HIDE DEF U
<1>6. Cardinality(Starts') \in Nat /\ Cardinality(Starts') <= Cardinality(U)
  BY <1>2, <1>5, FS_Subset, FS_CardinalityType
<1> QED
  BY <1>1, <1>3, <1>4, <1>5, <1>6 DEF S

(* What is left of the spare room, two descriptors for each change of the  *)
(* memory map since its size was asked for.                                *)
SpareInv ==
    /\ error = "map" => pc = "failed"
    /\ mmap.sized /\ pc = "pool" => Cardinality(Starts) + 4 <= mmap.size + 2 * fw.events
    /\ mmap.sized /\ pc = "read" => Cardinality(Starts) + 2 <= mmap.size + 2 * fw.events
    /\ SpareSuffices

LEMMA SpareElsewhere ==
    ASSUME SpareInv, pc # "failed", pc' \notin {"pool", "read"},
           UNCHANGED error \/ error' \in Statuses \ {"map"}
    PROVE  SpareInv'
BY DEF SpareInv, SpareSuffices

LEMMA SizeMapSpare == ASSUME BootInv, SpareInv, SizeMap PROVE SpareInv'
<1>1. /\ mmap \in MmapRecord /\ mmap.size \in Nat
      /\ fw.events \in Nat /\ Cardinality(Starts) \in Nat
  BY StartsCounted DEF BootInv, BootType, MmapRecord, FirmwareRecord
<1>2. /\ pc = "size" /\ pc' = "pool" /\ UNCHANGED <<error, types, fw>>
      /\ Starts' = Starts /\ error # "map"
  BY DEF SizeMap, SpareInv, Starts
<1>3. mmap'.sized => mmap'.size \in Nat /\ Cardinality(Starts) + 4 <= mmap'.size
  <2>1. CASE mmap' = [mmap EXCEPT !.size = Cardinality(Starts) + 4, !.sized = TRUE]
    BY <1>1, <2>1 DEF MmapRecord
  <2>2. CASE /\ mmap.size >= Cardinality(Starts)
             /\ \E size \in IF mmap.sized THEN {mmap.size + 4} ELSE {0, Garbage} :
                   mmap' = [mmap EXCEPT !.size = size]
    BY <1>1, <2>2 DEF MmapRecord
  <2> QED
    BY <2>1, <2>2 DEF SizeMap
<1>4. mmap'.sized => Cardinality(Starts) + 4 <= mmap'.size + 2 * fw.events
  BY <1>1, <1>3
<1> QED
  BY <1>2, <1>4 DEF SpareInv, SpareSuffices

LEMMA AllocateBufferSpare == ASSUME BootInv, SpareInv, AllocateBuffer PROVE SpareInv'
<1>1. PICK b \in Blocks(1) :
          /\ AllocatePages(b, 1, "LoaderData")
          /\ mmap' = [mmap EXCEPT !.at = b.at, !.current = FALSE]
  BY DEF AllocateBuffer
<1>2. /\ pc = "pool" /\ pc' = "read" /\ UNCHANGED error /\ error # "map"
      /\ mmap.sized => Cardinality(Starts) + 4 <= mmap.size + 2 * fw.events
  BY DEF AllocateBuffer, SpareInv
<1>3. b.at \in Page /\ b.at \in Nat
  <2>1. b.at \in Page
    BY BlockFree
  <2> QED
    BY <2>1, PageFacts
<1>4. \A q \in Page : q # b.at => types'[q] = types[q]
  BY <1>1, <1>3, PageFacts DEF AllocatePages, Span
<1>5. /\ mmap'.sized = mmap.sized /\ mmap'.size = mmap.size /\ mmap.size \in Nat
      /\ fw'.events = fw.events /\ fw.events \in Nat
  BY <1>1 DEF BootInv, BootType, MmapRecord, FirmwareRecord, AllocatePages
<1>6. /\ Cardinality(Starts) \in Nat /\ Cardinality(Starts') \in Nat
      /\ Cardinality(Starts') <= Cardinality(Starts) + 2
  BY <1>3, <1>4, StartsGrow
<1>7. mmap'.sized => Cardinality(Starts') + 2 <= mmap'.size + 2 * fw'.events
  BY <1>2, <1>5, <1>6
<1> QED
  BY <1>2, <1>7 DEF SpareInv, SpareSuffices

LEMMA MapTooLargeSpare == ASSUME BootInv, SpareInv, MapTooLarge PROVE SpareInv'
<1>1. /\ pc = "read" /\ pc' = "failed" /\ UNCHANGED <<types, fw, mmap>>
      /\ Cardinality(Starts) > mmap.size
  BY DEF MapTooLarge, Fail
<1>2. mmap.size \in Nat /\ fw.events \in Nat /\ Cardinality(Starts) \in Nat
  BY StartsCounted DEF BootInv, BootType, MmapRecord, FirmwareRecord
<1>3. mmap.sized => Cardinality(Starts) + 2 <= mmap.size + 2 * fw.events
  BY <1>1 DEF SpareInv
<1>4. mmap.sized => fw.events > 1
  BY <1>1, <1>2, <1>3
<1> QED
  BY <1>1, <1>4 DEF SpareInv, SpareSuffices

LEMMA FirmwareEventSpare == ASSUME BootInv, SpareInv, FirmwareEvent PROVE SpareInv'
<1>1. /\ pc \in {"size", "pool", "read", "exit", "retry"} /\ pc' = pc /\ UNCHANGED error
      /\ fw' = [fw EXCEPT !.events = @ + 1] /\ mmap' = [mmap EXCEPT !.current = FALSE]
  BY DEF FirmwareEvent
<1>2. PICK p \in EventPages : \E type : types' = [types EXCEPT ![p] = type]
  BY DEF FirmwareEvent
<1>3. /\ mmap'.sized = mmap.sized /\ mmap'.size = mmap.size /\ mmap.size \in Nat
      /\ fw'.events = fw.events + 1 /\ fw.events \in Nat /\ error # "map"
  BY <1>1 DEF BootInv, BootType, MmapRecord, FirmwareRecord, SpareInv
<1>4. p \in Page /\ \A q \in Page : q # p => types'[q] = types[q]
  BY <1>2, BootConstants DEF BootInv, BootType
<1>5. /\ Cardinality(Starts) \in Nat /\ Cardinality(Starts') \in Nat
      /\ Cardinality(Starts') <= Cardinality(Starts) + 2
  BY <1>4, StartsGrow
<1>6. 2 * fw'.events = 2 * fw.events + 2
  BY <1>3
<1>7. mmap'.sized /\ pc' = "pool" => Cardinality(Starts') + 4 <= mmap'.size + 2 * fw'.events
  BY <1>1, <1>3, <1>5, <1>6 DEF SpareInv
<1>8. mmap'.sized /\ pc' = "read" => Cardinality(Starts') + 2 <= mmap'.size + 2 * fw'.events
  BY <1>1, <1>3, <1>5, <1>6 DEF SpareInv
<1> QED
  BY <1>1, <1>3, <1>7, <1>8 DEF SpareInv, SpareSuffices

LEMMA BootStepSpare == ASSUME BootInv, SpareInv, BootStep PROVE SpareInv'
<1>1. CASE AllocateChainload \/ LoadSection \/ LoadAttachment \/ AttachmentNotFound
  BY <1>1, SpareElsewhere DEF AllocateChainload, LoadSection, LoadAttachment, AttachmentNotFound
<1>2. CASE AllocatePml4 \/ AllocateTable \/ AllocatePdpt \/ MapPhysical
  <2>1. /\ pc # "failed" /\ pc' \in {"failed", "map", "pds", "level"}
        /\ UNCHANGED error \/ error' \in {"EFI_BUFFER_TOO_SMALL", "EFI_OUT_OF_RESOURCES"}
    BY <1>2 DEF AllocatePml4, AllocateTable, AllocatePdpt, MapPhysical, PagingAllocatePage, Fail
  <2> QED
    BY <2>1, SpareElsewhere DEF Statuses
<1>3. CASE MapPage
  <2>1. /\ pc # "failed" /\ pc' \in {"failed", "map", "pdpt"}
        /\ UNCHANGED error \/ error' \in {"EFI_UNSUPPORTED", "EFI_OUT_OF_RESOURCES"}
    BY <1>3 DEF MapPage, ConflictStatus, Fail
  <2> QED
    BY <2>1, SpareElsewhere DEF Statuses
<1>4. CASE LevelSupported \/ LevelUnsupported \/ FirmwareError
  BY <1>4, SpareElsewhere DEF LevelSupported, LevelUnsupported, FirmwareError, Fail, Statuses
<1>5. CASE ReadMap \/ ExitBootServices \/ ExitRefused \/ Retry
  BY <1>5, SpareElsewhere DEF ReadMap, ExitBootServices, ExitRefused, Retry
<1>6. CASE MergeDescriptor \/ MergeEnds \/ Chainload
  BY <1>6, SpareElsewhere DEF MergeDescriptor, MergeEnds, Chainload
<1> QED
  BY <1>1, <1>2, <1>3, <1>4, <1>5, <1>6, SizeMapSpare, AllocateBufferSpare, MapTooLargeSpare
  DEF BootStep

LEMMA SpareKeeps == BootInv /\ SpareInv /\ [StartupNext]_vars => SpareInv'
<1> SUFFICES ASSUME BootInv, SpareInv, [StartupNext]_vars PROVE SpareInv'
  OBVIOUS
<1>1. CASE BootPhase
  BY <1>1, BootStepSpare DEF BootPhase
<1>2. CASE HvMain
  BY <1>2, SpareElsewhere DEF HvMain
<1>3. CASE FirmwareEvent
  BY <1>3, FirmwareEventSpare
<1>4. CASE UNCHANGED bootVars
  BY <1>4 DEF bootVars, SpareInv, SpareSuffices, Starts
<1> QED
  BY <1>1, <1>2, <1>3, <1>4 DEF StartupNext, Step, GuestPhase, vars

(* The memory map outgrows the buffer that was made 4 descriptors larger   *)
(* than asked for only if the firmware takes or frees pages more than      *)
(* once, or never said how large a descriptor is: the buffer itself and    *)
(* one event of the firmware always fit.                                   *)
THEOREM SpareAlwaysSuffices == StartupSpec => []SpareSuffices
<1>1. StartupInit => SpareInv
  BY DEF StartupInit, Init, SpareInv, SpareSuffices
<1>2. SpareInv => SpareSuffices
  BY DEF SpareInv
<1>3. StartupInv => BootInv
  BY DEF StartupInv
<1> QED
  BY <1>1, <1>2, <1>3, SpareKeeps, StartupAlways, PTL DEF StartupSpec
=============================================================================
