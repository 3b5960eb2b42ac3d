------------------------- MODULE HostMemoryProofs -------------------------
(***************************************************************************)
(* The memory of the host and the EPTs of the guests, for any memory map,  *)
(* any number of machines, any sizes and any number of entries in a table. *)
(***************************************************************************)
EXTENDS HostMemory, PageListProofs, FiniteSetTheorems

Owners == INSTANCE PageOwnershipProofs
    WITH own <- [o \in HostOwner |-> OwnedPages(o)],
         pending <- IF task.pc = "vmcs" THEN {task.vm} ELSE {}

-----------------------------------------------------------------------------
(* The inductive invariant.  First the types.                              *)
MaybePage == Usable \cup {NoPage}
Index == 0 .. Entries - 1

ArenaRecord == [page : MaybePage, used_size : 0 .. ArenaSize]

VmRecord == [created : BOOLEAN, guest_physical_pages : 0 .. EptSpan(4), eptp : MaybePage,
             vmcs_region : MaybePage, vmcs_initialized : BOOLEAN]

TaskRecord == [pc : {"idle", "reserve", "reserve_track", "guest", "guest_track", "map",
                     "table_track", "vmcs"},
               vm : Vm \cup {NoVm}, left : Nat, gpa : Nat, hand : MaybePage, hpa : MaybePage,
               table : MaybePage, level : 0 .. 5]

Contents == {"unknown", "arena", "vmxon", "bitmaps", "vmcs", "table", "guest"}

HostType ==
    /\ chainload \in Chainloads
    /\ cursor \in {0} \cup DOMAIN ScanOrder
    /\ arenas \in [ArenaNames -> ArenaRecord]
    /\ vmxon \in MaybePage
    /\ bitmaps \in MaybePage
    /\ content \in [Page -> Contents]
    /\ entry \in [Page -> [Index -> Usable \cup {NoPage, Junk}]]
    /\ vms \in [Vm -> VmRecord]
    /\ tracked \in [Vm -> Seq(ListNode)]
    /\ devices \in 0 .. MaxDevices
    /\ task \in TaskRecord

(* The nodes of a list are disjoint, start at a usable page even when they *)
(* are empty, and hold usable pages of the three kinds.                    *)
WellTracked(list) ==
    /\ Disjoint(list)
    /\ \A i \in DOMAIN list :
          /\ Interval(list[i]) \subseteq Usable
          /\ list[i].physical_address \in Usable
          /\ <<list[i].page_type, list[i].reserved_pool>> \in Kinds

InNoNode(list, page) == \A i \in DOMAIN list : page \notin Interval(list[i])

(* What the order of the calls guarantees: a call belongs to a machine,    *)
(* a machine exists only once VMX is on, and only the VMCS region of the   *)
(* call in progress is not marked initialised.                             *)
CallOrder ==
    /\ task.pc = "idle" => task = Idle
    /\ task.pc # "idle" => task.vm \in Vm
    /\ vmxon = NoPage => task.pc = "idle" /\ \A v \in Vm : ~vms[v].created
    /\ \A v \in Vm : vms[v].guest_physical_pages # 0 => vms[v].created
    /\ \A v \in Vm : vms[v].vmcs_region # NoPage =>
          vms[v].vmcs_initialized \/ (task.pc = "vmcs" /\ task.vm = v)

(* The page in hand is in no node of the list it is about to enter.        *)
HandInv == Tracking => task.hand \in Usable /\ InNoNode(tracked[task.vm], task.hand)

Base ==
    /\ HostType
    /\ \A v \in Vm : WellTracked(tracked[v])
    /\ CallOrder
    /\ HandInv
    /\ Owners!OwnershipInv

(* The EPT of a machine, node by node: At(v, l, g) is the table of level l *)
(* (the guest page for l = 0) on the walk for guest page g.                *)
At(v, l, g) ==
    CASE l = 4 -> vms[v].eptp
      [] l = 3 -> Lookup(vms[v].eptp, EptIndex(g, 4))
      [] l = 2 -> Lookup(Lookup(vms[v].eptp, EptIndex(g, 4)), EptIndex(g, 3))
      [] l = 1 -> Lookup(Lookup(Lookup(vms[v].eptp, EptIndex(g, 4)), EptIndex(g, 3)),
                         EptIndex(g, 2))
      [] l = 0 -> Translate(v, g)

(* Guest pages are mapped in order: at level l there is a table for every  *)
(* page below Upto(v, l), and for no block of pages above it.              *)
Mapping == task.pc \in {"map", "table_track"}

Upto(v, l) == IF Mapping /\ task.vm = v /\ task.level <= l THEN task.gpa + 1 ELSE Mapped(v)

Block(g, l) == g \div EptSpan(l)

Linked(v, l, g) == Block(g, l) * EptSpan(l) < Upto(v, l)

Ept(v) == PagesOf(tracked[v], "EPT", 0)
Pool(v) == PagesOf(tracked[v], "EPT", 1)
GuestMemory(v) == PagesOf(tracked[v], "GUEST_PHYSICAL", 0)

Held(v, l) == IF l = 0 THEN GuestMemory(v) ELSE Ept(v)

Blank(v) == Pool(v) \cup InHand(v, "reserve_track") \cup InHand(v, "table_track")

(* The nodes that exist are those of the pages mapped so far, they are the *)
(* pages tracked as such, no two of them are one page, and the tables of   *)
(* the pool are blank.                                                     *)
EptInv(v) ==
    /\ \A l \in 0 .. 4, g \in GuestAddresses : At(v, l, g) # NoPage <=> Linked(v, l, g)
    /\ \A l \in 0 .. 4, g \in GuestAddresses : At(v, l, g) \in Held(v, l) \cup {NoPage}
    /\ \A l, k \in 0 .. 4, g, h \in GuestAddresses :
          At(v, l, g) = At(v, k, h) /\ At(v, l, g) # NoPage => l = k /\ Block(g, l) = Block(h, l)
    /\ \A t \in Ept(v) : \E l \in 1 .. 4, g \in GuestAddresses : t = At(v, l, g)
    /\ \A p \in GuestMemory(v) :
          (task.vm = v /\ p = task.hpa) \/ \E g \in GuestAddresses : p = At(v, 0, g)
    /\ \A t \in Ept(v) \cup Blank(v) : content[t] = "table"
    /\ \A t \in Blank(v) : entry[t] = [i \in Index |-> NoPage]

(* Where the walk of vmx_ept_map_page is.                                  *)
WalkInv ==
    /\ task.pc \in {"guest", "guest_track"} \/ Mapping
           => task.gpa <= vms[task.vm].guest_physical_pages
    /\ task.pc \in {"reserve", "reserve_track"} => task.gpa = 0
    /\ task.pc = "reserve_track" => task.left > 0
    /\ task.pc = "guest_track" \/ Mapping => task.gpa < vms[task.vm].guest_physical_pages
    /\ ~Mapping => task.hpa = NoPage
    /\ Mapping =>
          /\ task.hpa \in GuestMemory(task.vm)
          /\ \A g \in GuestAddresses : At(task.vm, 0, g) # task.hpa
          /\ task.level \in 1 .. 5
          /\ task.table = IF task.level = 5 THEN NoPage ELSE At(task.vm, task.level, task.gpa)
    /\ task.pc = "table_track" => task.level > 1 /\ At(task.vm, task.level - 1, task.gpa) = NoPage

(* The pool holds the tables of the whole machine but for those in use.    *)
Reserved(v) ==
    IF task.vm = v /\ task.pc \in {"reserve", "reserve_track"}
    THEN EptPages(vms[v].guest_physical_pages) - task.left
    ELSE EptPages(vms[v].guest_physical_pages)

TablesOf(v, l) == CeilDiv(Upto(v, l), EptSpan(l))

InUse(v) == TablesOf(v, 1) + TablesOf(v, 2) + TablesOf(v, 3) + TablesOf(v, 4)
                + (IF task.vm = v /\ task.pc = "table_track" THEN 1 ELSE 0)

PoolInv(v) ==
    /\ IsFiniteSet(Pool(v))
    /\ Cardinality(Pool(v)) = Reserved(v) - InUse(v)

HostInv ==
    /\ Base
    /\ WalkInv
    /\ \A v \in Vm : EptInv(v) /\ PoolInv(v)

-----------------------------------------------------------------------------
(* Guest addresses as the walk takes them apart.                           *)
LEMMA SpanFacts ==
    /\ Entries \in Nat \ {0, 1}
    /\ \A l \in 0 .. 4 : EptSpan(l) \in Nat \ {0}
    /\ \A l \in 0 .. 3 : EptSpan(l + 1) = EptSpan(l) * Entries
    /\ EptSpan(0) = 1
<1>1. Entries \in Nat \ {0, 1}
  BY HostConstants
<1>2. /\ EptSpan(0) = 1 /\ EptSpan(1) = Entries /\ EptSpan(2) = Entries * Entries
      /\ EptSpan(3) = Entries * Entries * Entries
      /\ EptSpan(4) = Entries * Entries * Entries * Entries
  BY DEF EptSpan
<1>3. /\ Entries * Entries \in Nat \ {0}
      /\ Entries * Entries * Entries \in Nat \ {0}
      /\ Entries * Entries * Entries * Entries \in Nat \ {0}
  BY <1>1
<1>4. \A l \in 0 .. 4 : EptSpan(l) \in Nat \ {0}
  BY <1>1, <1>2, <1>3
<1>5. ASSUME NEW l \in 0 .. 3
      PROVE  EptSpan(l + 1) = EptSpan(l) * Entries
  <2>1. l = 0 \/ l = 1 \/ l = 2 \/ l = 3
    OBVIOUS
  <2> QED
    BY <1>1, <1>2, <2>1
<1> QED
  BY <1>1, <1>2, <1>4, <1>5

LEMMA BlockBounds ==
    ASSUME NEW g \in Nat, NEW l \in 0 .. 4
    PROVE  /\ Block(g, l) \in Nat
           /\ Block(g, l) * EptSpan(l) <= g
           /\ g < Block(g, l) * EptSpan(l) + EptSpan(l)
<1>1. PICK s \in Nat \ {0} : s = EptSpan(l)
  BY SpanFacts
<1>2. PICK q \in Nat, r \in 0 .. s - 1 : g \div s = q /\ g % s = r /\ g = s * q + r
  BY DivMod
<1>3. Block(g, l) = q
  BY <1>1, <1>2 DEF Block
<1>4. q * s <= g /\ g < q * s + s
  BY <1>2
<1> QED
  BY <1>1, <1>3, <1>4

(* The block of a level is the block of the next level and the index there.*)
LEMMA BlockSplits ==
    ASSUME NEW g \in Nat, NEW l \in 0 .. 3
    PROVE  /\ EptIndex(g, l + 1) \in Index
           /\ Block(g, l) = Entries * Block(g, l + 1) + EptIndex(g, l + 1)
           /\ Block(g, l + 1) * EptSpan(l + 1) <= Block(g, l) * EptSpan(l)
<1>1. PICK s \in Nat \ {0} : s = EptSpan(l)
  BY SpanFacts
<1>2. PICK E \in Nat \ {0} : E = Entries
  BY SpanFacts
<1>3. EptSpan(l + 1) = s * E
  BY <1>1, <1>2, SpanFacts
<1>4. PICK q \in Nat, r \in 0 .. s - 1 : g \div s = q /\ g % s = r /\ g = s * q + r
  BY DivMod
<1>5. PICK i \in Nat, j \in 0 .. E - 1 : q \div E = i /\ q % E = j /\ q = E * i + j
  BY DivMod
<1>6. s * E \in Nat \ {0}
  OBVIOUS
<1>7. s * j + r \in 0 .. s * E - 1
  <2>1. s * j <= s * (E - 1)
    OBVIOUS
  <2>2. s * (E - 1) = s * E - s /\ s * j \in Nat
    OBVIOUS
  <2> QED
    BY <2>1, <2>2, <1>6
<1>8. g = (s * E) * i + (s * j + r)
  BY <1>4, <1>5
<1>9. g \div (s * E) = i
  BY <1>6, <1>7, <1>8, DivUnique
<1>10. Block(g, l) = q /\ Block(g, l + 1) = i /\ EptIndex(g, l + 1) = j
  <2>1. (l + 1) - 1 = l
    OBVIOUS
  <2>2. EptIndex(g, l + 1) = (g \div EptSpan(l)) % Entries
    BY <2>1, Zenon DEF EptIndex
  <2>3. EptIndex(g, l + 1) = j
    BY <1>1, <1>2, <1>4, <1>5, <2>2
  <2>4. Block(g, l) = q /\ Block(g, l + 1) = i
    BY <1>1, <1>3, <1>4, <1>9 DEF Block
  <2> QED
    BY <2>3, <2>4
<1>11. i * (s * E) <= q * s
  <2>1. q * s = i * (s * E) + j * s
    BY <1>5
  <2>2. j * s \in Nat /\ i * (s * E) \in Nat
    OBVIOUS
  <2> QED
    BY <2>1, <2>2
<1> QED
  BY <1>1, <1>2, <1>3, <1>5, <1>10, <1>11 DEF Index

LEMMA SameBlock ==
    ASSUME NEW g \in Nat, NEW h \in Nat, NEW l \in 0 .. 3
    PROVE  Block(g, l) = Block(h, l) <=>
               Block(g, l + 1) = Block(h, l + 1) /\ EptIndex(g, l + 1) = EptIndex(h, l + 1)
<1>1. PICK E \in Nat \ {0} : E = Entries
  BY SpanFacts
<1>0. l + 1 \in 0 .. 4
  OBVIOUS
<1>2. PICK q \in Nat, i \in 0 .. E - 1 :
          q = Block(g, l + 1) /\ i = EptIndex(g, l + 1) /\ Block(g, l) = E * q + i
  <2>1. Block(g, l + 1) \in Nat
    BY <1>0, BlockBounds
  <2>2. EptIndex(g, l + 1) \in 0 .. E - 1
        /\ Block(g, l) = E * Block(g, l + 1) + EptIndex(g, l + 1)
    BY <1>1, BlockSplits DEF Index
  <2> QED
    BY <2>1, <2>2
<1>3. PICK r \in Nat, j \in 0 .. E - 1 :
          r = Block(h, l + 1) /\ j = EptIndex(h, l + 1) /\ Block(h, l) = E * r + j
  <2>1. Block(h, l + 1) \in Nat
    BY <1>0, BlockBounds
  <2>2. EptIndex(h, l + 1) \in 0 .. E - 1
        /\ Block(h, l) = E * Block(h, l + 1) + EptIndex(h, l + 1)
    BY <1>1, BlockSplits DEF Index
  <2> QED
    BY <2>1, <2>2
<1>4. E * q + i = E * r + j => q = r /\ i = j
  <2>1. SUFFICES ASSUME E * q + i = E * r + j PROVE q = r /\ i = j
    OBVIOUS
  <2>2. E * q + i \in Nat
    OBVIOUS
  <2>3. (E * q + i) \div E = q /\ (E * q + i) % E = i
    BY <2>2, DivUnique
  <2>4. (E * q + i) \div E = r /\ (E * q + i) % E = j
    BY <2>1, <2>2, DivUnique
  <2> QED
    BY <2>3, <2>4
<1> QED
  BY <1>2, <1>3, <1>4

(* One EPT maps exactly the guest addresses.                               *)
LEMMA GuestBlock ==
    ASSUME NEW g \in Nat
    PROVE  g \in GuestAddresses <=> Block(g, 4) = 0
<1>1. PICK s \in Nat \ {0} : s = EptSpan(4)
  BY SpanFacts
<1>2. PICK q \in Nat, r \in 0 .. s - 1 : g \div s = q /\ g % s = r /\ g = s * q + r
  BY DivMod
<1>3. g < s <=> q = 0
  <2>1. q >= 1 => s * q >= s
    OBVIOUS
  <2> QED
    BY <1>2, <2>1
<1>4. Block(g, 4) = q
  BY <1>1, <1>2 DEF Block
<1>5. g \in GuestAddresses <=> g < s
  BY <1>1 DEF GuestAddresses
<1> QED
  BY <1>3, <1>4, <1>5

(* A table has an entry for every index.                                   *)
LEMMA IndexReached ==
    ASSUME NEW g \in GuestAddresses, NEW l \in 0 .. 3, NEW i \in Index
    PROVE  \E h \in GuestAddresses :
               Block(h, l + 1) = Block(g, l + 1) /\ EptIndex(h, l + 1) = i
<1>1. g \in Nat /\ i \in Nat
  BY DEF GuestAddresses, Index
<1>2. PICK s \in Nat \ {0} : s = EptSpan(l)
  BY SpanFacts
<1>3. PICK E \in Nat \ {0} : E = Entries
  BY SpanFacts
<1>4. PICK q \in Nat : q = Block(g, l + 1)
  BY <1>1, BlockBounds
<1>5. PICK h \in Nat : h = s * (E * q + i)
  BY <1>1
<1>6. h \div s = E * q + i
  <2>1. h = s * (E * q + i) + 0 /\ E * q + i \in Nat /\ 0 \in 0 .. s - 1
    BY <1>1, <1>5
  <2> QED
    BY <2>1, DivUnique
<1>7. Block(h, l) = E * q + i
  BY <1>2, <1>6 DEF Block
<1>8. Block(h, l) = E * Block(h, l + 1) + EptIndex(h, l + 1)
      /\ Block(h, l + 1) \in Nat /\ EptIndex(h, l + 1) \in 0 .. E - 1
  <2>1. l + 1 \in 0 .. 4
    OBVIOUS
  <2>2. Block(h, l + 1) \in Nat
    BY <2>1, BlockBounds
  <2> QED
    BY <1>3, <2>2, BlockSplits DEF Index
<1>9. Block(h, l + 1) = q /\ EptIndex(h, l + 1) = i
  <2>1. PICK r \in Nat, j \in 0 .. E - 1 : r = Block(h, l + 1) /\ j = EptIndex(h, l + 1)
    BY <1>8
  <2>2. E * q + i = E * r + j /\ i \in 0 .. E - 1 /\ E * q + i \in Nat
    BY <1>1, <1>3, <1>7, <1>8, <2>1 DEF Index
  <2>3. (E * q + i) \div E = q /\ (E * q + i) % E = i
    BY <2>2, DivUnique
  <2>4. (E * q + i) \div E = r /\ (E * q + i) % E = j
    BY <2>2, DivUnique
  <2> QED
    BY <2>1, <2>3, <2>4
<1>10. Block(h, 4) = Block(g, 4)
  <2>1. \A k \in 0 .. 3 : Block(h, k) = Block(g, k) => Block(h, k + 1) = Block(g, k + 1)
    BY <1>1, SameBlock
  <2>2. Block(h, l + 1) = Block(g, l + 1) /\ l + 1 \in 1 .. 4
    BY <1>4, <1>9
  <2>3. l + 1 = 1 \/ l + 1 = 2 \/ l + 1 = 3 \/ l + 1 = 4
    OBVIOUS
  <2>4. /\ Block(h, 1) = Block(g, 1) => Block(h, 2) = Block(g, 2)
        /\ Block(h, 2) = Block(g, 2) => Block(h, 3) = Block(g, 3)
        /\ Block(h, 3) = Block(g, 3) => Block(h, 4) = Block(g, 4)
    <3>1. 1 + 1 = 2 /\ 2 + 1 = 3 /\ 3 + 1 = 4 /\ {1, 2, 3} \subseteq 0 .. 3
      OBVIOUS
    <3> QED
      BY <2>1, <3>1
  <2> QED
    BY <2>2, <2>3, <2>4
<1>11. h \in GuestAddresses
  BY <1>1, <1>10, GuestBlock
<1> QED
  BY <1>4, <1>9, <1>11

-----------------------------------------------------------------------------
(* The pages of the machine, and mm_get_free_page.                         *)
LEMMA PageFacts ==
    /\ Usable \subseteq Nat /\ Usable \subseteq Page /\ Page \subseteq Nat
    /\ NoPage \notin Page /\ Junk \notin Page /\ NoPage \notin Usable /\ NoPage # Junk
    /\ \A i \in DOMAIN ScanOrder : ScanOrder[i] \in Usable
    /\ Chainloads \subseteq SUBSET Page
    /\ NoVm \notin Vm
<1>1. Usable \subseteq Nat
  BY HostConstants DEF Usable
<1>2. Page \subseteq Nat
  BY <1>1, HostConstants DEF Page
<1>3. NoPage \notin Nat /\ Junk \notin Nat /\ NoPage # Junk
  BY DEF NoPage, Junk
<1> QED
  BY <1>1, <1>2, <1>3, HostConstants DEF Page, Usable

LEMMA FoundFree ==
    ASSUME NEW slot \in FoundSlot
    PROVE  /\ slot \in DOMAIN ScanOrder
           /\ ScanOrder[slot] \in Usable
           /\ ScanOrder[slot] \notin UsedPages
<1> DEFINE ahead == {i \in FreeSlots : i >= cursor}
<1>1. FreeSlots \subseteq Nat /\ ahead \subseteq FreeSlots
  BY HostConstants DEF FreeSlots
<1>2. ASSUME NEW S, S \subseteq Nat, S # {}
      PROVE  Min(S) \in S
  <2>1. \E x \in S : \A y \in S : x <= y
    BY <1>2, LeastExists
  <2> QED
    BY <2>1 DEF Min
<1>3. slot \in FreeSlots
  <2>1. CASE ahead # {}
    <3>1. slot = Min(ahead)
      BY <2>1 DEF FoundSlot
    <3>2. Min(ahead) \in ahead
      BY <1>1, <1>2, <2>1
    <3> QED
      BY <3>1, <3>2
  <2>2. CASE ahead = {} /\ FreeSlots # {}
    <3>1. slot = Min(FreeSlots)
      BY <2>2 DEF FoundSlot
    <3>2. Min(FreeSlots) \in FreeSlots
      BY <1>1, <1>2, <2>2
    <3> QED
      BY <3>1, <3>2
  <2>3. CASE FreeSlots = {}
    BY <2>3 DEF FoundSlot
  <2> QED
    BY <2>1, <2>2, <2>3
<1> QED
  BY <1>3, PageFacts DEF FreeSlots

LEMMA NoneFree ==
    ASSUME FoundSlot = {}
    PROVE  Usable \subseteq UsedPages
<1>1. FreeSlots = {}
  BY DEF FoundSlot
<1> QED
  BY <1>1 DEF FreeSlots, Usable

(* mm_page_used_by_vm_manager claims every page of a list.                 *)
LEMMA ListClaims ==
    ASSUME NEW l \in Seq(ListNode), WellTracked(l)
    PROVE  /\ \A k \in Kinds : PagesOf(l, k[1], k[2]) \subseteq ListUses(l, Page)
           /\ \A p \in Page : p \notin ListUses(l, Page) => InNoNode(l, p)
           /\ \A p : InNoNode(l, p) <=> \A k \in Kinds : p \notin PagesOf(l, k[1], k[2])
           /\ \A k \in Kinds : PagesOf(l, k[1], k[2]) \subseteq Usable
<1>1. \A p \in Page : p \notin ListUses(l, Page) => InNoNode(l, p)
  BY DEF ListUses, InNoNode
<1>2. ASSUME NEW p
      PROVE  InNoNode(l, p) <=> \A k \in Kinds : p \notin PagesOf(l, k[1], k[2])
  <2>1. \A k \in Kinds : p \in PagesOf(l, k[1], k[2]) <=>
            \E i \in DOMAIN l : /\ l[i].page_type = k[1]
                                /\ l[i].reserved_pool = k[2]
                                /\ p \in Interval(l[i])
    BY PagesOfMember
  <2>2. ASSUME NEW i \in DOMAIN l, p \in Interval(l[i])
        PROVE  \E k \in Kinds : p \in PagesOf(l, k[1], k[2])
    <3>1. <<l[i].page_type, l[i].reserved_pool>> \in Kinds
      BY DEF WellTracked
    <3>2. p \in PagesOf(l, l[i].page_type, l[i].reserved_pool)
      BY <2>2, PagesOfMember
    <3> QED
      BY <3>1, <3>2
  <2> QED
    BY <2>1, <2>2 DEF InNoNode
<1>3. ASSUME NEW k \in Kinds, NEW p \in PagesOf(l, k[1], k[2])
      PROVE  p \in Usable /\ p \in ListUses(l, Page)
  <2>1. PICK i \in DOMAIN l : p \in Interval(l[i])
    BY PagesOfMember
  <2> QED
    BY <2>1, PageFacts DEF WellTracked, ListUses
<1> QED
  BY <1>1, <1>2, <1>3

(* Without page 0 it claims no other page.                                 *)
LEMMA ListClaimsOnly ==
    ASSUME NEW l \in Seq(ListNode), WellTracked(l), 0 \notin Usable, NEW p \in ListUses(l, Page)
    PROVE  \E k \in Kinds : p \in PagesOf(l, k[1], k[2])
<1>1. PICK i \in DOMAIN l : p \in Interval(l[i]) \/ (l[i].pages = 0 /\ l[i].physical_address = 0)
  BY DEF ListUses
<1>2. p \in Interval(l[i])
  BY <1>1 DEF WellTracked
<1>3. ~InNoNode(l, p)
  BY <1>2 DEF InNoNode
<1> QED
  BY <1>3, ListClaims

(* vm_manager_track_page of a page in no node.                             *)
LEMMA TrackAdds ==
    ASSUME NEW l \in Seq(ListNode), WellTracked(l), NEW p \in Usable, InNoNode(l, p),
           NEW k \in Kinds, NEW l2, l2 = TrackPage(l, p, k[1], k[2])
    PROVE  /\ l2 \in Seq(ListNode)
           /\ WellTracked(l2)
           /\ AddsPage(l, l2, p, k)
<1>1. p \in Nat
  BY PageFacts
<1>2. PICK i \in 1 .. Len(l) + 1 : Grows(l, l2, i, p, k)
  BY <1>1, TrackGrows DEF InNoNode
<1>3. Disjoint(l2) /\ AddsPage(l, l2, p, k)
  BY <1>2, GrowsAdds DEF WellTracked, InNoNode
<1>4. l2 \in Seq(ListNode)
  BY <1>2 DEF Grows
<1>5. ASSUME NEW j \in DOMAIN l2
      PROVE  /\ Interval(l2[j]) \subseteq Usable
             /\ l2[j].physical_address \in Usable
             /\ <<l2[j].page_type, l2[j].reserved_pool>> \in Kinds
  <2>1. CASE j # i
    <3>1. j \in DOMAIN l /\ l2[j] = l[j]
      BY <1>2, <2>1 DEF Grows
    <3> QED
      BY <3>1 DEF WellTracked
  <2>2. CASE j = i
    <3>1. Interval(l2[j]) \subseteq Usable /\ p \in Interval(l2[j])
      BY <1>2, <2>2 DEF Grows, WellTracked
    <3>2. l2[j].physical_address \in Interval(l2[j])
      <4>1. l2[j].physical_address \in Nat /\ l2[j].pages \in Nat
        BY <1>4, NodesOfList, NodeFields
      <4> QED
        BY <3>1, <4>1 DEF Interval
    <3>3. <<l2[j].page_type, l2[j].reserved_pool>> = k
      BY <1>2, <2>2 DEF Grows, Kinds
    <3> QED
      BY <3>1, <3>2, <3>3
  <2> QED
    BY <2>1, <2>2
<1> QED
  BY <1>3, <1>4, <1>5 DEF WellTracked

(* vm_manager_untrack_page_from_reserved_pool of an EPT page.              *)
LEMMA UntrackRemoves ==
    ASSUME NEW l \in Seq(ListNode), WellTracked(l), NodesOf(l, "EPT", 1) # {},
           NEW p, p = UntrackedPage(l, "EPT"), NEW l2, l2 = UntrackPage(l, "EPT")
    PROVE  /\ l2 \in Seq(ListNode)
           /\ WellTracked(l2)
           /\ p \in PagesOf(l, "EPT", 1) /\ p \in Usable
           /\ InNoNode(l2, p)
           /\ RemovesPage(l, l2, p, <<"EPT", 1>>)
<1> DEFINE k == <<"EPT", 1>>
<1>0. k \in Kinds
  BY DEF Kinds
<1>1. PICK i \in DOMAIN l : Shrinks(l, l2, i, p, k)
  BY UntrackShrinks
<1>2. Disjoint(l2) /\ p \in PagesOf(l, "EPT", 1) /\ RemovesPage(l, l2, p, k)
  BY <1>0, <1>1, ShrinksRemoves DEF WellTracked
<1>3. l2 \in Seq(ListNode) /\ DOMAIN l2 = DOMAIN l
  BY <1>1 DEF Shrinks
<1>4. ASSUME NEW j \in DOMAIN l2
      PROVE  /\ Interval(l2[j]) \subseteq Usable
             /\ l2[j].physical_address \in Usable
             /\ <<l2[j].page_type, l2[j].reserved_pool>> \in Kinds
             /\ p \notin Interval(l2[j])
  <2>1. CASE j # i
    <3>1. j \in DOMAIN l /\ l2[j] = l[j] /\ p \in Interval(l[i])
      BY <1>1, <1>3, <2>1 DEF Shrinks
    <3> QED
      BY <2>1, <3>1 DEF WellTracked, Disjoint
  <2>2. CASE j = i
    <3>1. Interval(l2[i]) = Interval(l[i]) \ {p} /\ l2[i].physical_address = l[i].physical_address
      BY <1>1 DEF Shrinks
    <3>2. <<l2[i].page_type, l2[i].reserved_pool>> = k
      BY <1>1 DEF Shrinks
    <3> QED
      BY <1>0, <2>2, <3>1, <3>2 DEF WellTracked
  <2> QED
    BY <2>1, <2>2
<1>5. p \in Usable
  BY <1>0, <1>2, ListClaims
<1> QED
  BY <1>2, <1>3, <1>4, <1>5 DEF WellTracked, InNoNode

-----------------------------------------------------------------------------
(* Pages change hands as PageOwnership allows.                             *)
LEMMA OwnerNames == Owners!Owner = HostOwner
BY DEF Owners!Owner, Owners!HostRoles, Owners!VmRoles, HostOwner

LEMMA OwnerCases ==
    ASSUME NEW o \in HostOwner
    PROVE  \/ o \in {<<"chainload", NoVm>>, <<"arena", NoVm>>, <<"vmxon", NoVm>>, <<"bitmaps", NoVm>>}
           \/ \E v \in Vm : o \in {<<"vmcs", v>>, <<"ept", v>>, <<"pool", v>>, <<"guest", v>>}
BY DEF HostOwner

LEMMA OwnedValues ==
    /\ OwnedPages(<<"chainload", NoVm>>) = chainload
    /\ OwnedPages(<<"arena", NoVm>>) = UsedByArena \ {NoPage}
    /\ OwnedPages(<<"vmxon", NoVm>>) = {vmxon} \ {NoPage}
    /\ OwnedPages(<<"bitmaps", NoVm>>) = {bitmaps} \ {NoPage}
    /\ \A v \in Vm :
          /\ OwnedPages(<<"vmcs", v>>) = {vms[v].vmcs_region} \ {NoPage}
          /\ OwnedPages(<<"ept", v>>) = Ept(v) \cup InHand(v, "table_track")
          /\ OwnedPages(<<"pool", v>>) = Pool(v) \cup InHand(v, "reserve_track")
          /\ OwnedPages(<<"guest", v>>) = GuestMemory(v) \cup InHand(v, "guest_track")
BY DEF OwnedPages, Ept, Pool, GuestMemory

(* What the predicates of mm_page_is_free do not claim is nobody's, but    *)
(* for the VMCS region in progress.                                        *)
LEMMA ClaimedUsed ==
    ASSUME Base, ~Tracking, NEW o \in HostOwner,
           o \notin {"vmcs"} \X (IF task.pc = "vmcs" THEN {task.vm} ELSE {})
    PROVE  OwnedPages(o) \subseteq UsedPages
<1>1. CASE o \in {<<"chainload", NoVm>>, <<"arena", NoVm>>, <<"vmxon", NoVm>>, <<"bitmaps", NoVm>>}
  BY <1>1 DEF OwnedPages, UsedPages, UsedByVmx
<1>2. ASSUME NEW v \in Vm, o = <<"vmcs", v>>
      PROVE  OwnedPages(o) \subseteq UsedPages
  <2>1. vms[v].vmcs_region # NoPage => vms[v].vmcs_initialized
    BY <1>2 DEF Base, CallOrder
  <2> QED
    BY <1>2, <2>1 DEF OwnedPages, UsedPages, UsedByVmManager
<1>3. ASSUME NEW v \in Vm, NEW r \in {"ept", "pool", "guest"}, o = <<r, v>>
      PROVE  OwnedPages(o) \subseteq UsedPages
  <2>1. /\ InHand(v, "table_track") = {} /\ InHand(v, "reserve_track") = {}
        /\ InHand(v, "guest_track") = {}
    BY DEF InHand, Tracking
  <2>2. PICK k \in Kinds : OwnedPages(o) = PagesOf(tracked[v], k[1], k[2])
    <3>1. CASE r = "ept"
      <4>1. OwnedPages(o) = PagesOf(tracked[v], "EPT", 0)
        BY <1>3, <2>1, <3>1 DEF OwnedPages
      <4> QED
        BY <4>1 DEF Kinds
    <3>2. CASE r = "pool"
      <4>1. OwnedPages(o) = PagesOf(tracked[v], "EPT", 1)
        BY <1>3, <2>1, <3>2 DEF OwnedPages
      <4> QED
        BY <4>1 DEF Kinds
    <3>3. CASE r = "guest"
      <4>1. OwnedPages(o) = PagesOf(tracked[v], "GUEST_PHYSICAL", 0)
        BY <1>3, <2>1, <3>3 DEF OwnedPages
      <4> QED
        BY <4>1 DEF Kinds
    <3> QED
      BY <3>1, <3>2, <3>3
  <2>3. PagesOf(tracked[v], k[1], k[2]) \subseteq ListUses(tracked[v], Page)
    BY ListClaims DEF Base, HostType
  <2> QED
    BY <2>2, <2>3 DEF UsedPages, UsedByVmManager
<1> QED
  BY <1>1, <1>2, <1>3, OwnerCases

(* Only owner o gains the page a call of mm_get_free_page returned.        *)
Gains(o, p) ==
    \A q \in HostOwner : OwnedPages(q)' = IF q = o THEN OwnedPages(q) \cup {p} ELSE OwnedPages(q)

(* Owner by owner.                                                         *)
Gift(o, q, p) == IF q = o THEN {p} ELSE {}

LEMMA GainsByParts ==
    ASSUME NEW o \in HostOwner, NEW p,
           chainload' = chainload \cup Gift(o, <<"chainload", NoVm>>, p),
           UsedByArena' \ {NoPage} = (UsedByArena \ {NoPage}) \cup Gift(o, <<"arena", NoVm>>, p),
           {vmxon'} \ {NoPage} = ({vmxon} \ {NoPage}) \cup Gift(o, <<"vmxon", NoVm>>, p),
           {bitmaps'} \ {NoPage} = ({bitmaps} \ {NoPage}) \cup Gift(o, <<"bitmaps", NoVm>>, p),
           \A v \in Vm :
               /\ {vms'[v].vmcs_region} \ {NoPage} =
                      ({vms[v].vmcs_region} \ {NoPage}) \cup Gift(o, <<"vmcs", v>>, p)
               /\ Ept(v)' \cup InHand(v, "table_track")' =
                      (Ept(v) \cup InHand(v, "table_track")) \cup Gift(o, <<"ept", v>>, p)
               /\ Pool(v)' \cup InHand(v, "reserve_track")' =
                      (Pool(v) \cup InHand(v, "reserve_track")) \cup Gift(o, <<"pool", v>>, p)
               /\ GuestMemory(v)' \cup InHand(v, "guest_track")' =
                      (GuestMemory(v) \cup InHand(v, "guest_track")) \cup Gift(o, <<"guest", v>>, p)
    PROVE  Gains(o, p)
<1> SUFFICES ASSUME NEW q \in HostOwner
             PROVE  OwnedPages(q)' = OwnedPages(q) \cup Gift(o, q, p)
  BY DEF Gains, Gift
<1>1. CASE q = <<"chainload", NoVm>>
  BY <1>1 DEF OwnedPages
<1>2. CASE q = <<"arena", NoVm>>
  BY <1>2 DEF OwnedPages
<1>3. CASE q = <<"vmxon", NoVm>>
  BY <1>3 DEF OwnedPages
<1>4. CASE q = <<"bitmaps", NoVm>>
  BY <1>4 DEF OwnedPages
<1>5. ASSUME NEW v \in Vm, q = <<"vmcs", v>>
      PROVE  OwnedPages(q)' = OwnedPages(q) \cup Gift(o, q, p)
  BY <1>5 DEF OwnedPages
<1>6. ASSUME NEW v \in Vm, q = <<"ept", v>>
      PROVE  OwnedPages(q)' = OwnedPages(q) \cup Gift(o, q, p)
  BY <1>6 DEF OwnedPages, Ept
<1>7. ASSUME NEW v \in Vm, q = <<"pool", v>>
      PROVE  OwnedPages(q)' = OwnedPages(q) \cup Gift(o, q, p)
  BY <1>7 DEF OwnedPages, Pool
<1>8. ASSUME NEW v \in Vm, q = <<"guest", v>>
      PROVE  OwnedPages(q)' = OwnedPages(q) \cup Gift(o, q, p)
  BY <1>8 DEF OwnedPages, GuestMemory
<1> QED
  BY <1>1, <1>2, <1>3, <1>4, <1>5, <1>6, <1>7, <1>8, OwnerCases

(* The hypervisor takes a page for itself, or for a machine.               *)
LEMMA HostGains ==
    ASSUME NEW r \in {"arena", "vmxon", "bitmaps"}, NEW p, UNCHANGED <<chainload, tracked>>,
           UsedByArena' \ {NoPage} =
               (UsedByArena \ {NoPage}) \cup (IF r = "arena" THEN {p} ELSE {}),
           {vmxon'} \ {NoPage} = ({vmxon} \ {NoPage}) \cup (IF r = "vmxon" THEN {p} ELSE {}),
           {bitmaps'} \ {NoPage} = ({bitmaps} \ {NoPage}) \cup (IF r = "bitmaps" THEN {p} ELSE {}),
           \A v \in Vm : /\ vms'[v].vmcs_region = vms[v].vmcs_region
                         /\ InHand(v, "table_track")' = InHand(v, "table_track")
                         /\ InHand(v, "reserve_track")' = InHand(v, "reserve_track")
                         /\ InHand(v, "guest_track")' = InHand(v, "guest_track")
    PROVE  Gains(<<r, NoVm>>, p) /\ <<r, NoVm>> \in HostOwner
<1>1. PICK o \in HostOwner : o = <<r, NoVm>>
  BY DEF HostOwner
<1>2. /\ Gift(o, <<"chainload", NoVm>>, p) = {}
      /\ Gift(o, <<"arena", NoVm>>, p) = IF r = "arena" THEN {p} ELSE {}
      /\ Gift(o, <<"vmxon", NoVm>>, p) = IF r = "vmxon" THEN {p} ELSE {}
      /\ Gift(o, <<"bitmaps", NoVm>>, p) = IF r = "bitmaps" THEN {p} ELSE {}
      /\ \A v \in Vm : /\ Gift(o, <<"vmcs", v>>, p) = {} /\ Gift(o, <<"ept", v>>, p) = {}
                       /\ Gift(o, <<"pool", v>>, p) = {} /\ Gift(o, <<"guest", v>>, p) = {}
  BY <1>1 DEF Gift
<1>3. \A v \in Vm : Ept(v)' = Ept(v) /\ Pool(v)' = Pool(v) /\ GuestMemory(v)' = GuestMemory(v)
  BY DEF Ept, Pool, GuestMemory
<1>4. Gains(o, p)
  BY <1>2, <1>3, GainsByParts
<1> QED
  BY <1>1, <1>4

LEMMA VmGains ==
    ASSUME NEW r \in {"vmcs", "pool", "guest"}, NEW w \in Vm, NEW p,
           UNCHANGED <<chainload, arenas, vmxon, bitmaps, tracked>>,
           \A v \in Vm :
               /\ {vms'[v].vmcs_region} \ {NoPage} =
                      ({vms[v].vmcs_region} \ {NoPage}) \cup (IF r = "vmcs" /\ v = w THEN {p} ELSE {})
               /\ InHand(v, "table_track")' = InHand(v, "table_track")
               /\ InHand(v, "reserve_track")' =
                      InHand(v, "reserve_track") \cup (IF r = "pool" /\ v = w THEN {p} ELSE {})
               /\ InHand(v, "guest_track")' =
                      InHand(v, "guest_track") \cup (IF r = "guest" /\ v = w THEN {p} ELSE {})
    PROVE  Gains(<<r, w>>, p) /\ <<r, w>> \in HostOwner
<1>1. PICK o \in HostOwner : o = <<r, w>>
  BY DEF HostOwner
<1>2. /\ Gift(o, <<"chainload", NoVm>>, p) = {}
      /\ Gift(o, <<"arena", NoVm>>, p) = {}
      /\ Gift(o, <<"vmxon", NoVm>>, p) = {}
      /\ Gift(o, <<"bitmaps", NoVm>>, p) = {}
      /\ \A v \in Vm : /\ Gift(o, <<"vmcs", v>>, p) = IF r = "vmcs" /\ v = w THEN {p} ELSE {}
                       /\ Gift(o, <<"ept", v>>, p) = {}
                       /\ Gift(o, <<"pool", v>>, p) = IF r = "pool" /\ v = w THEN {p} ELSE {}
                       /\ Gift(o, <<"guest", v>>, p) = IF r = "guest" /\ v = w THEN {p} ELSE {}
  BY <1>1 DEF Gift
<1>3. /\ \A v \in Vm : Ept(v)' = Ept(v) /\ Pool(v)' = Pool(v) /\ GuestMemory(v)' = GuestMemory(v)
      /\ UsedByArena' = UsedByArena
  BY DEF Ept, Pool, GuestMemory, UsedByArena
<1>4. ASSUME NEW v \in Vm
      PROVE  /\ {vms'[v].vmcs_region} \ {NoPage} =
                    ({vms[v].vmcs_region} \ {NoPage}) \cup Gift(o, <<"vmcs", v>>, p)
             /\ Ept(v)' \cup InHand(v, "table_track")' =
                    (Ept(v) \cup InHand(v, "table_track")) \cup Gift(o, <<"ept", v>>, p)
             /\ Pool(v)' \cup InHand(v, "reserve_track")' =
                    (Pool(v) \cup InHand(v, "reserve_track")) \cup Gift(o, <<"pool", v>>, p)
             /\ GuestMemory(v)' \cup InHand(v, "guest_track")' =
                    (GuestMemory(v) \cup InHand(v, "guest_track")) \cup Gift(o, <<"guest", v>>, p)
  BY <1>2, <1>3
<1>5. /\ chainload' = chainload \cup Gift(o, <<"chainload", NoVm>>, p)
      /\ UsedByArena' \ {NoPage} = (UsedByArena \ {NoPage}) \cup Gift(o, <<"arena", NoVm>>, p)
      /\ {vmxon'} \ {NoPage} = ({vmxon} \ {NoPage}) \cup Gift(o, <<"vmxon", NoVm>>, p)
      /\ {bitmaps'} \ {NoPage} = ({bitmaps} \ {NoPage}) \cup Gift(o, <<"bitmaps", NoVm>>, p)
  BY <1>2, <1>3
<1>6. Gains(o, p)
  BY ONLY <1>4, <1>5, o \in HostOwner, GainsByParts
<1> QED
  BY <1>1, <1>6

LEMMA TakeAllowed ==
    ASSUME Base, ~Tracking, NEW slot \in FoundSlot, NEW o \in HostOwner, Gains(o, ScanOrder[slot])
    PROVE  Owners!Take(o)
<1> DEFINE p == ScanOrder[slot]
<1>1. p \in Usable /\ p \notin UsedPages
  BY FoundFree
<1>2. p \notin Owners!Claimed
  <2>1. SUFFICES ASSUME NEW q \in HostOwner \ ({"vmcs"} \X (IF task.pc = "vmcs" THEN {task.vm} ELSE {})),
                        p \in OwnedPages(q)
                 PROVE  FALSE
    BY OwnerNames DEF Owners!Claimed
  <2> QED
    BY <1>1, <2>1, ClaimedUsed
<1> HIDE DEF p
<1>3. [q \in HostOwner |-> OwnedPages(q)]' =
          [[q \in HostOwner |-> OwnedPages(q)] EXCEPT ![o] = @ \cup {p}]
  BY DEF Gains, p
<1> QED
  BY <1>1, <1>2, <1>3 DEF Owners!Take

LEMMA NothingMoves ==
    ASSUME \A q \in HostOwner : OwnedPages(q)' = OwnedPages(q),
           (task.pc = "vmcs" \/ task'.pc = "vmcs") => task'.pc = task.pc /\ task'.vm = task.vm
    PROVE  UNCHANGED Owners!vars
BY DEF Owners!vars

(* The two copies of the promise are one.                                  *)
LEMMA SamePromise == Owners!Spec <=> ImplementsOwnership
<1>1. Owners!Init <=> Ownership!Init
  BY DEF Owners!Init, Ownership!Init, Owners!Owner, Ownership!Owner, Owners!HostRoles,
         Ownership!HostRoles, Owners!VmRoles, Ownership!VmRoles
<1>2. [Owners!Next]_(Owners!vars) <=> [Ownership!Next]_(Ownership!vars)
  BY DEF Owners!Next, Ownership!Next, Owners!vars, Ownership!vars, Owners!TakeHost,
         Ownership!TakeHost, Owners!TakeForVm, Ownership!TakeForVm, Owners!UseReserved,
         Ownership!UseReserved, Owners!StartVmcs, Ownership!StartVmcs, Owners!TakeBitmaps,
         Ownership!TakeBitmaps, Owners!FinishVmcs, Ownership!FinishVmcs, Owners!Take,
         Ownership!Take, Owners!Claimed, Ownership!Claimed, Owners!Owner, Ownership!Owner,
         Owners!HostRoles, Ownership!HostRoles, Owners!VmRoles, Ownership!VmRoles
<1> QED
  BY <1>1, <1>2, PTL DEF Owners!Spec, ImplementsOwnership, Ownership!Spec

LEMMA OwnersKeep ==
    ASSUME Owners!OwnershipInv, [Owners!Next]_(Owners!vars)
    PROVE  Owners!OwnershipInv'
<1>1. Usable \subseteq Page /\ Chainloads \subseteq SUBSET Page /\ NoVm \notin Vm
  BY PageFacts
<1> QED
  BY <1>1, Owners!NextOwnership

-----------------------------------------------------------------------------
(* The nodes of an EPT.                                                    *)
LEMMA AtStep ==
    /\ \A v \in Vm, g \in GuestAddresses : At(v, 4, g) = vms[v].eptp /\ At(v, 0, g) = Translate(v, g)
    /\ \A v \in Vm, l \in 0 .. 3, g \in GuestAddresses :
           At(v, l, g) = Lookup(At(v, l + 1, g), EptIndex(g, l + 1))
<1>1. ASSUME NEW v \in Vm, NEW g \in GuestAddresses
      PROVE  /\ At(v, 4, g) = vms[v].eptp
             /\ At(v, 3, g) = Lookup(At(v, 4, g), EptIndex(g, 4))
             /\ At(v, 2, g) = Lookup(At(v, 3, g), EptIndex(g, 3))
             /\ At(v, 1, g) = Lookup(At(v, 2, g), EptIndex(g, 2))
             /\ At(v, 0, g) = Lookup(At(v, 1, g), EptIndex(g, 1))
             /\ At(v, 0, g) = Translate(v, g)
  BY DEF At, Translate
<1>2. ASSUME NEW v \in Vm, NEW l \in 0 .. 3, NEW g \in GuestAddresses
      PROVE  At(v, l, g) = Lookup(At(v, l + 1, g), EptIndex(g, l + 1))
  <2>1. (l = 0 /\ l + 1 = 1) \/ (l = 1 /\ l + 1 = 2) \/ (l = 2 /\ l + 1 = 3) \/ (l = 3 /\ l + 1 = 4)
    OBVIOUS
  <2> QED
    BY <1>1, <2>1
<1> QED
  BY <1>1, <1>2

LEMMA AddressTypes == GuestAddresses \subseteq Nat
BY SpanFacts DEF GuestAddresses

(* From the EPT pointer down to the guest page.                            *)
LEMMA Descent ==
    ASSUME NEW S, 4 \in S, \A k \in 0 .. 3 : k + 1 \in S => k \in S
    PROVE  0 .. 4 \subseteq S
<1>1. 3 \in S
  <2>1. 3 \in 0 .. 3 /\ 3 + 1 = 4
    OBVIOUS
  <2> QED
    BY <2>1
<1>2. 2 \in S
  <2>1. 2 \in 0 .. 3 /\ 2 + 1 = 3
    OBVIOUS
  <2> QED
    BY <1>1, <2>1
<1>3. 1 \in S
  <2>1. 1 \in 0 .. 3 /\ 1 + 1 = 2
    OBVIOUS
  <2> QED
    BY <1>2, <2>1
<1>4. 0 \in S
  <2>1. 0 \in 0 .. 3 /\ 0 + 1 = 1
    OBVIOUS
  <2> QED
    BY <1>3, <2>1
<1>5. \A k \in 0 .. 4 : k = 0 \/ k = 1 \/ k = 2 \/ k = 3 \/ k = 4
  OBVIOUS
<1> QED
  BY <1>1, <1>2, <1>3, <1>4, <1>5

(* Pages of one block share the node.                                      *)
LEMMA AtSameBlock ==
    ASSUME NEW v \in Vm, NEW l \in 0 .. 4, NEW g \in GuestAddresses, NEW h \in GuestAddresses,
           Block(g, l) = Block(h, l)
    PROVE  At(v, l, g) = At(v, l, h)
<1> DEFINE P(k) == Block(g, k) = Block(h, k) => At(v, k, g) = At(v, k, h)
<1>1. P(4)
  BY AtStep
<1>2. ASSUME NEW k \in 0 .. 3, P(k + 1)
      PROVE  P(k)
  <2>1. SUFFICES ASSUME Block(g, k) = Block(h, k) PROVE At(v, k, g) = At(v, k, h)
    OBVIOUS
  <2>2. Block(g, k + 1) = Block(h, k + 1) /\ EptIndex(g, k + 1) = EptIndex(h, k + 1)
    BY <2>1, SameBlock, AddressTypes
  <2> QED
    BY <1>2, <2>2, AtStep
<1> DEFINE S == {k \in 0 .. 4 : P(k)}
<1> HIDE DEF P
<1>3. 4 \in S /\ \A k \in 0 .. 3 : k + 1 \in S => k \in S
  BY <1>1, <1>2
<1> HIDE DEF S
<1>4. 0 .. 4 \subseteq S
  BY <1>3, Descent
<1> QED
  BY <1>4 DEF S, P

(* The tracked pages of a machine are usable.                              *)
LEMMA TrackedUsable ==
    ASSUME Base, NEW v \in Vm
    PROVE  /\ Ept(v) \subseteq Usable /\ Pool(v) \subseteq Usable /\ GuestMemory(v) \subseteq Usable
           /\ NoPage \notin Ept(v) \cup Pool(v) \cup GuestMemory(v)
<1>1. tracked[v] \in Seq(ListNode) /\ WellTracked(tracked[v])
  BY DEF Base, HostType
<1>2. <<"EPT", 0>> \in Kinds /\ <<"EPT", 1>> \in Kinds /\ <<"GUEST_PHYSICAL", 0>> \in Kinds
  BY DEF Kinds
<1>3. \A k \in Kinds : PagesOf(tracked[v], k[1], k[2]) \subseteq Usable
  BY <1>1, ListClaims
<1>4. Ept(v) \subseteq Usable /\ Pool(v) \subseteq Usable /\ GuestMemory(v) \subseteq Usable
  BY <1>2, <1>3 DEF Ept, Pool, GuestMemory
<1> QED
  BY <1>4, PageFacts

(* The nodes stay where they are while nobody writes to the tables.        *)
LEMMA AtKept ==
    ASSUME Base, NEW v \in Vm, EptInv(v), vms'[v].eptp = vms[v].eptp,
           \A t \in Ept(v) : entry'[t] = entry[t]
    PROVE  \A l \in 0 .. 4, g \in GuestAddresses : At(v, l, g)' = At(v, l, g)
<1> SUFFICES ASSUME NEW g \in GuestAddresses
             PROVE  \A l \in 0 .. 4 : At(v, l, g)' = At(v, l, g)
  OBVIOUS
<1> DEFINE P(k) == At(v, k, g)' = At(v, k, g)
<1>0. /\ At(v, 4, g)' = vms'[v].eptp
      /\ \A l \in 0 .. 3 : At(v, l, g)' = Lookup(At(v, l + 1, g), EptIndex(g, l + 1))'
  <2>1. AtStep'
    BY AtStep, PTL
  <2> QED
    BY <2>1 DEF AtStep
<1>1. P(4)
  BY <1>0, AtStep
<1>2. ASSUME NEW k \in 0 .. 3, P(k + 1)
      PROVE  P(k)
  <2>1. At(v, k, g)' = (IF At(v, k + 1, g) \in Page
                        THEN entry'[At(v, k + 1, g)][EptIndex(g, k + 1)] ELSE At(v, k + 1, g))
    BY <1>0, <1>2 DEF Lookup
  <2>2. At(v, k, g) = (IF At(v, k + 1, g) \in Page
                       THEN entry[At(v, k + 1, g)][EptIndex(g, k + 1)] ELSE At(v, k + 1, g))
    BY AtStep DEF Lookup
  <2>3. k + 1 \in 0 .. 4 /\ k + 1 # 0
    OBVIOUS
  <2>4. At(v, k + 1, g) \in Ept(v) \cup {NoPage}
    BY <2>3 DEF EptInv, Held
  <2>5. At(v, k + 1, g) \in Page => At(v, k + 1, g) \in Ept(v)
    BY <2>4, PageFacts
  <2> QED
    BY <2>1, <2>2, <2>5
<1> DEFINE S == {k \in 0 .. 4 : P(k)}
<1> HIDE DEF P
<1>3. 4 \in S /\ \A k \in 0 .. 3 : k + 1 \in S => k \in S
  BY <1>1, <1>2
<1> HIDE DEF S
<1>4. 0 .. 4 \subseteq S
  BY <1>3, Descent
<1> QED
  BY <1>4 DEF S, P

(* An EPT whose tables and mapped pages do not change keeps its invariant. *)
LEMMA EptKept ==
    ASSUME Base, NEW v \in Vm, EptInv(v), vms'[v].eptp = vms[v].eptp,
           Ept(v)' = Ept(v),
           \A t \in Ept(v) : entry'[t] = entry[t] /\ content'[t] = content[t],
           GuestMemory(v) \subseteq GuestMemory(v)',
           \A p \in GuestMemory(v)' :
               \/ task'.vm = v /\ p = task'.hpa
               \/ p \in GuestMemory(v) /\ ~(task.vm = v /\ p = task.hpa),
           \A l \in 0 .. 4, g \in GuestAddresses : Linked(v, l, g)' <=> Linked(v, l, g),
           \A t \in Blank(v)' : content'[t] = "table" /\ entry'[t] = [i \in Index |-> NoPage]
    PROVE  EptInv(v)'
<1>1. \A l \in 0 .. 4, g \in GuestAddresses : At(v, l, g)' = At(v, l, g)
  BY AtKept
<1>2. \A l \in 0 .. 4 : Held(v, l) \subseteq Held(v, l)'
  BY DEF Held
<1>3. (\A l \in 0 .. 4, g \in GuestAddresses : At(v, l, g) # NoPage <=> Linked(v, l, g))'
  BY <1>1 DEF EptInv
<1>4. (\A l \in 0 .. 4, g \in GuestAddresses : At(v, l, g) \in Held(v, l) \cup {NoPage})'
  BY <1>1, <1>2 DEF EptInv
<1>5. (\A l, k \in 0 .. 4, g, h \in GuestAddresses :
          At(v, l, g) = At(v, k, h) /\ At(v, l, g) # NoPage => l = k /\ Block(g, l) = Block(h, l))'
  BY <1>1 DEF EptInv
<1>6. (\A t \in Ept(v) : \E l \in 1 .. 4, g \in GuestAddresses : t = At(v, l, g))'
  <2>1. 1 .. 4 \subseteq 0 .. 4
    OBVIOUS
  <2> QED
    BY <1>1, <2>1 DEF EptInv
<1>7. (\A p \in GuestMemory(v) :
          (task.vm = v /\ p = task.hpa) \/ \E g \in GuestAddresses : p = At(v, 0, g))'
  BY <1>1 DEF EptInv
<1>8. (\A t \in Ept(v) \cup Blank(v) : content[t] = "table")'
  BY DEF EptInv
<1> QED
  BY <1>3, <1>4, <1>5, <1>6, <1>7, <1>8 DEF EptInv

(* Linking page p as the missing node of level l on the walk for gpa adds  *)
(* that node to the EPT and changes no other.                              *)
Links(v, l, gpa, p) ==
    /\ l = 4 => /\ vms'[v].eptp = p
                /\ \A t \in Ept(v) : entry'[t] = entry[t]
    /\ l < 4 => /\ vms'[v].eptp = vms[v].eptp
                /\ At(v, l + 1, gpa) # NoPage
                /\ \A t \in Ept(v), i \in Index :
                      entry'[t][i] = IF t = At(v, l + 1, gpa) /\ i = EptIndex(gpa, l + 1)
                                     THEN p ELSE entry[t][i]
    /\ l > 0 => \A i \in Index : entry'[p][i] = NoPage

LEMMA LinkNode ==
    ASSUME Base, NEW v \in Vm, EptInv(v), NEW l \in 0 .. 4, NEW gpa \in GuestAddresses,
           NEW p \in Usable, At(v, l, gpa) = NoPage, Links(v, l, gpa, p)
    PROVE  \A k \in 0 .. 4, g \in GuestAddresses :
               At(v, k, g)' = IF k = l /\ Block(g, l) = Block(gpa, l) THEN p ELSE At(v, k, g)
<1> SUFFICES ASSUME NEW g \in GuestAddresses
             PROVE  \A k \in 0 .. 4 :
                        At(v, k, g)' = IF k = l /\ Block(g, l) = Block(gpa, l)
                                       THEN p ELSE At(v, k, g)
  OBVIOUS
<1> DEFINE P(k) == At(v, k, g)' = IF k = l /\ Block(g, l) = Block(gpa, l) THEN p ELSE At(v, k, g)
           S == {k \in 0 .. 4 : P(k)}
<1>0. /\ At(v, 4, g)' = vms'[v].eptp
      /\ \A k \in 0 .. 3 : At(v, k, g)' = Lookup(At(v, k + 1, g), EptIndex(g, k + 1))'
  <2>1. AtStep'
    BY AtStep, PTL
  <2> QED
    BY <2>1 DEF AtStep
<1>1. P(4)
  <2>1. Block(g, 4) = Block(gpa, 4)
    BY GuestBlock, AddressTypes
  <2>2. l = 4 \/ l < 4
    OBVIOUS
  <2> QED
    BY <1>0, <2>1, <2>2, AtStep DEF Links
<1>2. ASSUME NEW k \in 0 .. 3, P(k + 1)
      PROVE  P(k)
  <2> DEFINE a == At(v, k + 1, g)
             i == EptIndex(g, k + 1)
  <2>1. k + 1 \in 0 .. 4 /\ k + 1 # 0 /\ g \in Nat /\ gpa \in Nat
    BY AddressTypes
  <2>2. i \in Index
    BY <2>1, BlockSplits
  <2>3. At(v, k, g) = IF a \in Page THEN entry[a][i] ELSE a
    BY AtStep DEF Lookup
  <2>4. a \in Ept(v) \cup {NoPage}
    BY <2>1 DEF EptInv, Held
  <2>5. CASE k + 1 = l /\ Block(g, l) = Block(gpa, l)
    <3>1. At(v, k + 1, g)' = p
      BY <1>2, <2>5
    <3>2. At(v, k, g)' = NoPage
      <4>1. At(v, k, g)' = IF p \in Page THEN entry'[p][i] ELSE p
        BY <1>0, <3>1 DEF Lookup
      <4>2. entry'[p][i] = NoPage
        BY <2>1, <2>2, <2>5 DEF Links
      <4> QED
        BY <4>1, <4>2, PageFacts
    <3>3. a = NoPage
      BY <2>5, AtSameBlock
    <3>4. At(v, k, g) = NoPage
      BY <2>3, <3>3, PageFacts
    <3>5. k # l
      BY <2>5
    <3> QED
      BY <3>2, <3>4, <3>5
  <2>6. CASE ~(k + 1 = l /\ Block(g, l) = Block(gpa, l))
    <3>1. At(v, k + 1, g)' = a
      BY <1>2, <2>6
    <3>2. At(v, k, g)' = IF a \in Page THEN entry'[a][i] ELSE a
      BY <1>0, <3>1 DEF Lookup
    <3>3. CASE a = NoPage
      <4>1. ~(k = l /\ Block(g, l) = Block(gpa, l))
        <5>1. SUFFICES ASSUME k = l, Block(g, l) = Block(gpa, l) PROVE FALSE
          OBVIOUS
        <5>2. Block(g, l + 1) = Block(gpa, l + 1)
          BY <2>1, <5>1, SameBlock
        <5>3. a = At(v, l + 1, gpa)
          BY <2>1, <5>1, <5>2, AtSameBlock
        <5>4. l < 4
          BY <5>1
        <5> QED
          BY <3>3, <5>3, <5>4 DEF Links
      <4> QED
        BY <2>3, <3>2, <3>3, <4>1, PageFacts
    <3>4. CASE a \in Ept(v) /\ k = l
      <4> DEFINE T == At(v, l + 1, gpa)
      <4>1. l < 4 /\ l \in 0 .. 3
        BY <3>4
      <4>2. a \in Page
        BY <3>4, TrackedUsable, PageFacts
      <4>3. entry'[a][i] = IF a = T /\ i = EptIndex(gpa, l + 1) THEN p ELSE entry[a][i]
        BY <2>2, <3>4, <4>1 DEF Links
      <4>4. a = T /\ i = EptIndex(gpa, l + 1) <=> Block(g, l) = Block(gpa, l)
        <5>1. ASSUME Block(g, l) = Block(gpa, l)
              PROVE  a = T /\ i = EptIndex(gpa, l + 1)
          <6>1. Block(g, l + 1) = Block(gpa, l + 1) /\ EptIndex(g, l + 1) = EptIndex(gpa, l + 1)
            BY <2>1, <4>1, <5>1, SameBlock
          <6> QED
            BY <2>1, <3>4, <6>1, AtSameBlock
        <5>2. ASSUME a = T, i = EptIndex(gpa, l + 1)
              PROVE  Block(g, l) = Block(gpa, l)
          <6>1. a # NoPage
            BY <3>4, TrackedUsable
          <6>2. Block(g, l + 1) = Block(gpa, l + 1)
            BY <2>1, <3>4, <5>2, <6>1 DEF EptInv
          <6> QED
            BY <2>1, <3>4, <4>1, <5>2, <6>2, SameBlock
        <5> QED
          BY <5>1, <5>2
      <4> QED
        BY <2>3, <3>2, <3>4, <4>2, <4>3, <4>4
    <3>5. CASE a \in Ept(v) /\ k # l
      <4>1. a # NoPage
        BY <3>5, TrackedUsable
      <4>2. entry'[a][i] = entry[a][i]
        <5>1. CASE l = 4
          BY <3>5, <5>1 DEF Links
        <5>2. CASE l < 4
          <6>1. a # At(v, l + 1, gpa)
            <7>1. l + 1 \in 0 .. 4 /\ l + 1 # k + 1
              BY <3>5, <5>2
            <7> QED
              BY <2>1, <4>1, <7>1 DEF EptInv
          <6> QED
            BY <2>2, <3>5, <5>2, <6>1 DEF Links
        <5> QED
          BY <5>1, <5>2
      <4> QED
        BY <2>3, <3>2, <3>5, <4>2
    <3> QED
      BY <2>4, <3>3, <3>4, <3>5
  <2> QED
    BY <2>5, <2>6
<1> HIDE DEF P
<1>3. 4 \in S /\ \A k \in 0 .. 3 : k + 1 \in S => k \in S
  BY <1>1, <1>2
<1> HIDE DEF S
<1>4. 0 .. 4 \subseteq S
  BY <1>3, Descent
<1> QED
  BY <1>4 DEF S, P

(* How far the mapping has come is a number, and never less at a higher    *)
(* level.                                                                  *)
LEMMA UptoFacts ==
    ASSUME Base, NEW v \in Vm, NEW l \in 0 .. 4
    PROVE  Upto(v, l) \in Nat
<1>1. task.gpa \in Nat /\ task.level \in 0 .. 5
  BY DEF Base, HostType, TaskRecord
<1>2. vms[v].guest_physical_pages \in Nat
  BY SpanFacts DEF Base, HostType, VmRecord
<1> QED
  BY <1>1, <1>2 DEF Upto, Mapped

(* A node is missing on the walk for the next page to be mapped only when  *)
(* that page is the first of its block.                                    *)
LEMMA MissingIsFirst ==
    ASSUME NEW l \in 0 .. 4, NEW gpa \in Nat, NEW g \in Nat,
           Block(gpa, l) * EptSpan(l) >= gpa
    PROVE  /\ Block(gpa, l) * EptSpan(l) = gpa
           /\ Block(g, l) * EptSpan(l) < gpa + 1 <=>
                  Block(g, l) * EptSpan(l) < gpa \/ Block(g, l) = Block(gpa, l)
<1>1. PICK s \in Nat \ {0} : s = EptSpan(l)
  BY SpanFacts
<1>2. PICK b \in Nat : b = Block(g, l)
  BY BlockBounds
<1>3. PICK c \in Nat : c = Block(gpa, l)
  BY BlockBounds
<1>4. c * s = gpa
  <2>1. c * s <= gpa
    BY <1>1, <1>3, BlockBounds
  <2> QED
    BY <1>1, <1>3, <2>1
<1>5. b * s = c * s <=> b = c
  OBVIOUS
<1>6. b * s < gpa + 1 <=> b * s < gpa \/ b = c
  BY <1>4, <1>5
<1> QED
  BY <1>1, <1>2, <1>3, <1>4, <1>6

(* An EPT that gains one node keeps its invariant.                         *)
LEMMA EptGrows ==
    ASSUME Base, NEW v \in Vm, EptInv(v), NEW l \in 0 .. 4, NEW gpa \in GuestAddresses,
           NEW p \in Usable, At(v, l, gpa) = NoPage, Links(v, l, gpa, p),
           \A k \in 0 .. 4, g \in GuestAddresses : At(v, k, g) # p,
           Upto(v, l) = gpa, Upto(v, l)' = gpa + 1,
           \A k \in 0 .. 4 : k # l => Upto(v, k)' = Upto(v, k),
           p \in Held(v, l)', Ept(v) \subseteq Ept(v)', GuestMemory(v) \subseteq GuestMemory(v)',
           \A t \in Ept(v)' : t \in Ept(v) \/ (l > 0 /\ t = p),
           \A q \in GuestMemory(v)' :
               \/ task'.vm = v /\ q = task'.hpa
               \/ q \in GuestMemory(v) /\ ~(task.vm = v /\ q = task.hpa)
               \/ l = 0 /\ q = p,
           \A t \in Ept(v)' \cup Blank(v)' : content'[t] = "table",
           \A t \in Blank(v)' : entry'[t] = [i \in Index |-> NoPage]
    PROVE  EptInv(v)'
<1> DEFINE N(k, g) == k = l /\ Block(g, l) = Block(gpa, l)
<1>0. \A k \in 0 .. 4, g \in GuestAddresses : At(v, k, g)' = IF N(k, g) THEN p ELSE At(v, k, g)
  BY LinkNode
<1>1. p # NoPage /\ N(l, gpa)
  BY PageFacts
<1>2. Block(gpa, l) * EptSpan(l) >= gpa
  <2>1. ~Linked(v, l, gpa)
    BY DEF EptInv
  <2>2. Block(gpa, l) * EptSpan(l) \in Nat /\ gpa \in Nat
    <3>1. gpa \in Nat
      BY AddressTypes
    <3>2. Block(gpa, l) \in Nat /\ EptSpan(l) \in Nat
      BY <3>1, BlockBounds, SpanFacts
    <3> QED
      BY <3>1, <3>2
  <2> QED
    BY <2>1, <2>2 DEF Linked
<1>3. ASSUME NEW k \in 0 .. 4, NEW g \in GuestAddresses
      PROVE  At(v, k, g)' # NoPage <=> Linked(v, k, g)'
  <2>1. At(v, k, g) # NoPage <=> Block(g, k) * EptSpan(k) < Upto(v, k)
    BY DEF EptInv, Linked
  <2>2. Linked(v, k, g)' <=> Block(g, k) * EptSpan(k) < Upto(v, k)'
    BY DEF Linked
  <2>3. CASE k # l
    <3>1. At(v, k, g)' = At(v, k, g) /\ Upto(v, k)' = Upto(v, k)
      BY <1>0, <2>3
    <3> QED
      BY <2>1, <2>2, <3>1
  <2>4. CASE k = l
    <3>1. g \in Nat /\ gpa \in Nat
      BY AddressTypes
    <3>2. Block(g, l) * EptSpan(l) < gpa + 1 <=>
              Block(g, l) * EptSpan(l) < gpa \/ Block(g, l) = Block(gpa, l)
      BY <1>2, <3>1, MissingIsFirst
    <3>3. At(v, k, g)' = IF Block(g, l) = Block(gpa, l) THEN p ELSE At(v, k, g)
      BY <1>0, <2>4
    <3> QED
      BY <1>1, <2>1, <2>2, <2>4, <3>2, <3>3
  <2> QED
    BY <2>3, <2>4
<1>4. ASSUME NEW k \in 0 .. 4, NEW g \in GuestAddresses
      PROVE  At(v, k, g)' \in Held(v, k)' \cup {NoPage}
  <2>1. Held(v, k) \subseteq Held(v, k)'
    BY DEF Held
  <2>2. At(v, k, g) \in Held(v, k) \cup {NoPage}
    BY DEF EptInv
  <2> QED
    BY <1>0, <2>1, <2>2
<1>5. ASSUME NEW k \in 0 .. 4, NEW j \in 0 .. 4, NEW g \in GuestAddresses,
             NEW h \in GuestAddresses, At(v, k, g)' = At(v, j, h)', At(v, k, g)' # NoPage
      PROVE  k = j /\ Block(g, k) = Block(h, k)
  <2>1. CASE N(k, g) /\ N(j, h)
    BY <2>1
  <2>2. CASE N(k, g) /\ ~N(j, h)
    BY <1>0, <1>5, <2>2
  <2>3. CASE ~N(k, g) /\ N(j, h)
    BY <1>0, <1>5, <2>3
  <2>4. CASE ~N(k, g) /\ ~N(j, h)
    <3>1. At(v, k, g) = At(v, j, h) /\ At(v, k, g) # NoPage
      BY <1>0, <1>5, <2>4
    <3> QED
      BY <3>1 DEF EptInv
  <2> QED
    BY <2>1, <2>2, <2>3, <2>4
<1>6. ASSUME NEW t \in Ept(v)'
      PROVE  \E k \in 1 .. 4, g \in GuestAddresses : t = At(v, k, g)'
  <2>1. CASE l > 0 /\ t = p
    BY <1>0, <1>1, <2>1
  <2>2. CASE t \in Ept(v)
    <3>1. PICK k \in 1 .. 4, g \in GuestAddresses : t = At(v, k, g)
      BY <2>2 DEF EptInv
    <3>2. k \in 0 .. 4 /\ t # NoPage
      BY <2>2, TrackedUsable
    <3>3. ~N(k, g)
      BY <3>1, <3>2, AtSameBlock
    <3> QED
      BY <1>0, <3>1, <3>2, <3>3
  <2> QED
    BY <2>1, <2>2
<1>7. ASSUME NEW q \in GuestMemory(v)'
      PROVE  (task'.vm = v /\ q = task'.hpa) \/ \E g \in GuestAddresses : q = At(v, 0, g)'
  <2>1. CASE l = 0 /\ q = p
    BY <1>0, <1>1, <2>1
  <2>2. CASE q \in GuestMemory(v) /\ ~(task.vm = v /\ q = task.hpa)
    <3>1. PICK g \in GuestAddresses : q = At(v, 0, g)
      BY <2>2 DEF EptInv
    <3>2. 0 \in 0 .. 4 /\ q # NoPage
      BY <2>2, TrackedUsable
    <3>3. ~N(0, g)
      BY <3>1, <3>2, AtSameBlock
    <3> QED
      BY <1>0, <3>1, <3>2, <3>3
  <2> QED
    BY <2>1, <2>2
<1> HIDE DEF N
<1> QED
  BY <1>3, <1>4, <1>5, <1>6, <1>7 DEF EptInv

-----------------------------------------------------------------------------
(* How many tables a number of pages takes.                                *)
LEMMA CeilBelow ==
    ASSUME NEW a \in Nat, NEW d \in Nat \ {0}
    PROVE  /\ CeilDiv(a, d) \in Nat
           /\ \A k \in Nat : k < CeilDiv(a, d) <=> k * d < a
<1>1. a \div d \in Nat /\ a % d \in 0 .. d - 1
  BY DivMod
<1>2. CeilDiv(a, d) \in Nat
  BY <1>1 DEF CeilDiv
<1> QED
  BY <1>2, Ceiling DEF CeilDiv

(* The number of parts is known by what they hold.                         *)
LEMMA CeilUnique ==
    ASSUME NEW a \in Nat, NEW d \in Nat \ {0}, NEW n \in Nat, \A k \in Nat : k < n <=> k * d < a
    PROVE  CeilDiv(a, d) = n
<1>1. PICK m \in Nat : m = CeilDiv(a, d) /\ \A k \in Nat : k < m <=> k * d < a
  BY CeilBelow
<1>2. \A k \in Nat : k < m <=> k < n
  BY <1>1
<1>3. ~(m < n) /\ ~(n < m)
  BY <1>2
<1> QED
  BY <1>1, <1>3

LEMMA CeilMonotone ==
    ASSUME NEW a \in Nat, NEW b \in Nat, a <= b, NEW d \in Nat \ {0}
    PROVE  CeilDiv(a, d) <= CeilDiv(b, d)
<1>1. PICK m \in Nat : m = CeilDiv(a, d) /\ \A k \in Nat : k < m <=> k * d < a
  BY CeilBelow
<1>2. PICK n \in Nat : n = CeilDiv(b, d) /\ \A k \in Nat : k < n <=> k * d < b
  BY CeilBelow
<1>3. ~(n < m)
  <2>1. n * d \in Nat
    OBVIOUS
  <2> QED
    BY <1>1, <1>2, <2>1
<1> QED
  BY <1>1, <1>2, <1>3

LEMMA CeilZero ==
    ASSUME NEW d \in Nat \ {0}
    PROVE  CeilDiv(0, d) = 0
<1>1. \A k \in Nat : k < 0 <=> k * d < 0
  OBVIOUS
<1> QED
  BY <1>1, CeilUnique

(* One more page takes one more table exactly at the start of a block.     *)
LEMMA CeilNext ==
    ASSUME NEW a \in Nat, NEW d \in Nat \ {0}, NEW b \in Nat, b * d = a
    PROVE  CeilDiv(a + 1, d) = CeilDiv(a, d) + 1
<1>1. ASSUME NEW k \in Nat
      PROVE  k < b <=> k * d < a
  OBVIOUS
<1>2. ASSUME NEW k \in Nat
      PROVE  k < b + 1 <=> k * d < a + 1
  <2>1. k * d \in Nat /\ (k <= b => k * d <= b * d) /\ (k > b => k * d > b * d)
    OBVIOUS
  <2> QED
    BY <2>1
<1>3. CeilDiv(a, d) = b
  BY <1>1, CeilUnique
<1>4. CeilDiv(a + 1, d) = b + 1
  BY <1>2, CeilUnique
<1> QED
  BY <1>3, <1>4

LEMMA CeilSame ==
    ASSUME NEW a \in Nat, NEW d \in Nat \ {0}, NEW b \in Nat, b * d < a, a < b * d + d
    PROVE  CeilDiv(a + 1, d) = CeilDiv(a, d)
<1>1. ASSUME NEW k \in Nat
      PROVE  /\ k < b + 1 <=> k * d < a
             /\ k < b + 1 <=> k * d < a + 1
  <2>1. k * d \in Nat /\ b * d \in Nat
    OBVIOUS
  <2>2. k <= b => k * d <= b * d
    OBVIOUS
  <2>3. k >= b + 1 => k * d >= (b + 1) * d
    OBVIOUS
  <2>4. (b + 1) * d = b * d + d
    OBVIOUS
  <2> QED
    BY <2>1, <2>2, <2>3, <2>4
<1>2. CeilDiv(a, d) = b + 1
  BY <1>1, CeilUnique
<1>3. CeilDiv(a + 1, d) = b + 1
  BY <1>1, CeilUnique
<1> QED
  BY <1>2, <1>3

LEMMA CeilCompose ==
    ASSUME NEW a \in Nat, NEW b \in Nat \ {0}, NEW c \in Nat \ {0}
    PROVE  CeilDiv(CeilDiv(a, b), c) = CeilDiv(a, b * c)
<1>1. PICK m \in Nat : m = CeilDiv(a, b) /\ \A k \in Nat : k < m <=> k * b < a
  BY CeilBelow
<1>2. PICK n \in Nat : n = CeilDiv(m, c) /\ \A k \in Nat : k < n <=> k * c < m
  BY CeilBelow
<1>3. b * c \in Nat \ {0}
  OBVIOUS
<1>4. ASSUME NEW k \in Nat
      PROVE  k < n <=> k * (b * c) < a
  <2>1. k * c \in Nat /\ (k * c) * b = k * (b * c)
    OBVIOUS
  <2> QED
    BY <1>1, <1>2, <2>1
<1>5. CeilDiv(a, b * c) = n
  BY <1>3, <1>4, CeilUnique
<1> QED
  BY <1>1, <1>2, <1>5

(* The size of the reserved pool is one table for every block of pages.    *)
LEMMA EptPagesSum ==
    ASSUME NEW n \in Nat
    PROVE  /\ EptPages(n) = CeilDiv(n, EptSpan(1)) + CeilDiv(n, EptSpan(2))
                                + CeilDiv(n, EptSpan(3)) + CeilDiv(n, EptSpan(4))
           /\ EptPages(n) \in Nat
<1> DEFINE c(l) == CeilDiv(n, EptSpan(l))
<1>1. \A l \in 0 .. 4 : c(l) \in Nat
  BY SpanFacts, CeilBelow
<1>2. ASSUME NEW l \in 0 .. 3
      PROVE  CeilDiv(c(l), Entries) = c(l + 1)
  <2>1. EptSpan(l + 1) = EptSpan(l) * Entries /\ EptSpan(l) \in Nat \ {0}
    BY SpanFacts
  <2>2. Entries \in Nat \ {0}
    BY SpanFacts
  <2>3. CeilDiv(CeilDiv(n, EptSpan(l)), Entries) = CeilDiv(n, EptSpan(l) * Entries)
    BY <2>1, <2>2, CeilCompose
  <2> QED
    BY <2>1, <2>3, Zenon
<1>3. c(1) = CeilDiv(n, Entries)
  BY DEF EptSpan
<1>4. CeilDiv(c(1), Entries) = c(2) /\ CeilDiv(c(2), Entries) = c(3) /\ CeilDiv(c(3), Entries) = c(4)
  <2>1. {1, 2, 3} \subseteq 0 .. 3 /\ 1 + 1 = 2 /\ 2 + 1 = 3 /\ 3 + 1 = 4
    OBVIOUS
  <2> HIDE DEF c
  <2> QED
    BY <1>2, <2>1
<1>5. EptPages(n) = c(1) + c(2) + c(3) + c(4)
  <2> HIDE DEF c
  <2> QED
    BY <1>3, <1>4 DEF EptPages
<1>6. c(1) \in Nat /\ c(2) \in Nat /\ c(3) \in Nat /\ c(4) \in Nat
  BY <1>1
<1> QED
  BY <1>5, <1>6

-----------------------------------------------------------------------------
(* Steps that leave the EPTs alone.                                        *)
LEMMA FreshPage ==
    ASSUME Base, ~Tracking, NEW slot \in FoundSlot
    PROVE  /\ slot \in DOMAIN ScanOrder
           /\ ScanOrder[slot] \in Usable /\ ScanOrder[slot] \in Page
           /\ \A v \in Vm : /\ InNoNode(tracked[v], ScanOrder[slot])
                            /\ ScanOrder[slot] \notin Ept(v) \cup Pool(v) \cup GuestMemory(v)
<1>1. /\ slot \in DOMAIN ScanOrder /\ ScanOrder[slot] \in Usable /\ ScanOrder[slot] \in Page
      /\ ScanOrder[slot] \notin UsedPages
  BY FoundFree, PageFacts
<1>2. ASSUME NEW v \in Vm
      PROVE  /\ InNoNode(tracked[v], ScanOrder[slot])
             /\ ScanOrder[slot] \notin Ept(v) \cup Pool(v) \cup GuestMemory(v)
  <2>1. tracked[v] \in Seq(ListNode) /\ WellTracked(tracked[v])
    BY DEF Base, HostType
  <2>2. ScanOrder[slot] \notin ListUses(tracked[v], Page)
    BY <1>1 DEF UsedPages, UsedByVmManager
  <2>3. InNoNode(tracked[v], ScanOrder[slot])
    BY <1>1, <2>1, <2>2, ListClaims
  <2>4. \A k \in Kinds : ScanOrder[slot] \notin PagesOf(tracked[v], k[1], k[2])
    BY <2>1, <2>3, ListClaims
  <2>5. <<"EPT", 0>> \in Kinds /\ <<"EPT", 1>> \in Kinds /\ <<"GUEST_PHYSICAL", 0>> \in Kinds
    BY DEF Kinds
  <2> QED
    BY <2>3, <2>4, <2>5 DEF Ept, Pool, GuestMemory
<1> QED
  BY <1>1, <1>2

(* Writing to a free page writes to no table.                              *)
LEMMA FreshWrite ==
    ASSUME Base, ~Tracking, NEW slot \in FoundSlot, NEW what \in Contents,
           NEW row \in [Index -> Usable \cup {NoPage, Junk}],
           content' = [content EXCEPT ![ScanOrder[slot]] = what],
           entry' = [entry EXCEPT ![ScanOrder[slot]] = row]
    PROVE  /\ content' \in [Page -> Contents]
           /\ entry' \in [Page -> [Index -> Usable \cup {NoPage, Junk}]]
           /\ content'[ScanOrder[slot]] = what
           /\ entry'[ScanOrder[slot]] = row
           /\ \A v \in Vm : \A t \in Ept(v) \cup Pool(v) : entry'[t] = entry[t] /\ content'[t] = content[t]
<1>1. PICK p \in Page : p = ScanOrder[slot] /\ \A v \in Vm : p \notin Ept(v) \cup Pool(v)
  BY FreshPage
<1>2. content \in [Page -> Contents] /\ entry \in [Page -> [Index -> Usable \cup {NoPage, Junk}]]
  BY DEF Base, HostType
<1>3. ASSUME NEW v \in Vm, NEW t \in Ept(v) \cup Pool(v)
      PROVE  t \in Page /\ t # p
  BY <1>1, TrackedUsable, PageFacts
<1> QED
  BY <1>1, <1>2, <1>3

LEMMA EptPoolKept ==
    ASSUME HostInv, tracked' = tracked,
           \A v \in Vm : vms'[v].eptp = vms[v].eptp,
           \A v \in Vm : \A t \in Ept(v) : entry'[t] = entry[t] /\ content'[t] = content[t],
           \A v \in Vm : \A t \in Blank(v)' :
               content'[t] = "table" /\ entry'[t] = [i \in Index |-> NoPage],
           \A v \in Vm, l \in 0 .. 4 : Upto(v, l)' = Upto(v, l),
           task'.hpa = task.hpa, task.hpa # NoPage => task'.vm = task.vm,
           \A v \in Vm : Reserved(v)' = Reserved(v),
           \A v \in Vm : task'.vm = v /\ task'.pc = "table_track" <=>
                             task.vm = v /\ task.pc = "table_track"
    PROVE  \A v \in Vm : EptInv(v)' /\ PoolInv(v)'
<1> SUFFICES ASSUME NEW v \in Vm PROVE EptInv(v)' /\ PoolInv(v)'
  OBVIOUS
<1>1. Ept(v)' = Ept(v) /\ GuestMemory(v)' = GuestMemory(v) /\ Pool(v)' = Pool(v)
  BY DEF Ept, GuestMemory, Pool
<1>2. \A l \in 0 .. 4, g \in GuestAddresses : Linked(v, l, g)' <=> Linked(v, l, g)
  BY DEF Linked
<1>3. ASSUME NEW p \in GuestMemory(v)
      PROVE  \/ task'.vm = v /\ p = task'.hpa
             \/ p \in GuestMemory(v) /\ ~(task.vm = v /\ p = task.hpa)
  <2>1. p # NoPage
    BY TrackedUsable DEF HostInv
  <2> QED
    BY <2>1
<1>4. EptInv(v)'
  BY <1>1, <1>2, <1>3, EptKept DEF HostInv
<1>5. InUse(v)' = InUse(v)
  BY DEF InUse, TablesOf
<1> QED
  BY <1>1, <1>4, <1>5 DEF HostInv, PoolInv

(* What every step has to show.                                            *)
LEMMA BaseKept ==
    ASSUME Base, HostType', (\A v \in Vm : WellTracked(tracked[v]))', CallOrder', HandInv',
           [Owners!Next]_(Owners!vars)
    PROVE  Base'
BY OwnersKeep DEF Base

(* Pages held by nobody but the call in progress.                          *)
LEMMA NoneInHand ==
    ASSUME ~Tracking, NEW v
    PROVE  /\ InHand(v, "table_track") = {} /\ InHand(v, "reserve_track") = {}
           /\ InHand(v, "guest_track") = {}
           /\ Blank(v) = Pool(v)
BY DEF InHand, Tracking, Blank

LEMMA IdleTyped ==
    /\ Idle \in TaskRecord
    /\ Idle.pc = "idle" /\ Idle.vm = NoVm /\ Idle.left = 0 /\ Idle.gpa = 0
    /\ Idle.hand = NoPage /\ Idle.hpa = NoPage /\ Idle.table = NoPage /\ Idle.level = 0
BY DEF Idle, TaskRecord, MaybePage

LEMMA JunkRow == [i \in 0 .. Entries - 1 |-> Junk] \in [Index -> Usable \cup {NoPage, Junk}]
BY DEF Index

(* The call is a quiet one when nothing is in hand and nothing is mapped.  *)
LEMMA NotMapping ==
    ASSUME task.pc \notin {"map", "table_track"}
    PROVE  ~Mapping /\ \A v, l : Upto(v, l) = Mapped(v)
BY DEF Mapping, Upto

-----------------------------------------------------------------------------
(* Steps that change nothing of the memory: a panic, the launch, a stutter.*)
LEMMA QuietStep ==
    ASSUME HostInv,
           UNCHANGED <<chainload, cursor, arenas, vmxon, bitmaps, content, entry, vms, tracked,
                       devices, task>>
    PROVE  HostInv' /\ [Owners!Next]_(Owners!vars)
<1>1. [Owners!Next]_(Owners!vars)
  <2>1. \A q \in HostOwner : OwnedPages(q)' = OwnedPages(q)
    BY DEF OwnedPages, UsedByArena, InHand
  <2> QED
    BY <2>1, NothingMoves
<1>2. Base'
  <2>1. Base
    BY DEF HostInv
  <2>2. HostType' /\ (\A v \in Vm : WellTracked(tracked[v]))' /\ CallOrder' /\ HandInv'
    BY <2>1 DEF Base, HostType, CallOrder, HandInv, Tracking
  <2> QED
    BY <1>1, <2>1, <2>2, BaseKept
<1>3. \A v, l, g : At(v, l, g)' = At(v, l, g)
  BY DEF At, Translate, Lookup
<1>4. WalkInv'
  BY <1>3 DEF HostInv, WalkInv, Mapping, GuestMemory
<1>5. \A v \in Vm : EptInv(v)' /\ PoolInv(v)'
  <2>1. \A v \in Vm : Blank(v)' = Blank(v)
    BY DEF Blank, Pool, InHand
  <2>2. \A v \in Vm, l \in 0 .. 4 : Upto(v, l)' = Upto(v, l)
    BY DEF Upto, Mapping, Mapped
  <2>3. \A v \in Vm : Reserved(v)' = Reserved(v)
    BY DEF Reserved
  <2>4. \A v \in Vm : \A t \in Blank(v) : content[t] = "table" /\ entry[t] = [i \in Index |-> NoPage]
    BY DEF HostInv, EptInv
  <2> QED
    BY <2>1, <2>2, <2>3, <2>4, EptPoolKept
<1> QED
  BY <1>1, <1>2, <1>4, <1>5 DEF HostInv

(* Steps between calls, and of vmx_create_initialized_vmcs: no EPT is      *)
(* touched.                                                                *)
LEMMA EptsLeftAlone ==
    ASSUME HostInv, task.pc \in {"idle", "vmcs"}, task'.pc \in {"idle", "vmcs"},
           task'.hpa = NoPage, tracked' = tracked,
           \A v \in Vm : /\ vms'[v].eptp = vms[v].eptp
                         /\ vms'[v].guest_physical_pages = vms[v].guest_physical_pages,
           \A v \in Vm : \A t \in Ept(v) \cup Pool(v) : entry'[t] = entry[t] /\ content'[t] = content[t],
           task.pc = "idle" => task.vm = NoVm, task'.pc = "idle" => task'.vm = NoVm
    PROVE  WalkInv' /\ \A v \in Vm : EptInv(v)' /\ PoolInv(v)'
<1>1. ~Mapping /\ ~Mapping' /\ ~Tracking /\ ~Tracking'
  BY DEF Mapping, Tracking
<1>2. task.hpa = NoPage
  BY <1>1 DEF HostInv, WalkInv
<1>3. WalkInv'
  BY <1>1 DEF WalkInv
<1>4. ASSUME NEW v \in Vm
      PROVE  /\ Mapped(v) = vms[v].guest_physical_pages
             /\ Mapped(v)' = vms'[v].guest_physical_pages
  BY PageFacts DEF Mapped
<1>5. \A v \in Vm, l \in 0 .. 4 : Upto(v, l)' = Upto(v, l)
  BY <1>1, <1>4 DEF Upto
<1>6. \A v \in Vm : Reserved(v)' = Reserved(v)
  BY DEF Reserved
<1>7. ASSUME NEW v \in Vm, NEW t \in Blank(v)'
      PROVE  content'[t] = "table" /\ entry'[t] = [i \in Index |-> NoPage]
  <2>1. t \in Pool(v)
    BY <1>1, <1>7 DEF Blank, InHand, Tracking, Pool
  <2>2. t \in Blank(v)
    BY <2>1 DEF Blank
  <2>3. content[t] = "table" /\ entry[t] = [i \in Index |-> NoPage]
    BY <2>2 DEF HostInv, EptInv
  <2> QED
    BY <2>1, <2>3
<1>8. \A v \in Vm : task'.vm = v /\ task'.pc = "table_track" <=> task.vm = v /\ task.pc = "table_track"
  OBVIOUS
<1>9. \A v \in Vm : \A t \in Ept(v) : entry'[t] = entry[t] /\ content'[t] = content[t]
  OBVIOUS
<1>10. \A v \in Vm : EptInv(v)' /\ PoolInv(v)'
  BY <1>2, <1>5, <1>6, <1>7, <1>8, <1>9, EptPoolKept
<1> QED
  BY <1>3, <1>10

(* A free page is given a content of its own.                              *)
LEMMA OverwriteFresh ==
    ASSUME HostInv, task.pc \in {"idle", "vmcs"}, NEW slot \in FoundSlot, NEW what \in Contents,
           Overwrite(ScanOrder[slot], what)
    PROVE  /\ slot \in DOMAIN ScanOrder
           /\ ScanOrder[slot] \in Usable /\ ScanOrder[slot] # NoPage
           /\ content' \in [Page -> Contents]
           /\ entry' \in [Page -> [Index -> Usable \cup {NoPage, Junk}]]
           /\ \A v \in Vm : \A t \in Ept(v) \cup Pool(v) :
                  entry'[t] = entry[t] /\ content'[t] = content[t]
<1>1. Base /\ ~Tracking
  BY DEF HostInv, Tracking
<1>2. slot \in DOMAIN ScanOrder /\ ScanOrder[slot] \in Usable /\ ScanOrder[slot] # NoPage
  BY <1>1, FreshPage, PageFacts
<1> QED
  BY <1>1, <1>2, JunkRow, FreshWrite DEF Overwrite

(* Nothing is in hand outside the three calls that track a page.           *)
LEMMA EmptyHanded ==
    ASSUME task.pc \notin {"reserve_track", "guest_track", "table_track"},
           task'.pc \notin {"reserve_track", "guest_track", "table_track"}
    PROVE  /\ ~Tracking /\ ~Tracking'
           /\ \A v \in Vm : /\ InHand(v, "table_track")' = InHand(v, "table_track")
                            /\ InHand(v, "reserve_track")' = InHand(v, "reserve_track")
                            /\ InHand(v, "guest_track")' = InHand(v, "guest_track")
BY DEF InHand, Tracking

LEMMA VmxSetupStep ==
    ASSUME HostInv, VmxSetup
    PROVE  HostInv' /\ [Owners!Next]_(Owners!vars)
<1>1. PICK slot \in FoundSlot :
          /\ cursor' = slot
          /\ vmxon' = ScanOrder[slot]
          /\ Overwrite(ScanOrder[slot], "vmxon")
  BY DEF VmxSetup
<1>2. UNCHANGED <<chainload, arenas, bitmaps, vms, tracked, devices, task>> /\ vmxon = NoPage
  BY DEF VmxSetup
<1>3. task = Idle /\ task.pc = "idle" /\ Base /\ task.vm = NoVm /\ task.hpa = NoPage
  BY <1>2, IdleTyped DEF HostInv, Base, CallOrder
<1>4. "vmxon" \in Contents
  BY DEF Contents
<1>5. PICK p : p = ScanOrder[slot]
  OBVIOUS
<1>6. /\ slot \in DOMAIN ScanOrder /\ p \in Usable /\ p # NoPage
      /\ content' \in [Page -> Contents]
      /\ entry' \in [Page -> [Index -> Usable \cup {NoPage, Junk}]]
      /\ \A v \in Vm : \A t \in Ept(v) \cup Pool(v) : entry'[t] = entry[t] /\ content'[t] = content[t]
  BY <1>1, <1>3, <1>4, <1>5, OverwriteFresh
<1>7. [Owners!Next]_(Owners!vars)
  <2>1. UsedByArena' = UsedByArena /\ {vmxon'} \ {NoPage} = ({vmxon} \ {NoPage}) \cup {p}
    BY <1>1, <1>2, <1>5, <1>6 DEF UsedByArena
  <2>2. Gains(<<"vmxon", NoVm>>, p) /\ <<"vmxon", NoVm>> \in HostOwner
    BY <1>2, <1>3, <2>1, HostGains, EmptyHanded
  <2>3. Owners!Take(<<"vmxon", NoVm>>)
    BY <1>2, <1>3, <1>5, <2>2, TakeAllowed, EmptyHanded
  <2> QED
    BY <1>2, <1>3, <2>3 DEF Owners!Next, Owners!TakeHost
<1>8. Base'
  <2>1. HostType'
    BY <1>1, <1>2, <1>3, <1>5, <1>6 DEF Base, HostType, MaybePage
  <2>2. (\A v \in Vm : WellTracked(tracked[v]))' /\ HandInv'
    BY <1>2, <1>3 DEF Base, HandInv, Tracking
  <2>3. CallOrder'
    BY <1>1, <1>2, <1>3, <1>5, <1>6 DEF Base, CallOrder
  <2> QED
    BY <1>3, <1>7, <2>1, <2>2, <2>3, BaseKept
<1>9. WalkInv' /\ \A v \in Vm : EptInv(v)' /\ PoolInv(v)'
  BY <1>2, <1>3, <1>6, EptsLeftAlone
<1> QED
  BY <1>7, <1>8, <1>9 DEF HostInv

(* arena_create and arena_allocate, for a caller that leaves the EPTs      *)
(* alone.                                                                  *)
LEMMA ArenaStep ==
    ASSUME HostInv, NEW a \in ArenaNames, NEW size \in Nat, Fits(a, size), ArenaAllocate(a, size),
           task = Idle, UNCHANGED <<chainload, vmxon, bitmaps, tracked, task>>,
           vms' \in [Vm -> VmRecord], devices' \in 0 .. MaxDevices, CallOrder',
           \A v \in Vm : /\ vms'[v].eptp = vms[v].eptp
                         /\ vms'[v].guest_physical_pages = vms[v].guest_physical_pages
                         /\ vms'[v].vmcs_region = vms[v].vmcs_region
    PROVE  HostInv' /\ [Owners!Next]_(Owners!vars)
<1>1. Base /\ task.pc = "idle" /\ task.vm = NoVm /\ task.hpa = NoPage
  BY IdleTyped DEF HostInv
<1>2. /\ arenas \in [ArenaNames -> ArenaRecord] /\ ArenaSize \in Nat
      /\ arenas[a].page \in MaybePage /\ arenas[a].used_size \in 0 .. ArenaSize
  BY <1>1, HostConstants DEF Base, HostType, ArenaRecord
<1>3. CASE arenas[a].page = NoPage
  <2>1. PICK slot \in FoundSlot :
            /\ cursor' = slot
            /\ arenas' = [arenas EXCEPT ![a] = [page |-> ScanOrder[slot], used_size |-> size]]
            /\ Overwrite(ScanOrder[slot], "arena")
    BY <1>3 DEF ArenaAllocate
  <2>2. "arena" \in Contents
    BY DEF Contents
  <2>3. PICK p : p = ScanOrder[slot]
    OBVIOUS
  <2>4. /\ slot \in DOMAIN ScanOrder /\ p \in Usable /\ p # NoPage
        /\ content' \in [Page -> Contents]
        /\ entry' \in [Page -> [Index -> Usable \cup {NoPage, Junk}]]
        /\ \A v \in Vm : \A t \in Ept(v) \cup Pool(v) : entry'[t] = entry[t] /\ content'[t] = content[t]
    BY <1>1, <2>1, <2>2, <2>3, OverwriteFresh
  <2>5. arenas' \in [ArenaNames -> ArenaRecord]
    <3>1. [page |-> p, used_size |-> size] \in ArenaRecord
      BY <1>2, <2>4 DEF Fits, ArenaRecord, MaybePage
    <3> QED
      BY <1>2, <2>1, <2>3, <3>1
  <2>6. [Owners!Next]_(Owners!vars)
    <3>1. UsedByArena' \ {NoPage} = (UsedByArena \ {NoPage}) \cup {p}
      BY <1>2, <1>3, <2>1, <2>3, <2>4 DEF UsedByArena
    <3>2. Gains(<<"arena", NoVm>>, p) /\ <<"arena", NoVm>> \in HostOwner
      BY <1>1, <3>1, HostGains, EmptyHanded
    <3>3. Owners!Take(<<"arena", NoVm>>)
      BY <1>1, <2>3, <3>2, TakeAllowed, EmptyHanded
    <3> QED
      BY <1>1, <3>3 DEF Owners!Next, Owners!TakeHost
  <2>7. Base'
    <3>1. HostType'
      BY <1>1, <2>1, <2>4, <2>5 DEF Base, HostType
    <3>2. (\A v \in Vm : WellTracked(tracked[v]))' /\ HandInv'
      BY <1>1 DEF Base, HandInv, Tracking
    <3> QED
      BY <1>1, <2>6, <3>1, <3>2, BaseKept
  <2>8. WalkInv' /\ \A v \in Vm : EptInv(v)' /\ PoolInv(v)'
    BY <1>1, <2>4, EptsLeftAlone
  <2> QED
    BY <2>6, <2>7, <2>8 DEF HostInv
<1>4. CASE arenas[a].page # NoPage
  <2>1. arenas' = [arenas EXCEPT ![a].used_size = @ + size] /\ UNCHANGED <<cursor, content, entry>>
    BY <1>4 DEF ArenaAllocate, memory
  <2>2. \A b \in ArenaNames : arenas'[b].page = arenas[b].page
    BY <1>2, <2>1 DEF ArenaRecord
  <2>3. arenas' \in [ArenaNames -> ArenaRecord]
    BY <1>2, <2>1 DEF ArenaRecord, Fits
  <2>4. [Owners!Next]_(Owners!vars)
    <3>1. UsedByArena' = UsedByArena
      BY <2>2 DEF UsedByArena
    <3>2. \A q \in HostOwner : OwnedPages(q)' = OwnedPages(q)
      BY <3>1, OwnerCases DEF OwnedPages, InHand
    <3> QED
      BY <3>2, NothingMoves
  <2>5. Base'
    <3>1. HostType'
      BY <1>1, <2>1, <2>3 DEF Base, HostType
    <3>2. (\A v \in Vm : WellTracked(tracked[v]))' /\ HandInv'
      BY <1>1 DEF Base, HandInv, Tracking
    <3> QED
      BY <1>1, <2>4, <3>1, <3>2, BaseKept
  <2>6. WalkInv' /\ \A v \in Vm : EptInv(v)' /\ PoolInv(v)'
    BY <1>1, <2>1, EptsLeftAlone
  <2> QED
    BY <2>4, <2>5, <2>6 DEF HostInv
<1> QED
  BY <1>3, <1>4

LEMMA CreateVmStep ==
    ASSUME HostInv, NEW v \in Vm, CreateVm(v)
    PROVE  HostInv' /\ [Owners!Next]_(Owners!vars)
<1>1. /\ task = Idle /\ Fits("vm_manager", VmSize) /\ ArenaAllocate("vm_manager", VmSize)
      /\ vmxon # NoPage
      /\ vms' = [vms EXCEPT ![v].created = TRUE]
      /\ UNCHANGED <<chainload, vmxon, bitmaps, tracked, devices, task>>
  BY DEF CreateVm, WantsVm
<1>2. vms \in [Vm -> VmRecord] /\ devices \in 0 .. MaxDevices /\ CallOrder
  BY DEF HostInv, Base, HostType
<1>3. /\ vms' \in [Vm -> VmRecord]
      /\ \A w \in Vm : /\ vms'[w].eptp = vms[w].eptp
                       /\ vms'[w].guest_physical_pages = vms[w].guest_physical_pages
                       /\ vms'[w].vmcs_region = vms[w].vmcs_region
                       /\ vms'[w].vmcs_initialized = vms[w].vmcs_initialized
                       /\ vms[w].created => vms'[w].created
  BY <1>1, <1>2 DEF VmRecord
<1>4. CallOrder'
  BY <1>1, <1>2, <1>3 DEF CallOrder
<1>5. "vm_manager" \in ArenaNames /\ VmSize \in Nat
  BY HostConstants DEF ArenaNames
<1> QED
  BY <1>1, <1>2, <1>3, <1>4, <1>5, ArenaStep

LEMMA CreateDeviceStep ==
    ASSUME HostInv, CreateDevice
    PROVE  HostInv' /\ [Owners!Next]_(Owners!vars)
<1>1. /\ task = Idle /\ Fits("devices", DeviceSize) /\ ArenaAllocate("devices", DeviceSize)
      /\ devices < MaxDevices /\ devices' = devices + 1
      /\ UNCHANGED <<chainload, vmxon, bitmaps, vms, tracked, task>>
  BY DEF CreateDevice, WantsDevice
<1>2. vms \in [Vm -> VmRecord] /\ devices \in 0 .. MaxDevices /\ CallOrder
  BY DEF HostInv, Base, HostType
<1>3. CallOrder'
  BY <1>1, <1>2 DEF CallOrder
<1>4. "devices" \in ArenaNames /\ DeviceSize \in Nat /\ MaxDevices \in Nat
  BY HostConstants DEF ArenaNames
<1>5. devices' \in 0 .. MaxDevices
  BY <1>1, <1>2, <1>4
<1> QED
  BY <1>1, <1>2, <1>3, <1>4, <1>5, ArenaStep

(* vmx_create_initialized_vmcs: the region, the bitmaps, the flag.         *)
LEMMA CreateVmcsStep ==
    ASSUME HostInv, NEW v \in Vm, CreateVmcs(v)
    PROVE  HostInv' /\ [Owners!Next]_(Owners!vars)
<1>1. PICK slot \in FoundSlot :
          /\ cursor' = slot
          /\ Overwrite(ScanOrder[slot], "vmcs")
          /\ vms' = [vms EXCEPT ![v].vmcs_region = ScanOrder[slot]]
  BY DEF CreateVmcs
<1>2. /\ task = Idle /\ vms[v].guest_physical_pages # 0 /\ ~vms[v].vmcs_initialized
      /\ task' = [Idle EXCEPT !.pc = "vmcs", !.vm = v]
      /\ UNCHANGED <<chainload, arenas, vmxon, bitmaps, tracked, devices>>
  BY DEF CreateVmcs, WantsVmcs
<1>3. /\ Base /\ task.pc = "idle" /\ task.vm = NoVm
      /\ vms \in [Vm -> VmRecord] /\ vms[v].vmcs_region = NoPage
  BY <1>2, IdleTyped DEF HostInv, Base, HostType, CallOrder
<1>4. task' \in TaskRecord /\ task'.pc = "vmcs" /\ task'.vm = v /\ task'.hpa = NoPage
  BY <1>2, IdleTyped DEF TaskRecord
<1>5. "vmcs" \in Contents
  BY DEF Contents
<1>6. PICK p : p = ScanOrder[slot]
  OBVIOUS
<1>7. /\ slot \in DOMAIN ScanOrder /\ p \in Usable /\ p # NoPage
      /\ content' \in [Page -> Contents]
      /\ entry' \in [Page -> [Index -> Usable \cup {NoPage, Junk}]]
      /\ \A w \in Vm : \A t \in Ept(w) \cup Pool(w) : entry'[t] = entry[t] /\ content'[t] = content[t]
  BY <1>1, <1>3, <1>5, <1>6, OverwriteFresh
<1>8. /\ vms' \in [Vm -> VmRecord]
      /\ \A w \in Vm : /\ vms'[w].eptp = vms[w].eptp
                       /\ vms'[w].guest_physical_pages = vms[w].guest_physical_pages
                       /\ vms'[w].vmcs_region = IF w = v THEN p ELSE vms[w].vmcs_region
                       /\ vms'[w].vmcs_initialized = vms[w].vmcs_initialized
                       /\ vms'[w].created = vms[w].created
  BY <1>1, <1>3, <1>6, <1>7 DEF VmRecord, MaybePage
<1>9. [Owners!Next]_(Owners!vars)
  <2>1. \A w \in Vm : {vms'[w].vmcs_region} \ {NoPage} =
            ({vms[w].vmcs_region} \ {NoPage}) \cup (IF w = v THEN {p} ELSE {})
    BY <1>3, <1>7, <1>8
  <2>2. Gains(<<"vmcs", v>>, p) /\ <<"vmcs", v>> \in HostOwner
    BY <1>2, <1>3, <1>4, <2>1, VmGains, EmptyHanded
  <2>3. Owners!Take(<<"vmcs", v>>)
    BY <1>3, <1>4, <1>6, <2>2, TakeAllowed, EmptyHanded
  <2>4. OwnedPages(<<"vmcs", v>>) = {}
    BY <1>3 DEF OwnedPages
  <2>5. Owners!StartVmcs(v)
    BY <1>3, <1>4, <2>2, <2>3, <2>4 DEF Owners!StartVmcs
  <2> QED
    BY <2>5 DEF Owners!Next
<1>10. Base'
  <2>1. HostType'
    BY <1>1, <1>2, <1>3, <1>4, <1>7, <1>8 DEF Base, HostType
  <2>2. (\A w \in Vm : WellTracked(tracked[w]))' /\ HandInv'
    BY <1>2, <1>3, <1>4 DEF Base, HandInv, Tracking
  <2>3. CallOrder'
    BY <1>2, <1>3, <1>4, <1>8 DEF Base, CallOrder
  <2> QED
    BY <1>3, <1>9, <2>1, <2>2, <2>3, BaseKept
<1>11. WalkInv' /\ \A w \in Vm : EptInv(w)' /\ PoolInv(w)'
  BY <1>2, <1>3, <1>4, <1>7, <1>8, EptsLeftAlone
<1> QED
  BY <1>9, <1>10, <1>11 DEF HostInv

LEMMA VmcsTakeBitmapsStep ==
    ASSUME HostInv, VmcsTakeBitmaps
    PROVE  HostInv' /\ [Owners!Next]_(Owners!vars)
<1>1. PICK slot \in FoundSlot :
          /\ cursor' = slot
          /\ bitmaps' = ScanOrder[slot]
          /\ Overwrite(ScanOrder[slot], "bitmaps")
  BY DEF VmcsTakeBitmaps
<1>2. /\ task.pc = "vmcs" /\ bitmaps = NoPage
      /\ UNCHANGED <<chainload, arenas, vmxon, vms, tracked, devices, task>>
  BY DEF VmcsTakeBitmaps
<1>3. Base /\ task.vm \in Vm /\ task.hpa = NoPage
  BY <1>2 DEF HostInv, Base, CallOrder, WalkInv, Mapping
<1>4. "bitmaps" \in Contents
  BY DEF Contents
<1>5. PICK p : p = ScanOrder[slot]
  OBVIOUS
<1>6. /\ slot \in DOMAIN ScanOrder /\ p \in Usable /\ p # NoPage
      /\ content' \in [Page -> Contents]
      /\ entry' \in [Page -> [Index -> Usable \cup {NoPage, Junk}]]
      /\ \A v \in Vm : \A t \in Ept(v) \cup Pool(v) : entry'[t] = entry[t] /\ content'[t] = content[t]
  BY <1>1, <1>2, <1>4, <1>5, OverwriteFresh
<1>7. [Owners!Next]_(Owners!vars)
  <2>1. UsedByArena' = UsedByArena /\ {bitmaps'} \ {NoPage} = ({bitmaps} \ {NoPage}) \cup {p}
    BY <1>1, <1>2, <1>5, <1>6 DEF UsedByArena
  <2>2. Gains(<<"bitmaps", NoVm>>, p) /\ <<"bitmaps", NoVm>> \in HostOwner
    BY <1>2, <2>1, HostGains, EmptyHanded
  <2>3. Owners!Take(<<"bitmaps", NoVm>>)
    BY <1>2, <1>3, <1>5, <2>2, TakeAllowed, EmptyHanded
  <2>4. OwnedPages(<<"bitmaps", NoVm>>) = {}
    BY <1>2 DEF OwnedPages
  <2>5. Owners!TakeBitmaps
    BY <1>2, <2>2, <2>3, <2>4 DEF Owners!TakeBitmaps
  <2> QED
    BY <2>5 DEF Owners!Next
<1>8. Base'
  <2>1. HostType'
    BY <1>1, <1>2, <1>3, <1>5, <1>6 DEF Base, HostType, MaybePage
  <2>2. (\A v \in Vm : WellTracked(tracked[v]))' /\ HandInv'
    BY <1>2, <1>3 DEF Base, HandInv, Tracking
  <2>3. CallOrder'
    BY <1>2, <1>3 DEF Base, CallOrder
  <2> QED
    BY <1>3, <1>7, <2>1, <2>2, <2>3, BaseKept
<1>9. WalkInv' /\ \A v \in Vm : EptInv(v)' /\ PoolInv(v)'
  BY <1>2, <1>3, <1>6, EptsLeftAlone
<1> QED
  BY <1>7, <1>8, <1>9 DEF HostInv

LEMMA VmcsFinishStep ==
    ASSUME HostInv, VmcsFinish
    PROVE  HostInv' /\ [Owners!Next]_(Owners!vars)
<1>1. /\ task.pc = "vmcs" /\ task' = Idle
      /\ vms' = [vms EXCEPT ![task.vm].vmcs_initialized = TRUE]
      /\ UNCHANGED <<chainload, cursor, arenas, vmxon, bitmaps, content, entry, tracked, devices>>
  BY DEF VmcsFinish, memory
<1>2. /\ Base /\ task.vm \in Vm /\ vms \in [Vm -> VmRecord]
      /\ task' \in TaskRecord /\ task'.pc = "idle" /\ task'.hpa = NoPage /\ task'.vm = NoVm
  BY <1>1, IdleTyped DEF HostInv, Base, HostType, CallOrder
<1>3. /\ vms' \in [Vm -> VmRecord]
      /\ \A w \in Vm : /\ vms'[w].eptp = vms[w].eptp
                       /\ vms'[w].guest_physical_pages = vms[w].guest_physical_pages
                       /\ vms'[w].vmcs_region = vms[w].vmcs_region
                       /\ vms'[w].vmcs_initialized = (w = task.vm \/ vms[w].vmcs_initialized)
                       /\ vms'[w].created = vms[w].created
  BY <1>1, <1>2 DEF VmRecord
<1>4. [Owners!Next]_(Owners!vars)
  <2>1. \A w \in Vm : /\ InHand(w, "table_track")' = InHand(w, "table_track")
                      /\ InHand(w, "reserve_track")' = InHand(w, "reserve_track")
                      /\ InHand(w, "guest_track")' = InHand(w, "guest_track")
    BY <1>1, <1>2, EmptyHanded
  <2>2. \A q \in HostOwner : OwnedPages(q)' = OwnedPages(q)
    BY <1>1, <1>3, <2>1, OwnerCases DEF OwnedPages, UsedByArena
  <2>3. Owners!FinishVmcs
    BY <1>1, <1>2, <2>2 DEF Owners!FinishVmcs
  <2> QED
    BY <2>3 DEF Owners!Next
<1>5. Base'
  <2>1. HostType'
    BY <1>1, <1>2, <1>3 DEF Base, HostType
  <2>2. (\A w \in Vm : WellTracked(tracked[w]))' /\ HandInv'
    BY <1>1, <1>2 DEF Base, HandInv, Tracking
  <2>3. CallOrder'
    BY <1>1, <1>2, <1>3 DEF Base, CallOrder
  <2> QED
    BY <1>2, <1>4, <2>1, <2>2, <2>3, BaseKept
<1>6. WalkInv' /\ \A w \in Vm : EptInv(w)' /\ PoolInv(w)'
  BY <1>1, <1>2, <1>3, EptsLeftAlone
<1> QED
  BY <1>4, <1>5, <1>6 DEF HostInv

-----------------------------------------------------------------------------
(* vm_manager_allocate_guest_physical_memory, up to the pages it takes.    *)
LEMMA AllocateGuestMemoryStep ==
    ASSUME HostInv, NEW v \in Vm, NEW pages \in GuestSizes, AllocateGuestMemory(v, pages)
    PROVE  HostInv' /\ [Owners!Next]_(Owners!vars)
<1>1. /\ task = Idle /\ vms[v].created /\ vms[v].guest_physical_pages = 0
      /\ vms' = [vms EXCEPT ![v].guest_physical_pages = pages]
      /\ task' = [Idle EXCEPT !.pc = "reserve", !.vm = v, !.left = EptPages(pages)]
      /\ UNCHANGED <<chainload, cursor, arenas, vmxon, bitmaps, content, entry, tracked, devices>>
  BY DEF AllocateGuestMemory, memory
<1>2. /\ Base /\ task.pc = "idle" /\ task.vm = NoVm /\ task.hpa = NoPage
      /\ vms \in [Vm -> VmRecord]
  BY <1>1, IdleTyped DEF HostInv, Base, HostType
<1>3. pages \in 0 .. EptSpan(4) /\ pages \in Nat
  BY HostConstants, SpanFacts
<1>4. EptPages(pages) \in Nat
  BY <1>3, EptPagesSum
<1>5. /\ task' \in TaskRecord /\ task'.pc = "reserve" /\ task'.vm = v /\ task'.hpa = NoPage
      /\ task'.left = EptPages(pages) /\ task'.gpa = 0
  BY <1>1, <1>4, IdleTyped DEF TaskRecord
<1>6. /\ vms' \in [Vm -> VmRecord]
      /\ \A w \in Vm : /\ vms'[w].eptp = vms[w].eptp
                       /\ vms'[w].guest_physical_pages =
                              IF w = v THEN pages ELSE vms[w].guest_physical_pages
                       /\ vms'[w].vmcs_region = vms[w].vmcs_region
                       /\ vms'[w].vmcs_initialized = vms[w].vmcs_initialized
                       /\ vms'[w].created = vms[w].created
  BY <1>1, <1>2, <1>3 DEF VmRecord
<1>7. /\ ~Tracking /\ ~Tracking'
      /\ \A w \in Vm : /\ InHand(w, "table_track")' = InHand(w, "table_track")
                       /\ InHand(w, "reserve_track")' = InHand(w, "reserve_track")
                       /\ InHand(w, "guest_track")' = InHand(w, "guest_track")
  BY <1>2, <1>5, EmptyHanded
<1>8. [Owners!Next]_(Owners!vars)
  <2>1. \A q \in HostOwner : OwnedPages(q)' = OwnedPages(q)
    BY <1>1, <1>6, <1>7, OwnerCases DEF OwnedPages, UsedByArena
  <2> QED
    BY <1>2, <1>5, <2>1, NothingMoves
<1>9. Base'
  <2>1. HostType'
    BY <1>1, <1>2, <1>5, <1>6 DEF Base, HostType
  <2>2. (\A w \in Vm : WellTracked(tracked[w]))' /\ HandInv'
    BY <1>1, <1>2, <1>7 DEF Base, HandInv
  <2>3. CallOrder'
    BY <1>1, <1>2, <1>5, <1>6 DEF Base, CallOrder
  <2> QED
    BY <1>2, <1>8, <2>1, <2>2, <2>3, BaseKept
<1>10. WalkInv'
  BY <1>5 DEF WalkInv, Mapping
<1>11. \A w \in Vm : EptInv(w)' /\ PoolInv(w)'
  <2>1. ASSUME NEW w \in Vm
        PROVE  /\ Mapped(w) = vms[w].guest_physical_pages
               /\ Mapped(w)' = vms[w].guest_physical_pages
    BY <1>1, <1>2, <1>5, <1>6, PageFacts DEF Mapped
  <2>2. \A w \in Vm, l \in 0 .. 4 : Upto(w, l)' = Upto(w, l)
    BY <1>2, <1>5, <2>1 DEF Upto, Mapping
  <2>3. EptPages(0) = 0
    BY EptPagesSum, CeilZero, SpanFacts
  <2>4. \A w \in Vm : Reserved(w)' = Reserved(w)
    BY <1>1, <1>2, <1>4, <1>5, <1>6, <2>3 DEF Reserved
  <2>5. \A w \in Vm : Blank(w)' = Blank(w)
    BY <1>1, <1>7 DEF Blank, Pool
  <2>6. \A w \in Vm : \A t \in Blank(w) : content[t] = "table" /\ entry[t] = [i \in Index |-> NoPage]
    BY DEF HostInv, EptInv
  <2> QED
    BY <1>1, <1>2, <1>5, <1>6, <2>2, <2>4, <2>5, <2>6, EptPoolKept
<1> QED
  BY <1>8, <1>9, <1>10, <1>11 DEF HostInv

(* vmx_get_free_ept_page and vm_manager_get_free_guest_physical_page.      *)
LEMMA TakeForVmStep ==
    ASSUME HostInv, NEW r \in {"pool", "guest"}, NEW what, NEW pc, NEW slot \in FoundSlot,
           r = "pool" => what = "table" /\ pc = "reserve_track" /\ task.pc = "reserve" /\ task.left > 0,
           r = "guest" => /\ what = "guest" /\ pc = "guest_track" /\ task.pc = "guest"
                          /\ task.gpa < vms[task.vm].guest_physical_pages,
           cursor' = slot, ZeroPage(ScanOrder[slot], what),
           task' = [task EXCEPT !.pc = pc, !.hand = ScanOrder[slot]],
           UNCHANGED <<chainload, arenas, vmxon, bitmaps, vms, tracked, devices>>
    PROVE  HostInv' /\ [Owners!Next]_(Owners!vars)
<1>1. /\ Base /\ ~Tracking /\ task.pc \in {"reserve", "guest"} /\ task \in TaskRecord
      /\ task.vm \in Vm /\ task.hpa = NoPage /\ vmxon # NoPage
  BY DEF HostInv, Base, HostType, Tracking, CallOrder, WalkInv, Mapping
<1>2. PICK p : p = ScanOrder[slot]
  OBVIOUS
<1>3. /\ slot \in DOMAIN ScanOrder /\ p \in Usable /\ p # NoPage
      /\ \A v \in Vm : InNoNode(tracked[v], p) /\ p \notin Ept(v) \cup Pool(v)
  BY <1>1, <1>2, FreshPage, PageFacts
<1>4. /\ content' \in [Page -> Contents]
      /\ entry' \in [Page -> [Index -> Usable \cup {NoPage, Junk}]]
      /\ content'[p] = what /\ entry'[p] = [i \in Index |-> NoPage]
      /\ \A v \in Vm : \A t \in Ept(v) \cup Pool(v) : entry'[t] = entry[t] /\ content'[t] = content[t]
  <2>1. what \in Contents
    BY DEF Contents
  <2>2. PICK row \in [Index -> Usable \cup {NoPage, Junk}] :
            row = Cleared /\ row = [i \in Index |-> NoPage]
    BY DEF Cleared, Index
  <2>3. /\ content' = [content EXCEPT ![ScanOrder[slot]] = what]
        /\ entry' = [entry EXCEPT ![ScanOrder[slot]] = row]
    BY <2>2 DEF ZeroPage
  <2>4. /\ content' \in [Page -> Contents]
        /\ entry' \in [Page -> [Index -> Usable \cup {NoPage, Junk}]]
        /\ content'[ScanOrder[slot]] = what /\ entry'[ScanOrder[slot]] = row
        /\ \A v \in Vm : \A t \in Ept(v) \cup Pool(v) :
               entry'[t] = entry[t] /\ content'[t] = content[t]
    BY <1>1, <2>1, <2>3, FreshWrite
  <2> QED
    BY <1>2, <2>2, <2>4
<1>5. /\ task' \in TaskRecord /\ task'.pc = pc /\ task'.hand = p
      /\ task'.vm = task.vm /\ task'.left = task.left /\ task'.gpa = task.gpa
      /\ task'.hpa = task.hpa
  BY <1>1, <1>2, <1>3 DEF TaskRecord, MaybePage
<1>6. ASSUME NEW v \in Vm
      PROVE  /\ InHand(v, "table_track") = {} /\ InHand(v, "table_track")' = {}
             /\ InHand(v, "reserve_track") = {}
             /\ InHand(v, "reserve_track")' = IF r = "pool" /\ v = task.vm THEN {p} ELSE {}
             /\ InHand(v, "guest_track") = {}
             /\ InHand(v, "guest_track")' = IF r = "guest" /\ v = task.vm THEN {p} ELSE {}
  BY <1>1, <1>5 DEF InHand
<1>7. [Owners!Next]_(Owners!vars)
  <2>1. Gains(<<r, task.vm>>, p) /\ <<r, task.vm>> \in HostOwner
    <3>1. PICK w \in Vm : w = task.vm
      BY <1>1
    <3>2. \A v \in Vm :
              /\ {vms'[v].vmcs_region} \ {NoPage} =
                     ({vms[v].vmcs_region} \ {NoPage})
                         \cup (IF r = "vmcs" /\ v = w THEN {p} ELSE {})
              /\ InHand(v, "table_track")' = InHand(v, "table_track")
              /\ InHand(v, "reserve_track")' =
                     InHand(v, "reserve_track") \cup (IF r = "pool" /\ v = w THEN {p} ELSE {})
              /\ InHand(v, "guest_track")' =
                     InHand(v, "guest_track") \cup (IF r = "guest" /\ v = w THEN {p} ELSE {})
      BY <1>6, <3>1
    <3>3. r \in {"vmcs", "pool", "guest"}
      OBVIOUS
    <3>4. UNCHANGED <<chainload, arenas, vmxon, bitmaps, tracked>>
      OBVIOUS
    <3>5. Gains(<<r, w>>, p) /\ <<r, w>> \in HostOwner
      BY ONLY w \in Vm, <3>2, <3>3, <3>4, VmGains
    <3> QED
      BY <3>1, <3>5
  <2>2. Owners!Take(<<r, task.vm>>)
    BY <1>1, <1>2, <2>1, TakeAllowed
  <2>3. Owners!TakeForVm(task.vm)
    BY <1>1, <1>5, <2>2 DEF Owners!TakeForVm
  <2> QED
    BY <1>1, <2>3 DEF Owners!Next
<1>8. Base'
  <2>1. HostType'
    BY <1>1, <1>3, <1>4, <1>5 DEF Base, HostType
  <2>2. (\A v \in Vm : WellTracked(tracked[v]))' /\ HandInv'
    BY <1>1, <1>3, <1>5 DEF Base, HandInv
  <2>3. CallOrder'
    BY <1>1, <1>5 DEF Base, CallOrder
  <2> QED
    BY <1>1, <1>7, <2>1, <2>2, <2>3, BaseKept
<1>9. WalkInv'
  BY <1>1, <1>5 DEF HostInv, WalkInv, Mapping
<1>10. \A v \in Vm : EptInv(v)' /\ PoolInv(v)'
  <2>1. \A v \in Vm, l \in 0 .. 4 : Upto(v, l)' = Upto(v, l)
    BY <1>1, <1>5 DEF Upto, Mapping, Mapped
  <2>2. \A v \in Vm : Reserved(v)' = Reserved(v)
    BY <1>1, <1>5 DEF Reserved
  <2>3. ASSUME NEW v \in Vm, NEW t \in Blank(v)'
        PROVE  content'[t] = "table" /\ entry'[t] = [i \in Index |-> NoPage]
    <3>1. CASE t \in Pool(v)
      <4>1. t \in Blank(v)
        BY <3>1 DEF Blank
      <4>2. content[t] = "table" /\ entry[t] = [i \in Index |-> NoPage]
        BY <4>1 DEF HostInv, EptInv
      <4> QED
        BY <1>4, <3>1, <4>2
    <3>2. CASE t \notin Pool(v)
      <4>1. t = p /\ what = "table"
        BY <1>6, <2>3, <3>2 DEF Blank, Pool
      <4> QED
        BY <1>4, <4>1
    <3> QED
      BY <3>1, <3>2
  <2>4. \A v \in Vm : task'.vm = v /\ task'.pc = "table_track" <=> task.vm = v /\ task.pc = "table_track"
    BY <1>1, <1>5
  <2> QED
    BY <1>1, <1>4, <1>5, <2>1, <2>2, <2>3, <2>4, EptPoolKept
<1> QED
  BY <1>7, <1>8, <1>9, <1>10 DEF HostInv

(* The reserved pool is complete, or all the memory is mapped.             *)
LEMMA CallDoneStep ==
    ASSUME HostInv, ReserveDone \/ GuestDone
    PROVE  HostInv' /\ [Owners!Next]_(Owners!vars)
<1>1. /\ UNCHANGED <<chainload, cursor, arenas, vmxon, bitmaps, content, entry, vms, tracked, devices>>
      /\ \/ task.pc = "reserve" /\ task.left = 0 /\ task' = [task EXCEPT !.pc = "guest"]
         \/ /\ task.pc = "guest" /\ task' = Idle
            /\ task.gpa = vms[task.vm].guest_physical_pages
  BY DEF ReserveDone, GuestDone, memory
<1>2. /\ Base /\ task \in TaskRecord /\ task.vm \in Vm /\ task.hpa = NoPage /\ vmxon # NoPage
      /\ vms[task.vm].guest_physical_pages \in Nat
      /\ task.pc = "reserve" => task.gpa = 0
  <2>1. EptSpan(4) \in Nat /\ vms \in [Vm -> VmRecord]
    BY SpanFacts DEF HostInv, Base, HostType
  <2> QED
    BY <1>1, <2>1 DEF HostInv, Base, HostType, CallOrder, WalkInv, Mapping, VmRecord
<1>3. /\ task' \in TaskRecord /\ task'.hpa = NoPage
      /\ \/ /\ task.pc = "reserve" /\ task'.pc = "guest" /\ task'.vm = task.vm
            /\ task'.gpa = task.gpa
         \/ task.pc = "guest" /\ task'.pc = "idle" /\ task'.vm = NoVm /\ task' = Idle
  BY <1>1, <1>2, IdleTyped DEF TaskRecord
<1>4. /\ ~Tracking /\ ~Tracking' /\ ~Mapping /\ ~Mapping'
      /\ \A w \in Vm : /\ InHand(w, "table_track")' = InHand(w, "table_track")
                       /\ InHand(w, "reserve_track")' = InHand(w, "reserve_track")
                       /\ InHand(w, "guest_track")' = InHand(w, "guest_track")
  BY <1>1, <1>3, EmptyHanded DEF Mapping
<1>5. [Owners!Next]_(Owners!vars)
  <2>1. \A q \in HostOwner : OwnedPages(q)' = OwnedPages(q)
    BY <1>1, <1>4, OwnerCases DEF OwnedPages, UsedByArena
  <2> QED
    BY <1>1, <1>3, <2>1, NothingMoves
<1>6. Base'
  <2>1. HostType'
    BY <1>1, <1>2, <1>3 DEF Base, HostType
  <2>2. (\A w \in Vm : WellTracked(tracked[w]))' /\ HandInv'
    BY <1>1, <1>2, <1>4 DEF Base, HandInv
  <2>3. CallOrder'
    BY <1>1, <1>2, <1>3 DEF Base, CallOrder
  <2> QED
    BY <1>2, <1>5, <2>1, <2>2, <2>3, BaseKept
<1>7. WalkInv'
  BY <1>1, <1>2, <1>3, <1>4 DEF WalkInv
<1>8. \A w \in Vm : EptInv(w)' /\ PoolInv(w)'
  <2>1. ASSUME NEW w \in Vm
        PROVE  Mapped(w)' = Mapped(w)
    BY <1>1, <1>2, <1>3, PageFacts DEF Mapped
  <2>2. \A w \in Vm, l \in 0 .. 4 : Upto(w, l)' = Upto(w, l)
    BY <1>4, <2>1 DEF Upto
  <2>3. \A w \in Vm : Reserved(w)' = Reserved(w)
    <3>1. EptPages(vms[task.vm].guest_physical_pages) \in Nat
      BY <1>2, EptPagesSum
    <3> QED
      BY <1>1, <1>2, <1>3, <3>1 DEF Reserved
  <2>4. \A w \in Vm : Blank(w)' = Blank(w)
    BY <1>1, <1>4 DEF Blank, Pool
  <2>5. \A w \in Vm : \A t \in Blank(w) : content[t] = "table" /\ entry[t] = [i \in Index |-> NoPage]
    BY DEF HostInv, EptInv
  <2> QED
    BY <1>1, <1>2, <1>3, <2>2, <2>3, <2>4, <2>5, EptPoolKept
<1> QED
  BY <1>5, <1>6, <1>7, <1>8 DEF HostInv

(* vm_manager_track_page: the page in hand joins the pages of its kind.    *)
Joins(pc) == IF task.pc = pc THEN {task.hand} ELSE {}

LEMMA TrackEffect ==
    ASSUME HostInv, Track, NEW v \in Vm, v = task.vm
    PROVE  /\ Base /\ task.hand \in Usable /\ vmxon # NoPage
           /\ task.hand \notin Ept(v) \cup Pool(v) \cup GuestMemory(v)
           /\ tracked' \in [Vm -> Seq(ListNode)]
           /\ \A w \in Vm : WellTracked(tracked'[w])
           /\ \A w \in Vm : w # v => tracked'[w] = tracked[w]
           /\ Ept(v)' = Ept(v) \cup Joins("table_track")
           /\ Pool(v)' = Pool(v) \cup Joins("reserve_track")
           /\ GuestMemory(v)' = GuestMemory(v) \cup Joins("guest_track")
           /\ arenas' \in [ArenaNames -> ArenaRecord]
           /\ UsedByArena' = UsedByArena
           /\ UNCHANGED <<chainload, cursor, vmxon, bitmaps, devices>>
<1>1. /\ Base /\ Tracking /\ HandInv /\ CallOrder /\ task.pc # "idle"
      /\ tracked \in [Vm -> Seq(ListNode)] /\ \A w \in Vm : WellTracked(tracked[w])
      /\ arenas \in [ArenaNames -> ArenaRecord]
  BY DEF HostInv, Base, HostType, Track, Tracking
<1>2. task.hand \in Usable /\ vmxon # NoPage /\ InNoNode(tracked[task.vm], task.hand)
  BY <1>1 DEF CallOrder, HandInv
<1>4. PICK p \in Usable : p = task.hand
  BY <1>2
<1>5. PICK k \in Kinds : k = TrackKind
  BY <1>1 DEF Tracking, TrackKind, Kinds
<1>6. PICK m : m = TrackPage(tracked[v], p, k[1], k[2])
  OBVIOUS
<1>7. m \in Seq(ListNode) /\ WellTracked(m) /\ AddsPage(tracked[v], m, p, k)
  <2>1. tracked[v] \in Seq(ListNode) /\ WellTracked(tracked[v]) /\ InNoNode(tracked[v], p)
    BY <1>1, <1>2, <1>4
  <2> QED
    BY <1>6, <2>1, TrackAdds
<1>8. tracked' = [tracked EXCEPT ![v] = m]
  BY <1>4, <1>5, <1>6 DEF Track
<1>9. /\ tracked' \in [Vm -> Seq(ListNode)] /\ tracked'[v] = m
      /\ \A w \in Vm : w # v => tracked'[w] = tracked[w]
      /\ \A w \in Vm : WellTracked(tracked'[w])
  BY <1>1, <1>7, <1>8
<1>10. /\ PagesOf(m, "EPT", 0) = PagesOf(tracked[v], "EPT", 0) \cup Joins("table_track")
       /\ PagesOf(m, "EPT", 1) = PagesOf(tracked[v], "EPT", 1) \cup Joins("reserve_track")
       /\ PagesOf(m, "GUEST_PHYSICAL", 0) =
              PagesOf(tracked[v], "GUEST_PHYSICAL", 0) \cup Joins("guest_track")
  <2>1. <<"EPT", 0>> \in Kinds /\ <<"EPT", 1>> \in Kinds /\ <<"GUEST_PHYSICAL", 0>> \in Kinds
    BY DEF Kinds
  <2>5. /\ PagesOf(m, "EPT", 0) = PagesOf(tracked[v], "EPT", 0) \cup (IF k = <<"EPT", 0>> THEN {p} ELSE {})
        /\ PagesOf(m, "EPT", 1) = PagesOf(tracked[v], "EPT", 1) \cup (IF k = <<"EPT", 1>> THEN {p} ELSE {})
        /\ PagesOf(m, "GUEST_PHYSICAL", 0) = PagesOf(tracked[v], "GUEST_PHYSICAL", 0)
               \cup (IF k = <<"GUEST_PHYSICAL", 0>> THEN {p} ELSE {})
    BY <1>7, <2>1 DEF AddsPage
  <2>2. CASE task.pc = "table_track"
    <3>1. k = <<"EPT", 0>>
      BY <1>5, <2>2 DEF TrackKind
    <3> QED
      BY <1>4, <2>5, <2>2, <3>1 DEF Joins
  <2>3. CASE task.pc = "reserve_track"
    <3>1. k = <<"EPT", 1>>
      BY <1>5, <2>3 DEF TrackKind
    <3> QED
      BY <1>4, <2>5, <2>3, <3>1 DEF Joins
  <2>4. CASE task.pc = "guest_track"
    <3>1. k = <<"GUEST_PHYSICAL", 0>>
      BY <1>5, <2>4 DEF TrackKind
    <3> QED
      BY <1>4, <2>5, <2>4, <3>1 DEF Joins
  <2> QED
    BY <1>1, <2>2, <2>3, <2>4 DEF Tracking
<1>11. /\ Ept(v)' = Ept(v) \cup Joins("table_track")
       /\ Pool(v)' = Pool(v) \cup Joins("reserve_track")
       /\ GuestMemory(v)' = GuestMemory(v) \cup Joins("guest_track")
  BY <1>9, <1>10 DEF Ept, Pool, GuestMemory
<1>12. p \notin Ept(v) \cup Pool(v) \cup GuestMemory(v)
  <2>1. <<"EPT", 0>> \in Kinds /\ <<"EPT", 1>> \in Kinds /\ <<"GUEST_PHYSICAL", 0>> \in Kinds
    BY DEF Kinds
  <2>2. \A j \in Kinds : p \notin PagesOf(tracked[v], j[1], j[2])
    BY <1>1, <1>2, <1>4, ListClaims
  <2> QED
    BY <2>1, <2>2 DEF Ept, Pool, GuestMemory
<1>13. arenas' \in [ArenaNames -> ArenaRecord] /\ \A a \in ArenaNames : arenas'[a].page = arenas[a].page
  <2>1. "vm_manager" \in ArenaNames /\ NodeSize \in Nat /\ ArenaSize \in Nat
    BY HostConstants DEF ArenaNames
  <2>2. CASE AllocatesNode
    <3>1. /\ arenas["vm_manager"].used_size + NodeSize <= ArenaSize
          /\ arenas' = [arenas EXCEPT !["vm_manager"].used_size = @ + NodeSize]
      BY <2>2 DEF Track, Fits
    <3> QED
      BY <1>1, <2>1, <3>1 DEF ArenaRecord
  <2>3. CASE ~AllocatesNode
    BY <1>1, <2>3 DEF Track
  <2> QED
    BY <2>2, <2>3
<1>14. UsedByArena' = UsedByArena /\ UNCHANGED <<chainload, cursor, vmxon, bitmaps, devices>>
  BY <1>13 DEF UsedByArena, Track
<1> QED
  BY <1>1, <1>2, <1>4, <1>9, <1>11, <1>12, <1>13, <1>14

(* A page that was in hand is tracked: nothing changes hands.              *)
LEMMA KeepsByParts ==
    ASSUME UNCHANGED <<chainload, vmxon, bitmaps>>, UsedByArena' = UsedByArena,
           \A v \in Vm :
               /\ vms'[v].vmcs_region = vms[v].vmcs_region
               /\ Ept(v)' \cup InHand(v, "table_track")' = Ept(v) \cup InHand(v, "table_track")
               /\ Pool(v)' \cup InHand(v, "reserve_track")' = Pool(v) \cup InHand(v, "reserve_track")
               /\ GuestMemory(v)' \cup InHand(v, "guest_track")' =
                      GuestMemory(v) \cup InHand(v, "guest_track")
    PROVE  \A q \in HostOwner : OwnedPages(q)' = OwnedPages(q)
<1> SUFFICES ASSUME NEW q \in HostOwner PROVE OwnedPages(q)' = OwnedPages(q)
  OBVIOUS
<1>1. CASE q \in {<<"chainload", NoVm>>, <<"arena", NoVm>>, <<"vmxon", NoVm>>, <<"bitmaps", NoVm>>}
  BY <1>1 DEF OwnedPages
<1>2. ASSUME NEW v \in Vm, q = <<"vmcs", v>>
      PROVE  OwnedPages(q)' = OwnedPages(q)
  BY <1>2 DEF OwnedPages
<1>3. ASSUME NEW v \in Vm, q = <<"ept", v>>
      PROVE  OwnedPages(q)' = OwnedPages(q)
  BY <1>3 DEF OwnedPages, Ept
<1>4. ASSUME NEW v \in Vm, q = <<"pool", v>>
      PROVE  OwnedPages(q)' = OwnedPages(q)
  BY <1>4 DEF OwnedPages, Pool
<1>5. ASSUME NEW v \in Vm, q = <<"guest", v>>
      PROVE  OwnedPages(q)' = OwnedPages(q)
  BY <1>5 DEF OwnedPages, GuestMemory
<1> QED
  BY <1>1, <1>2, <1>3, <1>4, <1>5, OwnerCases

LEMMA InUseNat ==
    ASSUME Base, NEW v \in Vm
    PROVE  /\ \A l \in 1 .. 4 : TablesOf(v, l) \in Nat
           /\ InUse(v) \in Nat
<1>1. ASSUME NEW l \in 1 .. 4
      PROVE  TablesOf(v, l) \in Nat
  <2>1. Upto(v, l) \in Nat /\ EptSpan(l) \in Nat \ {0}
    BY UptoFacts, SpanFacts
  <2> QED
    BY <2>1, CeilBelow DEF TablesOf
<1>2. TablesOf(v, 1) \in Nat /\ TablesOf(v, 2) \in Nat /\ TablesOf(v, 3) \in Nat /\ TablesOf(v, 4) \in Nat
  BY <1>1
<1> QED
  BY <1>1, <1>2 DEF InUse

(* A call for one machine leaves the others as they are.                   *)
LEMMA OtherVm ==
    ASSUME HostInv, NEW w \in Vm, w # task.vm, w # task'.vm, tracked'[w] = tracked[w],
           vms'[w].eptp = vms[w].eptp,
           vms'[w].guest_physical_pages = vms[w].guest_physical_pages,
           \A t \in Ept(w) \cup Pool(w) : entry'[t] = entry[t] /\ content'[t] = content[t]
    PROVE  EptInv(w)' /\ PoolInv(w)'
<1>1. Ept(w)' = Ept(w) /\ Pool(w)' = Pool(w) /\ GuestMemory(w)' = GuestMemory(w)
  BY DEF Ept, Pool, GuestMemory
<1>2. Blank(w) = Pool(w) /\ Blank(w)' = Pool(w)
  BY <1>1 DEF Blank, InHand
<1>3. \A l \in 0 .. 4 : Upto(w, l)' = Upto(w, l)
  BY DEF Upto, Mapped
<1>4. \A l \in 0 .. 4, g \in GuestAddresses : Linked(w, l, g)' <=> Linked(w, l, g)
  BY <1>3 DEF Linked
<1>5. \A t \in Blank(w)' : content'[t] = "table" /\ entry'[t] = [i \in Index |-> NoPage]
  BY <1>2 DEF HostInv, EptInv
<1>6. \A t \in Ept(w) : entry'[t] = entry[t] /\ content'[t] = content[t]
  OBVIOUS
<1>7. Base /\ EptInv(w) /\ PoolInv(w)
  BY DEF HostInv
<1>8. EptInv(w)'
  BY <1>1, <1>4, <1>5, <1>6, <1>7, EptKept
<1>9. InUse(w)' = InUse(w)
  BY <1>3 DEF InUse, TablesOf
<1>10. Reserved(w)' = Reserved(w)
  BY DEF Reserved
<1> QED
  BY <1>1, <1>7, <1>8, <1>9, <1>10 DEF PoolInv

LEMMA ReserveTrackStep ==
    ASSUME HostInv, ReserveTrack
    PROVE  HostInv' /\ [Owners!Next]_(Owners!vars)
<1>1. /\ task.pc = "reserve_track" /\ Track
      /\ task' = [task EXCEPT !.pc = "reserve", !.left = @ - 1, !.hand = NoPage]
      /\ UNCHANGED <<content, entry, vms>>
  BY DEF ReserveTrack, memory
<1>2. PICK v \in Vm : v = task.vm
  BY <1>1 DEF HostInv, Base, CallOrder
<1>3. PICK p : p = task.hand
  OBVIOUS
<1>4. /\ Base /\ p \in Usable /\ vmxon # NoPage /\ p \notin Pool(v)
      /\ tracked' \in [Vm -> Seq(ListNode)]
      /\ \A w \in Vm : WellTracked(tracked'[w])
      /\ \A w \in Vm : w # v => tracked'[w] = tracked[w]
      /\ Ept(v)' = Ept(v) /\ Pool(v)' = Pool(v) \cup {p} /\ GuestMemory(v)' = GuestMemory(v)
      /\ arenas' \in [ArenaNames -> ArenaRecord]
      /\ UsedByArena' = UsedByArena
      /\ UNCHANGED <<chainload, cursor, vmxon, bitmaps, devices>>
  <2>1. /\ Joins("table_track") = {} /\ Joins("reserve_track") = {p} /\ Joins("guest_track") = {}
    BY <1>1, <1>3 DEF Joins
  <2>2. /\ Base /\ task.hand \in Usable /\ vmxon # NoPage
        /\ task.hand \notin Ept(v) \cup Pool(v) \cup GuestMemory(v)
        /\ Ept(v)' = Ept(v) \cup Joins("table_track")
        /\ Pool(v)' = Pool(v) \cup Joins("reserve_track")
        /\ GuestMemory(v)' = GuestMemory(v) \cup Joins("guest_track")
    BY <1>1, <1>2, TrackEffect, Zenon
  <2>3. /\ tracked' \in [Vm -> Seq(ListNode)]
        /\ \A w \in Vm : WellTracked(tracked'[w])
        /\ \A w \in Vm : w # v => tracked'[w] = tracked[w]
        /\ arenas' \in [ArenaNames -> ArenaRecord]
        /\ UsedByArena' = UsedByArena
        /\ UNCHANGED <<chainload, cursor, vmxon, bitmaps, devices>>
    BY <1>1, <1>2, TrackEffect, Zenon
  <2>4. /\ p \in Usable /\ p \notin Pool(v)
        /\ Ept(v)' = Ept(v) /\ Pool(v)' = Pool(v) \cup {p} /\ GuestMemory(v)' = GuestMemory(v)
    BY <1>3, <2>1, <2>2
  <2> QED
    BY <2>2, <2>3, <2>4, Zenon
<1>5. /\ task \in TaskRecord /\ task.left \in Nat /\ task.left > 0 /\ task.gpa = 0 /\ task.hpa = NoPage
      /\ vms[v].guest_physical_pages \in Nat
  <2>1. EptSpan(4) \in Nat
    BY SpanFacts
  <2> QED
    BY <1>1, <1>4, <2>1 DEF HostInv, Base, HostType, TaskRecord, VmRecord, WalkInv, Mapping
<1>6. /\ task' \in TaskRecord /\ task'.pc = "reserve" /\ task'.left = task.left - 1
      /\ task'.hand = NoPage /\ task'.vm = v /\ task'.gpa = 0 /\ task'.hpa = NoPage
  <2>1. PICK n \in Nat : n = task.left - 1
    BY <1>5
  <2>2. task' = [task EXCEPT !.pc = "reserve", !.left = n, !.hand = NoPage]
    BY <1>1, <2>1
  <2> QED
    BY <1>2, <1>5, <2>1, <2>2 DEF TaskRecord, MaybePage
<1>7. /\ \A w \in Vm : /\ InHand(w, "table_track") = {} /\ InHand(w, "table_track")' = {}
                       /\ InHand(w, "guest_track") = {} /\ InHand(w, "guest_track")' = {}
                       /\ InHand(w, "reserve_track") = IF w = v THEN {p} ELSE {}
                       /\ InHand(w, "reserve_track")' = {}
      /\ ~Mapping /\ ~Mapping' /\ ~Tracking'
  BY <1>1, <1>2, <1>3, <1>6 DEF InHand, Mapping, Tracking
<1>8. [Owners!Next]_(Owners!vars)
  <2>1. \A w \in Vm : w # v =>
            Ept(w)' = Ept(w) /\ Pool(w)' = Pool(w) /\ GuestMemory(w)' = GuestMemory(w)
    BY <1>4 DEF Ept, Pool, GuestMemory
  <2>2. \A q \in HostOwner : OwnedPages(q)' = OwnedPages(q)
    BY <1>1, <1>4, <1>7, <2>1, KeepsByParts
  <2> QED
    BY <1>1, <1>6, <2>2, NothingMoves
<1>9. Base'
  <2>1. HostType'
    BY <1>1, <1>4, <1>6 DEF Base, HostType
  <2>2. (\A w \in Vm : WellTracked(tracked[w]))' /\ HandInv'
    BY <1>4, <1>7 DEF HandInv
  <2>3. CallOrder'
    BY <1>1, <1>4, <1>6 DEF Base, CallOrder
  <2> QED
    BY <1>4, <1>8, <2>1, <2>2, <2>3, BaseKept
<1>10. WalkInv'
  BY <1>6, <1>7 DEF WalkInv
<1>11. ASSUME NEW w \in Vm
       PROVE  EptInv(w)' /\ PoolInv(w)'
  <2>1. CASE w # v
    BY <1>1, <1>2, <1>4, <1>6, <2>1, OtherVm
  <2>2. CASE w = v
    <3>1. \A l \in 0 .. 4 : Upto(v, l)' = Upto(v, l)
      BY <1>1, <1>2, <1>5, <1>6, <1>7 DEF Upto, Mapped
    <3>2. \A l \in 0 .. 4, g \in GuestAddresses : Linked(v, l, g)' <=> Linked(v, l, g)
      BY <3>1 DEF Linked
    <3>3. Blank(v)' = Blank(v)
      BY <1>4, <1>7 DEF Blank
    <3>4. \A t \in Blank(v)' : content'[t] = "table" /\ entry'[t] = [i \in Index |-> NoPage]
      BY <1>1, <3>3 DEF HostInv, EptInv
    <3>5. \A q \in GuestMemory(v)' :
              \/ task'.vm = v /\ q = task'.hpa
              \/ q \in GuestMemory(v) /\ ~(task.vm = v /\ q = task.hpa)
      BY <1>4, <1>5, TrackedUsable
    <3>6. EptInv(v)'
      BY <1>1, <1>4, <3>2, <3>4, <3>5, EptKept DEF HostInv
    <3>7. InUse(v)' = InUse(v) /\ InUse(v) \in Nat
      BY <1>1, <1>4, <1>6, <3>1, InUseNat DEF InUse, TablesOf
    <3>8. EptPages(vms[v].guest_physical_pages) \in Nat
      BY <1>5, EptPagesSum
    <3>9. Reserved(v)' = Reserved(v) + 1 /\ Reserved(v) \in Int
      BY <1>1, <1>2, <1>5, <1>6, <3>8 DEF Reserved
    <3>10. IsFiniteSet(Pool(v)) /\ Cardinality(Pool(v)) = Reserved(v) - InUse(v)
      BY DEF HostInv, PoolInv
    <3>11. IsFiniteSet(Pool(v)') /\ Cardinality(Pool(v)') = Cardinality(Pool(v)) + 1
      BY <1>4, <3>10, FS_AddElement
    <3> QED
      BY <2>2, <3>6, <3>7, <3>9, <3>10, <3>11 DEF PoolInv
  <2> QED
    BY <2>1, <2>2
<1> QED
  BY <1>8, <1>9, <1>10, <1>11 DEF HostInv

LEMMA GuestTrackStep ==
    ASSUME HostInv, GuestTrack
    PROVE  HostInv' /\ [Owners!Next]_(Owners!vars)
<1>1. /\ task.pc = "guest_track" /\ Track
      /\ task' = [task EXCEPT !.pc = "map", !.hpa = task.hand, !.hand = NoPage,
                              !.table = NoPage, !.level = 5]
      /\ UNCHANGED <<content, entry, vms>>
  BY DEF GuestTrack, memory
<1>2. PICK v \in Vm : v = task.vm
  BY <1>1 DEF HostInv, Base, CallOrder
<1>3. PICK p : p = task.hand
  OBVIOUS
<1>4. /\ Base /\ p \in Usable /\ vmxon # NoPage /\ p \notin GuestMemory(v)
      /\ tracked' \in [Vm -> Seq(ListNode)]
      /\ \A w \in Vm : WellTracked(tracked'[w])
      /\ \A w \in Vm : w # v => tracked'[w] = tracked[w]
      /\ Ept(v)' = Ept(v) /\ Pool(v)' = Pool(v) /\ GuestMemory(v)' = GuestMemory(v) \cup {p}
      /\ arenas' \in [ArenaNames -> ArenaRecord]
      /\ UsedByArena' = UsedByArena
      /\ UNCHANGED <<chainload, cursor, vmxon, bitmaps, devices>>
  <2>1. /\ Joins("table_track") = {} /\ Joins("reserve_track") = {} /\ Joins("guest_track") = {p}
    BY <1>1, <1>3 DEF Joins
  <2>2. /\ Ept(v)' = Ept(v) \cup Joins("table_track")
        /\ Pool(v)' = Pool(v) \cup Joins("reserve_track")
        /\ GuestMemory(v)' = GuestMemory(v) \cup Joins("guest_track")
    BY <1>1, <1>2, TrackEffect
  <2>3. Ept(v)' = Ept(v) /\ Pool(v)' = Pool(v) /\ GuestMemory(v)' = GuestMemory(v) \cup {p}
    BY <2>1, <2>2
  <2> QED
    BY <1>1, <1>2, <1>3, <2>3, TrackEffect
<1>5. /\ task \in TaskRecord /\ task.hpa = NoPage /\ task.gpa < vms[v].guest_physical_pages
      /\ task.gpa \in Nat /\ vms[v].guest_physical_pages \in Nat
  <2>1. EptSpan(4) \in Nat
    BY SpanFacts
  <2> QED
    BY <1>1, <1>2, <1>4, <2>1 DEF HostInv, Base, HostType, TaskRecord, VmRecord, WalkInv, Mapping
<1>6. /\ task' \in TaskRecord /\ task'.pc = "map" /\ task'.hpa = p /\ task'.hand = NoPage
      /\ task'.table = NoPage /\ task'.level = 5 /\ task'.vm = v /\ task'.gpa = task.gpa
  <2>1. task' = [task EXCEPT !.pc = "map", !.hpa = p, !.hand = NoPage, !.table = NoPage, !.level = 5]
    BY <1>1, <1>3
  <2>2. p \in MaybePage /\ NoPage \in MaybePage /\ 5 \in 0 .. 5
    BY <1>4 DEF MaybePage
  <2> QED
    BY <1>2, <1>5, <2>1, <2>2 DEF TaskRecord
<1>7. /\ \A w \in Vm : /\ InHand(w, "table_track") = {} /\ InHand(w, "table_track")' = {}
                       /\ InHand(w, "reserve_track") = {} /\ InHand(w, "reserve_track")' = {}
                       /\ InHand(w, "guest_track") = IF w = v THEN {p} ELSE {}
                       /\ InHand(w, "guest_track")' = {}
      /\ ~Mapping /\ Mapping' /\ ~Tracking'
  BY <1>1, <1>2, <1>3, <1>6 DEF InHand, Mapping, Tracking
<1>8. [Owners!Next]_(Owners!vars)
  <2>1. \A w \in Vm : w # v =>
            Ept(w)' = Ept(w) /\ Pool(w)' = Pool(w) /\ GuestMemory(w)' = GuestMemory(w)
    BY <1>4 DEF Ept, Pool, GuestMemory
  <2>2. \A q \in HostOwner : OwnedPages(q)' = OwnedPages(q)
    BY <1>1, <1>4, <1>7, <2>1, KeepsByParts
  <2> QED
    BY <1>1, <1>6, <2>2, NothingMoves
<1>9. Base'
  <2>1. HostType'
    BY <1>1, <1>4, <1>6 DEF Base, HostType
  <2>2. (\A w \in Vm : WellTracked(tracked[w]))' /\ HandInv'
    BY <1>4, <1>7 DEF HandInv
  <2>3. CallOrder'
    BY <1>1, <1>4, <1>6 DEF Base, CallOrder
  <2> QED
    BY <1>4, <1>8, <2>1, <2>2, <2>3, BaseKept
<1>10. WalkInv'
  <2>1. \A l \in 0 .. 4, g \in GuestAddresses : At(v, l, g)' = At(v, l, g)
    BY <1>1, <1>4, AtKept DEF HostInv
  <2>2. \A g \in GuestAddresses : At(v, 0, g) \in GuestMemory(v) \cup {NoPage}
    BY DEF HostInv, EptInv, Held
  <2>3. p # NoPage
    BY <1>4, PageFacts
  <2>4. \A g \in GuestAddresses : At(v, 0, g)' # p
    BY <1>4, <2>1, <2>2, <2>3
  <2>5. p \in GuestMemory(v)'
    BY <1>4
  <2>6. vms' = vms
    BY <1>1
  <2> QED
    BY <1>5, <1>6, <1>7, <2>4, <2>5, <2>6 DEF WalkInv
<1>11. ASSUME NEW w \in Vm
       PROVE  EptInv(w)' /\ PoolInv(w)'
  <2>1. CASE w # v
    BY <1>1, <1>2, <1>4, <1>6, <2>1, OtherVm
  <2>2. CASE w = v
    <3>1. \A l \in 0 .. 4 : Upto(v, l)' = Upto(v, l)
      BY <1>1, <1>2, <1>5, <1>6, <1>7 DEF Upto, Mapped
    <3>2. \A l \in 0 .. 4, g \in GuestAddresses : Linked(v, l, g)' <=> Linked(v, l, g)
      BY <3>1 DEF Linked
    <3>3. Blank(v)' = Blank(v)
      BY <1>4, <1>7 DEF Blank
    <3>4. \A t \in Blank(v)' : content'[t] = "table" /\ entry'[t] = [i \in Index |-> NoPage]
      BY <1>1, <3>3 DEF HostInv, EptInv
    <3>5. \A q \in GuestMemory(v)' :
              \/ task'.vm = v /\ q = task'.hpa
              \/ q \in GuestMemory(v) /\ ~(task.vm = v /\ q = task.hpa)
      BY <1>4, <1>5, <1>6, TrackedUsable
    <3>6. EptInv(v)'
      BY <1>1, <1>4, <3>2, <3>4, <3>5, EptKept DEF HostInv
    <3>7. InUse(v)' = InUse(v)
      BY <1>1, <1>6, <3>1 DEF InUse, TablesOf
    <3>8. Reserved(v)' = Reserved(v)
      BY <1>1, <1>2, <1>6 DEF Reserved
    <3> QED
      BY <1>4, <2>2, <3>6, <3>7, <3>8 DEF PoolInv, HostInv
  <2> QED
    BY <2>1, <2>2
<1> QED
  BY <1>8, <1>9, <1>10, <1>11 DEF HostInv

-----------------------------------------------------------------------------
(* vmx_ept_map_page: the walk reads the nodes of the EPT.                  *)
LEMMA WalkFacts ==
    ASSUME HostInv, Mapping, NEW v \in Vm, v = task.vm
    PROVE  /\ Base /\ vmxon # NoPage /\ task \in TaskRecord
           /\ task.gpa \in GuestAddresses /\ task.gpa \in Nat
           /\ task.gpa < vms[v].guest_physical_pages
           /\ task.level \in 1 .. 5 /\ task.level - 1 \in 0 .. 4
           /\ task.hpa \in GuestMemory(v)
           /\ \A l \in 0 .. 4 : Upto(v, l) = IF task.level <= l THEN task.gpa + 1 ELSE task.gpa
           /\ task.level # 5 => task.table = At(v, task.level, task.gpa) /\ task.table \in Ept(v)
           /\ NextTable = At(v, task.level - 1, task.gpa)
<1>1. /\ Base /\ task \in TaskRecord /\ vms \in [Vm -> VmRecord] /\ task.gpa \in Nat
      /\ task.gpa < vms[v].guest_physical_pages /\ task.level \in 1 .. 5
      /\ task.hpa \in GuestMemory(v) /\ task.pc # "idle" /\ task.pc # "vmcs"
      /\ task.table = IF task.level = 5 THEN NoPage ELSE At(v, task.level, task.gpa)
  BY DEF HostInv, Base, HostType, TaskRecord, WalkInv, Mapping
<1>2. task.gpa \in GuestAddresses
  <2>1. EptSpan(4) \in Nat /\ vms[v].guest_physical_pages \in 0 .. EptSpan(4)
    BY <1>1, SpanFacts DEF VmRecord
  <2> QED
    BY <1>1, <2>1 DEF GuestAddresses
<1>3. \A l \in 0 .. 4 : Upto(v, l) = IF task.level <= l THEN task.gpa + 1 ELSE task.gpa
  BY <1>1 DEF Upto, Mapped
<1>4. ASSUME task.level # 5
      PROVE  /\ task.level \in 1 .. 4
             /\ At(v, task.level, task.gpa) \in Ept(v) /\ At(v, task.level, task.gpa) \in Page
  <2>1. PICK l \in 1 .. 4 : l = task.level
    BY <1>1, <1>4
  <2>2. l \in 0 .. 4 /\ l # 0 /\ l <= l
    OBVIOUS
  <2>3. Block(task.gpa, l) * EptSpan(l) <= task.gpa /\ Block(task.gpa, l) \in Nat
    BY <1>1, <2>2, BlockBounds
  <2>4. EptSpan(l) \in Nat
    BY <2>2, SpanFacts
  <2>5. Block(task.gpa, l) * EptSpan(l) < task.gpa + 1
    BY <1>1, <2>3, <2>4
  <2>6. Linked(v, l, task.gpa)
    BY <1>3, <2>1, <2>2, <2>5 DEF Linked
  <2>7. At(v, l, task.gpa) # NoPage /\ At(v, l, task.gpa) \in Ept(v) \cup {NoPage}
    BY <1>2, <2>2, <2>6 DEF HostInv, EptInv, Held
  <2>8. At(v, l, task.gpa) \in Ept(v) /\ At(v, l, task.gpa) \in Page
    BY <1>1, <2>7, TrackedUsable, PageFacts
  <2> QED
    BY <2>1, <2>8
<1>5. NextTable = At(v, task.level - 1, task.gpa)
  <2>1. CASE task.level = 5
    BY <1>2, <2>1, AtStep DEF NextTable
  <2>2. CASE task.level # 5
    <3>1. PICK l \in 0 .. 3 : task.level = l + 1 /\ task.level - 1 = l
      <4>1. task.level - 1 \in 0 .. 3 /\ task.level = (task.level - 1) + 1
        BY <1>4, <2>2
      <4> QED
        BY <4>1
    <3>2. At(v, l, task.gpa) = Lookup(At(v, l + 1, task.gpa), EptIndex(task.gpa, l + 1))
      BY <1>2, AtStep
    <3> QED
      BY <1>1, <1>4, <2>2, <3>1, <3>2 DEF NextTable, Lookup
  <2> QED
    BY <2>1, <2>2
<1>6. vmxon # NoPage
  BY <1>1 DEF Base, CallOrder
<1> QED
  BY <1>1, <1>2, <1>3, <1>4, <1>5, <1>6

(* A table that exists on the walk covers the page before, too.            *)
LEMMA InsideBlock ==
    ASSUME NEW l \in 0 .. 4, NEW gpa \in Nat, NEW g \in Nat, Block(gpa, l) * EptSpan(l) < gpa
    PROVE  Block(g, l) * EptSpan(l) < gpa + 1 <=> Block(g, l) * EptSpan(l) < gpa
<1>1. PICK s \in Nat \ {0} : s = EptSpan(l)
  BY SpanFacts
<1>2. PICK b \in Nat : b = Block(g, l)
  BY BlockBounds
<1>3. PICK c \in Nat : c = Block(gpa, l)
  BY BlockBounds
<1>4. c * s < gpa /\ gpa < c * s + s
  BY <1>1, <1>3, BlockBounds
<1>5. b * s # gpa
  <2>1. SUFFICES ASSUME b * s = gpa PROVE FALSE
    OBVIOUS
  <2>2. c * s < b * s /\ b * s < (c + 1) * s
    BY <1>4, <2>1
  <2>3. c < b /\ b < c + 1
    BY <2>2
  <2> QED
    BY <2>3
<1>6. b * s < gpa + 1 <=> b * s < gpa
  BY <1>5
<1> QED
  BY <1>1, <1>2, <1>6

LEMMA MapDescendStep ==
    ASSUME HostInv, MapDescend
    PROVE  HostInv' /\ [Owners!Next]_(Owners!vars)
<1>1. /\ task.pc = "map" /\ task.level > 1 /\ NextTable # NoPage
      /\ task' = [task EXCEPT !.table = NextTable, !.level = @ - 1]
      /\ UNCHANGED <<chainload, cursor, arenas, vmxon, bitmaps, content, entry, vms, tracked, devices>>
  BY DEF MapDescend, memory
<1>2. PICK v \in Vm : v = task.vm
  BY <1>1 DEF HostInv, Base, CallOrder
<1>3. Mapping
  BY <1>1 DEF Mapping
<1>4. PICK gpa \in GuestAddresses : gpa = task.gpa
  BY <1>2, <1>3, WalkFacts
<1>5. PICK l \in 1 .. 4 : task.level = l + 1 /\ l = task.level - 1
  <2>1. task.level \in 1 .. 5
    BY <1>2, <1>3, WalkFacts
  <2>2. task.level - 1 \in 1 .. 4 /\ task.level = (task.level - 1) + 1
    BY <1>1, <2>1
  <2> QED
    BY <2>2
<1>6. /\ Base /\ vmxon # NoPage /\ task \in TaskRecord /\ gpa \in Nat
      /\ gpa < vms[v].guest_physical_pages /\ task.hpa \in GuestMemory(v)
      /\ \A k \in 0 .. 4 : Upto(v, k) = IF task.level <= k THEN gpa + 1 ELSE gpa
      /\ NextTable = At(v, l, gpa)
  BY <1>2, <1>3, <1>4, <1>5, WalkFacts
<1>7. At(v, l, gpa) \in Ept(v) /\ At(v, l, gpa) \in MaybePage /\ l \in 0 .. 4
  <2>1. l \in 0 .. 4 /\ l # 0
    OBVIOUS
  <2>2. At(v, l, gpa) \in Ept(v)
    BY <1>1, <1>6, <2>1 DEF HostInv, EptInv, Held
  <2> QED
    BY <1>6, <2>1, <2>2, TrackedUsable DEF MaybePage
<1>8. /\ task' \in TaskRecord /\ task'.pc = "map" /\ task'.vm = v /\ task'.gpa = gpa
      /\ task'.hpa = task.hpa /\ task'.level = l /\ task'.table = At(v, l, gpa)
  <2>1. PICK t \in MaybePage : t = At(v, l, gpa)
    BY <1>7
  <2>2. task' = [task EXCEPT !.table = t, !.level = l]
    BY <1>1, <1>5, <1>6, <2>1
  <2>3. l \in 0 .. 5
    OBVIOUS
  <2> QED
    BY <1>1, <1>2, <1>4, <1>6, <2>1, <2>2, <2>3 DEF TaskRecord
<1>9. /\ ~Tracking /\ ~Tracking' /\ Mapping'
      /\ \A w \in Vm : /\ InHand(w, "table_track")' = InHand(w, "table_track")
                       /\ InHand(w, "reserve_track")' = InHand(w, "reserve_track")
                       /\ InHand(w, "guest_track")' = InHand(w, "guest_track")
  BY <1>1, <1>8, EmptyHanded DEF Mapping
<1>10. [Owners!Next]_(Owners!vars)
  <2>1. \A q \in HostOwner : OwnedPages(q)' = OwnedPages(q)
    BY <1>1, <1>9, OwnerCases DEF OwnedPages, UsedByArena
  <2> QED
    BY <1>1, <1>8, <2>1, NothingMoves
<1>11. Base'
  <2>1. HostType'
    BY <1>1, <1>6, <1>8 DEF Base, HostType
  <2>2. (\A w \in Vm : WellTracked(tracked[w]))' /\ HandInv'
    BY <1>1, <1>6, <1>9 DEF Base, HandInv
  <2>3. CallOrder'
    BY <1>1, <1>6, <1>8 DEF Base, CallOrder
  <2> QED
    BY <1>6, <1>10, <2>1, <2>2, <2>3, BaseKept
<1>12. \A k \in 0 .. 4, g \in GuestAddresses : At(v, k, g)' = At(v, k, g)
  BY <1>1, <1>6, AtKept DEF HostInv
<1>13. WalkInv'
  <2>1. GuestMemory(v)' = GuestMemory(v)
    BY <1>1 DEF GuestMemory
  <2>2. \A g \in GuestAddresses : At(v, 0, g)' # task.hpa
    BY <1>2, <1>3, <1>12 DEF HostInv, WalkInv
  <2>3. At(v, l, gpa)' = At(v, l, gpa)
    BY <1>7, <1>12
  <2>4. l # 5 /\ l \in 1 .. 5 /\ vms' = vms
    BY <1>1
  <2>5. vms[v].guest_physical_pages \in Nat
    <3>1. EptSpan(4) \in Nat
      BY SpanFacts
    <3> QED
      BY <1>6, <3>1 DEF Base, HostType, VmRecord
  <2> QED
    BY <1>6, <1>8, <1>9, <2>1, <2>2, <2>3, <2>4, <2>5 DEF WalkInv
<1>14. ASSUME NEW w \in Vm
       PROVE  EptInv(w)' /\ PoolInv(w)'
  <2>1. CASE w # v
    BY <1>1, <1>2, <1>8, <2>1, OtherVm
  <2>2. CASE w = v
    <3>1. \A k \in 0 .. 4 : Upto(v, k)' = IF l <= k THEN gpa + 1 ELSE gpa
      BY <1>8, <1>9 DEF Upto, Mapped
    <3>2. Upto(v, l) = gpa /\ Upto(v, l)' = gpa + 1
          /\ \A k \in 0 .. 4 : k # l => Upto(v, k)' = Upto(v, k)
      BY <1>5, <1>6, <3>1
    <3>3. Block(gpa, l) * EptSpan(l) < gpa
      <4>1. Linked(v, l, gpa)
        BY <1>1, <1>6, <1>7 DEF HostInv, EptInv
      <4> QED
        BY <3>2, <4>1 DEF Linked
    <3>4. ASSUME NEW k \in 0 .. 4, NEW g \in GuestAddresses
          PROVE  Linked(v, k, g)' <=> Linked(v, k, g)
      <4>1. CASE k # l
        BY <3>2, <4>1 DEF Linked
      <4>2. CASE k = l
        <5>1. g \in Nat
          BY AddressTypes
        <5>2. Block(g, l) * EptSpan(l) < gpa + 1 <=> Block(g, l) * EptSpan(l) < gpa
          BY <1>6, <1>7, <3>3, <5>1, InsideBlock
        <5> QED
          BY <3>2, <4>2, <5>2 DEF Linked
      <4> QED
        BY <4>1, <4>2
    <3>5. TablesOf(v, l)' = TablesOf(v, l)
      <4>1. EptSpan(l) \in Nat \ {0}
        BY <1>7, SpanFacts
      <4>2. Block(gpa, l) \in Nat /\ gpa < Block(gpa, l) * EptSpan(l) + EptSpan(l)
        BY <1>6, <1>7, BlockBounds
      <4>3. CeilDiv(gpa + 1, EptSpan(l)) = CeilDiv(gpa, EptSpan(l))
        BY <1>6, <3>3, <4>1, <4>2, CeilSame
      <4> QED
        BY <3>2, <4>3 DEF TablesOf
    <3>6. \A k \in 1 .. 4 : TablesOf(v, k)' = TablesOf(v, k)
      <4>1. ASSUME NEW k \in 1 .. 4, k # l
            PROVE  TablesOf(v, k)' = TablesOf(v, k)
        <5>1. Upto(v, k)' = Upto(v, k)
          BY <3>2, <4>1
        <5> QED
          BY <5>1 DEF TablesOf
      <4> QED
        BY <3>5, <4>1
    <3>7. InUse(v)' = InUse(v)
      <4>1. /\ TablesOf(v, 1)' = TablesOf(v, 1) /\ TablesOf(v, 2)' = TablesOf(v, 2)
            /\ TablesOf(v, 3)' = TablesOf(v, 3) /\ TablesOf(v, 4)' = TablesOf(v, 4)
        BY <3>6
      <4> QED
        BY <1>1, <1>8, <4>1 DEF InUse
    <3>8. Reserved(v)' = Reserved(v)
      BY <1>1, <1>8 DEF Reserved
    <3>9. /\ Ept(v)' = Ept(v) /\ Pool(v)' = Pool(v) /\ GuestMemory(v)' = GuestMemory(v)
      BY <1>1 DEF Ept, Pool, GuestMemory
    <3>10. Blank(v)' = Blank(v)
      BY <1>9, <3>9 DEF Blank
    <3>11. \A t \in Blank(v)' : content'[t] = "table" /\ entry'[t] = [i \in Index |-> NoPage]
      BY <1>1, <3>10 DEF HostInv, EptInv
    <3>12. \A q \in GuestMemory(v)' :
              \/ task'.vm = v /\ q = task'.hpa
              \/ q \in GuestMemory(v) /\ ~(task.vm = v /\ q = task.hpa)
      BY <1>8, <3>9
    <3>13. EptInv(v)'
      BY <1>1, <1>6, <3>4, <3>9, <3>11, <3>12, EptKept DEF HostInv
    <3> QED
      BY <2>2, <3>7, <3>8, <3>9, <3>13 DEF PoolInv, HostInv
  <2> QED
    BY <2>1, <2>2
<1> QED
  BY <1>10, <1>11, <1>13, <1>14 DEF HostInv

(* A page of the reserved pool is taken in hand to become a table.         *)
LEMMA MovesByParts ==
    ASSUME NEW w \in Vm, NEW p, p \in Pool(w),
           UNCHANGED <<chainload, arenas, vmxon, bitmaps>>,
           \A v \in Vm :
               /\ vms'[v].vmcs_region = vms[v].vmcs_region
               /\ Ept(v)' \cup InHand(v, "table_track")' =
                      (Ept(v) \cup InHand(v, "table_track")) \cup (IF v = w THEN {p} ELSE {})
               /\ Pool(v)' \cup InHand(v, "reserve_track")' =
                      (Pool(v) \cup InHand(v, "reserve_track")) \ (IF v = w THEN {p} ELSE {})
               /\ GuestMemory(v)' \cup InHand(v, "guest_track")' =
                      GuestMemory(v) \cup InHand(v, "guest_track"),
           task.pc # "vmcs", task'.pc # "vmcs"
    PROVE  Owners!UseReserved(w)
<1> DEFINE F(q) == IF q = <<"pool", w>> THEN OwnedPages(q) \ {p}
                   ELSE IF q = <<"ept", w>> THEN OwnedPages(q) \cup {p} ELSE OwnedPages(q)
<1>1. ASSUME NEW q \in HostOwner
      PROVE  OwnedPages(q)' = F(q)
  <2>1. CASE q \in {<<"chainload", NoVm>>, <<"arena", NoVm>>, <<"vmxon", NoVm>>, <<"bitmaps", NoVm>>}
    <3>1. q # <<"pool", w>> /\ q # <<"ept", w>>
      BY <2>1
    <3>2. OwnedPages(q)' = OwnedPages(q)
      BY <2>1 DEF OwnedPages, UsedByArena
    <3> QED
      BY <3>1, <3>2
  <2>2. ASSUME NEW v \in Vm, q = <<"vmcs", v>>
        PROVE  OwnedPages(q)' = F(q)
    <3>1. q # <<"pool", w>> /\ q # <<"ept", w>>
      BY <2>2
    <3>2. OwnedPages(q)' = OwnedPages(q)
      BY <2>2 DEF OwnedPages
    <3> QED
      BY <3>1, <3>2
  <2>3. ASSUME NEW v \in Vm, q = <<"ept", v>>
        PROVE  OwnedPages(q)' = F(q)
    <3>1. q # <<"pool", w>> /\ (q = <<"ept", w>> <=> v = w)
      BY <2>3
    <3>2. OwnedPages(q)' = OwnedPages(q) \cup (IF v = w THEN {p} ELSE {})
      BY <2>3 DEF OwnedPages, Ept
    <3> QED
      BY <3>1, <3>2
  <2>4. ASSUME NEW v \in Vm, q = <<"pool", v>>
        PROVE  OwnedPages(q)' = F(q)
    <3>1. q # <<"ept", w>> /\ (q = <<"pool", w>> <=> v = w)
      BY <2>4
    <3>2. OwnedPages(q)' = OwnedPages(q) \ (IF v = w THEN {p} ELSE {})
      BY <2>4 DEF OwnedPages, Pool
    <3> QED
      BY <3>1, <3>2
  <2>5. ASSUME NEW v \in Vm, q = <<"guest", v>>
        PROVE  OwnedPages(q)' = F(q)
    <3>1. q # <<"pool", w>> /\ q # <<"ept", w>>
      BY <2>5
    <3>2. OwnedPages(q)' = OwnedPages(q)
      BY <2>5 DEF OwnedPages, GuestMemory
    <3> QED
      BY <3>1, <3>2
  <2> QED
    BY <2>1, <2>2, <2>3, <2>4, <2>5, OwnerCases
<1>2. <<"pool", w>> \in HostOwner /\ <<"ept", w>> \in HostOwner /\ <<"pool", w>> # <<"ept", w>>
  BY DEF HostOwner
<1>3. p \in OwnedPages(<<"pool", w>>)
  BY OwnedValues
<1>4. PICK a \in HostOwner, b \in HostOwner : a = <<"pool", w>> /\ b = <<"ept", w>>
  BY <1>2
<1>5. PICK own : own = [q \in HostOwner |-> OwnedPages(q)]
  OBVIOUS
<1>6. p \in own[a]
  BY <1>3, <1>4, <1>5
<1>7. [q \in HostOwner |-> OwnedPages(q)]' = [own EXCEPT ![a] = @ \ {p}, ![b] = @ \cup {p}]
  <2>1. \A q \in HostOwner : OwnedPages(q)' = IF q = a THEN own[q] \ {p}
                                              ELSE IF q = b THEN own[q] \cup {p} ELSE own[q]
    BY <1>1, <1>4, <1>5
  <2> QED
    BY <1>2, <1>4, <1>5, <2>1
<1> QED
  BY <1>4, <1>5, <1>6, <1>7 DEF Owners!UseReserved

LEMMA MapTakeTableStep ==
    ASSUME HostInv, MapTakeTable
    PROVE  HostInv' /\ [Owners!Next]_(Owners!vars)
<1>1. /\ task.pc = "map" /\ task.level > 1 /\ NextTable = NoPage
      /\ NodesOf(tracked[task.vm], "EPT", 1) # {}
      /\ task' = [task EXCEPT !.pc = "table_track", !.hand = UntrackedPage(tracked[task.vm], "EPT")]
      /\ tracked' = [tracked EXCEPT ![task.vm] = UntrackPage(@, "EPT")]
      /\ UNCHANGED <<chainload, cursor, arenas, vmxon, bitmaps, content, entry, vms, devices>>
  BY DEF MapTakeTable, memory
<1>2. PICK v \in Vm : v = task.vm
  BY <1>1 DEF HostInv, Base, CallOrder
<1>3. Mapping
  BY <1>1 DEF Mapping
<1>4. /\ Base /\ vmxon # NoPage /\ task \in TaskRecord /\ task.gpa \in GuestAddresses
      /\ task.gpa < vms[v].guest_physical_pages /\ task.level \in 1 .. 5
      /\ task.hpa \in GuestMemory(v) /\ NextTable = At(v, task.level - 1, task.gpa)
  BY <1>2, <1>3, WalkFacts
<1>5. PICK m : m = UntrackPage(tracked[v], "EPT")
  OBVIOUS
<1>6. PICK p : p = UntrackedPage(tracked[v], "EPT")
  OBVIOUS
<1>7. tracked[v] \in Seq(ListNode) /\ WellTracked(tracked[v]) /\ tracked \in [Vm -> Seq(ListNode)]
  BY <1>4 DEF Base, HostType
<1>8. /\ m \in Seq(ListNode) /\ WellTracked(m) /\ InNoNode(m, p) /\ p \in Usable
      /\ p \in PagesOf(tracked[v], "EPT", 1) /\ RemovesPage(tracked[v], m, p, <<"EPT", 1>>)
  BY <1>1, <1>2, <1>5, <1>6, <1>7, UntrackRemoves
<1>9. /\ tracked' \in [Vm -> Seq(ListNode)] /\ tracked'[v] = m
      /\ \A w \in Vm : w # v => tracked'[w] = tracked[w]
      /\ \A w \in Vm : WellTracked(tracked'[w])
  <2>1. tracked' = [tracked EXCEPT ![v] = m]
    BY <1>1, <1>2, <1>5
  <2>2. \A w \in Vm : WellTracked(tracked[w])
    BY <1>4 DEF Base
  <2> QED
    BY <1>7, <1>8, <2>1, <2>2
<1>10. /\ Ept(v)' = Ept(v) /\ Pool(v)' = Pool(v) \ {p} /\ GuestMemory(v)' = GuestMemory(v)
       /\ p \in Pool(v)
  <2>1. <<"EPT", 0>> \in Kinds /\ <<"EPT", 1>> \in Kinds /\ <<"GUEST_PHYSICAL", 0>> \in Kinds
    BY DEF Kinds
  <2>2. /\ PagesOf(m, "EPT", 0) = PagesOf(tracked[v], "EPT", 0)
        /\ PagesOf(m, "EPT", 1) = PagesOf(tracked[v], "EPT", 1) \ {p}
        /\ PagesOf(m, "GUEST_PHYSICAL", 0) = PagesOf(tracked[v], "GUEST_PHYSICAL", 0)
    <3>1. PICK k \in Kinds : k = <<"EPT", 1>>
      BY <2>1
    <3>2. k # <<"EPT", 0>> /\ k # <<"GUEST_PHYSICAL", 0>>
      BY <3>1
    <3>3. \A q \in Kinds : PagesOf(m, q[1], q[2]) =
              IF q = k THEN PagesOf(tracked[v], q[1], q[2]) \ {p} ELSE PagesOf(tracked[v], q[1], q[2])
      BY <1>8, <3>1 DEF RemovesPage
    <3> QED
      BY <2>1, <3>1, <3>2, <3>3
  <2> QED
    BY <1>8, <1>9, <2>2 DEF Ept, Pool, GuestMemory
<1>11. /\ task' \in TaskRecord /\ task'.pc = "table_track" /\ task'.vm = v /\ task'.gpa = task.gpa
       /\ task'.hpa = task.hpa /\ task'.level = task.level /\ task'.table = task.table
       /\ task'.hand = p
  <2>1. task' = [task EXCEPT !.pc = "table_track", !.hand = p]
    BY <1>1, <1>2, <1>6
  <2>2. p \in MaybePage
    BY <1>8 DEF MaybePage
  <2> QED
    BY <1>2, <1>4, <2>1, <2>2 DEF TaskRecord
<1>12. /\ \A w \in Vm : /\ InHand(w, "reserve_track") = {} /\ InHand(w, "reserve_track")' = {}
                        /\ InHand(w, "guest_track") = {} /\ InHand(w, "guest_track")' = {}
                        /\ InHand(w, "table_track") = {}
                        /\ InHand(w, "table_track")' = IF w = v THEN {p} ELSE {}
       /\ Mapping'
  BY <1>1, <1>11 DEF InHand, Mapping
<1>13. [Owners!Next]_(Owners!vars)
  <2>1. \A w \in Vm : w # v =>
            Ept(w)' = Ept(w) /\ Pool(w)' = Pool(w) /\ GuestMemory(w)' = GuestMemory(w)
    BY <1>9 DEF Ept, Pool, GuestMemory
  <2>2. \A w \in Vm :
            /\ vms'[w].vmcs_region = vms[w].vmcs_region
            /\ Ept(w)' \cup InHand(w, "table_track")' =
                   (Ept(w) \cup InHand(w, "table_track")) \cup (IF w = v THEN {p} ELSE {})
            /\ Pool(w)' \cup InHand(w, "reserve_track")' =
                   (Pool(w) \cup InHand(w, "reserve_track")) \ (IF w = v THEN {p} ELSE {})
            /\ GuestMemory(w)' \cup InHand(w, "guest_track")' =
                   GuestMemory(w) \cup InHand(w, "guest_track")
    BY <1>1, <1>10, <1>12, <2>1
  <2>3. Owners!UseReserved(v)
    BY <1>1, <1>10, <1>11, <2>2, MovesByParts
  <2> QED
    BY <2>3 DEF Owners!Next
<1>14. Base'
  <2>1. HostType'
    BY <1>1, <1>4, <1>9, <1>11 DEF Base, HostType
  <2>2. (\A w \in Vm : WellTracked(tracked[w]))' /\ HandInv'
    BY <1>8, <1>9, <1>11 DEF HandInv
  <2>3. CallOrder'
    BY <1>1, <1>4, <1>11 DEF Base, CallOrder
  <2> QED
    BY <1>4, <1>13, <2>1, <2>2, <2>3, BaseKept
<1>15. \A k \in 0 .. 4, g \in GuestAddresses : At(v, k, g)' = At(v, k, g)
  BY <1>1, <1>4, AtKept DEF HostInv
<1>16. WalkInv'
  <2>1. \A g \in GuestAddresses : At(v, 0, g)' # task.hpa
    BY <1>2, <1>3, <1>15 DEF HostInv, WalkInv
  <2>2. PICK gpa \in GuestAddresses : gpa = task.gpa
    BY <1>4
  <2>3. PICK l \in 1 .. 5 : l = task.level
    BY <1>4
  <2>4. l - 1 \in 0 .. 4 /\ (l # 5 => l \in 0 .. 4) /\ l > 1
    BY <1>1, <2>3
  <2>5. task.table = IF l = 5 THEN NoPage ELSE At(v, l, gpa)
    BY <1>2, <1>3, <2>2, <2>3 DEF HostInv, WalkInv
  <2>6. task.table = IF l = 5 THEN NoPage ELSE At(v, l, gpa)'
    BY <1>15, <2>4, <2>5
  <2>7. At(v, l - 1, gpa) = NoPage
    BY <1>1, <1>4, <2>2, <2>3
  <2>8. At(v, l - 1, gpa)' = NoPage
    BY <1>15, <2>4, <2>7
  <2>9. /\ task'.gpa = gpa /\ task'.level = l /\ vms' = vms
        /\ gpa <= vms[v].guest_physical_pages /\ task.hpa \in GuestMemory(v)'
    <3>1. vms[v].guest_physical_pages \in Nat /\ gpa \in Nat
      <4>1. EptSpan(4) \in Nat
        BY SpanFacts
      <4> QED
        BY <1>4, <4>1, AddressTypes DEF Base, HostType, VmRecord
    <3> QED
      BY <1>1, <1>4, <1>10, <1>11, <2>2, <2>3, <3>1
  <2> QED
    BY <1>4, <1>11, <1>12, <2>1, <2>2, <2>4, <2>6, <2>8, <2>9 DEF WalkInv
<1>17. ASSUME NEW w \in Vm
       PROVE  EptInv(w)' /\ PoolInv(w)'
  <2>1. CASE w # v
    BY <1>1, <1>2, <1>9, <1>11, <2>1, OtherVm
  <2>2. CASE w = v
    <3>1. \A l \in 0 .. 4 : Upto(v, l)' = Upto(v, l)
      BY <1>1, <1>2, <1>3, <1>11, <1>12 DEF Upto, Mapped
    <3>2. \A l \in 0 .. 4, g \in GuestAddresses : Linked(v, l, g)' <=> Linked(v, l, g)
      BY <3>1 DEF Linked
    <3>3. Blank(v)' = Blank(v)
      BY <1>10, <1>12 DEF Blank
    <3>4. \A t \in Blank(v)' : content'[t] = "table" /\ entry'[t] = [i \in Index |-> NoPage]
      BY <1>1, <3>3 DEF HostInv, EptInv
    <3>5. \A q \in GuestMemory(v)' :
              \/ task'.vm = v /\ q = task'.hpa
              \/ q \in GuestMemory(v) /\ ~(task.vm = v /\ q = task.hpa)
      BY <1>10, <1>11
    <3>6. EptInv(v)'
      BY <1>1, <1>4, <1>10, <3>2, <3>4, <3>5, EptKept DEF HostInv
    <3>7. InUse(v)' = InUse(v) + 1 /\ InUse(v) \in Nat
      <4>1. InUse(v) \in Nat /\ \A l \in 1 .. 4 : TablesOf(v, l) \in Nat
        BY <1>4, InUseNat
      <4>2. \A l \in 1 .. 4 : TablesOf(v, l)' = TablesOf(v, l)
        BY <3>1 DEF TablesOf
      <4> QED
        BY <1>1, <1>11, <4>1, <4>2 DEF InUse
    <3>8. Reserved(v)' = Reserved(v) /\ Reserved(v) \in Int
      <4>1. vms[v].guest_physical_pages \in Nat
        <5>1. EptSpan(4) \in Nat
          BY SpanFacts
        <5> QED
          BY <1>4, <5>1 DEF Base, HostType, VmRecord
      <4>2. EptPages(vms[v].guest_physical_pages) \in Nat
        BY <4>1, EptPagesSum
      <4> QED
        BY <1>1, <1>11, <4>2 DEF Reserved
    <3>9. IsFiniteSet(Pool(v)) /\ Cardinality(Pool(v)) = Reserved(v) - InUse(v)
      BY DEF HostInv, PoolInv
    <3>10. IsFiniteSet(Pool(v)') /\ Cardinality(Pool(v)') = Cardinality(Pool(v)) - 1
      BY <1>10, <3>9, FS_RemoveElement
    <3> QED
      BY <2>2, <3>6, <3>7, <3>8, <3>9, <3>10 DEF PoolInv
  <2> QED
    BY <2>1, <2>2
<1> QED
  BY <1>13, <1>14, <1>16, <1>17 DEF HostInv

(* The tables and the memory of a machine are nobody else's.               *)
LEMMA PagesApart ==
    ASSUME Base, NEW v \in Vm
    PROVE  /\ Ept(v) \cap Pool(v) = {} /\ Ept(v) \cap GuestMemory(v) = {}
           /\ \A w \in Vm : w # v => /\ Ept(v) \cap (Ept(w) \cup Pool(w) \cup GuestMemory(w)) = {}
                                    /\ GuestMemory(v) \cap GuestMemory(w) = {}
<1>1. ASSUME NEW a \in HostOwner, NEW b \in HostOwner, a # b, a[1] # "vmcs", b[1] # "vmcs"
      PROVE  OwnedPages(a) \cap OwnedPages(b) = {}
  <2>1. Owners!Exclusive
    BY DEF Base, Owners!OwnershipInv
  <2> QED
    BY <1>1, <2>1, OwnerNames DEF Owners!Exclusive, Owners!Shared
<1>2. ASSUME NEW w \in Vm
      PROVE  /\ <<"ept", w>> \in HostOwner /\ <<"pool", w>> \in HostOwner /\ <<"guest", w>> \in HostOwner
             /\ Ept(w) \subseteq OwnedPages(<<"ept", w>>)
             /\ Pool(w) \subseteq OwnedPages(<<"pool", w>>)
             /\ GuestMemory(w) \subseteq OwnedPages(<<"guest", w>>)
  BY OwnedValues DEF HostOwner
<1>3. ASSUME NEW w \in Vm
      PROVE  /\ OwnedPages(<<"ept", v>>) \cap OwnedPages(<<"pool", w>>) = {}
             /\ OwnedPages(<<"ept", v>>) \cap OwnedPages(<<"guest", w>>) = {}
             /\ w # v => OwnedPages(<<"ept", v>>) \cap OwnedPages(<<"ept", w>>) = {}
             /\ w # v => OwnedPages(<<"guest", v>>) \cap OwnedPages(<<"guest", w>>) = {}
  <2>1. /\ <<"ept", v>> # <<"pool", w>> /\ <<"ept", v>> # <<"guest", w>>
        /\ w # v => <<"ept", v>> # <<"ept", w>> /\ <<"guest", v>> # <<"guest", w>>
        /\ <<"ept", v>>[1] # "vmcs" /\ <<"ept", w>>[1] # "vmcs"
        /\ <<"pool", w>>[1] # "vmcs" /\ <<"guest", w>>[1] # "vmcs"
        /\ <<"guest", v>>[1] # "vmcs"
    OBVIOUS
  <2> QED
    BY <1>1, <1>2, <2>1
<1> QED
  BY <1>2, <1>3

(* Writing one entry of a table.                                           *)
LEMMA EntryWritten ==
    ASSUME Base, NEW T \in Page, NEW i \in Index, NEW p \in Usable,
           entry' = [entry EXCEPT ![T][i] = p]
    PROVE  /\ entry' \in [Page -> [Index -> Usable \cup {NoPage, Junk}]]
           /\ \A t \in Page : t # T => entry'[t] = entry[t]
           /\ \A j \in Index : entry'[T][j] = IF j = i THEN p ELSE entry[T][j]
<1>1. entry \in [Page -> [Index -> Usable \cup {NoPage, Junk}]]
  BY DEF Base, HostType
<1>2. PICK row : row = [entry[T] EXCEPT ![i] = p]
  OBVIOUS
<1>3. /\ row \in [Index -> Usable \cup {NoPage, Junk}]
      /\ \A j \in Index : row[j] = IF j = i THEN p ELSE entry[T][j]
  BY <1>1, <1>2
<1>4. entry' = [entry EXCEPT ![T] = row]
  BY <1>2
<1> QED
  BY <1>1, <1>3, <1>4

(* The write that links node l on the walk for gpa.                        *)
LEMMA WriteLinks ==
    ASSUME HostInv, NEW v \in Vm, NEW l \in 0 .. 3, NEW gpa \in GuestAddresses, NEW p \in Usable,
           At(v, l + 1, gpa) \in Ept(v), p \notin Ept(v), vms'[v].eptp = vms[v].eptp,
           l > 0 => \A i \in Index : entry[p][i] = NoPage,
           NEW T, T = At(v, l + 1, gpa),
           entry' = [entry EXCEPT ![T][EptIndex(gpa, l + 1)] = p]
    PROVE  /\ entry' \in [Page -> [Index -> Usable \cup {NoPage, Junk}]]
           /\ \A t \in Page : t # T => entry'[t] = entry[t]
           /\ Links(v, l, gpa, p)
<1>1. Base /\ T \in Page /\ T # NoPage /\ p \in Page /\ p # T /\ Ept(v) \subseteq Page
  BY TrackedUsable, PageFacts DEF HostInv
<1>2. PICK i \in Index : i = EptIndex(gpa, l + 1)
  BY BlockSplits, AddressTypes
<1>3. /\ entry' \in [Page -> [Index -> Usable \cup {NoPage, Junk}]]
      /\ \A t \in Page : t # T => entry'[t] = entry[t]
      /\ \A j \in Index : entry'[T][j] = IF j = i THEN p ELSE entry[T][j]
  <2>1. entry' = [entry EXCEPT ![T][i] = p]
    BY <1>2
  <2> QED
    BY ONLY <1>1, <2>1, i \in Index, p \in Usable, EntryWritten
<1>4. \A t \in Ept(v), j \in Index :
          entry'[t][j] = IF t = T /\ j = i THEN p ELSE entry[t][j]
  BY <1>1, <1>3
<1>5. l # 4 /\ l < 4
  OBVIOUS
<1>6. l > 0 => \A j \in Index : entry'[p][j] = NoPage
  BY <1>1, <1>3
<1>7. /\ At(v, l + 1, gpa) # NoPage
      /\ \A t \in Ept(v), j \in Index :
            entry'[t][j] = IF t = At(v, l + 1, gpa) /\ j = EptIndex(gpa, l + 1)
                           THEN p ELSE entry[t][j]
  BY <1>1, <1>2, <1>4
<1>8. Links(v, l, gpa, p)
  BY <1>5, <1>6, <1>7, Zenon DEF Links
<1> QED
  BY <1>3, <1>8

(* The table in hand becomes the missing node of the walk.                 *)
LEMMA LinkEffect ==
    ASSUME HostInv, MapLinkTable, NEW v \in Vm, v = task.vm, NEW l \in 1 .. 4,
           task.level = l + 1, NEW gpa \in GuestAddresses, gpa = task.gpa,
           NEW p \in Usable, p = task.hand, p \notin Ept(v)
    PROVE  /\ Links(v, l, gpa, p)
           /\ entry' \in [Page -> [Index -> Usable \cup {NoPage, Junk}]]
           /\ vms' \in [Vm -> VmRecord]
           /\ \A t \in Page : t \notin Ept(v) => entry'[t] = entry[t]
           /\ \A w \in Vm : w # v => vms'[w].eptp = vms[w].eptp
           /\ \A w \in Vm : /\ vms'[w].guest_physical_pages = vms[w].guest_physical_pages
                            /\ vms'[w].vmcs_region = vms[w].vmcs_region
                            /\ vms'[w].vmcs_initialized = vms[w].vmcs_initialized
                            /\ vms'[w].created = vms[w].created
           /\ content' = content
<1>1. task.pc = "table_track" /\ Mapping /\ Base
  BY DEF MapLinkTable, Mapping, HostInv
<1>2. \A i \in Index : entry[p][i] = NoPage
  <2>1. p \in Blank(v)
    BY <1>1 DEF Blank, InHand
  <2>2. entry[p] = [i \in Index |-> NoPage]
    BY <2>1 DEF HostInv, EptInv
  <2> QED
    BY <2>2
<1>3. entry \in [Page -> [Index -> Usable \cup {NoPage, Junk}]] /\ vms \in [Vm -> VmRecord]
  BY <1>1 DEF Base, HostType
<1>4. CASE l = 4
  <2>1. vms' = [vms EXCEPT ![v].eptp = p] /\ entry' = entry /\ content' = content
    BY <1>4 DEF MapLinkTable, memory
  <2>2. p \in MaybePage
    BY DEF MaybePage
  <2>3. Links(v, l, gpa, p)
    <3>1. vms'[v].eptp = p
      BY <1>3, <2>1 DEF VmRecord
    <3>2. ~(l < 4) /\ \A i \in Index : entry'[p][i] = NoPage
      BY <1>2, <1>4, <2>1
    <3> QED
      BY <2>1, <3>1, <3>2 DEF Links
  <2> QED
    BY <1>3, <2>1, <2>2, <2>3 DEF VmRecord
<1>5. CASE l # 4
  <2>1. l \in 0 .. 3 /\ l + 1 # 5
    BY <1>5
  <2>2. /\ entry' = [entry EXCEPT ![task.table][EptIndex(gpa, l + 1)] = p]
        /\ vms' = vms /\ content' = content
    BY <2>1 DEF MapLinkTable
  <2>3. PICK T : T = task.table
    OBVIOUS
  <2>4. T = At(v, l + 1, gpa) /\ T \in Ept(v)
    BY <1>1, <2>1, <2>3, WalkFacts
  <2>5. At(v, l + 1, gpa) \in Ept(v)
    BY <2>4
  <2>6. entry' = [entry EXCEPT ![T][EptIndex(gpa, l + 1)] = p]
    BY <2>2, <2>3
  <2>7. vms'[v].eptp = vms[v].eptp
    BY <2>2
  <2>8. /\ entry' \in [Page -> [Index -> Usable \cup {NoPage, Junk}]]
        /\ \A t \in Page : t # T => entry'[t] = entry[t]
        /\ Links(v, l, gpa, p)
    BY ONLY HostInv, v \in Vm, <2>1, gpa \in GuestAddresses, p \in Usable, <2>5, p \notin Ept(v), <2>7,
            <1>2, <2>4, <2>6, WriteLinks
  <2> QED
    BY <1>3, <2>2, <2>4, <2>8
<1> QED
  BY <1>4, <1>5

LEMMA MapLinkTableStep ==
    ASSUME HostInv, MapLinkTable
    PROVE  HostInv' /\ [Owners!Next]_(Owners!vars)
<1>1. /\ task.pc = "table_track" /\ Track
      /\ task' = [task EXCEPT !.pc = "map", !.table = task.hand, !.hand = NoPage, !.level = @ - 1]
  BY DEF MapLinkTable
<1>2. PICK v \in Vm : v = task.vm
  BY <1>1 DEF HostInv, Base, CallOrder
<1>3. Mapping
  BY <1>1 DEF Mapping
<1>4. PICK gpa \in GuestAddresses : gpa = task.gpa
  BY <1>2, <1>3, WalkFacts
<1>5. PICK l \in 1 .. 4 : task.level = l + 1 /\ l = task.level - 1
  <2>1. task.level \in 1 .. 5 /\ task.level > 1
    BY <1>1, <1>2, <1>3, WalkFacts DEF HostInv, WalkInv
  <2>2. task.level - 1 \in 1 .. 4 /\ task.level = (task.level - 1) + 1
    BY <2>1
  <2> QED
    BY <2>2
<1>6. l \in 0 .. 4 /\ l # 0 /\ l > 0 /\ l # 5 /\ l \in 1 .. 5 /\ l \in 0 .. 5
  OBVIOUS
<1>7. /\ Base /\ vmxon # NoPage /\ task \in TaskRecord /\ gpa \in Nat
      /\ gpa < vms[v].guest_physical_pages /\ task.hpa \in GuestMemory(v)
      /\ \A k \in 0 .. 4 : Upto(v, k) = IF task.level <= k THEN gpa + 1 ELSE gpa
  BY <1>2, <1>3, <1>4, WalkFacts
<1>8. At(v, l, gpa) = NoPage
  BY <1>1, <1>2, <1>4, <1>5 DEF HostInv, WalkInv
<1>9. PICK p : p = task.hand
  OBVIOUS
<1>10. /\ p \in Usable /\ p \notin Ept(v) \cup Pool(v) \cup GuestMemory(v)
       /\ tracked' \in [Vm -> Seq(ListNode)]
       /\ \A w \in Vm : WellTracked(tracked'[w])
       /\ \A w \in Vm : w # v => tracked'[w] = tracked[w]
       /\ Ept(v)' = Ept(v) \cup {p} /\ Pool(v)' = Pool(v) /\ GuestMemory(v)' = GuestMemory(v)
       /\ arenas' \in [ArenaNames -> ArenaRecord]
       /\ UsedByArena' = UsedByArena
       /\ UNCHANGED <<chainload, cursor, vmxon, bitmaps, devices>>
  <2>1. /\ Joins("table_track") = {p} /\ Joins("reserve_track") = {} /\ Joins("guest_track") = {}
    BY <1>1, <1>9 DEF Joins
  <2>2. /\ Ept(v)' = Ept(v) \cup Joins("table_track")
        /\ Pool(v)' = Pool(v) \cup Joins("reserve_track")
        /\ GuestMemory(v)' = GuestMemory(v) \cup Joins("guest_track")
    BY <1>1, <1>2, TrackEffect
  <2>3. Ept(v)' = Ept(v) \cup {p} /\ Pool(v)' = Pool(v) /\ GuestMemory(v)' = GuestMemory(v)
    BY <2>1, <2>2
  <2> QED
    BY <1>1, <1>2, <1>9, <2>3, TrackEffect
<1>11. /\ Links(v, l, gpa, p)
       /\ entry' \in [Page -> [Index -> Usable \cup {NoPage, Junk}]]
       /\ vms' \in [Vm -> VmRecord]
       /\ \A t \in Page : t \notin Ept(v) => entry'[t] = entry[t]
       /\ \A w \in Vm : w # v => vms'[w].eptp = vms[w].eptp
       /\ \A w \in Vm : /\ vms'[w].guest_physical_pages = vms[w].guest_physical_pages
                        /\ vms'[w].vmcs_region = vms[w].vmcs_region
                        /\ vms'[w].vmcs_initialized = vms[w].vmcs_initialized
                        /\ vms'[w].created = vms[w].created
       /\ content' = content
  BY <1>2, <1>4, <1>5, <1>9, <1>10, LinkEffect
<1>12. /\ task' \in TaskRecord /\ task'.pc = "map" /\ task'.vm = v /\ task'.gpa = gpa
       /\ task'.hpa = task.hpa /\ task'.level = l /\ task'.table = p /\ task'.hand = NoPage
  <2>1. task' = [task EXCEPT !.pc = "map", !.table = p, !.hand = NoPage, !.level = l]
    BY <1>1, <1>5, <1>9
  <2>2. p \in MaybePage /\ NoPage \in MaybePage
    BY <1>10 DEF MaybePage
  <2> QED
    BY <1>2, <1>4, <1>6, <1>7, <2>1, <2>2 DEF TaskRecord
<1>13. /\ \A w \in Vm : /\ InHand(w, "reserve_track") = {} /\ InHand(w, "reserve_track")' = {}
                        /\ InHand(w, "guest_track") = {} /\ InHand(w, "guest_track")' = {}
                        /\ InHand(w, "table_track") = IF w = v THEN {p} ELSE {}
                        /\ InHand(w, "table_track")' = {}
       /\ Mapping' /\ ~Tracking'
  BY <1>1, <1>2, <1>9, <1>12 DEF InHand, Mapping, Tracking
<1>14. [Owners!Next]_(Owners!vars)
  <2>1. \A w \in Vm : w # v =>
            Ept(w)' = Ept(w) /\ Pool(w)' = Pool(w) /\ GuestMemory(w)' = GuestMemory(w)
    BY <1>10 DEF Ept, Pool, GuestMemory
  <2>2. \A q \in HostOwner : OwnedPages(q)' = OwnedPages(q)
    BY <1>10, <1>11, <1>13, <2>1, KeepsByParts
  <2> QED
    BY <1>1, <1>12, <2>2, NothingMoves
<1>15. Base'
  <2>1. HostType'
    BY <1>7, <1>10, <1>11, <1>12 DEF Base, HostType
  <2>2. (\A w \in Vm : WellTracked(tracked[w]))' /\ HandInv'
    BY <1>10, <1>13 DEF HandInv
  <2>3. CallOrder'
    BY <1>1, <1>7, <1>10, <1>11, <1>12 DEF Base, CallOrder
  <2> QED
    BY <1>7, <1>14, <2>1, <2>2, <2>3, BaseKept
<1>16. \A k \in 0 .. 4, g \in GuestAddresses :
           At(v, k, g)' = IF k = l /\ Block(g, l) = Block(gpa, l) THEN p ELSE At(v, k, g)
  <2>1. EptInv(v) /\ Base /\ p \in Usable /\ Links(v, l, gpa, p) /\ l \in 0 .. 4
    BY <1>6, <1>7, <1>10, <1>11 DEF HostInv
  <2> QED
    BY ONLY v \in Vm, gpa \in GuestAddresses, <1>8, <2>1, LinkNode
<1>17. WalkInv'
  <2>1. \A g \in GuestAddresses : At(v, 0, g)' # task.hpa
    <3>1. \A g \in GuestAddresses : At(v, 0, g) # task.hpa
      BY <1>2, <1>3 DEF HostInv, WalkInv
    <3>2. 0 \in 0 .. 4 /\ 0 # l
      BY <1>6
    <3> QED
      BY <1>16, <3>1, <3>2
  <2>2. At(v, l, gpa)' = p
    BY <1>6, <1>16
  <2>3. vms'[v].guest_physical_pages \in Nat /\ task.hpa \in GuestMemory(v)'
    <3>1. EptSpan(4) \in Nat
      BY SpanFacts
    <3> QED
      BY <1>7, <1>10, <1>11, <3>1 DEF VmRecord
  <2> QED
    BY <1>6, <1>7, <1>11, <1>12, <1>13, <2>1, <2>2, <2>3 DEF WalkInv
<1>18. ASSUME NEW w \in Vm, w # v
       PROVE  EptInv(w)' /\ PoolInv(w)'
  <2>1. ASSUME NEW t \in Ept(w) \cup Pool(w)
        PROVE  entry'[t] = entry[t] /\ content'[t] = content[t]
    <3>1. t \in Page /\ t \notin Ept(v)
      BY <1>7, <1>18, PagesApart, TrackedUsable, PageFacts
    <3> QED
      BY <1>11, <3>1
  <2> QED
    BY <1>2, <1>10, <1>11, <1>12, <1>18, <2>1, OtherVm
<1>19. /\ Upto(v, l) = gpa /\ Upto(v, l)' = gpa + 1
       /\ \A k \in 0 .. 4 : k # l => Upto(v, k)' = Upto(v, k)
  <2>1. \A k \in 0 .. 4 : Upto(v, k)' = IF l <= k THEN gpa + 1 ELSE gpa
    BY <1>12, <1>13 DEF Upto, Mapped
  <2> QED
    BY <1>5, <1>6, <1>7, <2>1
<1>20. EptInv(v)'
  <2>1. \A k \in 0 .. 4, g \in GuestAddresses : At(v, k, g) # p
    <3>1. \A k \in 0 .. 4, g \in GuestAddresses : At(v, k, g) \in Ept(v) \cup GuestMemory(v) \cup {NoPage}
      BY DEF HostInv, EptInv, Held
    <3> QED
      BY <1>10, <3>1, PageFacts
  <2>2. p \in Held(v, l)'
    BY <1>6, <1>10 DEF Held
  <2>3. \A q \in GuestMemory(v)' :
            \/ task'.vm = v /\ q = task'.hpa
            \/ q \in GuestMemory(v) /\ ~(task.vm = v /\ q = task.hpa)
    BY <1>10, <1>12
  <2>4. Blank(v) = Pool(v) \cup {p} /\ Blank(v)' = Pool(v)
    BY <1>10, <1>13 DEF Blank
  <2>5. \A t \in Ept(v)' \cup Blank(v)' : content'[t] = "table"
    <3>1. \A t \in Ept(v) \cup Blank(v) : content[t] = "table"
      BY DEF HostInv, EptInv
    <3> QED
      BY <1>10, <1>11, <2>4, <3>1
  <2>6. \A t \in Blank(v)' : entry'[t] = [i \in Index |-> NoPage]
    <3>1. \A t \in Blank(v) : entry[t] = [i \in Index |-> NoPage]
      BY DEF HostInv, EptInv
    <3>2. \A t \in Pool(v) : t \in Page /\ t \notin Ept(v)
      BY <1>7, PagesApart, TrackedUsable, PageFacts
    <3> QED
      BY <1>11, <2>4, <3>1, <3>2
  <2>7. /\ Ept(v) \subseteq Ept(v)' /\ GuestMemory(v) \subseteq GuestMemory(v)'
        /\ \A t \in Ept(v)' : t \in Ept(v) \/ (l > 0 /\ t = p)
    BY <1>6, <1>10
  <2>8. EptInv(v)
    BY DEF HostInv
  <2> QED
    BY <1>6, <1>7, <1>8, <1>10, <1>11, <1>19, <2>1, <2>2, <2>3, <2>5, <2>6, <2>7, <2>8, EptGrows
<1>21. PoolInv(v)'
  <2>1. Block(gpa, l) \in Nat /\ Block(gpa, l) * EptSpan(l) = gpa /\ EptSpan(l) \in Nat \ {0}
    <3>1. ~Linked(v, l, gpa)
      BY <1>6, <1>8 DEF HostInv, EptInv
    <3>2. Block(gpa, l) \in Nat /\ EptSpan(l) \in Nat \ {0}
      BY <1>6, <1>7, BlockBounds, SpanFacts
    <3>3. Block(gpa, l) * EptSpan(l) >= gpa
      <4>1. PICK x \in Nat : x = Block(gpa, l) * EptSpan(l)
        BY <3>2
      <4>2. ~(x < gpa)
        BY <1>19, <3>1, <4>1 DEF Linked
      <4> QED
        BY <1>7, <4>1, <4>2
    <3> QED
      BY <1>6, <1>7, <3>2, <3>3, MissingIsFirst
  <2>2. CeilDiv(gpa + 1, EptSpan(l)) = CeilDiv(gpa, EptSpan(l)) + 1
    BY <1>7, <2>1, CeilNext
  <2>3. TablesOf(v, l)' = TablesOf(v, l) + 1
    BY <1>19, <2>2 DEF TablesOf
  <2>4. ASSUME NEW k \in 1 .. 4, k # l
        PROVE  TablesOf(v, k)' = TablesOf(v, k)
    <3>1. Upto(v, k)' = Upto(v, k)
      BY <1>19, <2>4
    <3> QED
      BY <3>1 DEF TablesOf
  <2>5. InUse(v)' = InUse(v)
    <3>1. /\ TablesOf(v, 1) \in Nat /\ TablesOf(v, 2) \in Nat /\ TablesOf(v, 3) \in Nat
          /\ TablesOf(v, 4) \in Nat
      BY <1>7, InUseNat
    <3>2. /\ TablesOf(v, 1)' = TablesOf(v, 1) + (IF l = 1 THEN 1 ELSE 0)
          /\ TablesOf(v, 2)' = TablesOf(v, 2) + (IF l = 2 THEN 1 ELSE 0)
          /\ TablesOf(v, 3)' = TablesOf(v, 3) + (IF l = 3 THEN 1 ELSE 0)
          /\ TablesOf(v, 4)' = TablesOf(v, 4) + (IF l = 4 THEN 1 ELSE 0)
      BY <2>3, <2>4, <3>1
    <3>3. l = 1 \/ l = 2 \/ l = 3 \/ l = 4
      OBVIOUS
    <3> QED
      BY <1>1, <1>2, <1>12, <3>1, <3>2, <3>3 DEF InUse
  <2>6. Reserved(v)' = Reserved(v)
    BY <1>1, <1>2, <1>11, <1>12 DEF Reserved
  <2> QED
    BY <1>10, <2>5, <2>6 DEF PoolInv, HostInv
<1> QED
  BY <1>14, <1>15, <1>17, <1>18, <1>20, <1>21 DEF HostInv

(* The guest page becomes the leaf of the walk.                            *)
LEMMA MapLeafStep ==
    ASSUME HostInv, MapLeaf
    PROVE  HostInv' /\ [Owners!Next]_(Owners!vars)
<1>1. /\ task.pc = "map" /\ task.level = 1 /\ NextTable = NoPage
      /\ entry' = [entry EXCEPT ![task.table][EptIndex(task.gpa, 1)] = task.hpa]
      /\ task' = [task EXCEPT !.pc = "guest", !.gpa = @ + 1, !.hpa = NoPage,
                              !.table = NoPage, !.level = 0]
      /\ UNCHANGED <<chainload, cursor, arenas, vmxon, bitmaps, content, vms, tracked, devices>>
  BY DEF MapLeaf
<1>2. PICK v \in Vm : v = task.vm
  BY <1>1 DEF HostInv, Base, CallOrder
<1>3. Mapping
  BY <1>1 DEF Mapping
<1>4. PICK gpa \in GuestAddresses : gpa = task.gpa
  BY <1>2, <1>3, WalkFacts
<1>5. /\ Base /\ vmxon # NoPage /\ task \in TaskRecord /\ gpa \in Nat
      /\ gpa < vms[v].guest_physical_pages /\ task.hpa \in GuestMemory(v)
      /\ \A k \in 0 .. 4 : Upto(v, k) = IF 1 <= k THEN gpa + 1 ELSE gpa
  BY <1>1, <1>2, <1>3, <1>4, WalkFacts
<1>6. PICK p \in Usable : p = task.hpa
  BY <1>5, TrackedUsable
<1>7. At(v, 0, gpa) = NoPage
  <2>1. NextTable = At(v, task.level - 1, gpa) /\ task.level - 1 = 0
    BY <1>1, <1>2, <1>3, <1>4, WalkFacts
  <2> QED
    BY <1>1, <2>1
<1>8. PICK T : T = task.table
  OBVIOUS
<1>9. T = At(v, 1, gpa) /\ T \in Ept(v)
  BY <1>1, <1>2, <1>3, <1>4, <1>8, WalkFacts
<1>10. /\ entry' \in [Page -> [Index -> Usable \cup {NoPage, Junk}]]
       /\ \A t \in Page : t # T => entry'[t] = entry[t]
       /\ Links(v, 0, gpa, p)
  <2>1. 0 \in 0 .. 3 /\ 0 + 1 = 1 /\ ~(0 > 0)
    OBVIOUS
  <2>2. PICK l \in 0 .. 3 : l = 0
    BY <2>1
  <2>3. l + 1 = 1 /\ ~(l > 0)
    BY <2>2
  <2>4. T = At(v, l + 1, gpa) /\ At(v, l + 1, gpa) \in Ept(v)
    BY <1>9, <2>3
  <2>5. entry' = [entry EXCEPT ![T][EptIndex(gpa, l + 1)] = p]
    BY <1>1, <1>4, <1>6, <1>8, <2>3
  <2>6. p \notin Ept(v)
    BY <1>5, <1>6, PagesApart
  <2>7. vms'[v].eptp = vms[v].eptp
    BY <1>1
  <2>8. /\ entry' \in [Page -> [Index -> Usable \cup {NoPage, Junk}]]
        /\ \A t \in Page : t # T => entry'[t] = entry[t]
        /\ Links(v, l, gpa, p)
    BY ONLY HostInv, v \in Vm, l \in 0 .. 3, gpa \in GuestAddresses, p \in Usable, <2>3, <2>4, <2>5,
            <2>6, <2>7, WriteLinks
  <2> QED
    BY <2>2, <2>8
<1>11. /\ task' \in TaskRecord /\ task'.pc = "guest" /\ task'.vm = v /\ task'.gpa = gpa + 1
       /\ task'.hpa = NoPage
  <2>1. PICK n \in Nat : n = gpa + 1
    BY <1>5
  <2>2. task' = [task EXCEPT !.pc = "guest", !.gpa = n, !.hpa = NoPage, !.table = NoPage, !.level = 0]
    BY <1>1, <1>4, <2>1
  <2>3. NoPage \in MaybePage /\ 0 \in 0 .. 5
    BY DEF MaybePage
  <2> QED
    BY <1>2, <1>5, <2>1, <2>2, <2>3 DEF TaskRecord
<1>12. /\ ~Tracking /\ ~Tracking' /\ ~Mapping'
       /\ \A w \in Vm : /\ InHand(w, "table_track")' = InHand(w, "table_track")
                        /\ InHand(w, "reserve_track")' = InHand(w, "reserve_track")
                        /\ InHand(w, "guest_track")' = InHand(w, "guest_track")
  BY <1>1, <1>11, EmptyHanded DEF Mapping
<1>13. [Owners!Next]_(Owners!vars)
  <2>1. \A q \in HostOwner : OwnedPages(q)' = OwnedPages(q)
    BY <1>1, <1>12, OwnerCases DEF OwnedPages, UsedByArena
  <2> QED
    BY <1>1, <1>11, <2>1, NothingMoves
<1>14. Base'
  <2>1. HostType'
    BY <1>1, <1>5, <1>10, <1>11 DEF Base, HostType
  <2>2. (\A w \in Vm : WellTracked(tracked[w]))' /\ HandInv'
    BY <1>1, <1>5, <1>12 DEF Base, HandInv
  <2>3. CallOrder'
    BY <1>1, <1>5, <1>11 DEF Base, CallOrder
  <2> QED
    BY <1>5, <1>13, <2>1, <2>2, <2>3, BaseKept
<1>15. WalkInv'
  <2>1. vms[v].guest_physical_pages \in Nat /\ vms' = vms
    <3>1. EptSpan(4) \in Nat
      BY SpanFacts
    <3> QED
      BY <1>1, <1>5, <3>1 DEF Base, HostType, VmRecord
  <2>2. gpa + 1 <= vms[v].guest_physical_pages
    BY <1>5, <2>1
  <2> QED
    BY <1>11, <1>12, <2>1, <2>2 DEF WalkInv
<1>16. ASSUME NEW w \in Vm, w # v
       PROVE  EptInv(w)' /\ PoolInv(w)'
  <2>1. ASSUME NEW t \in Ept(w) \cup Pool(w)
        PROVE  entry'[t] = entry[t] /\ content'[t] = content[t]
    <3>1. t \in Page /\ t # T
      BY <1>5, <1>9, <1>16, PagesApart, TrackedUsable, PageFacts
    <3> QED
      BY <1>1, <1>10, <3>1
  <2> QED
    BY <1>1, <1>2, <1>11, <1>16, <2>1, OtherVm
<1>17. /\ Upto(v, 0) = gpa /\ Upto(v, 0)' = gpa + 1
       /\ \A k \in 0 .. 4 : k # 0 => Upto(v, k)' = Upto(v, k)
  <2>1. \A k \in 0 .. 4 : Upto(v, k)' = gpa + 1
    BY <1>11, <1>12 DEF Upto, Mapped
  <2> QED
    BY <1>5, <2>1
<1>18. /\ Ept(v)' = Ept(v) /\ Pool(v)' = Pool(v) /\ GuestMemory(v)' = GuestMemory(v)
  BY <1>1 DEF Ept, Pool, GuestMemory
<1>19. EptInv(v)'
  <2>1. \A k \in 0 .. 4, g \in GuestAddresses : At(v, k, g) # p
    <3>1. ASSUME NEW k \in 0 .. 4, NEW g \in GuestAddresses, k # 0
          PROVE  At(v, k, g) # p
      <4>1. At(v, k, g) \in Ept(v) \cup {NoPage}
        BY <3>1 DEF HostInv, EptInv, Held
      <4> QED
        BY <1>5, <1>6, <4>1, PagesApart, PageFacts
    <3>2. \A g \in GuestAddresses : At(v, 0, g) # p
      BY <1>2, <1>3, <1>6 DEF HostInv, WalkInv
    <3> QED
      BY <3>1, <3>2
  <2>2. 0 \in 0 .. 4 /\ p \in Held(v, 0)'
    BY <1>5, <1>6, <1>18 DEF Held
  <2>3. \A q \in GuestMemory(v)' :
            \/ task'.vm = v /\ q = task'.hpa
            \/ q \in GuestMemory(v) /\ ~(task.vm = v /\ q = task.hpa)
            \/ 0 = 0 /\ q = p
    BY <1>6, <1>18
  <2>4. Blank(v)' = Blank(v) /\ Blank(v) = Pool(v)
    BY <1>12, <1>18, NoneInHand DEF Blank
  <2>5. \A t \in Ept(v)' \cup Blank(v)' : content'[t] = "table"
    BY <1>1, <1>18, <2>4 DEF HostInv, EptInv
  <2>6. \A t \in Blank(v)' : entry'[t] = [i \in Index |-> NoPage]
    <3>1. \A t \in Blank(v) : entry[t] = [i \in Index |-> NoPage]
      BY DEF HostInv, EptInv
    <3>2. \A t \in Pool(v) : t \in Page /\ t # T
      <4>1. Base /\ T \in Ept(v)
        BY <1>5, <1>9
      <4>2. Pool(v) \subseteq Usable
        BY <4>1, TrackedUsable
      <4>3. Ept(v) \cap Pool(v) = {}
        BY <4>1, PagesApart
      <4> QED
        BY <4>1, <4>2, <4>3, PageFacts
    <3> QED
      BY <1>10, <2>4, <3>1, <3>2
  <2>7. /\ Ept(v) \subseteq Ept(v)' /\ GuestMemory(v) \subseteq GuestMemory(v)'
        /\ \A t \in Ept(v)' : t \in Ept(v) \/ (0 > 0 /\ t = p)
    BY <1>18
  <2>8. EptInv(v) /\ Links(v, 0, gpa, p)
    BY <1>10 DEF HostInv
  <2> QED
    BY ONLY <1>5, v \in Vm, gpa \in GuestAddresses, p \in Usable, <1>7, <1>17, <2>1, <2>2, <2>3, <2>5,
            <2>6, <2>7, <2>8, EptGrows
<1>20. PoolInv(v)'
  <2>1. \A k \in 1 .. 4 : Upto(v, k)' = Upto(v, k)
    BY <1>17
  <2>2. InUse(v)' = InUse(v)
    BY <1>1, <1>11, <2>1 DEF InUse, TablesOf
  <2>3. Reserved(v)' = Reserved(v)
    BY <1>1, <1>2, <1>11 DEF Reserved
  <2> QED
    BY <1>18, <2>2, <2>3 DEF PoolInv, HostInv
<1> QED
  BY <1>13, <1>14, <1>15, <1>16, <1>19, <1>20 DEF HostInv

-----------------------------------------------------------------------------
(* The invariant is inductive, and every step keeps the promise.           *)
LEMMA InitHost ==
    ASSUME Init
    PROVE  HostInv /\ Owners!Init
<1>1. /\ chainload \in Chainloads /\ cursor = 0 /\ vmxon = NoPage /\ bitmaps = NoPage /\ devices = 0
      /\ arenas = [a \in ArenaNames |-> [page |-> NoPage, used_size |-> 0]]
      /\ content = [p \in Page |-> "unknown"]
      /\ entry = [p \in Page |-> [i \in 0 .. Entries - 1 |-> Junk]]
      /\ vms = [v \in Vm |-> [created |-> FALSE, guest_physical_pages |-> 0, eptp |-> NoPage,
                              vmcs_region |-> NoPage, vmcs_initialized |-> FALSE]]
      /\ tracked = [v \in Vm |-> <<>>]
      /\ task = Idle
  BY DEF Init
<1>2. /\ task.pc = "idle" /\ task.vm = NoVm /\ task.hpa = NoPage /\ task \in TaskRecord
      /\ ~Tracking /\ ~Mapping
  BY <1>1, IdleTyped DEF Tracking, Mapping
<1>3. ASSUME NEW v \in Vm
      PROVE  /\ vms[v].created = FALSE /\ vms[v].guest_physical_pages = 0 /\ vms[v].eptp = NoPage
             /\ vms[v].vmcs_region = NoPage /\ vms[v].vmcs_initialized = FALSE
             /\ tracked[v] = <<>>
  BY <1>1
<1>4. HostType
  <2>1. arenas \in [ArenaNames -> ArenaRecord]
    <3>1. [page |-> NoPage, used_size |-> 0] \in ArenaRecord
      BY HostConstants DEF ArenaRecord, MaybePage
    <3> QED
      BY <1>1, <3>1
  <2>2. vms \in [Vm -> VmRecord]
    <3>1. 0 \in 0 .. EptSpan(4)
      BY SpanFacts
    <3>2. [created |-> FALSE, guest_physical_pages |-> 0, eptp |-> NoPage,
           vmcs_region |-> NoPage, vmcs_initialized |-> FALSE] \in VmRecord
      BY <3>1 DEF VmRecord, MaybePage
    <3> QED
      BY <1>1, <3>2
  <2>3. content \in [Page -> Contents] /\ entry \in [Page -> [Index -> Usable \cup {NoPage, Junk}]]
    BY <1>1, JunkRow DEF Contents
  <2>4. tracked \in [Vm -> Seq(ListNode)] /\ devices \in 0 .. MaxDevices
    BY <1>1, HostConstants
  <2> QED
    BY <1>1, <1>2, <2>1, <2>2, <2>3, <2>4 DEF HostType, MaybePage
<1>5. ASSUME NEW v \in Vm
      PROVE  /\ WellTracked(tracked[v])
             /\ Ept(v) = {} /\ Pool(v) = {} /\ GuestMemory(v) = {} /\ Blank(v) = {}
             /\ \A pc \in {"reserve_track", "table_track", "guest_track"} : InHand(v, pc) = {}
  <2>1. DOMAIN tracked[v] = {}
    <3>1. DOMAIN <<>> = 1 .. 0 /\ 1 .. 0 = {}
      OBVIOUS
    <3> QED
      BY <1>3, <3>1, Zenon
  <2>2. WellTracked(tracked[v])
    BY <2>1 DEF WellTracked, Disjoint
  <2>3. Ept(v) = {} /\ Pool(v) = {} /\ GuestMemory(v) = {}
    BY <2>1 DEF Ept, Pool, GuestMemory, PagesOf, NodesOf
  <2> QED
    BY <1>2, <2>2, <2>3 DEF Blank, InHand
<1>6. Owners!Init
  <2>1. UsedByArena \ {NoPage} = {}
    BY <1>1 DEF UsedByArena
  <2>2. ASSUME NEW q \in HostOwner
        PROVE  OwnedPages(q) = IF q = <<"chainload", NoVm>> THEN chainload ELSE {}
    <3>1. CASE q = <<"chainload", NoVm>>
      BY <3>1 DEF OwnedPages
    <3>2. CASE q = <<"arena", NoVm>>
      BY <2>1, <3>2 DEF OwnedPages
    <3>3. CASE q = <<"vmxon", NoVm>>
      BY <1>1, <3>3 DEF OwnedPages
    <3>4. CASE q = <<"bitmaps", NoVm>>
      BY <1>1, <3>4 DEF OwnedPages
    <3>5. ASSUME NEW v \in Vm, q \in {<<"vmcs", v>>, <<"ept", v>>, <<"pool", v>>, <<"guest", v>>}
          PROVE  OwnedPages(q) = {} /\ q # <<"chainload", NoVm>>
      <4>1. /\ {vms[v].vmcs_region} \ {NoPage} = {}
            /\ Ept(v) \cup InHand(v, "table_track") = {}
            /\ Pool(v) \cup InHand(v, "reserve_track") = {}
            /\ GuestMemory(v) \cup InHand(v, "guest_track") = {}
        BY <1>3, <1>5
      <4>2. CASE q = <<"vmcs", v>>
        BY <4>1, <4>2 DEF OwnedPages
      <4>3. CASE q = <<"ept", v>>
        BY <4>1, <4>3 DEF OwnedPages, Ept
      <4>4. CASE q = <<"pool", v>>
        BY <4>1, <4>4 DEF OwnedPages, Pool
      <4>5. CASE q = <<"guest", v>>
        BY <4>1, <4>5 DEF OwnedPages, GuestMemory
      <4> QED
        BY <3>5, <4>2, <4>3, <4>4, <4>5
    <3> QED
      BY <3>1, <3>2, <3>3, <3>4, <3>5, OwnerCases
  <2>3. [o \in HostOwner |-> OwnedPages(o)] =
            [o \in Owners!Owner |-> IF o = <<"chainload", NoVm>> THEN chainload ELSE {}]
    BY <2>2, OwnerNames
  <2> QED
    BY <1>1, <1>2, <2>3 DEF Owners!Init
<1>7. Base
  <2>1. Usable \subseteq Page /\ Chainloads \subseteq SUBSET Page /\ NoVm \notin Vm
    BY PageFacts
  <2>2. Owners!OwnershipInv
    BY <1>6, <2>1, Owners!InitOwnership
  <2>3. CallOrder /\ HandInv
    BY <1>1, <1>2, <1>3 DEF CallOrder, HandInv
  <2> QED
    BY <1>4, <1>5, <2>2, <2>3 DEF Base
<1>8. WalkInv
  BY <1>2 DEF WalkInv
<1>9. ASSUME NEW v \in Vm
      PROVE  \A l \in 0 .. 4 : Upto(v, l) = 0
  BY <1>2, <1>3, PageFacts DEF Upto, Mapped
<1>10. ASSUME NEW v \in Vm
       PROVE  EptInv(v)
  <2>1. \A l \in 0 .. 4, g \in GuestAddresses : At(v, l, g) = NoPage
    <3>1. \A i : Lookup(NoPage, i) = NoPage
      BY PageFacts DEF Lookup
    <3>2. ASSUME NEW g \in GuestAddresses
          PROVE  /\ At(v, 4, g) = NoPage /\ At(v, 3, g) = NoPage /\ At(v, 2, g) = NoPage
                 /\ At(v, 1, g) = NoPage /\ At(v, 0, g) = NoPage
      BY <1>3, <3>1 DEF At, Translate
    <3>3. \A l \in 0 .. 4 : l = 0 \/ l = 1 \/ l = 2 \/ l = 3 \/ l = 4
      OBVIOUS
    <3> QED
      BY <3>2, <3>3
  <2>2. ASSUME NEW l \in 0 .. 4, NEW g \in GuestAddresses
        PROVE  ~Linked(v, l, g)
    <3>1. Block(g, l) \in Nat /\ EptSpan(l) \in Nat
      BY BlockBounds, SpanFacts, AddressTypes
    <3>2. PICK x \in Nat : x = Block(g, l) * EptSpan(l)
      BY <3>1
    <3> QED
      BY <1>9, <3>2 DEF Linked
  <2> QED
    BY <1>5, <2>1, <2>2 DEF EptInv
<1>11. ASSUME NEW v \in Vm
       PROVE  PoolInv(v)
  <2>1. /\ TablesOf(v, 1) = 0 /\ TablesOf(v, 2) = 0 /\ TablesOf(v, 3) = 0 /\ TablesOf(v, 4) = 0
    BY <1>9, CeilZero, SpanFacts DEF TablesOf
  <2>2. InUse(v) = 0
    BY <1>2, <2>1 DEF InUse
  <2>3. EptPages(0) = 0
    BY EptPagesSum, CeilZero, SpanFacts
  <2>4. Reserved(v) = 0
    BY <1>2, <1>3, <2>3 DEF Reserved
  <2>5. IsFiniteSet({}) /\ Cardinality({}) = 0
    BY FS_EmptySet
  <2> QED
    BY <1>5, <2>2, <2>4, <2>5 DEF PoolInv
<1> QED
  BY <1>6, <1>7, <1>8, <1>10, <1>11 DEF HostInv

LEMMA NextHost ==
    ASSUME HostInv, [Next]_vars
    PROVE  HostInv' /\ [Owners!Next]_(Owners!vars)
<1>1. CASE VmxSetup
  BY <1>1, VmxSetupStep
<1>2. CASE VmxSetupFails
  BY <1>2, QuietStep DEF VmxSetupFails, memory
<1>3. ASSUME NEW v \in Vm, CreateVm(v)
      PROVE  HostInv' /\ [Owners!Next]_(Owners!vars)
  BY <1>3, CreateVmStep
<1>4. ASSUME NEW v \in Vm, NEW pages \in GuestSizes, AllocateGuestMemory(v, pages)
      PROVE  HostInv' /\ [Owners!Next]_(Owners!vars)
  BY <1>4, AllocateGuestMemoryStep
<1>5. ASSUME NEW v \in Vm, AllocateAgain(v) \/ CreateVmcsAgain(v) \/ Launch(v) \/ LaunchFails(v)
      PROVE  HostInv' /\ [Owners!Next]_(Owners!vars)
  BY <1>5, QuietStep DEF AllocateAgain, CreateVmcsAgain, Launch, LaunchFails, memory
<1>6. ASSUME NEW v \in Vm, CreateVmcs(v)
      PROVE  HostInv' /\ [Owners!Next]_(Owners!vars)
  BY <1>6, CreateVmcsStep
<1>7. CASE CreateDevice
  BY <1>7, CreateDeviceStep
<1>8. CASE ReserveTake
  <2>1. PICK slot \in FoundSlot :
            /\ cursor' = slot
            /\ ZeroPage(ScanOrder[slot], "table")
            /\ task' = [task EXCEPT !.pc = "reserve_track", !.hand = ScanOrder[slot]]
    BY <1>8 DEF ReserveTake
  <2>2. /\ task.pc = "reserve" /\ task.left > 0
        /\ UNCHANGED <<chainload, arenas, vmxon, bitmaps, vms, tracked, devices>>
    BY <1>8 DEF ReserveTake
  <2> QED
    BY <2>1, <2>2, TakeForVmStep
<1>9. CASE GuestTake
  <2>1. PICK slot \in FoundSlot :
            /\ cursor' = slot
            /\ ZeroPage(ScanOrder[slot], "guest")
            /\ task' = [task EXCEPT !.pc = "guest_track", !.hand = ScanOrder[slot]]
    BY <1>9 DEF GuestTake
  <2>2. /\ task.pc = "guest" /\ task.gpa < vms[task.vm].guest_physical_pages
        /\ UNCHANGED <<chainload, arenas, vmxon, bitmaps, vms, tracked, devices>>
    BY <1>9 DEF GuestTake
  <2> QED
    BY <2>1, <2>2, TakeForVmStep
<1>10. CASE ReserveTrack
  BY <1>10, ReserveTrackStep
<1>11. CASE GuestTrack
  BY <1>11, GuestTrackStep
<1>12. CASE ReserveDone \/ GuestDone
  BY <1>12, CallDoneStep
<1>13. CASE MapDescend
  BY <1>13, MapDescendStep
<1>14. CASE MapTakeTable
  BY <1>14, MapTakeTableStep
<1>15. CASE MapLinkTable
  BY <1>15, MapLinkTableStep
<1>16. CASE MapLeaf
  BY <1>16, MapLeafStep
<1>17. CASE VmcsTakeBitmaps
  BY <1>17, VmcsTakeBitmapsStep
<1>18. CASE VmcsFinish
  BY <1>18, VmcsFinishStep
<1>19. CASE VmcsFails \/ OutOfMemory \/ ArenaFull
  BY <1>19, QuietStep DEF VmcsFails, OutOfMemory, ArenaFull, memory
<1>20. CASE UNCHANGED vars
  BY <1>20, QuietStep DEF vars
<1> QED
  BY <1>1, <1>2, <1>3, <1>4, <1>5, <1>6, <1>7, <1>8, <1>9, <1>10, <1>11, <1>12, <1>13, <1>14,
     <1>15, <1>16, <1>17, <1>18, <1>19, <1>20 DEF Next, TaskStep

-----------------------------------------------------------------------------
(* What the invariant says, property by property.                          *)
LEMMA HostInvTypes ==
    ASSUME HostInv
    PROVE  TypeOK
<1>1. HostType /\ \A v \in Vm : WellTracked(tracked[v])
  BY DEF HostInv, Base
<1>2. ASSUME NEW a \in ArenaNames
      PROVE  arenas[a].page \in Usable \cup {NoPage} /\ arenas[a].used_size \in 0 .. ArenaSize
  BY <1>1 DEF HostType, ArenaRecord, MaybePage
<1>3. {vmxon, bitmaps, task.hand, task.hpa, task.table} \subseteq Usable \cup {NoPage}
  <2>1. vmxon \in MaybePage /\ bitmaps \in MaybePage
    BY <1>1 DEF HostType
  <2>2. task.hand \in MaybePage /\ task.hpa \in MaybePage /\ task.table \in MaybePage
    BY <1>1 DEF HostType, TaskRecord
  <2> QED
    BY <2>1, <2>2 DEF MaybePage
<1>4. ASSUME NEW v \in Vm
      PROVE  /\ {vms[v].eptp, vms[v].vmcs_region} \subseteq Usable \cup {NoPage}
             /\ \A i \in DOMAIN tracked[v] :
                   tracked[v][i] \in ListNode /\ Interval(tracked[v][i]) \subseteq Usable
  <2>1. vms[v].eptp \in MaybePage /\ vms[v].vmcs_region \in MaybePage
    BY <1>1 DEF HostType, VmRecord
  <2>2. tracked[v] \in Seq(ListNode) /\ WellTracked(tracked[v])
    BY <1>1 DEF HostType
  <2>3. \A i \in DOMAIN tracked[v] : tracked[v][i] \in ListNode
    BY <2>2, NodesOfList
  <2> QED
    BY <2>1, <2>2, <2>3 DEF MaybePage, WellTracked
<1>5. \A p \in Page, i \in 0 .. Entries - 1 : entry[p][i] \in Usable \cup {NoPage, Junk}
  BY <1>1 DEF HostType, Index
<1> QED
  BY <1>1, <1>2, <1>3, <1>4, <1>5 DEF TypeOK, HostType

(* How far a machine is mapped.                                            *)
LEMMA MappedFacts ==
    ASSUME HostInv, NEW v \in Vm
    PROVE  /\ Mapped(v) \in Nat /\ Mapped(v) <= EptSpan(4)
           /\ Upto(v, 0) = Mapped(v)
           /\ task.vm = v => task.pc # "idle"
<1>1. /\ task.gpa \in Nat /\ vms[v].guest_physical_pages \in 0 .. EptSpan(4)
      /\ EptSpan(4) \in Nat
  BY SpanFacts DEF HostInv, Base, HostType, TaskRecord, VmRecord
<1>2. task.vm = v => task.pc # "idle"
  BY PageFacts, IdleTyped DEF HostInv, Base, CallOrder
<1>3. task.vm = v /\ task.pc # "vmcs" => task.gpa <= vms[v].guest_physical_pages
  <2>1. task.pc \in {"idle", "reserve", "reserve_track", "guest", "guest_track", "map",
                     "table_track", "vmcs"}
    BY DEF HostInv, Base, HostType, TaskRecord
  <2> QED
    BY <1>1, <1>2, <2>1 DEF HostInv, WalkInv, Mapping
<1>4. Mapping => task.level \in 1 .. 5
  BY DEF HostInv, WalkInv
<1> QED
  BY <1>1, <1>2, <1>3, <1>4 DEF Mapped, Upto

LEMMA GuestPages ==
    ASSUME HostInv, NEW v \in Vm
    PROVE  \A g, h \in GuestAddresses :
               /\ Translate(v, g) # NoPage <=> g < Mapped(v)
               /\ Translate(v, g) = Translate(v, h) /\ Translate(v, g) # NoPage => g = h
               /\ Translate(v, g) # NoPage => Translate(v, g) \in GuestMemory(v)
<1> SUFFICES ASSUME NEW g \in GuestAddresses, NEW h \in GuestAddresses
             PROVE  /\ Translate(v, g) # NoPage <=> g < Mapped(v)
                    /\ Translate(v, g) = Translate(v, h) /\ Translate(v, g) # NoPage => g = h
                    /\ Translate(v, g) # NoPage => Translate(v, g) \in GuestMemory(v)
  OBVIOUS
<1>1. Translate(v, g) = At(v, 0, g) /\ Translate(v, h) = At(v, 0, h)
  BY AtStep
<1>2. \A k \in GuestAddresses : Block(k, 0) = k
  <2>1. ASSUME NEW k \in Nat
        PROVE  Block(k, 0) = k
    <3>1. PICK q \in Nat : q = Block(k, 0) /\ q * EptSpan(0) <= k /\ k < q * EptSpan(0) + EptSpan(0)
      <4>1. 0 \in 0 .. 4
        OBVIOUS
      <4> QED
        BY <4>1, BlockBounds
    <3>2. q * 1 = q /\ EptSpan(0) = 1
      BY SpanFacts
    <3> QED
      BY <3>1, <3>2
  <2> QED
    BY <2>1, AddressTypes
<1>3. Linked(v, 0, g) <=> g < Mapped(v)
  <2>1. g \in Nat /\ Block(g, 0) = g /\ EptSpan(0) = 1 /\ Upto(v, 0) = Mapped(v)
    BY <1>2, AddressTypes, SpanFacts, MappedFacts
  <2>2. g * 1 = g
    BY <2>1
  <2> QED
    BY <2>1, <2>2 DEF Linked
<1>4. EptInv(v) /\ 0 \in 0 .. 4
  BY DEF HostInv
<1>5. At(v, 0, g) # NoPage <=> Linked(v, 0, g)
  BY <1>4 DEF EptInv
<1>6. At(v, 0, g) \in GuestMemory(v) \cup {NoPage}
  <2>1. At(v, 0, g) \in Held(v, 0) \cup {NoPage}
    BY <1>4 DEF EptInv
  <2> QED
    BY <2>1 DEF Held
<1>7. At(v, 0, g) = At(v, 0, h) /\ At(v, 0, g) # NoPage => Block(g, 0) = Block(h, 0)
  BY <1>4 DEF EptInv
<1> QED
  BY <1>1, <1>2, <1>3, <1>5, <1>6, <1>7

LEMMA HostInvEpt ==
    ASSUME HostInv
    PROVE  EptExact
<1> SUFFICES ASSUME NEW v \in Vm
             PROVE  /\ \A g \in GuestAddresses : (Translate(v, g) = NoPage) <=> g >= Mapped(v)
                    /\ \A g, h \in 0 .. Mapped(v) - 1 : Translate(v, g) = Translate(v, h) => g = h
                    /\ {Translate(v, g) : g \in 0 .. Mapped(v) - 1} =
                           GuestMemory(v) \ (IF task.vm = v THEN {task.hpa} ELSE {})
  BY DEF EptExact, GuestMemory
<1>1. PICK n \in Nat : n = Mapped(v) /\ n <= EptSpan(4)
  BY MappedFacts
<1>2. 0 .. n - 1 = {g \in GuestAddresses : g < n}
  BY <1>1, SpanFacts DEF GuestAddresses
<1>3. /\ \A g \in GuestAddresses : Translate(v, g) # NoPage <=> g < n
      /\ \A g, h \in GuestAddresses :
             Translate(v, g) = Translate(v, h) /\ Translate(v, g) # NoPage => g = h
      /\ \A g \in GuestAddresses : Translate(v, g) # NoPage => Translate(v, g) \in GuestMemory(v)
  BY <1>1, GuestPages
<1>4. \A g \in GuestAddresses : (Translate(v, g) = NoPage) <=> g >= n
  BY <1>1, <1>3, AddressTypes
<1>5. \A g, h \in 0 .. n - 1 : Translate(v, g) = Translate(v, h) => g = h
  BY <1>2, <1>3
<1>6. ASSUME NEW g \in 0 .. n - 1
      PROVE  Translate(v, g) \in GuestMemory(v) \ (IF task.vm = v THEN {task.hpa} ELSE {})
  <2>1. g \in GuestAddresses /\ Translate(v, g) # NoPage /\ Translate(v, g) \in GuestMemory(v)
    BY <1>2, <1>3
  <2>2. task.vm = v => Translate(v, g) # task.hpa
    <3>1. Translate(v, g) = At(v, 0, g)
      BY <2>1, AtStep
    <3>2. CASE Mapping
      BY <2>1, <3>1, <3>2 DEF HostInv, WalkInv
    <3>3. CASE ~Mapping
      BY <2>1, <3>3 DEF HostInv, WalkInv
    <3> QED
      BY <3>2, <3>3
  <2> QED
    BY <2>1, <2>2
<1>7. ASSUME NEW p \in GuestMemory(v) \ (IF task.vm = v THEN {task.hpa} ELSE {})
      PROVE  \E g \in 0 .. n - 1 : p = Translate(v, g)
  <2>1. p # NoPage
    BY TrackedUsable DEF HostInv
  <2>2. PICK g \in GuestAddresses : p = At(v, 0, g)
    BY <1>7 DEF HostInv, EptInv
  <2>3. p = Translate(v, g)
    BY <2>2, AtStep
  <2> QED
    BY <1>2, <1>3, <2>1, <2>3
<1> QED
  BY <1>1, <1>4, <1>5, <1>6, <1>7

LEMMA HostInvNoRemap ==
    ASSUME HostInv
    PROVE  NoRemap
<1> SUFFICES ASSUME task.pc = "map"
             PROVE  (task.level = 1 => NextTable = NoPage) /\ NextTable # Junk
  BY DEF NoRemap
<1>1. Mapping
  BY DEF Mapping
<1>2. PICK v \in Vm : v = task.vm
  BY DEF HostInv, Base, CallOrder
<1>3. PICK l \in 0 .. 4 : l = task.level - 1
  BY <1>1, <1>2, WalkFacts
<1>4. /\ Base /\ task.gpa \in GuestAddresses /\ task.gpa \in Nat /\ task.level \in 1 .. 5
      /\ Upto(v, 0) = task.gpa
      /\ NextTable = At(v, l, task.gpa)
  <2>1. /\ Base /\ task.gpa \in GuestAddresses /\ task.gpa \in Nat /\ task.level \in 1 .. 5
        /\ \A k \in 0 .. 4 : Upto(v, k) = IF task.level <= k THEN task.gpa + 1 ELSE task.gpa
        /\ NextTable = At(v, task.level - 1, task.gpa)
    BY <1>1, <1>2, WalkFacts
  <2>2. 0 \in 0 .. 4 /\ ~(task.level <= 0)
    BY <2>1
  <2> QED
    BY <1>3, <2>1, <2>2
<1>5. NextTable # Junk
  <2>1. EptInv(v)
    BY DEF HostInv
  <2>2. At(v, l, task.gpa) \in Held(v, l) \cup {NoPage}
    BY <1>4, <2>1 DEF EptInv
  <2>3. Ept(v) \subseteq Page /\ GuestMemory(v) \subseteq Page
    BY <1>4, TrackedUsable, PageFacts
  <2> QED
    BY <1>4, <2>2, <2>3, PageFacts DEF Held
<1>6. ASSUME task.level = 1
      PROVE  NextTable = NoPage
  <2>1. l = 0
    BY <1>3, <1>6
  <2>2. NextTable = Translate(v, task.gpa)
    BY <1>4, <2>1, AtStep
  <2>3. Mapped(v) = task.gpa
    BY <1>4, MappedFacts
  <2>4. Translate(v, task.gpa) # NoPage <=> task.gpa < Mapped(v)
    BY <1>4, GuestPages
  <2> QED
    BY <1>4, <2>2, <2>3, <2>4
<1> QED
  BY <1>5, <1>6

(* The tables of a level are those on the walks.                           *)
Tab(v, l) == {At(v, l, g) : g \in GuestAddresses} \ {NoPage}

LEMMA TableFacts ==
    ASSUME HostInv, NEW v \in Vm, NEW l \in 1 .. 4
    PROVE  Tab(v, l) \subseteq Ept(v) /\ Ept(v) \subseteq Page
<1>1. l \in 0 .. 4 /\ l # 0 /\ EptInv(v) /\ Base
  BY DEF HostInv
<1>2. \A g \in GuestAddresses : At(v, l, g) \in Ept(v) \cup {NoPage}
  BY <1>1 DEF EptInv, Held
<1>3. Ept(v) \subseteq Usable
  BY <1>1, TrackedUsable
<1>4. Ept(v) \subseteq Page
  BY <1>3, PageFacts
<1> QED
  BY <1>2, <1>4 DEF Tab

(* An entry that is present is the step of a walk.                         *)
LEMMA LinkOnWalk ==
    ASSUME HostInv, NEW v \in Vm, NEW k \in 0 .. 3, NEW t \in Tab(v, k + 1), NEW i \in Index
    PROVE  \E g \in GuestAddresses :
               t = At(v, k + 1, g) /\ i = EptIndex(g, k + 1) /\ entry[t][i] = At(v, k, g)
<1>1. k + 1 \in 1 .. 4 /\ k + 1 \in 0 .. 4
  OBVIOUS
<1>2. t \in Page
  BY <1>1, TableFacts
<1>3. PICK h \in GuestAddresses : t = At(v, k + 1, h)
  BY DEF Tab
<1>4. PICK g \in GuestAddresses : Block(g, k + 1) = Block(h, k + 1) /\ EptIndex(g, k + 1) = i
  BY IndexReached
<1>5. At(v, k + 1, g) = t
  BY <1>1, <1>3, <1>4, AtSameBlock
<1>6. At(v, k, g) = Lookup(t, i)
  BY <1>4, <1>5, AtStep
<1> QED
  BY <1>2, <1>4, <1>5, <1>6 DEF Lookup

LEMMA LevelBelow ==
    ASSUME HostInv, NEW v \in Vm, NEW k \in 0 .. 3
    PROVE  Below(Tab(v, k + 1)) = Tab(v, k)
<1>1. ASSUME NEW p \in Below(Tab(v, k + 1))
      PROVE  p \in Tab(v, k)
  <2>1. PICK t \in Tab(v, k + 1), i \in Index : p = entry[t][i] /\ p # NoPage
    BY DEF Below, Index
  <2> QED
    BY <2>1, LinkOnWalk DEF Tab
<1>2. ASSUME NEW p \in Tab(v, k)
      PROVE  p \in Below(Tab(v, k + 1))
  <2>1. PICK g \in GuestAddresses : p = At(v, k, g) /\ p # NoPage
    BY DEF Tab
  <2>2. p = Lookup(At(v, k + 1, g), EptIndex(g, k + 1)) /\ EptIndex(g, k + 1) \in Index
    BY <2>1, AtStep, BlockSplits, AddressTypes
  <2>3. At(v, k + 1, g) # NoPage
    BY <2>1, <2>2, PageFacts DEF Lookup
  <2>4. At(v, k + 1, g) \in Tab(v, k + 1)
    BY <2>3 DEF Tab
  <2>5. k + 1 \in 1 .. 4
    OBVIOUS
  <2>6. At(v, k + 1, g) \in Page
    BY <2>4, <2>5, TableFacts
  <2>7. p = entry[At(v, k + 1, g)][EptIndex(g, k + 1)]
    BY <2>2, <2>6 DEF Lookup
  <2> QED
    BY <2>1, <2>2, <2>4, <2>7 DEF Below, Index
<1> QED
  BY <1>1, <1>2

LEMMA TablesTracked ==
    ASSUME HostInv, NEW v \in Vm
    PROVE  Tables(v) = Ept(v) /\ \A t \in Ept(v) : \E k \in 0 .. 3 : t \in Tab(v, k + 1)
<1>1. Tab(v, 4) = {vms[v].eptp} \ {NoPage}
  <2>1. 0 \in GuestAddresses
    BY SpanFacts DEF GuestAddresses
  <2>2. \A g \in GuestAddresses : At(v, 4, g) = vms[v].eptp
    BY AtStep
  <2> QED
    BY <2>1, <2>2 DEF Tab
<1>2. Below(Tab(v, 4)) = Tab(v, 3) /\ Below(Tab(v, 3)) = Tab(v, 2) /\ Below(Tab(v, 2)) = Tab(v, 1)
  <2>1. 3 + 1 = 4 /\ 2 + 1 = 3 /\ 1 + 1 = 2 /\ {1, 2, 3} \subseteq 0 .. 3
    OBVIOUS
  <2>2. \A k \in 0 .. 3 : Below(Tab(v, k + 1)) = Tab(v, k)
    BY LevelBelow
  <2> QED
    BY <2>1, <2>2
<1>3. Tables(v) = Tab(v, 4) \cup Tab(v, 3) \cup Tab(v, 2) \cup Tab(v, 1)
  BY <1>1, <1>2 DEF Tables
<1>4. \A l \in 1 .. 4 : Tab(v, l) \subseteq Ept(v)
  BY TableFacts
<1>5. ASSUME NEW t \in Ept(v)
      PROVE  \E l \in 1 .. 4 : t \in Tab(v, l)
  <2>1. PICK l \in 1 .. 4, g \in GuestAddresses : t = At(v, l, g)
    BY DEF HostInv, EptInv
  <2>2. t # NoPage
    BY TrackedUsable DEF HostInv
  <2> QED
    BY <2>1, <2>2 DEF Tab
<1>6. \A l \in 1 .. 4 : l = 1 \/ l = 2 \/ l = 3 \/ l = 4
  OBVIOUS
<1>7. Tables(v) = Ept(v)
  BY <1>3, <1>4, <1>5, <1>6
<1>8. ASSUME NEW t \in Ept(v)
      PROVE  \E k \in 0 .. 3 : t \in Tab(v, k + 1)
  <2>1. PICK l \in 1 .. 4 : t \in Tab(v, l)
    BY <1>5
  <2>2. l - 1 \in 0 .. 3 /\ (l - 1) + 1 = l
    OBVIOUS
  <2> QED
    BY <2>1, <2>2
<1> QED
  BY <1>7, <1>8

(* A present entry of a table and the node it links.                       *)
LEMMA EntryLinks ==
    ASSUME HostInv, NEW v \in Vm, NEW t \in Ept(v), NEW i \in Index, entry[t][i] # NoPage
    PROVE  \E k \in 0 .. 3, g \in GuestAddresses :
               /\ t = At(v, k + 1, g) /\ i = EptIndex(g, k + 1)
               /\ entry[t][i] = At(v, k, g) /\ At(v, k, g) \in Held(v, k)
<1>1. PICK k \in 0 .. 3 : t \in Tab(v, k + 1)
  BY TablesTracked
<1>2. PICK g \in GuestAddresses :
          t = At(v, k + 1, g) /\ i = EptIndex(g, k + 1) /\ entry[t][i] = At(v, k, g)
  BY <1>1, LinkOnWalk
<1>3. k \in 0 .. 4 /\ EptInv(v)
  BY DEF HostInv
<1>4. At(v, k, g) \in Held(v, k) \cup {NoPage}
  BY <1>3 DEF EptInv
<1> QED
  BY <1>2, <1>4

LEMMA LinkUnique ==
    ASSUME HostInv, NEW v \in Vm, NEW w \in Vm, NEW t \in Ept(v), NEW u \in Ept(w),
           NEW i \in Index, NEW j \in Index,
           entry[t][i] # NoPage, entry[t][i] = entry[u][j]
    PROVE  v = w /\ t = u /\ i = j
<1>1. PICK k \in 0 .. 3, g \in GuestAddresses :
          /\ t = At(v, k + 1, g) /\ i = EptIndex(g, k + 1)
          /\ entry[t][i] = At(v, k, g) /\ At(v, k, g) \in Held(v, k)
  BY EntryLinks
<1>2. PICK m \in 0 .. 3, h \in GuestAddresses :
          /\ u = At(w, m + 1, h) /\ j = EptIndex(h, m + 1)
          /\ entry[u][j] = At(w, m, h) /\ At(w, m, h) \in Held(w, m)
  BY EntryLinks
<1>3. v = w
  <2>1. Base
    BY DEF HostInv
  <2>2. w # v => (Ept(v) \cup GuestMemory(v)) \cap (Ept(w) \cup GuestMemory(w)) = {}
    <3>1. w # v => /\ Ept(v) \cap (Ept(w) \cup Pool(w) \cup GuestMemory(w)) = {}
                   /\ GuestMemory(v) \cap GuestMemory(w) = {}
      BY <2>1, PagesApart
    <3>2. w # v => Ept(w) \cap (Ept(v) \cup Pool(v) \cup GuestMemory(v)) = {}
      BY <2>1, PagesApart
    <3> QED
      BY <3>1, <3>2
  <2> QED
    BY <1>1, <1>2, <2>2 DEF Held
<1>4. k = m /\ Block(g, k) = Block(h, k)
  <2>1. EptInv(v) /\ k \in 0 .. 4 /\ m \in 0 .. 4
    BY DEF HostInv
  <2>2. At(v, k, g) = At(v, m, h) /\ At(v, k, g) # NoPage
    BY <1>1, <1>2, <1>3
  <2> QED
    BY <2>1, <2>2 DEF EptInv
<1>5. Block(g, k + 1) = Block(h, k + 1) /\ EptIndex(g, k + 1) = EptIndex(h, k + 1)
  BY <1>4, SameBlock, AddressTypes
<1>6. At(v, k + 1, g) = At(v, k + 1, h)
  <2>1. k + 1 \in 0 .. 4
    OBVIOUS
  <2> QED
    BY <1>5, <2>1, AtSameBlock
<1> QED
  BY <1>1, <1>2, <1>3, <1>4, <1>5, <1>6

LEMMA HostInvTree ==
    ASSUME HostInv
    PROVE  EptTreePrivate
<1>1. ASSUME NEW v \in Vm
      PROVE  /\ Tables(v) = PagesOf(tracked[v], "EPT", 0)
             /\ \A t \in Tables(v) : content[t] = "table"
  <2>1. Tables(v) = Ept(v)
    BY TablesTracked
  <2>2. \A t \in Ept(v) : content[t] = "table"
    BY DEF HostInv, EptInv
  <2> QED
    BY <2>1, <2>2 DEF Ept
<1> DEFINE links == UNION {{v} \X Present(Tables(v)) : v \in Vm}
<1>2. ASSUME NEW l \in links
      PROVE  \E v \in Vm : \E t \in Ept(v), i \in Index : l = <<v, <<t, i>>>> /\ entry[t][i] # NoPage
  <2>0. PICK v \in Vm : l \in {v} \X Present(Tables(v))
    OBVIOUS
  <2>1. PICK e \in Present(Tables(v)) : l = <<v, e>>
    BY <2>0
  <2>2. PICK t \in Tables(v), i \in Index : e = <<t, i>>
    BY DEF Present, Index
  <2>3. entry[t][i] # NoPage
    BY <2>2 DEF Present
  <2>4. t \in Ept(v)
    BY TablesTracked
  <2> QED
    BY <2>1, <2>2, <2>3, <2>4
<1>3. ASSUME NEW l \in links, NEW m \in links, entry[l[2][1]][l[2][2]] = entry[m[2][1]][m[2][2]]
      PROVE  l = m
  <2>1. PICK v \in Vm : \E t \in Ept(v), i \in Index : l = <<v, <<t, i>>>> /\ entry[t][i] # NoPage
    BY <1>2
  <2>2. PICK t \in Ept(v), i \in Index : l = <<v, <<t, i>>>> /\ entry[t][i] # NoPage
    BY <2>1
  <2>3. PICK w \in Vm : \E u \in Ept(w), j \in Index : m = <<w, <<u, j>>>> /\ entry[u][j] # NoPage
    BY <1>2
  <2>4. PICK u \in Ept(w), j \in Index : m = <<w, <<u, j>>>> /\ entry[u][j] # NoPage
    BY <2>3
  <2>5. entry[t][i] = entry[u][j]
    BY <1>3, <2>2, <2>4
  <2>6. v = w /\ t = u /\ i = j
    BY <2>2, <2>5, LinkUnique
  <2> QED
    BY <2>2, <2>4, <2>6
<1> QED
  BY <1>1, <1>3 DEF EptTreePrivate

-----------------------------------------------------------------------------
(* The tables in use never exceed those of the whole machine.              *)
LEMMA TablesBounded ==
    ASSUME NEW v, NEW n \in Nat, NEW l \in 1 .. 4, Upto(v, l) \in Nat, Upto(v, l) <= n
    PROVE  /\ TablesOf(v, l) \in Nat /\ CeilDiv(n, EptSpan(l)) \in Nat
           /\ TablesOf(v, l) <= CeilDiv(n, EptSpan(l))
<1>1. PICK d \in Nat \ {0} : d = EptSpan(l)
  BY SpanFacts
<1>2. PICK a \in Nat : a = Upto(v, l)
  OBVIOUS
<1>3. CeilDiv(a, d) \in Nat /\ CeilDiv(n, d) \in Nat
  BY CeilBelow
<1>4. CeilDiv(a, d) <= CeilDiv(n, d)
  BY <1>2, CeilMonotone
<1> QED
  BY <1>1, <1>2, <1>3, <1>4 DEF TablesOf

LEMMA PoolNotDry ==
    ASSUME HostInv, task.pc = "map", task.level > 1, NextTable = NoPage
    PROVE  NodesOf(tracked[task.vm], "EPT", 1) # {}
<1>1. Mapping
  BY DEF Mapping
<1>2. PICK v \in Vm : v = task.vm
  BY DEF HostInv, Base, CallOrder
<1>3. /\ Base /\ task.gpa \in GuestAddresses /\ task.gpa \in Nat
      /\ task.gpa < vms[v].guest_physical_pages
      /\ task.level \in 1 .. 5
      /\ \A k \in 0 .. 4 : Upto(v, k) = IF task.level <= k THEN task.gpa + 1 ELSE task.gpa
      /\ At(v, task.level - 1, task.gpa) = NoPage
  BY <1>1, <1>2, WalkFacts
<1>4. PICK gpa \in GuestAddresses : gpa = task.gpa /\ gpa \in Nat
  BY <1>3
<1>5. PICK l \in 1 .. 4 : l = task.level - 1 /\ l \in 0 .. 4 /\ ~(task.level <= l)
  BY <1>3
<1>6. PICK n \in Nat : n = vms[v].guest_physical_pages /\ gpa + 1 <= n
  <2>1. vms[v].guest_physical_pages \in 0 .. EptSpan(4) /\ EptSpan(4) \in Nat
    BY <1>3, SpanFacts DEF Base, HostType, VmRecord
  <2> QED
    BY <1>3, <1>4, <2>1
<1>7. ASSUME NEW k \in 1 .. 4
      PROVE  Upto(v, k) \in Nat /\ Upto(v, k) <= n
  <2>1. Upto(v, k) = gpa + 1 \/ Upto(v, k) = gpa
    BY <1>3, <1>4
  <2> QED
    BY <1>4, <1>6, <2>1
<1>8. \A k \in 1 .. 4 : /\ TablesOf(v, k) \in Nat /\ CeilDiv(n, EptSpan(k)) \in Nat
                        /\ TablesOf(v, k) <= CeilDiv(n, EptSpan(k))
  BY <1>7, TablesBounded
<1>9. TablesOf(v, l) < CeilDiv(n, EptSpan(l))
  <2>1. Upto(v, l) = gpa
    BY <1>3, <1>4, <1>5
  <2>2. ~Linked(v, l, gpa)
    BY <1>3, <1>4, <1>5 DEF HostInv, EptInv
  <2>3. PICK s \in Nat \ {0} : s = EptSpan(l)
    BY <1>5, SpanFacts
  <2>4. PICK b \in Nat : b = Block(gpa, l)
    BY <1>4, <1>5, BlockBounds
  <2>5. b * s = gpa
    <3>1. b * s >= gpa
      BY <1>4, <2>1, <2>2, <2>3, <2>4 DEF Linked
    <3>2. b * s <= gpa
      BY <1>4, <1>5, <2>3, <2>4, BlockBounds
    <3> QED
      BY <1>4, <3>1, <3>2
  <2>6. CeilDiv(gpa + 1, s) = CeilDiv(gpa, s) + 1
    BY <1>4, <2>5, CeilNext
  <2>7. CeilDiv(gpa + 1, s) <= CeilDiv(n, s)
    BY <1>4, <1>6, CeilMonotone
  <2>8. CeilDiv(gpa, s) \in Nat /\ CeilDiv(n, s) \in Nat
    BY <1>4, CeilBelow
  <2>9. TablesOf(v, l) = CeilDiv(gpa, s)
    BY <2>1, <2>3 DEF TablesOf
  <2> QED
    BY <2>3, <2>6, <2>7, <2>8, <2>9
<1>10. InUse(v) < EptPages(n) /\ InUse(v) \in Nat /\ EptPages(n) \in Nat
  <2>1. InUse(v) = TablesOf(v, 1) + TablesOf(v, 2) + TablesOf(v, 3) + TablesOf(v, 4) + 0
    BY DEF InUse
  <2>2. EptPages(n) = CeilDiv(n, EptSpan(1)) + CeilDiv(n, EptSpan(2))
                          + CeilDiv(n, EptSpan(3)) + CeilDiv(n, EptSpan(4))
    BY EptPagesSum
  <2>3. /\ TablesOf(v, 1) \in Nat /\ CeilDiv(n, EptSpan(1)) \in Nat
        /\ TablesOf(v, 1) <= CeilDiv(n, EptSpan(1))
        /\ TablesOf(v, 2) \in Nat /\ CeilDiv(n, EptSpan(2)) \in Nat
        /\ TablesOf(v, 2) <= CeilDiv(n, EptSpan(2))
        /\ TablesOf(v, 3) \in Nat /\ CeilDiv(n, EptSpan(3)) \in Nat
        /\ TablesOf(v, 3) <= CeilDiv(n, EptSpan(3))
        /\ TablesOf(v, 4) \in Nat /\ CeilDiv(n, EptSpan(4)) \in Nat
        /\ TablesOf(v, 4) <= CeilDiv(n, EptSpan(4))
    BY <1>8
  <2>4. l = 1 \/ l = 2 \/ l = 3 \/ l = 4
    OBVIOUS
  <2>5. \/ TablesOf(v, 1) < CeilDiv(n, EptSpan(1)) \/ TablesOf(v, 2) < CeilDiv(n, EptSpan(2))
        \/ TablesOf(v, 3) < CeilDiv(n, EptSpan(3)) \/ TablesOf(v, 4) < CeilDiv(n, EptSpan(4))
    BY <1>9, <2>4
  <2> QED
    BY <2>1, <2>2, <2>3, <2>5
<1>11. Pool(v) # {}
  <2>1. Reserved(v) = EptPages(n)
    BY <1>6 DEF Reserved
  <2>2. Cardinality(Pool(v)) = EptPages(n) - InUse(v)
    BY <2>1 DEF HostInv, PoolInv
  <2>3. Cardinality(Pool(v)) # 0
    BY <1>10, <2>2
  <2> QED
    BY <2>3, FS_EmptySet
<1> QED
  BY <1>2, <1>11 DEF Pool, PagesOf

LEMMA PoolUsedUp ==
    ASSUME HostInv, NEW v \in Vm, task.vm # v
    PROVE  Pool(v) = {}
<1>1. PICK n \in Nat : n = vms[v].guest_physical_pages
  BY SpanFacts DEF HostInv, Base, HostType, VmRecord
<1>2. \A l \in 0 .. 4 : Upto(v, l) = n
  BY <1>1 DEF Upto, Mapped
<1>3. InUse(v) = EptPages(n) /\ EptPages(n) \in Nat
  <2>1. InUse(v) = TablesOf(v, 1) + TablesOf(v, 2) + TablesOf(v, 3) + TablesOf(v, 4) + 0
    BY DEF InUse
  <2>2. /\ EptPages(n) = CeilDiv(n, EptSpan(1)) + CeilDiv(n, EptSpan(2))
                          + CeilDiv(n, EptSpan(3)) + CeilDiv(n, EptSpan(4))
        /\ EptPages(n) \in Nat
    BY EptPagesSum
  <2>3. /\ TablesOf(v, 1) = CeilDiv(n, EptSpan(1)) /\ TablesOf(v, 2) = CeilDiv(n, EptSpan(2))
        /\ TablesOf(v, 3) = CeilDiv(n, EptSpan(3)) /\ TablesOf(v, 4) = CeilDiv(n, EptSpan(4))
    BY <1>2 DEF TablesOf
  <2> QED
    BY <2>1, <2>2, <2>3
<1>4. Reserved(v) = EptPages(n)
  BY <1>1 DEF Reserved
<1>5. IsFiniteSet(Pool(v)) /\ Cardinality(Pool(v)) = EptPages(n) - EptPages(n)
  BY <1>3, <1>4 DEF HostInv, PoolInv
<1>6. Cardinality(Pool(v)) = 0
  BY <1>3, <1>5
<1> QED
  BY <1>5, <1>6, FS_EmptySet

LEMMA HostInvPool ==
    ASSUME HostInv
    PROVE  PoolExact
BY PoolNotDry, PoolUsedUp DEF PoolExact, Pool

-----------------------------------------------------------------------------
(* Every page the predicates claim has an owner, when page 0 is not one of *)
(* the pages mm_get_free_page may return.                                  *)
LEMMA UsedOwned ==
    ASSUME Base, 0 \notin Usable, NEW p \in Usable, p \in UsedPages
    PROVE  \E o \in HostOwner : p \in OwnedPages(o)
<1>1. p # NoPage
  BY PageFacts
<1>2. /\ <<"chainload", NoVm>> \in HostOwner /\ <<"arena", NoVm>> \in HostOwner
      /\ <<"vmxon", NoVm>> \in HostOwner /\ <<"bitmaps", NoVm>> \in HostOwner
      /\ \A v \in Vm : /\ <<"vmcs", v>> \in HostOwner /\ <<"ept", v>> \in HostOwner
                       /\ <<"pool", v>> \in HostOwner /\ <<"guest", v>> \in HostOwner
  BY DEF HostOwner
<1>3. CASE p \in chainload
  BY <1>2, <1>3, OwnedValues
<1>4. CASE p \in UsedByArena
  BY <1>1, <1>2, <1>4, OwnedValues
<1>5. CASE p \in UsedByVmx
  BY <1>1, <1>2, <1>5, OwnedValues DEF UsedByVmx
<1>6. CASE p \in UsedByVmManager
  <2>1. PICK v \in Vm : p = vms[v].vmcs_region \/ p \in ListUses(tracked[v], Page)
    BY <1>6 DEF UsedByVmManager
  <2>2. CASE p = vms[v].vmcs_region
    <3>1. p \in OwnedPages(<<"vmcs", v>>)
      BY <1>1, <2>2, OwnedValues
    <3> QED
      BY <1>2, <3>1
  <2>3. CASE p \in ListUses(tracked[v], Page)
    <3>1. tracked[v] \in Seq(ListNode) /\ WellTracked(tracked[v])
      BY DEF Base, HostType
    <3>2. PICK k \in Kinds : p \in PagesOf(tracked[v], k[1], k[2])
      BY <2>3, <3>1, ListClaimsOnly
    <3>3. p \in Ept(v) \/ p \in Pool(v) \/ p \in GuestMemory(v)
      BY <3>2 DEF Kinds, Ept, Pool, GuestMemory
    <3>4. p \in OwnedPages(<<"ept", v>>) \/ p \in OwnedPages(<<"pool", v>>) \/ p \in OwnedPages(<<"guest", v>>)
      BY <3>3, OwnedValues
    <3> QED
      BY <1>2, <3>4
  <2> QED
    BY <2>1, <2>2, <2>3
<1> QED
  BY <1>3, <1>4, <1>5, <1>6 DEF UsedPages

(* The hypervisor stops for good at a panic, and only the allocator that   *)
(* finds no page panics for lack of memory.                                *)
LEMMA PanicIsFinal ==
    ASSUME Next
    PROVE  Ready /\ (panic' = "oom" => OutOfMemory)
<1>1. ASSUME NEW v \in Vm, \/ CreateVm(v) \/ AllocateAgain(v) \/ CreateVmcs(v) \/ CreateVmcsAgain(v)
                           \/ Launch(v) \/ LaunchFails(v)
                           \/ \E pages \in GuestSizes : AllocateGuestMemory(v, pages)
      PROVE  Ready /\ panic' # "oom"
  BY <1>1 DEF CreateVm, WantsVm, AllocateAgain, CreateVmcs, WantsVmcs, CreateVmcsAgain, Launch,
              LaunchFails, AllocateGuestMemory, Ready
<1>2. ASSUME VmxSetup \/ VmxSetupFails \/ CreateDevice
      PROVE  Ready /\ panic' # "oom"
  BY <1>2 DEF VmxSetup, VmxSetupFails, CreateDevice, WantsDevice, Ready
<1>3. ASSUME TaskStep
      PROVE  Ready /\ (panic' # "oom" \/ OutOfMemory)
  <2>1. ASSUME ReserveTrack \/ GuestTrack \/ MapLinkTable
        PROVE  Ready /\ panic' # "oom"
    BY <2>1 DEF ReserveTrack, GuestTrack, MapLinkTable, Track, Ready
  <2>2. ASSUME \/ ReserveTake \/ ReserveDone \/ GuestTake \/ GuestDone \/ MapDescend
               \/ MapTakeTable \/ MapLeaf
        PROVE  Ready /\ panic' # "oom"
    BY <2>2 DEF ReserveTake, ReserveDone, GuestTake, GuestDone, MapDescend, MapTakeTable,
                MapLeaf, Ready
  <2>3. ASSUME VmcsTakeBitmaps \/ VmcsFinish \/ VmcsFails \/ ArenaFull
        PROVE  Ready /\ panic' # "oom"
    BY <2>3 DEF VmcsTakeBitmaps, VmcsFinish, VmcsFails, ArenaFull, Ready
  <2>4. OutOfMemory => Ready
    BY DEF OutOfMemory
  <2> QED
    BY <1>3, <2>1, <2>2, <2>3, <2>4 DEF TaskStep
<1> QED
  BY <1>1, <1>2, <1>3 DEF Next

LEMMA OwnedKept ==
    ASSUME UNCHANGED <<chainload, arenas, vmxon, bitmaps, vms, tracked, task>>
    PROVE  \A o : OwnedPages(o)' = OwnedPages(o)
BY DEF OwnedPages, UsedByArena, InHand

LEMMA NextOom ==
    ASSUME 0 \notin Usable, HostInv, OomOnlyWhenOwned, [Next]_vars
    PROVE  OomOnlyWhenOwned'
<1>1. CASE UNCHANGED vars
  <2>1. panic' = panic /\ \A o : OwnedPages(o)' = OwnedPages(o)
    BY <1>1, OwnedKept DEF vars
  <2> QED
    BY <2>1 DEF OomOnlyWhenOwned
<1>2. CASE Next
  <2>1. SUFFICES ASSUME panic' = "oom"
                 PROVE  \A p \in Usable : \E o \in HostOwner : p \in OwnedPages(o)'
    BY DEF OomOnlyWhenOwned
  <2>2. OutOfMemory
    BY <1>2, <2>1, PanicIsFinal
  <2>3. FoundSlot = {} /\ \A o : OwnedPages(o)' = OwnedPages(o)
    BY <2>2, OwnedKept DEF OutOfMemory
  <2>4. Usable \subseteq UsedPages
    BY <2>3, NoneFree
  <2>5. Base
    BY DEF HostInv
  <2> QED
    BY <2>3, <2>4, <2>5, UsedOwned
<1> QED
  BY <1>1, <1>2

LEMMA OwnersApart ==
    ASSUME HostInv
    PROVE  Ownership!Exclusive
<1>1. Owners!Exclusive
  BY DEF HostInv, Base, Owners!OwnershipInv
<1> QED
  BY <1>1 DEF Owners!Exclusive, Ownership!Exclusive, Owners!Shared, Ownership!Shared, Owners!Owner,
              Ownership!Owner, Owners!HostRoles, Ownership!HostRoles, Owners!VmRoles, Ownership!VmRoles

LEMMA SharingKept ==
    ASSUME HostInv, [Next]_vars
    PROVE  [OwnedPages(<<"bitmaps", NoVm>>) # {} =>
               Ownership!SharingVms' = Ownership!SharingVms]_(Ownership!vars)
<1>1. Usable \subseteq Page /\ Chainloads \subseteq SUBSET Page /\ NoVm \notin Vm
  BY PageFacts
<1>2. Owners!OwnershipInv /\ [Owners!Next]_(Owners!vars)
  BY NextHost DEF HostInv, Base
<1>3. [[o \in HostOwner |-> OwnedPages(o)][<<"bitmaps", NoVm>>] # {} =>
          Owners!SharingVms' = Owners!SharingVms]_(Owners!vars)
  BY <1>1, <1>2, Owners!SharingStep
<1>4. [o \in HostOwner |-> OwnedPages(o)][<<"bitmaps", NoVm>>] = OwnedPages(<<"bitmaps", NoVm>>)
  BY DEF HostOwner
<1> QED
  BY <1>3, <1>4 DEF Owners!vars, Ownership!vars, Owners!SharingVms, Ownership!SharingVms

-----------------------------------------------------------------------------
(* The arenas stay within their page and every address kept is a page the  *)
(* memory map offers, after any sequence of allocations.                   *)
THEOREM HostTypeCorrect == Spec => []TypeOK
<1>1. HostInv => TypeOK
  BY HostInvTypes
<1> QED
  BY <1>1, InitHost, NextHost, PTL DEF Spec

(* The hypervisor keeps the promise of PageOwnership: the four predicates  *)
(* of mm_page_is_free are enough for a page to be handed out only while it *)
(* is nobody's, and to change hands only from a pool to its EPT.           *)
THEOREM HostKeepsOwnership == Spec => ImplementsOwnership
<1>1. Init => Owners!Init
  BY InitHost
<1>2. HostInv /\ [Next]_vars => [Owners!Next]_(Owners!vars)
  BY NextHost
<1>3. Spec => Owners!Spec
  BY <1>1, <1>2, InitHost, NextHost, PTL DEF Spec, Owners!Spec
<1> QED
  BY <1>3, SamePromise

(* So no page of the hypervisor has two owners, in the middle of any call, *)
(* but for the VMCS region that may be the page of MSR bitmaps: memory of  *)
(* a guest is not hypervisor memory, nor a control structure or an EPT     *)
(* page, nor memory of another guest.                                      *)
THEOREM HostOwnersExclusive == Spec => []Ownership!Exclusive
<1>1. HostInv => Ownership!Exclusive
  BY OwnersApart
<1> QED
  BY <1>1, InitHost, NextHost, PTL DEF Spec

(* And vmx_initialize_vmcs opens that window for one machine only: once    *)
(* the MSR bitmaps exist no VMCS region comes to share their page.         *)
THEOREM HostSharesOnce == Spec => Ownership!OnlyFirstVmcsShared
<1> DEFINE b == [o \in HostOwner |-> OwnedPages(o)][<<"bitmaps", NoVm>>]
<1>1. HostInv /\ [Next]_vars =>
         [b # {} => Ownership!SharingVms' = Ownership!SharingVms]_(Ownership!vars)
  <2>1. b = OwnedPages(<<"bitmaps", NoVm>>)
    BY DEF HostOwner
  <2> HIDE DEF b
  <2> QED
    BY <2>1, SharingKept
<1> QED
  BY <1>1, InitHost, NextHost, PTL DEF Spec, Ownership!OnlyFirstVmcsShared

(* At every step of vm_manager_allocate_guest_physical_memory the EPT maps *)
(* the pages handled so far, one to one onto the tracked guest memory, and *)
(* nothing else.                                                           *)
THEOREM EptAlwaysExact == Spec => []EptExact
<1>1. HostInv => EptExact
  BY HostInvEpt
<1> QED
  BY <1>1, InitHost, NextHost, PTL DEF Spec

(* The tables the processor walks are the tracked EPT pages and form a     *)
(* tree, private to the machine.                                           *)
THEOREM EptAlwaysTree == Spec => []EptTreePrivate
<1>1. HostInv => EptTreePrivate
  BY HostInvTree
<1> QED
  BY <1>1, InitHost, NextHost, PTL DEF Spec

(* The count of EPT pages reserved beforehand is exact: the pool is never  *)
(* dry when vmx_ept_map_page needs a table and is empty in the end.        *)
THEOREM PoolAlwaysExact == Spec => []PoolExact
<1>1. HostInv => PoolExact
  BY HostInvPool
<1> QED
  BY <1>1, InitHost, NextHost, PTL DEF Spec

(* vmx_ept_map_page never meets a mapped page nor reads an entry that was  *)
(* not cleared.                                                            *)
THEOREM NeverRemaps == Spec => []NoRemap
<1>1. HostInv => NoRemap
  BY HostInvNoRemap
<1> QED
  BY <1>1, InitHost, NextHost, PTL DEF Spec

(* Unless page 0 may be handed out, the allocator panics for lack of       *)
(* memory only when every usable page has an owner.                        *)
THEOREM OomMeansAllOwned ==
    ASSUME 0 \notin Usable
    PROVE  Spec => []OomOnlyWhenOwned
<1>1. Init => OomOnlyWhenOwned
  BY DEF Init, OomOnlyWhenOwned
<1>2. HostInv /\ OomOnlyWhenOwned /\ [Next]_vars => OomOnlyWhenOwned'
  BY NextOom
<1> QED
  BY <1>1, <1>2, InitHost, NextHost, PTL DEF Spec
=============================================================================
