----------------------------- MODULE BootPaging -----------------------------
(***************************************************************************)
(* The bootloader's paging.c: tables are allocated from the firmware,      *)
(* their pages recorded as regions of the chainload page, and the sections *)
(* and the physical memory mapped.  One step is one call to the firmware.  *)
(***************************************************************************)
EXTENDS Boot

(* The "region collapser": a block next to a recorded region extends the   *)
(* first such region, any other one is recorded as a region of its own.    *)
Adjacent(regions, at, n) ==
    {i \in DOMAIN regions : at + n = regions[i].at \/ at = regions[i].at + regions[i].pages}

Recordable(regions, at, n) == Adjacent(regions, at, n) # {} \/ Len(regions) < MaxRegions

(* Mutation: a region that grows downwards keeps its first page.           *)
Recorded_KeepsBase(regions, at, n) ==
    IF Adjacent(regions, at, n) = {} THEN Append(regions, [at |-> at, pages |-> n])
    ELSE [regions EXCEPT ![Min(Adjacent(regions, at, n))].pages = @ + n]

Recorded(regions, at, n) ==
    IF Adjacent(regions, at, n) = {} THEN Append(regions, [at |-> at, pages |-> n])
    ELSE [regions EXCEPT ![Min(Adjacent(regions, at, n))] =
             [at |-> IF at < @.at THEN at ELSE @.at, pages |-> @.pages + n]]

(* paging_allocate_page, and what the caller does with the pages before it *)
(* calls the firmware again.                                               *)
PagingAllocatePage(b, n, written, locals, next) ==
    IF Recordable(chain.regions, b.at, n)
    THEN /\ AllocatePages(b, n, "LoaderData")
         /\ holds' = Marked(b.at, n, "table")
         /\ chain' = [chain EXCEPT !.regions = Recorded(@, b.at, n)]
         /\ tables' = written /\ local' = locals
         /\ pc' = next
         /\ UNCHANGED <<error, mmap>>
    ELSE Fail("EFI_BUFFER_TOO_SMALL")

(* Memory that was never zeroed holds anything.                            *)
ReadEntry(page, i) == IF page \in DOMAIN tables THEN tables[page][i] ELSE Large(0, "stale")

(* paging_allocate_pml4                                                    *)
AllocatePml4 ==
    /\ pc = "pml4"
    /\ \E b \in Blocks(1) :
          PagingAllocatePage(b, 1, Store(tables, b.at, Zeroed), [local EXCEPT !.pml4 = b.at], "map")

-----------------------------------------------------------------------------
(* paging_map_page, for page local.page of section local.section.          *)
MappedAddress == Sections[local.section].base + local.page

(* The table consulted at each level, 3 being the PML4.                    *)
TableAt ==
    LET t[level \in 0 .. 3] ==
            IF level = 3 THEN local.pml4
            ELSE ReadEntry(t[level + 1], IndexAt(MappedAddress, level + 1)).to
    IN  t
EntryAt(level) == ReadEntry(TableAt[level], IndexAt(MappedAddress, level))

MissingLevels == {level \in 1 .. 3 : ~EntryAt(level).present}

AllocateTable ==
    /\ pc = "map"
    /\ MissingLevels # {}
    /\ LET level == Max(MissingLevels)
           linked(at) == [tables EXCEPT ![TableAt[level]][IndexAt(MappedAddress, level)] = Table(at)]
       IN  \E b \in Blocks(1) :
              PagingAllocatePage(b, 1, Store(linked(b.at), b.at, Zeroed), local, "map")

(* A large page in the way, or a page mapped already.                      *)
Conflict == EntryAt(2).large \/ EntryAt(1).large \/ EntryAt(0).present

ConflictStatus ==
    IF EntryAt(2).large \/ EntryAt(1).large THEN "EFI_UNSUPPORTED" ELSE "EFI_OUT_OF_RESOURCES"

(* Mutation: one page more of each section is mapped.                      *)
LastPage_OneMore == local.page = SECTION_PAGES

LastPage == local.page = SECTION_PAGES - 1

MapPage ==
    /\ pc = "map"
    /\ MissingLevels = {}
    /\ IF Conflict THEN Fail(ConflictStatus)
       ELSE /\ tables' = [tables EXCEPT ![TableAt[0]][IndexAt(MappedAddress, 0)] =
                             Leaf(chain.sections[local.section] + local.page, Sections[local.section].perm)]
            /\ local' = IF LastPage THEN [local EXCEPT !.section = @ + 1, !.page = 0]
                        ELSE [local EXCEPT !.page = @ + 1]
            /\ pc' = IF LastPage /\ local.section = Len(Sections) THEN "pdpt" ELSE "map"
            /\ UNCHANGED <<error, types, fw, holds, chain, mmap>>

-----------------------------------------------------------------------------
(* paging_map_physical: one PDPT shared by two entries of the PML4, and a  *)
(* block of Entries PDs of large pages.                                    *)
AllocatePdpt ==
    /\ pc = "pdpt"
    /\ IF ReadEntry(local.pml4, 0).present THEN Fail("EFI_OUT_OF_RESOURCES")
       ELSE \E b \in Blocks(1) :
               PagingAllocatePage(b, 1, Store(tables, b.at, Zeroed), [local EXCEPT !.pdpt = b.at], "pds")

PhysicalPd(i) == [j \in Index |-> Large((i * Entries + j) * Entries, "RWX")]

MapPhysical ==
    /\ pc = "pds"
    /\ \E b \in Blocks(Entries) :
          LET pml4 == [tables[local.pml4] EXCEPT ![0] = Table(local.pdpt), ![PhysicalIndex] = Table(local.pdpt)]
              pdpt == [i \in Index |-> Table(b.at + i)]
              pds == [p \in Span(b.at, Entries) |-> PhysicalPd(p - b.at)]
          IN  PagingAllocatePage(b, Entries,
                                 Store(Store(StoreAll(tables, pds), local.pdpt, pdpt), local.pml4, pml4),
                                 local, "level")
=============================================================================
