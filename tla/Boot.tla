-------------------------------- MODULE Boot --------------------------------
(***************************************************************************)
(* The UEFI bootloader: efi_main loads the sections and the attachment,    *)
(* builds the hypervisor's page tables, leaves the boot services and hands *)
(* the chainload page over.  Addresses are page numbers, sizes of files    *)
(* are counted in sectors.                                                 *)
(***************************************************************************)
EXTENDS PageWalk, Integers, Sequences, FiniteSetsExt, SequencesExt

CONSTANTS
    PageCount,      \* pages of physical memory
    FirstTypes,     \* memory map the firmware starts the bootloader with
    Splits,         \* pages where the firmware starts a new descriptor anyway
    EventPages,     \* pages the firmware's own events allocate and free
    MaxEvents,      \* bound: how often they do so
    FirstPolicy,    \* how AllocatePages places its blocks at first
    Policies,       \* and how it may come to place them
    MaxSwitches,    \* bound: how often AllocatePages changes its placement
    PageSectors,    \* sectors per page (8 in the code)
    FileSizes,      \* sizes of the attachment's file, in sectors
    PhysicalIndex,  \* PML4 entry of RKHV_PHYSICAL_MEMORY_BASE (2 of 512)
    MaxRegions,     \* RKHV_MAX_PAGE_TABLE_REGIONS
    MaxDescriptors, \* RKHV_MAX_EFI_MMAP_DESCRIPTORS
    Garbage         \* what the uninitialised mmap_size may hold

Page == 0 .. PageCount - 1
MemoryType == {"Conventional", "LoaderCode", "LoaderData", "BootServices", "Runtime", "Hole"}

ASSUME BootConstants ==
    /\ PageCount \in 1 .. EntrySpan(3)
    /\ FirstTypes \in [Page -> MemoryType]
    /\ Entries % 2 = 0 /\ PhysicalIndex \in 1 .. Entries - 3
    /\ FileSizes \subseteq Nat \ {0} /\ PageSectors \in Nat \ {0}
    /\ MaxRegions \in Nat /\ MaxDescriptors \in Nat /\ Garbage \in Nat
    /\ EventPages \subseteq Page
    /\ FirstPolicy \in Policies /\ Policies \subseteq {"low", "high", "sparse", "any"}

(* The memory map of the hypervisor: 1 MiB is half of what a table spans.  *)
SECTION_PAGES == Entries \div 2
RKHV_PHYSICAL_MEMORY_BASE == PhysicalIndex * EntrySpan(3)
RKHV_RX_BASE == (Entries - 2) * EntrySpan(3)

Section(base, type, perm) == [base |-> base, type |-> type, perm |-> perm]
Sections == <<
    Section(RKHV_RX_BASE, "LoaderCode", "RX"),
    Section(RKHV_RX_BASE + SECTION_PAGES, "LoaderData", "RO"),
    Section(RKHV_RX_BASE + 2 * SECTION_PAGES, "LoaderData", "RW"),
    Section(EntrySpan(4) - SECTION_PAGES, "LoaderData", "RW") >>   \* the stack

VARIABLES
    pc,      \* where efi_main is
    error,   \* the status it gave up with
    types,   \* the firmware's memory map, page by page
    fw,      \* the firmware: placement of pages, switches and events so far
    holds,   \* what the bootloader put in a page (kept for the properties)
    chain,   \* the chainload page, and where it is
    tables,  \* the contents of the page tables
    local,   \* variables of efi_main: section and page being mapped, pml4, pdpt
    mmap     \* mmap_size, whether desc_size is set, the buffer and its page,
             \* whether its key is current

bootVars == <<pc, error, types, fw, holds, chain, tables, local, mmap>>

NoChain == [page |-> 0, sections |-> <<>>, attachment |-> [at |-> 0, size |-> 0],
            regions |-> <<>>, usable |-> <<>>]
NoLocal == [section |-> 1, page |-> 0, pml4 |-> 0, pdpt |-> 0]
NoMmap == [size |-> 0, sized |-> FALSE, at |-> 0, descriptors |-> {}, current |-> FALSE]

Init ==
    /\ pc = "start" /\ error = "none"
    /\ types = FirstTypes
    /\ fw = [policy |-> FirstPolicy, switches |-> 0, events |-> 0]
    /\ holds = [p \in Page |-> "nothing"]
    /\ chain = NoChain /\ tables = <<>> /\ local = NoLocal /\ mmap = NoMmap

Span(at, n) == at .. at + n - 1

-----------------------------------------------------------------------------
(* The firmware (external).  AllocatePages takes the lowest or the highest *)
(* block that fits, leaves a page free above each block, or takes any      *)
(* block at all; which of them may change now and then.                    *)
Fitting(policy, n) ==
    LET m == IF policy = "sparse" THEN n + 1 ELSE n
    IN  {a \in Page : \A p \in Span(a, m) : p \in Page /\ types[p] = "Conventional"}

Placed(policy, n) ==
    LET fitting == Fitting(policy, n)
    IN  {a \in fitting : \A o \in fitting :
            /\ policy = "low" => a <= o
            /\ policy \in {"high", "sparse"} => o <= a}

Blocks(n) ==
    UNION {{[policy |-> q, at |-> a] : a \in Placed(q, n)} :
              q \in {q \in Policies : q = fw.policy \/ fw.switches < MaxSwitches}}

AllocatePages(b, n, type) ==
    /\ types' = [p \in Page |-> IF p \in Span(b.at, n) THEN type ELSE types[p]]
    /\ fw' = [fw EXCEPT !.policy = b.policy, !.switches = @ + (IF b.policy = fw.policy THEN 0 ELSE 1)]

Marked(at, n, role) == [p \in Page |-> IF p \in Span(at, n) THEN role ELSE holds[p]]

(* VERIFY_EFI: efi_main returns an error to the firmware.                  *)
Fail(status) ==
    /\ pc' = "failed" /\ error' = status
    /\ UNCHANGED <<types, fw, holds, chain, tables, local, mmap>>

(* A call to the firmware may fail, printing included, wherever efi_main   *)
(* looks at the status: the first GetMemoryMap ("size") is not verified,   *)
(* and a refused ExitBootServices ("exit") is repeated.                    *)
FirmwareError ==
    /\ pc \in {"start", "sections", "attachments", "pml4", "map", "pdpt", "pds", "level",
                "pool", "read", "retry"}
    /\ Fail("firmware")

-----------------------------------------------------------------------------
(* The chainload page is allocated and zeroed.                             *)
AllocateChainload ==
    /\ pc = "start"
    /\ \E b \in Blocks(1) :
          /\ AllocatePages(b, 1, "LoaderData")
          /\ holds' = Marked(b.at, 1, "chainload")
          /\ chain' = [NoChain EXCEPT !.page = b.at]
    /\ pc' = "sections"
    /\ UNCHANGED <<error, tables, local, mmap>>

(* One section, from its file or for the stack; the rest of it is zeroed.  *)
LoadSection ==
    /\ pc = "sections"
    /\ LET s == Len(chain.sections) + 1
       IN  /\ \E b \in Blocks(SECTION_PAGES) :
                 /\ AllocatePages(b, SECTION_PAGES, Sections[s].type)
                 /\ holds' = Marked(b.at, SECTION_PAGES, "section")
                 /\ chain' = [chain EXCEPT !.sections = Append(@, b.at)]
           /\ pc' = IF s = Len(Sections) THEN "attachments" ELSE "sections"
    /\ UNCHANGED <<error, tables, local, mmap>>

PagesOf(sectors) == (sectors \div PageSectors) + (IF sectors % PageSectors = 0 THEN 0 ELSE 1)

(* fs_read_attachment: Read may return less than the file's size.          *)
LoadAttachment ==
    /\ pc = "attachments"
    /\ \E size \in FileSizes : \E read \in {size - 1, size} : \E b \in Blocks(PagesOf(size)) :
          /\ AllocatePages(b, PagesOf(size), "LoaderData")
          /\ holds' = Marked(b.at, PagesOf(read), "attachment")
          /\ chain' = [chain EXCEPT !.attachment = [at |-> b.at, size |-> read]]
    /\ pc' = "pml4"
    /\ UNCHANGED <<error, tables, local, mmap>>

AttachmentNotFound ==
    /\ pc = "attachments"
    /\ pc' = "pml4"
    /\ UNCHANGED <<error, types, fw, holds, chain, tables, local, mmap>>
=============================================================================
