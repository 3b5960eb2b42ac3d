------------------------------ MODULE Startup ------------------------------
(***************************************************************************)
(* From the firmware to the launch of a guest: the bootloader (Boot,       *)
(* BootPaging, BootExit), then hvmain filling the guest's memory           *)
(* (GuestSetup).  What hvmain does to the host's memory in between is      *)
(* HostMemory's subject.                                                   *)
(***************************************************************************)
EXTENDS BootExit

CONSTANTS GuestPages, PreferredPage, CodePage, SizeValues, Headers

ASSUME GuestConstants ==
    /\ GuestPages \in Nat /\ PreferredPage \in Nat /\ CodePage \in Nat
    /\ PreferredPage + Entries + 4 < GuestPages     \* 4096 + 516 < 16384
    /\ CodePage < PreferredPage
    /\ GuestPages <= EntrySpan(3)                   \* 512 GiB
    /\ SizeValues \in Nat
    /\ \A h \in Headers :
          /\ h.pref \in Nat /\ h.setup_sects \in Nat
          /\ GuestPages * PageSectors + h.setup_sects + 5 < SizeValues

VARIABLES stage, image, mem, vm

Guest == INSTANCE GuestSetup

guestVars == <<stage, image, mem, vm>>
vars == <<bootVars, guestVars>>

StartupInit == Init /\ Guest!Init

BootPhase == BootStep /\ UNCHANGED guestVars

(* hvmain is entered: the variables of the bootloader and the firmware's   *)
(* are gone, only the attachment goes on.                                  *)
HvMain ==
    /\ pc = "hvmain"
    /\ Guest!GetAttachment(chain.attachment.size)
    /\ pc' = "entered"
    /\ types' = FirstTypes /\ fw' = [policy |-> FirstPolicy, switches |-> 0, events |-> 0]
    /\ holds' = [p \in Page |-> "nothing"]
    /\ chain' = NoChain /\ tables' = <<>> /\ local' = NoLocal /\ mmap' = NoMmap
    /\ UNCHANGED error

GuestPhase == Guest!GuestStep /\ UNCHANGED bootVars

(* The bootloader has returned to the firmware, the hypervisor has halted, *)
(* or the guest is being launched (WorldSwitch).                           *)
Ended == pc = "failed" \/ stage \in {"panic", "launch"}

Step == BootPhase \/ HvMain \/ GuestPhase

StartupNext ==
    \/ Step
    \/ FirmwareEvent /\ UNCHANGED guestVars
    \/ Ended /\ UNCHANGED vars

(* The bootloader and the hypervisor run alone; only the firmware's events *)
(* come from outside, and there are finitely many.                         *)
StartupSpec == StartupInit /\ [][StartupNext]_vars /\ WF_vars(Step)
-----------------------------------------------------------------------------
(* The two tables of the chainload page keep their capacity (the memory    *)
(* map is cut short, the regions are an error), the bootloader's tables    *)
(* are pages of the machine, the loaders write inside the guest's memory.  *)
TypeOK ==
    /\ types \in [Page -> MemoryType]
    /\ error \in {"none", "firmware", "level", "map", "EFI_BUFFER_TOO_SMALL", "EFI_UNSUPPORTED", "EFI_OUT_OF_RESOURCES"}
    /\ Len(chain.regions) <= MaxRegions /\ Len(chain.usable) <= MaxDescriptors
    /\ DOMAIN tables \subseteq Page
    /\ DOMAIN mem = 0 .. GuestPages - 1
    /\ vm.used \in 0 .. Entries + 4

(* What mm_page_used_by_chainload answers once mm_setup has the page.      *)

(* Mutation: the last page of an attachment that it does not fill is lost. *)
UsedByChainload_RoundsDown(p) ==
    \/ p = chain.page
    \/ \E s \in DOMAIN chain.sections : p \in Span(chain.sections[s], SECTION_PAGES)
    \/ p \in Span(chain.attachment.at, chain.attachment.size \div PageSectors)
    \/ \E r \in DOMAIN chain.regions : p \in Span(chain.regions[r].at, chain.regions[r].pages)

UsedByChainload(p) ==
    \/ p = chain.page
    \/ \E s \in DOMAIN chain.sections : p \in Span(chain.sections[s], SECTION_PAGES)
    \/ p \in Span(chain.attachment.at, PagesOf(chain.attachment.size))
    \/ \E r \in DOMAIN chain.regions : p \in Span(chain.regions[r].at, chain.regions[r].pages)

(* Pages a descriptor of the chainload page offers to mm_get_free_page.    *)
Offered == UNION {Span(d.at, d.pages) : d \in {d \in Range(chain.usable) : d.usable}}

(* The hypervisor never takes a page that still holds its own code, stack, *)
(* page tables, chainload page or attachment: whatever placement the       *)
(* firmware chose, mm_page_used_by_chainload knows each such page that the *)
(* merged memory map offers.                                               *)
NothingNeededIsFree ==
    pc = "hvmain" => \A p \in Offered : holds[p] # "nothing" => UsedByChainload(p)

(* The merged map is the firmware's map as it is when the boot services    *)
(* end: nothing of the firmware's is offered, no hole either, and unless   *)
(* the table is full nothing usable is lost.                               *)
OfferedIsUsable ==
    pc = "hvmain" =>
        /\ \A p \in Offered : p \in Page /\ Usable(types[p])
        /\ Len(chain.usable) < MaxDescriptors => \A p \in Page : Usable(types[p]) => p \in Offered

(* The regions of the chainload page are the page-table pages, each of     *)
(* them in one region, at every moment of the collapsing.                  *)
RegionsExact ==
    pc # "entered" =>
        /\ \A p \in Page : (holds[p] = "table") <=>
              \E i \in DOMAIN chain.regions : p \in Span(chain.regions[i].at, chain.regions[i].pages)
        /\ \A i, j \in DOMAIN chain.regions : i # j =>
              Span(chain.regions[i].at, chain.regions[i].pages)
                  \cap Span(chain.regions[j].at, chain.regions[j].pages) = {}

(* The mapping of memory_map.h at a linear page.                           *)
Promised(la) ==
    LET inSection == {s \in DOMAIN Sections : la \in Span(Sections[s].base, SECTION_PAGES)}
    IN  IF inSection # {}
        THEN LET s == CHOOSE s \in inSection : TRUE
             IN  Leaf(chain.sections[s] + la - Sections[s].base, Sections[s].perm)
        ELSE IF la \in Span(RKHV_PHYSICAL_MEMORY_BASE, EntrySpan(3))
        THEN Large(la - RKHV_PHYSICAL_MEMORY_BASE, "RWX")
        ELSE Absent

(* The tables in physical memory, with what other pages may hold.          *)
AllEntries == [p \in Page |-> [i \in Index |-> ReadEntry(p, i)]]

(* The hypervisor starts in exactly the address space of memory_map.h:     *)
(* each section at its address with its permission, all of the physical    *)
(* memory at RKHV_PHYSICAL_MEMORY_BASE, and nothing anywhere else.         *)
AddressSpaceExact ==
    pc = "hvmain" => \A la \in 0 .. EntrySpan(4) - 1 : Walk(AllEntries, local.pml4, la) = Promised(la)

(* Booting fails only because the firmware does: the table of regions is   *)
(* large enough for any placement of the tables ("let's hope the EFI is    *)
(* nice when allocating pages"), and paging_map_page never meets a page    *)
(* that is mapped already.                                                 *)
OnlyFirmwareFails == error \in {"none", "firmware", "level", "map"}

(* The 4 spare descriptors ("to be safe as they can be used by the         *)
(* following AllocatePool") leave room for more than the buffer itself: a  *)
(* map that has outgrown the buffer, which is the end of booting, takes    *)
(* more than one event of the firmware, unless desc_size was never set.    *)
SpareSuffices == error = "map" /\ mmap.sized => fw.events > 1

-----------------------------------------------------------------------------
(* The kernel goes where rkhv's memory layout expects it.                  *)
AsExpected == image.header.pref = PreferredPage

(* The real-mode part of the image, with the boot sector.                  *)
SetupSectors == (IF image.header.setup_sects = 0 THEN 4 ELSE image.header.setup_sects) + 1

(* A guest is launched with every page of its memory mapped to itself,     *)
(* after all of the loader's writes; a kernel at an address the loader     *)
(* does not expect may overwrite the tables.                               *)
IdentityMapped ==
    stage = "launch" /\ (vm.rip = CodePage \/ AsExpected) =>
        \A la \in 0 .. GuestPages - 1 : Guest!GuestPhysical(la) = Large(la, "RWX")

(* A Linux guest is launched with its whole kernel, boot_params and        *)
(* command line in place, an image shorter than its own setup never.       *)
LinuxReady ==
    stage = "launch" /\ vm.rip # CodePage /\ AsExpected =>
        /\ image.size >= SetupSectors
        /\ \A k \in 0 .. GuestPages : k * PageSectors < image.size - SetupSectors =>
              PreferredPage + k < GuestPages /\ mem[PreferredPage + k] = Guest!Holding("kernel", k)
        /\ mem[vm.rsi].kind = "zeropage"
        /\ mem[mem[vm.rsi].n].kind = "cmdline"

(* Starting up ends, however often the firmware changes its memory map     *)
(* under the bootloader: every refused ExitBootServices is followed by one *)
(* with the map read again.                                                *)
StartupEnds == <>Ended
=============================================================================
