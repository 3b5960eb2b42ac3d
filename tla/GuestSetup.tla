----------------------------- MODULE GuestSetup -----------------------------
(***************************************************************************)
(* What hvmain puts in the memory of a new guest: identity page tables at  *)
(* its top (vm_guest_paging_setup_identity), then either the Linux image   *)
(* of the attachment (vm_guest_linux_loader) or the code of the hello      *)
(* world guest.  Addresses are guest physical pages, sizes are sectors.    *)
(***************************************************************************)
EXTENDS PageWalk, Integers

CONSTANTS
    GuestPages,     \* guest_physical_pages (64 MiB)
    PreferredPage,  \* 0x1000000 / PAGE_SIZE, the pref_address of modern kernels
    CodePage,       \* page of 0x7c00
    PageSectors,    \* sectors of 512 bytes per page
    SizeValues,     \* a size_t counts modulo this
    Headers         \* setup headers an image may start with

VARIABLES
    stage,  \* how far hvmain is
    image,  \* size of the Linux image, 0 without one, and its header
    mem,    \* the guest's memory
    vm      \* pages used by the setup, initial registers of the guest

GuestPage == 0 .. GuestPages - 1

(* What a page holds: entries of a table, a page of the kernel, a pointer. *)
Holding(kind, n) == [kind |-> kind, n |-> n, entries |-> Zeroed]
TablePage(entries) == [kind |-> "table", n |-> 0, entries |-> entries]

NoHeader == [magic |-> FALSE, kernel64 |-> FALSE, cmdlineFits |-> FALSE, aligned |-> FALSE,
             setup_sects |-> 0, pref |-> 0]

NoAddress == -1     \* a register of the guest that is not set yet

Init ==
    /\ stage = "off"
    /\ image = [size |-> 0, header |-> NoHeader]
    /\ mem = [p \in GuestPage |-> Holding("nothing", 0)]
    /\ vm = [used |-> 0, cr3 |-> NoAddress, rip |-> NoAddress, rsi |-> NoAddress]

Panic == stage' = "panic" /\ UNCHANGED <<image, mem, vm>>

(* vmx_ept_get_host_physical_address: the EPT maps the guest's pages and   *)
(* nothing else (EptExact of HostMemory).                                  *)
EptMapped(page) == page \in GuestPage

-----------------------------------------------------------------------------
(* mm_get_attachment: an attachment without contents counts as missing.    *)
GetAttachment(size) ==
    /\ stage = "off"
    /\ stage' = "identity"
    /\ image' = [image EXCEPT !.size = size]
    /\ UNCHANGED <<mem, vm>>

(* vm_guest_paging_setup_identity: the PML4 is the guest's last page, the  *)
(* PDPT the one below, the PDs the Entries pages below that.  The Linux    *)
(* loader wants no tables before it makes its own.                         *)

(* Mutation: the PDs start one page too high.                              *)
PdPage_OneHigh(pdpt, i) == pdpt - i

PdPage(pdpt, i) == pdpt - (i + 1)

IdentityPd(i) == [j \in Index |-> Large((i * Entries + j) * Entries, "RWX")]

SetupIdentity ==
    /\ stage = "identity"
    /\ LET pml4 == GuestPages - 1
           pdpt == pml4 - 1
           pds == {PdPage(pdpt, i) : i \in Index}
           root == TablePage([Zeroed EXCEPT ![0] = Table(pdpt)])
           directory == TablePage([i \in Index |-> Table(PdPage(pdpt, i))])
           leaves == [p \in pds |-> TablePage(IdentityPd(CHOOSE i \in Index : PdPage(pdpt, i) = p))]
       IN  IF \/ image.size > 0 /\ vm.cr3 # NoAddress
              \/ vm.used # 0
              \/ \E p \in pds \cup {pdpt, pml4} : ~EptMapped(p)
           THEN Panic
           ELSE /\ mem' = Store(Store(StoreAll(mem, leaves), pdpt, directory), pml4, root)
                /\ vm' = [vm EXCEPT !.used = Entries + 2, !.cr3 = pml4]
                /\ stage' = IF image.size > 0 THEN "linux" ELSE "hello"
                /\ UNCHANGED image

-----------------------------------------------------------------------------
(* vm_guest_linux_loader, after the tables: the page of boot_params (the   *)
(* zeropage) and the one of the command line go below them.                *)
ZeroPage == GuestPages - vm.used - 1
CmdlinePage == ZeroPage - 1

(* Mutation: the pages used at the top are not taken off.                  *)
EnoughMemory_Top(size) ==
    /\ GuestPages > PreferredPage
    /\ (GuestPages - PreferredPage) % SizeValues > size \div PageSectors

EnoughMemory(size) ==
    /\ GuestPages > PreferredPage
    /\ (GuestPages - (vm.used + 2) - PreferredPage) % SizeValues > size \div PageSectors

(* Sizes of the protected-mode kernel; the subtraction is unsigned.        *)
KernelSize(size, setup_sects) ==
    (size - ((IF setup_sects = 0 THEN 4 ELSE setup_sects) + 1)) % SizeValues
KernelPages(size, setup_sects) ==
    LET s == KernelSize(size, setup_sects)
    IN  (s \div PageSectors) + (IF s % PageSectors = 0 THEN 0 ELSE 1)

(* The kernel is copied page by page; the first page the EPT does not map  *)
(* is a panic.                                                             *)
LoaderAccepts(h) ==
    /\ h.magic /\ h.kernel64
    /\ EptMapped(ZeroPage) /\ EptMapped(CmdlinePage)
    /\ EnoughMemory(image.size)
    /\ h.cmdlineFits /\ h.aligned
    /\ \A k \in 0 .. KernelPages(image.size, h.setup_sects) - 1 : EptMapped(h.pref + k)

LoadLinux ==
    /\ stage = "linux"
    /\ \E h \in Headers :
          /\ LoaderAccepts(h)
          /\ image' = [image EXCEPT !.header = h]
          /\ LET kernel == h.pref .. h.pref + KernelPages(image.size, h.setup_sects) - 1
                 top == Store(Store(mem, ZeroPage, Holding("zeropage", CmdlinePage)),
                              CmdlinePage, Holding("cmdline", 0))
             IN  mem' = StoreAll(top, [p \in kernel |-> Holding("kernel", p - h.pref)])
          /\ vm' = [vm EXCEPT !.used = @ + 2, !.rip = h.pref, !.rsi = ZeroPage]
    /\ stage' = "launch"

LoaderPanics ==
    /\ stage = "linux"
    /\ \E h \in Headers : ~LoaderAccepts(h)
    /\ Panic

(* The hello world guest of hvmain.                                        *)
CopyHelloWorld ==
    /\ stage = "hello"
    /\ IF ~EptMapped(CodePage) THEN Panic
       ELSE /\ mem' = [mem EXCEPT ![CodePage] = Holding("code", 0)]
            /\ vm' = [vm EXCEPT !.rip = CodePage]
            /\ stage' = "launch"
            /\ UNCHANGED image

GuestStep == SetupIdentity \/ LoadLinux \/ LoaderPanics \/ CopyHelloWorld

-----------------------------------------------------------------------------
(* vm_guest_paging_get_guest_physical_address: every table is reached      *)
(* through the EPT.                                                        *)
ReadGuest == [p \in GuestPage |-> mem[p].entries]
GuestPhysical(la) == Walk(ReadGuest, vm.cr3, la)
=============================================================================
