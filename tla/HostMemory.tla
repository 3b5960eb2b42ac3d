----------------------------- MODULE HostMemory -----------------------------
(***************************************************************************)
(* The physical memory of the host while the hypervisor sets up its        *)
(* virtual machines: mm_get_free_page and the predicates it asks, the      *)
(* arenas, the VMX pages, vm_manager_allocate_guest_physical_memory with   *)
(* its reserved pool, vmx_ept_map_page and vmx_create_initialized_vmcs.    *)
(* The calls are those of hvmain (hv/src/main.c), for several machines.    *)
(*                                                                         *)
(* mm_get_free_page is atomic here, as FreePageScan shows it to behave: it *)
(* returns the first unused page from the one it returned last, in scan    *)
(* order.  A page is its physical address divided by PAGE_SIZE.            *)
(***************************************************************************)
EXTENDS PageList

CONSTANTS
    ScanOrder,   \* the usable pages in the order the scan meets them
    Chainloads,  \* the sets of pages the bootloader may have left in use
    Vm,          \* the virtual machines
    NoVm,        \* none of them
    GuestSizes,  \* the guest memory sizes, in pages
    Entries,     \* PAGE_TABLE_ENTRIES
    MaxDevices,  \* devices registered in total
    ArenaSize, VmSize, NodeSize, DeviceSize  \* bytes of an arena, of a vm_t, ...

Usable == {ScanOrder[i] : i \in DOMAIN ScanOrder}
Page == Usable \cup UNION Chainloads

(* Not a page: an unset address, a not-present entry, and whatever an      *)
(* entry of a page holds that nobody cleared.                              *)
NoPage == -1
Junk == -2

(* The guest pages under a page (level 0), a page table (level 1) and so   *)
(* on up to the whole EPT (level 4).                                       *)
EptSpan(level) ==
    CASE level = 0 -> 1
      [] level = 1 -> Entries
      [] level = 2 -> Entries * Entries
      [] level = 3 -> Entries * Entries * Entries
      [] level = 4 -> Entries * Entries * Entries * Entries

(* A machine is never larger than what its EPT can map.                    *)
ASSUME HostConstants ==
    /\ ScanOrder \in Seq(Nat)
    /\ \A i, j \in DOMAIN ScanOrder : ScanOrder[i] = ScanOrder[j] => i = j
    /\ \A c \in Chainloads : c \subseteq Nat
    /\ NoVm \notin Vm
    /\ Entries \in Nat \ {0, 1}
    /\ GuestSizes \subseteq 0 .. EptSpan(4)
    /\ {MaxDevices, ArenaSize, VmSize, NodeSize, DeviceSize} \subseteq Nat

VARIABLES
    chainload,    \* pages claimed by mm_page_used_by_chainload
    cursor,       \* index in ScanOrder of the page returned last, 0 before
    arenas,       \* arenas[a]: page and used_size of an arena
    vmxon,        \* vmxon_region, NoPage while invalid
    bitmaps,      \* msr_bitmaps_page, NoPage while invalid
    content,      \* content[p]: what the page was last given a content as
    entry,        \* entry[p]: the page seen as a table
    vms,          \* vms[v]: created, guest_physical_pages, eptp, vmcs_region, flags
    tracked,      \* tracked[v]: vm->tracked_pages
    devices,      \* number of devices created
    task,         \* the call in progress and its local variables
    panic,        \* "none" or the reason the hypervisor halted
    running       \* vm_manager_current_vm once launched

memory == <<content, entry>>
vars == <<chainload, cursor, arenas, vmxon, bitmaps, content, entry, vms,
          tracked, devices, task, panic, running>>

Idle == [pc |-> "idle", vm |-> NoVm, left |-> 0, gpa |-> 0,
         hand |-> NoPage, hpa |-> NoPage, table |-> NoPage, level |-> 0]

ArenaNames == {"vm_manager", "devices"}

Init ==
    /\ chainload \in Chainloads
    /\ cursor = 0
    /\ arenas = [a \in ArenaNames |-> [page |-> NoPage, used_size |-> 0]]
    /\ vmxon = NoPage
    /\ bitmaps = NoPage
    /\ content = [p \in Page |-> "unknown"]
    /\ entry = [p \in Page |-> [i \in 0 .. Entries - 1 |-> Junk]]
    /\ vms = [v \in Vm |-> [created |-> FALSE, guest_physical_pages |-> 0, eptp |-> NoPage,
                            vmcs_region |-> NoPage, vmcs_initialized |-> FALSE]]
    /\ tracked = [v \in Vm |-> <<>>]
    /\ devices = 0
    /\ task = Idle
    /\ panic = "none"
    /\ running = NoVm

Ready == panic = "none" /\ running = NoVm

-----------------------------------------------------------------------------
(* mm_page_is_free asks four predicates.                                   *)
UsedByArena == {arenas[a].page : a \in ArenaNames}
UsedByVmx == {vmxon, bitmaps}

(* Mutation: the VMCS regions are not looked at.                           *)
UsedByVmManager_NoVmcs == UNION {ListUses(tracked[v], Page) : v \in Vm}

UsedByVmManager ==
    {vms[v].vmcs_region : v \in {w \in Vm : vms[w].vmcs_initialized}}
        \cup UNION {ListUses(tracked[v], Page) : v \in Vm}

UsedPages == chainload \cup UsedByArena \cup UsedByVmx \cup UsedByVmManager

FreeSlots ==
    LET used == UsedPages IN {i \in DOMAIN ScanOrder : ScanOrder[i] \notin used}

(* mm_get_free_page(): the slot of the page it returns, as a set that is   *)
(* empty when there is none.  The scan starts at the page returned last,   *)
(* that page included.                                                     *)
FoundSlot ==
    LET free == FreeSlots
        ahead == {i \in free : i >= cursor}
    IN  CASE ahead # {} -> {Min(ahead)}
          [] ahead = {} /\ free # {} -> {Min(free)}
          [] free = {} -> {}

Cleared == [i \in 0 .. Entries - 1 |-> NoPage]

(* Giving a page another content than a table leaves it no entries that    *)
(* make sense.                                                             *)
Overwrite(p, what) ==
    /\ content' = [content EXCEPT ![p] = what]
    /\ entry' = [entry EXCEPT ![p] = [i \in 0 .. Entries - 1 |-> Junk]]

(* Mutation: memset(page, 0, PAGE_SIZE) is forgotten.                      *)
ZeroPage_Forgotten(p, what) ==
    /\ content' = [content EXCEPT ![p] = what]
    /\ UNCHANGED entry

ZeroPage(p, what) ==
    /\ content' = [content EXCEPT ![p] = what]
    /\ entry' = [entry EXCEPT ![p] = Cleared]

-----------------------------------------------------------------------------
(* arena_create, when the static pointer of the caller is still NULL, then *)
(* arena_allocate.                                                         *)

(* Mutation: the size of the new object is left out of the comparison.     *)
Fits_IgnoresSize(a, size) == arenas[a].used_size < ArenaSize

Fits(a, size) == arenas[a].used_size + size <= ArenaSize

ArenaAllocate(a, size) ==
    IF arenas[a].page = NoPage
    THEN \E slot \in FoundSlot :
            /\ cursor' = slot
            /\ arenas' = [arenas EXCEPT ![a] = [page |-> ScanOrder[slot], used_size |-> size]]
            /\ Overwrite(ScanOrder[slot], "arena")
    ELSE /\ arenas' = [arenas EXCEPT ![a].used_size = @ + size]
         /\ UNCHANGED <<cursor, memory>>

(* vmx_setup: vmx_get_vmxon_region writes the revision identifier.         *)
VmxSetup ==
    /\ Ready /\ vmxon = NoPage
    /\ \E slot \in FoundSlot :
          /\ cursor' = slot
          /\ vmxon' = ScanOrder[slot]
          /\ Overwrite(ScanOrder[slot], "vmxon")
    /\ UNCHANGED <<chainload, arenas, bitmaps, vms, tracked, devices, task, panic, running>>

(* The processor lacks what vmx_setup needs, or VMXON fails.               *)
VmxSetupFails ==
    /\ Ready /\ vmxon = NoPage
    /\ panic' = "vmx unsupported"
    /\ UNCHANGED <<chainload, cursor, arenas, vmxon, bitmaps, memory, vms, tracked, devices, task, running>>

(* vm_manager_create_vmx_machine                                           *)
WantsVm(v) == Ready /\ task = Idle /\ vmxon # NoPage /\ ~vms[v].created

CreateVm(v) ==
    /\ WantsVm(v)
    /\ Fits("vm_manager", VmSize)
    /\ ArenaAllocate("vm_manager", VmSize)
    /\ vms' = [vms EXCEPT ![v].created = TRUE]
    /\ UNCHANGED <<chainload, vmxon, bitmaps, tracked, devices, task, panic, running>>

-----------------------------------------------------------------------------
(* vm_manager_allocate_guest_physical_memory                               *)

(* Mutation: an exact quotient is rounded up too.                          *)
CeilDiv_PlusOne(a, b) == (a \div b) + 1

CeilDiv(a, b) == (a \div b) + (IF a % b = 0 THEN 0 ELSE 1)

EptPages(pages) ==
    LET pt == CeilDiv(pages, Entries)
        pd == CeilDiv(pt, Entries)
        pdpt == CeilDiv(pd, Entries)
        pml4 == CeilDiv(pdpt, Entries)
    IN  pt + pd + pdpt + pml4

AllocateGuestMemory(v, pages) ==
    /\ Ready /\ task = Idle
    /\ vms[v].created /\ vms[v].guest_physical_pages = 0
    /\ vms' = [vms EXCEPT ![v].guest_physical_pages = pages]
    /\ task' = [Idle EXCEPT !.pc = "reserve", !.vm = v, !.left = EptPages(pages)]
    /\ UNCHANGED <<chainload, cursor, arenas, vmxon, bitmaps, memory, tracked, devices, panic, running>>

(* PANIC("Reallocating guest physical memory ...")                         *)
AllocateAgain(v) ==
    /\ Ready /\ task = Idle
    /\ vms[v].guest_physical_pages # 0
    /\ panic' = "reallocation"
    /\ UNCHANGED <<chainload, cursor, arenas, vmxon, bitmaps, memory, vms, tracked, devices, task, running>>

(* vmx_get_free_ept_page for the reserved pool.                            *)
ReserveTake ==
    /\ Ready /\ task.pc = "reserve" /\ task.left > 0
    /\ \E slot \in FoundSlot :
          /\ cursor' = slot
          /\ ZeroPage(ScanOrder[slot], "table")
          /\ task' = [task EXCEPT !.pc = "reserve_track", !.hand = ScanOrder[slot]]
    /\ UNCHANGED <<chainload, arenas, vmxon, bitmaps, vms, tracked, devices, panic, running>>

(* vm_manager_get_free_guest_physical_page                                 *)
GuestTake ==
    /\ Ready /\ task.pc = "guest" /\ task.gpa < vms[task.vm].guest_physical_pages
    /\ \E slot \in FoundSlot :
          /\ cursor' = slot
          /\ ZeroPage(ScanOrder[slot], "guest")
          /\ task' = [task EXCEPT !.pc = "guest_track", !.hand = ScanOrder[slot]]
    /\ UNCHANGED <<chainload, arenas, vmxon, bitmaps, vms, tracked, devices, panic, running>>

(* vm_manager_track_page of the page in hand, which may allocate a node.   *)
TrackKind ==
    CASE task.pc = "reserve_track" -> <<"EPT", 1>>
      [] task.pc = "guest_track" -> <<"GUEST_PHYSICAL", 0>>
      [] task.pc = "table_track" -> <<"EPT", 0>>

Tracking == task.pc \in {"reserve_track", "guest_track", "table_track"}

AllocatesNode == NeedsNode(tracked[task.vm], task.hand, TrackKind[1], TrackKind[2])

Track ==
    /\ Ready /\ Tracking
    /\ AllocatesNode => Fits("vm_manager", NodeSize)
    /\ tracked' = [tracked EXCEPT ![task.vm] = TrackPage(@, task.hand, TrackKind[1], TrackKind[2])]
    /\ arenas' = IF AllocatesNode
                 THEN [arenas EXCEPT !["vm_manager"].used_size = @ + NodeSize] ELSE arenas
    /\ UNCHANGED <<chainload, cursor, vmxon, bitmaps, devices, panic, running>>

ReserveTrack ==
    /\ task.pc = "reserve_track"
    /\ Track
    /\ task' = [task EXCEPT !.pc = "reserve", !.left = @ - 1, !.hand = NoPage]
    /\ UNCHANGED <<memory, vms>>

ReserveDone ==
    /\ Ready /\ task.pc = "reserve" /\ task.left = 0
    /\ task' = [task EXCEPT !.pc = "guest"]
    /\ UNCHANGED <<chainload, cursor, arenas, vmxon, bitmaps, memory, vms, tracked, devices, panic, running>>

GuestTrack ==
    /\ task.pc = "guest_track"
    /\ Track
    /\ task' = [task EXCEPT !.pc = "map", !.hpa = task.hand, !.hand = NoPage,
                            !.table = NoPage, !.level = 5]
    /\ UNCHANGED <<memory, vms>>

GuestDone ==
    /\ Ready /\ task.pc = "guest" /\ task.gpa = vms[task.vm].guest_physical_pages
    /\ task' = Idle
    /\ UNCHANGED <<chainload, cursor, arenas, vmxon, bitmaps, memory, vms, tracked, devices, panic, running>>

-----------------------------------------------------------------------------
(* vmx_ept_map_page: from the EPT pointer (level 5) down to the page table *)
(* (level 1); level l of the walk reads entry EptIndex(gpa, l).            *)

(* Mutation: two levels take their index from the same address bits.       *)
EptIndex_SameBits(gpa, level) ==
    (gpa \div EptSpan((IF level = 4 THEN 3 ELSE level) - 1)) % Entries

EptIndex(gpa, level) == (gpa \div EptSpan(level - 1)) % Entries

NextTable ==
    IF task.level = 5 THEN vms[task.vm].eptp ELSE entry[task.table][EptIndex(task.gpa, task.level)]

(* Mutation: the walk reads the next table but stays on its level.         *)
MapDescend_SameLevel ==
    /\ Ready /\ task.pc = "map" /\ task.level > 1
    /\ NextTable # NoPage
    /\ task' = [task EXCEPT !.table = NextTable]
    /\ UNCHANGED <<chainload, cursor, arenas, vmxon, bitmaps, memory, vms, tracked, devices, panic, running>>

MapDescend ==
    /\ Ready /\ task.pc = "map" /\ task.level > 1
    /\ NextTable # NoPage
    /\ task' = [task EXCEPT !.table = NextTable, !.level = @ - 1]
    /\ UNCHANGED <<chainload, cursor, arenas, vmxon, bitmaps, memory, vms, tracked, devices, panic, running>>

(* A table is missing: one is taken out of the reserved pool.  The pool is *)
(* never dry (PoolExact), so that vmx_get_free_ept_page is not reached.    *)
MapTakeTable ==
    /\ Ready /\ task.pc = "map" /\ task.level > 1
    /\ NextTable = NoPage
    /\ NodesOf(tracked[task.vm], "EPT", 1) # {}
    /\ task' = [task EXCEPT !.pc = "table_track", !.hand = UntrackedPage(tracked[task.vm], "EPT")]
    /\ tracked' = [tracked EXCEPT ![task.vm] = UntrackPage(@, "EPT")]
    /\ UNCHANGED <<chainload, cursor, arenas, vmxon, bitmaps, memory, vms, devices, panic, running>>

MapLinkTable ==
    /\ task.pc = "table_track"
    /\ Track
    /\ IF task.level = 5
       THEN /\ vms' = [vms EXCEPT ![task.vm].eptp = task.hand]
            /\ UNCHANGED memory
       ELSE /\ entry' = [entry EXCEPT ![task.table][EptIndex(task.gpa, task.level)] = task.hand]
            /\ UNCHANGED <<content, vms>>
    /\ task' = [task EXCEPT !.pc = "map", !.table = task.hand, !.hand = NoPage, !.level = @ - 1]

(* The entry of the page table; a present one would be a panic (NoRemap).  *)
MapLeaf ==
    /\ Ready /\ task.pc = "map" /\ task.level = 1
    /\ NextTable = NoPage
    /\ entry' = [entry EXCEPT ![task.table][EptIndex(task.gpa, 1)] = task.hpa]
    /\ task' = [task EXCEPT !.pc = "guest", !.gpa = @ + 1, !.hpa = NoPage,
                            !.table = NoPage, !.level = 0]
    /\ UNCHANGED <<chainload, cursor, arenas, vmxon, bitmaps, content, vms, tracked, devices, panic, running>>

-----------------------------------------------------------------------------
(* vmx_create_initialized_vmcs: the region is taken and made current, then *)
(* the table of fields asks for the MSR bitmaps, and the flag that makes   *)
(* mm_page_used_by_vm_manager claim the region is set last.                *)
WantsVmcs(v) ==
    Ready /\ task = Idle /\ vms[v].guest_physical_pages # 0 /\ ~vms[v].vmcs_initialized

CreateVmcs(v) ==
    /\ WantsVmcs(v)
    /\ \E slot \in FoundSlot :
          /\ cursor' = slot
          /\ Overwrite(ScanOrder[slot], "vmcs")
          /\ vms' = [vms EXCEPT ![v].vmcs_region = ScanOrder[slot]]
    /\ task' = [Idle EXCEPT !.pc = "vmcs", !.vm = v]
    /\ UNCHANGED <<chainload, arenas, vmxon, bitmaps, tracked, devices, panic, running>>

(* PANIC("Trying to reinitialize an already initialized VMCS")             *)
CreateVmcsAgain(v) ==
    /\ Ready /\ task = Idle /\ vms[v].vmcs_initialized
    /\ panic' = "vmcs reinitialized"
    /\ UNCHANGED <<chainload, cursor, arenas, vmxon, bitmaps, memory, vms, tracked, devices, task, running>>

VmcsTakeBitmaps ==
    /\ Ready /\ task.pc = "vmcs" /\ bitmaps = NoPage
    /\ \E slot \in FoundSlot :
          /\ cursor' = slot
          /\ bitmaps' = ScanOrder[slot]
          /\ Overwrite(ScanOrder[slot], "bitmaps")
    /\ UNCHANGED <<chainload, arenas, vmxon, vms, tracked, devices, task, panic, running>>

VmcsFinish ==
    /\ Ready /\ task.pc = "vmcs" /\ bitmaps # NoPage
    /\ vms' = [vms EXCEPT ![task.vm].vmcs_initialized = TRUE]
    /\ task' = Idle
    /\ UNCHANGED <<chainload, cursor, arenas, vmxon, bitmaps, memory, tracked, devices, panic, running>>

(* VMCLEAR, VMPTRLD or a VMWRITE fails: VMX_ASSERT panics.                 *)
VmcsFails ==
    /\ Ready /\ task.pc = "vmcs"
    /\ panic' = "vmx_assert"
    /\ UNCHANGED <<chainload, cursor, arenas, vmxon, bitmaps, memory, vms, tracked, devices, task, running>>

(* vmd_8250uart_create: the device and its data, in the arena of devices.  *)
WantsDevice ==
    Ready /\ task = Idle /\ devices < MaxDevices /\ \E v \in Vm : vms[v].vmcs_initialized

CreateDevice ==
    /\ WantsDevice
    /\ Fits("devices", DeviceSize)
    /\ ArenaAllocate("devices", DeviceSize)
    /\ devices' = devices + 1
    /\ UNCHANGED <<chainload, vmxon, bitmaps, vms, tracked, task, panic, running>>

(* vm_manager_launch.  VMPTRLD checks the revision identifier in the VMCS  *)
(* region; a processor that keeps the current VMCS cached may not.         *)
Launch(v) ==
    /\ Ready /\ task = Idle /\ vms[v].vmcs_initialized
    /\ running' = v
    /\ UNCHANGED <<chainload, cursor, arenas, vmxon, bitmaps, memory, vms, tracked, devices, task, panic>>

LaunchFails(v) ==
    /\ Ready /\ task = Idle /\ vms[v].vmcs_initialized
    /\ content[vms[v].vmcs_region] # "vmcs"
    /\ panic' = "vmptrld"
    /\ UNCHANGED <<chainload, cursor, arenas, vmxon, bitmaps, memory, vms, tracked, devices, task, running>>

-----------------------------------------------------------------------------
(* The two panics of the allocators.                                       *)
OutOfMemory ==
    /\ Ready /\ FoundSlot = {}
    /\ \/ vmxon = NoPage
       \/ arenas["vm_manager"].page = NoPage /\ \E v \in Vm : WantsVm(v)
       \/ task.pc = "reserve" /\ task.left > 0
       \/ task.pc = "guest" /\ task.gpa < vms[task.vm].guest_physical_pages
       \/ \E v \in Vm : WantsVmcs(v)
       \/ task.pc = "vmcs" /\ bitmaps = NoPage
       \/ arenas["devices"].page = NoPage /\ WantsDevice
    /\ panic' = "oom"
    /\ UNCHANGED <<chainload, cursor, arenas, vmxon, bitmaps, memory, vms, tracked, devices, task, running>>

ArenaFull ==
    /\ Ready
    /\ \/ ~Fits("vm_manager", VmSize) /\ \E v \in Vm : WantsVm(v)
       \/ Tracking /\ AllocatesNode /\ ~Fits("vm_manager", NodeSize)
       \/ ~Fits("devices", DeviceSize) /\ WantsDevice
    /\ panic' = "arena"
    /\ UNCHANGED <<chainload, cursor, arenas, vmxon, bitmaps, memory, vms, tracked, devices, task, running>>

(* The steps of a call in progress.                                        *)
TaskStep ==
    \/ ReserveTake \/ ReserveTrack \/ ReserveDone
    \/ GuestTake \/ GuestTrack \/ GuestDone
    \/ MapDescend \/ MapTakeTable \/ MapLinkTable \/ MapLeaf
    \/ VmcsTakeBitmaps \/ VmcsFinish \/ VmcsFails
    \/ OutOfMemory \/ ArenaFull

Next ==
    \/ VmxSetup \/ VmxSetupFails
    \/ \E v \in Vm :
          \/ CreateVm(v)
          \/ \E pages \in GuestSizes : AllocateGuestMemory(v, pages)
          \/ AllocateAgain(v)
          \/ CreateVmcs(v)
          \/ CreateVmcsAgain(v)
          \/ Launch(v)
          \/ LaunchFails(v)
    \/ CreateDevice
    \/ TaskStep

Spec == Init /\ [][Next]_vars

(* A call runs to its end: the hypervisor is not preempted for good.       *)
FairSpec == Spec /\ WF_vars(TaskStep)

-----------------------------------------------------------------------------
(* Every address the hypervisor keeps is a page of the machine, and the    *)
(* arenas stay within their page.                                          *)
TypeOK ==
    /\ chainload \in Chainloads
    /\ cursor \in {0} \cup DOMAIN ScanOrder
    /\ \A a \in ArenaNames :
          arenas[a].page \in Usable \cup {NoPage} /\ arenas[a].used_size \in 0 .. ArenaSize
    /\ {vmxon, bitmaps, task.hand, task.hpa, task.table} \subseteq Usable \cup {NoPage}
    /\ \A v \in Vm :
          /\ {vms[v].eptp, vms[v].vmcs_region} \subseteq Usable \cup {NoPage}
          /\ \A i \in DOMAIN tracked[v] :
                tracked[v][i] \in ListNode /\ Interval(tracked[v][i]) \subseteq Usable
    /\ \A p \in Page, i \in 0 .. Entries - 1 : entry[p][i] \in Usable \cup {NoPage, Junk}
    /\ devices \in 0 .. MaxDevices

InHand(v, pc) == IF task.vm = v /\ task.pc = pc THEN {task.hand} ELSE {}

(* The owners of PageOwnership, read off the hypervisor's structures.      *)
OwnedPages(o) ==
    CASE o[1] = "chainload" -> chainload
      [] o[1] = "arena" -> UsedByArena \ {NoPage}
      [] o[1] = "vmxon" -> {vmxon} \ {NoPage}
      [] o[1] = "bitmaps" -> {bitmaps} \ {NoPage}
      [] o[1] = "vmcs" -> {vms[o[2]].vmcs_region} \ {NoPage}
      [] o[1] = "ept" -> PagesOf(tracked[o[2]], "EPT", 0) \cup InHand(o[2], "table_track")
      [] o[1] = "pool" -> PagesOf(tracked[o[2]], "EPT", 1) \cup InHand(o[2], "reserve_track")
      [] o[1] = "guest" -> PagesOf(tracked[o[2]], "GUEST_PHYSICAL", 0)
                               \cup InHand(o[2], "guest_track")

HostOwner ==
    ({"chainload", "arena", "vmxon", "bitmaps"} \X {NoVm}) \cup ({"vmcs", "ept", "pool", "guest"} \X Vm)

Ownership == INSTANCE PageOwnership
    WITH own <- [o \in HostOwner |-> OwnedPages(o)],
         pending <- IF task.pc = "vmcs" THEN {task.vm} ELSE {}

(* Pages change hands only as PageOwnership allows: taken when nobody's,   *)
(* moved from a machine's pool to its EPT, never taken from an owner.      *)
ImplementsOwnership == Ownership!Spec

-----------------------------------------------------------------------------
(* What the processor (and vmx_ept_get_host_physical_address) finds for a  *)
(* guest page: NoPage when some level is not present.                      *)
Lookup(table, i) == IF table \in Page THEN entry[table][i] ELSE table

Translate(v, gpa) ==
    Lookup(Lookup(Lookup(Lookup(vms[v].eptp, EptIndex(gpa, 4)), EptIndex(gpa, 3)),
                  EptIndex(gpa, 2)), EptIndex(gpa, 1))

GuestAddresses == 0 .. EptSpan(4) - 1

(* How many pages of the machine's memory are mapped so far.               *)
Mapped(v) == IF task.vm = v /\ task.pc # "vmcs" THEN task.gpa ELSE vms[v].guest_physical_pages

(* The EPT of a machine maps guest pages 0 .. n - 1, one to one onto the   *)
(* pages tracked as its memory, and nothing else, at every step of the     *)
(* allocation.                                                             *)
EptExact ==
    \A v \in Vm :
        LET n == Mapped(v)
            image == {Translate(v, g) : g \in 0 .. n - 1}
            inProgress == IF task.vm = v THEN {task.hpa} ELSE {}
        IN  /\ \A g \in GuestAddresses : (Translate(v, g) = NoPage) <=> g >= n
            /\ \A g, h \in 0 .. n - 1 : Translate(v, g) = Translate(v, h) => g = h
            /\ image = PagesOf(tracked[v], "GUEST_PHYSICAL", 0) \ inProgress

(* The tables of each level, from the EPT pointer down.                    *)
Below(tables) == {entry[t][i] : t \in tables, i \in 0 .. Entries - 1} \ {NoPage}

Tables(v) ==
    LET l4 == {vms[v].eptp} \ {NoPage}
        l3 == Below(l4)
        l2 == Below(l3)
    IN  l4 \cup l3 \cup l2 \cup Below(l2)

Present(tables) == {l \in tables \X (0 .. Entries - 1) : entry[l[1]][l[2]] # NoPage}

(* The tables the processor walks are exactly the EPT pages tracked as in  *)
(* use, each still a table, and form a tree: no table is linked twice or   *)
(* reached by two machines.                                                *)
EptTreePrivate ==
    /\ \A v \in Vm :
          /\ Tables(v) = PagesOf(tracked[v], "EPT", 0)
          /\ \A t \in Tables(v) : content[t] = "table"
    /\ LET links == UNION {{v} \X Present(Tables(v)) : v \in Vm}
       IN  \A l, m \in links : entry[l[2][1]][l[2][2]] = entry[m[2][1]][m[2][2]] => l = m

(* The pages reserved before the mapping are exactly as many as the        *)
(* mapping needs: mapping a page never has to ask mm_get_free_page for a   *)
(* table while it holds another page, and no page is left over.            *)
PoolExact ==
    /\ task.pc = "map" /\ task.level > 1 /\ NextTable = NoPage
           => NodesOf(tracked[task.vm], "EPT", 1) # {}
    /\ \A v \in Vm : vms[v].eptp # NoPage /\ task.vm # v => PagesOf(tracked[v], "EPT", 1) = {}

(* "Remapping an already mapped guest physical page in EPT" never happens, *)
(* and no entry left over from an earlier use of a page is ever read.      *)
NoRemap ==
    /\ task.pc = "map" /\ task.level = 1 => NextTable = NoPage
    /\ task.pc = "map" => NextTable # Junk

(* The hypervisor runs out of memory only when every usable page has an    *)
(* owner.                                                                  *)
OomOnlyWhenOwned ==
    panic = "oom" => Usable \subseteq UNION {OwnedPages(o) : o \in HostOwner}

(* The VMCS region of a machine is no other structure's page and keeps its *)
(* revision identifier until the machine is launched.                      *)
VmcsPrivate ==
    \A v \in Vm : vms[v].vmcs_initialized =>
        /\ vms[v].vmcs_region \notin {bitmaps, vmxon}
        /\ content[vms[v].vmcs_region] = "vmcs"

(* A call of vm_manager_allocate_guest_physical_memory or of               *)
(* vmx_create_initialized_vmcs ends, in a panic if need be.                *)
CallsEnd == task.pc # "idle" ~> (task.pc = "idle" \/ panic # "none")
=============================================================================
