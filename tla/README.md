# TLA+ specifications of rkhv

rkhv is a small type-1 hypervisor for Intel VT-x: a UEFI bootloader (`boot/`) that
collects the memory map, builds page tables and jumps into a 64-bit hypervisor
(`hv/`), which sets up one guest (a Linux kernel given as an attachment), launches
it and from then on runs only on VM-exits. It uses one processor, keeps
interrupts off, has no scheduler, no free list and no `free`; errors are `PANIC`s
that halt the machine. What is hard about it is therefore not parallelism of its
own but (1) memory whose ownership is *implied* by what every subsystem answers
when asked, (2) two worlds, host and guest, sharing the registers of a processor
and interleaving at every instruction the guest chooses, and (3) arithmetic at
the edges of fixed-size tables.

Source paths below are relative to `src/`.

## 1. Inventory

| Component | State | Operations | Modelled in |
|---|---|---|---|
| Free page allocator, `hv/src/memory_management/memory_management.c` | `efi_mmap_usable` of the chainload page; `last_returned_{region,page}_index` | `mm_get_free_page`, `mm_page_is_free` | `FreePageScan`, abstractly `PageAllocator` |
| Tracked page lists, `hv/src/vmm/vm_manager.c`, `vmm_vm_manager.c` | `vm->tracked_pages`: a list of page intervals, typed, with a reserved pool | `vm_manager_track_page`, `vm_manager_untrack_page_from_reserved_pool`, `mm_page_used_by_vm_manager` | `PageList`, `PageTracker`, abstractly `TrackedPages` |
| Arenas, `arena.c` | list of one-page arenas with `used_size` | `arena_create`, `arena_allocate` | `HostMemory` |
| VMX pages, `vmm_vmx_pages.c`, VMX and VMCS set-up, `vmx_init.c`, `vmx_vmcs.c` | `vmxon_region`, `msr_bitmaps_page`, `vm->vmcs_region` and its flag | `vmx_setup`, `vmx_create_initialized_vmcs` | `HostMemory`, abstractly `PageOwnership` |
| Guest memory and EPT, `vm_manager.c`, `vmx_ept.c` | `vm->vmcs_config.eptp`, EPT pages, reserved pool | `vm_manager_allocate_guest_physical_memory`, `vmx_ept_map_page`, `vmx_ept_get_host_physical_address` | `HostMemory` |
| VM entry and exit, `vmx_vmexit.asm`, `vmx_vmexit.c`, `vmx_instructions.asm`, `vmx_msr.c`, `xsave.c` | stack frame, `vmx_vmexit_state_t`, `permanent_state`, `vmx_msr_host_backup` | launch, VM-exit path, handler, resume | `WorldSwitch`, abstractly `GuestMachine` |
| Emulated instructions, `vm_emulated_instructions.c` | (the guest's) | CPUID, MOV to/from CR, XSETBV, IN/OUT, INS/OUTS, REP | `WorldSwitch` |
| I/O ports and devices, `vm_ioports.c`, `vm_manager_register_device` | `vm->devices`, a linked list | register; `vm_in*`, `vm_out*` | `IoBus` |
| 8250 UART, `devices/vmd_8250uart.c` | registers, output buffer | `vmd_8250uart_outb_handler`, `..._inb_handler` | `Uart8250` |
| Guest paging, `vm_guest_paging.c` | guest page tables in guest memory, `guest_physical_pages_used_by_initial_setup` | `vm_guest_paging_setup_identity`, page walk | `GuestSetup`, `PageWalk` |
| Linux loader, `guest_linux_loader.c` | boot parameters, command line, kernel in guest memory, initial registers | `vm_guest_linux_loader`; without an image, the hello world guest of `hvmain` | `GuestSetup` |
| Bootloader: files, `boot/src/main.c`, `fs.c` | sections and attachment in physical memory, recorded in the chainload page | load a section, read an attachment | `Boot` |
| Bootloader: paging, `boot/src/paging.c` | the hypervisor's page tables, `page_table_regions` | `paging_allocate_page`, `paging_map_page`, `paging_map_physical`, level check | `BootPaging`, `BootExit` |
| Bootloader: memory map, `boot/src/main.c`, `chainload.asm` | `mmap_size`, buffer and key, `efi_mmap_usable` | GetMemoryMap and ExitBootServices with retry, merge, chainload | `BootExit` |
| Interrupts, segments, console, strings | | | no (section 7) |

How they interact. `mm_get_free_page` asks the chainload page, the arenas, the VMX
pages and the VM manager whether a page is theirs; a page that was handed out and
that none of them reports *yet* is handed out again. Tracking a page may allocate
a list node in an arena; mapping a page takes tables from the reserved pool,
which is itself a tracked list. The VM-exit handler calls the emulation, which
calls the device lookup, which calls the UART. The bootloader hands over one thing
only, the chainload page: which memory is usable, where the sections, the page
tables and the attachment are. `mm_get_free_page` works from that page; what
the bootloader forgot to record there, the hypervisor would overwrite.

Behaviours that are hard, and the properties that make each part right:

* *allocator*: a circular, resumable scan over descriptors with unsigned indices.
  Right when it ends, finds a free page if there is one, and stays in its table;
* *tracked lists*: intervals merged, split, emptied and reused. Right when they
  are a representation of disjoint sets;
* *ownership*: a page has at most one owner, and guest memory belongs to nobody
  else, at every intermediate step of every call;
* *EPT*: at every step it maps exactly the memory of its guest, and its tables
  are private; the reserved pool is exactly large enough;
* *world switch*: the host always runs on host state, the guest cannot tell that
  it was interrupted, and every exit ends;
* *bootloader*: it depends on where the firmware places pages and on events of the
  firmware between two calls. Right when the chainload page describes memory as
  it is at the moment the boot services end, when the address space is exactly
  that of `memory_map.h`, and when booting ends;
* *guest set-up*: tables, parameters, command line and kernel are placed by
  arithmetic on unsigned page counts. Right when the last write has not destroyed an
  earlier one;
* *devices*: a byte printed by the guest is printed once, in order, whatever else
  it does to the device.

`PROJECT.json` lists the hazards line by line.

## 2. Modules

```
PageAllocator  <=implements= FreePageScan            FreePageScanProofs
TrackedPages   <=implements= PageTracker -> PageList PageListProofs, PageTrackerProofs
PageOwnership  <=implements= HostMemory  -> PageList PageOwnershipProofs, HostMemoryProofs
GuestMachine   <=implements= WorldSwitch -> X86      WorldSwitchProofs
                             IoBus       -> Uart8250 IoBusProofs
Startup -> BootExit -> BootPaging -> Boot -> PageWalk
Startup =instantiates= GuestSetup -> PageWalk        StartupProofs
```

`->` is EXTENDS. Every `MC...` module gives the constants of the module it is named
after small values. Definitions with an underscore in their name
(`SearchBound_NoWrap`) are faulty variants of the definition that follows them;
they are used by no specification and serve to see that a property notices
the fault.

**FreePageScan** has one step per iteration of the `while (true)` loop of
`mm_get_free_page`. A slot `<<r, p>>` is a pair of region and page index, `NoSlot` the
pair of `(size_t)-1`. `used` is what `mm_page_is_free` rejects; it changes between
calls only. The search for the next descriptor, `for (size_t i = ...; i >= 0; i--)`,
is `HighestBelow`; when it is empty the code indexes outside the table, and the
model goes to `"undefined"`. **PageAllocator** is the promise: a free page, or a
panic when there is none, or, if descriptor 0 does not stop the search, undefined.

**PageList** holds the list operations as operators on a sequence of nodes (the
head of the C list last), **PageTracker** runs them in any order with any page that is
not tracked, **TrackedPages** says what they mean: three sets of pages.

**PageOwnership** is a state machine of owners: a page is taken by somebody when the
predicates claim it for nobody. The VMCS region under construction is not claimed,
as in the code, and `Claimed` says so; `OnlyFirstVmcsShared` says how far that can go: once
the page of MSR bitmaps exists, no VMCS region set up later comes to be shared.

**HostMemory** puts it together: the calls of `hvmain` for several machines, in any
interleaving between calls, each call split where it calls the allocator or a
page-table level. `task` is the call in progress with its locals. The allocator is
one step here (`FoundSlot`), as `NothingSkipped` of FreePageScan justifies: it returns
the first free page from the one returned last. `content` and `entry` say what a
page was last written as; an entry nobody wrote is `Junk`. `EptSpan` is how many guest
pages a table of each level stands for, in place of the shifts of `vmx_ept.h`.
`EptExact` and `EptTreePrivate` say "no two": two guest pages, or two entries, never
lead to one page.

**WorldSwitch** follows the path of a VM-exit: `exit` (registers pushed, host XCR0,
XSAVE), `handler` (VMCS read, MSRs swapped), `emulate`, `resume` (VMCS written, MSRs
swapped back), `return` (XRSTOR, guest XCR0, registers, VMRESUME). An instruction of VMX that
reports an error is a panic (`VmxAssertFails`), for VMRESUME the halt at the end of the
assembly (`ResumeFails`). Whatever the host's
C code may have changed is `Clobbered`. `HostIntact` is about the C code between `vmx_msr_vmexit` and
`vmx_msr_vmresume`; the few lines of the handler before and after run with the guest's
switched MSRs, as the code has it. Register width is reduced to two words of
`WordBits` bits so that `eax` and `rax`, and the wrap of `rsi`, remain distinct.
**X86** has what the processor does (external), **GuestMachine** the machine the guest
is promised: each instruction in one step.

The MSR bitmaps are bytes in which `vmx_msr_init_bitmaps` clears the bits of the MSRs
that the guest may write without an exit (`ClearedBits`, with the byte and bit
arithmetic of the code and the two halves, low and high MSRs); `WriteBit` of X86
is the bit the processor looks at. MSRs are of three kinds: switched by VMX itself
(`VmcsMsr`), switched by `vmx_msr.c` (`RwbkMsr`), and all others. `HostIntact` is about
all that stay on the processor: a bit cleared for the wrong MSR shows when the host
runs with a value of the guest's.

**PageWalk** is the four-level table walk with 4 KiB, 2 MiB and 1 GiB pages over
tables of `Entries` entries, given as a function of pages: the
hypervisor's tables in physical memory, and the guest's behind the EPT. `EntrySpan` is
what an entry of each level stands for, `Store` a page written.

**Boot**, **BootPaging** and **BootExit** follow `efi_main`; `pc` is where it is, one step per
call to the firmware or per turn of a loop. The firmware is external:
AllocatePages places a block lowest, highest, highest with a free page above, or anywhere
(`Policies`), and may change this between two calls; an event may allocate or free a page of the
firmware between any two steps of the loop that leaves the boot services, which
makes the map key stale. Any call whose status is looked at may return an error, printing
included, so a refused ExitBootServices may also be the end. `mmap_size` is uninitialised at the
first GetMemoryMap (main.c:164); it is 0 or `Garbage`, and a firmware that finds a
large value may leave it and `desc_size` alone. `desc_size` is then uninitialised too
(`mmap.sized` is false), and the buffer for "4 more descriptors" has any size.
The firmware is taken to report its descriptors in the order of their addresses. `paging_map_page` takes one step for each table it has to
allocate. The region collapser of `paging_allocate_page` is `Recorded`. `holds` is a
history variable: what the bootloader itself has put in a page.

**GuestSetup** has `vm_guest_paging_setup_identity`, `vm_guest_linux_loader` and the hello world of
`hvmain`, with the memory of the guest page by page and sizes in sectors of 512 bytes,
modulo `SizeValues` where the code computes with `size_t`. **Startup** composes the two:
the size of the attachment the bootloader recorded (Read may return less than
the file has) is the size of the image the loader gets. When `hvmain` is entered the
variables of the bootloader are forgotten. What `hvmain` does to the host's memory
in between is HostMemory.

**Uart8250** has the two handlers as functions on a record; a byte is the set of
its bits. **IoBus** registers devices and walks the list for each access. `TextDelivered`
maps the positions of the characters printed to those sent, in order, and every character
sent is hit unless a NUL in the same piece of its line cuts it off (`CutOff`): line
ends, which the code adds when the buffer is full, do not count.

## 3. Runs

| Run | Shows | Distinct states |
|---|---|---|
| `scan` | over every memory map of up to 3 descriptors: the scan ends, skips nothing, panics only on full memory, stays in the table if descriptor 0 is usable, implements PageAllocator | 14 000 |
| `scan_low_reserved` | *violation*: with a descriptor 0 that is not usable it leaves the table | |
| `tracker` | interval lists are disjoint sets under any calls | 75 000 |
| `ownership` | owners are exclusive; only a VMCS set up before the MSR bitmaps exist is ever shared with them | 3 300 |
| `host` | two machines set up in any order of calls until memory or arena runs out: the EPT is exact and private at every step, the pool exact, OOM only when all pages are owned, PageOwnership implemented, calls end | 6 400 |
| `vmcs_shared` | *violation*: the first VMCS region is also the MSR bitmaps' page | |
| `page_zero` | *violation*: an emptied node at page 0 claims all memory | |
| `world_switch` | four kinds of guests: host state intact, CR4.VMXE kept, XSETBV never faults in the host, GuestMachine implemented, exits end | 562 000 |
| `cpuid_leaf` | *violation*: a hypervisor leaf with bits above eax is answered | |
| `xcr0_avx512` | *violation*: an XCR0 the processor refuses is accepted | |
| `io_bus` | three kinds of drivers: right device, lookups end, text delivered but for what a NUL cuts off, registers apart | 257 000 |
| `startup` | pages placed lowest, highest or apart, with one change between these, every event in the exit loop, every kind of image: what the hypervisor needs is never offered as free, the map handed over is the current one, regions and address space exact, only the firmware makes booting fail, the spare descriptors hold the buffer and one event, guests are launched with identity mapping and a complete kernel, starting up ends | 91 000 |

Bounds, and why they are enough:

* `MaxDesc = 3`, `MaxPages = 2`: first, middle and last descriptor, with a page in
  and at the edge of each; for larger maps the safety properties are proved.
* `Entries = 2` in place of 512: four levels then cover 16 guest pages, and sizes 2,
  5 and 9 fill a level exactly and go one past the second and third, so that every
  level gets a second table. All index arithmetic is in terms of `Entries`.
* 28 usable pages with two sets of bootloader pages, compact and scattered:
  with the first memory runs out, with the second the arena does (`ArenaSize = 25`
  units, a node 2).
* `Capacity = 4` for the UART buffer: texts of four bytes cross it; NULs, newlines
  and DLAB are mixed in.
* `WordBits = 4`, `RipValues = 2`: `rip` only has to show that an instruction was
  skipped once; counts of 2 for REP.
* `Programs` and `Drivers`: what a guest does is chosen at the start, one part of the
  machine each (extended state and MSRs; control registers and CPUID; OUT; IN).
  The parts share only `rip`, `rcx` and the path through the assembly, which every
  kind exercises.
* `startup`: `Entries = 4`, so one PML4 entry spans the 64 pages of the machine as
  it spans 512 GiB in the code, and a section of 1 MiB (half of what a table spans)
  is 2 pages: two sections share a table, the stack gets tables of its own, and the
  tables need at most 9 allocations of a single page and one of a block.
  `MaxRegions = 16` is the constant of the code, and so is the number of
  allocations: it does not depend on `Entries`. `MaxDescriptors = 6` is small enough
  to be reached by a map of this machine; `OfferedIsUsable` says what remains true
  then. `Splits` makes the firmware report one run of memory in two descriptors.
* `MaxSwitches = 1`, `MaxEvents = 2`: the placement changes once anywhere, so that regions
  grow upwards, downwards and not at all in one boot; the policy "any", every fitting block,
  is left to the proofs, which hold for all `Policies`; two events suffice to refuse
  the exit twice, and to outgrow the buffer (`MapTooLarge` fires). Events are left out
  before that loop: until then the bootloader does not look at the map.
* `GuestPages = 16`, `PreferredPage = 4`, 8 pages at most at the top: the kernel fits between
  them or not, in the order of the code's 16384, 4096 and 516. Images of 4 to 12 sectors
  are shorter than their setup, end within a page or fill it, and are too large.
* Symmetry is used in `ownership` only, over pages and machines, with no liveness.

`CHECK_DEADLOCK FALSE` is in the configurations whose model ends in a
`PANIC`, with a machine set up completely, or with a driver's text sent.

Fairness. The hypervisor runs on one processor with interrupts off; nothing preempts
a call or a VM-exit. So the steps of a call in progress (`Scan`, `TaskStep`,
`HypervisorStep`, `Lookup`, and `Step` of Startup) are weakly fair. The guest, and the caller that decides on
the next call, have no fairness. Neither have the firmware's events; that they are
finitely many (`MaxEvents`) is what `StartupEnds` needs: a firmware that changed its
map at every attempt could keep the loop of main.c:160 going for ever.

## 4. What the violations are about

* `scan_low_reserved`: `i >= 0` at memory_management.c:110 and :148 holds for every
  `size_t`. A usable descriptor 0, as conventional PC memory has, hides it.
* `vmcs_shared`: `vmx_create_initialized_vmcs` takes the page of the VMCS (vmx_vmcs.c:46)
  and claims it only at :236; `vmx_get_msr_bitmaps_page` at :90 gets the same page
  and overwrites it. The second machine is not affected: the bitmaps exist by then.
* `page_zero`: an empty node at address 0 has its last page at the top of the
  address space. It needs page 0 in the reserved pool, hence page 0 usable.
* `cpuid_leaf`: 64-bit comparison of a 32-bit operand.
* `xcr0_avx512`: only on processors whose `xsave_host_xcr0` has AVX-512 bits; the
  fault is one of the host. The components of MPX and of AMX come in pairs, which the check
  does not know either: `XsetbvAccepts` of X86 has these rules, the run shows AVX-512.

The passing runs exclude exactly these cases: `InBounds` has the hypothesis,
PageOwnership contains the VMCS window, `host` has no page 0, and no guest of
`world_switch` sets bits above eax for CPUID or has components other than x87, SSE and AVX.

## 5. Proofs

All theorems hold for every value of the constants that the named assumptions
allow, and are checked by TLAPS. Each invariant, action property and refinement that a
passing run checks is stated by a theorem.

* **FreePageScanProofs** (assumption `ScanConstants`: at least one descriptor, maps
  of well-formed descriptors). `OomOnlyWhenFull` is not inductive: that the scan came
  back to where it started says nothing unless everything on the way was in use.
  `ScanInv` adds `PassedInUse`: while scanning, all slots the walk has passed since
  `loopStart` are in use. The lemmas say what a step does to the set of passed
  slots: going down a page or a region adds the slot just left and no other
  (`PassedGrows`, from `PreviousPageFollows` and `PreviousRegionFollows`), and back at the
  start it is all slots (`PassedAll`). From it: `ScanTypeCorrect`, `OomIsHonest`,
  `NothingIsSkipped`, `LowUsableInBounds`, and `ScanImplementsAllocator`.
* **PageListProofs**: what the list operations do, for every list. A non-empty set of
  naturals has a least and, below a bound, a greatest element (`LeastExists`,
  `GreatestExists`: what a walk finds first); each operation changes the pages of one
  node by one page (`AbsorbAdds`, `TrackGrows`, `UntrackShrinks`), and such a change
  changes one of the three sets by that page (`GrowsAdds`, `ShrinksRemoves`). Also
  division by a positive number, which the page-table proofs use.
* **PageTrackerProofs** (`TrackerConstants`). `TrackerInv` is the type invariant with
  `NodesDisjoint`; with the lemmas above it gives `TrackerTypeCorrect`, `TrackerDisjoint`
  and the refinement `TrackerImplementsSets`.
* **PageOwnershipProofs** (`OwnershipConstants`). `Exclusive` with the type invariant is
  inductive: a page is taken only outside `Claimed`, and what `Claimed` misses is a VMCS
  region, during whose construction only the bitmaps are taken. A step that takes a page
  is then either the one that makes the bitmaps or leaves who shares them as it was
  (`SharingStep`): `OnlyFirstVmcsEverShared`.
* **HostMemoryProofs** (`HostConstants`: usable pages in any order without repetition,
  any number of machines, at least two entries per table, guests no larger than an EPT can
  map). `HostInv` has four parts. `Base` is the types, well-formed lists of tracked pages,
  the order of the calls, the page in hand being in no list, and the invariant of
  PageOwnership read off the structures: a fresh page is then no table of any EPT, and
  writing it disturbs none. `WalkInv` says where `vmx_ept_map_page` is. `EptInv` is about
  the nodes of an EPT: `At(v, l, g)` is the table of level `l` on the walk for guest
  page `g`. A node exists exactly for the blocks of pages that start below `Upto(v, l)`,
  it is a page tracked as such, one page is one node, every tracked page is a node,
  and the tables of the pool are blank. `PoolInv` counts: the pool has the tables of the
  whole machine, less those in use, where `TablesOf(v, l)` is the number of started blocks.
  `EptExact` alone is not inductive: between the allocation of a table and the entry in
  the page table the walk has nodes above a page that is not mapped yet, and nothing
  would say that a table missing on the walk is missing for its whole block. The lemmas
  are arithmetic (`BlockSplits`, `SameBlock`: a block of one level is a block and an index of
  the next; `CeilCompose`: rounding up level by level is rounding up once; `CeilNext`: one
  more page needs one more table exactly at the start of a block), then `LinkNode` (what
  one written entry does to all walks), `EptGrows` and one lemma for each action. Theorems:
  `HostTypeCorrect`, the refinement `HostKeepsOwnership` and through it `HostOwnersExclusive` and
  `HostSharesOnce`,
  `EptAlwaysExact`, `EptAlwaysTree`, `PoolAlwaysExact`, `NeverRemaps`, and `OomMeansAllOwned`
  under the hypothesis `0 \notin Usable`, without which `page_zero` refutes it.
* **WorldSwitchProofs** (`SwitchConstants`; registers of two words of four bits, as in the
  model). `SwitchInv`: the types, the guest's registers being on the processor, in the
  frame or in the VMCS according to `pc`, the host's MSRs and XCR0 whenever host code
  runs, CR4.VMXE set in what will be loaded. It gives `SwitchTypeCorrect`,
  `HostAlwaysIntact` (the bit arithmetic of the MSR bitmaps included), `VmxeAlwaysKept` and,
  under `SupportedXcr0 \subseteq CheckedComponent` (x87, SSE and AVX, the components whose rules
  the check of the emulation knows; see `xcr0_avx512`), `XsetbvNeverFaults`.
  `SimInv` adds where the extended state is (`ExtendedState`): components the guest has
  disabled stay in the frame. With it `GuestNeverDisturbed`, the refinement of
  GuestMachine: the step of the emulation is the guest's instruction, the other steps of
  the exit path are stuttering. It has the same hypothesis on the components, and `[]LeafInEax`, the case that
  `cpuid_leaf` refutes.
* **IoBusProofs** (`BusConstants`: devices with disjoint ports; `CapacityAssumption`).
  `BusInv` (types, `Room` for the NUL in the buffer, `Registers` equal to what was written)
  gives `BusTypeCorrect` and `BanksAlwaysSeparate`. `ListInv` says that the
  list is acyclic by giving each device an age, and that the walk has passed only devices
  without the port: `AlwaysRightDevice`. `TextInv` carries the map of positions of
  `TextDelivered` through appending a byte, flushing and adding a line end:
  `TextAlwaysDelivered`.
* **StartupProofs** (`BootConstants`, `GuestConstants`: the inequalities between the sizes
  that `memory_map.h` and `hvmain` fix). `BootInv`: a block just allocated was
  conventional memory and nothing the bootloader holds is (`Owned`), what it holds is
  recorded (`Accounted`), the regions are exactly the tables (`RegionsInv`), and the offers
  made and the descriptors left cover the usable pages (`MergeInv`). `GuestInv`:
  the identity tables are in place at every stage after they were written, the kernel
  included. Theorems: `StartupTypeCorrect`, `OfferedAlwaysUsable`, `NothingNeededEverFree`,
  `RegionsAlwaysExact`, `AlwaysIdentityMapped`, `LinuxAlwaysReady`.
  `AddressSpaceExact` speaks of the moment the hypervisor is entered only, so `TablesInv`
  follows the tables from the first allocation. The sections need eight tables, which are
  numbered in the order in which they are allocated; `Parent` and `Slot` say where each is
  linked. While pages are mapped, the first *k* of them exist in distinct pages
  (`Tree`), every link is there (`Links`), every page mapped so far has its entry with
  its permission (`Leaves`) and every other entry is absent (`NothingElse`), which is what
  shows that `paging_map_page` never meets an entry that is present. `InOrder` ties *k* to
  the section and page being mapped; `Physical` describes the PDPT and the PDs of the
  physical memory, and `LowLinks` the identity mapping that `chainload` removes.
  Each step of the bootloader keeps it (`TablesStep`); at the end, splitting an
  address into its four indices shows that a walk finds the promised entry
  (`WalkSection`, `WalkPhysical`, `WalkNothing`): `AddressSpaceAlwaysExact`. The same
  invariant counts the regions, one at most per allocation: `OnlyFirmwareEverFails` has
  the hypothesis `MaxRegions >= 10`, for eight tables, a PDPT and the block of PDs, none
  of them adjacent; the code has room for 16.
  `SpareInv` counts descriptors: a page that changes its type adds at most two
  (`StartsGrow`), so between asking for the size and reading the map the buffer uses two of
  the four spare ones and each event at most two: `SpareAlwaysSuffices`.

Only model-checked: every liveness property (`ScanTerminates`, `CallsEnd`, `ExitsEnd`,
`LookupEnds`, `StartupEnds`), because TLAPS does not reason about fairness.

## 6. Plan

The plan is carried out: the components of section 1 that are worth modelling are
modelled, and every safety property, action property and refinement that a passing run
checks is proved. What would come next is the code that section 7 leaves out.

## 7. Not modelled

* GDT/IDT set-up, console, formatting and string functions, the contents of files:
  input and output or tables written once; no state that evolves.
* `vmx_ept_create_identity_mapping` and `arena_destroy`: no caller.
* `vmx_ept_map_page` taking a table from the allocator when the pool is dry, and its
  panic on remapping: unreachable, which `PoolExact` and `NoRemap` show; the model has no
  step for them.
* Resolving a guest address in a string instruction is reduced, in WorldSwitch, to
  whether its page is mapped and whether the element stays in it; the walk itself is
  `GuestPhysical` of GuestSetup.
* What the Linux loader does for memory layouts `hvmain` never asks for. `IdentityMapped` and
  `LinuxReady` have the hypothesis that the kernel's `pref_address` is the 16 MiB that
  guest_linux_loader.c:65 computes with; a kernel preferring another address is
  checked against the wrong room and may be written over the tables, as the model
  allows. A guest smaller than 16 MiB plus the pages at its top would make the
  subtraction at :65 wrap; `GuestConstants` excludes it as `hvmain` does, whose guests
  have 64 MiB. An image shorter than its own setup makes the size of the kernel wrap
  and is stopped only when the copy leaves the memory the EPT maps: `LinuxReady`
  says that it is never launched. The room for the final NUL of the command line is
  off by one in the check, and the one command line in the code is far shorter.
* Firmware events before the loop that leaves the boot services.
* The debug line of the UART with the baud rate.
* A firmware whose memory map is not in the order of addresses, and an empty attachment file
  (`FileSizes`).
* The panic of vm_guest_paging.c:132-137 on an unexpected paging mode of the guest is one
  with the panic on an address that does not resolve.
* Components of XCR0 without a rule of their own, and that the three of AVX-512 may only be
  enabled together.
* `vm_manager_register_device` does not recognise the last device of the list when it
  is registered again, which would close the list into a cycle. The callers register
  each device once, and so does the model (`Next` of IoBus; `Register` has the guard of the code).
* VMCS fields other than the guest state of section 2 and the host state they are
  exchanged with; control fields are constants of the code.
