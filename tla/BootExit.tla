------------------------------ MODULE BootExit ------------------------------
(***************************************************************************)
(* The end of efi_main: the memory map is read and the boot services left, *)
(* again and again until the firmware agrees that the map read is the      *)
(* current one; then its descriptors are merged into the chainload page    *)
(* and the hypervisor is entered.                                          *)
(***************************************************************************)
EXTENDS BootPaging

(* paging_check_for_supported_level: the processor is in 4-level paging,   *)
(* or it is not.  mmap_size starts out as whatever was on the stack.       *)
LevelSupported ==
    /\ pc = "level"
    /\ \E size \in {0, Garbage} : mmap' = [mmap EXCEPT !.size = size]
    /\ pc' = "size"
    /\ UNCHANGED <<error, types, fw, holds, chain, tables, local>>

LevelUnsupported == pc = "level" /\ Fail("level")

-----------------------------------------------------------------------------
(* The firmware's memory map (external): a descriptor per run of pages of  *)
(* one type.                                                               *)
Starts == {p \in Page : types[p] # "Hole" /\ (p = 0 \/ p \in Splits \/ types[p - 1] # types[p])}
Ends == Starts \cup {p \in Page : types[p] = "Hole"} \cup {PageCount}
Descriptors ==
    {[at |-> p, pages |-> Min({q \in Ends : q > p}) - p, type |-> types[p]] : p \in Starts}

(* An event of the firmware allocates or frees a page of its own.          *)
FirmwareEvent ==
    /\ pc \in {"size", "pool", "read", "exit", "retry"}
    /\ fw.events < MaxEvents
    /\ fw' = [fw EXCEPT !.events = @ + 1]
    /\ \E p \in EventPages :
          \/ types[p] = "Conventional" /\ types' = [types EXCEPT ![p] = "Runtime"]
          \/ types[p] = "BootServices" /\ types' = [types EXCEPT ![p] = "Conventional"]
    /\ mmap' = [mmap EXCEPT !.current = FALSE]
    /\ UNCHANGED <<pc, error, holds, chain, tables, local>>

-----------------------------------------------------------------------------
(* The first GetMemoryMap, without a buffer: it reports the size needed;   *)
(* when mmap_size is large enough already the firmware may leave it and    *)
(* desc_size alone.  Room for 4 more descriptors is added: with a          *)
(* desc_size that nothing has set yet, any number of bytes.                *)

(* Mutation: room for 3.                                                   *)
SizeMap_ThreeSpare ==
    /\ pc = "size"
    /\ \/ mmap' = [mmap EXCEPT !.size = Cardinality(Starts) + 3, !.sized = TRUE]
       \/ /\ mmap.size >= Cardinality(Starts)
          /\ \E size \in IF mmap.sized THEN {mmap.size + 3} ELSE {0, Garbage} :
                mmap' = [mmap EXCEPT !.size = size]
    /\ pc' = "pool"
    /\ UNCHANGED <<error, types, fw, holds, chain, tables, local>>

SizeMap ==
    /\ pc = "size"
    /\ \/ mmap' = [mmap EXCEPT !.size = Cardinality(Starts) + 4, !.sized = TRUE]
       \/ /\ mmap.size >= Cardinality(Starts)
          /\ \E size \in IF mmap.sized THEN {mmap.size + 4} ELSE {0, Garbage} :
                mmap' = [mmap EXCEPT !.size = size]
    /\ pc' = "pool"
    /\ UNCHANGED <<error, types, fw, holds, chain, tables, local>>

AllocateBuffer ==
    /\ pc = "pool"
    /\ \E b \in Blocks(1) :
          /\ AllocatePages(b, 1, "LoaderData")
          /\ mmap' = [mmap EXCEPT !.at = b.at, !.current = FALSE]
    /\ pc' = "read"
    /\ UNCHANGED <<error, holds, chain, tables, local>>

ReadMap ==
    /\ pc = "read"
    /\ Cardinality(Starts) <= mmap.size
    /\ mmap' = [mmap EXCEPT !.size = Cardinality(Starts), !.sized = TRUE,
                            !.descriptors = Descriptors, !.current = TRUE]
    /\ pc' = "exit"
    /\ UNCHANGED <<error, types, fw, holds, chain, tables, local>>

(* The map has outgrown the buffer since its size was asked for.           *)
MapTooLarge ==
    /\ pc = "read"
    /\ Cardinality(Starts) > mmap.size
    /\ Fail("map")

ExitBootServices ==
    /\ pc = "exit"
    /\ mmap.current
    /\ pc' = "merge"
    /\ UNCHANGED <<error, types, fw, holds, chain, tables, local, mmap>>

ExitRefused ==
    /\ pc = "exit"
    /\ ~mmap.current
    /\ pc' = "retry"
    /\ UNCHANGED <<error, types, fw, holds, chain, tables, local, mmap>>

(* The buffer is freed and the loop starts over.                           *)

(* Mutation: the map is not read again, ExitBootServices is only repeated. *)
Retry_SameKey ==
    /\ pc = "retry"
    /\ pc' = "exit"
    /\ UNCHANGED <<error, types, fw, holds, chain, tables, local, mmap>>

Retry ==
    /\ pc = "retry"
    /\ types' = [types EXCEPT ![mmap.at] = "Conventional"]
    /\ mmap' = [mmap EXCEPT !.at = 0, !.current = FALSE]
    /\ pc' = "size"
    /\ UNCHANGED <<error, fw, holds, chain, tables, local>>

-----------------------------------------------------------------------------
(* The descriptors, merged where usability agrees and they touch, up to    *)
(* the capacity of the chainload page.                                     *)
Usable(type) == type \in {"LoaderCode", "LoaderData", "BootServices", "Conventional"}

(* Mutation: descriptors with a hole between them are merged too.          *)
Continues_AcrossHoles(d, last) == last.usable = Usable(d.type)

Continues(d, last) == last.usable = Usable(d.type) /\ last.at + last.pages = d.at

(* Mutation: the capacity is checked one descriptor too late.              *)
HasRoom_Late(out) == Len(out) <= MaxDescriptors

HasRoom(out) == Len(out) < MaxDescriptors

(* One turn of the loop, and its end, early when the table is full.  The   *)
(* firmware reports its descriptors in the order of their addresses.       *)
NextDescriptor == CHOOSE d \in mmap.descriptors : \A e \in mmap.descriptors : d.at <= e.at

MergeDescriptor ==
    /\ pc = "merge"
    /\ mmap.descriptors # {}
    /\ LET d == NextDescriptor
           out == chain.usable
       IN  IF out # <<>> /\ Continues(d, Last(out))
           THEN chain' = [chain EXCEPT !.usable[Len(out)].pages = @ + d.pages]
           ELSE /\ HasRoom(out)
                /\ chain' = [chain EXCEPT !.usable =
                                Append(@, [at |-> d.at, pages |-> d.pages, usable |-> Usable(d.type)])]
    /\ mmap' = [mmap EXCEPT !.descriptors = @ \ {NextDescriptor}]
    /\ UNCHANGED <<pc, error, types, fw, holds, tables, local>>

MergeEnds ==
    /\ pc = "merge"
    /\ mmap.descriptors # {} =>
          /\ ~HasRoom(chain.usable)
          /\ ~Continues(NextDescriptor, Last(chain.usable))
    /\ pc' = "chainload"
    /\ UNCHANGED <<error, types, fw, holds, chain, tables, local, mmap>>

(* chainload: the tables are loaded and the low mapping of the physical    *)
(* memory is taken out of them.                                            *)

(* Mutation: the low mapping stays.                                        *)
Chainload_KeepsLow ==
    /\ pc = "chainload"
    /\ pc' = "hvmain"
    /\ UNCHANGED <<error, types, fw, holds, chain, tables, local, mmap>>

Chainload ==
    /\ pc = "chainload"
    /\ tables' = [tables EXCEPT ![local.pml4][0] = Absent]
    /\ pc' = "hvmain"
    /\ UNCHANGED <<error, types, fw, holds, chain, local, mmap>>

BootStep ==
    \/ AllocateChainload \/ LoadSection \/ LoadAttachment \/ AttachmentNotFound
    \/ AllocatePml4 \/ AllocateTable \/ MapPage \/ AllocatePdpt \/ MapPhysical
    \/ LevelSupported \/ LevelUnsupported
    \/ SizeMap \/ AllocateBuffer \/ ReadMap \/ MapTooLarge
    \/ ExitBootServices \/ ExitRefused \/ Retry
    \/ MergeDescriptor \/ MergeEnds \/ Chainload
    \/ FirmwareError
=============================================================================
