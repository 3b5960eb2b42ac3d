---------------------------- MODULE FreePageScan ----------------------------
(***************************************************************************)
(* mm_get_free_page (hv/src/memory_management/memory_management.c), one    *)
(* step per iteration of its loop.  The hypervisor keeps no free list: it  *)
(* walks the usable descriptors of the memory map downwards, starting at   *)
(* the page it returned last, wraps from descriptor 0 to the highest one,  *)
(* and asks every subsystem whether it uses the page under the cursor.     *)
(*                                                                         *)
(* A position of the cursor is a slot <<region index, page index>>; a page *)
(* is its physical address divided by PAGE_SIZE.                           *)
(***************************************************************************)
EXTENDS Integers

CONSTANTS
    MaxDesc,  \* RKHV_MAX_EFI_MMAP_DESCRIPTORS
    Mmaps     \* the memory maps the bootloader may hand over

DescIndex == 0 .. MaxDesc - 1

Descriptor == [physical_address : Nat, pages : Nat, usable : BOOLEAN]

ASSUME ScanConstants ==
    /\ MaxDesc \in Nat \ {0}
    /\ Mmaps \subseteq [DescIndex -> Descriptor]

VARIABLES
    mmap,       \* chainload_page->efi_mmap_usable
    used,       \* pages for which mm_page_is_free is false
    last,       \* last_returned_{region,page}_index
    cur,        \* current_{region,page}_index
    loopStart,  \* complete_loop_{region,page}_index
    pc,         \* "idle", "scan", "oom" (panic) or "undefined"
    granted     \* the page returned by the latest call, as a set

vars == <<mmap, used, last, cur, loopStart, pc, granted>>

(* Both indices at (size_t)-1.                                             *)
NoSlot == <<-1, -1>>

(* The test that selects a descriptor in both for loops.                   *)
Scannable(m, r) == m[r].usable /\ m[r].pages # 0

Slots(m) ==
    UNION {{r} \X (0 .. m[r].pages - 1) : r \in {q \in DescIndex : Scannable(m, q)}}

PageOf(m, s) == m[s[1]].physical_address + s[2]

UsablePages(m) == {PageOf(m, s) : s \in Slots(m)}

(* Mutation: the last page of a descriptor taken one too high.             *)
HighestBelow_PastEnd(m, bound) ==
    {<<r, m[r].pages>> :
        r \in {q \in 0 .. bound - 1 : /\ Scannable(m, q)
                                      /\ \A p \in q + 1 .. bound - 1 : ~Scannable(m, p)}}

(* Where "for (size_t i = bound - 1; i >= 0; i--)" stops: on the last page *)
(* of the highest scannable descriptor below bound.  When there is none    *)
(* the set is empty and the loop goes on with i = (size_t)-1, outside the  *)
(* array, because i >= 0 holds for every size_t.                           *)
HighestBelow(m, bound) ==
    {<<r, m[r].pages - 1>> :
        r \in {q \in 0 .. bound - 1 : /\ Scannable(m, q)
                                      /\ \A p \in q + 1 .. bound - 1 : ~Scannable(m, p)}}

(* Mutations: the wrap misses the highest descriptor, or is forgotten.     *)
SearchBound_WrapsShort(r) == IF r = 0 THEN MaxDesc - 1 ELSE r

SearchBound_NoWrap(r) == r

(* The exclusive bound of the search for the next descriptor below r; from *)
(* descriptor 0 it wraps to the end of the array.                          *)
SearchBound(r) == IF r = 0 THEN MaxDesc ELSE r

Init ==
    /\ mmap \in Mmaps
    /\ used \in SUBSET UsablePages(mmap)
    /\ last = NoSlot
    /\ cur = NoSlot
    /\ loopStart = NoSlot
    /\ pc = "idle"
    /\ granted = {}

(***************************************************************************)
(* Between two calls the subsystems take pages into use and give them up.  *)
(* During a call they do not: the hypervisor runs on one processor and the *)
(* interrupt handler allocates nothing.                                    *)
(***************************************************************************)
UsersChange ==
    /\ pc = "idle"
    /\ \E p \in UsablePages(mmap) : used' \in {used \cup {p}, used \ {p}}
    /\ UNCHANGED <<mmap, last, cur, loopStart, pc, granted>>

FirstCall ==
    /\ pc = "idle"
    /\ last = NoSlot
    /\ cur' \in HighestBelow(mmap, MaxDesc)
    /\ loopStart' = NoSlot
    /\ pc' = "scan"
    /\ UNCHANGED <<mmap, used, last, granted>>

FirstCallOutOfBounds ==
    /\ pc = "idle"
    /\ last = NoSlot
    /\ HighestBelow(mmap, MaxDesc) = {}
    /\ pc' = "undefined"
    /\ UNCHANGED <<mmap, used, last, cur, loopStart, granted>>

(* Later calls probe the page returned last again before they go down.     *)
LaterCall ==
    /\ pc = "idle"
    /\ last # NoSlot
    /\ cur' = last
    /\ loopStart' = NoSlot
    /\ pc' = "scan"
    /\ UNCHANGED <<mmap, used, last, granted>>

(* Mutation: a page is returned without asking whether it is in use.       *)
Found_IgnoresUsers ==
    /\ pc = "scan"
    /\ cur # loopStart
    /\ last' = cur
    /\ granted' = {PageOf(mmap, cur)}
    /\ pc' = "idle"
    /\ UNCHANGED <<mmap, used, cur, loopStart>>

Found ==
    /\ pc = "scan"
    /\ cur # loopStart
    /\ PageOf(mmap, cur) \notin used
    /\ last' = cur
    /\ granted' = {PageOf(mmap, cur)}
    /\ pc' = "idle"
    /\ UNCHANGED <<mmap, used, cur, loopStart>>

(* Mutation: the end of the loop is moved along with the cursor.           *)
Miss_MovesStart ==
    /\ pc = "scan"
    /\ cur # loopStart
    /\ PageOf(mmap, cur) \in used
    /\ loopStart' = cur
    /\ UNCHANGED <<mmap, used, last, granted>>

(* The page under the cursor is taken; the first slot probed is remembered.*)
Miss ==
    /\ pc = "scan"
    /\ cur # loopStart
    /\ PageOf(mmap, cur) \in used
    /\ loopStart' = IF loopStart = NoSlot THEN cur ELSE loopStart
    /\ UNCHANGED <<mmap, used, last, granted>>

PreviousPage ==
    /\ Miss
    /\ cur[2] > 0
    /\ cur' = <<cur[1], cur[2] - 1>>
    /\ UNCHANGED pc

PreviousRegion ==
    /\ Miss
    /\ cur[2] = 0
    /\ cur' \in HighestBelow(mmap, SearchBound(cur[1]))
    /\ UNCHANGED pc

PreviousRegionOutOfBounds ==
    /\ Miss
    /\ cur[2] = 0
    /\ HighestBelow(mmap, SearchBound(cur[1])) = {}
    /\ pc' = "undefined"
    /\ UNCHANGED cur

(* Back at the first slot probed: PANIC("OOM :(").                         *)
Exhausted ==
    /\ pc = "scan"
    /\ cur = loopStart
    /\ pc' = "oom"
    /\ UNCHANGED <<mmap, used, last, cur, loopStart, granted>>

Scan == Found \/ PreviousPage \/ PreviousRegion \/ PreviousRegionOutOfBounds \/ Exhausted

Next ==
    \/ UsersChange
    \/ FirstCall \/ FirstCallOutOfBounds \/ LaterCall
    \/ Scan

Spec == Init /\ [][Next]_vars

(* The loop runs to its end: nothing preempts the hypervisor for good.     *)
FairSpec == Spec /\ WF_vars(Scan)

-----------------------------------------------------------------------------
(* The cursor and the two remembered slots are slots of the memory map (or *)
(* unset), and a scan in progress has a cursor: no index ever leaves the   *)
(* descriptor it belongs to.                                               *)
TypeOK ==
    /\ mmap \in Mmaps
    /\ used \subseteq UsablePages(mmap)
    /\ last \in Slots(mmap) \cup {NoSlot}
    /\ cur \in Slots(mmap) \cup {NoSlot}
    /\ loopStart \in Slots(mmap) \cup {NoSlot}
    /\ pc \in {"idle", "scan", "oom", "undefined"}
    /\ pc = "scan" => cur # NoSlot
    /\ granted \subseteq UsablePages(mmap)

Above(s, t) == s[1] > t[1] \/ (s[1] = t[1] /\ s[2] > t[2])

(* The slots a downward, wrapping walk meets from start (included) until   *)
(* it stands on s (excluded, unless the walk is back at its start).        *)
Passed(m, start, s) ==
    {t \in Slots(m) : IF Above(start, s) THEN ~Above(t, start) /\ Above(t, s)
                                        ELSE ~Above(t, start) \/ Above(t, s)}

(* mm_get_free_page panics with "OOM :(" only when every page of every     *)
(* usable descriptor is in use: wrapping around and stopping on the first  *)
(* slot probed leaves no page out, wherever the previous call stopped.     *)
OomOnlyWhenFull == pc = "oom" => UsablePages(mmap) \subseteq used

(* The page returned is the first free one on the way down from the page   *)
(* returned last (from the top for the first call): nothing free that the  *)
(* cursor went past is left behind.                                        *)
NothingSkipped ==
    [][last' # last =>
           \A s \in Passed(mmap, last, last') : PageOf(mmap, s) \in used]_vars

(* The scan stays inside efi_mmap_usable.  The loop conditions i >= 0 of   *)
(* lines 110 and 148 do not ensure it ...                                  *)
NoOutOfBounds == pc # "undefined"

(* ... a usable descriptor 0 does: it stops every search, wherever the     *)
(* previous calls stopped.                                                 *)
InBounds == Scannable(mmap, 0) => NoOutOfBounds

(* A call returns or panics, however full the memory is.                   *)
ScanTerminates == pc = "scan" ~> pc # "scan"

Allocator == INSTANCE PageAllocator
    WITH floor <- Scannable(mmap, 0),
         usable <- UsablePages(mmap),
         state <- IF pc = "scan" THEN "busy" ELSE pc

(* The scan keeps the promise its callers rely on: a free usable page, or  *)
(* a panic and then there is none; or, with a descriptor 0 that is not     *)
(* usable, an access out of bounds.                                        *)
ImplementsAllocator == Allocator!Spec
=============================================================================
