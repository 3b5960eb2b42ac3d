---------------------------- MODULE PageTracker ----------------------------
(***************************************************************************)
(* The life of one list of tracked pages, under the calls its users make:  *)
(* vm_manager_track_page with a page that mm_get_free_page returned or     *)
(* that was just taken out of the reserved pool, hence with a page that is *)
(* not tracked, and vm_manager_untrack_page_from_reserved_pool.            *)
(***************************************************************************)
EXTENDS PageList

CONSTANTS
    Pages,    \* the pages of the machine
    MaxNodes  \* how many nodes fit in what is left of vm_manager_arena

ASSUME TrackerConstants == Pages \subseteq Nat /\ MaxNodes \in Nat

VARIABLES
    list,    \* vm->tracked_pages
    handed,  \* the page the latest untracking handed out, as a set
    halted   \* the arena is full: PANIC in arena_allocate

vars == <<list, handed, halted>>

Tracked == UNION {PagesOf(list, k[1], k[2]) : k \in Kinds}

Init ==
    /\ list = <<>>
    /\ handed = {}
    /\ halted = FALSE

Track(page, kind) ==
    /\ ~halted
    /\ page \notin Tracked
    /\ NeedsNode(list, page, kind[1], kind[2]) => Len(list) < MaxNodes
    /\ list' = TrackPage(list, page, kind[1], kind[2])
    /\ UNCHANGED <<handed, halted>>

(* arena_allocate: PANIC("subarenas not supported right now").             *)
ArenaFull(page, kind) ==
    /\ ~halted
    /\ page \notin Tracked
    /\ NeedsNode(list, page, kind[1], kind[2])
    /\ Len(list) >= MaxNodes
    /\ halted' = TRUE
    /\ UNCHANGED <<list, handed>>

Untrack(kind) ==
    /\ ~halted
    /\ kind[2] = 1
    /\ NodesOf(list, kind[1], 1) # {}
    /\ list' = UntrackPage(list, kind[1])
    /\ handed' = {UntrackedPage(list, kind[1])}
    /\ UNCHANGED halted

Next ==
    \E kind \in Kinds :
        \/ \E page \in Pages : Track(page, kind) \/ ArenaFull(page, kind)
        \/ Untrack(kind)

Spec == Init /\ [][Next]_vars

-----------------------------------------------------------------------------
(* The nodes are well formed, hold pages of the machine and fit in the     *)
(* arena.                                                                  *)
TypeOK ==
    /\ list \in Seq(ListNode)
    /\ \A i \in DOMAIN list :
          /\ Interval(list[i]) \subseteq Pages
          /\ <<list[i].page_type, list[i].reserved_pool>> \in Kinds
    /\ Len(list) <= MaxNodes
    /\ handed \subseteq Pages
    /\ halted \in BOOLEAN

(* No page is in two nodes, whatever was merged, emptied and reused: a     *)
(* page in two nodes could be handed out of the reserved pool twice.       *)
NodesDisjoint ==
    \A i, j \in DOMAIN list : i # j => Interval(list[i]) \cap Interval(list[j]) = {}

Abstract == INSTANCE TrackedPages
    WITH owned <- [k \in Kinds |-> PagesOf(list, k[1], k[2])]

(* The list of intervals implements the three sets of pages: merging into  *)
(* a neighbour, reusing an empty node and taking a page off the end of a   *)
(* node add and remove exactly one page, of the right kind.                *)
ImplementsTracked == Abstract!Spec
=============================================================================
