------------------------------ MODULE PageList ------------------------------
(***************************************************************************)
(* The list of tracked pages of a virtual machine: vm_page_list_t and the  *)
(* functions of hv/src/vmm/vm_manager.c and                                *)
(* hv/src/memory_management/vmm_vm_manager.c that walk it.                 *)
(*                                                                         *)
(* A list is a sequence of nodes, the head last: the code adds nodes at    *)
(* the head and never removes one, so a node keeps its index and a walk    *)
(* from the head visits the indices downwards.  A page is its physical     *)
(* address divided by PAGE_SIZE.                                           *)
(***************************************************************************)
EXTENDS Integers, Sequences, FiniteSetsExt

PageType == {"EPT", "GUEST_PHYSICAL"}

ListNode == [physical_address : Nat, pages : Nat, page_type : PageType, reserved_pool : 0 .. 1]

(* The page types and pools the code tracks pages under.                   *)
Kinds == {<<"EPT", 1>>, <<"EPT", 0>>, <<"GUEST_PHYSICAL", 0>>}

Interval(n) == n.physical_address .. n.physical_address + n.pages - 1

(* The nodes that hold pages of one type and pool, and the pages in them.  *)
NodesOf(list, type, pool) ==
    {i \in DOMAIN list : /\ list[i].pages # 0
                         /\ list[i].page_type = type
                         /\ list[i].reserved_pool = pool}

PagesOf(list, type, pool) == UNION {Interval(list[i]) : i \in NodesOf(list, type, pool)}

EmptyNodes(list) == {i \in DOMAIN list : list[i].pages = 0}

(***************************************************************************)
(* vm_manager_track_page.  The walk stops at the first node of the right   *)
(* type and pool that holds the page or is adjacent to it; otherwise it    *)
(* reuses the first empty node, or allocates one in vm_manager_arena.      *)
(***************************************************************************)
AbsorbingNodes(list, page, type, pool) ==
    {i \in NodesOf(list, type, pool) :
        page \in list[i].physical_address - 1 .. list[i].physical_address + list[i].pages}

(* Mutation: extending a node downwards forgets to move its start.         *)
Absorb_KeepsStart(n, page) ==
    IF page \in Interval(n) THEN n ELSE [n EXCEPT !.pages = @ + 1]

Absorb(n, page) ==
    CASE page \in Interval(n) -> n
      [] page + 1 = n.physical_address ->
            [n EXCEPT !.physical_address = page, !.pages = @ + 1]
      [] OTHER -> [n EXCEPT !.pages = @ + 1]

NewNode(page, type, pool) ==
    [physical_address |-> page, pages |-> 1, page_type |-> type, reserved_pool |-> pool]

(* Whether tracking the page allocates a node.                             *)
NeedsNode(list, page, type, pool) ==
    AbsorbingNodes(list, page, type, pool) = {} /\ EmptyNodes(list) = {}

(* Mutation: the first node of the list is reused even if it is not empty. *)
TrackPage_ReusesHead(list, page, type, pool) ==
    LET absorbing == AbsorbingNodes(list, page, type, pool)
    IN  CASE absorbing # {} -> [list EXCEPT ![Max(absorbing)] = Absorb(@, page)]
          [] absorbing = {} /\ list # <<>> ->
                [list EXCEPT ![Len(list)] = NewNode(page, type, pool)]
          [] OTHER -> Append(list, NewNode(page, type, pool))

TrackPage(list, page, type, pool) ==
    LET absorbing == AbsorbingNodes(list, page, type, pool)
    IN  CASE absorbing # {} -> [list EXCEPT ![Max(absorbing)] = Absorb(@, page)]
          [] absorbing = {} /\ EmptyNodes(list) # {} ->
                [list EXCEPT ![Max(EmptyNodes(list))] = NewNode(page, type, pool)]
          [] OTHER -> Append(list, NewNode(page, type, pool))

(***************************************************************************)
(* vm_manager_untrack_page_from_reserved_pool, when the pool has a page of *)
(* the type: the last page of the first node that has one.                 *)
(***************************************************************************)
UntrackNode(list, type) == Max(NodesOf(list, type, 1))

(* Mutation: the first page of the node is returned, the last one dropped. *)
UntrackedPage_First(list, type) == list[UntrackNode(list, type)].physical_address

UntrackedPage(list, type) ==
    LET n == list[UntrackNode(list, type)] IN n.physical_address + n.pages - 1

UntrackPage(list, type) == [list EXCEPT ![UntrackNode(list, type)].pages = @ - 1]

(***************************************************************************)
(* mm_page_used_by_vm_manager for one list, among the pages of a set.  The *)
(* predicate does not skip empty nodes: their interval [a, a - PAGE_SIZE]  *)
(* holds nothing, except that a = 0 wraps to the end of the address space. *)
(***************************************************************************)

(* Mutation: the page just below a node is taken for its first one.        *)
ListUses_OneBelow(list, pages) ==
    {p \in pages : \E i \in DOMAIN list :
        LET n == list[i]
        IN  p \in n.physical_address - 1 .. n.physical_address + n.pages - 1}

ListUses(list, pages) ==
    {p \in pages : \E i \in DOMAIN list :
        LET n == list[i]
        IN  p \in Interval(n) \/ (n.pages = 0 /\ n.physical_address = 0)}
=============================================================================
