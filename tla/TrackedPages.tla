---------------------------- MODULE TrackedPages ----------------------------
(***************************************************************************)
(* What the tracking of a virtual machine's pages promises: each kind of   *)
(* page is a set, a page enters one set when it is tracked, and a page     *)
(* that was in a reserved pool leaves it when it is untracked.             *)
(***************************************************************************)
CONSTANTS
    Pages, \* the pages of the machine
    Kinds  \* the pairs <<page_type, reserved_pool>>

VARIABLES
    owned,  \* owned[k]: the tracked pages of kind k
    handed  \* the page the latest untracking handed out, as a set

vars == <<owned, handed>>

Init ==
    /\ owned = [k \in Kinds |-> {}]
    /\ handed = {}

Track(page, kind) ==
    /\ \A k \in Kinds : page \notin owned[k]
    /\ owned' = [owned EXCEPT ![kind] = @ \cup {page}]
    /\ UNCHANGED handed

Untrack(kind) ==
    /\ kind[2] = 1
    /\ \E page \in owned[kind] :
          /\ owned' = [owned EXCEPT ![kind] = @ \ {page}]
          /\ handed' = {page}

Next == \E kind \in Kinds : (\E page \in Pages : Track(page, kind)) \/ Untrack(kind)

Spec == Init /\ [][Next]_vars
=============================================================================
