--------------------------- MODULE PageAllocator ---------------------------
(***************************************************************************)
(* What the callers of mm_get_free_page rely on: a call ends with a usable *)
(* page nobody uses, or with the "OOM :(" panic, and then there is none.   *)
(* How the page is looked for is the business of FreePageScan.             *)
(*                                                                         *)
(* One more outcome is part of the promise because the code allows it: a   *)
(* call may leave the table of descriptors, if the first of them does not  *)
(* stop it.                                                                *)
(***************************************************************************)
VARIABLES
    floor,    \* whether descriptor 0 is usable and stops every search
    usable,   \* the pages of the usable descriptors of the memory map
    used,     \* the pages for which some mm_page_used_by_* predicate holds
    state,    \* "idle", "busy" (inside mm_get_free_page), "oom" (halted), "undefined"
    granted   \* the pages returned by the latest call: one, or none before it

vars == <<floor, usable, used, state, granted>>

Init ==
    /\ state = "idle"
    /\ granted = {}

(* The predicates are free to change their mind between two calls.         *)
UsersChange ==
    /\ state = "idle"
    /\ UNCHANGED <<floor, usable, state, granted>>

Request ==
    /\ state = "idle"
    /\ state' = "busy"
    /\ UNCHANGED <<floor, usable, used, granted>>

Grant ==
    /\ state = "busy"
    /\ \E p \in usable \ used : granted' = {p}
    /\ state' = "idle"
    /\ UNCHANGED <<floor, usable, used>>

Fail ==
    /\ state = "busy"
    /\ usable \subseteq used
    /\ state' = "oom"
    /\ UNCHANGED <<floor, usable, used, granted>>

Escape ==
    /\ state \in {"idle", "busy"}
    /\ ~floor
    /\ state' = "undefined"
    /\ UNCHANGED <<floor, usable, used, granted>>

Next == UsersChange \/ Request \/ Grant \/ Fail \/ Escape

Spec == Init /\ [][Next]_vars
=============================================================================
