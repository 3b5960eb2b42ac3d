-------------------------- MODULE PageTrackerProofs --------------------------
(***************************************************************************)
(* The list of intervals implements the sets of tracked pages, for any set *)
(* of pages and any arena.                                                 *)
(***************************************************************************)
EXTENDS PageTracker, PageListProofs

TrackerInv == TypeOK /\ NodesDisjoint

-----------------------------------------------------------------------------
LEMMA TrackStep ==
    ASSUME TrackerInv, NEW p \in Pages, NEW k \in Kinds, Track(p, k)
    PROVE  /\ TrackerInv'
           /\ Abstract!Track(p, k)
<1> DEFINE l2 == TrackPage(list, p, k[1], k[2])
<1>1. list \in Seq(ListNode) /\ Disjoint(list) /\ p \in Nat
  BY TrackerConstants DEF TrackerInv, TypeOK, NodesDisjoint, Disjoint
<1>2. \A q \in Kinds : p \notin PagesOf(list, q[1], q[2])
  BY DEF Track, Tracked
<1>3. ASSUME NEW j \in DOMAIN list
      PROVE  p \notin Interval(list[j])
  <2> DEFINE q == <<list[j].page_type, list[j].reserved_pool>>
  <2>1. q \in Kinds
    BY DEF TrackerInv, TypeOK
  <2>2. p \notin PagesOf(list, list[j].page_type, list[j].reserved_pool)
    BY <1>2, <2>1
  <2> QED
    BY <1>1, <2>2, PagesOfMember
<1>4. PICK i \in 1 .. Len(list) + 1 :
          /\ Grows(list, l2, i, p, k)
          /\ i = Len(list) + 1 => NeedsNode(list, p, k[1], k[2])
  BY <1>1, <1>3, TrackGrows
<1> HIDE DEF l2
<1>5. Disjoint(l2) /\ AddsPage(list, l2, p, k)
  BY <1>1, <1>3, <1>4, GrowsAdds
<1>l. list' = l2
  BY DEF Track, l2
<1>6. list' \in Seq(ListNode) /\ DOMAIN list' = DOMAIN list \cup {i}
  BY <1>4, <1>l DEF Grows
<1>7. Len(list') <= MaxNodes
  <2>1. Len(list) \in Nat /\ Len(list') \in Nat
        /\ DOMAIN list = 1 .. Len(list) /\ DOMAIN list' = 1 .. Len(list')
    BY <1>1, <1>6
  <2>2. i = Len(list) + 1 => Len(list) < MaxNodes
    BY <1>4 DEF Track
  <2>3. Len(list') = IF i = Len(list) + 1 THEN Len(list) + 1 ELSE Len(list)
    BY <1>4, <1>6, <2>1
  <2> QED
    BY <2>1, <2>2, <2>3, TrackerConstants DEF TrackerInv, TypeOK
<1>8. ASSUME NEW j \in DOMAIN list'
      PROVE  /\ Interval(list'[j]) \subseteq Pages
             /\ <<list'[j].page_type, list'[j].reserved_pool>> \in Kinds
  <2>1. CASE j # i
    BY <1>4, <1>6, <1>8, <1>l, <2>1 DEF Grows, TrackerInv, TypeOK
  <2>2. CASE j = i
    <3>1. Interval(list'[i]) \subseteq Pages
      BY <1>4, <1>l DEF Grows, TrackerInv, TypeOK
    <3>2. <<list'[i].page_type, list'[i].reserved_pool>> = k
      BY <1>4, <1>l DEF Grows, Kinds
    <3> QED
      BY <2>2, <3>1, <3>2
  <2> QED
    BY <2>1, <2>2
<1>9. TypeOK'
  BY <1>6, <1>7, <1>8 DEF TrackerInv, TypeOK, Track
<1>10. NodesDisjoint'
  BY <1>5, <1>l DEF NodesDisjoint, Disjoint
<1>11. Abstract!Track(p, k)
  BY <1>2, <1>5, <1>l DEF Abstract!Track, Track, AddsPage
<1> QED
  BY <1>9, <1>10, <1>11 DEF TrackerInv

LEMMA UntrackStep ==
    ASSUME TrackerInv, NEW k \in Kinds, Untrack(k)
    PROVE  /\ TrackerInv'
           /\ Abstract!Untrack(k)
<1> DEFINE l2 == UntrackPage(list, k[1])
           p == UntrackedPage(list, k[1])
<1>1. list \in Seq(ListNode) /\ Disjoint(list)
  BY DEF TrackerInv, TypeOK, NodesDisjoint, Disjoint
<1>2. k = <<k[1], 1>>
  BY DEF Untrack, Kinds
<1>3. PICK i \in DOMAIN list : Shrinks(list, l2, i, p, k)
  BY <1>1, <1>2, UntrackShrinks DEF Untrack
<1>l. list' = l2
  BY DEF Untrack
<1> HIDE DEF p, l2
<1>4. /\ Disjoint(l2)
      /\ p \in PagesOf(list, k[1], k[2])
      /\ RemovesPage(list, l2, p, k)
  BY <1>1, <1>3, ShrinksRemoves
<1>5. list' \in Seq(ListNode) /\ DOMAIN list' = DOMAIN list
  BY <1>3, <1>l DEF Shrinks
<1>6. Len(list') = Len(list)
  BY <1>1, <1>5
<1>7. ASSUME NEW j \in DOMAIN list'
      PROVE  /\ Interval(list'[j]) \subseteq Pages
             /\ <<list'[j].page_type, list'[j].reserved_pool>> \in Kinds
  <2>1. CASE j # i
    BY <1>3, <1>5, <1>7, <1>l, <2>1 DEF Shrinks, TrackerInv, TypeOK
  <2>2. CASE j = i
    <3>1. Interval(list'[i]) \subseteq Pages
      BY <1>3, <1>l DEF Shrinks, TrackerInv, TypeOK
    <3>2. <<list'[i].page_type, list'[i].reserved_pool>> = k
      BY <1>3, <1>l DEF Shrinks, Kinds
    <3> QED
      BY <2>2, <3>1, <3>2
  <2> QED
    BY <2>1, <2>2
<1>8. handed' = {p} /\ p \in Pages
  BY <1>3 DEF Untrack, p, Shrinks, TrackerInv, TypeOK
<1>9. TypeOK'
  BY <1>5, <1>6, <1>7, <1>8 DEF TrackerInv, TypeOK, Untrack
<1>10. NodesDisjoint'
  BY <1>4, <1>l DEF NodesDisjoint, Disjoint
<1>11. Abstract!Untrack(k)
  BY <1>4, <1>8, <1>l DEF Abstract!Untrack, Untrack, RemovesPage
<1> QED
  BY <1>9, <1>10, <1>11 DEF TrackerInv

LEMMA InitTracker == Init => TrackerInv /\ Abstract!Init
<1> SUFFICES ASSUME Init PROVE TrackerInv /\ Abstract!Init
  OBVIOUS
<1>1. TrackerInv
  <2>1. list \in Seq(ListNode) /\ Len(list) = 0 /\ DOMAIN list = {}
    BY DEF Init
  <2>2. handed = {} /\ halted \in BOOLEAN
    BY DEF Init
  <2> QED
    BY <2>1, <2>2, TrackerConstants DEF TrackerInv, TypeOK, NodesDisjoint
<1>2. \A k \in Kinds : PagesOf(list, k[1], k[2]) = {}
  BY DEF Init, PagesOf, NodesOf
<1> QED
  BY <1>1, <1>2 DEF Init, Abstract!Init

LEMMA NextTracker ==
    TrackerInv /\ [Next]_vars => TrackerInv' /\ [Abstract!Next]_(Abstract!vars)
<1> SUFFICES ASSUME TrackerInv, [Next]_vars
             PROVE  TrackerInv' /\ [Abstract!Next]_(Abstract!vars)
  OBVIOUS
<1>1. ASSUME NEW k \in Kinds, NEW p \in Pages, Track(p, k)
      PROVE  TrackerInv' /\ Abstract!Next
  BY <1>1, TrackStep DEF Abstract!Next
<1>2. ASSUME NEW k \in Kinds, NEW p \in Pages, ArenaFull(p, k)
      PROVE  TrackerInv' /\ UNCHANGED Abstract!vars
  BY <1>2 DEF ArenaFull, TrackerInv, TypeOK, NodesDisjoint, Abstract!vars
<1>3. ASSUME NEW k \in Kinds, Untrack(k)
      PROVE  TrackerInv' /\ Abstract!Next
  BY <1>3, UntrackStep DEF Abstract!Next
<1>4. CASE UNCHANGED vars
  BY <1>4 DEF vars, TrackerInv, TypeOK, NodesDisjoint, Abstract!vars
<1> QED
  BY <1>1, <1>2, <1>3, <1>4 DEF Next

(* The nodes stay well formed, within the machine and within the arena.    *)
THEOREM TrackerTypeCorrect == Spec => []TypeOK
BY InitTracker, NextTracker, PTL DEF Spec, TrackerInv

(* No page is ever in two nodes of the list.                               *)
THEOREM TrackerDisjoint == Spec => []NodesDisjoint
BY InitTracker, NextTracker, PTL DEF Spec, TrackerInv

(* The list implements the sets of tracked pages.                          *)
THEOREM TrackerImplementsSets == Spec => ImplementsTracked
BY InitTracker, NextTracker, PTL DEF Spec, ImplementsTracked, Abstract!Spec
=============================================================================
