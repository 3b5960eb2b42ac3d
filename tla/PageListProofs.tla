--------------------------- MODULE PageListProofs ---------------------------
(***************************************************************************)
(* What the functions on a list of tracked pages do to the pages in it,    *)
(* for any list, and the facts on sets of indices and on quotients that    *)
(* the proofs about loops and page tables keep needing.                    *)
(***************************************************************************)
EXTENDS PageList, WellFoundedInduction, TLAPS

(* A non-empty set of natural numbers with an upper bound has a greatest   *)
(* element.                                                                *)
LEMMA GreatestExists ==
    ASSUME NEW b \in Nat, NEW S, S \subseteq 0 .. b, S # {}
    PROVE  \E x \in S : \A y \in S : y <= x
<1> DEFINE T == {b - x : x \in S}
<1>0. \A x \in S : b - x \in Nat
  OBVIOUS
<1>1. T \subseteq Nat /\ T # {}
  BY <1>0
<1>2. PICK z \in T : \A y \in T : ~(<<y, z>> \in OpToRel(<, Nat))
  BY ONLY <1>1, NatLessThanWellFounded, WFMin
<1>3. \A y \in T : ~(y < z)
  BY <1>1, <1>2 DEF OpToRel
<1>4. PICK x \in S : z = b - x
  OBVIOUS
<1>5. \A y \in S : b - y \in T
  OBVIOUS
<1> QED
  BY <1>3, <1>4, <1>5

(* A non-empty set of natural numbers has a least element.                 *)
LEMMA LeastExists ==
    ASSUME NEW S, S \subseteq Nat, S # {}
    PROVE  \E x \in S : \A y \in S : x <= y
<1>1. PICK z \in S : \A y \in S : ~(<<y, z>> \in OpToRel(<, Nat))
  BY ONLY S \subseteq Nat, S # {}, NatLessThanWellFounded, WFMin
<1>2. \A y \in S : ~(y < z)
  BY <1>1 DEF OpToRel
<1> QED
  BY <1>2

(* Division of natural numbers.                                            *)
LEMMA DivMod ==
    ASSUME NEW a \in Nat, NEW b \in Nat \ {0}
    PROVE  /\ a \div b \in Nat /\ a % b \in 0 .. b - 1
           /\ a = b * (a \div b) + (a % b)
OBVIOUS

(* The quotient and the remainder are the only ones.                      *)
LEMMA DivUnique ==
    ASSUME NEW b \in Nat \ {0}, NEW q \in Nat, NEW r \in 0 .. b - 1, NEW a \in Nat, a = b * q + r
    PROVE  a \div b = q /\ a % b = r
OBVIOUS

(* A quotient rounded up: k parts of d are not enough exactly when the     *)
(* whole goes beyond them.                                                 *)
LEMMA Ceiling ==
    ASSUME NEW s \in Nat, NEW d \in Nat \ {0}, NEW k \in Nat
    PROVE  k < (s \div d) + (IF s % d = 0 THEN 0 ELSE 1) <=> k * d < s
<1>1. PICK q \in Nat, r \in 0 .. d - 1 : s \div d = q /\ s % d = r /\ s = d * q + r
  BY DivMod
<1>2. CASE r = 0
  <2>1. k * d < d * q <=> k < q
    OBVIOUS
  <2> QED
    BY <1>1, <1>2, <2>1
<1>3. CASE r # 0
  <2>1. CASE k <= q
    <3>1. k * d <= d * q
      BY <2>1
    <3> QED
      BY <1>1, <1>3, <2>1, <3>1
  <2>2. CASE k >= q + 1
    <3>1. k * d >= d * (q + 1)
      BY <2>2
    <3>2. d * (q + 1) = d * q + d
      OBVIOUS
    <3> QED
      BY <1>1, <1>3, <2>2, <3>1, <3>2
  <2> QED
    BY <2>1, <2>2
<1> QED
  BY <1>2, <1>3

-----------------------------------------------------------------------------
(* The fields of a node.                                                   *)
LEMMA NodeFields ==
    ASSUME NEW n \in ListNode
    PROVE  /\ n.physical_address \in Nat
           /\ n.pages \in Nat
           /\ n = [physical_address |-> n.physical_address, pages |-> n.pages,
                   page_type |-> n.page_type, reserved_pool |-> n.reserved_pool]
BY DEF ListNode

(* A node with another number of pages.                                    *)
LEMMA ResizedNode ==
    ASSUME NEW n \in ListNode, NEW v
    PROVE  [n EXCEPT !.pages = v] =
               [physical_address |-> n.physical_address, pages |-> v,
                page_type |-> n.page_type, reserved_pool |-> n.reserved_pool]
BY NodeFields DEF ListNode

LEMMA NodesOfList ==
    ASSUME NEW l \in Seq(ListNode), NEW i \in DOMAIN l
    PROVE  l[i] \in ListNode /\ i \in 1 .. Len(l)
OBVIOUS

(* A non-empty set of indices of a sequence has a greatest one: a walk     *)
(* from the head stops at a node of the set.                               *)
LEMMA MaxIndex ==
    ASSUME NEW l \in Seq(ListNode), NEW S, S \subseteq DOMAIN l, S # {}
    PROVE  Max(S) \in S
<1>1. Len(l) \in Nat /\ S \subseteq 0 .. Len(l)
  OBVIOUS
<1>2. PICK x \in S : \A y \in S : y <= x
  BY <1>1, GreatestExists
<1>3. \A y \in S : x >= y
  BY <1>1, <1>2
<1> QED
  BY <1>2, <1>3 DEF Max

(* The nodes of a list that hold pages of some kind.                       *)
LEMMA PagesOfMember ==
    ASSUME NEW l \in Seq(ListNode), NEW t, NEW b, NEW p
    PROVE  p \in PagesOf(l, t, b) <=>
               \E i \in DOMAIN l : /\ l[i].page_type = t
                                   /\ l[i].reserved_pool = b
                                   /\ p \in Interval(l[i])
<1>1. \A i \in DOMAIN l : l[i].pages \in Nat /\ l[i].physical_address \in Nat
  BY NodesOfList, NodeFields
<1>2. \A i \in DOMAIN l : p \in Interval(l[i]) => l[i].pages # 0
  BY <1>1 DEF Interval
<1> QED
  BY <1>2 DEF PagesOf, NodesOf

(* Extending an absorbing node that does not hold the page adds the page   *)
(* to its interval and leaves its kind alone.                              *)
LEMMA AbsorbAdds ==
    ASSUME NEW n \in ListNode, NEW p \in Nat, n.pages # 0, p \notin Interval(n),
           p \in n.physical_address - 1 .. n.physical_address + n.pages
    PROVE  /\ Absorb(n, p) \in ListNode
           /\ Absorb(n, p).page_type = n.page_type
           /\ Absorb(n, p).reserved_pool = n.reserved_pool
           /\ Interval(Absorb(n, p)) = Interval(n) \cup {p}
<1> DEFINE a == Absorb(n, p)
<1>1. /\ n.physical_address \in Nat /\ n.pages \in Nat
      /\ n.page_type \in PageType /\ n.reserved_pool \in 0 .. 1
  BY DEF ListNode
<1>2. p + 1 = n.physical_address \/ p = n.physical_address + n.pages
  BY <1>1 DEF Interval
<1>3. /\ a \in ListNode
      /\ a.physical_address = IF p + 1 = n.physical_address THEN p ELSE n.physical_address
      /\ a.pages = n.pages + 1
      /\ a.page_type = n.page_type
      /\ a.reserved_pool = n.reserved_pool
  <2>1. CASE p + 1 = n.physical_address
    <3>1. a = [n EXCEPT !.physical_address = p, !.pages = @ + 1]
      BY <2>1 DEF Absorb
    <3>2. a = [physical_address |-> p, pages |-> n.pages + 1,
               page_type |-> n.page_type, reserved_pool |-> n.reserved_pool]
      BY <3>1, NodeFields
    <3> QED
      BY <1>1, <2>1, <3>2 DEF ListNode
  <2>2. CASE p + 1 # n.physical_address
    <3>1. a = [n EXCEPT !.pages = @ + 1]
      BY <2>2 DEF Absorb
    <3>2. a = [physical_address |-> n.physical_address, pages |-> n.pages + 1,
               page_type |-> n.page_type, reserved_pool |-> n.reserved_pool]
      BY <3>1, NodeFields
    <3> QED
      BY <1>1, <2>2, <3>2 DEF ListNode
  <2> QED
    BY <2>1, <2>2
<1> HIDE DEF a
<1>4. Interval(a) = Interval(n) \cup {p}
  BY <1>1, <1>2, <1>3 DEF Interval
<1> QED
  BY <1>3, <1>4 DEF a

(* l2 is l with one node changed or added: it now holds page p as well and *)
(* its kind is k.                                                          *)
Grows(l, l2, i, p, k) ==
    /\ l2 \in Seq(ListNode)
    /\ DOMAIN l2 = DOMAIN l \cup {i}
    /\ \A j \in DOMAIN l : j # i => l2[j] = l[j]
    /\ Interval(l2[i]) = IF i \in DOMAIN l THEN Interval(l[i]) \cup {p} ELSE {p}
    /\ l2[i].page_type = k[1] /\ l2[i].reserved_pool = k[2]
    /\ i \in DOMAIN l => \/ Interval(l[i]) = {}
                         \/ l[i].page_type = k[1] /\ l[i].reserved_pool = k[2]

(* vm_manager_track_page grows the list by the page at one node.           *)
LEMMA TrackGrows ==
    ASSUME NEW l \in Seq(ListNode), NEW p \in Nat, NEW k \in Kinds,
           \A i \in DOMAIN l : p \notin Interval(l[i])
    PROVE  \E i \in 1 .. Len(l) + 1 :
               /\ Grows(l, TrackPage(l, p, k[1], k[2]), i, p, k)
               /\ i = Len(l) + 1 => NeedsNode(l, p, k[1], k[2])
<1> DEFINE A == AbsorbingNodes(l, p, k[1], k[2])
           E == EmptyNodes(l)
           l2 == TrackPage(l, p, k[1], k[2])
           new == NewNode(p, k[1], k[2])
<1>1. A \subseteq DOMAIN l /\ E \subseteq DOMAIN l
  BY DEF AbsorbingNodes, NodesOf, EmptyNodes
<1>2. new \in ListNode /\ Interval(new) = {p}
      /\ new.page_type = k[1] /\ new.reserved_pool = k[2]
  <2>1. k[1] \in PageType /\ k[2] \in 0 .. 1
    BY DEF Kinds, PageType
  <2>2. /\ new.physical_address = p /\ new.pages = 1
        /\ new.page_type = k[1] /\ new.reserved_pool = k[2]
    BY DEF NewNode
  <2>3. new \in ListNode
    BY <2>1 DEF NewNode, ListNode
  <2>4. Interval(new) = p .. p
    BY <2>2 DEF Interval
  <2> QED
    BY <2>2, <2>3, <2>4
<1>3. CASE A # {}
  <2> DEFINE i == Max(A)
  <2>1. i \in A /\ i \in DOMAIN l
    BY <1>1, <1>3, MaxIndex
  <2>2. l2 = [l EXCEPT ![i] = Absorb(l[i], p)]
    BY <1>3 DEF TrackPage
  <2>3. /\ l[i] \in ListNode /\ l[i].pages # 0
        /\ l[i].page_type = k[1] /\ l[i].reserved_pool = k[2]
        /\ p \in l[i].physical_address - 1 .. l[i].physical_address + l[i].pages
    BY <2>1 DEF AbsorbingNodes, NodesOf
  <2>4. /\ Absorb(l[i], p) \in ListNode
        /\ Absorb(l[i], p).page_type = k[1]
        /\ Absorb(l[i], p).reserved_pool = k[2]
        /\ Interval(Absorb(l[i], p)) = Interval(l[i]) \cup {p}
    BY <2>1, <2>3, AbsorbAdds
  <2> HIDE DEF A, l2, i, new
  <2>5. l2 \in Seq(ListNode) /\ DOMAIN l2 = DOMAIN l /\ l2[i] = Absorb(l[i], p)
        /\ \A j \in DOMAIN l : j # i => l2[j] = l[j]
    BY <2>1, <2>2, <2>4
  <2>6. Grows(l, l2, i, p, k)
    BY <2>1, <2>3, <2>4, <2>5 DEF Grows
  <2>7. i \in 1 .. Len(l)
    BY <2>1
  <2> QED
    BY <2>6, <2>7 DEF l2
<1>4. CASE A = {} /\ E # {}
  <2> DEFINE i == Max(E)
  <2>1. i \in E /\ i \in DOMAIN l
    BY <1>1, <1>4, MaxIndex
  <2>2. l2 = [l EXCEPT ![i] = new]
    BY <1>4 DEF TrackPage
  <2>3. Interval(l[i]) = {}
    <3>1. l[i].pages = 0 /\ l[i].physical_address \in Nat
      BY <2>1, NodesOfList, NodeFields DEF EmptyNodes
    <3> QED
      BY <3>1 DEF Interval
  <2> HIDE DEF E, l2, i, new
  <2>4. l2 \in Seq(ListNode) /\ DOMAIN l2 = DOMAIN l /\ l2[i] = new
        /\ \A j \in DOMAIN l : j # i => l2[j] = l[j]
    BY <1>2, <2>1, <2>2
  <2>5. Grows(l, l2, i, p, k)
    BY <1>2, <2>1, <2>3, <2>4 DEF Grows
  <2>6. i \in 1 .. Len(l)
    BY <2>1
  <2> QED
    BY <2>5, <2>6 DEF l2
<1>5. CASE A = {} /\ E = {}
  <2> DEFINE i == Len(l) + 1
  <2>1. l2 = Append(l, new) /\ NeedsNode(l, p, k[1], k[2])
    BY <1>5 DEF TrackPage, NeedsNode
  <2> HIDE DEF l2, new
  <2>2. /\ l2 \in Seq(ListNode) /\ Len(l2) = i /\ l2[i] = new
        /\ \A j \in DOMAIN l : l2[j] = l[j]
    BY <1>2, <2>1
  <2>3. DOMAIN l2 = DOMAIN l \cup {i} /\ i \notin DOMAIN l
    BY <2>2
  <2>4. Grows(l, l2, i, p, k)
    BY <1>2, <2>2, <2>3 DEF Grows
  <2> QED
    BY <2>1, <2>4 DEF l2
<1> QED
  BY <1>3, <1>4, <1>5

(* l2 is l without page p, which was the last one of node i, of kind k.    *)
Shrinks(l, l2, i, p, k) ==
    /\ l2 \in Seq(ListNode)
    /\ DOMAIN l2 = DOMAIN l
    /\ i \in DOMAIN l
    /\ \A j \in DOMAIN l : j # i => l2[j] = l[j]
    /\ p \in Interval(l[i])
    /\ Interval(l2[i]) = Interval(l[i]) \ {p}
    /\ l[i].page_type = k[1] /\ l[i].reserved_pool = k[2]
    /\ l2[i].page_type = k[1] /\ l2[i].reserved_pool = k[2]
    /\ l2[i].physical_address = l[i].physical_address

(* vm_manager_untrack_page_from_reserved_pool takes the page it returns,   *)
(* and no other, out of one node of the pool.                              *)
LEMMA UntrackShrinks ==
    ASSUME NEW l \in Seq(ListNode), NEW t, NodesOf(l, t, 1) # {}
    PROVE  \E i \in DOMAIN l :
               Shrinks(l, UntrackPage(l, t), i, UntrackedPage(l, t), <<t, 1>>)
<1> DEFINE S == NodesOf(l, t, 1)
           i == Max(S)
           n == l[i]
           n2 == [n EXCEPT !.pages = n.pages - 1]
           l2 == UntrackPage(l, t)
           p == UntrackedPage(l, t)
<1>1. S \subseteq DOMAIN l
  BY DEF NodesOf
<1>2. i \in S /\ i \in DOMAIN l
  BY <1>1, MaxIndex
<1>3. /\ n \in ListNode /\ n.pages # 0
      /\ n.page_type = t /\ n.reserved_pool = 1
      /\ n.physical_address \in Nat /\ n.pages \in Nat
  BY <1>2, NodesOfList, NodeFields DEF NodesOf
<1>4. l2 = [l EXCEPT ![i] = n2] /\ p = n.physical_address + n.pages - 1
  BY DEF UntrackPage, UntrackedPage, UntrackNode
<1>5. n2 = [physical_address |-> n.physical_address, pages |-> n.pages - 1,
            page_type |-> n.page_type, reserved_pool |-> n.reserved_pool]
  <2> HIDE DEF n
  <2> QED
    BY <1>3, ResizedNode
<1>6. /\ n2 \in ListNode
      /\ n2.physical_address = n.physical_address /\ n2.pages = n.pages - 1
      /\ n2.page_type = t /\ n2.reserved_pool = 1
  <2>1. n.page_type \in PageType /\ n.reserved_pool \in 0 .. 1 /\ n.pages - 1 \in Nat
    BY <1>3 DEF ListNode
  <2> HIDE DEF n2
  <2> QED
    BY <1>3, <1>5, <2>1 DEF ListNode
<1> HIDE DEF S, i, n, n2, l2, p
<1>7. p \in Interval(n) /\ Interval(n2) = Interval(n) \ {p}
  BY <1>3, <1>4, <1>6 DEF Interval
<1>8. l2 \in Seq(ListNode) /\ DOMAIN l2 = DOMAIN l /\ l2[i] = n2
      /\ \A j \in DOMAIN l : j # i => l2[j] = l[j]
  BY <1>2, <1>4, <1>6
<1>9. Shrinks(l, l2, i, p, <<t, 1>>)
  BY <1>2, <1>3, <1>6, <1>7, <1>8 DEF Shrinks, n
<1> QED
  BY <1>2, <1>9 DEF l2, p

-----------------------------------------------------------------------------
Disjoint(l) == \A i, j \in DOMAIN l : i # j => Interval(l[i]) \cap Interval(l[j]) = {}

(* The pages of kind k, and of no other kind, gain or lose page p.         *)
AddsPage(l, l2, p, k) ==
    \A q \in Kinds : PagesOf(l2, q[1], q[2]) =
        IF q = k THEN PagesOf(l, q[1], q[2]) \cup {p} ELSE PagesOf(l, q[1], q[2])

RemovesPage(l, l2, p, k) ==
    \A q \in Kinds : PagesOf(l2, q[1], q[2]) =
        IF q = k THEN PagesOf(l, q[1], q[2]) \ {p} ELSE PagesOf(l, q[1], q[2])

(* Growing by a page in no node keeps the nodes disjoint and adds the page *)
(* to the set of its kind only.                                            *)
LEMMA GrowsAdds ==
    ASSUME NEW l \in Seq(ListNode), NEW l2, NEW i, NEW p, NEW k \in Kinds,
           Disjoint(l), \A j \in DOMAIN l : p \notin Interval(l[j]),
           Grows(l, l2, i, p, k)
    PROVE  Disjoint(l2) /\ AddsPage(l, l2, p, k)
<1> DEFINE Of(m, j, q) == m[j].page_type = q[1] /\ m[j].reserved_pool = q[2]
<1>1. \A j \in DOMAIN l2 : Interval(l2[j]) =
          IF j \in DOMAIN l THEN IF j = i THEN Interval(l[j]) \cup {p} ELSE Interval(l[j])
                            ELSE {p}
  BY DEF Grows
<1>2. Disjoint(l2)
  BY <1>1 DEF Disjoint, Grows
<1>3. ASSUME NEW q \in Kinds, NEW x
      PROVE  x \in PagesOf(l2, q[1], q[2]) <=>
                 x \in PagesOf(l, q[1], q[2]) \/ (q = k /\ x = p)
  <2>1. x \in PagesOf(l2, q[1], q[2]) <=>
            \E j \in DOMAIN l2 : Of(l2, j, q) /\ x \in Interval(l2[j])
    BY PagesOfMember DEF Grows
  <2>2. x \in PagesOf(l, q[1], q[2]) <=>
            \E j \in DOMAIN l : Of(l, j, q) /\ x \in Interval(l[j])
    BY PagesOfMember
  <2>3. q = k <=> q[1] = k[1] /\ q[2] = k[2]
    BY DEF Kinds
  <2>4. ASSUME NEW j \in DOMAIN l2, Of(l2, j, q), x \in Interval(l2[j])
        PROVE  x \in PagesOf(l, q[1], q[2]) \/ (q = k /\ x = p)
    BY <1>1, <2>2, <2>3, <2>4 DEF Grows
  <2>5. ASSUME NEW j \in DOMAIN l, Of(l, j, q), x \in Interval(l[j])
        PROVE  x \in PagesOf(l2, q[1], q[2])
    BY <1>1, <2>1, <2>5 DEF Grows
  <2>6. ASSUME q = k, x = p
        PROVE  x \in PagesOf(l2, q[1], q[2])
    BY <1>1, <2>1, <2>6 DEF Grows
  <2> QED
    BY <2>1, <2>2, <2>4, <2>5, <2>6
<1>4. ASSUME NEW q \in Kinds
      PROVE  PagesOf(l2, q[1], q[2]) =
                 IF q = k THEN PagesOf(l, q[1], q[2]) \cup {p} ELSE PagesOf(l, q[1], q[2])
  <2>1. \A x : x \in PagesOf(l2, q[1], q[2]) <=>
                 x \in PagesOf(l, q[1], q[2]) \/ (q = k /\ x = p)
    BY <1>3
  <2> QED
    BY <2>1
<1> QED
  BY <1>2, <1>4 DEF AddsPage

(* Shrinking keeps the nodes disjoint and removes the page from the set of *)
(* its kind only.                                                          *)
LEMMA ShrinksRemoves ==
    ASSUME NEW l \in Seq(ListNode), NEW l2, NEW i, NEW p, NEW k \in Kinds,
           Disjoint(l), Shrinks(l, l2, i, p, k)
    PROVE  /\ Disjoint(l2)
           /\ p \in PagesOf(l, k[1], k[2])
           /\ RemovesPage(l, l2, p, k)
<1> DEFINE Of(m, j, q) == m[j].page_type = q[1] /\ m[j].reserved_pool = q[2]
<1>1. \A j \in DOMAIN l : Interval(l2[j]) = IF j = i THEN Interval(l[j]) \ {p} ELSE Interval(l[j])
  BY DEF Shrinks
<1>2. Disjoint(l2)
  BY <1>1 DEF Disjoint, Shrinks
<1>3. \A j \in DOMAIN l : j # i => p \notin Interval(l[j])
  BY DEF Disjoint, Shrinks
<1>4. ASSUME NEW q \in Kinds, NEW x
      PROVE  x \in PagesOf(l2, q[1], q[2]) <=>
                 x \in PagesOf(l, q[1], q[2]) /\ ~(q = k /\ x = p)
  <2>1. x \in PagesOf(l2, q[1], q[2]) <=>
            \E j \in DOMAIN l : Of(l2, j, q) /\ x \in Interval(l2[j])
    BY PagesOfMember DEF Shrinks
  <2>2. x \in PagesOf(l, q[1], q[2]) <=>
            \E j \in DOMAIN l : Of(l, j, q) /\ x \in Interval(l[j])
    BY PagesOfMember
  <2>3. q = k <=> q[1] = k[1] /\ q[2] = k[2]
    BY DEF Kinds
  <2>4. \A j \in DOMAIN l : Of(l2, j, q) <=> Of(l, j, q)
    BY DEF Shrinks
  <2>5. ASSUME NEW j \in DOMAIN l, Of(l, j, q), x \in Interval(l2[j])
        PROVE  x \in Interval(l[j]) /\ ~(q = k /\ x = p)
    BY <1>1, <1>3, <2>3, <2>5 DEF Shrinks
  <2>6. ASSUME NEW j \in DOMAIN l, Of(l, j, q), x \in Interval(l[j]), ~(q = k /\ x = p)
        PROVE  x \in Interval(l2[j])
    BY <1>1, <1>3, <2>3, <2>6 DEF Shrinks
  <2> QED
    BY <2>1, <2>2, <2>4, <2>5, <2>6
<1>5. ASSUME NEW q \in Kinds
      PROVE  PagesOf(l2, q[1], q[2]) =
                 IF q = k THEN PagesOf(l, q[1], q[2]) \ {p} ELSE PagesOf(l, q[1], q[2])
  <2>1. \A x : x \in PagesOf(l2, q[1], q[2]) <=>
                 x \in PagesOf(l, q[1], q[2]) /\ ~(q = k /\ x = p)
    BY <1>4
  <2> QED
    BY <2>1
<1>6. p \in PagesOf(l, k[1], k[2])
  BY PagesOfMember DEF Shrinks
<1> QED
  BY <1>2, <1>5, <1>6 DEF RemovesPage
=============================================================================
