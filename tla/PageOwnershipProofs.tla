------------------------ MODULE PageOwnershipProofs ------------------------
(* No page has two owners, for any machine and any set of guests.          *)
EXTENDS PageOwnership, TLAPS

OwnershipInv == TypeOK /\ Exclusive

LEMMA OwnerShape ==
    /\ \A v \in Vm, r \in VmRoles : <<r, v>> \in Owner
    /\ \A r \in HostRoles : <<r, NoVm>> \in Owner
BY DEF Owner

(* Giving an unclaimed page to an owner keeps the owners apart, when a     *)
(* VMCS region is in progress only if the new owner is the bitmaps.        *)
LEMMA TakeKeeps ==
    ASSUME OwnershipInv, NEW o \in Owner, Take(o), pending' \in SUBSET Vm,
           pending # {} => o[1] = "bitmaps"
    PROVE  OwnershipInv'
<1>1. PICK p \in Usable \ Claimed : own' = [own EXCEPT ![o] = @ \cup {p}]
  BY DEF Take
<1>2. TypeOK'
  BY <1>1, OwnershipConstants DEF OwnershipInv, TypeOK
<1>3. ASSUME NEW q \in Owner, q # o, ~Shared(q, o)
      PROVE  p \notin own[q]
  <2>1. q \notin {"vmcs"} \X pending
    BY <1>3 DEF Shared
  <2> QED
    BY <1>1, <1>3, <2>1 DEF Claimed
<1>4. ASSUME NEW o1 \in Owner, NEW o2 \in Owner, o1 # o2,
             ~Shared(o1, o2), ~Shared(o2, o1)
      PROVE  own'[o1] \cap own'[o2] = {}
  <2>1. own[o1] \cap own[o2] = {}
    BY <1>4 DEF OwnershipInv, Exclusive
  <2>2. \A q \in Owner : own'[q] = IF q = o THEN own[q] \cup {p} ELSE own[q]
    BY <1>1 DEF OwnershipInv, TypeOK
  <2> QED
    BY <1>3, <1>4, <2>1, <2>2
<1> QED
  BY <1>2, <1>4 DEF OwnershipInv, Exclusive

LEMMA InitOwnership == Init => OwnershipInv
BY OwnershipConstants DEF Init, OwnershipInv, TypeOK, Exclusive

LEMMA NextOwnership == OwnershipInv /\ [Next]_vars => OwnershipInv'
<1> SUFFICES ASSUME OwnershipInv, [Next]_vars PROVE OwnershipInv'
  OBVIOUS
<1>1. CASE TakeHost
  BY <1>1, TakeKeeps, OwnerShape DEF TakeHost, HostRoles, OwnershipInv, TypeOK
<1>2. ASSUME NEW v \in Vm, TakeForVm(v)
      PROVE  OwnershipInv'
  <2>1. PICK role \in {"ept", "pool", "guest"} : Take(<<role, v>>)
    BY <1>2 DEF TakeForVm
  <2>2. <<role, v>> \in Owner
    BY OwnerShape DEF VmRoles
  <2> QED
    BY <1>2, <2>1, <2>2, TakeKeeps DEF TakeForVm, OwnershipInv, TypeOK
<1>3. ASSUME NEW v \in Vm, UseReserved(v)
      PROVE  OwnershipInv'
  <2> DEFINE a == <<"pool", v>>
             b == <<"ept", v>>
  <2>1. a \in Owner /\ b \in Owner /\ a # b
    BY OwnerShape DEF VmRoles
  <2>2. PICK p \in own[a] : own' = [own EXCEPT ![a] = @ \ {p}, ![b] = @ \cup {p}]
    BY <1>3 DEF UseReserved
  <2>3. a[1] = "pool" /\ b[1] = "ept"
    OBVIOUS
  <2> HIDE DEF a, b
  <2>4. \A q \in Owner : own'[q] = IF q = a THEN own[q] \ {p}
                                   ELSE IF q = b THEN own[q] \cup {p} ELSE own[q]
    BY <2>1, <2>2 DEF OwnershipInv, TypeOK
  <2>5. \A q \in Owner : q # a => p \notin own[q]
    BY <2>1, <2>2, <2>3 DEF OwnershipInv, Exclusive, Shared
  <2>6. TypeOK'
    <3>1. p \in Page
      BY <2>1, <2>2 DEF OwnershipInv, TypeOK
    <3> QED
      BY <1>3, <2>1, <2>2, <3>1 DEF UseReserved, OwnershipInv, TypeOK
  <2>7. ASSUME NEW o1 \in Owner, NEW o2 \in Owner, o1 # o2,
               ~Shared(o1, o2), ~Shared(o2, o1)
        PROVE  own'[o1] \cap own'[o2] = {}
    <3>1. own[o1] \cap own[o2] = {}
      BY <2>7 DEF OwnershipInv, Exclusive
    <3> QED
      BY <2>1, <2>4, <2>5, <2>7, <3>1
  <2> QED
    BY <2>6, <2>7 DEF OwnershipInv, Exclusive
<1>4. ASSUME NEW v \in Vm, StartVmcs(v)
      PROVE  OwnershipInv'
  <2>1. <<"vmcs", v>> \in Owner
    BY OwnerShape DEF VmRoles
  <2> QED
    BY <1>4, <2>1, TakeKeeps DEF StartVmcs
<1>5. CASE TakeBitmaps
  <2>1. <<"bitmaps", NoVm>> \in Owner
    BY OwnerShape DEF HostRoles
  <2> QED
    BY <1>5, <2>1, TakeKeeps DEF TakeBitmaps, OwnershipInv, TypeOK
<1>6. CASE FinishVmcs
  BY <1>6 DEF FinishVmcs, OwnershipInv, TypeOK, Exclusive
<1>7. CASE UNCHANGED vars
  BY <1>7 DEF vars, OwnershipInv, TypeOK, Exclusive
<1> QED
  BY <1>1, <1>2, <1>3, <1>4, <1>5, <1>6, <1>7 DEF Next

(* Every page has one owner, but for a VMCS region and the MSR bitmaps.    *)
THEOREM OwnersExclusive == Spec => []Exclusive
BY InitOwnership, NextOwnership, PTL DEF Spec, OwnershipInv

(* Once the page of MSR bitmaps exists, an owner other than it can only be *)
(* given a page that is not in it.                                         *)
LEMMA TakeUnshared ==
    ASSUME OwnershipInv, NEW o \in Owner, Take(o), pending = {}, o[1] # "bitmaps"
    PROVE  SharingVms' = SharingVms
<1>1. PICK p \in Usable \ Claimed : own' = [own EXCEPT ![o] = @ \cup {p}]
  BY DEF Take
<1> DEFINE b == <<"bitmaps", NoVm>>
<1>2. b \in Owner /\ o # b
  BY OwnerShape DEF HostRoles
<1>3. p \notin own[b]
  BY <1>1, <1>2 DEF Claimed
<1>4. own'[b] = own[b] /\ \A q \in Owner : own'[q] = own[q] \/ own'[q] = own[q] \cup {p}
  BY <1>1, <1>2 DEF OwnershipInv, TypeOK
<1>5. \A v \in Vm : <<"vmcs", v>> \in Owner
  BY OwnerShape DEF VmRoles
<1>6. \A v \in Vm : own'[<<"vmcs", v>>] \cap own'[b] = own[<<"vmcs", v>>] \cap own[b]
  <2> HIDE DEF b
  <2> QED
    BY <1>3, <1>4, <1>5
<1> QED
  BY <1>6 DEF SharingVms

LEMMA SharingStep ==
    OwnershipInv /\ [Next]_vars
        => [own[<<"bitmaps", NoVm>>] # {} => SharingVms' = SharingVms]_vars
<1> SUFFICES ASSUME OwnershipInv, Next, own[<<"bitmaps", NoVm>>] # {}
             PROVE  SharingVms' = SharingVms
  OBVIOUS
<1>1. CASE TakeHost
  BY <1>1, TakeUnshared, OwnerShape DEF TakeHost, HostRoles
<1>2. ASSUME NEW v \in Vm, TakeForVm(v) PROVE SharingVms' = SharingVms
  <2>1. PICK role \in {"ept", "pool", "guest"} : Take(<<role, v>>)
    BY <1>2 DEF TakeForVm
  <2>2. <<role, v>> \in Owner
    BY OwnerShape DEF VmRoles
  <2> QED
    BY <1>2, <2>1, <2>2, TakeUnshared DEF TakeForVm
<1>3. ASSUME NEW v \in Vm, UseReserved(v) PROVE SharingVms' = SharingVms
  <2>1. \A w \in Vm : own'[<<"vmcs", w>>] = own[<<"vmcs", w>>]
    BY <1>3, OwnerShape DEF UseReserved, OwnershipInv, TypeOK, VmRoles
  <2>2. own'[<<"bitmaps", NoVm>>] = own[<<"bitmaps", NoVm>>]
    BY <1>3, OwnerShape DEF UseReserved, OwnershipInv, TypeOK, HostRoles
  <2> QED
    BY <2>1, <2>2 DEF SharingVms
<1>4. ASSUME NEW v \in Vm, StartVmcs(v) PROVE SharingVms' = SharingVms
  <2>1. <<"vmcs", v>> \in Owner
    BY OwnerShape DEF VmRoles
  <2> QED
    BY <1>4, <2>1, TakeUnshared DEF StartVmcs
<1>5. ~TakeBitmaps
  BY DEF TakeBitmaps
<1>6. CASE FinishVmcs
  BY <1>6 DEF FinishVmcs, SharingVms
<1> QED
  BY <1>1, <1>2, <1>3, <1>4, <1>5, <1>6 DEF Next

(* A VMCS region is the page of MSR bitmaps only if it was in progress     *)
(* when that page was taken.                                               *)
THEOREM OnlyFirstVmcsEverShared == Spec => OnlyFirstVmcsShared
BY SharingStep, InitOwnership, NextOwnership, PTL DEF Spec, OnlyFirstVmcsShared
=============================================================================
