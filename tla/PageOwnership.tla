--------------------------- MODULE PageOwnership ---------------------------
(***************************************************************************)
(* Who owns which physical page: the promise HostMemory is checked to keep.*)
(* A page is given to an owner when no mm_page_used_by_* predicate claims  *)
(* it.  An owner is <<role, vm>>, with NoVm for the hypervisor's own roles.*)
(*                                                                         *)
(* One window is part of the promise because the code opens it: the VMCS   *)
(* region of a virtual machine is claimed only once its initialisation is  *)
(* complete (VM_T_FLAG_VMCS_INITIALIZED), and the page of MSR bitmaps is   *)
(* taken before that, so the two may be one page.                          *)
(***************************************************************************)
EXTENDS FiniteSets

CONSTANTS
    Page,        \* the usable pages and those the bootloader left in use
    Usable,      \* the pages of the usable descriptors
    Chainloads,  \* the sets of pages the bootloader may have left in use
    Vm,          \* the virtual machines
    NoVm         \* none of them

ASSUME OwnershipConstants ==
    /\ Usable \subseteq Page
    /\ Chainloads \subseteq SUBSET Page
    /\ NoVm \notin Vm

HostRoles == {"chainload", "arena", "vmxon", "bitmaps"}
VmRoles == {"vmcs", "ept", "pool", "guest"}

Owner == (HostRoles \X {NoVm}) \cup (VmRoles \X Vm)

VARIABLES
    own,     \* own[o]: the pages of owner o
    pending  \* the virtual machine whose VMCS is being initialised, as a set

vars == <<own, pending>>

(* Mutation: mm_page_is_free does not ask the VM manager.                  *)
Claimed_NoVmManager == UNION {own[o] : o \in HostRoles \X {NoVm}}

(* What the predicates claim: everything but the VMCS region in progress.  *)
Claimed == UNION {own[o] : o \in Owner \ ({"vmcs"} \X pending)}

Init ==
    /\ \E c \in Chainloads :
          own = [o \in Owner |-> IF o = <<"chainload", NoVm>> THEN c ELSE {}]
    /\ pending = {}

(* mm_get_free_page on behalf of owner o.                                  *)
Take(o) ==
    \E p \in Usable \ Claimed : own' = [own EXCEPT ![o] = @ \cup {p}]

(* arena_create and vmx_get_vmxon_region.                                  *)
TakeHost ==
    /\ pending = {}
    /\ Take(<<"arena", NoVm>>) \/ Take(<<"vmxon", NoVm>>)
    /\ UNCHANGED pending

(* The pages of the reserved pool, the EPT and the guest.                  *)
TakeForVm(v) ==
    /\ pending = {}
    /\ \E role \in {"ept", "pool", "guest"} : Take(<<role, v>>)
    /\ UNCHANGED pending

(* A page of the reserved pool becomes an EPT page of the same machine.    *)
UseReserved(v) ==
    /\ pending = {}
    /\ \E p \in own[<<"pool", v>>] :
          own' = [own EXCEPT ![<<"pool", v>>] = @ \ {p}, ![<<"ept", v>>] = @ \cup {p}]
    /\ UNCHANGED pending

StartVmcs(v) ==
    /\ pending = {}
    /\ own[<<"vmcs", v>>] = {}
    /\ Take(<<"vmcs", v>>)
    /\ pending' = {v}

(* Mutation: every machine gets a page of MSR bitmaps.                     *)
TakeBitmaps_Again ==
    /\ pending # {}
    /\ Take(<<"bitmaps", NoVm>>)
    /\ UNCHANGED pending

(* The page of MSR bitmaps is one for all machines.                        *)
TakeBitmaps ==
    /\ pending # {}
    /\ own[<<"bitmaps", NoVm>>] = {}
    /\ Take(<<"bitmaps", NoVm>>)
    /\ UNCHANGED pending

FinishVmcs ==
    /\ pending # {}
    /\ pending' = {}
    /\ UNCHANGED own

Next ==
    \/ TakeHost
    \/ \E v \in Vm : TakeForVm(v) \/ UseReserved(v) \/ StartVmcs(v)
    \/ TakeBitmaps
    \/ FinishVmcs

Spec == Init /\ [][Next]_vars

-----------------------------------------------------------------------------
TypeOK == own \in [Owner -> SUBSET Page] /\ pending \in SUBSET Vm

Shared(o1, o2) == o1[1] = "vmcs" /\ o2[1] = "bitmaps"

(* Apart from a VMCS region and the page of MSR bitmaps, no page has two   *)
(* owners.                                                                 *)
Exclusive ==
    \A o1, o2 \in Owner :
        o1 # o2 /\ ~Shared(o1, o2) /\ ~Shared(o2, o1) => own[o1] \cap own[o2] = {}

(* The window opens once: from the moment the page of MSR bitmaps exists,  *)
(* the machines whose VMCS region is that page stay the same, so a VMCS    *)
(* set up later, whose own region is as unprotected while its              *)
(* initialisation is in progress, is never shared.                         *)
SharingVms ==
    {v \in Vm : own[<<"vmcs", v>>] \cap own[<<"bitmaps", NoVm>>] # {}}

OnlyFirstVmcsShared ==
    [][own[<<"bitmaps", NoVm>>] # {} => SharingVms' = SharingVms]_vars
=============================================================================
