---------------------------- MODULE GuestMachine ----------------------------
(***************************************************************************)
(* The processor a guest is promised: it runs its own instructions, and    *)
(* the ones the hypervisor emulates take effect as a whole, in one step,   *)
(* with nothing else of its state changed.  It may stop for good at any    *)
(* time (every PANIC of the hypervisor), never half-way.  An iteration of  *)
(* a repeated string instruction is a step of its own, as on hardware.     *)
(***************************************************************************)
EXTENDS X86

CONSTANTS
    RegisterValues, \* values a guest's own instructions put in registers
    SimdValues,     \* ... in the components of the extended state
    MsrValues,      \* ... in model-specific registers
    GuestMsr,       \* the registers the guest may write
    SupportedXcr0,  \* the components of the processor
    HypervisorLeaf, \* the CPUID leaves that are not answered
    CpuidAnswer,    \* what CPUID answers for the others
    Inputs,         \* inputs a device may return
    RipValues       \* rip is counted modulo this

VARIABLES gpr, rsp, rip, df, cr3, cr4, msr, xcr0, simd, mem, bus, alive

guest == <<gpr, rsp, rip, df, cr3, cr4, msr, xcr0, simd, mem, bus, alive>>

Advance == rip' = (rip + 1) % RipValues
Get(r) == IF r = "rsp" THEN rsp ELSE gpr[r]
Put(r, v) ==
    IF r = "rsp" THEN rsp' = v /\ UNCHANGED gpr
    ELSE gpr' = [gpr EXCEPT ![r] = v] /\ UNCHANGED rsp

(* Instructions that run natively.                                         *)
Compute ==
    \/ /\ \E r \in Gpr \cup {"rsp"} : \E v \in RegisterValues[r] : Put(r, v)
       /\ UNCHANGED <<rip, df, cr3, cr4, msr, xcr0, simd, mem, bus, alive>>
    \/ /\ \E c \in xcr0, v \in SimdValues : simd' = [simd EXCEPT ![c] = v]
       /\ UNCHANGED <<gpr, rsp, rip, df, cr3, cr4, msr, xcr0, mem, bus, alive>>
    \/ /\ \E m \in GuestMsr, v \in MsrValues : msr' = [msr EXCEPT ![m] = v]
       /\ UNCHANGED <<gpr, rsp, rip, df, cr3, cr4, xcr0, simd, mem, bus, alive>>
    \/ /\ df' = 1 - df
       /\ UNCHANGED <<gpr, rsp, rip, cr3, cr4, msr, xcr0, simd, mem, bus, alive>>

Cpuid ==
    /\ \/ Low(gpr["rax"]) \in HypervisorLeaf /\ UNCHANGED gpr
       \/ /\ Low(gpr["rax"]) \notin HypervisorLeaf
          /\ gpr' = [gpr EXCEPT !["rax"] = CpuidAnswer, !["rcx"] = CpuidAnswer, !["rdx"] = CpuidAnswer]
    /\ Advance
    /\ UNCHANGED <<rsp, df, cr3, cr4, msr, xcr0, simd, mem, bus, alive>>

(* A CR4 the guest writes is the CR4 it reads back, VMXE included.  A      *)
(* native MOV to CR4 does not count as an emulated instruction for rip.    *)
MovToCr ==
    \E r \in Gpr \cup {"rsp"} :
        \/ cr3' = Get(r) /\ Advance /\ UNCHANGED cr4
        \/ cr4' = Get(r) /\ Advance /\ UNCHANGED cr3
        \/ cr4' = Get(r) /\ UNCHANGED <<rip, cr3>>

MovFromCr ==
    \/ /\ \E r \in Gpr \cup {"rsp"} : Put(r, cr3)
       /\ Advance
    \/ /\ \E r \in Gpr \cup {"rsp"} : Put(r, cr4)
       /\ UNCHANGED rip

ControlRegisters ==
    \/ MovToCr /\ UNCHANGED <<gpr, rsp, df, msr, xcr0, simd, mem, bus, alive>>
    \/ MovFromCr /\ UNCHANGED <<df, cr3, cr4, msr, xcr0, simd, mem, bus, alive>>

XsetbvOperand == Bits((gpr["rdx"] * 2 ^ WordBits) + Low(gpr["rax"]))

XsetbvInstruction ==
    /\ gpr["rcx"] = 0
    /\ XsetbvAccepts(XsetbvOperand, SupportedXcr0)
    /\ xcr0' = XsetbvOperand
    /\ Advance
    /\ UNCHANGED <<gpr, rsp, df, cr3, cr4, msr, simd, mem, bus, alive>>

(* IN writes the low bits of rax, all of it for a doubleword.              *)
In(n, v) ==
    /\ gpr' = [gpr EXCEPT !["rax"] = IF n = WordBits THEN v ELSE @ - (@ % 2 ^ n) + v]
    /\ Advance
    /\ UNCHANGED <<rsp, df, cr3, cr4, msr, xcr0, simd, mem, bus, alive>>

Out(n) ==
    /\ bus' = <<n, gpr["rax"] % 2 ^ n>>
    /\ Advance
    /\ UNCHANGED <<gpr, rsp, df, cr3, cr4, msr, xcr0, simd, mem, alive>>

(* One element of a string instruction.                                    *)
Moved(r, n) == (IF df = 1 THEN gpr[r] - n ELSE gpr[r] + n) % 2 ^ (2 * WordBits)

OutElement(n, count) ==
    /\ {gpr["rsi"], gpr["rsi"] + n - 1} \subseteq DOMAIN mem
    /\ bus' = <<n, Value(mem, gpr["rsi"], n)>>
    /\ gpr' = [gpr EXCEPT !["rsi"] = Moved("rsi", n), !["rcx"] = @ - count]
    /\ UNCHANGED mem

InElement(n, count) ==
    /\ {gpr["rdi"], gpr["rdi"] + n - 1} \subseteq DOMAIN mem
    /\ \E v \in Inputs : mem' = Stored(mem, gpr["rdi"], n, v % 2 ^ n)
    /\ gpr' = [gpr EXCEPT !["rdi"] = Moved("rdi", n), !["rcx"] = @ - count]
    /\ UNCHANGED bus

StringIo ==
    /\ \/ \E n \in IoSize :
             \/ (OutElement(n, 0) \/ InElement(n, 0)) /\ Advance
             \/ gpr["rcx"] > 0 /\ (OutElement(n, 1) \/ InElement(n, 1)) /\ UNCHANGED rip
       \/ gpr["rcx"] = 0 /\ Advance /\ UNCHANGED <<gpr, mem, bus>>
    /\ UNCHANGED <<rsp, df, cr3, cr4, msr, xcr0, simd, alive>>

Stop ==
    /\ alive' = FALSE
    /\ UNCHANGED <<gpr, rsp, rip, df, cr3, cr4, msr, xcr0, simd, mem, bus>>

Next ==
    /\ alive
    /\ \/ Compute
       \/ Cpuid
       \/ ControlRegisters
       \/ XsetbvInstruction
       \/ \E n \in IoSize : Out(n) \/ \E v \in Inputs : In(n, v % 2 ^ n)
       \/ StringIo
       \/ Stop

Init ==
    /\ gpr \in [Gpr -> Register] /\ rsp \in Register
    /\ rip = 0 /\ df = 0 /\ cr3 \in Register /\ cr4 \in Register
    /\ xcr0 = {0}
    /\ simd = [c \in Component |-> 0]
    /\ mem \in [0 .. PageCells - 1 -> 0 .. 1]
    /\ bus = <<0, 0>>
    /\ alive = TRUE

Spec == Init /\ [][Next]_guest
=============================================================================
