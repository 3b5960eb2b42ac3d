---------------------------- MODULE WorldSwitch ----------------------------
(***************************************************************************)
(* Entering and leaving a guest: vm_manager_launch and vmx_vmlaunch, the   *)
(* VM-exit path of vmx_vmexit.asm, vmx_vmexit_handler with the emulated    *)
(* instructions, the MSR and XSAVE switching, and VMRESUME.  One guest     *)
(* runs on one processor; the steps of the hypervisor are taken one after  *)
(* the other, and what is checked is what each side finds in the registers *)
(* the other one has used.                                                 *)
(***************************************************************************)
EXTENDS X86

CONSTANTS
    Programs,       \* what guests do: the values they load, the exits they cause
    RipValues,      \* rip is counted modulo this
    VmcsMsr,        \* X_VMCS of VMX_MSR_LIST: switched by VMX itself
    RwbkMsr,        \* X_RWBK: switched by vmx_msr_vmexit and vmx_msr_vmresume
    OtherMsr,       \* registers that are not in VMX_MSR_LIST
    HostMsrValue,   \* what the host keeps in its MSRs
    SupportedXcr0,  \* what CPUID lets xsave_setup put in xsave_host_xcr0
    HypervisorLeaf, \* low word of the leaves 40000000H to 4FFFFFFFH
    CpuidAnswer,    \* what the processor answers to CPUID ...
    OuterAnswer     \* ... and what the hypervisor below it does

(* VMX_MSR_LIST, and the registers whose values stay on the processor.     *)
Msr == VmcsMsr \cup RwbkMsr
CpuMsr == RwbkMsr \cup OtherMsr

ASSUME SwitchConstants ==
    /\ VmcsMsr \cap RwbkMsr = {} /\ Msr \cap OtherMsr = {}
    /\ Msr \cup OtherMsr \subseteq LowMsr \cup HighMsr
    /\ 0 \in SupportedXcr0 /\ SupportedXcr0 \subseteq Component
    /\ RipValues \in Nat \ {0}
    /\ HypervisorLeaf \subseteq 0 .. 2 ^ WordBits - 1
    /\ {CpuidAnswer, OuterAnswer} \subseteq Register
    /\ \A g \in Programs :
          /\ g.operands \subseteq Gpr \cup {"rsp"}       \* of MOV to and from CR
          /\ g.inputs \subseteq 0 .. 2 ^ WordBits - 1     \* what its devices answer
          /\ \A r \in Gpr \cup {"rsp"} : g.registers[r] \subseteq Register

VARIABLES
    program,    \* the guest's program, one of Programs
    pc,         \* where the processor is
    panicked,   \* it has halted there
    exit,       \* the VM-exit being handled
    cpu,        \* registers of the processor: gpr, simd, xcr0, msr (RWBK)
    vmcs,       \* guest state area of the VMCS, and the CR4 read shadow
    frame,      \* what vmx_vmexit.asm keeps on the stack: gpr, xsave area
    vm_state,   \* the handler's copy of the guest's state
    permanent,  \* vm->permanent_state.xcr0
    backup,     \* vmx_msr_host_backup
    mem,        \* the guest's memory
    bus         \* what was written last to an I/O port: size, value

vars == <<program, pc, panicked, exit, cpu, vmcs, frame, vm_state, permanent, backup, mem, bus>>

(* What a register holds after other code has used it.                     *)
Clobbered == -1
ClobberedGpr == [r \in Gpr |-> Clobbered]
ClobberedSimd == [c \in Component |-> IF c \in SupportedXcr0 THEN Clobbered ELSE 0]

(* The exits a guest can cause, with what the exit qualification says.     *)
NoExit == [reason |-> "none", reg |-> "rax", size |-> 1, kind |-> "single"]
Exits ==
    [reason : {"CPUID", "XSETBV", "unsupported"}, reg : {"rax"}, size : {1}, kind : {"single"}]
        \cup [reason : {"TO_CR3", "FROM_CR3", "TO_CR4"}, reg : Gpr \cup {"rsp"}, size : {1}, kind : {"single"}]
        \cup [reason : {"IN", "OUT"}, reg : {"rax"}, size : IoSize, kind : {"single", "string", "rep"}]

NoFrame == [gpr |-> [r \in Gpr |-> 0], xsave |-> [c \in Component |-> 0]]
NoState == [rip |-> 0, rsp |-> 0, rflags |-> 0, cr3 |-> 0, cr4 |-> 0,
            msr |-> [m \in VmcsMsr |-> 0], rwbk |-> [m \in RwbkMsr |-> 0]]

(* The host's own registers.  xsave_setup has enabled in XCR0 all that     *)
(* CPUID reports, and the XSAVE area is as large as that needs.            *)
HostCpu == [gpr |-> ClobberedGpr, simd |-> ClobberedSimd, xcr0 |-> SupportedXcr0,
            msr |-> [m \in CpuMsr |-> HostMsrValue]]

Init ==
    /\ program \in Programs
    /\ pc = "host" /\ panicked = FALSE
    /\ exit = NoExit
    /\ cpu = HostCpu
    /\ vmcs = [rip |-> 0, rsp |-> 0, rflags |-> 0, cr3 |-> 0, cr4 |-> 2, cr4_read_shadow |-> 1,
               msr |-> [m \in VmcsMsr |-> 0]]
    /\ frame = NoFrame
    /\ vm_state = NoState
    /\ permanent = {0}
    /\ backup = [m \in RwbkMsr |-> Clobbered]
    /\ mem = [a \in 0 .. PageCells - 1 |-> a % 2]
    /\ bus = <<0, 0>>

At(place) == ~panicked /\ pc = place

Panic ==
    /\ panicked' = TRUE
    /\ UNCHANGED <<pc, exit, cpu, vmcs, frame, vm_state, permanent, backup, mem, bus>>

-----------------------------------------------------------------------------
(* vmx_msr_init_bitmaps: every write of an MSR exits, except to the ones   *)
(* of VMX_MSR_LIST, whose bit is cleared.                                  *)
ClearedBits ==
    {IF m < MSR_HIGH_BASE THEN <<"low", m \div ByteBits, m % ByteBits>>
     ELSE <<"high", (m - MSR_HIGH_BASE) \div ByteBits, (m - MSR_HIGH_BASE) % ByteBits>> : m \in Msr}

NativeWrmsr(m) == WriteBit(m) \in ClearedBits

(* vmx_msr_vmlaunch, vmx_msr_vmexit and vmx_msr_vmresume, for the RWBK     *)
(* registers; VMX and the handler's vmread switch the others.              *)
MsrBackup == [m \in RwbkMsr |-> cpu.msr[m]]
MsrLoaded(values) == [m \in CpuMsr |-> IF m \in RwbkMsr THEN values[m] ELSE cpu.msr[m]]

-----------------------------------------------------------------------------
(* vm_manager_launch: the host's MSRs are backed up, the extended state is *)
(* reset under the host's XCR0, the guest's XCR0 and registers are loaded. *)
Launch ==
    /\ At("host")
    /\ pc' = "guest"
    /\ backup' = MsrBackup
    /\ cpu' = [cpu EXCEPT !.gpr = NoFrame.gpr, !.xcr0 = permanent,
                          !.simd = Xrstor(cpu.xcr0, NoFrame.xsave, @)]
    /\ UNCHANGED <<panicked, exit, vmcs, frame, vm_state, permanent, mem, bus>>

(* VMX_ASSERT panics when an instruction of VMX reports an error: VMPTRLD  *)
(* and VMLAUNCH here, VMREAD and VMWRITE at both ends of the handler, and  *)
(* the VMWRITE of the CR4 read shadow.                                     *)
VmxAssertFails ==
    /\ ~panicked
    /\ pc \in {"host", "handler", "resume"} \/ (pc = "emulate" /\ exit.reason = "TO_CR4")
    /\ Panic

-----------------------------------------------------------------------------
(* The guest (external).  Its rip, rsp, rflags, control registers and VMCS *)
(* MSRs are kept in vmcs, where VMX saves them on exit.                    *)
Get(r) == IF r = "rsp" THEN vmcs.rsp ELSE cpu.gpr[r]
Put(r, v) ==
    IF r = "rsp" THEN vmcs' = [vmcs EXCEPT !.rsp = v] /\ UNCHANGED cpu
    ELSE cpu' = [cpu EXCEPT !.gpr[r] = v] /\ UNCHANGED vmcs

GuestCr4 == WithVmxe(vmcs.cr4, vmcs.cr4_read_shadow)

(* CR4 is written without an exit when VMXE agrees with the read shadow.   *)
GuestComputes ==
    /\ At("guest")
    /\ \/ \E r \in Gpr \cup {"rsp"} : \E v \in program.registers[r] : Put(r, v)
       \/ \E r \in program.operands : Put(r, GuestCr4)
       \/ \E c \in cpu.xcr0, v \in program.simd : cpu' = [cpu EXCEPT !.simd[c] = v] /\ UNCHANGED vmcs
       \/ \E m \in {m \in CpuMsr : NativeWrmsr(m)}, v \in program.msrs :
             cpu' = [cpu EXCEPT !.msr[m] = v] /\ UNCHANGED vmcs
       \/ \E m \in {m \in VmcsMsr : NativeWrmsr(m)}, v \in program.msrs :
             vmcs' = [vmcs EXCEPT !.msr[m] = v] /\ UNCHANGED cpu
       \/ vmcs' = [vmcs EXCEPT !.rflags = 1 - @] /\ UNCHANGED cpu
       \/ \E r \in program.operands :
             /\ Vmxe(Get(r)) = vmcs.cr4_read_shadow
             /\ vmcs' = [vmcs EXCEPT !.cr4 = WithVmxe(Get(r), Vmxe(@))]
             /\ UNCHANGED cpu
    /\ UNCHANGED <<pc, panicked, exit, frame, vm_state, permanent, backup, mem, bus>>

VmExit(e) ==
    /\ At("guest")
    /\ e.reason \in program.reasons
    /\ e.reason \in {"TO_CR3", "FROM_CR3", "TO_CR4"} => e.reg \in program.operands
    /\ e.reason = "TO_CR4" => Vmxe(Get(e.reg)) # vmcs.cr4_read_shadow
    /\ pc' = "exit" /\ exit' = e
    /\ UNCHANGED <<panicked, cpu, vmcs, frame, vm_state, permanent, backup, mem, bus>>

-----------------------------------------------------------------------------
(* vmx_vmexit.asm up to the call: registers pushed, host XCR0, XSAVE.      *)

SaveGuest ==
    /\ At("exit")
    /\ pc' = "handler"
    /\ frame' = [gpr |-> cpu.gpr, xsave |-> Xsave(SupportedXcr0, cpu.simd)]
    /\ cpu' = [cpu EXCEPT !.gpr = ClobberedGpr, !.xcr0 = SupportedXcr0]
    /\ UNCHANGED <<panicked, exit, vmcs, vm_state, permanent, backup, mem, bus>>

(* vmx_vmexit_handler up to the switch: the VMCS is read, vmx_msr_vmexit.  *)

(* Mutation: the host's MSRs are not written back.                         *)
EnterHandler_KeepsMsrs ==
    /\ At("handler")
    /\ pc' = "emulate"
    /\ vm_state' = [rip |-> vmcs.rip, rsp |-> vmcs.rsp, rflags |-> vmcs.rflags, cr3 |-> vmcs.cr3,
                    cr4 |-> vmcs.cr4, msr |-> vmcs.msr, rwbk |-> MsrBackup]
    /\ cpu' = [cpu EXCEPT !.simd = ClobberedSimd]
    /\ UNCHANGED <<panicked, exit, vmcs, frame, permanent, backup, mem, bus>>

EnterHandler ==
    /\ At("handler")
    /\ pc' = "emulate"
    /\ vm_state' = [rip |-> vmcs.rip, rsp |-> vmcs.rsp, rflags |-> vmcs.rflags, cr3 |-> vmcs.cr3,
                    cr4 |-> vmcs.cr4, msr |-> vmcs.msr, rwbk |-> MsrBackup]
    /\ cpu' = [cpu EXCEPT !.msr = MsrLoaded(backup), !.simd = ClobberedSimd]
    /\ UNCHANGED <<panicked, exit, vmcs, frame, permanent, backup, mem, bus>>

-----------------------------------------------------------------------------
(* The switch of vmx_vmexit_handler.                                       *)
Handling(reason) == At("emulate") /\ exit.reason = reason

NextRip == (vm_state.rip + 1) % RipValues
Reg(r) == IF r = "rsp" THEN vm_state.rsp ELSE frame.gpr[r]

(* vm_emulated_instruction_cpuid compares the whole of rax; the processor  *)
(* looks at eax.                                                           *)
CpuidResult(rax) == IF Low(rax) \in HypervisorLeaf THEN OuterAnswer ELSE CpuidAnswer

EmulateCpuid ==
    /\ Handling("CPUID")
    /\ LET a == CpuidResult(frame.gpr["rax"])
       IN  frame' = IF frame.gpr["rax"] \in HypervisorLeaf THEN frame
                    ELSE [frame EXCEPT !.gpr["rax"] = a, !.gpr["rcx"] = a, !.gpr["rdx"] = a]
    /\ vm_state' = [vm_state EXCEPT !.rip = NextRip]
    /\ pc' = "resume"
    /\ UNCHANGED <<panicked, exit, cpu, vmcs, permanent, backup, mem, bus>>

(* vm_emulated_instruction_mov_to_cr                                       *)
EmulateMovToCr3 ==
    /\ Handling("TO_CR3")
    /\ vm_state' = [vm_state EXCEPT !.cr3 = Reg(exit.reg), !.rip = NextRip]
    /\ pc' = "resume"
    /\ UNCHANGED <<panicked, exit, cpu, vmcs, frame, permanent, backup, mem, bus>>

(* Mutation: CR4.VMXE takes the value the guest asks for.                  *)
EmulateMovToCr4_ClearsVmxe ==
    /\ Handling("TO_CR4")
    /\ vm_state' = [vm_state EXCEPT !.cr4 = Reg(exit.reg), !.rip = NextRip]
    /\ vmcs' = [vmcs EXCEPT !.cr4_read_shadow = Vmxe(Reg(exit.reg))]
    /\ pc' = "resume"
    /\ UNCHANGED <<panicked, exit, cpu, frame, permanent, backup, mem, bus>>

EmulateMovToCr4 ==
    /\ Handling("TO_CR4")
    /\ vm_state' = [vm_state EXCEPT !.cr4 = WithVmxe(Reg(exit.reg), 1), !.rip = NextRip]
    /\ vmcs' = [vmcs EXCEPT !.cr4_read_shadow = Vmxe(Reg(exit.reg))]
    /\ pc' = "resume"
    /\ UNCHANGED <<panicked, exit, cpu, frame, permanent, backup, mem, bus>>

(* vm_emulated_instruction_mov_from_cr                                     *)
EmulateMovFromCr3 ==
    /\ Handling("FROM_CR3")
    /\ vm_state' = [vm_state EXCEPT !.rsp = IF exit.reg = "rsp" THEN vm_state.cr3 ELSE @, !.rip = NextRip]
    /\ frame' = IF exit.reg = "rsp" THEN frame ELSE [frame EXCEPT !.gpr[exit.reg] = vm_state.cr3]
    /\ pc' = "resume"
    /\ UNCHANGED <<panicked, exit, cpu, vmcs, permanent, backup, mem, bus>>

(* vm_emulated_instruction_xsetbv                                          *)
NewXcr0 == Bits((frame.gpr["rdx"] * 2 ^ WordBits) + Low(frame.gpr["rax"]))

(* Mutation: XCR0[2:1] = 10 is let through.                                *)
XsetbvAllowed_AvxAlone == frame.gpr["rcx"] = 0 /\ 0 \in NewXcr0 /\ NewXcr0 \subseteq SupportedXcr0

XsetbvAllowed ==
    /\ frame.gpr["rcx"] = 0
    /\ 0 \in NewXcr0
    /\ NewXcr0 \subseteq SupportedXcr0
    /\ NewXcr0 \cap {1, 2} # {2}

EmulateXsetbv ==
    /\ Handling("XSETBV")
    /\ XsetbvAllowed
    /\ permanent' = NewXcr0
    /\ vm_state' = [vm_state EXCEPT !.rip = NextRip]
    /\ pc' = "resume"
    /\ UNCHANGED <<panicked, exit, cpu, vmcs, frame, backup, mem, bus>>

(* vm_emulated_instruction_{in,out}{b,w,d}: the device answers any value.  *)
Truncated(v, n) == v % 2 ^ n

EmulateOut ==
    /\ Handling("OUT") /\ exit.kind = "single"
    /\ bus' = <<exit.size, Truncated(frame.gpr["rax"], exit.size)>>
    /\ vm_state' = [vm_state EXCEPT !.rip = NextRip]
    /\ pc' = "resume"
    /\ UNCHANGED <<panicked, exit, cpu, vmcs, frame, permanent, backup, mem>>

(* The mask of the doubleword is the unsigned ~0xffffffff, that is, 0.     *)
Kept(rax, n) == IF n = WordBits THEN 0 ELSE rax - Truncated(rax, n)

EmulateIn ==
    /\ Handling("IN") /\ exit.kind = "single"
    /\ \E v \in program.inputs :
          frame' = [frame EXCEPT !.gpr["rax"] = Kept(@, exit.size) + Truncated(v, exit.size)]
    /\ vm_state' = [vm_state EXCEPT !.rip = NextRip]
    /\ pc' = "resume"
    /\ UNCHANGED <<panicked, exit, cpu, vmcs, permanent, backup, mem, bus>>

-----------------------------------------------------------------------------
(* The string instructions.  An address of the guest resolves when its     *)
(* page is mapped and the element does not cross into the next one; one    *)
(* that does not stands for the PANIC on a guest not in long mode, too.    *)
Resolves(a, n) == a \in DOMAIN mem /\ SamePage(a, n)

(* Mutation: the pointer does not wrap around.                             *)
Stepped_NoWrap(v, n) == IF vm_state.rflags = 1 THEN v - n ELSE v + n

Stepped(v, n) ==
    (IF vm_state.rflags = 1 THEN v - n ELSE v + n) % 2 ^ (2 * WordBits)

(* One element; count is what is taken off rcx.                            *)
OutElement(count) ==
    /\ exit.reason = "OUT"
    /\ Resolves(frame.gpr["rsi"], exit.size)
    /\ bus' = <<exit.size, Value(mem, frame.gpr["rsi"], exit.size)>>
    /\ frame' = [frame EXCEPT !.gpr["rsi"] = Stepped(@, exit.size), !.gpr["rcx"] = @ - count]
    /\ UNCHANGED mem

InElement(count) ==
    /\ exit.reason = "IN"
    /\ Resolves(frame.gpr["rdi"], exit.size)
    /\ \E v \in program.inputs : mem' = Stored(mem, frame.gpr["rdi"], exit.size, Truncated(v, exit.size))
    /\ frame' = [frame EXCEPT !.gpr["rdi"] = Stepped(@, exit.size), !.gpr["rcx"] = @ - count]
    /\ UNCHANGED bus

EmulateString ==
    /\ At("emulate") /\ exit.kind = "string"
    /\ OutElement(0) \/ InElement(0)
    /\ vm_state' = [vm_state EXCEPT !.rip = NextRip]
    /\ pc' = "resume"
    /\ UNCHANGED <<panicked, exit, cpu, vmcs, permanent, backup>>

(* Mutation: the registers advanced are those of a copy of the frame.      *)
EmulateRepStep_OnCopy ==
    /\ At("emulate") /\ exit.kind = "rep"
    /\ frame.gpr["rcx"] # 0
    /\ \/ /\ exit.reason = "OUT"
          /\ Resolves(frame.gpr["rsi"], exit.size)
          /\ bus' = <<exit.size, Value(mem, frame.gpr["rsi"], exit.size)>>
       \/ /\ exit.reason = "IN"
          /\ Resolves(frame.gpr["rdi"], exit.size)
          /\ UNCHANGED bus
    /\ UNCHANGED <<pc, panicked, exit, cpu, vmcs, frame, vm_state, permanent, backup, mem>>

EmulateRepStep ==
    /\ At("emulate") /\ exit.kind = "rep"
    /\ frame.gpr["rcx"] # 0
    /\ OutElement(1) \/ InElement(1)
    /\ UNCHANGED <<pc, panicked, exit, cpu, vmcs, vm_state, permanent, backup>>

EmulateRepEnd ==
    /\ At("emulate") /\ exit.kind = "rep"
    /\ frame.gpr["rcx"] = 0
    /\ vm_state' = [vm_state EXCEPT !.rip = NextRip]
    /\ pc' = "resume"
    /\ UNCHANGED <<panicked, exit, cpu, vmcs, frame, permanent, backup, mem, bus>>

(* The PANICs of the handler: RDMSR, WRMSR, HLT, an unknown reason or      *)
(* qualification; an XCR0 that is refused; an address that does not        *)
(* resolve.                                                                *)
HandlerPanics ==
    /\ At("emulate")
    /\ \/ exit.reason = "unsupported"
       \/ exit.reason = "XSETBV" /\ ~XsetbvAllowed
       \/ /\ exit.kind = "string" \/ (exit.kind = "rep" /\ frame.gpr["rcx"] # 0)
          /\ ~Resolves(frame.gpr[IF exit.reason = "IN" THEN "rdi" ELSE "rsi"], exit.size)
    /\ Panic

-----------------------------------------------------------------------------
(* The end of vmx_vmexit_handler: the VMCS is written, vmx_msr_vmresume.   *)
LeaveHandler ==
    /\ At("resume")
    /\ pc' = "return"
    /\ vmcs' = [vmcs EXCEPT !.rip = vm_state.rip, !.rsp = vm_state.rsp, !.rflags = vm_state.rflags,
                            !.cr3 = vm_state.cr3, !.cr4 = vm_state.cr4, !.msr = vm_state.msr]
    /\ backup' = MsrBackup
    /\ cpu' = [cpu EXCEPT !.msr = MsrLoaded(vm_state.rwbk)]
    /\ vm_state' = NoState
    /\ UNCHANGED <<panicked, exit, frame, permanent, mem, bus>>

(* The rest of vmx_vmexit.asm: XRSTOR, the guest's XCR0, registers, then   *)
(* VMRESUME.  XSETBV faults on a set it does not accept (XsetbvSafe).      *)

(* Mutation: XRSTOR runs under the guest's XCR0.                           *)
ResumeGuest_XrstorLast ==
    /\ At("return")
    /\ XsetbvAccepts(permanent, SupportedXcr0)
    /\ pc' = "guest" /\ exit' = NoExit
    /\ cpu' = [cpu EXCEPT !.gpr = frame.gpr, !.xcr0 = permanent,
                          !.simd = Xrstor(permanent, frame.xsave, @)]
    /\ frame' = NoFrame
    /\ UNCHANGED <<panicked, vmcs, vm_state, permanent, backup, mem, bus>>

ResumeGuest ==
    /\ At("return")
    /\ XsetbvAccepts(permanent, SupportedXcr0)
    /\ pc' = "guest" /\ exit' = NoExit
    /\ cpu' = [cpu EXCEPT !.gpr = frame.gpr, !.xcr0 = permanent,
                          !.simd = Xrstor(cpu.xcr0, frame.xsave, @)]
    /\ frame' = NoFrame
    /\ UNCHANGED <<panicked, vmcs, vm_state, permanent, backup, mem, bus>>

(* VMRESUME reports an error: the processor is halted.                     *)
ResumeFails ==
    /\ At("return")
    /\ XsetbvAccepts(permanent, SupportedXcr0)
    /\ Panic

HypervisorStep ==
    \/ Launch \/ VmxAssertFails
    \/ SaveGuest \/ EnterHandler
    \/ EmulateCpuid \/ EmulateMovToCr3 \/ EmulateMovToCr4 \/ EmulateMovFromCr3
    \/ EmulateXsetbv \/ EmulateOut \/ EmulateIn
    \/ EmulateString \/ EmulateRepStep \/ EmulateRepEnd
    \/ HandlerPanics
    \/ LeaveHandler \/ ResumeGuest \/ ResumeFails

Next ==
    /\ GuestComputes \/ (\E e \in Exits : VmExit(e)) \/ HypervisorStep
    /\ UNCHANGED program

Spec == Init /\ [][Next]_vars

(* The hypervisor runs with interrupts off and is never stopped.           *)
FairSpec == Spec /\ WF_vars(HypervisorStep /\ UNCHANGED program)

-----------------------------------------------------------------------------
(* Registers hold register values, XCR0 always has x87.                    *)
TypeOK ==
    /\ pc \in {"host", "guest", "exit", "handler", "emulate", "resume", "return"}
    /\ exit \in Exits \cup {NoExit}
    /\ \A r \in Gpr : cpu.gpr[r] \in Register \cup {Clobbered} /\ frame.gpr[r] \in Register
    /\ cpu.xcr0 \subseteq SupportedXcr0 /\ permanent \subseteq SupportedXcr0 /\ 0 \in permanent
    /\ {vmcs.rsp, vmcs.cr3, vmcs.cr4, vm_state.rsp, vm_state.cr3, vm_state.cr4} \subseteq Register
    /\ {vmcs.rip, vm_state.rip} \subseteq 0 .. RipValues - 1
    /\ mem \in [0 .. PageCells - 1 -> 0 .. 1]

(* From vmx_msr_vmexit to vmx_msr_vmresume the host runs with its own XCR0 *)
(* and MSRs, whatever the guest wrote to its own in any number of earlier  *)
(* exits: an MSR it can write without an exit is one that is switched.     *)
(* The VMREADs before and the VMWRITEs after run with the guest's MSRs.    *)
HostIntact ==
    pc \in {"emulate", "resume"} =>
        cpu.xcr0 = SupportedXcr0 /\ cpu.msr = [m \in CpuMsr |-> HostMsrValue]

(* The guest never runs with CR4.VMXE clear (VM entry would fail), even    *)
(* after it was told that its own write cleared it.                        *)
VmxeKept == pc = "guest" => Vmxe(vmcs.cr4) = 1

(* The XSETBV of vmx_vmexit.asm never faults: vm_emulated_instruction_     *)
(* xsetbv has refused every XCR0 the processor refuses ("new guest XCR0    *)
(* set unsupported bits").  It knows the rules of CheckedComponent only.   *)
XsetbvSafe == XsetbvAccepts(permanent, SupportedXcr0)

(* The leaves of the hypervisor below are never answered ("We              *)
(* intentionally suppress them").                                          *)
CpuidHidden == \A r \in Gpr : OuterAnswer \notin {frame.gpr[r], cpu.gpr[r]}

(* Every exit ends, back in the guest or in a panic.                       *)
ExitsEnd == pc # "guest" ~> (pc = "guest" \/ panicked)

-----------------------------------------------------------------------------
(* Where the guest's state is at each point of the switch.                 *)
OnCpu == pc \in {"guest", "exit"}
InState == pc \in {"emulate", "resume"}

Guest == INSTANCE GuestMachine WITH
    GuestMsr <- Msr,
    RegisterValues <- [r \in Gpr \cup {"rsp"} |-> UNION {g.registers[r] : g \in Programs}],
    SimdValues <- UNION {g.simd : g \in Programs},
    MsrValues <- UNION {g.msrs : g \in Programs},
    Inputs <- UNION {g.inputs : g \in Programs},
    gpr <- IF OnCpu THEN cpu.gpr ELSE frame.gpr,
    rsp <- IF InState THEN vm_state.rsp ELSE vmcs.rsp,
    rip <- IF InState THEN vm_state.rip ELSE vmcs.rip,
    df <- IF InState THEN vm_state.rflags ELSE vmcs.rflags,
    cr3 <- IF InState THEN vm_state.cr3 ELSE vmcs.cr3,
    cr4 <- WithVmxe(IF InState THEN vm_state.cr4 ELSE vmcs.cr4, vmcs.cr4_read_shadow),
    msr <- [m \in Msr |-> IF m \in VmcsMsr THEN IF InState THEN vm_state.msr[m] ELSE vmcs.msr[m]
                          ELSE IF InState THEN vm_state.rwbk[m] ELSE cpu.msr[m]],
    xcr0 <- IF OnCpu THEN cpu.xcr0 ELSE permanent,
    simd <- IF OnCpu THEN cpu.simd ELSE frame.xsave,
    alive <- ~panicked

(* A guest cannot tell that it is interrupted: every VM-exit, whatever it  *)
(* went through, looks like one step of the processor it is promised.      *)
GuestUndisturbed == Guest!Spec
=============================================================================
