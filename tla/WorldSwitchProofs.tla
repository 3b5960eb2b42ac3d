------------------------- MODULE WorldSwitchProofs -------------------------
(***************************************************************************)
(* The host finds its own state on every VM-exit, and the guest its own on *)
(* every VM entry, for all guests and all assignments of MSRs.             *)
(***************************************************************************)
EXTENDS WorldSwitch, TLAPS

(* What extended state and MSRs may hold.                                  *)
SimdContent == (UNION {g.simd : g \in Programs}) \cup {0, Clobbered}
MsrContent == (UNION {g.msrs : g \in Programs}) \cup {0, Clobbered, HostMsrValue}

Place == {"host", "guest", "exit", "handler", "emulate", "resume", "return"}
RipValue == 0 .. RipValues - 1

CpuType == [gpr : [Gpr -> Register \cup {Clobbered}], simd : [Component -> SimdContent],
            xcr0 : SUBSET SupportedXcr0, msr : [CpuMsr -> MsrContent]]
VmcsType == [rip : RipValue, rsp : Register, rflags : {0, 1}, cr3 : Register, cr4 : Register,
             cr4_read_shadow : {0, 1}, msr : [VmcsMsr -> MsrContent]]
FrameType == [gpr : [Gpr -> Register], xsave : [Component -> SimdContent]]
StateType == [rip : RipValue, rsp : Register, rflags : {0, 1}, cr3 : Register, cr4 : Register,
              msr : [VmcsMsr -> MsrContent], rwbk : [RwbkMsr -> MsrContent]]

Typed ==
    /\ program \in Programs /\ pc \in Place /\ panicked \in BOOLEAN
    /\ exit \in Exits \cup {NoExit}
    /\ cpu \in CpuType /\ vmcs \in VmcsType /\ frame \in FrameType /\ vm_state \in StateType
    /\ permanent \in SUBSET SupportedXcr0 /\ 0 \in permanent
    /\ backup \in [RwbkMsr -> MsrContent]
    /\ mem \in [0 .. PageCells - 1 -> 0 .. 1]

(* The guest's registers are on the processor only between VM entry and    *)
(* the first instructions of vmx_vmexit.asm.                               *)
GuestRegisters == pc \in {"guest", "exit"} => cpu.gpr \in [Gpr -> Register]

(* Where the host's XCR0 and MSRs are at each point.                       *)
HostState ==
    /\ pc \in {"host", "handler", "emulate", "resume", "return"} => cpu.xcr0 = SupportedXcr0
    /\ pc \in {"host", "emulate", "resume"} => \A m \in CpuMsr : cpu.msr[m] = HostMsrValue
    /\ pc \in {"guest", "exit", "handler", "return"} =>
          /\ \A m \in RwbkMsr : backup[m] = HostMsrValue
          /\ \A m \in OtherMsr : cpu.msr[m] = HostMsrValue

VmxeSet ==
    /\ Vmxe(vmcs.cr4) = 1
    /\ pc \in {"emulate", "resume"} => Vmxe(vm_state.cr4) = 1

SwitchInv == Typed /\ GuestRegisters /\ HostState /\ VmxeSet

-----------------------------------------------------------------------------
LEMMA RegisterRange == Register = 0 .. 255
BY DEF Register, WordBits

LEMMA PowersOfTwo ==
    /\ 2 ^ WordBits = 16 /\ 2 ^ (2 * WordBits) = 256
    /\ \A n \in IoSize : 2 ^ n \in {2, 4, 16}
<1>1. 2 ^ WordBits = 16 /\ 2 ^ (2 * WordBits) = 256
  BY DEF WordBits
<1>2. 2 ^ 1 = 2 /\ 2 ^ 2 = 4 /\ 2 ^ 4 = 16
  OBVIOUS
<1> QED
  BY <1>1, <1>2 DEF IoSize

LEMMA VmxeBit == \A v \in Register : Vmxe(v) \in {0, 1}
BY RegisterRange DEF Vmxe

LEMMA WithVmxeBit ==
    \A v \in Register, b \in {0, 1} : WithVmxe(v, b) \in Register /\ Vmxe(WithVmxe(v, b)) = b
BY RegisterRange DEF Vmxe, WithVmxe

LEMMA ExitShape ==
    \A e \in Exits \cup {NoExit} :
        /\ e.reg \in Gpr \cup {"rsp"}
        /\ e.size \in IoSize
        /\ e.kind \in {"single", "string", "rep"}
        /\ e.kind # "single" => e.reason \in {"IN", "OUT"}
BY DEF Exits, NoExit, IoSize, Gpr

(* The bit vmx_msr_init_bitmaps clears for an MSR is the one the processor *)
(* looks at, and no other MSR shares it: what a guest writes without an    *)
(* exit is in VMX_MSR_LIST.                                                *)
LEMMA BitmapExact == \A m \in Msr \cup OtherMsr : NativeWrmsr(m) => m \in Msr
<1> SUFFICES ASSUME NEW m \in Msr \cup OtherMsr, NativeWrmsr(m) PROVE m \in Msr
  OBVIOUS
<1>1. PICK k \in Msr : WriteBit(m) =
         IF k < MSR_HIGH_BASE THEN <<"low", k \div ByteBits, k % ByteBits>>
         ELSE <<"high", (k - MSR_HIGH_BASE) \div ByteBits, (k - MSR_HIGH_BASE) % ByteBits>>
  BY DEF NativeWrmsr, ClearedBits
<1>2. m \in LowMsr \cup HighMsr /\ k \in LowMsr \cup HighMsr
  BY SwitchConstants
<1>3. m = k
  BY <1>1, <1>2 DEF WriteBit, LowMsr, HighMsr, MSR_HIGH_BASE, ByteBits
<1> QED
  BY <1>3

-----------------------------------------------------------------------------
LEMMA InitSwitch == Init => SwitchInv
<1> SUFFICES ASSUME Init PROVE SwitchInv
  OBVIOUS
<1>1. cpu \in CpuType
  BY SwitchConstants DEF Init, HostCpu, ClobberedGpr, ClobberedSimd, CpuType, SimdContent, MsrContent
<1>2. vmcs \in VmcsType
  BY RegisterRange, SwitchConstants DEF Init, VmcsType, RipValue, MsrContent
<1>3. frame \in FrameType /\ vm_state \in StateType
  BY RegisterRange, SwitchConstants DEF Init, NoFrame, NoState, FrameType, StateType, RipValue, SimdContent, MsrContent
<1>4. mem \in [0 .. PageCells - 1 -> 0 .. 1]
  BY DEF Init, PageCells
<1>5. Typed
  BY <1>1, <1>2, <1>3, <1>4, SwitchConstants DEF Init, Typed, Place, MsrContent
<1>6. HostState
  BY DEF Init, HostState, HostCpu
<1>7. VmxeSet
  BY DEF Init, VmxeSet, Vmxe
<1> QED
  BY <1>5, <1>6, <1>7 DEF Init, SwitchInv, GuestRegisters

(* A guest's own instructions: they reach the MSRs that are switched, and  *)
(* CR4 without its VMXE.                                                   *)
LEMMA GuestKeeps ==
    ASSUME SwitchInv, GuestComputes, UNCHANGED program
    PROVE  SwitchInv'
<1>1. pc = "guest" /\ pc' = "guest"
  BY DEF GuestComputes, At
<1>2. UNCHANGED <<program, pc, panicked, exit, frame, vm_state, permanent, backup, mem, bus>>
  BY DEF GuestComputes
<1>3. /\ cpu \in CpuType /\ vmcs \in VmcsType /\ cpu.gpr \in [Gpr -> Register]
      /\ program \in Programs /\ Vmxe(vmcs.cr4) = 1
      /\ \A m \in OtherMsr : cpu.msr[m] = HostMsrValue
  BY <1>1 DEF SwitchInv, Typed, GuestRegisters, VmxeSet, HostState
<1>4. SUFFICES /\ cpu' \in CpuType /\ vmcs' \in VmcsType /\ cpu'.gpr \in [Gpr -> Register]
               /\ \A m \in OtherMsr : cpu'.msr[m] = HostMsrValue
               /\ Vmxe(vmcs'.cr4) = 1
  BY <1>1, <1>2 DEF SwitchInv, Typed, GuestRegisters, HostState, VmxeSet
<1>5. ASSUME NEW r \in Gpr \cup {"rsp"}, NEW v \in Register, Put(r, v)
      PROVE  <1>4!1
  BY <1>3, <1>5 DEF Put, CpuType, VmcsType
<1>6. CASE \E r \in Gpr \cup {"rsp"} : \E v \in program.registers[r] : Put(r, v)
  BY <1>3, <1>5, <1>6, SwitchConstants
<1>7. CASE \E r \in program.operands : Put(r, GuestCr4)
  <2>1. GuestCr4 \in Register
    BY <1>3, WithVmxeBit DEF GuestCr4, VmcsType
  <2>2. program.operands \subseteq Gpr \cup {"rsp"}
    BY <1>3, SwitchConstants
  <2> QED
    BY <1>5, <1>7, <2>1, <2>2
<1>8. CASE \E c \in cpu.xcr0, v \in program.simd :
              cpu' = [cpu EXCEPT !.simd[c] = v] /\ UNCHANGED vmcs
  <2>1. PICK c \in cpu.xcr0, v \in program.simd : cpu' = [cpu EXCEPT !.simd[c] = v] /\ UNCHANGED vmcs
    BY <1>8
  <2>2. v \in SimdContent
    BY <1>3 DEF SimdContent
  <2> QED
    BY <1>3, <2>1, <2>2 DEF CpuType
<1>9. CASE \E m \in {m \in CpuMsr : NativeWrmsr(m)}, v \in program.msrs :
              cpu' = [cpu EXCEPT !.msr[m] = v] /\ UNCHANGED vmcs
  <2>1. PICK m \in CpuMsr, v \in program.msrs :
           NativeWrmsr(m) /\ cpu' = [cpu EXCEPT !.msr[m] = v] /\ UNCHANGED vmcs
    BY <1>9
  <2>2. v \in MsrContent
    BY <1>3 DEF MsrContent
  <2>3. m \notin OtherMsr
    BY <2>1, BitmapExact, SwitchConstants DEF CpuMsr, Msr
  <2> QED
    BY <1>3, <2>1, <2>2, <2>3 DEF CpuType, CpuMsr
<1>10. CASE \E m \in {m \in VmcsMsr : NativeWrmsr(m)}, v \in program.msrs :
              vmcs' = [vmcs EXCEPT !.msr[m] = v] /\ UNCHANGED cpu
  <2>1. PICK m \in VmcsMsr, v \in program.msrs : vmcs' = [vmcs EXCEPT !.msr[m] = v] /\ UNCHANGED cpu
    BY <1>10
  <2>2. v \in MsrContent
    BY <1>3 DEF MsrContent
  <2> QED
    BY <1>3, <2>1, <2>2 DEF VmcsType
<1>11. CASE vmcs' = [vmcs EXCEPT !.rflags = 1 - @] /\ UNCHANGED cpu
  BY <1>3, <1>11 DEF VmcsType
<1>12. CASE \E r \in program.operands :
              /\ Vmxe(Get(r)) = vmcs.cr4_read_shadow
              /\ vmcs' = [vmcs EXCEPT !.cr4 = WithVmxe(Get(r), Vmxe(@))]
              /\ UNCHANGED cpu
  <2>1. PICK r \in Gpr \cup {"rsp"} :
           vmcs' = [vmcs EXCEPT !.cr4 = WithVmxe(Get(r), 1)] /\ UNCHANGED cpu
    BY <1>3, <1>12, SwitchConstants DEF VmcsType
  <2>2. Get(r) \in Register
    BY <1>3 DEF Get, VmcsType
  <2>3. WithVmxe(Get(r), 1) \in Register /\ Vmxe(WithVmxe(Get(r), 1)) = 1
    BY <2>2, WithVmxeBit
  <2> QED
    BY <1>3, <2>1, <2>3 DEF VmcsType
<1> QED
  BY <1>6, <1>7, <1>8, <1>9, <1>10, <1>11, <1>12 DEF GuestComputes

(* VM entry and exit: the switches of registers, XCR0, extended state and  *)
(* MSRs.                                                                   *)
LEMMA SwitchKeeps ==
    ASSUME SwitchInv, UNCHANGED program,
           Launch \/ SaveGuest \/ EnterHandler \/ LeaveHandler \/ ResumeGuest
    PROVE  SwitchInv'
<1> USE DEF SwitchInv, At
<1>1. ClobberedGpr \in [Gpr -> Register \cup {Clobbered}] /\ ClobberedSimd \in [Component -> SimdContent]
  BY DEF ClobberedGpr, ClobberedSimd, SimdContent
<1>2. NoFrame \in FrameType /\ NoState \in StateType
  BY RegisterRange, SwitchConstants
     DEF NoFrame, NoState, FrameType, StateType, RipValue, SimdContent, MsrContent
<1>3. \A x \in SUBSET Component, s, t \in [Component -> SimdContent] :
         Xrstor(x, s, t) \in [Component -> SimdContent] /\ Xsave(x, s) \in [Component -> SimdContent]
  BY DEF Xrstor, Xsave, SimdContent
<1>4. MsrBackup \in [RwbkMsr -> MsrContent]
  BY DEF Typed, CpuType, MsrBackup, CpuMsr
<1>5. \A b \in [RwbkMsr -> MsrContent] : MsrLoaded(b) \in [CpuMsr -> MsrContent]
  BY DEF Typed, CpuType, MsrLoaded, CpuMsr
<1>6. cpu.xcr0 \in SUBSET Component /\ SupportedXcr0 \in SUBSET Component
  BY SwitchConstants DEF Typed, CpuType
<1>7. CASE Launch
  <2>1. Typed'
    BY <1>2, <1>3, <1>4, <1>6, <1>7 DEF Launch, Typed, Place, CpuType, FrameType
  <2>2. GuestRegisters'
    BY <1>2, <1>7 DEF Launch, Typed, GuestRegisters, CpuType, FrameType
  <2>3. HostState' /\ VmxeSet'
    BY <1>7 DEF Launch, Typed, CpuType, HostState, VmxeSet, MsrBackup, CpuMsr
  <2> QED
    BY <2>1, <2>2, <2>3
<1>8. CASE SaveGuest
  <2>1. frame' \in FrameType
    BY <1>3, <1>6, <1>8 DEF SaveGuest, Typed, GuestRegisters, FrameType, CpuType
  <2>2. cpu' \in CpuType
    BY <1>1, <1>8 DEF SaveGuest, Typed, CpuType
  <2>3. Typed'
    BY <1>8, <2>1, <2>2 DEF SaveGuest, Typed, Place
  <2> QED
    BY <1>8, <2>3 DEF SaveGuest, GuestRegisters, HostState, VmxeSet, Typed, CpuType
<1>9. CASE EnterHandler
  <2>1. vm_state' \in StateType
    BY <1>4, <1>9 DEF EnterHandler, Typed, StateType, VmcsType
  <2>2. cpu' \in CpuType
    BY <1>1, <1>5, <1>9 DEF EnterHandler, Typed, CpuType
  <2>3. Typed'
    BY <1>9, <2>1, <2>2 DEF EnterHandler, Typed, Place
  <2>4. \A m \in CpuMsr : MsrLoaded(backup)[m] = HostMsrValue
    BY <1>9 DEF EnterHandler, HostState, MsrLoaded, CpuMsr
  <2>5. HostState'
    BY <1>9, <2>4 DEF EnterHandler, HostState, Typed, CpuType
  <2>6. VmxeSet' /\ GuestRegisters'
    BY <1>9 DEF EnterHandler, VmxeSet, GuestRegisters
  <2> QED
    BY <2>3, <2>5, <2>6
<1>10. CASE LeaveHandler
  <2>1. cpu' \in CpuType
    BY <1>5, <1>10 DEF LeaveHandler, Typed, CpuType, StateType
  <2>2. vmcs' \in VmcsType /\ vmcs'.cr4 = vm_state.cr4
    BY <1>10 DEF LeaveHandler, Typed, VmcsType, StateType
  <2>3. Typed'
    BY <1>2, <1>4, <1>10, <2>1, <2>2 DEF LeaveHandler, Typed, Place
  <2>4. HostState'
    <3>1. \A m \in RwbkMsr : MsrBackup[m] = HostMsrValue
      BY <1>10 DEF LeaveHandler, HostState, MsrBackup, CpuMsr
    <3>2. \A m \in OtherMsr : MsrLoaded(vm_state.rwbk)[m] = HostMsrValue
      BY <1>10, SwitchConstants DEF LeaveHandler, HostState, MsrLoaded, CpuMsr, Msr
    <3> QED
      BY <1>10, <3>1, <3>2 DEF LeaveHandler, HostState, Typed, CpuType
  <2>5. VmxeSet' /\ GuestRegisters'
    BY <1>10, <2>2 DEF LeaveHandler, VmxeSet, GuestRegisters
  <2> QED
    BY <2>3, <2>4, <2>5
<1>11. CASE ResumeGuest
  <2>1. cpu' \in CpuType /\ cpu'.gpr \in [Gpr -> Register]
    BY <1>3, <1>6, <1>11 DEF ResumeGuest, Typed, CpuType, FrameType
  <2>2. Typed'
    BY <1>2, <1>11, <2>1 DEF ResumeGuest, Typed, Place
  <2> QED
    BY <1>11, <2>1, <2>2 DEF ResumeGuest, GuestRegisters, HostState, VmxeSet, Typed, CpuType
<1> QED
  BY <1>7, <1>8, <1>9, <1>10, <1>11

(* What an emulated instruction has to keep; it leaves the processor and   *)
(* the backup of the MSRs alone.                                           *)
LEMMA EmulationKeeps ==
    ASSUME SwitchInv, pc = "emulate", pc' \in {"emulate", "resume"},
           UNCHANGED <<program, panicked, exit, cpu, backup>>,
           frame' \in FrameType, vm_state' \in StateType, Vmxe(vm_state'.cr4) = 1,
           vmcs' \in VmcsType, vmcs'.cr4 = vmcs.cr4,
           permanent' \in SUBSET SupportedXcr0, 0 \in permanent',
           mem' \in [0 .. PageCells - 1 -> 0 .. 1]
    PROVE  SwitchInv'
<1>1. Typed'
  BY DEF SwitchInv, Typed, Place
<1> QED
  BY <1>1 DEF SwitchInv, GuestRegisters, HostState, VmxeSet

(* The rip after the instruction, the only change most of them make.       *)
LEMMA NextRipState ==
    ASSUME Typed
    PROVE  /\ NextRip \in RipValue
           /\ [vm_state EXCEPT !.rip = NextRip] \in StateType
           /\ [vm_state EXCEPT !.rip = NextRip].cr4 = vm_state.cr4
<1>1. NextRip \in RipValue
  <2>1. vm_state.rip + 1 \in Int /\ RipValues \in Nat /\ RipValues > 0
    BY SwitchConstants DEF Typed, StateType, RipValue
  <2> QED
    BY <2>1 DEF NextRip, RipValue
<1> QED
  BY <1>1 DEF Typed, StateType

(* One element of INS or OUTS: rcx never goes below 0, the pointer wraps,  *)
(* memory keeps its size.                                                  *)
LEMMA ElementKeeps ==
    ASSUME SwitchInv, NEW count \in {0, 1}, count = 1 => frame.gpr["rcx"] # 0,
           OutElement(count) \/ InElement(count)
    PROVE  frame' \in FrameType /\ mem' \in [0 .. PageCells - 1 -> 0 .. 1]
<1>1. exit.size \in {1, 2, 4}
  BY ExitShape DEF SwitchInv, Typed, IoSize
<1>2. ASSUME NEW v \in Register
      PROVE  Stepped(v, exit.size) \in Register
  <2>1. v - exit.size \in Int /\ v + exit.size \in Int
    BY <1>1, RegisterRange
  <2> QED
    BY <2>1, PowersOfTwo, RegisterRange DEF Stepped
<1>3. frame.gpr["rcx"] - count \in Register
  <2>1. frame.gpr["rcx"] \in Register
    BY DEF SwitchInv, Typed, FrameType, Gpr
  <2> QED
    BY <2>1, RegisterRange
<1>4. frame \in FrameType /\ mem \in [0 .. PageCells - 1 -> 0 .. 1]
  BY DEF SwitchInv, Typed
<1>5. frame' \in FrameType
  <2>1. CASE OutElement(count)
    BY <1>2, <1>3, <1>4, <2>1 DEF OutElement, FrameType, Gpr
  <2>2. CASE InElement(count)
    BY <1>2, <1>3, <1>4, <2>2 DEF InElement, FrameType, Gpr
  <2> QED
    BY <2>1, <2>2
<1>6. mem' \in [0 .. PageCells - 1 -> 0 .. 1]
  <2>1. CASE OutElement(count)
    BY <1>4, <2>1 DEF OutElement
  <2>2. CASE InElement(count)
    <3>1. PICK v \in program.inputs :
             mem' = Stored(mem, frame.gpr["rdi"], exit.size, Truncated(v, exit.size))
      BY <2>2 DEF InElement
    <3>2. program.inputs \subseteq 0 .. 2 ^ WordBits - 1
      BY SwitchConstants DEF SwitchInv, Typed
    <3>3. v \in Nat
      BY <3>1, <3>2, PowersOfTwo
    <3>4. 2 ^ exit.size \in {2, 4, 16}
      BY <1>1, PowersOfTwo DEF IoSize
    <3>5. Truncated(v, exit.size) \in Nat
      BY <3>3, <3>4 DEF Truncated
    <3> DEFINE a == frame.gpr["rdi"]
               t == Truncated(v, exit.size)
    <3>6. a \in 0 .. 255
      BY <1>4, RegisterRange DEF FrameType, Gpr
    <3> HIDE DEF a, t
    <3>7. ASSUME NEW x \in a .. a + exit.size - 1
          PROVE  (t \div 2 ^ (x - a)) % 2 \in 0 .. 1
      <4>1. x - a \in {0, 1, 2, 3}
        BY <1>1, <3>6
      <4>2. 2 ^ 0 = 1 /\ 2 ^ 1 = 2 /\ 2 ^ 2 = 4 /\ 2 ^ 3 = 8
        OBVIOUS
      <4>3. 2 ^ (x - a) \in {1, 2, 4, 8}
        BY <4>1, <4>2
      <4>4. t \div 2 ^ (x - a) \in Int
        BY <3>5, <4>3 DEF t
      <4> QED
        BY <4>4
    <3>8. mem' = [x \in DOMAIN mem |-> IF x \in a .. a + exit.size - 1 THEN (t \div 2 ^ (x - a)) % 2 ELSE mem[x]]
      BY <3>1 DEF Stored, a, t
    <3> QED
      BY <1>4, <3>7, <3>8
  <2> QED
    BY <2>1, <2>2
<1> QED
  BY <1>5, <1>6

LEMMA EmulateKeeps ==
    ASSUME SwitchInv, UNCHANGED program,
           \/ EmulateCpuid \/ EmulateMovToCr3 \/ EmulateMovToCr4 \/ EmulateMovFromCr3
           \/ EmulateXsetbv \/ EmulateOut \/ EmulateIn
           \/ EmulateString \/ EmulateRepStep \/ EmulateRepEnd
    PROVE  SwitchInv'
<1> USE DEF At, Handling
<1>1. /\ frame \in FrameType /\ vm_state \in StateType /\ vmcs \in VmcsType
      /\ permanent \in SUBSET SupportedXcr0 /\ 0 \in permanent
      /\ mem \in [0 .. PageCells - 1 -> 0 .. 1]
      /\ Typed
  BY DEF SwitchInv, Typed
<1>2. pc = "emulate" => Vmxe(vm_state.cr4) = 1
  BY DEF SwitchInv, VmxeSet
<1>3. /\ [vm_state EXCEPT !.rip = NextRip] \in StateType
      /\ [vm_state EXCEPT !.rip = NextRip].cr4 = vm_state.cr4
      /\ NextRip \in RipValue
  BY <1>1, NextRipState
<1>4. exit.reg \in Gpr \cup {"rsp"} /\ exit.size \in IoSize
  BY <1>1, ExitShape DEF Typed
<1>5. Reg(exit.reg) \in Register
  BY <1>1, <1>4 DEF Reg, FrameType, StateType
<1>6. CASE EmulateCpuid
  <2>1. CpuidResult(frame.gpr["rax"]) \in Register
    BY SwitchConstants DEF CpuidResult
  <2>2. frame' \in FrameType
    BY <1>1, <1>6, <2>1 DEF EmulateCpuid, FrameType
  <2> QED
    BY <1>1, <1>2, <1>3, <1>6, <2>2, EmulationKeeps DEF EmulateCpuid
<1>7. CASE EmulateMovToCr3
  <2>1. vm_state' \in StateType /\ vm_state'.cr4 = vm_state.cr4
    BY <1>1, <1>3, <1>5, <1>7 DEF EmulateMovToCr3, StateType
  <2> QED
    BY <1>1, <1>2, <1>7, <2>1, EmulationKeeps DEF EmulateMovToCr3
<1>8. CASE EmulateMovToCr4
  <2>1. /\ WithVmxe(Reg(exit.reg), 1) \in Register
        /\ Vmxe(WithVmxe(Reg(exit.reg), 1)) = 1
        /\ Vmxe(Reg(exit.reg)) \in {0, 1}
    BY <1>5, WithVmxeBit, VmxeBit
  <2>2. vm_state' \in StateType /\ Vmxe(vm_state'.cr4) = 1
    BY <1>1, <1>3, <1>8, <2>1 DEF EmulateMovToCr4, StateType
  <2>3. vmcs' \in VmcsType /\ vmcs'.cr4 = vmcs.cr4
    BY <1>1, <1>8, <2>1 DEF EmulateMovToCr4, VmcsType
  <2> QED
    BY <1>1, <1>8, <2>2, <2>3, EmulationKeeps DEF EmulateMovToCr4
<1>9. CASE EmulateMovFromCr3
  <2>1. vm_state' \in StateType /\ vm_state'.cr4 = vm_state.cr4
    BY <1>1, <1>3, <1>9 DEF EmulateMovFromCr3, StateType
  <2>2. frame' \in FrameType
    BY <1>1, <1>4, <1>9 DEF EmulateMovFromCr3, StateType, FrameType
  <2> QED
    BY <1>1, <1>2, <1>9, <2>1, <2>2, EmulationKeeps DEF EmulateMovFromCr3
<1>10. CASE EmulateXsetbv
  BY <1>1, <1>2, <1>3, <1>10, EmulationKeeps DEF EmulateXsetbv, XsetbvAllowed
<1>11. CASE EmulateOut
  BY <1>1, <1>2, <1>3, <1>11, EmulationKeeps DEF EmulateOut
<1>12. CASE EmulateIn
  <2>1. PICK v \in program.inputs :
           frame' = [frame EXCEPT !.gpr["rax"] = Kept(@, exit.size) + Truncated(v, exit.size)]
    BY <1>12 DEF EmulateIn
  <2>2. program.inputs \subseteq 0 .. 15
    BY <1>1, PowersOfTwo, SwitchConstants DEF Typed
  <2>3. frame.gpr["rax"] \in 0 .. 255
    BY <1>1, RegisterRange DEF FrameType, Gpr
  <2>4. Kept(frame.gpr["rax"], exit.size) + Truncated(v, exit.size) \in 0 .. 255
    <3>1. v \in 0 .. 15
      BY <2>2
    <3>2. 2 ^ 1 = 2 /\ 2 ^ 2 = 4 /\ 2 ^ 4 = 16
      OBVIOUS
    <3>3. CASE exit.size = 1
      BY <2>3, <3>1, <3>2, <3>3 DEF Kept, Truncated, WordBits
    <3>4. CASE exit.size = 2
      BY <2>3, <3>1, <3>2, <3>4 DEF Kept, Truncated, WordBits
    <3>5. CASE exit.size = 4
      BY <2>3, <3>1, <3>2, <3>5 DEF Kept, Truncated, WordBits
    <3> QED
      BY <1>4, <3>3, <3>4, <3>5 DEF IoSize
  <2>5. frame' \in FrameType
    BY <1>1, <2>1, <2>4, RegisterRange DEF FrameType
  <2> QED
    BY <1>1, <1>2, <1>3, <1>12, <2>5, EmulationKeeps DEF EmulateIn
<1>13. CASE EmulateString
  <2>1. frame' \in FrameType /\ mem' \in [0 .. PageCells - 1 -> 0 .. 1]
    BY <1>13, ElementKeeps DEF EmulateString
  <2> QED
    BY <1>1, <1>2, <1>3, <1>13, <2>1, EmulationKeeps DEF EmulateString
<1>14. CASE EmulateRepStep
  <2>1. frame' \in FrameType /\ mem' \in [0 .. PageCells - 1 -> 0 .. 1]
    BY <1>14, ElementKeeps DEF EmulateRepStep
  <2> QED
    BY <1>1, <1>2, <1>14, <2>1, EmulationKeeps DEF EmulateRepStep
<1>15. CASE EmulateRepEnd
  BY <1>1, <1>2, <1>3, <1>15, EmulationKeeps DEF EmulateRepEnd
<1> QED
  BY <1>6, <1>7, <1>8, <1>9, <1>10, <1>11, <1>12, <1>13, <1>14, <1>15

-----------------------------------------------------------------------------
LEMMA NextSwitch == SwitchInv /\ [Next]_vars => SwitchInv'
<1> SUFFICES ASSUME SwitchInv, [Next]_vars PROVE SwitchInv'
  OBVIOUS
<1>1. CASE GuestComputes /\ UNCHANGED program
  BY <1>1, GuestKeeps
<1>2. ASSUME NEW e \in Exits, VmExit(e), UNCHANGED program
      PROVE  SwitchInv'
  BY <1>2 DEF VmExit, At, SwitchInv, Typed, Place, GuestRegisters, HostState, VmxeSet
<1>3. CASE Panic /\ UNCHANGED program
  BY <1>3 DEF Panic, SwitchInv, Typed, GuestRegisters, HostState, VmxeSet
<1>4. CASE HypervisorStep /\ UNCHANGED program
  BY <1>3, <1>4, SwitchKeeps, EmulateKeeps DEF HypervisorStep, VmxAssertFails, ResumeFails, HandlerPanics
<1>5. CASE UNCHANGED vars
  BY <1>5 DEF vars, SwitchInv, Typed, GuestRegisters, HostState, VmxeSet
<1> QED
  BY <1>1, <1>2, <1>4, <1>5 DEF Next

LEMMA AlwaysSwitchInv == Spec => []SwitchInv
BY InitSwitch, NextSwitch, PTL DEF Spec

(* Registers keep their width, XCR0 keeps x87 and the pointers of string   *)
(* instructions wrap, whatever guests do.                                  *)
THEOREM SwitchTypeCorrect == Spec => []TypeOK
<1>1. SwitchInv => TypeOK
  BY DEF SwitchInv, Typed, TypeOK, Place, CpuType, VmcsType, FrameType, StateType, RipValue
<1> QED
  BY <1>1, AlwaysSwitchInv, PTL

(* The C code of the host never runs with a guest's XCR0 or with a value a *)
(* guest has put in an MSR.                                                *)
THEOREM HostAlwaysIntact == Spec => []HostIntact
<1>1. SwitchInv => HostIntact
  BY DEF SwitchInv, Typed, HostState, HostIntact, CpuType
<1> QED
  BY <1>1, AlwaysSwitchInv, PTL

(* CR4.VMXE is set whenever the guest runs.                                *)
THEOREM VmxeAlwaysKept == Spec => []VmxeKept
<1>1. SwitchInv => VmxeKept
  BY DEF SwitchInv, VmxeSet, VmxeKept
<1> QED
  BY <1>1, AlwaysSwitchInv, PTL

(* On a processor whose state components are x87, SSE and AVX the XSETBV   *)
(* of vmx_vmexit.asm never faults; with AVX-512 it may (run xcr0_avx512),  *)
(* and so with MPX or AMX, whose rules the code does not check either.     *)
THEOREM XsetbvNeverFaults ==
    ASSUME SupportedXcr0 \subseteq CheckedComponent
    PROVE  Spec => []XsetbvSafe
<1>1. Init => XsetbvSafe
  BY SwitchConstants DEF Init, XsetbvSafe, XsetbvAccepts, CheckedComponent
<1>2. XsetbvSafe /\ [Next]_vars => XsetbvSafe'
  <2> SUFFICES ASSUME XsetbvSafe, [Next]_vars PROVE XsetbvSafe'
    OBVIOUS
  <2>1. CASE UNCHANGED permanent
    BY <2>1 DEF XsetbvSafe
  <2>2. CASE EmulateXsetbv
    BY <2>2 DEF EmulateXsetbv, XsetbvAllowed, XsetbvSafe, XsetbvAccepts, CheckedComponent
  <2>3. Next => EmulateXsetbv \/ UNCHANGED permanent
    BY DEF Next, GuestComputes, VmExit, HypervisorStep, Launch, VmxAssertFails, ResumeFails,
           HandlerPanics, Panic,
           SaveGuest, EnterHandler, LeaveHandler, ResumeGuest, EmulateCpuid, EmulateMovToCr3,
           EmulateMovToCr4, EmulateMovFromCr3, EmulateOut, EmulateIn, EmulateString,
           EmulateRepStep, EmulateRepEnd
  <2> QED
    BY <2>1, <2>2, <2>3 DEF vars
<1> QED
  BY <1>1, <1>2, PTL DEF Spec

-----------------------------------------------------------------------------
(* The guest's XCR0 and extended state: the components the host does not   *)
(* enable are never used by either side.                                   *)
ExtendedState ==
    /\ pc \in {"guest", "exit"} => cpu.xcr0 = permanent
    /\ pc = "host" => frame = NoFrame
    /\ \A c \in Component \ SupportedXcr0 : cpu.simd[c] = 0 /\ frame.xsave[c] = 0

SimInv == SwitchInv /\ ExtendedState

(* The bits above eax do not turn a leaf of the outer hypervisor into      *)
(* another one; for those that do see run cpuid_leaf.                      *)
LeafInEax ==
    pc = "emulate" /\ Low(frame.gpr["rax"]) \in HypervisorLeaf => frame.gpr["rax"] \in HypervisorLeaf

LEMMA InitExtended == Init => ExtendedState
BY SwitchConstants DEF Init, ExtendedState, HostCpu, ClobberedSimd, NoFrame

LEMMA NextExtended == SimInv /\ [Next]_vars => ExtendedState'
<1> SUFFICES ASSUME SimInv, [Next]_vars PROVE ExtendedState'
  OBVIOUS
<1> USE DEF SimInv, SwitchInv, At
<1>1. CASE GuestComputes
  <2>1. pc = "guest" /\ UNCHANGED <<pc, frame, permanent>> /\ cpu \in CpuType
    BY <1>1 DEF GuestComputes, Typed
  <2>2. /\ cpu'.xcr0 = cpu.xcr0
        /\ \A c \in Component \ SupportedXcr0 : cpu'.simd[c] = cpu.simd[c]
    <3>1. CASE UNCHANGED cpu
      BY <3>1
    <3>2. CASE \E r \in Gpr : \E v : cpu' = [cpu EXCEPT !.gpr[r] = v]
      BY <2>1, <3>2 DEF CpuType
    <3>3. CASE \E c \in cpu.xcr0, v \in program.simd : cpu' = [cpu EXCEPT !.simd[c] = v]
      BY <2>1, <3>3 DEF CpuType
    <3>4. CASE \E m \in CpuMsr, v \in program.msrs : cpu' = [cpu EXCEPT !.msr[m] = v]
      BY <2>1, <3>4 DEF CpuType
    <3>5. program.operands \subseteq Gpr \cup {"rsp"}
      BY SwitchConstants DEF Typed
    <3> QED
      BY <1>1, <3>1, <3>2, <3>3, <3>4, <3>5 DEF GuestComputes, Put
  <2> QED
    BY <2>1, <2>2 DEF ExtendedState
<1>2. CASE \E e \in Exits : VmExit(e)
  BY <1>2 DEF VmExit, ExtendedState
<1>3. CASE Panic
  BY <1>3 DEF Panic, ExtendedState
<1>4. CASE Launch
  BY <1>4, SwitchConstants DEF Launch, ExtendedState, Typed, CpuType, Xrstor, NoFrame, Component
<1>5. CASE SaveGuest
  BY <1>5, SwitchConstants DEF SaveGuest, ExtendedState, Typed, CpuType, Xsave
<1>6. CASE EnterHandler
  BY <1>6 DEF EnterHandler, ExtendedState, Typed, CpuType, ClobberedSimd
<1>7. CASE LeaveHandler
  BY <1>7 DEF LeaveHandler, ExtendedState, Typed, CpuType
<1>8. CASE ResumeGuest
  BY <1>8 DEF ResumeGuest, ExtendedState, Typed, CpuType, Xrstor, NoFrame
<1>9. CASE /\ pc = "emulate" /\ pc' \in {"emulate", "resume"} /\ UNCHANGED cpu
           /\ \E g : frame' = [frame EXCEPT !.gpr = g]
  BY <1>9 DEF ExtendedState, Typed, FrameType
<1>10. CASE HypervisorStep
  <2>1. frame = [frame EXCEPT !.gpr = frame.gpr]
    BY DEF Typed, FrameType
  <2>2. CASE EmulateCpuid
    <3>1. frame' = frame \/ \E a : frame' = [frame EXCEPT !.gpr["rax"] = a, !.gpr["rcx"] = a, !.gpr["rdx"] = a]
      BY <2>2 DEF EmulateCpuid
    <3>2. frame'.xsave = frame.xsave
      BY <3>1 DEF Typed, FrameType
    <3> QED
      BY <2>2, <3>2 DEF EmulateCpuid, Handling, ExtendedState
  <2>3. CASE EmulateMovFromCr3
    BY <2>3 DEF EmulateMovFromCr3, Handling, ExtendedState, Typed, FrameType
  <2>4. CASE EmulateIn
    BY <2>4 DEF EmulateIn, Handling, ExtendedState, Typed, FrameType
  <2>5. CASE EmulateString \/ EmulateRepStep
    BY <2>5 DEF EmulateString, EmulateRepStep, OutElement, InElement, ExtendedState, Typed, FrameType
  <2>6. CASE \/ EmulateMovToCr3 \/ EmulateMovToCr4 \/ EmulateXsetbv \/ EmulateOut \/ EmulateRepEnd
    BY <2>6 DEF EmulateMovToCr3, EmulateMovToCr4, EmulateXsetbv, EmulateOut, EmulateRepEnd, Handling, ExtendedState
  <2> QED
    BY <1>3, <1>4, <1>5, <1>6, <1>7, <1>8, <1>10, <2>2, <2>3, <2>4, <2>5, <2>6
       DEF HypervisorStep, VmxAssertFails, ResumeFails, HandlerPanics
<1>11. CASE UNCHANGED vars
  BY <1>11 DEF vars, ExtendedState
<1> QED
  BY <1>1, <1>2, <1>10, <1>11 DEF Next

-----------------------------------------------------------------------------
(* The refinement.  Where the guest's state is, under short names.         *)
GGpr == IF OnCpu THEN cpu.gpr ELSE frame.gpr
GRsp == IF InState THEN vm_state.rsp ELSE vmcs.rsp
GRip == IF InState THEN vm_state.rip ELSE vmcs.rip
GDf == IF InState THEN vm_state.rflags ELSE vmcs.rflags
GCr3 == IF InState THEN vm_state.cr3 ELSE vmcs.cr3
GCr4 == WithVmxe(IF InState THEN vm_state.cr4 ELSE vmcs.cr4, vmcs.cr4_read_shadow)
GXcr0 == IF OnCpu THEN cpu.xcr0 ELSE permanent
GSimd == IF OnCpu THEN cpu.simd ELSE frame.xsave

GMsr == [m \in Msr |-> IF m \in VmcsMsr THEN IF InState THEN vm_state.msr[m] ELSE vmcs.msr[m]
                       ELSE IF InState THEN vm_state.rwbk[m] ELSE cpu.msr[m]]

LEMMA GuestTuple ==
    ASSUME UNCHANGED <<GGpr, GRsp, GRip, GDf, GCr3, GCr4, GMsr, GXcr0, GSimd, mem, bus, panicked>>
    PROVE  UNCHANGED Guest!guest
BY DEF Guest!guest, GGpr, GRsp, GRip, GDf, GCr3, GCr4, GMsr, GXcr0, GSimd

(* The steps of the switch itself are none of the guest's.                 *)
LEMMA SwitchInvisible ==
    ASSUME SimInv, \/ Launch \/ SaveGuest \/ EnterHandler \/ LeaveHandler \/ ResumeGuest
                   \/ \E e \in Exits : VmExit(e)
    PROVE  UNCHANGED Guest!guest
<1> USE DEF SimInv, SwitchInv, At, OnCpu, InState
<1>1. UNCHANGED <<GRsp, GRip, GDf, GCr3, GCr4>>
  <2>1. CASE Launch \/ SaveGuest \/ ResumeGuest \/ \E e \in Exits : VmExit(e)
    <3>1. vmcs' = vmcs /\ ~InState /\ ~InState'
      BY <2>1 DEF Launch, SaveGuest, ResumeGuest, VmExit
    <3> QED
      BY <3>1 DEF GRsp, GRip, GDf, GCr3, GCr4
  <2>2. CASE EnterHandler
    BY <2>2 DEF EnterHandler, GRsp, GRip, GDf, GCr3, GCr4
  <2>3. CASE LeaveHandler
    <3>1. /\ vmcs'.rsp = vm_state.rsp /\ vmcs'.rip = vm_state.rip /\ vmcs'.rflags = vm_state.rflags
          /\ vmcs'.cr3 = vm_state.cr3 /\ vmcs'.cr4 = vm_state.cr4
          /\ vmcs'.cr4_read_shadow = vmcs.cr4_read_shadow
      BY <2>3 DEF LeaveHandler, Typed, VmcsType
    <3>2. InState /\ ~InState'
      BY <2>3 DEF LeaveHandler
    <3> QED
      BY <3>1, <3>2 DEF GRsp, GRip, GDf, GCr3, GCr4
  <2> QED
    BY <2>1, <2>2, <2>3
<1>2. UNCHANGED GMsr
  <2>1. CASE Launch \/ SaveGuest \/ ResumeGuest \/ \E e \in Exits : VmExit(e)
    <3>1. cpu'.msr = cpu.msr /\ vmcs' = vmcs /\ ~InState /\ ~InState'
      BY <2>1 DEF Launch, SaveGuest, ResumeGuest, VmExit, Typed, CpuType
    <3> QED
      BY <3>1 DEF GMsr
  <2>2. CASE EnterHandler
    <3>1. vm_state'.msr = vmcs.msr /\ vm_state'.rwbk = MsrBackup /\ ~InState /\ InState'
      BY <2>2 DEF EnterHandler
    <3> QED
      BY <3>1 DEF GMsr, MsrBackup, Msr
  <2>3. CASE LeaveHandler
    <3>1. vmcs'.msr = vm_state.msr /\ cpu'.msr = MsrLoaded(vm_state.rwbk) /\ InState /\ ~InState'
      BY <2>3 DEF LeaveHandler, Typed, VmcsType, CpuType
    <3> QED
      BY <3>1 DEF GMsr, MsrLoaded, Msr, CpuMsr
  <2> QED
    BY <2>1, <2>2, <2>3
<1>3. UNCHANGED <<GGpr, GXcr0>>
  <2>1. CASE Launch \/ ResumeGuest
    <3>1. cpu'.gpr = frame.gpr /\ cpu'.xcr0 = permanent /\ permanent' = permanent
      BY <2>1 DEF Launch, ResumeGuest, Typed, CpuType, ExtendedState
    <3>2. ~OnCpu /\ OnCpu'
      BY <2>1 DEF Launch, ResumeGuest
    <3> QED
      BY <3>1, <3>2 DEF GGpr, GXcr0
  <2>2. CASE SaveGuest
    BY <2>2 DEF SaveGuest, ExtendedState, GGpr, GXcr0
  <2>3. CASE EnterHandler \/ LeaveHandler
    BY <2>3 DEF EnterHandler, LeaveHandler, GGpr, GXcr0
  <2>4. CASE \E e \in Exits : VmExit(e)
    BY <2>4 DEF VmExit, GGpr, GXcr0
  <2> QED
    BY <2>1, <2>2, <2>3, <2>4
<1>4. UNCHANGED GSimd
  <2>1. CASE Launch
    <3>1. GSimd' = Xrstor(SupportedXcr0, NoFrame.xsave, cpu.simd) /\ GSimd = NoFrame.xsave
      BY <2>1 DEF Launch, Typed, CpuType, HostState, ExtendedState, GSimd
    <3> QED
      BY <3>1 DEF Xrstor, NoFrame, ExtendedState
  <2>2. CASE SaveGuest
    <3>1. GSimd' = Xsave(SupportedXcr0, cpu.simd) /\ GSimd = cpu.simd
      BY <2>2 DEF SaveGuest, GSimd
    <3> QED
      BY <3>1 DEF Xsave, ExtendedState, Typed, CpuType
  <2>3. CASE ResumeGuest
    <3>1. GSimd' = Xrstor(SupportedXcr0, frame.xsave, cpu.simd) /\ GSimd = frame.xsave
      BY <2>3 DEF ResumeGuest, Typed, CpuType, HostState, GSimd
    <3> QED
      BY <3>1 DEF Xrstor, ExtendedState, Typed, FrameType
  <2>4. CASE EnterHandler \/ LeaveHandler \/ \E e \in Exits : VmExit(e)
    BY <2>4 DEF EnterHandler, LeaveHandler, VmExit, GSimd
  <2> QED
    BY <2>1, <2>2, <2>3, <2>4
<1>5. UNCHANGED <<mem, bus, panicked>>
  BY DEF Launch, SaveGuest, EnterHandler, LeaveHandler, ResumeGuest, VmExit
<1> QED
  BY <1>1, <1>2, <1>3, <1>4, <1>5, GuestTuple

(* A CR4 whose VMXE was replaced, and put back.                            *)
LEMMA VmxeRestored ==
    \A v \in Register, b \in {0, 1} : WithVmxe(WithVmxe(v, b), Vmxe(v)) = v
BY RegisterRange DEF Vmxe, WithVmxe

(* What the instructions that run natively do to the state of the guest.   *)
LEMMA NativePut ==
    ASSUME SimInv, At("guest"), pc' = pc, UNCHANGED <<panicked, permanent, mem, bus>>,
           NEW r \in Gpr \cup {"rsp"}, NEW v \in Register, Put(r, v)
    PROVE  /\ Guest!Put(r, v)
           /\ UNCHANGED <<GRip, GDf, GCr3, GCr4, GMsr, GXcr0, GSimd, mem, bus, panicked>>
<1>1. cpu \in CpuType /\ vmcs \in VmcsType
  BY DEF SimInv, SwitchInv, Typed
<1>2. OnCpu /\ OnCpu' /\ ~InState /\ ~InState'
  BY DEF At, OnCpu, InState
<1>3. CASE r = "rsp"
  BY <1>1, <1>2, <1>3 DEF Put, VmcsType, Guest!Put, GRip, GDf, GCr3, GCr4, GMsr, GXcr0, GSimd
<1>4. CASE r # "rsp"
  BY <1>1, <1>2, <1>4 DEF Put, CpuType, Guest!Put, GRip, GDf, GCr3, GCr4, GMsr, GXcr0, GSimd
<1> QED
  BY <1>3, <1>4

LEMMA NativeStep ==
    ASSUME SimInv, GuestComputes, UNCHANGED program
    PROVE  Guest!Compute \/ Guest!ControlRegisters
<1>1. At("guest") /\ pc' = pc /\ UNCHANGED <<panicked, permanent, mem, bus>>
  BY DEF GuestComputes
<1>2. cpu \in CpuType /\ vmcs \in VmcsType /\ program \in Programs /\ cpu.gpr \in [Gpr -> Register]
  BY <1>1 DEF SimInv, SwitchInv, Typed, GuestRegisters, At
<1>3. OnCpu /\ OnCpu' /\ ~InState /\ ~InState'
  BY <1>1 DEF At, OnCpu, InState
<1>4. CASE \E r \in Gpr \cup {"rsp"} : \E v \in program.registers[r] : Put(r, v)
  <2>0. PICK r \in Gpr \cup {"rsp"} : \E v \in program.registers[r] : Put(r, v)
    BY <1>4
  <2>1. PICK v \in program.registers[r] : Put(r, v)
    BY <2>0
  <2>2. v \in Register
    BY <1>2, SwitchConstants
  <2>3. v \in [q \in Gpr \cup {"rsp"} |-> UNION {g.registers[q] : g \in Programs}][r]
    BY <1>2
  <2>4. /\ Guest!Put(r, v)
        /\ UNCHANGED <<GRip, GDf, GCr3, GCr4, GMsr, GXcr0, GSimd, mem, bus, panicked>>
    BY <1>1, <2>1, <2>2, NativePut
  <2>5. Guest!Compute
    BY <2>3, <2>4 DEF Guest!Compute, Guest!Gpr, Gpr, GRip, GDf, GCr3, GCr4, GMsr, GXcr0, GSimd
  <2> QED
    BY <2>5
<1>5. CASE \E r \in program.operands : Put(r, GuestCr4)
  <2>1. PICK r \in Gpr \cup {"rsp"} : Put(r, GuestCr4)
    BY <1>2, <1>5, SwitchConstants
  <2>2. GuestCr4 \in Register
    BY <1>2, WithVmxeBit DEF GuestCr4, VmcsType
  <2>3. /\ Guest!Put(r, GuestCr4)
        /\ UNCHANGED <<GRip, GDf, GCr3, GCr4, GMsr, GXcr0, GSimd, mem, bus, panicked>>
    BY <1>1, <2>1, <2>2, NativePut
  <2>4. GuestCr4 = GCr4
    BY <1>3 DEF GuestCr4, GCr4
  <2>5. Guest!ControlRegisters
    BY <2>3, <2>4 DEF Guest!ControlRegisters, Guest!MovFromCr, Guest!Gpr, Gpr,
                      GRip, GDf, GCr3, GCr4, GMsr, GXcr0, GSimd
  <2> QED
    BY <2>5
<1>6. CASE \E c \in cpu.xcr0, v \in program.simd :
              cpu' = [cpu EXCEPT !.simd[c] = v] /\ UNCHANGED vmcs
  <2>1. PICK c \in cpu.xcr0, v \in program.simd : cpu' = [cpu EXCEPT !.simd[c] = v] /\ UNCHANGED vmcs
    BY <1>6
  <2>2. v \in UNION {g.simd : g \in Programs}
    BY <1>2
  <2>3. /\ GSimd' = [GSimd EXCEPT ![c] = v] /\ c \in GXcr0
        /\ UNCHANGED <<GGpr, GRsp, GRip, GDf, GCr3, GCr4, GMsr, GXcr0>>
    BY <1>2, <1>3, <2>1 DEF CpuType, GGpr, GRsp, GRip, GDf, GCr3, GCr4, GMsr, GXcr0, GSimd
  <2> QED
    BY <1>1, <2>2, <2>3 DEF Guest!Compute, GGpr, GRsp, GRip, GDf, GCr3, GCr4, GMsr, GXcr0, GSimd
<1>7. CASE \E m \in {m \in CpuMsr : NativeWrmsr(m)}, v \in program.msrs :
              cpu' = [cpu EXCEPT !.msr[m] = v] /\ UNCHANGED vmcs
  <2>1. PICK m \in CpuMsr, v \in program.msrs :
           NativeWrmsr(m) /\ cpu' = [cpu EXCEPT !.msr[m] = v] /\ UNCHANGED vmcs
    BY <1>7
  <2>2. v \in UNION {g.msrs : g \in Programs}
    BY <1>2
  <2>3. m \in RwbkMsr /\ m \in Msr /\ m \notin VmcsMsr
    BY <2>1, BitmapExact, SwitchConstants DEF CpuMsr, Msr
  <2>4. GMsr' = [GMsr EXCEPT ![m] = v]
    BY <1>2, <1>3, <2>1, <2>3 DEF CpuType, GMsr, Msr, CpuMsr
  <2>5. UNCHANGED <<GGpr, GRsp, GRip, GDf, GCr3, GCr4, GXcr0, GSimd>>
    BY <1>2, <1>3, <2>1 DEF CpuType, GGpr, GRsp, GRip, GDf, GCr3, GCr4, GXcr0, GSimd
  <2> QED
    BY <1>1, <2>2, <2>3, <2>4, <2>5 DEF Guest!Compute, GGpr, GRsp, GRip, GDf, GCr3, GCr4, GMsr, GXcr0, GSimd
<1>8. CASE \E m \in {m \in VmcsMsr : NativeWrmsr(m)}, v \in program.msrs :
              vmcs' = [vmcs EXCEPT !.msr[m] = v] /\ UNCHANGED cpu
  <2>1. PICK m \in VmcsMsr, v \in program.msrs : vmcs' = [vmcs EXCEPT !.msr[m] = v] /\ UNCHANGED cpu
    BY <1>8
  <2>2. v \in UNION {g.msrs : g \in Programs} /\ m \in Msr
    BY <1>2 DEF Msr
  <2>3. GMsr' = [GMsr EXCEPT ![m] = v]
    BY <1>2, <1>3, <2>1, <2>2 DEF VmcsType, GMsr
  <2>4. UNCHANGED <<GGpr, GRsp, GRip, GDf, GCr3, GCr4, GXcr0, GSimd>>
    BY <1>2, <1>3, <2>1 DEF VmcsType, GGpr, GRsp, GRip, GDf, GCr3, GCr4, GXcr0, GSimd
  <2> QED
    BY <1>1, <2>2, <2>3, <2>4 DEF Guest!Compute, GGpr, GRsp, GRip, GDf, GCr3, GCr4, GMsr, GXcr0, GSimd
<1>9. CASE vmcs' = [vmcs EXCEPT !.rflags = 1 - @] /\ UNCHANGED cpu
  <2>1. GDf' = 1 - GDf /\ UNCHANGED <<GGpr, GRsp, GRip, GCr3, GCr4, GMsr, GXcr0, GSimd>>
    BY <1>1, <1>2, <1>3, <1>9 DEF VmcsType, GGpr, GRsp, GRip, GDf, GCr3, GCr4, GMsr, GXcr0, GSimd
  <2> QED
    BY <1>1, <2>1 DEF Guest!Compute, GGpr, GRsp, GRip, GDf, GCr3, GCr4, GMsr, GXcr0, GSimd
<1>10. CASE \E r \in program.operands :
              /\ Vmxe(Get(r)) = vmcs.cr4_read_shadow
              /\ vmcs' = [vmcs EXCEPT !.cr4 = WithVmxe(Get(r), Vmxe(@))]
              /\ UNCHANGED cpu
  <2>1. PICK r \in Gpr \cup {"rsp"} :
           /\ Vmxe(Get(r)) = vmcs.cr4_read_shadow
           /\ vmcs' = [vmcs EXCEPT !.cr4 = WithVmxe(Get(r), Vmxe(vmcs.cr4))]
           /\ UNCHANGED cpu
    BY <1>2, <1>10, SwitchConstants DEF VmcsType
  <2>2. Get(r) \in Register /\ Vmxe(vmcs.cr4) \in {0, 1}
    BY <1>2, VmxeBit DEF Get, VmcsType
  <2>3. WithVmxe(WithVmxe(Get(r), Vmxe(vmcs.cr4)), Vmxe(Get(r))) = Get(r)
    BY <2>2, VmxeRestored
  <2>4. GCr4' = Get(r)
    BY <1>2, <1>3, <2>1, <2>3 DEF VmcsType, GCr4
  <2>5. Get(r) = IF r = "rsp" THEN GRsp ELSE GGpr[r]
    BY <1>3 DEF Get, GRsp, GGpr
  <2>6. UNCHANGED <<GGpr, GRsp, GRip, GDf, GCr3, GMsr, GXcr0, GSimd>>
    BY <1>1, <1>2, <1>3, <2>1 DEF VmcsType, GGpr, GRsp, GRip, GDf, GCr3, GMsr, GXcr0, GSimd
  <2>7. Guest!ControlRegisters
    BY <1>1, <2>4, <2>5, <2>6 DEF Guest!ControlRegisters, Guest!MovToCr, Guest!Get, Guest!Gpr, Gpr,
                      GGpr, GRsp, GRip, GDf, GCr3, GCr4, GMsr, GXcr0, GSimd
  <2> QED
    BY <2>7
<1> QED
  BY <1>4, <1>5, <1>6, <1>7, <1>8, <1>9, <1>10 DEF GuestComputes

(* While the handler runs, the guest's state is in its copies.             *)
LEMMA EmulatedState ==
    ASSUME Typed, pc = "emulate", pc' \in {"emulate", "resume"}
    PROVE  /\ GGpr = frame.gpr /\ GGpr' = frame'.gpr
           /\ GRsp = vm_state.rsp /\ GRsp' = vm_state'.rsp
           /\ GRip = vm_state.rip /\ GRip' = vm_state'.rip
           /\ GDf = vm_state.rflags /\ GDf' = vm_state'.rflags
           /\ GCr3 = vm_state.cr3 /\ GCr3' = vm_state'.cr3
           /\ GCr4 = WithVmxe(vm_state.cr4, vmcs.cr4_read_shadow)
           /\ GCr4' = WithVmxe(vm_state'.cr4, vmcs'.cr4_read_shadow)
           /\ GXcr0 = permanent /\ GXcr0' = permanent'
           /\ GSimd = frame.xsave /\ GSimd' = frame'.xsave
           /\ vm_state'.msr = vm_state.msr /\ vm_state'.rwbk = vm_state.rwbk => GMsr' = GMsr
BY DEF OnCpu, InState, GGpr, GRsp, GRip, GDf, GCr3, GCr4, GMsr, GXcr0, GSimd

(* An instruction that changes rip and nothing else of vm_state.           *)
LEMMA OnlyRip ==
    ASSUME Typed, pc = "emulate", pc' \in {"emulate", "resume"}, UNCHANGED vmcs,
           vm_state' = [vm_state EXCEPT !.rip = NextRip]
    PROVE  /\ GRip' = (GRip + 1) % RipValues
           /\ UNCHANGED <<GRsp, GDf, GCr3, GCr4, GMsr>>
<1>1. /\ vm_state'.rip = NextRip /\ vm_state'.rsp = vm_state.rsp /\ vm_state'.rflags = vm_state.rflags
      /\ vm_state'.cr3 = vm_state.cr3 /\ vm_state'.cr4 = vm_state.cr4
      /\ vm_state'.msr = vm_state.msr /\ vm_state'.rwbk = vm_state.rwbk
  BY DEF Typed, StateType
<1> QED
  BY <1>1, EmulatedState DEF NextRip

LEMMA CpuidStep ==
    ASSUME SimInv, LeafInEax, EmulateCpuid
    PROVE  Guest!Cpuid
<1>1. /\ Typed /\ pc = "emulate" /\ pc' = "resume" /\ frame \in FrameType
      /\ UNCHANGED <<panicked, cpu, vmcs, permanent, mem, bus>>
      /\ vm_state' = [vm_state EXCEPT !.rip = NextRip]
  BY DEF SimInv, SwitchInv, Typed, EmulateCpuid, Handling, At
<1>2. GGpr = frame.gpr /\ GGpr' = frame'.gpr /\ GSimd = frame.xsave /\ GSimd' = frame'.xsave
      /\ UNCHANGED GXcr0
  BY <1>1, EmulatedState
<1>3. GRip' = (GRip + 1) % RipValues /\ UNCHANGED <<GRsp, GDf, GCr3, GCr4, GMsr>>
  BY <1>1, OnlyRip
<1>4. Low(GGpr["rax"]) \in HypervisorLeaf <=> frame.gpr["rax"] \in HypervisorLeaf
  <2>1. frame.gpr["rax"] \in 0 .. 255 /\ HypervisorLeaf \subseteq 0 .. 15
    BY <1>1, RegisterRange, PowersOfTwo, SwitchConstants DEF FrameType, Gpr
  <2>2. frame.gpr["rax"] \in HypervisorLeaf => Low(frame.gpr["rax"]) = frame.gpr["rax"]
    BY <2>1, PowersOfTwo DEF Low
  <2> QED
    BY <1>1, <1>2, <2>2 DEF LeafInEax
<1>5. CASE Low(GGpr["rax"]) \in HypervisorLeaf
  <2>1. UNCHANGED frame
    BY <1>4, <1>5 DEF EmulateCpuid
  <2>2. UNCHANGED <<GGpr, GSimd>>
    BY <1>2, <2>1
  <2> QED
    BY <1>1, <1>2, <1>3, <1>5, <2>2 DEF Guest!Cpuid, Guest!Advance, Guest!Low, Low, Guest!WordBits, WordBits,
       GGpr, GRsp, GRip, GDf, GCr3, GCr4, GMsr, GXcr0, GSimd
<1>6. CASE Low(GGpr["rax"]) \notin HypervisorLeaf
  <2>1. CpuidResult(frame.gpr["rax"]) = CpuidAnswer
    BY <1>2, <1>6 DEF CpuidResult
  <2>2. frame' = [frame EXCEPT !.gpr["rax"] = CpuidAnswer, !.gpr["rcx"] = CpuidAnswer, !.gpr["rdx"] = CpuidAnswer]
    BY <1>4, <1>6, <2>1 DEF EmulateCpuid
  <2>3. /\ GGpr' = [GGpr EXCEPT !["rax"] = CpuidAnswer, !["rcx"] = CpuidAnswer, !["rdx"] = CpuidAnswer]
        /\ GSimd' = GSimd
    BY <1>1, <1>2, <2>2 DEF FrameType, Gpr
  <2> QED
    BY <1>1, <1>2, <1>3, <1>6, <2>3 DEF Guest!Cpuid, Guest!Advance, Guest!Low, Low, Guest!WordBits, WordBits,
       GGpr, GRsp, GRip, GDf, GCr3, GCr4, GMsr, GXcr0, GSimd
<1> QED
  BY <1>5, <1>6

LEMMA ControlRegisterStep ==
    ASSUME SimInv, EmulateMovToCr3 \/ EmulateMovToCr4 \/ EmulateMovFromCr3
    PROVE  Guest!ControlRegisters
<1>1. /\ Typed /\ pc = "emulate" /\ pc' = "resume" /\ frame \in FrameType /\ vm_state \in StateType
      /\ vmcs \in VmcsType /\ UNCHANGED <<panicked, cpu, permanent, mem, bus>>
  BY DEF SimInv, SwitchInv, Typed, EmulateMovToCr3, EmulateMovToCr4, EmulateMovFromCr3, Handling, At
<1>2. exit.reg \in Gpr \cup {"rsp"}
  BY <1>1, ExitShape DEF Typed
<1>3. /\ Reg(exit.reg) = IF exit.reg = "rsp" THEN GRsp ELSE GGpr[exit.reg]
      /\ Reg(exit.reg) \in Register /\ UNCHANGED GXcr0
  BY <1>1, <1>2, EmulatedState DEF Reg, FrameType, StateType
<1>4. CASE EmulateMovToCr3
  <2>1. UNCHANGED <<frame, vmcs>> /\ vm_state' = [vm_state EXCEPT !.cr3 = Reg(exit.reg), !.rip = NextRip]
    BY <1>4 DEF EmulateMovToCr3
  <2>2. /\ vm_state'.rip = NextRip /\ vm_state'.rsp = vm_state.rsp /\ vm_state'.rflags = vm_state.rflags
        /\ vm_state'.cr3 = Reg(exit.reg) /\ vm_state'.cr4 = vm_state.cr4
        /\ vm_state'.msr = vm_state.msr /\ vm_state'.rwbk = vm_state.rwbk
    BY <1>1, <2>1 DEF StateType
  <2>3. /\ GCr3' = Reg(exit.reg) /\ GRip' = (GRip + 1) % RipValues
        /\ UNCHANGED <<GGpr, GRsp, GDf, GCr4, GMsr, GSimd>>
    BY <1>1, <2>1, <2>2, EmulatedState DEF NextRip
  <2> QED
    BY <1>1, <1>2, <1>3, <2>3 DEF Guest!ControlRegisters, Guest!MovToCr, Guest!Get, Guest!Advance, Guest!Gpr, Gpr,
       GGpr, GRsp, GRip, GDf, GCr3, GCr4, GMsr, GXcr0, GSimd
<1>5. CASE EmulateMovToCr4
  <2>1. /\ vm_state' = [vm_state EXCEPT !.cr4 = WithVmxe(Reg(exit.reg), 1), !.rip = NextRip]
        /\ vmcs' = [vmcs EXCEPT !.cr4_read_shadow = Vmxe(Reg(exit.reg))]
        /\ UNCHANGED frame
    BY <1>5 DEF EmulateMovToCr4
  <2>2. /\ vm_state'.rip = NextRip /\ vm_state'.rsp = vm_state.rsp /\ vm_state'.rflags = vm_state.rflags
        /\ vm_state'.cr3 = vm_state.cr3 /\ vm_state'.cr4 = WithVmxe(Reg(exit.reg), 1)
        /\ vm_state'.msr = vm_state.msr /\ vm_state'.rwbk = vm_state.rwbk
        /\ vmcs'.cr4_read_shadow = Vmxe(Reg(exit.reg))
    BY <1>1, <2>1 DEF StateType, VmcsType
  <2>3. WithVmxe(WithVmxe(Reg(exit.reg), 1), Vmxe(Reg(exit.reg))) = Reg(exit.reg)
    BY <1>3, VmxeRestored
  <2>4. /\ GCr4' = Reg(exit.reg) /\ GRip' = (GRip + 1) % RipValues
        /\ UNCHANGED <<GGpr, GRsp, GDf, GCr3, GMsr, GSimd>>
    BY <1>1, <2>1, <2>2, <2>3, EmulatedState DEF NextRip
  <2> QED
    BY <1>1, <1>2, <1>3, <2>4 DEF Guest!ControlRegisters, Guest!MovToCr, Guest!Get, Guest!Advance, Guest!Gpr, Gpr,
       GGpr, GRsp, GRip, GDf, GCr3, GCr4, GMsr, GXcr0, GSimd
<1>6. CASE EmulateMovFromCr3
  <2>1. /\ vm_state' = [vm_state EXCEPT !.rsp = IF exit.reg = "rsp" THEN vm_state.cr3 ELSE @, !.rip = NextRip]
        /\ frame' = IF exit.reg = "rsp" THEN frame ELSE [frame EXCEPT !.gpr[exit.reg] = vm_state.cr3]
        /\ UNCHANGED vmcs
    BY <1>6 DEF EmulateMovFromCr3
  <2>2. /\ vm_state'.rip = NextRip /\ vm_state'.rflags = vm_state.rflags
        /\ vm_state'.rsp = IF exit.reg = "rsp" THEN vm_state.cr3 ELSE vm_state.rsp
        /\ vm_state'.cr3 = vm_state.cr3 /\ vm_state'.cr4 = vm_state.cr4
        /\ vm_state'.msr = vm_state.msr /\ vm_state'.rwbk = vm_state.rwbk
    BY <1>1, <2>1 DEF StateType
  <2>3. /\ frame'.gpr = IF exit.reg = "rsp" THEN frame.gpr ELSE [frame.gpr EXCEPT ![exit.reg] = vm_state.cr3]
        /\ frame'.xsave = frame.xsave
    BY <1>1, <2>1 DEF FrameType
  <2>4. /\ GRip' = (GRip + 1) % RipValues /\ UNCHANGED <<GDf, GCr3, GCr4, GMsr, GSimd>>
        /\ IF exit.reg = "rsp" THEN GRsp' = GCr3 /\ UNCHANGED GGpr
           ELSE GGpr' = [GGpr EXCEPT ![exit.reg] = GCr3] /\ UNCHANGED GRsp
    BY <1>1, <2>1, <2>2, <2>3, EmulatedState DEF NextRip
  <2>5. Guest!Put(exit.reg, GCr3)
    BY <2>4 DEF Guest!Put, GGpr, GRsp
  <2> QED
    BY <1>1, <1>2, <1>3, <2>4, <2>5 DEF Guest!ControlRegisters, Guest!MovFromCr, Guest!Advance, Guest!Gpr, Gpr,
       GGpr, GRsp, GRip, GDf, GCr3, GCr4, GMsr, GXcr0, GSimd
<1> QED
  BY <1>4, <1>5, <1>6

LEMMA XsetbvStep ==
    ASSUME SimInv, EmulateXsetbv, SupportedXcr0 \subseteq CheckedComponent
    PROVE  Guest!XsetbvInstruction
<1>1. /\ Typed /\ pc = "emulate" /\ pc' = "resume"
      /\ UNCHANGED <<panicked, cpu, vmcs, frame, mem, bus>>
      /\ vm_state' = [vm_state EXCEPT !.rip = NextRip]
  BY DEF SimInv, SwitchInv, EmulateXsetbv, Handling, At
<1>2. GGpr = frame.gpr /\ UNCHANGED <<GGpr, GSimd>> /\ GXcr0' = permanent'
  BY <1>1, EmulatedState
<1>3. GRip' = (GRip + 1) % RipValues /\ UNCHANGED <<GRsp, GDf, GCr3, GCr4, GMsr>>
  BY <1>1, OnlyRip
<1>4. GGpr["rcx"] = 0 /\ GXcr0' = NewXcr0
  BY <1>2 DEF EmulateXsetbv, XsetbvAllowed
<1>5. NewXcr0 = Bits((GGpr["rdx"] * 2 ^ WordBits) + Low(GGpr["rax"]))
  BY <1>2 DEF NewXcr0
<1>6. XsetbvAccepts(NewXcr0, SupportedXcr0)
  BY DEF EmulateXsetbv, XsetbvAllowed, XsetbvAccepts, CheckedComponent
<1>7. Guest!XsetbvOperand = NewXcr0
  BY <1>5 DEF Guest!XsetbvOperand, Guest!Bits, Bits, Guest!Low, Low, Guest!WordBits, WordBits, GGpr
<1> QED
  BY <1>1, <1>2, <1>3, <1>4, <1>6, <1>7 DEF Guest!XsetbvInstruction, Guest!XsetbvAccepts, XsetbvAccepts, Guest!Advance,
     GGpr, GRsp, GRip, GDf, GCr3, GCr4, GMsr, GXcr0, GSimd

LEMMA PortStep ==
    ASSUME SimInv, EmulateOut \/ EmulateIn
    PROVE  \E n \in Guest!IoSize :
              \/ Guest!Out(n)
              \/ \E v \in UNION {g.inputs : g \in Programs} : Guest!In(n, v % 2 ^ n)
<1>1. /\ Typed /\ pc = "emulate" /\ pc' = "resume" /\ frame \in FrameType /\ program \in Programs
      /\ UNCHANGED <<panicked, cpu, vmcs, permanent, mem>>
      /\ vm_state' = [vm_state EXCEPT !.rip = NextRip]
  BY DEF SimInv, SwitchInv, Typed, EmulateOut, EmulateIn, Handling, At
<1>2. exit.size \in IoSize /\ exit.size \in Guest!IoSize
  BY <1>1, ExitShape DEF Typed, IoSize, Guest!IoSize
<1>3. /\ GGpr = frame.gpr /\ GGpr' = frame'.gpr /\ GSimd = frame.xsave /\ GSimd' = frame'.xsave
      /\ UNCHANGED GXcr0
  BY <1>1, EmulatedState
<1>4. GRip' = (GRip + 1) % RipValues /\ UNCHANGED <<GRsp, GDf, GCr3, GCr4, GMsr>>
  BY <1>1, OnlyRip
<1>5. CASE EmulateOut
  <2>1. UNCHANGED <<GGpr, GSimd>> /\ bus' = <<exit.size, GGpr["rax"] % 2 ^ exit.size>>
    BY <1>3, <1>5 DEF EmulateOut, Truncated
  <2>2. Guest!Out(exit.size)
    BY <1>1, <1>3, <1>4, <2>1 DEF Guest!Out, Guest!Advance,
       GGpr, GRsp, GRip, GDf, GCr3, GCr4, GMsr, GXcr0, GSimd
  <2> QED
    BY <1>2, <2>2
<1>6. CASE EmulateIn
  <2>1. PICK v \in program.inputs :
           frame' = [frame EXCEPT !.gpr["rax"] = Kept(@, exit.size) + Truncated(v, exit.size)]
    BY <1>6 DEF EmulateIn
  <2>2. v \in UNION {g.inputs : g \in Programs} /\ v \in 0 .. 15
    BY <1>1, PowersOfTwo, SwitchConstants
  <2>3. v % 2 ^ exit.size \in Int
    BY <1>2, <2>2, PowersOfTwo
  <2>4. frame.gpr["rax"] \in 0 .. 255
    BY <1>1, RegisterRange DEF FrameType, Gpr
  <2> DEFINE t == v % 2 ^ exit.size
  <2>5. Kept(frame.gpr["rax"], exit.size) + Truncated(v, exit.size)
          = IF exit.size = WordBits THEN t ELSE frame.gpr["rax"] - (frame.gpr["rax"] % 2 ^ exit.size) + t
    BY <2>3, <2>4 DEF Kept, Truncated
  <2> HIDE DEF t
  <2>6. /\ GGpr' = [GGpr EXCEPT !["rax"] = IF exit.size = WordBits THEN t ELSE @ - (@ % 2 ^ exit.size) + t]
        /\ UNCHANGED GSimd
    BY <1>1, <1>3, <2>1, <2>5 DEF FrameType, Gpr
  <2>7. UNCHANGED bus
    BY <1>6 DEF EmulateIn
  <2>8. Guest!In(exit.size, t)
    BY <1>1, <1>3, <1>4, <2>6, <2>7 DEF Guest!In, Guest!Advance, Guest!WordBits, WordBits,
       GGpr, GRsp, GRip, GDf, GCr3, GCr4, GMsr, GXcr0, GSimd
  <2> QED
    BY <1>2, <2>2, <2>8 DEF t
<1> QED
  BY <1>5, <1>6

(* An element of INS or OUTS.  An element that starts on the guest's page  *)
(* and does not cross into the next one is whole on it.                    *)
LEMMA ElementStep ==
    ASSUME SimInv, NEW count \in {0, 1}, OutElement(count) \/ InElement(count),
           pc = "emulate", pc' \in {"emulate", "resume"}
    PROVE  /\ Guest!OutElement(exit.size, count) \/ Guest!InElement(exit.size, count)
           /\ UNCHANGED GSimd
<1>1. /\ Typed /\ frame \in FrameType /\ program \in Programs
      /\ mem \in [0 .. PageCells - 1 -> 0 .. 1]
  BY DEF SimInv, SwitchInv, Typed
<1>2. exit.size \in {1, 2, 4}
  BY <1>1, ExitShape DEF Typed, IoSize
<1>3. /\ GGpr = frame.gpr /\ GGpr' = frame'.gpr /\ GSimd = frame.xsave /\ GSimd' = frame'.xsave
      /\ GDf = vm_state.rflags
  BY <1>1, EmulatedState
<1>4. ASSUME NEW a \in Register, Resolves(a, exit.size)
      PROVE  {a, a + exit.size - 1} \subseteq DOMAIN mem
  <2>1. a \in 0 .. 3 /\ a \div 4 = (a + exit.size - 1) \div 4
    BY <1>1, <1>4 DEF Resolves, SamePage, PageCells
  <2>2. a + exit.size - 1 \in 0 .. 3
    BY <1>2, <2>1
  <2> QED
    BY <1>1, <2>1, <2>2 DEF PageCells
<1>5. frame.gpr["rsi"] \in Register /\ frame.gpr["rdi"] \in Register
  BY <1>1 DEF FrameType, Gpr
<1>6. CASE OutElement(count)
  <2>1. /\ bus' = <<exit.size, Value(mem, GGpr["rsi"], exit.size)>> /\ UNCHANGED mem
        /\ {GGpr["rsi"], GGpr["rsi"] + exit.size - 1} \subseteq DOMAIN mem
    BY <1>3, <1>4, <1>5, <1>6 DEF OutElement
  <2>2. /\ GGpr' = [GGpr EXCEPT !["rsi"] = Stepped(@, exit.size), !["rcx"] = @ - count]
        /\ UNCHANGED GSimd
    BY <1>1, <1>3, <1>6 DEF OutElement, FrameType, Gpr
  <2>3. Guest!Moved("rsi", exit.size) = Stepped(GGpr["rsi"], exit.size)
    BY <1>3 DEF Guest!Moved, Stepped, Guest!WordBits, WordBits, GGpr, GDf
  <2>4. Guest!Value(mem, GGpr["rsi"], exit.size) = Value(mem, GGpr["rsi"], exit.size)
    BY DEF Guest!Value, Value
  <2>5. Guest!OutElement(exit.size, count)
    BY <2>1, <2>2, <2>3, <2>4 DEF Guest!OutElement, GGpr
  <2> QED
    BY <2>2, <2>5
<1>7. CASE InElement(count)
  <2>1. PICK v \in program.inputs : mem' = Stored(mem, GGpr["rdi"], exit.size, v % 2 ^ exit.size)
    BY <1>3, <1>7 DEF InElement, Truncated
  <2>2. v \in UNION {g.inputs : g \in Programs}
    BY <1>1
  <2>3. {GGpr["rdi"], GGpr["rdi"] + exit.size - 1} \subseteq DOMAIN mem /\ UNCHANGED bus
    BY <1>3, <1>4, <1>5, <1>7 DEF InElement
  <2>4. /\ GGpr' = [GGpr EXCEPT !["rdi"] = Stepped(@, exit.size), !["rcx"] = @ - count]
        /\ UNCHANGED GSimd
    BY <1>1, <1>3, <1>7 DEF InElement, FrameType, Gpr
  <2>5. Guest!Moved("rdi", exit.size) = Stepped(GGpr["rdi"], exit.size)
    BY <1>3 DEF Guest!Moved, Stepped, Guest!WordBits, WordBits, GGpr, GDf
  <2>6. \A w : Guest!Stored(mem, GGpr["rdi"], exit.size, w) = Stored(mem, GGpr["rdi"], exit.size, w)
    BY DEF Guest!Stored, Stored
  <2>7. Guest!InElement(exit.size, count)
    BY <2>1, <2>2, <2>3, <2>4, <2>5, <2>6 DEF Guest!InElement, GGpr
  <2> QED
    BY <2>4, <2>7
<1> QED
  BY <1>6, <1>7

LEMMA StringStep ==
    ASSUME SimInv, EmulateString \/ EmulateRepStep \/ EmulateRepEnd
    PROVE  Guest!StringIo
<1>1. /\ Typed /\ pc = "emulate" /\ pc' \in {"emulate", "resume"} /\ frame \in FrameType
      /\ UNCHANGED <<panicked, cpu, vmcs, permanent>>
  BY DEF SimInv, SwitchInv, Typed, EmulateString, EmulateRepStep, EmulateRepEnd, At
<1>2. exit.size \in Guest!IoSize
  BY <1>1, ExitShape DEF Typed, IoSize, Guest!IoSize
<1>3. /\ GGpr = frame.gpr /\ GGpr' = frame'.gpr /\ GSimd = frame.xsave /\ GSimd' = frame'.xsave
      /\ UNCHANGED GXcr0
  BY <1>1, EmulatedState
<1>4. CASE EmulateString
  <2>1. GRip' = (GRip + 1) % RipValues /\ UNCHANGED <<GRsp, GDf, GCr3, GCr4, GMsr>>
    BY <1>1, <1>4, OnlyRip DEF EmulateString
  <2>2. /\ Guest!OutElement(exit.size, 0) \/ Guest!InElement(exit.size, 0)
        /\ UNCHANGED GSimd
    BY <1>1, <1>4, ElementStep DEF EmulateString
  <2> QED
    BY <1>1, <1>2, <1>3, <2>1, <2>2 DEF Guest!StringIo, Guest!Advance,
       GRsp, GRip, GDf, GCr3, GCr4, GMsr, GXcr0, GSimd
<1>5. CASE EmulateRepStep
  <2>1. UNCHANGED <<GRsp, GRip, GDf, GCr3, GCr4, GMsr>>
    BY <1>1, <1>5, EmulatedState DEF EmulateRepStep
  <2>2. /\ Guest!OutElement(exit.size, 1) \/ Guest!InElement(exit.size, 1)
        /\ UNCHANGED GSimd
    BY <1>1, <1>5, ElementStep DEF EmulateRepStep
  <2>3. GGpr["rcx"] > 0
    BY <1>1, <1>3, <1>5, RegisterRange DEF EmulateRepStep, FrameType, Gpr
  <2> QED
    BY <1>1, <1>2, <1>3, <2>1, <2>2, <2>3 DEF Guest!StringIo,
       GGpr, GRsp, GRip, GDf, GCr3, GCr4, GMsr, GXcr0, GSimd
<1>6. CASE EmulateRepEnd
  <2>1. GRip' = (GRip + 1) % RipValues /\ UNCHANGED <<GRsp, GDf, GCr3, GCr4, GMsr>>
    BY <1>1, <1>6, OnlyRip DEF EmulateRepEnd
  <2>2. UNCHANGED <<GGpr, GSimd, mem, bus>> /\ GGpr["rcx"] = 0
    BY <1>3, <1>6 DEF EmulateRepEnd
  <2> QED
    BY <1>1, <1>3, <2>1, <2>2 DEF Guest!StringIo, Guest!Advance,
       GGpr, GRsp, GRip, GDf, GCr3, GCr4, GMsr, GXcr0, GSimd
<1> QED
  BY <1>4, <1>5, <1>6

(* A PANIC stops the guest between two instructions.                       *)
LEMMA StopStep ==
    ASSUME ~panicked, Panic
    PROVE  Guest!Stop
BY DEF Panic, Guest!Stop, OnCpu, InState

LEMMA InitGuest == Init => Guest!Init
<1> SUFFICES ASSUME Init PROVE Guest!Init
  OBVIOUS
<1>1. ~OnCpu /\ ~InState
  BY DEF Init, OnCpu, InState
<1>2. /\ GGpr \in [Gpr -> Register] /\ GRsp \in Register /\ GRip = 0 /\ GDf = 0 /\ GCr3 \in Register
      /\ GXcr0 = {0} /\ GSimd = [c \in Component |-> 0]
  BY <1>1, RegisterRange DEF Init, NoFrame, GGpr, GRsp, GRip, GDf, GCr3, GXcr0, GSimd
<1>3. GCr4 \in Register
  <2>1. GCr4 = WithVmxe(2, 1)
    BY <1>1 DEF Init, GCr4
  <2>2. 2 \in Register
    BY RegisterRange
  <2> QED
    BY <2>1, <2>2, WithVmxeBit
<1>4. mem \in [0 .. PageCells - 1 -> 0 .. 1] /\ bus = <<0, 0>> /\ panicked = FALSE
  BY DEF Init, PageCells
<1>5. /\ Guest!Gpr = Gpr /\ Guest!Register = Register /\ Guest!Component = Component
      /\ Guest!PageCells = PageCells
  BY DEF Guest!Gpr, Gpr, Guest!Register, Register, Guest!WordBits, WordBits, Guest!Component, Component,
         Guest!PageCells, PageCells
<1> QED
  BY <1>2, <1>3, <1>4, <1>5 DEF Guest!Init, GGpr, GRsp, GRip, GDf, GCr3, GCr4, GXcr0, GSimd

LEMMA NextGuest ==
    ASSUME SimInv, LeafInEax, [Next]_vars, SupportedXcr0 \subseteq CheckedComponent
    PROVE  [Guest!Next]_Guest!guest
<1>1. CASE UNCHANGED vars
  <2>1. UNCHANGED <<GGpr, GRsp, GRip, GDf, GCr3, GCr4, GXcr0, GSimd, mem, bus, panicked>>
    BY <1>1 DEF vars, OnCpu, InState, GGpr, GRsp, GRip, GDf, GCr3, GCr4, GXcr0, GSimd
  <2>2. UNCHANGED GMsr
    BY <1>1 DEF vars, InState, GMsr
  <2> QED
    BY <2>1, <2>2, GuestTuple
<1>2. CASE GuestComputes /\ UNCHANGED program
  BY <1>2, NativeStep DEF Guest!Next, GuestComputes, At
<1>3. CASE \/ Launch \/ SaveGuest \/ EnterHandler \/ LeaveHandler \/ ResumeGuest
           \/ \E e \in Exits : VmExit(e)
  BY <1>3, SwitchInvisible
<1>4. CASE VmxAssertFails \/ ResumeFails \/ HandlerPanics
  BY <1>4, StopStep DEF VmxAssertFails, ResumeFails, HandlerPanics, Guest!Next, At
<1>5. CASE EmulateCpuid
  BY <1>5, CpuidStep DEF Guest!Next, EmulateCpuid, Handling, At
<1>6. CASE EmulateMovToCr3 \/ EmulateMovToCr4 \/ EmulateMovFromCr3
  BY <1>6, ControlRegisterStep DEF Guest!Next, EmulateMovToCr3, EmulateMovToCr4, EmulateMovFromCr3, Handling, At
<1>7. CASE EmulateXsetbv
  BY <1>7, XsetbvStep DEF Guest!Next, EmulateXsetbv, Handling, At
<1>8. CASE EmulateOut \/ EmulateIn
  BY <1>8, PortStep DEF Guest!Next, EmulateOut, EmulateIn, Handling, At
<1>9. CASE EmulateString \/ EmulateRepStep \/ EmulateRepEnd
  BY <1>9, StringStep DEF Guest!Next, EmulateString, EmulateRepStep, EmulateRepEnd, At
<1> QED
  BY <1>1, <1>2, <1>3, <1>4, <1>5, <1>6, <1>7, <1>8, <1>9 DEF Next, HypervisorStep

(* A guest cannot tell that it is interrupted: the hypervisor implements   *)
(* the processor of GuestMachine, step by step, on a processor with x87,   *)
(* SSE and AVX (see xcr0_avx512 for others) and for guests that keep the   *)
(* bits above eax clear when they ask for a leaf of the hypervisor below   *)
(* (cpuid_leaf).                                                           *)
THEOREM GuestNeverDisturbed ==
    ASSUME SupportedXcr0 \subseteq CheckedComponent
    PROVE  Spec /\ []LeafInEax => GuestUndisturbed
<1>1. SimInv /\ LeafInEax /\ [Next]_vars => [Guest!Next]_Guest!guest
  BY NextGuest
<1>2. Spec => []SimInv
  <2>1. Init => SimInv
    BY InitSwitch, InitExtended DEF SimInv
  <2>2. SimInv /\ [Next]_vars => SimInv'
    BY NextSwitch, NextExtended DEF SimInv
  <2> QED
    BY <2>1, <2>2, PTL DEF Spec
<1> QED
  BY <1>1, <1>2, InitGuest, PTL DEF Spec, GuestUndisturbed, Guest!Spec

=============================================================================
