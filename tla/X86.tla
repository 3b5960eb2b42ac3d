-------------------------------- MODULE X86 --------------------------------
(***************************************************************************)
(* What the hypervisor relies on the processor for, at a reduced width:    *)
(* a doubleword has WordBits bits instead of 32, a register twice as many. *)
(* A byte, a word and a doubleword are 1, 2 and 4 cells of guest memory,   *)
(* one bit each.                                                           *)
(***************************************************************************)
EXTENDS Integers

WordBits == 4
Register == 0 .. 2 ^ (2 * WordBits) - 1

Low(v) == v % 2 ^ WordBits
Bits(v) == {b \in 0 .. 2 * WordBits - 1 : (v \div 2 ^ b) % 2 = 1}

Gpr == {"rax", "rcx", "rdx", "rsi", "rdi"}

(* CR4.VMXE is the bit of weight 2.                                        *)
Vmxe(cr4) == (cr4 \div 2) % 2
WithVmxe(cr4, bit) == cr4 - 2 * Vmxe(cr4) + 2 * bit

(* XCR0 is a set of state components: 0 is x87, 1 is SSE, 2 is AVX, 3 and  *)
(* 4 are those of MPX, 5 stands for the three of AVX-512 and 6 and 7 are   *)
(* those of AMX.  XSETBV faults unless x87 is there, AVX comes with SSE,   *)
(* AVX-512 with AVX, and those of MPX and of AMX in pairs.  Left out are   *)
(* the components without such a rule, and that the three of AVX-512 may   *)
(* only be enabled together.                                               *)
Component == 0 .. 7
XsetbvAccepts(xcr0, supported) ==
    /\ xcr0 \subseteq supported
    /\ 0 \in xcr0
    /\ 2 \in xcr0 => 1 \in xcr0
    /\ 3 \in xcr0 <=> 4 \in xcr0
    /\ 5 \in xcr0 => 2 \in xcr0
    /\ 6 \in xcr0 <=> 7 \in xcr0

(* x87, SSE and AVX: the components whose rules the hypervisor knows.      *)
CheckedComponent == {0, 1, 2}

(* XSAVE into a zeroed area and XRSTOR handle the components XCR0 enables. *)
Xsave(xcr0, simd) == [c \in Component |-> IF c \in xcr0 THEN simd[c] ELSE 0]
Xrstor(xcr0, area, simd) == [c \in Component |-> IF c \in xcr0 THEN area[c] ELSE simd[c]]

(* The MSRs, at addresses below 2000H and from C0000000H on, and the bit   *)
(* of the write bitmaps the processor looks at (8 bits a byte there).      *)
MSR_HIGH_BASE == 8
LowMsr == 0 .. 3
HighMsr == 8 .. 11
ByteBits == 2
WriteBit(m) ==
    LET half == IF m \in LowMsr THEN "low" ELSE "high"
        i == IF m \in LowMsr THEN m ELSE m - MSR_HIGH_BASE
    IN  <<half, i \div ByteBits, i % ByteBits>>

(* The sizes of I/O, in bits and in cells of memory.                       *)
IoSize == {1, 2, 4}
PageCells == 4
SamePage(a, n) == a \div PageCells = (a + n - 1) \div PageCells

Value(mem, a, n) ==
    mem[a] + (IF n > 1 THEN 2 * mem[a + 1] ELSE 0)
           + (IF n > 2 THEN 4 * mem[a + 2] + 8 * mem[a + 3] ELSE 0)
Stored(mem, a, n, v) ==
    [x \in DOMAIN mem |-> IF x \in a .. a + n - 1 THEN (v \div 2 ^ (x - a)) % 2 ELSE mem[x]]
=============================================================================
