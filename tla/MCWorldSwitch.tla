--------------------------- MODULE MCWorldSwitch ---------------------------
(* WorldSwitch with a few kinds of guests, each using one part of the      *)
(* processor in every way: together they would only multiply states.       *)
EXTENDS WorldSwitch

(* A guest that loads these values into some registers and only causes     *)
(* these exits.                                                            *)
Using(values, reasons) ==
    [registers |-> [r \in Gpr \cup {"rsp"} |-> IF r \in DOMAIN values THEN values[r] ELSE {}],
     simd |-> {}, msrs |-> {}, operands |-> {}, inputs |-> {}, reasons |-> reasons]

(* XCR0 operands, the refused ones too, extended state and MSRs.           *)
Extended ==
    [Using([rax |-> {1, 2, 3, 5, 7, 11, 23}, rcx |-> {0, 1}, rdx |-> {0, 1}], {"XSETBV"})
        EXCEPT !.simd = {1}, !.msrs = {0, 1}]

(* Control registers, with VMXE set and clear, and a CPUID leaf.           *)
Control ==
    [Using([rax |-> {4, 6}, rsp |-> {7}], {"CPUID", "TO_CR3", "FROM_CR3", "TO_CR4", "unsupported"})
        EXCEPT !.operands = {"rax", "rsp"}]

(* Counts and addresses for OUT and for IN, with DF set and clear.         *)
Output == Using([rax |-> {22}, rcx |-> {2}, rsi |-> {0, 3}], {"OUT"})
Input == [Using([rax |-> {22}, rcx |-> {2}, rdi |-> {1}], {"IN"}) EXCEPT !.inputs = {5}]

AllPrograms == {Extended, Control, Output, Input}

(* XCR0 operands, on a processor with AVX-512: alone, with SSE, with AVX.  *)
Avx512 == {Using([rax |-> {1, 3, 7}, rdx |-> {0, 2}], {"XSETBV"})}

(* A hypervisor leaf with and without bits set above eax.                  *)
Leaf == {Using([rax |-> {4, 20}], {"CPUID"})}
=============================================================================
