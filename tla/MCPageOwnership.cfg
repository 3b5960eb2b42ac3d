CONSTANTS
    Page = {p1, p2, p3, p4, p5}
    Usable = {p1, p2, p3, p4}
    Chainloads <- MCChainloads
    Vm = {vm1, vm2}
    NoVm = none
SPECIFICATION Spec
INVARIANT Exclusive
PROPERTY OnlyFirstVmcsShared
CHECK_DEADLOCK FALSE
SYMMETRY Symmetry
