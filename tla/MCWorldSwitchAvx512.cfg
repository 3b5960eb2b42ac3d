CONSTANTS
    Programs <- Avx512
    RipValues = 2
    VmcsMsr = {9}
    RwbkMsr = {1}
    OtherMsr = {0, 8}
    HostMsrValue = 2
    SupportedXcr0 = {0, 1, 2, 5}
    HypervisorLeaf = {4}
    CpuidAnswer = 1
    OuterAnswer = 9
SPECIFICATION Spec
INVARIANT XsetbvSafe
CHECK_DEADLOCK FALSE
