CONSTANTS
    LowBase = 1
    LowPages = 6
    HighPages = 22
    ScanOrder <- Sorted
    Chainloads <- MCChainloads
    Vm = {vm1}
    NoVm = none
    GuestSizes = {1, 2, 4, 5, 9}
    Entries = 2
    MaxDevices = 2
    ArenaSize = 16
    VmSize = 3
    NodeSize = 2
    DeviceSize = 6
SPECIFICATION Spec
CHECK_DEADLOCK FALSE
INVARIANT VmcsPrivate
