CONSTANTS
    LowBase = 0
    LowPages = 6
    HighPages = 18
    ScanOrder <- Unsorted
    Chainloads <- MCChainloads
    Vm = {vm1}
    NoVm = none
    GuestSizes = {1, 3}
    Entries = 2
    MaxDevices = 2
    ArenaSize = 22
    VmSize = 3
    NodeSize = 2
    DeviceSize = 6
SPECIFICATION Spec
INVARIANT OomOnlyWhenOwned
CHECK_DEADLOCK FALSE
