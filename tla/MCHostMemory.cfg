CONSTANTS
    LowBase = 1
    LowPages = 6
    HighPages = 22
    ScanOrder <- Sorted
    Chainloads <- MCChainloads
    Vm = {vm1, vm2}
    NoVm = none
    GuestSizes = {2, 5, 9}
    Entries = 2
    MaxDevices = 2
    ArenaSize = 25
    VmSize = 3
    NodeSize = 2
    DeviceSize = 6
SPECIFICATION FairSpec
INVARIANTS TypeOK EptExact PoolExact NoRemap EptTreePrivate OomOnlyWhenOwned
PROPERTIES CallsEnd ImplementsOwnership
CHECK_DEADLOCK FALSE
