CONSTANTS
    com1 = com1
    com2 = com2
    NULL = null
    Device = {com1, com2}
    Base <- Bases
    Drivers <- AllDrivers
    Capacity = 4
SPECIFICATION FairSpec
INVARIANTS TypeOK TextDelivered BanksSeparate RightDevice
PROPERTY LookupEnds
CHECK_DEADLOCK FALSE
