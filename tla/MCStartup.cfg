CONSTANTS
    Entries = 4
    PageCount = 64
    FirstTypes <- MachineTypes
    Splits = {20}
    EventPages = {1, 3, 8}
    MaxEvents = 2
    FirstPolicy = "high"
    Policies = {"low", "high", "sparse"}
    MaxSwitches = 1
    PageSectors = 2
    FileSizes = {5, 8, 12}
    PhysicalIndex = 1
    MaxRegions = 16
    MaxDescriptors = 6
    Garbage = 40
    GuestPages = 16
    PreferredPage = 4
    CodePage = 3
    SizeValues = 1024
    Headers <- AllHeaders
SPECIFICATION StartupSpec
INVARIANTS TypeOK NothingNeededIsFree OfferedIsUsable RegionsExact AddressSpaceExact OnlyFirmwareFails SpareSuffices IdentityMapped LinuxReady
PROPERTIES StartupEnds
