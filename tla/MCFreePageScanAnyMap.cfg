CONSTANTS
    MaxDesc = 3
    MaxPages = 2
    FirstUsable = {TRUE, FALSE}
    Mmaps <- MCMmaps
SPECIFICATION FairSpec
INVARIANTS TypeOK OomOnlyWhenFull InBounds
PROPERTIES NothingSkipped ScanTerminates ImplementsAllocator
CHECK_DEADLOCK FALSE
