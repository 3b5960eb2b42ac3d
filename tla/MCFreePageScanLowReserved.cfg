CONSTANTS
    MaxDesc = 3
    MaxPages = 2
    FirstUsable = {FALSE}
    Mmaps <- MCMmaps
SPECIFICATION Spec
INVARIANT NoOutOfBounds
CHECK_DEADLOCK FALSE
