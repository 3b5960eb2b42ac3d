CONSTANTS
    First = 1
    Last = 5
    Pages <- MCPages
    MaxNodes = 3
SPECIFICATION Spec
INVARIANTS TypeOK NodesDisjoint
PROPERTY ImplementsTracked
CHECK_DEADLOCK FALSE
