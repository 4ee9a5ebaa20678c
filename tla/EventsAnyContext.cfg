SPECIFICATION Spec
CONSTANTS
    Kinds = {"MMIO_WRITE", "VP_END"}
    Blocks = {32, 48}
    Loc <- MCLoc
    Mix <- MCXor
    MapSize = 4
    CounterSize = 2
    InitialMaps <- MCMaps
    Orders = {"resume_first", "take_first"}
    MaxExtra = 1
    MaxTrace = 3
INVARIANTS
    DequeAlone
CHECK_DEADLOCK FALSE
