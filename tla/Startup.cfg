SPECIFICATION FairSpec
CONSTANTS
    FifoDepth = 2
    Word = 65536
    HalfDigits = 2
    Cores = {0, 1}
    Machines <- MCMachines
    Faults <- MCFaults
    Prints <- MCPrints
    Sizes <- MCSizes
    Sectors <- MCSectors
INVARIANTS
    TypeOK
    Loaded
    PinsApart
    WireIsText
    OverrunOnlyFull
PROPERTIES
    OnWhenReady
    Finishes
CHECK_DEADLOCK FALSE
