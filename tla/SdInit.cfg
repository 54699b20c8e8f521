SPECIFICATION FairSpec
CONSTANTS
    CardRca = 1
    OtherRca = 2
    Hosts = {0, 1, 2}
    CSizes = {2777, 65535, 4194303}
    Mults = {2, 5}
    Lens = {9, 10, 11}
    MaxPolls = 2
    MaxFaults = 2
CHECK_DEADLOCK FALSE
INVARIANT TypeOK
INVARIANT Ready
INVARIANT Agreed
INVARIANT SizeShown
INVARIANT Clocked
PROPERTY InitReturns
