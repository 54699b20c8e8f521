SPECIFICATION Spec
CONSTANTS
    Word = 8
    SectorSize = 2
    SectorCount = 6
    Entries = 2
    MaxPartitions = 3
    Cards <- MCCards
    NoDev = NoDev
INVARIANTS
    TableOfMbr
    InStep
    OwnSectors
