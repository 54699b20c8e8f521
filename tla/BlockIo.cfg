SPECIFICATION Spec
CONSTANTS
    a = a
    b = b
    SectorSize = 2
    MaxLba = 1
    Word = 16
    MaxAddress = 4
    Byte <- Bytes
    NoByte = NoByte
    NoBlock = NoBlock
SYMMETRY ByteSymmetry
CHECK_DEADLOCK TRUE
INVARIANT TypeOK
INVARIANT AlignedRead
INVARIANT AlignedWrite
PROPERTY WritesInside
