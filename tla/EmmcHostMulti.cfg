SPECIFICATION Spec
CONSTANTS
    MaxLba = 2
    Data = {d1, d2}
    NoBlock = NoBlock
    MaxNum = 3
    Attempts = 2
    InhibitLimit = 2
    PollLimit = 2
    LinesAfterError <- LinesFreed
CHECK_DEADLOCK TRUE
INVARIANT BlocksInOrder
