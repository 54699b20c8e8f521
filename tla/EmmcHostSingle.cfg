SPECIFICATION FairSpec
CONSTANTS
    MaxLba = 1
    Data = {d1, d2}
    NoBlock = NoBlock
    MaxNum = 1
    Attempts = 2
    InhibitLimit = 2
    PollLimit = 2
    LinesAfterError <- LinesAny
CHECK_DEADLOCK FALSE
INVARIANT ReadIntact
INVARIANT IssueOnFreeLine
PROPERTY StrandedForever
PROPERTY ImplementsBlockDevice
PROPERTY CallReturns
