SPECIFICATION PropSpec
CONSTANTS
    b1 = b1
    b2 = b2
    Buffers <- MCBuffers
    Callers <- MCCallers
    Foreign = Foreign
    Depth = 2
    MaxRetry = 2
    MaxForeign = 2
    Junk = {0, 1}
INVARIANTS
    MissedByForeign
    LateWrites
    NeverStuck
    TagsAreAnswers
    RateIsAnswered
PROPERTIES
    Answered
    CallReturns
