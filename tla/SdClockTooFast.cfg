SPECIFICATION Spec
CONSTANTS
    WordBits = 16
    BaseRates <- MCBaseRates
    Rates <- MCRates
    InhibitLimit = 2
    StableLimit = 2
CHECK_DEADLOCK TRUE
INVARIANT NotAboveRate
