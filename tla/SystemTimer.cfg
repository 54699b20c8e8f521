SPECIFICATION TimerSpec
CONSTANTS
    Half = 4
    MaxCount = 18
CHECK_DEADLOCK TRUE
PROPERTY NotTorn
PROPERTY Monotonic
