SPECIFICATION LiveSpec
CONSTANTS
    k1 = k1
    k2 = k2
    NoKey = NoKey
    Keys = {k1}
    Commands <- StallCommands
    Recovered <- OneLive
    MaxSent = 2
    MaxRequests = 3
    MaxBytes = 1
    ReadBytes = 1
    ReadClass = 1
    BufLen = 1
    ValueLen = 1
    Window = 1
    PollErrors = FALSE
PROPERTIES EveryRequestAnswered
CHECK_DEADLOCK FALSE
