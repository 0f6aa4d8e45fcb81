SPECIFICATION LiveSpec
CONSTANTS
    k1 = k1
    k2 = k2
    NoKey = NoKey
    Keys = {k1}
    Commands <- LiveCommands
    Recovered <- OneLive
    MaxSent = 3
    MaxRequests = 3
    MaxBytes = 4
    ReadBytes = 2
    ReadClass = 1
    BufLen = 1
    ValueLen = 1
    Window = 1
    PollErrors = TRUE
PROPERTIES EveryRequestAnswered
CHECK_DEADLOCK FALSE
