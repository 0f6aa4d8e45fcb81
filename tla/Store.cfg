SPECIFICATION Spec
CONSTANTS
    k1 = k1
    k2 = k2
    NoKey = NoKey
    Keys = {k1, k2}
    Commands <- AllCommands
    Recovered <- OneLive
    MaxSent = 3
    MaxRequests = 3
    MaxBytes = 2
    ReadBytes = 2
    ReadClass = 2
    BufLen = 1
    ValueLen = 1
    Window = 1
    PollErrors = TRUE
INVARIANTS RepliesSequential FenceIsBarrier FlushReportsFailures CreditsBalanced
CHECK_DEADLOCK FALSE
