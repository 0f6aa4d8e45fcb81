SPECIFICATION Spec
CONSTANTS
    SegmentCount = 2
    SegmentFrames = 2
    PrefixFrames = 2
    Depth = 2
    Plans <- MCPlans
    MaxRuns = 3
    MaxCrashes = 2
    Zero = Zero
    Torn = Torn
    None = None
INVARIANTS
    AlwaysRecoverable
    RecoversReported
    NeverReused
CHECK_DEADLOCK FALSE
