SPECIFICATION EngineSpec
CONSTANTS
    k1 = k1
    Slots = {s1, s2}
    CONTROL = CONTROL
    None = None
    Keys = {k1}
    Frames <- FramesOne
    SegmentFrames = 1
    IndexEntries = 1
    PendingRecords = 2
    OpsBudget = 2
    BytesBudget = 2
    RecordsBudget = 2
    TicketLimit = 5
    SyncEnabled = TRUE
    SegmentCount = 2
    FooterChunks = 1
    MaxReads = 1
    MaxRestored = 1
CONSTRAINTS Bounds Weighted
SYMMETRY SlotSymmetry
INVARIANTS QueueSound SealedArePublished ClosedIsDrained
PROPERTIES ControlNotStarved ImplementsPipeline FreshAttach
