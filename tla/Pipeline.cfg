SPECIFICATION Spec
CONSTANTS
    k1 = k1
    k2 = k2
    Slots = {s1, s2, s3}
    CONTROL = CONTROL
    None = None
    Keys = {k1, k2}
    Frames <- MCFrames
    SegmentFrames = 3
    IndexEntries = 2
    PendingRecords = 3
    OpsBudget = 2
    BytesBudget = 2
    RecordsBudget = 3
    TicketLimit = 5
    SyncEnabled = TRUE
    MaxLifecycle = 0
CONSTRAINT Bounds
SYMMETRY SlotSymmetry
INVARIANTS TicketAccounting PrefixPublication FlushCoversWrites IndexNewest ReservationsHold
PROPERTIES ImplementsOrderedStore NeverIdleWithWork
