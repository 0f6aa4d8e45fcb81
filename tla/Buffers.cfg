SPECIFICATION Spec
CONSTANTS
    Shapes <- MCShapes
    LazyPages = 1
    Lens = {1, 2, 3, 5}
    Threads = {t1, t2}
    None = None
    MaxAllocs = 5
    Depth = 2
    MaxIoLen = 2
    MaxRequests = 2
INVARIANTS BuffersDisjoint RefusalsGenuine RequestsExact
CONSTRAINT Bounds
SYMMETRY ThreadSymmetry
CHECK_DEADLOCK FALSE
