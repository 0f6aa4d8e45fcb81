SPECIFICATION Spec
CONSTANTS
    a = a
    b = b
    x = x
    y = y
    Keys = {a, b}
    Ids = {x, y}
    Lookups = {l1}
    Openings <- MCOpenings
    Lens = {2}
    SegmentLen = 3
    MaxLeases = 3
    MaxJobs = 3
    MaxBytes = 4
    MaxOps = 2
    MaxLookups = 2
    MaxErrors = 1
    None = None
INVARIANTS
    NoStaleResident
    LookupsFresh
    CoordinatorOrder
    CatalogBounded
    CatalogTracksStore
    NothingStranded
CHECK_DEADLOCK FALSE
