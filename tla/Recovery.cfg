SPECIFICATION Spec
CONSTANTS
    PAGE_SIZE = 4096
    FOOTER_TRAILER_LEN = 64
    MIN_FRAME_METADATA_LEN = 128
    SegmentLen = 24576
    ChunkLen = 4096
    SegmentCount = 2
    Capacity = 61440
    MaxFrameLen = 8192
    Owners <- MCOwners
    Shapes <- MCShapes
    MetadataBytes = 8192
    IndexFrames = 5
    ValidateLen = 4096
    None = None
INVARIANTS
    FooterClearOfData
PROPERTIES
    RecoversReference
    RefusesOnlyDamage
