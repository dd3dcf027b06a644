SPECIFICATION FairSpec
CONSTANTS
    InitSize = 4
    FlushAt = 4
    MaxLen = 31
    HeaderRange = 64
    BlobLens <- SmallBlobs
CHECK_DEADLOCK FALSE
INVARIANTS
    TypeOK
    InBounds
    RowsDoNotPileUp
PROPERTIES
    HeadersTell
    CallsEnd
