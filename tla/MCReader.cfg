SPECIFICATION Spec
CONSTANTS
    HalfBase = 2
    Values <- MCValues
    Stored <- MCStored
    Garbage <- MCGarbage
    MaxValues = 2
INVARIANTS
    TypeOK
    InBounds
    RoundTrip
    ReadsSucceed
    NothingSkipped
