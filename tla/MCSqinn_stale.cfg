SPECIFICATION Spec
CONSTANTS
    Requests <- FrameRequests
    MaxRequests = 1
    Cuts = "value"
    ClientMayDie = FALSE
    Faults = {}
    PipeCap = 2
    FlushAt = 3
INVARIANTS
    OnlySentRows
