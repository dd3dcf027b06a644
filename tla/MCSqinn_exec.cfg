SPECIFICATION Spec
CONSTANTS
    Requests <- ExecRequests
    MaxRequests = 4
    Cuts = "whole"
    ClientMayDie = FALSE
    Faults = {"busy", "ioerr"}
    PipeCap = 1
    FlushAt = 3
INVARIANTS
    OkMeansApplied
    ErrorMeansPrefix
PROPERTIES
    NothingAfterFailure
    ImplementsService
