SPECIFICATION Spec
CONSTANTS
    Requests <- ReturningRequests
    MaxRequests = 1
    Cuts = "whole"
    ClientMayDie = FALSE
    Faults = {"busy"}
    PipeCap = 1
    FlushAt = 3
INVARIANTS
    OkMeansApplied
