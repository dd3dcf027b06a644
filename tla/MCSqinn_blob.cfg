SPECIFICATION Spec
CONSTANTS
    Requests <- BlobRequests
    MaxRequests = 2
    Cuts = "whole"
    ClientMayDie = FALSE
    Faults = {}
    PipeCap = 1
    FlushAt = 3
INVARIANTS
    ServerSurvives
