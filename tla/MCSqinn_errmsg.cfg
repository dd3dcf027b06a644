SPECIFICATION Spec
CONSTANTS
    Requests <- UnexplainedRequests
    MaxRequests = 1
    Cuts = "whole"
    ClientMayDie = FALSE
    Faults = {}
    PipeCap = 1
    FlushAt = 3
INVARIANTS
    ErrorSaysWhy
