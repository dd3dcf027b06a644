SPECIFICATION MainSpec
CONSTANTS
    Requests <- MCRequests
    MaxRequests = 2
    Cuts = "whole"
    ClientMayDie = TRUE
    Faults = {"ioerr"}
    PipeCap = 1
    FlushAt = 2
    Length <- MCLength
    Atoi <- MCAtoi
    Argvs <- MCArgvs
    Unopenable <- MCUnopenable
    CounterRange = 8
INVARIANTS
    MainTypeOK
    HeapIsNeeded
    CountersAgree
    CleanExit
    OptionsAsGiven
