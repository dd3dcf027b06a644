SPECIFICATION Spec
CONSTANTS
    Requests <- ExchangeRequests
    MaxRequests = 3
    Cuts = "safe"
    ClientMayDie = FALSE
    Faults = {"busy", "ioerr"}
    PipeCap = 2
    FlushAt = 3
INVARIANTS
    TypeOK
    InStep
    ServerSurvives
    ReadsBeforeItWrites
    OkMeansApplied
    OnlySentRows
    ErrorSaysWhy
    QueryFaithful
    ReplyInWholeRows
PROPERTIES
    ImplementsService
