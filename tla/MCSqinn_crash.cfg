SPECIFICATION FairSpec
CONSTANTS
    Requests <- CrashRequests
    MaxRequests = 3
    Cuts = "safe"
    ClientMayDie = TRUE
    Faults = {"busy", "ioerr"}
    PipeCap = 1
    FlushAt = 3
INVARIANTS
    NoStatementLeft
    Durable
    EndLeavesPrefix
    AnsweredAreDecodable
PROPERTIES
    ImplementsService
    Answers
    ServerEnds
