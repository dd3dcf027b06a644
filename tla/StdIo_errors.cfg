SPECIFICATION Spec
CONSTANTS
    BufLen = 4
    SizeMod = 256
    ErrorBound = 1
INVARIANT ErrorsEndProcess
