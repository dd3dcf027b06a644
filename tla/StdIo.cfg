SPECIFICATION FairSpec
CONSTANTS
    BufLen = 4
    SizeMod = 256
    ErrorBound = 2
INVARIANTS
    TypeOK
    ReadFaithful
    WriteFaithful
PROPERTY LoopsEnd
