SPECIFICATION FairSpec
CONSTANTS
    EventCap = 1
    OutCap = 1
    MaxWrites = 2
    MaxFiles = 2
    MaxChunks = 2
INVARIANTS
    TypeOK
    OutputFaithful
    StatusTruthful
    LockOutlivesProcess
    FilesWhole
PROPERTIES
    KeepsRunContract
    RunEnds
