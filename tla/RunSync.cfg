SPECIFICATION FairSpec
CONSTANTS
    PipeCap = 1
    MaxResponse = 3
    MaxWrites = 3
    MaxFiles = 2
    MaxSize = 2
INVARIANTS
    TypeOK
    ResponseTruthful
PROPERTIES
    FullPipeDrained
    EndsOnceUnwanted
