SPECIFICATION Spec
CONSTANTS
    EventCap = 1
    OutCap = 1
    MaxWrites = 2
    MaxFiles = 1
    MaxChunks = 1
INVARIANTS
    EveryRunCompletes
