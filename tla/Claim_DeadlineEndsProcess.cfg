SPECIFICATION ServerSpec
CONSTANTS
    EventCap = 1
    OutCap = 1
    MaxWrites = 2
    MaxFiles = 1
    MaxChunks = 1
PROPERTIES
    DeadlineEndsProcess
