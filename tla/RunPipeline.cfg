SPECIFICATION RunFairSpec
CONSTANTS
    a = a
    b = b
    Steps <- TwoSteps
    DepLists <- Lists
    OutCap = 1
    DoneCap = 1
    EventCap = 1
    MaxOutputs = 1
    FileLists <- Files
INVARIANTS
    RunTypeOK
    StepPhases
    ClientFaithful
    FilesBeforeDependents
    NoExecutableLeft
PROPERTIES
    PipelineEnds
