SPECIFICATION Spec
CONSTANTS
    a = a
    b = b
    c = c
    d = d
    Steps <- FourSteps
    DepLists <- ListsUpTo2
SYMMETRY StepSymmetry
INVARIANTS
    TypeOK
    CountsExact
    NoStepStuck
    StartsAfterDependencies
    SkippedExactly
    SummaryExact
PROPERTIES
    KeepsContract
