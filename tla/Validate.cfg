SPECIFICATION FairSpec
CONSTANTS
    a = a
    b = b
    c = c
    x = x
    Ids <- AllIds
    Requests <- MCRequests
INVARIANTS
    TypeOK
    AcceptsOnlyPipelines
    RejectsForCause
PROPERTIES
    Decides
