SPECIFICATION FairSpec
CONSTANTS
    Calls = {c1, c2, c3}
    Names = {f}
    NoCall = NoCall
    NoFile = NoFile
INVARIANTS
    TypeOK
    ExclusiveRuns
    UploadsPublishedWhole
    TornOnlyByRun
    OnlyFailedUploadsLeaveTemp
PROPERTIES
    OnlyRunChangesWorkspace
    WaitersAdmitted
