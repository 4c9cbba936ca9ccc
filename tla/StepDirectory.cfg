SPECIFICATION Spec
CONSTANTS
    a = a
    b = b
    c = c
    f = f
    Steps = {a, b, c}
    Names = {f}
    DepLists <- Lists
    InputLists <- Inputs
    Workspace = Workspace
    Absent = Absent
    Idle = Idle
    MaxTick = 1
INVARIANTS
    TypeOK
    RunsOnMeantFiles
    OutputsOwn
    MissedOnlyWithinTick
    WorkspaceUntouched
