SPECIFICATION Spec
CONSTANTS
    Calls = {c1, c2, c3}
    Names = {f}
    NoCall = NoCall
    NoFile = NoFile
SYMMETRY Symmetric
PROPERTY
    WorkspaceStableDuringRun
