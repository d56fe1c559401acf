CONSTANTS
    f1 = f1
    f2 = f2
    f3 = f3
    Files = {f1, f2, f3}
    NameOf <- Names
    NoFile = NoFile
    Rows = {1, 2, 3}
    Root = 0
    Absent = 99
    Roles = {1, 2}
    Super = 1
    MaxViews = 3
SYMMETRY Symmetry
SPECIFICATION ConsoleSpec
INVARIANTS ConsoleTypeOK SubmitWaitsForUpload QueuedWaitsForReason OneUploadPerDialog
INVARIANTS VisibleIffAncestorsOpen SettledBodyIsView
PROPERTIES SaveKeepsUntouched TreeStepsAsCoded
CHECK_DEADLOCK FALSE
