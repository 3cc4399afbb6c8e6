SPECIFICATION Spec
CONSTANTS
    Blank = Blank
    Unreadable = Unreadable
    Labels <- MCLabels
    BuiltinFamilies <- MCBuiltin
    Researchers = {h1}
    Files <- MCFiles
    Forms <- MCForms
    NConditions = 2
    WithLegacyRun = FALSE
    OverlappingRepairs = FALSE
    LateUploads = FALSE
    MaxBanks = 2
    MaxRuns = 1
    MaxSessions = 1
    MaxBackups = 1
    Retained = 1
    Quiet = TRUE
    ForeignKeys = TRUE
CHECK_DEADLOCK FALSE
INVARIANT RestoredSessionsContinue
