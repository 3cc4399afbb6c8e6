SPECIFICATION Spec
CONSTANTS
    Blank = Blank
    Unreadable = Unreadable
    Labels <- MCLabels
    BuiltinFamilies <- MCBuiltin
    Researchers = {h1, h2}
    Files <- MCFiles
    Forms <- MCForms
    NConditions = 2
    WithLegacyRun = TRUE
    OverlappingRepairs = FALSE
    LateUploads = FALSE
    MaxBanks = 3
    MaxRuns = 2
    MaxSessions = 1
    MaxBackups = 1
    Retained = 1
    Quiet = FALSE
    ForeignKeys = TRUE
CHECK_DEADLOCK FALSE
INVARIANTS TypeOK BanksUsable InvitesResolveBefore LaunchPromiseKeptBefore SessionsPlayableBefore ArchiveWhole
