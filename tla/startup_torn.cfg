CONSTANTS
    Starters = {participant, researcher}
    Researchers = {researcher}
    OtherTables = 2
    MaxCrashes = 1
    BesideScripts = TRUE
    Nobody = Nobody
SPECIFICATION Spec
PROPERTY BootstrapRuns
