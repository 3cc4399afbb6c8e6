CONSTANTS
    Starters = {participant, researcher, worker}
    Researchers = {researcher, worker}
    OtherTables = 2
    MaxCrashes = 2
    BesideScripts = FALSE
    Nobody = Nobody
SPECIFICATION Spec
INVARIANTS TypeOK ReadyIsServable RowsKept RefusedUntouched
PROPERTY Started
