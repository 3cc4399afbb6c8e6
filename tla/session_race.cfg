CONSTANTS
    NTrials = 2
    BlockOf <- PlanBlocks
    Handlers = {h1, h2}
    Responses = {r1}
    NoDecision = NoDecision
    NoSummary = NoSummary
    ClientWaits = TRUE
SYMMETRY ThreadSymmetry
SPECIFICATION Spec
INVARIANTS EvidenceBeforeCompletion ServedInOrder SubmittedMeansDone ProgressNotAhead
PROPERTIES LedgerImplemented
