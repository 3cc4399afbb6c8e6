CONSTANTS
    NTrials = 2
    BlockOf <- PlanTwo
    Handlers = {h1, h2}
    Responses = {r1}
    NoDecision = NoDecision
    NoSummary = NoSummary
    ClientWaits = TRUE
SYMMETRY ThreadSymmetry
SPECIFICATION Spec
PROPERTY FinalizedIsTerminal
