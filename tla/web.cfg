CONSTANTS
    NTrials = 3
    BlockOf <- PlanThree
    Handlers = {h1, h2}
    Responses = {r1}
    NoDecision = NoDecision
    NoSummary = NoSummary
    NoHandler = NoHandler
    ClientWaits = FALSE
    MaxFailures = 2
SPECIFICATION WebSpec
INVARIANTS PageUsable CompletionIsStored ShownCountsEarlier
PROPERTY Finishes
