CONSTANTS
    NTrials = 3
    BlockOf <- PlanThree
    Handlers = {h1}
    Responses = {r1, r2}
    NoDecision = NoDecision
    NoSummary = NoSummary
    ClientWaits = TRUE
SPECIFICATION Spec
INVARIANTS TypeOK NoLifecycleAnomaly QuestionnaireGate
PROPERTIES CompletedAnswersFrozen LifecycleImplemented
