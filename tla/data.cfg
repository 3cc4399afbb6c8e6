CONSTANTS
    NTrials = 4
    Block <- PlanBlocks
    Condition <- PlanConditions
    AdviceRight <- PlanAdvice
    Confidence <- PlanConfidence
    Difficulty <- PlanDifficulty
    Payloads <- PlanPayloads
    MarkerWindow = 2
    HistoryWindow = 3
    MaxFaults = 1
    None = None
SPECIFICATION Spec
INVARIANTS TypeOK FeaturesFollowAnswers ExtractJoins IncludedIsWhole WarningsAreTrue ManifestNotAhead
CHECK_DEADLOCK FALSE
