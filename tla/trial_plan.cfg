CONSTANTS
    MainItems = {m1, m2, m3, m4, m5}
    PracticeItems = {p1}
    MaxBlocks = 4
    NConditions = 3
SYMMETRY ItemSymmetry
SPECIFICATION Spec
INVARIANTS TypeOK NeverStarved EveryItemOnce AdviceSpread
