CONSTANTS
    Players = {p, q, r}
    MaxCalls = 2
    ScriptsInRestart = FALSE
SPECIFICATION Spec
SYMMETRY PlayerSymmetry
INVARIANTS TypeOK ListMirrors RestartClears WorldIsShared
PROPERTY AnswerLostOnlyInRestart
