CONSTANTS
    Players = {p, q}
    MaxMenus = 3
    MaxTexts = 3
    MaxSent = 2
    Nested = TRUE
SPECIFICATION MenusSpec
SYMMETRY PlayerSymmetry
INVARIANTS MenusTypeOK TextIsCurrent OneAnswerPerMenu
