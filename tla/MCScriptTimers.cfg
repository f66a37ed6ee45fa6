CONSTANTS
    Scripts = {a, b}
    MaxTimers = 3
    Intervals <- Two
    Frames <- OneFrame
    UnloadInCallback = FALSE
SPECIFICATION TimersFairSpec
INVARIANTS TimersTypeOK NothingDangles
PROPERTIES NoCallTooMany TimersFire
