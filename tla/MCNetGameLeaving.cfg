CONSTANTS
    MaxPlayers = 2
    WaitLimit = 1
    ScriptBehaviours <- Tame
SPECIFICATION Spec
CHECK_DEADLOCK FALSE
INVARIANT LeavingIsChecked
