CONSTANTS
    MaxPlayers = 3
    WaitLimit = 1
    ScriptBehaviours <- CarefulOrRuthless
SPECIFICATION FairSpec
CHECK_DEADLOCK FALSE
INVARIANTS TypeOK ScriptsArePaired  PoolIsExact ToldTheTruth
PROPERTY RestartsHappen
