CONSTANTS
    Config <- FourModes
    Names <- AllNames
    Readable <- ReadableNames
    Named <- NamesForChangemode
    Loadable <- LoadableNames
    FilterNames <- NamesForLoadfs
    MaxFilterScripts = 3
    Empty = Empty
SPECIFICATION RotationFairSpec
CHECK_DEADLOCK FALSE
INVARIANTS RotationTypeOK NamesMatch
PROPERTIES StopsForBadFilesOnly ReloadKeepsRunning GmxReachesAll
