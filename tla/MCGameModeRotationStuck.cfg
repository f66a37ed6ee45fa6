CONSTANTS
    Config <- FourModes
    Names <- AllNames
    Readable <- ReadableNames
    Named <- NamesForChangemode
    Loadable <- LoadableNames
    FilterNames <- NamesForLoadfs
    MaxFilterScripts = 3
    Empty = Empty
SPECIFICATION RotationSpec
CHECK_DEADLOCK FALSE
INVARIANT RotatesAsConfigured
