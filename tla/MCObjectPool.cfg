CONSTANTS
    Players = {p1, p2}
    NoPlayer = NoPlayer
    MaxObjects = 5
    SlotBound = 4
SPECIFICATION ObjectsSpec
SYMMETRY PlayerSymmetry
INVARIANTS ObjectsTypeOK SlotsHaveOneOwner ClientsMirrorBelowBound
