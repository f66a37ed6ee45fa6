CONSTANTS
    Index = {0, 1}
    Addr = {a, b}
    Nobody = Nobody
SPECIFICATION FairSpec
INVARIANTS TypeOK SlotsAgree PacketsHitTheirOwn
PROPERTY ImplementsPlayerSlots
CHECK_DEADLOCK FALSE
