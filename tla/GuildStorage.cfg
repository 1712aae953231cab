CONSTANTS
    p1 = p1
    p2 = p2
    sword = sword
    nut = nut
    Player = {p1, p2}
    Item = {sword, nut}
    Bound = {sword}
    MaxAmount = 1
    MaxLosses = 1
    Setups <- MCSetups
SPECIFICATION Spec
CHECK_DEADLOCK FALSE
INVARIANTS TypeOK OneAtATime CleanIsSaved EveryUnitKept BrokenHasNone
PROPERTIES LockEnds
