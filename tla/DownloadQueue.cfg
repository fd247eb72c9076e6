CONSTANTS
    Downloads = {d1, d2, d3, d4}
    d1 = d1
    d2 = d2
    d3 = d3
    d4 = d4
    Keys = {k1, k2, k3, k4}
    k1 = k1
    k2 = k2
    k3 = k3
    k4 = k4
    NoKey = NoKey
    Wanted <- MCWanted
    Cap = 1
    MaxQueued = 2
SPECIFICATION Spec
INVARIANTS TypeOK Accounting OneOwnerPerKey TicketsMatch
PROPERTIES PositionNeverGrows ServesInOrder
