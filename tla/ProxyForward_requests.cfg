CONSTANTS
    None = None
    k1 = k1
    k2 = k2
    svc = svc
    gone = gone
    Requests = {r1, r2}
    Keys = {k1, k2}
    Services = {svc, gone}
    Served = {svc}
    Scope <- MCScope
    MaxPieces = 1
CHECK_DEADLOCK FALSE
SPECIFICATION FairSpec
INVARIANTS
    TypeOK
    RefusedNeverReach
    WholeIsWhole
PROPERTIES
    Ends
