CONSTANTS
    None = None
    Keys = {k1, k2}
    Calls = {c1, c2}
    Elsewhere = {k1, k2}
CHECK_DEADLOCK FALSE
SPECIFICATION FairSpec
INVARIANTS
    TypeOK
    RevokedIsTrue
PROPERTIES
    FlipsSettle
