CONSTANTS
    None = None
    Keys = {k1, k2}
    Calls = {c1, c2}
    Elsewhere = {}
CHECK_DEADLOCK FALSE
SPECIFICATION Spec
INVARIANTS
    ViewRepaired
