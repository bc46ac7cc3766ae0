CONSTANTS
    None = None
    Builds = {v1, v2, dev, bare}
    Debug = {dev}
    HasIndex = {v1, v2}
    Acts = {a1, a2}
    Paths <- SmallPaths
SPECIFICATION Spec
INVARIANTS
    TypeOK
    PagesAreWhole
    LoginIsEarned
    LostKeysAreTold
PROPERTIES
    NothingSpins
