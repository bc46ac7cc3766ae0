CONSTANTS
    s1 = s1
    s2 = s2
    pepper1 = pepper1
    pepper2 = pepper2
    cookieKey1 = cookieKey1
    cookieKey2 = cookieKey2
    None = None
    BadLabel = BadLabel
    Labels = {l1}
    Users = {alice}
    Services = {s1, s2}
    KeyIds = {k1, k2}
    Plaintexts = {p1, p2}
    Sids = {sid1}
    Requests = {r1, r2}
    Ops = {"mint", "revoke", "logout", "proxy"}
    Configs <- ChangingConfigs
SPECIFICATION Spec
SYMMETRY Symmetry
INVARIANTS
    ForwardsAreScoped
    NothingActsAfterDeath
CHECK_DEADLOCK FALSE
