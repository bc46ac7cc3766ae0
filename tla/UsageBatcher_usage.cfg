CONSTANTS
    None = None
    Keys = {k1, k2}
    Requests = {r1, r2}
    MaxTime = 3
SPECIFICATION FairSpec
INVARIANTS
    TypeOK
    LatestUseIsKept
    ExitPersistsAll
PROPERTIES
    NeverBackwards
    UseIsRecorded
    StopsWhenTold
