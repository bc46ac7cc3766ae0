CONSTANTS
    None = None
    old = old
    new = new
    step = step
    Procs = {old, new, step}
    Cmd <- Commands
    Release <- Releases
    Files <- AllFiles
    Env <- Variables
    Declared <- OneDeclared
    Conns = {c1}
    Ids = {k1, k2}
    Labels = {laptop, ci}
    MaxFaults = 2
SPECIFICATION Spec
INVARIANTS
    TypeOK
    NoPartialStartup
    KeysKeepTheirRule
PROPERTIES
    StopsUnlessStalled
    ServesInTheEnd
