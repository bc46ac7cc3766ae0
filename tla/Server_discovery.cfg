CONSTANTS
    None = None
    old = old
    new = new
    step = step
    Procs = {old, new, step}
    Cmd <- Commands
    Release <- Releases
    Files <- AllFiles
    Env <- Variables
    Declared <- OneDeclared
    Conns = {c1}
    Ids = {k1, k2}
    Labels = {laptop, ci}
    MaxFaults = 1
SPECIFICATION Spec
PROPERTIES
    FailsFast
