CONSTANTS
    Sess = {s1, s2}
    NWorkers = 2
    XidBits = 3
    CliWrites = FALSE
    NoLoad = NoLoad
SPECIFICATION Spec
INVARIANT XidUnique
