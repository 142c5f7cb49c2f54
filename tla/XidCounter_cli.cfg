CONSTANTS
    Sess = {s1, s2}
    NWorkers = 1
    XidBits = 2
    CliWrites = TRUE
    NoLoad = NoLoad
SPECIFICATION Spec
PROPERTY XidAtomic
