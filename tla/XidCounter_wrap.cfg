CONSTANTS
    Sess = {s1}
    NWorkers = 1
    XidBits = 2
    CliWrites = FALSE
    NoLoad = NoLoad
SPECIFICATION Spec
INVARIANT RequestHasXid
