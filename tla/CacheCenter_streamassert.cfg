CONSTANTS
    Sess = {s1}
    Workers = {w1}
    Keys = {k1, k2}
    Objs = {o1, o2}
    MaxRestarts = 2
    StorageCanFail = FALSE
    NoWorker = NoWorker
    NoObj = NoObj
    Priv = Priv
    NoBusy = NoBusy
SPECIFICATION Spec
INVARIANT StreamAssertHolds
