CONSTANTS
    Sess = {s1}
    Workers = {w1}
    Keys = {k1, k2}
    Objs = {o1, o2, o3}
    MaxRestarts = 2
    StorageCanFail = TRUE
    NoWorker = NoWorker
    NoObj = NoObj
    Priv = Priv
    NoBusy = NoBusy
SPECIFICATION Spec
SYMMETRY Symmetry
INVARIANT TypeOK
INVARIANT RefcountConsistent
INVARIANT RestartBound
INVARIANT RecvEntryClean
