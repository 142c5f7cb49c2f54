CONSTANTS
    Sess = {s1, s2}
    Workers = {w1, w2}
    Keys = {k1}
    Objs = {o1, o2, o3}
    MaxRestarts = 1
    StorageCanFail = TRUE
    NoWorker = NoWorker
    NoObj = NoObj
    Priv = Priv
    NoBusy = NoBusy
SPECIFICATION Spec
SYMMETRY Symmetry
INVARIANT TypeOK
INVARIANT RefcountConsistent
INVARIANT RestartBound
INVARIANT RecvEntryClean
INVARIANT ResourceDiscipline
PROPERTY HashRefinement
