CONSTANTS
    Sess = {s1}
    Workers = {w1}
    Keys = {k1}
    Objs = {o1}
    MaxRestarts = 1
    StorageCanFail = FALSE
    NoWorker = NoWorker
    NoObj = NoObj
    Priv = Priv
    NoBusy = NoBusy
SPECIFICATION Spec
PROPERTY StreamCloseOnlyOnError
