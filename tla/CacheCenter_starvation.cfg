CONSTANTS
    Sess = {s1, s2}
    Workers = {w1, w2}
    Keys = {k1}
    Objs = {o1}
    MaxRestarts = 1
    StorageCanFail = FALSE
    NoWorker = NoWorker
    NoObj = NoObj
    Priv = Priv
    NoBusy = NoBusy
SPECIFICATION FairSpec
PROPERTY WaitlistServed
