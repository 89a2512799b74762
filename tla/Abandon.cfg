SPECIFICATION FairSpec
CONSTANTS
    w1 = w1
    t1 = t1
    None = None
    Scans = {w1, t1}
    Kind <- BothKinds
    Grace = 5
    PublishDelay = 1
    ReportDelay = 1
    ListDelay = 1
    PassEvery = 1
    MaxRestarts = 1
    Faults = {"list", "address", "publish", "core", "crash", "request"}
    Deletable = {t1}
INVARIANT NoFalseReport
 
 
