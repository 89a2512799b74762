SPECIFICATION FairSpec
CONSTANTS
    s1 = s1
    p = p
    None = None
    NoEvent = NoEvent
    Scans = {s1}
    Events = {1, 2, 3}
    ScanOf <- OneScanOf
    Subject <- OneSubject
    Workers = {p}
    MaxAckPending = 1
    Grace = 2
    PublishDelay = 1
    ListDelay = 1
    PassEvery = 1
    MaxRestarts = 1
    AbandonFaults = {"address", "publish", "crash", "request"}
    LifecycleFaults = {"call", "reply", "reject", "ack"}
INVARIANT CreditFollowsOutcome
 
 
