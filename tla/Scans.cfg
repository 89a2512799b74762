CONSTANTS
    NoScan = NoScan
    s1 = s1
    s2 = s2
    s3 = s3
    t1 = t1
    a1 = a1
    host = host
    Scans = {s1, s2, s3, t1}
    Addresses = {a1, host}
    Family <- MixedFamily
    Address <- MixedAddress
    Limit <- TwoWallets
    Faults <- SomeFaults
    Deletable = {s1, t1}
SPECIFICATION Spec
INVARIANTS
    OneInProgressPerAddress
    BlockedExplained
    RefusedLeavesNothing
    AcceptedIsReadable
    RunsAreBilled
    DeletedLeavesNoClaim
    DeletedStaysGone
    ReferencedIsKept
SYMMETRY WalletSymmetry
CONSTRAINT Bound
CHECK_DEADLOCK FALSE
