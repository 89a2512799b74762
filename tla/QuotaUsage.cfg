CONSTANTS
    NoScan = NoScan
    s1 = s1
    s2 = s2
    s3 = s3
    wallet = wallet
    endpoint = endpoint
    l1 = l1
    Scans <- QuotaScans
    Keys = {wallet, endpoint}
    KeyOf <- QuotaKeyOf
    LockIds = {l1}
    LockKey <- QuotaLockKey
    Limit <- QuotaLimit
SPECIFICATION Spec
INVARIANT DeletedByUserCountsDeletes
CHECK_DEADLOCK FALSE
