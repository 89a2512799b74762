SPECIFICATION BootFairSpec
CONSTANTS
    u1 = u1
    u2 = u2
    URLs = {u1, u2}
    MaxSignals = 2
    BootFaults = {"subscribe", "signal", "redis", "publish", "scan"}
INVARIANT ServesAllDefaults
PROPERTY BootEnds
