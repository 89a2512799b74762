SPECIFICATION PresenceFairSpec
CONSTANTS
    w1 = w1
    w2 = w2
    t1 = t1
    Unset = Unset
    WalletIds = {w1, w2}
    TLSIds = {t1}
    Indexers = {"none", "blockscout"}
    SilentAfter = 2
    SweepEvery = 2
    HeartbeatTTL = 1
    AnnounceEvery = 2
    PresenceFaults = {"lost", "redis"}
INVARIANT NoStaleWallet
INVARIANT LiveWalletListed
INVARIANT IndexerAgreed
PROPERTY WalletGoesDown
