SPECIFICATION FairSpec
CONSTANTS
    Workers = {w1}
    Servers = {s1}
    MaxRetries = 3
    MaxMessages = 2
    MaxChains = 1
    MaxOutages = 1
    MaxCrashes = 1
    MaxOverruns = 1
INVARIANTS
    TypeOK
    ClaimedOnce
PROPERTIES
    ConsumedUntilClaimed
    Delivered
CHECK_DEADLOCK FALSE
