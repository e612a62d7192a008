SPECIFICATION FairSpec
CONSTANTS
    Workers = {w1}
    Servers = {}
    MaxRetries = 1
    MaxMessages = 2
    MaxChains = 1
    MaxOutages = 1
    MaxCrashes = 1
    MaxOverruns = 1
PROPERTY RecoveredFromOutage
CHECK_DEADLOCK FALSE
