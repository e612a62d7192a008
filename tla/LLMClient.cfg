SPECIFICATION FairSpec
CONSTANTS
    Here = {c1, c2}
    There = {}
    Slots = 1
    Tries = 1
    RetryCount = 1
    Keys = {k1, k2, k3}
    SavedKey = k1
    EnvKey = env
    Prefixes = {{k1, env}, {k2, k3}}
    MaxSaves = 1
    MaxDeaths = 1
INVARIANTS
    TypeOK
    KeysKept
    GivesUp
PROPERTIES
    SkipsCooling
    CallsReturn
CHECK_DEADLOCK FALSE
