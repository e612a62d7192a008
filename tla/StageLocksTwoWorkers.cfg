SPECIFICATION FairSpec
CONSTANTS
    Workers = {w1, w2}
    Sweepers = {x1}
    Stages = {"builder"}
    Final = "finalize"
    Active = {"active"}
    MaxAttempts = 2
    MaxTokens = 4
INVARIANTS
    TypeOK
    LockInv
    ExclusiveUnlessPreempted
PROPERTIES
    CompletedByHolder
    EveryLockEnds
