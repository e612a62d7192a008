SPECIFICATION Spec
CONSTANTS
    Workers = {w1, w2}
    Sweepers = {}
    Others = {o1}
    Stages = {"planning"}
    Final = "finalize"
    Active = {"active"}
    SelfMarking = {"planning"}
    MaxAttempts = 3
    MaxTokens = 3
SYMMETRY WorkerSymmetry
INVARIANTS
    TypeOK
    MarkedUnlessLost
PROPERTY
    ImplementsStageLocks
