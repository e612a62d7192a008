SPECIFICATION Spec
CONSTANTS
    NumTraits = 4
    Quota = 2
    NumAttempts = 3
    MaxAbsent = 1
INVARIANTS
    TypeOK
    HalfSpread
    NeighboursInOrder
    BestWins
CHECK_DEADLOCK FALSE
