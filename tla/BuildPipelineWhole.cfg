SPECIFICATION Spec
CONSTANTS
    Workers = {w1}
    Sweepers = {}
    Recoverers = {p1}
    MaxAttempts = 3
    MaxTokens = 10
    MaxBoots = 0
    MaxCrashes = 1
    MaxDispatches = 1
    From = "planning"
INVARIANTS
    TypeOK
    EntersUnlessRecovered
    ReviewedUnlessCrashed
    ResultsUnlessInterrupted
PROPERTIES
    ImplementsProgress
    StartsInOrder
    ImplementsStageLocks
