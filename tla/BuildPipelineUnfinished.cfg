SPECIFICATION SegmentSpec
CONSTANTS
    Workers = {w1}
    Sweepers = {}
    Recoverers = {p1}
    MaxAttempts = 3
    MaxTokens = 1
    MaxBoots = 0
    MaxCrashes = 0
    MaxDispatches = 1
    From = "finalize"
INVARIANT CompleteHasResults
