SPECIFICATION SegmentSpec
CONSTANTS
    Workers = {w1}
    Sweepers = {}
    Recoverers = {}
    MaxAttempts = 3
    MaxTokens = 2
    MaxBoots = 0
    MaxCrashes = 0
    MaxDispatches = 0
    From = "ranking"
INVARIANT StatusesAgree
