SPECIFICATION FairSegmentSpec
CONSTANTS
    Workers = {w1}
    Sweepers = {}
    Recoverers = {p1}
    MaxAttempts = 3
    MaxTokens = 6
    MaxBoots = 1
    MaxCrashes = 1
    MaxDispatches = 1
    From = "leaderboard"
PROPERTIES
    ProgressSteps
    BuildEnds
