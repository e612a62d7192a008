SPECIFICATION Spec
CONSTANTS
    Workers = {w1}
    NumStacks = 2
    MaxOverruns = 1
    MaxCrashes = 1
INVARIANTS
    TypeOK
    PackagedPassed
    ReviewsFit
    NoLateFailure
    RecordedSucceeds
    ResultsUnlessCrashed
PROPERTY RatingKept
CHECK_DEADLOCK FALSE
