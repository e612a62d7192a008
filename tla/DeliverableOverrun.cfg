SPECIFICATION Spec
CONSTANTS
    Workers = {w1, w2}
    NumStacks = 1
    MaxOverruns = 1
    MaxCrashes = 0
INVARIANT DeliverableValidated
CHECK_DEADLOCK FALSE
