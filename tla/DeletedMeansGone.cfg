SPECIFICATION Spec
CONSTANTS
    MasterCount = 1
    Slot = {1}
    MaxFaults = 1
    MaxRuns = 2
INVARIANT DeletedMeansGone
CHECK_DEADLOCK FALSE
