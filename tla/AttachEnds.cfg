SPECIFICATION FairSpec
CONSTANTS
    MasterCount = 1
    Slot = {}
    MaxFaults = 1
    MaxRuns = 1
PROPERTY AttachEnds
CHECK_DEADLOCK FALSE
