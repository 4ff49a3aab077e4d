\* Two masters, so that one can be attached and the other not; three commands,
\* so that a create can follow an unfinished delete; two calls that go wrong.
SPECIFICATION FairSpec
CONSTANTS
    MasterCount = 2
    Slot = {1}
    MaxFaults = 2
    MaxRuns = 3
INVARIANTS
    TypeOK
    CreatedComplete
    HandsOver
    DeleteComplete
PROPERTIES
    MasterNeverExposed
    NeverMixed
    NothingBack
    DeleteTerminates
    InterruptStops
\* The operator may stop running commands.
CHECK_DEADLOCK FALSE
