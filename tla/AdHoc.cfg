CONSTANTS
    Server = {a, b}
    PageSize = 1
SPECIFICATION FairSpec
INVARIANTS
    TypeOK
    RaceOnlyOnFailure
    AllReached
    ReportTrue
PROPERTY Ends
CHECK_DEADLOCK FALSE
