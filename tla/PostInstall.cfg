CONSTANTS
    t1 = t1
    t2 = t2
    t3 = t3
    t4 = t4
    Token = {t1, t2, t3, t4}
    NoToken = NoToken
    RetryTimeLimit = 1
    OneMaster = TRUE
    MasterCount = 1
SPECIFICATION FairSpec
INVARIANTS
    TypeOK
    OneToken
    AutoscalerCurrent
    FailsForAReason
PROPERTIES
    RunEnds
    AutoscalerComesBack
    FillsPost
