\* Three masters, the smallest number the documentation calls HA; the limit is
\* 20 in the code, two attempts are enough for one that fails and one that
\* finds what the first left behind.
SPECIFICATION FairSpec
CONSTANTS
    MasterCount = 3
    RetryTimeLimit = 1
INVARIANTS
    TypeOK
    InitOnce
    LoginMatches
    CreatedHonest
PROPERTIES
    KeepsPromise
    FillsCreate
\* The command ends.
CHECK_DEADLOCK FALSE
