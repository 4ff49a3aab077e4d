\* One master: one-master-mode.sh, and a longer series of attempts.
SPECIFICATION FairSpec
CONSTANTS
    MasterCount = 1
    RetryTimeLimit = 4
PROPERTY
    KeepsPromise
\* The command ends.
CHECK_DEADLOCK FALSE
