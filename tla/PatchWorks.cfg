CONSTANTS
    t1 = t1
    t2 = t2
    t3 = t3
    t4 = t4
    Token = {t1, t2, t3, t4}
    NoToken = NoToken
    RetryTimeLimit = 1
    OneMaster = FALSE
SPECIFICATION Spec
INVARIANT PatchWorks
