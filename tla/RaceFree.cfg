CONSTANTS
    Server = {a, b}
    PageSize = 1
SPECIFICATION Spec
INVARIANT RaceFree
CHECK_DEADLOCK FALSE
