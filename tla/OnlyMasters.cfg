CONSTANTS
    MasterCount = 3
    MaxVersion = 4
    NewMinor = {2, 4}
    LocalLogin = TRUE
    Numbered = TRUE
SPECIFICATION Spec
INVARIANT OnlyMasters
