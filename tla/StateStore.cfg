CONSTANTS
    Keys <- MCKeys
    WriteMayFail = TRUE
SPECIFICATION Spec
INVARIANTS
    TypeOK
    WritesAreAtomic
    TempIsRemoved
    RestartKeepsSettings
