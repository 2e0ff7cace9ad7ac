CONSTANTS
    NameList <- MCNameList
    Reports <- MCReports
    MaxRoot = 2
    MaxSubmenu = 2
    MaxPending = 1
    MaxRebuilds = 2
    None = None
SPECIFICATION Spec
INVARIANTS
    TypeOK
    ViewsAreFresh
    EveryProfileHasOneRow
    RowsDoWhatTheySay
    IconTellsWorst
CHECK_DEADLOCK FALSE
