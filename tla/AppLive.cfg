CONSTANTS
    ProfileList <- MCProfileList
    Monitors <- MCMonitors
    m1 = m1
    m2 = m2
    Results <- MCResults
    MaxQueue = 1
    ThreadStartMayFail = FALSE
    None = None
    MaxPending = 1
    WriteMayFail = FALSE
    HostMayFail = FALSE
    LostThreshold = 2
    TrayLossBehavior = "pause"
SPECIFICATION FairSpec
INVARIANTS
    PauseAgrees
PROPERTIES
    StickyError
    ActiveProfileShowsOK
