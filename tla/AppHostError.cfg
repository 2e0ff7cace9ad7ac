CONSTANTS
    ProfileList <- MCProfileList
    Monitors <- MCMonitors
    m1 = m1
    m2 = m2
    Results <- MCTwoResults
    MaxQueue = 1
    ThreadStartMayFail = FALSE
    None = None
    MaxPending = 1
    WriteMayFail = FALSE
    HostMayFail = TRUE
    LostThreshold = 3
    TrayLossBehavior = "pause"
SPECIFICATION FairSpec
PROPERTIES
    HostErrorClears
