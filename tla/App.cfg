CONSTANTS
    ProfileList <- MCProfileList
    Monitors <- MCMonitors
    m1 = m1
    m2 = m2
    Results <- MCTwoResults
    MaxQueue = 1
    ThreadStartMayFail = TRUE
    None = None
    MaxPending = 2
    WriteMayFail = TRUE
    HostMayFail = TRUE
    LostThreshold = 2
    TrayLossBehavior = "pause"
SPECIFICATION Spec
SYMMETRY MonitorSymmetry
INVARIANTS
    TypeOK
    MonitoringAgrees
    TrayShowsStatus
    HostLossPauses
