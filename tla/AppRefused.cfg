CONSTANTS
    ProfileList <- MCProfileList
    Monitors <- MCMonitors
    m1 = m1
    m2 = m2
    Results <- MCResults
    MaxQueue = 1
    ThreadStartMayFail = FALSE
    None = None
    MaxPending = 1
    WriteMayFail = TRUE
    HostMayFail = FALSE
    LostThreshold = 2
    TrayLossBehavior = "pause"
SPECIFICATION Spec
SYMMETRY MonitorSymmetry
INVARIANTS
    ShownPauseIsObeyed
