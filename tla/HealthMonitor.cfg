CONSTANTS
    None = None
    p1 = p1
    p2 = p2
    m1 = m1
    m2 = m2
    ProfileList <- MCProfileList
    Monitors <- MCMonitors
    Results <- MCOneResult
    MaxQueue = 1
    ThreadStartMayFail = TRUE
SPECIFICATION FairSpec
INVARIANTS
    TypeOK
    RunningHasMonitor
    StopEndsWithThePass
PROPERTIES
    MonitoredProfilesAreChecked
    StoppedMonitorsEnd
