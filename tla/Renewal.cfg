CONSTANTS
    None = None
    p1 = p1
    m1 = m1
    m2 = m2
    t1 = t1
    ProfileList <- MCProfileList
    Monitors <- MCMonitors
    MaxQueue = 1
    Threads <- MCThreads
    Answers <- MCAnswers
SPECIFICATION FairSpec
PROPERTIES
    LoginNeedsExpiry
    ExpiredIsRenewed
    PausedLoginsEnd
