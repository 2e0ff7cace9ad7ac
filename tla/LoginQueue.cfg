CONSTANTS
    None = None
    p1 = p1
    p2 = p2
    p3 = p3
    t1 = t1
    t2 = t2
    Profiles <- MCProfiles
    Threads <- MCThreads
    LockSeconds = 3
    LoginTimeout = 2
    MaxTime = 6
    ThreadStartMayFail = FALSE
SPECIFICATION FairSpec
INVARIANTS
    TypeOK
    SerialLogins
    QueueHasWorker
    RequestKept
PROPERTIES
    Cooldown
    ImplementsLoginService
    RequestServed
CHECK_DEADLOCK FALSE
