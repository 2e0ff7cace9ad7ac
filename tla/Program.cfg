CONSTANTS
    None = None
    Timeout <- MCTimeout
    Grace <- MCGrace
SPECIFICATION ProgramFairSpec
INVARIANTS
    ProgramTypeOK
    CleanExit
    SafeModeStartsNothing
    NoChildLeft
    EscalationInOrder
    WrapperLifetime
PROPERTIES
    LoopShutdownEnds
    LoginReturns
