SPECIFICATION FairSpec
CONSTANTS
    c1 = c1
    c2 = c2
    Conn <- MCConn
    MaxSignals = 2
CHECK_DEADLOCK FALSE
INVARIANTS
    TypeOK
    CleanShutdownAnswersAll
    ServedWithStores
    ServedAsConfigured
PROPERTIES
    SignalEnds
    RunnerFailureEnds
