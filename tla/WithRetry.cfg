SPECIFICATION FairSpec
CONSTANTS
    Proc = {p1, p2, p3}
    MaxAttempts <- MCMaxAttempts
    Nobody = Nobody
CHECK_DEADLOCK FALSE
INVARIANTS
    TypeOK
    OwnRowNeverRefuses
PROPERTIES
    EveryCallReturns
    ImplementsRoundTrip
