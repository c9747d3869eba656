SPECIFICATION FairSpec
CONSTANTS
    Request = {r1, r2}
    Kind <- MCKind
CHECK_DEADLOCK FALSE
INVARIANTS
    TypeOK
    WholeAnswer
    CrashNeedsTimeout
PROPERTIES
    SettersAnswered
    SettersReturn
