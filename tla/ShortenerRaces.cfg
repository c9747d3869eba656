SPECIFICATION Spec
CONSTANTS
    Proc = {p1, p2}
    Token = {t1}
    Url = {u1, u2}
    User = {a1}
    RequestTTL <- MCRequestTTL
    TokenTTL = 1
    MaxCacheTTL = 1
    RequestLife = 1
    MaxTime = 2
    Null = Null
    MaxIssued = 2
SYMMETRY MCSymmetry
CONSTRAINT FewRows
INVARIANTS
    TypeOK
    CoherentUntilDeleted
    CreateAckMeansRow
    StalenessBounded
    OverstayBounded
    IInv
PROPERTIES
    ResolveCorrect
