SPECIFICATION Spec
CONSTANTS
    Proc = {p1, p2}
    Token = {t1}
    Url = {u1, u2}
    User = {a1, a2}
    RequestTTL <- MCRequestTTL
    TokenTTL = 1
    MaxCacheTTL = 1
    RequestLife = 1
    MaxTime = 3
    Null = Null
    MaxIssued = 2
SYMMETRY MCSymmetry
CONSTRAINT FewRows
PROPERTIES
    OnlyOwnerDeletes
