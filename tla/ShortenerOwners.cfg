SPECIFICATION Spec
CONSTANTS
    Proc = {p1, p2}
    Token = {t1}
    Url = {u1}
    User = {a1, a2}
    RequestTTL = {0}
    TokenTTL = 1
    MaxCacheTTL = 1
    RequestLife = 0
    MaxTime = 2
    Null = Null
    MaxIssued = 2
SYMMETRY MCSymmetry
CONSTRAINT FewRows
PROPERTIES
    RowDiesByFormerOwner
    ImplementsRegistry
