SPECIFICATION Spec
CONSTANTS
    Proc = {p1, p2}
    Token = {t1, health}
    Health = health
    User = {a1, a2}
    Url <- MCUrl
    Lifetime = {0}
    Slack = 0
    MaxTime = 1
    Null = Null
    RawURL <- MCRawURL
    SentURL <- MCSent
    Name <- MCName
    MaxRunes = 14
    NameMax = 4
    LabelMax = 3
SYMMETRY MCSymmetry
CHECK_DEADLOCK FALSE
INVARIANTS
    TypeOK
    CreatedIsOwned
    GivenOnce
    RefusedHasNoEffect
    DeletedIsGone
    RedirectsToHTTP
    HostsAreDomainNames
    RedirectsAreStable
