SPECIFICATION Spec
CONSTANTS
    Proc = {p1, p2}
    LoginName = {l1, l2}
    Password = {w1, w2}
    UserID = {u1, u2}
    TokenHash = {h1, h2}
    RefreshTokenTTL = 0
    AccessTokenTTL = 1
    Second = 2
    MaxTime = 1
    MaxIssued = 1
    Null = Null
SYMMETRY MCSymmetry
CONSTRAINT FewTokens
INVARIANTS
    TypeOK
    RegisterAckMeansAccount
    LoginAckMeansSession
    RefreshNeedsSession
    AuthenticateNeedsGrant
    LogoutAckMeansRevoked
    IInv
PROPERTY
    RevocationFinal
