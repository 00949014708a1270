SPECIFICATION Spec
CONSTANTS
    Emails = {e1}
    Tokens = {t1, t2, t3}
    AccessTokens = {a1}
    Handlers = {h1, h2}
    RefreshTTL = 1
    AccessTTL = 2
    Horizon = 3
    RedisRestart = TRUE
    None = None
SYMMETRY Symmetry
INVARIANTS OneActivePerFamily RotatedOnce RevokedFamilyStaysDead LoggedOutDenied
PROPERTIES ImplementsChain
