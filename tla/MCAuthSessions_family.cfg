SPECIFICATION Spec
CONSTANTS
    Emails = {e1}
    Tokens = {t1, t2}
    AccessTokens = {a1, a2}
    Handlers = {h1, h2}
    RefreshTTL = 4
    AccessTTL = 2
    Horizon = 1
    RedisRestart = FALSE
    None = None

PROPERTIES RevokesEveryActiveRow
