\* Two callers, of one environment or of two.
CONSTANTS
    a = a
    b = b
    e1 = e1
    e2 = e2
    Callers = {a, b}
    Envs = {e1, e2}
    Lifetimes = {2, 4}
    Buffer = 2
    Timeout = 1
    MaxTime = 2
    Free = Free
SPECIFICATION FairSpec
INVARIANTS
    TypeOK
    OneRefreshAtATime
    NoNeedlessPost
    CachedTokenAlive
    ForcedTokenIsNew
    FreshTokenSaved
PROPERTIES
    NeverOlder
    EveryCallReturns
CHECK_DEADLOCK FALSE
