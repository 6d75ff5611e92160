CONSTANTS
    t1 = t1
    t2 = t2
    l1 = l1
    l2 = l2
    Workers = {w1, w2}
    Tokens = {t1, t2}
    Libraries = {l1, l2}
    Supports <- MCSupports
    Rank <- MCRank
    MaxMoves = 2
    MaxCalls = 3
    NoToken = NoToken
    NoLibrary = NoLibrary
    Nobody = Nobody
SPECIFICATION CacheSpec
PROPERTIES
    ReadingsNeverGoBack
    EveryCallReturns
CHECK_DEADLOCK FALSE
