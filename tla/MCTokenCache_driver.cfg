CONSTANTS
    t1 = t1
    t2 = t2
    l1 = l1
    l2 = l2
    Workers = {w1}
    Tokens = {t1, t2}
    Libraries = {l1, l2}
    Supports <- MCSupports
    Rank <- MCRank
    MaxMoves = 0
    MaxCalls = 2
    NoToken = NoToken
    NoLibrary = NoLibrary
    Nobody = Nobody
SPECIFICATION CacheSpec
INVARIANTS
    DriverChangeEmptiesCache
CHECK_DEADLOCK FALSE
