CONSTANTS
    l1 = l1
    Workers = {watcher, w1}
    Watcher = watcher
    Tokens = {t1, t2}
    Libraries = {l1}
    Supports <- MCSupports
    Rank <- MCRank
    MaxMoves = 2
    MaxCalls = 1
    NoToken = NoToken
    NoLibrary = NoLibrary
    Nobody = Nobody
SPECIFICATION Spec
INVARIANTS
    TypeOK
    HandledEventsAreReflected
    AvailableIdentityIsConnected
PROPERTIES
    PollingCatchesUp
