CONSTANTS
    t1 = t1
    t2 = t2
    l1 = l1
    l2 = l2
    Workers = {w1, w2}
    Tokens = {t1, t2}
    CertId <- MCOwnIds
    Pins = {"pin"}
    PinOf <- MCPinOf
    NoPin = "none"
    Libraries = {l1, l2}
    Known = {l1}
    Rank <- MCRank
    Supports <- MCSupports
    Configured = NoLibrary
    Requests <- MCRequests
    MaxMoves = 2
    MaxCalls = 2
    NoToken = NoToken
    NoLibrary = NoLibrary
    Nobody = Nobody
SPECIFICATION Spec
INVARIANTS
    TypeOK
    AtMostOneRefusal
    NoAttemptForInvalidDocuments
    NoSessionIsLeftOpen
    SignatureMatchesCertificate
PROPERTIES
    AnswersAreComplete
CHECK_DEADLOCK FALSE
