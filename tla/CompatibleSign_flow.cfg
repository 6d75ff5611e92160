CONSTANTS
    Requests = {r1, r2}
    Callers = {c1, c2}
    Timeout = 1
    Nobody = Nobody
    NoRequest = NoRequest
SPECIFICATION SpecFlow
INVARIANTS
    FlowTypeOK
    OkMeansHandedOver
    NoLostSender
    PendingOutlivesOnlyDisconnect
    RefusalIsJustified
    TableIsTheFallback
PROPERTIES
    VerdictIsFinal
    ImplementsDecision
    EveryAttemptLeadsToAnAnswer
