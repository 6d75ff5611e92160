CONSTANTS
    Addresses = {a1, a2}
    Configured = a1
    MaxStarts = 3
    MaxChanges = 1
    NoTask = NoTask
    Free = Free
    Other = Other
    Absent = Absent
    Partial = Partial
    Former = Former
SPECIFICATION Spec
INVARIANTS
    TypeOK
    NoForgottenServer
    StoppedMeansReported
    NoErrorMeansServing
    StoredPairLoads
PROPERTIES
    ServersSettle
