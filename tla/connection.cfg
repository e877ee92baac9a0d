SPECIFICATION ConnectionFairSpec
CONSTANTS
    Requests = {r1, r2}
    Tasks = {t1}
    NoTask = NoTask
CHECK_DEADLOCK FALSE
INVARIANTS
    ConnectedMeansAccepted
    StreamClean
PROPERTIES
    ImplementsHandshake
    ConnectReturns
    AcceptReturns
