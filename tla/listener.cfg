SPECIFICATION FairSpec
CONSTANTS
    Requests = {r1, r2, r3}
    Tasks = {t1, t2}
    NoTask = NoTask
CHECK_DEADLOCK FALSE
INVARIANTS
    HandlerArgValid
    NoLostRequest
    SettledOnce
PROPERTIES
    NextReturns
