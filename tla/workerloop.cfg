SPECIFICATION FairSpec
CONSTANTS
    Users = {u1, u2}
    Pollers = {p1, p2, p3}
    MaxEvents = 3
CHECK_DEADLOCK FALSE
INVARIANTS
    NoEventSleptThrough
PROPERTIES
    EventsHandled
    PollingEnds
