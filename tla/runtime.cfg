SPECIFICATION RuntimeFairSpec
CONSTANTS
    Tasks = {t1}
    Slots = {s1}
    Pollers = {p1, p2}
    NoSlot = NoSlot
    NoTask = NoTask
    Program = Program
CHECK_DEADLOCK FALSE
INVARIANTS
    NobodySleepsOnAnAnswer
PROPERTIES
    CallsServed
