SPECIFICATION FairSpec
CONSTANTS
    Tasks = {t1, t2}
    Slots = {s1, s2}
    NoSlot = NoSlot
    NoTask = NoTask
INVARIANTS
    NoLostWakeup
    SlotsAccounted
PROPERTIES
    ImplementsOperation
    CallsReturn
    SlotsReturn
