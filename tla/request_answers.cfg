SPECIFICATION Spec
CONSTANTS
    Tasks = {t1, t2}
    Slots = {s1, s2}
    NoSlot = NoSlot
    NoTask = NoTask
INVARIANT
    AnswersHonest
