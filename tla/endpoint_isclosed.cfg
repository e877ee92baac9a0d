SPECIFICATION Spec
CONSTANTS
    Tasks = {t1, t2}
    Faults <- MCFaults
CHECK_DEADLOCK FALSE
INVARIANT
    IsClosedExact
