SPECIFICATION FairSpec
CONSTANTS
    Tasks = {t1, t2, t3}
    Faults <- MCFaults
CHECK_DEADLOCK FALSE
INVARIANTS
    HandlerArgValid
    WeakHeldUntilClosed
    OnlyUnpackOnceClosed
    ClosedIfSeen
PROPERTIES
    ImplementsContract
    DroppedIsReleased
    CloseReturns
