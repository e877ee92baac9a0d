SPECIFICATION Spec
CONSTANT Messages = {m1, m2}
CHECK_DEADLOCK FALSE
INVARIANTS
    DataIsValid
    DescriptorReachable
PROPERTIES
    ImplementsLoan
