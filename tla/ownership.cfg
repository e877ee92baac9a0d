SPECIFICATION FairSpec
CONSTANTS
    Contexts = {c1}
    Workers = {w1}
    Regions = {m1}
    Endpoints = {e1}
    Listeners = {i1}
    Keys = {k1}
    Loops = {l1, l2}
    Users = {u1, u2}
    Nothing = Nothing
CHECK_DEADLOCK FALSE
INVARIANTS
    MakersOutlive
    CallsArePolled
PROPERTIES
    ReleasedInTheEnd
