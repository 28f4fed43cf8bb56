SPECIFICATION Spec
CONSTANTS
    o1 = o1
    o2 = o2
    Orders = {o1}
    Pay <- MCPayOfOne
    Amounts = {1}
    Requests = {r1}
    Ids = {i1, i2}
    Attempts = 2
    MaxFails = 1
    Serialized = TRUE
    TornSaves = TRUE
INVARIANT NothingReleasedTwice
CHECK_DEADLOCK FALSE
