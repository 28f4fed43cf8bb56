SPECIFICATION Spec
CONSTANTS
    o1 = o1
    o2 = o2
    Orders = {o1}
    Pay <- MCPayOfOne
    Amounts = {1}
    Requests = {r1, r2}
    Ids = {i1, i2, i3}
    Attempts = 1
    MaxFails = 1
    Serialized = FALSE
    TornSaves = TRUE
INVARIANT NoOverdraft
INVARIANT CreditHasItsJob
SYMMETRY Symmetry
CHECK_DEADLOCK FALSE
