SPECIFICATION Spec
CONSTANTS
    Orders = {o1}
    Boosters = {b1, b2}
    NoBooster = NoBooster
    Requests = {r1, r2}
    CouponOrders = {o1}
    Serialized = FALSE
    MaxFails = 0
SYMMETRY Symmetry
INVARIANTS
    CredentialsOnlyWhileLive
