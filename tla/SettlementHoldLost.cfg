SPECIFICATION Spec
CONSTANTS
    Boosters = {b1}
    NoBooster = NoBooster
    Orders = {o1}
    Order = o1
    Resources = {m1}
    NoResource = NoResource
    Requests = {r1, r2}
    MaxFails = 0
    Serialized = FALSE
PROPERTY HeldUntilFinalization
CHECK_DEADLOCK FALSE
