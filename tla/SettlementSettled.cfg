SPECIFICATION Spec
CONSTANTS
    Boosters = {b1}
    NoBooster = NoBooster
    Orders = {o1}
    Order = o1
    Resources = {m1}
    NoResource = NoResource
    Requests = {r1, r2}
    MaxFails = 1
    Serialized = TRUE
INVARIANT NothingHeldWithoutApproval
INVARIANT ReleasedAfterCompletion
INVARIANT ProcessedIsSettled
INVARIANT OrderAndPaymentAgree
SYMMETRY Symmetry
CHECK_DEADLOCK FALSE
