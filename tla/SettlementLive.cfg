SPECIFICATION FairSpec
CONSTANTS
    Boosters = {b1}
    NoBooster = NoBooster
    Orders = {o1}
    Order = o1
    Resources = {m1}
    NoResource = NoResource
    Requests = {r1}
    MaxFails = 1
    Serialized = TRUE
PROPERTY ApprovalIsSettled
PROPERTY ReconciliationBacksUp
CHECK_DEADLOCK FALSE
