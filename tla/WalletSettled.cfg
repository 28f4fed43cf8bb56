SPECIFICATION FairSpec
CONSTANTS
    o1 = o1
    o2 = o2
    Orders = {o1, o2}
    Pay <- MCPay
    Amounts = {1, 3}
    Requests = {r1}
    Ids = {i1, i2, i3, i4}
    Attempts = 2
    MaxFails = 1
    Serialized = TRUE
    TornSaves = FALSE
INVARIANT OneCreditPerOrder
INVARIANT BooksBalance
INVARIANT JobsReleaseInTime
PROPERTY ImplementsAccount
PROPERTY JobLeadsToRelease
CHECK_DEADLOCK FALSE
