SPECIFICATION FairSpec
CONSTANTS
    Orders = {o1}
    Boosters = {b1, b2}
    NoBooster = NoBooster
    Requests = {r1, r2}
    CouponOrders = {o1}
    Serialized = TRUE
    MaxFails = 1
INVARIANTS
    OnlyAcceptorsEarn
    NothingBeforePayment
    RevealsAreAuditedAndEarned
    CredentialsOnlyWhileLive
    SaleCreditedOnce
    CouponUsedOnce
PROPERTIES
    ImplementsService
    CompletedLeadsToCredit
