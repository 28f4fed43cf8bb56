SPECIFICATION Spec
CONSTANTS
    v1 = v1
    v2 = v2
    k1 = k1
    k2 = k2
    x1 = x1
    Top = 2
    Services = {"elo_boost"}
    Extras = {x1}
    MinTotal = 50
    Versions = {v1, v2}
    FirstVersion = v1
    Lists <- MCLists
    FirstList <- MCFirstList
    CompleteLists <- MCComplete
    NoList = NoList
    Clients = {c1}
    Quotes = {q1, q2}
    Orders = {o1, o2}
    Payments = {p1, p2}
    ClimbRequests <- MCRequests
    Coupons = {k1, k2}
    NoCoupon = NoCoupon
    NoOrder = NoOrder
    NoPayment = NoPayment
    Conditions <- MCConditions
    Limit <- MCLimit
    Handlers = {h1, h2}
CONSTRAINT FewAtATime
SYMMETRY Symmetry
INVARIANT TypeOK
INVARIANT QuoteBuysOneOrder
INVARIANT FirstOrderCouponIsFirst
INVARIANT PriceIsOnRecord
INVARIANT ChargedAsAgreed
INVARIANT OnePaymentUnlessDoubled
INVARIANT LimitHoldsUnlessCrowded
CHECK_DEADLOCK FALSE
