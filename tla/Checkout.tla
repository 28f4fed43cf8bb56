-------------------------------- MODULE Checkout --------------------------------
(***************************************************************************)
(* From a price to an order with a payment: a client gets a quote, with or *)
(* without a coupon; the quote is turned into a draft order, either alone  *)
(* (create-order) or together with a payment at Mercado Pago               *)
(* (start-checkout); an order without a payment gets one later             *)
(* (create-payment); unused quotes are deleted some time after they have   *)
(* expired.                                                                *)
(*                                                                         *)
(* Each handler reads first and writes later.  What protects a quote is    *)
(* the conditional update that consumes it; what protects a first-order    *)
(* coupon is the lock its transaction takes on the row of the client,      *)
(* which the foreign key of any other new order of that client waits for.  *)
(* The prices are those of PriceList; what happens to an order after       *)
(* checkout is OrderLifecycle's, and here only what a coupon can tell.     *)
(***************************************************************************)
EXTENDS OrderPrice, PriceList

CONSTANTS
    Clients, Quotes, Orders, Payments,
    NoOrder, NoPayment,
    ClimbRequests,  \* what a client may ask a price for
    Coupons, NoCoupon,
    Conditions,     \* Conditions[k]: what coupon k asks for
    Limit,          \* Limit[k]: how many paid orders may have used it
    Handlers        \* the handlers that may be running at the same time

\* The lists that are in force at some time; only the first one may lack Master.
PricedLists == CompleteLists \cup {FirstList}

ASSUME CheckoutAssumption ==
    /\ NoCoupon \notin Coupons
    /\ NoOrder \notin Orders
    /\ NoPayment \notin Payments
    /\ \A k \in Coupons : Limit[k] \in Nat /\ Conditions[k].discount \in Nat
    /\ IsFiniteSet(Extras)
    /\ \A list \in PricedLists :
        /\ list.extras \in [Extras -> Nat]
        /\ \A s \in Services : \E ranks \in {Ranks, Ranks \ {Top}} : list.steps[s] \in [ranks -> Nat]
    /\ \A r \in ClimbRequests :
        /\ r.service \in Services /\ r.extras \subseteq Extras
        /\ r.from \in Ranks /\ r.to \in Ranks /\ r.points \in Nat /\ r.target \in Nat

VARIABLES
    quotes,         \* quotes[q]: the row of the quote q, if there is one
    orders,         \* orders[o]: the row of the order o, if there is one
    payments,       \* payments[p]: the row of the payment p, if there is one
    asked,          \* the checkouts open at Mercado Pago, each with its amount
    work,           \* work[h]: the handler h is running, and how far it has come
    rivals,         \* rivals[o]: the live orders of the client when o was made
    crowded,        \* coupons that were granted while an earlier grant was unpaid
    doubled         \* orders that two handlers made a payment for at once

tables == <<quotes, orders, payments>>
ghosts == <<rivals, crowded, doubled>>
checkoutVars == <<priceListVars, tables, asked, work, ghosts>>

Absent == [row |-> "none"]
Deleted == [row |-> "deleted"]
Free == [stage |-> "idle"]

There(row) == row \notin {Absent, Deleted}
Start(h, job) == work[h] = Free /\ work' = [work EXCEPT ![h] = job]
GoOn(h, job) == work' = [work EXCEPT ![h] = job]
End(h) == GoOn(h, Free)
At(h, stage) == work[h].stage = stage

\* what a quote settles, and an order takes over
Terms(c, k, v, request, subtotal, discount) ==
    [client |-> c, coupon |-> k, version |-> v, request |-> request,
     subtotal |-> subtotal, discount |-> discount, total |-> subtotal - discount]

TermsOf == [client : Clients, coupon : Coupons \cup {NoCoupon}, version : Versions,
            request : ClimbRequests, subtotal : Int, discount : Int, total : Int]
QuoteRows == [expired : BOOLEAN, order : Orders \cup {NoOrder}, terms : TermsOf]
OrderRows == [quote : Quotes, terms : TermsOf, status : {"awaiting_payment", "paid", "cancelled"}]
PaymentRows == [order : Orders, gross : Int, share : Int]

\* A handler at work holds what it has read.
Jobs ==
    [stage : {"quoting"}, terms : TermsOf]
    \cup [stage : {"cleaning"}, found : SUBSET Quotes]
    \cup [stage : {"opened"}, client : Clients, quote : Quotes, payment : Payments,
          amount : Int, late : BOOLEAN]
    \cup [stage : {"inserting"}, client : Clients, quote : Quotes,
          payment : Payments \cup {NoPayment}, amount : Int, terms : TermsOf]
    \cup [stage : {"saving"}, order : Orders, payment : Payments, amount : Int]

OrdersOf(c) == {o \in Orders : There(orders[o]) /\ orders[o].terms.client = c}
LiveOrders(c) == {o \in OrdersOf(c) : orders[o].status # "cancelled"}
HasPaidOrder(c) == \E o \in OrdersOf(c) : orders[o].status = "paid"
OrdersWith(k, status) ==
    {o \in Orders : There(orders[o]) /\ orders[o].terms.coupon = k /\ orders[o].status = status}
PaymentsOf(o) == {p \in Payments : There(payments[p]) /\ payments[p].order = o}
FirstOnly(k) == k # NoCoupon /\ Conditions[k].firstOrderOnly

Init ==
    /\ PriceListInit
    /\ quotes = [q \in Quotes |-> Absent]
    /\ orders = [o \in Orders |-> Absent]
    /\ payments = [p \in Payments |-> Absent]
    /\ asked = {}
    /\ work = [h \in Handlers |-> Free]
    /\ rivals = [o \in Orders |-> {}]
    /\ crowded = {} /\ doubled = {}

-------------------------------------------------------------------------------
(***************************************************************************)
(* Quotes.  A definition whose name ends in X is a faulty variant of the   *)
(* one after it.                                                           *)
(***************************************************************************)
\* Grants of k that are not paid for yet, to any client.
Outstanding(h, k) ==
    \/ \E q \in Quotes : There(quotes[q]) /\ quotes[q].terms.coupon = k /\ quotes[q].order = NoOrder
    \/ OrdersWith(k, "awaiting_payment") # {}
    \/ \E g \in Handlers \ {h} : At(g, "quoting") /\ work[g].terms.coupon = k

\* Whether administrators have disabled the coupon is not kept here: a quote that finds
\* it inactive fails like any other.
\* whatever its usage
MayGrantX(k, terms) ==
    /\ Eligible(Conditions[k], terms.client, ~HasPaidOrder(terms.client), terms.request, terms.subtotal)
MayGrant(k, terms) ==
    /\ Eligible(Conditions[k], terms.client, ~HasPaidOrder(terms.client), terms.request, terms.subtotal)
    /\ Cardinality(OrdersWith(k, "paid")) < Limit[k]

GrantedDiscount(k, subtotal) == IF k = NoCoupon THEN 0 ELSE Discount(Conditions[k], subtotal)

\* The coupon is examined, once the price is calculated: of the version that was in force
\* when the handler asked, which another may have superseded by now, ...
BeginQuote(h, c, request, k) ==
    \E v \in {w \in Versions : published[w] # NoList} :
        LET subtotal == Subtotal(published[v], request)
            terms == Terms(c, k, v, request, subtotal, GrantedDiscount(k, subtotal))
        IN  /\ Priceable(published[v], request)
            /\ k # NoCoupon => MayGrant(k, terms)
            /\ crowded' = crowded \cup {j \in {k} \ {NoCoupon} : Outstanding(h, j)}
            /\ Start(h, [stage |-> "quoting", terms |-> terms])
            /\ UNCHANGED <<priceListVars, tables, asked, rivals, doubled>>

\* ... and the quote is stored.
SaveQuote(h, q) ==
    /\ At(h, "quoting")
    /\ quotes[q] = Absent
    /\ quotes' = [quotes EXCEPT ![q] = [expired |-> FALSE, order |-> NoOrder, terms |-> work[h].terms]]
    /\ End(h)
    /\ UNCHANGED <<priceListVars, orders, payments, asked, ghosts>>

Unused(q) == There(quotes[q]) /\ quotes[q].order = NoOrder

\* Time passes.  When the clean-up finds a quote it has been expired for days; how
\* many makes no difference.
Expire(q) ==
    /\ Unused(q) /\ ~quotes[q].expired
    /\ quotes' = [quotes EXCEPT ![q].expired = TRUE]
    /\ UNCHANGED <<priceListVars, orders, payments, asked, work, ghosts>>

BeginCleanup(h) ==
    /\ Start(h, [stage |-> "cleaning", found |-> {q \in Quotes : Unused(q) /\ quotes[q].expired}])
    /\ work'[h].found # {}
    /\ UNCHANGED <<priceListVars, tables, asked, ghosts>>

DeletedQuotes(h) == {q \in work[h].found : Unused(q)}
Cleanup(h) ==
    /\ At(h, "cleaning")
    /\ quotes' = [q \in Quotes |-> IF q \in DeletedQuotes(h) THEN Deleted ELSE quotes[q]]
    /\ End(h)
    /\ UNCHANGED <<priceListVars, orders, payments, asked, ghosts>>

-------------------------------------------------------------------------------
(***************************************************************************)
(* Draft orders.                                                           *)
(***************************************************************************)
Owned(q, c) == There(quotes[q]) /\ quotes[q].terms.client = c

\* No handler has this payment in memory, and no checkout was opened for it.
FreshPayment(p) == payments[p] = Absent /\ \A a \in asked : a.payment # p

\* start-checkout: the amount is read and a checkout opened at Mercado Pago before
\* anything is stored.  The time the quote is compared with is taken here.
BeginCheckout(h, c, q, p) ==
    /\ Owned(q, c)
    /\ quotes[q].terms.total > 0
    /\ FreshPayment(p)
    /\ asked' = asked \cup {[payment |-> p, amount |-> quotes[q].terms.total]}
    /\ Start(h, [stage |-> "opened", client |-> c, quote |-> q, payment |-> p,
                 amount |-> quotes[q].terms.total, late |-> quotes[q].expired])
    /\ UNCHANGED <<priceListVars, tables, ghosts>>

\* The transaction of h has locked the row of c.
Locks(h, c) ==
    At(h, "inserting") /\ work[h].client = c /\ FirstOnly(work[h].terms.coupon)
LockedByOther(h, c) == \E g \in Handlers \ {h} : Locks(g, c)

\* The transaction reads the quote and, if its coupon is for first orders, locks the
\* client and looks for another order.  The terms of a quote never change: that the
\* lock may be waited for after the quote is read makes no difference.
ReadQuote(h, c, q, payment, amount) ==
    /\ Owned(q, c)
    /\ quotes[q].order = NoOrder
    /\ FirstOnly(quotes[q].terms.coupon) => ~LockedByOther(h, c) /\ LiveOrders(c) = {}
    /\ GoOn(h, [stage |-> "inserting", client |-> c, quote |-> q, payment |-> payment,
                amount |-> amount, terms |-> quotes[q].terms])
    /\ UNCHANGED <<priceListVars, tables, asked, ghosts>>

\* create-order
BeginOrder(h, c, q) ==
    /\ work[h] = Free
    /\ There(quotes[q]) /\ ~quotes[q].expired
    /\ ReadQuote(h, c, q, NoPayment, 0)

\* start-checkout, once the provider has answered
ContinueCheckout(h) ==
    /\ At(h, "opened")
    /\ ~work[h].late
    /\ ReadQuote(h, work[h].client, work[h].quote, work[h].payment, work[h].amount)

\* whoever has used it
StillUnusedX(q) == There(quotes[q])
StillUnused(q) == Unused(q)

\* the insertion of an order does not wait for the row of the client
MayInsertX(h) == TRUE
MayInsert(h) == ~LockedByOther(h, work[h].client)

\* the payment is stored before the order is known
NewPaymentsX(h, o) ==
    IF work[h].payment = NoPayment THEN payments
    ELSE [payments EXCEPT ![work[h].payment] = [order |-> NoOrder, gross |-> work[h].amount,
                                                share |-> BoosterShare(work[h].amount)]]
NewPayments(h, o) ==
    IF work[h].payment = NoPayment THEN payments
    ELSE [payments EXCEPT ![work[h].payment] = [order |-> o, gross |-> work[h].amount,
                                                share |-> BoosterShare(work[h].amount)]]

\* ... and inserts the order, consumes the quote and inserts the payment, or nothing.
CommitOrder(h, o) ==
    LET w == work[h] IN
    /\ w.stage = "inserting"
    /\ MayInsert(h)
    /\ StillUnused(w.quote)
    /\ orders[o] = Absent
    /\ orders' = [orders EXCEPT ![o] = [quote |-> w.quote, terms |-> w.terms,
                                        status |-> "awaiting_payment"]]
    /\ quotes' = [quotes EXCEPT ![w.quote].order = o]
    /\ payments' = NewPayments(h, o)
    /\ rivals' = [rivals EXCEPT ![o] = LiveOrders(w.client)]
    /\ End(h)
    /\ UNCHANGED <<priceListVars, asked, crowded, doubled>>

-------------------------------------------------------------------------------
(***************************************************************************)
(* A payment for an order that has none.                                   *)
(***************************************************************************)
\* whether it has one or not
HasNoPaymentX(o) == TRUE
HasNoPayment(o) == PaymentsOf(o) = {}

\* before the discount
PayableX(o) == orders[o].terms.subtotal
Payable(o) == orders[o].terms.total

BeginPayment(h, c, o, p) ==
    /\ o \in OrdersOf(c)
    /\ HasNoPayment(o)
    /\ Payable(o) > 0
    /\ FreshPayment(p)
    /\ asked' = asked \cup {[payment |-> p, amount |-> Payable(o)]}
    /\ Start(h, [stage |-> "saving", order |-> o, payment |-> p, amount |-> Payable(o)])
    /\ UNCHANGED <<priceListVars, tables, ghosts>>

PaysFor(h, o) == At(h, "saving") /\ work[h].order = o

SavePayment(h) ==
    LET w == work[h] IN
    /\ At(h, "saving")
    /\ payments' = [payments EXCEPT ![w.payment] = [order |-> w.order, gross |-> w.amount,
                                                    share |-> BoosterShare(w.amount)]]
    /\ doubled' = doubled \cup {o \in {w.order} : \E g \in Handlers \ {h} : PaysFor(g, o)}
    /\ End(h)
    /\ UNCHANGED <<priceListVars, quotes, orders, asked, rivals, crowded>>

\* A check fails, the provider is out of reach, the process dies.
Abort(h) ==
    /\ work[h] # Free
    /\ End(h)
    /\ UNCHANGED <<priceListVars, tables, asked, ghosts>>

-------------------------------------------------------------------------------
(***************************************************************************)
(* The rest of the system.                                                 *)
(***************************************************************************)
ChangePrices ==
    /\ PriceListNext
    /\ UNCHANGED <<tables, asked, work, ghosts>>

\* "paid" stands for the statuses from pending_booster on, cancelled excepted.
MoveOrder(o, from, to) ==
    /\ There(orders[o]) /\ orders[o].status \in from
    /\ orders' = [orders EXCEPT ![o].status = to]
    /\ UNCHANGED <<priceListVars, quotes, payments, asked, work, ghosts>>
Pay(o) == PaymentsOf(o) # {} /\ MoveOrder(o, {"awaiting_payment"}, "paid")
Cancel(o) == MoveOrder(o, {"awaiting_payment", "paid"}, "cancelled")

Next ==
    \/ ChangePrices
    \/ \E q \in Quotes : Expire(q)
    \/ \E o \in Orders : Pay(o) \/ Cancel(o)
    \/ \E h \in Handlers :
        \/ BeginCleanup(h) \/ Cleanup(h) \/ ContinueCheckout(h)
        \/ SavePayment(h) \/ Abort(h)
        \/ \E q \in Quotes : SaveQuote(h, q)
        \/ \E o \in Orders : CommitOrder(h, o)
        \/ \E c \in Clients :
            \/ \E request \in ClimbRequests, k \in Coupons \cup {NoCoupon} :
                BeginQuote(h, c, request, k)
            \/ \E q \in Quotes : BeginOrder(h, c, q)
            \/ \E p \in Payments :
                \/ \E q \in Quotes : BeginCheckout(h, c, q, p)
                \/ \E o \in Orders : BeginPayment(h, c, o, p)

Spec == Init /\ [][Next]_checkoutVars

-------------------------------------------------------------------------------
(* Types.                                                                  *)
TypeOK ==
    /\ quotes \in [Quotes -> QuoteRows \cup {Absent, Deleted}]
    /\ orders \in [Orders -> OrderRows \cup {Absent}]
    /\ payments \in [Payments -> PaymentRows \cup {Absent}]
    /\ work \in [Handlers -> Jobs \cup {Free}]
    /\ asked \subseteq [payment : Payments, amount : Int]
    /\ rivals \in [Orders -> SUBSET Orders]
    /\ crowded \subseteq Coupons
    /\ doubled \subseteq Orders
    /\ inForce \in Versions
    /\ published \in [Versions -> PricedLists \cup {NoList}]

(* However checkouts and the clean-up interleave, a quote buys one order:  *)
(* the quote of every order is still there, belongs to the same client, is *)
(* recorded as used by that very order, and settles what the order says;   *)
(* and a used quote has its order.                                         *)
QuoteBuysOneOrder ==
    /\ \A o \in Orders : There(orders[o]) =>
        LET q == orders[o].quote IN
        There(quotes[q]) /\ quotes[q].order = o /\ quotes[q].terms = orders[o].terms
    /\ \A q \in Quotes : There(quotes[q]) /\ quotes[q].order # NoOrder =>
        There(orders[quotes[q].order])

(* When an order is made with a coupon for first orders, its client has no *)
(* other order that is not cancelled, whatever other checkouts run, with   *)
(* or without coupons (validateCouponForCheckout locks the client).        *)
FirstOrderCouponIsFirst ==
    \A o \in Orders : There(orders[o]) /\ FirstOnly(orders[o].terms.coupon) => rivals[o] = {}

(* The price of an order can be checked for ever: it is what the list of   *)
(* its version says, less the discount of its coupon, even if the prices   *)
(* changed or the coupon was disabled before the quote was used, and       *)
(* unless it is free a coupon leaves the minimum to pay.                   *)
PriceIsOnRecord ==
    \A o \in Orders : There(orders[o]) =>
        LET t == orders[o].terms
            price == Subtotal(published[t.version], t.request)
            discount == IF t.coupon = NoCoupon THEN 0 ELSE Discount(Conditions[t.coupon], price)
        IN  /\ t.subtotal = price
            /\ t.total = price - discount
            /\ t.total >= Min({price, MinTotal})

(* What Mercado Pago charges is what the order costs: the checkout that    *)
(* was opened for a payment, before anything was stored, is for the total  *)
(* of the order the payment is for, however long that took; and a checkout *)
(* whose transaction failed pays for no order.                             *)
ChargedAsAgreed ==
    \A p \in Payments : There(payments[p]) =>
        LET o == payments[p].order IN
        /\ There(orders[o])
        /\ payments[p].gross = orders[o].terms.total
        /\ \E a \in asked : a.payment = p
        /\ \A a \in asked : a.payment = p => a.amount = orders[o].terms.total

(* An order has one payment, unless two handlers made one at the same time *)
(* (create-payment checks before it asks the provider, and inserts after). *)
OnePaymentUnlessDoubled ==
    \A o \in Orders \ doubled : Cardinality(PaymentsOf(o)) <= 1

(* No more orders are paid with a coupon than its limit says, unless it    *)
(* was granted again while an earlier grant was unpaid: the limit counts   *)
(* paid orders when the quote is made, and nothing is reserved.            *)
LimitHoldsUnlessCrowded ==
    \A k \in Coupons \ crowded : Cardinality(OrdersWith(k, "paid")) <= Limit[k]
================================================================================
