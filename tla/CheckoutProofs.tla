----------------------------- MODULE CheckoutProofs -----------------------------
(***************************************************************************)
(* Theorems about Checkout, for any clients, quotes, coupons and handlers. *)
(*                                                                         *)
(* The argument: ids are never used again, so what a handler read of a     *)
(* quote is what the quote still says if it is still there; the handler    *)
(* that locks a client keeps every new order of that client out; a payment *)
(* belongs to the one handler whose checkout was opened for it; and terms  *)
(* are settled once, from a list that is never changed.                    *)
(***************************************************************************)
EXTENDS Checkout, Sums

QuoteRow(expired, order, terms) == [expired |-> expired, order |-> order, terms |-> terms]
OrderRow(quote, terms, status) == [quote |-> quote, terms |-> terms, status |-> status]

\* The tables, leaving open what the amounts are.
Tables ==
    /\ quotes = [q \in Quotes |-> quotes[q]]
    /\ \A q \in Quotes : There(quotes[q]) =>
        /\ quotes[q] = QuoteRow(quotes[q].expired, quotes[q].order, quotes[q].terms)
        /\ quotes[q].order \in Orders \cup {NoOrder}
    /\ orders = [o \in Orders |-> orders[o]]
    /\ \A o \in Orders : There(orders[o]) =>
        /\ orders[o] = OrderRow(orders[o].quote, orders[o].terms, orders[o].status)
        /\ orders[o].quote \in Quotes
    /\ payments = [p \in Payments |-> payments[p]]
    /\ rivals = [o \in Orders |-> rivals[o]]
    /\ work = [h \in Handlers |-> work[h]]

\* What the handlers have in memory.
JobsKnown ==
    \A h \in Handlers :
        /\ At(h, "opened") => /\ work[h].quote \in Quotes /\ work[h].payment \in Payments
                              /\ work[h].client \in Clients
        /\ At(h, "inserting") => /\ work[h].quote \in Quotes /\ work[h].client \in Clients
                                 /\ work[h].payment \in Payments \cup {NoPayment}
        /\ At(h, "saving") => work[h].order \in Orders /\ work[h].payment \in Payments

\* A quote says what was read of it, if it is still there.
StillSays(q, terms) == quotes[q] # Absent /\ (There(quotes[q]) => quotes[q].terms = terms)
ReadsHold ==
    \A h \in Handlers : At(h, "inserting") =>
        StillSays(work[h].quote, work[h].terms) /\ work[h].terms.client = work[h].client

\* The client whose row a handler has locked has no live order.
LocksHold == \A h \in Handlers : \A c \in Clients : Locks(h, c) => LiveOrders(c) = {}

Inv == /\ Tables /\ JobsKnown /\ ReadsHold /\ LocksHold
       /\ QuoteBuysOneOrder /\ FirstOrderCouponIsFirst

-------------------------------------------------------------------------------
LEMMA RowsAreThere ==
    ASSUME NEW a, NEW b, NEW c
    PROVE  /\ There(QuoteRow(a, b, c)) /\ There(OrderRow(a, b, c))
           /\ There([order |-> a, gross |-> b, share |-> c])
           /\ ~There(Absent) /\ ~There(Deleted) /\ Absent # Deleted
    BY DEF There, QuoteRow, OrderRow, Absent, Deleted

LEMMA RowFields ==
    ASSUME NEW a, NEW b, NEW c
    PROVE  /\ QuoteRow(a, b, c).order = b /\ QuoteRow(a, b, c).terms = c
           /\ OrderRow(a, b, c).quote = a /\ OrderRow(a, b, c).terms = b
           /\ OrderRow(a, b, c).status = c
    BY DEF QuoteRow, OrderRow

LEMMA ExpiredRow ==
    ASSUME NEW row, row = QuoteRow(row.expired, row.order, row.terms)
    PROVE  [row EXCEPT !.expired = TRUE] = [expired |-> TRUE, order |-> row.order, terms |-> row.terms]
<1>1. PICK e, o, t : row = QuoteRow(e, o, t)
    OBVIOUS
<1>2. row.order = o /\ row.terms = t
    BY <1>1, RowFields
<1>3. \A v : [QuoteRow(e, o, t) EXCEPT !.expired = v] = QuoteRow(v, o, t)
    BY DEF QuoteRow
<1>4. [QuoteRow(e, o, t) EXCEPT !.expired = TRUE] = QuoteRow(TRUE, o, t)
    BY <1>3, Zenon
<1>5. QuoteRow(TRUE, o, t) = [expired |-> TRUE, order |-> o, terms |-> t]
    BY Zenon DEF QuoteRow
<1> QED BY <1>1, <1>2, <1>4, <1>5, Zenon

LEMMA NoTableTouched ==
    ASSUME \/ UNCHANGED checkoutVars \/ ChangePrices
           \/ \E h \in Handlers :
               \/ BeginCleanup(h) \/ ContinueCheckout(h) \/ Abort(h)
               \/ \E c, x, y : BeginQuote(h, c, x, y) \/ BeginOrder(h, c, x)
                              \/ BeginCheckout(h, c, x, y) \/ BeginPayment(h, c, x, y)
    PROVE  UNCHANGED <<quotes, orders, payments, rivals, doubled>>
<1>1. ASSUME UNCHANGED checkoutVars \/ ChangePrices
      PROVE  UNCHANGED <<quotes, orders, payments, rivals, doubled>>
    BY <1>1 DEF checkoutVars, tables, ghosts, ChangePrices
<1>2. ASSUME NEW h \in Handlers, BeginCleanup(h) \/ ContinueCheckout(h) \/ Abort(h)
      PROVE  UNCHANGED <<quotes, orders, payments, rivals, doubled>>
    BY <1>2 DEF tables, ghosts, BeginCleanup, ContinueCheckout, ReadQuote, Abort
<1>3. ASSUME NEW h \in Handlers, NEW c, NEW x, NEW y,
             \/ BeginQuote(h, c, x, y) \/ BeginOrder(h, c, x)
             \/ BeginCheckout(h, c, x, y) \/ BeginPayment(h, c, x, y)
      PROVE  UNCHANGED <<quotes, orders, payments, rivals, doubled>>
    BY <1>3 DEF tables, ghosts, BeginQuote, BeginOrder, ReadQuote, BeginCheckout, BeginPayment
<1> QED BY <1>1, <1>2, <1>3

LEMMA Steps ==
    ASSUME [Next]_checkoutVars
    PROVE  \/ UNCHANGED <<quotes, orders, payments, rivals, doubled>>
           \/ \E q \in Quotes : Expire(q)
           \/ \E o \in Orders : Pay(o) \/ Cancel(o)
           \/ \E h \in Handlers :
               \/ Cleanup(h) \/ SavePayment(h)
               \/ \E q \in Quotes : SaveQuote(h, q)
               \/ \E o \in Orders : CommitOrder(h, o)
    BY NoTableTouched DEF Next

\* What a step may do to a quote, and to an order.
QuoteMoves(q) ==
    \/ quotes'[q] = quotes[q]
    \/ quotes[q] = Absent /\ There(quotes'[q]) /\ quotes'[q].order = NoOrder
    \/ /\ There(quotes[q]) /\ There(quotes'[q])
       /\ quotes'[q].terms = quotes[q].terms /\ quotes'[q].order = quotes[q].order
    \/ Unused(q) /\ quotes'[q] = Deleted
    \/ /\ Unused(q) /\ There(quotes'[q]) /\ quotes'[q].terms = quotes[q].terms
       /\ \E h \in Handlers : \E o \in Orders :
            CommitOrder(h, o) /\ work[h].quote = q /\ quotes'[q].order = o

Moves(was, is) ==
    /\ There(was) /\ There(is) /\ is.quote = was.quote /\ is.terms = was.terms
    /\ \/ was.status = "awaiting_payment" /\ is.status = "paid"
       \/ is.status = "cancelled"

OrderMoves(o) ==
    \/ orders'[o] = orders[o]
    \/ Moves(orders[o], orders'[o])
    \/ \E h \in Handlers :
        CommitOrder(h, o) /\ orders'[o] = OrderRow(work[h].quote, work[h].terms, "awaiting_payment")

LEMMA QuotesMove ==
    ASSUME Tables, JobsKnown, [Next]_checkoutVars, NEW q \in Quotes
    PROVE  QuoteMoves(q)
<1>1. CASE UNCHANGED quotes
    BY <1>1 DEF QuoteMoves
<1>2. ASSUME NEW h \in Handlers, NEW r \in Quotes, SaveQuote(h, r) PROVE QuoteMoves(q)
    BY <1>2, RowsAreThere DEF SaveQuote, QuoteMoves, QuoteRow, Tables
<1>3. ASSUME NEW r \in Quotes, Expire(r) PROVE QuoteMoves(q)
    <2>1. CASE q # r
        BY <1>3, <2>1 DEF Expire, QuoteMoves, Tables
    <2>2. CASE q = r
        <3>1. There(quotes[q]) /\ quotes[q] = QuoteRow(quotes[q].expired, quotes[q].order, quotes[q].terms)
            BY <1>3, <2>2 DEF Expire, Unused, Tables
        <3>2. quotes'[q] = QuoteRow(TRUE, quotes[q].order, quotes[q].terms)
            BY <1>3, <2>2, <3>1 DEF Expire, Tables, QuoteRow
        <3>3. There(quotes'[q])
            BY <3>2, RowsAreThere
        <3>4. quotes'[q].terms = quotes[q].terms /\ quotes'[q].order = quotes[q].order
            BY <3>2 DEF QuoteRow
        <3> QED BY <3>1, <3>3, <3>4 DEF QuoteMoves
    <2> QED BY <2>1, <2>2
<1>4. ASSUME NEW h \in Handlers, Cleanup(h) PROVE QuoteMoves(q)
    BY <1>4 DEF Cleanup, DeletedQuotes, QuoteMoves
<1>5. ASSUME NEW h \in Handlers, NEW o \in Orders, CommitOrder(h, o) PROVE QuoteMoves(q)
    <2>1. CASE q # work[h].quote
        BY <1>5, <2>1 DEF CommitOrder, QuoteMoves, Tables
    <2>2. CASE q = work[h].quote
        <3>1. Unused(q) /\ quotes[q] = QuoteRow(quotes[q].expired, quotes[q].order, quotes[q].terms)
            BY <1>5, <2>2 DEF CommitOrder, StillUnused, Unused, Tables
        <3>2. quotes'[q] = QuoteRow(quotes[q].expired, o, quotes[q].terms)
            BY <1>5, <2>2, <3>1 DEF CommitOrder, Tables, QuoteRow
        <3>3. There(quotes'[q])
            BY <3>2, RowsAreThere
        <3>4. quotes'[q].terms = quotes[q].terms /\ quotes'[q].order = o
            BY <3>2, RowFields
        <3> QED BY <1>5, <2>2, <3>1, <3>3, <3>4 DEF QuoteMoves
    <2> QED BY <2>1, <2>2
<1>6. ASSUME \/ \E o \in Orders : Pay(o) \/ Cancel(o)
             \/ \E h \in Handlers : SavePayment(h)
      PROVE  UNCHANGED quotes
    BY <1>6 DEF Pay, Cancel, MoveOrder, SavePayment
<1> QED BY <1>1, <1>2, <1>3, <1>4, <1>5, <1>6, Steps

LEMMA OrdersMove ==
    ASSUME Tables, [Next]_checkoutVars, NEW o \in Orders
    PROVE  OrderMoves(o)
<1>1. CASE UNCHANGED <<orders, rivals>>
    BY <1>1 DEF OrderMoves
<1>2. ASSUME NEW r \in Orders, NEW from, NEW to, MoveOrder(r, from, to),
             to = "cancelled" \/ (to = "paid" /\ from = {"awaiting_payment"})
      PROVE  OrderMoves(o)
    <2>1. CASE o # r
        BY <1>2, <2>1 DEF MoveOrder, OrderMoves, Tables
    <2>2. CASE o = r
        <3>1. /\ There(orders[o]) /\ orders[o].status \in from
              /\ orders[o] = OrderRow(orders[o].quote, orders[o].terms, orders[o].status)
            BY <1>2, <2>2 DEF MoveOrder, Tables
        <3>2. orders'[o] = OrderRow(orders[o].quote, orders[o].terms, to)
            BY <1>2, <2>2, <3>1 DEF MoveOrder, Tables, OrderRow
        <3>3. There(orders'[o])
            BY <3>2, RowsAreThere
        <3>4. /\ orders'[o].quote = orders[o].quote /\ orders'[o].terms = orders[o].terms
              /\ orders'[o].status = to
            BY <3>2, RowFields
        <3> QED BY <1>2, <3>1, <3>3, <3>4 DEF OrderMoves, Moves
    <2> QED BY <2>1, <2>2
<1>3. ASSUME NEW r \in Orders, Pay(r) \/ Cancel(r) PROVE OrderMoves(o)
    BY <1>2, <1>3 DEF Pay, Cancel
<1>4. ASSUME NEW h \in Handlers, NEW r \in Orders, CommitOrder(h, r) PROVE OrderMoves(o)
    BY <1>4 DEF CommitOrder, OrderMoves, OrderRow, Tables
<1>5. ASSUME \/ \E q \in Quotes : Expire(q)
             \/ \E h \in Handlers : Cleanup(h) \/ SavePayment(h) \/ \E q \in Quotes : SaveQuote(h, q)
      PROVE  UNCHANGED <<orders, rivals>>
    BY <1>5 DEF Expire, Cleanup, SavePayment, SaveQuote, ghosts
<1> QED BY <1>1, <1>3, <1>4, <1>5, Steps

\* What a step may do to a handler.
Reads(h) ==
    \E c \in Clients, q \in Quotes, p \in Payments \cup {NoPayment} : \E amount :
        /\ ReadQuote(h, c, q, p, amount)
        /\ p # NoPayment => ContinueCheckout(h)
Pays(h) == \E c \in Clients, o \in Orders, p \in Payments : BeginPayment(h, c, o, p)
Opens(h) == \E c \in Clients, q \in Quotes, p \in Payments : BeginCheckout(h, c, q, p)

WorkMoves(h) ==
    \/ work'[h] = work[h]
    \/ work'[h].stage \in {"idle", "quoting", "cleaning"}
    \/ Opens(h) \/ Reads(h) \/ Pays(h)

LEMMA ContinueReads ==
    ASSUME JobsKnown, NEW h \in Handlers, ContinueCheckout(h)
    PROVE  Reads(h)
    BY DEF ContinueCheckout, JobsKnown, Reads

LEMMA WorkStays ==
    ASSUME Tables, NEW h, NEW g \in Handlers, NEW job, h # g,
           GoOn(h, job) \/ Start(h, job) \/ End(h)
    PROVE  work'[g] = work[g]
    BY DEF Tables, GoOn, Start, End

LEMMA WorkEnds ==
    ASSUME Tables, NEW h \in Handlers, End(h)
    PROVE  work'[h] = Free /\ work'[h].stage = "idle"
    BY DEF Tables, GoOn, End, Free

LEMMA WorkMove ==
    ASSUME Tables, JobsKnown, [Next]_checkoutVars, NEW g \in Handlers
    PROVE  WorkMoves(g)
<1>1. ASSUME UNCHANGED work PROVE WorkMoves(g)
    BY <1>1 DEF WorkMoves
<1>2. ASSUME NEW h \in Handlers, End(h) PROVE WorkMoves(g)
    BY <1>2, WorkEnds, WorkStays DEF WorkMoves
<1>3. ASSUME NEW h \in Handlers, NEW job, Start(h, job), job.stage \in {"quoting", "cleaning"}
      PROVE  WorkMoves(g)
    <2>1. CASE g = h
        BY <1>3, <2>1 DEF Start, Tables, WorkMoves
    <2> QED BY <1>3, <2>1, WorkStays DEF WorkMoves
<1>4. ASSUME NEW h \in Handlers, Reads(h) \/ Opens(h) \/ Pays(h) PROVE WorkMoves(g)
    <2>1. \E job : GoOn(h, job) \/ Start(h, job)
        BY <1>4 DEF Reads, ReadQuote, Opens, BeginCheckout, Pays, BeginPayment
    <2>2. CASE g # h
        BY <2>1, <2>2, WorkStays DEF WorkMoves
    <2> QED BY <1>4, <2>2 DEF WorkMoves
<1>5. ASSUME ChangePrices \/ UNCHANGED checkoutVars PROVE UNCHANGED work
    BY <1>5 DEF ChangePrices, checkoutVars
<1>6. ASSUME NEW o, Pay(o) \/ Cancel(o) \/ Expire(o) PROVE UNCHANGED work
    BY <1>6 DEF Pay, Cancel, MoveOrder, Expire
<1>7. ASSUME NEW h \in Handlers,
             \/ Cleanup(h) \/ SavePayment(h) \/ Abort(h)
             \/ (\E q \in Quotes : SaveQuote(h, q)) \/ \E o \in Orders : CommitOrder(h, o)
      PROVE  End(h)
    BY <1>7 DEF Cleanup, SavePayment, Abort, SaveQuote, CommitOrder
<1>8. ASSUME NEW h \in Handlers, BeginCleanup(h) PROVE WorkMoves(g)
    BY <1>3, <1>8 DEF BeginCleanup
<1>9. ASSUME NEW h \in Handlers, NEW c, NEW request, NEW k, BeginQuote(h, c, request, k)
      PROVE  WorkMoves(g)
    BY <1>3, <1>9 DEF BeginQuote
<1>10. ASSUME NEW h \in Handlers, NEW c \in Clients, NEW q \in Quotes, BeginOrder(h, c, q)
       PROVE  Reads(h)
    BY <1>10 DEF BeginOrder, Reads
<1>11. ASSUME NEW h \in Handlers,
              \/ BeginCleanup(h) \/ Cleanup(h) \/ ContinueCheckout(h)
              \/ SavePayment(h) \/ Abort(h)
              \/ (\E q \in Quotes : SaveQuote(h, q))
              \/ \E o \in Orders : CommitOrder(h, o)
       PROVE  WorkMoves(g)
    BY <1>2, <1>4, <1>7, <1>8, <1>11, ContinueReads
<1>12. ASSUME NEW h \in Handlers, NEW c \in Clients,
              \/ \E request \in ClimbRequests, k \in Coupons \cup {NoCoupon} :
                    BeginQuote(h, c, request, k)
              \/ \E q \in Quotes : BeginOrder(h, c, q)
              \/ \E p \in Payments :
                  \/ \E q \in Quotes : BeginCheckout(h, c, q, p)
                  \/ \E o \in Orders : BeginPayment(h, c, o, p)
       PROVE  WorkMoves(g)
    <2>1. ASSUME NEW q \in Quotes, NEW p \in Payments, BeginCheckout(h, c, q, p) PROVE Opens(h)
        BY <2>1 DEF Opens
    <2>2. ASSUME NEW o \in Orders, NEW p \in Payments, BeginPayment(h, c, o, p) PROVE Pays(h)
        BY <2>2 DEF Pays
    <2> QED BY <1>4, <1>9, <1>10, <1>12, <2>1, <2>2
<1> QED BY <1>1, <1>5, <1>6, <1>11, <1>12 DEF Next

-------------------------------------------------------------------------------
LEMMA QuotesShaped ==
    ASSUME Tables, JobsKnown, [Next]_checkoutVars
    PROVE  /\ quotes' = [q \in Quotes |-> quotes'[q]]
           /\ \A q \in Quotes : There(quotes'[q]) =>
                quotes'[q] = QuoteRow(quotes'[q].expired, quotes'[q].order, quotes'[q].terms)
<1> DEFINE Goal == /\ quotes' = [q \in Quotes |-> quotes'[q]]
                   /\ \A q \in Quotes : There(quotes'[q]) =>
                        quotes'[q] = QuoteRow(quotes'[q].expired, quotes'[q].order, quotes'[q].terms)
<1>1. CASE UNCHANGED quotes
    BY <1>1 DEF Tables
<1>2. ASSUME NEW r \in Quotes, NEW row, row = QuoteRow(row.expired, row.order, row.terms),
             quotes' = [quotes EXCEPT ![r] = row]
      PROVE  Goal
    BY <1>2 DEF Tables
<1>3. ASSUME NEW h \in Handlers, NEW q \in Quotes, SaveQuote(h, q) PROVE Goal
    <2> DEFINE row == [expired |-> FALSE, order |-> NoOrder, terms |-> work[h].terms]
    <2>1. row = QuoteRow(row.expired, row.order, row.terms)
        BY DEF QuoteRow
    <2>2. quotes' = [quotes EXCEPT ![q] = row]
        BY <1>3 DEF SaveQuote
    <2> HIDE DEF row
    <2> QED BY <1>2, <2>1, <2>2
<1>4. ASSUME NEW q \in Quotes, Expire(q) PROVE Goal
    <2> DEFINE row == [expired |-> TRUE, order |-> quotes[q].order, terms |-> quotes[q].terms]
    <2>1. There(quotes[q]) /\ quotes[q] = QuoteRow(quotes[q].expired, quotes[q].order, quotes[q].terms)
        BY <1>4 DEF Expire, Unused, Tables
    <2>2. row = QuoteRow(row.expired, row.order, row.terms)
        BY DEF QuoteRow
    <2>3. quotes' = [quotes EXCEPT ![q] = row]
        <3>1. [quotes[q] EXCEPT !.expired = TRUE] = row
            BY <2>1, ExpiredRow
        <3>2. quotes' = [quotes EXCEPT ![q] = [quotes[q] EXCEPT !.expired = TRUE]]
            BY <1>4 DEF Expire
        <3> HIDE DEF row
        <3> QED BY <3>1, <3>2
    <2> HIDE DEF row
    <2> QED BY <1>2, <2>2, <2>3
<1>5. ASSUME NEW h \in Handlers, Cleanup(h) PROVE Goal
    BY <1>5, RowsAreThere DEF Cleanup, Tables
<1>6. ASSUME NEW h \in Handlers, NEW o \in Orders, CommitOrder(h, o) PROVE Goal
    <2> DEFINE q == work[h].quote
    <2>1. q \in Quotes /\ There(quotes[q])
        BY <1>6 DEF CommitOrder, StillUnused, Unused, JobsKnown, At
    <2> DEFINE row == [quotes[q] EXCEPT !.order = o]
    <2>2. quotes[q] = QuoteRow(quotes[q].expired, quotes[q].order, quotes[q].terms)
        BY <2>1 DEF Tables
    <2>3. row = QuoteRow(row.expired, row.order, row.terms)
        BY <2>2 DEF QuoteRow
    <2>4. quotes' = [quotes EXCEPT ![q] = row]
        BY <1>6 DEF CommitOrder
    <2> HIDE DEF row, q
    <2> QED BY <1>2, <2>1, <2>3, <2>4
<1>7. ASSUME \/ \E o \in Orders : Pay(o) \/ Cancel(o)
             \/ \E h \in Handlers : SavePayment(h)
      PROVE  UNCHANGED quotes
    BY <1>7 DEF Pay, Cancel, MoveOrder, SavePayment
<1> QED BY <1>1, <1>3, <1>4, <1>5, <1>6, <1>7, Steps

LEMMA OrdersShaped ==
    ASSUME Tables, JobsKnown, [Next]_checkoutVars
    PROVE  /\ orders' = [o \in Orders |-> orders'[o]]
           /\ \A o \in Orders : There(orders'[o]) =>
                /\ orders'[o] = OrderRow(orders'[o].quote, orders'[o].terms, orders'[o].status)
                /\ orders'[o].quote \in Quotes
           /\ payments' = [p \in Payments |-> payments'[p]]
           /\ rivals' = [o \in Orders |-> rivals'[o]]
<1> DEFINE Goal == /\ orders' = [o \in Orders |-> orders'[o]]
                   /\ \A o \in Orders : There(orders'[o]) =>
                        /\ orders'[o] = OrderRow(orders'[o].quote, orders'[o].terms, orders'[o].status)
                        /\ orders'[o].quote \in Quotes
<1>1. ASSUME UNCHANGED orders PROVE Goal
    BY <1>1 DEF Tables
<1>2. ASSUME NEW o \in Orders, NEW q \in Quotes, NEW terms, NEW status,
             orders' = [orders EXCEPT ![o] = OrderRow(q, terms, status)]
      PROVE  Goal
    BY <1>2 DEF Tables, OrderRow
<1>3. ASSUME NEW o \in Orders, Pay(o) \/ Cancel(o) PROVE Goal
    <2>1. /\ There(orders[o]) /\ orders[o].quote \in Quotes
          /\ orders[o] = OrderRow(orders[o].quote, orders[o].terms, orders[o].status)
        BY <1>3 DEF Pay, Cancel, MoveOrder, Tables
    <2>2. \E status : orders' = [orders EXCEPT ![o] = OrderRow(orders[o].quote, orders[o].terms, status)]
        BY <1>3, <2>1 DEF Pay, Cancel, MoveOrder, OrderRow
    <2> QED BY <1>2, <2>1, <2>2
<1>4. ASSUME NEW h \in Handlers, NEW o \in Orders, CommitOrder(h, o) PROVE Goal
    <2>1. work[h].quote \in Quotes
        BY <1>4 DEF CommitOrder, JobsKnown, At
    <2>2. orders' = [orders EXCEPT ![o] = OrderRow(work[h].quote, work[h].terms, "awaiting_payment")]
        BY <1>4 DEF CommitOrder, OrderRow
    <2> QED BY <1>2, <2>1, <2>2
<1>5. ASSUME \/ \E q \in Quotes : Expire(q)
             \/ \E h \in Handlers : Cleanup(h) \/ SavePayment(h) \/ \E q \in Quotes : SaveQuote(h, q)
      PROVE  UNCHANGED <<orders, rivals>>
    BY <1>5 DEF Expire, Cleanup, SavePayment, SaveQuote, ghosts
<1>6. Goal
    BY <1>1, <1>3, <1>4, <1>5, Steps
<1>7. ASSUME \/ \E q \in Quotes : Expire(q)
             \/ \E o \in Orders : Pay(o) \/ Cancel(o)
             \/ \E h \in Handlers : Cleanup(h) \/ \E q \in Quotes : SaveQuote(h, q)
      PROVE  UNCHANGED <<payments, rivals>>
    BY <1>7 DEF Expire, Pay, Cancel, MoveOrder, Cleanup, SaveQuote, ghosts
<1>8. payments' = [p \in Payments |-> payments'[p]] /\ rivals' = [o \in Orders |-> rivals'[o]]
    <2>1. ASSUME UNCHANGED <<payments, rivals>>
          PROVE  payments' = [p \in Payments |-> payments'[p]] /\ rivals' = [o \in Orders |-> rivals'[o]]
        BY <2>1 DEF Tables
    <2>2. ASSUME NEW h \in Handlers, SavePayment(h)
          PROVE  payments' = [p \in Payments |-> payments'[p]] /\ rivals' = [o \in Orders |-> rivals'[o]]
        BY <2>2 DEF Tables, SavePayment
    <2>3. ASSUME NEW h \in Handlers, NEW o \in Orders, CommitOrder(h, o)
          PROVE  payments' = [p \in Payments |-> payments'[p]] /\ rivals' = [o2 \in Orders |-> rivals'[o2]]
        BY <2>3 DEF Tables, CommitOrder, NewPayments
    <2> QED BY <1>7, <2>1, <2>2, <2>3, Steps
<1> QED BY <1>6, <1>8

\* A step is one handler's.
LEMMA OneWorks ==
    ASSUME [Next]_checkoutVars
    PROVE  UNCHANGED work \/ \E h \in Handlers : \E job : GoOn(h, job)
<1>1. ASSUME NEW h \in Handlers, NEW c, NEW x, NEW y,
             \/ BeginCleanup(h) \/ Cleanup(h) \/ ContinueCheckout(h) \/ SavePayment(h) \/ Abort(h)
             \/ SaveQuote(h, x) \/ CommitOrder(h, x) \/ BeginQuote(h, c, x, y)
             \/ BeginOrder(h, c, x) \/ BeginCheckout(h, c, x, y) \/ BeginPayment(h, c, x, y)
      PROVE  \E job : GoOn(h, job)
    BY <1>1 DEF BeginCleanup, Cleanup, ContinueCheckout, SavePayment, Abort, SaveQuote, CommitOrder,
       BeginQuote, BeginOrder, BeginCheckout, BeginPayment, ReadQuote, Start, End, GoOn
<1>2. ASSUME NEW x, UNCHANGED checkoutVars \/ ChangePrices \/ Expire(x) \/ Pay(x) \/ Cancel(x)
      PROVE  UNCHANGED work
    BY <1>2 DEF checkoutVars, ChangePrices, Expire, Pay, Cancel, MoveOrder
<1> QED BY <1>1, <1>2 DEF Next

LEMMA WorkIsFunction ==
    ASSUME Tables, [Next]_checkoutVars
    PROVE  work' = [h \in Handlers |-> work'[h]]
    BY OneWorks DEF Tables, GoOn

LEMMA OneMover ==
    ASSUME Tables, [Next]_checkoutVars, NEW g \in Handlers, NEW h \in Handlers,
           work'[g] # work[g], work'[h] # work[h]
    PROVE  g = h
    BY OneWorks DEF Tables, GoOn

LEMMA CommitFacts ==
    ASSUME Tables, JobsKnown, ReadsHold, NEW h \in Handlers, NEW o \in Orders, CommitOrder(h, o)
    PROVE  /\ At(h, "inserting") /\ work[h].quote \in Quotes /\ Unused(work[h].quote)
           /\ orders[o] = Absent
           /\ orders'[o] = OrderRow(work[h].quote, work[h].terms, "awaiting_payment")
           /\ There(orders'[o])
           /\ orders'[o].quote = work[h].quote /\ orders'[o].terms = work[h].terms
           /\ orders'[o].status = "awaiting_payment"
           /\ rivals'[o] = LiveOrders(work[h].client)
           /\ \A r \in Orders : r # o => orders'[r] = orders[r] /\ rivals'[r] = rivals[r]
           /\ \A q \in Quotes : q # work[h].quote => quotes'[q] = quotes[q]
           /\ quotes[work[h].quote].terms = work[h].terms
           /\ work[h].terms.client = work[h].client
           /\ There(quotes'[work[h].quote]) /\ quotes'[work[h].quote].order = o
           /\ quotes'[work[h].quote].terms = work[h].terms
           /\ work'[h] = Free
<1>1. At(h, "inserting") /\ work[h].quote \in Quotes /\ Unused(work[h].quote) /\ orders[o] = Absent
    BY DEF CommitOrder, At, JobsKnown, StillUnused
<1>2. orders'[o] = OrderRow(work[h].quote, work[h].terms, "awaiting_payment")
    BY DEF CommitOrder, Tables, OrderRow
<1>3. There(orders'[o])
    BY <1>2, RowsAreThere
<1>4. /\ orders'[o].quote = work[h].quote /\ orders'[o].terms = work[h].terms
      /\ orders'[o].status = "awaiting_payment"
    BY <1>2, RowFields
<1>5. /\ rivals'[o] = LiveOrders(work[h].client)
      /\ \A r \in Orders : r # o => orders'[r] = orders[r] /\ rivals'[r] = rivals[r]
      /\ \A q \in Quotes : q # work[h].quote => quotes'[q] = quotes[q]
    BY DEF CommitOrder, Tables
<1>6. quotes[work[h].quote].terms = work[h].terms /\ work[h].terms.client = work[h].client
    BY <1>1 DEF ReadsHold, StillSays, Unused
<1>7. PICK e, b, t : quotes[work[h].quote] = QuoteRow(e, b, t)
    BY <1>1 DEF Unused, Tables
<1>8. quotes'[work[h].quote] = QuoteRow(e, o, t) /\ t = work[h].terms
    <2>1. t = work[h].terms
        BY <1>6, <1>7, RowFields
    <2> QED BY <1>1, <1>7, <2>1 DEF CommitOrder, Tables, QuoteRow
<1>9. There(quotes'[work[h].quote])
    BY <1>8, RowsAreThere
<1>10. quotes'[work[h].quote].order = o /\ quotes'[work[h].quote].terms = work[h].terms
    BY <1>8, RowFields
<1>11. work'[h] = Free
    BY WorkEnds DEF CommitOrder
<1> QED BY <1>1, <1>2, <1>3, <1>4, <1>5, <1>6, <1>9, <1>10, <1>11

LEMMA QuoteOrdersKnown ==
    ASSUME Tables, JobsKnown, ReadsHold, [Next]_checkoutVars
    PROVE  Tables'
<1>1. ASSUME NEW q \in Quotes, There(quotes'[q])
      PROVE  quotes'[q].order \in Orders \cup {NoOrder}
    <2>1. QuoteMoves(q)
        BY QuotesMove
    <2>2. There(quotes[q]) => quotes[q].order \in Orders \cup {NoOrder}
        BY DEF Tables
    <2> QED BY <1>1, <2>1, <2>2, RowsAreThere DEF QuoteMoves
<1> QED BY <1>1, QuotesShaped, OrdersShaped, WorkIsFunction DEF Tables

LEMMA JobsStayKnown ==
    ASSUME Tables, JobsKnown, [Next]_checkoutVars
    PROVE  JobsKnown'
<1> DEFINE Known(w) ==
        /\ w.stage = "opened" => w.quote \in Quotes /\ w.payment \in Payments /\ w.client \in Clients
        /\ w.stage = "inserting" => /\ w.quote \in Quotes /\ w.client \in Clients
                                    /\ w.payment \in Payments \cup {NoPayment}
        /\ w.stage = "saving" => w.order \in Orders /\ w.payment \in Payments
<1> SUFFICES ASSUME NEW h \in Handlers PROVE Known(work'[h])
    BY DEF JobsKnown, At
<1>1. WorkMoves(h)
    BY WorkMove
<1>2. CASE work'[h] = work[h]
    BY <1>2 DEF JobsKnown, At
<1>3. CASE work'[h].stage \in {"idle", "quoting", "cleaning"}
    BY <1>3
<1>4. ASSUME NEW c \in Clients, NEW q \in Quotes, NEW p \in Payments, BeginCheckout(h, c, q, p)
      PROVE  Known(work'[h])
    BY <1>4 DEF BeginCheckout, Start, Tables
<1>5. ASSUME NEW c \in Clients, NEW q \in Quotes, NEW p \in Payments \cup {NoPayment}, NEW amount,
             ReadQuote(h, c, q, p, amount)
      PROVE  Known(work'[h])
    BY <1>5 DEF ReadQuote, GoOn, Tables
<1>6. ASSUME NEW c \in Clients, NEW o \in Orders, NEW p \in Payments, BeginPayment(h, c, o, p)
      PROVE  Known(work'[h])
    BY <1>6 DEF BeginPayment, Start, Tables
<1> QED BY <1>1, <1>2, <1>3, <1>4, <1>5, <1>6 DEF WorkMoves, Opens, Reads, Pays

LEMMA StillSaysOn ==
    ASSUME Tables, JobsKnown, [Next]_checkoutVars, NEW q \in Quotes, NEW terms, StillSays(q, terms)
    PROVE  quotes'[q] # Absent /\ (There(quotes'[q]) => quotes'[q].terms = terms)
    BY QuotesMove, RowsAreThere DEF StillSays, QuoteMoves, Unused

LEMMA ReadsStillHold ==
    ASSUME Tables, JobsKnown, ReadsHold, [Next]_checkoutVars
    PROVE  ReadsHold'
<1> SUFFICES ASSUME NEW h \in Handlers, work'[h].stage = "inserting"
             PROVE  /\ quotes'[work'[h].quote] # Absent
                    /\ There(quotes'[work'[h].quote]) =>
                         quotes'[work'[h].quote].terms = work'[h].terms
                    /\ work'[h].terms.client = work'[h].client
    BY DEF ReadsHold, At, StillSays
<1>1. CASE work'[h] = work[h]
    <2>1. At(h, "inserting") /\ work[h].quote \in Quotes
        BY <1>1 DEF At, JobsKnown
    <2>2. StillSays(work[h].quote, work[h].terms) /\ work[h].terms.client = work[h].client
        BY <2>1 DEF ReadsHold
    <2> QED BY <1>1, <2>1, <2>2, StillSaysOn
<1>2. ASSUME NEW c \in Clients, NEW q \in Quotes, NEW p \in Payments \cup {NoPayment}, NEW amount,
             ReadQuote(h, c, q, p, amount)
      PROVE  /\ quotes'[work'[h].quote] # Absent
             /\ There(quotes'[work'[h].quote]) => quotes'[work'[h].quote].terms = work'[h].terms
             /\ work'[h].terms.client = work'[h].client
    <2>1. work'[h].quote = q /\ work'[h].terms = quotes[q].terms /\ work'[h].client = c
        BY <1>2 DEF ReadQuote, GoOn, Tables
    <2>2. There(quotes[q]) /\ quotes[q].terms.client = c /\ quotes' = quotes
        BY <1>2 DEF ReadQuote, Owned, tables
    <2> QED BY <2>1, <2>2, RowsAreThere
<1>3. ASSUME Opens(h) \/ Pays(h) PROVE work'[h].stage \in {"opened", "saving"}
    BY <1>3 DEF Opens, Pays, BeginCheckout, BeginPayment, Start, Tables
<1> QED BY <1>1, <1>2, <1>3, WorkMove DEF WorkMoves, Reads

LEMMA QuotesStillBuyOne ==
    ASSUME Tables, JobsKnown, ReadsHold, QuoteBuysOneOrder, [Next]_checkoutVars
    PROVE  QuoteBuysOneOrder'
<1>1. ASSUME NEW o \in Orders, There(orders'[o])
      PROVE  /\ There(quotes'[orders'[o].quote]) /\ quotes'[orders'[o].quote].order = o
             /\ quotes'[orders'[o].quote].terms = orders'[o].terms
    <2>1. CASE \/ orders'[o] = orders[o]
               \/ Moves(orders[o], orders'[o])
        <3>1. /\ There(orders[o])
              /\ orders'[o].quote = orders[o].quote /\ orders'[o].terms = orders[o].terms
            BY <1>1, <2>1 DEF Moves
        <3>2. PICK q \in Quotes : q = orders[o].quote
            BY <3>1 DEF Tables
        <3>3. There(quotes[q]) /\ quotes[q].order = o /\ quotes[q].terms = orders[o].terms
            BY <3>1, <3>2 DEF QuoteBuysOneOrder
        <3>4. o # NoOrder
            BY CheckoutAssumption
        <3>5. There(quotes'[q]) /\ quotes'[q].order = o /\ quotes'[q].terms = orders[o].terms
            BY <3>3, <3>4, QuotesMove, RowsAreThere DEF QuoteMoves, Unused
        <3> QED BY <3>1, <3>2, <3>5
    <2>2. ASSUME NEW h \in Handlers, CommitOrder(h, o)
          PROVE  /\ There(quotes'[orders'[o].quote]) /\ quotes'[orders'[o].quote].order = o
                 /\ quotes'[orders'[o].quote].terms = orders'[o].terms
        BY <2>2, CommitFacts
    <2> QED BY <2>1, <2>2, OrdersMove DEF OrderMoves
<1>2. ASSUME NEW o \in Orders, There(orders[o]) PROVE There(orders'[o])
    <2>1. ASSUME NEW h \in Handlers, CommitOrder(h, o) PROVE There(orders'[o])
        BY <2>1, CommitFacts
    <2> QED BY <1>2, <2>1, OrdersMove DEF OrderMoves, Moves
<1>3. ASSUME NEW q \in Quotes, There(quotes'[q]), quotes'[q].order # NoOrder
      PROVE  There(orders'[quotes'[q].order])
    <2>1. CASE There(quotes[q]) /\ quotes'[q].order = quotes[q].order
        <3>1. quotes[q].order \in Orders /\ There(orders[quotes[q].order])
            BY <1>3, <2>1 DEF Tables, QuoteBuysOneOrder
        <3> QED BY <1>2, <2>1, <3>1
    <2>2. ASSUME NEW h \in Handlers, NEW o \in Orders, CommitOrder(h, o), quotes'[q].order = o
          PROVE  There(orders'[quotes'[q].order])
        BY <2>2, CommitFacts
    <2> QED BY <1>3, <2>1, <2>2, QuotesMove, RowsAreThere DEF QuoteMoves
<1> QED BY <1>1, <1>3 DEF QuoteBuysOneOrder

LEMMA LiveOrdersMove ==
    ASSUME Tables, JobsKnown, ReadsHold, [Next]_checkoutVars, NEW c, LiveOrders(c) = {},
           \A g \in Handlers : \A o \in Orders : CommitOrder(g, o) => work[g].client # c
    PROVE  LiveOrders(c)' = {}
<1> SUFFICES ASSUME NEW o \in Orders, There(orders'[o]), orders'[o].terms.client = c,
                    orders'[o].status # "cancelled"
             PROVE  FALSE
    BY DEF LiveOrders, OrdersOf
<1>1. ASSUME orders'[o] = orders[o] \/ Moves(orders[o], orders'[o]) PROVE o \in LiveOrders(c)
    BY <1>1 DEF Moves, LiveOrders, OrdersOf
<1>2. ASSUME NEW g \in Handlers, CommitOrder(g, o) PROVE FALSE
    BY <1>2, CommitFacts
<1> QED BY <1>1, <1>2, OrdersMove DEF OrderMoves

LEMMA LocksStillHold ==
    ASSUME Tables, JobsKnown, ReadsHold, LocksHold, [Next]_checkoutVars
    PROVE  LocksHold'
<1> SUFFICES ASSUME NEW h \in Handlers, NEW c \in Clients, Locks(h, c)'
             PROVE  LiveOrders(c)' = {}
    BY DEF LocksHold
<1>1. work'[h].stage = "inserting" /\ work'[h].client = c /\ FirstOnly(work'[h].terms.coupon)
    BY DEF Locks, At, FirstOnly
<1>2. CASE work'[h] = work[h]
    <2>1. Locks(h, c) /\ LiveOrders(c) = {}
        BY <1>1, <1>2 DEF Locks, At, LocksHold
    <2>2. ASSUME NEW g \in Handlers, NEW o \in Orders, CommitOrder(g, o) PROVE work[g].client # c
        <3>1. CASE g = h
            BY <1>1, <2>2, <3>1, CommitFacts DEF Free
        <3>2. CASE g # h
            BY <2>1, <2>2, <3>2 DEF CommitOrder, MayInsert, LockedByOther
        <3> QED BY <3>1, <3>2
    <2> QED BY <2>1, <2>2, LiveOrdersMove
<1>3. ASSUME NEW d \in Clients, NEW q \in Quotes, NEW p \in Payments \cup {NoPayment}, NEW amount,
             ReadQuote(h, d, q, p, amount)
      PROVE  LiveOrders(c)' = {}
    <2>1. work'[h].client = d /\ work'[h].terms = quotes[q].terms
        BY <1>3 DEF ReadQuote, GoOn, Tables
    <2>2. LiveOrders(c) = {} /\ orders' = orders
        BY <1>1, <1>3, <2>1 DEF ReadQuote, tables
    <2> QED BY <2>2 DEF LiveOrders, OrdersOf
<1>4. ASSUME Opens(h) \/ Pays(h) PROVE work'[h].stage \in {"opened", "saving"}
    BY <1>4 DEF Opens, Pays, BeginCheckout, BeginPayment, Start, Tables
<1> QED BY <1>1, <1>2, <1>3, <1>4, WorkMove DEF WorkMoves, Reads

LEMMA FirstStaysFirst ==
    ASSUME Tables, JobsKnown, ReadsHold, LocksHold, FirstOrderCouponIsFirst, [Next]_checkoutVars
    PROVE  FirstOrderCouponIsFirst'
<1> SUFFICES ASSUME NEW o \in Orders, There(orders'[o]), FirstOnly(orders'[o].terms.coupon)
             PROVE  rivals'[o] = {}
    BY DEF FirstOrderCouponIsFirst, FirstOnly
<1>1. CASE orders'[o] = orders[o] \/ Moves(orders[o], orders'[o])
    <2>1. rivals[o] = {} /\ There(orders[o])
        BY <1>1 DEF Moves, FirstOrderCouponIsFirst
    <2>2. ASSUME NEW h \in Handlers, NEW r \in Orders, CommitOrder(h, r) PROVE rivals'[o] = rivals[o]
        <3>1. orders[r] = Absent /\ (o # r => rivals'[o] = rivals[o])
            BY <2>2 DEF CommitOrder, Tables
        <3> QED BY <2>1, <3>1, RowsAreThere
    <2>3. ASSUME \/ \E q \in Quotes : Expire(q)
                 \/ \E r \in Orders : Pay(r) \/ Cancel(r)
                 \/ \E h \in Handlers : Cleanup(h) \/ SavePayment(h) \/ \E q \in Quotes : SaveQuote(h, q)
          PROVE  rivals' = rivals
        BY <2>3 DEF Expire, Pay, Cancel, MoveOrder, Cleanup, SavePayment, SaveQuote, ghosts
    <2> QED BY <2>1, <2>2, <2>3, Steps
<1>2. ASSUME NEW h \in Handlers, CommitOrder(h, o) PROVE rivals'[o] = {}
    <2>1. At(h, "inserting") /\ orders'[o].terms = work[h].terms /\ rivals'[o] = LiveOrders(work[h].client)
        BY <1>2, CommitFacts
    <2>2. Locks(h, work[h].client) /\ work[h].client \in Clients
        BY <2>1 DEF Locks, JobsKnown, FirstOnly
    <2> QED BY <2>1, <2>2 DEF LocksHold
<1> QED BY <1>1, <1>2, OrdersMove DEF OrderMoves

LEMMA NothingAtFirst ==
    Init => /\ \A q \in Quotes : quotes[q] = Absent
            /\ \A o \in Orders : orders[o] = Absent
            /\ \A p \in Payments : payments[p] = Absent
            /\ \A h \in Handlers : work[h].stage = "idle"
            /\ asked = {} /\ crowded = {} /\ doubled = {}
    BY DEF Init, Free

LEMMA InitInv == Init => Inv
<1> SUFFICES ASSUME Init PROVE Inv
    OBVIOUS
<1>1. Tables
    BY NothingAtFirst, RowsAreThere DEF Init, Tables
<1>2. JobsKnown /\ ReadsHold /\ LocksHold
    BY NothingAtFirst DEF JobsKnown, ReadsHold, LocksHold, Locks, At
<1>3. QuoteBuysOneOrder /\ FirstOrderCouponIsFirst
    BY NothingAtFirst, RowsAreThere DEF QuoteBuysOneOrder, FirstOrderCouponIsFirst
<1> QED BY <1>1, <1>2, <1>3 DEF Inv

LEMMA NextInv == Inv /\ [Next]_checkoutVars => Inv'
    BY QuoteOrdersKnown, JobsStayKnown, ReadsStillHold, LocksStillHold, QuotesStillBuyOne, FirstStaysFirst
    DEF Inv

LEMMA Invariance == Spec => []Inv
    BY InitInv, NextInv, PTL DEF Spec

(* A quote buys one order, however checkouts and clean-ups interleave: the *)
(* conditional update of the transaction is all it takes.                  *)
THEOREM OneOrderPerQuote == Spec => []QuoteBuysOneOrder
<1>1. Inv => QuoteBuysOneOrder
    BY DEF Inv
<1> QED BY <1>1, Invariance, PTL

(* A coupon for first orders is used for no other, whatever other orders   *)
(* the client makes at the same time: they wait for the lock.              *)
THEOREM FirstOrderCouponsGoToFirstOrders == Spec => []FirstOrderCouponIsFirst
<1>1. Inv => FirstOrderCouponIsFirst
    BY DEF Inv
<1> QED BY <1>1, Invariance, PTL

-------------------------------------------------------------------------------
(***************************************************************************)
(* Payments.                                                               *)
(***************************************************************************)
Holds(h, p) == (At(h, "opened") \/ At(h, "inserting") \/ At(h, "saving")) /\ work[h].payment = p

\* The amount in the memory of a handler is that of the quote it was read from, or of the
\* order the payment is for.
Agreed(h) ==
    /\ At(h, "opened") =>
        /\ quotes[work[h].quote] # Absent
        /\ There(quotes[work[h].quote]) => quotes[work[h].quote].terms.total = work[h].amount
    /\ At(h, "inserting") => work[h].terms.total = work[h].amount
    /\ At(h, "saving") => /\ There(orders[work[h].order])
                          /\ orders[work[h].order].terms.total = work[h].amount

PaymentsKnown == \A p \in Payments : There(payments[p]) => payments[p].order \in Orders
AskedOnce == \A a, b \in asked : a.payment = b.payment => a.amount = b.amount
HeldByOne == \A g, h \in Handlers : \A p \in Payments : Holds(g, p) /\ Holds(h, p) => g = h
HeldIsOpen ==
    \A h \in Handlers : \A p \in Payments : Holds(h, p) =>
        /\ payments[p] = Absent
        /\ \E a \in asked : a.payment = p /\ a.amount = work[h].amount
        /\ Agreed(h)

MoneyInv == Inv /\ PaymentsKnown /\ AskedOnce /\ HeldByOne /\ HeldIsOpen /\ ChargedAsAgreed

PaymentMoves(p) ==
    \/ payments'[p] = payments[p]
    \/ /\ There(payments'[p])
       /\ \E h \in Handlers :
            /\ Holds(h, p) /\ payments'[p].gross = work[h].amount /\ work'[h] = Free
            /\ \/ \E o \in Orders : CommitOrder(h, o) /\ payments'[p].order = o
               \/ SavePayment(h) /\ payments'[p].order = work[h].order

LEMMA PaymentFields ==
    ASSUME NEW a, NEW b, NEW c
    PROVE  [order |-> a, gross |-> b, share |-> c].order = a /\ [order |-> a, gross |-> b, share |-> c].gross = b
    OBVIOUS

LEMMA PaymentsMove ==
    ASSUME Tables, [Next]_checkoutVars, NEW p \in Payments
    PROVE  PaymentMoves(p)
<1>1. CASE UNCHANGED payments
    BY <1>1 DEF PaymentMoves
<1>2. ASSUME NEW h \in Handlers, NEW o \in Orders, CommitOrder(h, o) PROVE PaymentMoves(p)
    <2>1. CASE work[h].payment # p \/ work[h].payment = NoPayment
        BY <1>2, <2>1 DEF CommitOrder, NewPayments, Tables, PaymentMoves
    <2>2. CASE work[h].payment = p /\ p # NoPayment
        <3>1. payments'[p] = [order |-> o, gross |-> work[h].amount, share |-> BoosterShare(work[h].amount)]
            BY <1>2, <2>2 DEF CommitOrder, NewPayments, Tables
        <3>2. Holds(h, p) /\ End(h)
            BY <1>2, <2>2 DEF CommitOrder, Holds, At
        <3> QED BY <1>2, <3>1, <3>2, RowsAreThere, PaymentFields, WorkEnds DEF PaymentMoves
    <2> QED BY <2>1, <2>2
<1>3. ASSUME NEW h \in Handlers, SavePayment(h) PROVE PaymentMoves(p)
    <2>1. CASE work[h].payment # p
        BY <1>3, <2>1 DEF SavePayment, Tables, PaymentMoves
    <2>2. CASE work[h].payment = p
        <3>1. payments'[p] = [order |-> work[h].order, gross |-> work[h].amount,
                              share |-> BoosterShare(work[h].amount)]
            BY <1>3, <2>2 DEF SavePayment, Tables
        <3>2. Holds(h, p) /\ End(h)
            BY <1>3, <2>2 DEF SavePayment, Holds, At
        <3> QED BY <1>3, <3>1, <3>2, RowsAreThere, PaymentFields, WorkEnds DEF PaymentMoves
    <2> QED BY <2>1, <2>2
<1>4. ASSUME \/ \E q \in Quotes : Expire(q)
             \/ \E o \in Orders : Pay(o) \/ Cancel(o)
             \/ \E h \in Handlers : Cleanup(h) \/ \E q \in Quotes : SaveQuote(h, q)
      PROVE  UNCHANGED payments
    BY <1>4 DEF Expire, Pay, Cancel, MoveOrder, Cleanup, SaveQuote
<1> QED BY <1>1, <1>2, <1>3, <1>4, Steps

\* A checkout is opened by a handler that takes a payment id nobody has.
AskedMoves ==
    \/ asked' = asked
    \/ \E h \in Handlers, p \in Payments : \E amount :
        FreshPayment(p) /\ asked' = asked \cup {[payment |-> p, amount |-> amount]}

LEMMA AskedMove ==
    ASSUME [Next]_checkoutVars
    PROVE  AskedMoves
<1>1. ASSUME NEW h \in Handlers, NEW c \in Clients, NEW x, NEW p \in Payments,
             BeginCheckout(h, c, x, p) \/ BeginPayment(h, c, x, p)
      PROVE  AskedMoves
    BY <1>1 DEF BeginCheckout, BeginPayment, AskedMoves
<1>2. ASSUME UNCHANGED checkoutVars \/ ChangePrices PROVE asked' = asked
    BY <1>2 DEF checkoutVars, ChangePrices
<1>3. ASSUME NEW x, Expire(x) \/ Pay(x) \/ Cancel(x) PROVE asked' = asked
    BY <1>3 DEF Expire, Pay, Cancel, MoveOrder
<1>4. ASSUME NEW h \in Handlers, NEW c, NEW x, NEW y,
             \/ BeginCleanup(h) \/ Cleanup(h) \/ ContinueCheckout(h) \/ SavePayment(h) \/ Abort(h)
             \/ SaveQuote(h, x) \/ CommitOrder(h, x) \/ BeginQuote(h, c, x, y)
             \/ BeginOrder(h, c, x)
      PROVE  asked' = asked
    BY <1>4 DEF BeginCleanup, Cleanup, ContinueCheckout, SavePayment, Abort, SaveQuote, CommitOrder,
       BeginQuote, BeginOrder, ReadQuote
<1>5. CASE asked' = asked
    BY <1>5 DEF AskedMoves
<1> QED BY <1>1, <1>2, <1>3, <1>4, <1>5 DEF Next

LEMMA AskedGrows ==
    ASSUME [Next]_checkoutVars, NEW p \in Payments
    PROVE  /\ asked \subseteq asked'
           /\ payments[p] # Absent => \A a \in asked' : a.payment = p => a \in asked
           /\ (\E b \in asked : b.payment = p) => \A a \in asked' : a.payment = p => a \in asked
    BY AskedMove DEF AskedMoves, FreshPayment

LEMMA AskedStillOnce ==
    ASSUME AskedOnce, [Next]_checkoutVars
    PROVE  AskedOnce'
    BY AskedMove DEF AskedMoves, FreshPayment, AskedOnce

LEMMA PaymentsStayKnown ==
    ASSUME Tables, JobsKnown, PaymentsKnown, [Next]_checkoutVars
    PROVE  PaymentsKnown'
<1> SUFFICES ASSUME NEW p \in Payments, There(payments'[p]) PROVE payments'[p].order \in Orders
    BY DEF PaymentsKnown
<1>1. ASSUME NEW h \in Handlers, SavePayment(h) PROVE work[h].order \in Orders
    BY <1>1 DEF SavePayment, JobsKnown
<1> QED BY <1>1, PaymentsMove DEF PaymentMoves, PaymentsKnown

\* A handler holds a payment it did not hold before only by opening a checkout for it.
LEMMA HeldBefore ==
    ASSUME Tables, JobsKnown, [Next]_checkoutVars, NEW h \in Handlers, NEW p \in Payments, Holds(h, p)'
    PROVE  \/ work'[h] = work[h] /\ Holds(h, p)
           \/ Reads(h) /\ At(h, "opened") /\ Holds(h, p) /\ work'[h].amount = work[h].amount
           \/ FreshPayment(p) /\ (Opens(h) \/ Pays(h))
<1>1. CASE work'[h] = work[h]
    BY <1>1 DEF Holds, At
<1>2. CASE work'[h].stage \in {"idle", "quoting", "cleaning"}
    BY <1>2 DEF Holds, At
<1>3. CASE Opens(h)
    <2>1. PICK c \in Clients, q \in Quotes, r \in Payments : BeginCheckout(h, c, q, r)
        BY <1>3 DEF Opens
    <2>2. FreshPayment(r) /\ work'[h].payment = r
        BY <2>1 DEF BeginCheckout, Start, Tables
    <2> QED BY <1>3, <2>2 DEF Holds
<1>4. CASE Pays(h)
    <2>1. PICK c \in Clients, o \in Orders, r \in Payments : BeginPayment(h, c, o, r)
        BY <1>4 DEF Pays
    <2>2. FreshPayment(r) /\ work'[h].payment = r
        BY <2>1 DEF BeginPayment, Start, Tables
    <2> QED BY <1>4, <2>2 DEF Holds
<1>5. CASE Reads(h)
    <2>0. PICK c \in Clients, q \in Quotes, r \in Payments \cup {NoPayment} : \E amount :
            ReadQuote(h, c, q, r, amount) /\ (r # NoPayment => ContinueCheckout(h))
        BY <1>5 DEF Reads
    <2>1. PICK amount :
            ReadQuote(h, c, q, r, amount) /\ (r # NoPayment => ContinueCheckout(h))
        BY <2>0
    <2>2. work'[h].payment = r /\ p = r
        BY <2>1 DEF ReadQuote, GoOn, Tables, Holds
    <2>3. ContinueCheckout(h)
        BY <2>1, <2>2, CheckoutAssumption
    <2>4. /\ At(h, "opened") /\ work'[h].payment = work[h].payment
          /\ work'[h].amount = work[h].amount
        BY <2>3 DEF ContinueCheckout, ReadQuote, GoOn, Tables
    <2> QED BY <1>5, <2>2, <2>4 DEF Holds
<1> QED BY <1>1, <1>2, <1>3, <1>4, <1>5, WorkMove DEF WorkMoves

LEMMA OthersStay ==
    ASSUME Tables, NEW g \in Handlers, NEW h \in Handlers, g # h, Opens(h) \/ Pays(h)
    PROVE  work'[g] = work[g]
    BY WorkStays DEF Opens, Pays, BeginCheckout, BeginPayment

LEMMA StillHeldByOne ==
    ASSUME Tables, JobsKnown, HeldByOne, HeldIsOpen, [Next]_checkoutVars
    PROVE  HeldByOne'
<1> SUFFICES ASSUME NEW g \in Handlers, NEW h \in Handlers, NEW p \in Payments,
                    Holds(g, p)', Holds(h, p)', g # h
             PROVE  FALSE
    BY DEF HeldByOne
<1>1. ~(Holds(g, p) /\ Holds(h, p))
    BY DEF HeldByOne
<1>2. ASSUME NEW x \in Handlers, NEW y \in Handlers, x # y, Holds(x, p)', FreshPayment(p), Opens(y) \/ Pays(y)
      PROVE  FALSE
    <2>1. work'[x] = work[x]
        BY <1>2, OthersStay
    <2>2. Holds(x, p)
        BY <1>2, <2>1 DEF Holds, At
    <2> QED BY <1>2, <2>2 DEF HeldIsOpen, FreshPayment
<1>3. CASE FreshPayment(p) /\ (Opens(g) \/ Pays(g))
    BY <1>2, <1>3
<1>4. CASE FreshPayment(p) /\ (Opens(h) \/ Pays(h))
    BY <1>2, <1>4
<1> QED BY <1>1, <1>3, <1>4, HeldBefore

LEMMA StillAgreed ==
    ASSUME Tables, JobsKnown, ReadsHold, [Next]_checkoutVars, NEW h \in Handlers,
           work'[h] = work[h], Agreed(h)
    PROVE  Agreed(h)'
<1>1. ASSUME At(h, "opened")
      PROVE  /\ quotes'[work[h].quote] # Absent
             /\ There(quotes'[work[h].quote]) => quotes'[work[h].quote].terms.total = work[h].amount
    <2>1. PICK q \in Quotes : q = work[h].quote
        BY <1>1 DEF JobsKnown
    <2>2. quotes[q] # Absent /\ (There(quotes[q]) => quotes[q].terms.total = work[h].amount)
        BY <1>1, <2>1 DEF Agreed
    <2>3. QuoteMoves(q)
        BY QuotesMove
    <2> QED BY <2>1, <2>2, <2>3, RowsAreThere DEF QuoteMoves, Unused
<1>2. ASSUME At(h, "saving")
      PROVE  There(orders'[work[h].order]) /\ orders'[work[h].order].terms.total = work[h].amount
    <2>1. PICK o \in Orders : o = work[h].order
        BY <1>2 DEF JobsKnown
    <2>2. There(orders[o]) /\ orders[o].terms.total = work[h].amount
        BY <1>2, <2>1 DEF Agreed
    <2>3. OrderMoves(o)
        BY OrdersMove
    <2>4. ASSUME NEW g \in Handlers, CommitOrder(g, o) PROVE FALSE
        BY <2>2, <2>4, RowsAreThere DEF CommitOrder
    <2> QED BY <2>1, <2>2, <2>3, <2>4 DEF OrderMoves, Moves
<1>3. At(h, "inserting") => work[h].terms.total = work[h].amount
    BY DEF Agreed
<1> QED BY <1>1, <1>2, <1>3 DEF Agreed, At

LEMMA OpenedIsOpen ==
    ASSUME Tables, NEW h \in Handlers, NEW p \in Payments, Holds(h, p)',
           FreshPayment(p), Opens(h) \/ Pays(h)
    PROVE  /\ payments'[p] = Absent
           /\ \E a \in asked' : a.payment = p /\ a.amount = work'[h].amount
           /\ Agreed(h)'
<1>1. CASE Opens(h)
    <2>1. PICK c \in Clients, q \in Quotes, r \in Payments : BeginCheckout(h, c, q, r)
        BY <1>1 DEF Opens
    <2>2. /\ work'[h].stage = "opened" /\ work'[h].quote = q /\ work'[h].payment = r
          /\ work'[h].amount = quotes[q].terms.total
        BY <2>1 DEF BeginCheckout, Start, Tables
    <2>3. /\ There(quotes[q]) /\ quotes' = quotes /\ payments' = payments /\ orders' = orders
          /\ [payment |-> r, amount |-> quotes[q].terms.total] \in asked'
        BY <2>1 DEF BeginCheckout, Owned, tables
    <2>4. p = r /\ payments'[p] = Absent
        BY <2>2, <2>3 DEF Holds, FreshPayment
    <2>5. Agreed(h)'
        BY <2>2, <2>3, RowsAreThere DEF Agreed, At
    <2> QED BY <2>2, <2>3, <2>4, <2>5
<1>2. CASE Pays(h)
    <2>1. PICK c \in Clients, o \in Orders, r \in Payments : BeginPayment(h, c, o, r)
        BY <1>2 DEF Pays
    <2>2. /\ work'[h].stage = "saving" /\ work'[h].order = o /\ work'[h].payment = r
          /\ work'[h].amount = orders[o].terms.total
        BY <2>1 DEF BeginPayment, Start, Tables, Payable
    <2>3. /\ There(orders[o]) /\ quotes' = quotes /\ payments' = payments /\ orders' = orders
          /\ [payment |-> r, amount |-> orders[o].terms.total] \in asked'
        BY <2>1 DEF BeginPayment, OrdersOf, tables, Payable
    <2>4. p = r /\ payments'[p] = Absent
        BY <2>2, <2>3 DEF Holds, FreshPayment
    <2>5. Agreed(h)'
        BY <2>2, <2>3 DEF Agreed, At
    <2> QED BY <2>2, <2>3, <2>4, <2>5
<1> QED BY <1>1, <1>2

LEMMA HeldStillOpen ==
    ASSUME Tables, JobsKnown, ReadsHold, HeldByOne, HeldIsOpen, [Next]_checkoutVars
    PROVE  HeldIsOpen'
<1> SUFFICES ASSUME NEW h \in Handlers, NEW p \in Payments, Holds(h, p)'
             PROVE  /\ payments'[p] = Absent
                    /\ \E a \in asked' : a.payment = p /\ a.amount = work'[h].amount
                    /\ Agreed(h)'
    BY DEF HeldIsOpen
<1>1. ASSUME Holds(h, p), work'[h] # Free, work'[h].amount = work[h].amount
      PROVE  /\ payments'[p] = Absent
             /\ \E a \in asked' : a.payment = p /\ a.amount = work'[h].amount
    <2>1. payments[p] = Absent /\ \E a \in asked : a.payment = p /\ a.amount = work[h].amount
        BY <1>1 DEF HeldIsOpen
    <2>2. asked \subseteq asked'
        BY AskedGrows
    <2>3. ASSUME NEW g \in Handlers, Holds(g, p), work'[g] = Free PROVE FALSE
        BY <1>1, <2>3 DEF HeldByOne
    <2>4. payments'[p] = payments[p]
        BY <2>3, PaymentsMove DEF PaymentMoves
    <2> QED BY <1>1, <2>1, <2>2, <2>4
<1>2. work'[h] # Free
    BY DEF Holds, At, Free
<1>3. CASE work'[h] = work[h] /\ Holds(h, p)
    BY <1>1, <1>2, <1>3, StillAgreed DEF HeldIsOpen
<1>4. CASE Reads(h) /\ At(h, "opened") /\ Holds(h, p) /\ work'[h].amount = work[h].amount
    <2>0. PICK c \in Clients, q \in Quotes, r \in Payments \cup {NoPayment} : \E amount :
            ReadQuote(h, c, q, r, amount) /\ (r # NoPayment => ContinueCheckout(h))
        BY <1>4 DEF Reads
    <2>1. PICK amount :
            ReadQuote(h, c, q, r, amount) /\ (r # NoPayment => ContinueCheckout(h))
        BY <2>0
    <2>2. /\ work'[h].stage = "inserting" /\ work'[h].payment = r /\ work'[h].quote = q
          /\ work'[h].terms = quotes[q].terms /\ There(quotes[q])
        BY <2>1 DEF ReadQuote, GoOn, Tables, Owned
    <2>3. p = r
        BY <2>2 DEF Holds
    <2>4. ContinueCheckout(h)
        BY <2>1, <2>3, CheckoutAssumption
    <2>5. work'[h].quote = work[h].quote
        BY <2>4 DEF ContinueCheckout, ReadQuote, GoOn, Tables
    <2>6. quotes[q].terms.total = work[h].amount
        BY <1>4, <2>2, <2>5 DEF HeldIsOpen, Agreed
    <2>7. Agreed(h)'
        BY <1>4, <2>2, <2>6 DEF Agreed, At
    <2> QED BY <1>1, <1>2, <1>4, <2>7
<1>5. CASE FreshPayment(p) /\ (Opens(h) \/ Pays(h))
    BY <1>5, OpenedIsOpen
<1> QED BY <1>3, <1>4, <1>5, HeldBefore

LEMMA OrdersKeepTerms ==
    ASSUME Tables, JobsKnown, ReadsHold, [Next]_checkoutVars, NEW o \in Orders, There(orders[o])
    PROVE  There(orders'[o]) /\ orders'[o].terms = orders[o].terms
<1>1. ASSUME NEW h \in Handlers, CommitOrder(h, o) PROVE FALSE
    BY <1>1, RowsAreThere DEF CommitOrder
<1> QED BY <1>1, OrdersMove DEF OrderMoves, Moves

LEMMA StillChargedAsAgreed ==
    ASSUME Tables, JobsKnown, ReadsHold, PaymentsKnown, AskedOnce, HeldIsOpen, ChargedAsAgreed,
           [Next]_checkoutVars
    PROVE  ChargedAsAgreed'
<1> DEFINE Good(p) ==
        /\ There(orders'[payments'[p].order])
        /\ payments'[p].gross = orders'[payments'[p].order].terms.total
        /\ \E a \in asked' : a.payment = p
        /\ \A a \in asked' : a.payment = p => a.amount = orders'[payments'[p].order].terms.total
<1> SUFFICES ASSUME NEW p \in Payments, There(payments'[p]) PROVE Good(p)
    BY DEF ChargedAsAgreed
<1>1. CASE payments'[p] = payments[p]
    <2>1. There(payments[p])
        BY <1>1
    <2>2. PICK o \in Orders : o = payments[p].order
        BY <2>1 DEF PaymentsKnown
    <2>3. /\ There(orders[o]) /\ payments[p].gross = orders[o].terms.total
          /\ \E a \in asked : a.payment = p
          /\ \A a \in asked : a.payment = p => a.amount = orders[o].terms.total
        BY <2>1, <2>2 DEF ChargedAsAgreed
    <2>4. There(orders'[o]) /\ orders'[o].terms = orders[o].terms
        BY <2>3, OrdersKeepTerms
    <2>5. asked \subseteq asked' /\ \A a \in asked' : a.payment = p => a \in asked
        BY <2>3, AskedGrows
    <2> QED BY <1>1, <2>2, <2>3, <2>4, <2>5
<1>2. ASSUME NEW h \in Handlers, Holds(h, p), payments'[p].gross = work[h].amount, asked' = asked,
             NEW o \in Orders, payments'[p].order = o,
             There(orders'[o]), orders'[o].terms.total = work[h].amount
      PROVE  Good(p)
    <2>1. PICK a \in asked : a.payment = p /\ a.amount = work[h].amount
        BY <1>2 DEF HeldIsOpen
    <2>2. \A b \in asked : b.payment = p => b.amount = work[h].amount
        BY <2>1 DEF AskedOnce
    <2> QED BY <1>2, <2>1, <2>2
<1>3. ASSUME NEW h \in Handlers, Holds(h, p), payments'[p].gross = work[h].amount,
             NEW o \in Orders, CommitOrder(h, o), payments'[p].order = o
      PROVE  Good(p)
    <2>1. At(h, "inserting") /\ There(orders'[o]) /\ orders'[o].terms = work[h].terms
        BY <1>3, CommitFacts
    <2>2. work[h].terms.total = work[h].amount
        BY <1>3, <2>1 DEF HeldIsOpen, Agreed
    <2>3. asked' = asked
        BY <1>3 DEF CommitOrder
    <2> QED BY <1>2, <1>3, <2>1, <2>2, <2>3
<1>4. ASSUME NEW h \in Handlers, Holds(h, p), payments'[p].gross = work[h].amount,
             SavePayment(h), payments'[p].order = work[h].order
      PROVE  Good(p)
    <2>1. At(h, "saving") /\ work[h].order \in Orders /\ asked' = asked
        BY <1>4 DEF SavePayment, JobsKnown
    <2>2. There(orders[work[h].order]) /\ orders[work[h].order].terms.total = work[h].amount
        BY <1>4, <2>1 DEF HeldIsOpen, Agreed
    <2>3. There(orders'[work[h].order]) /\ orders'[work[h].order].terms = orders[work[h].order].terms
        BY <2>1, <2>2, OrdersKeepTerms
    <2> QED BY <1>2, <1>4, <2>1, <2>2, <2>3
<1> QED BY <1>1, <1>3, <1>4, PaymentsMove DEF PaymentMoves

LEMMA InitMoney == Init => MoneyInv
<1> SUFFICES ASSUME Init PROVE MoneyInv
    OBVIOUS
<1>1. PaymentsKnown /\ ChargedAsAgreed
    BY NothingAtFirst, RowsAreThere DEF PaymentsKnown, ChargedAsAgreed
<1>2. AskedOnce /\ HeldByOne /\ HeldIsOpen
    BY NothingAtFirst DEF AskedOnce, HeldByOne, HeldIsOpen, Holds, At
<1> QED BY <1>1, <1>2, InitInv DEF MoneyInv

LEMMA NextMoney == MoneyInv /\ [Next]_checkoutVars => MoneyInv'
    BY NextInv, PaymentsStayKnown, AskedStillOnce, StillHeldByOne, HeldStillOpen, StillChargedAsAgreed
    DEF MoneyInv, Inv

LEMMA MoneyInvariance == Spec => []MoneyInv
    BY InitMoney, NextMoney, PTL DEF Spec

(* What Mercado Pago charges is what the order costs, although the         *)
(* checkout is opened before anything is stored: the quote it was priced   *)
(* from cannot change meanwhile, only disappear or be used.                *)
THEOREM ChargesAreAgreed == Spec => []ChargedAsAgreed
<1>1. MoneyInv => ChargedAsAgreed
    BY DEF MoneyInv
<1> QED BY <1>1, MoneyInvariance, PTL

-------------------------------------------------------------------------------
\* An order somebody makes a payment for has none, unless two did.
PayersComeFirst ==
    \A h \in Handlers : \A o \in Orders \ doubled : PaysFor(h, o) => PaymentsOf(o) = {}
AtMostOnePayment ==
    \A o \in Orders \ doubled : \A p, r \in PaymentsOf(o) : p = r

OnceInv == MoneyInv /\ PayersComeFirst /\ AtMostOnePayment

LEMMA DoubledGrows == ASSUME [Next]_checkoutVars PROVE doubled \subseteq doubled'
<1>1. ASSUME \/ \E q \in Quotes : Expire(q)
             \/ \E o \in Orders : Pay(o) \/ Cancel(o)
             \/ \E h \in Handlers :
                 \/ Cleanup(h) \/ SavePayment(h)
                 \/ \E q \in Quotes : SaveQuote(h, q)
                 \/ \E o \in Orders : CommitOrder(h, o)
      PROVE  doubled \subseteq doubled'
    BY <1>1 DEF Expire, Pay, Cancel, MoveOrder, Cleanup, SavePayment, SaveQuote, CommitOrder, ghosts
<1> QED BY <1>1, Steps

\* The payments of an order do not change unless one is made for it.
LEMMA PaymentsOfMove ==
    ASSUME Tables, [Next]_checkoutVars, HeldIsOpen, NEW o \in Orders,
           \A h \in Handlers : ~CommitOrder(h, o) /\ ~(SavePayment(h) /\ work[h].order = o)
    PROVE  PaymentsOf(o)' = PaymentsOf(o)
<1>1. ASSUME NEW p \in Payments
      PROVE  There(payments'[p]) /\ payments'[p].order = o <=> There(payments[p]) /\ payments[p].order = o
    <2>1. CASE payments'[p] = payments[p]
        BY <2>1
    <2>2. ASSUME NEW h \in Handlers, Holds(h, p), NEW r \in Orders, CommitOrder(h, r), payments'[p].order = r
          PROVE  payments'[p].order # o /\ ~There(payments[p])
        BY <2>2, RowsAreThere DEF HeldIsOpen
    <2>3. ASSUME NEW h \in Handlers, Holds(h, p), SavePayment(h), payments'[p].order = work[h].order
          PROVE  payments'[p].order # o /\ ~There(payments[p])
        BY <2>3, RowsAreThere DEF HeldIsOpen
    <2> QED BY <2>1, <2>2, <2>3, PaymentsMove DEF PaymentMoves
<1> QED BY <1>1 DEF PaymentsOf

LEMMA PayersStillComeFirst ==
    ASSUME OnceInv, [Next]_checkoutVars
    PROVE  PayersComeFirst'
<1> SUFFICES ASSUME NEW h \in Handlers, NEW o \in Orders, o \notin doubled', PaysFor(h, o)'
             PROVE  PaymentsOf(o)' = {}
    BY DEF PayersComeFirst
<1>1. /\ Tables /\ JobsKnown /\ HeldIsOpen /\ PayersComeFirst /\ o \notin doubled
    BY DoubledGrows DEF OnceInv, MoneyInv, Inv
<1>2. work'[h].stage = "saving" /\ work'[h].order = o
    BY DEF PaysFor, At
<1>3. CASE work'[h] = work[h]
    <2>1. PaysFor(h, o) /\ At(h, "saving")
        BY <1>2, <1>3 DEF PaysFor, At
    <2>2. PaymentsOf(o) = {}
        BY <1>1, <2>1 DEF PayersComeFirst
    <2>3. There(orders[o])
        <3>1. work[h].payment \in Payments /\ Holds(h, work[h].payment) /\ work[h].order = o
            BY <1>1, <2>1 DEF JobsKnown, Holds, PaysFor
        <3> QED BY <1>1, <2>1, <3>1 DEF HeldIsOpen, Agreed
    <2>4. ASSUME NEW g \in Handlers, CommitOrder(g, o) PROVE FALSE
        BY <2>3, <2>4, RowsAreThere DEF CommitOrder
    <2>5. ASSUME NEW g \in Handlers, SavePayment(g), work[g].order = o PROVE FALSE
        <3>1. CASE g = h
            <4>1. work'[h].stage = "idle"
                BY <1>1, <2>5, <3>1, WorkEnds DEF SavePayment
            <4> QED BY <1>2, <4>1
        <3>2. CASE g # h
            BY <2>1, <2>5, <3>2 DEF SavePayment
        <3> QED BY <3>1, <3>2
    <2> QED BY <1>1, <2>2, <2>4, <2>5, PaymentsOfMove
<1>4. CASE Pays(h)
    <2>1. PICK c \in Clients, r \in Orders, p \in Payments : BeginPayment(h, c, r, p)
        BY <1>4 DEF Pays
    <2>2. work'[h].order = r /\ PaymentsOf(r) = {} /\ payments' = payments
        BY <1>1, <2>1 DEF BeginPayment, Start, Tables, HasNoPayment, tables
    <2> QED BY <1>2, <2>2 DEF PaymentsOf
<1>5. ASSUME Opens(h) \/ Reads(h) PROVE work'[h].stage \in {"opened", "inserting"}
    BY <1>1, <1>5 DEF Opens, Reads, BeginCheckout, ReadQuote, Start, GoOn, Tables
<1> QED BY <1>1, <1>2, <1>3, <1>4, <1>5, WorkMove DEF WorkMoves

LEMMA StillAtMostOnePayment ==
    ASSUME OnceInv, [Next]_checkoutVars
    PROVE  AtMostOnePayment'
<1> SUFFICES ASSUME NEW o \in Orders, o \notin doubled', NEW p \in PaymentsOf(o)', NEW r \in PaymentsOf(o)'
             PROVE  p = r
    BY DEF AtMostOnePayment
<1>1. /\ Tables /\ JobsKnown /\ HeldIsOpen /\ ChargedAsAgreed
      /\ PayersComeFirst /\ AtMostOnePayment /\ o \notin doubled
    BY DoubledGrows DEF OnceInv, MoneyInv, Inv
<1>2. CASE \A h \in Handlers : ~CommitOrder(h, o) /\ ~(SavePayment(h) /\ work[h].order = o)
    BY <1>1, <1>2, PaymentsOfMove DEF AtMostOnePayment
<1>3. ASSUME PaymentsOf(o) = {}, NEW x \in PaymentsOf(o)'
      PROVE  \E h \in Handlers : Holds(h, x) /\ work'[h] # work[h]
    <2>1. x \in Payments /\ There(payments'[x]) /\ payments'[x].order = o
        BY <1>3 DEF PaymentsOf
    <2>2. payments'[x] # payments[x]
        BY <1>3, <2>1 DEF PaymentsOf
    <2>3. PICK h \in Handlers : Holds(h, x) /\ work'[h] = Free
        BY <1>1, <2>1, <2>2, PaymentsMove DEF PaymentMoves
    <2> QED BY <2>3 DEF Holds, At, Free
<1>4. CASE PaymentsOf(o) = {}
    <2>1. PICK g \in Handlers : Holds(g, p) /\ work'[g] # work[g]
        BY <1>3, <1>4
    <2>2. PICK h \in Handlers : Holds(h, r) /\ work'[h] # work[h]
        BY <1>3, <1>4
    <2>3. g = h
        BY <1>1, <2>1, <2>2, OneMover
    <2> QED BY <2>1, <2>2, <2>3 DEF Holds
<1>5. ASSUME NEW h \in Handlers, CommitOrder(h, o) PROVE PaymentsOf(o) = {}
    BY <1>1, <1>5, RowsAreThere DEF CommitOrder, PaymentsOf, ChargedAsAgreed
<1>6. ASSUME NEW h \in Handlers, SavePayment(h), work[h].order = o PROVE PaymentsOf(o) = {}
    <2>1. PaysFor(h, o)
        BY <1>6 DEF SavePayment, PaysFor
    <2> QED BY <1>1, <2>1 DEF PayersComeFirst
<1> QED BY <1>2, <1>4, <1>5, <1>6

LEMMA OnceInvariance == Spec => []OnceInv
<1>1. Init => OnceInv
    BY InitMoney, NothingAtFirst, RowsAreThere
    DEF OnceInv, PayersComeFirst, AtMostOnePayment, PaysFor, At, PaymentsOf
<1>2. OnceInv /\ [Next]_checkoutVars => OnceInv'
    BY NextMoney, PayersStillComeFirst, StillAtMostOnePayment DEF OnceInv
<1> QED BY <1>1, <1>2, PTL DEF Spec

(* An order has one payment, unless two handlers made one for it at once:  *)
(* the overlap the property names is the only way to a second payment.     *)
THEOREM SecondPaymentsOverlap == Spec => []OnePaymentUnlessDoubled
<1>1. OnceInv => OnePaymentUnlessDoubled
    <2> SUFFICES ASSUME OnceInv, NEW o \in Orders \ doubled PROVE Cardinality(PaymentsOf(o)) <= 1
        BY DEF OnePaymentUnlessDoubled
    <2>1. CASE PaymentsOf(o) = {}
        BY <2>1, FS_EmptySet
    <2>2. CASE PaymentsOf(o) # {}
        <3>1. PICK p \in PaymentsOf(o) : TRUE
            BY <2>2
        <3>2. PaymentsOf(o) = {p}
            BY <3>1 DEF OnceInv, AtMostOnePayment
        <3> QED BY <3>2, FS_Singleton
    <2> QED BY <2>1, <2>2
<1> QED BY <1>1, OnceInvariance, PTL

-------------------------------------------------------------------------------
(***************************************************************************)
(* The limit of a coupon.  A grant is a quote being made, a quote that is  *)
(* not used, or an order that is not paid: of a coupon that is not crowded *)
(* there is one at most, it changes from each of these to the next, and    *)
(* while there is one the limit is not reached.                            *)
(***************************************************************************)
Quoting(h, k) == At(h, "quoting") /\ work[h].terms.coupon = k
Quoted(q, k) == There(quotes[q]) /\ quotes[q].terms.coupon = k /\ quotes[q].order = NoOrder
Ordered(o, k) == There(orders[o]) /\ orders[o].terms.coupon = k /\ orders[o].status = "awaiting_payment"
Paid(k) == OrdersWith(k, "paid")

OneGrant(k) ==
    /\ \A h \in Handlers, q \in Quotes : ~(Quoting(h, k) /\ Quoted(q, k))
    /\ \A h \in Handlers, o \in Orders : ~(Quoting(h, k) /\ Ordered(o, k))
    /\ \A q \in Quotes, o \in Orders : ~(Quoted(q, k) /\ Ordered(o, k))
    /\ \A g, h \in Handlers : Quoting(g, k) /\ Quoting(h, k) => g = h
    /\ \A q, r \in Quotes : Quoted(q, k) /\ Quoted(r, k) => q = r
    /\ \A o, r \in Orders : Ordered(o, k) /\ Ordered(r, k) => o = r

Granted(k) ==
    \/ \E h \in Handlers : Quoting(h, k)
    \/ \E q \in Quotes : Quoted(q, k)
    \/ \E o \in Orders : Ordered(o, k)

WithinLimit(k) ==
    /\ OneGrant(k)
    /\ IsFiniteSet(Paid(k))
    /\ Cardinality(Paid(k)) <= Limit[k]
    /\ Granted(k) => Cardinality(Paid(k)) < Limit[k]

LimitInv == Inv /\ \A k \in Coupons \ crowded : WithinLimit(k)

\* No step but BeginQuote makes a handler quote.
LEMMA QuotersStay ==
    ASSUME Tables, [Next]_checkoutVars, NEW g \in Handlers, work'[g].stage = "quoting",
           \A h \in Handlers, c \in Clients, request \in ClimbRequests, k \in Coupons \cup {NoCoupon} :
                ~BeginQuote(h, c, request, k)
    PROVE  work'[g] = work[g]
<1>1. ASSUME NEW h \in Handlers, NEW c, NEW x, NEW y,
             \/ BeginCleanup(h) \/ Cleanup(h) \/ ContinueCheckout(h) \/ SavePayment(h) \/ Abort(h)
             \/ SaveQuote(h, x) \/ CommitOrder(h, x)
             \/ BeginOrder(h, c, x) \/ BeginCheckout(h, c, x, y) \/ BeginPayment(h, c, x, y)
      PROVE  \E job : GoOn(h, job) /\ job.stage # "quoting"
    BY <1>1 DEF BeginCleanup, Cleanup, ContinueCheckout, SavePayment, Abort, SaveQuote, CommitOrder,
       BeginOrder, BeginCheckout, BeginPayment, ReadQuote, Start, End, GoOn, Free
<1>3. ASSUME NEW h \in Handlers, NEW job, GoOn(h, job), job.stage # "quoting" PROVE work'[g] = work[g]
    BY <1>3 DEF GoOn, Tables
<1>4. ASSUME NEW x, UNCHANGED checkoutVars \/ ChangePrices \/ Expire(x) \/ Pay(x) \/ Cancel(x)
      PROVE  UNCHANGED work
    BY <1>4 DEF checkoutVars, ChangePrices, Expire, Pay, Cancel, MoveOrder
<1> QED BY <1>1, <1>3, <1>4 DEF Next

LEMMA CrowdedGrows == ASSUME [Next]_checkoutVars PROVE crowded \subseteq crowded'
<1>1. ASSUME NEW h, NEW c, NEW x, NEW y,
             \/ BeginCleanup(h) \/ Cleanup(h) \/ ContinueCheckout(h) \/ SavePayment(h) \/ Abort(h)
             \/ SaveQuote(h, x) \/ CommitOrder(h, x)
             \/ BeginOrder(h, c, x) \/ BeginCheckout(h, c, x, y) \/ BeginPayment(h, c, x, y)
      PROVE  crowded' = crowded
    BY <1>1 DEF BeginCleanup, Cleanup, ContinueCheckout, SavePayment, Abort, SaveQuote, CommitOrder,
       BeginOrder, BeginCheckout, BeginPayment, ReadQuote, ghosts
<1>2. ASSUME NEW h, NEW c, NEW x, NEW y, BeginQuote(h, c, x, y) PROVE crowded \subseteq crowded'
    BY <1>2 DEF BeginQuote
<1>3. ASSUME NEW x, UNCHANGED checkoutVars \/ ChangePrices \/ Expire(x) \/ Pay(x) \/ Cancel(x)
      PROVE  crowded' = crowded
    BY <1>3 DEF checkoutVars, ChangePrices, Expire, Pay, Cancel, MoveOrder, ghosts
<1> QED BY <1>1, <1>2, <1>3 DEF Next

\* Grants end, and orders that were paid are cancelled.
LEMMA FewerGrants ==
    ASSUME NEW k, WithinLimit(k), Limit[k] \in Nat,
           \A h \in Handlers : Quoting(h, k)' => Quoting(h, k),
           \A q \in Quotes : Quoted(q, k)' => Quoted(q, k),
           \A o \in Orders : Ordered(o, k)' => Ordered(o, k),
           Paid(k)' \subseteq Paid(k)
    PROVE  WithinLimit(k)'
<1>1. OneGrant(k)'
    BY DEF WithinLimit, OneGrant
<1>2. Granted(k)' => Granted(k)
    BY DEF Granted
<1>3. IsFiniteSet(Paid(k)') /\ Cardinality(Paid(k)') <= Cardinality(Paid(k))
    BY FS_Subset DEF WithinLimit
<1>4. Cardinality(Paid(k)) \in Nat /\ Cardinality(Paid(k)') \in Nat
    BY <1>3, FS_CardinalityType DEF WithinLimit
<1>5. Cardinality(Paid(k)') <= Limit[k] /\ (Granted(k)' => Cardinality(Paid(k)') < Limit[k])
    BY <1>2, <1>3, <1>4 DEF WithinLimit
<1> QED BY <1>1, <1>3, <1>5 DEF WithinLimit

\* A grant changes from one kind to the next.
LEMMA GrantMoves ==
    ASSUME NEW k, WithinLimit(k), Granted(k), Paid(k)' = Paid(k), OneGrant(k)'
    PROVE  WithinLimit(k)'
    BY DEF WithinLimit

LEMMA QuoteGrants ==
    ASSUME Tables, NEW h \in Handlers, NEW c, NEW request, NEW j, BeginQuote(h, c, request, j),
           NEW k \in Coupons \ crowded', WithinLimit(k)
    PROVE  WithinLimit(k)'
<1>1. /\ quotes' = quotes /\ orders' = orders /\ Paid(k)' = Paid(k)
      /\ \A q \in Quotes : Quoted(q, k)' <=> Quoted(q, k)
      /\ \A o \in Orders : Ordered(o, k)' <=> Ordered(o, k)
    BY DEF BeginQuote, tables, Paid, OrdersWith, Quoted, Ordered
<1>2. /\ work[h] = Free /\ work'[h].stage = "quoting" /\ work'[h].terms.coupon = j
      /\ \A g \in Handlers : g # h => work'[g] = work[g]
    BY DEF BeginQuote, Start, Tables, Terms
<1>3. ~Quoting(h, k) /\ \A g \in Handlers : g # h => (Quoting(g, k)' <=> Quoting(g, k))
    BY <1>2 DEF Quoting, At, Free
<1>4. WithinLimit(k) /\ Limit[k] \in Nat
    BY CheckoutAssumption DEF BeginQuote
<1>5. CASE j # k
    <2>1. ~Quoting(h, k)'
        BY <1>2, <1>5 DEF Quoting
    <2> QED BY <1>1, <1>3, <1>4, <2>1, FewerGrants
<1>6. CASE j = k
    <2>1. ~Outstanding(h, k)
        BY <1>6, CheckoutAssumption DEF BeginQuote
    <2>2. /\ \A q \in Quotes : ~Quoted(q, k)
          /\ \A o \in Orders : ~Ordered(o, k)
          /\ \A g \in Handlers : g # h => ~Quoting(g, k)
        BY <2>1 DEF Outstanding, Quoted, Ordered, Quoting, OrdersWith
    <2>3. OneGrant(k)'
        BY <1>1, <1>3, <2>2 DEF OneGrant
    <2>4. Cardinality(Paid(k)) < Limit[k]
        BY <1>6, CheckoutAssumption DEF BeginQuote, MayGrant, Paid
    <2> QED BY <1>1, <1>4, <2>3, <2>4 DEF WithinLimit
<1> QED BY <1>5, <1>6

LEMMA SaveGrants ==
    ASSUME Tables, NEW h \in Handlers, NEW q \in Quotes, SaveQuote(h, q),
           NEW k \in Coupons, WithinLimit(k)
    PROVE  WithinLimit(k)'
<1>1. /\ orders' = orders /\ Paid(k)' = Paid(k)
      /\ \A o \in Orders : Ordered(o, k)' <=> Ordered(o, k)
    BY DEF SaveQuote, Paid, OrdersWith, Ordered
<1>2. /\ work'[h] = Free /\ At(h, "quoting")
      /\ \A g \in Handlers : g # h => work'[g] = work[g]
    BY WorkEnds, WorkStays DEF SaveQuote
<1>3. ~Quoting(h, k)' /\ \A g \in Handlers : g # h => (Quoting(g, k)' <=> Quoting(g, k))
    BY <1>2 DEF Quoting, At, Free
<1>4. /\ \A r \in Quotes : r # q => (Quoted(r, k)' <=> Quoted(r, k))
      /\ quotes'[q].terms = work[h].terms
    BY DEF SaveQuote, Tables, Quoted
<1>5. CASE work[h].terms.coupon = k
    <2>1. Quoting(h, k)
        BY <1>2, <1>5 DEF Quoting
    <2>2. OneGrant(k)'
        BY <1>1, <1>3, <1>4, <2>1 DEF WithinLimit, OneGrant
    <2> QED BY <1>1, <2>1, <2>2, GrantMoves DEF Granted
<1>6. CASE work[h].terms.coupon # k
    <2>1. ~Quoted(q, k)'
        BY <1>4, <1>6 DEF Quoted
    <2> QED BY <1>1, <1>3, <1>4, <2>1, FewerGrants, CheckoutAssumption
<1> QED BY <1>5, <1>6

LEMMA CommitGrants ==
    ASSUME Tables, JobsKnown, ReadsHold, NEW h \in Handlers, NEW o \in Orders, CommitOrder(h, o),
           NEW k \in Coupons, WithinLimit(k)
    PROVE  WithinLimit(k)'
<1>1. PICK q \in Quotes : /\ q = work[h].quote /\ Unused(q) /\ quotes[q].terms = work[h].terms
                          /\ quotes'[q].order = o
                          /\ \A r \in Quotes : r # q => quotes'[r] = quotes[r]
    BY CommitFacts
<1>2. /\ orders[o] = Absent /\ orders'[o].terms = work[h].terms
      /\ orders'[o].status = "awaiting_payment"
      /\ \A r \in Orders : r # o => orders'[r] = orders[r]
    BY CommitFacts
<1>3. work'[h] = Free /\ At(h, "inserting") /\ \A g \in Handlers : g # h => work'[g] = work[g]
    BY CommitFacts, WorkStays DEF CommitOrder
<1>4. \A g \in Handlers : Quoting(g, k)' => Quoting(g, k)
    BY <1>3 DEF Quoting, At, Free
<1>5. ~Quoted(q, k)' /\ \A r \in Quotes : r # q => (Quoted(r, k)' <=> Quoted(r, k))
    BY <1>1, CheckoutAssumption DEF Quoted
<1>6. \A r \in Orders : r # o => (Ordered(r, k)' <=> Ordered(r, k))
    BY <1>2 DEF Ordered
<1>7. Paid(k)' = Paid(k)
    <2>1. \A r \in Orders : There(orders'[r]) /\ orders'[r].terms.coupon = k /\ orders'[r].status = "paid"
            <=> There(orders[r]) /\ orders[r].terms.coupon = k /\ orders[r].status = "paid"
        BY <1>2, RowsAreThere
    <2> QED BY <2>1 DEF Paid, OrdersWith
<1>8. CASE work[h].terms.coupon = k
    <2>1. Quoted(q, k)
        BY <1>1, <1>8 DEF Quoted, Unused
    <2>2. OneGrant(k)'
        BY <1>4, <1>5, <1>6, <2>1 DEF WithinLimit, OneGrant
    <2> QED BY <1>7, <2>1, <2>2, GrantMoves DEF Granted
<1>9. CASE work[h].terms.coupon # k
    <2>1. ~Ordered(o, k)'
        BY <1>2, <1>9 DEF Ordered
    <2> QED BY <1>4, <1>5, <1>6, <1>7, <2>1, FewerGrants, CheckoutAssumption
<1> QED BY <1>8, <1>9

LEMMA PayGrants ==
    ASSUME Tables, NEW o \in Orders, Pay(o), NEW k \in Coupons, WithinLimit(k)
    PROVE  WithinLimit(k)'
<1>1. /\ There(orders[o]) /\ orders[o].status = "awaiting_payment"
      /\ quotes' = quotes /\ work' = work
      /\ \A r \in Orders : r # o => orders'[r] = orders[r]
    BY DEF Pay, MoveOrder, Tables
<1>2. orders'[o].status = "paid" /\ orders'[o].terms = orders[o].terms
    <2>1. orders[o] = OrderRow(orders[o].quote, orders[o].terms, orders[o].status)
        BY <1>1 DEF Tables
    <2>2. orders'[o] = OrderRow(orders[o].quote, orders[o].terms, "paid")
        BY <1>1, <2>1 DEF Pay, MoveOrder, Tables, OrderRow
    <2> QED BY <2>2, RowFields
<1>3. /\ \A h \in Handlers : Quoting(h, k)' => Quoting(h, k)
      /\ \A q \in Quotes : Quoted(q, k)' => Quoted(q, k)
      /\ \A r \in Orders : Ordered(r, k)' => Ordered(r, k) /\ r # o
    BY <1>1, <1>2 DEF Quoting, Quoted, Ordered, At
<1>4. CASE orders[o].terms.coupon = k
    <2>1. Ordered(o, k)
        BY <1>1, <1>4 DEF Ordered
    <2>2. OneGrant(k)' /\ ~Granted(k)'
        BY <1>3, <2>1 DEF WithinLimit, OneGrant, Granted
    <2>3. IsFiniteSet(Paid(k) \cup {o}) /\ Cardinality(Paid(k) \cup {o}) <= Cardinality(Paid(k)) + 1
        <3>1. IsFiniteSet(Paid(k)) /\ Cardinality(Paid(k)) \in Nat
            BY FS_CardinalityType DEF WithinLimit
        <3> QED BY <3>1, FS_AddElement
    <2>4. Paid(k)' \subseteq Paid(k) \cup {o}
        BY <1>1 DEF Paid, OrdersWith
    <2>5. IsFiniteSet(Paid(k)') /\ Cardinality(Paid(k)') <= Cardinality(Paid(k) \cup {o})
        BY <2>3, <2>4, FS_Subset
    <2>6. Cardinality(Paid(k)) < Limit[k]
        BY <2>1 DEF WithinLimit, Granted
    <2>7. /\ Cardinality(Paid(k)) \in Nat /\ Cardinality(Paid(k)') \in Nat
          /\ Cardinality(Paid(k) \cup {o}) \in Nat /\ Limit[k] \in Nat
        BY <2>3, <2>5, FS_CardinalityType, CheckoutAssumption DEF WithinLimit
    <2>8. Cardinality(Paid(k)') <= Limit[k]
        BY <2>3, <2>5, <2>6, <2>7
    <2> QED BY <2>2, <2>5, <2>8 DEF WithinLimit
<1>5. CASE orders[o].terms.coupon # k
    <2>1. Paid(k)' \subseteq Paid(k)
        BY <1>1, <1>2, <1>5 DEF Paid, OrdersWith
    <2> QED BY <1>3, <2>1, FewerGrants, CheckoutAssumption
<1> QED BY <1>4, <1>5

LEMMA OthersGrantNothing ==
    ASSUME Inv, [Next]_checkoutVars, NEW k \in Coupons, WithinLimit(k),
           \A h \in Handlers : \A c, request, j : ~BeginQuote(h, c, request, j),
           \A h \in Handlers, q \in Quotes : ~SaveQuote(h, q),
           \A h \in Handlers, o \in Orders : ~CommitOrder(h, o),
           \A o \in Orders : ~Pay(o)
    PROVE  WithinLimit(k)'
<1>1. Tables /\ JobsKnown /\ ReadsHold
    BY DEF Inv
<1>2. ASSUME NEW h \in Handlers, Quoting(h, k)' PROVE Quoting(h, k)
    BY <1>1, <1>2, QuotersStay DEF Quoting, At
<1>3. ASSUME NEW q \in Quotes, Quoted(q, k)' PROVE Quoted(q, k)
    <2>1. CASE UNCHANGED quotes
        BY <1>3, <2>1 DEF Quoted
    <2>2. CASE \/ \E r \in Quotes : Expire(r)
               \/ \E h \in Handlers : Cleanup(h)
        <3>1. ~(quotes[q] = Absent /\ There(quotes'[q]))
            BY <1>1, <2>2, RowsAreThere DEF Expire, Unused, Cleanup, DeletedQuotes, Tables
        <3> QED BY <1>1, <1>3, <3>1, QuotesMove, RowsAreThere DEF QuoteMoves, Quoted
    <2>3. ASSUME \/ \E o \in Orders : Cancel(o)
                 \/ \E h \in Handlers : SavePayment(h)
          PROVE  UNCHANGED quotes
        BY <2>3 DEF Cancel, MoveOrder, SavePayment
    <2> QED BY <2>1, <2>2, <2>3, Steps
<1>4. ASSUME NEW o \in Orders, orders'[o] # orders[o] PROVE There(orders'[o]) /\ orders'[o].status = "cancelled"
    <2>1. Moves(orders[o], orders'[o])
        BY <1>1, <1>4, OrdersMove DEF OrderMoves
    <2>2. PICK r \in Orders : Cancel(r)
        <3>1. ASSUME \/ \E q \in Quotes : Expire(q)
                     \/ \E h \in Handlers : Cleanup(h) \/ SavePayment(h)
              PROVE  UNCHANGED orders
            BY <3>1 DEF Expire, Cleanup, SavePayment
        <3> QED BY <1>4, <3>1, Steps
    <2>3. r = o /\ There(orders[o])
        BY <1>1, <1>4, <2>1, <2>2 DEF Cancel, MoveOrder, Tables, Moves
    <2>4. orders[o] = OrderRow(orders[o].quote, orders[o].terms, orders[o].status)
        BY <1>1, <2>3 DEF Tables
    <2>5. orders'[o] = OrderRow(orders[o].quote, orders[o].terms, "cancelled")
        BY <1>1, <2>2, <2>3, <2>4 DEF Cancel, MoveOrder, Tables, OrderRow
    <2> QED BY <2>1, <2>5, RowFields DEF Moves
<1>5. /\ \A o \in Orders : Ordered(o, k)' => Ordered(o, k)
      /\ Paid(k)' \subseteq Paid(k)
    BY <1>4 DEF Ordered, Paid, OrdersWith
<1> QED BY <1>2, <1>3, <1>5, FewerGrants, CheckoutAssumption

LEMMA LimitInvariance == Spec => []LimitInv
<1>1. Init => LimitInv
    <2> SUFFICES ASSUME Init, NEW k \in Coupons PROVE WithinLimit(k)
        BY InitInv DEF LimitInv
    <2>1. ~Granted(k) /\ OneGrant(k) /\ Paid(k) = {}
        BY NothingAtFirst, RowsAreThere DEF Granted, OneGrant, Paid, OrdersWith, Quoting, Quoted, Ordered, At
    <2> QED BY <2>1, FS_EmptySet, CheckoutAssumption DEF WithinLimit
<1>2. LimitInv /\ [Next]_checkoutVars => LimitInv'
    <2> SUFFICES ASSUME LimitInv, [Next]_checkoutVars, NEW k \in Coupons \ crowded'
                 PROVE  WithinLimit(k)'
        BY NextInv DEF LimitInv
    <2>1. WithinLimit(k) /\ Inv /\ Tables /\ JobsKnown /\ ReadsHold
        BY CrowdedGrows DEF LimitInv, Inv
    <2>2. ASSUME NEW h \in Handlers, NEW c, NEW request, NEW j, BeginQuote(h, c, request, j)
          PROVE  WithinLimit(k)'
        BY <2>1, <2>2, QuoteGrants, CrowdedGrows
    <2> QED BY <2>1, <2>2, SaveGrants, CommitGrants, PayGrants, OthersGrantNothing
<1> QED BY <1>1, <1>2, PTL DEF Spec

(* No more orders are paid with a coupon than its limit says, unless it    *)
(* was granted while another grant was outstanding: nothing but such a     *)
(* grant makes the check at the quote differ from a check at the payment.  *)
THEOREM OnlyCrowdsExceedLimits == Spec => []LimitHoldsUnlessCrowded
<1>1. LimitInv => LimitHoldsUnlessCrowded
    BY DEF LimitInv, WithinLimit, Paid, LimitHoldsUnlessCrowded
<1> QED BY <1>1, LimitInvariance, PTL

-------------------------------------------------------------------------------
(***************************************************************************)
(* What the prices are: whole cents, and a coupon leaves the minimum.      *)
(***************************************************************************)
LEMMA PercentageType ==
    ASSUME NEW cents \in Int, NEW part \in Nat, NEW whole, whole = 100 \/ whole = 10000
    PROVE  /\ Percentage(cents, part, whole) \in Int
           /\ cents >= 0 => Percentage(cents, part, whole) \in Nat
<1> DEFINE product == 2 * Magnitude(cents) * part
           rounded == (product + whole) \div (2 * whole)
<1>1. product \in Nat
    <2>1. 2 * Magnitude(cents) \in Nat
        BY DEF Magnitude
    <2>2. \A a, b \in Nat : a * b \in Nat
        OBVIOUS
    <2> QED BY <2>1, <2>2
<1> HIDE DEF product
<1>2. rounded \in Nat
    BY <1>1
<1>3. Percentage(cents, part, whole) = IF cents < 0 THEN -rounded ELSE rounded
    BY DEF Percentage, product
<1> HIDE DEF rounded
<1> QED BY <1>2, <1>3

LEMMA CumulativeType ==
    ASSUME NEW D \in SUBSET Ranks, NEW steps \in [D -> Nat], NEW rank
    PROVE  CumulativeValue(steps, rank) \in Nat
<1> DEFINE S == {k \in DOMAIN steps : k < rank}
<1>1. IsFiniteSet(S) /\ \A k \in S : steps[k] \in Nat
    <2>1. IsFiniteSet(Ranks)
        BY PriceAssumption, FS_Interval DEF Ranks
    <2>2. S \subseteq D /\ D \subseteq Ranks
        OBVIOUS
    <2> QED BY <2>1, <2>2, FS_Subset
<1>2. CumulativeValue(steps, rank) = SumOf(steps, S)
    BY DEF CumulativeValue, SumOf
<1> HIDE DEF S
<1> QED BY <1>1, <1>2, SumType

LEMMA BaseType ==
    ASSUME NEW list, NEW request,
           NEW D \in SUBSET Ranks, list.steps[request.service] \in [D -> Nat],
           request.from \in D, request.points \in Nat, request.target \in Nat
    PROVE  BaseSubtotal(list, request) \in Int
<1> DEFINE steps == list.steps[request.service]
<1>1. steps \in [D -> Nat] /\ DOMAIN steps = D
    OBVIOUS
<1>2. BaseSubtotal(list, request) = TargetValue(steps, request.to, request.target)
                                    - ValueAt(steps, request.from, request.points)
    BY DEF BaseSubtotal
<1> HIDE DEF steps
<1>3. ASSUME NEW rank \in D, NEW points \in Nat PROVE ValueAt(steps, rank, points) \in Int
    <2>1. steps[rank] \in Int
        BY <1>1
    <2>2. Percentage(steps[rank], points, 100) \in Int
        <3> DEFINE price == steps[rank]
        <3> HIDE DEF price
        <3>1. price \in Int
            BY <2>1 DEF price
        <3>2. Percentage(price, points, 100) \in Int
            BY <3>1, PercentageType
        <3> QED BY <3>2 DEF price
    <2>3. CumulativeValue(steps, rank) \in Nat
        BY <1>1, CumulativeType
    <2> QED BY <2>2, <2>3 DEF ValueAt
<1>4. TargetValue(steps, request.to, request.target) \in Int
    BY <1>1, <1>3, CumulativeType DEF TargetValue
<1> QED BY <1>2, <1>3, <1>4

LEMMA SubtotalType ==
    ASSUME NEW list, NEW request, IsFiniteSet(Extras),
           NEW D \in SUBSET Ranks, list.steps[request.service] \in [D -> Nat],
           list.extras \in [Extras -> Nat], request.from \in D,
           request.points \in Nat, request.target \in Nat, request.extras \subseteq Extras,
           BaseSubtotal(list, request) > 0
    PROVE  Subtotal(list, request) \in Nat
<1> DEFINE prices == [x \in Extras |-> ExtraPrice(list, request, x)]
           ids == request.extras
           P(g) == g = [s \in SUBSET ids |-> IF s = {} THEN 0
                            ELSE ExtraPrice(list, request, Some(s)) + g[s \ {Some(s)}]]
           h == CHOOSE g : P(g)
<1>1. BaseSubtotal(list, request) \in Nat
    BY BaseType
<1>2. ASSUME NEW x \in Extras PROVE prices[x] \in Nat
    <2>1. list.extras[x] \in Nat
        OBVIOUS
    <2>2. BaseSubtotal(list, request) \in Int /\ BaseSubtotal(list, request) >= 0
        BY <1>1
    <2>3. Percentage(BaseSubtotal(list, request), list.extras[x], 10000) \in Nat
        <3> DEFINE base == BaseSubtotal(list, request)
                   rate == list.extras[x]
        <3> HIDE DEF base, rate
        <3>1. base \in Int /\ base >= 0 /\ rate \in Nat
            BY <2>1, <2>2 DEF base, rate
        <3>2. Percentage(base, rate, 10000) \in Nat
            BY <3>1, PercentageType
        <3> QED BY <3>2 DEF base, rate
    <2> QED BY <2>3 DEF ExtraPrice
<1>3. IsFiniteSet(ids)
    BY FS_Subset
<1>4. ASSUME NEW g PROVE Adds(prices, ids, g) <=> P(g)
    <2>1. \A s \in SUBSET ids : s # {} => prices[Some(s)] = ExtraPrice(list, request, Some(s))
        BY SomeIn
    <2>2. [s \in SUBSET ids |-> IF s = {} THEN 0 ELSE prices[Some(s)] + g[s \ {Some(s)}]]
            = [s \in SUBSET ids |-> IF s = {} THEN 0
                            ELSE ExtraPrice(list, request, Some(s)) + g[s \ {Some(s)}]]
        BY <2>1
    <2> QED BY <2>2 DEF Adds
<1>5. Adds(prices, ids, h)
    <2>1. \E g : P(g)
        BY <1>3, <1>4, SumsExist
    <2>2. P(h)
        BY <2>1
    <2> HIDE DEF P, h
    <2> QED BY <1>4, <2>2
<1>6. Subtotal(list, request) = BaseSubtotal(list, request) + h[ids]
    BY DEF Subtotal, MapThenSumSet, MapThenFoldSet, Some
<1> HIDE DEF P, h, prices, ids
<1>7. h[ids] = SumOf(prices, ids)
    <2>1. \A s \in SUBSET ids : h[s] = SumOf(prices, s)
        BY <1>3, <1>5, SumsAdd
    <2> QED BY <2>1
<1>8. SumOf(prices, ids) \in Nat
    <2>1. \A x \in ids : prices[x] \in Nat
        BY <1>2 DEF ids
    <2> QED BY <1>3, <2>1, SumType
<1> QED BY <1>1, <1>6, <1>7, <1>8

LEMMA LesserAndGreater ==
    ASSUME NEW a \in Int, NEW b \in Int
    PROVE  /\ Min({a, b}) \in {a, b} /\ Min({a, b}) <= a /\ Min({a, b}) <= b
           /\ Max({a, b}) \in {a, b} /\ Max({a, b}) >= a /\ Max({a, b}) >= b
<1>1. \E x \in {a, b} : \A y \in {a, b} : x <= y
    OBVIOUS
<1>2. \E x \in {a, b} : \A y \in {a, b} : x >= y
    OBVIOUS
<1>3. Min({a, b}) \in {a, b} /\ \A y \in {a, b} : Min({a, b}) <= y
    BY <1>1 DEF Min
<1>4. Max({a, b}) \in {a, b} /\ \A y \in {a, b} : Max({a, b}) >= y
    BY <1>2 DEF Max
<1> QED BY <1>3, <1>4

\* A coupon leaves the price or the minimum to pay, whichever is less.
LEMMA DiscountLeavesMinimum ==
    ASSUME NEW price \in Nat, NEW coupon, coupon.discount \in Nat
    PROVE  /\ Discount(coupon, price) \in Int
           /\ price - Discount(coupon, price) >= Min({price, MinTotal})
<1> DEFINE raw == IF coupon.percentage THEN Percentage(price, coupon.discount, 100) ELSE coupon.discount
           most == Max({0, price - MinTotal})
<1>1. raw \in Int
    BY PercentageType
<1>2. MinTotal \in Nat /\ price - MinTotal \in Int /\ 0 \in Int
    BY PriceAssumption
<1>3. most \in {0, price - MinTotal} /\ most >= 0 /\ most >= price - MinTotal
    <2> DEFINE rest == price - MinTotal
    <2>1. rest \in Int
        BY <1>2
    <2> HIDE DEF rest
    <2>2. Max({0, rest}) \in {0, rest} /\ Max({0, rest}) >= 0 /\ Max({0, rest}) >= rest
        BY <1>2, <2>1, LesserAndGreater
    <2> QED BY <2>2 DEF rest
<1>4. Discount(coupon, price) = Min({raw, most})
    BY DEF Discount
<1> HIDE DEF raw, most
<1>5. Min({raw, most}) \in {raw, most} /\ Min({raw, most}) <= most
    <2>1. most \in Int
        BY <1>2, <1>3
    <2> QED BY <1>1, <2>1, LesserAndGreater
<1>6. Min({price, MinTotal}) \in {price, MinTotal} /\ Min({price, MinTotal}) <= price
         /\ Min({price, MinTotal}) <= MinTotal
    BY <1>2, LesserAndGreater
<1> QED BY <1>1, <1>2, <1>3, <1>4, <1>5, <1>6

-------------------------------------------------------------------------------
(***************************************************************************)
(* Types, and the price on record.  Terms are settled once, from a list    *)
(* that has come into force; such a list is never changed, and neither are *)
(* the terms, in the hands of a handler, in a quote or in an order.        *)
(***************************************************************************)
Settles(list, t) ==
    LET price == Subtotal(list, t.request)
        total == price - GrantedDiscount(t.coupon, price)
    IN  list \in PricedLists /\ t.subtotal = price /\ t.total = total /\ total >= Min({price, MinTotal})

OnRecord(t) == t.version \in Versions /\ Settles(published[t.version], t)

\* Terms that a step has before and after it are on record after it.
StillOnRecord(t) == t.version \in Versions /\ Settles(published'[t.version], t)

TermsOnRecord ==
    /\ \A q \in Quotes : There(quotes[q]) => OnRecord(quotes[q].terms)
    /\ \A o \in Orders : There(orders[o]) => OnRecord(orders[o].terms)
    /\ \A h \in Handlers : At(h, "quoting") \/ At(h, "inserting") => OnRecord(work[h].terms)

RecordInv == Inv /\ TypeOK /\ TermsOnRecord

LEMMA TermsAreAgreed ==
    ASSUME NEW list \in PricedLists, NEW request \in ClimbRequests, Priceable(list, request),
           NEW c \in Clients, NEW k \in Coupons \cup {NoCoupon}, NEW v \in Versions,
           NEW price, price = Subtotal(list, request),
           NEW t, t = Terms(c, k, v, request, price, GrantedDiscount(k, price))
    PROVE  t \in TermsOf /\ Settles(list, t) /\ t.version = v
<1>1. price \in Nat
    <2>1. /\ list.extras \in [Extras -> Nat] /\ request.extras \subseteq Extras
          /\ request.points \in Nat /\ request.target \in Nat /\ IsFiniteSet(Extras)
        BY CheckoutAssumption
    <2>2. PICK D \in {Ranks, Ranks \ {Top}} : list.steps[request.service] \in [D -> Nat]
        BY CheckoutAssumption
    <2>3. D \in SUBSET Ranks /\ request.from \in D /\ BaseSubtotal(list, request) > 0
        BY <2>2 DEF Priceable
    <2> QED BY <2>1, <2>2, <2>3, SubtotalType
<1>2. /\ GrantedDiscount(k, price) \in Int
      /\ price - GrantedDiscount(k, price) >= Min({price, MinTotal})
    <2>1. CASE k = NoCoupon
        <3>0. price \in Int /\ MinTotal \in Int
            BY <1>1, PriceAssumption
        <3>1. Min({price, MinTotal}) <= price /\ Min({price, MinTotal}) \in {price, MinTotal}
            BY <3>0, LesserAndGreater
        <3>2. GrantedDiscount(k, price) = 0
            BY <2>1 DEF GrantedDiscount
        <3> QED BY <1>1, <3>1, <3>2, PriceAssumption
    <2>2. CASE k # NoCoupon
        <3>1. Conditions[k].discount \in Nat
            BY <2>2, CheckoutAssumption
        <3>2. GrantedDiscount(k, price) = Discount(Conditions[k], price)
            BY <2>2 DEF GrantedDiscount
        <3> QED BY <1>1, <3>1, <3>2, DiscountLeavesMinimum
    <2> QED BY <2>1, <2>2
<1> DEFINE discount == GrantedDiscount(k, price)
<1>3. t = [client |-> c, coupon |-> k, version |-> v, request |-> request,
           subtotal |-> price, discount |-> discount, total |-> price - discount]
    BY DEF Terms
<1>4. discount \in Int /\ price - discount >= Min({price, MinTotal})
    BY <1>2
<1> HIDE DEF discount
<1>5. t \in TermsOf
    BY <1>1, <1>3, <1>4 DEF TermsOf
<1>6. /\ t.request = request /\ t.coupon = k /\ t.subtotal = price /\ t.total = price - discount
      /\ t.version = v
    BY <1>3
<1>7. Settles(list, t)
    BY <1>4, <1>6 DEF Settles, discount
<1> QED BY <1>5, <1>6, <1>7

LEMMA PricesMove ==
    ASSUME TypeOK, [Next]_checkoutVars
    PROVE  /\ inForce' \in Versions /\ published' \in [Versions -> PricedLists \cup {NoList}]
           /\ \A v \in Versions : published[v] \in PricedLists => published'[v] = published[v]
<1>1. CASE UNCHANGED priceListVars
    BY <1>1 DEF priceListVars, TypeOK
<1>2. ASSUME NEW v \in Versions, NEW list \in CompleteLists, Publish(v, list)
      PROVE  /\ inForce' = v /\ published' \in [Versions -> PricedLists \cup {NoList}]
             /\ \A w \in Versions : published[w] \in PricedLists => published'[w] = published[w]
  <2>1. list \in PricedLists /\ NoList \notin PricedLists
      BY PriceListAssumption DEF PricedLists
  <2> QED BY <1>2, <2>1 DEF Publish, TypeOK
<1>3. CASE ChangePrices
    BY <1>2, <1>3 DEF ChangePrices, PriceListNext
<1>4. ASSUME NEW h, NEW c, NEW x, NEW y,
             \/ BeginCleanup(h) \/ Cleanup(h) \/ ContinueCheckout(h) \/ SavePayment(h) \/ Abort(h)
             \/ SaveQuote(h, x) \/ CommitOrder(h, x) \/ BeginQuote(h, c, x, y)
             \/ BeginOrder(h, c, x) \/ BeginCheckout(h, c, x, y) \/ BeginPayment(h, c, x, y)
             \/ Expire(x) \/ Pay(x) \/ Cancel(x)
      PROVE  UNCHANGED priceListVars
    BY <1>4 DEF BeginCleanup, Cleanup, ContinueCheckout, SavePayment, Abort, SaveQuote, CommitOrder,
       BeginQuote, BeginOrder, BeginCheckout, BeginPayment, ReadQuote, Expire, Pay, Cancel, MoveOrder,
       priceListVars
<1>5. UNCHANGED checkoutVars => UNCHANGED priceListVars
    BY DEF checkoutVars
<1> QED BY <1>1, <1>3, <1>4, <1>5 DEF Next

\* What is on record stays on record.
LEMMA RecordsStay ==
    ASSUME TypeOK, [Next]_checkoutVars, NEW t, OnRecord(t)
    PROVE  StillOnRecord(t)
<1>1. t.version \in Versions /\ published'[t.version] = published[t.version]
    BY PricesMove DEF OnRecord, Settles
<1> QED BY <1>1 DEF OnRecord, StillOnRecord

\* What a handler holds, at each stage.
LEMMA JobTypes ==
    ASSUME TypeOK, NEW h \in Handlers
    PROVE  /\ At(h, "quoting") => work[h].terms \in TermsOf
           /\ At(h, "inserting") => /\ work[h].terms \in TermsOf /\ work[h].quote \in Quotes
                                    /\ work[h].payment \in Payments \cup {NoPayment}
                                    /\ work[h].amount \in Int
           /\ At(h, "opened") => /\ work[h].client \in Clients /\ work[h].quote \in Quotes
                                 /\ work[h].payment \in Payments /\ work[h].amount \in Int
           /\ At(h, "saving") => /\ work[h].order \in Orders /\ work[h].payment \in Payments
                                 /\ work[h].amount \in Int
<1>1. work[h] \in Jobs \cup {Free}
    BY DEF TypeOK
<1> QED BY <1>1 DEF Jobs, Free, At

LEMMA WorkTyped ==
    ASSUME TypeOK, NEW h \in Handlers, NEW job \in Jobs \cup {Free},
           Start(h, job) \/ GoOn(h, job)
    PROVE  work' \in [Handlers -> Jobs \cup {Free}]
    BY DEF TypeOK, Start, GoOn

LEMMA SharesTyped == ASSUME NEW amount \in Int PROVE BoosterShare(amount) \in Int
<1>1. 70 \in Nat
    OBVIOUS
<1>2. Percentage(amount, 70, 100) \in Int
    BY <1>1, PercentageType
<1> QED BY <1>2 DEF BoosterShare

LEMMA JobsStayTyped ==
    ASSUME TypeOK, [Next]_checkoutVars
    PROVE  work' \in [Handlers -> Jobs \cup {Free}]
<1>1. ASSUME UNCHANGED checkoutVars \/ ChangePrices
             \/ \E x : Expire(x) \/ Pay(x) \/ Cancel(x)
      PROVE  work' \in [Handlers -> Jobs \cup {Free}]
    BY <1>1 DEF checkoutVars, ChangePrices, Expire, Pay, Cancel, MoveOrder, TypeOK
<1>2. ASSUME NEW h \in Handlers, End(h)
      PROVE  work' \in [Handlers -> Jobs \cup {Free}]
    BY <1>2, WorkTyped DEF End
<1>3. ASSUME NEW h \in Handlers, NEW x,
             Cleanup(h) \/ SavePayment(h) \/ Abort(h) \/ SaveQuote(h, x) \/ CommitOrder(h, x)
      PROVE  End(h)
    BY <1>3 DEF Cleanup, SavePayment, Abort, SaveQuote, CommitOrder
<1>4. ASSUME NEW h \in Handlers, BeginCleanup(h)
      PROVE  work' \in [Handlers -> Jobs \cup {Free}]
    <2> DEFINE job == [stage |-> "cleaning", found |-> {q \in Quotes : Unused(q) /\ quotes[q].expired}]
    <2>1. job \in Jobs /\ Start(h, job)
        BY <1>4 DEF BeginCleanup, Jobs
    <2> HIDE DEF job
    <2> QED BY <2>1, WorkTyped
<1>5. ASSUME NEW h \in Handlers, NEW c \in Clients, NEW request \in ClimbRequests,
             NEW k \in Coupons \cup {NoCoupon}, BeginQuote(h, c, request, k)
      PROVE  work' \in [Handlers -> Jobs \cup {Free}]
    <2>0. PICK v \in Versions : /\ published[v] # NoList /\ Priceable(published[v], request)
            /\ Start(h, [stage |-> "quoting", terms |-> Terms(c, k, v, request,
                    Subtotal(published[v], request), GrantedDiscount(k, Subtotal(published[v], request)))])
        BY <1>5 DEF BeginQuote
    <2> DEFINE list == published[v]
               price == Subtotal(list, request)
               terms == Terms(c, k, v, request, price, GrantedDiscount(k, price))
               job == [stage |-> "quoting", terms |-> terms]
    <2>1. list \in PricedLists /\ Priceable(list, request)
        BY <2>0 DEF TypeOK
    <2>2. Start(h, job)
        BY <2>0
    <2> HIDE DEF list
    <2>3. terms \in TermsOf
        BY <2>1, TermsAreAgreed
    <2> HIDE DEF terms
    <2>4. job \in Jobs
        BY <2>3 DEF Jobs
    <2> HIDE DEF job
    <2> QED BY <2>2, <2>4, WorkTyped
<1>6. ASSUME NEW h \in Handlers, NEW c \in Clients, NEW q \in Quotes,
             NEW p \in Payments \cup {NoPayment}, NEW amount \in Int, ReadQuote(h, c, q, p, amount)
      PROVE  work' \in [Handlers -> Jobs \cup {Free}]
    <2> DEFINE job == [stage |-> "inserting", client |-> c, quote |-> q, payment |-> p,
                       amount |-> amount, terms |-> quotes[q].terms]
    <2>1. quotes[q].terms \in TermsOf
        BY <1>6 DEF ReadQuote, Owned, There, TypeOK, QuoteRows
    <2>2. job \in Jobs /\ GoOn(h, job)
        BY <1>6, <2>1 DEF ReadQuote, Jobs
    <2> HIDE DEF job
    <2> QED BY <2>2, WorkTyped
<1>7. ASSUME NEW h \in Handlers, ContinueCheckout(h)
      PROVE  work' \in [Handlers -> Jobs \cup {Free}]
    BY <1>6, <1>7, JobTypes DEF ContinueCheckout
<1>8. ASSUME NEW h \in Handlers, NEW c \in Clients, NEW q \in Quotes, BeginOrder(h, c, q)
      PROVE  work' \in [Handlers -> Jobs \cup {Free}]
    BY <1>6, <1>8 DEF BeginOrder
<1>9. ASSUME NEW h \in Handlers, NEW c \in Clients, NEW q \in Quotes, NEW p \in Payments,
             BeginCheckout(h, c, q, p)
      PROVE  work' \in [Handlers -> Jobs \cup {Free}]
    <2> DEFINE job == [stage |-> "opened", client |-> c, quote |-> q, payment |-> p,
                       amount |-> quotes[q].terms.total, late |-> quotes[q].expired]
    <2>1. quotes[q] \in QuoteRows
        BY <1>9 DEF BeginCheckout, Owned, There, TypeOK
    <2>2. quotes[q].terms.total \in Int /\ quotes[q].expired \in BOOLEAN
        BY <2>1 DEF QuoteRows, TermsOf
    <2>3. job \in Jobs /\ Start(h, job)
        BY <1>9, <2>2 DEF BeginCheckout, Jobs
    <2> HIDE DEF job
    <2> QED BY <2>3, WorkTyped
<1>10. ASSUME NEW h \in Handlers, NEW c \in Clients, NEW o \in Orders, NEW p \in Payments,
              BeginPayment(h, c, o, p)
       PROVE  work' \in [Handlers -> Jobs \cup {Free}]
    <2> DEFINE job == [stage |-> "saving", order |-> o, payment |-> p, amount |-> Payable(o)]
    <2>1. orders[o] \in OrderRows
        BY <1>10 DEF BeginPayment, OrdersOf, There, TypeOK
    <2>2. Payable(o) \in Int
        BY <2>1 DEF OrderRows, TermsOf, Payable
    <2>3. job \in Jobs /\ Start(h, job)
        BY <1>10, <2>2 DEF BeginPayment, Jobs
    <2> HIDE DEF job
    <2> QED BY <2>3, WorkTyped
<1> QED BY <1>1, <1>2, <1>3, <1>4, <1>5, <1>7, <1>8, <1>9, <1>10 DEF Next

LEMMA TablesStayTyped ==
    ASSUME TypeOK, [Next]_checkoutVars
    PROVE  /\ quotes' \in [Quotes -> QuoteRows \cup {Absent, Deleted}]
           /\ orders' \in [Orders -> OrderRows \cup {Absent}]
           /\ payments' \in [Payments -> PaymentRows \cup {Absent}]
           /\ rivals' \in [Orders -> SUBSET Orders]
           /\ doubled' \subseteq Orders
<1> DEFINE Goal ==
        /\ quotes' \in [Quotes -> QuoteRows \cup {Absent, Deleted}]
        /\ orders' \in [Orders -> OrderRows \cup {Absent}]
        /\ payments' \in [Payments -> PaymentRows \cup {Absent}]
        /\ rivals' \in [Orders -> SUBSET Orders]
        /\ doubled' \subseteq Orders
<1>1. CASE UNCHANGED <<quotes, orders, payments, rivals, doubled>>
    BY <1>1 DEF TypeOK
<1>2. ASSUME NEW q \in Quotes, Expire(q) PROVE Goal
    <2>1. quotes[q] \in QuoteRows
        BY <1>2 DEF Expire, Unused, There, TypeOK
    <2>2. [quotes[q] EXCEPT !.expired = TRUE] \in QuoteRows
        BY <2>1 DEF QuoteRows
    <2>3. quotes' \in [Quotes -> QuoteRows \cup {Absent, Deleted}]
        BY <1>2, <2>2 DEF Expire, TypeOK
    <2> QED BY <1>2, <2>3 DEF Expire, TypeOK, ghosts
<1>3. ASSUME NEW o \in Orders, NEW from, NEW to \in {"paid", "cancelled"}, MoveOrder(o, from, to)
      PROVE  Goal
    <2>1. orders[o] \in OrderRows
        BY <1>3 DEF MoveOrder, There, TypeOK
    <2>2. [orders[o] EXCEPT !.status = to] \in OrderRows
        BY <2>1 DEF OrderRows
    <2>3. orders' \in [Orders -> OrderRows \cup {Absent}]
        BY <1>3, <2>2 DEF MoveOrder, TypeOK
    <2> QED BY <1>3, <2>3 DEF MoveOrder, TypeOK, ghosts
<1>4. ASSUME NEW o \in Orders, Pay(o) \/ Cancel(o) PROVE Goal
    BY <1>3, <1>4 DEF Pay, Cancel
<1>5. ASSUME NEW h \in Handlers, Cleanup(h) PROVE Goal
    BY <1>5 DEF Cleanup, TypeOK, ghosts
<1>6. ASSUME NEW h \in Handlers, SavePayment(h) PROVE Goal
    <2> DEFINE row == [order |-> work[h].order, gross |-> work[h].amount,
                       share |-> BoosterShare(work[h].amount)]
    <2>1. work[h].order \in Orders /\ work[h].payment \in Payments /\ work[h].amount \in Int
        BY <1>6, JobTypes DEF SavePayment
    <2>2. row \in PaymentRows
        BY <2>1, SharesTyped DEF PaymentRows
    <2>3. payments' = [payments EXCEPT ![work[h].payment] = row]
        BY <1>6 DEF SavePayment
    <2> HIDE DEF row
    <2>4. payments' \in [Payments -> PaymentRows \cup {Absent}]
        BY <2>1, <2>2, <2>3 DEF TypeOK
    <2>5. doubled' \subseteq Orders
        BY <1>6, <2>1 DEF SavePayment, TypeOK
    <2> QED BY <1>6, <2>4, <2>5 DEF SavePayment, TypeOK
<1>7. ASSUME NEW h \in Handlers, NEW q \in Quotes, SaveQuote(h, q) PROVE Goal
    <2> DEFINE row == [expired |-> FALSE, order |-> NoOrder, terms |-> work[h].terms]
    <2>1. row \in QuoteRows
        BY <1>7, JobTypes DEF SaveQuote, QuoteRows
    <2>2. quotes' = [quotes EXCEPT ![q] = row]
        BY <1>7 DEF SaveQuote
    <2> HIDE DEF row
    <2>3. quotes' \in [Quotes -> QuoteRows \cup {Absent, Deleted}]
        BY <2>1, <2>2 DEF TypeOK
    <2> QED BY <1>7, <2>3 DEF SaveQuote, TypeOK, ghosts
<1>8. ASSUME NEW h \in Handlers, NEW o \in Orders, CommitOrder(h, o) PROVE Goal
    <2>1. At(h, "inserting") /\ Unused(work[h].quote)
        BY <1>8 DEF CommitOrder, At, StillUnused
    <2>2. /\ work[h].terms \in TermsOf /\ work[h].quote \in Quotes
          /\ work[h].payment \in Payments \cup {NoPayment} /\ work[h].amount \in Int
        BY <2>1, JobTypes
    <2>3. orders' \in [Orders -> OrderRows \cup {Absent}]
        <3> DEFINE row == [quote |-> work[h].quote, terms |-> work[h].terms,
                           status |-> "awaiting_payment"]
        <3>1. row \in OrderRows
            BY <2>2 DEF OrderRows
        <3>2. orders' = [orders EXCEPT ![o] = row]
            BY <1>8 DEF CommitOrder
        <3> HIDE DEF row
        <3> QED BY <3>1, <3>2 DEF TypeOK
    <2>4. quotes' \in [Quotes -> QuoteRows \cup {Absent, Deleted}]
        <3>1. quotes[work[h].quote] \in QuoteRows
            BY <2>1, <2>2 DEF Unused, There, TypeOK
        <3>2. [quotes[work[h].quote] EXCEPT !.order = o] \in QuoteRows
            BY <3>1 DEF QuoteRows
        <3>3. quotes' = [quotes EXCEPT ![work[h].quote] = [quotes[work[h].quote] EXCEPT !.order = o]]
            BY <1>8 DEF CommitOrder
        <3> QED BY <2>2, <3>2, <3>3 DEF TypeOK
    <2>5. payments' \in [Payments -> PaymentRows \cup {Absent}]
        <3> DEFINE row == [order |-> o, gross |-> work[h].amount, share |-> BoosterShare(work[h].amount)]
        <3>1. row \in PaymentRows
            BY <2>2, SharesTyped DEF PaymentRows
        <3>2. payments' = IF work[h].payment = NoPayment THEN payments
                          ELSE [payments EXCEPT ![work[h].payment] = row]
            BY <1>8 DEF CommitOrder, NewPayments
        <3> HIDE DEF row
        <3> QED BY <2>2, <3>1, <3>2 DEF TypeOK
    <2>6. rivals' \in [Orders -> SUBSET Orders]
        BY <1>8 DEF CommitOrder, LiveOrders, OrdersOf, TypeOK
    <2> QED BY <1>8, <2>3, <2>4, <2>5, <2>6 DEF CommitOrder, TypeOK
<1> QED BY <1>1, <1>2, <1>4, <1>5, <1>6, <1>7, <1>8, Steps

LEMMA AskedStayTyped ==
    ASSUME TypeOK, [Next]_checkoutVars
    PROVE  asked' \subseteq [payment : Payments, amount : Int] /\ crowded' \subseteq Coupons
<1>1. ASSUME NEW h, NEW x, NEW c,
             \/ BeginCleanup(h) \/ Cleanup(h) \/ ContinueCheckout(h) \/ SavePayment(h) \/ Abort(h)
             \/ SaveQuote(h, x) \/ CommitOrder(h, x) \/ BeginOrder(h, c, x)
             \/ Expire(x) \/ Pay(x) \/ Cancel(x) \/ ChangePrices \/ UNCHANGED checkoutVars
      PROVE  UNCHANGED <<asked, crowded>>
    BY <1>1 DEF BeginCleanup, Cleanup, ContinueCheckout, SavePayment, Abort, SaveQuote, CommitOrder,
       BeginOrder, ReadQuote, Expire, Pay, Cancel, MoveOrder, ChangePrices, checkoutVars, ghosts
<1>2. ASSUME NEW h, NEW c, NEW request, NEW k \in Coupons \cup {NoCoupon}, BeginQuote(h, c, request, k)
      PROVE  asked' = asked /\ crowded' \subseteq Coupons
    BY <1>2 DEF BeginQuote, TypeOK
<1>3. ASSUME NEW h \in Handlers, NEW c, NEW q \in Quotes, NEW p \in Payments, BeginCheckout(h, c, q, p)
      PROVE  asked' \subseteq [payment : Payments, amount : Int] /\ crowded' = crowded
    <2>1. quotes[q] \in QuoteRows
        BY <1>3 DEF BeginCheckout, Owned, There, TypeOK
    <2>2. quotes[q].terms.total \in Int
        BY <2>1 DEF QuoteRows, TermsOf
    <2> QED BY <1>3, <2>2 DEF BeginCheckout, TypeOK, ghosts
<1>4. ASSUME NEW h \in Handlers, NEW c, NEW o \in Orders, NEW p \in Payments, BeginPayment(h, c, o, p)
      PROVE  asked' \subseteq [payment : Payments, amount : Int] /\ crowded' = crowded
    <2>1. orders[o] \in OrderRows
        BY <1>4 DEF BeginPayment, OrdersOf, There, TypeOK
    <2>2. Payable(o) \in Int
        BY <2>1 DEF OrderRows, TermsOf, Payable
    <2> QED BY <1>4, <2>2 DEF BeginPayment, TypeOK, ghosts
<1>5. asked \subseteq [payment : Payments, amount : Int] /\ crowded \subseteq Coupons
    BY DEF TypeOK
<1> QED BY <1>1, <1>2, <1>3, <1>4, <1>5 DEF Next

LEMMA TypesStay ==
    ASSUME TypeOK, [Next]_checkoutVars
    PROVE  TypeOK'
    BY JobsStayTyped, TablesStayTyped, AskedStayTyped, PricesMove DEF TypeOK

\* Terms are settled by BeginQuote; every other step passes them on.
LEMMA SettledAtTheQuote ==
    ASSUME RecordInv, NEW h \in Handlers, NEW c \in Clients, NEW request \in ClimbRequests,
           NEW k \in Coupons \cup {NoCoupon}, BeginQuote(h, c, request, k)
    PROVE  StillOnRecord(work'[h].terms)
<1>0. PICK v \in Versions : /\ published[v] # NoList /\ Priceable(published[v], request)
        /\ Start(h, [stage |-> "quoting", terms |-> Terms(c, k, v, request,
                Subtotal(published[v], request), GrantedDiscount(k, Subtotal(published[v], request)))])
    BY DEF BeginQuote
<1> DEFINE list == published[v]
           price == Subtotal(list, request)
           terms == Terms(c, k, v, request, price, GrantedDiscount(k, price))
<1>1. list \in PricedLists /\ Priceable(list, request)
    BY <1>0 DEF RecordInv, TypeOK
<1>2. work'[h] = [stage |-> "quoting", terms |-> terms]
    BY <1>0 DEF Start, RecordInv, TypeOK
<1> HIDE DEF list
<1>3. Settles(list, terms) /\ terms.version = v
    BY <1>1, TermsAreAgreed
<1> HIDE DEF terms
<1>4. work'[h].stage = "quoting" /\ work'[h].terms = terms
    BY <1>2
<1>5. published' = published
    BY DEF BeginQuote, priceListVars
<1> QED BY <1>1, <1>3, <1>4, <1>5 DEF StillOnRecord, list

LEMMA TermsMove ==
    ASSUME RecordInv, [Next]_checkoutVars
    PROVE  \A h \in Handlers : work'[h].stage \in {"quoting", "inserting"} =>
                StillOnRecord(work'[h].terms)
<1> SUFFICES ASSUME NEW g \in Handlers, work'[g].stage \in {"quoting", "inserting"}
             PROVE  StillOnRecord(work'[g].terms)
    OBVIOUS
<1> USE DEF RecordInv
<1>1. /\ TypeOK /\ Tables /\ JobsKnown
      /\ \A q \in Quotes : There(quotes[q]) => OnRecord(quotes[q].terms)
    BY DEF Inv, TermsOnRecord
<1>2. CASE work'[g] = work[g]
    <2>1. OnRecord(work[g].terms)
        BY <1>2 DEF TermsOnRecord, At
    <2> QED BY <1>1, <1>2, <2>1, RecordsStay
<1>3. ASSUME work'[g] # work[g], work'[g].stage = "quoting" PROVE StillOnRecord(work'[g].terms)
    <2>1. PICK h \in Handlers, c \in Clients, request \in ClimbRequests,
               k \in Coupons \cup {NoCoupon} : BeginQuote(h, c, request, k)
        BY <1>1, <1>3, QuotersStay
    <2>2. g = h
        BY <1>1, <1>3, <2>1 DEF BeginQuote, Start, Tables
    <2>3. StillOnRecord(work'[h].terms)
        BY <2>1, SettledAtTheQuote
    <2> QED BY <2>2, <2>3
<1>4. ASSUME work'[g].stage = "inserting", work'[g] # work[g] PROVE StillOnRecord(work'[g].terms)
    <2>1. PICK q \in Quotes : There(quotes[q]) /\ work'[g].terms = quotes[q].terms
        <3>1. ~Opens(g) /\ ~Pays(g)
            BY <1>1, <1>4 DEF Opens, Pays, BeginCheckout, BeginPayment, Start, Tables
        <3>2. Reads(g)
            BY <1>1, <1>4, <3>1, WorkMove DEF WorkMoves
        <3>3. PICK c \in Clients, q \in Quotes, p \in Payments \cup {NoPayment} :
                \E amount : ReadQuote(g, c, q, p, amount)
            BY <3>2 DEF Reads
        <3> QED BY <1>1, <3>3 DEF ReadQuote, GoOn, Owned, Tables
    <2>2. OnRecord(quotes[q].terms)
        BY <1>1, <2>1
    <2> QED BY <1>1, <2>1, <2>2, RecordsStay
<1> QED BY <1>2, <1>3, <1>4

\* A quote or an order has its terms from before, or from the handler that makes it.
LEMMA RowsKeepTerms ==
    ASSUME Tables, JobsKnown, ReadsHold, [Next]_checkoutVars
    PROVE  /\ \A q \in Quotes : There(quotes'[q]) =>
                \/ There(quotes[q]) /\ quotes'[q].terms = quotes[q].terms
                \/ \E h \in Handlers : At(h, "quoting") /\ quotes'[q].terms = work[h].terms
           /\ \A o \in Orders : There(orders'[o]) =>
                \/ There(orders[o]) /\ orders'[o].terms = orders[o].terms
                \/ \E h \in Handlers : At(h, "inserting") /\ orders'[o].terms = work[h].terms
<1>1. ASSUME NEW h \in Handlers, NEW r \in Quotes, SaveQuote(h, r), NEW q \in Quotes, There(quotes'[q])
      PROVE  \/ There(quotes[q]) /\ quotes'[q].terms = quotes[q].terms
             \/ \E g \in Handlers : At(g, "quoting") /\ quotes'[q].terms = work[g].terms
    BY <1>1 DEF SaveQuote, Tables
<1>2. ASSUME NEW q \in Quotes, There(quotes'[q]),
             ~(There(quotes[q]) /\ quotes'[q].terms = quotes[q].terms)
      PROVE  \E h \in Handlers, r \in Quotes : SaveQuote(h, r)
    <2>1. quotes[q] = Absent /\ quotes'[q] # quotes[q]
        BY <1>2, QuotesMove, RowsAreThere DEF QuoteMoves, Unused
    <2>2. ASSUME NEW r \in Quotes, Expire(r) PROVE quotes'[q] = quotes[q]
        BY <2>1, <2>2 DEF Expire, Unused, There, Tables
    <2>3. ASSUME NEW h \in Handlers, Cleanup(h) PROVE quotes'[q] = quotes[q]
        BY <2>1, <2>3 DEF Cleanup, DeletedQuotes, Unused, There
    <2>4. ASSUME NEW h \in Handlers, NEW o \in Orders, CommitOrder(h, o) PROVE quotes'[q] = quotes[q]
        BY <2>1, <2>4, CommitFacts DEF Unused, There
    <2>5. ASSUME \/ \E o \in Orders : Pay(o) \/ Cancel(o)
                 \/ \E h \in Handlers : SavePayment(h)
          PROVE  quotes'[q] = quotes[q]
        BY <2>5 DEF Pay, Cancel, MoveOrder, SavePayment
    <2> QED BY <2>1, <2>2, <2>3, <2>4, <2>5, Steps
<1>3. ASSUME NEW o \in Orders, There(orders'[o])
      PROVE  \/ There(orders[o]) /\ orders'[o].terms = orders[o].terms
             \/ \E h \in Handlers : At(h, "inserting") /\ orders'[o].terms = work[h].terms
    <2>1. OrderMoves(o)
        BY OrdersMove
    <2>2. ASSUME NEW h \in Handlers, CommitOrder(h, o)
          PROVE  At(h, "inserting") /\ orders'[o].terms = work[h].terms
        BY <2>2, CommitFacts
    <2> QED BY <1>3, <2>1, <2>2 DEF OrderMoves, Moves
<1> QED BY <1>1, <1>2, <1>3

LEMMA RecordsHold ==
    ASSUME RecordInv, [Next]_checkoutVars
    PROVE  TermsOnRecord'
<1>1. TypeOK /\ Tables /\ JobsKnown /\ ReadsHold /\ TermsOnRecord
    BY DEF RecordInv, Inv
<1>2. ASSUME NEW q \in Quotes, There(quotes'[q]) PROVE StillOnRecord(quotes'[q].terms)
    <2>1. CASE There(quotes[q]) /\ quotes'[q].terms = quotes[q].terms
        <3>1. OnRecord(quotes[q].terms)
            BY <1>1, <2>1 DEF TermsOnRecord
        <3> QED BY <1>1, <2>1, <3>1, RecordsStay
    <2>2. ASSUME NEW h \in Handlers, At(h, "quoting"), quotes'[q].terms = work[h].terms
          PROVE  StillOnRecord(quotes'[q].terms)
        <3>1. OnRecord(work[h].terms)
            BY <1>1, <2>2 DEF TermsOnRecord
        <3> QED BY <1>1, <2>2, <3>1, RecordsStay
    <2> QED BY <1>1, <1>2, <2>1, <2>2, RowsKeepTerms
<1>3. ASSUME NEW o \in Orders, There(orders'[o]) PROVE StillOnRecord(orders'[o].terms)
    <2>1. CASE There(orders[o]) /\ orders'[o].terms = orders[o].terms
        <3>1. OnRecord(orders[o].terms)
            BY <1>1, <2>1 DEF TermsOnRecord
        <3> QED BY <1>1, <2>1, <3>1, RecordsStay
    <2>2. ASSUME NEW h \in Handlers, At(h, "inserting"), orders'[o].terms = work[h].terms
          PROVE  StillOnRecord(orders'[o].terms)
        <3>1. OnRecord(work[h].terms)
            BY <1>1, <2>2 DEF TermsOnRecord
        <3> QED BY <1>1, <2>2, <3>1, RecordsStay
    <2> QED BY <1>1, <1>3, <2>1, <2>2, RowsKeepTerms
<1>4. \A h \in Handlers : work'[h].stage \in {"quoting", "inserting"} => StillOnRecord(work'[h].terms)
    BY TermsMove
<1> QED BY <1>2, <1>3, <1>4 DEF TermsOnRecord, At, OnRecord, StillOnRecord

LEMMA RecordInvariance == Spec => []RecordInv
<1>1. Init => RecordInv
    <2> SUFFICES ASSUME Init PROVE RecordInv
        OBVIOUS
    <2>1. Inv
        BY InitInv
    <2>2. TypeOK
        BY PriceListAssumption DEF Init, PriceListInit, PricedLists, TypeOK
    <2>3. TermsOnRecord
        BY NothingAtFirst, RowsAreThere DEF TermsOnRecord, At
    <2> QED BY <2>1, <2>2, <2>3 DEF RecordInv
<1>2. RecordInv /\ [Next]_checkoutVars => RecordInv'
    BY NextInv, TypesStay, RecordsHold DEF RecordInv
<1> QED BY <1>1, <1>2, PTL DEF Spec

(* Rows, jobs and amounts have their types: every amount that is charged   *)
(* or stored is a whole number of cents.                                   *)
THEOREM CheckoutTypeCorrect == Spec => []TypeOK
<1>1. RecordInv => TypeOK
    BY DEF RecordInv
<1> QED BY <1>1, RecordInvariance, PTL

(* The price of an order can be checked for ever: the list its version had *)
(* when the quote was made is never changed, no step changes the terms,    *)
(* and the discount left the price, or the minimum, to pay.                *)
THEOREM PricesStayOnRecord == Spec => []PriceIsOnRecord
<1>1. RecordInv => PriceIsOnRecord
    BY DEF RecordInv, TermsOnRecord, OnRecord, Settles, PriceIsOnRecord, GrantedDiscount
<1> QED BY <1>1, RecordInvariance, PTL
================================================================================
