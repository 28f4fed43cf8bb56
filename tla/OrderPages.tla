------------------------------- MODULE OrderPages -------------------------------
(***************************************************************************)
(* The pages on which clients, boosters and administrators see orders: the *)
(* lists they query, the buttons and links they offer, what the API makes  *)
(* of a button that is pressed, and where the page goes from there.  What  *)
(* an order may do is the business of OrderService; a page decides for     *)
(* itself what it offers, from rows that it read some time ago, some of    *)
(* them in two queries.                                                    *)
(*                                                                         *)
(* One page is followed; everybody else calls the API at any time.  All    *)
(* orders are of one client, numbered in the order they were placed.       *)
(***************************************************************************)
EXTENDS Naturals, FiniteSets

CONSTANTS
    PageOrders, PageBoosters, Unassigned, Buyer, Admin,
    Viewers,        \* those whose pages are followed
    WorkLimit,      \* BOOSTER_WORK_LIMIT_DEFAULT
    ClientLimit,    \* RECENT_ORDER_LIMIT_DEFAULT
    AdminLimit      \* the limit of the administrators' list

ASSUME OrderPagesAssumption ==
    /\ PageOrders \subseteq Nat \ {0} /\ IsFiniteSet(PageOrders)
    /\ Unassigned \notin PageBoosters /\ {Buyer, Admin} \cap PageBoosters = {} /\ Buyer # Admin
    /\ Buyer \in Viewers /\ Viewers \subseteq PageBoosters \cup {Buyer, Admin}
    /\ {WorkLimit, ClientLimit, AdminLimit} \subseteq Nat \ {0}

VARIABLES
    shop,           \* shop[o]: the stored row of order o
    declined,       \* declined[o]: the boosters with a stored rejection of o
    lapsed,         \* the unpaid orders whose payment has failed
    payout,         \* payout[o]: what the wallet keeps for the completion of o
    page            \* the page that is followed

pageVars == <<shop, declined, lapsed, payout, page>>

Service == INSTANCE OrderService
    WITH Boosters <- PageBoosters, NoBooster <- Unassigned, Orders <- PageOrders,
         rows <- shop, rejected <- declined

Paths == {"queue", "work", "list", "order"}
Operations == {"accept", "reject", "complete", "reveal", "resume", "store", "release", "cancel"}
Queries == {"active", "completed", "rows"}

\* offers: pairs of an operation, or "open" for a link, and an order; to: the
\* order of an order page, 0 for a list; changed: the orders that changed since it was asked for.
PageRecords ==
    [viewer : Viewers, path : Paths, to : PageOrders \cup {0}, queries : SUBSET Queries,
     offers : SUBSET ((Operations \cup {"open"}) \X PageOrders), found : BOOLEAN,
     changed : SUBSET PageOrders]

OrderPagesTypeOK ==
    /\ shop \in [PageOrders -> Service!Rows] /\ declined \in [PageOrders -> SUBSET PageBoosters]
    /\ lapsed \subseteq PageOrders
    /\ payout \in [PageOrders -> {"none", "locked", "released"}]
    /\ page \in PageRecords

-------------------------------------------------------------------------------
(***************************************************************************)
(* The queries.  A definition whose name ends in X is a faulty variant of  *)
(* the one after it.                                                       *)
(***************************************************************************)
\* orderBy createdAt desc, take
Newest(set, limit) == {o \in set : Cardinality({p \in set : p > o}) < limit}

\* An order is not queued before its client has sent the account access.
Available(b) ==
    {o \in PageOrders :
        /\ shop[o].status = "pending_booster" /\ shop[o].creds
        /\ shop[o].booster \in {Unassigned, b}
        /\ b \notin declined[o]}
OrdersOf(b, status) == {o \in PageOrders : shop[o].status = status /\ shop[o].booster = b}
ActiveWork(b) == Newest(OrdersOf(b, "in_progress"), WorkLimit)
CompletedWork(b) == Newest(OrdersOf(b, "completed"), WorkLimit)

-------------------------------------------------------------------------------
(***************************************************************************)
(* What a page offers for the rows it has read.                            *)
(***************************************************************************)
Each(operations, orders) == operations \X orders

QueueOffers(b) == Each({"accept", "reject"}, Available(b))
WorkOffers(b, query) == IF query = "active" THEN Each({"complete", "open"}, ActiveWork(b))
                        ELSE Each({"open"}, CompletedWork(b))

\* The order page of a booster is made from the lists of his work.
BoosterOrderOffers(b, o, query) ==
    IF query = "active" THEN Each({"complete", "reveal"}, ActiveWork(b) \cap {o}) ELSE {}
InWork(b, o, query) == o \in IF query = "active" THEN ActiveWork(b) ELSE CompletedWork(b)

\* only before a booster has accepted
NeedsCredentialsX(row) == ~row.creds /\ row.status = "pending_booster"
NeedsCredentials(row) == ~row.creds /\ row.status \in {"pending_booster", "in_progress"}
ClientOrderOffers(o) ==
    {offer \in Each({"resume", "store"}, {o}) :
        CASE offer[1] = "resume" -> shop[o].status = "awaiting_payment"
          [] offer[1] = "store"  -> NeedsCredentials(shop[o])}

ReleaseIsDisabled(o) == payout[o] # "locked" \/ shop[o].status # "completed"
CancelIsDisabled(o) == shop[o].status = "cancelled"
AdminOrderOffers(o) ==
    {offer \in Each({"release", "cancel"}, {o}) :
        CASE offer[1] = "release" -> ~ReleaseIsDisabled(o)
          [] offer[1] = "cancel"  -> ~CancelIsDisabled(o)}

ClientListOffers == Each({"open"}, Newest(PageOrders, ClientLimit))
AdminListOffers == Each({"open"}, Newest(PageOrders, AdminLimit))

Offers(viewer, path, o, query) ==
    CASE viewer \in PageBoosters /\ path = "queue" -> QueueOffers(viewer)
      [] viewer \in PageBoosters /\ path = "work"  -> WorkOffers(viewer, query)
      [] viewer \in PageBoosters /\ path = "order" -> BoosterOrderOffers(viewer, o, query)
      [] viewer = Buyer /\ path = "list"  -> ClientListOffers
      [] viewer = Buyer /\ path = "order" -> ClientOrderOffers(o)
      [] viewer = Admin /\ path = "list"  -> AdminListOffers
      [] viewer = Admin /\ path = "order" -> AdminOrderOffers(o)

-------------------------------------------------------------------------------
(***************************************************************************)
(* The API.                                                                *)
(***************************************************************************)
MayReveal(row, b) == row.booster = b /\ row.status = "in_progress" /\ row.creds
MayResume(o) == shop[o].status = "awaiting_payment" /\ o \notin lapsed
MayRelease(o) ==
    /\ shop[o].status = "completed" /\ shop[o].booster # Unassigned
    /\ payout[o] = "locked"

Takes(who, operation, o) ==
    LET row == shop[o] IN
    CASE operation = "accept"   -> Service!MayAccept(row, who)
      [] operation = "reject"   -> Service!MayReject(row, who)
      [] operation = "complete" -> Service!MayComplete(row, who)
      [] operation = "reveal"   -> MayReveal(row, who)
      [] operation = "resume"   -> MayResume(o)
      [] operation = "store"    -> Service!MaySetCredentials(row)
      [] operation = "release"  -> MayRelease(o)
      [] operation = "cancel"   -> Service!MayCancel(row)

\* What a use case that is accepted does to the stored records.
Reads(operation, o) == operation \in {"reveal", "resume"} /\ UNCHANGED <<shop, declined, payout>>
Completes(who, operation, o) ==
    /\ operation = "complete" /\ Service!ServiceComplete(o, who)
    /\ \E credited \in {"none", "locked"} : payout' = [payout EXCEPT ![o] = credited]
Releases(operation, o) ==
    /\ operation = "release"
    /\ payout' = [payout EXCEPT ![o] = "released"] /\ UNCHANGED <<shop, declined>>
Moves(who, operation, o) ==
    /\ \/ operation = "accept" /\ Service!ServiceAccept(o, who)
       \/ operation = "reject" /\ Service!ServiceReject(o, who)
       \/ operation = "store" /\ Service!ServiceStoreCredentials(o)
       \/ operation = "cancel" /\ Service!ServiceCancel(o)
    /\ UNCHANGED payout

CarryOut(who, operation, o) ==
    /\ Takes(who, operation, o)
    /\ UNCHANGED lapsed
    /\ \/ Reads(operation, o) \/ Completes(who, operation, o)
       \/ Releases(operation, o) \/ Moves(who, operation, o)

-------------------------------------------------------------------------------
(***************************************************************************)
(* Everybody else.                                                         *)
(***************************************************************************)
Elsewhere(o) == page' = [page EXCEPT !.changed = @ \cup {o}]

ByOthers(o) ==
    /\ \/ \E b \in PageBoosters, operation \in {"accept", "reject", "complete"} :
            CarryOut(b, operation, o)
       \/ \E operation \in {"store", "cancel"} : CarryOut(Buyer, operation, o)
       \/ CarryOut(Admin, "release", o)
    /\ Elsewhere(o)

PayOrder(o) ==
    /\ Service!ServicePay(o)
    /\ lapsed' = lapsed \ {o}
    /\ Elsewhere(o) /\ UNCHANGED payout

FailPayment(o) ==
    /\ shop[o].status = "awaiting_payment"
    /\ lapsed' = lapsed \cup {o}
    /\ Service!ServiceClearCredentials(o)
    /\ Elsewhere(o) /\ UNCHANGED payout

\* The cleanup of a payment that failed, after the order was paid for all the same.
ForgetCredentials(o) ==
    /\ shop[o].creds
    /\ Service!ServiceClearCredentials(o)
    /\ Elsewhere(o) /\ UNCHANGED <<lapsed, payout>>

ReleaseWhenDue(o) ==
    /\ payout[o] = "locked"
    /\ payout' = [payout EXCEPT ![o] = "released"]
    /\ Elsewhere(o) /\ UNCHANGED <<shop, declined, lapsed>>

-------------------------------------------------------------------------------
(***************************************************************************)
(* The page that is followed.                                              *)
(***************************************************************************)
\* The two lists of a booster's work are queried at the same time.
QueriesOf(viewer, path) ==
    IF viewer \in PageBoosters /\ path # "queue" THEN {"active", "completed"} ELSE {"rows"}

Asked(viewer, path, o) ==
    [viewer |-> viewer, path |-> path, to |-> o, queries |-> QueriesOf(viewer, path),
     offers |-> {}, found |-> viewer \notin PageBoosters \/ path # "order", changed |-> {}]

\* Opened from a link, a notification or an e-mail, or rendered again.
AskForList(viewer) ==
    /\ \E path \in IF viewer \in PageBoosters THEN {"queue", "work"} ELSE {"list"} :
            page' = Asked(viewer, path, 0)
    /\ UNCHANGED <<shop, declined, lapsed, payout>>

AskForOrder(viewer, o) ==
    /\ page' = Asked(viewer, "order", o)
    /\ UNCHANGED <<shop, declined, lapsed, payout>>

ReadRows(query) ==
    /\ query \in page.queries
    /\ page' = [page EXCEPT
            !.queries = @ \ {query},
            !.offers = @ \cup Offers(page.viewer, page.path, page.to, query),
            !.found = @ \/ InWork(page.viewer, page.to, query)]
    /\ UNCHANGED <<shop, declined, lapsed, payout>>

Again == Asked(page.viewer, page.path, page.to)
Stale(o) == [page EXCEPT !.changed = @ \cup {o}]

\* An accepted order opens; other handlers name a page that is to be rendered again.
Landings(operation, o) ==
    CASE operation = "accept" -> {Asked(page.viewer, "order", o)}
      [] operation \in {"reject", "store"} -> {Again}
      [] operation = "complete" -> IF page.path = "work" THEN {Again} ELSE {Again, Stale(o)}
      [] operation \in {"release", "cancel"} -> {Again, Stale(o)}
      [] OTHER -> {page}

Press(operation, o) ==
    /\ page.queries = {} /\ <<operation, o>> \in page.offers
    /\ CarryOut(page.viewer, operation, o)
    /\ page' \in Landings(operation, o)

OrderPagesInit ==
    /\ Service!ServiceInit
    /\ lapsed = {} /\ payout = [o \in PageOrders |-> "none"]
    /\ page = Asked(Buyer, "list", 0)

OrderPagesNext ==
    \/ \E o \in PageOrders :
        \/ ByOthers(o) \/ PayOrder(o) \/ FailPayment(o) \/ ForgetCredentials(o)
        \/ ReleaseWhenDue(o)
        \/ \E operation \in Operations : Press(operation, o)
    \/ \E viewer \in Viewers : AskForList(viewer) \/ \E o \in PageOrders : AskForOrder(viewer, o)
    \/ \E query \in Queries : ReadRows(query)

-------------------------------------------------------------------------------
Rendered == page.queries = {}
Held(b) == OrdersOf(b, "in_progress") \cup OrdersOf(b, "completed")

(* A button is offered only where the API takes what it asks for, as long  *)
(* as the order has not changed since the page was asked for, whatever     *)
(* happened to other orders.  The pages and the API disagree in three      *)
(* places: credentials may be gone, a payment may have failed, and an      *)
(* administrator may press cancel on an order that is accepted or over.    *)
OffersAreTaken ==
    Rendered => \A offer \in page.offers :
        LET operation == offer[1]  o == offer[2] IN
        o \notin page.changed =>
            \/ operation = "open"
            \/ Takes(page.viewer, operation, o)
            \/ operation = "reveal" /\ ~shop[o].creds
            \/ operation = "resume" /\ o \in lapsed
            \/ operation = "cancel" /\ shop[o].status \in {"in_progress", "completed"}

(* Every order that is not over is on the page of somebody who can move it *)
(* on: its client while it waits for a payment or the account access, a    *)
(* booster's queue, the work of the booster who accepted it; and a payout  *)
(* that is locked can be released early.  The orders nobody is shown are   *)
(* those whose payment failed, those every booster rejected, and those     *)
(* that newer ones have pushed off the list of a booster's work.           *)
LiveOrdersAreInHand ==
    \A o \in PageOrders :
        LET row == shop[o]
            CanPress(viewer, path, query, operation) ==
                /\ <<operation, o>> \in Offers(viewer, path, o, query)
                /\ Takes(viewer, operation, o)
        IN
        /\ row.status = "awaiting_payment" =>
            o \in lapsed \/ CanPress(Buyer, "order", "rows", "resume")
        /\ row.status \in {"pending_booster", "in_progress"} /\ ~row.creds =>
            CanPress(Buyer, "order", "rows", "store")
        /\ row.status = "pending_booster" /\ row.creds =>
            \/ declined[o] = PageBoosters
            \/ \E b \in PageBoosters : CanPress(b, "queue", "rows", "accept")
        /\ row.status = "in_progress" =>
            \/ CanPress(row.booster, "work", "active", "complete")
            \/ Cardinality({p \in OrdersOf(row.booster, "in_progress") : p > o}) >= WorkLimit
        /\ payout[o] = "locked" => CanPress(Admin, "order", "rows", "release")

(* A booster finds the page of an order he holds, the one he has just      *)
(* accepted among them, unless it was completed while the page was being   *)
(* made or newer orders have pushed it off both lists of his work; and the *)
(* links of a page that nothing has changed under lead to a page.          *)
OrderPagesAreFound ==
    Rendered =>
        /\ ~page.found /\ page.to \in Held(page.viewer) =>
            \/ page.to \in page.changed
            \/ Cardinality({p \in Held(page.viewer) \cup page.changed : p > page.to}) >= WorkLimit
        /\ page.viewer \in PageBoosters /\ page.changed = {} =>
            \A o \in PageOrders : <<"open", o>> \in page.offers =>
                \E query \in {"active", "completed"} : InWork(page.viewer, o, query)
================================================================================
