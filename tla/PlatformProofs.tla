-------------------------------- MODULE PlatformProofs --------------------------------
(***************************************************************************)
(* Proofs about the components around the core.  First what screens show   *)
(* and send: the pages of orders, the session of a browser, the page of    *)
(* coupons with the table it writes to, and the form of an order.  Each has*)
(* an inductive invariant, which its initial states and its steps are shown*)
(* to keep; those of the components on the server are in RecordsProofs.    *)
(*                                                                         *)
(* The theorems about the platform come last: since a step of it is a step *)
(* of one component and leaves the others alone (EveryComponentSteps),     *)
(* every one of these invariants holds of the platform.                    *)
(***************************************************************************)
EXTENDS Platform, RecordsProofs, Sums

-------------------------------------------------------------------------------
(***************************************************************************)
(* The pages of orders.  What a page offers stands as long as the order is *)
(* not among those that changed since the page was asked for, because the  *)
(* row it was read from is still the row of the order.                     *)
(***************************************************************************)
LEMMA WhatAnOrderMayDo ==
    ASSUME NEW row \in Service!Rows, NEW b
    PROVE  /\ Service!MayAccept(row, b) <=> row.booster \in {Unassigned, b} /\ row.status = "pending_booster"
           /\ Service!MayReject(row, b) <=> row.booster \in {Unassigned, b} /\ row.status = "pending_booster"
           /\ Service!MayComplete(row, b) <=> row.booster = b /\ row.status = "in_progress"
           /\ Service!MayCancel(row) <=> row.status \in {"awaiting_payment", "pending_booster"}
           /\ Service!MaySetCredentials(row) <=> row.status \in {"pending_booster", "in_progress"}
           /\ Service!MayConfirmPayment(row) <=> row.status = "awaiting_payment"
<1>1. row.status \in Service!OrderStatus
    BY DEF Service!Rows
<1> QED BY <1>1 DEF Service!MayAccept, Service!MayReject, Service!MayComplete, Service!MayCancel,
           Service!MaySetCredentials, Service!MayConfirmPayment, Service!CanTransition,
           Service!AllowedTransitions, Service!OrderStatus, Service!CredentialStatuses

\* What the use cases leave of a row.
LEMMA RowsLeft ==
    ASSUME NEW row \in Service!Rows
    PROVE  /\ Service!PaymentConfirmed(row) \in Service!Rows
           /\ Service!PaymentConfirmed(row).status = "pending_booster"
           /\ Service!PaymentConfirmed(row).booster = row.booster
           /\ Service!ClearedCredentials(row) \in Service!Rows
           /\ Service!ClearedCredentials(row).status = row.status
           /\ Service!ClearedCredentials(row).booster = row.booster
           /\ Service!Completed(row) \in Service!Rows
           /\ Service!Completed(row).status = "completed" /\ Service!Completed(row).booster = row.booster
           /\ Service!Cancelled(row) \in Service!Rows /\ Service!Cancelled(row).status = "cancelled"
           /\ Service!CredentialsStored(row) \in Service!Rows
           /\ Service!CredentialsStored(row).status = row.status
           /\ Service!CredentialsStored(row).booster = row.booster
<1>1. {"pending_booster", "in_progress", "completed", "cancelled"} \subseteq Service!OrderStatus
    BY DEF Service!OrderStatus
<1>2. row.booster \in PageBoosters \cup {Unassigned}
    BY DEF Service!Rows
<1>3. ASSUME NEW r \in Service!Rows
      PROVE  \A v \in BOOLEAN : LET new == [r EXCEPT !.creds = v] IN
                new \in Service!Rows /\ new.status = r.status /\ new.booster = r.booster
    BY DEF Service!Rows
<1>4. ASSUME NEW r \in Service!Rows
      PROVE  \A s \in Service!OrderStatus : LET new == [r EXCEPT !.status = s] IN
                new \in Service!Rows /\ new.status = s /\ new.booster = r.booster
    BY DEF Service!Rows
<1>6. TRUE \in BOOLEAN /\ FALSE \in BOOLEAN
    BY Zenon
<1>7. /\ Service!ClearedCredentials(row) \in Service!Rows
      /\ Service!ClearedCredentials(row).status = row.status
      /\ Service!ClearedCredentials(row).booster = row.booster
    BY <1>3, <1>6, Zenon DEF Service!ClearedCredentials
<1>8. /\ Service!CredentialsStored(row) \in Service!Rows
      /\ Service!CredentialsStored(row).status = row.status
      /\ Service!CredentialsStored(row).booster = row.booster
    BY <1>3, <1>6, Zenon DEF Service!CredentialsStored
<1>9. /\ Service!PaymentConfirmed(row) \in Service!Rows
      /\ Service!PaymentConfirmed(row).status = "pending_booster"
      /\ Service!PaymentConfirmed(row).booster = row.booster
    BY <1>1, <1>4 DEF Service!PaymentConfirmed
<1>10. /\ Service!Completed(row) \in Service!Rows
       /\ Service!Completed(row).status = "completed" /\ Service!Completed(row).booster = row.booster
    BY <1>1, <1>4, <1>7 DEF Service!Completed
<1>11. Service!Cancelled(row) \in Service!Rows /\ Service!Cancelled(row).status = "cancelled"
    BY <1>1, <1>4, <1>7 DEF Service!Cancelled
<1> QED BY <1>7, <1>8, <1>9, <1>10, <1>11

LEMMA RowsOfBoosters ==
    ASSUME NEW row \in Service!Rows, NEW b \in PageBoosters
    PROVE  /\ Service!Accepted(row, b) \in Service!Rows
           /\ Service!Accepted(row, b).status = "in_progress" /\ Service!Accepted(row, b).booster = b
           /\ Service!Rejected(row, b) \in Service!Rows
           /\ Service!Rejected(row, b).status = row.status
           /\ Service!Rejected(row, b).booster = (IF row.booster = b THEN Unassigned ELSE row.booster)
<1>1. /\ Service!Accepted(row, b) \in Service!Rows
      /\ Service!Accepted(row, b).status = "in_progress" /\ Service!Accepted(row, b).booster = b
    BY DEF Service!Accepted, Service!Rows, Service!OrderStatus
<1> DEFINE u == IF row.booster = b THEN Unassigned ELSE row.booster
<1>2. u \in PageBoosters \cup {Unassigned} /\ Service!Rejected(row, b) = [row EXCEPT !.booster = u]
    BY DEF Service!Rejected, Service!Rows
<1> HIDE DEF u
<1>3. /\ [row EXCEPT !.booster = u] \in Service!Rows /\ [row EXCEPT !.booster = u].status = row.status
      /\ [row EXCEPT !.booster = u].booster = u
    BY <1>2 DEF Service!Rows
<1> QED BY <1>1, <1>2, <1>3 DEF u

ShopTypes ==
    /\ shop \in [PageOrders -> Service!Rows] /\ declined \in [PageOrders -> SUBSET PageBoosters]
    /\ lapsed \subseteq PageOrders
    /\ payout \in [PageOrders -> {"none", "locked", "released"}]

\* An order in the hands of a booster, one that waits for the booster it was
\* meant for, and one with money to be paid out.
RowMakesSense(row, refused, paid) ==
    /\ row.status \in {"in_progress", "completed"} => row.booster \in PageBoosters
    /\ row.status \in {"awaiting_payment", "pending_booster"} => row.booster \notin refused
    /\ paid = "locked" => row.status = "completed"
ShopInv == ShopTypes /\ \A o \in PageOrders : RowMakesSense(shop[o], declined[o], payout[o])

\* The step changed the records of the order o and of no other.
OnlyChanged(o) ==
    \A x \in PageOrders \ {o} :
        shop'[x] = shop[x] /\ declined'[x] = declined[x] /\ payout'[x] = payout[x]

LEMMA OneOrderChanges ==
    ASSUME ShopInv, NEW o \in PageOrders, NEW row \in Service!Rows, NEW refused \in SUBSET PageBoosters,
           NEW paid \in {"none", "locked", "released"}, RowMakesSense(row, refused, paid),
           shop' = [shop EXCEPT ![o] = row], declined' = [declined EXCEPT ![o] = refused],
           payout' = [payout EXCEPT ![o] = paid], lapsed' \subseteq PageOrders
    PROVE  ShopInv' /\ OnlyChanged(o)
<1>1. /\ shop' \in [PageOrders -> Service!Rows] /\ declined' \in [PageOrders -> SUBSET PageBoosters]
      /\ payout' \in [PageOrders -> {"none", "locked", "released"}]
      /\ OnlyChanged(o) /\ shop'[o] = row /\ declined'[o] = refused /\ payout'[o] = paid
    BY DEF ShopInv, ShopTypes, OnlyChanged
<1>2. \A x \in PageOrders : RowMakesSense(shop'[x], declined'[x], payout'[x])
    BY <1>1 DEF ShopInv, OnlyChanged
<1> QED BY <1>1, <1>2 DEF ShopInv, ShopTypes

LEMMA CarriedOut ==
    ASSUME ShopInv, NEW who, NEW operation \in Operations, NEW o \in PageOrders,
           CarryOut(who, operation, o), operation \in {"accept", "reject"} => who \in PageBoosters
    PROVE  /\ ShopInv' /\ OnlyChanged(o)
           /\ operation \in {"reveal", "resume"} => UNCHANGED <<shop, declined, payout>>
<1> DEFINE old == shop[o]
           refused == declined[o]
           paid == payout[o]
<1>1. /\ old \in Service!Rows /\ refused \in SUBSET PageBoosters
      /\ paid \in {"none", "locked", "released"} /\ lapsed' \subseteq PageOrders
      /\ RowMakesSense(old, refused, paid)
      /\ shop = [shop EXCEPT ![o] = old] /\ declined = [declined EXCEPT ![o] = refused]
      /\ payout = [payout EXCEPT ![o] = paid]
    BY DEF ShopInv, ShopTypes, CarryOut
<1>2. CASE Reads(operation, o)
  <2>1. UNCHANGED <<shop, declined, payout>>
      BY <1>2 DEF Reads
  <2> QED BY <1>1, <2>1 DEF ShopInv, ShopTypes, OnlyChanged
<1>3. CASE Completes(who, operation, o)
  <2> DEFINE row == Service!Completed(old)
  <2>1. /\ operation = "complete" /\ shop' = [shop EXCEPT ![o] = row]
        /\ declined' = [declined EXCEPT ![o] = refused] /\ Service!MayComplete(old, who)
      BY <1>1, <1>3 DEF Completes, Service!ServiceComplete, Service!Write
  <2>2. PICK credited \in {"none", "locked"} : payout' = [payout EXCEPT ![o] = credited]
      BY <1>3 DEF Completes
  <2> HIDE DEF old, refused, paid
  <2>3. old.status = "in_progress"
      BY <1>1, <2>1, WhatAnOrderMayDo
  <2>4. row \in Service!Rows /\ row.status = "completed" /\ row.booster = old.booster
      BY <1>1, RowsLeft
  <2> HIDE DEF row
  <2>5. RowMakesSense(row, refused, credited)
      BY <1>1, <2>3, <2>4 DEF RowMakesSense
  <2>6. credited \in {"none", "locked", "released"}
      BY <2>2
  <2>7. ShopInv' /\ OnlyChanged(o)
      BY <1>1, <2>1, <2>2, <2>4, <2>5, <2>6, OneOrderChanges
  <2> QED BY <2>1, <2>7
<1>4. CASE Releases(operation, o)
  <2> DEFINE freed == "released"
  <2>1. /\ operation = "release" /\ payout' = [payout EXCEPT ![o] = freed]
        /\ shop' = [shop EXCEPT ![o] = old] /\ declined' = [declined EXCEPT ![o] = refused]
      BY <1>1, <1>4 DEF Releases
  <2> HIDE DEF old, refused, paid
  <2>2. RowMakesSense(old, refused, freed) /\ freed \in {"none", "locked", "released"}
      BY <1>1 DEF RowMakesSense
  <2> HIDE DEF freed
  <2>3. ShopInv' /\ OnlyChanged(o)
      BY <1>1, <2>1, <2>2, OneOrderChanges
  <2> QED BY <2>1, <2>3
<1>5. CASE Moves(who, operation, o)
  <2>0. payout' = [payout EXCEPT ![o] = paid]
      BY <1>1, <1>5 DEF Moves
  <2>1. CASE operation = "accept" /\ Service!ServiceAccept(o, who)
    <3> DEFINE row == Service!Accepted(old, who)
    <3>1. /\ shop' = [shop EXCEPT ![o] = row] /\ declined' = [declined EXCEPT ![o] = refused]
          /\ Service!MayAccept(old, who) /\ who \in PageBoosters
        BY <1>1, <2>1 DEF Service!ServiceAccept, Service!Write
    <3> HIDE DEF old, refused, paid
    <3>2. row \in Service!Rows /\ row.status = "in_progress" /\ row.booster = who
        BY <1>1, <3>1, RowsOfBoosters
    <3>3. old.status = "pending_booster"
        BY <1>1, <3>1, WhatAnOrderMayDo
    <3> HIDE DEF row
    <3>4. RowMakesSense(row, refused, paid)
        BY <1>1, <3>1, <3>2, <3>3 DEF RowMakesSense
    <3>5. ShopInv' /\ OnlyChanged(o)
        BY <1>1, <2>0, <3>1, <3>2, <3>4, OneOrderChanges
    <3> QED BY <2>1, <3>5
  <2>2. CASE operation = "reject" /\ Service!ServiceReject(o, who)
    <3> DEFINE row == Service!Rejected(old, who)
               more == refused \cup {who}
    <3>1. /\ shop' = [shop EXCEPT ![o] = row] /\ declined' = [declined EXCEPT ![o] = more]
          /\ Service!MayReject(old, who) /\ who \in PageBoosters
        BY <1>1, <2>2 DEF Service!ServiceReject, Service!Write
    <3> HIDE DEF old, refused, paid
    <3>2. /\ row \in Service!Rows /\ row.status = old.status
          /\ row.booster = (IF old.booster = who THEN Unassigned ELSE old.booster)
        BY <1>1, <3>1, RowsOfBoosters
    <3>3. old.status = "pending_booster" /\ old.booster \in {Unassigned, who}
        BY <1>1, <3>1, WhatAnOrderMayDo
    <3>4. more \in SUBSET PageBoosters /\ Unassigned \notin more
        BY <1>1, <3>1, OrderPagesAssumption
    <3> HIDE DEF row, more
    <3>5. row.booster = Unassigned
        BY <3>2, <3>3
    <3>6. RowMakesSense(row, more, paid)
        BY <1>1, <3>2, <3>3, <3>4, <3>5 DEF RowMakesSense
    <3>7. ShopInv' /\ OnlyChanged(o)
        BY <1>1, <2>0, <3>1, <3>2, <3>4, <3>6, OneOrderChanges
    <3> QED BY <2>2, <3>7
  <2>3. CASE operation = "store" /\ Service!ServiceStoreCredentials(o)
    <3> DEFINE row == Service!CredentialsStored(old)
    <3>1. /\ shop' = [shop EXCEPT ![o] = row] /\ declined' = [declined EXCEPT ![o] = refused]
        BY <1>1, <2>3 DEF Service!ServiceStoreCredentials, Service!Write
    <3> HIDE DEF old, refused, paid
    <3>2. row \in Service!Rows /\ row.status = old.status /\ row.booster = old.booster
        BY <1>1, RowsLeft
    <3> HIDE DEF row
    <3>3. RowMakesSense(row, refused, paid)
        BY <1>1, <3>2 DEF RowMakesSense
    <3>4. row \in Service!Rows
        BY <3>2
    <3>5. ShopInv' /\ OnlyChanged(o)
      <4>1. refused \in SUBSET PageBoosters /\ paid \in {"none", "locked", "released"} /\ lapsed' \subseteq PageOrders
          BY <1>1
      <4> QED BY <2>0, <3>1, <3>3, <3>4, <4>1, OneOrderChanges
    <3> QED BY <2>3, <3>5
  <2>4. CASE operation = "cancel" /\ Service!ServiceCancel(o)
    <3> DEFINE row == Service!Cancelled(old)
    <3>1. /\ shop' = [shop EXCEPT ![o] = row] /\ declined' = [declined EXCEPT ![o] = refused]
          /\ Service!MayCancel(old)
        BY <1>1, <2>4 DEF Service!ServiceCancel, Service!Write
    <3> HIDE DEF old, refused, paid
    <3>2. row \in Service!Rows /\ row.status = "cancelled"
        BY <1>1, RowsLeft
    <3>3. old.status \in {"awaiting_payment", "pending_booster"}
        BY <1>1, <3>1, WhatAnOrderMayDo
    <3> HIDE DEF row
    <3>4. RowMakesSense(row, refused, paid)
        BY <1>1, <3>2, <3>3 DEF RowMakesSense
    <3>5. ShopInv' /\ OnlyChanged(o)
        BY <1>1, <2>0, <3>1, <3>2, <3>4, OneOrderChanges
    <3> QED BY <2>4, <3>5
  <2> QED BY <1>5, <2>1, <2>2, <2>3, <2>4 DEF Moves
<1> QED BY <1>2, <1>3, <1>4, <1>5 DEF CarryOut

\* What everybody else does: callers of the API, the gateway and the jobs.
LEMMA ShopChangedElsewhere ==
    ASSUME ShopInv, NEW o \in PageOrders,
           ByOthers(o) \/ PayOrder(o) \/ FailPayment(o) \/ ForgetCredentials(o) \/ ReleaseWhenDue(o)
    PROVE  ShopInv' /\ OnlyChanged(o) /\ Elsewhere(o)
<1> DEFINE old == shop[o]
           refused == declined[o]
           paid == payout[o]
<1>1. /\ old \in Service!Rows /\ refused \in SUBSET PageBoosters
      /\ paid \in {"none", "locked", "released"}
      /\ RowMakesSense(old, refused, paid)
      /\ shop = [shop EXCEPT ![o] = old] /\ declined = [declined EXCEPT ![o] = refused]
      /\ payout = [payout EXCEPT ![o] = paid]
    BY DEF ShopInv, ShopTypes
<1>2. CASE ByOthers(o)
  <2>1. PICK who \in PageBoosters \cup {Buyer, Admin}, operation \in {"accept", "reject", "complete", "store", "cancel", "release"} :
            CarryOut(who, operation, o) /\ (operation \in {"accept", "reject"} => who \in PageBoosters)
      BY <1>2 DEF ByOthers
  <2>2. operation \in Operations
      BY DEF Operations
  <2>3. ShopInv' /\ OnlyChanged(o)
      BY <2>1, <2>2, CarriedOut
  <2> QED BY <1>2, <2>3 DEF ByOthers
<1>3. CASE PayOrder(o)
  <2> DEFINE row == Service!PaymentConfirmed(old)
  <2>1. /\ shop' = [shop EXCEPT ![o] = row] /\ declined' = [declined EXCEPT ![o] = refused]
        /\ payout' = [payout EXCEPT ![o] = paid] /\ lapsed' \subseteq PageOrders
        /\ Service!MayConfirmPayment(old)
      BY <1>1, <1>3 DEF PayOrder, Service!ServicePay, Service!Write, ShopInv, ShopTypes
  <2> HIDE DEF old, refused, paid
  <2>2. row \in Service!Rows /\ row.status = "pending_booster" /\ row.booster = old.booster
      BY <1>1, RowsLeft
  <2>3. old.status = "awaiting_payment"
      BY <1>1, <2>1, WhatAnOrderMayDo
  <2> HIDE DEF row
  <2>4. RowMakesSense(row, refused, paid)
      BY <1>1, <2>2, <2>3 DEF RowMakesSense
  <2>5. ShopInv' /\ OnlyChanged(o)
      BY <1>1, <2>1, <2>2, <2>4, OneOrderChanges
  <2> QED BY <1>3, <2>5 DEF PayOrder
<1>4. CASE FailPayment(o) \/ ForgetCredentials(o)
  <2> DEFINE row == Service!ClearedCredentials(old)
  <2>1. /\ shop' = [shop EXCEPT ![o] = row] /\ declined' = [declined EXCEPT ![o] = refused]
        /\ payout' = [payout EXCEPT ![o] = paid] /\ lapsed' \subseteq PageOrders
      BY <1>1, <1>4 DEF FailPayment, ForgetCredentials, Service!ServiceClearCredentials, Service!Write,
            ShopInv, ShopTypes
  <2> HIDE DEF old, refused, paid
  <2>2. row \in Service!Rows /\ row.status = old.status /\ row.booster = old.booster
      BY <1>1, RowsLeft
  <2> HIDE DEF row
  <2>3. RowMakesSense(row, refused, paid)
      BY <1>1, <2>2 DEF RowMakesSense
  <2>4. row \in Service!Rows
      BY <2>2
  <2>5. ShopInv' /\ OnlyChanged(o)
    <3>1. refused \in SUBSET PageBoosters /\ paid \in {"none", "locked", "released"}
        BY <1>1
    <3> QED BY <2>1, <2>3, <2>4, <3>1, OneOrderChanges
  <2> QED BY <1>4, <2>5 DEF FailPayment, ForgetCredentials
<1>5. CASE ReleaseWhenDue(o)
  <2> DEFINE freed == "released"
  <2>1. /\ payout' = [payout EXCEPT ![o] = freed] /\ lapsed' \subseteq PageOrders
        /\ shop' = [shop EXCEPT ![o] = old] /\ declined' = [declined EXCEPT ![o] = refused]
      BY <1>1, <1>5 DEF ReleaseWhenDue, ShopInv, ShopTypes
  <2> HIDE DEF old, refused, paid
  <2>2. RowMakesSense(old, refused, freed) /\ freed \in {"none", "locked", "released"}
      BY <1>1 DEF RowMakesSense
  <2> HIDE DEF freed
  <2>3. ShopInv' /\ OnlyChanged(o)
      BY <1>1, <2>1, <2>2, OneOrderChanges
  <2> QED BY <1>5, <2>3 DEF ReleaseWhenDue
<1> QED BY <1>2, <1>3, <1>4, <1>5

\* The condition on a row under which a page offers an operation.
Stands(viewer, operation, row, paid) ==
    /\ operation \in {"accept", "reject"} => row.status = "pending_booster" /\ row.booster \in {Unassigned, viewer}
    /\ operation \in {"complete", "reveal"} => row.status = "in_progress" /\ row.booster = viewer
    /\ operation = "resume" => row.status = "awaiting_payment"
    /\ operation = "store" => row.status \in {"pending_booster", "in_progress"}
    /\ operation = "release" => paid = "locked" /\ row.status = "completed"
    /\ operation = "cancel" => row.status # "cancelled"
OffersStand ==
    \A offer \in page.offers : offer[2] \notin page.changed =>
        Stands(page.viewer, offer[1], shop[offer[2]], payout[offer[2]])

RouteExists(viewer, path, to) ==
    /\ viewer \in Viewers /\ path \in Paths /\ to \in PageOrders \cup {0}
    /\ viewer \in PageBoosters => path \in {"queue", "work", "order"}
    /\ viewer \notin PageBoosters => path \in {"list", "order"}
    /\ path = "order" => to \in PageOrders
PageMakesSense ==
    /\ RouteExists(page.viewer, page.path, page.to)
    /\ page.queries \subseteq QueriesOf(page.viewer, page.path)
    /\ ~page.found => page.viewer \in PageBoosters /\ page.path = "order"
    /\ \A offer \in page.offers : offer[1] \in {"accept", "reject"} => page.viewer \in PageBoosters

LeadsToWork(b, o) == InWork(b, o, "active") \/ InWork(b, o, "completed")
LinksLead ==
    page.viewer \in PageBoosters /\ page.changed = {} =>
        \A o \in PageOrders : <<"open", o>> \in page.offers => LeadsToWork(page.viewer, o)

StatusOf(query) == IF query = "active" THEN "in_progress" ELSE "completed"
Newer(b, changed, to) == {p \in Held(b) \cup changed : p > to}
SearchedFor ==
    ~page.found => \A query \in {"active", "completed"} \ page.queries :
        \/ page.to \in page.changed
        \/ page.to \notin OrdersOf(page.viewer, StatusOf(query))
        \/ Cardinality(Newer(page.viewer, page.changed, page.to)) >= WorkLimit

PageInv == page \in PageRecords /\ PageMakesSense /\ OffersStand /\ LinksLead /\ SearchedFor

LEMMA WhatIsOffered ==
    ASSUME ShopInv, NEW v, NEW path, NEW to, RouteExists(v, path, to), NEW query, NEW offer \in Offers(v, path, to, query)
    PROVE  /\ offer \in (Operations \cup {"open"}) \X PageOrders
           /\ Stands(v, offer[1], shop[offer[2]], payout[offer[2]])
           /\ offer[1] \in {"accept", "reject"} => v \in PageBoosters
           /\ offer[1] = "open" /\ v \in PageBoosters => LeadsToWork(v, offer[2])
<1>1. /\ v \in PageBoosters \cup {Buyer, Admin} /\ Buyer # Admin /\ {Buyer, Admin} \cap PageBoosters = {}
    BY OrderPagesAssumption DEF RouteExists
<1>2. \A b \in PageBoosters : /\ ActiveWork(b) \subseteq OrdersOf(b, "in_progress")
                             /\ CompletedWork(b) \subseteq OrdersOf(b, "completed")
    BY DEF ActiveWork, CompletedWork, Newest
<1>3. \A b, s : \A o \in OrdersOf(b, s) : o \in PageOrders /\ shop[o].status = s /\ shop[o].booster = b
    BY DEF OrdersOf
<1>4. CASE v \in PageBoosters /\ path = "queue"
  <2>1. offer \in Each({"accept", "reject"}, Available(v))
      BY <1>4 DEF Offers, QueueOffers
  <2>2. PICK x \in {"accept", "reject"}, o \in Available(v) : offer = <<x, o>>
      BY <2>1 DEF Each
  <2>3. o \in PageOrders /\ shop[o].status = "pending_booster" /\ shop[o].booster \in {Unassigned, v}
      BY DEF Available
  <2> QED BY <1>4, <2>2, <2>3 DEF Stands, Operations
<1>5. CASE v \in PageBoosters /\ path = "work"
  <2>1. offer \in WorkOffers(v, query)
      BY <1>5 DEF Offers
  <2>2. CASE query = "active"
    <3>1. PICK x \in {"complete", "open"}, o \in ActiveWork(v) : offer = <<x, o>>
        BY <2>1, <2>2 DEF Each, WorkOffers
    <3>2. o \in PageOrders /\ shop[o].status = "in_progress" /\ shop[o].booster = v
        BY <1>2, <1>3, <1>5
    <3>3. LeadsToWork(v, o)
        BY DEF LeadsToWork, InWork
    <3> QED BY <3>1, <3>2, <3>3 DEF Stands, Operations
  <2>3. CASE query # "active"
    <3>1. PICK o \in CompletedWork(v) : offer = <<"open", o>>
        BY <2>1, <2>3 DEF Each, WorkOffers
    <3>2. o \in PageOrders
        BY <1>2, <1>3, <1>5
    <3>3. InWork(v, o, "completed")
        BY DEF InWork
    <3> QED BY <3>1, <3>2, <3>3 DEF Stands, Operations, LeadsToWork
  <2> QED BY <2>2, <2>3
<1>6. CASE v \in PageBoosters /\ path = "order"
  <2>1. offer \in BoosterOrderOffers(v, to, query)
      BY <1>1, <1>6 DEF Offers
  <2>2. PICK x \in {"complete", "reveal"}, o \in ActiveWork(v) : offer = <<x, o>>
      BY <2>1 DEF BoosterOrderOffers, Each
  <2>3. o \in PageOrders /\ shop[o].status = "in_progress" /\ shop[o].booster = v
      BY <1>2, <1>3, <1>6
  <2> QED BY <2>2, <2>3 DEF Stands, Operations
<1>7. CASE v = Buyer /\ path = "list"
  <2>1. offer \in Each({"open"}, Newest(PageOrders, ClientLimit))
      BY <1>1, <1>7 DEF Offers, ClientListOffers
  <2>2. PICK x \in {"open"}, o \in PageOrders : offer = <<x, o>>
      BY <2>1 DEF Each, Newest
  <2> QED BY <1>1, <1>7, <2>2 DEF Stands
<1>8. CASE v = Buyer /\ path = "order"
  <2>0. to \in PageOrders
      BY <1>8 DEF RouteExists
  <2>1. offer \in ClientOrderOffers(to)
      BY <1>1, <1>8 DEF Offers
  <2>2. PICK x \in {"resume", "store"} : offer = <<x, to>>
      BY <2>1 DEF ClientOrderOffers, Each
  <2>3. /\ x = "resume" => shop[to].status = "awaiting_payment"
        /\ x = "store" => shop[to].status \in {"pending_booster", "in_progress"}
      BY <2>1, <2>2 DEF ClientOrderOffers, NeedsCredentials
  <2> QED BY <2>0, <2>2, <2>3 DEF Stands, Operations
<1>9. CASE v = Admin /\ path = "list"
  <2>1. offer \in Each({"open"}, Newest(PageOrders, AdminLimit))
      BY <1>1, <1>9 DEF Offers, AdminListOffers
  <2>2. PICK x \in {"open"}, o \in PageOrders : offer = <<x, o>>
      BY <2>1 DEF Each, Newest
  <2> QED BY <1>1, <1>9, <2>2 DEF Stands
<1>10. CASE v = Admin /\ path = "order"
  <2>0. to \in PageOrders
      BY <1>10 DEF RouteExists
  <2>1. offer \in AdminOrderOffers(to)
      BY <1>1, <1>10 DEF Offers
  <2>2. PICK x \in {"release", "cancel"} : offer = <<x, to>>
      BY <2>1 DEF AdminOrderOffers, Each
  <2>3. /\ x = "release" => payout[to] = "locked" /\ shop[to].status = "completed"
        /\ x = "cancel" => shop[to].status # "cancelled"
      BY <2>1, <2>2 DEF AdminOrderOffers, ReleaseIsDisabled, CancelIsDisabled
  <2> QED BY <2>0, <2>2, <2>3 DEF Stands, Operations
<1> QED BY <1>1, <1>4, <1>5, <1>6, <1>7, <1>8, <1>9, <1>10 DEF RouteExists

\* A page that has just been asked for offers nothing yet.
Findable(viewer, path) == viewer \notin PageBoosters \/ path # "order"
LEMMA AskedPage ==
    ASSUME NEW v, NEW path, NEW to, RouteExists(v, path, to), page' = Asked(v, path, to)
    PROVE  PageInv'
<1> DEFINE q == QueriesOf(v, path)
           f == Findable(v, path)
           new(w) == [viewer |-> v, path |-> path, to |-> to, queries |-> q, offers |-> {},
                      found |-> w, changed |-> {}]
<1>1. q \in SUBSET Queries
    BY DEF QueriesOf, Queries
<1>2. f \in BOOLEAN
    BY Zenon DEF Findable
<1>3. page' = new(f)
    BY Zenon DEF Asked, Findable
<1>4. \A w \in BOOLEAN : new(w) \in PageRecords
  <2> HIDE DEF q
  <2> QED BY <1>1 DEF PageRecords, RouteExists
<1>5. \A w : /\ new(w).viewer = v /\ new(w).path = path /\ new(w).to = to /\ new(w).queries = q
             /\ new(w).offers = {} /\ new(w).changed = {} /\ new(w).found = w
    OBVIOUS
<1> HIDE DEF new, q, f
<1>6. /\ page' \in PageRecords /\ page'.viewer = v /\ page'.path = path /\ page'.to = to
      /\ page'.queries = q /\ page'.offers = {} /\ page'.changed = {} /\ page'.found = f
    BY <1>2, <1>3, <1>4, <1>5, Zenon
<1>7. PageMakesSense'
    BY <1>6 DEF PageMakesSense, Findable, q, f
<1>8. OffersStand' /\ LinksLead'
    BY <1>6 DEF OffersStand, LinksLead
<1>9. SearchedFor'
  <2> SUFFICES ASSUME ~page'.found PROVE {"active", "completed"} \ page'.queries = {}
      BY DEF SearchedFor
  <2>1. v \in PageBoosters /\ path = "order"
      BY <1>6 DEF f, Findable
  <2> QED BY <1>6, <2>1 DEF q, QueriesOf
<1> QED BY <1>6, <1>7, <1>8, <1>9 DEF PageInv

LEMMA AskedPageIs ==
    ASSUME NEW v, NEW path, NEW to, RouteExists(v, path, to), page = Asked(v, path, to)
    PROVE  PageInv
<1> DEFINE q == QueriesOf(v, path)
           f == Findable(v, path)
           new(w) == [viewer |-> v, path |-> path, to |-> to, queries |-> q, offers |-> {},
                      found |-> w, changed |-> {}]
<1>1. q \in SUBSET Queries
    BY DEF QueriesOf, Queries
<1>2. f \in BOOLEAN
    BY Zenon DEF Findable
<1>3. page = new(f)
    BY Zenon DEF Asked, Findable
<1>4. \A w \in BOOLEAN : new(w) \in PageRecords
  <2> HIDE DEF q
  <2> QED BY <1>1 DEF PageRecords, RouteExists
<1>5. \A w : /\ new(w).viewer = v /\ new(w).path = path /\ new(w).to = to /\ new(w).queries = q
             /\ new(w).offers = {} /\ new(w).changed = {} /\ new(w).found = w
    OBVIOUS
<1> HIDE DEF new, q, f
<1>6. /\ page \in PageRecords /\ page.viewer = v /\ page.path = path /\ page.to = to
      /\ page.queries = q /\ page.offers = {} /\ page.changed = {} /\ page.found = f
    BY <1>2, <1>3, <1>4, <1>5, Zenon
<1>7. PageMakesSense
    BY <1>6 DEF PageMakesSense, Findable, q, f
<1>8. OffersStand /\ LinksLead
    BY <1>6 DEF OffersStand, LinksLead
<1>9. SearchedFor
  <2> SUFFICES ASSUME ~page.found PROVE {"active", "completed"} \ page.queries = {}
      BY DEF SearchedFor
  <2>1. v \in PageBoosters /\ path = "order"
      BY <1>6 DEF f, Findable
  <2> QED BY <1>6, <2>1 DEF q, QueriesOf
<1> QED BY <1>6, <1>7, <1>8, <1>9 DEF PageInv

LEMMA NewerOrders ==
    ASSUME NEW b, NEW set \in SUBSET PageOrders, NEW to, NEW limit \in Nat
    PROVE  /\ Cardinality({p \in set : p > to}) \in Nat
           /\ \A more \in SUBSET PageOrders : set \subseteq more /\ Cardinality({p \in set : p > to}) >= limit =>
                Cardinality({p \in more : p > to}) >= limit
<1> DEFINE these == {p \in set : p > to}
<1>1. IsFiniteSet(PageOrders)
    BY OrderPagesAssumption
<1>2. IsFiniteSet(these) /\ Cardinality(these) \in Nat
    BY <1>1, FS_Subset, FS_CardinalityType
<1>3. ASSUME NEW more \in SUBSET PageOrders, set \subseteq more, Cardinality(these) >= limit
      PROVE  Cardinality({p \in more : p > to}) >= limit
  <2> DEFINE those == {p \in more : p > to}
  <2>1. IsFiniteSet(those) /\ these \subseteq those
      BY <1>1, <1>3, FS_Subset
  <2> HIDE DEF these, those
  <2>2. Cardinality(these) <= Cardinality(those) /\ Cardinality(those) \in Nat
      BY <2>1, FS_Subset, FS_CardinalityType
  <2>3. Cardinality(those) >= limit
      BY <1>2, <1>3, <2>2
  <2> QED BY <2>3 DEF those
<1> QED BY <1>2, <1>3

LEMMA HeldOrders ==
    ASSUME NEW b PROVE Held(b) \subseteq PageOrders
    BY DEF Held, OrdersOf

LEMMA StaleFields ==
    ASSUME page \in PageRecords, NEW o \in PageOrders
    PROVE  /\ Stale(o) \in PageRecords /\ Stale(o).viewer = page.viewer /\ Stale(o).path = page.path
           /\ Stale(o).to = page.to /\ Stale(o).queries = page.queries /\ Stale(o).offers = page.offers
           /\ Stale(o).found = page.found /\ Stale(o).changed = page.changed \cup {o}
    BY DEF Stale, PageRecords

LEMMA StalePage ==
    ASSUME PageInv, NEW o \in PageOrders, OnlyChanged(o), page' = Stale(o)
    PROVE  PageInv'
<1>1. /\ page' \in PageRecords /\ page'.viewer = page.viewer /\ page'.path = page.path
      /\ page'.to = page.to /\ page'.queries = page.queries /\ page'.offers = page.offers
      /\ page'.found = page.found /\ page'.changed = page.changed \cup {o}
    BY StaleFields DEF PageInv
<1>2. PageMakesSense'
    BY <1>1 DEF PageInv, PageMakesSense
<1>3. \A x \in PageOrders : x \notin page'.changed => shop'[x] = shop[x] /\ payout'[x] = payout[x]
    BY <1>1 DEF OnlyChanged
<1>4. \A offer \in page.offers : offer[2] \in PageOrders
    BY DEF PageInv, PageRecords
<1>5. OffersStand'
    BY <1>1, <1>3, <1>4 DEF PageInv, OffersStand
<1>6. LinksLead'
    BY <1>1 DEF LinksLead
<1>7. SearchedFor'
  <2> SUFFICES ASSUME ~page.found, NEW query \in {"active", "completed"} \ page.queries,
                      page.to \notin page'.changed,
                      page.to \in {x \in PageOrders : shop'[x].status = StatusOf(query) /\ shop'[x].booster = page.viewer}
               PROVE  Cardinality(Newer(page.viewer, page.changed, page.to)') >= WorkLimit
      BY <1>1 DEF SearchedFor, OrdersOf, Newer
  <2> DEFINE before == Held(page.viewer) \cup page.changed
             after == Held(page.viewer)' \cup page'.changed
             to == page.to
  <2>1. to \in PageOrders /\ to \notin page.changed /\ to # o
      BY <1>1
  <2>2. to \in OrdersOf(page.viewer, StatusOf(query))
      BY <2>1, <1>3 DEF OrdersOf
  <2>3. Cardinality({p \in before : p > to}) >= WorkLimit
      BY <2>1, <2>2 DEF PageInv, SearchedFor, Newer
  <2>4. before \subseteq PageOrders /\ after \subseteq PageOrders
      BY <1>1, HeldOrders DEF PageInv, PageRecords, Held, OrdersOf
  <2>5. before \subseteq after
    <3> SUFFICES ASSUME NEW p \in before, p \notin page'.changed PROVE p \in Held(page.viewer)'
        OBVIOUS
    <3>1. p \in Held(page.viewer) /\ p \in PageOrders /\ shop'[p] = shop[p]
        BY <1>1, <1>3, <2>4
    <3> QED BY <1>1, <3>1 DEF Held, OrdersOf
  <2>6. WorkLimit \in Nat
      BY OrderPagesAssumption
  <2>7. Newer(page.viewer, page.changed, page.to)' = {p \in after : p > to}
      BY <1>1 DEF Newer
  <2> HIDE DEF before, after, to
  <2>8. Cardinality({p \in after : p > to}) >= WorkLimit
      BY <2>3, <2>4, <2>5, <2>6, NewerOrders
  <2> QED BY <2>7, <2>8
<1> QED BY <1>1, <1>2, <1>5, <1>6, <1>7 DEF PageInv

LEMMA SamePage ==
    ASSUME PageInv, UNCHANGED <<shop, declined, payout, page>>
    PROVE  PageInv'
BY DEF PageInv, PageMakesSense, OffersStand, LinksLead, LeadsToWork, InWork, SearchedFor,
       ActiveWork, CompletedWork, Newest, OrdersOf, Newer, Held

LEMMA ReadPage ==
    ASSUME ShopInv, PageInv, NEW query \in Queries, ReadRows(query)
    PROVE  PageInv'
<1> DEFINE v == page.viewer
           more == Offers(v, page.path, page.to, query)
           f == page.found \/ InWork(v, page.to, query)
           new(w) == [page EXCEPT !.queries = @ \ {query}, !.offers = @ \cup more, !.found = w]
<1>1. query \in page.queries /\ page' = new(f) /\ UNCHANGED <<shop, declined, lapsed, payout>>
    BY Zenon DEF ReadRows
<1>2. page \in PageRecords /\ RouteExists(v, page.path, page.to)
    BY DEF PageInv, PageMakesSense
<1>3. \A offer \in more :
        /\ offer \in (Operations \cup {"open"}) \X PageOrders
        /\ Stands(v, offer[1], shop[offer[2]], payout[offer[2]])
        /\ offer[1] \in {"accept", "reject"} => v \in PageBoosters
        /\ offer[1] = "open" /\ v \in PageBoosters => LeadsToWork(v, offer[2])
    BY <1>2, WhatIsOffered
<1>4. f \in BOOLEAN
    BY Zenon
<1> HIDE DEF more
<1>5. \A w \in BOOLEAN : new(w) \in PageRecords
  <2>1. more \subseteq (Operations \cup {"open"}) \X PageOrders
      BY <1>3
  <2> QED BY <1>2, <2>1 DEF PageRecords
<1>6. \A w : /\ new(w).viewer = v /\ new(w).path = page.path /\ new(w).to = page.to
             /\ new(w).queries = page.queries \ {query} /\ new(w).offers = page.offers \cup more
             /\ new(w).changed = page.changed /\ new(w).found = w
    BY <1>2 DEF PageRecords
<1> HIDE DEF new, f, v
<1>7. /\ page' \in PageRecords /\ page'.viewer = v /\ page'.path = page.path /\ page'.to = page.to
      /\ page'.queries = page.queries \ {query} /\ page'.offers = page.offers \cup more
      /\ page'.changed = page.changed /\ page'.found = f
    BY <1>1, <1>4, <1>5, <1>6, Zenon
<1>8. v = page.viewer /\ (~f => ~page.found /\ ~InWork(v, page.to, query))
    BY DEF v, f
<1>9. PageMakesSense'
    BY <1>3, <1>7, <1>8 DEF PageInv, PageMakesSense
<1>10. OffersStand'
    BY <1>1, <1>3, <1>7, <1>8 DEF PageInv, OffersStand
<1>11. LinksLead'
  <2>1. page.viewer \in PageBoosters /\ page.changed = {} =>
          \A o \in PageOrders : <<"open", o>> \in page.offers \cup more => LeadsToWork(page.viewer, o)
    <3> SUFFICES ASSUME page.viewer \in PageBoosters, page.changed = {}, NEW o \in PageOrders,
                        <<"open", o>> \in page.offers \cup more
                 PROVE  LeadsToWork(page.viewer, o)
        OBVIOUS
    <3>1. CASE <<"open", o>> \in page.offers
        BY <3>1 DEF PageInv, LinksLead
    <3>2. CASE <<"open", o>> \in more
        BY <1>3, <1>8, <3>2
    <3> QED BY <3>1, <3>2
  <2>2. /\ page'.viewer = page.viewer /\ page'.changed = page.changed /\ page'.offers = page.offers \cup more
        /\ shop' = shop
      BY <1>1, <1>7, <1>8
  <2> QED BY <2>1, <2>2 DEF LinksLead, LeadsToWork, InWork, ActiveWork, CompletedWork, Newest, OrdersOf
<1>12. SearchedFor'
  <2> SUFFICES ASSUME ~f, NEW other \in {"active", "completed"} \ (page.queries \ {query}),
                      page.to \notin page.changed, page.to \in OrdersOf(v, StatusOf(other))
               PROVE  Cardinality(Newer(v, page.changed, page.to)) >= WorkLimit
      BY <1>1, <1>7, <1>8 DEF SearchedFor, OrdersOf, Newer, Held
  <2>1. CASE other # query
      BY <1>8, <2>1 DEF PageInv, SearchedFor
  <2>2. CASE other = query
    <3> DEFINE set == OrdersOf(v, StatusOf(query))
               all == Held(v) \cup page.changed
               to == page.to
    <3>1. to \notin Newest(set, WorkLimit) /\ to \in set
        BY <1>8, <2>2 DEF InWork, ActiveWork, CompletedWork, StatusOf
    <3>2. set \subseteq PageOrders /\ set \subseteq all /\ all \subseteq PageOrders /\ WorkLimit \in Nat
        BY <1>2, <2>2, HeldOrders, OrderPagesAssumption DEF OrdersOf, Held, StatusOf, PageRecords
    <3> HIDE DEF set, all, to
    <3>3. Cardinality({p \in set : p > to}) \in Nat
        BY <3>2, NewerOrders
    <3>4. Cardinality({p \in set : p > to}) >= WorkLimit
        BY <3>1, <3>2, <3>3 DEF Newest
    <3>5. Cardinality({p \in all : p > to}) >= WorkLimit
        BY <3>2, <3>4, NewerOrders
    <3> QED BY <3>5 DEF Newer, all, to
  <2> QED BY <2>1, <2>2
<1> QED BY <1>7, <1>9, <1>10, <1>11, <1>12 DEF PageInv

LEMMA OrderPagesStart == ASSUME OrderPagesInit PROVE ShopInv /\ PageInv
<1>1. /\ shop \in [PageOrders -> {Service!DraftRow(b) : b \in PageBoosters \cup {Unassigned}}]
      /\ declined = [o \in PageOrders |-> {}] /\ payout = [o \in PageOrders |-> "none"] /\ lapsed = {}
    BY DEF OrderPagesInit, Service!ServiceInit
<1>2. \A b \in PageBoosters \cup {Unassigned} :
        Service!DraftRow(b) \in Service!Rows /\ Service!DraftRow(b).status = "awaiting_payment"
  <2>1. FALSE \in BOOLEAN
      BY Zenon
  <2>2. ASSUME NEW b \in PageBoosters \cup {Unassigned}
        PROVE  \A v \in BOOLEAN : LET row == [status |-> "awaiting_payment", booster |-> b, creds |-> v] IN
                row \in Service!Rows /\ row.status = "awaiting_payment"
      BY DEF Service!Rows, Service!OrderStatus
  <2> QED BY <2>1, <2>2, Zenon DEF Service!DraftRow
<1>3. \A o \in PageOrders : shop[o] \in Service!Rows /\ shop[o].status = "awaiting_payment"
    BY <1>1, <1>2
<1>4. ShopInv
    BY <1>1, <1>3 DEF ShopInv, ShopTypes, RowMakesSense
<1>5. RouteExists(Buyer, "list", 0)
    BY OrderPagesAssumption DEF RouteExists, Paths
<1> DEFINE path == "list"
           to == 0
<1>6. RouteExists(Buyer, path, to) /\ page = Asked(Buyer, path, to)
    BY <1>5 DEF OrderPagesInit
<1> HIDE DEF path, to
<1>7. PageInv
    BY <1>6, AskedPageIs
<1> QED BY <1>4, <1>7

LEMMA OrderPagesStep == ShopInv /\ PageInv /\ [OrderPagesNext]_pageVars => ShopInv' /\ PageInv'
<1> SUFFICES ASSUME ShopInv, PageInv, [OrderPagesNext]_pageVars PROVE ShopInv' /\ PageInv'
    OBVIOUS
<1>0. RouteExists(page.viewer, page.path, page.to) /\ page \in PageRecords
    BY DEF PageInv, PageMakesSense
<1>1. ASSUME NEW o \in PageOrders,
             ByOthers(o) \/ PayOrder(o) \/ FailPayment(o) \/ ForgetCredentials(o) \/ ReleaseWhenDue(o)
      PROVE  ShopInv' /\ PageInv'
  <2>1. ShopInv' /\ OnlyChanged(o) /\ Elsewhere(o)
      BY <1>1, ShopChangedElsewhere
  <2>2. page' = Stale(o)
      BY <2>1 DEF Elsewhere, Stale
  <2>3. PageInv'
      BY <2>1, <2>2, StalePage
  <2> QED BY <2>1, <2>3
<1>2. ASSUME NEW o \in PageOrders, NEW operation \in Operations, Press(operation, o) PROVE ShopInv' /\ PageInv'
  <2>1. operation \in {"accept", "reject"} => page.viewer \in PageBoosters
      BY <1>2 DEF Press, PageInv, PageMakesSense
  <2> DEFINE who == page.viewer
  <2>2. CarryOut(who, operation, o) /\ page' \in Landings(operation, o)
      BY <1>2 DEF Press
  <2> HIDE DEF who
  <2>3. ShopInv' /\ OnlyChanged(o) /\ (operation \in {"reveal", "resume"} => UNCHANGED <<shop, declined, payout>>)
    <3>1. operation \in {"accept", "reject"} => who \in PageBoosters
        BY <2>1 DEF who
    <3> QED BY <2>2, <3>1, CarriedOut
  <2>4. CASE page' = Stale(o)
      BY <2>3, <2>4, StalePage
  <2>5. CASE page' = Again
    <3> DEFINE viewer == page.viewer
               path == page.path
               to == page.to
    <3>1. page' = Asked(viewer, path, to) /\ RouteExists(viewer, path, to)
        BY <1>0, <2>5 DEF Again
    <3> HIDE DEF viewer, path, to
    <3>2. PageInv'
        BY <3>1, AskedPage
    <3> QED BY <2>3, <3>2
  <2>6. CASE operation = "accept"
    <3> DEFINE viewer == page.viewer
               path == "order"
    <3>1. page' = Asked(viewer, path, o) /\ RouteExists(viewer, path, o)
        BY <1>0, <2>1, <2>2, <2>6 DEF Landings, RouteExists, Paths
    <3> HIDE DEF viewer, path
    <3>2. PageInv'
        BY <3>1, AskedPage
    <3> QED BY <2>3, <3>2
  <2>7. CASE operation \in {"reveal", "resume"}
    <3>1. page' = page
        BY <2>2, <2>7 DEF Landings
    <3> QED BY <2>3, <2>7, <3>1, SamePage
  <2>8. operation \in {"reject", "store", "complete", "release", "cancel"} => page' \in {Again, Stale(o)}
      BY <2>2 DEF Landings
  <2> QED BY <2>4, <2>5, <2>6, <2>7, <2>8 DEF Operations
<1>3. ASSUME NEW viewer \in Viewers, AskForList(viewer) PROVE ShopInv' /\ PageInv'
  <2>1. UNCHANGED <<shop, declined, lapsed, payout>>
      BY <1>3 DEF AskForList
  <2>2. ShopInv'
      BY <2>1 DEF ShopInv, ShopTypes
  <2>3. PICK path \in IF viewer \in PageBoosters THEN {"queue", "work"} ELSE {"list"} : page' = Asked(viewer, path, 0)
      BY <1>3 DEF AskForList
  <2> DEFINE to == 0
  <2>4. page' = Asked(viewer, path, to) /\ RouteExists(viewer, path, to)
      BY <2>3 DEF RouteExists, Paths
  <2> HIDE DEF to
  <2>5. PageInv'
      BY <2>4, AskedPage
  <2> QED BY <2>2, <2>5
<1>4. ASSUME NEW viewer \in Viewers, NEW o \in PageOrders, AskForOrder(viewer, o) PROVE ShopInv' /\ PageInv'
  <2>1. UNCHANGED <<shop, declined, lapsed, payout>>
      BY <1>4 DEF AskForOrder
  <2>2. ShopInv'
      BY <2>1 DEF ShopInv, ShopTypes
  <2> DEFINE path == "order"
  <2>3. page' = Asked(viewer, path, o) /\ RouteExists(viewer, path, o)
      BY <1>4 DEF AskForOrder, RouteExists, Paths
  <2> HIDE DEF path
  <2>4. PageInv'
      BY <2>3, AskedPage
  <2> QED BY <2>2, <2>4
<1>5. ASSUME NEW query \in Queries, ReadRows(query) PROVE ShopInv' /\ PageInv'
  <2>1. ShopInv'
      BY <1>5 DEF ReadRows, ShopInv, ShopTypes
  <2>2. PageInv'
      BY <1>5, ReadPage
  <2> QED BY <2>1, <2>2
<1>6. CASE UNCHANGED pageVars
  <2>1. UNCHANGED <<shop, declined, lapsed, payout, page>>
      BY <1>6 DEF pageVars
  <2>2. ShopInv'
      BY <2>1 DEF ShopInv, ShopTypes
  <2>3. PageInv'
      BY <2>1, SamePage
  <2> QED BY <2>2, <2>3
<1> QED BY <1>1, <1>2, <1>3, <1>4, <1>5, <1>6 DEF OrderPagesNext

LEMMA OffersHold == ASSUME ShopInv, PageInv PROVE OffersAreTaken
<1> SUFFICES ASSUME NEW offer \in page.offers, offer[2] \notin page.changed, offer[1] # "open"
             PROVE  \/ Takes(page.viewer, offer[1], offer[2])
                    \/ offer[1] = "reveal" /\ ~shop[offer[2]].creds
                    \/ offer[1] = "resume" /\ offer[2] \in lapsed
                    \/ offer[1] = "cancel" /\ shop[offer[2]].status \in {"in_progress", "completed"}
    BY DEF OffersAreTaken
<1> DEFINE operation == offer[1]
           o == offer[2]
           v == page.viewer
           row == shop[o]
<1>1. operation \in Operations /\ o \in PageOrders
    BY DEF PageInv, PageRecords
<1>2. Stands(v, operation, row, payout[o])
    BY DEF PageInv, OffersStand
<1>3. row \in Service!Rows /\ RowMakesSense(row, declined[o], payout[o]) /\ Unassigned \notin PageBoosters
    BY <1>1, OrderPagesAssumption DEF ShopInv, ShopTypes
<1>4. row.status \in {"awaiting_payment", "pending_booster", "in_progress", "completed", "cancelled"}
    BY <1>3 DEF Service!Rows, Service!OrderStatus
<1> HIDE DEF v
<1>5. \/ Takes(v, operation, o)
      \/ operation = "reveal" /\ ~row.creds
      \/ operation = "resume" /\ o \in lapsed
      \/ operation = "cancel" /\ row.status \in {"in_progress", "completed"}
  <2> HIDE DEF operation, o
  <2>0. /\ Service!MayAccept(row, v) <=> row.booster \in {Unassigned, v} /\ row.status = "pending_booster"
        /\ Service!MayReject(row, v) <=> row.booster \in {Unassigned, v} /\ row.status = "pending_booster"
        /\ Service!MayComplete(row, v) <=> row.booster = v /\ row.status = "in_progress"
        /\ Service!MayCancel(row) <=> row.status \in {"awaiting_payment", "pending_booster"}
        /\ Service!MaySetCredentials(row) <=> row.status \in {"pending_booster", "in_progress"}
    <3> HIDE DEF row
    <3> QED BY <1>3, WhatAnOrderMayDo
  <2>1. CASE operation = "accept"
      BY <1>2, <2>0, <2>1 DEF Takes, Stands
  <2>2. CASE operation = "reject"
      BY <1>2, <2>0, <2>2 DEF Takes, Stands
  <2>3. CASE operation = "complete"
      BY <1>2, <2>0, <2>3 DEF Takes, Stands
  <2>4. CASE operation = "reveal"
      BY <1>2, <2>4 DEF Takes, Stands, MayReveal
  <2>5. CASE operation = "resume"
      BY <1>2, <2>5 DEF Takes, Stands, MayResume
  <2>6. CASE operation = "store"
      BY <1>2, <2>0, <2>6 DEF Takes, Stands
  <2>7. CASE operation = "release"
    <3>1. row.booster \in PageBoosters
        BY <1>2, <1>3, <2>7 DEF Stands, RowMakesSense
    <3> QED BY <1>2, <1>3, <2>7, <3>1 DEF Takes, Stands, MayRelease
  <2>8. CASE operation = "cancel"
      BY <1>2, <1>4, <2>0, <2>8 DEF Takes, Stands
  <2> QED BY <1>1, <2>1, <2>2, <2>3, <2>4, <2>5, <2>6, <2>7, <2>8 DEF Operations
<1> QED BY <1>5 DEF v

LEMMA SomebodyIsAsked == ASSUME ShopInv PROVE LiveOrdersAreInHand
<1> DEFINE CanPress(viewer, path, query, operation, o) ==
                /\ <<operation, o>> \in Offers(viewer, path, o, query)
                /\ Takes(viewer, operation, o)
<1> SUFFICES ASSUME NEW o \in PageOrders
             PROVE  /\ shop[o].status = "awaiting_payment" =>
                        o \in lapsed \/ CanPress(Buyer, "order", "rows", "resume", o)
                    /\ shop[o].status \in {"pending_booster", "in_progress"} /\ ~shop[o].creds =>
                        CanPress(Buyer, "order", "rows", "store", o)
                    /\ shop[o].status = "pending_booster" /\ shop[o].creds =>
                        \/ declined[o] = PageBoosters
                        \/ \E b \in PageBoosters : CanPress(b, "queue", "rows", "accept", o)
                    /\ shop[o].status = "in_progress" =>
                        \/ CanPress(shop[o].booster, "work", "active", "complete", o)
                        \/ Cardinality({p \in OrdersOf(shop[o].booster, "in_progress") : p > o}) >= WorkLimit
                    /\ payout[o] = "locked" => CanPress(Admin, "order", "rows", "release", o)
    BY DEF LiveOrdersAreInHand
<1> DEFINE row == shop[o]
<1>1. row \in Service!Rows /\ RowMakesSense(row, declined[o], payout[o]) /\ declined[o] \subseteq PageBoosters
      /\ row.booster \in PageBoosters \cup {Unassigned} /\ row.creds \in BOOLEAN
    BY DEF ShopInv, ShopTypes, Service!Rows
<1>2. /\ Unassigned \notin PageBoosters /\ Buyer \notin PageBoosters /\ Admin \notin PageBoosters /\ Buyer # Admin
      /\ IsFiniteSet(PageOrders) /\ WorkLimit \in Nat \ {0}
    BY OrderPagesAssumption
<1>3. /\ Service!MaySetCredentials(row) <=> row.status \in {"pending_booster", "in_progress"}
      /\ \A b : /\ Service!MayAccept(row, b) <=> row.booster \in {Unassigned, b} /\ row.status = "pending_booster"
                /\ Service!MayComplete(row, b) <=> row.booster = b /\ row.status = "in_progress"
  <2> HIDE DEF row
  <2> QED BY <1>1, WhatAnOrderMayDo
<1>4. ASSUME row.status = "awaiting_payment", o \notin lapsed
      PROVE  CanPress(Buyer, "order", "rows", "resume", o)
  <2>1. Offers(Buyer, "order", o, "rows") = ClientOrderOffers(o)
      BY <1>2 DEF Offers
  <2>2. <<"resume", o>> \in ClientOrderOffers(o)
      BY <1>4 DEF ClientOrderOffers, Each
  <2>3. Takes(Buyer, "resume", o)
      BY <1>4 DEF Takes, MayResume
  <2> QED BY <2>1, <2>2, <2>3
<1>5. ASSUME row.status \in {"pending_booster", "in_progress"}, ~row.creds
      PROVE  CanPress(Buyer, "order", "rows", "store", o)
  <2>1. Offers(Buyer, "order", o, "rows") = ClientOrderOffers(o)
      BY <1>2 DEF Offers
  <2>2. <<"store", o>> \in ClientOrderOffers(o)
      BY <1>5 DEF ClientOrderOffers, Each, NeedsCredentials
  <2>3. Takes(Buyer, "store", o)
      BY <1>3, <1>5 DEF Takes
  <2> QED BY <2>1, <2>2, <2>3
<1>6. ASSUME row.status = "pending_booster", row.creds, declined[o] # PageBoosters
      PROVE  \E b \in PageBoosters : CanPress(b, "queue", "rows", "accept", o)
  <2>1. PICK b \in PageBoosters : b \notin declined[o] /\ row.booster \in {Unassigned, b}
    <3>1. CASE row.booster = Unassigned
        BY <1>1, <1>6, <3>1
    <3>2. CASE row.booster # Unassigned
        BY <1>1, <1>6, <3>2 DEF RowMakesSense
    <3> QED BY <3>1, <3>2
  <2>2. Offers(b, "queue", o, "rows") = QueueOffers(b)
      BY <1>2 DEF Offers
  <2>3. o \in Available(b)
      BY <1>6, <2>1 DEF Available
  <2>4. <<"accept", o>> \in QueueOffers(b)
      BY <2>3 DEF QueueOffers, Each
  <2>5. Takes(b, "accept", o)
      BY <1>3, <1>6, <2>1 DEF Takes
  <2> QED BY <2>2, <2>4, <2>5
<1>7. ASSUME row.status = "in_progress",
             ~(Cardinality({p \in OrdersOf(row.booster, "in_progress") : p > o}) >= WorkLimit)
      PROVE  CanPress(row.booster, "work", "active", "complete", o)
  <2> DEFINE b == row.booster
             set == OrdersOf(b, "in_progress")
  <2>1. b \in PageBoosters
      BY <1>1, <1>7 DEF RowMakesSense
  <2>2. set \in SUBSET PageOrders /\ o \in set /\ WorkLimit \in Nat
      BY <1>2, <1>7 DEF OrdersOf
  <2>3. o \in ActiveWork(b)
    <3> HIDE DEF set
    <3>1. Cardinality({p \in set : p > o}) \in Nat
        BY <2>2, NewerOrders
    <3>2. Cardinality({p \in set : p > o}) < WorkLimit
        BY <1>7, <2>2, <3>1 DEF set
    <3> QED BY <2>2, <3>2 DEF ActiveWork, Newest, set
  <2> HIDE DEF b, set
  <2>4. Offers(b, "work", o, "active") = WorkOffers(b, "active")
      BY <1>2, <2>1 DEF Offers
  <2>5. <<"complete", o>> \in WorkOffers(b, "active")
      BY <2>3 DEF WorkOffers, Each
  <2>6. Takes(b, "complete", o)
      BY <1>3, <1>7 DEF Takes, b
  <2> QED BY <2>4, <2>5, <2>6 DEF b
<1>8. ASSUME payout[o] = "locked" PROVE CanPress(Admin, "order", "rows", "release", o)
  <2>1. Offers(Admin, "order", o, "rows") = AdminOrderOffers(o)
      BY <1>2 DEF Offers
  <2>2. row.status = "completed" /\ row.booster # Unassigned
      BY <1>1, <1>2, <1>8 DEF RowMakesSense
  <2>3. <<"release", o>> \in AdminOrderOffers(o)
      BY <1>8, <2>2 DEF AdminOrderOffers, Each, ReleaseIsDisabled
  <2>4. Takes(Admin, "release", o)
      BY <1>8, <2>2 DEF Takes, MayRelease
  <2> QED BY <2>1, <2>3, <2>4
<1> QED BY <1>4, <1>5, <1>6, <1>7, <1>8

LEMMA PagesAreThere == ASSUME PageInv PROVE OrderPagesAreFound
<1> SUFFICES ASSUME page.queries = {} PROVE
        /\ ~page.found /\ page.to \in Held(page.viewer) =>
            \/ page.to \in page.changed
            \/ Cardinality({p \in Held(page.viewer) \cup page.changed : p > page.to}) >= WorkLimit
        /\ page.viewer \in PageBoosters /\ page.changed = {} =>
            \A o \in PageOrders : <<"open", o>> \in page.offers =>
                \E query \in {"active", "completed"} : InWork(page.viewer, o, query)
    BY DEF OrderPagesAreFound, Rendered
<1>1. ASSUME ~page.found, page.to \in Held(page.viewer), page.to \notin page.changed
      PROVE  Cardinality({p \in Held(page.viewer) \cup page.changed : p > page.to}) >= WorkLimit
  <2>1. PICK query \in {"active", "completed"} : page.to \in OrdersOf(page.viewer, StatusOf(query))
      BY <1>1 DEF Held, StatusOf
  <2> QED BY <1>1, <2>1 DEF PageInv, SearchedFor, Newer
<1>2. ASSUME page.viewer \in PageBoosters, page.changed = {}, NEW o \in PageOrders, <<"open", o>> \in page.offers
      PROVE  \E query \in {"active", "completed"} : InWork(page.viewer, o, query)
  <2>1. InWork(page.viewer, o, "active") \/ InWork(page.viewer, o, "completed")
      BY <1>2 DEF PageInv, LinksLead, LeadsToWork
  <2> QED BY <2>1
<1> QED BY <1>1, <1>2

-------------------------------------------------------------------------------
(***************************************************************************)
(* WebSession.  As long as nothing was spoiled one request at most may     *)
(* write the cookie, so what it carries is still the browser's cookie, and *)
(* what it brings is the session as it is.                                 *)
(***************************************************************************)
HoldsTheSession(cookie) == cookie.session = logins /\ kept[logins] \in {0, cookie.token}

\* The cookie the browser should have, by what the user asked for.
RightFor(cookie) ==
    IF wish = "in"
    THEN logins > 0 /\ IF cookie = NoCookie THEN kept[logins] = 0 ELSE HoldsTheSession(cookie)
    ELSE cookie = NoCookie /\ (logins = 0 \/ kept[logins] = 0)

InStep(request) ==
    /\ request.stage \in {"call", "refresh", "rotate"} => request.cookie = jar /\ RightFor(jar)
    /\ request.stage \in {"logout", "revoke"} =>
        request.cookie = jar /\ wish = "out" /\ logins > 0 /\ HoldsTheSession(jar)
    /\ request.stage = "login" => wish = "in"
    /\ request.stage = "reply" => RightFor(request.cookie)

OneWrites == \A b, c \in Tabs : MayWrite(b) /\ MayWrite(c) => b = c
AtRestSettled == (\A b \in Tabs : ~MayWrite(b)) => RightFor(jar)
SessionInv ==
    /\ WebSessionTypeOK
    /\ ~spoiled => /\ OneWrites /\ AtRestSettled
                   /\ \A b \in Tabs : MayWrite(b) => InStep(tabs[b])

LEMMA RequestTypes ==
    ASSUME NEW request \in Requests \cup {Unused}
    PROVE  /\ request.stage \in {"idle", "call", "refresh", "rotate", "logout", "revoke", "login", "reply"}
           /\ request = Unused <=> request.stage = "idle"
           /\ request.stage = "call" => request.may \in BOOLEAN
           /\ request.stage \in {"call", "refresh", "rotate", "logout", "revoke"} => request.cookie \in Cookies
           /\ request.stage = "reply" => request.cookie \in Cookies \cup {NoCookie}
    BY DEF Requests, Unused

LEMMA CookieTypes ==
    ASSUME WebSessionTypeOK, NEW cookie \in Cookies
    PROVE  /\ cookie # NoCookie
           /\ cookie.session \in 1..MaxLogins /\ cookie.token \in 1..MaxTokens
           /\ NextCookie(cookie).session = cookie.session /\ NextCookie(cookie).token = tokens + 1
           /\ tokens < MaxTokens => NextCookie(cookie) \in Cookies
    BY WebSessionAssumption DEF Cookies, NoCookie, NextCookie, WebSessionTypeOK

LEMMA MadeRequests ==
    /\ \A cookie \in Cookies, may \in BOOLEAN : [stage |-> "call", cookie |-> cookie, may |-> may] \in Requests
    /\ \A cookie \in Cookies, stage \in {"refresh", "rotate", "logout", "revoke"} :
            [stage |-> stage, cookie |-> cookie] \in Requests
    /\ [stage |-> "login"] \in Requests
    /\ \A cookie \in Cookies \cup {NoCookie} : [stage |-> "reply", cookie |-> cookie] \in Requests
    BY DEF Requests

LEMMA Moved ==
    ASSUME NEW b \in Tabs, NEW request \in Requests \cup {Unused}, WebSessionTypeOK, Move(b, request)
    PROVE  /\ tabs' \in [Tabs -> Requests \cup {Unused}]
           /\ tabs'[b] = request /\ \A c \in Tabs : c # b => tabs'[c] = tabs[c]
           /\ MayWrite(b)' <=> request.stage # "idle" /\ (request.stage = "call" => request.may)
           /\ \A c \in Tabs : c # b => (MayWrite(c)' <=> MayWrite(c))
    BY RequestTypes DEF WebSessionTypeOK, Move, MayWrite

LEMMA KeptTypes ==
    ASSUME WebSessionTypeOK, NEW s \in 1..MaxLogins, NEW t \in 0..MaxTokens, Keep(s, t)
    PROVE  kept' \in [1..MaxLogins -> 0..MaxTokens] /\ kept'[s] = t
    BY DEF WebSessionTypeOK, Keep

\* The one writer goes on, or a request becomes the one writer.
LEMMA SoleWriterKeeps ==
    ASSUME NEW b \in Tabs, NEW request \in Requests \cup {Unused}, SessionInv, WebSessionTypeOK',
           Move(b, request),
           ~spoiled' => /\ ~spoiled /\ \A c \in Tabs : c # b => ~MayWrite(c)
                        /\ MayWrite(b)' => InStep(request)'
                        /\ ~MayWrite(b)' => RightFor(jar)'
    PROVE  SessionInv'
<1> SUFFICES ASSUME ~spoiled'
             PROVE  OneWrites' /\ AtRestSettled' /\ \A c \in Tabs : MayWrite(c)' => InStep(tabs[c])'
    BY DEF SessionInv
<1>1. /\ tabs'[b] = request /\ \A c \in Tabs : c # b => ~MayWrite(c)'
    BY Moved DEF SessionInv
<1>2. OneWrites'
    BY <1>1 DEF OneWrites
<1>3. AtRestSettled'
    BY DEF AtRestSettled
<1>4. MayWrite(b)' => InStep(tabs[b])'
    BY <1>1 DEF InStep
<1>5. \A c \in Tabs : MayWrite(c)' => InStep(tabs[c])'
    BY <1>1, <1>4
<1> QED BY <1>2, <1>3, <1>5

\* A request that may not write comes, goes on or goes.
LEMMA ReaderKeeps ==
    ASSUME NEW b \in Tabs, NEW request \in Requests \cup {Unused}, SessionInv, WebSessionTypeOK',
           Move(b, request), ~MayWrite(b), ~MayWrite(b)',
           UNCHANGED <<jar, kept, logins, wish>>, spoiled' = spoiled
    PROVE  SessionInv'
<1>1. \A c \in Tabs : (MayWrite(c)' <=> MayWrite(c)) /\ (MayWrite(c) => tabs'[c] = tabs[c])
    BY Moved DEF SessionInv
<1>2. \A q : (InStep(q)' <=> InStep(q)) /\ (RightFor(q)' <=> RightFor(q))
    BY DEF InStep, RightFor, HoldsTheSession
<1> QED BY <1>1, <1>2 DEF SessionInv, OneWrites, AtRestSettled

LEMMA SendRequestKeeps ==
    ASSUME NEW b \in Tabs, NEW may \in BOOLEAN, SessionInv, SendRequest(b, may)
    PROVE  SessionInv'
<1>1. jar \in Cookies /\ tabs[b] = Unused /\ ~MayWrite(b)
    BY DEF SessionInv, WebSessionTypeOK, SendRequest, MayWrite
<1>2. PICK request \in Requests :
            /\ Move(b, request)
            /\ \/ request = [stage |-> "refresh", cookie |-> jar] /\ may
               \/ request = [stage |-> "call", cookie |-> jar, may |-> may]
    BY <1>1, MadeRequests DEF SendRequest
<1>3. /\ request.cookie = jar /\ request.stage \in {"call", "refresh"}
      /\ request.stage = "call" => request.may = may
      /\ request.stage = "refresh" => may
    BY <1>2
<1>4. WebSessionTypeOK'
    BY <1>2, Moved DEF SessionInv, WebSessionTypeOK, SendRequest
<1>5. MayWrite(b)' <=> may
    BY <1>2, <1>3, Moved DEF SessionInv
<1>6. CASE may
    <2>1. ASSUME ~spoiled'
          PROVE  ~spoiled /\ (\A c \in Tabs : c # b => ~MayWrite(c)) /\ InStep(request)'
        <3>1. ~spoiled /\ \A c \in Tabs : ~MayWrite(c)
            BY <1>1, <1>6, <2>1 DEF SendRequest, Overlaps
        <3>2. RightFor(jar)
            BY <3>1 DEF SessionInv, AtRestSettled
        <3>3. UNCHANGED <<jar, kept, logins, wish>>
            BY DEF SendRequest
        <3>4. InStep(request)'
            BY <1>3, <3>2, <3>3 DEF InStep, RightFor, HoldsTheSession
        <3> QED BY <3>1, <3>4
    <2> QED BY <1>2, <1>4, <1>5, <1>6, <2>1, SoleWriterKeeps
<1>7. CASE ~may
    <2>1. UNCHANGED <<jar, kept, logins, wish>> /\ spoiled' = spoiled
        BY <1>7 DEF SendRequest, SessionInv, WebSessionTypeOK
    <2> QED BY <1>1, <1>2, <1>4, <1>5, <1>7, <2>1, ReaderKeeps
<1> QED BY <1>6, <1>7

\* What the one writer is about, as long as nothing was spoiled.
LEMMA Writer ==
    ASSUME NEW b \in Tabs, SessionInv, ~spoiled, MayWrite(b)
    PROVE  InStep(tabs[b]) /\ \A c \in Tabs : c # b => ~MayWrite(c)
    BY DEF SessionInv, OneWrites

LEMMA CallKeeps ==
    ASSUME NEW b \in Tabs, SessionInv, Call(b)
    PROVE  SessionInv'
<1>1. PICK w \in Requests : w = tabs[b] /\ w.stage = "call" /\ w.cookie \in Cookies /\ w.may \in BOOLEAN
    BY RequestTypes DEF SessionInv, WebSessionTypeOK, Call, Unused
<1>2. PICK request \in Requests \cup {Unused} :
            /\ Move(b, request)
            /\ \/ request = [stage |-> "refresh", cookie |-> w.cookie] /\ w.may
               \/ request = Unused
    BY <1>1, MadeRequests DEF Call, MayRefresh
<1>3. /\ request.stage \in {"refresh", "idle"}
      /\ request.stage = "refresh" => request.cookie = w.cookie /\ w.may
    BY <1>2 DEF Unused
<1>4. UNCHANGED <<jar, kept, logins, tokens, aged, wish, spoiled>>
    BY DEF Call
<1>5. WebSessionTypeOK'
    BY <1>2, <1>4, Moved DEF SessionInv, WebSessionTypeOK
<1>6. MayWrite(b) <=> w.may
    BY <1>1 DEF MayWrite, Unused
<1>7. MayWrite(b)' <=> request.stage = "refresh"
    BY <1>2, <1>3, Moved DEF SessionInv
<1>8. CASE w.may
    <2>1. ASSUME ~spoiled'
          PROVE  /\ ~spoiled /\ \A c \in Tabs : c # b => ~MayWrite(c)
                 /\ MayWrite(b)' => InStep(request)'
                 /\ ~MayWrite(b)' => RightFor(jar)'
        <3>1. w.cookie = jar /\ RightFor(jar) /\ \A c \in Tabs : c # b => ~MayWrite(c)
            BY <1>1, <1>4, <1>6, <1>8, <2>1, Writer DEF InStep
        <3>2. RightFor(jar)'
            BY <1>4, <3>1 DEF RightFor, HoldsTheSession
        <3> QED BY <1>3, <1>4, <1>7, <2>1, <3>1, <3>2 DEF InStep
    <2> QED BY <1>2, <1>5, <2>1, SoleWriterKeeps
<1>9. CASE ~w.may
    BY <1>2, <1>3, <1>4, <1>5, <1>6, <1>7, <1>9, ReaderKeeps
<1> QED BY <1>1, <1>8, <1>9

\* A writer past its call.
LEMMA WritesOn ==
    ASSUME NEW b \in Tabs, SessionInv, tabs[b].stage \in {"refresh", "rotate", "logout", "revoke", "login", "reply"}
    PROVE  /\ MayWrite(b)
           /\ tabs[b].stage \in {"refresh", "rotate", "logout", "revoke"} => tabs[b].cookie \in Cookies
           /\ tabs[b].stage = "reply" => tabs[b].cookie \in Cookies \cup {NoCookie}
           /\ ~spoiled => InStep(tabs[b]) /\ \A c \in Tabs : c # b => ~MayWrite(c)
<1>1. tabs[b] \in Requests \cup {Unused}
    BY DEF SessionInv, WebSessionTypeOK
<1>2. MayWrite(b)
    BY DEF MayWrite, Unused
<1> QED BY <1>1, <1>2, RequestTypes, Writer

LEMMA AskForTokenKeeps ==
    ASSUME NEW b \in Tabs, SessionInv, AskForToken(b)
    PROVE  SessionInv'
<1>1. PICK w : w = tabs[b] /\ w.stage = "refresh" /\ w.cookie \in Cookies
    BY WritesOn DEF AskForToken
<1>2. PICK request \in Requests :
            /\ Move(b, request)
            /\ \/ request = [stage |-> "rotate", cookie |-> w.cookie]
               \/ request = [stage |-> "reply", cookie |-> NoCookie] /\ ~Unlocks(w.cookie)
    BY <1>1, MadeRequests DEF AskForToken, Answer
<1>3. /\ request.stage \in {"rotate", "reply"}
      /\ request.stage = "rotate" => request.cookie = w.cookie
      /\ request.stage = "reply" => request.cookie = NoCookie /\ ~Unlocks(w.cookie)
    BY <1>2
<1>4. UNCHANGED <<jar, kept, logins, tokens, aged, wish, spoiled>>
    BY DEF AskForToken
<1>5. WebSessionTypeOK'
    BY <1>2, <1>4, Moved DEF SessionInv, WebSessionTypeOK
<1>6. MayWrite(b)'
    BY <1>2, <1>3, Moved DEF SessionInv
<1>7. ASSUME ~spoiled' PROVE ~spoiled /\ (\A c \in Tabs : c # b => ~MayWrite(c)) /\ InStep(request)'
    <2>1. w.cookie = jar /\ RightFor(jar) /\ \A c \in Tabs : c # b => ~MayWrite(c)
        BY <1>1, <1>4, <1>7, WritesOn DEF InStep
    <2>2. wish = "in" /\ logins > 0 /\ HoldsTheSession(jar)
        BY <1>1, <2>1, CookieTypes DEF RightFor, SessionInv
    <2>3. ~Unlocks(jar) => kept[logins] = 0
        BY <2>2 DEF HoldsTheSession, Unlocks
    <2>4. RightFor(jar)' /\ (~Unlocks(jar) => RightFor(NoCookie)')
        BY <1>4, <2>1, <2>2, <2>3 DEF RightFor, HoldsTheSession
    <2> QED BY <1>3, <1>4, <1>7, <2>1, <2>4 DEF InStep
<1> QED BY <1>2, <1>5, <1>6, <1>7, SoleWriterKeeps

LEMMA RotateKeeps ==
    ASSUME NEW b \in Tabs, SessionInv, Rotate(b)
    PROVE  SessionInv'
<1>1. PICK w : w = tabs[b] /\ w.stage = "rotate" /\ w.cookie \in Cookies
    BY WritesOn DEF Rotate
<1>2. PICK cookie \in Cookies : cookie = NextCookie(w.cookie) /\ cookie.session = w.cookie.session
                                 /\ cookie.token = tokens + 1
    BY <1>1, CookieTypes DEF Rotate, SessionInv
<1>3. PICK request \in Requests : Move(b, request) /\ request.stage = "reply" /\ request.cookie = cookie
    BY <1>1, <1>2, MadeRequests DEF Rotate, Answer
<1>4. /\ tokens < MaxTokens /\ tokens' = tokens + 1 /\ Keep(w.cookie.session, tokens + 1)
      /\ UNCHANGED <<jar, logins, aged, wish, spoiled>>
    BY <1>1 DEF Rotate
<1>5. tokens + 1 \in 1..MaxTokens /\ w.cookie.session \in 1..MaxLogins
    BY <1>1, <1>4, CookieTypes, WebSessionAssumption DEF SessionInv, WebSessionTypeOK
<1>6. kept' \in [1..MaxLogins -> 0..MaxTokens] /\ kept'[w.cookie.session] = tokens + 1
    BY <1>4, <1>5, KeptTypes DEF SessionInv
<1>7. WebSessionTypeOK'
    BY <1>3, <1>4, <1>5, <1>6, Moved DEF SessionInv, WebSessionTypeOK
<1>8. MayWrite(b)'
    BY <1>3, Moved DEF SessionInv
<1>9. ASSUME ~spoiled' PROVE ~spoiled /\ (\A c \in Tabs : c # b => ~MayWrite(c)) /\ InStep(request)'
    <2>1. w.cookie = jar /\ RightFor(jar) /\ \A c \in Tabs : c # b => ~MayWrite(c)
        BY <1>1, <1>4, <1>9, WritesOn DEF InStep
    <2>2. wish = "in" /\ logins > 0 /\ w.cookie.session = logins
        BY <1>1, <2>1, CookieTypes DEF RightFor, SessionInv, HoldsTheSession
    <2>3. RightFor(cookie)'
        BY <1>2, <1>4, <1>6, <2>2 DEF RightFor, HoldsTheSession, NoCookie
    <2> QED BY <1>3, <1>4, <1>9, <2>1, <2>3 DEF InStep
<1> QED BY <1>3, <1>7, <1>8, <1>9, SoleWriterKeeps

LEMMA FailuresKeep ==
    ASSUME NEW b \in Tabs, SessionInv, FailRefresh(b) \/ FailLogout(b)
    PROVE  SessionInv'
<1>1. PICK w : w = tabs[b] /\ w.stage \in {"refresh", "rotate", "logout", "revoke"} /\ w.cookie \in Cookies
    BY WritesOn DEF FailRefresh, FailLogout
<1>2. PICK request \in Requests : Move(b, request)
    BY MadeRequests DEF FailRefresh, FailLogout, Answer
<1>3. \/ UNCHANGED <<kept, tokens>>
      \/ tokens < MaxTokens /\ tokens' = tokens + 1 /\ Keep(w.cookie.session, tokens + 1)
    BY <1>1 DEF FailRefresh, FailLogout
<1>4. kept' \in [1..MaxLogins -> 0..MaxTokens] /\ tokens' \in 0..MaxTokens /\ tokens <= tokens'
    <2>1. w.cookie.session \in 1..MaxLogins
        BY <1>1, CookieTypes DEF SessionInv
    <2>2. tokens < MaxTokens => tokens + 1 \in 0..MaxTokens
        BY WebSessionAssumption DEF SessionInv, WebSessionTypeOK
    <2>3. CASE UNCHANGED <<kept, tokens>>
        BY <2>3 DEF SessionInv, WebSessionTypeOK
    <2>4. CASE tokens < MaxTokens /\ tokens' = tokens + 1 /\ Keep(w.cookie.session, tokens + 1)
        BY <2>1, <2>2, <2>4, KeptTypes DEF SessionInv, WebSessionTypeOK
    <2> QED BY <1>3, <2>3, <2>4
<1>5. UNCHANGED <<jar, logins, aged, wish>> /\ spoiled'
    BY DEF FailRefresh, FailLogout
<1>6. WebSessionTypeOK'
    BY <1>2, <1>4, <1>5, Moved DEF SessionInv, WebSessionTypeOK, FailRefresh, FailLogout
<1> QED BY <1>2, <1>5, <1>6, SoleWriterKeeps

LEMMA ReceiveReplyKeeps ==
    ASSUME NEW b \in Tabs, SessionInv, ReceiveReply(b)
    PROVE  SessionInv'
<1>1. PICK w : w = tabs[b] /\ w.stage = "reply" /\ w.cookie \in Cookies \cup {NoCookie}
    BY WritesOn DEF ReceiveReply
<1>2. /\ jar' = w.cookie /\ Move(b, Unused)
      /\ UNCHANGED <<kept, logins, tokens, aged, wish, spoiled>>
    BY <1>1 DEF ReceiveReply
<1>3. Unused \in Requests \cup {Unused} /\ Unused.stage = "idle"
    BY DEF Unused
<1>4. WebSessionTypeOK' /\ ~MayWrite(b)'
    BY <1>1, <1>2, <1>3, Moved DEF SessionInv, WebSessionTypeOK
<1>5. ASSUME ~spoiled' PROVE ~spoiled /\ (\A c \in Tabs : c # b => ~MayWrite(c)) /\ RightFor(jar)'
    <2>1. RightFor(w.cookie) /\ \A c \in Tabs : c # b => ~MayWrite(c)
        BY <1>1, <1>2, <1>5, WritesOn DEF InStep
    <2> QED BY <1>2, <1>5, <2>1 DEF RightFor, HoldsTheSession
<1> QED BY <1>2, <1>3, <1>4, <1>5, SoleWriterKeeps

LEMMA LoseRequestKeeps ==
    ASSUME NEW b \in Tabs, SessionInv, LoseRequest(b)
    PROVE  SessionInv'
<1>1. Unused \in Requests \cup {Unused} /\ Unused.stage = "idle" /\ Move(b, Unused)
    BY DEF Unused, LoseRequest
<1>2. /\ UNCHANGED <<jar, kept, logins, tokens, aged, wish>> /\ spoiled' \in BOOLEAN
      /\ MayWrite(b) => spoiled'
      /\ ~MayWrite(b) => spoiled' = spoiled
    BY DEF LoseRequest, SessionInv, WebSessionTypeOK
<1>3. WebSessionTypeOK' /\ ~MayWrite(b)'
    BY <1>1, <1>2, Moved DEF SessionInv, WebSessionTypeOK
<1> QED BY <1>1, <1>2, <1>3, SoleWriterKeeps, ReaderKeeps

LEMMA StartsKeep ==
    ASSUME NEW b \in Tabs, SessionInv, StartLogin(b) \/ StartLogout(b)
    PROVE  SessionInv'
<1>1. PICK request \in Requests :
            /\ Move(b, request)
            /\ \/ request = [stage |-> "login"] /\ wish' = "in"
               \/ request = [stage |-> "logout", cookie |-> jar] /\ wish' = "out" /\ jar \in Cookies
    BY MadeRequests DEF StartLogin, StartLogout, SessionInv, WebSessionTypeOK
<1>2. /\ request.stage \in {"login", "logout"}
      /\ request.stage = "login" => wish' = "in"
      /\ request.stage = "logout" => request.cookie = jar /\ wish' = "out" /\ jar \in Cookies
    BY <1>1
<1>3. /\ UNCHANGED <<jar, kept, logins, tokens, aged>> /\ wish' \in {"in", "out"}
      /\ spoiled' = (spoiled \/ Overlaps(b)) /\ tabs[b] = Unused
    BY DEF StartLogin, StartLogout
<1>4. WebSessionTypeOK' /\ MayWrite(b)'
    BY <1>1, <1>2, <1>3, Moved DEF SessionInv, WebSessionTypeOK
<1>5. ASSUME ~spoiled' PROVE ~spoiled /\ (\A c \in Tabs : c # b => ~MayWrite(c)) /\ InStep(request)'
    <2>1. ~spoiled /\ \A c \in Tabs : ~MayWrite(c)
        BY <1>3, <1>5 DEF Overlaps, MayWrite
    <2>2. RightFor(jar)
        BY <2>1 DEF SessionInv, AtRestSettled
    <2>3. jar \in Cookies => jar # NoCookie
        BY CookieTypes DEF SessionInv
    <2>4. jar \in Cookies => logins > 0 /\ HoldsTheSession(jar)
        BY <2>2, <2>3 DEF RightFor
    <2>5. InStep(request)'
        BY <1>2, <1>3, <2>4 DEF InStep, HoldsTheSession
    <2> QED BY <2>1, <2>5
<1> QED BY <1>1, <1>4, <1>5, SoleWriterKeeps

LEMMA LoginKeeps ==
    ASSUME NEW b \in Tabs, SessionInv, Login(b)
    PROVE  SessionInv'
<1>1. /\ tabs[b].stage = "login" /\ logins' = logins + 1 /\ tokens' = tokens + 1
      /\ Keep(logins + 1, tokens + 1)
      /\ UNCHANGED <<jar, aged, wish, spoiled>>
    BY DEF Login
<1>2. logins + 1 \in 1..MaxLogins /\ tokens + 1 \in 1..MaxTokens
    BY WebSessionAssumption DEF Login, SessionInv, WebSessionTypeOK
<1>3. PICK cookie \in Cookies : cookie = [session |-> logins + 1, token |-> tokens + 1]
    BY <1>2 DEF Cookies
<1>4. PICK request \in Requests : Move(b, request) /\ request.stage = "reply" /\ request.cookie = cookie
    BY <1>3, MadeRequests DEF Login, Answer
<1>5. kept' \in [1..MaxLogins -> 0..MaxTokens] /\ kept'[logins + 1] = tokens + 1
    BY <1>1, <1>2, KeptTypes DEF SessionInv
<1>6. WebSessionTypeOK' /\ MayWrite(b)'
    BY <1>1, <1>2, <1>4, <1>5, Moved DEF SessionInv, WebSessionTypeOK
<1>7. ASSUME ~spoiled' PROVE ~spoiled /\ (\A c \in Tabs : c # b => ~MayWrite(c)) /\ InStep(request)'
    <2>1. wish = "in" /\ \A c \in Tabs : c # b => ~MayWrite(c)
        BY <1>1, <1>7, WritesOn DEF InStep
    <2>2. cookie.session = logins + 1 /\ cookie.token = tokens + 1 /\ cookie # NoCookie
        BY <1>3, CookieTypes DEF SessionInv
    <2>3. RightFor(cookie)'
        BY <1>1, <1>2, <1>5, <2>1, <2>2 DEF RightFor, HoldsTheSession, NoCookie
    <2> QED BY <1>1, <1>4, <1>7, <2>1, <2>3 DEF InStep
<1> QED BY <1>4, <1>6, <1>7, SoleWriterKeeps

LEMMA LogoutGoesOn ==
    ASSUME NEW b \in Tabs, SessionInv, AskToRevoke(b) \/ Revoke(b)
    PROVE  SessionInv'
<1>1. PICK w : w = tabs[b] /\ w.stage \in {"logout", "revoke"} /\ w.cookie \in Cookies
    BY WritesOn DEF AskToRevoke, Revoke
<1>2. w.cookie.session \in 1..MaxLogins /\ UNCHANGED <<jar, logins, tokens, aged, wish, spoiled>>
    BY <1>1, CookieTypes DEF SessionInv, AskToRevoke, Revoke
<1>3. CASE AskToRevoke(b)
    <2>1. PICK request \in Requests :
            /\ Move(b, request)
            /\ \/ request = [stage |-> "revoke", cookie |-> w.cookie]
               \/ request = [stage |-> "reply", cookie |-> NoCookie] /\ ~Unlocks(w.cookie)
        BY <1>1, <1>3, MadeRequests DEF AskToRevoke, Answer, AfterRefusedLogout
    <2>2. /\ request.stage \in {"revoke", "reply"}
          /\ request.stage = "revoke" => request.cookie = w.cookie
          /\ request.stage = "reply" => request.cookie = NoCookie /\ ~Unlocks(w.cookie)
        BY <2>1
    <2>3. kept' = kept
        BY <1>3 DEF AskToRevoke
    <2>4. WebSessionTypeOK' /\ MayWrite(b)'
        BY <1>2, <2>1, <2>2, <2>3, Moved DEF SessionInv, WebSessionTypeOK
    <2>5. ASSUME ~spoiled' PROVE ~spoiled /\ (\A c \in Tabs : c # b => ~MayWrite(c)) /\ InStep(request)'
        <3>1. /\ w.cookie = jar /\ wish = "out" /\ logins > 0 /\ HoldsTheSession(jar)
              /\ \A c \in Tabs : c # b => ~MayWrite(c)
            BY <1>1, <1>2, <2>5, WritesOn DEF InStep
        <3>2. ~Unlocks(jar) => kept[logins] = 0
            BY <3>1 DEF HoldsTheSession, Unlocks
        <3>3. InStep(request)'
            BY <1>2, <2>2, <2>3, <3>1, <3>2 DEF InStep, RightFor, HoldsTheSession
        <3> QED BY <1>2, <2>5, <3>1, <3>3
    <2> QED BY <2>1, <2>4, <2>5, SoleWriterKeeps
<1>4. CASE Revoke(b)
    <2>1. PICK request \in Requests : Move(b, request) /\ request.stage = "reply" /\ request.cookie = NoCookie
        BY <1>4, MadeRequests DEF Revoke, Answer
    <2>2. kept' \in [1..MaxLogins -> 0..MaxTokens] /\ kept'[w.cookie.session] = 0
        <3>1. 0 \in 0..MaxTokens /\ Keep(w.cookie.session, 0)
            BY <1>1, <1>4, WebSessionAssumption DEF Revoke
        <3> QED BY <1>2, <3>1, KeptTypes DEF SessionInv
    <2>3. WebSessionTypeOK' /\ MayWrite(b)'
        BY <1>2, <2>1, <2>2, Moved DEF SessionInv, WebSessionTypeOK
    <2>4. ASSUME ~spoiled' PROVE ~spoiled /\ (\A c \in Tabs : c # b => ~MayWrite(c)) /\ InStep(request)'
        <3>1. /\ w.cookie = jar /\ wish = "out" /\ HoldsTheSession(jar)
              /\ \A c \in Tabs : c # b => ~MayWrite(c)
            BY <1>1, <1>2, <2>4, WritesOn DEF InStep
        <3>2. InStep(request)'
            BY <1>2, <2>1, <2>2, <3>1 DEF InStep, RightFor, HoldsTheSession
        <3> QED BY <1>2, <2>4, <3>1, <3>2
    <2> QED BY <2>1, <2>3, <2>4, SoleWriterKeeps
<1> QED BY <1>3, <1>4

\* An access token runs out, or an administrator ends the sessions.
LEMMA OutsideKeeps ==
    ASSUME SessionInv, Age \/ Govern
    PROVE  SessionInv'
<1>1. WebSessionTypeOK /\ 0 \in 0..MaxTokens /\ 1..tokens \subseteq 1..MaxTokens
    BY WebSessionAssumption DEF SessionInv, WebSessionTypeOK
<1>2. UNCHANGED <<jar, logins, tokens, tabs, wish, spoiled>>
    BY DEF Age, Govern
<1>3. kept' = kept \/ kept' = [s \in 1..MaxLogins |-> 0]
    BY DEF Age, Govern
<1>4. aged' \subseteq 1..MaxTokens
    <2>1. aged \subseteq 1..MaxTokens
        BY <1>1 DEF WebSessionTypeOK
    <2>2. Age => \E t \in 1..tokens : aged' = aged \cup {t}
        BY DEF Age
    <2>3. Govern => aged' = aged
        BY DEF Govern
    <2> QED BY <1>1, <2>1, <2>2, <2>3
<1>5. WebSessionTypeOK'
    BY <1>1, <1>2, <1>3, <1>4 DEF WebSessionTypeOK
<1>6. logins > 0 => kept'[logins] \in {0, kept[logins]}
    <2> SUFFICES ASSUME logins > 0 PROVE kept'[logins] \in {0, kept[logins]}
        OBVIOUS
    <2>1. logins \in 1..MaxLogins
        BY <1>1, WebSessionAssumption DEF WebSessionTypeOK
    <2> QED BY <1>3, <2>1
<1>7. \A cookie : RightFor(cookie) => RightFor(cookie)'
    BY <1>1, <1>2, <1>6 DEF RightFor, HoldsTheSession, WebSessionTypeOK
<1>8. \A q : InStep(q) => InStep(q)'
    BY <1>2, <1>6, <1>7 DEF InStep, HoldsTheSession
<1>9. \A b \in Tabs : MayWrite(b)' <=> MayWrite(b)
    BY <1>2 DEF MayWrite
<1> QED BY <1>2, <1>5, <1>7, <1>8, <1>9 DEF SessionInv, OneWrites, AtRestSettled, InStep

LEMMA WebSessionStep ==
    ASSUME SessionInv, [WebSessionNext]_webVars
    PROVE  SessionInv'
<1>1. CASE UNCHANGED webVars
    BY <1>1 DEF webVars, SessionInv, WebSessionTypeOK, OneWrites, AtRestSettled, MayWrite, InStep,
       RightFor, HoldsTheSession
<1>2. CASE WebSessionNext
    BY <1>2, SendRequestKeeps, CallKeeps, AskForTokenKeeps, RotateKeeps, FailuresKeep, ReceiveReplyKeeps,
       LoseRequestKeeps, StartsKeep, LoginKeeps, LogoutGoesOn, OutsideKeeps DEF WebSessionNext
<1> QED BY <1>1, <1>2

LEMMA WebSessionStarts == ASSUME WebSessionInit PROVE SessionInv
<1>0. 0 \in 0..MaxTokens /\ 0 \in 0..MaxLogins
    BY WebSessionAssumption
<1>1. WebSessionTypeOK
    BY <1>0 DEF WebSessionInit, WebSessionTypeOK
<1>2. \A b \in Tabs : ~MayWrite(b)
    BY DEF WebSessionInit, MayWrite
<1> QED BY <1>1, <1>2 DEF WebSessionInit, SessionInv, OneWrites, AtRestSettled, RightFor

LEMMA SessionFollowed == ASSUME SessionInv PROVE CookieFollowsTheSession
    BY DEF SessionInv, AtRestSettled, RightFor, HoldsTheSession, CookieFollowsTheSession

-------------------------------------------------------------------------------
(***************************************************************************)
(* CouponConsole.  The form never holds what is not on the screen, so what *)
(* was asked for, and what was made of it, is what the screen said; and    *)
(* the table is wrong only of coupons that changed behind the page.        *)
(***************************************************************************)
HidesNothing(f) == ShowsExtras(f) \/ f.requiredExtras = {}
Terms == {Sent(f) : f \in CouponForms}
CreateRequests == [op : {"create"}, here : BOOLEAN, shown : CouponForms, terms : Terms]
SwitchRequests == [op : {"switch"}, here : BOOLEAN, coupon : AdminCoupons, on : BOOLEAN]
Faithful(request) ==
    /\ request.op = "create" => request.terms = Sent(request.shown)
    /\ request.op = "switch" => Made(request.coupon)
FaithfulMint(m) ==
    m # NotMinted => m.shown \in CouponForms /\ m.terms = Sent(m.shown) /\ Accepted(m.terms)

DialogTypes == [open : BOOLEAN, form : CouponForms, failed : BOOLEAN, fills : 0..MaxFills]

ConsoleInv ==
    /\ dialog \in DialogTypes /\ HidesNothing(dialog.form)
    /\ asked \in Seq(CreateRequests \cup SwitchRequests)
    /\ \A i \in DOMAIN asked : Faithful(asked[i])
    /\ DOMAIN minted = AdminCoupons /\ \A k \in AdminCoupons : FaithfulMint(minted[k])
    /\ DOMAIN table = AdminCoupons
    /\ \A k \in AdminCoupons : table[k].active \in BOOLEAN /\ (table[k] # NoRow => Made(k))
    /\ behind \subseteq AdminCoupons

LEMMA BlankIsAForm == BlankForm \in CouponForms /\ HidesNothing(BlankForm)
    BY PriceAssumption DEF BlankForm, CouponForms, HidesNothing, ShowsExtras

LEMMA ConsoleStarts == ASSUME CouponConsoleInit PROVE ConsoleInv
<1>1. dialog = [open |-> FALSE, form |-> BlankForm, failed |-> FALSE, fills |-> 0] /\ asked = <<>>
    BY DEF CouponConsoleInit
<1>2. dialog \in DialogTypes /\ HidesNothing(dialog.form)
    BY <1>1, BlankIsAForm, CouponConsoleAssumption DEF DialogTypes
<1>3. asked \in Seq(CreateRequests \cup SwitchRequests) /\ DOMAIN asked = {}
    BY <1>1
<1>4. NoRow.active = FALSE
    BY DEF NoRow
<1> QED BY <1>2, <1>3, <1>4 DEF CouponConsoleInit, ConsoleInv, FaithfulMint

\* A step that leaves the coupons alone.
LEMMA MadeStay == ASSUME UNCHANGED couponVars PROVE \A k : Made(k)' = Made(k)
    BY DEF couponVars, Made

\* Every change of the form is one to another form, that hides nothing either.
LEMMA FormFilled ==
    ASSUME ConsoleInv, NEW f \in CouponForms, Fill(f)
    PROVE  ConsoleInv'
<1>1. PICK g : g = WithoutHidden(f)
    OBVIOUS
<1>2. g \in CouponForms /\ HidesNothing(g)
  <2>1. CASE ShowsExtras(f)
      BY <1>1, <2>1 DEF WithoutHidden, HidesNothing
  <2>2. CASE ~ShowsExtras(f)
    <3>1. g = [f EXCEPT !.requiredExtras = {}]
        BY <1>1, <2>2 DEF WithoutHidden
    <3>2. g \in CouponForms /\ g.requiredExtras = {}
        BY <3>1 DEF CouponForms
    <3> QED BY <3>2 DEF HidesNothing
  <2> QED BY <2>1, <2>2
<1>3. /\ dialog' = [dialog EXCEPT !.form = g, !.fills = @ + 1] /\ dialog.fills < MaxFills
      /\ UNCHANGED <<asked, minted, table, behind, couponVars>>
    BY <1>1 DEF Fill
<1>4. dialog' \in DialogTypes /\ dialog'.form = g
  <2>1. dialog.fills + 1 \in 0..MaxFills
      BY <1>3, CouponConsoleAssumption DEF ConsoleInv, DialogTypes
  <2> QED BY <1>2, <1>3, <2>1 DEF ConsoleInv, DialogTypes
<1>5. HidesNothing(dialog'.form)
    BY <1>2, <1>4
<1> QED BY <1>3, <1>4, <1>5, MadeStay DEF ConsoleInv, HidesNothing, Faithful, FaithfulMint, ShowsExtras

LEMMA ToggledIn == ASSUME NEW S, NEW set \in SUBSET S, NEW x \in S PROVE Toggled(set, x) \in SUBSET S
    BY DEF Toggled

LEMMA FormsChanged ==
    ASSUME NEW f \in CouponForms
    PROVE  /\ \A b \in BOOLEAN : [f EXCEPT !.percentage = b, !.digits = 0] \in CouponForms
           /\ \A n \in Nat : [f EXCEPT !.digits = n] \in CouponForms
           /\ \A n \in Nat : [f EXCEPT !.minSubtotal = n] \in CouponForms
           /\ \A n \in Nat : [f EXCEPT !.maxSubtotal = n] \in CouponForms
           /\ \A s \in SUBSET AllServices : [f EXCEPT !.services = s] \in CouponForms
           /\ \A q \in SUBSET Queues : [f EXCEPT !.queues = q] \in CouponForms
           /\ \A b \in BOOLEAN : [f EXCEPT !.firstOrderOnly = b] \in CouponForms
           /\ \A e \in SUBSET Emails : [f EXCEPT !.clients = e] \in CouponForms
           /\ \A r \in Ranks \cup {NoRank} : [f EXCEPT !.minRank = r] \in CouponForms
           /\ \A r \in Ranks \cup {NoRank} : [f EXCEPT !.maxRank = r] \in CouponForms
           /\ \A x \in SUBSET Extras : [f EXCEPT !.requiredExtras = x] \in CouponForms
           /\ \A c \in Codes \cup {NoCode, BadCode} : [f EXCEPT !.code = c] \in CouponForms
           /\ \A n \in Nat : [f EXCEPT !.minExtras = n] \in CouponForms
           /\ [f EXCEPT !.limit = 1] \in CouponForms
           /\ [f EXCEPT !.code = NoCode, !.minExtras = 0, !.limit = 0] \in CouponForms
<1>1. 0 \in Nat /\ 1 \in 0..1 /\ 0 \in 0..1
    OBVIOUS
<1> QED BY <1>1 DEF CouponForms

LEMMA FormStep ==
    ASSUME ConsoleInv,
           \/ \E percentage \in BOOLEAN : SelectDiscountType(percentage)
           \/ \E n \in Amounts : EnterAmount(n)
           \/ ToggleScope \/ ChangeEmails \/ TypeIn
           \/ \E r \in RankChoices \cup {NoRank} : PickRank(r)
           \/ \E x \in Extras : PickExtra(x)
    PROVE  ConsoleInv' /\ UNCHANGED <<couponVars, table, behind>>
<1>0. PICK f : f = dialog.form
    OBVIOUS
<1>1. f \in CouponForms
    BY <1>0 DEF ConsoleInv, DialogTypes
<1>2. /\ f.services \in SUBSET AllServices /\ f.queues \in SUBSET Queues
      /\ f.clients \in SUBSET Emails /\ f.firstOrderOnly \in BOOLEAN /\ f.requiredExtras \in SUBSET Extras
    BY <1>1 DEF CouponForms
<1>3. \E g \in CouponForms : Fill(g)
  <2>1. ASSUME NEW percentage \in BOOLEAN, SelectDiscountType(percentage) PROVE \E g \in CouponForms : Fill(g)
      BY <1>0, <1>1, <2>1, FormsChanged DEF SelectDiscountType
  <2>2. ASSUME NEW n \in Amounts, EnterAmount(n) PROVE \E g \in CouponForms : Fill(g)
    <3>1. n \in Nat
        BY CouponConsoleAssumption
    <3>2. AmountIn(f.percentage, n) \in Nat
      <4>1. Min({n, MaxPercentage}) \in Nat
        <5>1. \E x \in {n, 99} : \A y \in {n, 99} : x <= y
            BY <3>1
        <5>2. Min({n, 99}) \in {n, 99}
            BY <5>1 DEF Min
        <5> QED BY <3>1, <5>2 DEF MaxPercentage
      <4> QED BY <3>1, <4>1 DEF AmountIn
    <3> QED BY <1>0, <1>1, <2>2, <3>1, <3>2, FormsChanged DEF EnterAmount
  <2>3. ASSUME ToggleScope PROVE \E g \in CouponForms : Fill(g)
    <3>1. ASSUME NEW s \in AllServices, Fill([f EXCEPT !.services = Toggled(@, s)]) PROVE \E g \in CouponForms : Fill(g)
      <4>1. Toggled(f.services, s) \in SUBSET AllServices
          BY <1>2, ToggledIn
      <4> QED BY <1>1, <3>1, <4>1, FormsChanged
    <3>2. ASSUME NEW q \in Queues, Fill([f EXCEPT !.queues = Toggled(@, q)]) PROVE \E g \in CouponForms : Fill(g)
      <4>1. Toggled(f.queues, q) \in SUBSET Queues
          BY <1>2, ToggledIn
      <4> QED BY <1>1, <3>2, <4>1, FormsChanged
    <3>3. ASSUME Fill([f EXCEPT !.firstOrderOnly = ~@]) PROVE \E g \in CouponForms : Fill(g)
        BY <1>1, <1>2, <3>3, FormsChanged
    <3> QED BY <1>0, <2>3, <3>1, <3>2, <3>3 DEF ToggleScope
  <2>4. ASSUME NEW e \in Emails, Fill([f EXCEPT !.clients = Toggled(@, e)]) PROVE \E g \in CouponForms : Fill(g)
    <3>1. Toggled(f.clients, e) \in SUBSET Emails
        BY <1>2, ToggledIn
    <3> QED BY <1>1, <2>4, <3>1, FormsChanged
  <2>5. ASSUME TypeIn PROVE \E g \in CouponForms : Fill(g)
    <3>1. \A n \in ExtraCounts : n \in Nat
        BY CouponConsoleAssumption
    <3> QED BY <1>0, <1>1, <2>5, <3>1, FormsChanged DEF TypeIn
  <2>6. ASSUME NEW r \in RankChoices \cup {NoRank}, PickRank(r) PROVE \E g \in CouponForms : Fill(g)
    <3>1. r \in Ranks \cup {NoRank}
        BY CouponConsoleAssumption
    <3> QED BY <1>0, <1>1, <2>6, <3>1, FormsChanged DEF PickRank
  <2>7. ASSUME NEW x \in Extras, Fill([f EXCEPT !.requiredExtras = {x} \ @]) PROVE \E g \in CouponForms : Fill(g)
    <3>1. {x} \ f.requiredExtras \in SUBSET Extras
        OBVIOUS
    <3> QED BY <1>1, <2>7, <3>1, FormsChanged
  <2> QED BY <1>0, <2>1, <2>2, <2>3, <2>4, <2>5, <2>6, <2>7 DEF ChangeEmails, PickExtra
<1>4. PICK g \in CouponForms : Fill(g)
    BY <1>3
<1>5. UNCHANGED <<couponVars, table, behind>>
    BY <1>4 DEF Fill
<1> QED BY <1>4, <1>5, FormFilled

LEMMA DialogMoves ==
    ASSUME ConsoleInv, UNCHANGED <<couponVars, minted, table, behind>>,
           dialog' \in DialogTypes, HidesNothing(dialog'.form),
           asked' \in Seq(CreateRequests \cup SwitchRequests), \A i \in DOMAIN asked' : Faithful(asked'[i])
    PROVE  ConsoleInv'
<1>1. \A k : Made(k)' = Made(k)
    BY MadeStay
<1>2. (\A i \in DOMAIN asked : Faithful(asked[i]))'
    BY <1>1 DEF Faithful
<1>3. HidesNothing(dialog.form)'
    BY DEF HidesNothing, ShowsExtras
<1> QED BY <1>1, <1>2, <1>3 DEF ConsoleInv

LEMMA AskedMore ==
    ASSUME ConsoleInv, NEW request \in CreateRequests \cup SwitchRequests, Faithful(request)
    PROVE  /\ Append(asked, request) \in Seq(CreateRequests \cup SwitchRequests)
           /\ \A i \in DOMAIN Append(asked, request) : Faithful(Append(asked, request)[i])
<1>1. PICK all : all = Append(asked, request)
    OBVIOUS
<1>2. /\ all \in Seq(CreateRequests \cup SwitchRequests) /\ Len(all) = Len(asked) + 1 /\ Len(asked) \in Nat
      /\ DOMAIN all = 1..Len(all) /\ DOMAIN asked = 1..Len(asked)
      /\ \A i \in 1..Len(asked) : all[i] = asked[i]
      /\ all[Len(asked) + 1] = request
    BY <1>1, AppendProperties, LenProperties DEF ConsoleInv
<1>3. \A i \in DOMAIN all : Faithful(all[i])
  <2> SUFFICES ASSUME NEW i \in DOMAIN all PROVE Faithful(all[i])
      OBVIOUS
  <2>1. i \in DOMAIN asked \/ i = Len(asked) + 1
      BY <1>2
  <2> QED BY <1>2, <2>1 DEF ConsoleInv
<1> QED BY <1>1, <1>2, <1>3

LEMMA AskedLess ==
    ASSUME ConsoleInv, asked # <<>>
    PROVE  /\ Head(asked) \in CreateRequests \cup SwitchRequests /\ Faithful(Head(asked))
           /\ Tail(asked) \in Seq(CreateRequests \cup SwitchRequests)
           /\ \A i \in DOMAIN Tail(asked) : Faithful(Tail(asked)[i])
<1>1. PICK rest : rest = Tail(asked)
    OBVIOUS
<1>2. /\ rest \in Seq(CreateRequests \cup SwitchRequests) /\ Len(rest) = Len(asked) - 1 /\ Len(asked) \in Nat \ {0}
      /\ DOMAIN rest = 1..Len(rest) /\ DOMAIN asked = 1..Len(asked)
      /\ \A i \in 1..Len(rest) : rest[i] = asked[i + 1]
      /\ Head(asked) = asked[1] /\ Head(asked) \in CreateRequests \cup SwitchRequests
    BY <1>1, HeadTailProperties, LenProperties, EmptySeq DEF ConsoleInv
<1>3. \A i \in DOMAIN rest : Faithful(rest[i])
  <2> SUFFICES ASSUME NEW i \in DOMAIN rest PROVE Faithful(rest[i])
      OBVIOUS
  <2>1. i + 1 \in DOMAIN asked /\ rest[i] = asked[i + 1]
      BY <1>2
  <2> QED BY <2>1 DEF ConsoleInv
<1>4. Faithful(Head(asked))
    BY <1>2 DEF ConsoleInv
<1> QED BY <1>1, <1>2, <1>3, <1>4

LEMMA BlankDialog ==
    ASSUME NEW d, NEW opened \in BOOLEAN, d = [open |-> opened, form |-> BlankForm, failed |-> FALSE, fills |-> 0]
    PROVE  d \in DialogTypes /\ HidesNothing(d.form)
<1>1. 0 \in 0..MaxFills
    BY CouponConsoleAssumption
<1>2. d \in DialogTypes /\ d.form = BlankForm
    BY <1>1, BlankIsAForm DEF DialogTypes
<1> QED BY <1>2, BlankIsAForm

LEMMA DialogStep ==
    ASSUME ConsoleInv, OpenDialog \/ CloseDialog
    PROVE  ConsoleInv' /\ UNCHANGED <<couponVars, table, behind>>
<1>1. UNCHANGED <<couponVars, minted, table, behind>>
    BY DEF OpenDialog, CloseDialog
<1>2. dialog' \in DialogTypes /\ HidesNothing(dialog'.form)
    BY BlankDialog DEF OpenDialog, CloseDialog
<1>3. asked' \in Seq(CreateRequests \cup SwitchRequests) /\ \A i \in DOMAIN asked' : Faithful(asked'[i])
  <2>1. CASE OpenDialog
      BY <2>1 DEF OpenDialog, ConsoleInv
  <2>2. CASE CloseDialog
    <3>1. DOMAIN asked = 1..Len(asked) /\ Len(asked) \in Nat
          /\ \A i \in 1..Len(asked) : asked[i] \in CreateRequests \cup SwitchRequests /\ Faithful(asked[i])
        BY LenProperties, ElementOfSeq DEF ConsoleInv
    <3>2. PICK all : all = asked' /\ all = [i \in 1..Len(asked) |-> [asked[i] EXCEPT !.here = (@ /\ asked[i].op = "switch")]]
        BY <2>2, <3>1 DEF CloseDialog
    <3>3. ASSUME NEW i \in 1..Len(asked)
          PROVE  all[i] \in CreateRequests \cup SwitchRequests /\ Faithful(all[i])
      <4>1. PICK request, here : request = asked[i] /\ here = (request.here /\ request.op = "switch")
          OBVIOUS
      <4>2. all[i] = [request EXCEPT !.here = here] /\ here \in BOOLEAN
          BY <3>2, <4>1
      <4>3. request \in CreateRequests \cup SwitchRequests /\ Faithful(request)
          BY <3>1, <4>1
      <4>4. CASE request \in CreateRequests
        <5>1. /\ all[i] \in CreateRequests /\ all[i].op = request.op
              /\ all[i].shown = request.shown /\ all[i].terms = request.terms /\ request.op = "create"
            BY <4>2, <4>4 DEF CreateRequests
        <5> QED BY <4>3, <5>1 DEF Faithful
      <4>5. CASE request \in SwitchRequests
        <5>1. all[i] \in SwitchRequests /\ all[i].op = "switch" /\ request.op = "switch" /\ all[i].coupon = request.coupon
            BY <4>2, <4>5 DEF SwitchRequests
        <5> QED BY <4>3, <5>1 DEF Faithful
      <4> QED BY <4>3, <4>4, <4>5
    <3>4. DOMAIN all = 1..Len(asked)
        BY <3>2
    <3>5. all \in [1..Len(asked) -> CreateRequests \cup SwitchRequests]
        BY <3>2, <3>3
    <3>6. all \in Seq(CreateRequests \cup SwitchRequests)
        BY <3>1, <3>5, SeqDef
    <3> QED BY <3>2, <3>3, <3>4, <3>6
  <2> QED BY <2>1, <2>2
<1> QED BY <1>1, <1>2, <1>3, DialogMoves

LEMMA ShownAsItIs == ASSUME NEW f \in CouponForms, HidesNothing(f) PROVE ShownBy(f) = f
<1>1. CASE ShowsExtras(f)
    BY <1>1 DEF ShownBy
<1>2. CASE ~ShowsExtras(f)
  <2>1. f.requiredExtras = {}
      BY <1>2 DEF HidesNothing
  <2>2. [f EXCEPT !.requiredExtras = {}] = f
      BY <2>1 DEF CouponForms
  <2> QED BY <1>2, <2>2 DEF ShownBy
<1> QED BY <1>1, <1>2

LEMMA PressStep ==
    ASSUME ConsoleInv, PressCreate \/ \E k \in AdminCoupons : PressSwitch(k)
    PROVE  ConsoleInv' /\ UNCHANGED <<couponVars, table, behind>>
<1>1. UNCHANGED <<couponVars, dialog, minted, table, behind>>
    BY DEF PressCreate, PressSwitch
<1>2. \E request \in CreateRequests \cup SwitchRequests : Faithful(request) /\ asked' = Append(asked, request)
  <2>1. CASE PressCreate
    <3>1. PICK f, terms : f = dialog.form /\ terms = Sent(f)
        OBVIOUS
    <3>2. f \in CouponForms /\ HidesNothing(f) /\ ShownBy(f) = f
        BY <3>1, ShownAsItIs DEF ConsoleInv, DialogTypes
    <3>3. PICK request : request = [op |-> "create", here |-> TRUE, shown |-> f, terms |-> terms]
        OBVIOUS
    <3>4. request \in CreateRequests /\ request.op = "create" /\ request.terms = terms /\ request.shown = f
        BY <3>1, <3>2, <3>3 DEF CreateRequests, Terms
    <3>5. Faithful(request)
        BY <3>1, <3>4 DEF Faithful
    <3>6. asked' = Append(asked, request)
        BY <2>1, <3>1, <3>2, <3>3 DEF PressCreate
    <3> QED BY <3>4, <3>5, <3>6
  <2>2. ASSUME NEW k \in AdminCoupons, PressSwitch(k) PROVE \E request \in CreateRequests \cup SwitchRequests : Faithful(request) /\ asked' = Append(asked, request)
    <3>1. PICK on : on = ~table[k].active
        OBVIOUS
    <3>2. on \in BOOLEAN /\ Made(k)
        BY <2>2, <3>1 DEF PressSwitch, ConsoleInv
    <3>3. PICK request : request = [op |-> "switch", here |-> TRUE, coupon |-> k, on |-> on]
        OBVIOUS
    <3>4. request \in SwitchRequests /\ request.op = "switch" /\ request.coupon = k
        BY <3>2, <3>3 DEF SwitchRequests
    <3>5. Faithful(request)
        BY <3>2, <3>4 DEF Faithful
    <3>6. asked' = Append(asked, request)
        BY <2>2, <3>1, <3>3 DEF PressSwitch
    <3> QED BY <3>4, <3>5, <3>6
  <2> QED BY <2>1, <2>2
<1>3. PICK request \in CreateRequests \cup SwitchRequests : Faithful(request) /\ asked' = Append(asked, request)
    BY <1>2
<1>4. dialog' \in DialogTypes /\ HidesNothing(dialog'.form)
    BY <1>1 DEF ConsoleInv
<1> QED BY <1>1, <1>3, <1>4, AskedMore, DialogMoves

\* A request that is carried out changes one row, as the coupon page does.
LEMMA RequestActs ==
    ASSUME CouponInv, ConsoleInv, asked # <<>>, NEW k \in AdminCoupons, Mint(k) \/ Switch(k)
    PROVE  /\ CouponInv' /\ Made(k)' /\ \A l \in AdminCoupons : Made(l) => Made(l)'
           /\ DOMAIN minted' = AdminCoupons /\ \A l \in AdminCoupons : FaithfulMint(minted'[l])
           /\ \A l \in AdminCoupons : l # k => coupons'[l] = coupons[l]
<1>0. Head(asked) \in CreateRequests \cup SwitchRequests /\ Faithful(Head(asked))
    BY AskedLess
<1>1. PICK r : r = Head(asked)
    OBVIOUS
<1>2. CASE Mint(k)
  <2>1. r \in CreateRequests /\ r.terms = Sent(r.shown) /\ r.shown \in CouponForms
      BY <1>0, <1>1, <1>2 DEF Mint, Faithful, CreateRequests, SwitchRequests
  <2>2. ~Made(k) /\ Accepted(r.terms) /\ minted' = [minted EXCEPT ![k] = [shown |-> r.shown, terms |-> r.terms]]
      BY <1>1, <1>2 DEF Mint
  <2>3. PICK code \in CodesFor(r.terms) : FreeCode(code) /\ coupons' = [coupons EXCEPT ![k] = Created(code)]
      BY <1>1, <1>2 DEF Mint
  <2>4. code \in Codes
    <3>1. r.terms.code \in Codes \cup {NoCode, BadCode}
        BY <2>1 DEF Sent, CouponForms
    <3> QED BY <2>2, <2>3, <3>1 DEF Accepted, CodesFor
  <2>5. CouponInv' /\ Made(k)' /\ \A l \in AdminCoupons : Made(l) => Made(l)'
      BY <2>2, <2>3, <2>4, RowChanges
  <2>6. PICK m : m = [shown |-> r.shown, terms |-> r.terms]
      OBVIOUS
  <2>7. FaithfulMint(m)
      BY <2>1, <2>2, <2>6 DEF FaithfulMint
  <2>8. DOMAIN minted' = AdminCoupons /\ \A l \in AdminCoupons : FaithfulMint(minted'[l])
      BY <2>2, <2>6, <2>7 DEF ConsoleInv
  <2>9. \A l \in AdminCoupons : l # k => coupons'[l] = coupons[l]
      BY <2>3 DEF CouponInv
  <2> QED BY <2>5, <2>8, <2>9
<1>3. CASE Switch(k)
  <2>1. r \in SwitchRequests /\ r.coupon = k /\ Made(k) /\ r.on \in BOOLEAN
      BY <1>0, <1>1, <1>3 DEF Switch, Faithful, CreateRequests, SwitchRequests
  <2>2. coupons' = [coupons EXCEPT ![k] = Switched(k, r.on)] /\ minted' = minted
      BY <1>1, <1>3 DEF Switch
  <2>3. CouponInv' /\ Made(k)' /\ \A l \in AdminCoupons : Made(l) => Made(l)'
      BY <2>1, <2>2, RowChanges
  <2>4. \A l \in AdminCoupons : l # k => coupons'[l] = coupons[l]
      BY <2>2 DEF CouponInv
  <2> QED BY <2>2, <2>3, <2>4 DEF ConsoleInv
<1> QED BY <1>2, <1>3

LEMMA RowMade ==
    ASSUME NEW row \in CouponRows, NEW shown, shown = [code |-> row.code, active |-> row.active]
    PROVE  shown.active \in BOOLEAN /\ (shown # NoRow => row # NotMade)
<1>1. shown.active \in BOOLEAN
    BY DEF CouponRows
<1>2. ASSUME row = NotMade PROVE shown = NoRow
  <2>1. row.code = NoCode /\ row.active = FALSE
      BY <1>2 DEF NotMade
  <2> QED BY <2>1 DEF NoRow
<1> QED BY <1>1, <1>2

LEMMA AnswersKeep ==
    ASSUME CouponInv, ConsoleInv, CouponInv', \A l \in AdminCoupons : Made(l) => Made(l)',
           asked # <<>>, asked' = Tail(asked),
           dialog' \in DialogTypes, HidesNothing(dialog'.form),
           DOMAIN minted' = AdminCoupons, \A l \in AdminCoupons : FaithfulMint(minted'[l]),
           UNCHANGED table \/ Reread, behind' \subseteq AdminCoupons
    PROVE  ConsoleInv'
<1>1. asked' \in Seq(CreateRequests \cup SwitchRequests) /\ \A i \in DOMAIN asked' : Faithful(asked'[i])
    BY AskedLess
<1>2. (\A i \in DOMAIN asked : Faithful(asked[i]))'
  <2> SUFFICES ASSUME NEW i \in DOMAIN asked' PROVE Faithful(asked[i])'
      OBVIOUS
  <2>1. asked'[i] \in CreateRequests \cup SwitchRequests
      BY <1>1, LenProperties, ElementOfSeq
  <2>2. asked'[i].op = "switch" => asked'[i].coupon \in AdminCoupons
      BY <2>1 DEF CreateRequests, SwitchRequests
  <2>3. Faithful(asked'[i])
      BY <1>1
  <2> QED BY <2>2, <2>3 DEF Faithful
<1>3. HidesNothing(dialog.form)' /\ \A l \in AdminCoupons : FaithfulMint(minted[l])'
    BY DEF HidesNothing, ShowsExtras, FaithfulMint
<1>4. DOMAIN table' = AdminCoupons /\ \A k \in AdminCoupons : table'[k].active \in BOOLEAN /\ (table'[k] # NoRow => Made(k)')
  <2>1. CASE UNCHANGED table
      BY <2>1 DEF ConsoleInv
  <2>2. CASE Reread
    <3>1. \A k \in AdminCoupons : RowOf(k)'.active \in BOOLEAN /\ (RowOf(k)' # NoRow => Made(k)')
      <4> SUFFICES ASSUME NEW k \in AdminCoupons PROVE RowOf(k)'.active \in BOOLEAN /\ (RowOf(k)' # NoRow => Made(k)')
          OBVIOUS
      <4>1. PICK row, shown : row = coupons'[k] /\ shown = [code |-> row.code, active |-> row.active]
          OBVIOUS
      <4>2. row \in CouponRows /\ RowOf(k)' = shown /\ (Made(k)' <=> row # NotMade)
          BY <4>1 DEF CouponInv, RowOf, Made
      <4>3. shown.active \in BOOLEAN /\ (shown # NoRow => row # NotMade)
          BY <4>1, <4>2, RowMade
      <4> QED BY <4>2, <4>3
    <3> QED BY <2>2, <3>1 DEF Reread
  <2> QED BY <2>1, <2>2
<1> QED BY <1>1, <1>2, <1>3, <1>4 DEF ConsoleInv

LEMMA ErrorShown ==
    ASSUME ConsoleInv, ShowError
    PROVE  dialog' \in DialogTypes /\ HidesNothing(dialog'.form) /\ asked' = Tail(asked) /\ UNCHANGED <<table, admins>>
<1>1. PICK f, g : f = dialog.form /\ g = [f EXCEPT !.code = NoCode, !.minExtras = 0, !.limit = 0]
    OBVIOUS
<1>2. f \in CouponForms /\ HidesNothing(f) /\ g = Blanked(f)
    BY <1>1 DEF ConsoleInv, DialogTypes, Blanked
<1>3. g \in CouponForms
    BY <1>1, <1>2, FormsChanged
<1>4. g.services = f.services /\ g.requiredExtras = f.requiredExtras
    BY <1>1, <1>2 DEF CouponForms
<1>5. HidesNothing(g)
    BY <1>2, <1>4 DEF HidesNothing, ShowsExtras
<1>6. dialog' = dialog \/ dialog' = [dialog EXCEPT !.failed = TRUE, !.form = g]
    BY <1>1, <1>2 DEF ShowError
<1>7. dialog' \in DialogTypes /\ (dialog' = dialog \/ dialog'.form = g)
    BY <1>3, <1>6 DEF ConsoleInv, DialogTypes
<1> QED BY <1>1, <1>2, <1>5, <1>7 DEF ShowError

LEMMA AnswerStep ==
    ASSUME CouponInv, ConsoleInv, Carried \/ Refused \/ LoseAnswer
    PROVE  /\ CouponInv' /\ ConsoleInv' /\ UNCHANGED admins /\ \A l \in AdminCoupons : Made(l) => Made(l)'
           /\ TableTellsTheCoupons => TableTellsTheCoupons'
<1>1. CASE Carried
  <2>1. PICK k \in AdminCoupons : Mint(k) \/ Switch(k)
      BY <1>1 DEF Carried
  <2>2. asked # <<>> /\ asked' = Tail(asked) /\ Reread /\ UNCHANGED admins
      BY <1>1 DEF Carried
  <2>3. /\ CouponInv' /\ \A l \in AdminCoupons : Made(l) => Made(l)'
        /\ DOMAIN minted' = AdminCoupons /\ \A l \in AdminCoupons : FaithfulMint(minted'[l])
      BY <2>1, <2>2, RequestActs
  <2>4. dialog' \in DialogTypes /\ HidesNothing(dialog'.form)
    <3>1. dialog' = dialog \/ dialog' = [open |-> FALSE, form |-> BlankForm, failed |-> FALSE, fills |-> 0]
        BY <1>1 DEF Carried
    <3> QED BY <3>1, BlankDialog DEF ConsoleInv
  <2>5. behind' \subseteq AdminCoupons
      BY <2>2 DEF Reread
  <2>6. ConsoleInv'
      BY <2>2, <2>3, <2>4, <2>5, AnswersKeep
  <2>7. TableTellsTheCoupons'
      BY <2>2 DEF Reread, TableTellsTheCoupons
  <2> QED BY <2>2, <2>3, <2>6, <2>7
<1>2. CASE Refused
  <2>1. asked # <<>> /\ ShowError /\ UNCHANGED <<coupons, minted, behind>>
      BY <1>2 DEF Refused
  <2>2. dialog' \in DialogTypes /\ HidesNothing(dialog'.form) /\ asked' = Tail(asked) /\ UNCHANGED <<table, admins>>
      BY <2>1, ErrorShown
  <2>3. CouponInv' /\ \A l \in AdminCoupons : Made(l) => Made(l)'
      BY <2>1 DEF CouponInv, Made, Alternates
  <2>4. DOMAIN minted' = AdminCoupons /\ (\A l \in AdminCoupons : FaithfulMint(minted'[l])) /\ behind' \subseteq AdminCoupons
      BY <2>1 DEF ConsoleInv
  <2>5. ConsoleInv'
      BY <2>1, <2>2, <2>3, <2>4, AnswersKeep
  <2>6. TableTellsTheCoupons => TableTellsTheCoupons'
      BY <2>1, <2>2 DEF TableTellsTheCoupons, RowOf
  <2> QED BY <2>2, <2>3, <2>5, <2>6
<1>3. CASE LoseAnswer
  <2>1. PICK k \in AdminCoupons : (Mint(k) \/ Switch(k)) /\ behind' = behind \cup {k}
      BY <1>3 DEF LoseAnswer
  <2>2. asked # <<>> /\ ShowError
      BY <1>3 DEF LoseAnswer
  <2>3. dialog' \in DialogTypes /\ HidesNothing(dialog'.form) /\ asked' = Tail(asked) /\ UNCHANGED <<table, admins>>
      BY <2>2, ErrorShown
  <2>4. /\ CouponInv' /\ \A l \in AdminCoupons : Made(l) => Made(l)'
        /\ DOMAIN minted' = AdminCoupons /\ \A l \in AdminCoupons : FaithfulMint(minted'[l])
        /\ \A l \in AdminCoupons : l # k => coupons'[l] = coupons[l]
      BY <2>1, <2>2, RequestActs
  <2>5. behind' \subseteq AdminCoupons
      BY <2>1 DEF ConsoleInv
  <2>6. ConsoleInv'
      BY <2>2, <2>3, <2>4, <2>5, AnswersKeep
  <2>7. TableTellsTheCoupons => TableTellsTheCoupons'
      BY <2>1, <2>3, <2>4 DEF TableTellsTheCoupons, RowOf
  <2> QED BY <2>3, <2>4, <2>6, <2>7
<1> QED BY <1>1, <1>2, <1>3

LEMMA ElsewhereStep ==
    ASSUME CouponInv, ConsoleInv, NEW k \in AdminCoupons, ChangedElsewhere(k)
    PROVE  /\ CouponInv' /\ ConsoleInv' /\ UNCHANGED admins /\ \A l \in AdminCoupons : Made(l) => Made(l)'
           /\ TableTellsTheCoupons => TableTellsTheCoupons'
<1>1. behind' = behind \cup {k} /\ UNCHANGED <<dialog, asked, minted, table, admins>>
    BY DEF ChangedElsewhere
<1>2. PICK new : /\ coupons' = [coupons EXCEPT ![k] = new]
                 /\ \/ ~Made(k) /\ \E code \in Codes : FreeCode(code) /\ new = Created(code)
                    \/ Made(k) /\ \E active \in BOOLEAN : new = Switched(k, active)
  <2>1. CASE ~Made(k)
      BY <2>1 DEF ChangedElsewhere
  <2>2. CASE Made(k)
    <3>1. (~coupons[k].active) \in BOOLEAN
        BY DEF CouponInv, CouponRows
    <3> QED BY <2>2, <3>1 DEF ChangedElsewhere
  <2> QED BY <2>1, <2>2
<1>3. CouponInv' /\ \A l \in AdminCoupons : Made(l) => Made(l)'
    BY <1>2, RowChanges
<1>4. \A l \in AdminCoupons : l # k => coupons'[l] = coupons[l]
    BY <1>2 DEF CouponInv
<1>5. TableTellsTheCoupons => TableTellsTheCoupons'
    BY <1>1, <1>4 DEF TableTellsTheCoupons, RowOf
<1>6. (\A i \in DOMAIN asked : Faithful(asked[i]))'
  <2> SUFFICES ASSUME NEW i \in DOMAIN asked PROVE Faithful(asked[i])'
      BY <1>1
  <2>1. asked[i] \in CreateRequests \cup SwitchRequests
      BY LenProperties, ElementOfSeq DEF ConsoleInv
  <2>2. asked[i].op = "switch" => asked[i].coupon \in AdminCoupons
      BY <2>1 DEF CreateRequests, SwitchRequests
  <2> QED BY <1>1, <1>3, <2>2 DEF ConsoleInv, Faithful
<1>7. ConsoleInv'
    BY <1>1, <1>3, <1>6 DEF ConsoleInv, HidesNothing, ShowsExtras, FaithfulMint
<1> QED BY <1>1, <1>3, <1>5, <1>7

LEMMA ConsoleStep ==
    ASSUME CouponInv, ConsoleInv, CouponConsoleNext
    PROVE  /\ CouponInv' /\ ConsoleInv' /\ UNCHANGED admins /\ \A l \in AdminCoupons : Made(l) => Made(l)'
           /\ TableTellsTheCoupons => TableTellsTheCoupons'
<1>1. ASSUME ConsoleInv', UNCHANGED <<couponVars, table, behind>>
      PROVE  /\ CouponInv' /\ UNCHANGED admins /\ \A l \in AdminCoupons : Made(l) => Made(l)'
             /\ TableTellsTheCoupons => TableTellsTheCoupons'
    BY <1>1 DEF couponVars, CouponInv, Made, Alternates, TableTellsTheCoupons, RowOf
<1>2. CASE OpenDialog \/ CloseDialog
    BY <1>1, <1>2, DialogStep
<1>3. CASE PressCreate \/ \E k \in AdminCoupons : PressSwitch(k)
    BY <1>1, <1>3, PressStep
<1>4. CASE \/ \E percentage \in BOOLEAN : SelectDiscountType(percentage)
           \/ \E n \in Amounts : EnterAmount(n)
           \/ ToggleScope \/ ChangeEmails \/ TypeIn
           \/ \E r \in RankChoices \cup {NoRank} : PickRank(r)
           \/ \E x \in Extras : PickExtra(x)
    BY <1>1, <1>4, FormStep
<1>5. CASE Carried \/ Refused \/ LoseAnswer
    BY <1>5, AnswerStep
<1>6. CASE \E k \in AdminCoupons : ChangedElsewhere(k)
    BY <1>6, ElsewhereStep
<1> QED BY <1>2, <1>3, <1>4, <1>5, <1>6 DEF CouponConsoleNext

LEMMA WhatWasShown == ASSUME ConsoleInv PROVE CouponsSayWhatWasShown
    BY DEF ConsoleInv, FaithfulMint, CouponsSayWhatWasShown

\* A coupon that was made can be met: of its services, from its lowest rank, with every
\* extra, at its minimum or at the smallest amount.
LEMMA CanBeSpent == ASSUME ConsoleInv PROVE CouponsCanBeSpent
<1> SUFFICES ASSUME NEW k \in AdminCoupons, minted[k] # NotMinted
             PROVE  MetBySomeOrder(minted[k].terms) <=>
                        /\ minted[k].terms.services = {} \/ minted[k].terms.services \cap Services # {}
                        /\ minted[k].terms.minExtras <= Cardinality(Extras)
    BY DEF CouponsCanBeSpent
<1>1. PICK f, t : f = minted[k].shown /\ t = minted[k].terms
    OBVIOUS
<1>2. f \in CouponForms /\ t = Sent(f) /\ Accepted(t)
    BY <1>1 DEF ConsoleInv, FaithfulMint
<1>3. /\ t.services = f.services /\ t.queues = f.queues /\ t.clients = f.clients
      /\ t.minSubtotal = f.minSubtotal /\ t.maxSubtotal = f.maxSubtotal
      /\ t.minRank = (IF f.minRank = NoRank THEN 0 ELSE f.minRank)
      /\ t.requiredExtras = f.requiredExtras /\ t.minExtras = f.minExtras
    BY <1>2 DEF Sent
<1>4. /\ t.services \in SUBSET AllServices /\ t.queues \in SUBSET Queues /\ t.clients \in SUBSET Emails
      /\ t.minSubtotal \in Nat /\ t.maxSubtotal \in Nat /\ t.minExtras \in Nat
      /\ t.requiredExtras \in SUBSET Extras
  <2> QED BY <1>2, <1>3 DEF CouponForms
<1>5. t.minRank \in Ranks /\ t.minRank <= t.maxRank
  <2>1. f.minRank \in Ranks \cup {NoRank} /\ 0 \in Ranks
      BY <1>2, PriceAssumption DEF CouponForms, Ranks
  <2> QED BY <1>2, <1>3, <2>1 DEF Accepted
<1>6. t.minSubtotal > 0 /\ t.maxSubtotal > 0 => t.minSubtotal <= t.maxSubtotal
    BY <1>2 DEF Accepted
<1>7. Cardinality(Extras) \in Nat /\ \A extras \in SUBSET Extras : Cardinality(extras) \in Nat /\ Cardinality(extras) <= Cardinality(Extras)
    BY CouponConsoleAssumption, FS_CardinalityType, FS_Subset
<1>8. ASSUME MetBySomeOrder(t)
      PROVE  (t.services = {} \/ t.services \cap Services # {}) /\ t.minExtras <= Cardinality(Extras)
  <2>1. PICK s \in Services, extras \in SUBSET Extras : Permits(t.services, s) /\ t.minExtras <= Cardinality(extras)
      BY <1>8 DEF MetBySomeOrder, Eligible
  <2>2. t.services = {} \/ t.services \cap Services # {}
      BY <2>1 DEF Permits
  <2>3. t.minExtras <= Cardinality(Extras)
      BY <1>4, <1>7, <2>1
  <2> QED BY <2>2, <2>3
<1>9. ASSUME t.services = {} \/ t.services \cap Services # {}, t.minExtras <= Cardinality(Extras)
      PROVE  MetBySomeOrder(t)
  <2>1. PICK s \in Services : Permits(t.services, s)
      BY <1>9, CouponConsoleAssumption DEF Permits
  <2>2. PICK q \in Queues : Permits(t.queues, q)
      BY <1>4, CouponConsoleAssumption DEF Permits
  <2>3. PICK e \in Emails : Permits(t.clients, e)
      BY <1>4, CouponConsoleAssumption DEF Permits
  <2>4. PICK subtotal \in {1, t.minSubtotal, t.maxSubtotal} :
            t.minSubtotal <= subtotal /\ (t.maxSubtotal = 0 \/ subtotal <= t.maxSubtotal)
    <3>1. CASE t.minSubtotal = 0
        BY <1>4, <3>1
    <3>2. CASE t.minSubtotal # 0
        BY <1>4, <1>6, <3>2
    <3> QED BY <3>1, <3>2
  <2>5. PICK r \in Ranks : r = t.minRank
      BY <1>5
  <2>6. PICK request : request = [service |-> s, queue |-> q, from |-> r, extras |-> Extras]
      OBVIOUS
  <2>7. request.service = s /\ request.queue = q /\ request.from = r /\ request.extras = Extras
      BY <2>6
  <2>8. t.minRank <= r /\ r <= t.maxRank
      BY <1>5, <2>5, PriceAssumption DEF Ranks
  <2>9. Eligible(t, e, TRUE, request, subtotal)
      BY <1>4, <1>9, <2>1, <2>2, <2>3, <2>4, <2>7, <2>8 DEF Eligible
  <2> QED BY <2>6, <2>9 DEF MetBySomeOrder
<1> QED BY <1>1, <1>8, <1>9

LEMMA ConsoleTypes == ASSUME CouponInv, ConsoleInv PROVE CouponConsoleTypeOK
<1>1. \A i \in DOMAIN asked : asked[i].op \in {"create", "switch"}
  <2> SUFFICES ASSUME NEW i \in DOMAIN asked PROVE asked[i].op \in {"create", "switch"}
      OBVIOUS
  <2>1. asked[i] \in CreateRequests \cup SwitchRequests
      BY LenProperties, ElementOfSeq DEF ConsoleInv
  <2> QED BY <2>1 DEF CreateRequests, SwitchRequests
<1> QED BY <1>1 DEF CouponInv, ConsoleInv, DialogTypes, CouponConsoleTypeOK

-------------------------------------------------------------------------------
(***************************************************************************)
(* The order form.  A route that got past the picker goes up, and stays    *)
(* the same until the client comes back; a list has a price for it, unless *)
(* the climb is free: rounding gives away the step under way at most, and  *)
(* that only if it is cheap.                                               *)
(***************************************************************************)
LEMMA SumPart ==
    ASSUME NEW f, NEW S, NEW R, R \subseteq S, IsFiniteSet(S), \A x \in S : f[x] \in Nat
    PROVE  SumOf(f, R) <= SumOf(f, S)
<1> DEFINE T == {s \in SUBSET S : R \subseteq s /\ ~(SumOf(f, R) <= SumOf(f, s))}
<1> SUFFICES ASSUME T # {} PROVE FALSE
    OBVIOUS
<1>1. PICK s \in T : \A t \in T : t \subseteq s => t = s
    <2>1. T \subseteq SUBSET S
        OBVIOUS
    <2> HIDE DEF T
    <2> QED BY <2>1, SmallestSubset
<1>2. IsFiniteSet(s) /\ s \in SUBSET S /\ R \subseteq s /\ ~(SumOf(f, R) <= SumOf(f, s))
    BY FS_Subset
<1>3. IsFiniteSet(R) /\ \A y \in R : f[y] \in Nat
    BY FS_Subset
<1>4. SumOf(f, R) \in Nat
    BY <1>3, SumType
<1>5. PICK x \in s : x \notin R
    BY <1>2, <1>4
<1>6. IsFiniteSet(s \ {x}) /\ \A y \in s \ {x} : f[y] \in Nat
    BY <1>2, FS_Subset
<1>7. SumOf(f, s \ {x}) \in Nat /\ f[x] \in Nat
    BY <1>2, <1>6, SumType
<1>8. SumOf(f, s) = f[x] + SumOf(f, s \ {x})
    <2>1. \A y \in s : f[y] \in Nat
        BY <1>2
    <2> QED BY <1>2, <2>1, SumTake
<1>9. SumOf(f, R) <= SumOf(f, s \ {x})
    <2>1. s \ {x} \in SUBSET S /\ R \subseteq s \ {x} /\ s \ {x} # s /\ s \ {x} \subseteq s
        BY <1>2, <1>5
    <2> QED BY <1>1, <2>1
<1> QED BY <1>2, <1>4, <1>7, <1>8, <1>9

\* The steps below a higher rank cost more, by the step from the lower one at least.
LEMMA ClimbCosts ==
    ASSUME NEW D \in SUBSET Ranks, NEW steps \in [D -> Nat], NEW from \in D, NEW to \in Nat, from < to
    PROVE  /\ CumulativeValue(steps, from) \in Nat /\ CumulativeValue(steps, to) \in Nat
           /\ CumulativeValue(steps, from) + steps[from] <= CumulativeValue(steps, to)
<1> DEFINE Below(rank) == {k \in DOMAIN steps : k < rank}
           through == Below(from) \cup {from}
<1>1. \A rank : IsFiniteSet(Below(rank)) /\ \A k \in Below(rank) : steps[k] \in Nat
    <2>1. IsFiniteSet(Ranks)
        BY PriceAssumption, FS_Interval DEF Ranks
    <2>2. IsFiniteSet(D)
        BY <2>1, FS_Subset
    <2>3. \A rank : Below(rank) \subseteq D
        OBVIOUS
    <2> QED BY <2>2, <2>3, FS_Subset
<1>2. \A rank : CumulativeValue(steps, rank) = SumOf(steps, Below(rank))
    BY DEF CumulativeValue, SumOf
<1>3. /\ through \subseteq Below(to) /\ from \in through /\ through \ {from} = Below(from)
      /\ from \in Nat
  <2>1. D \subseteq Nat /\ DOMAIN steps = D
      BY PriceAssumption DEF Ranks
  <2>2. from \in Nat /\ from \notin Below(from) /\ from \in Below(to)
      BY <2>1
  <2>3. \A k \in Below(from) : k \in Below(to)
      BY <2>1, <2>2
  <2> QED BY <2>2, <2>3
<1> HIDE DEF Below
<1>4. IsFiniteSet(through) /\ \A k \in through : steps[k] \in Nat
  <2> HIDE DEF through
  <2>1. IsFiniteSet(Below(to)) /\ \A k \in Below(to) : steps[k] \in Nat
      BY <1>1
  <2> QED BY <1>3, <2>1, FS_Subset
<1> HIDE DEF through
<1>5. SumOf(steps, through) = steps[from] + SumOf(steps, Below(from))
  <2>1. from \in through /\ through \ {from} = Below(from)
      BY <1>3
  <2>2. SumOf(steps, through) = steps[from] + SumOf(steps, through \ {from})
      BY <1>4, <2>1, SumTake
  <2> QED BY <2>1, <2>2
<1>6. SumOf(steps, through) <= SumOf(steps, Below(to))
    BY <1>1, <1>3, SumPart
<1>7. SumOf(steps, Below(from)) \in Nat /\ SumOf(steps, Below(to)) \in Nat
    BY <1>1, SumType
<1> QED BY <1>2, <1>5, <1>6, <1>7

LEMMA PartsOfAStep ==
    ASSUME NEW cents \in Nat, NEW part \in Nat
    PROVE  /\ Percentage(cents, part, 100) = (2 * cents * part + 100) \div 200
           /\ Percentage(cents, part, 100) \in Nat
           /\ part <= 99 => Percentage(cents, part, 100) <= cents
           /\ cents > 50 /\ part <= 99 => Percentage(cents, part, 100) < cents
<1>1. Percentage(cents, part, 100) = (2 * cents * part + 100) \div 200
    BY DEF Percentage, Magnitude
<1>2. 2 * cents * part \in Nat
    <2>1. \A a, b \in Nat : a * b \in Nat
        OBVIOUS
    <2> QED BY <2>1
<1> DEFINE product == 2 * cents * part
<1>3. part <= 99 => product <= 198 * cents
    <2>1. \A a \in Nat : part <= 99 => a * part <= a * 99
        OBVIOUS
    <2>2. part <= 99 => 2 * cents * part <= 2 * cents * 99
        BY <2>1
    <2> QED BY <2>2
<1> HIDE DEF product
<1>4. product \in Nat /\ Percentage(cents, part, 100) = (product + 100) \div 200
    BY <1>1, <1>2 DEF product
<1>5. (product + 100) \div 200 \in Nat /\ 200 * ((product + 100) \div 200) <= product + 100
    BY <1>4
<1> QED BY <1>1, <1>3, <1>4, <1>5

LEMMA MorePoints ==
    ASSUME NEW cents \in Nat, cents >= 100, NEW more \in Nat, NEW less \in Nat, less < more
    PROVE  Percentage(cents, less, 100) < Percentage(cents, more, 100)
<1> DEFINE a == 2 * cents * less
           b == 2 * cents * more
<1>1. a \in Nat /\ b \in Nat /\ b >= a + 200
    <2>1. a \in Nat /\ b \in Nat
        <3>1. \A m, n \in Nat : m * n \in Nat
            OBVIOUS
        <3> QED BY <3>1
    <2>2. \A m, n \in Nat, k \in Nat : n <= k => m * n <= m * k
        OBVIOUS
    <2>3. 2 * cents * (less + 1) <= b
        BY <2>2
    <2>4. 2 * cents * (less + 1) = a + 2 * cents
        OBVIOUS
    <2> QED BY <2>1, <2>3, <2>4
<1>2. /\ Percentage(cents, less, 100) = (a + 100) \div 200
      /\ Percentage(cents, more, 100) = (b + 100) \div 200
    BY PartsOfAStep
<1> HIDE DEF a, b
<1> QED BY <1>1, <1>2

LEMMA LesserIs ==
    ASSUME NEW a \in Nat, NEW b \in Nat
    PROVE  Min({a, b}) = IF a <= b THEN a ELSE b
<1>1. \E x \in {a, b} : \A y \in {a, b} : x <= y
    OBVIOUS
<1>2. Min({a, b}) \in {a, b} /\ \A y \in {a, b} : Min({a, b}) <= y
    BY <1>1 DEF Min
<1> QED BY <1>2

\* A place in a league is below the next league.
LEMMA Places ==
    ASSUME NEW league \in 0..Master, NEW division \in DivisionsOf(league)
    PROVE  /\ Place(league, division) \in Ranks /\ division \in 0..MaxPdl
           /\ league = Master <=> Place(league, division) = Top
<1>1. Leagues \in Nat \ {0} /\ Divisions \in Nat \ {0} /\ Top = Leagues * Divisions /\ MaxPdl \in Nat /\ Divisions <= MaxPdl
    BY OrderFormAssumption
<1>2. CASE league = Master
    BY <1>1, <1>2, PriceAssumption DEF Place, DivisionsOf, Master, Ranks
<1>3. CASE league # Master
  <2>1. /\ league \in Nat /\ league + 1 <= Leagues /\ division \in Nat /\ division + 1 <= Divisions
        /\ Place(league, division) = league * Divisions + division
      BY <1>1, <1>3 DEF Place, DivisionsOf, Master
  <2>2. (league + 1) * Divisions <= Leagues * Divisions
    <3>1. \A m, n, k \in Nat : n <= k => n * m <= k * m
        OBVIOUS
    <3> QED BY <1>1, <2>1, <3>1
  <2>3. league * Divisions \in Nat /\ (league + 1) * Divisions = league * Divisions + Divisions
    <3>1. \A m, n \in Nat : n * m \in Nat /\ (n + 1) * m = n * m + m
        OBVIOUS
    <3> QED BY <1>1, <2>1, <3>1
  <2> DEFINE below == league * Divisions
  <2>4. below \in Nat /\ below + Divisions <= Top /\ Top \in Nat
      BY <1>1, <2>2, <2>3, PriceAssumption
  <2> HIDE DEF below
  <2>5. Place(league, division) = below + division
      BY <2>1 DEF below
  <2>6. Place(league, division) \in Nat /\ Place(league, division) < Top
      BY <1>1, <2>1, <2>4, <2>5
  <2> QED BY <1>1, <1>3, <2>1, <2>4, <2>6 DEF Ranks
<1> QED BY <1>2, <1>3

RouteGoesUp == IsDesiredRankAvailable(form.from, form.fromDivision, form.to, form.toDivision)

Answers(f) == {[total |-> Quoted(f, l), list |-> l] : l \in 1..Len(OrderLists)}
FormTypes ==
    /\ form \in Forms /\ step \in 1..5 /\ listNow \in 1..Len(OrderLists)
    /\ asking = [last |-> asking.last, waiting |-> asking.waiting,
                 sent |-> asking.sent, answered |-> asking.answered]
    /\ asking.last \in 1..MaxEdits + 1 /\ asking.waiting \in BOOLEAN
    /\ summary = [shown |-> summary.shown, pending |-> summary.pending, failed |-> summary.failed]
    /\ summary.pending \in BOOLEAN /\ summary.failed \in BOOLEAN
    /\ summary.shown.list \in 0..Len(OrderLists)

QuestionsFollow ==
    /\ \A q \in asking.sent : q.id \in Nat /\ q.id <= asking.last /\ (q.id = asking.last => q.of = form)
    /\ \A a \in asking.answered :
        /\ a.id \in Nat /\ a.id <= asking.last
        /\ a.good => a.total.list \in 1..Len(OrderLists)
        /\ a.good /\ a.id = asking.last => a.total \in Answers(form)
    /\ asking.waiting => \A q \in asking.sent \cup asking.answered : q.id < asking.last

OrderOnScreen ==
    /\ checkout.stage = "submitted" /\ checkout.seen # NoTotal => checkout.seen \in Answers(checkout.form)
    /\ checkout.stage = "placed" /\ checkout.seen # NoTotal =>
            checkout.charged = checkout.seen \/ checkout.charged.list # checkout.seen.list

FormInv ==
    /\ FormTypes /\ QuestionsFollow /\ OrderOnScreen
    /\ form.from # Master => form.lp <= 99
    /\ step \in 2..4 => RouteGoesUp
    /\ form.gain <= 17 <=> "mmr_nerfed" \in form.extras
    /\ Settled => summary.shown \in Answers(form)

LEMMA OrderFormStarts == ASSUME OrderFormInit PROVE FormInv
<1>0. Offered[1] \in Services
    BY OrderFormAssumption
<1>1. StartForm \in Forms
    BY <1>0, OrderFormAssumption DEF StartForm, Forms, DivisionsOf, Master
<1>2. FormTypes
    BY <1>1, OrderFormAssumption DEF FormTypes, OrderFormInit, NoTotal
<1> QED BY <1>2 DEF OrderFormInit, FormInv, QuestionsFollow, OrderOnScreen, StartForm, Settled, NoCheckout

\* The fields of a form.
LEMMA FormFields ==
    ASSUME NEW f \in Forms
    PROVE  /\ f.service \in Services /\ f.from \in 0..Master /\ f.to \in 0..Master /\ f.lp \in 0..MaxPdl
           /\ f.fromDivision \in DivisionsOf(f.from) /\ f.toDivision \in DivisionsOf(f.to)
           /\ f.fromDivision \in 0..MaxPdl /\ f.toDivision \in 0..MaxPdl
           /\ f.extras \in SUBSET Extras /\ f.gain \in {17, 18} /\ f.coupon \in BOOLEAN
    BY DEF Forms

\* A change of the form drops the question that was waiting, and disowns those on their way.
LEMMA ChangeKeeps ==
    ASSUME FormInv, NEW f \in Forms, Change(f), step' \in 1..5,
           f.from # Master => f.lp <= 99,
           f.gain <= 17 <=> "mmr_nerfed" \in f.extras,
           step' \in 2..4 => IsDesiredRankAvailable(f.from, f.fromDivision, f.to, f.toDivision)
    PROVE  FormInv'
<1>1. /\ form' = f /\ asking' = [asking EXCEPT !.last = asking.last + 1, !.waiting = TRUE]
      /\ summary' = [summary EXCEPT !.pending = TRUE] /\ listNow' = listNow /\ checkout' = checkout
      /\ asking.last <= MaxEdits
    BY DEF Change
<1>2. /\ asking'.last = asking.last + 1 /\ asking'.waiting = TRUE /\ asking'.sent = asking.sent
      /\ asking'.answered = asking.answered
      /\ asking' = [last |-> asking'.last, waiting |-> asking'.waiting,
                    sent |-> asking'.sent, answered |-> asking'.answered]
    BY <1>1 DEF FormInv, FormTypes
<1>3. /\ summary' = [shown |-> summary'.shown, pending |-> summary'.pending, failed |-> summary'.failed]
      /\ summary'.pending = TRUE /\ summary'.failed = summary.failed /\ summary'.shown = summary.shown
    BY <1>1 DEF FormInv, FormTypes
<1>4. FormTypes'
    BY <1>1, <1>2, <1>3, OrderFormAssumption DEF FormInv, FormTypes
<1>5. QuestionsFollow'
    BY <1>1, <1>2 DEF FormInv, FormTypes, QuestionsFollow
<1>6. OrderOnScreen' /\ ~Settled'
    BY <1>1, <1>3 DEF FormInv, OrderOnScreen, Answers, Quoted, Settled
<1> QED BY <1>1, <1>4, <1>5, <1>6 DEF FormInv, RouteGoesUp

\* The ranks that the picker leaves are ranks.
LEMMA RanksStay ==
    ASSUME NEW league \in 0..Master, NEW chosenIn \in 0..Master, NEW division \in DivisionsOf(chosenIn)
    PROVE  NormalizeRankDivision(league, division, chosenIn) \in DivisionsOf(league)
<1>1. MaxPdl \in Nat /\ Leagues \in Nat /\ Divisions \in Nat \ {0}
    BY OrderFormAssumption
<1>2. division \in Nat
    BY <1>1 DEF DivisionsOf
<1>3. Min({division, MaxPdl}) \in 0..MaxPdl
    BY <1>1, <1>2, LesserIs
<1> QED BY <1>1, <1>3 DEF NormalizeRankDivision, DivisionsOf, Master

LEMMA NextRankIs ==
    ASSUME NEW league \in 0..Master, NEW division \in DivisionsOf(league)
    PROVE  /\ NextRankStep(league, division).league \in 0..Master
           /\ NextRankStep(league, division).division \in DivisionsOf(NextRankStep(league, division).league)
<1>1. MaxPdl \in Nat /\ Leagues \in Nat /\ Divisions \in Nat \ {0} /\ division \in Nat
    BY OrderFormAssumption DEF DivisionsOf
<1>2. Min({division + 1, MaxPdl}) \in 0..MaxPdl
    BY <1>1, LesserIs
<1>3. CASE league = Master
    BY <1>2, <1>3 DEF NextRankStep, DivisionsOf
<1>4. CASE league # Master
  <2>1. league + 1 \in 0..Master /\ division < Divisions
      BY <1>1, <1>4 DEF Master, DivisionsOf
  <2>2. CASE division + 1 < Divisions
      BY <1>1, <1>4, <2>1, <2>2 DEF NextRankStep, DivisionsOf
  <2>3. CASE ~(division + 1 < Divisions)
    <3>1. 0 \in DivisionsOf(league + 1)
        BY <1>1 DEF DivisionsOf
    <3> QED BY <1>4, <2>1, <2>3, <3>1 DEF NextRankStep
  <2> QED BY <2>2, <2>3
<1> QED BY <1>3, <1>4

LEMMA DesiredRankIs ==
    ASSUME NEW from \in 0..Master, NEW fromDivision \in DivisionsOf(from), NEW to \in 0..Master, NEW toDivision \in DivisionsOf(to)
    PROVE  /\ NormalizeDesiredRank(from, fromDivision, to, toDivision).league \in 0..Master
           /\ NormalizeDesiredRank(from, fromDivision, to, toDivision).division
                \in DivisionsOf(NormalizeDesiredRank(from, fromDivision, to, toDivision).league)
<1>1. NormalizeRankDivision(to, toDivision, to) \in DivisionsOf(to)
    BY RanksStay
<1>2. /\ NextRankStep(from, fromDivision).league \in 0..Master
      /\ NextRankStep(from, fromDivision).division \in DivisionsOf(NextRankStep(from, fromDivision).league)
    BY NextRankIs
<1>3. CASE IsDesiredRankAvailable(from, fromDivision, to, toDivision)
    BY <1>1, <1>3 DEF NormalizeDesiredRank
<1>4. CASE ~IsDesiredRankAvailable(from, fromDivision, to, toDivision)
    BY <1>2, <1>4 DEF NormalizeDesiredRank
<1> QED BY <1>3, <1>4

\* Forms of the pieces the picker puts in.
Rerouted(f, from, fromDivision, lp, to, toDivision) ==
    [f EXCEPT !.from = from, !.fromDivision = fromDivision, !.lp = lp, !.to = to, !.toDivision = toDivision]
LEMMA FormMade ==
    ASSUME NEW f \in Forms, NEW from \in 0..Master, NEW fromDivision \in DivisionsOf(from),
           NEW lp \in 0..MaxPdl, NEW to \in 0..Master, NEW toDivision \in DivisionsOf(to),
           NEW g, g = Rerouted(f, from, fromDivision, lp, to, toDivision)
    PROVE  /\ g \in Forms /\ g.from = from /\ g.lp = lp /\ g.gain = f.gain /\ g.extras = f.extras
<1>1. fromDivision \in 0..MaxPdl /\ toDivision \in 0..MaxPdl
    BY Places
<1>2. f = [service |-> f.service, from |-> f.from, fromDivision |-> f.fromDivision, lp |-> f.lp, to |-> f.to,
           toDivision |-> f.toDivision, extras |-> f.extras, gain |-> f.gain, coupon |-> f.coupon]
    BY DEF Forms
<1>3. g = [service |-> f.service, from |-> from, fromDivision |-> fromDivision, lp |-> lp, to |-> to,
           toDivision |-> toDivision, extras |-> f.extras, gain |-> f.gain, coupon |-> f.coupon]
  <2>1. PICK f1 : f1 = [f EXCEPT !.from = from]
      OBVIOUS
  <2>2. PICK f2 : f2 = [f1 EXCEPT !.fromDivision = fromDivision]
      OBVIOUS
  <2>3. PICK f3 : f3 = [f2 EXCEPT !.lp = lp]
      OBVIOUS
  <2>4. PICK f4 : f4 = [f3 EXCEPT !.to = to]
      OBVIOUS
  <2>5. PICK f5 : f5 = [f4 EXCEPT !.toDivision = toDivision]
      OBVIOUS
  <2>6. f1 = [service |-> f.service, from |-> from, fromDivision |-> f.fromDivision, lp |-> f.lp, to |-> f.to, toDivision |-> f.toDivision,
                    extras |-> f.extras, gain |-> f.gain, coupon |-> f.coupon]
      BY <1>2, <2>1
  <2>7. f2 = [service |-> f.service, from |-> from, fromDivision |-> fromDivision, lp |-> f.lp, to |-> f.to, toDivision |-> f.toDivision,
                    extras |-> f.extras, gain |-> f.gain, coupon |-> f.coupon]
      BY <2>6, <2>2
  <2>8. f3 = [service |-> f.service, from |-> from, fromDivision |-> fromDivision, lp |-> lp, to |-> f.to, toDivision |-> f.toDivision,
                    extras |-> f.extras, gain |-> f.gain, coupon |-> f.coupon]
      BY <2>7, <2>3
  <2>9. f4 = [service |-> f.service, from |-> from, fromDivision |-> fromDivision, lp |-> lp, to |-> to, toDivision |-> f.toDivision,
                    extras |-> f.extras, gain |-> f.gain, coupon |-> f.coupon]
      BY <2>8, <2>4
  <2>10. f5 = [service |-> f.service, from |-> from, fromDivision |-> fromDivision, lp |-> lp, to |-> to, toDivision |-> toDivision,
                    extras |-> f.extras, gain |-> f.gain, coupon |-> f.coupon]
      BY <2>9, <2>5
  <2>11. g = f5
      BY <2>1, <2>2, <2>3, <2>4, <2>5, Zenon DEF Rerouted
  <2> QED BY <2>10, <2>11
<1>4. f.service \in Services /\ f.extras \in SUBSET Extras /\ f.gain \in {17, 18} /\ f.coupon \in BOOLEAN
    BY FormFields
<1>5. g.from = from /\ g.lp = lp /\ g.gain = f.gain /\ g.extras = f.extras /\ g.fromDivision = fromDivision
      /\ g.to = to /\ g.toDivision = toDivision
    BY <1>3
<1>6. g \in [service : Services, from : 0..Master, fromDivision : 0..MaxPdl, lp : 0..MaxPdl,
             to : 0..Master, toDivision : 0..MaxPdl,
             extras : SUBSET Extras, gain : {17, 18}, coupon : BOOLEAN]
    BY <1>1, <1>3, <1>4
<1>7. g \in Forms
    BY <1>5, <1>6 DEF Forms
<1> QED BY <1>5, <1>7

\* Forms with another target.
Aimed(f, to, toDivision) == [f EXCEPT !.to = to, !.toDivision = toDivision]
LEMMA FormAimed ==
    ASSUME NEW f \in Forms, NEW to \in 0..Master, NEW toDivision \in DivisionsOf(to),
           NEW g, g = Aimed(f, to, toDivision)
    PROVE  /\ g \in Forms /\ g.from = f.from /\ g.lp = f.lp /\ g.gain = f.gain /\ g.extras = f.extras
<1>1. toDivision \in 0..MaxPdl
    BY Places
<1>2. f = [service |-> f.service, from |-> f.from, fromDivision |-> f.fromDivision, lp |-> f.lp, to |-> f.to,
           toDivision |-> f.toDivision, extras |-> f.extras, gain |-> f.gain, coupon |-> f.coupon]
    BY DEF Forms
<1>8. g = [service |-> f.service, from |-> f.from, fromDivision |-> f.fromDivision, lp |-> f.lp, to |-> to,
           toDivision |-> toDivision, extras |-> f.extras, gain |-> f.gain, coupon |-> f.coupon]
  <2>1. PICK g1 : g1 = [f EXCEPT !.to = to]
      OBVIOUS
  <2>2. PICK g2 : g2 = [g1 EXCEPT !.toDivision = toDivision]
      OBVIOUS
  <2>3. g1 = [service |-> f.service, from |-> f.from, fromDivision |-> f.fromDivision, lp |-> f.lp, to |-> to,
              toDivision |-> f.toDivision, extras |-> f.extras, gain |-> f.gain, coupon |-> f.coupon]
      BY <1>2, <2>1
  <2>4. g2 = [service |-> f.service, from |-> f.from, fromDivision |-> f.fromDivision, lp |-> f.lp, to |-> to,
              toDivision |-> toDivision, extras |-> f.extras, gain |-> f.gain, coupon |-> f.coupon]
      BY <2>2, <2>3
  <2>5. g = g2
      BY <2>1, <2>2, Zenon DEF Aimed
  <2> QED BY <2>4, <2>5
<1>4. /\ f.service \in Services /\ f.from \in 0..Master /\ f.lp \in 0..MaxPdl /\ f.fromDivision \in DivisionsOf(f.from)
      /\ f.fromDivision \in 0..MaxPdl /\ f.extras \in SUBSET Extras /\ f.gain \in {17, 18} /\ f.coupon \in BOOLEAN
    BY FormFields
<1>5. /\ g.service = f.service /\ g.from = f.from /\ g.fromDivision = f.fromDivision /\ g.lp = f.lp /\ g.to = to
      /\ g.toDivision = toDivision /\ g.extras = f.extras /\ g.gain = f.gain /\ g.coupon = f.coupon
      /\ g = [service |-> g.service, from |-> g.from, fromDivision |-> g.fromDivision, lp |-> g.lp, to |-> g.to,
              toDivision |-> g.toDivision, extras |-> g.extras, gain |-> g.gain, coupon |-> g.coupon]
    BY <1>8
<1>6. g.coupon \in BOOLEAN
    BY <1>4, <1>5, Zenon
<1>7. g \in Forms
    BY <1>1, <1>4, <1>5, <1>6 DEF Forms
<1> QED BY <1>5, <1>7

LEMMA CurrentRankKeeps ==
    ASSUME FormInv, NEW league \in 0..Master, NEW chosenIn \in 0..Master, NEW chosen \in DivisionsOf(chosenIn),
           ChangeCurrentRank(league, chosen, chosenIn)
    PROVE  FormInv'
<1>1. form \in Forms /\ step = 1 /\ step' = 1 /\ (form.gain <= 17 <=> "mmr_nerfed" \in form.extras)
    BY DEF FormInv, FormTypes, ChangeCurrentRank
<1>2. form.lp \in 0..MaxPdl /\ form.to \in 0..Master /\ form.toDivision \in DivisionsOf(form.to) /\ form.toDivision \in Nat
    BY <1>1, FormFields
<1>3. PICK division : division = NormalizeRankDivision(league, chosen, chosenIn)
    OBVIOUS
<1>4. division \in DivisionsOf(league)
    BY <1>3, RanksStay
<1>5. PICK desired : desired = NormalizeDesiredRank(league, division, form.to, form.toDivision)
    OBVIOUS
<1>6. desired.league \in 0..Master /\ desired.division \in DivisionsOf(desired.league)
    BY <1>2, <1>4, <1>5, DesiredRankIs
<1>7. PICK lp : lp = LpOf(league, division, form.lp)
    OBVIOUS
<1>8. lp \in 0..MaxPdl /\ (league # Master => lp <= 99)
  <2>1. MaxPdl \in Nat /\ (league = Master => division \in 0..MaxPdl)
      BY <1>4, OrderFormAssumption DEF DivisionsOf
  <2> QED BY <1>2, <1>7, <2>1 DEF LpOf
<1>9. PICK f : f = [form EXCEPT !.from = league, !.fromDivision = division, !.lp = lp,
                                !.to = desired.league, !.toDivision = desired.division]
    OBVIOUS
<1>10. /\ f \in Forms /\ f.from = league /\ f.lp = lp /\ f.gain = form.gain /\ f.extras = form.extras
  <2>1. f = Rerouted(form, league, division, lp, desired.league, desired.division)
      BY <1>9 DEF Rerouted
  <2> QED BY <1>1, <1>4, <1>6, <1>8, <2>1, FormMade
<1>11. Change(f)
    BY <1>3, <1>5, <1>7, <1>9 DEF ChangeCurrentRank
<1> QED BY <1>1, <1>8, <1>10, <1>11, ChangeKeeps

LEMMA DesiredRankKeeps ==
    ASSUME FormInv, NEW league \in 0..Master, NEW chosenIn \in 0..Master, NEW chosen \in DivisionsOf(chosenIn),
           ChangeDesiredRank(league, chosen, chosenIn)
    PROVE  FormInv'
<1>1. form \in Forms /\ step = 1 /\ step' = 1 /\ (form.gain <= 17 <=> "mmr_nerfed" \in form.extras)
      /\ (form.from # Master => form.lp <= 99)
    BY DEF FormInv, FormTypes, ChangeDesiredRank
<1>2. form.from \in 0..Master /\ form.fromDivision \in DivisionsOf(form.from)
    BY <1>1, FormFields
<1>3. PICK division : division = NormalizeRankDivision(league, chosen, chosenIn)
    OBVIOUS
<1>4. division \in DivisionsOf(league)
    BY <1>3, RanksStay
<1>5. PICK desired : desired = NormalizeDesiredRank(form.from, form.fromDivision, league, division)
    OBVIOUS
<1>6. desired.league \in 0..Master /\ desired.division \in DivisionsOf(desired.league)
    BY <1>2, <1>4, <1>5, DesiredRankIs
<1>7. PICK f : f = [form EXCEPT !.to = desired.league, !.toDivision = desired.division]
    OBVIOUS
<1>8. f \in Forms /\ f.from = form.from /\ f.lp = form.lp /\ f.gain = form.gain /\ f.extras = form.extras
  <2>1. f = Aimed(form, desired.league, desired.division)
      BY <1>7 DEF Aimed
  <2> QED BY <1>1, <1>6, <2>1, FormAimed
<1>9. Change(f)
    BY <1>3, <1>5, <1>7 DEF ChangeDesiredRank
<1> QED BY <1>1, <1>8, <1>9, ChangeKeeps

LEMMA PicksKeep ==
    ASSUME FormInv, PickCurrentLeague \/ PickDesiredLeague \/ PickCurrentDivision \/ PickDesiredDivision
    PROVE  FormInv'
<1>1. /\ form.from \in 0..Master /\ form.to \in 0..Master
      /\ form.fromDivision \in DivisionsOf(form.from) /\ form.toDivision \in DivisionsOf(form.to)
      /\ 0 \in DivisionsOf(form.from) /\ 0 \in DivisionsOf(form.to)
    BY FormFields, OrderFormAssumption DEF FormInv, FormTypes, DivisionsOf
<1>2. \A league \in 0..Master : OfferedBy(league) \subseteq DivisionsOf(league)
    BY OrderFormAssumption DEF OfferedBy, DivisionsOf
<1>3. CASE PickCurrentLeague
    BY <1>1, <1>3, CurrentRankKeeps DEF PickCurrentLeague
<1>4. CASE PickDesiredLeague
    BY <1>1, <1>4, DesiredRankKeeps DEF PickDesiredLeague
<1>5. CASE PickCurrentDivision
    BY <1>1, <1>2, <1>5, CurrentRankKeeps DEF PickCurrentDivision
<1>6. CASE PickDesiredDivision
    BY <1>1, <1>2, <1>6, DesiredRankKeeps DEF PickDesiredDivision
<1> QED BY <1>3, <1>4, <1>5, <1>6

\* The details and the coupon leave the route alone.
LEMMA DetailsKeep ==
    ASSUME FormInv, NEW extras \in SUBSET Extras, NEW gain \in {17, 18}, NEW coupon \in BOOLEAN,
           gain <= 17 <=> "mmr_nerfed" \in extras, step \in 1..4, step' = step,
           NEW f, f.extras = extras, f.gain = gain, f.coupon = coupon, f.service \in Services,
           f.from = form.from, f.fromDivision = form.fromDivision, f.lp = form.lp,
           f.to = form.to, f.toDivision = form.toDivision,
           f = [service |-> f.service, from |-> f.from, fromDivision |-> f.fromDivision, lp |-> f.lp, to |-> f.to,
                toDivision |-> f.toDivision, extras |-> f.extras, gain |-> f.gain, coupon |-> f.coupon],
           Change(f)
    PROVE  FormInv'
<1>1. /\ form.from \in 0..Master /\ form.to \in 0..Master /\ form.lp \in 0..MaxPdl
      /\ form.fromDivision \in DivisionsOf(form.from) /\ form.toDivision \in DivisionsOf(form.to)
      /\ form.fromDivision \in 0..MaxPdl /\ form.toDivision \in 0..MaxPdl
    BY FormFields DEF FormInv, FormTypes
<1>2. f.coupon \in BOOLEAN /\ f.service \in Services
    OBVIOUS
<1>3. f \in Forms
    BY <1>1, <1>2 DEF Forms
<1>4. f.from # Master => f.lp <= 99
    BY DEF FormInv
<1>5. step' \in 2..4 => IsDesiredRankAvailable(f.from, f.fromDivision, f.to, f.toDivision)
    BY DEF FormInv, RouteGoesUp
<1> QED BY <1>3, <1>4, <1>5, ChangeKeeps

LEMMA DetailChangesKeep ==
    ASSUME FormInv, (\E gain \in {17, 18} : ChangeLpGain(gain)) \/ (\E x \in Extras : ToggleExtra(x))
                    \/ (\E coupon \in BOOLEAN : ChangeCoupon(coupon))
                    \/ (\E k \in DOMAIN Offered : ChooseService(Offered[k]))
    PROVE  FormInv'
<1>1. /\ form = [service |-> form.service, from |-> form.from, fromDivision |-> form.fromDivision, lp |-> form.lp, to |-> form.to,
                 toDivision |-> form.toDivision, extras |-> form.extras, gain |-> form.gain, coupon |-> form.coupon]
      /\ form.extras \in SUBSET Extras /\ form.gain \in {17, 18} /\ form.coupon \in BOOLEAN
      /\ form.service \in Services /\ (form.gain <= 17 <=> "mmr_nerfed" \in form.extras) /\ step \in 1..5 /\ "mmr_nerfed" \in Extras
    BY FormFields, OrderFormAssumption DEF FormInv, FormTypes, Forms
<1>2. ASSUME NEW gain \in {17, 18}, ChangeLpGain(gain) PROVE FormInv'
  <2>1. PICK extras : extras = ExtrasFor(form.extras, gain)
      OBVIOUS
  <2>2. extras \in SUBSET Extras /\ (gain <= 17 <=> "mmr_nerfed" \in extras)
      BY <1>1, <2>1 DEF ExtrasFor
  <2>3. PICK f : f = [form EXCEPT !.gain = gain, !.extras = extras]
      OBVIOUS
  <2>4. /\ f.extras = extras /\ f.gain = gain /\ f.coupon = form.coupon /\ f.service = form.service
        /\ f.from = form.from /\ f.fromDivision = form.fromDivision /\ f.lp = form.lp
        /\ f.to = form.to /\ f.toDivision = form.toDivision
        /\ f = [service |-> f.service, from |-> f.from, fromDivision |-> f.fromDivision, lp |-> f.lp, to |-> f.to,
                toDivision |-> f.toDivision, extras |-> f.extras, gain |-> f.gain, coupon |-> f.coupon]
      BY <1>1, <2>3
  <2>5. Change(f) /\ step \in 1..4 /\ step' = step
      BY <1>2, <2>1, <2>3 DEF ChangeLpGain
  <2> QED BY <1>1, <2>2, <2>4, <2>5, DetailsKeep
<1>3. ASSUME NEW x \in Extras, ToggleExtra(x) PROVE FormInv'
  <2>1. PICK extras : extras = IF x \in form.extras THEN form.extras \ {x} ELSE form.extras \cup {x}
      OBVIOUS
  <2>2. extras \in SUBSET Extras /\ (form.gain <= 17 <=> "mmr_nerfed" \in extras)
      BY <1>1, <1>3, <2>1 DEF ToggleExtra
  <2>3. PICK f : f = [form EXCEPT !.extras = extras]
      OBVIOUS
  <2>4. /\ f.extras = extras /\ f.gain = form.gain /\ f.coupon = form.coupon /\ f.service = form.service
        /\ f.from = form.from /\ f.fromDivision = form.fromDivision /\ f.lp = form.lp
        /\ f.to = form.to /\ f.toDivision = form.toDivision
        /\ f = [service |-> f.service, from |-> f.from, fromDivision |-> f.fromDivision, lp |-> f.lp, to |-> f.to,
                toDivision |-> f.toDivision, extras |-> f.extras, gain |-> f.gain, coupon |-> f.coupon]
      BY <1>1, <2>3
  <2>5. Change(f) /\ step \in 1..4 /\ step' = step
      BY <1>3, <2>1, <2>3 DEF ToggleExtra
  <2> QED BY <1>1, <2>2, <2>4, <2>5, DetailsKeep
<1>4. ASSUME NEW coupon \in BOOLEAN, ChangeCoupon(coupon) PROVE FormInv'
  <2>1. PICK f : f = [form EXCEPT !.coupon = coupon]
      OBVIOUS
  <2>2. /\ f.extras = form.extras /\ f.gain = form.gain /\ f.service = form.service
        /\ f.from = form.from /\ f.fromDivision = form.fromDivision /\ f.lp = form.lp
        /\ f.to = form.to /\ f.toDivision = form.toDivision
        /\ f = [service |-> f.service, from |-> f.from, fromDivision |-> f.fromDivision, lp |-> f.lp, to |-> f.to,
                toDivision |-> f.toDivision, extras |-> f.extras, gain |-> f.gain, coupon |-> f.coupon]
      BY <1>1, <2>1
  <2>3. f.coupon = coupon
    <3>1. \A v : [form EXCEPT !.coupon = v].coupon = v
        BY <1>1
    <3> QED BY <2>1, <3>1, Zenon
  <2>4. Change(f) /\ step \in 1..4 /\ step' = step
      BY <1>1, <1>4, <2>1 DEF ChangeCoupon
  <2> QED BY <1>1, <2>2, <2>3, <2>4, DetailsKeep
<1>5. ASSUME NEW service \in Services, ChooseService(service) PROVE FormInv'
  <2>1. PICK f : f = [form EXCEPT !.service = service]
      OBVIOUS
  <2>2. /\ f.extras = form.extras /\ f.gain = form.gain /\ f.coupon = form.coupon /\ f.service = service
        /\ f.from = form.from /\ f.fromDivision = form.fromDivision /\ f.lp = form.lp
        /\ f.to = form.to /\ f.toDivision = form.toDivision
        /\ f = [service |-> f.service, from |-> f.from, fromDivision |-> f.fromDivision, lp |-> f.lp, to |-> f.to,
                toDivision |-> f.toDivision, extras |-> f.extras, gain |-> f.gain, coupon |-> f.coupon]
      BY <1>1, <2>1
  <2>3. Change(f) /\ step \in 1..4 /\ step' = step
      BY <1>5, <2>1 DEF ChooseService
  <2> QED BY <1>1, <2>2, <2>3, DetailsKeep
<1>6. \A k \in DOMAIN Offered : Offered[k] \in Services
    BY OrderFormAssumption
<1> QED BY <1>2, <1>3, <1>4, <1>5, <1>6

\* The steps of the wizard, its questions and their answers.
LEMMA WizardKeeps ==
    ASSUME FormInv, NextStep \/ PreviousStep
    PROVE  FormInv'
<1>1. UNCHANGED <<form, asking, summary, listNow, checkout>> /\ step \in 1..5
    BY DEF NextStep, PreviousStep, FormInv, FormTypes
<1>2. step' \in 1..5 /\ (step' \in 2..4 => RouteGoesUp)
    BY <1>1 DEF NextStep, PreviousStep, FormInv, RouteGoesUp
<1> QED BY <1>1, <1>2 DEF FormInv, FormTypes, QuestionsFollow, OrderOnScreen, Answers, Quoted, Settled, RouteGoesUp

LEMMA AskingKeeps ==
    ASSUME FormInv, UNCHANGED <<form, step, summary, listNow, checkout>>,
           NEW busy \in BOOLEAN, NEW sent, NEW answered,
           asking' = [last |-> asking.last, waiting |-> busy, sent |-> sent, answered |-> answered],
           \A q \in sent : q.id \in Nat /\ q.id <= asking.last /\ (q.id = asking.last => q.of = form),
           \A a \in answered :
                /\ a.id \in Nat /\ a.id <= asking.last
                /\ a.good => a.total.list \in 1..Len(OrderLists)
                /\ a.good /\ a.id = asking.last => a.total \in Answers(form),
           busy => \A q \in sent \cup answered : q.id < asking.last
    PROVE  FormInv'
<1>1. asking'.last = asking.last /\ asking'.sent = sent /\ asking'.answered = answered
    OBVIOUS
<1>2. asking'.waiting = busy
  <2>1. \A v : [last |-> asking.last, waiting |-> v, sent |-> sent, answered |-> answered].waiting = v
      OBVIOUS
  <2> QED BY <2>1, Zenon
<1>3. asking'.waiting \in BOOLEAN /\ asking' = [last |-> asking'.last, waiting |-> asking'.waiting,
                                               sent |-> asking'.sent, answered |-> asking'.answered]
    BY <1>1, <1>2, Zenon
<1>4. FormTypes'
    BY <1>1, <1>3 DEF FormInv, FormTypes
<1>5. QuestionsFollow'
  <2>1. Answers(form)' = Answers(form)
      BY DEF Answers, Quoted
  <2>2. asking'.waiting => \A q \in asking'.sent \cup asking'.answered : q.id < asking'.last
      BY <1>1, <1>2, Zenon
  <2>3. \A q \in asking'.sent : q.id \in Nat /\ q.id <= asking'.last /\ (q.id = asking'.last => q.of = form')
      BY <1>1
  <2>4. \A a \in asking'.answered :
                /\ a.id \in Nat /\ a.id <= asking'.last
                /\ a.good => a.total.list \in 1..Len(OrderLists)
                /\ a.good /\ a.id = asking'.last => a.total \in Answers(form)'
      BY <1>1, <2>1, Zenon
  <2> QED BY <2>2, <2>3, <2>4 DEF QuestionsFollow
<1> QED BY <1>4, <1>5 DEF FormInv, OrderOnScreen, Answers, Quoted, Settled, RouteGoesUp

LEMMA AskKeeps ==
    ASSUME FormInv, AskForPrice
    PROVE  FormInv'
<1>1. UNCHANGED <<form, step, summary, listNow, checkout>> /\ asking.waiting /\ asking.last \in Nat
    BY DEF AskForPrice, FormInv, FormTypes
<1>2. PICK q : q = [id |-> asking.last, of |-> form]
    OBVIOUS
<1>3. asking' = [last |-> asking.last, waiting |-> FALSE, sent |-> asking.sent \cup {q},
                 answered |-> asking.answered]
  <2>1. asking = [last |-> asking.last, waiting |-> asking.waiting,
                  sent |-> asking.sent, answered |-> asking.answered]
      BY DEF FormInv, FormTypes
  <2>2. asking' = [asking EXCEPT !.waiting = FALSE, !.sent = asking.sent \cup {q}]
      BY <1>2 DEF AskForPrice
  <2> QED BY <2>1, <2>2
<1>4. \A p \in asking.sent \cup {q} : p.id \in Nat /\ p.id <= asking.last /\ (p.id = asking.last => p.of = form)
    BY <1>1, <1>2 DEF FormInv, QuestionsFollow
<1>5. \A a \in asking.answered :
                /\ a.id \in Nat /\ a.id <= asking.last
                /\ a.good => a.total.list \in 1..Len(OrderLists)
                /\ a.good /\ a.id = asking.last => a.total \in Answers(form)
    BY DEF FormInv, QuestionsFollow
<1> QED BY <1>1, <1>3, <1>4, <1>5, AskingKeeps

LEMMA AnswerKeeps ==
    ASSUME FormInv, AnswerPrice
    PROVE  FormInv'
<1>1. /\ UNCHANGED <<form, step, summary, listNow, checkout>>
      /\ listNow \in 1..Len(OrderLists) /\ asking.waiting \in BOOLEAN
    BY DEF AnswerPrice, FormInv, FormTypes
<1>2. PICK q \in asking.sent :
        asking' = [asking EXCEPT !.sent = asking.sent \ {q},
                !.answered = asking.answered \cup {[id |-> q.id, good |-> Quotable(q.of, listNow),
                                      total |-> IF Quotable(q.of, listNow)
                                                THEN [total |-> Quoted(q.of, listNow), list |-> listNow]
                                                ELSE NoTotal]}]
    BY DEF AnswerPrice
<1>3. PICK total : total = IF Quotable(q.of, listNow)
                           THEN [total |-> Quoted(q.of, listNow), list |-> listNow] ELSE NoTotal
    OBVIOUS
<1>4. PICK a : a = [id |-> q.id, good |-> Quotable(q.of, listNow), total |-> total]
    OBVIOUS
<1>5. asking' = [last |-> asking.last, waiting |-> asking.waiting, sent |-> asking.sent \ {q},
                 answered |-> asking.answered \cup {a}]
  <2>1. asking = [last |-> asking.last, waiting |-> asking.waiting,
                  sent |-> asking.sent, answered |-> asking.answered]
      BY DEF FormInv, FormTypes
  <2>2. asking' = [asking EXCEPT !.sent = asking.sent \ {q}, !.answered = asking.answered \cup {a}]
      BY <1>2, <1>3, <1>4
  <2> QED BY <2>1, <2>2
<1>6. \A p \in asking.sent \ {q} : p.id \in Nat /\ p.id <= asking.last /\ (p.id = asking.last => p.of = form)
    BY DEF FormInv, QuestionsFollow
<1>7. q.id \in Nat /\ q.id <= asking.last /\ (q.id = asking.last => q.of = form)
    BY DEF FormInv, QuestionsFollow
<1>8. a.id = q.id /\ a.total = total
    BY <1>4
<1>9. a.good <=> Quotable(q.of, listNow)
  <2>1. \A v : [id |-> q.id, good |-> v, total |-> total].good = v
      OBVIOUS
  <2> QED BY <1>4, <2>1, Zenon
<1>10. a.good => a.total.list \in 1..Len(OrderLists) /\ a.total \in Answers(q.of)
  <2>1. ASSUME a.good PROVE a.total = [total |-> Quoted(q.of, listNow), list |-> listNow]
      BY <1>3, <1>8, <1>9, <2>1, Zenon
  <2> QED BY <1>1, <2>1 DEF Answers
<1>11. \A b \in asking.answered \cup {a} :
                /\ b.id \in Nat /\ b.id <= asking.last
                /\ b.good => b.total.list \in 1..Len(OrderLists)
                /\ b.good /\ b.id = asking.last => b.total \in Answers(form)
  <2>1. \A b \in asking.answered :
                /\ b.id \in Nat /\ b.id <= asking.last
                /\ b.good => b.total.list \in 1..Len(OrderLists)
                /\ b.good /\ b.id = asking.last => b.total \in Answers(form)
      BY DEF FormInv, QuestionsFollow
  <2>2. /\ a.id \in Nat /\ a.id <= asking.last
        /\ a.good => a.total.list \in 1..Len(OrderLists)
        /\ a.good /\ a.id = asking.last => a.total \in Answers(form)
      BY <1>7, <1>8, <1>10
  <2> QED BY <2>1, <2>2, Zenon
<1>12. asking.waiting => \A p \in (asking.sent \ {q}) \cup (asking.answered \cup {a}) : p.id < asking.last
    BY <1>8 DEF FormInv, QuestionsFollow
<1> QED BY <1>1, <1>5, <1>6, <1>11, <1>12, AskingKeeps

\* An answer that no later question disowns is one for the form on screen.
LEMMA ShowKeeps ==
    ASSUME FormInv, ShowPrice
    PROVE  FormInv'
<1>1. UNCHANGED <<form, step, listNow, checkout>> /\ asking.waiting \in BOOLEAN
    BY DEF ShowPrice, FormInv, FormTypes
<1>2. PICK a \in asking.answered, lost \in BOOLEAN :
        /\ asking' = [asking EXCEPT !.answered = asking.answered \ {a}]
        /\ IF ~IsAwaited(a) THEN UNCHANGED summary
           ELSE IF a.good /\ ~lost
           THEN summary' = [shown |-> a.total, pending |-> FALSE, failed |-> FALSE]
           ELSE summary' = [summary EXCEPT !.pending = FALSE, !.failed = TRUE]
    BY DEF ShowPrice
<1>3. /\ a.good => a.total.list \in 1..Len(OrderLists)
      /\ a.good /\ a.id = asking.last => a.total \in Answers(form)
    BY DEF FormInv, QuestionsFollow
<1>4. /\ asking'.last = asking.last /\ asking'.waiting = asking.waiting
      /\ asking'.sent = asking.sent /\ asking'.answered = asking.answered \ {a}
      /\ asking' = [last |-> asking'.last, waiting |-> asking'.waiting,
                    sent |-> asking'.sent, answered |-> asking'.answered]
    BY <1>2 DEF FormInv, FormTypes
<1>5. /\ summary' = [shown |-> summary'.shown, pending |-> summary'.pending, failed |-> summary'.failed]
      /\ summary'.pending \in BOOLEAN /\ summary'.failed \in BOOLEAN
      /\ summary'.shown.list \in 0..Len(OrderLists)
      /\ Settled' => summary'.shown \in Answers(form)
  <2>0. /\ summary = [shown |-> summary.shown, pending |-> summary.pending, failed |-> summary.failed]
        /\ summary.pending \in BOOLEAN /\ summary.failed \in BOOLEAN
        /\ summary.shown.list \in 0..Len(OrderLists)
        /\ Settled => summary.shown \in Answers(form)
      BY DEF FormInv, FormTypes
  <2>1. CASE summary' = summary
      BY <2>0, <2>1 DEF Settled
  <2>2. CASE IsAwaited(a) /\ a.good /\ summary' = [shown |-> a.total, pending |-> FALSE, failed |-> FALSE]
    <3>1. a.total \in Answers(form) /\ a.total.list \in 1..Len(OrderLists)
        BY <1>3, <2>2 DEF IsAwaited
    <3>2. summary'.shown = a.total /\ summary'.pending = FALSE /\ summary'.failed = FALSE
        BY <2>2
    <3> QED BY <2>2, <3>1, <3>2
  <2>3. CASE summary' = [summary EXCEPT !.pending = FALSE, !.failed = TRUE]
    <3>1. /\ summary' = [shown |-> summary.shown, pending |-> FALSE, failed |-> TRUE]
          /\ summary'.shown = summary.shown /\ summary'.pending = FALSE /\ summary'.failed = TRUE
        BY <2>0, <2>3
    <3> QED BY <2>0, <3>1 DEF Settled
  <2> QED BY <1>2, <2>1, <2>2, <2>3
<1>6. FormTypes'
    BY <1>1, <1>4, <1>5 DEF FormInv, FormTypes
<1>7. QuestionsFollow'
    BY <1>1, <1>4 DEF FormInv, QuestionsFollow, Answers, Quoted
<1>8. Settled' => summary'.shown \in Answers(form)'
    BY <1>1, <1>5 DEF Answers, Quoted
<1> QED BY <1>1, <1>6, <1>7, <1>8 DEF FormInv, OrderOnScreen, Answers, Quoted, RouteGoesUp

LEMMA ActivateKeeps ==
    ASSUME FormInv, ActivateList
    PROVE  FormInv'
<1>1. UNCHANGED <<form, step, asking, summary, checkout>> /\ listNow' = listNow + 1 /\ listNow < Len(OrderLists)
      /\ Len(OrderLists) \in Nat
    BY OrderFormAssumption DEF ActivateList
<1>2. FormTypes'
    BY <1>1 DEF FormInv, FormTypes
<1> QED BY <1>1, <1>2 DEF FormInv, QuestionsFollow, OrderOnScreen, Answers, Quoted, Settled, RouteGoesUp

\* The order is charged by the list in force when it is placed.
LEMMA OrderingKeeps ==
    ASSUME FormInv, SubmitOrder \/ PlaceOrder \/ FailOrder
    PROVE  FormInv'
<1>1. UNCHANGED <<form, asking, summary, listNow>> /\ step \in 1..5
    BY DEF SubmitOrder, PlaceOrder, FailOrder, FormInv, FormTypes
<1>2. step' \in 1..5 /\ (step' \in 2..4 => RouteGoesUp)
    BY <1>1 DEF SubmitOrder, PlaceOrder, FailOrder, FormInv
<1>3. OrderOnScreen'
  <2>1. CASE SubmitOrder
    <3>1. checkout'.stage = "submitted" /\ checkout'.form = form
          /\ checkout'.seen = (IF Settled THEN summary.shown ELSE NoTotal)
        BY <2>1 DEF SubmitOrder
    <3>2. checkout'.seen # NoTotal => checkout'.seen \in Answers(form)
        BY <3>1 DEF FormInv
    <3> QED BY <3>1, <3>2 DEF OrderOnScreen, Answers, Quoted
  <2>2. CASE PlaceOrder
    <3>1. PICK sight, charged : /\ sight = checkout.seen
                               /\ charged = [total |-> Quoted(checkout.form, listNow), list |-> listNow]
        OBVIOUS
    <3>2. checkout' = [stage |-> "placed", seen |-> sight, charged |-> charged] /\ checkout.stage = "submitted"
        BY <2>2, <3>1 DEF PlaceOrder
    <3>3. checkout'.stage = "placed" /\ checkout'.seen = sight /\ checkout'.charged = charged
        BY <3>2
    <3>4. sight # NoTotal => charged = sight \/ charged.list # sight.list
      <4>1. ASSUME sight # NoTotal PROVE sight \in Answers(checkout.form)
          BY <3>1, <3>2, <4>1 DEF FormInv, OrderOnScreen
      <4>2. charged.list = listNow
          BY <3>1
      <4>3. \A s \in Answers(checkout.form) : s.list = listNow => s = charged
          BY <3>1 DEF Answers
      <4> QED BY <4>1, <4>2, <4>3
    <3> QED BY <3>3, <3>4 DEF OrderOnScreen
  <2>3. CASE FailOrder
      BY <2>3 DEF FailOrder, NoCheckout, OrderOnScreen
  <2> QED BY <2>1, <2>2, <2>3
<1> QED BY <1>1, <1>2, <1>3 DEF FormInv, FormTypes, QuestionsFollow, Answers, Quoted, Settled, RouteGoesUp

LEMMA OrderFormStep ==
    ASSUME FormInv, OrderFormNext \/ UNCHANGED formVars
    PROVE  FormInv'
<1>1. CASE UNCHANGED formVars
    BY <1>1 DEF formVars, FormInv, FormTypes, QuestionsFollow, OrderOnScreen, Answers, Quoted, Settled, RouteGoesUp
<1>2. CASE OrderFormNext
    BY <1>2, PicksKeep, DetailChangesKeep, WizardKeeps, AskKeeps, AnswerKeeps, ShowKeeps, ActivateKeeps, OrderingKeeps
       DEF OrderFormNext
<1> QED BY <1>1, <1>2

LEMMA FormTypesHold == ASSUME FormInv PROVE OrderFormTypeOK
<1>1. \A q \in asking.sent \cup asking.answered : q.id <= asking.last
    BY DEF FormInv, QuestionsFollow
<1> QED BY <1>1 DEF FormInv, FormTypes, OrderFormTypeOK

LEMMA SummaryHolds == ASSUME FormInv PROVE SummaryShowsTheCharge
<1>1. Settled => summary.shown.total = Quoted(form, summary.shown.list)
    BY DEF FormInv, Answers
<1> QED BY <1>1 DEF FormInv, OrderOnScreen, SummaryShowsTheCharge

\* A route that goes up costs something, unless the climb may be free.
LEMMA ClimbIsPaid ==
    ASSUME NEW list \in 1..Len(OrderLists), NEW f \in Forms, f.from # Master => f.lp <= 99,
           f.from = Master => Top \in DOMAIN OrderLists[list].steps[f.service],
           ~ClimbMayBeFree(f, list),
           IsDesiredRankAvailable(f.from, f.fromDivision, f.to, f.toDivision)
    PROVE  /\ BaseSubtotal(OrderLists[list], RequestOf(f)) > 0
           /\ Place(f.from, f.fromDivision) \in DOMAIN OrderLists[list].steps[f.service]
           /\ Place(f.to, f.toDivision) \in DOMAIN OrderLists[list].steps[f.service] \cup {Top}
<1> DEFINE steps == OrderLists[list].steps[f.service]
           from == Place(f.from, f.fromDivision)
           to == Place(f.to, f.toDivision)
           points == IF f.from = Master THEN f.fromDivision ELSE f.lp
           target == IF f.to = Master THEN f.toDivision ELSE 0
<1>2. /\ f.from \in 0..Master /\ f.to \in 0..Master /\ f.lp \in 0..MaxPdl /\ f.service \in Services
      /\ f.fromDivision \in DivisionsOf(f.from) /\ f.toDivision \in DivisionsOf(f.to)
    BY FormFields
<1>1. PICK D \in {Ranks, Ranks \ {Top}} : steps \in [D -> Nat] /\ DOMAIN steps = D
    BY <1>2, ListsAreExamined
<1>3. /\ from \in Ranks /\ f.fromDivision \in 0..MaxPdl /\ (f.from = Master <=> from = Top)
      /\ to \in Ranks /\ f.toDivision \in 0..MaxPdl /\ (f.to = Master <=> to = Top)
    BY <1>2, Places
<1>4. BaseSubtotal(OrderLists[list], RequestOf(f)) = TargetValue(steps, to, target) - ValueAt(steps, from, points)
    BY DEF BaseSubtotal, RequestOf
<1>5. /\ MaxPdl \in Nat /\ Top \in Nat \ {0}
      /\ (f.from = Master /\ f.to = Master => f.toDivision > f.fromDivision)
      /\ (~(f.from = Master /\ f.to = Master) => to > from)
    BY OrderFormAssumption, PriceAssumption DEF IsDesiredRankAvailable
<1>6. points \in Nat /\ target \in Nat
    BY <1>2, <1>3, <1>5
<1>10. f.from = Master /\ f.to = Master => points = f.fromDivision /\ target = f.toDivision
    OBVIOUS
<1>11. f.from # Master => points <= 99
    OBVIOUS
<1>12. f.from = Master => Top \in D
    BY <1>1
<1>13. /\ f.from = Master => ~(steps[Top] < 100)
       /\ f.from # Master => \/ ~(steps[from] <= 50)
                             \/ \E rank \in Ranks : from < rank /\ rank < to /\ steps[rank] # 0
    BY DEF ClimbMayBeFree
<1> HIDE DEF steps, from, to, points, target
<1>14. from \in D /\ to \in D \cup {Top}
    BY <1>1, <1>3, <1>12
<1>7. /\ ValueAt(steps, from, points) = CumulativeValue(steps, from) + Percentage(steps[from], points, 100)
      /\ TargetValue(steps, to, target) = (IF to = Top
                THEN IF Top \in D THEN CumulativeValue(steps, Top) + Percentage(steps[Top], target, 100)
                                  ELSE CumulativeValue(steps, Top + 1)
                ELSE CumulativeValue(steps, to))
    BY <1>1, <1>14 DEF ValueAt, TargetValue
<1>8. CASE f.from = Master /\ f.to = Master
  <2>1. from = Top /\ to = Top /\ points < target /\ steps[Top] \in Nat /\ steps[Top] >= 100 /\ Top \in D
      BY <1>1, <1>3, <1>5, <1>8, <1>10, <1>12, <1>13
  <2>2. Percentage(steps[Top], points, 100) < Percentage(steps[Top], target, 100)
      BY <1>6, <2>1, MorePoints
  <2>3. Percentage(steps[Top], points, 100) \in Nat /\ Percentage(steps[Top], target, 100) \in Nat
      BY <1>6, <2>1, PartsOfAStep
  <2>4. CumulativeValue(steps, Top) \in Nat
    <3>1. 0 \in D /\ 0 < Top /\ Top \in Nat /\ D \in SUBSET Ranks
        BY <1>1, <1>5 DEF Ranks
    <3> QED BY <1>1, <3>1, ClimbCosts
  <2>5. BaseSubtotal(OrderLists[list], RequestOf(f)) > 0
      BY <1>4, <1>7, <2>1, <2>2, <2>3, <2>4
  <2> QED BY <1>1, <1>14, <2>5 DEF from, to, steps
<1>9. CASE ~(f.from = Master /\ f.to = Master)
  <2>1. /\ from < to /\ from # Top /\ steps[from] \in Nat /\ points <= 99 /\ to <= Top
        /\ from \in D /\ to \in Nat /\ D \in SUBSET Ranks
      BY <1>1, <1>3, <1>5, <1>9, <1>11, <1>14 DEF Ranks
  <2>2. \A above \in Nat : from < above =>
            /\ CumulativeValue(steps, from) \in Nat /\ CumulativeValue(steps, above) \in Nat
            /\ CumulativeValue(steps, from) + steps[from] <= CumulativeValue(steps, above)
      BY <1>1, <2>1, ClimbCosts
  <2>3. /\ Percentage(steps[from], points, 100) \in Nat /\ Percentage(steps[from], points, 100) <= steps[from]
        /\ steps[from] > 50 => Percentage(steps[from], points, 100) < steps[from]
      BY <1>6, <2>1, PartsOfAStep
  <2>4. /\ CumulativeValue(steps, from) + Percentage(steps[from], points, 100) < CumulativeValue(steps, to)
        /\ CumulativeValue(steps, from) \in Nat /\ CumulativeValue(steps, to) \in Nat
    <3>1. CASE steps[from] > 50
        BY <2>1, <2>2, <2>3, <3>1
    <3>2. CASE ~(steps[from] > 50)
      <4>1. PICK rank \in Ranks : from < rank /\ rank < to /\ steps[rank] # 0
          BY <1>3, <1>13, <2>1, <3>2
      <4>2. rank \in D /\ rank \in Nat /\ steps[rank] \in Nat /\ steps[rank] > 0
        <5>1. rank \in Nat /\ rank # Top
            BY <1>5, <2>1, <4>1 DEF Ranks
        <5>2. rank \in D /\ steps[rank] \in Nat
            BY <1>1, <4>1, <5>1
        <5> QED BY <4>1, <5>1, <5>2
      <4>3. CumulativeValue(steps, rank) + steps[rank] <= CumulativeValue(steps, to)
          BY <1>1, <2>1, <4>1, <4>2, ClimbCosts
      <4>4. /\ CumulativeValue(steps, from) \in Nat /\ CumulativeValue(steps, rank) \in Nat
            /\ CumulativeValue(steps, from) + steps[from] <= CumulativeValue(steps, rank)
          BY <2>2, <4>1, <4>2
      <4> QED BY <2>1, <2>2, <2>3, <4>2, <4>3, <4>4
    <3> QED BY <3>1, <3>2
  <2>5. CASE to # Top
    <3>1. BaseSubtotal(OrderLists[list], RequestOf(f)) > 0
        BY <1>4, <1>7, <2>3, <2>4, <2>5
    <3> QED BY <1>1, <1>14, <3>1 DEF from, to, steps
  <2>6. CASE to = Top /\ Top \in D
    <3>0. steps[Top] \in Nat
        BY <1>1, <2>6
    <3>1. Percentage(steps[Top], target, 100) \in Nat
        BY ONLY <1>6, <3>0, PartsOfAStep
    <3>2. BaseSubtotal(OrderLists[list], RequestOf(f)) > 0
        BY <1>4, <1>7, <2>3, <2>4, <2>6, <3>1
    <3> QED BY <1>1, <1>14, <3>2 DEF from, to, steps
  <2>7. CASE to = Top /\ Top \notin D
    <3>1. CumulativeValue(steps, Top + 1) = CumulativeValue(steps, Top)
      <4>1. {k \in DOMAIN steps : k < Top + 1} = {k \in DOMAIN steps : k < Top}
          BY <1>1, <1>5, <2>1, <2>7 DEF Ranks
      <4> QED BY <4>1 DEF CumulativeValue
    <3>2. BaseSubtotal(OrderLists[list], RequestOf(f)) > 0
        BY <1>4, <1>7, <2>3, <2>4, <2>7, <3>1
    <3> QED BY <1>1, <1>14, <3>2 DEF from, to, steps
  <2> QED BY <2>5, <2>6, <2>7
<1> QED BY <1>8, <1>9

LEMMA RoutesHold ==
    ASSUME FormInv
    PROVE  RoutesPastThePickerAreQuoted
<1> SUFFICES ASSUME step \in 2..4, NEW list \in 1..Len(OrderLists),
                    ~(form.from = Master /\ Top \notin DOMAIN OrderLists[list].steps[form.service]),
                    ~ClimbMayBeFree(form, list)
             PROVE  Quotable([form EXCEPT !.coupon = FALSE], list)
    BY DEF RoutesPastThePickerAreQuoted
<1>1. PICK f : f = [form EXCEPT !.coupon = FALSE]
    OBVIOUS
<1>2. form \in Forms /\ RouteGoesUp /\ (form.from # Master => form.lp <= 99)
    BY DEF FormInv, FormTypes
<1>3. /\ f.from = form.from /\ f.fromDivision = form.fromDivision /\ f.lp = form.lp
      /\ f.to = form.to /\ f.toDivision = form.toDivision /\ f.extras = form.extras
      /\ f.service = form.service /\ f.coupon = FALSE
    BY <1>1, <1>2 DEF Forms
<1>4. RequestOf(f) = RequestOf(form)
    BY <1>3 DEF RequestOf
<1>5. /\ BaseSubtotal(OrderLists[list], RequestOf(form)) > 0
      /\ Place(form.from, form.fromDivision) \in DOMAIN OrderLists[list].steps[form.service]
      /\ Place(form.to, form.toDivision) \in DOMAIN OrderLists[list].steps[form.service] \cup {Top}
    BY <1>2, ClimbIsPaid DEF RouteGoesUp
<1>6. form.extras \subseteq DOMAIN OrderLists[list].extras
    BY <1>2, FormFields, ListsAreExamined
<1>7. Priceable(OrderLists[list], RequestOf(form))
    BY <1>5, <1>6 DEF Priceable, RequestOf
<1> QED BY <1>1, <1>2, <1>3, <1>4, <1>7 DEF Quotable

-------------------------------------------------------------------------------
\* A step of the platform is one of each component, or leaves it alone.
LEMMA EveryComponentSteps ==
    ASSUME [PlatformNext]_vars
    PROVE  /\ [AccountsNext]_accountVars /\ [PricingNext]_pricingVars
           /\ [CouponAdminNext \/ CouponConsoleNext]_couponVars
           /\ [TicketsNext]_ticketVars /\ [RatingsNext]_ratingVars /\ [LiveChatNext]_chatVars
           /\ [DashboardEventsNext]_eventVars /\ [OrderPagesNext]_pageVars
           /\ [WebSessionNext]_webVars /\ [OrderFormNext]_formVars
           /\ [ThrottleNext]_throttleVars /\ [ScheduledTasksNext]_scheduleVars
           /\ \/ scene = "coupons" /\ CouponAdminNext /\ UNCHANGED consoleVars
              \/ scene = "coupon console" /\ CouponConsoleNext
              \/ UNCHANGED <<couponVars, consoleVars>>
           /\ scene' = scene
    BY DEF PlatformNext, Others, vars

(***************************************************************************)
(* CredentialsAreProven holds of the platform for any number of users,     *)
(* tokens, sessions and servers: whoever may log in has proven an address  *)
(* and has a password (Accounts), and a link or a refresh token that was   *)
(* exchanged opens nothing any more.                                       *)
(***************************************************************************)
THEOREM CredentialsProven == PlatformSpec => []CredentialsAreProven
<1>1. PlatformInit => AccountsInit
    BY DEF PlatformInit
<1>2. [PlatformNext]_vars => [AccountsNext]_accountVars
    BY EveryComponentSteps
<1>3. PlatformSpec => AccountsSpec
    BY <1>1, <1>2, PTL DEF PlatformSpec, AccountsSpec
<1>4. ActiveAccountsAreProven /\ TokensAreSpentOnce => CredentialsAreProven
    BY DEF CredentialsAreProven
<1> QED BY <1>3, <1>4, AccountsAreProven, TokensSpentOnce, PTL

(***************************************************************************)
(* CookieFollowsTheSession holds of the platform for any number of tabs:   *)
(* the inductive invariant SessionInv says what each request carries, and  *)
(* every step of a request or of the API keeps it.                         *)
(***************************************************************************)
THEOREM CookieFollows == PlatformSpec => []CookieFollowsTheSession
<1>1. PlatformInit => SessionInv
    BY WebSessionStarts DEF PlatformInit
<1>2. SessionInv /\ [PlatformNext]_vars => SessionInv'
    BY EveryComponentSteps, WebSessionStep
<1> QED BY <1>1, <1>2, SessionFollowed, PTL DEF PlatformSpec

\* The coupons, and the page they are made on.
CouponsInv == CouponInv /\ HandlersInv /\ ConsoleInv /\ (scene = "coupon console" => TableTellsTheCoupons)

LEMMA CouponsInvStarts == ASSUME PlatformInit PROVE CouponsInv
<1>1. CouponInv /\ HandlersInv /\ ConsoleInv
    BY CouponsStart, ConsoleStarts DEF PlatformInit
<1>2. TableTellsTheCoupons
    BY DEF PlatformInit, CouponAdminInit, CouponConsoleInit, TableTellsTheCoupons, RowOf, NotMade, NoRow
<1> QED BY <1>1, <1>2 DEF CouponsInv

LEMMA CouponsInvStep == ASSUME CouponsInv, [PlatformNext]_vars PROVE CouponsInv'
<1>1. /\ \/ scene = "coupons" /\ CouponAdminNext /\ UNCHANGED consoleVars
         \/ scene = "coupon console" /\ CouponConsoleNext
         \/ UNCHANGED <<couponVars, consoleVars>>
      /\ scene' = scene
    BY EveryComponentSteps
<1>2. CASE scene = "coupons" /\ CouponAdminNext /\ UNCHANGED consoleVars
  <2>1. CouponInv' /\ HandlersInv' /\ \A l \in AdminCoupons : Made(l) => Made(l)'
      BY <1>2, AdminActs DEF CouponsInv
  <2>2. UNCHANGED <<dialog, asked, minted, table, behind>>
      BY <1>2 DEF consoleVars
  <2>3. (\A i \in DOMAIN asked : Faithful(asked[i]))'
    <3> SUFFICES ASSUME NEW i \in DOMAIN asked PROVE Faithful(asked[i])'
        BY <2>2
    <3>1. asked[i] \in CreateRequests \cup SwitchRequests
        BY LenProperties, ElementOfSeq DEF CouponsInv, ConsoleInv
    <3>2. asked[i].op = "switch" => asked[i].coupon \in AdminCoupons
        BY <3>1 DEF CreateRequests, SwitchRequests
    <3> QED BY <2>1, <2>2, <3>2 DEF CouponsInv, ConsoleInv, Faithful
  <2>4. ConsoleInv'
      BY <2>1, <2>2, <2>3 DEF CouponsInv, ConsoleInv, HidesNothing, ShowsExtras, FaithfulMint
  <2> QED BY <1>1, <1>2, <2>1, <2>4 DEF CouponsInv
<1>3. CASE scene = "coupon console" /\ CouponConsoleNext
  <2>1. /\ CouponInv' /\ ConsoleInv' /\ UNCHANGED admins /\ \A l \in AdminCoupons : Made(l) => Made(l)'
        /\ TableTellsTheCoupons => TableTellsTheCoupons'
      BY <1>3, ConsoleStep DEF CouponsInv
  <2>2. \A a \in CouponAdmins : admins[a].op \in {"disable", "enable"} => admins[a].coupon \in AdminCoupons
    <3>1. HandlersInv
        BY DEF CouponsInv
    <3> QED BY <3>1 DEF HandlersInv, AtRest
  <2>3. HandlersInv'
      BY <2>1, <2>2 DEF CouponsInv, HandlersInv
  <2> QED BY <1>1, <1>3, <2>1, <2>3 DEF CouponsInv
<1>4. CASE UNCHANGED <<couponVars, consoleVars>>
    BY <1>1, <1>4 DEF couponVars, consoleVars, CouponsInv, CouponInv, Made, Alternates, HandlersInv, ConsoleInv,
       HidesNothing, ShowsExtras, Faithful, FaithfulMint, TableTellsTheCoupons, RowOf
<1> QED BY <1>1, <1>2, <1>3, <1>4

(***************************************************************************)
(* RecordsAddUp holds of the platform for any number of handlers: whose    *)
(* turn a ticket is, what a reputation counts, whether a coupon is on,     *)
(* which tasks are scheduled and who has used a limit up are what the      *)
(* events say.  Each component has its own inductive invariant.            *)
(***************************************************************************)
THEOREM RecordsAgree == PlatformSpec => []RecordsAddUp
<1> DEFINE Together == TicketInv /\ RatingInv /\ CouponsInv /\ ScheduleInv /\ ThrottleInv
<1>1. PlatformInit => Together
    BY TicketsStart, RatingsStart, CouponsInvStarts, TasksStart, ThrottleStarts DEF PlatformInit
<1>2. Together /\ [PlatformNext]_vars => Together'
    BY EveryComponentSteps, TicketsStep, RatingsStep, CouponsInvStep, TasksStep, ThrottleStep
<1>3. Together => RecordsAddUp
    BY TicketsWait, ReputationCounts, HistoryTells, SchedulesFollow, CallersApart DEF CouponsInv, RecordsAddUp
<1> QED BY <1>1, <1>2, <1>3, PTL DEF PlatformSpec

(***************************************************************************)
(* The page of coupons, for any number of coupons and any form: a coupon   *)
(* says what was on the screen when it was asked for, some order meets it, *)
(* and the table is wrong only of coupons that changed behind the page.    *)
(***************************************************************************)
THEOREM CouponPageTellsTheTruth ==
    PlatformSpec => [](/\ CouponsSayWhatWasShown /\ CouponsCanBeSpent
                       /\ scene = "coupon console" => TableTellsTheCoupons)
<1>1. CouponsInv => /\ CouponsSayWhatWasShown /\ CouponsCanBeSpent
                    /\ scene = "coupon console" => TableTellsTheCoupons
    BY WhatWasShown, CanBeSpent DEF CouponsInv
<1> QED BY <1>1, CouponsInvStarts, CouponsInvStep, PTL DEF PlatformSpec

(***************************************************************************)
(* ScreensFollowTheServer holds of the platform, for any pages, messages,  *)
(* orders and coupons: at rest, and in touch with the server, a thread, a  *)
(* dashboard and the table of coupons show what the server has; what the   *)
(* pages of orders offer is taken, somebody has every order that is not    *)
(* over in hand, and the pages are found.                                  *)
(***************************************************************************)
THEOREM ScreensFollow == PlatformSpec => []ScreensFollowTheServer
<1> DEFINE OnScreen == ChatInv /\ EventsInv /\ ShopInv /\ PageInv /\ CouponsInv
<1>1. PlatformInit => OnScreen
    BY ChatStarts, DashboardsStart, OrderPagesStart, CouponsInvStarts DEF PlatformInit
<1>2. OnScreen /\ [PlatformNext]_vars => OnScreen'
    BY EveryComponentSteps, ChatStep, DashboardsStep, OrderPagesStep, CouponsInvStep
<1>3. OnScreen => ScreensFollowTheServer
    BY ChatTells, DashboardsFollow, OffersHold, SomebodyIsAsked, PagesAreThere DEF CouponsInv, ScreensFollowTheServer
<1> QED BY <1>1, <1>2, <1>3, PTL DEF PlatformSpec

(***************************************************************************)
(* FormsFollowThePrices holds of the platform for any ranks, services,     *)
(* extras and lists: the server has a price for every route past the       *)
(* picker, unless the list in force is the first and the route starts in   *)
(* Master, or its prices make the climb free; however changes, questions   *)
(* and answers overtake each other, a summary that shows neither an error  *)
(* nor that it is working shows what the form costs; an order is charged   *)
(* what was on screen unless another list came into force; and a coupon    *)
(* is the one that was asked for.                                          *)
(***************************************************************************)
THEOREM FormsFollow == PlatformSpec => []FormsFollowThePrices
<1> DEFINE OnForms == FormInv /\ CouponsInv
<1>1. PlatformInit => OnForms
    BY OrderFormStarts, CouponsInvStarts DEF PlatformInit
<1>2. OnForms /\ [PlatformNext]_vars => OnForms'
    BY EveryComponentSteps, OrderFormStep, CouponsInvStep
<1>3. OnForms => FormsFollowThePrices
    BY RoutesHold, SummaryHolds, WhatWasShown, CanBeSpent DEF CouponsInv, FormsFollowThePrices
<1> QED BY <1>1, <1>2, <1>3, PTL DEF PlatformSpec

(***************************************************************************)
(* PlatformTypeOK: every component keeps to its types, for all values of   *)
(* the constants.                                                          *)
(***************************************************************************)
THEOREM PlatformTypeCorrect == PlatformSpec => []PlatformTypeOK
<1> DEFINE Records == TicketInv /\ RatingInv /\ ScheduleInv /\ ThrottleInv
           OnScreen == ChatInv /\ EventsInv /\ ShopInv /\ PageInv /\ SessionInv /\ FormInv
           Together == scene \in Scenes /\ CouponsInv /\ Records /\ OnScreen
<1>1. PlatformInit => Together
  <2>1. PlatformInit => Records
      BY TicketsStart, RatingsStart, TasksStart, ThrottleStarts DEF PlatformInit
  <2>2. PlatformInit => OnScreen
      BY ChatStarts, DashboardsStart, OrderPagesStart, WebSessionStarts, OrderFormStarts DEF PlatformInit
  <2>3. PlatformInit => scene \in Scenes
      BY DEF PlatformInit
  <2> QED BY <2>1, <2>2, <2>3, CouponsInvStarts
<1>2. Together /\ [PlatformNext]_vars => Together'
  <2>1. Records /\ [PlatformNext]_vars => Records'
      BY EveryComponentSteps, TicketsStep, RatingsStep, TasksStep, ThrottleStep
  <2>2. OnScreen /\ [PlatformNext]_vars => OnScreen'
      BY EveryComponentSteps, ChatStep, DashboardsStep, OrderPagesStep, WebSessionStep, OrderFormStep
  <2>3. scene \in Scenes /\ [PlatformNext]_vars => scene' \in Scenes
      BY EveryComponentSteps
  <2> QED BY <2>1, <2>2, <2>3, CouponsInvStep
<1>3. PlatformSpec => AccountsSpec /\ PricingSpec
  <2>1. PlatformInit => AccountsInit /\ PricingInit
      BY DEF PlatformInit
  <2>2. [PlatformNext]_vars => [AccountsNext]_accountVars /\ [PricingNext]_pricingVars
      BY EveryComponentSteps
  <2> QED BY <2>1, <2>2, PTL DEF PlatformSpec, AccountsSpec, PricingSpec
<1>4. Records => TicketsTypeOK /\ RatingsTypeOK /\ ScheduledTasksTypeOK /\ ThrottleTypeOK
    BY TicketTypes, ThrottleTypes DEF RatingInv, ScheduleInv
<1>5. OnScreen => /\ LiveChatTypeOK /\ DashboardEventsTypeOK /\ OrderPagesTypeOK /\ WebSessionTypeOK
                  /\ OrderFormTypeOK
  <2>1. ShopInv /\ PageInv => OrderPagesTypeOK
      BY DEF ShopInv, ShopTypes, PageInv, OrderPagesTypeOK
  <2>2. ChatInv /\ EventsInv /\ SessionInv => LiveChatTypeOK /\ DashboardEventsTypeOK /\ WebSessionTypeOK
      BY DEF ChatInv, ChatTypes, EventsInv, SessionInv
  <2> QED BY <2>1, <2>2, FormTypesHold
<1>6. CouponsInv => CouponAdminTypeOK /\ CouponConsoleTypeOK
    BY CouponTypes, ConsoleTypes DEF CouponsInv
<1>7. Together /\ AccountsTypeOK /\ PricingTypeOK => PlatformTypeOK
    BY <1>4, <1>5, <1>6 DEF PlatformTypeOK
<1> HIDE DEF Together
<1> QED BY <1>1, <1>2, <1>3, <1>7, AccountsTypeCorrect, PricingTypeCorrect, PTL DEF PlatformSpec
================================================================================
