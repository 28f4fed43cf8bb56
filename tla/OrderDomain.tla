------------------------------ MODULE OrderDomain ------------------------------
(***************************************************************************)
(* The order entity (src/apps/api/src/modules/orders/domain): the row an   *)
(* order is stored as, its status machine, and for each use case that      *)
(* changes an order the condition under which the entity accepts it        *)
(* (May...) and the row it leaves in memory.  Nothing here has state: the  *)
(* modules that own an orders table instantiate these operators.           *)
(*                                                                         *)
(* A row keeps what the lifecycle decides on: the status, the booster the  *)
(* order is assigned to, and whether a row of account credentials is       *)
(* stored beside it.  Prices, rank data and timestamps are never read by a *)
(* lifecycle decision and are left out.                                    *)
(***************************************************************************)
CONSTANTS
    Boosters,   \* the users with the booster role
    NoBooster   \* the value of an empty boosterId column

ASSUME NoBoosterAssumption == NoBooster \notin Boosters

OrderStatus ==
    {"awaiting_payment", "pending_booster", "in_progress", "completed", "cancelled"}

AllowedTransitions ==
    [s \in OrderStatus |->
        CASE s = "awaiting_payment" -> {"pending_booster", "cancelled"}
          [] s = "pending_booster"  -> {"in_progress", "cancelled"}
          [] s = "in_progress"      -> {"completed"}
          [] OTHER                  -> {}]

CanTransition(from, to) == to \in AllowedTransitions[from]

\* The statuses in which a client may have credentials stored.
CredentialStatuses == {"pending_booster", "in_progress"}

Rows == [status : OrderStatus, booster : Boosters \cup {NoBooster}, creds : BOOLEAN]

\* What the checkout transaction inserts: an unpaid order, with the booster the
\* client selected if there is one.
DraftRow(b) == [status |-> "awaiting_payment", booster |-> b, creds |-> FALSE]

-------------------------------------------------------------------------------
(* A definition whose name ends in X is a faulty variant of the one after  *)
(* it: put in its place, it makes a property fail that should notice.      *)
ClearedCredentials(row) == [row EXCEPT !.creds = FALSE]

\* without the early return for an order that is already paid
MayConfirmPaymentX(row) == row.status \in {"awaiting_payment", "pending_booster"}
MayConfirmPayment(row) == row.status = "awaiting_payment"
PaymentConfirmed(row) == [row EXCEPT !.status = "pending_booster"]

\* An order assigned to another booster is reported as not found.
MayAccept(row, b) ==
    /\ row.booster \in {NoBooster, b}
    /\ CanTransition(row.status, "in_progress")
Accepted(row, b) == [row EXCEPT !.status = "in_progress", !.booster = b]

MayReject(row, b) ==
    /\ row.booster \in {NoBooster, b}
    /\ row.status = "pending_booster"
Rejected(row, b) ==
    [row EXCEPT !.booster = IF row.booster = b THEN NoBooster ELSE row.booster]

\* any booster, and again
MayCompleteX(row, b) == row.status \in {"in_progress", "completed"}
MayComplete(row, b) ==
    /\ row.booster = b
    /\ CanTransition(row.status, "completed")
\* without clearCredentials
CompletedX(row) == [row EXCEPT !.status = "completed"]
Completed(row) == [ClearedCredentials(row) EXCEPT !.status = "completed"]

MayCancel(row) ==
    /\ row.status \notin {"in_progress", "completed"}
    /\ CanTransition(row.status, "cancelled")
Cancelled(row) == [ClearedCredentials(row) EXCEPT !.status = "cancelled"]

\* credentials may come before the payment
MaySetCredentialsX(row) == row.status \notin {"completed", "cancelled"}
MaySetCredentials(row) == row.status \in CredentialStatuses
CredentialsStored(row) == [row EXCEPT !.creds = TRUE]
================================================================================
