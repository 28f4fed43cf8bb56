----------------------------- MODULE OrderService ------------------------------
(***************************************************************************)
(* What the orders module promises its callers: every use case takes       *)
(* effect at one instant, on the order as it is at that instant.  It is    *)
(* the abstract specification of OrderLifecycle, which splits each use     *)
(* case into a read, a transaction of two statements and follow-up calls.  *)
(***************************************************************************)
EXTENDS OrderDomain

CONSTANT Orders

VARIABLES
    rows,       \* rows[o]: the stored row of order o
    rejected    \* rejected[o]: the boosters with a stored rejection of o

serviceVars == <<rows, rejected>>

ServiceInit ==
    /\ rows \in [Orders -> {DraftRow(b) : b \in Boosters \cup {NoBooster}}]
    /\ rejected = [o \in Orders |-> {}]

Write(o, row) == rows' = [rows EXCEPT ![o] = row]

ServicePay(o) ==
    /\ MayConfirmPayment(rows[o])
    /\ Write(o, PaymentConfirmed(rows[o]))
    /\ UNCHANGED rejected

ServiceAccept(o, b) ==
    /\ MayAccept(rows[o], b)
    /\ Write(o, Accepted(rows[o], b))
    /\ UNCHANGED rejected

ServiceReject(o, b) ==
    /\ MayReject(rows[o], b)
    /\ Write(o, Rejected(rows[o], b))
    /\ rejected' = [rejected EXCEPT ![o] = @ \cup {b}]

ServiceComplete(o, b) ==
    /\ MayComplete(rows[o], b)
    /\ Write(o, Completed(rows[o]))
    /\ UNCHANGED rejected

ServiceCancel(o) ==
    /\ MayCancel(rows[o])
    /\ Write(o, Cancelled(rows[o]))
    /\ UNCHANGED rejected

ServiceStoreCredentials(o) ==
    /\ MaySetCredentials(rows[o])
    /\ Write(o, CredentialsStored(rows[o]))
    /\ UNCHANGED rejected

ServiceClearCredentials(o) ==
    /\ Write(o, ClearedCredentials(rows[o]))
    /\ UNCHANGED rejected

ServiceNext ==
    \E o \in Orders :
        \/ ServicePay(o) \/ ServiceCancel(o)
        \/ ServiceStoreCredentials(o) \/ ServiceClearCredentials(o)
        \/ \E b \in Boosters :
            ServiceAccept(o, b) \/ ServiceReject(o, b) \/ ServiceComplete(o, b)

ServiceSpec == ServiceInit /\ [][ServiceNext]_serviceVars
================================================================================
