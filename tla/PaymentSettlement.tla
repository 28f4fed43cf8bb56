--------------------------- MODULE PaymentSettlement ---------------------------
(***************************************************************************)
(* How the payment of an order is settled: the webhooks of Mercado Pago,   *)
(* the reconciliation of stale checkouts, the internal endpoints and a     *)
(* client who resumes a checkout all read the row of the payment, change   *)
(* it in memory and write it back whole, with calls to the provider and to *)
(* the orders module in between.                                           *)
(*                                                                         *)
(* The orders module is OrderService: what it promises is enough here, and *)
(* OrderLifecycle is shown to implement it elsewhere.  The provider may be *)
(* asked to pay a checkout several times; each attempt is a resource of    *)
(* its own, whose status only the provider changes and which it notifies   *)
(* until it is answered.                                                   *)
(*                                                                         *)
(* Serialized says whether the executions under consideration are those in *)
(* which no handler reads the payment while another one is to write it.    *)
(***************************************************************************)
EXTENDS OrderService, Naturals, FiniteSets

CONSTANTS
    Order,          \* the order whose payment this is
    Resources,      \* the provider's payments of this checkout
    NoResource,     \* the value of an empty gatewayId column
    Requests,       \* the handlers that may be running at the same time
    MaxFails,       \* how many handlers may fail, or notifications get lost
    Serialized

ASSUME SettlementAssumption ==
    /\ Order \in Orders
    /\ NoResource \notin Resources
    /\ MaxFails \in Nat
    /\ Serialized \in BOOLEAN

VARIABLES
    payment,        \* the row of the payment
    age,            \* of the checkout, as far as reconciliation cares
    provider,       \* provider[res]: the status of res at Mercado Pago
    unanswered,     \* resources with a notification that will be sent again
    lost,           \* resources of which a notification was given up
    calls,          \* calls[r]: the handler r is running, and how far it has come
    lock,           \* who holds the advisory lock of the reconciliation, if anyone
    processed,      \* the keys of processedWebhookEvent
    lateApprovals,  \* resources with a late-approval entry in the admin audit
    confirmed,      \* did an internal caller ask for the payment to be confirmed?
    fails

outside == <<provider, unanswered, lost>>
records == <<processed, lateApprovals>>
settlementVars == <<serviceVars, payment, age, outside, calls, lock, records, confirmed, fails>>

-------------------------------------------------------------------------------
PaymentStatus == {"awaiting_confirmation", "held", "released", "failed"}
PaymentRows == [status : PaymentStatus, gatewayId : Resources \cup {NoResource}]

\* A definition whose name ends in X is a faulty variant of the one after it.
CanMove(from, to) ==
    \/ from = "awaiting_confirmation" /\ to \in {"held", "failed"}
    \/ from = "held" /\ to = "released"

\* confirm() accepts what is confirmed, fail() what has failed.
MayConfirm(row) == row.status \in {"held", "released"} \/ CanMove(row.status, "held")
Confirmed(row) ==
    IF row.status \in {"held", "released"} THEN row ELSE [row EXCEPT !.status = "held"]
MayFail(row) == row.status = "failed" \/ CanMove(row.status, "failed")
Failed(row) == [row EXCEPT !.status = "failed"]

\* whatever the status of the order
MayReleaseX(row, orderStatus) == row.status = "released" \/ CanMove(row.status, "released")
MayRelease(row, orderStatus) ==
    \/ row.status = "released"
    \/ orderStatus = "completed" /\ CanMove(row.status, "released")
Released(row) == [row EXCEPT !.status = "released"]

Attached(row, res, status) == [row EXCEPT !.gatewayId = res]

\* "none": there is no such payment yet; "refunded" stands for the statuses that
\* the code does not act on.
GatewayStatuses == {"none", "pending", "approved", "rejected", "refunded"}

\* an authorized payment taken for a captured one
ResolutionX(status) ==
    CASE status \in {"approved", "pending"} -> "confirm"
      [] status = "rejected"                -> "fail"
      [] OTHER                              -> "defer"
Resolution(status) ==
    CASE status = "approved" -> "confirm"
      [] status = "rejected" -> "fail"
      [] status = "pending"  -> "pending"
      [] OTHER               -> "defer"

Operations == {"webhook", "late", "reconcile", "confirm", "fail", "resume", "release"}
Stages == {"fetch", "read", "order", "save", "pay", "clear", "late", "mark"}

\* A handler at work: the resource it is about, the status it was told, and the
\* copy of the payment it will write.
Calls == [stage : Stages, op : Operations, res : Resources \cup {NoResource},
          saw : GatewayStatuses, copy : PaymentRows]
Idle == [stage |-> "idle"]

At(r, stage) == calls[r].stage = stage
Busy(r) == calls[r] # Idle

\* r has read the payment and is still to write it.
Holds(r) ==
    \/ calls[r].stage \in {"order", "save"}
    \/ calls[r].stage \in {"pay", "clear"} /\ calls[r].op = "reconcile"

MayRead == Serialized => \A q \in Requests : ~Holds(q)

Go(r, call) == calls' = [calls EXCEPT ![r] = call]
Finish(r) == Go(r, Idle) /\ lock' = lock \ {r}

\* A notification of res is answered with success, by a handler that was told the
\* status saw; one about a later status is sent separately.
Answer(res, saw) ==
    unanswered' = IF provider[res] = saw THEN unanswered \ {res} ELSE unanswered

Init ==
    /\ ServiceInit
    /\ payment = [status |-> "awaiting_confirmation", gatewayId |-> NoResource]
    /\ age = "fresh"
    /\ provider = [res \in Resources |-> "none"]
    /\ unanswered = {} /\ lost = {}
    /\ calls = [r \in Requests |-> Idle]
    /\ lock = {}
    /\ processed = {} /\ lateApprovals = {}
    /\ confirmed = FALSE
    /\ fails = 0

-------------------------------------------------------------------------------
(* The handlers begin. *)
Begin(r, stage, op, res, copy) ==
    /\ ~Busy(r)
    /\ Go(r, [stage |-> stage, op |-> op, res |-> res, saw |-> "none", copy |-> copy])
    /\ UNCHANGED <<serviceVars, payment, age, provider, lost, records, fails>>

\* A notification arrives, perhaps not for the first time.
BeginWebhook(r, res) ==
    /\ provider[res] # "none"
    /\ res \notin processed
    /\ Begin(r, "fetch", "webhook", res, payment)
    /\ UNCHANGED <<unanswered, lock, confirmed>>

\* What was processed is answered with success and nothing else.
SkipProcessed(res) ==
    /\ res \in processed
    /\ unanswered' = unanswered \ {res}
    /\ UNCHANGED <<serviceVars, payment, age, provider, lost, calls, lock, records, confirmed, fails>>

\* only payments that a webhook has been seen for
CandidateX ==
    /\ payment.status = "awaiting_confirmation" /\ payment.gatewayId # NoResource
    /\ rows[Order].status = "awaiting_payment"
    /\ age # "fresh"
Candidate ==
    /\ payment.status = "awaiting_confirmation"
    /\ rows[Order].status = "awaiting_payment"
    /\ age # "fresh"

BeginReconcile(r) ==
    /\ Candidate
    /\ lock = {}
    /\ Begin(r, "fetch", "reconcile", payment.gatewayId, payment)
    /\ lock' = {r}
    /\ UNCHANGED <<unanswered, confirmed>>

BeginConfirm(r) ==
    /\ MayRead
    /\ MayConfirm(payment)
    /\ Begin(r, "save", "confirm", NoResource, Confirmed(payment))
    /\ confirmed' = TRUE
    /\ UNCHANGED <<unanswered, lock>>

BeginFail(r) ==
    /\ MayRead
    /\ MayFail(payment)
    /\ Begin(r, "save", "fail", NoResource, Failed(payment))
    /\ UNCHANGED <<unanswered, lock, confirmed>>

\* These two ask for the status of the order before they decide.
BeginResume(r) ==
    /\ MayRead
    /\ payment.status = "awaiting_confirmation"
    /\ Begin(r, "order", "resume", NoResource, payment)
    /\ UNCHANGED <<unanswered, lock, confirmed>>

BeginRelease(r) ==
    /\ MayRead
    /\ Begin(r, "order", "release", NoResource, payment)
    /\ UNCHANGED <<unanswered, lock, confirmed>>

-------------------------------------------------------------------------------
(* The handlers go on. *)
Told(call, res, status) == [call EXCEPT !.stage = "read", !.res = res, !.saw = status]

\* The provider ranks the attempts of a checkout, and the reconciliation gets the
\* best of them: approved, then pending, then rejected.
Rank(status) ==
    CASE status = "approved" -> 3 [] status = "pending" -> 2
      [] status = "rejected" -> 1 [] OTHER -> 0
Attempts == {res \in Resources : provider[res] # "none"}
Best == {res \in Attempts : \A other \in Attempts : Rank(provider[other]) <= Rank(provider[res])}

FetchNotification(r) ==
    /\ At(r, "fetch")
    /\ calls[r].res # NoResource
    /\ Go(r, Told(calls[r], calls[r].res, provider[calls[r].res]))
    /\ UNCHANGED <<serviceVars, payment, age, outside, lock, records, confirmed, fails>>

FetchByExternalReference(r) ==
    /\ At(r, "fetch")
    /\ calls[r].res = NoResource
    /\ IF Best = {} THEN Go(r, Told(calls[r], NoResource, "none"))
       ELSE \E res \in Best : Go(r, Told(calls[r], res, provider[res]))
    /\ UNCHANGED <<serviceVars, payment, age, outside, lock, records, confirmed, fails>>

\* The webhook reads the payment and decides; a rejection of a payment that is
\* held throws, and the notification will be sent again.
ReadForWebhook(r) ==
    LET call == calls[r]
        copy == Attached(payment, call.res, call.saw)
        write(row, op) == Go(r, [call EXCEPT !.stage = "save", !.op = op, !.copy = row])
                          /\ UNCHANGED lock
    IN  /\ At(r, "read") /\ call.op = "webhook"
        /\ MayRead
        /\ CASE Resolution(call.saw) = "confirm" /\ payment.status = "failed" ->
                    write(copy, "late")
             [] Resolution(call.saw) = "confirm" /\ payment.status # "failed" ->
                    IF MayConfirm(copy) THEN write(Confirmed(copy), "webhook") ELSE Finish(r)
             [] Resolution(call.saw) = "fail" ->
                    IF MayFail(copy) THEN write(Failed(copy), "webhook") ELSE Finish(r)
             [] OTHER -> write(copy, "webhook")
        /\ UNCHANGED <<serviceVars, payment, age, outside, records, confirmed, fails>>

\* The reconciliation reads the payment again.  Here the orders module is told
\* before the payment is written.  A checkout that was never paid expires.
ReadForReconcile(r) ==
    LET call == calls[r]
        copy == Attached(payment, call.res, call.saw)
        write(row, stage) == Go(r, [call EXCEPT !.stage = stage, !.copy = row]) /\ UNCHANGED lock
        found == call.saw # "none"
    IN  /\ At(r, "read") /\ call.op = "reconcile"
        /\ MayRead
        /\ CASE payment.status # "awaiting_confirmation" \/ (~found /\ age # "expired") ->
                    Finish(r)
             [] payment.status = "awaiting_confirmation" /\ ~found /\ age = "expired" ->
                    write(Failed(payment), "clear")
             [] OTHER ->
                    CASE Resolution(call.saw) = "confirm" -> write(Confirmed(copy), "pay")
                      [] Resolution(call.saw) = "fail"    -> write(Failed(copy), "clear")
                      [] Resolution(call.saw) = "pending" -> write(copy, "save")
                      [] OTHER                            -> Finish(r)
        /\ UNCHANGED <<serviceVars, payment, age, outside, records, confirmed, fails>>

\* The status of the order decides whether a checkout is resumed or a hold
\* released; otherwise the handler throws.
ReadOrderStatus(r) ==
    LET call == calls[r]
        status == rows[Order].status
    IN  /\ At(r, "order")
        /\ \/ /\ call.op = "resume" /\ status = "awaiting_payment"
              /\ Go(r, [call EXCEPT !.stage = "save"])
              /\ UNCHANGED lock
           \/ /\ call.op = "release" /\ MayRelease(call.copy, status)
              /\ Go(r, [call EXCEPT !.stage = "save", !.copy = Released(@)])
              /\ UNCHANGED lock
           \/ /\ call.op = "resume" /\ status # "awaiting_payment"
              /\ Finish(r)
           \/ /\ call.op = "release" /\ ~MayRelease(call.copy, status)
              /\ Finish(r)
        /\ UNCHANGED <<serviceVars, payment, age, outside, records, confirmed, fails>>

\* What follows the write of the payment:
\* every webhook is marked as processed
AfterSaveX(call) ==
    CASE call.op = "webhook" /\ Resolution(call.saw) = "confirm" -> "pay"
      [] call.op = "webhook" /\ Resolution(call.saw) = "fail"    -> "clear"
      [] call.op = "webhook" /\ Resolution(call.saw) \notin {"confirm", "fail"} -> "mark"
      [] call.op = "late"    -> "late"
      [] call.op = "confirm" -> "pay"
      [] call.op = "fail"    -> "clear"
      [] OTHER               -> "end"
\* the order is not told
AfterSaveUntoldX(call) ==
    CASE call.op = "webhook" /\ Resolution(call.saw) \in {"confirm", "fail"} -> "mark"
      [] call.op = "late"    -> "late"
      [] OTHER               -> "end"
AfterSave(call) ==
    CASE call.op = "webhook" /\ Resolution(call.saw) = "confirm" -> "pay"
      [] call.op = "webhook" /\ Resolution(call.saw) = "fail"    -> "clear"
      [] call.op = "late"    -> "late"
      [] call.op = "confirm" -> "pay"
      [] call.op = "fail"    -> "clear"
      [] OTHER               -> "end"

SavePayment(r) ==
    LET call == calls[r]
        next == AfterSave(call)
    IN  /\ At(r, "save")
        /\ payment' = call.copy
        /\ IF next = "end" THEN Finish(r)
           ELSE Go(r, [call EXCEPT !.stage = next]) /\ UNCHANGED lock
        /\ IF next = "end" /\ call.op = "webhook" THEN Answer(call.res, call.saw)
           ELSE UNCHANGED unanswered
        /\ UNCHANGED <<serviceVars, age, provider, lost, records, confirmed, fails>>

\* A call to the orders module is over: the webhook's key is next, the
\* reconciliation still has to write the payment.
AfterOrder(r) ==
    CASE calls[r].op = "webhook"   -> Go(r, [calls[r] EXCEPT !.stage = "mark"]) /\ UNCHANGED lock
      [] calls[r].op = "reconcile" -> Go(r, [calls[r] EXCEPT !.stage = "save"]) /\ UNCHANGED lock
      [] OTHER                     -> Finish(r)

\* markAsPaid, which returns silently unless the order awaits its payment.
MarkAsPaid(r) ==
    /\ At(r, "pay")
    /\ IF MayConfirmPayment(rows[Order]) THEN ServicePay(Order) ELSE UNCHANGED serviceVars
    /\ AfterOrder(r)
    /\ UNCHANGED <<payment, age, outside, records, confirmed, fails>>

ClearCredentials(r) ==
    /\ At(r, "clear")
    /\ ServiceClearCredentials(Order)
    /\ AfterOrder(r)
    /\ UNCHANGED <<payment, age, outside, records, confirmed, fails>>

RecordLateApproval(r) ==
    /\ At(r, "late")
    /\ lateApprovals' = lateApprovals \cup {calls[r].res}
    /\ Go(r, [calls[r] EXCEPT !.stage = "mark"])
    /\ UNCHANGED <<serviceVars, payment, age, outside, lock, processed, confirmed, fails>>

MarkProcessed(r) ==
    /\ At(r, "mark")
    /\ processed' = processed \cup {calls[r].res}
    /\ Answer(calls[r].res, calls[r].saw)
    /\ Finish(r)
    /\ UNCHANGED <<serviceVars, payment, age, provider, lost, lateApprovals, confirmed, fails>>

\* A handler throws, the provider does not answer it, or its process dies.
Fail(r) ==
    /\ Busy(r)
    /\ fails < MaxFails
    /\ fails' = fails + 1
    /\ Finish(r)
    /\ UNCHANGED <<serviceVars, payment, age, outside, records, confirmed>>

-------------------------------------------------------------------------------
(* What the handlers do not decide. *)

\* The transaction that holds the lock times out; its callback goes on.
LoseLock ==
    /\ lock # {}
    /\ lock' = {}
    /\ UNCHANGED <<serviceVars, payment, age, outside, calls, records, confirmed, fails>>

GrowOld ==
    /\ \/ age = "fresh" /\ age' = "stale"
       \/ age = "stale" /\ age' = "expired"
    /\ UNCHANGED <<serviceVars, payment, outside, calls, lock, records, confirmed, fails>>

ProviderMoves(res, status) ==
    /\ \/ provider[res] \in {"none", "pending"} /\ status \in {"pending", "approved", "rejected"}
       \/ provider[res] = "approved" /\ status = "refunded"
    /\ status # provider[res]
    /\ provider' = [provider EXCEPT ![res] = status]
    /\ unanswered' = unanswered \cup {res}
    /\ UNCHANGED <<serviceVars, payment, age, lost, calls, lock, records, confirmed, fails>>

LoseNotification(res) ==
    /\ res \in unanswered
    /\ fails < MaxFails
    /\ fails' = fails + 1
    /\ unanswered' = unanswered \ {res}
    /\ lost' = lost \cup {res}
    /\ UNCHANGED <<serviceVars, payment, age, provider, calls, lock, records, confirmed>>

\* The other users of the orders module.
OrderMoves ==
    /\ \/ ServiceCancel(Order)
       \/ ServiceStoreCredentials(Order)
       \/ \E b \in Boosters :
            ServiceAccept(Order, b) \/ ServiceReject(Order, b) \/ ServiceComplete(Order, b)
    /\ UNCHANGED <<payment, age, outside, calls, lock, records, confirmed, fails>>

-------------------------------------------------------------------------------
BeginCall(r) ==
    \/ \E res \in Resources : BeginWebhook(r, res)
    \/ BeginReconcile(r)
    \/ BeginConfirm(r)
    \/ BeginFail(r)
    \/ BeginResume(r)
    \/ BeginRelease(r)

Proceed(r) ==
    \/ FetchNotification(r)
    \/ FetchByExternalReference(r)
    \/ ReadForWebhook(r)
    \/ ReadForReconcile(r)
    \/ ReadOrderStatus(r)
    \/ SavePayment(r)
    \/ MarkAsPaid(r)
    \/ ClearCredentials(r)
    \/ RecordLateApproval(r)
    \/ MarkProcessed(r)

Next ==
    \/ \E r \in Requests : BeginCall(r) \/ Proceed(r) \/ Fail(r)
    \/ \E res \in Resources :
        \/ SkipProcessed(res)
        \/ LoseNotification(res)
        \/ \E status \in GatewayStatuses : ProviderMoves(res, status)
    \/ LoseLock
    \/ GrowOld
    \/ OrderMoves

Spec == Init /\ [][Next]_settlementVars

\* Handlers run to their end, the provider sends what is unanswered again, and the
\* scheduled task starts the reconciliation again and again.
FairSpec ==
    /\ Spec
    /\ \A r \in Requests : WF_settlementVars(Proceed(r))
    /\ \A res \in Resources :
        SF_settlementVars(res \in unanswered /\ \E r \in Requests : BeginWebhook(r, res))
    /\ SF_settlementVars(\E r \in Requests : BeginReconcile(r))
    /\ WF_settlementVars(GrowOld)

-------------------------------------------------------------------------------
(* Properties of every execution. *)

\* Every variable has its type; at most one handler holds the advisory lock.
TypeOK ==
    /\ rows \in [Orders -> Rows]
    /\ rejected \in [Orders -> SUBSET Boosters]
    /\ payment \in PaymentRows
    /\ age \in {"fresh", "stale", "expired"}
    /\ provider \in [Resources -> GatewayStatuses]
    /\ unanswered \subseteq Resources /\ lost \subseteq Resources
    /\ calls \in [Requests -> Calls \cup {Idle}]
    /\ lock \in {{}} \cup {{r} : r \in Requests}
    /\ processed \subseteq Resources /\ lateApprovals \subseteq Resources
    /\ confirmed \in BOOLEAN
    /\ fails \in 0 .. MaxFails

PaidStatuses == {"pending_booster", "in_progress", "completed"}
Approved == {res \in Resources : provider[res] \in {"approved", "refunded"}}

\* Nobody is offered the order, and no payment is held, unless the provider has
\* approved an attempt or an internal caller has vouched for it.
NothingHeldWithoutApproval ==
    payment.status \in {"held", "released"} \/ rows[Order].status \in PaidStatuses =>
        Approved # {} \/ confirmed

\* The hold of a payment is only released for a completed order (FR-027).
ReleasedAfterCompletion == payment.status = "released" => rows[Order].status = "completed"

\* A notification of an approval is never marked as processed while the order goes
\* on waiting: it has been told, or an admin can see the late approval.
ProcessedIsSettled ==
    \A res \in processed \cap Approved :
        rows[Order].status # "awaiting_payment" \/ res \in lateApprovals

-------------------------------------------------------------------------------
(* Properties of the executions in which no handler reads between the read *)
(* and the write of another one.                                           *)

\* The two tables agree, but for the moment between the two writes, unless a handler
\* has failed there: a paid order has its money, and held money has been reported
\* to its order.
OrderAndPaymentAgree ==
    \/ fails > 0
    \/ /\ rows[Order].status \in PaidStatuses => 
            \/ payment.status \in {"held", "released"}
            \/ \E r \in Requests : At(r, "save") /\ calls[r].op = "reconcile"
       /\ payment.status = "held" /\ rows[Order].status = "awaiting_payment" =>
            \E r \in Requests : At(r, "pay")

-------------------------------------------------------------------------------
(* Liveness. *)

\* An approval of which no notification is given up is settled: the money is held
\* and the order told, or the late approval is on record.
ApprovalIsSettled ==
    \A res \in Resources :
        provider[res] = "approved" ~>
            \/ payment.status \in {"held", "released"} /\ rows[Order].status # "awaiting_payment"
            \/ res \in lateApprovals
            \/ res \in lost
            \/ provider[res] = "refunded"

\* If notifications are given up, the reconciliation finds the approval, as long as
\* the order still waits and the payment is not recorded under another attempt.
ReconciliationBacksUp ==
    \A res \in Resources :
        provider[res] = "approved" ~>
            \/ payment.status # "awaiting_confirmation"
            \/ rows[Order].status # "awaiting_payment"
            \/ payment.gatewayId \notin {NoResource, res}
            \/ provider[res] = "refunded"

\* "Client payment remains held until service finalization." (requirements.md:43)
HeldUntilFinalization ==
    [][payment.status = "held" /\ rows[Order].status # "completed" => payment'.status = "held"]_payment
================================================================================
