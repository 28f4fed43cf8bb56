------------------------ MODULE PaymentSettlementProofs ------------------------
(***************************************************************************)
(* Theorems about PaymentSettlement, for any attempts, handlers and        *)
(* failures, and for every interleaving.                                   *)
(***************************************************************************)
EXTENDS PaymentSettlement, TLAPS

\* Somebody has vouched for the money.
Backed == Approved # {} \/ confirmed

\* The fate of an attempt that need not be notified again.
Settled(res) ==
    \/ provider[res] = "rejected"
    \/ rows[Order].status # "awaiting_payment"
    \/ res \in lateApprovals

\* What a handler between two of its steps may rely on: what it was told is final,
\* or was true; the copy it holds is as good as the row was.
CallOK(c) ==
    /\ c.saw = "approved" => c.res \in Approved
    /\ c.saw = "rejected" => c.res \in Resources /\ provider[c.res] = "rejected"
    /\ c.op = "confirm" => confirmed
    /\ c.op \in {"webhook", "late"} => c.res \in Resources
    /\ c.copy.status \in {"held", "released"} => Backed
    /\ c.copy.status = "released" => rows[Order].status = "completed"
    /\ c.stage = "pay" => Backed
    /\ c.stage = "clear" /\ c.op = "webhook" => c.saw = "rejected"
    /\ c.stage = "late" => c.op = "late"
    /\ c.stage = "mark" => c.res \in Resources /\ Settled(c.res)

CallsOK == \A r \in Requests : Busy(r) => CallOK(calls[r])

PInv ==
    /\ TypeOK
    /\ CallsOK
    /\ NothingHeldWithoutApproval
    /\ ReleasedAfterCompletion
    /\ \A res \in processed : Settled(res)

\* Nothing that handlers rely on is taken back.
Monotone ==
    /\ Approved \subseteq Approved'
    /\ confirmed => confirmed'
    /\ \A res \in Resources : provider[res] = "rejected" => provider'[res] = "rejected"
    /\ rows[Order].status = "completed" => rows'[Order].status = "completed"
    /\ rows[Order].status # "awaiting_payment" => rows'[Order].status # "awaiting_payment"
    /\ lateApprovals \subseteq lateApprovals'

-------------------------------------------------------------------------------
LEMMA InitPInv == Init => PInv
<1> SUFFICES ASSUME Init PROVE PInv
    OBVIOUS
<1>1. rows[Order].status = "awaiting_payment"
    BY SettlementAssumption DEF Init, ServiceInit, DraftRow
<1>2. TypeOK
    <2>1. rows \in [Orders -> Rows]
        <3>1. \A b \in Boosters \cup {NoBooster} : DraftRow(b) \in Rows
            BY DEF DraftRow, Rows, OrderStatus
        <3>2. rows \in [Orders -> {DraftRow(b) : b \in Boosters \cup {NoBooster}}]
            BY DEF Init, ServiceInit
        <3> HIDE DEF DraftRow, Rows
        <3> QED BY <3>1, <3>2
    <2>2. payment \in PaymentRows
        BY DEF Init, PaymentRows, PaymentStatus
    <2>3. fails \in 0 .. MaxFails
        BY SettlementAssumption DEF Init
    <2> QED BY <2>1, <2>2, <2>3 DEF Init, ServiceInit, TypeOK, GatewayStatuses
<1>3. CallsOK
    BY DEF Init, CallsOK, Busy
<1>4. payment.status = "awaiting_confirmation" /\ processed = {}
    BY DEF Init
<1>5. NothingHeldWithoutApproval /\ ReleasedAfterCompletion
    BY <1>1, <1>4 DEF NothingHeldWithoutApproval, ReleasedAfterCompletion, PaidStatuses
<1> QED BY <1>2, <1>3, <1>4, <1>5 DEF PInv

\* What a call was good for it stays good for.
LEMMA CallStays ==
    ASSUME Monotone, NEW c, CallOK(c)
    PROVE  CallOK(c)'
BY DEF Monotone, CallOK, Backed, Settled

\* A step keeps the invariant if it takes nothing back and what it writes is good.
LEMMA StepKeeps ==
    ASSUME PInv, Monotone, TypeOK',
           \A q \in Requests : Busy(q)' => calls'[q] = calls[q] \/ CallOK(calls[q])',
           NothingHeldWithoutApproval', ReleasedAfterCompletion',
           \A res \in processed' : res \in processed \/ Settled(res)'
    PROVE  PInv'
<1>1. CallsOK'
    <2> SUFFICES ASSUME NEW q \in Requests, Busy(q)' PROVE CallOK(calls[q])'
        BY DEF CallsOK
    <2>1. CASE calls'[q] = calls[q]
        <3>1. PICK c : c = calls[q]
            OBVIOUS
        <3>2. CallOK(c)
            BY <2>1, <3>1 DEF PInv, CallsOK, Busy
        <3>3. CallOK(c)'
            BY <3>2, CallStays
        <3>4. calls'[q] = c
            BY <2>1, <3>1
        <3> QED BY <3>3, <3>4 DEF CallOK
    <2> QED BY <2>1
<1>2. \A res \in processed' : Settled(res)'
    <2> SUFFICES ASSUME NEW res \in processed', res \in processed PROVE Settled(res)'
        OBVIOUS
    <2>1. Settled(res) /\ res \in Resources
        BY DEF PInv, TypeOK
    <2> QED BY <2>1 DEF Monotone, Settled
<1> QED BY <1>1, <1>2 DEF PInv

\* A handler that moves, and writes neither table, needs a good call only.
LEMMA GoKeeps ==
    ASSUME PInv, NEW r \in Requests, NEW d \in Calls \cup {Idle}, Go(r, d),
           d # Idle => CallOK(d)',
           UNCHANGED <<serviceVars, payment, age, provider, lost>>,
           unanswered' \subseteq Resources,
           lock' \in {{}} \cup {{q} : q \in Requests},
           confirmed' \in BOOLEAN, confirmed => confirmed',
           lateApprovals \subseteq lateApprovals', lateApprovals' \subseteq Resources,
           processed' \subseteq Resources, fails' \in 0 .. MaxFails,
           \A res \in processed' : res \in processed \/ Settled(res)'
    PROVE  PInv'
<1>1. Monotone
    BY DEF Monotone, serviceVars, Approved
<1>2. TypeOK'
    BY DEF PInv, TypeOK, serviceVars, Go
<1>3. \A q \in Requests : Busy(q)' => calls'[q] = calls[q] \/ CallOK(calls[q])'
    <2> TAKE q \in Requests
    <2>1. CASE q = r
        <3>1. calls'[q] = d
            BY <2>1 DEF PInv, TypeOK, Go
        <3> QED BY <3>1 DEF Busy
    <2>2. CASE q # r
        BY <2>2 DEF PInv, TypeOK, Go
    <2> QED BY <2>1, <2>2
<1>4. NothingHeldWithoutApproval' /\ ReleasedAfterCompletion'
    BY <1>1 DEF PInv, NothingHeldWithoutApproval, ReleasedAfterCompletion, serviceVars, Monotone
<1> QED BY <1>1, <1>2, <1>3, <1>4, StepKeeps

LEMMA BusyCall ==
    ASSUME PInv, NEW r \in Requests, calls[r].stage # "idle"
    PROVE  calls[r] \in Calls /\ Busy(r) /\ CallOK(calls[r])
BY DEF PInv, TypeOK, CallsOK, Busy, Idle

LEMMA CallIsNotIdle == ASSUME NEW c \in Calls PROVE c # Idle /\ c.stage # "idle"
BY DEF Calls, Idle, Stages

\* A lock is released by whoever ends.
LEMMA LockType ==
    ASSUME PInv, NEW r \in Requests
    PROVE  lock \ {r} \in {{}} \cup {{q} : q \in Requests}
BY DEF PInv, TypeOK

\* The entity's operations turn rows into rows.
LEMMA RowTypes ==
    ASSUME NEW row \in PaymentRows, NEW res \in Resources \cup {NoResource}, NEW s
    PROVE  /\ Confirmed(row) \in PaymentRows /\ Failed(row) \in PaymentRows
           /\ Released(row) \in PaymentRows /\ Attached(row, res, s) \in PaymentRows
           /\ Confirmed(row).status \in {"held", "released"}
           /\ Confirmed(row).status = "released" => row.status = "released"
           /\ Failed(row).status = "failed" /\ Released(row).status = "released"
           /\ Attached(row, res, s).status = row.status
BY DEF PaymentRows, PaymentStatus, Confirmed, Failed, Released, Attached

-------------------------------------------------------------------------------
(* The handlers begin. *)
LEMMA BeginCallKeeps ==
    ASSUME PInv, NEW r \in Requests, BeginCall(r)
    PROVE  PInv'
<1> DEFINE New(stage, op, res, copy) ==
        [stage |-> stage, op |-> op, res |-> res, saw |-> "none", copy |-> copy]
<1>1. /\ payment \in PaymentRows /\ lock \in {{}} \cup {{q} : q \in Requests}
      /\ unanswered \subseteq Resources /\ confirmed \in BOOLEAN
      /\ lateApprovals \subseteq Resources /\ processed \subseteq Resources
      /\ fails \in 0 .. MaxFails
    BY DEF PInv, TypeOK
<1>2. ASSUME NEW stage \in {"fetch", "save", "order"}, NEW op \in Operations,
             NEW res \in Resources \cup {NoResource}, NEW copy \in PaymentRows,
             Begin(r, stage, op, res, copy), unanswered' = unanswered,
             lock' \in {{}} \cup {{q} : q \in Requests},
             confirmed' \in BOOLEAN, confirmed => confirmed',
             op = "confirm" => confirmed', op \in {"webhook", "late"} => res \in Resources,
             copy.status \in {"held", "released"} => payment.status \in {"held", "released"} \/ confirmed',
             copy.status = "released" => payment.status = "released"
      PROVE  PInv'
    <2>1. New(stage, op, res, copy) \in Calls
        BY DEF Calls, Stages, GatewayStatuses
    <2>2. CallOK(New(stage, op, res, copy))'
        <3>1. payment.status \in {"held", "released"} => (Approved # {})' \/ confirmed'
            BY <1>2 DEF PInv, NothingHeldWithoutApproval, Begin, Approved
        <3>2. payment.status = "released" => rows'[Order].status = "completed"
            BY <1>2 DEF PInv, ReleasedAfterCompletion, Begin, serviceVars
        <3> QED BY <1>2, <3>1, <3>2 DEF CallOK, Backed
    <2>3. Go(r, New(stage, op, res, copy))
        BY <1>2 DEF Begin
    <2>4. /\ UNCHANGED <<serviceVars, payment, age, provider, lost>>
          /\ lateApprovals' = lateApprovals /\ processed' = processed /\ fails' = fails
        BY <1>2 DEF Begin, records
    <2> HIDE DEF New
    <2> QED BY <1>1, <1>2, <2>1, <2>2, <2>3, <2>4, GoKeeps
<1>3. /\ {"webhook", "reconcile", "confirm", "fail", "resume", "release"} \subseteq Operations
      /\ payment.gatewayId \in Resources \cup {NoResource}
      /\ NoResource \in Resources \cup {NoResource}
      /\ {r} \in {{}} \cup {{q} : q \in Requests}
    BY <1>1 DEF Operations, PaymentRows
<1>4. ASSUME NEW res \in Resources, BeginWebhook(r, res) PROVE PInv'
    BY <1>1, <1>2, <1>3, <1>4 DEF BeginWebhook
<1>5. CASE BeginReconcile(r)
    BY <1>1, <1>2, <1>3, <1>5 DEF BeginReconcile
<1>6. CASE BeginConfirm(r)
    <2>1. /\ Confirmed(payment) \in PaymentRows
          /\ Confirmed(payment).status = "released" => payment.status = "released"
        BY <1>1, RowTypes
    <2>2. confirmed' = TRUE
        BY <1>6 DEF BeginConfirm
    <2> QED BY <1>1, <1>2, <1>3, <1>6, <2>1, <2>2 DEF BeginConfirm
<1>7. CASE BeginFail(r)
    <2>1. Failed(payment) \in PaymentRows /\ Failed(payment).status = "failed"
        BY <1>1, RowTypes
    <2> QED BY <1>1, <1>2, <1>3, <1>7, <2>1 DEF BeginFail
<1>8. CASE BeginResume(r)
    BY <1>1, <1>2, <1>3, <1>8 DEF BeginResume
<1>9. CASE BeginRelease(r)
    BY <1>1, <1>2, <1>3, <1>9 DEF BeginRelease
<1> QED BY <1>4, <1>5, <1>6, <1>7, <1>8, <1>9 DEF BeginCall

-------------------------------------------------------------------------------
(* The handlers go on.  First the steps that write neither table. *)

\* The part of GoKeeps that handlers without a write of their own have in common.
LEMMA MoveKeeps ==
    ASSUME PInv, NEW r \in Requests, NEW d \in Calls \cup {Idle}, Go(r, d),
           d # Idle => CallOK(d)',
           UNCHANGED <<serviceVars, payment, age, outside, records, confirmed, fails>>,
           lock' = lock \/ lock' = lock \ {r}
    PROVE  PInv'
<1>1. lock' \in {{}} \cup {{q} : q \in Requests}
    BY LockType DEF PInv, TypeOK
<1>2. /\ UNCHANGED <<serviceVars, payment, age, provider, lost>>
      /\ unanswered' \subseteq Resources /\ confirmed' \in BOOLEAN
      /\ lateApprovals' = lateApprovals /\ lateApprovals' \subseteq Resources
      /\ processed' = processed /\ processed' \subseteq Resources
      /\ confirmed' = confirmed /\ fails' \in 0 .. MaxFails
    BY DEF PInv, TypeOK, outside, records
<1> QED BY <1>1, <1>2, GoKeeps

LEMMA FinishKeeps ==
    ASSUME PInv, NEW r \in Requests, Finish(r),
           UNCHANGED <<serviceVars, payment, age, outside, records, confirmed, fails>>
    PROVE  PInv'
BY MoveKeeps DEF Finish

\* A call as good as before, in a step after which everything is as it was.
LEMMA CallSame ==
    ASSUME NEW c, CallOK(c),
           UNCHANGED <<serviceVars, payment, age, outside, records, confirmed, fails>>
    PROVE  CallOK(c)'
BY DEF CallOK, Backed, Settled, Approved, serviceVars, outside, records

LEMMA FetchKeeps ==
    ASSUME PInv, NEW r \in Requests, FetchNotification(r) \/ FetchByExternalReference(r)
    PROVE  PInv'
<1>1. PICK c : c = calls[r]
    OBVIOUS
<1>2. c \in Calls /\ CallOK(c) /\ c.stage = "fetch"
    BY <1>1, BusyCall DEF FetchNotification, FetchByExternalReference, At
<1>3. UNCHANGED <<serviceVars, payment, age, outside, records, confirmed, fails>> /\ lock' = lock
    BY DEF FetchNotification, FetchByExternalReference
<1>4. ASSUME NEW res \in Resources \cup {NoResource}, NEW status \in GatewayStatuses,
             Go(r, Told(c, res, status)),
             res \in Resources => status = provider[res],
             res = NoResource => status = "none" /\ c.op \notin {"webhook", "late"}
      PROVE  PInv'
    <2>1. Told(c, res, status) \in Calls
        BY <1>2 DEF Told, Calls, Stages
    <2>2. CallOK(Told(c, res, status))
        <3>1. /\ Told(c, res, status).saw = status /\ Told(c, res, status).res = res
              /\ Told(c, res, status).op = c.op /\ Told(c, res, status).copy = c.copy
              /\ Told(c, res, status).stage = "read"
            BY <1>2 DEF Told, Calls
        <3>2. status = "approved" => res \in Approved
            BY <1>4 DEF Approved
        <3>3. status = "rejected" => res \in Resources /\ provider[res] = "rejected"
            BY <1>4
        <3>4. c.op \in {"webhook", "late"} => res \in Resources
            BY <1>4
        <3> HIDE DEF Told
        <3> QED BY <1>2, <3>1, <3>2, <3>3, <3>4 DEF CallOK
    <2>3. PICK d : d = Told(c, res, status)
        OBVIOUS
    <2>4. CallOK(d)'
        BY <1>3, <2>2, <2>3, CallSame
    <2> QED BY <1>3, <1>4, <2>1, <2>3, <2>4, MoveKeeps
<1>5. CASE FetchNotification(r)
    <2>1. c.res \in Resources /\ provider[c.res] \in GatewayStatuses
        BY <1>1, <1>2, <1>5 DEF FetchNotification, Calls, PInv, TypeOK
    <2>2. Go(r, Told(c, c.res, provider[c.res]))
        BY <1>1, <1>5 DEF FetchNotification
    <2>3. c.res # NoResource
        BY <1>1, <1>5 DEF FetchNotification
    <2> QED BY <1>4, <2>1, <2>2, <2>3
<1>6. CASE FetchByExternalReference(r)
    <2>1. c.op \notin {"webhook", "late"}
        BY <1>1, <1>2, <1>6, SettlementAssumption DEF FetchByExternalReference, CallOK
    <2>2. CASE Go(r, Told(c, NoResource, "none"))
        <3>1. NoResource \in Resources \cup {NoResource} /\ "none" \in GatewayStatuses
            BY DEF GatewayStatuses
        <3> QED BY <1>4, <2>1, <2>2, <3>1, SettlementAssumption
    <2>3. ASSUME NEW res \in Best, Go(r, Told(c, res, provider[res]))
          PROVE  PInv'
        <3>1. res \in Resources /\ provider[res] \in GatewayStatuses
            BY DEF Best, Attempts, PInv, TypeOK
        <3> QED BY <1>4, <2>3, <3>1, SettlementAssumption
    <2> QED BY <1>1, <1>6, <2>2, <2>3 DEF FetchByExternalReference
<1> QED BY <1>5, <1>6

LEMMA ReadForWebhookKeeps ==
    ASSUME PInv, NEW r \in Requests, ReadForWebhook(r)
    PROVE  PInv'
<1>1. PICK c : c = calls[r]
    OBVIOUS
<1>2. PICK p : p = payment
    OBVIOUS
<1>3. c \in Calls /\ CallOK(c) /\ c.stage = "read" /\ c.op = "webhook"
    BY <1>1, BusyCall DEF ReadForWebhook, At
<1>4. c.res \in Resources /\ c.saw \in GatewayStatuses /\ p \in PaymentRows
    BY <1>2, <1>3 DEF CallOK, Calls, PInv, TypeOK
<1>5. UNCHANGED <<serviceVars, payment, age, outside, records, confirmed, fails>>
    BY DEF ReadForWebhook
<1> DEFINE copy == Attached(p, c.res, c.saw)
<1>6. copy \in PaymentRows /\ copy.status = p.status
    BY <1>4, RowTypes
<1>7. /\ p.status \in {"held", "released"} => Backed
      /\ p.status = "released" => rows[Order].status = "completed"
    BY <1>2 DEF PInv, NothingHeldWithoutApproval, ReleasedAfterCompletion, Backed
<1>8. ASSUME NEW row \in PaymentRows, NEW op \in {"webhook", "late"},
             Go(r, [c EXCEPT !.stage = "save", !.op = op, !.copy = row]), lock' = lock,
             row.status \in {"held", "released"} => Backed,
             row.status = "released" => p.status = "released"
      PROVE  PInv'
    <2>1. PICK d : d = [c EXCEPT !.stage = "save", !.op = op, !.copy = row]
        OBVIOUS
    <2>2. d \in Calls
        BY <1>3, <2>1 DEF Calls, Stages, Operations
    <2>3. /\ d.stage = "save" /\ d.op = op /\ d.copy = row
          /\ d.res = c.res /\ d.saw = c.saw
        BY <1>3, <2>1 DEF Calls
    <2>4. CallOK(d)
        BY <1>3, <1>4, <1>7, <1>8, <2>3 DEF CallOK
    <2>5. CallOK(d)'
        BY <1>5, <2>4, CallSame
    <2> QED BY <1>5, <1>8, <2>1, <2>2, <2>5, MoveKeeps
<1>9. ASSUME Finish(r) PROVE PInv'
    BY <1>5, <1>9, FinishKeeps
<1>10. c.saw = "approved" => Backed
    BY <1>3 DEF CallOK, Backed
<1> HIDE DEF copy
<1>11. CASE Go(r, [c EXCEPT !.stage = "save", !.op = "late", !.copy = copy]) /\ lock' = lock
    BY <1>6, <1>7, <1>8, <1>11
<1>12. CASE Go(r, [c EXCEPT !.stage = "save", !.op = "webhook", !.copy = copy]) /\ lock' = lock
    BY <1>6, <1>7, <1>8, <1>12
<1>13. CASE /\ Resolution(c.saw) = "confirm"
            /\ Go(r, [c EXCEPT !.stage = "save", !.op = "webhook", !.copy = Confirmed(copy)])
            /\ lock' = lock
    <2>1. c.saw = "approved"
        BY <1>4, <1>13 DEF Resolution, GatewayStatuses
    <2>2. /\ Confirmed(copy) \in PaymentRows
          /\ Confirmed(copy).status = "released" => p.status = "released"
        BY <1>6, RowTypes
    <2> QED BY <1>4, <1>6, <1>8, <1>10, <1>13, <2>1, <2>2, RowTypes
<1>14. CASE /\ Go(r, [c EXCEPT !.stage = "save", !.op = "webhook", !.copy = Failed(copy)])
            /\ lock' = lock
    <2>1. Failed(copy) \in PaymentRows /\ Failed(copy).status = "failed"
        BY <1>6, RowTypes
    <2> QED BY <1>8, <1>14, <2>1
<1> QED BY <1>1, <1>2, <1>9, <1>11, <1>12, <1>13, <1>14 DEF ReadForWebhook, copy

LEMMA ReadForReconcileKeeps ==
    ASSUME PInv, NEW r \in Requests, ReadForReconcile(r)
    PROVE  PInv'
<1>1. PICK c : c = calls[r]
    OBVIOUS
<1>2. PICK p : p = payment
    OBVIOUS
<1>3. c \in Calls /\ CallOK(c) /\ c.stage = "read" /\ c.op = "reconcile"
    BY <1>1, BusyCall DEF ReadForReconcile, At
<1>4. c.res \in Resources \cup {NoResource} /\ c.saw \in GatewayStatuses /\ p \in PaymentRows
    BY <1>2, <1>3 DEF Calls, PInv, TypeOK
<1>5. UNCHANGED <<serviceVars, payment, age, outside, records, confirmed, fails>>
    BY DEF ReadForReconcile
<1> DEFINE copy == Attached(p, c.res, c.saw)
<1>6. copy \in PaymentRows /\ copy.status = p.status
    BY <1>4, RowTypes
<1>7. /\ p.status \in {"held", "released"} => Backed
      /\ p.status = "released" => rows[Order].status = "completed"
    BY <1>2 DEF PInv, NothingHeldWithoutApproval, ReleasedAfterCompletion, Backed
<1>8. ASSUME NEW row \in PaymentRows, NEW stage \in {"save", "pay", "clear"},
             Go(r, [c EXCEPT !.stage = stage, !.copy = row]), lock' = lock,
             stage = "pay" => Backed,
             row.status \in {"held", "released"} => Backed,
             row.status = "released" => p.status = "released"
      PROVE  PInv'
    <2>1. PICK d : d = [c EXCEPT !.stage = stage, !.copy = row]
        OBVIOUS
    <2>2. d \in Calls
        BY <1>3, <2>1 DEF Calls, Stages
    <2>3. /\ d.stage = stage /\ d.op = "reconcile" /\ d.copy = row
          /\ d.res = c.res /\ d.saw = c.saw
        BY <1>3, <2>1 DEF Calls
    <2>4. CallOK(d)
        BY <1>3, <1>4, <1>7, <1>8, <2>3 DEF CallOK
    <2>5. CallOK(d)'
        BY <1>5, <2>4, CallSame
    <2> QED BY <1>5, <1>8, <2>1, <2>2, <2>5, MoveKeeps
<1>9. ASSUME Finish(r) PROVE PInv'
    BY <1>5, <1>9, FinishKeeps
<1> HIDE DEF copy
<1>10. CASE Go(r, [c EXCEPT !.stage = "clear", !.copy = Failed(p)]) /\ lock' = lock
    <2>1. Failed(p) \in PaymentRows /\ Failed(p).status = "failed"
        BY <1>4, RowTypes
    <2> QED BY <1>8, <1>10, <2>1
<1>11. CASE Go(r, [c EXCEPT !.stage = "save", !.copy = copy]) /\ lock' = lock
    BY <1>6, <1>7, <1>8, <1>11
<1>12. CASE /\ Resolution(c.saw) = "confirm"
            /\ Go(r, [c EXCEPT !.stage = "pay", !.copy = Confirmed(copy)])
            /\ lock' = lock
    <2>1. c.saw = "approved"
        BY <1>4, <1>12 DEF Resolution, GatewayStatuses
    <2>2. Backed
        BY <1>3, <2>1 DEF CallOK, Backed
    <2>3. /\ Confirmed(copy) \in PaymentRows
          /\ Confirmed(copy).status = "released" => p.status = "released"
        BY <1>6, RowTypes
    <2> QED BY <1>8, <1>12, <2>2, <2>3
<1>13. CASE Go(r, [c EXCEPT !.stage = "clear", !.copy = Failed(copy)]) /\ lock' = lock
    <2>1. Failed(copy) \in PaymentRows /\ Failed(copy).status = "failed"
        BY <1>6, RowTypes
    <2> QED BY <1>8, <1>13, <2>1
<1> QED BY <1>1, <1>2, <1>9, <1>10, <1>11, <1>12, <1>13 DEF ReadForReconcile, copy

LEMMA ReadOrderStatusKeeps ==
    ASSUME PInv, NEW r \in Requests, ReadOrderStatus(r)
    PROVE  PInv'
<1>1. PICK c : c = calls[r]
    OBVIOUS
<1>2. c \in Calls /\ CallOK(c) /\ c.stage = "order" /\ c.copy \in PaymentRows
    BY <1>1, BusyCall DEF ReadOrderStatus, At, Calls
<1>3. UNCHANGED <<serviceVars, payment, age, outside, records, confirmed, fails>>
    BY DEF ReadOrderStatus
<1>4. ASSUME Finish(r) PROVE PInv'
    BY <1>3, <1>4, FinishKeeps
<1>5. ASSUME NEW row \in PaymentRows, c.op \in {"resume", "release"},
             Go(r, [c EXCEPT !.stage = "save", !.copy = row]), lock' = lock,
             row.status \in {"held", "released"} => Backed,
             row.status = "released" => rows[Order].status = "completed"
      PROVE  PInv'
    <2>1. PICK d : d = [c EXCEPT !.stage = "save", !.copy = row]
        OBVIOUS
    <2>2. d \in Calls
        BY <1>2, <2>1 DEF Calls, Stages
    <2>3. /\ d.stage = "save" /\ d.op = c.op /\ d.copy = row
          /\ d.res = c.res /\ d.saw = c.saw
        BY <1>2, <2>1 DEF Calls
    <2>4. CallOK(d)
        BY <1>2, <1>5, <2>3 DEF CallOK
    <2>5. CallOK(d)'
        BY <1>3, <2>4, CallSame
    <2> QED BY <1>3, <1>5, <2>1, <2>2, <2>5, MoveKeeps
<1>6. CASE c.op = "resume" /\ Go(r, [c EXCEPT !.stage = "save"]) /\ lock' = lock
    <2>1. [c EXCEPT !.stage = "save"] = [c EXCEPT !.stage = "save", !.copy = c.copy]
        BY <1>2 DEF Calls
    <2>2. /\ c.copy.status \in {"held", "released"} => Backed
          /\ c.copy.status = "released" => rows[Order].status = "completed"
        BY <1>2 DEF CallOK
    <2>3. Go(r, [c EXCEPT !.stage = "save", !.copy = c.copy])
        BY <1>6, <2>1
    <2> QED BY <1>2, <1>5, <1>6, <2>2, <2>3
<1>7. CASE /\ c.op = "release" /\ MayRelease(c.copy, rows[Order].status)
           /\ Go(r, [c EXCEPT !.stage = "save", !.copy = Released(c.copy)]) /\ lock' = lock
    <2>1. c.copy.status \in {"held", "released"}
        BY <1>7 DEF MayRelease, CanMove
    <2>2. Backed
        BY <1>2, <2>1 DEF CallOK
    <2>3. rows[Order].status = "completed"
        BY <1>2, <1>7 DEF MayRelease, CallOK
    <2>4. Released(c.copy) \in PaymentRows
        BY <1>2, RowTypes
    <2> QED BY <1>5, <1>7, <2>2, <2>3, <2>4
<1>8. [c EXCEPT !.stage = "save", !.copy = Released(@)]
            = [c EXCEPT !.stage = "save", !.copy = Released(c.copy)]
    BY <1>2 DEF Calls
<1>9. \/ c.op = "resume" /\ Go(r, [c EXCEPT !.stage = "save"]) /\ lock' = lock
      \/ /\ c.op = "release" /\ MayRelease(c.copy, rows[Order].status)
         /\ Go(r, [c EXCEPT !.stage = "save", !.copy = Released(@)]) /\ lock' = lock
      \/ Finish(r)
    BY <1>1 DEF ReadOrderStatus
<1>10. CASE /\ c.op = "release" /\ MayRelease(c.copy, rows[Order].status)
            /\ Go(r, [c EXCEPT !.stage = "save", !.copy = Released(@)]) /\ lock' = lock
    BY <1>7, <1>8, <1>10
<1> QED BY <1>4, <1>6, <1>9, <1>10

-------------------------------------------------------------------------------
(* The steps that write a table. *)

\* What every use case of the orders module does to the row of the order: it gives
\* none back to "awaiting_payment" and takes none out of "completed".
OrderStep ==
    /\ rows' \in [Orders -> Rows] /\ rejected' \in [Orders -> SUBSET Boosters]
    /\ rows[Order].status = "completed" => rows'[Order].status = "completed"
    /\ rows[Order].status # "awaiting_payment" => rows'[Order].status # "awaiting_payment"

LEMMA WriteIsStep ==
    ASSUME PInv, NEW row \in Rows, Write(Order, row),
           rejected' \in [Orders -> SUBSET Boosters],
           rows[Order].status = "completed" => row.status = "completed",
           rows[Order].status # "awaiting_payment" => row.status # "awaiting_payment"
    PROVE  OrderStep /\ rows'[Order] = row
BY SettlementAssumption DEF Write, OrderStep, PInv, TypeOK

LEMMA RowOfOrder == PInv => rows[Order] \in Rows /\ rejected \in [Orders -> SUBSET Boosters]
BY SettlementAssumption DEF PInv, TypeOK

LEMMA PayIsStep ==
    ASSUME PInv, ServicePay(Order)
    PROVE  OrderStep
<1>1. PICK row : row = rows[Order]
    OBVIOUS
<1>2. row \in Rows /\ row.status = "awaiting_payment"
    BY <1>1, RowOfOrder DEF ServicePay, MayConfirmPayment
<1>3. PaymentConfirmed(row) \in Rows /\ PaymentConfirmed(row).status = "pending_booster"
    BY <1>2 DEF PaymentConfirmed, Rows, OrderStatus
<1> QED BY <1>1, <1>2, <1>3, RowOfOrder, WriteIsStep DEF ServicePay

LEMMA ClearIsStep ==
    ASSUME PInv, ServiceClearCredentials(Order)
    PROVE  OrderStep /\ rows'[Order].status = rows[Order].status
<1>1. PICK row : row = rows[Order]
    OBVIOUS
<1>2. row \in Rows
    BY <1>1, RowOfOrder
<1>3. ClearedCredentials(row) \in Rows /\ ClearedCredentials(row).status = row.status
    BY <1>2 DEF ClearedCredentials, Rows
<1> QED BY <1>1, <1>3, RowOfOrder, WriteIsStep DEF ServiceClearCredentials

LEMMA OthersAreSteps ==
    ASSUME PInv, OrderMoves
    PROVE  OrderStep /\ (rows'[Order].status \in PaidStatuses => rows[Order].status \in PaidStatuses)
<1>1. PICK row : row = rows[Order]
    OBVIOUS
<1>2. row \in Rows /\ rejected \in [Orders -> SUBSET Boosters]
    BY <1>1, RowOfOrder
<1>3. CASE ServiceCancel(Order)
    <2>1. Cancelled(row) \in Rows /\ Cancelled(row).status = "cancelled"
        BY <1>2 DEF Cancelled, ClearedCredentials, Rows, OrderStatus
    <2>2. row.status # "completed"
        BY <1>1, <1>3 DEF ServiceCancel, MayCancel
    <2> QED BY <1>1, <1>2, <1>3, <2>1, <2>2, WriteIsStep DEF ServiceCancel, PaidStatuses
<1>4. CASE ServiceStoreCredentials(Order)
    <2>1. CredentialsStored(row) \in Rows /\ CredentialsStored(row).status = row.status
        BY <1>2 DEF CredentialsStored, Rows
    <2> QED BY <1>1, <1>2, <1>4, <2>1, WriteIsStep DEF ServiceStoreCredentials
<1>5. ASSUME NEW b \in Boosters, ServiceAccept(Order, b)
      PROVE  OrderStep /\ (rows'[Order].status \in PaidStatuses => rows[Order].status \in PaidStatuses)
    <2>1. Accepted(row, b) \in Rows /\ Accepted(row, b).status = "in_progress"
        BY <1>2 DEF Accepted, Rows, OrderStatus
    <2>2. row.status = "pending_booster"
        BY <1>1, <1>2, <1>5
           DEF ServiceAccept, MayAccept, CanTransition, AllowedTransitions, Rows, OrderStatus
    <2> QED BY <1>1, <1>2, <1>5, <2>1, <2>2, WriteIsStep DEF ServiceAccept, PaidStatuses
<1>6. ASSUME NEW b \in Boosters, ServiceReject(Order, b)
      PROVE  OrderStep /\ (rows'[Order].status \in PaidStatuses => rows[Order].status \in PaidStatuses)
    <2>1. Rejected(row, b) \in Rows /\ Rejected(row, b).status = row.status
        BY <1>2 DEF Rejected, Rows
    <2>2. [rejected EXCEPT ![Order] = @ \cup {b}] \in [Orders -> SUBSET Boosters]
        BY <1>2, SettlementAssumption
    <2> QED BY <1>1, <1>2, <1>6, <2>1, <2>2, WriteIsStep DEF ServiceReject
<1>7. ASSUME NEW b \in Boosters, ServiceComplete(Order, b)
      PROVE  OrderStep /\ (rows'[Order].status \in PaidStatuses => rows[Order].status \in PaidStatuses)
    <2>1. Completed(row) \in Rows /\ Completed(row).status = "completed"
        BY <1>2 DEF Completed, ClearedCredentials, Rows, OrderStatus
    <2>2. row.status = "in_progress"
        BY <1>1, <1>2, <1>7
           DEF ServiceComplete, MayComplete, CanTransition, AllowedTransitions, Rows, OrderStatus
    <2> QED BY <1>1, <1>2, <1>7, <2>1, <2>2, WriteIsStep DEF ServiceComplete, PaidStatuses
<1> QED BY <1>3, <1>4, <1>5, <1>6, <1>7 DEF OrderMoves

\* The remaining variables have their types if they move as they do.
LEMMA WriteKeeps ==
    ASSUME PInv, NEW r \in Requests, NEW d \in Calls \cup {Idle}, Go(r, d),
           d # Idle => CallOK(d)',
           OrderStep, payment' \in PaymentRows, unanswered' \subseteq Resources,
           UNCHANGED <<age, provider, lost, records, confirmed, fails>>,
           lock' = lock \/ lock' = lock \ {r},
           NothingHeldWithoutApproval', ReleasedAfterCompletion'
    PROVE  PInv'
<1>1. Monotone
    BY DEF Monotone, OrderStep, Approved, records
<1>2. lock' \in {{}} \cup {{q} : q \in Requests}
    BY LockType DEF PInv, TypeOK
<1>3. calls' \in [Requests -> Calls \cup {Idle}]
    BY DEF PInv, TypeOK, Go
<1>4. TypeOK'
    BY <1>2, <1>3 DEF PInv, TypeOK, OrderStep, records
<1>5. \A q \in Requests : Busy(q)' => calls'[q] = calls[q] \/ CallOK(calls[q])'
    <2> TAKE q \in Requests
    <2>1. CASE q = r
        <3>1. calls'[q] = d
            BY <2>1 DEF PInv, TypeOK, Go
        <3> QED BY <3>1 DEF Busy
    <2>2. CASE q # r
        BY <2>2 DEF PInv, TypeOK, Go
    <2> QED BY <2>1, <2>2
<1>6. processed' = processed
    BY DEF records
<1> QED BY <1>1, <1>4, <1>5, <1>6, StepKeeps

LEMMA SavePaymentKeeps ==
    ASSUME PInv, NEW r \in Requests, SavePayment(r)
    PROVE  PInv'
<1>1. PICK c : c = calls[r]
    OBVIOUS
<1>2. /\ c \in Calls /\ CallOK(c) /\ c.copy \in PaymentRows /\ c.saw \in GatewayStatuses
      /\ c.res \in Resources \cup {NoResource}
    BY <1>1, BusyCall DEF SavePayment, At, Calls
<1>3. /\ payment' = c.copy
      /\ UNCHANGED <<serviceVars, age, provider, lost, records, confirmed, fails>>
      /\ unanswered' \in {unanswered, unanswered \ {c.res}}
    BY <1>1 DEF SavePayment, Answer
<1>4. OrderStep /\ unanswered' \subseteq Resources
    BY <1>3 DEF OrderStep, serviceVars, PInv, TypeOK
<1>5. Backed => Backed'
    BY <1>3 DEF Backed, Approved
<1>6. NothingHeldWithoutApproval' /\ ReleasedAfterCompletion'
    <2>1. rows'[Order] = rows[Order]
        BY <1>3 DEF serviceVars
    <2>2. rows[Order].status \in PaidStatuses => Backed
        BY DEF PInv, NothingHeldWithoutApproval, Backed
    <2>3. /\ c.copy.status \in {"held", "released"} => Backed
          /\ c.copy.status = "released" => rows[Order].status = "completed"
        BY <1>2 DEF CallOK
    <2> QED BY <1>3, <1>5, <2>1, <2>2, <2>3
            DEF NothingHeldWithoutApproval, ReleasedAfterCompletion, Backed
<1>7. CASE Finish(r)
    BY <1>2, <1>3, <1>4, <1>6, <1>7, WriteKeeps DEF Finish
<1>8. CASE /\ AfterSave(c) # "end"
           /\ Go(r, [c EXCEPT !.stage = AfterSave(c)]) /\ lock' = lock
    <2>1. PICK d : d = [c EXCEPT !.stage = AfterSave(c)]
        OBVIOUS
    <2>2. /\ AfterSave(c) \in {"pay", "clear", "late"}
          /\ AfterSave(c) = "pay" => c.op = "confirm" \/ c.saw = "approved"
          /\ AfterSave(c) = "clear" /\ c.op = "webhook" => c.saw = "rejected"
          /\ AfterSave(c) = "late" => c.op = "late"
        BY <1>2, <1>8 DEF AfterSave, Resolution, GatewayStatuses
    <2>3. PICK next \in {"pay", "clear", "late"} : next = AfterSave(c)
        BY <2>2
    <2>4. d \in Calls
        BY <1>2, <2>1, <2>3 DEF Calls, Stages
    <2>5. d.stage = next /\ d.op = c.op /\ d.copy = c.copy /\ d.res = c.res /\ d.saw = c.saw
        BY <1>2, <2>1, <2>3 DEF Calls
    <2>6. next = "pay" => Backed
        BY <1>2, <2>2, <2>3 DEF CallOK, Backed
    <2> HIDE DEF AfterSave
    <2>7. CallOK(d)
        BY <1>2, <2>2, <2>3, <2>5, <2>6 DEF CallOK
    <2>8. CallOK(d)'
        BY <1>3, <2>7 DEF CallOK, Backed, Settled, Approved, serviceVars, records
    <2> QED BY <1>2, <1>3, <1>4, <1>6, <1>8, <2>1, <2>4, <2>8, WriteKeeps
<1> QED BY <1>1, <1>7, <1>8 DEF SavePayment

\* After a call to the orders module a handler ends, writes its payment, or is left
\* with the key of its webhook.
LEMMA AfterOrderKeeps ==
    ASSUME PInv, NEW r \in Requests, NEW c \in Calls, c = calls[r], CallOK(c), AfterOrder(r),
           OrderStep, UNCHANGED <<payment, age, outside, records, confirmed, fails>>,
           c.op = "webhook" => Settled(c.res)',
           NothingHeldWithoutApproval', ReleasedAfterCompletion'
    PROVE  PInv'
<1>1. payment' \in PaymentRows /\ unanswered' \subseteq Resources
    BY DEF PInv, TypeOK, outside
<1>2. UNCHANGED <<age, provider, lost, records, confirmed, fails>>
    BY DEF outside
<1>3. CASE Finish(r)
    BY <1>1, <1>2, <1>3, WriteKeeps DEF Finish
<1>4. ASSUME NEW stage \in {"mark", "save"}, Go(r, [c EXCEPT !.stage = stage]), lock' = lock,
             stage = "mark" => c.op = "webhook"
      PROVE  PInv'
    <2>1. PICK d : d = [c EXCEPT !.stage = stage]
        OBVIOUS
    <2>2. d \in Calls
        BY <2>1 DEF Calls, Stages
    <2>3. d.stage = stage /\ d.op = c.op /\ d.copy = c.copy /\ d.res = c.res /\ d.saw = c.saw
        BY <2>1 DEF Calls
    <2>4. Monotone
        BY DEF Monotone, OrderStep, Approved, outside, records
    <2>5. CallOK(c)'
        BY <2>4, CallStays
    <2>6. stage = "mark" => d.res \in Resources /\ Settled(d.res)'
        BY <1>4, <2>3 DEF CallOK
    <2>7. CallOK(d)'
        BY <2>3, <2>5, <2>6 DEF CallOK, Settled
    <2> QED BY <1>1, <1>2, <1>4, <2>1, <2>2, <2>7, WriteKeeps
<1> QED BY <1>3, <1>4 DEF AfterOrder

LEMMA MarkAsPaidKeeps ==
    ASSUME PInv, NEW r \in Requests, MarkAsPaid(r)
    PROVE  PInv'
<1>1. PICK c : c = calls[r]
    OBVIOUS
<1>2. c \in Calls /\ CallOK(c) /\ c.stage = "pay"
    BY <1>1, BusyCall DEF MarkAsPaid, At
<1>3. UNCHANGED <<payment, age, outside, records, confirmed, fails>> /\ AfterOrder(r)
    BY DEF MarkAsPaid
<1>4. OrderStep /\ rows'[Order].status # "awaiting_payment"
    <2>1. CASE ServicePay(Order)
        <3>1. rows'[Order].status = "pending_booster"
            <4>1. PICK row : row = rows[Order]
                OBVIOUS
            <4>2. row \in Rows /\ rows' = [rows EXCEPT ![Order] = PaymentConfirmed(row)]
                BY <2>1, <4>1, RowOfOrder DEF ServicePay, Write
            <4>3. PaymentConfirmed(row).status = "pending_booster"
                BY <4>2 DEF PaymentConfirmed, Rows
            <4> QED BY <4>2, <4>3, SettlementAssumption DEF PInv, TypeOK
        <3> QED BY <2>1, <3>1, PayIsStep
    <2>2. CASE ~MayConfirmPayment(rows[Order]) /\ UNCHANGED serviceVars
        BY <2>2, RowOfOrder DEF OrderStep, MayConfirmPayment, serviceVars, PInv, TypeOK
    <2> QED BY <2>1, <2>2 DEF MarkAsPaid
<1>5. Backed'
    BY <1>2, <1>3 DEF CallOK, Backed, Approved, outside
<1>6. NothingHeldWithoutApproval' /\ ReleasedAfterCompletion'
    BY <1>3, <1>4, <1>5
       DEF PInv, NothingHeldWithoutApproval, ReleasedAfterCompletion, Backed, OrderStep
<1>7. Settled(c.res)'
    BY <1>4 DEF Settled
<1> QED BY <1>1, <1>2, <1>3, <1>4, <1>6, <1>7, AfterOrderKeeps

LEMMA ClearCredentialsKeeps ==
    ASSUME PInv, NEW r \in Requests, ClearCredentials(r)
    PROVE  PInv'
<1>1. PICK c : c = calls[r]
    OBVIOUS
<1>2. c \in Calls /\ CallOK(c) /\ c.stage = "clear"
    BY <1>1, BusyCall DEF ClearCredentials, At
<1>3. UNCHANGED <<payment, age, outside, records, confirmed, fails>> /\ AfterOrder(r)
    BY DEF ClearCredentials
<1>4. OrderStep /\ rows'[Order].status = rows[Order].status
    BY ClearIsStep DEF ClearCredentials
<1>5. NothingHeldWithoutApproval' /\ ReleasedAfterCompletion'
    BY <1>3, <1>4
       DEF PInv, NothingHeldWithoutApproval, ReleasedAfterCompletion, Approved, outside
<1>6. c.op = "webhook" => Settled(c.res)'
    BY <1>2, <1>3 DEF CallOK, Settled, outside
<1> QED BY <1>1, <1>2, <1>3, <1>4, <1>5, <1>6, AfterOrderKeeps

LEMMA RecordLateApprovalKeeps ==
    ASSUME PInv, NEW r \in Requests, RecordLateApproval(r)
    PROVE  PInv'
<1>1. PICK c : c = calls[r]
    OBVIOUS
<1>2. c \in Calls /\ CallOK(c) /\ c.op = "late" /\ c.res \in Resources
    <2>1. c \in Calls /\ CallOK(c) /\ c.stage = "late"
        BY <1>1, BusyCall DEF RecordLateApproval, At
    <2> QED BY <2>1 DEF CallOK
<1>3. /\ UNCHANGED <<serviceVars, payment, age, outside, lock, processed, confirmed, fails>>
      /\ lateApprovals' = lateApprovals \cup {c.res}
      /\ Go(r, [c EXCEPT !.stage = "mark"])
    BY <1>1 DEF RecordLateApproval
<1>4. PICK d : d = [c EXCEPT !.stage = "mark"]
    OBVIOUS
<1>5. d \in Calls
    BY <1>2, <1>4 DEF Calls, Stages
<1>6. d.stage = "mark" /\ d.op = c.op /\ d.copy = c.copy /\ d.res = c.res /\ d.saw = c.saw
    BY <1>2, <1>4 DEF Calls
<1>7. CallOK(c)'
    <2>1. Monotone
        BY <1>3 DEF Monotone, Approved, serviceVars, outside
    <2> QED BY <1>2, <2>1, CallStays
<1>8. Settled(d.res)' /\ d.res \in Resources
    BY <1>2, <1>3, <1>6 DEF Settled
<1>9. CallOK(d)'
    BY <1>6, <1>7, <1>8 DEF CallOK
<1>10. /\ UNCHANGED <<serviceVars, payment, age, provider, lost>>
       /\ unanswered' \subseteq Resources /\ lock' \in {{}} \cup {{q} : q \in Requests}
       /\ confirmed' \in BOOLEAN /\ confirmed' = confirmed
       /\ lateApprovals \subseteq lateApprovals' /\ lateApprovals' \subseteq Resources
       /\ processed' = processed /\ processed' \subseteq Resources /\ fails' \in 0 .. MaxFails
    BY <1>2, <1>3 DEF PInv, TypeOK, outside
<1> QED BY <1>3, <1>4, <1>5, <1>9, <1>10, GoKeeps

LEMMA MarkProcessedKeeps ==
    ASSUME PInv, NEW r \in Requests, MarkProcessed(r)
    PROVE  PInv'
<1>1. PICK c : c = calls[r]
    OBVIOUS
<1>2. c.res \in Resources /\ Settled(c.res)
    <2>1. CallOK(c) /\ c.stage = "mark"
        BY <1>1, BusyCall DEF MarkProcessed, At
    <2> QED BY <2>1 DEF CallOK
<1>3. /\ UNCHANGED <<serviceVars, payment, age, provider, lost, lateApprovals, confirmed, fails>>
      /\ processed' = processed \cup {c.res}
      /\ unanswered' \in {unanswered, unanswered \ {c.res}}
      /\ Go(r, Idle) /\ lock' = lock \ {r}
    BY <1>1 DEF MarkProcessed, Answer, Finish
<1>4. \A res \in processed' : res \in processed \/ Settled(res)'
    BY <1>2, <1>3 DEF Settled, serviceVars
<1>5. lock' \in {{}} \cup {{q} : q \in Requests}
    BY <1>3, LockType
<1>6. /\ UNCHANGED <<serviceVars, payment, age, provider, lost>>
      /\ unanswered' \subseteq Resources
      /\ confirmed' \in BOOLEAN /\ confirmed' = confirmed
      /\ lateApprovals' = lateApprovals /\ lateApprovals' \subseteq Resources
      /\ processed' \subseteq Resources /\ fails' \in 0 .. MaxFails
    BY <1>2, <1>3 DEF PInv, TypeOK
<1> QED BY <1>3, <1>4, <1>5, <1>6, GoKeeps

LEMMA FailKeeps ==
    ASSUME PInv, NEW r \in Requests, Fail(r)
    PROVE  PInv'
<1>1. lock' \in {{}} \cup {{q} : q \in Requests}
    BY LockType DEF Fail, Finish
<1>2. fails' \in 0 .. MaxFails
    BY SettlementAssumption DEF Fail, PInv, TypeOK
<1>3. /\ Go(r, Idle)
      /\ UNCHANGED <<serviceVars, payment, age, provider, lost, confirmed, lateApprovals, processed>>
      /\ unanswered' \subseteq Resources
      /\ confirmed' \in BOOLEAN
      /\ lateApprovals' \subseteq Resources
      /\ processed' \subseteq Resources
    BY DEF Fail, Finish, outside, records, PInv, TypeOK
<1> QED BY <1>1, <1>2, <1>3, GoKeeps

-------------------------------------------------------------------------------
(* The steps that are no handler's. *)

LEMMA ProviderKeeps ==
    ASSUME PInv, NEW res \in Resources, NEW status \in GatewayStatuses, ProviderMoves(res, status)
    PROVE  PInv'
<1>1. /\ provider' = [provider EXCEPT ![res] = status]
      /\ UNCHANGED <<serviceVars, payment, age, lost, calls, lock, records, confirmed, fails>>
      /\ unanswered' = unanswered \cup {res}
      /\ provider[res] # "rejected" /\ provider[res] # "refunded"
      /\ provider[res] = "approved" => status = "refunded"
    BY DEF ProviderMoves
<1>2. provider \in [Resources -> GatewayStatuses]
    BY DEF PInv, TypeOK
<1>3. Approved \subseteq Approved'
    BY <1>1, <1>2 DEF Approved
<1>4. Monotone
    BY <1>1, <1>2, <1>3 DEF Monotone, serviceVars, records
<1>5. TypeOK'
    BY <1>1, <1>2 DEF PInv, TypeOK, serviceVars, records
<1>6. NothingHeldWithoutApproval' /\ ReleasedAfterCompletion'
    BY <1>1, <1>3 DEF PInv, NothingHeldWithoutApproval, ReleasedAfterCompletion, serviceVars
<1>7. \A q \in Requests : Busy(q)' => calls'[q] = calls[q] \/ CallOK(calls[q])'
    BY <1>1
<1>8. \A key \in processed' : key \in processed \/ Settled(key)'
    BY <1>1 DEF records
<1> QED BY <1>4, <1>5, <1>6, <1>7, <1>8, StepKeeps

LEMMA OrderMovesKeeps ==
    ASSUME PInv, OrderMoves
    PROVE  PInv'
<1>1. /\ OrderStep
      /\ rows'[Order].status \in PaidStatuses => rows[Order].status \in PaidStatuses
    BY OthersAreSteps
<1>2. UNCHANGED <<payment, age, provider, unanswered, lost, calls, lock, processed,
                  lateApprovals, confirmed, fails>>
    BY DEF OrderMoves, outside, records
<1>3. Monotone
    BY <1>1, <1>2 DEF Monotone, OrderStep, Approved
<1>4. TypeOK'
    BY <1>1, <1>2 DEF PInv, TypeOK, OrderStep
<1>5. NothingHeldWithoutApproval' /\ ReleasedAfterCompletion'
    BY <1>1, <1>2
       DEF PInv, NothingHeldWithoutApproval, ReleasedAfterCompletion, OrderStep, Approved
<1>6. \A q \in Requests : Busy(q)' => calls'[q] = calls[q] \/ CallOK(calls[q])'
    BY <1>2
<1> QED BY <1>2, <1>3, <1>4, <1>5, <1>6, StepKeeps

\* Only what nothing relies on moves, or nothing at all.
LEMMA RestKeeps ==
    ASSUME PInv,
           \/ \E res \in Resources : SkipProcessed(res) \/ LoseNotification(res)
           \/ LoseLock
           \/ GrowOld
           \/ UNCHANGED settlementVars
    PROVE  PInv'
<1>1. /\ UNCHANGED <<serviceVars, payment, provider, calls, processed, lateApprovals, confirmed>>
      /\ unanswered' \subseteq Resources /\ lost' \subseteq Resources
      /\ age' \in {"fresh", "stale", "expired"}
      /\ lock' = lock \/ lock' = {}
      /\ fails' \in 0 .. MaxFails
    <2>1. /\ unanswered \subseteq Resources /\ lost \subseteq Resources
          /\ age \in {"fresh", "stale", "expired"} /\ fails \in 0 .. MaxFails
        BY DEF PInv, TypeOK
    <2>2. CASE \E res \in Resources : SkipProcessed(res)
        BY <2>1, <2>2 DEF SkipProcessed, records
    <2>3. CASE \E res \in Resources : LoseNotification(res)
        <3>1. fails' \in 0 .. MaxFails
            BY <2>1, <2>3, SettlementAssumption DEF LoseNotification
        <3> QED BY <2>1, <2>3, <3>1 DEF LoseNotification, records
    <2>4. CASE LoseLock
        BY <2>1, <2>4 DEF LoseLock, outside, records
    <2>5. CASE GrowOld
        BY <2>1, <2>5 DEF GrowOld, outside, records
    <2>6. CASE UNCHANGED settlementVars
        BY <2>1, <2>6 DEF settlementVars, outside, records
    <2> QED BY <2>2, <2>3, <2>4, <2>5, <2>6
<1>2. Monotone
    BY <1>1 DEF Monotone, Approved, serviceVars
<1>3. TypeOK'
    BY <1>1 DEF PInv, TypeOK, serviceVars
<1>4. NothingHeldWithoutApproval' /\ ReleasedAfterCompletion'
    BY <1>1 DEF PInv, NothingHeldWithoutApproval, ReleasedAfterCompletion, serviceVars, Approved
<1>5. \A q \in Requests : Busy(q)' => calls'[q] = calls[q] \/ CallOK(calls[q])'
    BY <1>1
<1> QED BY <1>1, <1>2, <1>3, <1>4, <1>5, StepKeeps

LEMMA ProceedKeeps ==
    ASSUME PInv, NEW r \in Requests, Proceed(r)
    PROVE  PInv'
BY FetchKeeps, ReadForWebhookKeeps, ReadForReconcileKeeps, ReadOrderStatusKeeps, SavePaymentKeeps,
   MarkAsPaidKeeps, ClearCredentialsKeeps, RecordLateApprovalKeeps, MarkProcessedKeeps
   DEF Proceed

LEMMA NextKeeps == PInv /\ [Next]_settlementVars => PInv'
<1> SUFFICES ASSUME PInv, [Next]_settlementVars PROVE PInv'
    OBVIOUS
<1>1. ASSUME NEW r \in Requests, BeginCall(r) \/ Proceed(r) \/ Fail(r) PROVE PInv'
    BY <1>1, BeginCallKeeps, ProceedKeeps, FailKeeps
<1>2. ASSUME NEW res \in Resources, NEW status \in GatewayStatuses, ProviderMoves(res, status)
      PROVE  PInv'
    BY <1>2, ProviderKeeps
<1>3. CASE OrderMoves
    BY <1>3, OrderMovesKeeps
<1> QED BY <1>1, <1>2, <1>3, RestKeeps DEF Next

-------------------------------------------------------------------------------
LEMMA Invariance == Spec => []PInv
BY InitPInv, NextKeeps, PTL DEF Spec

\* Every variable keeps its type, and one handler at most holds the advisory lock.
THEOREM TypeCorrect == Spec => []TypeOK
<1>1. PInv => TypeOK
    BY DEF PInv
<1> QED BY <1>1, Invariance, PTL

\* However handlers overlap and fail, no payment is held and no order is offered to
\* the boosters unless the provider approved an attempt or an internal caller did.
THEOREM ApprovalComesFirst == Spec => []NothingHeldWithoutApproval
<1>1. PInv => NothingHeldWithoutApproval
    BY DEF PInv
<1> QED BY <1>1, Invariance, PTL

\* However handlers overlap and fail, a hold is released for a completed order only:
\* no later write takes the order out of "completed".
THEOREM ReleaseComesLast == Spec => []ReleasedAfterCompletion
<1>1. PInv => ReleasedAfterCompletion
    BY DEF PInv
<1> QED BY <1>1, Invariance, PTL

\* However handlers overlap and fail, a notification whose key is stored has done its
\* work: its order knows of the approval, or an admin can see it.
THEOREM ProcessedHasSettled == Spec => []ProcessedIsSettled
<1>1. PInv => ProcessedIsSettled
    BY DEF PInv, Settled, ProcessedIsSettled, Approved
<1> QED BY <1>1, Invariance, PTL

-------------------------------------------------------------------------------
(* The two tables, while nobody reads between the read and the write of    *)
(* another (Serialized).  What one handler at most holds is a copy of the  *)
(* row as it is, and the order is told before or after it is written.      *)
Taken == {"held", "released"}

Holding(c) ==
    \/ c.stage \in {"order", "save"}
    \/ c.stage \in {"pay", "clear"} /\ c.op = "reconcile"

\* What a handler has to do with the row of the payment and the status s of its order.
Fits(c, row, s) ==
    /\ c.stage = "order" => c.op \in {"resume", "release"} /\ c.copy = row
    /\ c.stage = "save" =>
        /\ row.status \in Taken => c.copy.status \in Taken
        /\ AfterSave(c) = "pay" => c.copy.status \in Taken
        /\ c.copy.status = "held" =>
            row.status = "held" \/ AfterSave(c) = "pay" \/ c.op = "reconcile"
    /\ c.stage \in {"pay", "clear", "save"} /\ c.op = "reconcile" =>
        /\ row.status = "awaiting_confirmation"
        /\ c.stage = "pay" => c.copy.status = "held"
        /\ c.stage = "clear" => c.copy.status = "failed"
        /\ c.stage = "save" /\ c.copy.status = "held" => s # "awaiting_payment"
        /\ c.copy.status # "held" => s \notin PaidStatuses
    /\ c.stage = "pay" /\ c.op # "reconcile" => row.status \in Taken

OneHolder == \A q, r \in Requests : Holding(calls[q]) /\ Holding(calls[r]) => q = r
CallsFit == \A r \in Requests : Fits(calls[r], payment, rows[Order].status)
PaidHasMoney ==
    rows[Order].status \in PaidStatuses =>
        payment.status \in Taken \/ \E r \in Requests : At(r, "save") /\ calls[r].op = "reconcile"
MoneyIsTold ==
    payment.status = "held" /\ rows[Order].status = "awaiting_payment" =>
        \E r \in Requests : At(r, "pay")
Agreed == OneHolder /\ CallsFit /\ PaidHasMoney /\ MoneyIsTold

AInv == PInv /\ (fails = 0 => Agreed)

LEMMA InitAInv == Init => AInv
<1> SUFFICES ASSUME Init PROVE AInv
    OBVIOUS
<1>1. rows[Order].status = "awaiting_payment" /\ payment.status = "awaiting_confirmation"
    BY SettlementAssumption DEF Init, ServiceInit, DraftRow
<1>2. \A r \in Requests : calls[r].stage = "idle"
    BY DEF Init, Idle
<1>3. CallsFit /\ OneHolder
    BY <1>2 DEF CallsFit, Fits, OneHolder, Holding
<1> QED BY <1>1, <1>3, InitPInv DEF AInv, Agreed, PaidHasMoney, MoneyIsTold, PaidStatuses

LEMMA HoldersAreHolding == \A r : Holds(r) <=> Holding(calls[r])
BY DEF Holds, Holding

LEMMA NobodyHolds == ASSUME Serialized, MayRead PROVE \A q \in Requests : ~Holding(calls[q])
BY HoldersAreHolding DEF MayRead

\* While nobody is at the end of reconciling a payment that waits, its order is not paid.
LEMMA UnpaidMeanwhile ==
    ASSUME Agreed, payment.status = "awaiting_confirmation", \A q \in Requests : ~Holding(calls[q])
    PROVE  rows[Order].status \notin PaidStatuses
BY DEF Agreed, PaidHasMoney, Taken, At, Holding

LEMMA IdleFits == Idle.stage = "idle" /\ ~Holding(Idle) /\ \A row, s : Fits(Idle, row, s)
BY DEF Idle, Holding, Fits

\* Steps of others do not disturb a handler.
LEMMA StillAgreed ==
    ASSUME Agreed, UNCHANGED <<payment, calls>>,
           rows'[Order].status \in PaidStatuses => rows[Order].status \in PaidStatuses,
           rows[Order].status # "awaiting_payment" => rows'[Order].status # "awaiting_payment"
    PROVE  Agreed'
<1>1. CallsFit'
    <2> SUFFICES ASSUME NEW r \in Requests PROVE Fits(calls[r], payment, rows'[Order].status)
        BY DEF CallsFit
    <2> QED BY DEF Agreed, CallsFit, Fits
<1>2. OneHolder' /\ PaidHasMoney' /\ MoneyIsTold'
    BY DEF Agreed, OneHolder, PaidHasMoney, MoneyIsTold, At
<1> QED BY <1>1, <1>2 DEF Agreed

\* A handler that neither writes the payment nor pays the order.
LEMMA GoAgrees ==
    ASSUME PInv, Agreed, NEW r \in Requests, NEW d, Go(r, d),
           payment' = payment, rows'[Order].status = rows[Order].status,
           calls[r].stage \notin {"save", "pay"},
           Fits(d, payment, rows[Order].status),
           Holding(d) => Holding(calls[r]) \/ \A q \in Requests : ~Holding(calls[q])
    PROVE  Agreed'
<1>1. \A q \in Requests : calls'[q] = IF q = r THEN d ELSE calls[q]
    BY DEF PInv, TypeOK, Go
<1>2. OneHolder'
    BY <1>1 DEF Agreed, OneHolder
<1>3. CallsFit'
    BY <1>1 DEF Agreed, CallsFit
<1>4. PaidHasMoney' /\ MoneyIsTold'
    BY <1>1 DEF Agreed, PaidHasMoney, MoneyIsTold, At
<1> QED BY <1>2, <1>3, <1>4 DEF Agreed

LEMMA BeginAgrees ==
    ASSUME Serialized, PInv, Agreed, NEW r \in Requests, BeginCall(r)
    PROVE  Agreed'
<1> DEFINE New(stage, op, res, copy) ==
        [stage |-> stage, op |-> op, res |-> res, saw |-> "none", copy |-> copy]
<1>1. ASSUME NEW stage, NEW op, NEW res, NEW copy, Begin(r, stage, op, res, copy),
             stage \notin {"pay", "clear"},
             Fits(New(stage, op, res, copy), payment, rows[Order].status),
             stage = "fetch" \/ MayRead
      PROVE  Agreed'
    <2>1. PICK d : d = New(stage, op, res, copy)
        OBVIOUS
    <2>2. Go(r, d) /\ calls[r].stage = "idle" /\ UNCHANGED <<payment, rows>>
        BY <1>1, <2>1 DEF Begin, Busy, Idle, serviceVars
    <2>3. Holding(d) => \A q \in Requests : ~Holding(calls[q])
        BY <1>1, <2>1, NobodyHolds DEF Holding
    <2> HIDE DEF New
    <2> QED BY <1>1, <2>1, <2>2, <2>3, GoAgrees
<1>2. payment \in PaymentRows
    BY DEF PInv, TypeOK
<1>3. ASSUME NEW res \in Resources, BeginWebhook(r, res) PROVE Agreed'
    <2>1. Fits(New("fetch", "webhook", res, payment), payment, rows[Order].status)
        BY DEF Fits
    <2> QED BY <1>1, <1>3, <2>1 DEF BeginWebhook
<1>4. CASE BeginReconcile(r)
    <2>1. Fits(New("fetch", "reconcile", payment.gatewayId, payment), payment, rows[Order].status)
        BY DEF Fits
    <2> QED BY <1>1, <1>4, <2>1 DEF BeginReconcile
<1>5. CASE BeginConfirm(r)
    <2>1. Confirmed(payment).status \in Taken
        BY <1>2, RowTypes DEF Taken
    <2>2. Fits(New("save", "confirm", NoResource, Confirmed(payment)), payment, rows[Order].status)
        BY <2>1 DEF Fits, AfterSave
    <2> QED BY <1>1, <1>5, <2>2 DEF BeginConfirm
<1>6. CASE BeginFail(r)
    <2>1. Failed(payment).status = "failed" /\ payment.status \notin Taken
        BY <1>2, <1>6, RowTypes DEF BeginFail, MayFail, CanMove, Taken
    <2>2. Fits(New("save", "fail", NoResource, Failed(payment)), payment, rows[Order].status)
        BY <2>1 DEF Fits, AfterSave
    <2> QED BY <1>1, <1>6, <2>2 DEF BeginFail
<1>7. CASE BeginResume(r)
    <2>1. Fits(New("order", "resume", NoResource, payment), payment, rows[Order].status)
        BY DEF Fits
    <2> QED BY <1>1, <1>7, <2>1 DEF BeginResume
<1>8. CASE BeginRelease(r)
    <2>1. Fits(New("order", "release", NoResource, payment), payment, rows[Order].status)
        BY DEF Fits
    <2> QED BY <1>1, <1>8, <2>1 DEF BeginRelease
<1> QED BY <1>3, <1>4, <1>5, <1>6, <1>7, <1>8 DEF BeginCall


\* What GoAgrees needs of a handler that ends.
LEMMA FinishAgrees ==
    ASSUME PInv, Agreed, NEW r \in Requests, Finish(r),
           payment' = payment, rows'[Order].status = rows[Order].status,
           calls[r].stage \notin {"save", "pay"}
    PROVE  Agreed'
<1>1. PICK d : d = Idle
    OBVIOUS
<1> QED BY <1>1, IdleFits, GoAgrees DEF Finish

LEMMA SilentCall ==
    ASSUME NEW d, d.stage \in {"fetch", "read", "late", "mark"}
    PROVE  ~Holding(d) /\ \A row, s : Fits(d, row, s)
BY DEF Holding, Fits

LEMMA FetchAgrees ==
    ASSUME PInv, Agreed, NEW r \in Requests, FetchNotification(r) \/ FetchByExternalReference(r)
    PROVE  Agreed'
<1>1. PICK c : c = calls[r]
    OBVIOUS
<1>2. c \in Calls /\ c.stage = "fetch"
    BY <1>1, BusyCall DEF FetchNotification, FetchByExternalReference, At
<1>3. UNCHANGED <<payment, rows>>
    BY DEF FetchNotification, FetchByExternalReference, serviceVars
<1>4. ASSUME NEW res, NEW status, Go(r, Told(c, res, status)) PROVE Agreed'
    <2>1. PICK d : d = Told(c, res, status)
        OBVIOUS
    <2>2. d.stage = "read"
        BY <1>2, <2>1 DEF Told, Calls
    <2> QED BY <1>1, <1>2, <1>3, <1>4, <2>1, <2>2, SilentCall, GoAgrees
<1> QED BY <1>1, <1>4 DEF FetchNotification, FetchByExternalReference

LEMMA ReadForWebhookAgrees ==
    ASSUME Serialized, PInv, Agreed, NEW r \in Requests, ReadForWebhook(r)
    PROVE  Agreed'
<1>1. PICK c : c = calls[r]
    OBVIOUS
<1>2. PICK p : p = payment
    OBVIOUS
<1>3. c \in Calls /\ c.stage = "read" /\ c.op = "webhook" /\ c.res \in Resources
    <2>1. c \in Calls /\ CallOK(c) /\ c.stage = "read" /\ c.op = "webhook"
        BY <1>1, BusyCall DEF ReadForWebhook, At
    <2> QED BY <2>1 DEF CallOK
<1>4. UNCHANGED <<payment, rows>> /\ \A q \in Requests : ~Holding(calls[q])
    BY NobodyHolds DEF ReadForWebhook, serviceVars
<1> DEFINE copy == Attached(p, c.res, c.saw)
<1>5. p \in PaymentRows /\ copy \in PaymentRows /\ copy.status = p.status
    BY <1>2, <1>3, RowTypes DEF PInv, TypeOK
<1> HIDE DEF copy
<1>6. ASSUME NEW row, NEW op \in {"webhook", "late"},
             Go(r, [c EXCEPT !.stage = "save", !.op = op, !.copy = row]),
             p.status \in Taken => row.status \in Taken,
             op = "webhook" /\ Resolution(c.saw) = "confirm" => row.status \in Taken,
             row.status = "held" => p.status = "held" \/ (op = "webhook" /\ Resolution(c.saw) = "confirm")
      PROVE  Agreed'
    <2>1. PICK d : d = [c EXCEPT !.stage = "save", !.op = op, !.copy = row]
        OBVIOUS
    <2>2. d.stage = "save" /\ d.op = op /\ d.copy = row /\ d.saw = c.saw
        BY <1>3, <2>1 DEF Calls
    <2>3. AfterSave(d) = "pay" <=> op = "webhook" /\ Resolution(c.saw) = "confirm"
        BY <2>2 DEF AfterSave
    <2>4. Fits(d, payment, rows[Order].status)
        BY <1>2, <1>6, <2>2, <2>3 DEF Fits
    <2> QED BY <1>1, <1>3, <1>4, <1>6, <2>1, <2>4, GoAgrees
<1>7. CASE Finish(r)
    BY <1>1, <1>3, <1>4, <1>7, FinishAgrees
<1>8. CASE /\ p.status = "failed"
           /\ Go(r, [c EXCEPT !.stage = "save", !.op = "late", !.copy = copy])
    BY <1>5, <1>6, <1>8
<1>9. CASE /\ Resolution(c.saw) = "confirm"
           /\ Go(r, [c EXCEPT !.stage = "save", !.op = "webhook", !.copy = Confirmed(copy)])
    <2>1. Confirmed(copy).status \in Taken
        BY <1>5, RowTypes DEF Taken
    <2> QED BY <1>6, <1>9, <2>1
<1>10. CASE /\ Resolution(c.saw) = "fail" /\ MayFail(copy)
            /\ Go(r, [c EXCEPT !.stage = "save", !.op = "webhook", !.copy = Failed(copy)])
    <2>1. Failed(copy).status = "failed"
        BY <1>5, RowTypes
    <2>2. p.status \notin Taken
        BY <1>5, <1>10 DEF MayFail, CanMove, Taken
    <2> QED BY <1>6, <1>10, <2>1, <2>2
<1>11. CASE /\ Resolution(c.saw) # "confirm"
            /\ Go(r, [c EXCEPT !.stage = "save", !.op = "webhook", !.copy = copy])
    BY <1>5, <1>6, <1>11
<1> QED BY <1>1, <1>2, <1>7, <1>8, <1>9, <1>10, <1>11 DEF ReadForWebhook, copy

LEMMA ReadForReconcileAgrees ==
    ASSUME Serialized, PInv, Agreed, NEW r \in Requests, ReadForReconcile(r)
    PROVE  Agreed'
<1>1. PICK c : c = calls[r]
    OBVIOUS
<1>2. PICK p : p = payment
    OBVIOUS
<1>3. c \in Calls /\ c.stage = "read" /\ c.op = "reconcile" /\ c.res \in Resources \cup {NoResource}
    BY <1>1, BusyCall DEF ReadForReconcile, At, Calls
<1>4. UNCHANGED <<payment, rows>> /\ \A q \in Requests : ~Holding(calls[q])
    BY NobodyHolds DEF ReadForReconcile, serviceVars
<1> DEFINE copy == Attached(p, c.res, c.saw)
<1>5. p \in PaymentRows /\ copy \in PaymentRows /\ copy.status = p.status
    BY <1>2, <1>3, RowTypes DEF PInv, TypeOK
<1> HIDE DEF copy
<1>6. CASE Finish(r)
    BY <1>1, <1>3, <1>4, <1>6, FinishAgrees
<1>7. ASSUME p.status = "awaiting_confirmation", NEW row, NEW stage \in {"save", "pay", "clear"},
             Go(r, [c EXCEPT !.stage = stage, !.copy = row]),
             stage = "pay" => row.status = "held",
             stage = "clear" => row.status = "failed",
             stage = "save" => row.status = "awaiting_confirmation"
      PROVE  Agreed'
    <2>1. PICK d : d = [c EXCEPT !.stage = stage, !.copy = row]
        OBVIOUS
    <2>2. d.stage = stage /\ d.op = "reconcile" /\ d.copy = row
        BY <1>3, <2>1 DEF Calls
    <2>3. rows[Order].status \notin PaidStatuses
        BY <1>2, <1>4, <1>7, UnpaidMeanwhile
    <2>4. AfterSave(d) # "pay"
        BY <2>2 DEF AfterSave
    <2>5. Fits(d, payment, rows[Order].status)
        BY <1>2, <1>7, <2>2, <2>3, <2>4 DEF Fits, Taken
    <2> QED BY <1>1, <1>3, <1>4, <1>7, <2>1, <2>5, GoAgrees
<1>8. CASE /\ p.status = "awaiting_confirmation"
           /\ \/ Go(r, [c EXCEPT !.stage = "clear", !.copy = Failed(p)])
              \/ Go(r, [c EXCEPT !.stage = "clear", !.copy = Failed(copy)])
    <2>1. Failed(p).status = "failed" /\ Failed(copy).status = "failed"
        BY <1>5, RowTypes
    <2> QED BY <1>7, <1>8, <2>1
<1>9. CASE /\ p.status = "awaiting_confirmation"
           /\ Go(r, [c EXCEPT !.stage = "pay", !.copy = Confirmed(copy)])
    <2>1. Confirmed(copy).status = "held"
        BY <1>5, <1>9, RowTypes
    <2> QED BY <1>7, <1>9, <2>1
<1>10. CASE /\ p.status = "awaiting_confirmation"
            /\ Go(r, [c EXCEPT !.stage = "save", !.copy = copy])
    BY <1>5, <1>7, <1>10
<1> QED BY <1>1, <1>2, <1>6, <1>8, <1>9, <1>10 DEF ReadForReconcile, copy

LEMMA ReadOrderStatusAgrees ==
    ASSUME PInv, Agreed, NEW r \in Requests, ReadOrderStatus(r)
    PROVE  Agreed'
<1>1. PICK c : c = calls[r]
    OBVIOUS
<1>2. c \in Calls /\ c.stage = "order" /\ c.copy \in PaymentRows
    BY <1>1, BusyCall DEF ReadOrderStatus, At, Calls
<1>3. c.copy = payment /\ c.op \in {"resume", "release"} /\ Holding(c)
    BY <1>1, <1>2 DEF Agreed, CallsFit, Fits, Holding
<1>4. UNCHANGED <<payment, rows>>
    BY DEF ReadOrderStatus, serviceVars
<1>5. ASSUME NEW row, Go(r, [c EXCEPT !.stage = "save", !.copy = row]),
             payment.status \in Taken => row.status \in Taken,
             row.status = "held" => payment.status = "held"
      PROVE  Agreed'
    <2>1. PICK d : d = [c EXCEPT !.stage = "save", !.copy = row]
        OBVIOUS
    <2>2. d.stage = "save" /\ d.op = c.op /\ d.copy = row
        BY <1>2, <2>1 DEF Calls
    <2>3. AfterSave(d) # "pay"
        BY <1>3, <2>2 DEF AfterSave
    <2>4. Fits(d, payment, rows[Order].status)
        BY <1>3, <1>5, <2>2, <2>3 DEF Fits
    <2> QED BY <1>1, <1>2, <1>3, <1>4, <1>5, <2>1, <2>4, GoAgrees
<1>6. CASE Finish(r)
    BY <1>1, <1>2, <1>4, <1>6, FinishAgrees
<1>7. CASE Go(r, [c EXCEPT !.stage = "save"])
    <2>1. [c EXCEPT !.stage = "save"] = [c EXCEPT !.stage = "save", !.copy = c.copy]
        BY <1>2 DEF Calls
    <2> QED BY <1>3, <1>5, <1>7, <2>1
<1>8. CASE Go(r, [c EXCEPT !.stage = "save", !.copy = Released(@)])
    <2>1. [c EXCEPT !.stage = "save", !.copy = Released(@)]
            = [c EXCEPT !.stage = "save", !.copy = Released(c.copy)]
        BY <1>2 DEF Calls
    <2>2. Released(c.copy).status = "released"
        BY <1>2, RowTypes
    <2> QED BY <1>5, <1>8, <2>1, <2>2 DEF Taken
<1> QED BY <1>1, <1>6, <1>7, <1>8 DEF ReadOrderStatus

\* The writer is the only one who holds, and its copy says what was agreed.
LEMMA SavePaymentAgrees ==
    ASSUME PInv, Agreed, NEW r \in Requests, SavePayment(r)
    PROVE  Agreed'
<1>1. PICK c : c = calls[r]
    OBVIOUS
<1>2. c \in Calls /\ c.stage = "save" /\ Holding(c)
    BY <1>1, BusyCall DEF SavePayment, At, Holding
<1>3. payment' = c.copy /\ rows' = rows
    BY <1>1 DEF SavePayment, serviceVars
<1>4. Fits(c, payment, rows[Order].status)
    BY <1>1 DEF Agreed, CallsFit
<1>5. PICK d : /\ Go(r, d)
               /\ \/ d = Idle /\ AfterSave(c) = "end"
                  \/ d = [c EXCEPT !.stage = AfterSave(c)] /\ AfterSave(c) # "end"
    BY <1>1 DEF SavePayment, Finish
<1>6. /\ ~Holding(d) /\ Fits(d, c.copy, rows[Order].status)
      /\ AfterSave(c) = "pay" => d.stage = "pay"
    <2>1. CASE d = Idle /\ AfterSave(c) = "end"
        BY <2>1, IdleFits
    <2>2. CASE d = [c EXCEPT !.stage = AfterSave(c)] /\ AfterSave(c) # "end"
        <3>1. AfterSave(c) \in {"pay", "clear", "late"} /\ c.op # "reconcile"
            BY <2>2 DEF AfterSave
        <3>2. PICK next : next = AfterSave(c)
            OBVIOUS
        <3>3. d.stage = next /\ d.op = c.op
            BY <1>2, <2>2, <3>2 DEF Calls
        <3>4. next = "pay" => c.copy.status \in Taken
            BY <1>2, <1>4, <3>2 DEF Fits
        <3> QED BY <3>1, <3>2, <3>3, <3>4 DEF Holding, Fits
    <2> QED BY <1>5, <2>1, <2>2
<1>7. \A q \in Requests : calls'[q] = IF q = r THEN d ELSE calls[q]
    BY <1>5 DEF PInv, TypeOK, Go
<1>8. \A q \in Requests : q # r => ~Holding(calls[q])
    BY <1>1, <1>2 DEF Agreed, OneHolder
<1>9. OneHolder'
    BY <1>6, <1>7, <1>8 DEF OneHolder
<1>10. payment.status \in Taken => c.copy.status \in Taken
    BY <1>2, <1>4 DEF Fits
<1>11. CallsFit'
    <2> SUFFICES ASSUME NEW q \in Requests PROVE Fits(calls[q], payment, rows[Order].status)'
        BY DEF CallsFit
    <2>1. CASE q = r
        BY <1>3, <1>6, <1>7, <2>1 DEF Fits
    <2>2. CASE q # r
        <3>1. ~Holding(calls[q]) /\ calls'[q] = calls[q]
            BY <1>7, <1>8, <2>2
        <3>2. calls[q].stage = "pay" /\ calls[q].op # "reconcile" => payment.status \in Taken
            BY DEF Agreed, CallsFit, Fits
        <3> QED BY <1>3, <1>10, <3>1, <3>2 DEF Fits, Holding
    <2> QED BY <2>1, <2>2
<1>12. PaidHasMoney'
    <2> SUFFICES ASSUME rows[Order].status \in PaidStatuses, payment.status \notin Taken
                 PROVE  c.copy.status \in Taken
        BY <1>3, <1>10 DEF PaidHasMoney
    <2>1. PICK q \in Requests : At(q, "save") /\ calls[q].op = "reconcile"
        BY DEF Agreed, PaidHasMoney
    <2>2. q = r
        BY <1>8, <2>1 DEF At, Holding
    <2> QED BY <1>1, <1>2, <1>4, <2>1, <2>2 DEF Fits, Taken
<1>13. MoneyIsTold'
    <2> SUFFICES ASSUME c.copy.status = "held", rows[Order].status = "awaiting_payment"
                 PROVE  \E q \in Requests : calls'[q].stage = "pay"
        BY <1>3 DEF MoneyIsTold, At
    <2>1. payment.status = "held" \/ AfterSave(c) = "pay"
        BY <1>2, <1>4 DEF Fits
    <2>2. CASE AfterSave(c) = "pay"
        BY <1>6, <1>7, <2>2
    <2>3. CASE payment.status = "held"
        <3>1. PICK q \in Requests : calls[q].stage = "pay"
            BY <2>3 DEF Agreed, MoneyIsTold, At
        <3> QED BY <1>1, <1>2, <1>7, <3>1
    <2> QED BY <2>1, <2>2, <2>3
<1> QED BY <1>9, <1>11, <1>12, <1>13 DEF Agreed


\* After this call the order does not wait; that of the reconciliation leaves the
\* payment still to be written.
LEMMA MarkAsPaidAgrees ==
    ASSUME PInv, Agreed, NEW r \in Requests, MarkAsPaid(r)
    PROVE  Agreed'
<1>1. PICK c : c = calls[r]
    OBVIOUS
<1>2. c \in Calls /\ c.stage = "pay"
    BY <1>1, BusyCall DEF MarkAsPaid, At
<1>3. payment' = payment
    BY DEF MarkAsPaid
<1>4. rows'[Order].status # "awaiting_payment"
    <2>1. CASE ServicePay(Order)
        <3>1. PICK row : row = rows[Order]
            OBVIOUS
        <3>2. row \in Rows /\ rows' = [rows EXCEPT ![Order] = PaymentConfirmed(row)]
            BY <2>1, <3>1, RowOfOrder DEF ServicePay, Write
        <3>3. PaymentConfirmed(row).status = "pending_booster"
            BY <3>2 DEF PaymentConfirmed, Rows
        <3> QED BY <3>2, <3>3, SettlementAssumption DEF PInv, TypeOK
    <2>2. CASE ~MayConfirmPayment(rows[Order]) /\ UNCHANGED serviceVars
        BY <2>2 DEF MayConfirmPayment, serviceVars
    <2> QED BY <2>1, <2>2 DEF MarkAsPaid
<1>5. Fits(c, payment, rows[Order].status)
    BY <1>1 DEF Agreed, CallsFit
<1>6. PICK d : /\ Go(r, d)
               /\ \/ d = Idle /\ c.op \notin {"webhook", "reconcile"}
                  \/ d = [c EXCEPT !.stage = "mark"] /\ c.op = "webhook"
                  \/ d = [c EXCEPT !.stage = "save"] /\ c.op = "reconcile"
    BY <1>1 DEF MarkAsPaid, AfterOrder, Finish
<1>7. \A q \in Requests : calls'[q] = IF q = r THEN d ELSE calls[q]
    BY <1>6 DEF PInv, TypeOK, Go
<1>8. MoneyIsTold'
    BY <1>4 DEF MoneyIsTold
<1>9. CASE c.op = "reconcile"
    <2>1. d.stage = "save" /\ d.op = "reconcile" /\ d.copy = c.copy
        BY <1>2, <1>6, <1>9 DEF Calls
    <2>2. payment.status = "awaiting_confirmation" /\ c.copy.status = "held" /\ Holding(c)
        BY <1>2, <1>5, <1>9 DEF Fits, Holding
    <2>3. AfterSave(d) # "pay"
        BY <2>1 DEF AfterSave
    <2>4. Fits(d, payment, rows'[Order].status)
        BY <1>4, <2>1, <2>2, <2>3 DEF Fits, Taken
    <2>5. \A q \in Requests : q # r => ~Holding(calls[q])
        BY <1>1, <2>2 DEF Agreed, OneHolder
    <2>6. \A q \in Requests : q # r => Fits(calls[q], payment, rows'[Order].status)
        BY <2>5 DEF Agreed, CallsFit, Fits, Holding
    <2>7. CallsFit'
        <3> SUFFICES ASSUME NEW q \in Requests PROVE Fits(calls[q], payment, rows[Order].status)'
            BY DEF CallsFit
        <3> QED BY <1>3, <1>7, <2>4, <2>6 DEF Fits
    <2>8. OneHolder'
        BY <1>7, <2>5 DEF OneHolder
    <2>9. PaidHasMoney'
        BY <1>7, <2>1 DEF PaidHasMoney, At
    <2> QED BY <1>8, <2>7, <2>8, <2>9 DEF Agreed
<1>10. CASE c.op # "reconcile"
    <2>1. payment.status \in Taken
        BY <1>2, <1>5, <1>10 DEF Fits
    <2>2. d.stage \in {"idle", "mark"}
        BY <1>2, <1>6, <1>10 DEF Calls, Idle
    <2>3. ~Holding(d) /\ Fits(d, payment, rows'[Order].status)
        BY <2>2 DEF Holding, Fits
    <2>4. \A q \in Requests : Fits(calls[q], payment, rows'[Order].status)
        BY <2>1 DEF Agreed, CallsFit, Fits, Taken
    <2>5. CallsFit'
        <3> SUFFICES ASSUME NEW q \in Requests PROVE Fits(calls[q], payment, rows[Order].status)'
            BY DEF CallsFit
        <3> QED BY <1>3, <1>7, <2>3, <2>4 DEF Fits
    <2>6. OneHolder'
        BY <1>7, <2>3 DEF Agreed, OneHolder
    <2>7. PaidHasMoney'
        BY <1>3, <2>1 DEF PaidHasMoney
    <2> QED BY <1>8, <2>5, <2>6, <2>7 DEF Agreed
<1> QED BY <1>9, <1>10

LEMMA ClearCredentialsAgrees ==
    ASSUME PInv, Agreed, NEW r \in Requests, ClearCredentials(r)
    PROVE  Agreed'
<1>1. PICK c : c = calls[r]
    OBVIOUS
<1>2. c \in Calls /\ c.stage = "clear"
    BY <1>1, BusyCall DEF ClearCredentials, At
<1>3. payment' = payment /\ rows'[Order].status = rows[Order].status
    BY ClearIsStep DEF ClearCredentials
<1>4. Fits(c, payment, rows[Order].status)
    BY <1>1 DEF Agreed, CallsFit
<1>5. CASE Finish(r)
    BY <1>1, <1>2, <1>3, <1>5, FinishAgrees
<1>6. CASE Go(r, [c EXCEPT !.stage = "mark"])
    <2>1. PICK d : d = [c EXCEPT !.stage = "mark"]
        OBVIOUS
    <2>2. d.stage = "mark"
        BY <1>2, <2>1 DEF Calls
    <2>3. ~Holding(d) /\ Fits(d, payment, rows[Order].status)
        BY <2>2, SilentCall
    <2>4. calls[r].stage \notin {"save", "pay"} /\ rows'[Order].status = rows[Order].status
        BY <1>1, <1>2, <1>3
    <2> QED BY <1>3, <1>6, <2>1, <2>3, <2>4, GoAgrees
<1>7. CASE c.op = "reconcile" /\ Go(r, [c EXCEPT !.stage = "save"])
    <2>1. PICK d : d = [c EXCEPT !.stage = "save"]
        OBVIOUS
    <2>2. d.stage = "save" /\ d.op = "reconcile" /\ d.copy = c.copy
        BY <1>2, <1>7, <2>1 DEF Calls
    <2>3. AfterSave(d) # "pay"
        BY <2>2 DEF AfterSave
    <2>4. Fits(d, payment, rows[Order].status) /\ Holding(c)
        BY <1>2, <1>4, <1>7, <2>2, <2>3 DEF Fits, Taken, Holding
    <2> QED BY <1>1, <1>2, <1>3, <1>7, <2>1, <2>4, GoAgrees
<1> QED BY <1>1, <1>5, <1>6, <1>7 DEF ClearCredentials, AfterOrder

LEMMA LastStepsAgree ==
    ASSUME PInv, Agreed, NEW r \in Requests, RecordLateApproval(r) \/ MarkProcessed(r)
    PROVE  Agreed'
<1>1. PICK c : c = calls[r]
    OBVIOUS
<1>2. c \in Calls /\ c.stage \in {"late", "mark"}
    BY <1>1, BusyCall DEF RecordLateApproval, MarkProcessed, At
<1>3. UNCHANGED <<payment, rows>>
    BY DEF RecordLateApproval, MarkProcessed, serviceVars
<1>4. CASE Finish(r)
    BY <1>1, <1>2, <1>3, <1>4, FinishAgrees
<1>5. CASE Go(r, [c EXCEPT !.stage = "mark"])
    <2>1. PICK d : d = [c EXCEPT !.stage = "mark"]
        OBVIOUS
    <2>2. d.stage = "mark"
        BY <1>2, <2>1 DEF Calls
    <2>3. ~Holding(d) /\ Fits(d, payment, rows[Order].status)
        BY <2>2, SilentCall
    <2>4. calls[r].stage \notin {"save", "pay"} /\ rows'[Order].status = rows[Order].status
        BY <1>1, <1>2, <1>3
    <2> QED BY <1>3, <1>5, <2>1, <2>3, <2>4, GoAgrees
<1> QED BY <1>1, <1>4, <1>5 DEF RecordLateApproval, MarkProcessed

LEMMA ProceedAgrees ==
    ASSUME Serialized, PInv, Agreed, NEW r \in Requests, Proceed(r)
    PROVE  Agreed'
BY FetchAgrees, ReadForWebhookAgrees, ReadForReconcileAgrees, ReadOrderStatusAgrees,
   SavePaymentAgrees, MarkAsPaidAgrees, ClearCredentialsAgrees, LastStepsAgree
   DEF Proceed

\* A failure excuses: from then on nothing is claimed.
LEMMA NextKeepsA == Serialized /\ AInv /\ [Next]_settlementVars => AInv'
<1> SUFFICES ASSUME Serialized, AInv, [Next]_settlementVars PROVE AInv'
    OBVIOUS
<1>1. PInv /\ PInv'
    BY NextKeeps DEF AInv
<1>2. fails \in Nat /\ fails' \in Nat
    BY <1>1, SettlementAssumption DEF PInv, TypeOK
<1> SUFFICES ASSUME fails' = 0 PROVE Agreed'
    BY <1>1 DEF AInv
<1>3. ASSUME fails' = fails + 1 PROVE FALSE
    BY <1>2, <1>3
<1>4. ASSUME UNCHANGED <<payment, calls, fails>>,
             rows' = rows \/ OrderMoves
      PROVE  Agreed'
    <2>1. Agreed
        BY <1>4 DEF AInv
    <2>2. OrderMoves => OrderStep /\ (rows'[Order].status \in PaidStatuses => rows[Order].status \in PaidStatuses)
        BY <1>1, OthersAreSteps
    <2> QED BY <1>4, <2>1, <2>2, StillAgreed DEF OrderStep
<1>5. ASSUME NEW r \in Requests, BeginCall(r) \/ Proceed(r) \/ Fail(r) PROVE Agreed'
    <2>1. ASSUME Fail(r) PROVE FALSE
        BY <1>3, <2>1 DEF Fail
    <2>2. fails' = fails
        BY <1>5, <2>1 DEF BeginCall, BeginWebhook, BeginReconcile, BeginConfirm, BeginFail, BeginResume,
           BeginRelease, Begin, Proceed, FetchNotification, FetchByExternalReference, ReadForWebhook,
           ReadForReconcile, ReadOrderStatus, SavePayment, MarkAsPaid, ClearCredentials,
           RecordLateApproval, MarkProcessed
    <2>3. Agreed
        BY <2>2 DEF AInv
    <2> QED BY <1>1, <1>5, <2>1, <2>3, BeginAgrees, ProceedAgrees
<1>6. ASSUME NEW res \in Resources, SkipProcessed(res) PROVE Agreed'
    BY <1>4, <1>6 DEF SkipProcessed, serviceVars
<1>7. ASSUME NEW res \in Resources, LoseNotification(res) PROVE Agreed'
    BY <1>3, <1>7 DEF LoseNotification
<1>8. ASSUME NEW res \in Resources, NEW status, ProviderMoves(res, status) PROVE Agreed'
    BY <1>4, <1>8 DEF ProviderMoves, serviceVars
<1>9. CASE LoseLock \/ GrowOld
    BY <1>4, <1>9 DEF LoseLock, GrowOld, serviceVars
<1>10. CASE OrderMoves
    BY <1>4, <1>10 DEF OrderMoves
<1>11. CASE UNCHANGED settlementVars
    BY <1>4, <1>11 DEF settlementVars, serviceVars
<1> QED BY <1>5, <1>6, <1>7, <1>8, <1>9, <1>10, <1>11 DEF Next

\* While no handler reads the payment between the read and the write of another one,
\* and until a handler fails, a paid order has its money and money that is held has
\* been reported to its order, whatever the provider, the clients and the boosters do.
THEOREM TablesAgree == ASSUME Serialized PROVE Spec => []OrderAndPaymentAgree
<1>1. AInv => OrderAndPaymentAgree
    <2> SUFFICES ASSUME AInv, ~(fails > 0) PROVE OrderAndPaymentAgree
        BY DEF OrderAndPaymentAgree
    <2>1. fails = 0
        BY SettlementAssumption DEF AInv, PInv, TypeOK
    <2> QED BY <2>1 DEF AInv, Agreed, PaidHasMoney, MoneyIsTold, OrderAndPaymentAgree, Taken
<1>2. Serialized /\ AInv /\ [Next]_settlementVars => AInv'
    BY NextKeepsA
<1>3. AInv /\ [Next]_settlementVars => AInv'
    BY <1>2
<1> QED BY InitAInv, <1>1, <1>3, PTL DEF Spec

================================================================================
