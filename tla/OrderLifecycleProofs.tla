------------------------- MODULE OrderLifecycleProofs --------------------------
(***************************************************************************)
(* Theorems about OrderLifecycle, for any sets of orders, boosters and     *)
(* handlers, and however the handlers meet; and, in the second half, about *)
(* those that do not.                                                      *)
(***************************************************************************)
EXTENDS OrderLifecycle, TLAPS

PaidStatuses == {"pending_booster", "in_progress", "completed"}
AcceptedStatuses == {"in_progress", "completed"}

(***************************************************************************)
(* What a handler between two of its steps may rely on.  A copy of a row   *)
(* is as good as the row was: its payment and its booster's accept are     *)
(* history, which nothing takes back.  Only pay and accept write a status  *)
(* their copy had not reached, and they are on record once they commit.    *)
(***************************************************************************)
SaveIsBacked(op, o, b, snap) ==
    /\ op \in Saves
    /\ op = "pay" => snap.status = "pending_booster"
    /\ op # "pay" /\ snap.status \in PaidStatuses => o \in paid
    /\ op = "accept" => b \in Boosters /\ snap.booster = b
    /\ op # "accept" /\ snap.status \in AcceptedStatuses => snap.booster \in acceptors[o]
    /\ op = "reject" => b \in Boosters
    /\ op = "complete" => snap.status = "completed" /\ b = snap.booster

CallIsBacked(c) ==
    /\ c.stage \in {"save", "upsert"} => SaveIsBacked(c.op, c.order, c.actor, c.snap)
    /\ c.stage = "usage" => c.order \in paid
    /\ c.stage = "chat" => acceptors[c.order] # {}
    /\ c.stage = "credit" => c.actor \in acceptors[c.order]
    /\ c.stage = "govern" => c.order \in forced
    /\ c.stage = "audit" => c.actor \in acceptors[c.order]
    /\ c.stage = "reply" => <<c.order, c.actor>> \in audited

CallsAreBacked == \A r \in Requests : Busy(r) => CallIsBacked(calls[r])

IInv ==
    /\ TypeOK
    /\ CallsAreBacked
    /\ OnlyAcceptorsEarn
    /\ NothingBeforePayment
    /\ RevealsAreAuditedAndEarned
    /\ FollowUpsFollowACommit

-------------------------------------------------------------------------------
\* The entity's operations turn rows into rows.
LEMMA RowTypes ==
    ASSUME NEW row \in Rows, NEW b \in Boosters
    PROVE  /\ PaymentConfirmed(row) \in Rows
           /\ Accepted(row, b) \in Rows
           /\ Rejected(row, b) \in Rows
           /\ Completed(row) \in Rows
           /\ Cancelled(row) \in Rows
           /\ ClearedCredentials(row) \in Rows
           /\ CredentialsStored(row) \in Rows
BY DEF Rows, OrderStatus, PaymentConfirmed, Accepted, Rejected, Completed, Cancelled,
       ClearedCredentials, CredentialsStored

\* Nothing in the initial state is paid, accepted or under way.
LEMMA InitIInv == Init => IInv
<1> SUFFICES ASSUME Init PROVE IInv
    OBVIOUS
<1>1. TypeOK
    <2>1. \A b \in Boosters \cup {NoBooster} : DraftRow(b) \in Rows
        BY DEF DraftRow, Rows, OrderStatus
    <2>2. rows \in [Orders -> Rows]
        BY <2>1 DEF Init
    <2>3. fails \in 0 .. MaxFails
        BY LifecycleAssumption DEF Init
    <2> QED BY <2>2, <2>3 DEF Init, TypeOK, Tally
<1>2. CallsAreBacked
    BY DEF Init, CallsAreBacked, Busy
<1>3. \A o \in Orders : rows[o].status = "awaiting_payment" /\ ~rows[o].creds
    BY DEF Init, DraftRow
<1>4. OnlyAcceptorsEarn /\ NothingBeforePayment
    BY <1>3 DEF Init, OnlyAcceptorsEarn, NothingBeforePayment
<1>5. RevealsAreAuditedAndEarned /\ FollowUpsFollowACommit
    BY DEF Init, RevealsAreAuditedAndEarned, FollowUpsFollowACommit
<1> QED BY <1>1, <1>2, <1>4, <1>5 DEF IInv

\* A handler that is at a stage of its work is running a call.
LEMMA BusyCall ==
    ASSUME TypeOK, NEW r \in Requests, calls[r].stage # "idle"
    PROVE  calls[r] \in Calls /\ Busy(r)
BY DEF TypeOK, Busy, Idle

LEMMA IdleIsNoCall == ASSUME NEW c \in Calls PROVE c # Idle /\ c.stage \in Stages
BY DEF Calls, Idle, Stages

\* Starting a handler keeps the invariant if its record is backed by history.
LEMMA BeginKeeps ==
    ASSUME IInv, NEW r \in Requests, NEW op \in Operations, NEW o \in Orders,
           NEW b \in Boosters \cup {NoBooster}, NEW stage \in Stages, NEW snap \in Rows,
           Begin(r, op, o, b, stage, snap),
           CallIsBacked([stage |-> stage, op |-> op, order |-> o, actor |-> b,
                         snap |-> snap, wipe |-> FALSE])
    PROVE  IInv'
<1> DEFINE c == [stage |-> stage, op |-> op, order |-> o, actor |-> b,
                 snap |-> snap, wipe |-> FALSE]
<1>1. c \in Calls
    BY DEF Calls
<1>2. /\ calls' = [calls EXCEPT ![r] = c]
      /\ UNCHANGED <<rows, rejected, followUps, history, fails>>
    BY DEF Begin
<1>3. TypeOK'
    BY <1>1, <1>2 DEF IInv, TypeOK, followUps, history
<1>4. CallsAreBacked'
    <2> SUFFICES ASSUME NEW q \in Requests, Busy(q)' PROVE CallIsBacked(calls[q])'
        BY DEF CallsAreBacked
    <2>1. CASE q = r
        <3>1. calls'[q] = c
            BY <2>1, <1>2 DEF IInv, TypeOK
        <3>2. CallIsBacked(c)'
            BY <1>2 DEF CallIsBacked, SaveIsBacked, followUps, history
        <3> QED BY <3>1, <3>2 DEF CallIsBacked, SaveIsBacked
    <2>2. CASE q # r
        <3>1. calls'[q] = calls[q] /\ CallIsBacked(calls[q])
            BY <2>2, <1>2 DEF IInv, TypeOK, CallsAreBacked, Busy
        <3> QED BY <3>1, <1>2 DEF CallIsBacked, SaveIsBacked, followUps, history
    <2> QED BY <2>1, <2>2
<1>5. /\ OnlyAcceptorsEarn' /\ NothingBeforePayment'
      /\ RevealsAreAuditedAndEarned' /\ FollowUpsFollowACommit'
    BY <1>2 DEF IInv, followUps, history, OnlyAcceptorsEarn, NothingBeforePayment,
       RevealsAreAuditedAndEarned, FollowUpsFollowACommit
<1> QED BY <1>3, <1>4, <1>5 DEF IInv

\* The same for a use case that will save the copy.
LEMMA BeginSaveKeeps ==
    ASSUME IInv, NEW r \in Requests, NEW op \in Operations, NEW o \in Orders,
           NEW b \in Boosters \cup {NoBooster}, NEW snap \in Rows,
           SaveIsBacked(op, o, b, snap), Begin(r, op, o, b, "save", snap)
    PROVE  IInv'
<1>1. CallIsBacked([stage |-> "save", op |-> op, order |-> o, actor |-> b,
                    snap |-> snap, wipe |-> FALSE])
    BY DEF CallIsBacked
<1> QED BY <1>1, BeginKeeps DEF Stages

\* Every use case starts from a copy that history backs.
LEMMA BeginCallKeeps ==
    ASSUME IInv, NEW r \in Requests, BeginCall(r)
    PROVE  IInv'
<1> PICK o \in Orders :
        \/ BeginPay(r, o) \/ BeginCancel(r, o) \/ BeginForceCancel(r, o)
        \/ BeginClear(r, o) \/ BeginStore(r, o)
        \/ \E b \in Boosters : BeginAccept(r, o, b) \/ BeginReject(r, o, b)
                             \/ BeginComplete(r, o, b) \/ BeginReveal(r, o, b)
    BY DEF BeginCall
<1> USE DEF Operations, Saves, PaidStatuses, AcceptedStatuses
<1>0. /\ rows[o] \in Rows
      /\ rows[o].status \in PaidStatuses => o \in paid
      /\ rows[o].status \in AcceptedStatuses => rows[o].booster \in acceptors[o]
    BY DEF IInv, TypeOK, NothingBeforePayment, OnlyAcceptorsEarn
<1>1. CASE BeginPay(r, o)
    <2>1. PaymentConfirmed(rows[o]) \in Rows /\ PaymentConfirmed(rows[o]).status = "pending_booster"
        BY <1>0 DEF PaymentConfirmed, Rows, OrderStatus
    <2>2. SaveIsBacked("pay", o, NoBooster, PaymentConfirmed(rows[o]))
        BY <2>1 DEF SaveIsBacked
    <2> QED BY <1>1, <2>1, <2>2, BeginSaveKeeps DEF BeginPay
<1>2. CASE BeginCancel(r, o) \/ BeginForceCancel(r, o)
    <2>1. Cancelled(rows[o]) \in Rows /\ Cancelled(rows[o]).status = "cancelled"
        BY <1>0 DEF Cancelled, ClearedCredentials, Rows, OrderStatus
    <2>2. /\ SaveIsBacked("cancel", o, NoBooster, Cancelled(rows[o]))
          /\ SaveIsBacked("forceCancel", o, NoBooster, Cancelled(rows[o]))
        BY <2>1 DEF SaveIsBacked
    <2> QED BY <1>2, <2>1, <2>2, BeginSaveKeeps DEF BeginCancel, BeginForceCancel
<1>3. CASE BeginClear(r, o)
    <2>1. /\ ClearedCredentials(rows[o]) \in Rows
          /\ ClearedCredentials(rows[o]).status = rows[o].status
          /\ ClearedCredentials(rows[o]).booster = rows[o].booster
        BY <1>0 DEF ClearedCredentials, Rows
    <2>2. SaveIsBacked("clear", o, NoBooster, ClearedCredentials(rows[o]))
        BY <1>0, <2>1 DEF SaveIsBacked
    <2> QED BY <1>3, <2>1, <2>2, BeginSaveKeeps DEF BeginClear
<1>4. CASE BeginStore(r, o)
    <2>1. CredentialsStored(rows[o]) \in Rows
        BY <1>0 DEF CredentialsStored, Rows
    <2>2. CallIsBacked([stage |-> "store", op |-> "store", order |-> o, actor |-> NoBooster,
                        snap |-> CredentialsStored(rows[o]), wipe |-> FALSE])
        BY DEF CallIsBacked
    <2> QED BY <1>4, <2>1, <2>2, BeginKeeps DEF BeginStore, Stages
<1>5. ASSUME NEW b \in Boosters, BeginAccept(r, o, b) PROVE IInv'
    <2>1. Accepted(rows[o], b) \in Rows /\ Accepted(rows[o], b).booster = b
        BY <1>0 DEF Accepted, Rows, OrderStatus
    <2>2. rows[o].status = "pending_booster"
        BY <1>0, <1>5 DEF BeginAccept, MayAccept, CanTransition, AllowedTransitions,
                         Rows, OrderStatus
    <2>3. SaveIsBacked("accept", o, b, Accepted(rows[o], b))
        BY <1>0, <2>1, <2>2 DEF SaveIsBacked
    <2> QED BY <1>5, <2>1, <2>3, BeginSaveKeeps DEF BeginAccept
<1>6. ASSUME NEW b \in Boosters, BeginReject(r, o, b) PROVE IInv'
    <2>1. Rejected(rows[o], b) \in Rows /\ Rejected(rows[o], b).status = rows[o].status
        BY <1>0 DEF Rejected, Rows
    <2>2. rows[o].status = "pending_booster"
        BY <1>6 DEF BeginReject, MayReject
    <2>3. SaveIsBacked("reject", o, b, Rejected(rows[o], b))
        BY <1>0, <2>1, <2>2 DEF SaveIsBacked
    <2> QED BY <1>6, <2>1, <2>3, BeginSaveKeeps DEF BeginReject
<1>7. ASSUME NEW b \in Boosters, BeginComplete(r, o, b) PROVE IInv'
    <2>1. /\ Completed(rows[o]) \in Rows /\ Completed(rows[o]).booster = rows[o].booster
          /\ Completed(rows[o]).status = "completed"
        BY <1>0 DEF Completed, ClearedCredentials, Rows, OrderStatus
    <2>2. rows[o].status = "in_progress" /\ rows[o].booster = b
        BY <1>0, <1>7 DEF BeginComplete, MayComplete, CanTransition, AllowedTransitions,
                         Rows, OrderStatus
    <2>3. SaveIsBacked("complete", o, b, Completed(rows[o]))
        BY <1>0, <2>1, <2>2 DEF SaveIsBacked
    <2> QED BY <1>7, <2>1, <2>3, BeginSaveKeeps DEF BeginComplete
<1>8. ASSUME NEW b \in Boosters, BeginReveal(r, o, b) PROVE IInv'
    <2>1. CallIsBacked([stage |-> "audit", op |-> "reveal", order |-> o, actor |-> b,
                        snap |-> rows[o], wipe |-> FALSE])
        BY <1>0, <1>8 DEF CallIsBacked, BeginReveal
    <2> QED BY <1>0, <1>8, <2>1, BeginKeeps DEF BeginReveal, Stages
<1> QED BY <1>1, <1>2, <1>3, <1>4, <1>5, <1>6, <1>7, <1>8

-------------------------------------------------------------------------------
\* History only grows, so what backed a call goes on backing it.
LEMMA BackedStaysBacked ==
    ASSUME NEW c \in Calls, CallIsBacked(c),
           paid \subseteq paid', forced \subseteq forced', audited \subseteq audited',
           \A o \in Orders : acceptors[o] \subseteq acceptors'[o]
    PROVE  CallIsBacked(c)'
<1>1. c.order \in Orders
    BY DEF Calls
<1> QED BY <1>1 DEF CallIsBacked, SaveIsBacked

\* A step of handler r that leaves it idle, or backed, leaves all calls backed.
LEMMA OneCallMoves ==
    ASSUME IInv, NEW r \in Requests, NEW c,
           calls' = [calls EXCEPT ![r] = c],
           c = Idle \/ (c \in Calls /\ CallIsBacked(c)'),
           paid \subseteq paid', forced \subseteq forced', audited \subseteq audited',
           \A o \in Orders : acceptors[o] \subseteq acceptors'[o]
    PROVE  CallsAreBacked' /\ calls' \in [Requests -> Calls \cup {Idle}]
<1>1. calls' \in [Requests -> Calls \cup {Idle}]
    BY DEF IInv, TypeOK
<1>2. ASSUME NEW q \in Requests, Busy(q)' PROVE CallIsBacked(calls[q])'
    <2>1. CASE q = r
        <3>1. calls'[q] = c
            BY <2>1 DEF IInv, TypeOK
        <3>2. c \in Calls /\ CallIsBacked(c)'
            BY <3>1, <1>2 DEF Busy, Idle
        <3> QED BY <3>1, <3>2 DEF CallIsBacked, SaveIsBacked
    <2>2. CASE q # r
        <3>1. calls'[q] = calls[q] /\ calls[q] \in Calls /\ CallIsBacked(calls[q])
            BY <2>2, <1>2 DEF IInv, TypeOK, CallsAreBacked, Busy
        <3>2. ASSUME NEW d \in Calls, CallIsBacked(d) PROVE CallIsBacked(d)'
            BY <3>2, BackedStaysBacked
        <3> QED BY <3>1, <3>2 DEF CallIsBacked, SaveIsBacked
    <2> QED BY <2>1, <2>2
<1> QED BY <1>1, <1>2 DEF CallsAreBacked

-------------------------------------------------------------------------------
\* The row a save leaves has the status and the booster of the copy.
LEMMA SavedRowFields ==
    ASSUME TypeOK, NEW c \in Calls
    PROVE  /\ SavedRow(c) \in Rows
           /\ SavedRow(c).status = c.snap.status
           /\ SavedRow(c).booster = c.snap.booster
           /\ SavedRow(c).creds = IF c.wipe THEN FALSE ELSE rows[c.order].creds
<1>1. c.snap \in Rows /\ c.wipe \in BOOLEAN /\ rows[c.order].creds \in BOOLEAN
    BY DEF TypeOK, Calls, Rows
<1> QED BY <1>1 DEF SavedRow, Rows

LEMMA CommitSaveKeeps ==
    ASSUME IInv, NEW r \in Requests, CommitSave(r)
    PROVE  IInv'
<1> DEFINE c == calls[r]
           o == calls[r].order
<1>1. c \in Calls /\ c.stage = "upsert" /\ CallIsBacked(c)
    BY BusyCall DEF CommitSave, At, IInv, CallsAreBacked
<1>2. o \in Orders /\ SaveIsBacked(c.op, o, c.actor, c.snap)
    BY <1>1 DEF CallIsBacked, Calls
<1>3. /\ SavedRow(c) \in Rows
      /\ SavedRow(c).status = c.snap.status
      /\ SavedRow(c).booster = c.snap.booster
      /\ SavedRow(c).creds => rows[o].creds
    BY <1>1, SavedRowFields DEF IInv
<1>4. /\ rows' = [rows EXCEPT ![o] = SavedRow(c)]
      /\ UNCHANGED <<chats, usages, credited, audited, governed, revealed, fails>>
    BY DEF CommitSave, followUps
<1>5. /\ paid' = paid \cup (IF c.op = "pay" THEN {o} ELSE {})
      /\ forced' = forced \cup (IF c.op = "forceCancel" THEN {o} ELSE {})
      /\ paid \subseteq paid' /\ forced \subseteq forced'
    BY DEF CommitSave
<1>6. /\ rejected' \in [Orders -> SUBSET Boosters]
      /\ acceptors' \in [Orders -> SUBSET Boosters]
      /\ \A p \in Orders : acceptors[p] \subseteq acceptors'[p]
      /\ c.op = "accept" => c.actor \in acceptors'[o]
    <2>1. /\ rejected \in [Orders -> SUBSET Boosters]
          /\ acceptors \in [Orders -> SUBSET Boosters]
        BY DEF IInv, TypeOK
    <2>2. c.op \in {"accept", "reject"} => c.actor \in Boosters
        BY <1>2 DEF SaveIsBacked
    <2> QED BY <1>2, <2>1, <2>2 DEF CommitSave
<1>0. PICK d : d = AfterSave(c)
    OBVIOUS
<1>7. d = Idle \/ (d \in Calls /\ CallIsBacked(d)')
    <2>1. CASE c.op = "pay" /\ o \in CouponOrders
        <3>1. d = [c EXCEPT !.stage = "usage"]
            BY <1>0, <2>1 DEF AfterSave
        <3>2. /\ d \in Calls /\ d.stage = "usage"
              /\ d.order = o
            BY <1>1, <3>1 DEF Calls, Stages
        <3> QED BY <1>5, <2>1, <3>2 DEF CallIsBacked
    <2>2. CASE c.op = "accept"
        <3>1. d = [c EXCEPT !.stage = "chat"]
            BY <1>0, <2>2 DEF AfterSave
        <3>2. /\ d \in Calls /\ d.stage = "chat"
              /\ d.order = o
            BY <1>1, <3>1 DEF Calls, Stages
        <3> QED BY <1>6, <2>2, <3>2 DEF CallIsBacked
    <2>3. CASE c.op = "complete"
        <3>1. d = [c EXCEPT !.stage = "credit"]
            BY <1>0, <2>3 DEF AfterSave
        <3>2. /\ d \in Calls /\ d.stage = "credit"
              /\ d.order = o /\ d.actor = c.actor
            BY <1>1, <3>1 DEF Calls, Stages
        <3>3. c.actor \in acceptors[o]
            BY <1>2, <2>3 DEF SaveIsBacked, AcceptedStatuses
        <3> QED BY <1>2, <1>6, <3>2, <3>3 DEF CallIsBacked
    <2>4. CASE c.op = "forceCancel"
        <3>1. d = [c EXCEPT !.stage = "govern"]
            BY <1>0, <2>4 DEF AfterSave
        <3>2. /\ d \in Calls /\ d.stage = "govern"
              /\ d.order = o
            BY <1>1, <3>1 DEF Calls, Stages
        <3> QED BY <1>5, <2>4, <3>2 DEF CallIsBacked
    <2>5. CASE ~(c.op = "pay" /\ o \in CouponOrders)
               /\ c.op \notin {"accept", "complete", "forceCancel"}
        BY <1>0, <2>5 DEF AfterSave
    <2> QED BY <2>1, <2>2, <2>3, <2>4, <2>5
<1>8. CallsAreBacked' /\ calls' \in [Requests -> Calls \cup {Idle}]
    <2>1. calls' = [calls EXCEPT ![r] = d]
        BY <1>0 DEF CommitSave
    <2> QED BY <1>4, <1>5, <1>6, <1>7, <2>1, OneCallMoves
<1>9. TypeOK'
    <2>1. rows' \in [Orders -> Rows] /\ paid' \subseteq Orders /\ forced' \subseteq Orders
        BY <1>2, <1>3, <1>4, <1>5 DEF IInv, TypeOK
    <2> QED BY <1>4, <1>6, <1>8, <2>1 DEF IInv, TypeOK
<1>10. \A p \in Orders : p # o => rows'[p] = rows[p]
    BY <1>4 DEF IInv, TypeOK
<1>11. rows'[o] = SavedRow(c)
    BY <1>2, <1>4 DEF IInv, TypeOK
<1>12. OnlyAcceptorsEarn'
    <2>1. rows'[o].status \in AcceptedStatuses => rows'[o].booster \in acceptors'[o]
        BY <1>2, <1>3, <1>6, <1>11 DEF SaveIsBacked
    <2> QED BY <1>4, <1>6, <1>10, <2>1 DEF IInv, OnlyAcceptorsEarn, AcceptedStatuses
<1>13. NothingBeforePayment'
    <2>1. rows'[o].status \in PaidStatuses \/ rows'[o].creds => o \in paid'
        BY <1>2, <1>3, <1>5, <1>11 DEF IInv, SaveIsBacked, NothingBeforePayment
    <2> QED BY <1>5, <1>10, <2>1 DEF IInv, NothingBeforePayment, PaidStatuses
<1>14. RevealsAreAuditedAndEarned' /\ FollowUpsFollowACommit'
    <2>1. \A p \in Orders : acceptors[p] # {} => acceptors'[p] # {}
        BY <1>6
    <2>2. chats \subseteq Orders
        BY DEF IInv, TypeOK
    <2> QED BY <1>4, <1>5, <1>6, <2>1, <2>2
            DEF IInv, RevealsAreAuditedAndEarned, FollowUpsFollowACommit
<1> QED BY <1>8, <1>9, <1>12, <1>13, <1>14 DEF IInv

LEMMA DeleteCredentialsKeeps ==
    ASSUME IInv, NEW r \in Requests, DeleteCredentials(r)
    PROVE  IInv'
<1>1. calls[r] \in Calls /\ calls[r].stage = "save" /\ CallIsBacked(calls[r])
    BY BusyCall DEF DeleteCredentials, At, IInv, CallsAreBacked
<1>0. PICK w \in BOOLEAN : w = (~calls[r].snap.creds /\ rows[calls[r].order].creds)
    OBVIOUS
<1>2. PICK d : d = [calls[r] EXCEPT !.stage = "upsert", !.wipe = w]
    OBVIOUS
<1>3. /\ calls' = [calls EXCEPT ![r] = d]
      /\ UNCHANGED <<rows, rejected, followUps, history, fails>>
    BY <1>0, <1>2 DEF DeleteCredentials, IInv, TypeOK
<1>4. d \in Calls
    BY <1>1, <1>2 DEF Calls, Stages
<1>5. CallIsBacked(d)'
    BY <1>1, <1>2, <1>3 DEF CallIsBacked, SaveIsBacked, followUps, history, Calls
<1>6. CallsAreBacked' /\ calls' \in [Requests -> Calls \cup {Idle}]
    BY <1>3, <1>4, <1>5, OneCallMoves DEF followUps, history
<1> QED BY <1>3, <1>6 DEF IInv, TypeOK, followUps, history, OnlyAcceptorsEarn,
           NothingBeforePayment, RevealsAreAuditedAndEarned, FollowUpsFollowACommit

\* The write of the credentials is guarded by the stored status, so it finds a
\* paid order.
LEMMA StoreCredentialsKeeps ==
    ASSUME IInv, NEW r \in Requests, StoreCredentials(r)
    PROVE  IInv'
<1> DEFINE o == calls[r].order
<1>1. calls[r] \in Calls /\ o \in Orders
    BY BusyCall DEF StoreCredentials, At, IInv, Calls
<1>2. /\ calls' = [calls EXCEPT ![r] = Idle]
      /\ UNCHANGED <<rejected, followUps, history, fails>>
    BY DEF StoreCredentials, Finish
<1>3. CallsAreBacked' /\ calls' \in [Requests -> Calls \cup {Idle}]
    BY <1>2, OneCallMoves DEF followUps, history
<1>4. CASE rows' = rows
    BY <1>2, <1>3, <1>4 DEF IInv, TypeOK, followUps, history, OnlyAcceptorsEarn,
       NothingBeforePayment, RevealsAreAuditedAndEarned, FollowUpsFollowACommit
<1>5. CASE MaySetCredentials(rows[o])
    <2>1. rows \in [Orders -> Rows] /\ o \in paid
        BY <1>1, <1>5 DEF IInv, TypeOK, NothingBeforePayment, MaySetCredentials, CredentialStatuses
    <2>2. rows' = [rows EXCEPT ![o] = CredentialsStored(rows[o])]
        BY <1>1, <1>5, <2>1 DEF StoreCredentials
    <2>3. /\ CredentialsStored(rows[o]) \in Rows
          /\ CredentialsStored(rows[o]).status = rows[o].status
          /\ CredentialsStored(rows[o]).booster = rows[o].booster
        BY <1>1, <2>1 DEF CredentialsStored, Rows
    <2>4. /\ rows' \in [Orders -> Rows]
          /\ \A p \in Orders : /\ rows'[p].status = rows[p].status
                               /\ rows'[p].booster = rows[p].booster
                               /\ p # o => rows'[p] = rows[p]
        BY <1>1, <2>1, <2>2, <2>3
    <2>5. TypeOK'
        BY <1>2, <1>3, <2>4 DEF IInv, TypeOK, followUps, history
    <2>6. OnlyAcceptorsEarn' /\ NothingBeforePayment'
        BY <1>2, <2>1, <2>4 DEF IInv, OnlyAcceptorsEarn, NothingBeforePayment, followUps, history
    <2> QED BY <1>2, <1>3, <2>5, <2>6
            DEF IInv, RevealsAreAuditedAndEarned, FollowUpsFollowACommit, followUps, history
<1> QED BY <1>1, <1>4, <1>5 DEF StoreCredentials, IInv, TypeOK

\* The follow-up calls write what their stage says is backed.
LEMMA FollowUpKeeps ==
    ASSUME IInv, NEW r \in Requests,
           \/ RecordCouponUsage(r) \/ CreateOrderChat(r) \/ CreditEarnings(r)
           \/ RecordAction(r) \/ ReplyCredentials(r)
    PROVE  IInv'
<1> DEFINE o == calls[r].order
           b == calls[r].actor
<1>1. calls[r] \in Calls /\ o \in Orders /\ CallIsBacked(calls[r])
    BY BusyCall DEF RecordCouponUsage, CreateOrderChat, CreditEarnings, RecordAction,
       ReplyCredentials, At, IInv, CallsAreBacked, Calls
<1>2. /\ calls' = [calls EXCEPT ![r] = Idle]
      /\ UNCHANGED <<rows, rejected, history, fails, audited>>
    BY DEF RecordCouponUsage, CreateOrderChat, CreditEarnings, RecordAction,
       ReplyCredentials, Finish
<1>3. CallsAreBacked' /\ calls' \in [Requests -> Calls \cup {Idle}]
    BY <1>2, OneCallMoves DEF history
<1>4. NothingBeforePayment'
    BY <1>2 DEF IInv, NothingBeforePayment, history
<1>5. CASE RecordCouponUsage(r)
    <2>1. o \in paid /\ usages' = [usages EXCEPT ![o] = Bump(usages[o])]
        BY <1>1, <1>5 DEF RecordCouponUsage, At, CallIsBacked, IInv, TypeOK
    <2>2. /\ UNCHANGED <<chats, credited, governed, revealed>>
          /\ usages' \in [Orders -> Tally]
          /\ \A p \in Orders : usages'[p] # 0 => p \in paid
        BY <1>1, <1>5, <2>1 DEF RecordCouponUsage, IInv, TypeOK, Tally, Bump, FollowUpsFollowACommit
    <2> QED BY <1>2, <1>3, <1>4, <2>2 DEF IInv, TypeOK, history, OnlyAcceptorsEarn,
               RevealsAreAuditedAndEarned, FollowUpsFollowACommit
<1>6. CASE CreateOrderChat(r)
    <2>1. acceptors[o] # {}
        BY <1>1, <1>6 DEF CreateOrderChat, At, CallIsBacked
    <2>2. /\ UNCHANGED <<usages, credited, governed, revealed>>
          /\ chats' = chats \cup {o}
        BY <1>6 DEF CreateOrderChat
    <2> QED BY <1>1, <1>2, <1>3, <1>4, <2>1, <2>2 DEF IInv, TypeOK, history, OnlyAcceptorsEarn,
               RevealsAreAuditedAndEarned, FollowUpsFollowACommit
<1>7. CASE CreditEarnings(r)
    <2>1. b \in acceptors[o] /\ credited' = [credited EXCEPT ![o] = credited[o] \cup {b}]
        BY <1>1, <1>7 DEF CreditEarnings, At, CallIsBacked, IInv, TypeOK
    <2>2. /\ UNCHANGED <<chats, usages, governed, revealed>>
          /\ credited' \in [Orders -> SUBSET Boosters]
          /\ \A p \in Orders : credited'[p] \subseteq acceptors[p]
        BY <1>1, <1>7, <2>1 DEF CreditEarnings, IInv, TypeOK, OnlyAcceptorsEarn
    <2> QED BY <1>2, <1>3, <1>4, <2>2 DEF IInv, TypeOK, history, OnlyAcceptorsEarn,
               RevealsAreAuditedAndEarned, FollowUpsFollowACommit
<1>8. CASE RecordAction(r)
    <2>1. o \in forced
        BY <1>1, <1>8 DEF RecordAction, At, CallIsBacked
    <2>2. /\ UNCHANGED <<chats, usages, credited, revealed>>
          /\ governed' = governed \cup {o}
        BY <1>8 DEF RecordAction
    <2> QED BY <1>1, <1>2, <1>3, <1>4, <2>1, <2>2 DEF IInv, TypeOK, history, OnlyAcceptorsEarn,
               RevealsAreAuditedAndEarned, FollowUpsFollowACommit
<1>9. CASE ReplyCredentials(r)
    <2>1. <<o, b>> \in audited
        BY <1>1, <1>9 DEF ReplyCredentials, At, CallIsBacked
    <2>2. /\ UNCHANGED <<chats, usages, credited, governed>>
          /\ revealed' = revealed \cup {<<o, b>>}
        BY <1>9 DEF ReplyCredentials
    <2> QED BY <1>1, <1>2, <1>3, <1>4, <2>1, <2>2 DEF IInv, TypeOK, history, OnlyAcceptorsEarn,
               RevealsAreAuditedAndEarned, FollowUpsFollowACommit
<1> QED BY <1>5, <1>6, <1>7, <1>8, <1>9

LEMMA RecordRevealKeeps ==
    ASSUME IInv, NEW r \in Requests, RecordReveal(r)
    PROVE  IInv'
<1>1. calls[r] \in Calls /\ calls[r].stage = "audit" /\ CallIsBacked(calls[r])
    BY BusyCall DEF RecordReveal, At, IInv, CallsAreBacked
<1>2. PICK o, b, d :
        /\ o \in Orders /\ b \in Boosters \cup {NoBooster}
        /\ o = calls[r].order /\ b = calls[r].actor /\ d = [calls[r] EXCEPT !.stage = "reply"]
    BY <1>1 DEF Calls
<1>3. b \in acceptors[o] /\ b \in Boosters
    BY <1>1, <1>2 DEF CallIsBacked, IInv, TypeOK
<1>4. /\ calls' = [calls EXCEPT ![r] = d]
      /\ audited' = audited \cup {<<o, b>>}
      /\ UNCHANGED <<rows, rejected, chats, usages, credited, governed, revealed, history, fails>>
    BY <1>2 DEF RecordReveal, Advance, IInv, TypeOK
<1>5. d \in Calls /\ d.stage = "reply" /\ d.order = o /\ d.actor = b
    BY <1>1, <1>2 DEF Calls, Stages
<1>6. CallIsBacked(d)'
    BY <1>4, <1>5 DEF CallIsBacked
<1>7. CallsAreBacked' /\ calls' \in [Requests -> Calls \cup {Idle}]
    BY <1>4, <1>5, <1>6, OneCallMoves DEF history
<1>8. RevealsAreAuditedAndEarned'
    BY <1>3, <1>4 DEF IInv, RevealsAreAuditedAndEarned, history
<1>9. TypeOK'
    BY <1>2, <1>3, <1>4, <1>7 DEF IInv, TypeOK, history
<1> QED BY <1>4, <1>7, <1>8, <1>9 DEF IInv, history, OnlyAcceptorsEarn,
           NothingBeforePayment, FollowUpsFollowACommit

LEMMA FailKeeps ==
    ASSUME IInv, NEW r \in Requests, Fail(r)
    PROVE  IInv'
<1>1. /\ calls' = [calls EXCEPT ![r] = Idle]
      /\ UNCHANGED <<rows, rejected, followUps, history>>
      /\ fails' \in 0 .. MaxFails
    BY LifecycleAssumption DEF Fail, Finish, IInv, TypeOK
<1>2. CallsAreBacked' /\ calls' \in [Requests -> Calls \cup {Idle}]
    BY <1>1, OneCallMoves DEF followUps, history
<1> QED BY <1>1, <1>2 DEF IInv, TypeOK, followUps, history, OnlyAcceptorsEarn,
           NothingBeforePayment, RevealsAreAuditedAndEarned, FollowUpsFollowACommit

LEMMA NextKeeps == IInv /\ [Next]_lifecycleVars => IInv'
<1> SUFFICES ASSUME IInv, [Next]_lifecycleVars PROVE IInv'
    OBVIOUS
<1>1. CASE Next
    <2> PICK r \in Requests : BeginCall(r) \/ Proceed(r) \/ Fail(r)
        BY <1>1 DEF Next
    <2>1. CASE BeginCall(r)
        BY <2>1, BeginCallKeeps
    <2>2. CASE Fail(r)
        BY <2>2, FailKeeps
    <2>3. CASE Proceed(r)
        BY <2>3, DeleteCredentialsKeeps, CommitSaveKeeps, StoreCredentialsKeeps,
           FollowUpKeeps, RecordRevealKeeps DEF Proceed
    <2> QED BY <2>1, <2>2, <2>3
<1>2. CASE UNCHANGED lifecycleVars
    <2>1. UNCHANGED <<rows, rejected, calls, followUps, history, fails>>
        BY <1>2 DEF lifecycleVars, followUps, history
    <2> QED BY <2>1 DEF IInv, TypeOK, CallsAreBacked, CallIsBacked, SaveIsBacked, Busy,
               followUps, history, OnlyAcceptorsEarn, NothingBeforePayment,
               RevealsAreAuditedAndEarned, FollowUpsFollowACommit
<1> QED BY <1>1, <1>2

THEOREM IInvHolds == Spec => []IInv
BY InitIInv, NextKeeps, PTL DEF Spec

\* Every variable always has its type.
THEOREM TypeCorrect == Spec => []TypeOK
BY IInvHolds, PTL DEF IInv

\* However handlers overlap, an order's booster, and whoever is paid for it,
\* is one whose accept was committed.
THEOREM AcceptorsEarn == Spec => []OnlyAcceptorsEarn
BY IInvHolds, PTL DEF IInv

\* However handlers overlap, no order is offered, worked on or given
\* credentials before its payment is confirmed.
THEOREM PaymentComesFirst == Spec => []NothingBeforePayment
BY IInvHolds, PTL DEF IInv

\* Credentials only ever reach a booster who accepted the order, after the
\* reveal was recorded.
THEOREM RevealsAreOnRecord == Spec => []RevealsAreAuditedAndEarned
BY IInvHolds, PTL DEF IInv

\* Chats, coupon usages and admin audit entries tell of committed transitions.
THEOREM FollowUpsAreBacked == Spec => []FollowUpsFollowACommit
BY IInvHolds, PTL DEF IInv

-------------------------------------------------------------------------------
(***************************************************************************)
(* When writes of an order do not meet (Serialized): the properties the    *)
(* overlapping system lacks, and that it implements OrderService.  The     *)
(* argument: at most one handler is between its read and its commit, so    *)
(* its copy is still the effect of its use case on the row as stored.      *)
(***************************************************************************)

\* The copy is what the use case makes of the row as it is now.
IsFresh(op, b, row, snap) ==
    /\ op = "pay" => MayConfirmPayment(row) /\ snap = PaymentConfirmed(row)
    /\ op = "accept" => b \in Boosters /\ MayAccept(row, b) /\ snap = Accepted(row, b)
    /\ op = "reject" => b \in Boosters /\ MayReject(row, b) /\ snap = Rejected(row, b)
    /\ op = "complete" => b \in Boosters /\ MayComplete(row, b) /\ snap = Completed(row)
    /\ op \in {"cancel", "forceCancel"} => MayCancel(row) /\ snap = Cancelled(row)
    /\ op = "clear" => snap = ClearedCredentials(row)

CallIsFresh(c) ==
    /\ c.stage \in {"save", "upsert"} =>
            IsFresh(c.op, c.actor, rows[c.order], c.snap)
    /\ c.stage = "upsert" => c.wipe = (~c.snap.creds /\ rows[c.order].creds)

CallsAreFresh == \A r \in Requests : Busy(r) => CallIsFresh(calls[r])

OneWriter ==
    \A r, q \in Requests, o \in Orders : Writing(r, o) /\ Writing(q, o) => r = q

\* The accepts on record are the one of the order's present booster, or none.
AcceptsMatchRow ==
    \A o \in Orders :
        acceptors[o] = IF rows[o].status \in AcceptedStatuses THEN {rows[o].booster} ELSE {}

RejecterIsGone ==
    \A o \in Orders :
        rows[o].status \in {"awaiting_payment", "pending_booster"}
            => rows[o].booster \notin rejected[o]

RowsInv == AcceptsMatchRow /\ RejecterIsGone /\ CredentialsOnlyWhileLive

SInv == IInv /\ CallsAreFresh /\ OneWriter /\ RowsInv

-------------------------------------------------------------------------------
LEMMA InitSInv == Init => SInv
<1> SUFFICES ASSUME Init PROVE SInv
    OBVIOUS
<1>1. \A o \in Orders : /\ rows[o].status = "awaiting_payment" /\ ~rows[o].creds
                        /\ acceptors[o] = {} /\ rejected[o] = {}
    BY DEF Init, DraftRow
<1>2. CallsAreFresh /\ OneWriter
    BY DEF Init, CallsAreFresh, OneWriter, Busy, Writing
<1>3. RowsInv
    BY <1>1 DEF RowsInv, AcceptsMatchRow, RejecterIsGone, CredentialsOnlyWhileLive,
       AcceptedStatuses
<1> QED BY <1>2, <1>3, InitIInv DEF SInv

\* Handlers other than the one that moves keep what they were writing.
LEMMA OthersKeepWriting ==
    ASSUME TypeOK, NEW r \in Requests, NEW d, calls' = [calls EXCEPT ![r] = d],
           NEW q \in Requests, q # r, NEW o
    PROVE  calls'[q] = calls[q] /\ (Writing(q, o)' <=> Writing(q, o))
BY DEF TypeOK, Writing, Busy

\* Rows and history alone decide RowsInv.
LEMMA RowsInvFrame ==
    ASSUME RowsInv, UNCHANGED <<rows, rejected, acceptors>>
    PROVE  RowsInv'
BY DEF RowsInv, AcceptsMatchRow, RejecterIsGone, CredentialsOnlyWhileLive

LEMMA BeginIsFresh ==
    ASSUME Serialized, SInv, IInv', NEW r \in Requests, NEW op \in Operations,
           NEW o \in Orders, NEW b \in Boosters \cup {NoBooster}, NEW stage \in Stages,
           NEW snap \in Rows, Begin(r, op, o, b, stage, snap),
           \/ stage = "save" /\ op # "reveal" /\ IsFresh(op, b, rows[o], snap)
           \/ stage = "store" /\ op # "reveal"
           \/ stage = "audit"
    PROVE  SInv'
<1> PICK d : d = [stage |-> stage, op |-> op, order |-> o, actor |-> b,
                  snap |-> snap, wipe |-> FALSE]
    OBVIOUS
<1>1. /\ calls' = [calls EXCEPT ![r] = d]
      /\ UNCHANGED <<rows, rejected, acceptors>>
      /\ op # "reveal" => \A q \in Requests : ~Writing(q, o)
    BY DEF Begin, history
<1>2. calls'[r] = d /\ TypeOK
    BY <1>1 DEF SInv, IInv, TypeOK
<1>3. CallsAreFresh'
    <2> SUFFICES ASSUME NEW q \in Requests, Busy(q)' PROVE CallIsFresh(calls[q])'
        BY DEF CallsAreFresh
    <2>1. CASE q = r
        <3>1. /\ d.stage = stage /\ d.op = op /\ d.order = o /\ d.actor = b /\ d.snap = snap
              /\ calls'[q] = d /\ rows' = rows
            BY <1>1, <1>2, <2>1
        <3> QED BY <3>1 DEF CallIsFresh, IsFresh
    <2>2. CASE q # r
        <3>1. calls'[q] = calls[q] /\ CallIsFresh(calls[q])
            BY <1>1, <1>2, <2>2 DEF SInv, CallsAreFresh, Busy, TypeOK
        <3> QED BY <1>1, <3>1 DEF CallIsFresh
    <2> QED BY <2>1, <2>2
<1>4. OneWriter'
    <2> SUFFICES ASSUME NEW p \in Requests, NEW q \in Requests, NEW x \in Orders,
                        Writing(p, x)', Writing(q, x)'
                 PROVE  p = q
        BY DEF OneWriter
    <2>1. CASE p # r /\ q # r
        BY <1>1, <1>2, <2>1, OthersKeepWriting DEF SInv, OneWriter
    <2>2. Writing(r, x)' => x = o /\ op # "reveal"
        BY <1>2 DEF Writing
    <2> QED BY <1>1, <1>2, <2>1, <2>2, OthersKeepWriting
<1>5. RowsInv'
    BY <1>1, RowsInvFrame DEF SInv
<1> QED BY <1>3, <1>4, <1>5 DEF SInv

LEMMA BeginCallIsFresh ==
    ASSUME Serialized, SInv, NEW r \in Requests, BeginCall(r)
    PROVE  SInv'
<1> PICK o \in Orders :
        \/ BeginPay(r, o) \/ BeginCancel(r, o) \/ BeginForceCancel(r, o)
        \/ BeginClear(r, o) \/ BeginStore(r, o)
        \/ \E b \in Boosters : BeginAccept(r, o, b) \/ BeginReject(r, o, b)
                             \/ BeginComplete(r, o, b) \/ BeginReveal(r, o, b)
    BY DEF BeginCall
<1>0. rows[o] \in Rows /\ IInv'
    BY BeginCallKeeps DEF SInv, IInv, TypeOK
<1> USE DEF Operations, Stages
<1>1. CASE BeginPay(r, o) \/ BeginCancel(r, o) \/ BeginForceCancel(r, o) \/ BeginClear(r, o)
    <2>1. /\ PaymentConfirmed(rows[o]) \in Rows /\ Cancelled(rows[o]) \in Rows
          /\ ClearedCredentials(rows[o]) \in Rows
        BY <1>0 DEF PaymentConfirmed, Cancelled, ClearedCredentials, Rows, OrderStatus
    <2>2. CASE BeginPay(r, o)
        BY <1>0, <2>1, <2>2, BeginIsFresh DEF BeginPay, IsFresh
    <2>3. CASE BeginCancel(r, o)
        BY <1>0, <2>1, <2>3, BeginIsFresh DEF BeginCancel, IsFresh
    <2>4. CASE BeginForceCancel(r, o)
        BY <1>0, <2>1, <2>4, BeginIsFresh DEF BeginForceCancel, IsFresh
    <2>5. CASE BeginClear(r, o)
        BY <1>0, <2>1, <2>5, BeginIsFresh DEF BeginClear, IsFresh
    <2> QED BY <1>1, <2>2, <2>3, <2>4, <2>5
<1>2. CASE BeginStore(r, o)
    <2>1. CredentialsStored(rows[o]) \in Rows
        BY <1>0 DEF CredentialsStored, Rows
    <2> QED BY <1>0, <1>2, <2>1, BeginIsFresh DEF BeginStore
<1>3. ASSUME NEW b \in Boosters,
             BeginAccept(r, o, b) \/ BeginReject(r, o, b)
             \/ BeginComplete(r, o, b) \/ BeginReveal(r, o, b)
      PROVE  SInv'
    <2>1. /\ Accepted(rows[o], b) \in Rows /\ Rejected(rows[o], b) \in Rows
          /\ Completed(rows[o]) \in Rows
        BY <1>0, RowTypes
    <2>2. CASE BeginAccept(r, o, b)
        BY <1>0, <2>1, <2>2, BeginIsFresh DEF BeginAccept, IsFresh
    <2>3. CASE BeginReject(r, o, b)
        BY <1>0, <2>1, <2>3, BeginIsFresh DEF BeginReject, IsFresh
    <2>4. CASE BeginComplete(r, o, b)
        BY <1>0, <2>1, <2>4, BeginIsFresh DEF BeginComplete, IsFresh
    <2>5. CASE BeginReveal(r, o, b)
        BY <1>0, <2>5, BeginIsFresh DEF BeginReveal
    <2> QED BY <1>3, <2>2, <2>3, <2>4, <2>5
<1> QED BY <1>1, <1>2, <1>3

-------------------------------------------------------------------------------
\* A fresh copy commits as the use case on the stored row: what the delete and
\* the upsert leave is the copy itself.
LEMMA FreshSaveWritesCopy ==
    ASSUME SInv, NEW r \in Requests, At(r, "upsert")
    PROVE  /\ calls[r] \in Calls
           /\ IsFresh(calls[r].op, calls[r].actor, rows[calls[r].order], calls[r].snap)
           /\ SavedRow(calls[r]) = calls[r].snap
<1> DEFINE c == calls[r]
           row == rows[calls[r].order]
<1>1. /\ c \in Calls /\ c.stage = "upsert" /\ CallIsFresh(c) /\ CallIsBacked(c)
    BY BusyCall DEF At, SInv, IInv, CallsAreFresh, CallsAreBacked
<1>2. /\ IsFresh(c.op, c.actor, row, c.snap)
      /\ c.wipe = (~c.snap.creds /\ row.creds)
      /\ c.op \in Saves
      /\ row \in Rows /\ c.snap \in Rows
    BY <1>1 DEF CallIsFresh, CallIsBacked, SaveIsBacked, SInv, IInv, TypeOK, Calls
<1>3. c.snap.creds \in {FALSE, row.creds}
    BY <1>2 DEF IsFresh, Saves, Operations, PaymentConfirmed, Accepted, Rejected, Completed,
       Cancelled, ClearedCredentials, Rows
<1>4. (IF c.wipe THEN FALSE ELSE row.creds) = c.snap.creds
    BY <1>2, <1>3 DEF Rows
<1> QED BY <1>1, <1>2, <1>4 DEF SavedRow, Rows

\* While r writes o, no other handler does: the others' copies stay fresh when
\* r changes the row of o.
LEMMA OthersStayFresh ==
    ASSUME SInv, NEW r \in Requests, NEW d, NEW o \in Orders, Writing(r, o),
           calls' = [calls EXCEPT ![r] = d],
           \A p \in Orders : p # o => rows'[p] = rows[p],
           NEW q \in Requests, q # r, Busy(q)'
    PROVE  CallIsFresh(calls[q])'
<1>1. calls'[q] = calls[q] /\ Busy(q) /\ CallIsFresh(calls[q]) /\ calls[q] \in Calls
    BY DEF SInv, IInv, TypeOK, CallsAreFresh, Busy
<1>2. CASE calls[q].stage \in {"save", "upsert"}
    <2>1. calls[q].order \in Orders /\ calls[q].order # o
        BY <1>1, <1>2 DEF Writing, SInv, OneWriter, Calls
    <2>2. rows'[calls[q].order] = rows[calls[q].order]
        BY <2>1
    <2> QED BY <1>1, <2>2 DEF CallIsFresh
<1>3. CASE calls[q].stage \notin {"save", "upsert"}
    BY <1>1, <1>3 DEF CallIsFresh
<1> QED BY <1>2, <1>3

\* A handler that stops writing, or was not writing, leaves at most one writer.
LEMMA WriterLeaves ==
    ASSUME SInv, NEW r \in Requests, NEW d, calls' = [calls EXCEPT ![r] = d],
           \A o \in Orders : Writing(r, o)' => Writing(r, o)
    PROVE  OneWriter'
<1> SUFFICES ASSUME NEW p \in Requests, NEW q \in Requests, NEW o \in Orders,
                    Writing(p, o)', Writing(q, o)'
             PROVE  p = q
    BY DEF OneWriter
<1>1. Writing(p, o) /\ Writing(q, o)
    BY OthersKeepWriting DEF SInv, IInv
<1> QED BY <1>1 DEF SInv, OneWriter

-------------------------------------------------------------------------------
\* What each use case, applied to a row that satisfies RowsInv, leaves.
LEMMA FreshSaveKeepsRowsInv ==
    ASSUME SInv, NEW r \in Requests, CommitSave(r)
    PROVE  RowsInv'
<1> PICK op, o, b, snap : /\ op = calls[r].op /\ o = calls[r].order
                          /\ b = calls[r].actor /\ snap = calls[r].snap
    OBVIOUS
<1> PICK row : row = rows[o]
    OBVIOUS
<1>1. /\ o \in Orders /\ op \in Saves /\ snap \in Rows /\ row \in Rows
      /\ IsFresh(op, b, row, snap) /\ SavedRow(calls[r]) = snap
    <2>1. At(r, "upsert") /\ IInv
        BY DEF CommitSave, SInv
    <2>2. calls[r] \in Calls /\ CallIsBacked(calls[r]) /\ calls[r].stage = "upsert"
        BY <2>1, BusyCall DEF At, IInv, CallsAreBacked
    <2> QED BY <2>1, <2>2, FreshSaveWritesCopy DEF CallIsBacked, SaveIsBacked, Calls, IInv, TypeOK
<1>2. /\ rows'[o] = snap
      /\ acceptors'[o] = acceptors[o] \cup (IF op = "accept" THEN {b} ELSE {})
      /\ rejected'[o] = rejected[o] \cup (IF op = "reject" THEN {b} ELSE {})
      /\ \A p \in Orders : p # o => /\ rows'[p] = rows[p] /\ acceptors'[p] = acceptors[p]
                                   /\ rejected'[p] = rejected[p]
    BY <1>1 DEF CommitSave, SInv, IInv, TypeOK
<1>3. /\ acceptors[o] = IF row.status \in AcceptedStatuses THEN {row.booster} ELSE {}
      /\ row.status \in {"awaiting_payment", "pending_booster"} => row.booster \notin rejected[o]
      /\ row.creds => row.status \in CredentialStatuses
      /\ NoBooster \notin rejected[o]
    BY <1>1, NoBoosterAssumption DEF SInv, RowsInv, AcceptsMatchRow, RejecterIsGone,
       CredentialsOnlyWhileLive, IInv, TypeOK
<1>4. /\ acceptors'[o] = IF snap.status \in AcceptedStatuses THEN {snap.booster} ELSE {}
      /\ snap.status \in {"awaiting_payment", "pending_booster"} => snap.booster \notin rejected'[o]
      /\ snap.creds => snap.status \in CredentialStatuses
    <2> USE DEF IsFresh, AcceptedStatuses, CredentialStatuses, Rows, OrderStatus
    <2>1. CASE op = "pay"
        BY <1>1, <1>2, <1>3, <2>1 DEF MayConfirmPayment, PaymentConfirmed
    <2>2. CASE op = "accept"
        <3>1. row.status = "pending_booster"
            BY <1>1, <2>2 DEF MayAccept, CanTransition, AllowedTransitions
        <3>2. snap.status = "in_progress" /\ snap.booster = b
            BY <1>1, <2>2 DEF Accepted
        <3> QED BY <1>2, <1>3, <2>2, <3>1, <3>2
    <2>3. CASE op = "reject"
        <3>1. row.status = "pending_booster" /\ snap.status = row.status /\ snap.creds = row.creds
            BY <1>1, <2>3 DEF MayReject, Rejected
        <3>2. snap.booster = NoBooster /\ b # NoBooster
            BY <1>1, <2>3, NoBoosterAssumption DEF MayReject, Rejected
        <3> QED BY <1>2, <1>3, <2>3, <3>1, <3>2
    <2>4. CASE op = "complete"
        <3>1. row.status = "in_progress"
            BY <1>1, <2>4 DEF MayComplete, CanTransition, AllowedTransitions
        <3>2. snap.status = "completed" /\ snap.booster = row.booster /\ ~snap.creds
            BY <1>1, <2>4 DEF Completed, ClearedCredentials
        <3> QED BY <1>2, <1>3, <2>4, <3>1, <3>2
    <2>5. CASE op \in {"cancel", "forceCancel"}
        <3>1. row.status \notin AcceptedStatuses
            BY <1>1, <2>5 DEF MayCancel
        <3>2. snap.status = "cancelled" /\ ~snap.creds
            BY <1>1, <2>5 DEF Cancelled, ClearedCredentials
        <3> QED BY <1>2, <1>3, <2>5, <3>1, <3>2
    <2>6. CASE op = "clear"
        <3>1. snap.status = row.status /\ snap.booster = row.booster /\ ~snap.creds
            BY <1>1, <2>6 DEF ClearedCredentials
        <3> QED BY <1>2, <1>3, <2>6, <3>1
    <2> QED BY <1>1, <2>1, <2>2, <2>3, <2>4, <2>5, <2>6 DEF Saves, Operations
<1>5. AcceptsMatchRow'
    BY <1>2, <1>4 DEF SInv, RowsInv, AcceptsMatchRow
<1>6. RejecterIsGone'
    BY <1>2, <1>4 DEF SInv, RowsInv, RejecterIsGone
<1>7. CredentialsOnlyWhileLive'
    BY <1>2, <1>4 DEF SInv, RowsInv, CredentialsOnlyWhileLive
<1> QED BY <1>5, <1>6, <1>7 DEF RowsInv

LEMMA CommitSaveKeepsS ==
    ASSUME SInv, NEW r \in Requests, CommitSave(r)
    PROVE  SInv'
<1> PICK d : d = AfterSave(calls[r])
    OBVIOUS
<1> PICK o : o = calls[r].order
    OBVIOUS
<1>1. /\ IInv' /\ RowsInv' /\ TypeOK
      /\ calls[r] \in Calls /\ o \in Orders /\ Writing(r, o)
    BY BusyCall, CommitSaveKeeps, FreshSaveKeepsRowsInv
       DEF SInv, IInv, CommitSave, At, Writing, Calls
<1>2. /\ calls' = [calls EXCEPT ![r] = d] /\ calls'[r] = d
      /\ \A p \in Orders : p # o => rows'[p] = rows[p]
    BY <1>1 DEF CommitSave, TypeOK
<1>3. d.stage \in {"idle", "usage", "chat", "credit", "govern"}
    BY <1>1 DEF AfterSave, Idle, Calls
<1>4. CallsAreFresh'
    <2> SUFFICES ASSUME NEW q \in Requests, Busy(q)' PROVE CallIsFresh(calls[q])'
        BY DEF CallsAreFresh
    <2>1. CASE q = r
        BY <1>2, <1>3, <2>1 DEF CallIsFresh
    <2>2. CASE q # r
        BY <1>1, <1>2, <2>2, OthersStayFresh
    <2> QED BY <2>1, <2>2
<1>5. OneWriter'
    <2>1. \A p \in Orders : ~Writing(r, p)'
        BY <1>2, <1>3 DEF Writing
    <2> QED BY <1>2, <2>1, WriterLeaves
<1> QED BY <1>1, <1>4, <1>5 DEF SInv

LEMMA DeleteCredentialsKeepsS ==
    ASSUME SInv, NEW r \in Requests, DeleteCredentials(r)
    PROVE  SInv'
<1> PICK o : o = calls[r].order
    OBVIOUS
<1>1. /\ IInv' /\ TypeOK /\ calls[r] \in Calls /\ o \in Orders /\ Writing(r, o)
      /\ calls[r].stage = "save" /\ CallIsFresh(calls[r])
    BY BusyCall, DeleteCredentialsKeeps
       DEF SInv, IInv, DeleteCredentials, At, Writing, Calls, CallsAreFresh
<1>2. PICK w \in BOOLEAN : w = (~calls[r].snap.creds /\ rows[o].creds)
    OBVIOUS
<1>3. PICK d : d = [calls[r] EXCEPT !.stage = "upsert", !.wipe = w]
    OBVIOUS
<1>4. /\ calls' = [calls EXCEPT ![r] = d] /\ calls'[r] = d
      /\ UNCHANGED <<rows, rejected, acceptors>>
    BY <1>1, <1>2, <1>3 DEF DeleteCredentials, history, TypeOK
<1>5. CallsAreFresh'
    <2> SUFFICES ASSUME NEW q \in Requests, Busy(q)' PROVE CallIsFresh(calls[q])'
        BY DEF CallsAreFresh
    <2>1. CASE q = r
        <3>1. /\ d.op = calls[r].op /\ d.order = o /\ d.actor = calls[r].actor
              /\ d.snap = calls[r].snap /\ d.wipe = (~d.snap.creds /\ rows[o].creds)
            BY <1>1, <1>2, <1>3 DEF Calls
        <3>2. IsFresh(d.op, d.actor, rows[o], d.snap)
            BY <1>1, <3>1 DEF CallIsFresh
        <3> QED BY <1>4, <2>1, <3>1, <3>2 DEF CallIsFresh, IsFresh
    <2>2. CASE q # r
        BY <1>1, <1>4, <2>2, OthersStayFresh
    <2> QED BY <2>1, <2>2
<1>6. OneWriter'
    <2>1. \A p \in Orders : Writing(r, p)' => Writing(r, p)
        BY <1>1, <1>3, <1>4 DEF Writing, Calls
    <2> QED BY <1>4, <2>1, WriterLeaves
<1> QED BY <1>1, <1>4, <1>5, <1>6, RowsInvFrame DEF SInv

LEMMA StoreCredentialsKeepsS ==
    ASSUME SInv, NEW r \in Requests, StoreCredentials(r)
    PROVE  SInv'
<1> PICK o : o = calls[r].order
    OBVIOUS
<1>1. /\ IInv' /\ TypeOK /\ calls[r] \in Calls /\ o \in Orders /\ Writing(r, o)
    BY BusyCall, StoreCredentialsKeeps DEF SInv, IInv, StoreCredentials, At, Writing, Calls
<1>2. /\ calls' = [calls EXCEPT ![r] = Idle] /\ calls'[r] = Idle
      /\ UNCHANGED <<rejected, acceptors>>
      /\ \A p \in Orders : p # o => rows'[p] = rows[p]
      /\ rows'[o] = IF MaySetCredentials(rows[o]) THEN CredentialsStored(rows[o]) ELSE rows[o]
    BY <1>1 DEF StoreCredentials, Finish, history, TypeOK
<1>3. /\ rows'[o].status = rows[o].status /\ rows'[o].booster = rows[o].booster
      /\ rows'[o].creds => rows[o].creds \/ rows[o].status \in CredentialStatuses
    <2>1. rows[o] \in Rows
        BY <1>1 DEF TypeOK
    <2> QED BY <1>2, <2>1 DEF MaySetCredentials, CredentialsStored, Rows
<1>4. RowsInv'
    <2>1. \A p \in Orders : rows'[p].status = rows[p].status /\ rows'[p].booster = rows[p].booster
        BY <1>2, <1>3
    <2>2. CredentialsOnlyWhileLive'
        BY <1>2, <1>3 DEF SInv, RowsInv, CredentialsOnlyWhileLive
    <2> QED BY <1>2, <2>1, <2>2 DEF SInv, RowsInv, AcceptsMatchRow, RejecterIsGone
<1>5. CallsAreFresh'
    <2> SUFFICES ASSUME NEW q \in Requests, Busy(q)' PROVE CallIsFresh(calls[q])'
        BY DEF CallsAreFresh
    <2>1. q # r
        BY <1>2 DEF Busy
    <2> QED BY <1>1, <1>2, <2>1, OthersStayFresh
<1>6. OneWriter'
    <2>1. \A p \in Orders : ~Writing(r, p)'
        BY <1>2 DEF Writing, Idle
    <2> QED BY <1>2, <2>1, WriterLeaves
<1> QED BY <1>1, <1>4, <1>5, <1>6 DEF SInv

\* The steps after the commit, and failures, touch no order.
LEMMA RowFreeStepKeepsS ==
    ASSUME SInv, IInv', NEW r \in Requests, NEW d,
           calls' = [calls EXCEPT ![r] = d],
           d.stage \notin {"save", "upsert", "store"},
           UNCHANGED <<rows, rejected, acceptors>>
    PROVE  SInv'
<1>1. calls'[r] = d /\ TypeOK
    BY DEF SInv, IInv, TypeOK
<1>2. CallsAreFresh'
    <2> SUFFICES ASSUME NEW q \in Requests, Busy(q)' PROVE CallIsFresh(calls[q])'
        BY DEF CallsAreFresh
    <2>1. CASE q = r
        BY <1>1, <2>1 DEF CallIsFresh
    <2>2. CASE q # r
        <3>1. calls'[q] = calls[q] /\ CallIsFresh(calls[q])
            BY <2>2, <1>1 DEF SInv, CallsAreFresh, Busy, TypeOK
        <3> QED BY <3>1 DEF CallIsFresh
    <2> QED BY <2>1, <2>2
<1>3. OneWriter'
    <2>1. \A p \in Orders : ~Writing(r, p)'
        BY <1>1 DEF Writing
    <2> QED BY <2>1, WriterLeaves
<1> QED BY <1>2, <1>3, RowsInvFrame DEF SInv

LEMMA RestKeepsS ==
    ASSUME SInv, NEW r \in Requests,
           \/ RecordCouponUsage(r) \/ CreateOrderChat(r) \/ CreditEarnings(r)
           \/ RecordAction(r) \/ ReplyCredentials(r) \/ RecordReveal(r) \/ Fail(r)
    PROVE  SInv'
<1>1. IInv' /\ IInv
    BY FollowUpKeeps, RecordRevealKeeps, FailKeeps DEF SInv
<1>2. UNCHANGED <<rows, rejected, acceptors>>
    BY DEF RecordCouponUsage, CreateOrderChat, CreditEarnings, RecordAction, ReplyCredentials,
       RecordReveal, Fail, history
<1>3. CASE RecordReveal(r)
    <2> PICK d : d = [calls[r] EXCEPT !.stage = "reply"]
        OBVIOUS
    <2>1. calls[r] \in Calls
        BY <1>1, <1>3, BusyCall DEF RecordReveal, At, IInv
    <2>2. calls' = [calls EXCEPT ![r] = d] /\ d.stage = "reply"
        BY <1>1, <1>3, <2>1 DEF RecordReveal, Advance, IInv, TypeOK, Calls
    <2> QED BY <1>1, <1>2, <2>2, RowFreeStepKeepsS
<1>4. CASE ~RecordReveal(r)
    <2>1. calls' = [calls EXCEPT ![r] = Idle]
        BY <1>4 DEF RecordCouponUsage, CreateOrderChat, CreditEarnings, RecordAction,
           ReplyCredentials, Fail, Finish
    <2> QED BY <1>1, <1>2, <2>1, RowFreeStepKeepsS DEF Idle
<1> QED BY <1>3, <1>4

LEMMA NextKeepsS == Serialized /\ SInv /\ [Next]_lifecycleVars => SInv'
<1> SUFFICES ASSUME Serialized, SInv, [Next]_lifecycleVars PROVE SInv'
    OBVIOUS
<1>1. CASE Next
    <2> PICK r \in Requests : BeginCall(r) \/ Proceed(r) \/ Fail(r)
        BY <1>1 DEF Next
    <2>1. CASE BeginCall(r)
        BY <2>1, BeginCallIsFresh
    <2>2. CASE Proceed(r) \/ Fail(r)
        BY <2>2, DeleteCredentialsKeepsS, CommitSaveKeepsS, StoreCredentialsKeepsS,
           RestKeepsS DEF Proceed
    <2> QED BY <2>1, <2>2
<1>2. CASE UNCHANGED lifecycleVars
    <2>1. UNCHANGED <<rows, rejected, calls, acceptors>> /\ IInv'
        BY <1>2, NextKeeps DEF lifecycleVars, SInv
    <2> QED BY <2>1, RowsInvFrame DEF SInv, CallsAreFresh, CallIsFresh, Busy, OneWriter, Writing
<1> QED BY <1>1, <1>2

THEOREM SInvHolds == ASSUME Serialized PROVE Spec => []SInv
BY InitSInv, NextKeepsS, PTL DEF Spec

\* Without overlapping writes, credentials exist only on orders that wait for a
\* booster or are being worked on: none on a completed or cancelled order.
THEOREM CredentialsEndWithOrder == ASSUME Serialized PROVE Spec => []CredentialsOnlyWhileLive
BY SInvHolds, PTL DEF SInv, RowsInv

\* Without overlapping writes, at most one booster is credited for a sale.
THEOREM OneCreditPerSale == ASSUME Serialized PROVE Spec => []SaleCreditedOnce
<1>1. SInv => SaleCreditedOnce
    BY DEF SInv, IInv, RowsInv, AcceptsMatchRow, OnlyAcceptorsEarn, SaleCreditedOnce
<1> QED BY <1>1, SInvHolds, PTL

\* Without overlapping writes, an accepted order is never cancelled.
THEOREM NoCancelAfterAccept == ASSUME Serialized PROVE Spec => []CancelledOnlyBeforeAcceptance
<1>1. SInv => CancelledOnlyBeforeAcceptance
    BY DEF SInv, RowsInv, AcceptsMatchRow, AcceptedStatuses, CancelledOnlyBeforeAcceptance
<1> QED BY <1>1, SInvHolds, PTL

\* Without overlapping writes, no order waits for a booster who rejected it.
THEOREM RejecterLeaves == ASSUME Serialized PROVE Spec => []NotLeftWithItsRejecter
<1>1. SInv => NotLeftWithItsRejecter
    BY DEF SInv, RowsInv, RejecterIsGone, NotLeftWithItsRejecter
<1> QED BY <1>1, SInvHolds, PTL

-------------------------------------------------------------------------------
(* A coupon is counted once: only the commit of a payment that was still   *)
(* awaited leads to the recording of its usage, and there is one of them.  *)
OnceInv ==
    /\ \A o \in Orders : rows[o].status = "awaiting_payment" => o \notin paid
    /\ \A r \in Requests : At(r, "usage") => usages[calls[r].order] = 0
    /\ \A r, q \in Requests :
            At(r, "usage") /\ At(q, "usage") /\ calls[r].order = calls[q].order => r = q
    /\ CouponUsedOnce

\* A handler that moves without a payment to count leaves everything counted as it was.
LEMMA NothingToCount ==
    ASSUME SInv, OnceInv, NEW r \in Requests, NEW d, calls' = [calls EXCEPT ![r] = d],
           d.stage # "usage", UNCHANGED <<paid, usages>>,
           \A o \in Orders :
                rows'[o].status = "awaiting_payment" => rows[o].status = "awaiting_payment"
    PROVE  OnceInv'
<1>1. \A q \in Requests : calls'[q] = IF q = r THEN d ELSE calls[q]
    BY DEF SInv, IInv, TypeOK
<1> QED BY <1>1 DEF OnceInv, At, CouponUsedOnce

LEMMA CommitCounts ==
    ASSUME SInv, OnceInv, NEW r \in Requests, CommitSave(r)
    PROVE  OnceInv'
<1> PICK c : c = calls[r]
    OBVIOUS
<1> PICK d : d = AfterSave(c)
    OBVIOUS
<1> PICK o : o = c.order
    OBVIOUS
<1>1. /\ c \in Calls /\ c.stage = "upsert" /\ o \in Orders /\ c.op \in Saves
      /\ IsFresh(c.op, c.actor, rows[o], c.snap) /\ SavedRow(c) = c.snap
    <2>1. c \in Calls /\ CallIsBacked(c) /\ c.stage = "upsert"
        BY BusyCall DEF SInv, IInv, CallsAreBacked, CommitSave, At
    <2> QED BY <2>1, FreshSaveWritesCopy DEF CallIsBacked, SaveIsBacked, Calls, CommitSave
<1>2. /\ calls' = [calls EXCEPT ![r] = d]
      /\ rows'[o] = c.snap /\ \A x \in Orders : x # o => rows'[x] = rows[x]
      /\ paid' = paid \cup (IF c.op = "pay" THEN {o} ELSE {})
      /\ usages' = usages
    BY <1>1 DEF CommitSave, followUps, SInv, IInv, TypeOK
<1>3. CASE c.op = "pay"
    <2>1. rows[o].status = "awaiting_payment" /\ c.snap.status = "pending_booster"
        BY <1>1, <1>3 DEF IsFresh, MayConfirmPayment, PaymentConfirmed, SInv, IInv, TypeOK, Rows
    <2>2. o \notin paid
        BY <1>1, <2>1 DEF OnceInv
    <2>3. usages[o] = 0
        BY <1>1, <2>2 DEF SInv, IInv, FollowUpsFollowACommit
    <2>4. \A q \in Requests : At(q, "usage") => calls[q].order # o
        BY <2>2, BusyCall DEF At, SInv, IInv, CallsAreBacked, CallIsBacked
    <2>5. d.stage = "usage" => d.order = o
        BY <1>1 DEF AfterSave, Calls, Idle
    <2>6. \A q \in Requests : calls'[q] = IF q = r THEN d ELSE calls[q]
        BY <1>2 DEF SInv, IInv, TypeOK
    <2>7. \A x \in Orders : rows'[x].status = "awaiting_payment" => x # o
        BY <1>2, <2>1
    <2> QED BY <1>2, <1>3, <2>3, <2>4, <2>5, <2>6, <2>7 DEF OnceInv, At, CouponUsedOnce
<1>4. CASE c.op # "pay"
    <2>1. d.stage # "usage"
        BY <1>1, <1>4 DEF AfterSave, Calls, Idle
    <2>2. c.snap.status = "awaiting_payment" => rows[o].status = "awaiting_payment"
        <3>1. rows[o] \in Rows
            BY <1>1 DEF SInv, IInv, TypeOK
        <3> QED BY <1>1, <1>4, <3>1
                DEF IsFresh, Saves, Operations, Accepted, Rejected, Completed, Cancelled,
                    ClearedCredentials, Rows
    <2>3. \A x \in Orders :
                rows'[x].status = "awaiting_payment" => rows[x].status = "awaiting_payment"
        BY <1>2, <2>2
    <2>4. UNCHANGED <<paid, usages>>
        BY <1>2, <1>4
    <2> QED BY <1>2, <2>1, <2>3, <2>4, NothingToCount
<1> QED BY <1>3, <1>4

LEMMA UsageCounts ==
    ASSUME SInv, OnceInv, NEW r \in Requests, RecordCouponUsage(r)
    PROVE  OnceInv'
<1> PICK o : o = calls[r].order
    OBVIOUS
<1>1. o \in Orders /\ usages[o] = 0
    BY BusyCall DEF RecordCouponUsage, At, OnceInv, SInv, IInv, Calls
<1>2. \A q \in Requests : At(q, "usage") /\ q # r => calls[q].order # o
    BY DEF RecordCouponUsage, OnceInv
<1>3. \A x \in Orders : usages'[x] = IF x = o THEN 1 ELSE usages[x]
    BY <1>1 DEF RecordCouponUsage, Bump, SInv, IInv, TypeOK
<1>4. \A q \in Requests : calls'[q] = IF q = r THEN Idle ELSE calls[q]
    BY DEF RecordCouponUsage, Finish, SInv, IInv, TypeOK
<1>5. UNCHANGED <<rows, paid>>
    BY DEF RecordCouponUsage, history
<1>6. \A q \in Requests : At(q, "usage")' => q # r /\ At(q, "usage") /\ calls'[q] = calls[q]
    BY <1>4 DEF At, Idle
<1>7. \A q \in Requests : At(q, "usage") => calls[q].order \in Orders
    BY BusyCall DEF At, SInv, IInv, Calls
<1>8. \A q \in Requests : At(q, "usage")' => usages'[calls'[q].order] = 0
    BY <1>2, <1>3, <1>6, <1>7 DEF OnceInv
<1>9. CouponUsedOnce'
    BY <1>3 DEF CouponUsedOnce, OnceInv
<1> QED BY <1>5, <1>6, <1>8, <1>9 DEF OnceInv

LEMMA NextCounts == Serialized /\ SInv /\ OnceInv /\ [Next]_lifecycleVars => OnceInv'
<1> SUFFICES ASSUME SInv, OnceInv, [Next]_lifecycleVars PROVE OnceInv'
    OBVIOUS
<1>1. CASE UNCHANGED lifecycleVars
    BY <1>1 DEF lifecycleVars, OnceInv, At, CouponUsedOnce
<1>2. CASE Next
    <2> PICK r \in Requests : BeginCall(r) \/ Proceed(r) \/ Fail(r)
        BY <1>2 DEF Next
    <2>0. Idle.stage # "usage"
        BY DEF Idle
    <2>1. CASE BeginCall(r)
        <3>1. PICK op, o, b, stage, snap :
                Begin(r, op, o, b, stage, snap) /\ stage \in {"save", "store", "audit"}
            BY <2>1 DEF BeginCall, BeginPay, BeginAccept, BeginReject, BeginComplete,
               BeginCancel, BeginForceCancel, BeginClear, BeginStore, BeginReveal
        <3>2. PICK d : d = [stage |-> stage, op |-> op, order |-> o, actor |-> b,
                            snap |-> snap, wipe |-> FALSE]
            OBVIOUS
        <3>3. calls' = [calls EXCEPT ![r] = d] /\ UNCHANGED <<rows, paid, usages>>
            BY <3>1, <3>2 DEF Begin, followUps, history
        <3>4. d.stage # "usage"
            BY <3>1, <3>2
        <3> QED BY <3>3, <3>4, NothingToCount
    <2>2. CASE DeleteCredentials(r) \/ RecordReveal(r)
        <3>1. calls[r] \in Calls
            BY <2>2, BusyCall DEF DeleteCredentials, RecordReveal, At, SInv, IInv
        <3>2. PICK d : calls' = [calls EXCEPT ![r] = d] /\ d.stage \in {"upsert", "reply"}
            <4>1. CASE DeleteCredentials(r)
                <5>1. PICK w : w = (~calls[r].snap.creds /\ rows[calls[r].order].creds)
                    OBVIOUS
                <5>2. PICK d : d = [calls[r] EXCEPT !.stage = "upsert", !.wipe = w]
                    OBVIOUS
                <5>3. calls' = [calls EXCEPT ![r] = d] /\ d.stage = "upsert"
                    BY <3>1, <4>1, <5>1, <5>2 DEF DeleteCredentials, SInv, IInv, TypeOK, Calls
                <5> QED BY <5>3
            <4>2. CASE RecordReveal(r)
                <5>1. PICK d : d = [calls[r] EXCEPT !.stage = "reply"]
                    OBVIOUS
                <5>2. calls' = [calls EXCEPT ![r] = d] /\ d.stage = "reply"
                    BY <3>1, <4>2, <5>1 DEF RecordReveal, Advance, SInv, IInv, TypeOK, Calls
                <5> QED BY <5>2
            <4> QED BY <2>2, <4>1, <4>2
        <3>3. UNCHANGED <<rows, paid, usages>>
            BY <2>2 DEF DeleteCredentials, RecordReveal, followUps, history
        <3> QED BY <3>2, <3>3, NothingToCount
    <2>3. CASE StoreCredentials(r)
        <3>1. PICK o : o = calls[r].order
            OBVIOUS
        <3>2. o \in Orders /\ rows \in [Orders -> Rows]
            BY <2>3, <3>1, BusyCall DEF StoreCredentials, At, SInv, IInv, TypeOK, Calls
        <3>3. rows'[o].status = rows[o].status /\ \A x \in Orders : x # o => rows'[x] = rows[x]
            BY <2>3, <3>1, <3>2 DEF StoreCredentials, CredentialsStored, Rows
        <3>4. calls' = [calls EXCEPT ![r] = Idle] /\ UNCHANGED <<paid, usages>>
            BY <2>3 DEF StoreCredentials, Finish, followUps, history
        <3>5. \A x \in Orders : rows'[x].status = rows[x].status
            BY <3>3
        <3> QED BY <2>0, <3>4, <3>5, NothingToCount
    <2>4. CASE \/ CreateOrderChat(r) \/ CreditEarnings(r) \/ RecordAction(r)
               \/ ReplyCredentials(r) \/ Fail(r)
        <3>1. calls' = [calls EXCEPT ![r] = Idle] /\ UNCHANGED <<rows, paid, usages>>
            BY <2>4 DEF CreateOrderChat, CreditEarnings, RecordAction, ReplyCredentials, Fail,
               Finish, followUps, history
        <3> QED BY <2>0, <3>1, NothingToCount
    <2> QED BY <2>1, <2>2, <2>3, <2>4, CommitCounts, UsageCounts DEF Proceed
<1> QED BY <1>1, <1>2

\* Without overlapping writes, the coupon of an order is counted as used at most once,
\* however often its payment is confirmed.
THEOREM CouponCountedOnce == ASSUME Serialized PROVE Spec => []CouponUsedOnce
<1>1. Init => OnceInv
    <2> SUFFICES ASSUME Init PROVE OnceInv
        OBVIOUS
    <2>1. paid = {} /\ \A r \in Requests : calls[r].stage = "idle"
        BY DEF Init, Idle
    <2> QED BY <2>1 DEF Init, OnceInv, At, CouponUsedOnce
<1>2. SInv /\ OnceInv /\ [Next]_lifecycleVars => OnceInv'
    BY NextCounts
<1>3. OnceInv => CouponUsedOnce
    BY DEF OnceInv
<1> QED BY <1>1, <1>2, <1>3, SInvHolds, PTL DEF Spec

-------------------------------------------------------------------------------
\* OrderService's operators on rows are the ones OrderLifecycle uses.
LEMMA SameTransitions ==
    \A from, to : Service!CanTransition(from, to) = CanTransition(from, to)
BY DEF Service!CanTransition, CanTransition, Service!AllowedTransitions, AllowedTransitions,
       Service!OrderStatus, OrderStatus

LEMMA SameRowOperators ==
    ASSUME NEW row \in Rows
    PROVE  /\ Service!MayConfirmPayment(row) = MayConfirmPayment(row)
           /\ Service!PaymentConfirmed(row) = PaymentConfirmed(row)
           /\ Service!Completed(row) = Completed(row)
           /\ Service!MayCancel(row) = MayCancel(row)
           /\ Service!Cancelled(row) = Cancelled(row)
           /\ Service!ClearedCredentials(row) = ClearedCredentials(row)
           /\ Service!MaySetCredentials(row) = MaySetCredentials(row)
           /\ Service!CredentialsStored(row) = CredentialsStored(row)
BY SameTransitions DEF Service!MayConfirmPayment, MayConfirmPayment,
   Service!PaymentConfirmed, PaymentConfirmed, Service!Completed, Completed,
   Service!MayCancel, MayCancel, Service!Cancelled, Cancelled,
   Service!ClearedCredentials, ClearedCredentials,
   Service!MaySetCredentials, MaySetCredentials, Service!CredentialStatuses,
   CredentialStatuses, Service!CredentialsStored, CredentialsStored

LEMMA SameBoosterOperators ==
    ASSUME NEW row \in Rows, NEW b \in Boosters
    PROVE  /\ Service!MayAccept(row, b) = MayAccept(row, b)
           /\ Service!Accepted(row, b) = Accepted(row, b)
           /\ Service!MayReject(row, b) = MayReject(row, b)
           /\ Service!Rejected(row, b) = Rejected(row, b)
           /\ Service!MayComplete(row, b) = MayComplete(row, b)
BY SameTransitions DEF Service!MayAccept, MayAccept, Service!Accepted, Accepted,
   Service!MayReject, MayReject, Service!Rejected, Rejected, Service!MayComplete, MayComplete

LEMMA InitRefines == Init => Service!ServiceInit
BY DEF Init, Service!ServiceInit, DraftRow, Service!DraftRow

\* The commit of a fresh copy is the use case's step of the abstract service.
LEMMA CommitRefines ==
    ASSUME SInv, NEW r \in Requests, CommitSave(r)
    PROVE  Service!ServiceNext
<1> PICK op, o, b, snap : /\ op = calls[r].op /\ o = calls[r].order
                          /\ b = calls[r].actor /\ snap = calls[r].snap
    OBVIOUS
<1> PICK row : row = rows[o]
    OBVIOUS
<1>1. /\ o \in Orders /\ op \in Saves /\ row \in Rows
      /\ IsFresh(op, b, row, snap) /\ SavedRow(calls[r]) = snap
    <2>1. At(r, "upsert") /\ IInv
        BY DEF CommitSave, SInv
    <2>2. calls[r] \in Calls /\ CallIsBacked(calls[r]) /\ calls[r].stage = "upsert"
        BY <2>1, BusyCall DEF At, IInv, CallsAreBacked
    <2> QED BY <2>1, <2>2, FreshSaveWritesCopy DEF CallIsBacked, SaveIsBacked, Calls, IInv, TypeOK
<1>2. /\ rows' = [rows EXCEPT ![o] = snap]
      /\ rejected' = [rejected EXCEPT ![o] =
                        rejected[o] \cup (IF op = "reject" THEN {b} ELSE {})]
      /\ op # "reject" => rejected' = rejected
    BY <1>1 DEF CommitSave, SInv, IInv, TypeOK
<1> USE DEF Service!Write, IsFresh
<1>3. CASE op = "pay"
    <2>1. Service!ServicePay(o)
        BY <1>1, <1>2, <1>3, SameRowOperators DEF Service!ServicePay
    <2> QED BY <1>1, <2>1 DEF Service!ServiceNext
<1>4. CASE op = "accept"
    <2>1. Service!ServiceAccept(o, b) /\ b \in Boosters
        BY <1>1, <1>2, <1>4, SameRowOperators, SameBoosterOperators DEF Service!ServiceAccept
    <2> QED BY <1>1, <2>1 DEF Service!ServiceNext
<1>5. CASE op = "reject"
    <2>1. Service!ServiceReject(o, b) /\ b \in Boosters
        BY <1>1, <1>2, <1>5, SameRowOperators, SameBoosterOperators DEF Service!ServiceReject
    <2> QED BY <1>1, <2>1 DEF Service!ServiceNext
<1>6. CASE op = "complete"
    <2>1. Service!ServiceComplete(o, b) /\ b \in Boosters
        BY <1>1, <1>2, <1>6, SameRowOperators, SameBoosterOperators DEF Service!ServiceComplete
    <2> QED BY <1>1, <2>1 DEF Service!ServiceNext
<1>7. CASE op \in {"cancel", "forceCancel"}
    <2>1. Service!ServiceCancel(o)
        BY <1>1, <1>2, <1>7, SameRowOperators DEF Service!ServiceCancel
    <2> QED BY <1>1, <2>1 DEF Service!ServiceNext
<1>8. CASE op = "clear"
    <2>1. Service!ServiceClearCredentials(o)
        BY <1>1, <1>2, <1>8, SameRowOperators DEF Service!ServiceClearCredentials
    <2> QED BY <1>1, <2>1 DEF Service!ServiceNext
<1> QED BY <1>1, <1>3, <1>4, <1>5, <1>6, <1>7, <1>8 DEF Saves, Operations

LEMMA StoreRefines ==
    ASSUME SInv, NEW r \in Requests, StoreCredentials(r)
    PROVE  Service!ServiceNext \/ UNCHANGED <<rows, rejected>>
<1> PICK o : o = calls[r].order
    OBVIOUS
<1>1. o \in Orders /\ rows \in [Orders -> Rows]
    BY BusyCall DEF SInv, IInv, TypeOK, StoreCredentials, At, Calls
<1>2. CASE MaySetCredentials(rows[o])
    <2>1. /\ rows' = [rows EXCEPT ![o] = CredentialsStored(rows[o])]
          /\ rejected' = rejected
        BY <1>1, <1>2 DEF StoreCredentials
    <2>2. Service!ServiceStoreCredentials(o)
        BY <1>1, <1>2, <2>1, SameRowOperators DEF Service!ServiceStoreCredentials, Service!Write
    <2> QED BY <1>1, <2>2 DEF Service!ServiceNext
<1>3. CASE ~MaySetCredentials(rows[o])
    BY <1>1, <1>3 DEF StoreCredentials
<1> QED BY <1>2, <1>3

LEMMA NextRefines ==
    ASSUME SInv, [Next]_lifecycleVars
    PROVE  [Service!ServiceNext]_(Service!serviceVars)
<1>1. CASE Next
    <2> PICK r \in Requests : BeginCall(r) \/ Proceed(r) \/ Fail(r)
        BY <1>1 DEF Next
    <2>1. CASE CommitSave(r) \/ StoreCredentials(r)
        BY <2>1, CommitRefines, StoreRefines DEF Service!serviceVars
    <2>2. CASE ~(CommitSave(r) \/ StoreCredentials(r))
        <3>1. UNCHANGED <<rows, rejected>>
            BY <2>2 DEF BeginCall, BeginPay, BeginAccept, BeginReject, BeginComplete, BeginCancel,
               BeginForceCancel, BeginClear, BeginStore, BeginReveal, Begin, Proceed,
               DeleteCredentials, RecordCouponUsage, CreateOrderChat, CreditEarnings,
               RecordAction, RecordReveal, ReplyCredentials, Fail
        <3> QED BY <3>1 DEF Service!serviceVars
    <2> QED BY <2>1, <2>2
<1>2. CASE UNCHANGED lifecycleVars
    BY <1>2 DEF lifecycleVars, Service!serviceVars
<1> QED BY <1>1, <1>2

\* Without overlapping writes, the handlers implement the abstract service: each
\* use case takes effect at one instant, on the order as it is stored then.
THEOREM LifecycleImplementsService == ASSUME Serialized PROVE Spec => ImplementsService
<1>1. Spec => []SInv
    BY SInvHolds
<1>2. SInv /\ [Next]_lifecycleVars => [Service!ServiceNext]_(Service!serviceVars)
    BY NextRefines
<1> QED BY <1>1, <1>2, InitRefines, PTL DEF Spec, ImplementsService, Service!ServiceSpec
================================================================================
