---------------------------- MODULE OrderLifecycle -----------------------------
(***************************************************************************)
(* The use cases of the orders module as the API runs them: a handler      *)
(* reads an order, decides on that copy, writes the copy back in a         *)
(* transaction of two statements, and then makes its follow-up calls       *)
(* (chat, coupon usage, earnings, audit).  Handlers of the Node process,   *)
(* and of its replicas, interleave at every await, and one that throws     *)
(* leaves behind whatever it has already written.                          *)
(*                                                                         *)
(* Serialized says whether a handler may read an order that another one    *)
(* has read and not yet written back.  Nothing in the code prevents it (no *)
(* lock, no version column), so FALSE is the deployed system; TRUE is the  *)
(* system whose calls happen not to meet there, for which OrderService is  *)
(* the specification.                                                      *)
(***************************************************************************)
EXTENDS OrderDomain, Naturals

CONSTANTS
    Orders,
    Requests,       \* the handlers that may be running at the same time
    CouponOrders,   \* the orders that were priced with a coupon
    Serialized,     \* is an order read only when no write of it is under way?
    MaxFails        \* how many handlers may throw, or die with the process

ASSUME LifecycleAssumption ==
    /\ CouponOrders \subseteq Orders
    /\ Serialized \in BOOLEAN
    /\ MaxFails \in Nat

VARIABLES
    rows,       \* rows[o]: the orders row, and whether a credentials row exists
    rejected,   \* rejected[o]: boosters with a row in orderBoosterRejection
    calls,      \* calls[r]: the handler r is running, and how far it has come
    chats,      \* orders with a chat
    usages,     \* usages[o]: coupon usage events recorded for o: 0, 1 or more
    credited,   \* credited[o]: boosters whose wallet was credited for o
    audited,    \* <<o, b>> with a credential reveal on record
    governed,   \* orders with an ORDER_FORCE_CANCEL entry in the admin audit
    fails,      \* handlers that have failed so far
    \* History, read by the properties only:
    paid,       \* orders whose payment confirmation was committed
    acceptors,  \* acceptors[o]: boosters whose accept was committed
    forced,     \* orders whose forced cancellation was committed
    revealed    \* <<o, b>> such that b was sent the credentials of o

lifecycleVars == <<rows, rejected, calls, chats, usages, credited, audited,
                   governed, fails, paid, acceptors, forced, revealed>>

followUps == <<chats, usages, credited, audited, governed, revealed>>
history == <<paid, acceptors, forced>>

-------------------------------------------------------------------------------
Operations == {"pay", "accept", "reject", "complete", "cancel", "forceCancel",
               "clear", "store", "reveal"}
Saves == Operations \ {"store", "reveal"}   \* those that end in save(order)

Stages == {"save", "upsert", "store", "usage", "chat", "credit", "govern",
           "audit", "reply"}

\* A handler at work: wipe says that its transaction has deleted a credentials
\* row and not yet committed.
Calls == [stage : Stages, op : Operations, order : Orders,
          actor : Boosters \cup {NoBooster}, snap : Rows, wipe : BOOLEAN]
Idle == [stage |-> "idle"]

Tally == {0, 1, 2}      \* none, one, more than one
Bump(n) == IF n = 0 THEN 1 ELSE 2

At(r, stage) == calls[r].stage = stage
Busy(r) == calls[r] # Idle

\* Handler r has read o and not yet committed what it will write.
Writing(r, o) ==
    Busy(r) /\ calls[r].order = o /\ calls[r].stage \in {"save", "upsert", "store"}

Finish(r) == calls' = [calls EXCEPT ![r] = Idle]
Advance(r, stage) == calls' = [calls EXCEPT ![r].stage = stage]

Init ==
    /\ rows \in [Orders -> {DraftRow(b) : b \in Boosters \cup {NoBooster}}]
    /\ rejected = [o \in Orders |-> {}]
    /\ calls = [r \in Requests |-> Idle]
    /\ chats = {} /\ governed = {} /\ forced = {} /\ paid = {}
    /\ audited = {} /\ revealed = {}
    /\ usages = [o \in Orders |-> 0]
    /\ credited = [o \in Orders |-> {}]
    /\ acceptors = [o \in Orders |-> {}]
    /\ fails = 0

-------------------------------------------------------------------------------
(***************************************************************************)
(* The first half of a use case: the read, and the entity's decision on    *)
(* the copy.  A refused call answers with an error and leaves no trace.    *)
(***************************************************************************)
Begin(r, op, o, b, stage, snap) ==
    /\ ~Busy(r)
    /\ Serialized /\ op # "reveal" => \A q \in Requests : ~Writing(q, o)
    /\ calls' = [calls EXCEPT ![r] =
            [stage |-> stage, op |-> op, order |-> o, actor |-> b,
             snap |-> snap, wipe |-> FALSE]]
    /\ UNCHANGED <<rows, rejected, followUps, history, fails>>

\* A call for an order that is no longer awaiting payment returns at once.
BeginPay(r, o) ==
    /\ MayConfirmPayment(rows[o])
    /\ Begin(r, "pay", o, NoBooster, "save", PaymentConfirmed(rows[o]))

BeginAccept(r, o, b) ==
    /\ MayAccept(rows[o], b)
    /\ Begin(r, "accept", o, b, "save", Accepted(rows[o], b))

BeginReject(r, o, b) ==
    /\ MayReject(rows[o], b)
    /\ Begin(r, "reject", o, b, "save", Rejected(rows[o], b))

BeginComplete(r, o, b) ==
    /\ MayComplete(rows[o], b)
    /\ Begin(r, "complete", o, b, "save", Completed(rows[o]))

BeginCancel(r, o) ==
    /\ MayCancel(rows[o])
    /\ Begin(r, "cancel", o, NoBooster, "save", Cancelled(rows[o]))

BeginForceCancel(r, o) ==
    /\ MayCancel(rows[o])
    /\ Begin(r, "forceCancel", o, NoBooster, "save", Cancelled(rows[o]))

\* Called by the payments module when a payment fails, whatever the order's status.
BeginClear(r, o) ==
    Begin(r, "clear", o, NoBooster, "save", ClearedCredentials(rows[o]))

BeginStore(r, o) ==
    /\ MaySetCredentials(rows[o])
    /\ Begin(r, "store", o, NoBooster, "store", CredentialsStored(rows[o]))

\* to any booster
BeginRevealX(r, o, b) ==
    /\ rows[o].status = "in_progress" /\ rows[o].creds
    /\ Begin(r, "reveal", o, b, "audit", rows[o])

BeginReveal(r, o, b) ==
    /\ rows[o].status = "in_progress" /\ rows[o].booster = b /\ rows[o].creds
    /\ Begin(r, "reveal", o, b, "audit", rows[o])

-------------------------------------------------------------------------------
(***************************************************************************)
(* save(order): a transaction that deletes the credentials row if the copy *)
(* has none, then writes every column of the copy.  The isolation level is *)
(* READ COMMITTED: a row deleted by an open transaction stays visible to   *)
(* others, who wait for it if they mean to delete or replace it.           *)
(***************************************************************************)
DeletePending(o) == \E q \in Requests : At(q, "upsert") /\ calls[q].order = o /\ calls[q].wipe

DeleteCredentials(r) ==
    LET o == calls[r].order
        delete == ~calls[r].snap.creds
    IN  /\ At(r, "save")
        /\ delete => ~DeletePending(o)
        /\ calls' = [calls EXCEPT ![r].stage = "upsert",
                                  ![r].wipe = delete /\ rows[o].creds]
        /\ UNCHANGED <<rows, rejected, followUps, history, fails>>

\* nothing follows the commit
AfterSaveX(call) == Idle
AfterSave(call) ==
    CASE call.op = "pay" /\ call.order \in CouponOrders -> [call EXCEPT !.stage = "usage"]
      [] call.op = "accept" -> [call EXCEPT !.stage = "chat"]
      [] call.op = "complete" -> [call EXCEPT !.stage = "credit"]
      [] call.op = "forceCancel" -> [call EXCEPT !.stage = "govern"]
      [] OTHER -> Idle

\* The row the upsert and the commit leave: a credentials row that appeared
\* after this transaction's delete is not its concern and stays.
\* Without the delete:
SavedRowX(call) == [call.snap EXCEPT !.creds = rows[call.order].creds]
SavedRow(call) ==
    [call.snap EXCEPT !.creds = IF call.wipe THEN FALSE ELSE rows[call.order].creds]

CommitSave(r) ==
    LET call == calls[r]
        o == calls[r].order
    IN  /\ At(r, "upsert")
        /\ rows' = [rows EXCEPT ![o] = SavedRow(call)]
        /\ rejected' = [rejected EXCEPT ![o] =
                            @ \cup (IF call.op = "reject" THEN {call.actor} ELSE {})]
        /\ calls' = [calls EXCEPT ![r] = AfterSave(call)]
        /\ paid' = paid \cup (IF call.op = "pay" THEN {o} ELSE {})
        /\ acceptors' = [acceptors EXCEPT ![o] =
                            @ \cup (IF call.op = "accept" THEN {call.actor} ELSE {})]
        /\ forced' = forced \cup (IF call.op = "forceCancel" THEN {o} ELSE {})
        /\ UNCHANGED <<followUps, fails>>

\* saveCredentials writes the credentials alone, and only if the order, as it
\* is at this moment, may have them.
StoreCredentials(r) ==
    LET o == calls[r].order
    IN  /\ At(r, "store")
        /\ ~DeletePending(o)
        /\ rows' = [rows EXCEPT ![o] = IF MaySetCredentials(@) THEN CredentialsStored(@) ELSE @]
        /\ Finish(r)
        /\ UNCHANGED <<rejected, followUps, history, fails>>

-------------------------------------------------------------------------------
(* What a handler still has to do after its transaction. *)
RecordCouponUsage(r) ==
    /\ At(r, "usage")
    /\ usages' = [usages EXCEPT ![calls[r].order] = Bump(@)]
    /\ Finish(r)
    /\ UNCHANGED <<rows, rejected, chats, credited, audited, governed, revealed, history, fails>>

\* The chat is upserted on the order's id.
CreateOrderChat(r) ==
    /\ At(r, "chat")
    /\ chats' = chats \cup {calls[r].order}
    /\ Finish(r)
    /\ UNCHANGED <<rows, rejected, usages, credited, audited, governed, revealed, history, fails>>

\* The wallet keeps one credit per booster and order.
CreditEarnings(r) ==
    /\ At(r, "credit")
    /\ credited' = [credited EXCEPT ![calls[r].order] = @ \cup {calls[r].actor}]
    /\ Finish(r)
    /\ UNCHANGED <<rows, rejected, chats, usages, audited, governed, revealed, history, fails>>

RecordAction(r) ==
    /\ At(r, "govern")
    /\ governed' = governed \cup {calls[r].order}
    /\ Finish(r)
    /\ UNCHANGED <<rows, rejected, chats, usages, credited, audited, revealed, history, fails>>

\* The reveal is on record before the plaintext leaves the use case.
RecordReveal(r) ==
    /\ At(r, "audit")
    /\ audited' = audited \cup {<<calls[r].order, calls[r].actor>>}
    /\ Advance(r, "reply")
    /\ UNCHANGED <<rows, rejected, chats, usages, credited, governed, revealed, history, fails>>

ReplyCredentials(r) ==
    /\ At(r, "reply")
    /\ revealed' = revealed \cup {<<calls[r].order, calls[r].actor>>}
    /\ Finish(r)
    /\ UNCHANGED <<rows, rejected, chats, usages, credited, audited, governed, history, fails>>

\* A call of the handler throws, or its process dies: an open transaction rolls
\* back, and nothing runs the rest of the handler again.
Fail(r) ==
    /\ Busy(r)
    /\ fails < MaxFails
    /\ fails' = fails + 1
    /\ Finish(r)
    /\ UNCHANGED <<rows, rejected, followUps, history>>

-------------------------------------------------------------------------------
BeginCall(r) ==
    \E o \in Orders :
        \/ BeginPay(r, o)
        \/ BeginCancel(r, o)
        \/ BeginForceCancel(r, o)
        \/ BeginClear(r, o)
        \/ BeginStore(r, o)
        \/ \E b \in Boosters :
            \/ BeginAccept(r, o, b)
            \/ BeginReject(r, o, b)
            \/ BeginComplete(r, o, b)
            \/ BeginReveal(r, o, b)

Proceed(r) ==
    \/ DeleteCredentials(r)
    \/ CommitSave(r)
    \/ StoreCredentials(r)
    \/ RecordCouponUsage(r)
    \/ CreateOrderChat(r)
    \/ CreditEarnings(r)
    \/ RecordAction(r)
    \/ RecordReveal(r)
    \/ ReplyCredentials(r)

Next == \E r \in Requests : BeginCall(r) \/ Proceed(r) \/ Fail(r)

Spec == Init /\ [][Next]_lifecycleVars

\* A handler that was started runs until it returns or throws.
FairSpec == Spec /\ \A r \in Requests : WF_lifecycleVars(Proceed(r))

-------------------------------------------------------------------------------
(* Properties of every execution, overlapping handlers included. *)

\* Every variable has its type.
TypeOK ==
    /\ rows \in [Orders -> Rows]
    /\ rejected \in [Orders -> SUBSET Boosters]
    /\ calls \in [Requests -> Calls \cup {Idle}]
    /\ chats \subseteq Orders /\ governed \subseteq Orders
    /\ paid \subseteq Orders /\ forced \subseteq Orders
    /\ usages \in [Orders -> Tally]
    /\ credited \in [Orders -> SUBSET Boosters]
    /\ acceptors \in [Orders -> SUBSET Boosters]
    /\ audited \subseteq Orders \X Boosters
    /\ revealed \subseteq Orders \X Boosters
    /\ fails \in 0 .. MaxFails

\* The booster an order is in progress with, or was completed by, committed an
\* accept of it, and only such boosters are paid for it: no interleaving of the
\* full-row writes of accept, complete and the others invents an assignee.
OnlyAcceptorsEarn ==
    \A o \in Orders :
        /\ rows[o].status \in {"in_progress", "completed"} => rows[o].booster \in acceptors[o]
        /\ credited[o] \subseteq acceptors[o]

\* An order that is offered to boosters, worked on or completed, and one with
\* stored credentials, has been paid for (FR-032), whatever overlapped writes
\* have done to its row.
NothingBeforePayment ==
    \A o \in Orders :
        rows[o].status \in {"pending_booster", "in_progress", "completed"} \/ rows[o].creds
            => o \in paid

\* Credentials are sent only to boosters who accepted the order, and never
\* before the reveal is on record, even if the record fails or handlers die.
RevealsAreAuditedAndEarned ==
    /\ revealed \subseteq audited
    /\ \A o \in Orders, b \in Boosters : <<o, b>> \in audited => b \in acceptors[o]

\* The chat of an order opens for a booster who accepted it, and an admin audit
\* entry tells of a cancellation that was committed.
FollowUpsFollowACommit ==
    /\ \A o \in chats : acceptors[o] # {}
    /\ governed \subseteq forced
    /\ \A o \in Orders : usages[o] # 0 => o \in paid

-------------------------------------------------------------------------------
(* Properties of the system in which no write of an order meets another. *)

\* Credentials exist only while the order is waiting for a booster or worked
\* on: none before payment, none on a completed or cancelled order (FR-034).
CredentialsOnlyWhileLive ==
    \A o \in Orders : rows[o].creds => rows[o].status \in CredentialStatuses

\* One booster is paid for a sale (70% of the sale, once).
SaleCreditedOnce ==
    \A o \in Orders : \A b1, b2 \in credited[o] : b1 = b2

\* A cancelled order is one that no booster has accepted (FR-022).
CancelledOnlyBeforeAcceptance ==
    \A o \in Orders : rows[o].status = "cancelled" => acceptors[o] = {}

\* A coupon is counted as used at most once per order.
CouponUsedOnce == \A o \in Orders : usages[o] < 2

\* An order never waits for a booster who has already rejected it.
NotLeftWithItsRejecter ==
    \A o \in Orders : rows[o].status = "pending_booster" => rows[o].booster \notin rejected[o]

Service == INSTANCE OrderService

\* Every execution whose writes do not meet is one of the abstract orders service: each
\* use case takes effect at its commit, on the order as it is then.
ImplementsService == Service!ServiceSpec

-------------------------------------------------------------------------------
(* Liveness, as long as no handler fails. *)

\* Work done is paid: a completed order leads to a credited wallet.
CompletedLeadsToCredit ==
    \A o \in Orders : rows[o].status = "completed" ~> credited[o] # {} \/ fails > 0
================================================================================
