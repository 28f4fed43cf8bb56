----------------------------- MODULE BoosterWallet -----------------------------
(***************************************************************************)
(* The wallet of one booster: two balances in the wallets table, the       *)
(* ledger in walletTransaction, and the jobs that release locked credits.  *)
(* A handler reads both tables, changes the entity in memory and saves it  *)
(* in two commits: the balances first, then a transaction that deletes the *)
(* ledger and writes it again.  The release jobs are kept by BullMQ; a     *)
(* worker sends each of them to the API when its delay is over, and again  *)
(* when it does not hear of success.                                       *)
(*                                                                         *)
(* Nothing makes handlers wait for each other, and nothing joins the two   *)
(* commits.  Serialized and TornSaves say whether the executions under     *)
(* consideration are those in which the handlers happen not to meet, and   *)
(* in which a handler may fail between its commits.                        *)
(***************************************************************************)
EXTENDS Integers, FiniteSetsExt

CONSTANTS
    Orders,         \* the orders this booster may be paid for
    Pay,            \* Pay[o]: boosterAmount of the payment of o, in cents
    Amounts,        \* the amounts a withdrawal may ask for
    Requests,       \* the handlers that may be running at the same time
    Ids,            \* the values of randomUUID: a bound on credits and debits
    Attempts,       \* how often a job is tried (WALLET_FUNDS_RELEASE_JOB_OPTIONS)
    MaxFails,       \* how many handlers may fail, or replies get lost
    Serialized,     \* is the wallet read only when no save of it is under way?
    TornSaves       \* may a handler fail between the two commits of its save?

ASSUME WalletAssumption ==
    /\ Pay \in [Orders -> Nat \ {0}]
    /\ Amounts \subseteq Nat \ {0}
    /\ IsFiniteSet(Ids)
    /\ Attempts \in Nat \ {0}
    /\ MaxFails \in Nat
    /\ Serialized \in BOOLEAN
    /\ TornSaves \in BOOLEAN

VARIABLES
    locked,         \* wallets.balanceLocked
    withdrawable,   \* wallets.balanceWithdrawable
    ledger,         \* ledger[i]: the walletTransaction row with id i, if any
    calls,          \* calls[r]: the handler r is running, and how far it has come
    jobs,           \* jobs[o]: the release job of o
    matured,        \* the orders whose lock period is over
    minted,         \* the ids given out
    governed,       \* orders with an ORDER_BOOSTER_PAYMENT_RELEASE entry in the audit
    fails           \* failures so far

walletVars == <<locked, withdrawable, ledger, calls, jobs, matured, minted, governed, fails>>
tables == <<locked, withdrawable, ledger>>

-------------------------------------------------------------------------------
Absent == [kind |-> "absent"]
Credits == [kind : {"credit"}, order : Orders, release : {"none", "schedule", "admin"}]
Debits == [kind : {"debit"}, amount : Amounts]
Ledgers == [Ids -> Credits \cup Debits \cup {Absent}]

Used(l) == {i \in Ids : l[i] # Absent}

\* the order_completion credits of o; one, if all is well
CreditsOf(l, o) == {i \in Ids : l[i].kind = "credit" /\ l[i].order = o}
Unreleased(l, o) == {i \in CreditsOf(l, o) : l[i].release = "none"}

\* Money moves by the amount of each credit that is released.
Worth(ids, o) == Cardinality(ids) * Pay[o]

Operations == {"credit", "release", "force", "withdraw"}
Stages == {"balances", "ledger", "insert", "schedule", "reply", "govern"}

\* A handler at work: the entity it holds; for a release, the attempt of the job
\* it serves; and while it rewrites the ledger, the ids of the rows that others
\* have inserted since it started to delete.
Calls == [stage : Stages, op : Operations, order : Orders \cup {"any"}, attempt : 0 .. Attempts,
          locked : Int, withdrawable : Int, ledger : Ledgers, fresh : SUBSET Ids]
Idle == [stage |-> "idle"]

At(r, stage) == calls[r].stage = stage
Busy(r) == calls[r] # Idle
Saving(r) == calls[r].stage \in {"balances", "ledger", "insert"}
Finish(r) == calls' = [calls EXCEPT ![r] = Idle]

JobStates == {"none", "waiting", "active", "done", "failed"}
NewJob == [state |-> "waiting", tries |-> 0]

\* A job that did not succeed is tried again, Attempts times in all.
\* Never again:
RetriedX(job) == [job EXCEPT !.state = "failed"]
Retried(job) == [job EXCEPT !.state = IF job.tries < Attempts THEN "waiting" ELSE "failed"]

Init ==
    /\ locked = 0 /\ withdrawable = 0
    /\ ledger = [i \in Ids |-> Absent]
    /\ calls = [r \in Requests |-> Idle]
    /\ jobs = [o \in Orders |-> [state |-> "none", tries |-> 0]]
    /\ matured = {} /\ minted = {} /\ governed = {}
    /\ fails = 0

-------------------------------------------------------------------------------
(***************************************************************************)
(* The entity: what each use case leaves in memory.  A definition whose    *)
(* name ends in X is a faulty variant of the one after it.                 *)
(***************************************************************************)
Entity(l, w, lg) == [locked |-> l, withdrawable |-> w, ledger |-> lg]

CreditLocked(o, id) ==
    Entity(locked + Pay[o], withdrawable,
           [ledger EXCEPT ![id] = [kind |-> "credit", order |-> o, release |-> "none"]])

\* the locked balance is left as it was
ReleasedX(ids, o, source) ==
    Entity(locked, withdrawable + Worth(ids, o),
           [i \in Ids |-> IF i \in ids THEN [ledger[i] EXCEPT !.release = source] ELSE ledger[i]])
Released(ids, o, source) ==
    Entity(locked - Worth(ids, o), withdrawable + Worth(ids, o),
           [i \in Ids |-> IF i \in ids THEN [ledger[i] EXCEPT !.release = source] ELSE ledger[i]])

\* whatever the balance is
MayWithdrawX(amount) == amount > 0
MayWithdraw(amount) == amount <= withdrawable

Withdrawn(amount, id) ==
    Entity(locked, withdrawable - amount,
           [ledger EXCEPT ![id] = [kind |-> "debit", amount |-> amount]])

\* The credits a scheduled release takes: none before the lock period is over.
Due(o) == IF o \in matured THEN Unreleased(ledger, o) ELSE {}

-------------------------------------------------------------------------------
(* The handlers: the read, and the decision on what was read. *)
Begin(r, op, o, attempt, stage, entity) ==
    /\ ~Busy(r)
    /\ Serialized => \A q \in Requests : ~Saving(q)
    /\ calls' = [calls EXCEPT ![r] =
            [stage |-> stage, op |-> op, order |-> o, attempt |-> attempt,
             locked |-> entity.locked, withdrawable |-> entity.withdrawable,
             ledger |-> entity.ledger, fresh |-> {}]]
    /\ UNCHANGED <<tables, matured, governed, fails>>

Unchanged == Entity(locked, withdrawable, ledger)

\* randomUUID: which id it is makes no difference, only that it is new.
NewId == CHOOSE id \in Ids : id \notin minted
Mint == Ids \ minted # {} /\ minted' = minted \cup {NewId}

\* An order that has its credit only gets its job scheduled.  Without that:
BeginCreditX(r, o) ==
    /\ UNCHANGED jobs
    /\ Mint
    /\ Begin(r, "credit", o, 0, "balances", CreditLocked(o, NewId))
BeginCredit(r, o) ==
    /\ UNCHANGED jobs
    /\ \/ /\ CreditsOf(ledger, o) # {}
          /\ Begin(r, "credit", o, 0, "schedule", Unchanged)
          /\ UNCHANGED minted
       \/ /\ CreditsOf(ledger, o) = {}
          /\ Mint
          /\ Begin(r, "credit", o, 0, "balances", CreditLocked(o, NewId))

\* The worker sends a job whose delay is over.  A release with nothing to do is
\* answered with success, so that the job is not tried again.
\* before the delay is over
StartReleaseX(r, o) ==
    /\ jobs[o].state = "waiting"
    /\ jobs' = [jobs EXCEPT ![o] = [state |-> "active", tries |-> @.tries + 1]]
    /\ Begin(r, "release", o, jobs[o].tries + 1,
             IF Due(o) = {} THEN "reply" ELSE "balances",
             Released(Due(o), o, "schedule"))
    /\ UNCHANGED minted
StartRelease(r, o) ==
    /\ jobs[o].state = "waiting"
    /\ o \in matured
    /\ jobs' = [jobs EXCEPT ![o] = [state |-> "active", tries |-> @.tries + 1]]
    /\ Begin(r, "release", o, jobs[o].tries + 1,
             IF Due(o) = {} THEN "reply" ELSE "balances",
             Released(Due(o), o, "schedule"))
    /\ UNCHANGED minted

\* An admin may not release what is released, but need not wait.
BeginForceRelease(r, o) ==
    /\ Unreleased(ledger, o) # {}
    /\ Begin(r, "force", o, 0, "balances", Released(Unreleased(ledger, o), o, "admin"))
    /\ UNCHANGED <<jobs, minted>>

BeginWithdraw(r, amount) ==
    /\ MayWithdraw(amount)
    /\ Mint
    /\ Begin(r, "withdraw", "any", 0, "balances", Withdrawn(amount, NewId))
    /\ UNCHANGED jobs

-------------------------------------------------------------------------------
(* save(wallet). *)
UpsertBalances(r) ==
    /\ At(r, "balances")
    /\ locked' = calls[r].locked
    /\ withdrawable' = calls[r].withdrawable
    /\ calls' = [calls EXCEPT ![r].stage = "ledger"]
    /\ UNCHANGED <<ledger, jobs, matured, minted, governed, fails>>

DeleteLedger(r) ==
    /\ At(r, "ledger")
    /\ calls' = [calls EXCEPT ![r].stage = "insert"]
    /\ UNCHANGED <<tables, jobs, matured, minted, governed, fails>>

\* nothing follows the commit
AfterSaveX(call) == Idle
AfterSave(call) ==
    CASE call.op = "credit"  -> [call EXCEPT !.stage = "schedule"]
      [] call.op = "release" -> [call EXCEPT !.stage = "reply"]
      [] call.op = "force"   -> [call EXCEPT !.stage = "govern"]
      [] OTHER               -> Idle

\* What is in the table afterwards: the rows of the entity, and those that this
\* transaction's delete was too early to see.
Rewritten(call) == [i \in Ids |-> IF i \in call.fresh THEN ledger[i] ELSE call.ledger[i]]

InsertLedger(r) ==
    /\ At(r, "insert")
    /\ calls[r].fresh \cap Used(calls[r].ledger) = {}
    /\ ledger' = Rewritten(calls[r])
    /\ calls' = [q \in Requests |->
            IF q = r THEN AfterSave(calls[r])
            ELSE IF At(q, "insert") THEN [calls[q] EXCEPT !.fresh = @ \cup Used(calls[r].ledger)]
            ELSE calls[q]]
    /\ UNCHANGED <<locked, withdrawable, jobs, matured, minted, governed, fails>>

\* The job that r served is tried again.
RetryJobOf(r) ==
    jobs' = [o \in Orders |->
        IF calls[r].op = "release" /\ calls[r].order = o
           /\ jobs[o] = [state |-> "active", tries |-> calls[r].attempt]
        THEN Retried(jobs[o]) ELSE jobs[o]]

\* A row of the entity is there again: the insert violates the primary key, the
\* transaction is rolled back, and the handler throws.
InsertConflict(r) ==
    /\ At(r, "insert")
    /\ calls[r].fresh \cap Used(calls[r].ledger) # {}
    /\ RetryJobOf(r)
    /\ Finish(r)
    /\ UNCHANGED <<tables, matured, minted, governed, fails>>

-------------------------------------------------------------------------------
(* What follows the save, and the release jobs. *)

\* The queue ignores a job whose id it knows; it forgets the ids of ended jobs
\* when a hundred others have ended after them.
ScheduleRelease(r) ==
    LET o == calls[r].order
    IN  /\ At(r, "schedule")
        /\ \/ jobs[o].state \in {"none", "done", "failed"} /\ jobs' = [jobs EXCEPT ![o] = NewJob]
           \/ jobs[o].state # "none" /\ UNCHANGED jobs
        /\ Finish(r)
        /\ UNCHANGED <<tables, matured, minted, governed, fails>>

\* The worker hears of success, unless it has given up on this attempt.
ReplyReleased(r) ==
    /\ At(r, "reply")
    /\ jobs' = [o \in Orders |->
            IF calls[r].order = o /\ jobs[o] = [state |-> "active", tries |-> calls[r].attempt]
            THEN [jobs[o] EXCEPT !.state = "done"] ELSE jobs[o]]
    /\ Finish(r)
    /\ UNCHANGED <<tables, matured, minted, governed, fails>>

RecordAction(r) ==
    /\ At(r, "govern")
    /\ governed' = governed \cup {calls[r].order}
    /\ Finish(r)
    /\ UNCHANGED <<tables, jobs, matured, minted, fails>>

\* The lock period of an order ends.
Mature(o) ==
    /\ o \notin matured
    /\ matured' = matured \cup {o}
    /\ UNCHANGED <<tables, calls, jobs, minted, governed, fails>>

\* A handler throws, or its process dies.
Fail(r) ==
    /\ Busy(r)
    /\ calls[r].stage \in {"ledger", "insert"} => TornSaves
    /\ fails < MaxFails
    /\ fails' = fails + 1
    /\ RetryJobOf(r)
    /\ Finish(r)
    /\ UNCHANGED <<tables, matured, minted, governed>>

\* The request of a worker is cut off, while its handler goes on.
LoseReply(o) ==
    /\ jobs[o].state = "active"
    /\ fails < MaxFails
    /\ fails' = fails + 1
    /\ jobs' = [jobs EXCEPT ![o] = Retried(@)]
    /\ UNCHANGED <<tables, calls, matured, minted, governed>>

-------------------------------------------------------------------------------
BeginCall(r) ==
    \/ \E o \in Orders : BeginCredit(r, o) \/ StartRelease(r, o) \/ BeginForceRelease(r, o)
    \/ \E amount \in Amounts : BeginWithdraw(r, amount)

Proceed(r) ==
    \/ UpsertBalances(r)
    \/ DeleteLedger(r)
    \/ InsertLedger(r)
    \/ InsertConflict(r)
    \/ ScheduleRelease(r)
    \/ ReplyReleased(r)
    \/ RecordAction(r)

Next ==
    \/ \E r \in Requests : BeginCall(r) \/ Proceed(r) \/ Fail(r)
    \/ \E o \in Orders : Mature(o) \/ LoseReply(o)

Spec == Init /\ [][Next]_walletVars

\* Handlers run to their end, time passes, and the worker gets its turn.
FairSpec ==
    /\ Spec
    /\ \A r \in Requests : WF_walletVars(Proceed(r))
    /\ \A o \in Orders : /\ WF_walletVars(Mature(o))
                         /\ SF_walletVars(\E r \in Requests : StartRelease(r, o))

-------------------------------------------------------------------------------
(* Properties of every execution, overlapping and torn saves included. *)

\* Every variable has its type; no job is tried more than Attempts times.
TypeOK ==
    /\ locked \in Int /\ withdrawable \in Int
    /\ ledger \in Ledgers
    /\ calls \in [Requests -> Calls \cup {Idle}]
    /\ jobs \in [Orders -> [state : JobStates, tries : 0 .. Attempts]]
    /\ matured \subseteq Orders /\ governed \subseteq Orders
    /\ minted \subseteq Ids
    /\ fails \in 0 .. MaxFails

\* Whatever handlers overwrite, the balance a withdrawal is checked against never
\* becomes negative, in the table or in the hands of a handler.
NoOverdraft ==
    /\ withdrawable >= 0
    /\ \A r \in Requests : Saving(r) => calls[r].withdrawable >= 0

\* A credit in the ledger has a job that will release it, unless the handler that
\* wrote it is about to schedule the job or something has failed.
CreditHasItsJob ==
    \A o \in Orders :
        CreditsOf(ledger, o) # {} /\ jobs[o].state = "none" =>
            \/ fails > 0
            \/ \E r \in Requests : At(r, "schedule") /\ calls[r].order = o

-------------------------------------------------------------------------------
(* Properties of the executions in which saves do not meet and are not torn. *)

\* An order is credited once, although the credit is asked for again and again.
OneCreditPerOrder == \A o \in Orders : \A i, j \in CreditsOf(ledger, o) : i = j

Sum(ids) ==
    MapThenSumSet(LAMBDA i : IF ledger[i].kind = "credit" THEN Pay[ledger[i].order]
                             ELSE ledger[i].amount, ids)
LockedIds == UNION {Unreleased(ledger, o) : o \in Orders}
ReleasedIds == UNION {CreditsOf(ledger, o) \ Unreleased(ledger, o) : o \in Orders}
DebitIds == {i \in Ids : ledger[i].kind = "debit"}

\* When no save is under way the balances are what the ledger adds up to.
BooksBalance ==
    (\A r \in Requests : calls[r].stage \notin {"ledger", "insert"}) =>
        /\ locked = Sum(LockedIds)
        /\ withdrawable = Sum(ReleasedIds) - Sum(DebitIds)

\* No row leaves the ledger, and no release is taken back: the wholesale rewrite
\* only ever adds or releases.
LedgerOnlyGrows ==
    [][\A i \in Ids : ledger[i] # Absent =>
            \/ ledger'[i] = ledger[i]
            \/ /\ ledger[i].kind = "credit" /\ ledger[i].release = "none"
               /\ ledger'[i].kind = "credit" /\ ledger'[i].order = ledger[i].order]_ledger

\* A job that ended well has done its work, and not before the lock period was
\* over: it is never answered with success while the credit stays locked.
JobsReleaseInTime ==
    /\ \A o \in Orders : jobs[o].state = "done" => Unreleased(ledger, o) = {}
    /\ \A i \in Ids : ledger[i].kind = "credit" /\ ledger[i].release = "schedule"
                        => ledger[i].order \in matured

Account == INSTANCE BoosterAccount WITH
    earnings <- [o \in Orders |-> IF CreditsOf(ledger, o) = {} THEN "none"
                                  ELSE IF Unreleased(ledger, o) # {} THEN "locked"
                                  ELSE "released"],
    paidOut <- Sum(DebitIds)

\* The ledger keeps the promise of BoosterAccount: each order is paid once, and the
\* withdrawals never exceed what was released.
ImplementsAccount == Account!AccountSpec

-------------------------------------------------------------------------------
(* Liveness. *)

\* A scheduled job releases its credit, even if attempts fail, as long as fewer
\* fail than BullMQ tries.
JobLeadsToRelease ==
    \A o \in Orders :
        jobs[o].state = "waiting" /\ CreditsOf(ledger, o) # {} ~>
            CreditsOf(ledger, o) # {} /\ Unreleased(ledger, o) = {}

\* A job may be tried again without harm (architecture.md:92): no more can be
\* withdrawn than the booster has been credited for in all.
NothingReleasedTwice == withdrawable <= Sum(LockedIds \cup ReleasedIds)
================================================================================
