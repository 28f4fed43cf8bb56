-------------------------- MODULE BoosterWalletProofs --------------------------
(***************************************************************************)
(* Theorems about BoosterWallet, for any orders, shares, amounts, handlers *)
(* and numbers of attempts and failures, however the saves overlap and     *)
(* wherever handlers fail; and, in the second half, about the executions   *)
(* in which saves do not meet.                                             *)
(***************************************************************************)
EXTENDS BoosterWallet, Sums

-------------------------------------------------------------------------------
(***************************************************************************)
(* Every execution.                                                        *)
(***************************************************************************)

\* The handler that credits o writes a row for it, and then schedules its job.
Crediting(c, o) == c.op = "credit" /\ c.order = o

\* Somebody holds a credit of o, in the table or in a copy of it that he will
\* save, and is not the one who will schedule its job.
CreditInSight(o) ==
    \/ CreditsOf(ledger, o) # {}
    \/ \E r \in Requests : /\ Saving(r)
                           /\ ~Crediting(calls[r], o)
                           /\ CreditsOf(calls[r].ledger, o) # {}

JobIsSecured(o) ==
    \/ jobs[o].state # "none"
    \/ fails > 0
    \/ \E r \in Requests : At(r, "schedule") /\ calls[r].order = o

\* CreditHasItsJob does not say why the copies that handlers hold are harmless.
CreditsSecured == \A o \in Orders : CreditInSight(o) => JobIsSecured(o)

\* A job that waits may be tried once more: a type that TypeOK rests on.
JobType == {job \in [state : JobStates, tries : 0 .. Attempts] :
                job.state = "waiting" => job.tries < Attempts}

\* Only a withdrawal has no order; only a forced release is reported.
CallsHaveOrders ==
    \A r \in Requests :
        Busy(r) => /\ calls[r].order \in Orders \/ calls[r].op = "withdraw"
                   /\ At(r, "govern") => calls[r].op = "force"

WInv ==
    /\ TypeOK
    /\ jobs \in [Orders -> JobType]
    /\ CallsHaveOrders
    /\ NoOverdraft
    /\ CreditsSecured

-------------------------------------------------------------------------------
(* Types. *)

\* The released credits are worth a whole, non-negative number of cents.
LEMMA WorthType ==
    ASSUME NEW ids \in SUBSET Ids, NEW o \in Orders
    PROVE  Worth(ids, o) \in Nat
<1>1. Cardinality(ids) \in Nat
    BY WalletAssumption, FS_Subset, FS_CardinalityType
<1>2. Pay[o] \in Nat
    BY WalletAssumption
<1> QED BY <1>1, <1>2 DEF Worth

LEMMA CreditIds == ASSUME NEW l, NEW o PROVE Unreleased(l, o) \subseteq Ids
BY DEF Unreleased, CreditsOf

\* A credit of o is a credit of o.
LEMMA CreditFields ==
    ASSUME NEW l \in Ledgers, NEW o \in Orders, NEW i \in CreditsOf(l, o)
    PROVE  l[i] \in Credits /\ l[i].order = o
BY DEF Ledgers, CreditsOf, Credits, Debits, Absent

EntityType(e) == /\ e.locked \in Int
                 /\ e.withdrawable \in Int
                 /\ e.ledger \in Ledgers

LEMMA NewIdType == ASSUME Mint PROVE NewId \in Ids /\ NewId \notin minted
BY DEF Mint, NewId

LEMMA CreditLockedType ==
    ASSUME TypeOK, NEW o \in Orders, NEW id \in Ids
    PROVE  /\ EntityType(CreditLocked(o, id))
           /\ CreditLocked(o, id).withdrawable = withdrawable
<1>1. [kind |-> "credit", order |-> o, release |-> "none"] \in Credits
    BY DEF Credits
<1> QED BY <1>1, WalletAssumption DEF CreditLocked, Entity, EntityType, TypeOK, Ledgers

LEMMA ReleasedType ==
    ASSUME TypeOK, NEW o \in Orders, NEW ids \in SUBSET CreditsOf(ledger, o),
           NEW source \in {"schedule", "admin"}
    PROVE  /\ EntityType(Released(ids, o, source))
           /\ withdrawable >= 0 => Released(ids, o, source).withdrawable >= 0
<1>1. Worth(ids, o) \in Nat
    BY WorthType DEF CreditsOf
<1>2. \A i \in ids : [ledger[i] EXCEPT !.release = source] \in Credits
    <2> TAKE i \in ids
    <2>1. ledger[i] \in Credits
        BY CreditFields DEF TypeOK
    <2> QED BY <2>1 DEF Credits
<1>3. [i \in Ids |-> IF i \in ids THEN [ledger[i] EXCEPT !.release = source]
                     ELSE ledger[i]] \in Ledgers
    BY <1>2 DEF TypeOK, Ledgers
<1> QED BY <1>1, <1>3 DEF Released, Entity, EntityType, TypeOK

LEMMA WithdrawnType ==
    ASSUME TypeOK, NEW amount \in Amounts, NEW id \in Ids
    PROVE  /\ EntityType(Withdrawn(amount, id))
           /\ MayWithdraw(amount) => Withdrawn(amount, id).withdrawable >= 0
<1>1. amount \in Nat
    BY WalletAssumption
<1>2. [kind |-> "debit", amount |-> amount] \in Debits
    BY DEF Debits
<1> QED BY <1>1, <1>2 DEF Withdrawn, MayWithdraw, Entity, EntityType, TypeOK, Ledgers

LEMMA UnchangedType == TypeOK => EntityType(Unchanged)
BY DEF Unchanged, Entity, EntityType, TypeOK

\* A handler that is at a stage of its work has a record of its call.
LEMMA BusyCall ==
    ASSUME TypeOK, NEW r \in Requests, calls[r].stage # "idle"
    PROVE  calls[r] \in Calls /\ Busy(r)
BY DEF TypeOK, Busy, Idle

LEMMA CallIsNotIdle == ASSUME NEW c \in Calls PROVE c # Idle /\ c.stage # "idle"
BY DEF Calls, Idle, Stages

\* Trying a job again, or giving up, leaves it a job.
LEMMA RetriedType ==
    ASSUME NEW job \in JobType
    PROVE  Retried(job) \in JobType /\ (job.state # "none" => Retried(job).state # "none")
BY DEF JobType, JobStates, Retried

LEMMA RetryKeepsJobs ==
    ASSUME jobs \in [Orders -> JobType], NEW r \in Requests, RetryJobOf(r)
    PROVE  /\ jobs' \in [Orders -> JobType]
           /\ \A o \in Orders : jobs[o].state # "none" => jobs'[o].state # "none"
BY RetriedType DEF RetryJobOf

-------------------------------------------------------------------------------
(* The handlers. *)

LEMMA InitWInv == Init => WInv
<1> SUFFICES ASSUME Init PROVE WInv
    OBVIOUS
<1>1. \A i \in Ids : ledger[i] = Absent
    BY DEF Init
<1>2. \A o \in Orders : CreditsOf(ledger, o) = {}
    BY <1>1 DEF CreditsOf, Absent
<1>3. \A r \in Requests : ~Saving(r)
    BY DEF Init, Saving, Idle
<1>4. TypeOK
    <2>1. ledger \in Ledgers
        BY DEF Init, Ledgers
    <2>2. jobs \in [Orders -> [state : JobStates, tries : 0 .. Attempts]]
        BY WalletAssumption DEF Init, JobStates
    <2>3. fails \in 0 .. MaxFails
        BY WalletAssumption DEF Init
    <2> QED BY <2>1, <2>2, <2>3 DEF Init, TypeOK
<1>5. jobs \in [Orders -> JobType]
    BY WalletAssumption DEF Init, JobType, JobStates
<1>6. CallsHaveOrders
    BY DEF Init, CallsHaveOrders, Busy
<1> QED BY <1>2, <1>3, <1>4, <1>5, <1>6
        DEF Init, WInv, NoOverdraft, CreditsSecured, CreditInSight

\* Starting a handler keeps the invariant if its entity is in credit and holds
\* no credit that the table does not hold, its own apart.
LEMMA BeginKeeps ==
    ASSUME WInv, NEW r \in Requests, NEW op \in Operations, NEW o \in Orders \cup {"any"},
           NEW attempt \in 0 .. Attempts, NEW stage \in Stages, NEW e, EntityType(e),
           Begin(r, op, o, attempt, stage, e),
           jobs' \in [Orders -> JobType],
           \A p \in Orders : jobs[p].state # "none" => jobs'[p].state # "none",
           minted' \subseteq Ids,
           stage = "balances" => e.withdrawable >= 0,
           stage \notin {"ledger", "insert", "govern"},
           o \in Orders \/ op = "withdraw",
           \A p \in Orders :
               /\ stage = "balances"
               /\ ~(op = "credit" /\ o = p)
               /\ CreditsOf(e.ledger, p) # {}
               => CreditsOf(ledger, p) # {}
    PROVE  WInv'
<1> DEFINE c == [stage |-> stage, op |-> op, order |-> o, attempt |-> attempt,
                 locked |-> e.locked, withdrawable |-> e.withdrawable,
                 ledger |-> e.ledger, fresh |-> {}]
<1>1. c \in Calls
    BY DEF Calls, EntityType
<1>2. /\ calls' = [calls EXCEPT ![r] = c]
      /\ UNCHANGED <<tables, matured, governed, fails>>
      /\ calls[r] = Idle
    BY DEF Begin, Busy
<1>3. /\ calls'[r] = c
      /\ \A q \in Requests : q # r => calls'[q] = calls[q]
    BY <1>2 DEF WInv, TypeOK
<1>4. TypeOK'
    <2>1. jobs' \in [Orders -> [state : JobStates, tries : 0 .. Attempts]]
        BY DEF JobType
    <2> QED BY <1>1, <1>2, <2>1 DEF WInv, TypeOK, tables
<1>5. NoOverdraft'
    BY <1>2, <1>3 DEF WInv, NoOverdraft, Saving, tables
<1>6. CreditsSecured'
    <2> SUFFICES ASSUME NEW p \in Orders, CreditInSight(p)' PROVE JobIsSecured(p)'
        BY DEF CreditsSecured
    <2>1. ledger' = ledger /\ fails' = fails
        BY <1>2 DEF tables
    <2>2. CreditInSight(p)
        BY <1>3, <2>1 DEF CreditInSight, Saving, Crediting
    <2>3. JobIsSecured(p)
        BY <2>2 DEF WInv, CreditsSecured
    <2>4. ~At(r, "schedule")
        BY <1>2 DEF At, Idle
    <2> QED BY <1>3, <2>1, <2>3, <2>4 DEF JobIsSecured, At
<1>7. CallsHaveOrders'
    BY <1>3 DEF WInv, CallsHaveOrders, Busy, At
<1> QED BY <1>4, <1>5, <1>6, <1>7 DEF WInv

LEMMA BeginCreditKeeps ==
    ASSUME WInv, NEW r \in Requests, NEW o \in Orders, BeginCredit(r, o)
    PROVE  WInv'
<1> USE DEF WInv
<1>1. jobs' = jobs /\ jobs \in [Orders -> JobType]
    BY DEF BeginCredit
<1>2. /\ 0 \in 0 .. Attempts
      /\ "credit" \in Operations
      /\ {"balances", "schedule"} \subseteq Stages
    BY WalletAssumption DEF Operations, Stages
<1>3. CASE Begin(r, "credit", o, 0, "schedule", Unchanged) /\ UNCHANGED minted
    <2>1. minted' \subseteq Ids
        BY <1>3 DEF TypeOK
    <2> QED BY <1>1, <1>2, <1>3, <2>1, UnchangedType, BeginKeeps
<1>4. CASE Mint /\ Begin(r, "credit", o, 0, "balances", CreditLocked(o, NewId))
    <2>1. NewId \in Ids /\ minted' \subseteq Ids
        BY <1>4, NewIdType DEF Mint, TypeOK
    <2> DEFINE e == CreditLocked(o, NewId)
    <2>2. EntityType(e) /\ e.withdrawable >= 0
        BY <2>1, CreditLockedType DEF NoOverdraft
    <2>3. \A p \in Orders : p # o /\ CreditsOf(e.ledger, p) # {} => CreditsOf(ledger, p) # {}
        <3> SUFFICES ASSUME NEW p \in Orders, p # o, NEW i \in CreditsOf(e.ledger, p)
                     PROVE  i \in CreditsOf(ledger, p)
            OBVIOUS
        <3>1. e.ledger = [ledger EXCEPT ![NewId] =
                            [kind |-> "credit", order |-> o, release |-> "none"]]
            BY DEF CreditLocked, Entity
        <3> QED BY <2>1, <3>1 DEF TypeOK, Ledgers, CreditsOf
    <2> HIDE DEF e
    <2> QED BY <1>1, <1>2, <1>4, <2>1, <2>2, <2>3, BeginKeeps DEF e
<1> QED BY <1>3, <1>4 DEF BeginCredit

\* A release invents no credit.
LEMMA ReleasedCredits ==
    ASSUME TypeOK, NEW o \in Orders, NEW ids \in SUBSET CreditsOf(ledger, o),
           NEW source \in {"schedule", "admin"}, NEW p \in Orders,
           CreditsOf(Released(ids, o, source).ledger, p) # {}
    PROVE  CreditsOf(ledger, p) # {}
<1> PICK i \in CreditsOf(Released(ids, o, source).ledger, p) : TRUE
    OBVIOUS
<1>1. i \in Ids /\ ids \subseteq Ids
    BY DEF CreditsOf
<1>2. CASE i \in ids
    <2>1. ledger[i] \in Credits /\ ledger[i].order = o
        BY <1>2, CreditFields DEF TypeOK
    <2>2. Released(ids, o, source).ledger[i] = [ledger[i] EXCEPT !.release = source]
        BY <1>1, <1>2 DEF Released, Entity
    <2> QED BY <1>1, <2>1, <2>2 DEF CreditsOf, Credits
<1>3. CASE i \notin ids
    BY <1>1, <1>3 DEF Released, Entity, CreditsOf
<1> QED BY <1>2, <1>3

\* A handler that starts to save an entity without a credit of its own.
LEMMA BeginSaveKeeps ==
    ASSUME WInv, NEW r \in Requests, NEW op \in {"release", "force", "withdraw"},
           NEW o \in Orders \cup {"any"}, NEW attempt \in 0 .. Attempts,
           NEW e, EntityType(e), e.withdrawable >= 0,
           Begin(r, op, o, attempt, "balances", e),
           o \in Orders \/ op = "withdraw",
           jobs' \in [Orders -> JobType],
           \A p \in Orders : jobs[p].state # "none" => jobs'[p].state # "none",
           minted' \subseteq Ids,
           \A p \in Orders : CreditsOf(e.ledger, p) # {} => CreditsOf(ledger, p) # {}
    PROVE  WInv'
<1>1. op \in Operations /\ "balances" \in Stages
    BY DEF Operations, Stages
<1> QED BY <1>1, BeginKeeps

LEMMA StartReleaseKeeps ==
    ASSUME WInv, NEW r \in Requests, NEW o \in Orders, StartRelease(r, o)
    PROVE  WInv'
<1> USE DEF WInv
<1> DEFINE e == Released(Due(o), o, "schedule")
           attempt == jobs[o].tries + 1
<1>1. jobs[o] \in JobType /\ jobs[o].state = "waiting"
    BY DEF StartRelease
<1>2. /\ attempt \in 0 .. Attempts
      /\ [state |-> "active", tries |-> jobs[o].tries + 1] \in JobType
    BY <1>1, WalletAssumption DEF JobType, JobStates
<1>3. /\ jobs' \in [Orders -> JobType]
      /\ \A p \in Orders : jobs[p].state # "none" => jobs'[p].state # "none"
    BY <1>2 DEF StartRelease
<1>4. Due(o) \subseteq CreditsOf(ledger, o)
    BY DEF Due, Unreleased
<1>5. EntityType(e) /\ e.withdrawable >= 0
    BY <1>4, ReleasedType DEF NoOverdraft
<1>6. \A p \in Orders : CreditsOf(e.ledger, p) # {} => CreditsOf(ledger, p) # {}
    BY <1>4, ReleasedCredits
<1>7. "release" \in Operations /\ "reply" \in Stages /\ "balances" \in Stages
    BY DEF Operations, Stages
<1>8. /\ minted' \subseteq Ids
      /\ Begin(r, "release", o, attempt, IF Due(o) = {} THEN "reply" ELSE "balances", e)
    BY DEF StartRelease, TypeOK
<1>9. attempt \in 0 .. Attempts
    BY <1>2
<1> HIDE DEF e, attempt
<1>10. CASE Due(o) = {}
    <2>1. Begin(r, "release", o, attempt, "reply", e)
        BY <1>8, <1>10
    <2> QED BY <1>9, <1>3, <1>5, <1>7, <1>8, <2>1, BeginKeeps
<1>11. CASE Due(o) # {}
    <2>1. Begin(r, "release", o, attempt, "balances", e)
        BY <1>8, <1>11
    <2> QED BY <1>9, <1>3, <1>5, <1>6, <1>8, <2>1, BeginSaveKeeps
<1> QED BY <1>10, <1>11

LEMMA BeginForceReleaseKeeps ==
    ASSUME WInv, NEW r \in Requests, NEW o \in Orders, BeginForceRelease(r, o)
    PROVE  WInv'
<1> USE DEF WInv
<1> DEFINE e == Released(Unreleased(ledger, o), o, "admin")
<1>1. Unreleased(ledger, o) \subseteq CreditsOf(ledger, o)
    BY DEF Unreleased
<1>2. EntityType(e) /\ e.withdrawable >= 0
    BY <1>1, ReleasedType DEF NoOverdraft
<1>3. \A p \in Orders : CreditsOf(e.ledger, p) # {} => CreditsOf(ledger, p) # {}
    BY <1>1, ReleasedCredits
<1>4. /\ "force" \in Operations /\ "balances" \in Stages /\ 0 \in 0 .. Attempts
    BY WalletAssumption DEF Operations, Stages
<1>5. /\ jobs' = jobs /\ minted' \subseteq Ids
      /\ Begin(r, "force", o, 0, "balances", e)
    BY DEF BeginForceRelease, TypeOK
<1> HIDE DEF e
<1> QED BY <1>2, <1>3, <1>4, <1>5, BeginKeeps

LEMMA BeginWithdrawKeeps ==
    ASSUME WInv, NEW r \in Requests, NEW amount \in Amounts, BeginWithdraw(r, amount)
    PROVE  WInv'
<1> USE DEF WInv
<1> DEFINE e == Withdrawn(amount, NewId)
<1>1. NewId \in Ids /\ minted' \subseteq Ids
    BY NewIdType DEF BeginWithdraw, Mint, TypeOK
<1>2. EntityType(e) /\ e.withdrawable >= 0
    BY <1>1, WithdrawnType DEF BeginWithdraw
<1>3. \A p \in Orders : CreditsOf(e.ledger, p) # {} => CreditsOf(ledger, p) # {}
    <2> SUFFICES ASSUME NEW p \in Orders, NEW i \in CreditsOf(e.ledger, p)
                 PROVE  i \in CreditsOf(ledger, p)
        OBVIOUS
    <2>1. e.ledger = [ledger EXCEPT ![NewId] = [kind |-> "debit", amount |-> amount]]
        BY DEF Withdrawn, Entity
    <2> QED BY <1>1, <2>1 DEF TypeOK, Ledgers, CreditsOf
<1>4. /\ "withdraw" \in Operations /\ "balances" \in Stages /\ 0 \in 0 .. Attempts
      /\ "any" \in Orders \cup {"any"}
    BY WalletAssumption DEF Operations, Stages
<1>5. jobs' = jobs /\ Begin(r, "withdraw", "any", 0, "balances", e)
    BY DEF BeginWithdraw
<1> HIDE DEF e
<1> QED BY <1>1, <1>2, <1>3, <1>4, <1>5, BeginKeeps

-------------------------------------------------------------------------------
(* The saves, and what follows them. *)

\* A handler that goes on, or ends, without writing the ledger: it may not leave
\* a credit without its job.
LEMMA GoOnKeeps ==
    ASSUME WInv, NEW r \in Requests, NEW d \in Calls \cup {Idle},
           calls' = [calls EXCEPT ![r] = d],
           ledger' = ledger, minted' = minted, matured' = matured,
           locked' \in Int, withdrawable' \in Int, withdrawable' >= 0,
           jobs' \in [Orders -> JobType],
           \A p \in Orders : jobs[p].state # "none" => jobs'[p].state # "none",
           governed' \subseteq Orders,
           fails' \in 0 .. MaxFails, fails' >= fails,
           d # Idle => d = [calls[r] EXCEPT !.stage = d.stage],
           d # Idle => Saving(r) /\ d.stage \in {"ledger", "insert"},
           \A p \in Orders : At(r, "schedule") /\ calls[r].order = p =>
               fails' > 0 \/ jobs'[p].state # "none"
    PROVE  WInv'
<1>1. /\ calls'[r] = d
      /\ \A q \in Requests : q # r => calls'[q] = calls[q]
    BY DEF WInv, TypeOK
<1>2. d # Idle => /\ calls[r] \in Calls /\ Busy(r)
                  /\ d.op = calls[r].op /\ d.order = calls[r].order
                  /\ d.ledger = calls[r].ledger
                  /\ d.withdrawable = calls[r].withdrawable
    <2> HAVE d # Idle
    <2>1. calls[r] \in Calls /\ Busy(r)
        BY BusyCall DEF WInv, Saving
    <2> QED BY <2>1 DEF Calls
<1>3. TypeOK'
    <2>1. jobs' \in [Orders -> [state : JobStates, tries : 0 .. Attempts]]
        BY DEF JobType
    <2> QED BY <2>1 DEF WInv, TypeOK
<1>4. CallsHaveOrders'
    BY <1>1, <1>2 DEF WInv, CallsHaveOrders, Busy, At
<1>5. NoOverdraft'
    BY <1>1, <1>2 DEF WInv, NoOverdraft, Saving, Idle
<1>6. CreditsSecured'
    <2> SUFFICES ASSUME NEW p \in Orders, CreditInSight(p)' PROVE JobIsSecured(p)'
        BY DEF CreditsSecured
    <2>1. CreditInSight(p)
        BY <1>1, <1>2 DEF CreditInSight, Saving, Crediting, Idle
    <2>2. JobIsSecured(p)
        BY <2>1 DEF WInv, CreditsSecured
    <2>3. CASE \E q \in Requests : At(q, "schedule") /\ calls[q].order = p
        BY <1>1, <2>3 DEF JobIsSecured, At
    <2>4. CASE fails > 0
        <3>1. fails \in Nat /\ fails' \in Nat /\ fails' > 0
            BY <2>4, WalletAssumption DEF WInv, TypeOK
        <3> QED BY <3>1 DEF JobIsSecured
    <2>5. CASE jobs[p].state # "none"
        BY <2>5 DEF JobIsSecured
    <2> QED BY <2>2, <2>3, <2>4, <2>5 DEF JobIsSecured
<1> QED BY <1>3, <1>4, <1>5, <1>6 DEF WInv

LEMMA SaveStepKeeps ==
    ASSUME WInv, NEW r \in Requests, UpsertBalances(r) \/ DeleteLedger(r)
    PROVE  WInv'
<1> DEFINE s == IF At(r, "balances") THEN "ledger" ELSE "insert"
           d == [calls[r] EXCEPT !.stage = s]
<1>1. Saving(r) /\ calls[r] \in Calls
    BY BusyCall DEF WInv, UpsertBalances, DeleteLedger, At, Saving
<1>2. d \in Calls /\ d # Idle /\ d.stage = s
    BY <1>1, CallIsNotIdle DEF Calls, Stages
<1>3. /\ calls' = [calls EXCEPT ![r] = d]
      /\ UNCHANGED <<ledger, jobs, matured, minted, governed, fails>>
    <2>1. CASE UpsertBalances(r)
        <3>1. s = "ledger"
            BY <2>1 DEF UpsertBalances
        <3> QED BY <2>1, <3>1 DEF UpsertBalances, WInv, TypeOK
    <2>2. CASE DeleteLedger(r)
        <3>1. s = "insert"
            BY <2>2 DEF DeleteLedger, At
        <3> QED BY <2>2, <3>1 DEF DeleteLedger, tables, WInv, TypeOK
    <2> QED BY <2>1, <2>2
<1>4. locked' \in Int /\ withdrawable' \in Int /\ withdrawable' >= 0
    BY <1>1 DEF UpsertBalances, DeleteLedger, tables, WInv, TypeOK, NoOverdraft, Calls
<1>5. ~At(r, "schedule") /\ fails' >= fails
    BY <1>3, WalletAssumption DEF UpsertBalances, DeleteLedger, At, WInv, TypeOK
<1>6. /\ jobs' \in [Orders -> JobType] /\ governed' \subseteq Orders
      /\ fails' \in 0 .. MaxFails
    BY <1>3 DEF WInv, TypeOK
<1> HIDE DEF d
<1> QED BY <1>1, <1>2, <1>3, <1>4, <1>5, <1>6, GoOnKeeps DEF d

\* The handlers that end: by a conflict, by a failure, or with their work done.
LEMMA EndKeeps ==
    ASSUME WInv, NEW r \in Requests,
           \/ InsertConflict(r) \/ ScheduleRelease(r) \/ ReplyReleased(r)
           \/ RecordAction(r) \/ Fail(r)
    PROVE  WInv'
<1>1. /\ calls' = [calls EXCEPT ![r] = Idle]
      /\ UNCHANGED <<tables, matured, minted>>
    BY DEF InsertConflict, ScheduleRelease, ReplyReleased, RecordAction, Fail, Finish
<1>2. /\ locked' \in Int /\ withdrawable' \in Int /\ withdrawable' >= 0
      /\ ledger' = ledger
    BY <1>1 DEF tables, WInv, TypeOK, NoOverdraft
<1>3. governed' \subseteq Orders
    <2>1. CASE RecordAction(r)
        <3>1. calls[r] \in Calls /\ Busy(r) /\ At(r, "govern")
            BY <2>1, BusyCall DEF WInv, RecordAction, At
        <3> QED BY <2>1, <3>1 DEF RecordAction, WInv, TypeOK, CallsHaveOrders
    <2> QED BY <2>1 DEF InsertConflict, ScheduleRelease, ReplyReleased, Fail, WInv, TypeOK
<1>4. fails' \in 0 .. MaxFails /\ fails' >= fails
    BY WalletAssumption
       DEF InsertConflict, ScheduleRelease, ReplyReleased, RecordAction, Fail, WInv, TypeOK
<1>5. /\ jobs' \in [Orders -> JobType]
      /\ \A p \in Orders : jobs[p].state # "none" => jobs'[p].state # "none"
    <2>1. CASE RetryJobOf(r)
        BY <2>1, RetryKeepsJobs DEF WInv
    <2>2. CASE ScheduleRelease(r)
        <3>1. NewJob \in JobType /\ NewJob.state # "none"
            BY WalletAssumption DEF NewJob, JobType, JobStates
        <3> QED BY <2>2, <3>1 DEF ScheduleRelease, WInv
    <2>3. CASE ReplyReleased(r)
        <3>1. \A p \in Orders : [jobs[p] EXCEPT !.state = "done"] \in JobType
            BY DEF WInv, JobType, JobStates
        <3>2. \A p \in Orders : [jobs[p] EXCEPT !.state = "done"].state # "none"
            BY DEF WInv, JobType
        <3> QED BY <2>3, <3>1, <3>2 DEF ReplyReleased, WInv
    <2> QED BY <2>1, <2>2, <2>3 DEF InsertConflict, RecordAction, Fail, WInv
<1>6. \A p \in Orders : At(r, "schedule") /\ calls[r].order = p =>
        fails' > 0 \/ jobs'[p].state # "none"
    <2> SUFFICES ASSUME NEW p \in Orders, At(r, "schedule"), calls[r].order = p
                 PROVE  fails' > 0 \/ jobs'[p].state # "none"
        OBVIOUS
    <2>1. CASE Fail(r)
        BY <2>1, WalletAssumption DEF Fail, WInv, TypeOK
    <2>2. CASE ScheduleRelease(r)
        BY <2>2 DEF ScheduleRelease, NewJob, WInv
    <2> QED BY <2>1, <2>2 DEF InsertConflict, ReplyReleased, RecordAction, At
<1> QED BY <1>1, <1>2, <1>3, <1>4, <1>5, <1>6, GoOnKeeps

LEMMA AfterSaveType ==
    ASSUME NEW c \in Calls
    PROVE  /\ AfterSave(c) \in Calls \cup {Idle}
           /\ AfterSave(c).stage \notin {"balances", "ledger", "insert"}
           /\ AfterSave(c).stage = "govern" => c.op = "force"
           /\ AfterSave(c) # Idle => AfterSave(c).op = c.op /\ AfterSave(c).order = c.order
           /\ c.op = "credit" => AfterSave(c).stage = "schedule" /\ AfterSave(c).order = c.order
<1>1. \A s \in Stages : /\ [c EXCEPT !.stage = s] \in Calls
                        /\ [c EXCEPT !.stage = s].stage = s
                        /\ [c EXCEPT !.stage = s].op = c.op
                        /\ [c EXCEPT !.stage = s].order = c.order
    BY DEF Calls
<1>2. {"schedule", "reply", "govern"} \subseteq Stages
    BY DEF Stages
<1>3. CASE c.op = "credit"
    BY <1>1, <1>2, <1>3 DEF AfterSave
<1>4. CASE c.op = "release"
    BY <1>1, <1>2, <1>4 DEF AfterSave
<1>5. CASE c.op = "force"
    BY <1>1, <1>2, <1>5 DEF AfterSave
<1>6. CASE c.op \notin {"credit", "release", "force"}
    BY <1>6 DEF AfterSave, Idle
<1> QED BY <1>3, <1>4, <1>5, <1>6

\* The commit of a ledger: a credit that appears in the table comes with a
\* handler that will schedule its job, or had one in sight before.
LEMMA InsertLedgerKeeps ==
    ASSUME WInv, NEW r \in Requests, InsertLedger(r)
    PROVE  WInv'
<1> DEFINE c == calls[r]
<1>1. c \in Calls /\ Busy(r) /\ Saving(r) /\ At(r, "insert")
    BY BusyCall DEF WInv, InsertLedger, At, Saving
<1>2. calls'[r] = AfterSave(c)
    BY DEF InsertLedger
<1>3. ASSUME NEW q \in Requests, q # r
      PROVE  /\ ~At(q, "insert") => calls'[q] = calls[q]
             /\ At(q, "insert") => /\ calls[q] \in Calls
                                   /\ calls'[q] \in Calls
                                   /\ calls'[q].stage = "insert"
                                   /\ calls'[q].op = calls[q].op
                                   /\ calls'[q].order = calls[q].order
                                   /\ calls'[q].ledger = calls[q].ledger
                                   /\ calls'[q].withdrawable = calls[q].withdrawable
    <2>1. ~At(q, "insert") => calls'[q] = calls[q]
        BY <1>3 DEF InsertLedger, WInv, TypeOK
    <2>2. ASSUME At(q, "insert")
          PROVE  /\ calls[q] \in Calls
                 /\ calls'[q] = [calls[q] EXCEPT !.fresh = @ \cup Used(c.ledger)]
        <3>1. calls[q] \in Calls
            BY <2>2, BusyCall DEF WInv, At
        <3> QED BY <1>3, <2>2, <3>1 DEF InsertLedger, WInv, TypeOK
    <2>3. Used(c.ledger) \subseteq Ids
        BY DEF Used
    <2> QED BY <2>1, <2>2, <2>3 DEF Calls, At
<1>4. TypeOK'
    <2>1. \A q \in Requests : calls'[q] \in Calls \cup {Idle}
        <3> TAKE q \in Requests
        <3>1. CASE q = r
            BY <1>1, <1>2, <3>1, AfterSaveType
        <3>2. CASE q # r
            BY <1>3, <3>2 DEF WInv, TypeOK
        <3> QED BY <3>1, <3>2
    <2>2. calls' = [q \in Requests |-> calls'[q]]
        BY DEF InsertLedger
    <2>3. ledger' \in Ledgers
        BY <1>1 DEF InsertLedger, Rewritten, WInv, TypeOK, Calls, Ledgers
    <2>4. calls' \in [Requests -> Calls \cup {Idle}]
        BY <2>1, <2>2
    <2> QED BY <2>3, <2>4 DEF InsertLedger, WInv, TypeOK
<1>5. CallsHaveOrders'
    <2> SUFFICES ASSUME NEW q \in Requests, Busy(q)'
                 PROVE  /\ calls'[q].order \in Orders \/ calls'[q].op = "withdraw"
                        /\ calls'[q].stage = "govern" => calls'[q].op = "force"
        BY DEF CallsHaveOrders, At
    <2>1. CASE q = r
        BY <1>1, <1>2, <2>1, AfterSaveType DEF WInv, CallsHaveOrders, Busy
    <2>2. CASE q # r /\ At(q, "insert")
        BY <1>3, <2>2, CallIsNotIdle DEF WInv, CallsHaveOrders, Busy, At
    <2>3. CASE q # r /\ ~At(q, "insert")
        BY <1>3, <2>3 DEF WInv, CallsHaveOrders, Busy, At
    <2> QED BY <2>1, <2>2, <2>3
<1>6. NoOverdraft'
    <2>1. ASSUME NEW q \in Requests, Saving(q)' PROVE calls'[q].withdrawable >= 0
        <3>1. q # r
            BY <1>1, <1>2, <2>1, AfterSaveType DEF Saving
        <3> QED BY <1>3, <2>1, <3>1 DEF WInv, NoOverdraft, Saving, At
    <2> QED BY <2>1 DEF InsertLedger, WInv, NoOverdraft, tables
<1>7. CreditsSecured'
    <2> SUFFICES ASSUME NEW p \in Orders, CreditInSight(p)' PROVE JobIsSecured(p)'
        BY DEF CreditsSecured
    <2>1. jobs' = jobs /\ fails' = fails
        BY DEF InsertLedger
    <2>2. ASSUME CreditInSight(p) PROVE JobIsSecured(p)'
        <3>1. JobIsSecured(p)
            BY <2>2 DEF WInv, CreditsSecured
        <3>2. \A q \in Requests : At(q, "schedule") => q # r /\ calls'[q] = calls[q]
            BY <1>1, <1>3 DEF At
        <3> QED BY <2>1, <3>1, <3>2 DEF JobIsSecured, At
    <2>3. CASE Crediting(c, p)
        BY <1>1, <1>2, <2>3, AfterSaveType DEF Crediting, JobIsSecured, At
    <2>4. CASE ~Crediting(c, p) /\ CreditsOf(ledger, p)' # {}
        <3>1. PICK i \in CreditsOf(ledger, p)' : TRUE
            BY <2>4
        <3>2. ledger'[i] = IF i \in c.fresh THEN ledger[i] ELSE c.ledger[i]
            BY <3>1 DEF InsertLedger, Rewritten, CreditsOf
        <3>3. i \in CreditsOf(ledger, p) \/ i \in CreditsOf(c.ledger, p)
            BY <3>1, <3>2 DEF CreditsOf
        <3> QED BY <1>1, <2>2, <2>4, <3>3 DEF CreditInSight
    <2>5. CASE \E q \in Requests : /\ Saving(q)'
                                   /\ ~Crediting(calls[q], p)'
                                   /\ CreditsOf(calls[q].ledger, p)' # {}
        <3>1. PICK q \in Requests : /\ Saving(q)'
                                    /\ ~Crediting(calls[q], p)'
                                    /\ CreditsOf(calls[q].ledger, p)' # {}
            BY <2>5
        <3>2. q # r
            BY <1>1, <1>2, <3>1, AfterSaveType DEF Saving
        <3>3. /\ Saving(q)
              /\ ~Crediting(calls[q], p)
              /\ CreditsOf(calls[q].ledger, p) # {}
            BY <1>3, <3>1, <3>2 DEF Saving, Crediting, CreditsOf, At
        <3> QED BY <2>2, <3>3 DEF CreditInSight
    <2> QED BY <2>3, <2>4, <2>5 DEF CreditInSight
<1>8. jobs' \in [Orders -> JobType]
    BY DEF InsertLedger, WInv
<1> QED BY <1>4, <1>5, <1>6, <1>7, <1>8 DEF WInv

\* Time passes, or a worker is cut off: no handler moves.
LEMMA EnvironmentKeeps ==
    ASSUME WInv, NEW o \in Orders, Mature(o) \/ LoseReply(o)
    PROVE  WInv'
<1>1. /\ UNCHANGED <<locked, withdrawable, ledger, calls, minted, governed>>
      /\ matured' \subseteq Orders
    BY DEF Mature, LoseReply, tables, WInv, TypeOK
<1>2. fails' \in 0 .. MaxFails /\ (fails > 0 => fails' > 0)
    BY WalletAssumption DEF Mature, LoseReply, WInv, TypeOK
<1>3. /\ jobs' \in [Orders -> JobType]
      /\ \A p \in Orders : jobs[p].state # "none" => jobs'[p].state # "none"
    BY RetriedType DEF Mature, LoseReply, WInv
<1>4. TypeOK'
    <2>1. jobs' \in [Orders -> [state : JobStates, tries : 0 .. Attempts]]
        BY <1>3 DEF JobType
    <2> QED BY <1>1, <1>2, <2>1 DEF WInv, TypeOK
<1>5. CallsHaveOrders' /\ NoOverdraft'
    BY <1>1 DEF WInv, CallsHaveOrders, NoOverdraft, Busy, Saving, At
<1>6. CreditsSecured'
    <2> SUFFICES ASSUME NEW p \in Orders, CreditInSight(p)' PROVE JobIsSecured(p)'
        BY DEF CreditsSecured
    <2>1. CreditInSight(p)
        BY <1>1 DEF CreditInSight, Saving, Crediting, CreditsOf
    <2> QED BY <1>1, <1>2, <1>3, <2>1 DEF WInv, CreditsSecured, JobIsSecured, At
<1> QED BY <1>3, <1>4, <1>5, <1>6 DEF WInv

LEMMA NextKeeps == WInv /\ [Next]_walletVars => WInv'
<1> SUFFICES ASSUME WInv, [Next]_walletVars PROVE WInv'
    OBVIOUS
<1>1. ASSUME NEW r \in Requests, BeginCall(r) PROVE WInv'
    BY <1>1, BeginCreditKeeps, StartReleaseKeeps, BeginForceReleaseKeeps, BeginWithdrawKeeps
       DEF BeginCall
<1>2. ASSUME NEW r \in Requests, Proceed(r) \/ Fail(r) PROVE WInv'
    BY <1>2, SaveStepKeeps, InsertLedgerKeeps, EndKeeps DEF Proceed
<1>3. ASSUME NEW o \in Orders, Mature(o) \/ LoseReply(o) PROVE WInv'
    BY <1>3, EnvironmentKeeps
<1>4. CASE UNCHANGED walletVars
    BY <1>4 DEF walletVars, WInv, TypeOK, CallsHaveOrders, NoOverdraft, CreditsSecured,
                CreditInSight, JobIsSecured, Crediting, CreditsOf, Busy, Saving, At
<1> QED BY <1>1, <1>2, <1>3, <1>4 DEF Next

\* What every execution of the wallet satisfies.
THEOREM WInvHolds == Spec => []WInv
<1> QED BY InitWInv, NextKeeps, PTL DEF Spec

\* Types, for any number of orders, handlers, attempts and failures: in particular
\* no job is tried more often than WALLET_FUNDS_RELEASE_JOB_OPTIONS allows.
THEOREM TypeCorrect == Spec => []TypeOK
<1>1. WInv => TypeOK
    BY DEF WInv
<1> QED BY <1>1, WInvHolds, PTL

\* However saves overlap and wherever they are torn, the balance that withdrawals
\* are checked against is never negative.
THEOREM NeverOverdrawn == Spec => []NoOverdraft
<1>1. WInv => NoOverdraft
    BY DEF WInv
<1> QED BY <1>1, WInvHolds, PTL

\* However saves overlap, a credit in the ledger has its release job or is about
\* to get it, unless something failed.
THEOREM CreditsGetJobs == Spec => []CreditHasItsJob
<1>1. WInv => CreditHasItsJob
    BY DEF WInv, CreditsSecured, CreditInSight, JobIsSecured, CreditHasItsJob
<1> QED BY <1>1, WInvHolds, PTL


-------------------------------------------------------------------------------
(***************************************************************************)
(* The executions in which no handler reads the wallet while another one   *)
(* saves it.  A save may still fail between its two commits: the ledger is *)
(* written by the second alone.                                            *)
(***************************************************************************)

\* What may become of a row: nothing, or the release of a locked credit.
Succeeds(row, next) ==
    \/ next = row
    \/ /\ row.kind = "credit" /\ row.release = "none"
       /\ next.kind = "credit" /\ next.order = row.order

\* A ledger that may replace the one in the table.
Follows(l) ==
    /\ \A i \in Ids : ledger[i] # Absent => Succeeds(ledger[i], l[i])
    /\ \A o \in Orders : \A i, j \in CreditsOf(l, o) : i = j
    /\ \A o \in Orders : CreditsOf(ledger, o) # {} => Unreleased(l, o) \subseteq Unreleased(ledger, o)
    /\ \A i \in Ids : l[i].kind = "credit" /\ l[i].release = "schedule" => l[i].order \in matured

\* What the save of l will have done for the order of its handler.
Delivers(op, o, l) ==
    /\ op = "credit" => o \in Orders /\ CreditsOf(l, o) # {}
    /\ op = "release" => o \in Orders /\ CreditsOf(l, o) # {} /\ Unreleased(l, o) = {}

SavesFollow ==
    \A r \in Requests : Saving(r) =>
        /\ Follows(calls[r].ledger)
        /\ Used(calls[r].ledger) \subseteq minted
        /\ calls[r].fresh = {}
        /\ Delivers(calls[r].op, calls[r].order, calls[r].ledger)

OneSaves == \A q, r \in Requests : Saving(q) /\ Saving(r) => q = r

\* Nobody schedules, runs or reports a release of a credit that is not there.
ReleasesHaveCredits ==
    /\ \A o \in Orders : jobs[o].state # "none" => CreditsOf(ledger, o) # {}
    /\ \A r \in Requests :
        /\ At(r, "schedule") => CreditsOf(ledger, calls[r].order) # {}
        /\ At(r, "reply") => /\ CreditsOf(ledger, calls[r].order) # {}
                             /\ Unreleased(ledger, calls[r].order) = {}

LInv ==
    /\ WInv
    /\ Used(ledger) \subseteq minted
    /\ OneCreditPerOrder
    /\ JobsReleaseInTime
    /\ OneSaves
    /\ SavesFollow
    /\ ReleasesHaveCredits

-------------------------------------------------------------------------------
LEMMA InitLInv == Init => LInv
<1> SUFFICES ASSUME Init PROVE LInv
    OBVIOUS
<1>1. WInv
    BY InitWInv
<1>2. \A i \in Ids : ledger[i] = Absent
    BY DEF Init
<1>3. \A r \in Requests : calls[r] = Idle
    BY DEF Init
<1>4. \A r \in Requests : ~Saving(r) /\ ~At(r, "schedule") /\ ~At(r, "reply")
    BY <1>3 DEF Saving, At, Idle
<1>5. \A o \in Orders : jobs[o].state = "none"
    BY DEF Init
<1>6. Used(ledger) \subseteq minted /\ OneCreditPerOrder
    BY <1>2 DEF Used, OneCreditPerOrder, CreditsOf, Absent
<1>7. JobsReleaseInTime
    BY <1>2, <1>5 DEF JobsReleaseInTime, Absent
<1> QED BY <1>1, <1>4, <1>5, <1>6, <1>7
        DEF LInv, OneSaves, SavesFollow, ReleasesHaveCredits

\* The ledgers that the handlers make of the one they read.
LEMMA SameFollows == LInv => Follows(ledger)
<1> SUFFICES ASSUME LInv PROVE Follows(ledger)
    OBVIOUS
<1> QED BY DEF LInv, Follows, Succeeds, OneCreditPerOrder, JobsReleaseInTime

LEMMA CreditFollows ==
    ASSUME LInv, NEW o \in Orders, NEW id \in Ids \ minted, CreditsOf(ledger, o) = {},
           NEW l, l = CreditLocked(o, id).ledger
    PROVE  Follows(l) /\ Used(l) \subseteq minted \cup {id} /\ CreditsOf(l, o) = {id}
<1>1. /\ \A i \in Ids \ {id} : l[i] = ledger[i]
      /\ l[id] = [kind |-> "credit", order |-> o, release |-> "none"]
    BY DEF CreditLocked, Entity, LInv, WInv, TypeOK, Ledgers
<1>2. ledger[id] = Absent /\ Used(ledger) \subseteq minted
    BY DEF LInv, Used
<1>3. Used(l) \subseteq minted \cup {id}
    BY <1>1, <1>2 DEF Used
<1>4. CreditsOf(l, o) = {id}
    BY <1>1 DEF CreditsOf
<1>5. \A p \in Orders \ {o} : /\ CreditsOf(l, p) = CreditsOf(ledger, p)
                              /\ Unreleased(l, p) = Unreleased(ledger, p)
    BY <1>1, <1>2 DEF CreditsOf, Unreleased, Absent
<1>6. \A i \in Ids : ledger[i] # Absent => Succeeds(ledger[i], l[i])
    BY <1>1, <1>2 DEF Succeeds
<1>7. \A p \in Orders : \A i, j \in CreditsOf(l, p) : i = j
    BY <1>4, <1>5 DEF LInv, OneCreditPerOrder
<1>8. \A i \in Ids : l[i].kind = "credit" /\ l[i].release = "schedule" => l[i].order \in matured
    BY <1>1 DEF LInv, JobsReleaseInTime
<1> QED BY <1>3, <1>4, <1>5, <1>6, <1>7, <1>8 DEF Follows

LEMMA ReleaseFollows ==
    ASSUME LInv, NEW o \in Orders, NEW ids, ids = Unreleased(ledger, o),
           NEW source \in {"schedule", "admin"}, source = "schedule" => o \in matured,
           CreditsOf(ledger, o) # {},
           NEW l, l = Released(ids, o, source).ledger
    PROVE  /\ Follows(l) /\ Used(l) \subseteq minted
           /\ CreditsOf(l, o) # {} /\ Unreleased(l, o) = {}
<1>1. ids \subseteq Ids
    BY CreditIds
<1>2. /\ \A i \in Ids \ ids : l[i] = ledger[i]
      /\ \A i \in ids : l[i] = [ledger[i] EXCEPT !.release = source]
    BY <1>1 DEF Released, Entity
<1>3. \A i \in ids : /\ ledger[i] \in Credits
                     /\ ledger[i].kind = "credit" /\ ledger[i].order = o
                     /\ ledger[i].release = "none" /\ ledger[i] # Absent
    <2> TAKE i \in ids
    <2>1. i \in CreditsOf(ledger, o)
        BY DEF Unreleased
    <2>2. ledger[i] \in Credits /\ ledger[i].order = o
        BY <2>1, CreditFields DEF LInv, WInv, TypeOK
    <2> QED BY <2>2 DEF Unreleased, Credits, Absent
<1>4. \A i \in ids : l[i].kind = "credit" /\ l[i].order = o /\ l[i].release = source
    BY <1>2, <1>3 DEF Credits
<1>5. \A p \in Orders : /\ CreditsOf(l, p) = CreditsOf(ledger, p)
                        /\ Unreleased(l, p) \subseteq Unreleased(ledger, p)
    BY <1>1, <1>2, <1>3, <1>4 DEF CreditsOf, Unreleased
<1>6. Unreleased(l, o) = {}
    BY <1>2, <1>4, <1>5 DEF CreditsOf, Unreleased
<1>7. \A i \in Ids : ledger[i] # Absent => Succeeds(ledger[i], l[i])
    BY <1>2, <1>3, <1>4 DEF Succeeds
<1>8. Used(l) \subseteq minted
    BY <1>1, <1>2, <1>3 DEF Used, LInv
<1>9. \A i \in Ids : l[i].kind = "credit" /\ l[i].release = "schedule" => l[i].order \in matured
    BY <1>2, <1>4 DEF LInv, JobsReleaseInTime
<1>10. \A p \in Orders : \A i, j \in CreditsOf(l, p) : i = j
    BY <1>5 DEF LInv, OneCreditPerOrder
<1> QED BY <1>5, <1>6, <1>7, <1>8, <1>9, <1>10 DEF Follows

LEMMA WithdrawFollows ==
    ASSUME LInv, NEW amount \in Amounts, NEW id \in Ids \ minted,
           NEW l, l = Withdrawn(amount, id).ledger
    PROVE  Follows(l) /\ Used(l) \subseteq minted \cup {id}
<1>1. /\ \A i \in Ids \ {id} : l[i] = ledger[i]
      /\ l[id] = [kind |-> "debit", amount |-> amount]
    BY DEF Withdrawn, Entity, LInv, WInv, TypeOK, Ledgers
<1>2. ledger[id] = Absent /\ Used(ledger) \subseteq minted
    BY DEF LInv, Used
<1>3. \A p \in Orders : /\ CreditsOf(l, p) = CreditsOf(ledger, p)
                        /\ Unreleased(l, p) = Unreleased(ledger, p)
    BY <1>1, <1>2 DEF CreditsOf, Unreleased, Absent
<1>4. \A i \in Ids : ledger[i] # Absent => Succeeds(ledger[i], l[i])
    BY <1>1, <1>2 DEF Succeeds
<1>5. \A i \in Ids : l[i].kind = "credit" /\ l[i].release = "schedule" => l[i].order \in matured
    BY <1>1 DEF LInv, JobsReleaseInTime
<1>6. Used(l) \subseteq minted \cup {id}
    BY <1>1, <1>2 DEF Used
<1>7. \A p \in Orders : \A i, j \in CreditsOf(l, p) : i = j
    BY <1>3 DEF LInv, OneCreditPerOrder
<1> QED BY <1>3, <1>4, <1>5, <1>6, <1>7 DEF Follows

-------------------------------------------------------------------------------
(* The steps. *)

\* A handler reads the wallet while nobody saves it.
LEMMA ReadKeeps ==
    ASSUME LInv, WInv', Serialized, NEW r \in Requests, NEW op \in Operations,
           NEW o \in Orders \cup {"any"}, NEW attempt, NEW e,
           NEW stage \in {"balances", "schedule", "reply"},
           Begin(r, op, o, attempt, stage, e),
           minted \subseteq minted',
           stage = "balances" => /\ Follows(e.ledger)
                                 /\ Used(e.ledger) \subseteq minted'
                                 /\ Delivers(op, o, e.ledger),
           stage # "balances" => CreditsOf(ledger, o) # {},
           stage = "reply" => Unreleased(ledger, o) = {},
           \A p \in Orders : jobs'[p].state # "none" => CreditsOf(ledger, p) # {},
           \A p \in Orders : jobs'[p].state = "done" => jobs[p].state = "done"
    PROVE  LInv'
<1> DEFINE c == [stage |-> stage, op |-> op, order |-> o, attempt |-> attempt,
                 locked |-> e.locked, withdrawable |-> e.withdrawable,
                 ledger |-> e.ledger, fresh |-> {}]
<1>1. /\ calls' = [calls EXCEPT ![r] = c]
      /\ UNCHANGED <<tables, matured, governed, fails>>
      /\ \A q \in Requests : ~Saving(q)
    BY DEF Begin
<1>2. /\ calls'[r] = c
      /\ \A q \in Requests : q # r => calls'[q] = calls[q] /\ ~Saving(q)'
    BY <1>1 DEF LInv, WInv, TypeOK, Saving
<1>3. ledger' = ledger /\ matured' = matured
    BY <1>1 DEF tables
<1>4. (Used(ledger) \subseteq minted)' /\ OneCreditPerOrder'
    BY <1>3 DEF LInv, Used, OneCreditPerOrder, CreditsOf
<1>5. JobsReleaseInTime'
    BY <1>3 DEF LInv, JobsReleaseInTime, Unreleased, CreditsOf
<1>6. OneSaves'
    BY <1>2 DEF OneSaves
<1>7. SavesFollow'
    <2> SUFFICES ASSUME NEW q \in Requests, Saving(q)'
                 PROVE  /\ Follows(calls[q].ledger)'
                        /\ (Used(calls[q].ledger) \subseteq minted)'
                        /\ (calls[q].fresh = {})'
                        /\ Delivers(calls[q].op, calls[q].order, calls[q].ledger)'
        BY DEF SavesFollow
    <2>1. q = r /\ stage = "balances"
        BY <1>2 DEF Saving
    <2> QED BY <1>2, <1>3, <2>1 DEF Follows, Used, Delivers, CreditsOf, Unreleased
<1>8. ReleasesHaveCredits'
    <2>1. \A q \in Requests : q # r => /\ At(q, "schedule")' <=> At(q, "schedule")
                                       /\ At(q, "reply")' <=> At(q, "reply")
        BY <1>2 DEF At
    <2>2. At(r, "schedule")' \/ At(r, "reply")' => stage # "balances"
        BY <1>2 DEF At
    <2>3. At(r, "reply")' => stage = "reply"
        BY <1>2 DEF At
    <2> QED BY <1>2, <1>3, <2>1, <2>2, <2>3 DEF LInv, ReleasesHaveCredits, Unreleased, CreditsOf
<1> QED BY <1>4, <1>5, <1>6, <1>7, <1>8 DEF LInv

LEMMA BeginCallKeepsL ==
    ASSUME LInv, WInv', Serialized, NEW r \in Requests, BeginCall(r)
    PROVE  LInv'
<1>1. /\ {"credit", "release", "force", "withdraw"} \subseteq Operations
      /\ \A o \in Orders : o \in Orders \cup {"any"}
      /\ "any" \in Orders \cup {"any"}
    BY DEF Operations
<1>2. \A p \in Orders : jobs[p].state # "none" => CreditsOf(ledger, p) # {}
    BY DEF LInv, ReleasesHaveCredits
<1>3. ASSUME NEW o \in Orders, BeginCredit(r, o) PROVE LInv'
    <2>1. jobs' = jobs
        BY <1>3 DEF BeginCredit
    <2>2. CASE /\ CreditsOf(ledger, o) # {} /\ UNCHANGED minted
               /\ Begin(r, "credit", o, 0, "schedule", Unchanged)
        BY <1>1, <1>2, <2>1, <2>2, ReadKeeps
    <2>3. CASE /\ CreditsOf(ledger, o) = {} /\ Mint
               /\ Begin(r, "credit", o, 0, "balances", CreditLocked(o, NewId))
        <3> DEFINE e == CreditLocked(o, NewId)
        <3>1. NewId \in Ids \ minted /\ minted' = minted \cup {NewId}
            BY <2>3, NewIdType DEF Mint
        <3>2. Follows(e.ledger) /\ Used(e.ledger) \subseteq minted' /\ CreditsOf(e.ledger, o) # {}
            BY <2>3, <3>1, CreditFollows
        <3>3. Delivers("credit", o, e.ledger) /\ minted \subseteq minted'
            BY <3>1, <3>2 DEF Delivers
        <3>4. Begin(r, "credit", o, 0, "balances", e)
            BY <2>3
        <3> HIDE DEF e
        <3> QED BY <1>1, <1>2, <2>1, <3>2, <3>3, <3>4, ReadKeeps
    <2> QED BY <1>3, <2>2, <2>3 DEF BeginCredit
<1>4. ASSUME NEW o \in Orders, StartRelease(r, o) PROVE LInv'
    <2> DEFINE e == Released(Due(o), o, "schedule")
               attempt == jobs[o].tries + 1
    <2>1. o \in matured /\ Due(o) = Unreleased(ledger, o) /\ CreditsOf(ledger, o) # {}
        BY <1>2, <1>4 DEF StartRelease, Due
    <2>2. /\ \A p \in Orders : jobs'[p].state # "none" => CreditsOf(ledger, p) # {}
          /\ \A p \in Orders : jobs'[p].state = "done" => jobs[p].state = "done"
        BY <1>2, <1>4, <2>1 DEF StartRelease, LInv, WInv
    <2>3. /\ Follows(e.ledger) /\ Used(e.ledger) \subseteq minted
          /\ Delivers("release", o, e.ledger)
        BY <2>1, ReleaseFollows DEF Delivers
    <2>4. /\ minted' = minted
          /\ Begin(r, "release", o, attempt, IF Due(o) = {} THEN "reply" ELSE "balances", e)
        BY <1>4 DEF StartRelease
    <2> HIDE DEF e, attempt
    <2>5. CASE Due(o) = {}
        <3>1. Begin(r, "release", o, attempt, "reply", e) /\ Unreleased(ledger, o) = {}
            BY <2>1, <2>4, <2>5
        <3> QED BY <1>1, <2>1, <2>2, <2>4, <3>1, ReadKeeps
    <2>6. CASE Due(o) # {}
        <3>1. Begin(r, "release", o, attempt, "balances", e)
            BY <2>4, <2>6
        <3> QED BY <1>1, <2>2, <2>3, <2>4, <3>1, ReadKeeps
    <2> QED BY <2>5, <2>6
<1>5. ASSUME NEW o \in Orders, BeginForceRelease(r, o) PROVE LInv'
    <2> DEFINE e == Released(Unreleased(ledger, o), o, "admin")
    <2>1. CreditsOf(ledger, o) # {}
        BY <1>5 DEF BeginForceRelease, Unreleased
    <2>2. Follows(e.ledger) /\ Used(e.ledger) \subseteq minted /\ Delivers("force", o, e.ledger)
        BY <2>1, ReleaseFollows DEF Delivers
    <2>3. jobs' = jobs /\ minted' = minted /\ Begin(r, "force", o, 0, "balances", e)
        BY <1>5 DEF BeginForceRelease
    <2> HIDE DEF e
    <2> QED BY <1>1, <1>2, <2>2, <2>3, ReadKeeps
<1>6. ASSUME NEW amount \in Amounts, BeginWithdraw(r, amount) PROVE LInv'
    <2> DEFINE e == Withdrawn(amount, NewId)
    <2>1. NewId \in Ids \ minted /\ minted' = minted \cup {NewId}
        BY <1>6, NewIdType DEF BeginWithdraw, Mint
    <2>2. /\ Follows(e.ledger) /\ Used(e.ledger) \subseteq minted' /\ minted \subseteq minted'
          /\ Delivers("withdraw", "any", e.ledger)
        BY <2>1, WithdrawFollows DEF Delivers
    <2>3. jobs' = jobs /\ Begin(r, "withdraw", "any", 0, "balances", e)
        BY <1>6 DEF BeginWithdraw
    <2> HIDE DEF e
    <2> QED BY <1>1, <1>2, <2>2, <2>3, ReadKeeps
<1> QED BY <1>3, <1>4, <1>5, <1>6 DEF BeginCall

\* Handlers go on with their save, or end; the ledger stays as it is.
LEMMA LedgerStaysKeeps ==
    ASSUME LInv, WInv', ledger' = ledger, minted' = minted, matured \subseteq matured',
           \A q \in Requests :
               \/ calls'[q] = calls[q]
               \/ calls'[q] = Idle
               \/ /\ Saving(q) /\ Saving(q)'
                  /\ calls'[q] = [calls[q] EXCEPT !.stage = calls'[q].stage],
           \A p \in Orders : jobs'[p].state # "none" => CreditsOf(ledger, p) # {},
           \A p \in Orders : jobs'[p].state = "done" => Unreleased(ledger, p) = {}
    PROVE  LInv'
<1>1. ASSUME NEW q \in Requests, Saving(q)'
      PROVE  /\ Saving(q)
             /\ calls'[q].ledger = calls[q].ledger /\ calls'[q].fresh = calls[q].fresh
             /\ calls'[q].op = calls[q].op /\ calls'[q].order = calls[q].order
    <2>1. calls'[q] # Idle
        BY <1>1 DEF Saving, Idle
    <2>2. CASE calls'[q] = calls[q]
        BY <1>1, <2>2 DEF Saving
    <2>3. CASE Saving(q) /\ calls'[q] = [calls[q] EXCEPT !.stage = calls'[q].stage]
        <3>1. calls[q] \in Calls
            BY <2>3, BusyCall DEF Saving, LInv, WInv
        <3> QED BY <2>3, <3>1 DEF Calls
    <2> QED BY <2>1, <2>2, <2>3
<1>2. ASSUME NEW q \in Requests, calls'[q].stage \in {"schedule", "reply"}
      PROVE  calls'[q] = calls[q]
    <2>1. calls'[q] # Idle
        BY <1>2 DEF Idle
    <2>2. ~Saving(q)'
        BY <1>2 DEF Saving
    <2> QED BY <2>1, <2>2
<1>3. (Used(ledger) \subseteq minted)' /\ OneCreditPerOrder'
    BY DEF LInv, Used, OneCreditPerOrder, CreditsOf
<1>4. JobsReleaseInTime'
    BY DEF LInv, JobsReleaseInTime, Unreleased, CreditsOf
<1>5. OneSaves'
    BY <1>1 DEF LInv, OneSaves
<1>6. SavesFollow'
    BY <1>1 DEF LInv, SavesFollow, Follows, Used, Delivers, CreditsOf, Unreleased
<1>7. ReleasesHaveCredits'
    BY <1>2 DEF LInv, ReleasesHaveCredits, At, Unreleased, CreditsOf
<1> QED BY <1>3, <1>4, <1>5, <1>6, <1>7 DEF LInv

LEMMA RestKeepsL ==
    ASSUME LInv, WInv', NEW r \in Requests,
           \/ UpsertBalances(r) \/ DeleteLedger(r) \/ InsertConflict(r) \/ ScheduleRelease(r)
           \/ ReplyReleased(r) \/ RecordAction(r) \/ Fail(r)
    PROVE  LInv'
<1>1. /\ UNCHANGED <<ledger, minted, matured>>
      /\ \A q \in Requests : q # r => calls'[q] = calls[q]
    BY DEF UpsertBalances, DeleteLedger, InsertConflict, ScheduleRelease, ReplyReleased,
           RecordAction, Fail, Finish, tables, LInv, WInv, TypeOK
<1>2. \/ calls'[r] = Idle
      \/ /\ Saving(r) /\ Saving(r)'
         /\ calls'[r] = [calls[r] EXCEPT !.stage = calls'[r].stage]
    <2>1. CASE InsertConflict(r) \/ ScheduleRelease(r) \/ ReplyReleased(r) \/ RecordAction(r) \/ Fail(r)
        BY <2>1 DEF InsertConflict, ScheduleRelease, ReplyReleased, RecordAction, Fail, Finish,
                    LInv, WInv, TypeOK
    <2>2. ASSUME NEW s \in {"ledger", "insert"}, calls' = [calls EXCEPT ![r].stage = s], Saving(r)
          PROVE  Saving(r)' /\ calls'[r] = [calls[r] EXCEPT !.stage = calls'[r].stage]
        <3>1. calls[r] \in Calls
            BY <2>2, BusyCall DEF Saving, LInv, WInv
        <3>2. calls'[r] = [calls[r] EXCEPT !.stage = s]
            BY <2>2 DEF LInv, WInv, TypeOK
        <3>3. calls'[r].stage = s
            BY <3>1, <3>2 DEF Calls
        <3> QED BY <3>2, <3>3 DEF Saving
    <2>3. CASE UpsertBalances(r)
        BY <2>2, <2>3 DEF UpsertBalances, At, Saving
    <2>4. CASE DeleteLedger(r)
        BY <2>2, <2>4 DEF DeleteLedger, At, Saving
    <2> QED BY <2>1, <2>3, <2>4
<1>3. \A p \in Orders : /\ jobs[p].state # "none" => CreditsOf(ledger, p) # {}
                        /\ jobs[p].state = "done" => Unreleased(ledger, p) = {}
    BY DEF LInv, ReleasesHaveCredits, JobsReleaseInTime
<1>4. \A p \in Orders : /\ jobs'[p].state # "none" => CreditsOf(ledger, p) # {}
                        /\ jobs'[p].state = "done" => Unreleased(ledger, p) = {}
    <2>1. CASE RetryJobOf(r)
        BY <1>3, <2>1 DEF RetryJobOf, Retried, LInv, WInv, JobType
    <2>2. CASE ScheduleRelease(r)
        BY <1>3, <2>2 DEF ScheduleRelease, NewJob, LInv, WInv, ReleasesHaveCredits
    <2>3. CASE ReplyReleased(r)
        <3> SUFFICES ASSUME NEW p \in Orders
                     PROVE  /\ jobs'[p].state # "none" => CreditsOf(ledger, p) # {}
                            /\ jobs'[p].state = "done" => Unreleased(ledger, p) = {}
            OBVIOUS
        <3>1. CASE calls[r].order = p
            BY <2>3, <3>1 DEF ReplyReleased, LInv, ReleasesHaveCredits, JobsReleaseInTime
        <3>2. CASE calls[r].order # p
            BY <1>3, <2>3, <3>2 DEF ReplyReleased
        <3> QED BY <3>1, <3>2
    <2> QED BY <1>3, <2>1, <2>2, <2>3
            DEF UpsertBalances, DeleteLedger, InsertConflict, RecordAction, Fail
<1> QED BY <1>1, <1>2, <1>3, <1>4, LedgerStaysKeeps

LEMMA EnvironmentKeepsL ==
    ASSUME LInv, WInv', NEW o \in Orders, Mature(o) \/ LoseReply(o)
    PROVE  LInv'
<1>1. UNCHANGED <<ledger, minted, calls>> /\ matured \subseteq matured'
    BY DEF Mature, LoseReply, tables
<1>2. \A p \in Orders : /\ jobs'[p].state # "none" => jobs[p].state # "none"
                        /\ jobs'[p].state = "done" => jobs[p].state = "done"
    <2>1. CASE Mature(o)
        BY <2>1 DEF Mature
    <2>2. CASE LoseReply(o)
        BY <2>2 DEF LoseReply, Retried, LInv, WInv, JobType
    <2> QED BY <2>1, <2>2
<1> QED BY <1>1, <1>2, LedgerStaysKeeps DEF LInv, ReleasesHaveCredits, JobsReleaseInTime

\* The commit replaces the ledger by one that follows it.
LEMMA InsertLedgerKeepsL ==
    ASSUME LInv, WInv', NEW r \in Requests, InsertLedger(r)
    PROVE  LInv' /\ ledger' = calls[r].ledger /\ Follows(calls[r].ledger)
<1> DEFINE c == calls[r]
<1>1. /\ Saving(r) /\ c \in Calls
      /\ \A q \in Requests : q # r => ~Saving(q)
    BY BusyCall DEF InsertLedger, At, Saving, LInv, OneSaves, WInv
<1>2. /\ Follows(c.ledger) /\ Used(c.ledger) \subseteq minted /\ c.fresh = {}
      /\ Delivers(c.op, c.order, c.ledger)
    BY <1>1 DEF LInv, SavesFollow
<1>3. ledger' = c.ledger
    BY <1>1, <1>2 DEF InsertLedger, Rewritten, Calls, Ledgers
<1>4. /\ calls'[r] = AfterSave(c)
      /\ \A q \in Requests : q # r => calls'[q] = calls[q]
      /\ UNCHANGED <<jobs, minted, matured>>
    BY <1>1 DEF InsertLedger, Saving, At
<1>5. \A q \in Requests : ~Saving(q)'
    BY <1>1, <1>4, AfterSaveType DEF Saving
<1>6. OneSaves' /\ SavesFollow'
    BY <1>5 DEF OneSaves, SavesFollow
<1>7. (Used(ledger) \subseteq minted)' /\ OneCreditPerOrder'
    BY <1>2, <1>3, <1>4 DEF Follows, Used, OneCreditPerOrder, CreditsOf
<1>8. \A o \in Orders : CreditsOf(ledger, o) # {} =>
        /\ CreditsOf(ledger', o) # {}
        /\ Unreleased(ledger', o) \subseteq Unreleased(ledger, o)
    <2> SUFFICES ASSUME NEW o \in Orders, NEW i \in CreditsOf(ledger, o)
                 PROVE  /\ i \in CreditsOf(ledger', o)
                        /\ Unreleased(ledger', o) \subseteq Unreleased(ledger, o)
        OBVIOUS
    <2>1. ledger[i] # Absent
        BY DEF CreditsOf, Absent
    <2>2. i \in Ids /\ Succeeds(ledger[i], ledger'[i])
        BY <1>2, <1>3, <2>1 DEF Follows, CreditsOf
    <2> QED BY <1>2, <1>3, <2>2 DEF Follows, CreditsOf, Succeeds
<1>9. JobsReleaseInTime'
    <2>1. \A o \in Orders : jobs'[o].state = "done" => Unreleased(ledger', o) = {}
        BY <1>4, <1>8 DEF LInv, JobsReleaseInTime, ReleasesHaveCredits
    <2>2. \A i \in Ids : ledger'[i].kind = "credit" /\ ledger'[i].release = "schedule"
                            => ledger'[i].order \in matured'
        BY <1>2, <1>3, <1>4 DEF Follows
    <2> QED BY <2>1, <2>2 DEF JobsReleaseInTime, Unreleased, CreditsOf
<1>10. ReleasesHaveCredits'
    <2>1. \A o \in Orders : jobs'[o].state # "none" => CreditsOf(ledger', o) # {}
        BY <1>4, <1>8 DEF LInv, ReleasesHaveCredits
    <2>2. ASSUME NEW q \in Requests, q # r, calls'[q].stage \in {"schedule", "reply"}
          PROVE  /\ CreditsOf(ledger', calls'[q].order) # {}
                 /\ calls'[q].stage = "reply" => Unreleased(ledger', calls'[q].order) = {}
        <3>1. calls'[q] = calls[q]
            BY <1>4, <2>2
        <3>2. CreditsOf(ledger, calls[q].order) # {}
            BY <2>2, <3>1 DEF LInv, ReleasesHaveCredits, At
        <3>3. calls[q].order \in Orders
            <4>1. calls[q] \in Calls /\ Busy(q)
                BY <2>2, <3>1, BusyCall DEF LInv, WInv
            <4>2. PICK i \in CreditsOf(ledger, calls[q].order) : TRUE
                BY <3>2
            <4>3. ledger[i].kind = "credit" /\ ledger[i].order = calls[q].order /\ i \in Ids
                BY <4>2 DEF CreditsOf
            <4> QED BY <4>3 DEF LInv, WInv, TypeOK, Ledgers, Credits, Debits, Absent
        <3> QED BY <1>8, <2>2, <3>1, <3>2, <3>3 DEF LInv, ReleasesHaveCredits, At
    <2>3. ASSUME calls'[r].stage \in {"schedule", "reply"}
          PROVE  /\ CreditsOf(ledger', calls'[r].order) # {}
                 /\ calls'[r].stage = "reply" => Unreleased(ledger', calls'[r].order) = {}
        <3>1. calls'[r] # Idle /\ calls'[r].order = c.order
            BY <1>1, <1>4, <2>3, AfterSaveType DEF Idle
        <3>2. /\ calls'[r].stage = "schedule" => c.op = "credit"
              /\ calls'[r].stage = "reply" => c.op = "release"
            BY <1>1, <1>4 DEF AfterSave, Idle, Calls
        <3> QED BY <1>2, <1>3, <2>3, <3>1, <3>2 DEF Delivers
    <2> QED BY <2>1, <2>2, <2>3 DEF ReleasesHaveCredits, At, CreditsOf, Unreleased
<1> QED BY <1>2, <1>3, <1>6, <1>7, <1>9, <1>10 DEF LInv

LEMMA NextKeepsL == Serialized /\ LInv /\ [Next]_walletVars => LInv'
<1> SUFFICES ASSUME Serialized, LInv, [Next]_walletVars PROVE LInv'
    OBVIOUS
<1>1. WInv'
    BY NextKeeps DEF LInv
<1>2. ASSUME NEW r \in Requests, BeginCall(r) PROVE LInv'
    BY <1>1, <1>2, BeginCallKeepsL
<1>3. ASSUME NEW r \in Requests, Proceed(r) \/ Fail(r) PROVE LInv'
    BY <1>1, <1>3, RestKeepsL, InsertLedgerKeepsL DEF Proceed
<1>4. ASSUME NEW o \in Orders, Mature(o) \/ LoseReply(o) PROVE LInv'
    BY <1>1, <1>4, EnvironmentKeepsL
<1>5. CASE UNCHANGED walletVars
    BY <1>1, <1>5, LedgerStaysKeeps DEF walletVars, LInv, ReleasesHaveCredits, JobsReleaseInTime
<1> QED BY <1>2, <1>3, <1>4, <1>5 DEF Next

THEOREM LInvHolds == ASSUME Serialized PROVE Spec => []LInv
<1> QED BY InitLInv, NextKeepsL, PTL DEF Spec

\* When no handler reads the wallet during a save, an order is credited once, even
\* if the credit is asked for again and again, and saves are torn.
THEOREM CreditedOnce == ASSUME Serialized PROVE Spec => []OneCreditPerOrder
<1>1. LInv => OneCreditPerOrder
    BY DEF LInv
<1> QED BY <1>1, LInvHolds, PTL

\* Then no release job is answered with success while its credit stays locked,
\* and none releases a credit before its lock period is over.
THEOREM ReleasesInTime == ASSUME Serialized PROVE Spec => []JobsReleaseInTime
<1>1. LInv => JobsReleaseInTime
    BY DEF LInv
<1> QED BY <1>1, LInvHolds, PTL

\* And the rewrites of the ledger only add rows, or release credits.
THEOREM LedgerGrows == ASSUME Serialized PROVE Spec => LedgerOnlyGrows
<1>1. LInv /\ [Next]_walletVars =>
        [\A i \in Ids : ledger[i] # Absent =>
                \/ ledger'[i] = ledger[i]
                \/ /\ ledger[i].kind = "credit" /\ ledger[i].release = "none"
                   /\ ledger'[i].kind = "credit" /\ ledger'[i].order = ledger[i].order]_ledger
    <2> SUFFICES ASSUME LInv, [Next]_walletVars, ledger' # ledger, NEW i \in Ids, ledger[i] # Absent
                 PROVE  \/ ledger'[i] = ledger[i]
                        \/ /\ ledger[i].kind = "credit" /\ ledger[i].release = "none"
                           /\ ledger'[i].kind = "credit" /\ ledger'[i].order = ledger[i].order
        OBVIOUS
    <2>1. PICK r \in Requests : InsertLedger(r)
        BY DEF Next, BeginCall, BeginCredit, StartRelease, BeginForceRelease, BeginWithdraw,
                    Begin, Proceed, UpsertBalances, DeleteLedger, InsertConflict, ScheduleRelease,
                    ReplyReleased, RecordAction, Fail, Mature, LoseReply, tables, walletVars
    <2>2. WInv'
        BY NextKeeps DEF LInv
    <2>3. ledger' = calls[r].ledger /\ Follows(calls[r].ledger)
        BY <2>1, <2>2, InsertLedgerKeepsL
    <2> QED BY <2>3 DEF Follows, Succeeds
<1> QED BY <1>1, LInvHolds, PTL DEF Spec, LedgerOnlyGrows

-------------------------------------------------------------------------------
(***************************************************************************)
(* The executions in which, besides, no handler fails between the commits  *)
(* of its save: the two tables agree.                                      *)
(***************************************************************************)

\* What a row counts for in each of the sums of BooksBalance.
LockedPart(row) == IF row.kind = "credit" /\ row.release = "none" THEN Pay[row.order] ELSE 0
ReleasedPart(row) == IF row.kind = "credit" /\ row.release # "none" THEN Pay[row.order] ELSE 0
DebitedPart(row) == IF row.kind = "debit" THEN row.amount ELSE 0

LockedSum(l) == SumOf([i \in Ids |-> LockedPart(l[i])], Ids)
ReleasedSum(l) == SumOf([i \in Ids |-> ReleasedPart(l[i])], Ids)
DebitedSum(l) == SumOf([i \in Ids |-> DebitedPart(l[i])], Ids)

\* The balances that go with the ledger l.
AddsUp(l, inLocked, inWithdrawable) ==
    /\ inLocked = LockedSum(l)
    /\ inWithdrawable = ReleasedSum(l) - DebitedSum(l)

\* The ledger l is the one in the table with one row written: how a handler left it.
Earns(l, o) ==
    \E id \in Ids :
        /\ ledger[id] = Absent /\ CreditsOf(ledger, o) = {}
        /\ l = [ledger EXCEPT ![id] = [kind |-> "credit", order |-> o, release |-> "none"]]
Releases(l, o) ==
    \E id \in Ids, source \in {"schedule", "admin"} :
        /\ Unreleased(ledger, o) = {id}
        /\ l = [ledger EXCEPT ![id] = [kind |-> "credit", order |-> o, release |-> source]]
Debiting(l) ==
    \E id \in Ids, amount \in Amounts :
        /\ ledger[id] = Absent
        /\ l = [ledger EXCEPT ![id] = [kind |-> "debit", amount |-> amount]]
Prepared(l) == Debiting(l) \/ \E o \in Orders : Earns(l, o) \/ Releases(l, o)

\* The tables disagree only between the commits of a save, and then it is the entity
\* of the one who saves that is right.
BetweenCommits(r) == calls[r].stage \in {"ledger", "insert"}
BInv ==
    /\ LInv
    /\ (\A r \in Requests : ~BetweenCommits(r)) => AddsUp(ledger, locked, withdrawable)
    /\ \A r \in Requests : Saving(r) =>
        /\ Prepared(calls[r].ledger)
        /\ AddsUp(calls[r].ledger, calls[r].locked, calls[r].withdrawable)
        /\ BetweenCommits(r) => locked = calls[r].locked /\ withdrawable = calls[r].withdrawable

\* The sum of the model is this sum.
LEMMA SumOfRows ==
    ASSUME TypeOK, NEW ids \in SUBSET Ids, NEW f,
           \A i \in ids : f[i] = IF ledger[i].kind = "credit" THEN Pay[ledger[i].order]
                                 ELSE ledger[i].amount
    PROVE  Sum(ids) = SumOf(f, ids)
<1> DEFINE P(g) == g = [s \in SUBSET ids |-> IF s = {} THEN 0
                            ELSE (IF ledger[Some(s)].kind = "credit"
                                  THEN Pay[ledger[Some(s)].order]
                                  ELSE ledger[Some(s)].amount) + g[s \ {Some(s)}]]
           h == CHOOSE g : P(g)
<1>1. Sum(ids) = h[ids]
    BY DEF Sum, MapThenSumSet, MapThenFoldSet, Some
<1>2. IsFiniteSet(ids)
    BY WalletAssumption, FS_Subset
<1>3. ASSUME NEW g PROVE Adds(f, ids, g) <=> P(g)
    <2>1. \A s \in SUBSET ids : s # {} => f[Some(s)] =
            IF ledger[Some(s)].kind = "credit" THEN Pay[ledger[Some(s)].order]
            ELSE ledger[Some(s)].amount
        BY SomeIn
    <2>2. [s \in SUBSET ids |-> IF s = {} THEN 0 ELSE f[Some(s)] + g[s \ {Some(s)}]]
            = [s \in SUBSET ids |-> IF s = {} THEN 0
                            ELSE (IF ledger[Some(s)].kind = "credit"
                                  THEN Pay[ledger[Some(s)].order]
                                  ELSE ledger[Some(s)].amount) + g[s \ {Some(s)}]]
        BY <2>1
    <2> QED BY <2>2 DEF Adds
<1>4. Adds(f, ids, h)
    <2>1. \E g : P(g)
        BY <1>2, <1>3, SumsExist
    <2>2. P(h)
        BY <2>1
    <2> HIDE DEF P, h
    <2> QED BY <1>3, <2>2
<1> HIDE DEF P, h
<1> QED BY <1>1, <1>2, <1>4, SumsAdd

LEMMA PartTypes ==
    ASSUME NEW l \in Ledgers, NEW i \in Ids
    PROVE  LockedPart(l[i]) \in Nat /\ ReleasedPart(l[i]) \in Nat /\ DebitedPart(l[i]) \in Nat
<1>1. l[i] \in Credits \cup Debits \cup {Absent}
    BY DEF Ledgers
<1>2. l[i].kind = "credit" => l[i] \in Credits
    BY <1>1 DEF Credits, Debits, Absent
<1>3. l[i].kind = "debit" => l[i] \in Debits
    BY <1>1 DEF Credits, Debits, Absent
<1>4. l[i].kind = "credit" => Pay[l[i].order] \in Nat
    BY <1>2, WalletAssumption DEF Credits
<1>5. l[i].kind = "debit" => l[i].amount \in Nat
    BY <1>3, WalletAssumption DEF Debits
<1> QED BY <1>4, <1>5 DEF LockedPart, ReleasedPart, DebitedPart

\* What the three sets of the ledger add up to.
LEMMA SumsOfTheTable ==
    ASSUME TypeOK
    PROVE  /\ Sum(LockedIds) = LockedSum(ledger)
           /\ Sum(ReleasedIds) = ReleasedSum(ledger)
           /\ Sum(DebitIds) = DebitedSum(ledger)
<1>1. ASSUME NEW part, NEW ids \in SUBSET Ids,
             part \in [Ids -> Nat], \A i \in Ids \ ids : part[i] = 0,
             \A i \in ids : part[i] = IF ledger[i].kind = "credit" THEN Pay[ledger[i].order]
                                      ELSE ledger[i].amount
      PROVE  Sum(ids) = SumOf(part, Ids)
    <2>1. Sum(ids) = SumOf(part, ids)
        BY <1>1, SumOfRows
    <2>2. \A i \in Ids : part[i] \in Nat
        BY <1>1
    <2>3. SumOf(part, Ids) = SumOf(part, ids)
        BY <1>1, <2>2, WalletAssumption, SumRest
    <2> QED BY <2>1, <2>3
<1>2. ledger \in Ledgers
    BY DEF TypeOK
<1>3. \A i \in Ids : ledger[i].kind = "credit" => ledger[i].order \in Orders
    BY <1>2 DEF Ledgers, Credits, Debits, Absent
<1>4. \A i \in Ids : i \in LockedIds <=> ledger[i].kind = "credit" /\ ledger[i].release = "none"
    BY <1>3 DEF LockedIds, Unreleased, CreditsOf
<1>5. \A i \in Ids : i \in ReleasedIds <=> ledger[i].kind = "credit" /\ ledger[i].release # "none"
    BY <1>3 DEF ReleasedIds, Unreleased, CreditsOf
<1>6. \A i \in Ids : i \in DebitIds <=> ledger[i].kind = "debit"
    BY DEF DebitIds
<1>7. LockedIds \subseteq Ids /\ ReleasedIds \subseteq Ids /\ DebitIds \subseteq Ids
    BY DEF LockedIds, ReleasedIds, DebitIds, Unreleased, CreditsOf
<1>8. Sum(LockedIds) = LockedSum(ledger)
    <2> DEFINE part == [i \in Ids |-> LockedPart(ledger[i])]
    <2>1. part \in [Ids -> Nat]
        BY <1>2, PartTypes
    <2>2. \A i \in Ids \ LockedIds : part[i] = 0
        BY <1>4 DEF LockedPart
    <2>3. \A i \in LockedIds : part[i] = IF ledger[i].kind = "credit" THEN Pay[ledger[i].order]
                                         ELSE ledger[i].amount
        BY <1>4, <1>7 DEF LockedPart
    <2>4. LockedSum(ledger) = SumOf(part, Ids)
        BY DEF LockedSum
    <2> HIDE DEF part
    <2> QED BY <1>1, <1>7, <2>1, <2>2, <2>3, <2>4
<1>9. Sum(ReleasedIds) = ReleasedSum(ledger)
    <2> DEFINE part == [i \in Ids |-> ReleasedPart(ledger[i])]
    <2>1. part \in [Ids -> Nat]
        BY <1>2, PartTypes
    <2>2. \A i \in Ids \ ReleasedIds : part[i] = 0
        BY <1>5 DEF ReleasedPart
    <2>3. \A i \in ReleasedIds : part[i] = IF ledger[i].kind = "credit" THEN Pay[ledger[i].order]
                                           ELSE ledger[i].amount
        BY <1>5, <1>7 DEF ReleasedPart
    <2>4. ReleasedSum(ledger) = SumOf(part, Ids)
        BY DEF ReleasedSum
    <2> HIDE DEF part
    <2> QED BY <1>1, <1>7, <2>1, <2>2, <2>3, <2>4
<1>10. Sum(DebitIds) = DebitedSum(ledger)
    <2> DEFINE part == [i \in Ids |-> DebitedPart(ledger[i])]
    <2>1. part \in [Ids -> Nat]
        BY <1>2, PartTypes
    <2>2. \A i \in Ids \ DebitIds : part[i] = 0
        BY <1>6 DEF DebitedPart
    <2>3. \A i \in DebitIds : part[i] = IF ledger[i].kind = "credit" THEN Pay[ledger[i].order]
                                        ELSE ledger[i].amount
        BY <1>6, <1>7 DEF DebitedPart
    <2>4. DebitedSum(ledger) = SumOf(part, Ids)
        BY DEF DebitedSum
    <2> HIDE DEF part
    <2> QED BY <1>1, <1>7, <2>1, <2>2, <2>3, <2>4
<1> QED BY <1>8, <1>9, <1>10

LEMMA SumTypes ==
    ASSUME NEW l \in Ledgers
    PROVE  LockedSum(l) \in Nat /\ ReleasedSum(l) \in Nat /\ DebitedSum(l) \in Nat
<1>1. ASSUME NEW f, f \in [Ids -> Nat] PROVE SumOf(f, Ids) \in Nat
    BY <1>1, WalletAssumption, SumType
<1>2. /\ [i \in Ids |-> LockedPart(l[i])] \in [Ids -> Nat]
      /\ [i \in Ids |-> ReleasedPart(l[i])] \in [Ids -> Nat]
      /\ [i \in Ids |-> DebitedPart(l[i])] \in [Ids -> Nat]
    BY PartTypes
<1> QED BY <1>1, <1>2 DEF LockedSum, ReleasedSum, DebitedSum

\* One row is written.
LEMMA SumsOfOneRow ==
    ASSUME NEW l \in Ledgers, NEW m \in Ledgers, NEW id \in Ids,
           \A i \in Ids \ {id} : m[i] = l[i]
    PROVE  /\ LockedSum(m) = LockedSum(l) + LockedPart(m[id]) - LockedPart(l[id])
           /\ ReleasedSum(m) = ReleasedSum(l) + ReleasedPart(m[id]) - ReleasedPart(l[id])
           /\ DebitedSum(m) = DebitedSum(l) + DebitedPart(m[id]) - DebitedPart(l[id])
<1>1. ASSUME NEW f, NEW g, f \in [Ids -> Nat], g \in [Ids -> Nat], \A i \in Ids \ {id} : f[i] = g[i]
      PROVE  SumOf(g, Ids) = SumOf(f, Ids) + g[id] - f[id]
    <2>1. \A i \in Ids : f[i] \in Nat /\ g[i] \in Nat
        BY <1>1
    <2> QED BY <1>1, <2>1, WalletAssumption, SumChange
<1>2. LockedSum(m) = LockedSum(l) + LockedPart(m[id]) - LockedPart(l[id])
    <2> DEFINE f == [i \in Ids |-> LockedPart(l[i])]
               g == [i \in Ids |-> LockedPart(m[i])]
    <2>1. f \in [Ids -> Nat] /\ g \in [Ids -> Nat]
        BY PartTypes
    <2>2. \A i \in Ids \ {id} : f[i] = g[i]
        OBVIOUS
    <2>3. /\ f[id] = LockedPart(l[id]) /\ g[id] = LockedPart(m[id])
          /\ LockedSum(l) = SumOf(f, Ids) /\ LockedSum(m) = SumOf(g, Ids)
        BY DEF LockedSum
    <2> HIDE DEF f, g
    <2> QED BY <1>1, <2>1, <2>2, <2>3
<1>3. ReleasedSum(m) = ReleasedSum(l) + ReleasedPart(m[id]) - ReleasedPart(l[id])
    <2> DEFINE f == [i \in Ids |-> ReleasedPart(l[i])]
               g == [i \in Ids |-> ReleasedPart(m[i])]
    <2>1. f \in [Ids -> Nat] /\ g \in [Ids -> Nat]
        BY PartTypes
    <2>2. \A i \in Ids \ {id} : f[i] = g[i]
        OBVIOUS
    <2>3. /\ f[id] = ReleasedPart(l[id]) /\ g[id] = ReleasedPart(m[id])
          /\ ReleasedSum(l) = SumOf(f, Ids) /\ ReleasedSum(m) = SumOf(g, Ids)
        BY DEF ReleasedSum
    <2> HIDE DEF f, g
    <2> QED BY <1>1, <2>1, <2>2, <2>3
<1>4. DebitedSum(m) = DebitedSum(l) + DebitedPart(m[id]) - DebitedPart(l[id])
    <2> DEFINE f == [i \in Ids |-> DebitedPart(l[i])]
               g == [i \in Ids |-> DebitedPart(m[i])]
    <2>1. f \in [Ids -> Nat] /\ g \in [Ids -> Nat]
        BY PartTypes
    <2>2. \A i \in Ids \ {id} : f[i] = g[i]
        OBVIOUS
    <2>3. /\ f[id] = DebitedPart(l[id]) /\ g[id] = DebitedPart(m[id])
          /\ DebitedSum(l) = SumOf(f, Ids) /\ DebitedSum(m) = SumOf(g, Ids)
        BY DEF DebitedSum
    <2> HIDE DEF f, g
    <2> QED BY <1>1, <2>1, <2>2, <2>3
<1> QED BY <1>2, <1>3, <1>4

\* Each entity is one row away from the tables, and its balances add up again.
LEMMA CreditBooks ==
    ASSUME LInv, AddsUp(ledger, locked, withdrawable), NEW o \in Orders, NEW id \in Ids \ minted,
           CreditsOf(ledger, o) = {}, NEW e, e = CreditLocked(o, id)
    PROVE  Prepared(e.ledger) /\ AddsUp(e.ledger, e.locked, e.withdrawable)
<1> DEFINE row == [kind |-> "credit", order |-> o, release |-> "none"]
<1>1. TypeOK /\ ledger \in Ledgers /\ e.ledger \in Ledgers
    BY CreditLockedType DEF LInv, WInv, TypeOK, EntityType
<1>2. /\ e.ledger = [ledger EXCEPT ![id] = row]
      /\ e.locked = locked + Pay[o] /\ e.withdrawable = withdrawable
    BY DEF CreditLocked, Entity
<1>3. ledger[id] = Absent
    BY DEF LInv, Used
<1>4. e.ledger[id] = row /\ \A i \in Ids \ {id} : e.ledger[i] = ledger[i]
    BY <1>1, <1>2 DEF Ledgers
<1>5. /\ LockedPart(row) = Pay[o] /\ ReleasedPart(row) = 0 /\ DebitedPart(row) = 0
      /\ LockedPart(Absent) = 0 /\ ReleasedPart(Absent) = 0 /\ DebitedPart(Absent) = 0
    BY DEF LockedPart, ReleasedPart, DebitedPart, Absent
<1>6. Prepared(e.ledger)
    BY <1>2, <1>3 DEF Prepared, Earns
<1>7. Pay[o] \in Nat
    BY WalletAssumption
<1> HIDE DEF row
<1>8. /\ LockedSum(e.ledger) = LockedSum(ledger) + LockedPart(row) - LockedPart(Absent)
      /\ ReleasedSum(e.ledger) = ReleasedSum(ledger) + ReleasedPart(row) - ReleasedPart(Absent)
      /\ DebitedSum(e.ledger) = DebitedSum(ledger) + DebitedPart(row) - DebitedPart(Absent)
    BY <1>1, <1>3, <1>4, SumsOfOneRow
<1>9. LockedSum(ledger) \in Nat /\ ReleasedSum(ledger) \in Nat /\ DebitedSum(ledger) \in Nat
    BY <1>1, SumTypes
<1> QED BY <1>2, <1>5, <1>6, <1>7, <1>8, <1>9 DEF AddsUp

LEMMA ReleaseBooks ==
    ASSUME LInv, AddsUp(ledger, locked, withdrawable), NEW o \in Orders,
           Unreleased(ledger, o) # {}, NEW source \in {"schedule", "admin"},
           NEW e, e = Released(Unreleased(ledger, o), o, source)
    PROVE  Prepared(e.ledger) /\ AddsUp(e.ledger, e.locked, e.withdrawable)
<1>1. TypeOK /\ ledger \in Ledgers
    BY DEF LInv, WInv, TypeOK
<1>2. PICK id \in Ids : Unreleased(ledger, o) = {id}
    BY DEF LInv, OneCreditPerOrder, Unreleased, CreditsOf
<1>3. id \in CreditsOf(ledger, o) /\ ledger[id].release = "none"
    BY <1>2 DEF Unreleased
<1>4. ledger[id] \in Credits /\ ledger[id].order = o /\ ledger[id].kind = "credit"
    BY <1>1, <1>3, CreditFields DEF CreditsOf
<1> DEFINE row == [kind |-> "credit", order |-> o, release |-> source]
<1>5. [ledger[id] EXCEPT !.release = source] = row
    BY <1>4 DEF Credits
<1>6. Worth({id}, o) = Pay[o] /\ Pay[o] \in Nat
    <2>1. Cardinality({id}) = 1 /\ Pay[o] \in Nat
        BY FS_Singleton, WalletAssumption
    <2> QED BY <2>1 DEF Worth
<1>7. e.ledger \in Ledgers
    <2>1. Unreleased(ledger, o) \in SUBSET CreditsOf(ledger, o)
        BY DEF Unreleased
    <2> QED BY <1>1, <2>1, ReleasedType DEF EntityType
<1>8. /\ e.ledger = [i \in Ids |-> IF i = id THEN row ELSE ledger[i]]
      /\ e.locked = locked - Pay[o] /\ e.withdrawable = withdrawable + Pay[o]
    BY <1>2, <1>5, <1>6 DEF Released, Entity
<1>9. e.ledger[id] = row /\ \A i \in Ids \ {id} : e.ledger[i] = ledger[i]
    BY <1>8
<1>10. e.ledger = [ledger EXCEPT ![id] = row]
    BY <1>1, <1>8 DEF Ledgers
<1>11. Prepared(e.ledger)
    BY <1>2, <1>10 DEF Prepared, Releases
<1>12. /\ LockedPart(row) = 0 /\ ReleasedPart(row) = Pay[o] /\ DebitedPart(row) = 0
       /\ LockedPart(ledger[id]) = Pay[o] /\ ReleasedPart(ledger[id]) = 0
       /\ DebitedPart(ledger[id]) = 0
    BY <1>3, <1>4 DEF LockedPart, ReleasedPart, DebitedPart
<1> HIDE DEF row
<1>13. /\ LockedSum(e.ledger) = LockedSum(ledger) + LockedPart(row) - LockedPart(ledger[id])
       /\ ReleasedSum(e.ledger) = ReleasedSum(ledger) + ReleasedPart(row) - ReleasedPart(ledger[id])
       /\ DebitedSum(e.ledger) = DebitedSum(ledger) + DebitedPart(row) - DebitedPart(ledger[id])
    BY <1>1, <1>7, <1>9, SumsOfOneRow
<1>14. LockedSum(ledger) \in Nat /\ ReleasedSum(ledger) \in Nat /\ DebitedSum(ledger) \in Nat
    BY <1>1, SumTypes
<1> QED BY <1>6, <1>8, <1>11, <1>12, <1>13, <1>14 DEF AddsUp

LEMMA WithdrawBooks ==
    ASSUME LInv, AddsUp(ledger, locked, withdrawable), NEW amount \in Amounts,
           NEW id \in Ids \ minted, NEW e, e = Withdrawn(amount, id)
    PROVE  Prepared(e.ledger) /\ AddsUp(e.ledger, e.locked, e.withdrawable)
<1> DEFINE row == [kind |-> "debit", amount |-> amount]
<1>1. TypeOK /\ ledger \in Ledgers /\ e.ledger \in Ledgers
    BY WithdrawnType DEF LInv, WInv, TypeOK, EntityType
<1>2. /\ e.ledger = [ledger EXCEPT ![id] = row]
      /\ e.locked = locked /\ e.withdrawable = withdrawable - amount
    BY DEF Withdrawn, Entity
<1>3. ledger[id] = Absent
    BY DEF LInv, Used
<1>4. e.ledger[id] = row /\ \A i \in Ids \ {id} : e.ledger[i] = ledger[i]
    BY <1>1, <1>2 DEF Ledgers
<1>5. /\ LockedPart(row) = 0 /\ ReleasedPart(row) = 0 /\ DebitedPart(row) = amount
      /\ LockedPart(Absent) = 0 /\ ReleasedPart(Absent) = 0 /\ DebitedPart(Absent) = 0
    BY DEF LockedPart, ReleasedPart, DebitedPart, Absent
<1>6. Prepared(e.ledger)
    BY <1>2, <1>3 DEF Prepared, Debiting
<1>7. amount \in Nat
    BY WalletAssumption
<1> HIDE DEF row
<1>8. /\ LockedSum(e.ledger) = LockedSum(ledger) + LockedPart(row) - LockedPart(Absent)
      /\ ReleasedSum(e.ledger) = ReleasedSum(ledger) + ReleasedPart(row) - ReleasedPart(Absent)
      /\ DebitedSum(e.ledger) = DebitedSum(ledger) + DebitedPart(row) - DebitedPart(Absent)
    BY <1>1, <1>3, <1>4, SumsOfOneRow
<1>9. LockedSum(ledger) \in Nat /\ ReleasedSum(ledger) \in Nat /\ DebitedSum(ledger) \in Nat
    BY <1>1, SumTypes
<1> QED BY <1>2, <1>5, <1>6, <1>7, <1>8, <1>9 DEF AddsUp

-------------------------------------------------------------------------------
LEMMA InitBInv == Init => BInv
<1> SUFFICES ASSUME Init PROVE BInv
    OBVIOUS
<1>1. LInv
    BY InitLInv
<1>2. \A r \in Requests : ~Saving(r)
    BY DEF Init, Saving, Idle
<1>3. AddsUp(ledger, locked, withdrawable)
    <2>1. \A i \in Ids : /\ LockedPart(ledger[i]) = 0 /\ ReleasedPart(ledger[i]) = 0
                         /\ DebitedPart(ledger[i]) = 0
        BY DEF Init, LockedPart, ReleasedPart, DebitedPart, Absent
    <2>2. ASSUME NEW f, \A i \in Ids : f[i] = 0 PROVE SumOf(f, Ids) = 0
        <3>1. SumOf(f, Ids) = SumOf(f, {})
            BY <2>2, WalletAssumption, SumRest
        <3>2. SumOf(f, {}) = 0
            BY FS_EmptySet, SumStep
        <3> QED BY <3>1, <3>2
    <2>3. LockedSum(ledger) = 0
        <3> DEFINE f == [i \in Ids |-> LockedPart(ledger[i])]
        <3>1. \A i \in Ids : f[i] = 0
            BY <2>1
        <3>2. SumOf(f, Ids) = 0
            BY <2>2, <3>1
        <3> QED BY <3>2 DEF LockedSum
    <2>4. ReleasedSum(ledger) = 0
        <3> DEFINE f == [i \in Ids |-> ReleasedPart(ledger[i])]
        <3>1. \A i \in Ids : f[i] = 0
            BY <2>1
        <3>2. SumOf(f, Ids) = 0
            BY <2>2, <3>1
        <3> QED BY <3>2 DEF ReleasedSum
    <2>5. DebitedSum(ledger) = 0
        <3> DEFINE f == [i \in Ids |-> DebitedPart(ledger[i])]
        <3>1. \A i \in Ids : f[i] = 0
            BY <2>1
        <3>2. SumOf(f, Ids) = 0
            BY <2>2, <3>1
        <3> QED BY <3>2 DEF DebitedSum
    <2> QED BY <2>3, <2>4, <2>5 DEF AddsUp, Init
<1> QED BY <1>1, <1>2, <1>3 DEF BInv

\* An entity stays what it is while the tables stay what they are.
LEMMA EntityStays ==
    ASSUME NEW q \in Requests, ledger' = ledger, NEW c, calls'[q] = c,
           Prepared(c.ledger), AddsUp(c.ledger, c.locked, c.withdrawable)
    PROVE  /\ Prepared(calls[q].ledger)'
           /\ AddsUp(calls[q].ledger, calls[q].locked, calls[q].withdrawable)'
<1>1. CASE Debiting(c.ledger)
    <2>1. Debiting(calls[q].ledger)'
        BY <1>1 DEF Debiting
    <2> QED BY <2>1 DEF Prepared
<1>2. ASSUME NEW o \in Orders, Earns(c.ledger, o) PROVE Prepared(calls[q].ledger)'
    <2>1. Earns(calls[q].ledger, o)'
        BY <1>2 DEF Earns, CreditsOf
    <2> QED BY <2>1 DEF Prepared
<1>3. ASSUME NEW o \in Orders, Releases(c.ledger, o) PROVE Prepared(calls[q].ledger)'
    <2>1. Releases(calls[q].ledger, o)'
        BY <1>3 DEF Releases, Unreleased, CreditsOf
    <2> QED BY <2>1 DEF Prepared
<1>4. AddsUp(calls[q].ledger, calls[q].locked, calls[q].withdrawable)'
    BY DEF AddsUp
<1> QED BY <1>1, <1>2, <1>3, <1>4 DEF Prepared

\* A handler reads the tables when nobody saves: they add up.
LEMMA ReadBooks ==
    ASSUME BInv, LInv', Serialized, NEW r \in Requests, NEW op, NEW o, NEW attempt, NEW e,
           NEW stage \in {"balances", "schedule", "reply"},
           Begin(r, op, o, attempt, stage, e),
           stage = "balances" => Prepared(e.ledger) /\ AddsUp(e.ledger, e.locked, e.withdrawable)
    PROVE  BInv'
<1> DEFINE c == [stage |-> stage, op |-> op, order |-> o, attempt |-> attempt,
                 locked |-> e.locked, withdrawable |-> e.withdrawable,
                 ledger |-> e.ledger, fresh |-> {}]
<1>1. /\ calls' = [calls EXCEPT ![r] = c]
      /\ locked' = locked /\ withdrawable' = withdrawable /\ ledger' = ledger
      /\ \A q \in Requests : ~Saving(q)
    BY DEF Begin, tables
<1>2. /\ calls'[r] = c
      /\ \A q \in Requests : q # r => calls'[q] = calls[q]
    BY <1>1 DEF BInv, LInv, WInv, TypeOK
<1>3. AddsUp(ledger, locked, withdrawable)'
    BY <1>1 DEF BInv, BetweenCommits, Saving, AddsUp
<1>4. ASSUME NEW q \in Requests, Saving(q)'
      PROVE  /\ q = r /\ stage = "balances"
             /\ ~BetweenCommits(q)'
    BY <1>1, <1>2, <1>4 DEF Saving, BetweenCommits
<1>5. ASSUME NEW q \in Requests, Saving(q)'
      PROVE  /\ Prepared(calls[q].ledger)'
             /\ AddsUp(calls[q].ledger, calls[q].locked, calls[q].withdrawable)'
    <2>1. q = r /\ calls'[q] = c
        BY <1>2, <1>4, <1>5
    <2>2. Prepared(c.ledger) /\ AddsUp(c.ledger, c.locked, c.withdrawable)
        BY <1>4, <1>5
    <2> HIDE DEF c
    <2> QED BY <1>1, <2>1, <2>2, EntityStays
<1> QED BY <1>3, <1>4, <1>5 DEF BInv

\* Then r is between the read and the first commit.
LEMMA BooksWhenNobodySaves ==
    ASSUME BInv, Serialized, NEW r \in Requests, NEW op, NEW o, NEW attempt, NEW e, NEW stage,
           Begin(r, op, o, attempt, stage, e)
    PROVE  AddsUp(ledger, locked, withdrawable)
BY DEF BInv, Begin, Saving, BetweenCommits

LEMMA BeginCallBooks ==
    ASSUME BInv, LInv', Serialized, NEW r \in Requests, BeginCall(r)
    PROVE  BInv'
<1>0. LInv
    BY DEF BInv
<1>1. ASSUME NEW o \in Orders, BeginCredit(r, o) PROVE BInv'
    <2>1. CASE Begin(r, "credit", o, 0, "schedule", Unchanged)
        <3> DEFINE e == Unchanged
        <3>1. Begin(r, "credit", o, 0, "schedule", e)
            BY <2>1
        <3> HIDE DEF e
        <3> QED BY <3>1, ReadBooks
    <2>2. CASE /\ CreditsOf(ledger, o) = {} /\ Mint
               /\ Begin(r, "credit", o, 0, "balances", CreditLocked(o, NewId))
        <3> DEFINE e == CreditLocked(o, NewId)
        <3>1. NewId \in Ids \ minted
            BY <2>2, NewIdType
        <3>2. AddsUp(ledger, locked, withdrawable)
            BY <2>2, BooksWhenNobodySaves
        <3>3. Prepared(e.ledger) /\ AddsUp(e.ledger, e.locked, e.withdrawable)
            BY <1>0, <2>2, <3>1, <3>2, CreditBooks
        <3>4. Begin(r, "credit", o, 0, "balances", e)
            BY <2>2
        <3> HIDE DEF e
        <3> QED BY <3>3, <3>4, ReadBooks
    <2> QED BY <1>1, <2>1, <2>2 DEF BeginCredit
<1>2. ASSUME NEW o \in Orders, StartRelease(r, o) PROVE BInv'
    <2> DEFINE e == Released(Due(o), o, "schedule")
               attempt == jobs[o].tries + 1
    <2>1. Due(o) = Unreleased(ledger, o)
        BY <1>2 DEF StartRelease, Due
    <2>2. Begin(r, "release", o, attempt, IF Due(o) = {} THEN "reply" ELSE "balances", e)
        BY <1>2 DEF StartRelease
    <2>3. AddsUp(ledger, locked, withdrawable)
        BY <2>2, BooksWhenNobodySaves
    <2>4. Due(o) # {} => Prepared(e.ledger) /\ AddsUp(e.ledger, e.locked, e.withdrawable)
        BY <1>0, <2>1, <2>3, ReleaseBooks
    <2> HIDE DEF e, attempt
    <2>5. CASE Due(o) = {}
        <3>1. Begin(r, "release", o, attempt, "reply", e)
            BY <2>2, <2>5
        <3> QED BY <3>1, ReadBooks
    <2>6. CASE Due(o) # {}
        <3>1. Begin(r, "release", o, attempt, "balances", e)
            BY <2>2, <2>6
        <3> QED BY <2>4, <2>6, <3>1, ReadBooks
    <2> QED BY <2>5, <2>6
<1>3. ASSUME NEW o \in Orders, BeginForceRelease(r, o) PROVE BInv'
    <2> DEFINE e == Released(Unreleased(ledger, o), o, "admin")
    <2>1. Begin(r, "force", o, 0, "balances", e) /\ Unreleased(ledger, o) # {}
        BY <1>3 DEF BeginForceRelease
    <2>2. AddsUp(ledger, locked, withdrawable)
        BY <2>1, BooksWhenNobodySaves
    <2>3. Prepared(e.ledger) /\ AddsUp(e.ledger, e.locked, e.withdrawable)
        BY <1>0, <2>1, <2>2, ReleaseBooks
    <2> HIDE DEF e
    <2> QED BY <2>1, <2>3, ReadBooks
<1>4. ASSUME NEW amount \in Amounts, BeginWithdraw(r, amount) PROVE BInv'
    <2> DEFINE e == Withdrawn(amount, NewId)
    <2>1. Begin(r, "withdraw", "any", 0, "balances", e) /\ NewId \in Ids \ minted
        BY <1>4, NewIdType DEF BeginWithdraw
    <2>2. AddsUp(ledger, locked, withdrawable)
        BY <2>1, BooksWhenNobodySaves
    <2>3. Prepared(e.ledger) /\ AddsUp(e.ledger, e.locked, e.withdrawable)
        BY <1>0, <2>1, <2>2, WithdrawBooks
    <2> HIDE DEF e
    <2> QED BY <2>1, <2>3, ReadBooks
<1> QED BY <1>1, <1>2, <1>3, <1>4 DEF BeginCall

\* The first commit writes the balances of the entity, and only r saves.
LEMMA UpsertBooks ==
    ASSUME BInv, LInv', NEW r \in Requests, UpsertBalances(r) \/ DeleteLedger(r)
    PROVE  BInv'
<1>1. /\ Saving(r) /\ calls[r] \in Calls
      /\ \A q \in Requests : q # r => ~Saving(q)
    BY BusyCall DEF UpsertBalances, DeleteLedger, At, Saving, BInv, LInv, OneSaves, WInv
<1>2. PICK s \in {"ledger", "insert"} : calls' = [calls EXCEPT ![r].stage = s]
    BY DEF UpsertBalances, DeleteLedger
<1>3. /\ calls'[r] = [calls[r] EXCEPT !.stage = s]
      /\ \A q \in Requests : q # r => calls'[q] = calls[q]
    BY <1>2 DEF BInv, LInv, WInv, TypeOK
<1>4. /\ calls'[r].stage = s /\ calls'[r].ledger = calls[r].ledger
      /\ calls'[r].locked = calls[r].locked /\ calls'[r].withdrawable = calls[r].withdrawable
    BY <1>1, <1>3 DEF Calls
<1>5. BetweenCommits(r)' /\ ledger' = ledger
    BY <1>4 DEF BetweenCommits, UpsertBalances, DeleteLedger, tables
<1>6. locked' = calls[r].locked /\ withdrawable' = calls[r].withdrawable
    <2>1. CASE UpsertBalances(r)
        BY <2>1 DEF UpsertBalances
    <2>2. CASE DeleteLedger(r)
        <3>1. BetweenCommits(r)
            BY <2>2 DEF DeleteLedger, At, BetweenCommits
        <3> QED BY <1>1, <2>2, <3>1 DEF DeleteLedger, tables, BInv
    <2> QED BY <2>1, <2>2
<1>7. ASSUME NEW q \in Requests, Saving(q)' PROVE q = r
    BY <1>1, <1>3, <1>7 DEF Saving
<1>8. /\ Prepared(calls[r].ledger)'
      /\ AddsUp(calls[r].ledger, calls[r].locked, calls[r].withdrawable)'
    <2> DEFINE c == calls'[r]
    <2>1. Prepared(c.ledger) /\ AddsUp(c.ledger, c.locked, c.withdrawable)
        BY <1>1, <1>4 DEF BInv
    <2> HIDE DEF c
    <2>2. calls'[r] = c
        BY DEF c
    <2> QED BY <1>5, <2>1, <2>2, EntityStays
<1> QED BY <1>4, <1>5, <1>6, <1>7, <1>8 DEF BInv

\* The second commit writes the ledger that goes with them.
LEMMA InsertBooks ==
    ASSUME BInv, LInv', NEW r \in Requests, InsertLedger(r), ledger' = calls[r].ledger
    PROVE  BInv'
<1>1. /\ Saving(r) /\ calls[r] \in Calls /\ BetweenCommits(r)
      /\ \A q \in Requests : q # r => ~Saving(q)
    BY BusyCall DEF InsertLedger, At, Saving, BInv, LInv, OneSaves, WInv, BetweenCommits
<1>2. /\ calls'[r] = AfterSave(calls[r])
      /\ \A q \in Requests : q # r => calls'[q] = calls[q]
      /\ locked' = locked /\ withdrawable' = withdrawable
    BY <1>1 DEF InsertLedger, Saving, At
<1>3. \A q \in Requests : ~Saving(q)'
    BY <1>1, <1>2, AfterSaveType DEF Saving
<1>4. AddsUp(ledger, locked, withdrawable)'
    BY <1>1, <1>2 DEF BInv, AddsUp
<1> QED BY <1>3, <1>4 DEF BInv

\* Everything else leaves the tables and the entities of those who save.
LEMMA RestBooks ==
    ASSUME BInv, LInv', UNCHANGED tables,
           \A q \in Requests : \/ calls'[q] = calls[q]
                               \/ calls'[q] = Idle /\ ~BetweenCommits(q)
                               \/ ~Saving(q) /\ ~Saving(q)'
    PROVE  BInv'
<1>1. locked' = locked /\ withdrawable' = withdrawable /\ ledger' = ledger
    BY DEF tables
<1>2. ASSUME NEW q \in Requests, Saving(q)' PROVE calls'[q] = calls[q] /\ Saving(q)
    BY <1>2 DEF Saving, Idle
<1>3. \A q \in Requests : BetweenCommits(q) <=> BetweenCommits(q)'
    BY DEF BetweenCommits, Saving, Idle
<1>4. ASSUME NEW q \in Requests, Saving(q)'
      PROVE  /\ Prepared(calls[q].ledger)'
             /\ AddsUp(calls[q].ledger, calls[q].locked, calls[q].withdrawable)'
             /\ BetweenCommits(q)' => (locked = calls[q].locked /\ withdrawable = calls[q].withdrawable)'
    <2>1. /\ calls'[q] = calls[q]
          /\ Prepared(calls[q].ledger)
          /\ AddsUp(calls[q].ledger, calls[q].locked, calls[q].withdrawable)
        BY <1>2, <1>4 DEF BInv
    <2>2. /\ Prepared(calls[q].ledger)'
          /\ AddsUp(calls[q].ledger, calls[q].locked, calls[q].withdrawable)'
        BY <1>1, <2>1, EntityStays
    <2>3. BetweenCommits(q)' => (locked = calls[q].locked /\ withdrawable = calls[q].withdrawable)'
        BY <1>1, <1>2, <1>3, <1>4 DEF BInv
    <2> QED BY <2>2, <2>3
<1>5. (\A q \in Requests : ~BetweenCommits(q)') => AddsUp(ledger, locked, withdrawable)'
    BY <1>1, <1>3 DEF BInv, AddsUp
<1> QED BY <1>4, <1>5 DEF BInv

LEMMA NextKeepsBooks == Serialized /\ ~TornSaves /\ BInv /\ [Next]_walletVars => BInv'
<1> SUFFICES ASSUME Serialized, ~TornSaves, BInv, [Next]_walletVars PROVE BInv'
    OBVIOUS
<1>1. LInv /\ LInv' /\ WInv'
    <2>1. LInv
        BY DEF BInv
    <2>2. LInv'
        BY <2>1, NextKeepsL
    <2> QED BY <2>1, <2>2 DEF LInv
<1>2. ASSUME NEW r \in Requests, BeginCall(r) PROVE BInv'
    BY <1>1, <1>2, BeginCallBooks
<1>3. ASSUME NEW r \in Requests, Proceed(r) \/ Fail(r) PROVE BInv'
    <2>1. CASE UpsertBalances(r) \/ DeleteLedger(r)
        BY <1>1, <2>1, UpsertBooks
    <2>2. CASE InsertLedger(r)
        <3>1. ledger' = calls[r].ledger
            BY <1>1, <2>2, InsertLedgerKeepsL
        <3> QED BY <1>1, <2>2, <3>1, InsertBooks
    <2>3. CASE InsertConflict(r)
        <3>1. calls[r].fresh = {}
            BY <1>1, <2>3 DEF InsertConflict, LInv, SavesFollow, Saving, At
        <3> QED BY <2>3, <3>1 DEF InsertConflict
    <2>4. CASE ScheduleRelease(r) \/ ReplyReleased(r) \/ RecordAction(r) \/ Fail(r)
        <3>1. UNCHANGED tables /\ calls' = [calls EXCEPT ![r] = Idle]
            BY <2>4 DEF ScheduleRelease, ReplyReleased, RecordAction, Fail, Finish
        <3>2. ~BetweenCommits(r)
            BY <2>4 DEF ScheduleRelease, ReplyReleased, RecordAction, Fail, At, BetweenCommits
        <3>3. \A q \in Requests : calls'[q] = calls[q] \/ (calls'[q] = Idle /\ ~BetweenCommits(q))
            BY <1>1, <3>1, <3>2 DEF LInv, WInv, TypeOK
        <3> QED BY <1>1, <3>1, <3>3, RestBooks
    <2> QED BY <1>3, <2>1, <2>2, <2>3, <2>4 DEF Proceed
<1>4. ASSUME NEW o \in Orders, Mature(o) \/ LoseReply(o) PROVE BInv'
    <2>1. UNCHANGED tables /\ calls' = calls
        BY <1>4 DEF Mature, LoseReply
    <2> QED BY <1>1, <2>1, RestBooks
<1>5. CASE UNCHANGED walletVars
    <2>1. UNCHANGED tables /\ calls' = calls
        BY <1>5 DEF walletVars, tables
    <2> QED BY <1>1, <2>1, RestBooks
<1> QED BY <1>2, <1>3, <1>4, <1>5 DEF Next

LEMMA BInvHolds == ASSUME Serialized, ~TornSaves PROVE Spec => []BInv
<1> QED BY InitBInv, NextKeepsBooks, PTL DEF Spec

\* When saves neither meet nor are torn, the balances are at every moment what the
\* ledger adds up to, unless a handler is between the two commits of its save.
THEOREM BooksAlwaysBalance == ASSUME Serialized, ~TornSaves PROVE Spec => []BooksBalance
<1>1. BInv => BooksBalance
    <2> SUFFICES ASSUME BInv, \A r \in Requests : ~BetweenCommits(r)
                 PROVE  /\ locked = Sum(LockedIds)
                        /\ withdrawable = Sum(ReleasedIds) - Sum(DebitIds)
        BY DEF BooksBalance, BetweenCommits
    <2>1. TypeOK
        BY DEF BInv, LInv, WInv
    <2> QED BY <2>1, SumsOfTheTable DEF BInv, AddsUp
<1> QED BY <1>1, BInvHolds, PTL

-------------------------------------------------------------------------------
(* The refinement of BoosterAccount. *)

Earnings == [o \in Orders |-> IF CreditsOf(ledger, o) = {} THEN "none"
                              ELSE IF Unreleased(ledger, o) # {} THEN "locked"
                              ELSE "released"]

\* The books know what the account has earned: one credit stands for one order.
LEMMA EarnedIsReleased ==
    ASSUME TypeOK, OneCreditPerOrder
    PROVE  Account!Earned("released") = ReleasedSum(ledger)
<1> DEFINE f == [i \in Ids |-> Pay[ledger[i].order]]
           h == [i \in Ids |-> ledger[i].order]
           O == {o \in Orders : Earnings[o] = "released"}
<1>1. ledger \in Ledgers
    BY DEF TypeOK
<1>2. \A i \in Ids : ledger[i].kind = "credit" => ledger[i] \in Credits
    BY <1>1 DEF Ledgers, Credits, Debits, Absent
<1>3. ReleasedIds \in SUBSET Ids /\ IsFiniteSet(ReleasedIds)
    <2>1. ReleasedIds \subseteq Ids
        BY DEF ReleasedIds, Unreleased, CreditsOf
    <2> QED BY <2>1, WalletAssumption, FS_Subset
<1>4. \A i \in ReleasedIds : /\ ledger[i].kind = "credit" /\ ledger[i].release # "none"
                             /\ ledger[i].order \in Orders
    BY <1>2 DEF ReleasedIds, Unreleased, CreditsOf, Credits
<1>5. Sum(ReleasedIds) = SumOf(f, ReleasedIds)
    <2>1. \A i \in ReleasedIds : f[i] = IF ledger[i].kind = "credit" THEN Pay[ledger[i].order]
                                        ELSE ledger[i].amount
        BY <1>3, <1>4
    <2> HIDE DEF f
    <2> QED BY <1>3, <2>1, SumOfRows
<1>6. {h[i] : i \in ReleasedIds} = O
    <2>1. ASSUME NEW i \in ReleasedIds PROVE h[i] \in O
        <3>1. i \in Ids /\ i \in CreditsOf(ledger, h[i]) /\ h[i] \in Orders
            BY <1>3, <1>4 DEF CreditsOf
        <3>2. Unreleased(ledger, h[i]) = {}
            BY <1>4, <3>1 DEF OneCreditPerOrder, Unreleased
        <3> QED BY <3>1, <3>2 DEF Earnings
    <2>2. ASSUME NEW o \in O PROVE \E i \in ReleasedIds : h[i] = o
        <3>1. o \in Orders /\ CreditsOf(ledger, o) # {} /\ Unreleased(ledger, o) = {}
            BY DEF Earnings
        <3>2. PICK i \in CreditsOf(ledger, o) : TRUE
            BY <3>1
        <3>3. i \in ReleasedIds
            BY <3>1, <3>2 DEF ReleasedIds
        <3> QED BY <1>3, <3>2, <3>3 DEF CreditsOf
    <2> QED BY <2>1, <2>2
<1>7. SumOf(Pay, {h[i] : i \in ReleasedIds}) = SumOf(f, ReleasedIds)
    <2>1. \A i \in ReleasedIds : f[i] \in Nat /\ Pay[h[i]] = f[i]
        BY <1>3, <1>4, WalletAssumption
    <2>2. \A i, j \in ReleasedIds : h[i] = h[j] => i = j
        BY <1>3, <1>4 DEF OneCreditPerOrder, CreditsOf
    <2> HIDE DEF f, h
    <2> QED BY <1>3, <2>1, <2>2, SumRenamed
<1>8. Account!Earned("released") = SumOf(Pay, O)
    BY DEF Account!Earned, Account!MapThenSumSet, Account!MapThenFoldSet, SumOf, MapThenSumSet,
           MapThenFoldSet, Earnings
<1>9. Sum(ReleasedIds) = ReleasedSum(ledger)
    BY SumsOfTheTable
<1> HIDE DEF f, h, O
<1> QED BY <1>5, <1>6, <1>7, <1>8, <1>9

LEMMA PaidOutIsDebited == TypeOK => Sum(DebitIds) = DebitedSum(ledger)
BY SumsOfTheTable

\* A step that leaves the ledger leaves the account.
LEMMA AccountStays ==
    ASSUME TypeOK, TypeOK', ledger' = ledger
    PROVE  Earnings' = Earnings /\ Sum(DebitIds)' = Sum(DebitIds)
<1>1. Earnings' = Earnings
    BY DEF Earnings, CreditsOf, Unreleased
<1>2. (TypeOK => Sum(DebitIds) = DebitedSum(ledger))'
    BY PaidOutIsDebited, PTL
<1>3. Sum(DebitIds)' = DebitedSum(ledger)'
    BY <1>2
<1>4. DebitedSum(ledger)' = DebitedSum(ledger)
    BY DEF DebitedSum
<1> QED BY <1>1, <1>3, <1>4, PaidOutIsDebited

\* The commit of a ledger is the step of the account that was prepared.
LEMMA CommitIsAccountStep ==
    ASSUME TypeOK, TypeOK', OneCreditPerOrder, Prepared(ledger'),
           ReleasedSum(ledger') >= DebitedSum(ledger')
    PROVE  Account!PayOut \/ \E o \in Orders : Account!Earn(o) \/ Account!Release(o)
<1>1. (TypeOK => Sum(DebitIds) = DebitedSum(ledger))'
    BY PaidOutIsDebited, PTL
<1>2. Sum(DebitIds) = DebitedSum(ledger) /\ Sum(DebitIds)' = DebitedSum(ledger')
    BY <1>1, PaidOutIsDebited
<1>3. ledger \in Ledgers /\ ledger' \in Ledgers
    BY DEF TypeOK
<1>4. /\ LockedPart(Absent) = 0 /\ ReleasedPart(Absent) = 0 /\ DebitedPart(Absent) = 0
    BY DEF LockedPart, ReleasedPart, DebitedPart, Absent
<1>5. /\ DebitedSum(ledger) \in Nat /\ ReleasedSum(ledger) \in Nat
      /\ DebitedSum(ledger') \in Nat /\ ReleasedSum(ledger') \in Nat
    BY <1>3, SumTypes
<1>6. ASSUME NEW o \in Orders, Earns(ledger', o) PROVE Account!Earn(o)
    <2>1. PICK id \in Ids : /\ ledger[id] = Absent /\ CreditsOf(ledger, o) = {}
                            /\ ledger' = [ledger EXCEPT ![id] =
                                    [kind |-> "credit", order |-> o, release |-> "none"]]
        BY <1>6 DEF Earns
    <2>2. /\ ledger'[id] = [kind |-> "credit", order |-> o, release |-> "none"]
          /\ \A i \in Ids \ {id} : ledger'[i] = ledger[i]
        BY <1>3, <2>1 DEF Ledgers
    <2>3. DebitedSum(ledger') = DebitedSum(ledger)
        <3>1. DebitedPart(ledger'[id]) = 0
            BY <2>2 DEF DebitedPart
        <3>2. DebitedSum(ledger') = DebitedSum(ledger) + DebitedPart(ledger'[id]) - DebitedPart(ledger[id])
            BY <1>3, <2>2, SumsOfOneRow
        <3>3. DebitedPart(ledger[id]) = 0
            BY <1>4, <2>1
        <3> QED BY <1>5, <3>1, <3>2, <3>3
    <2>4. CreditsOf(ledger', o) = {id} /\ Unreleased(ledger', o) = {id}
        BY <2>1, <2>2 DEF CreditsOf, Unreleased
    <2>5. \A p \in Orders \ {o} : /\ CreditsOf(ledger', p) = CreditsOf(ledger, p)
                                  /\ Unreleased(ledger', p) = Unreleased(ledger, p)
        BY <2>1, <2>2 DEF CreditsOf, Unreleased, Absent
    <2>6. Earnings[o] = "none" /\ Earnings' = [Earnings EXCEPT ![o] = "locked"]
        BY <2>1, <2>4, <2>5 DEF Earnings
    <2> QED BY <1>2, <2>3, <2>6 DEF Account!Earn, Earnings
<1>7. ASSUME NEW o \in Orders, Releases(ledger', o) PROVE Account!Release(o)
    <2>1. PICK id \in Ids, source \in {"schedule", "admin"} :
                /\ Unreleased(ledger, o) = {id}
                /\ ledger' = [ledger EXCEPT ![id] =
                        [kind |-> "credit", order |-> o, release |-> source]]
        BY <1>7 DEF Releases
    <2>2. /\ ledger'[id] = [kind |-> "credit", order |-> o, release |-> source]
          /\ \A i \in Ids \ {id} : ledger'[i] = ledger[i]
        BY <1>3, <2>1 DEF Ledgers
    <2>3. id \in CreditsOf(ledger, o) /\ ledger[id].kind = "credit" /\ ledger[id].order = o
        BY <2>1 DEF Unreleased, CreditsOf
    <2>4. DebitedSum(ledger') = DebitedSum(ledger)
        <3>1. DebitedPart(ledger'[id]) = 0 /\ DebitedPart(ledger[id]) = 0
            BY <2>2, <2>3 DEF DebitedPart
        <3> QED BY <1>3, <1>5, <2>2, <3>1, SumsOfOneRow
    <2>5. \A p \in Orders : CreditsOf(ledger', p) = CreditsOf(ledger, p)
        BY <2>2, <2>3 DEF CreditsOf
    <2>6. \A p \in Orders \ {o} : Unreleased(ledger', p) = Unreleased(ledger, p)
        BY <2>2, <2>3, <2>5 DEF CreditsOf, Unreleased
    <2>7. Unreleased(ledger', o) = {}
        <3> SUFFICES ASSUME NEW i \in CreditsOf(ledger', o), ledger'[i].release = "none" PROVE FALSE
            BY DEF Unreleased
        <3>1. i # id
            BY <2>2
        <3>2. i \in CreditsOf(ledger, o) /\ i \in Ids
            BY <2>5 DEF CreditsOf
        <3>3. ledger[i].release = "none"
            BY <2>2, <3>1, <3>2
        <3> QED BY <2>1, <3>1, <3>2, <3>3 DEF Unreleased
    <2>8. Earnings[o] = "locked" /\ Earnings' = [Earnings EXCEPT ![o] = "released"]
        BY <2>1, <2>3, <2>5, <2>6, <2>7 DEF Earnings
    <2> QED BY <1>2, <2>4, <2>8 DEF Account!Release, Earnings
<1>8. ASSUME Debiting(ledger') PROVE Account!PayOut
    <2>1. PICK id \in Ids, amount \in Amounts :
                /\ ledger[id] = Absent
                /\ ledger' = [ledger EXCEPT ![id] = [kind |-> "debit", amount |-> amount]]
        BY <1>8 DEF Debiting
    <2>2. /\ ledger'[id] = [kind |-> "debit", amount |-> amount]
          /\ \A i \in Ids \ {id} : ledger'[i] = ledger[i]
        BY <1>3, <2>1 DEF Ledgers
    <2>3. DebitedPart(ledger'[id]) = amount /\ ReleasedPart(ledger'[id]) = 0
        BY <2>2 DEF DebitedPart, ReleasedPart
    <2>4. amount \in Nat \ {0}
        BY WalletAssumption
    <2>5. /\ DebitedSum(ledger') = DebitedSum(ledger) + DebitedPart(ledger'[id]) - DebitedPart(ledger[id])
          /\ ReleasedSum(ledger') = ReleasedSum(ledger) + ReleasedPart(ledger'[id]) - ReleasedPart(ledger[id])
        BY <1>3, <2>2, SumsOfOneRow
    <2>6. /\ DebitedSum(ledger') = DebitedSum(ledger) + amount
          /\ amount \in 1 .. (ReleasedSum(ledger) - DebitedSum(ledger))
        BY <1>4, <1>5, <2>1, <2>3, <2>4, <2>5
    <2>7. \A p \in Orders : /\ CreditsOf(ledger', p) = CreditsOf(ledger, p)
                            /\ Unreleased(ledger', p) = Unreleased(ledger, p)
        BY <2>1, <2>2 DEF CreditsOf, Unreleased, Absent
    <2>8. Earnings' = Earnings
        BY <2>7 DEF Earnings
    <2>9. amount \in 1 .. (Account!Earned("released") - Sum(DebitIds))
        BY <1>2, <2>6, EarnedIsReleased
    <2> QED BY <1>2, <2>6, <2>8, <2>9 DEF Account!PayOut, Earnings
<1> QED BY <1>6, <1>7, <1>8 DEF Prepared

LEMMA InitIsAccountInit == Init => Account!AccountInit
<1> SUFFICES ASSUME Init PROVE Account!AccountInit
    OBVIOUS
<1>1. \A i \in Ids : ledger[i] = Absent
    BY DEF Init
<1>2. Earnings = [o \in Orders |-> "none"] /\ DebitIds = {}
    BY <1>1 DEF Earnings, CreditsOf, DebitIds, Absent
<1>3. TypeOK
    BY InitWInv DEF WInv
<1>4. Sum({}) = SumOf([i \in {} |-> 0], {})
    BY <1>3, SumOfRows
<1>5. SumOf([i \in {} |-> 0], {}) = 0
    BY FS_EmptySet, SumStep
<1> QED BY <1>2, <1>4, <1>5 DEF Account!AccountInit, Earnings

\* Every step of the wallet is a step of the account or leaves it alone.
LEMMA StepIsAccountStep ==
    ASSUME Serialized, BInv, BInv', [Next]_walletVars
    PROVE  [Account!PayOut \/ \E o \in Orders : Account!Earn(o) \/ Account!Release(o)]_(Account!accountVars)
<1>1. TypeOK /\ TypeOK' /\ LInv /\ WInv' /\ OneCreditPerOrder
    BY DEF BInv, LInv, WInv
<1>2. CASE ledger' = ledger
    BY <1>1, <1>2, AccountStays DEF Account!accountVars, Earnings
<1>3. CASE ledger' # ledger
    <2>1. PICK r \in Requests : InsertLedger(r)
        BY <1>3 DEF Next, BeginCall, BeginCredit, StartRelease, BeginForceRelease, BeginWithdraw,
                    Begin, Proceed, UpsertBalances, DeleteLedger, InsertConflict, ScheduleRelease,
                    ReplyReleased, RecordAction, Fail, Mature, LoseReply, tables, walletVars
    <2>2. ledger' = calls[r].ledger /\ Saving(r) /\ calls[r].withdrawable >= 0
        BY <1>1, <2>1, InsertLedgerKeepsL DEF InsertLedger, At, Saving, LInv, WInv, NoOverdraft
    <2>3. Prepared(ledger') /\ calls[r].withdrawable = ReleasedSum(ledger') - DebitedSum(ledger')
        BY <2>2 DEF BInv, AddsUp
    <2>4. ledger' \in Ledgers
        BY <1>1 DEF TypeOK
    <2>5. ReleasedSum(ledger') \in Nat /\ DebitedSum(ledger') \in Nat
        BY <2>4, SumTypes
    <2>6. ReleasedSum(ledger') >= DebitedSum(ledger')
        BY <2>2, <2>3, <2>5
    <2> QED BY <1>1, <2>3, <2>6, CommitIsAccountStep
<1> QED BY <1>2, <1>3

\* Executions whose saves neither meet nor are torn keep the promise of
\* BoosterAccount: balances, ledger and jobs together pay each order once, and never
\* pay out what has not been released.
THEOREM WalletImplementsAccount == ASSUME Serialized, ~TornSaves PROVE Spec => ImplementsAccount
<1>1. Serialized /\ BInv /\ BInv' /\ [Next]_walletVars
        => [Account!PayOut \/ \E o \in Orders : Account!Earn(o) \/ Account!Release(o)]_(Account!accountVars)
    BY StepIsAccountStep
<1> QED BY <1>1, InitIsAccountInit, BInvHolds, PTL DEF Spec, ImplementsAccount, Account!AccountSpec
================================================================================
