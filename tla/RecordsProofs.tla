------------------------------ MODULE RecordsProofs ------------------------------
(***************************************************************************)
(* What the server keeps and several handlers change at once: the accounts,*)
(* the pricing versions, the scheduled tasks, the ratings, the tickets, the*)
(* hits of the throttle and the coupons; and what it sends to open pages,  *)
(* the events of orders and the messages of a thread.  Each component has  *)
(* an inductive invariant of its own, which its initial states and its     *)
(* steps are shown to keep; PlatformProofs draws the theorems about the    *)
(* platform from them.                                                     *)
(***************************************************************************)
EXTENDS Accounts, PricingVersions, ScheduledTasks, Ratings, Tickets, RequestThrottle,
        CouponAdmin, DashboardEvents, LiveChat, Sums, SequenceTheorems, FiniteSetTheorems, TLAPS

-------------------------------------------------------------------------------
(***************************************************************************)
(* Accounts, for any users, tokens, sessions and handlers.                 *)
(* The argument: the row a handler is about to write is itself a proven    *)
(* row, whatever the table has become since it was read; and as long as    *)
(* nobody was disputed, a handler that takes an administrator away was     *)
(* started by another who still is one.  A token is at one place only, and *)
(* what is spent is held by nobody, whose handlers did not overlap.        *)
(***************************************************************************)
\* Only a row with a password waits for its confirmation.
Proven(row) ==
    /\ row.active => row.confirmed /\ row.password
    /\ row.confirmation # NoToken => row.password
RowsProven == \A u \in Users : Known(u) => Proven(users[u])
WritesProven == \A r \in Servers : serving[r].stage = "saving" => Proven(serving[r].row)

HandledKnown == \A r \in Servers : serving[r].stage # "idle" => Known(serving[r].user)
OwnersKnown ==
    /\ \A s \in Sessions : sessions[s] # Unknown => Known(sessions[s].user)
    /\ \A r \in Servers : serving[r].stage = "session" => Known(serving[r].row.user)

\* Every token that is stored, or that a handler holds, was issued.
Storable == issued \cup {NoToken}
TaskIssued(task) ==
    /\ task.stage \in {"saving", "session"} => task.token \in Storable
    /\ task.stage = "refreshing" => task.token \in issued
    /\ task.stage = "saving" => task.row.confirmation \in Storable /\ task.row.setup \in Storable
    /\ task.stage = "session" => task.row.token \in issued
RowsIssued == \A u \in Users : Known(u) => users[u].confirmation \in Storable /\ users[u].setup \in Storable
SessionsIssued == \A s \in Sessions : sessions[s] # Unknown => sessions[s].token \in issued
TokensIssued == RowsIssued /\ SessionsIssued /\ \A r \in Servers : TaskIssued(serving[r])

StoreInv == AccountsTypeOK /\ HandledKnown /\ OwnersKnown /\ TokensIssued
ProvenInv == StoreInv /\ RowsProven /\ WritesProven

Administers(row) == row.active /\ ~row.blocked /\ row.role = "admin"
SparesAnAdmin(task) ==
    \/ IsAdmin(task.actor) /\ task.actor # task.user
    \/ task.stage = "saving" /\ (IsAdmin(task.user) => Administers(task.row))
    \/ task.stage = "governing" /\ (IsAdmin(task.user) => task.role = "admin")
AdminsSpared ==
    disputed = {} =>
        \A r \in Servers : serving[r].stage \in {"saving", "governing"} => SparesAnAdmin(serving[r])
AdminInv == StoreInv /\ AnAdminRemains /\ AdminsSpared

-------------------------------------------------------------------------------
LEMMA UserRowsKnown == \A row \in UserRows : row # Unknown
    BY DEF UserRows, Unknown

LEMMA SessionRowsKnown == \A row \in SessionRows : row # Unknown
    BY DEF SessionRows, Unknown

LEMMA TaskTypes ==
    ASSUME NEW task \in Tasks \cup {Waiting}
    PROVE  /\ task.stage \in {"idle", "saving", "audit", "governing", "refreshing", "session"}
           /\ task = Waiting <=> task.stage = "idle"
           /\ task # Waiting => task.user \in Users
           /\ task.stage \in {"saving", "audit", "governing"} => task.actor \in Users
           /\ task.stage = "saving" => /\ task.row \in UserRows
                                       /\ task.token \in Tokens \cup {NoToken}
                                       /\ task.op \in {"confirm", "password", "resend", "block", "unblock"}
           /\ task.stage = "audit" => task.op \in {"create", "block", "unblock"}
           /\ task.stage = "governing" => task.name \in Names /\ task.role \in Role
           /\ task.stage = "refreshing" => task.session \in Sessions /\ task.token \in Tokens
           /\ task.stage = "session" => /\ task.session \in Sessions
                                        /\ task.row \in SessionRows
                                        /\ task.token \in Tokens \cup {NoToken}
    BY DEF Tasks, Waiting

LEMMA FreshToken == ASSUME issued # Tokens, issued \subseteq Tokens
                    PROVE  NewToken \in Tokens /\ NewToken \notin issued
    BY DEF NewToken

LEMMA NewRowTypes ==
    ASSUME NEW u \in Users, AccountsTypeOK, Known(u), issued # Tokens
    PROVE  /\ NewRow(u) \in SessionRows /\ NewRow(u).user = u /\ NewRow(u).role = users[u].role
           /\ users[u] \in UserRows
    BY FreshToken DEF AccountsTypeOK, Known, NewRow, SessionRows, UserRows

\* What a handler changes of a row that the audit speaks of: whether it is blocked.
Matches(op, u, row) ==
    /\ row.name = users[u].name /\ row.role = users[u].role
    /\ op = "block" => row.blocked = TRUE
    /\ op = "unblock" => row.blocked = FALSE
    /\ op \notin {"block", "unblock"} => row.blocked = users[u].blocked

LEMMA ReadRowTypes ==
    ASSUME NEW u \in Users, AccountsTypeOK, Known(u)
    PROVE  /\ users[u] \in UserRows
           /\ EmailConfirmed(users[u]) \in UserRows /\ PasswordSet(users[u]) \in UserRows
           /\ [users[u] EXCEPT !.blocked = TRUE] \in UserRows
           /\ [users[u] EXCEPT !.blocked = FALSE] \in UserRows
           /\ \A t \in Tokens : [users[u] EXCEPT !.setup = t] \in UserRows
           /\ Matches("confirm", u, EmailConfirmed(users[u]))
           /\ Matches("password", u, PasswordSet(users[u]))
           /\ Matches("block", u, [users[u] EXCEPT !.blocked = TRUE])
           /\ Matches("unblock", u, [users[u] EXCEPT !.blocked = FALSE])
           /\ \A t \in Tokens : Matches("resend", u, [users[u] EXCEPT !.setup = t])
    BY DEF AccountsTypeOK, Known, UserRows, EmailConfirmed, PasswordSet, Matches

LEMMA AccountsInitInv == AccountsInit => ProvenInv /\ AdminInv
<1> SUFFICES ASSUME AccountsInit PROVE ProvenInv /\ AdminInv
    OBVIOUS
<1> DEFINE FirstRow(name) == [AdminMadeRow(name, "admin", NoToken) EXCEPT
                                !.active = TRUE, !.confirmed = TRUE, !.password = TRUE]
<1>1. PICK name \in Names : users = [u \in Users |-> IF u = FirstAdmin THEN FirstRow(name) ELSE Unknown]
    BY DEF AccountsInit
<1>2. FirstRow(name) \in UserRows /\ Proven(FirstRow(name)) /\ Administers(FirstRow(name))
    BY AccountsAssumption DEF UserRows, AdminMadeRow, Proven, Administers
<1> HIDE DEF FirstRow
<1>3. \A u \in Users : Known(u) => users[u] \in UserRows /\ Proven(users[u])
    BY <1>1, <1>2 DEF Known
<1>4. IsAdmin(FirstAdmin)
    BY <1>1, <1>2, UserRowsKnown, AccountsAssumption DEF IsAdmin, Authentic, Known, Administers
<1>5. record \in [Users -> [name : Names, role : Role, blocked : BOOLEAN] \cup {Unknown}]
    BY <1>3 DEF AccountsInit, RecordOf, UserRows
<1>6. AccountsTypeOK
    BY <1>1, <1>2, <1>5 DEF AccountsInit, AccountsTypeOK
<1>7. \A r \in Servers : serving[r].stage = "idle"
    BY DEF AccountsInit, Waiting
<1>8. RowsIssued
    BY <1>1 DEF RowsIssued, Known, FirstRow, AdminMadeRow, Storable
<1>9. TokensIssued
    BY <1>7, <1>8 DEF TokensIssued, TaskIssued, SessionsIssued, AccountsInit
<1>10. StoreInv
    BY <1>6, <1>7, <1>9 DEF StoreInv, HandledKnown, OwnersKnown, AccountsInit
<1> QED BY <1>3, <1>4, <1>7, <1>10, AccountsAssumption DEF ProvenInv, AdminInv, RowsProven,
           WritesProven, AnAdminRemains, AdminsSpared

(***************************************************************************)
(* What a step does: it starts a handler, or lets one write.               *)
(***************************************************************************)
LEMMA ServeKeepsOthers ==
    ASSUME NEW r \in Servers, NEW task \in Tasks \cup {Waiting}, AccountsTypeOK,
           serving' = [serving EXCEPT ![r] = task]
    PROVE  /\ serving' \in [Servers -> Tasks \cup {Waiting}]
           /\ serving'[r] = task
           /\ \A q \in Servers : q # r => serving'[q] = serving[q]
    BY DEF AccountsTypeOK

\* A handler that begins, or goes on from its session to the user, holds a typed task about a
\* user there is.
Begins(r, task) ==
    /\ task \in Tasks
    /\ task.stage \in {"saving", "governing", "refreshing", "session"}
    /\ Known(task.user)
    /\ task.stage = "session" => Known(task.row.user)
    /\ serving[r].stage \in {"idle", "refreshing"}
    /\ Proceed(r, task)
    /\ issued' \in SUBSET Tokens /\ issued \subseteq issued'
    /\ TaskIssued(task)'
    /\ UNCHANGED <<users, sessions, record, spent, disputed, unaudited, doubleSpent>>

LEMMA BeginsKeepsStore ==
    ASSUME NEW r \in Servers, NEW task, StoreInv, Begins(r, task)
    PROVE  StoreInv'
<1>1. task \in Tasks \cup {Waiting} /\ serving' = [serving EXCEPT ![r] = task]
    BY DEF Begins, Proceed
<1>2. AccountsTypeOK'
    BY <1>1, ServeKeepsOthers DEF StoreInv, AccountsTypeOK, Begins
<1>3. \A u \in Users : Known(u) => Known(u)'
    BY DEF Begins, Known
<1>4. Known(task.user)' /\ (task.stage = "session" => Known(task.row.user)')
    BY DEF Begins, Known
<1>5. \A q \in Servers : q # r => serving'[q] = serving[q]
    BY <1>1, ServeKeepsOthers DEF StoreInv
<1>6. serving'[r] = task
    BY <1>1, ServeKeepsOthers DEF StoreInv
<1>7. HandledKnown'
    BY <1>4, <1>5, <1>6 DEF StoreInv, HandledKnown, Begins, Known
<1>8. OwnersKnown'
    BY <1>4, <1>5, <1>6 DEF StoreInv, OwnersKnown, Begins, Known
<1>9. RowsIssued' /\ SessionsIssued'
    BY DEF StoreInv, TokensIssued, RowsIssued, SessionsIssued, Storable, Known, Begins
<1>10. TokensIssued'
    <2> SUFFICES ASSUME NEW q \in Servers PROVE TaskIssued(serving[q])'
        BY <1>9 DEF TokensIssued
    <2>1. CASE q = r
        BY <1>6, <2>1 DEF Begins, TaskIssued, Storable
    <2>2. CASE q # r
        BY <1>5, <2>2 DEF StoreInv, TokensIssued, TaskIssued, Storable, Begins
    <2> QED BY <2>1, <2>2
<1> QED BY <1>2, <1>7, <1>8, <1>10 DEF StoreInv

SoundTask(task) ==
    /\ task.stage = "saving" /\ RowsProven => Proven(task.row)
    /\ task.stage \in {"saving", "governing"} => SparesAnAdmin(task)
    /\ task.stage = "saving" => Matches(task.op, task.user, task.row)
    /\ task.stage = "session" => /\ task.row.user = task.user
                                 /\ task.row.revoked \/ task.row.role = users[task.user].role

HandlerBegins(r) ==
    \/ \E u \in Users :
        \/ BeginLogin(r, u)
        \/ \E t \in Tokens : BeginConfirmEmail(r, u, t) \/ BeginSetPassword(r, u, t)
    \/ \E s \in Sessions, t \in Tokens : BeginRefresh(r, s, t) \/ BeginLogout(r, s, t)
    \/ RefreshFor(r)
    \/ \E a, u \in Users :
        \/ BeginBlock(r, a, u) \/ BeginUnblock(r, a, u) \/ BeginResendSetup(r, a, u)
        \/ \E name \in Names, role \in Role : BeginGovern(r, a, u, name, role)

LEMMA SavingBegins ==
    ASSUME NEW r \in Servers, NEW op \in {"confirm", "password", "resend", "block", "unblock"},
           NEW a \in Users, NEW u \in Users, NEW row \in UserRows, NEW t \in Tokens \cup {NoToken},
           StoreInv, Known(u), BeginSave(r, op, a, u, row, t),
           issued' \in SUBSET Tokens, issued \subseteq issued',
           t \in Storable', row.confirmation \in Storable', row.setup \in Storable',
           Matches(op, u, row), RowsProven => Proven(row),
           (IsAdmin(a) /\ a # u) \/ (IsAdmin(u) => Administers(row))
    PROVE  \E task \in Tasks : Begins(r, task) /\ SoundTask(task)
<1> DEFINE task == [stage |-> "saving", op |-> op, actor |-> a, user |-> u, row |-> row, token |-> t]
<1>1. task \in Tasks
    BY DEF Tasks
<1>2. task.stage = "saving" /\ task.op = op /\ task.user = u /\ task.actor = a /\ task.row = row
    OBVIOUS
<1>3. Begins(r, task)
    BY <1>1, <1>2 DEF Begins, BeginSave, Serve, Proceed, Waiting, TaskIssued
<1>4. SoundTask(task)
    BY <1>2 DEF SoundTask, SparesAnAdmin
<1> HIDE DEF task
<1> QED BY <1>1, <1>3, <1>4

\* A handler comes to hold the row of a session: a login or a logout starts with it, a refresh
\* goes on to it from the session it read.
TakesSession(r, u, s, row, t) ==
    /\ serving[r].stage \in {"idle", "refreshing"}
    /\ Proceed(r, [stage |-> "session", user |-> u, session |-> s, row |-> row, token |-> t])
    /\ UNCHANGED <<users, sessions, record, spent, disputed, unaudited, doubleSpent>>

LEMMA SessionTaken ==
    ASSUME NEW r
    PROVE  /\ \A u, s, row, t : BeginSession(r, u, s, row, t) => TakesSession(r, u, s, row, t)
           /\ RefreshFor(r) => TakesSession(r, serving[r].user, serving[r].session,
                                            NewRow(serving[r].user), serving[r].token)
    BY DEF BeginSession, RefreshFor, Serve, Proceed, Waiting, TakesSession

LEMMA SessionBegins ==
    ASSUME NEW r \in Servers, NEW u \in Users, NEW s \in Sessions, NEW row \in SessionRows,
           NEW t \in Tokens \cup {NoToken}, Known(u), row.user = u, TakesSession(r, u, s, row, t),
           issued' \in SUBSET Tokens, issued \subseteq issued',
           t \in Storable', row.token \in issued', row.revoked \/ row.role = users[u].role
    PROVE  \E task \in Tasks : Begins(r, task) /\ SoundTask(task)
<1> DEFINE task == [stage |-> "session", user |-> u, session |-> s, row |-> row, token |-> t]
<1>1. task \in Tasks
    BY DEF Tasks
<1>2. task.stage = "session" /\ task.user = u /\ task.row = row
    OBVIOUS
<1>3. Begins(r, task)
    BY <1>1, <1>2 DEF Begins, TakesSession, TaskIssued
<1>4. SoundTask(task)
    BY <1>2 DEF SoundTask
<1> HIDE DEF task
<1> QED BY <1>1, <1>3, <1>4

\* The token that confirms an address belongs to a row with a password.
LEMMA ReadRowsProven ==
    ASSUME NEW u \in Users, NEW t \in Tokens, AccountsTypeOK, Known(u), RowsProven
    PROVE  /\ CanConfirmEmail(users[u], t) => Proven(EmailConfirmed(users[u]))
           /\ Proven(PasswordSet(users[u]))
           /\ Proven([users[u] EXCEPT !.blocked = TRUE]) /\ Proven([users[u] EXCEPT !.blocked = FALSE])
           /\ Proven([users[u] EXCEPT !.setup = t])
<1> DEFINE row == users[u]
<1>1. row \in UserRows /\ Proven(row) /\ t # NoToken
    BY AccountsAssumption, ReadRowTypes DEF RowsProven
<1> HIDE DEF row
<1>2. Proven(PasswordSet(row))
    BY <1>1 DEF Proven, PasswordSet, UserRows
<1>3. CanConfirmEmail(row, t) => Proven(EmailConfirmed(row))
    BY <1>1 DEF Proven, EmailConfirmed, CanConfirmEmail, UserRows
<1>4. Proven([row EXCEPT !.blocked = TRUE]) /\ Proven([row EXCEPT !.blocked = FALSE])
      /\ Proven([row EXCEPT !.setup = t])
    BY <1>1 DEF Proven, UserRows
<1> QED BY <1>2, <1>3, <1>4 DEF row

LEMMA ReadRowsIssued ==
    ASSUME NEW u \in Users, StoreInv, Known(u), issued \subseteq issued'
    PROVE  /\ \A t \in Tokens : CanConfirmEmail(users[u], t) \/ CanSetPassword(users[u], t) => t \in Storable'
           /\ EmailConfirmed(users[u]).confirmation \in Storable' /\ EmailConfirmed(users[u]).setup \in Storable'
           /\ PasswordSet(users[u]).confirmation \in Storable' /\ PasswordSet(users[u]).setup \in Storable'
           /\ \A b \in BOOLEAN : LET row == [users[u] EXCEPT !.blocked = b] IN
                row.confirmation \in Storable' /\ row.setup \in Storable'
           /\ \A t \in issued' : LET row == [users[u] EXCEPT !.setup = t] IN
                row.confirmation \in Storable' /\ row.setup \in Storable'
<1> DEFINE row == users[u]
<1>1. row \in UserRows /\ row.confirmation \in Storable' /\ row.setup \in Storable'
    BY ReadRowTypes DEF StoreInv, TokensIssued, RowsIssued, Storable
<1> HIDE DEF row
<1>2. EmailConfirmed(row).confirmation \in Storable' /\ EmailConfirmed(row).setup \in Storable'
    BY <1>1 DEF EmailConfirmed, UserRows, Storable
<1>3. PasswordSet(row).confirmation \in Storable' /\ PasswordSet(row).setup \in Storable'
    BY <1>1 DEF PasswordSet, UserRows, Storable
<1>4. \A b \in BOOLEAN : /\ [row EXCEPT !.blocked = b].confirmation \in Storable'
                         /\ [row EXCEPT !.blocked = b].setup \in Storable'
    BY <1>1 DEF UserRows
<1>5. \A t \in issued' : /\ [row EXCEPT !.setup = t].confirmation \in Storable'
                         /\ [row EXCEPT !.setup = t].setup \in Storable'
    BY <1>1 DEF UserRows, Storable
<1>6. \A t \in Tokens : CanConfirmEmail(row, t) \/ CanSetPassword(row, t) => t \in Storable'
    BY <1>1 DEF CanConfirmEmail, CanSetPassword
<1> QED BY <1>2, <1>3, <1>4, <1>5, <1>6 DEF row

LEMMA BeginsSoundly ==
    ASSUME NEW r \in Servers, StoreInv, HandlerBegins(r)
    PROVE  \E task \in Tasks : Begins(r, task) /\ SoundTask(task)
<1> USE DEF StoreInv
<1>0. issued \in SUBSET Tokens /\ users \in [Users -> UserRows \cup {Unknown}]
      /\ sessions \in [Sessions -> SessionRows \cup {Unknown}]
    BY DEF AccountsTypeOK
<1>1. issued' = issued => issued' \in SUBSET Tokens /\ issued \subseteq issued' /\ NoToken \in Storable'
    BY <1>0 DEF Storable
<1>2. Issue => issued # Tokens /\ issued' \in SUBSET Tokens /\ issued \subseteq issued' /\ NewToken \in Tokens
                  /\ NewToken \in issued' /\ NoToken \in Storable'
    BY <1>0, FreshToken DEF Issue, Storable
<1>3. ASSUME NEW u \in Users, BeginLogin(r, u)
      PROVE  \E task \in Tasks : Begins(r, task) /\ SoundTask(task)
    <2>1. NewSession \in Sessions
        BY <1>3 DEF BeginLogin, NewSession, Unopened
    <2>2. Known(u) /\ issued # Tokens
        BY <1>2, <1>3 DEF BeginLogin, Authentic
    <2>3. NewRow(u).token \in issued'
        BY <1>2, <1>3 DEF BeginLogin, NewRow
    <2>4. TakesSession(r, u, NewSession, NewRow(u), NoToken)
        BY <1>3, SessionTaken DEF BeginLogin
    <2> QED BY <1>2, <1>3, <2>1, <2>2, <2>3, <2>4, NewRowTypes, SessionBegins DEF BeginLogin
<1>4. ASSUME NEW u \in Users, NEW t \in Tokens, BeginConfirmEmail(r, u, t)
      PROVE  \E task \in Tasks : Begins(r, task) /\ SoundTask(task)
    <2>1. Known(u) /\ CanConfirmEmail(users[u], t) /\ ~IsAdmin(u)
        BY <1>4 DEF BeginConfirmEmail, CanConfirmEmail, IsAdmin, Authentic
    <2>2. EmailConfirmed(users[u]) \in UserRows /\ Matches("confirm", u, EmailConfirmed(users[u]))
        BY <2>1, ReadRowTypes
    <2>3. RowsProven => Proven(EmailConfirmed(users[u]))
        BY <2>1, ReadRowsProven
    <2>4. /\ t \in Storable'
          /\ EmailConfirmed(users[u]).confirmation \in Storable' /\ EmailConfirmed(users[u]).setup \in Storable'
        BY <1>1, <1>4, <2>1, ReadRowsIssued DEF BeginConfirmEmail
    <2> QED BY <1>1, <1>4, <2>1, <2>2, <2>3, <2>4, SavingBegins DEF BeginConfirmEmail
<1>5. ASSUME NEW u \in Users, NEW t \in Tokens, BeginSetPassword(r, u, t)
      PROVE  \E task \in Tasks : Begins(r, task) /\ SoundTask(task)
    <2>1. Known(u) /\ ~IsAdmin(u)
        BY <1>5 DEF BeginSetPassword, CanSetPassword, IsAdmin, Authentic
    <2>2. PasswordSet(users[u]) \in UserRows /\ Matches("password", u, PasswordSet(users[u]))
        BY <2>1, ReadRowTypes
    <2>3. RowsProven => Proven(PasswordSet(users[u]))
        BY <2>1, ReadRowsProven
    <2>4. /\ t \in Storable'
          /\ PasswordSet(users[u]).confirmation \in Storable' /\ PasswordSet(users[u]).setup \in Storable'
        BY <1>1, <1>5, <2>1, ReadRowsIssued DEF BeginSetPassword
    <2> QED BY <1>1, <1>5, <2>1, <2>2, <2>3, <2>4, SavingBegins DEF BeginSetPassword
<1>6. ASSUME NEW s \in Sessions, NEW t \in Tokens, BeginRefresh(r, s, t)
      PROVE  \E task \in Tasks : Begins(r, task) /\ SoundTask(task)
    <2> DEFINE task == [stage |-> "refreshing", user |-> sessions[s].user, session |-> s, token |-> t]
    <2>1. sessions[s].user \in Users /\ Known(sessions[s].user) /\ t \in issued
        BY <1>0, <1>6 DEF BeginRefresh, Opens, OwnersKnown, SessionRows, TokensIssued, SessionsIssued
    <2>2. task \in Tasks
        BY <2>1 DEF Tasks
    <2>3. task.stage = "refreshing" /\ task.user = sessions[s].user /\ task.token = t
        OBVIOUS
    <2>4. Begins(r, task)
        BY <1>1, <1>6, <2>1, <2>2, <2>3 DEF BeginRefresh, Serve, Proceed, Waiting, Begins, TaskIssued
    <2>5. SoundTask(task)
        BY <2>3 DEF SoundTask
    <2> HIDE DEF task
    <2> QED BY <2>2, <2>4, <2>5
<1>7. ASSUME NEW s \in Sessions, NEW t \in Tokens, BeginLogout(r, s, t)
      PROVE  \E task \in Tasks : Begins(r, task) /\ SoundTask(task)
    <2> DEFINE row == [sessions[s] EXCEPT !.revoked = TRUE]
    <2>1. sessions[s] \in SessionRows /\ Known(sessions[s].user)
        BY <1>0, <1>7 DEF BeginLogout, Opens, OwnersKnown
    <2>2. row \in SessionRows /\ row.user = sessions[s].user /\ sessions[s].user \in Users /\ row.revoked
        BY <2>1 DEF SessionRows
    <2>3. BeginSession(r, sessions[s].user, s, row, NoToken) /\ issued' = issued
        BY <1>7 DEF BeginLogout
    <2>4. row.token \in issued'
        BY <1>7, <2>1, <2>3 DEF BeginLogout, Opens, TokensIssued, SessionsIssued, SessionRows
    <2> HIDE DEF row
    <2>5. TakesSession(r, sessions[s].user, s, row, NoToken)
        BY <2>3, SessionTaken
    <2> QED BY <1>1, <2>1, <2>2, <2>3, <2>4, <2>5, SessionBegins
<1>8. ASSUME NEW a \in Users, NEW u \in Users, BeginBlock(r, a, u)
      PROVE  \E task \in Tasks : Begins(r, task) /\ SoundTask(task)
    <2> DEFINE row == [users[u] EXCEPT !.blocked = TRUE]
    <2>1. Known(u) /\ IsAdmin(a) /\ a # u /\ BeginSave(r, "block", a, u, row, NoToken) /\ issued' = issued
        BY <1>8 DEF BeginBlock, MayBlock
    <2>2. row \in UserRows /\ Matches("block", u, row)
        BY <2>1, ReadRowTypes
    <2>3. RowsProven => Proven(row)
        <3> SUFFICES ASSUME RowsProven PROVE Proven(users[u]) => Proven(row)
            BY <2>1 DEF RowsProven
        <3> QED BY <2>1, ReadRowTypes DEF Proven, UserRows
    <2>4. row.confirmation \in Storable' /\ row.setup \in Storable'
        BY <1>1, <2>1, ReadRowsIssued
    <2> HIDE DEF row
    <2> QED BY <1>1, <2>1, <2>2, <2>3, <2>4, SavingBegins
<1>9. ASSUME NEW a \in Users, NEW u \in Users, BeginUnblock(r, a, u)
      PROVE  \E task \in Tasks : Begins(r, task) /\ SoundTask(task)
    <2> DEFINE row == [users[u] EXCEPT !.blocked = FALSE]
    <2>1. Known(u) /\ BeginSave(r, "unblock", a, u, row, NoToken) /\ issued' = issued
        BY <1>9 DEF BeginUnblock
    <2>2. row \in UserRows /\ users[u] \in UserRows /\ Matches("unblock", u, row)
        BY <2>1, ReadRowTypes
    <2>3. RowsProven => Proven(row)
        BY <2>1, <2>2 DEF RowsProven, Proven, UserRows
    <2>4. IsAdmin(u) => Administers(row)
        BY <2>2 DEF IsAdmin, Authentic, Administers, UserRows
    <2>5. row.confirmation \in Storable' /\ row.setup \in Storable'
        BY <1>1, <2>1, ReadRowsIssued
    <2> HIDE DEF row
    <2> QED BY <1>1, <2>1, <2>2, <2>3, <2>4, <2>5, SavingBegins
<1>10. ASSUME NEW a \in Users, NEW u \in Users, BeginResendSetup(r, a, u)
       PROVE  \E task \in Tasks : Begins(r, task) /\ SoundTask(task)
    <2> DEFINE row == [users[u] EXCEPT !.setup = NewToken]
    <2>1. Known(u) /\ ~IsAdmin(u) /\ Issue /\ BeginSave(r, "resend", a, u, row, NoToken)
        BY <1>10 DEF BeginResendSetup, IsAdmin, Authentic
    <2>2. row \in UserRows /\ Matches("resend", u, row)
        BY <1>2, <2>1, ReadRowTypes
    <2>3. RowsProven => Proven(row)
        BY <1>2, <2>1, ReadRowsProven
    <2>4. row.confirmation \in Storable' /\ row.setup \in Storable'
        BY <1>2, <2>1, ReadRowsIssued
    <2> HIDE DEF row
    <2> QED BY <1>2, <2>1, <2>2, <2>3, <2>4, SavingBegins
<1>11. ASSUME NEW a \in Users, NEW u \in Users, NEW name \in Names, NEW role \in Role,
              BeginGovern(r, a, u, name, role)
       PROVE  \E task \in Tasks : Begins(r, task) /\ SoundTask(task)
    <2> DEFINE task == [stage |-> "governing", actor |-> a, user |-> u, name |-> name, role |-> role]
    <2>1. task \in Tasks /\ task.stage = "governing"
        BY DEF Tasks
    <2>2. task.user = u /\ task.actor = a /\ task.role = role
        OBVIOUS
    <2>3. Begins(r, task)
        BY <1>1, <1>11, <2>1, <2>2 DEF BeginGovern, Serve, Proceed, Waiting, Begins, TaskIssued
    <2>4. SoundTask(task)
        BY <1>11, <2>1, <2>2 DEF SoundTask, SparesAnAdmin, BeginGovern, IsAdmin
    <2> HIDE DEF task
    <2> QED BY <2>1, <2>3, <2>4
<1>12. ASSUME RefreshFor(r)
       PROVE  \E task \in Tasks : Begins(r, task) /\ SoundTask(task)
    <2>1. serving[r] \in Tasks /\ serving[r].stage = "refreshing" /\ Issue
        BY <1>12, TaskTypes DEF RefreshFor, AccountsTypeOK, Waiting
    <2>2. PICK u \in Users, s \in Sessions, t \in Tokens :
                u = serving[r].user /\ s = serving[r].session /\ t = serving[r].token
        BY <2>1, TaskTypes, Zenon DEF Waiting
    <2>3. Known(u) /\ t \in issued /\ issued # Tokens
        BY <1>2, <2>1, <2>2 DEF HandledKnown, TokensIssued, TaskIssued
    <2>4. TakesSession(r, u, s, NewRow(u), t)
        BY <1>12, <2>2, SessionTaken
    <2>5. NewRow(u).token \in issued' /\ t \in Storable'
        BY <1>2, <2>1, <2>3 DEF NewRow, Storable
    <2> QED BY <1>2, <2>1, <2>3, <2>4, <2>5, NewRowTypes, SessionBegins
<1> QED BY <1>3, <1>4, <1>5, <1>6, <1>7, <1>8, <1>9, <1>10, <1>11, <1>12 DEF HandlerBegins

-------------------------------------------------------------------------------
(***************************************************************************)
(* A begin keeps every invariant; so does each of the other actions.       *)
(***************************************************************************)
LEMMA BeginsKeepsInvs ==
    ASSUME NEW r \in Servers, NEW task \in Tasks, StoreInv, Begins(r, task), SoundTask(task)
    PROVE  (ProvenInv => ProvenInv') /\ (AdminInv => AdminInv')
<1>1. StoreInv'
    BY BeginsKeepsStore
<1>2. /\ users' = users /\ disputed' = disputed
      /\ serving' \in [Servers -> Tasks \cup {Waiting}] /\ serving'[r] = task
      /\ \A q \in Servers : q # r => serving'[q] = serving[q]
    BY ServeKeepsOthers DEF StoreInv, Begins, Proceed
<1>3. ProvenInv => ProvenInv'
    <2> SUFFICES ASSUME ProvenInv PROVE RowsProven' /\ WritesProven'
        BY <1>1 DEF ProvenInv
    <2>1. RowsProven'
        BY <1>2 DEF ProvenInv, RowsProven, Known
    <2>2. WritesProven'
        BY <1>2 DEF ProvenInv, WritesProven, SoundTask
    <2> QED BY <2>1, <2>2
<1>4. AdminInv => AdminInv'
    <2> SUFFICES ASSUME AdminInv PROVE AnAdminRemains' /\ AdminsSpared'
        BY <1>1 DEF AdminInv
    <2>1. \A u \in Users : IsAdmin(u)' <=> IsAdmin(u)
        BY <1>2 DEF IsAdmin, Authentic, Known
    <2>2. AnAdminRemains'
        BY <1>2, <2>1 DEF AdminInv, AnAdminRemains
    <2>3. \A k \in Tasks : k.stage \in {"saving", "governing"} /\ SparesAnAdmin(k) => SparesAnAdmin(k)'
        BY <2>1, TaskTypes DEF SparesAnAdmin
    <2>4. ASSUME NEW q \in Servers, disputed' = {}, serving'[q].stage \in {"saving", "governing"}
          PROVE  SparesAnAdmin(serving[q])'
        <3>1. serving'[q] \in Tasks /\ SparesAnAdmin(serving'[q])
            BY <1>2, <2>4 DEF AdminInv, AdminsSpared, SoundTask, Waiting, StoreInv, AccountsTypeOK
        <3> QED BY <2>3, <2>4, <3>1
    <2> QED BY <2>2, <2>4 DEF AdminsSpared
<1> QED BY <1>3, <1>4

\* A step that leaves the users alone, and whose handler only goes on to its audit entry or ends.
LEMMA QuietStep ==
    ASSUME StoreInv, StoreInv', users' = users, disputed \subseteq disputed',
           NEW r \in Servers, serving'[r].stage \in {"idle", "audit"},
           \A q \in Servers : q # r => serving'[q] = serving[q]
    PROVE  (ProvenInv => ProvenInv') /\ (AdminInv => AdminInv')
<1>1. \A u \in Users : (Known(u)' <=> Known(u)) /\ (IsAdmin(u)' <=> IsAdmin(u))
    BY DEF IsAdmin, Authentic, Known
<1>2. ProvenInv => ProvenInv'
    BY <1>1 DEF ProvenInv, RowsProven, WritesProven
<1>3. AdminInv => AnAdminRemains'
    BY <1>1 DEF AdminInv, AnAdminRemains
<1>4. ASSUME AdminInv, NEW q \in Servers, disputed' = {}, serving'[q].stage \in {"saving", "governing"}
      PROVE  SparesAnAdmin(serving[q])'
    <2>1. q # r /\ serving'[q] = serving[q] /\ SparesAnAdmin(serving[q])
        BY <1>4 DEF AdminInv, AdminsSpared
    <2>2. serving[q].user \in Users /\ serving[q].actor \in Users
        BY <1>4, <2>1, TaskTypes DEF StoreInv, AccountsTypeOK
    <2> QED BY <1>1, <2>1, <2>2 DEF SparesAnAdmin
<1>5. AdminInv => AdminInv'
    BY <1>3, <1>4 DEF AdminInv, AdminsSpared
<1> QED BY <1>2, <1>5

\* A step that writes the row of u and disputes him: either another handler concerned him, or it is spared.
LEMMA OthersStillSpare ==
    ASSUME StoreInv, AdminsSpared, NEW r \in Servers, NEW u \in Users, Dispute(r, u), disputed' = {},
           users' = [users EXCEPT ![u] = users'[u]],
           NEW q \in Servers, q # r, serving'[q] = serving[q],
           serving[q].stage \in {"saving", "governing"}
    PROVE  SparesAnAdmin(serving[q])'
<1>1. disputed = {} /\ ~Concerns(q, u)
    BY DEF Dispute
<1>2. serving[q] # Waiting /\ serving[q].user \in Users /\ serving[q].actor \in Users
    BY TaskTypes DEF StoreInv, AccountsTypeOK, Waiting
<1>3. serving[q].user # u /\ serving[q].actor # u
    BY <1>1, <1>2 DEF Concerns
<1>4. \A v \in Users : v # u => (IsAdmin(v)' <=> IsAdmin(v))
    BY DEF IsAdmin, Authentic, Known, StoreInv, AccountsTypeOK
<1>5. SparesAnAdmin(serving[q])
    BY <1>1 DEF AdminsSpared
<1> QED BY <1>2, <1>3, <1>4, <1>5 DEF SparesAnAdmin

LEMMA AWriterSpares ==
    ASSUME AdminInv, NEW r \in Servers, NEW u \in Users, Dispute(r, u), disputed' = {},
           users' = [users EXCEPT ![u] = users'[u]],
           serving[r].stage \in {"saving", "governing"}, serving[r].user = u,
           IsAdmin(u) /\ (serving[r].stage = "saving" => Administers(serving[r].row))
                      /\ (serving[r].stage = "governing" => serving[r].role = "admin") => IsAdmin(u)'
    PROVE  \E v \in Users : IsAdmin(v)'
<1>1. disputed = {} /\ SparesAnAdmin(serving[r])
    BY DEF Dispute, AdminInv, AdminsSpared
<1>2. PICK x \in Users : IsAdmin(x)
    BY <1>1 DEF AdminInv, AnAdminRemains
<1>3. \A v \in Users : v # u => (IsAdmin(v)' <=> IsAdmin(v))
    BY DEF IsAdmin, Authentic, Known, AdminInv, StoreInv, AccountsTypeOK
<1>4. serving[r].actor \in Users
    BY TaskTypes DEF AdminInv, StoreInv, AccountsTypeOK
<1> QED BY <1>1, <1>2, <1>3, <1>4 DEF SparesAnAdmin

-------------------------------------------------------------------------------
LEMMA StoreStep ==
    ASSUME StoreInv, AccountsTypeOK', issued \subseteq issued',
           \A u \in Users : Known(u) => Known(u)',
           \A q \in Servers : serving'[q] = serving[q]
                              \/ /\ serving'[q].stage \in {"idle", "audit"}
                                 /\ serving'[q].stage = "audit" => Known(serving[q].user)',
           RowsIssued', SessionsIssued',
           \A s \in Sessions : sessions'[s] # Unknown => Known(sessions[s].user)'
    PROVE  StoreInv'
<1>0. \A q \in Servers : serving'[q] \in Tasks \cup {Waiting}
    BY DEF AccountsTypeOK
<1>1. HandledKnown'
    <2> SUFFICES ASSUME NEW q \in Servers, serving'[q].stage # "idle" PROVE Known(serving[q].user)'
        BY DEF HandledKnown
    <2>1. CASE serving'[q] = serving[q]
        <3>1. serving[q].user \in Users /\ Known(serving[q].user)
            BY <1>0, <2>1, TaskTypes DEF StoreInv, HandledKnown
        <3>2. Known(serving[q].user) => Known(serving[q].user)'
            BY <2>1, <3>1 DEF Known
        <3> QED BY <3>1, <3>2
    <2> QED BY <2>1
<1>2. OwnersKnown'
    <2> SUFFICES ASSUME NEW q \in Servers, serving'[q].stage = "session" PROVE Known(serving[q].row.user)'
        BY DEF OwnersKnown
    <2>1. serving'[q] = serving[q] /\ Known(serving[q].row.user) /\ serving[q].row.user \in Users
        BY <1>0, TaskTypes DEF StoreInv, OwnersKnown, SessionRows
    <2> QED BY <2>1 DEF Known
<1>3. TokensIssued'
    BY DEF StoreInv, TokensIssued, TaskIssued, Storable
<1> QED BY <1>1, <1>2, <1>3 DEF StoreInv

LEMMA WriteRow ==
    ASSUME NEW u \in Users, NEW row \in UserRows, AccountsTypeOK, users' = [users EXCEPT ![u] = row]
    PROVE  /\ users' \in [Users -> UserRows \cup {Unknown}] /\ users'[u] = row
           /\ \A v \in Users : v # u => users'[v] = users[v]
           /\ \A v \in Users : Known(v) => Known(v)'
           /\ Known(u)'
    BY UserRowsKnown DEF AccountsTypeOK, Known

LEMMA SpentTokens ==
    ASSUME NEW u \in Users, NEW t \in Storable, StoreInv, Spend(t, u)
    PROVE  spent' \subseteq issued /\ doubleSpent' \subseteq Users
    BY DEF StoreInv, AccountsTypeOK, Storable, Spend

LEMMA DisputeTypes ==
    ASSUME NEW r \in Servers, NEW u \in Users, AccountsTypeOK, Dispute(r, u)
    PROVE  disputed' \subseteq Users /\ disputed \subseteq disputed'
    BY DEF AccountsTypeOK, Dispute

LEMMA SaveUserKeepsInvs ==
    ASSUME NEW r \in Servers, StoreInv, SaveUser(r)
    PROVE  StoreInv' /\ (ProvenInv => ProvenInv') /\ (AdminInv => AdminInv')
<1>0. PICK w \in Tasks : w = serving[r]
    BY TaskTypes DEF StoreInv, AccountsTypeOK, SaveUser, Waiting
<1> DEFINE u == w.user
           row == w.row
           next == IF w.op \in {"block", "unblock"}
                   THEN [stage |-> "audit", op |-> w.op, actor |-> w.actor, user |-> u] ELSE Waiting
<1>1. /\ w.stage = "saving" /\ w.op \in {"confirm", "password", "resend", "block", "unblock"}
      /\ u \in Users /\ w.actor \in Users /\ row \in UserRows /\ Known(u)
    BY <1>0, TaskTypes DEF SaveUser, StoreInv, HandledKnown
<1>2. /\ users' = [users EXCEPT ![u] = row] /\ Spend(w.token, u) /\ Dispute(r, u)
      /\ serving' = [serving EXCEPT ![r] = next]
      /\ UNCHANGED <<sessions, record, issued, unaudited>>
    BY <1>0 DEF SaveUser, Proceed, Done
<1>3. /\ w.token \in Storable /\ row.confirmation \in Storable /\ row.setup \in Storable
    BY <1>0, <1>1 DEF StoreInv, TokensIssued, TaskIssued
<1>4. next \in Tasks \cup {Waiting} /\ next.stage \in {"idle", "audit"}
      /\ (next.stage = "audit" => next.user = u)
    BY <1>1 DEF Tasks, Waiting
<1> HIDE DEF next, row, u
<1>5. /\ serving' \in [Servers -> Tasks \cup {Waiting}] /\ serving'[r] = next
      /\ \A q \in Servers : q # r => serving'[q] = serving[q]
    BY <1>2, <1>4, ServeKeepsOthers DEF StoreInv
<1>6. /\ users' \in [Users -> UserRows \cup {Unknown}] /\ users'[u] = row
      /\ \A v \in Users : v # u => users'[v] = users[v]
      /\ \A v \in Users : Known(v) => Known(v)'
      /\ Known(u)'
    BY <1>1, <1>2, WriteRow DEF StoreInv
<1>7. AccountsTypeOK'
    BY <1>1, <1>2, <1>3, <1>5, <1>6, SpentTokens, DisputeTypes DEF StoreInv, AccountsTypeOK
<1>8. RowsIssued' /\ SessionsIssued'
    BY <1>2, <1>3, <1>6 DEF StoreInv, TokensIssued, RowsIssued, SessionsIssued, Storable, Known
<1>9. \A s \in Sessions : sessions'[s] # Unknown => Known(sessions[s].user)'
    BY <1>2, <1>6 DEF StoreInv, OwnersKnown, AccountsTypeOK, SessionRows, Known
<1>10. \A q \in Servers : serving'[q] = serving[q]
            \/ /\ serving'[q].stage \in {"idle", "audit"}
               /\ serving'[q].stage = "audit" => Known(serving[q].user)'
    BY <1>4, <1>5, <1>6 DEF Known
<1>11. StoreInv'
    BY <1>2, <1>6, <1>7, <1>8, <1>9, <1>10, StoreStep
<1>12. ProvenInv => ProvenInv'
    <2> SUFFICES ASSUME ProvenInv PROVE RowsProven' /\ WritesProven'
        BY <1>11 DEF ProvenInv
    <2>1. Proven(row)
        BY <1>0, <1>1 DEF ProvenInv, WritesProven, row
    <2>2. RowsProven'
        BY <1>6, <2>1 DEF ProvenInv, RowsProven, Known
    <2>3. WritesProven'
        BY <1>4, <1>5 DEF ProvenInv, WritesProven
    <2> QED BY <2>2, <2>3
<1>13. ASSUME AdminInv PROVE AdminInv'
    <2>1. ASSUME disputed' = {} PROVE \E v \in Users : IsAdmin(v)'
        <3>1. Administers(row) => IsAdmin(u)'
            BY <1>6 DEF Administers, IsAdmin, Authentic
        <3>2. users' = [users EXCEPT ![u] = users'[u]]
            BY <1>2, <1>6
        <3> QED BY <1>0, <1>1, <1>2, <1>13, <2>1, <3>1, <3>2, AWriterSpares DEF u, row
    <2>2. AnAdminRemains'
        BY <2>1 DEF AnAdminRemains
    <2>3. ASSUME disputed' = {}, NEW q \in Servers, serving'[q].stage \in {"saving", "governing"}
          PROVE  SparesAnAdmin(serving[q])'
        <3>1. q # r /\ serving'[q] = serving[q]
            BY <1>4, <1>5, <2>3
        <3>2. users' = [users EXCEPT ![u] = users'[u]]
            BY <1>2, <1>6
        <3> QED BY <1>1, <1>2, <1>13, <2>3, <3>1, <3>2, OthersStillSpare DEF AdminInv
    <2> QED BY <1>11, <2>2, <2>3 DEF AdminInv, AdminsSpared
<1> QED BY <1>11, <1>12, <1>13

LEMMA GovernedSessions ==
    ASSUME NEW u \in Users, AccountsTypeOK
    PROVE  /\ SessionsOfGoverned(u) \in [Sessions -> SessionRows \cup {Unknown}]
           /\ \A s \in Sessions : SessionsOfGoverned(u)[s] # Unknown =>
                /\ sessions[s] # Unknown
                /\ SessionsOfGoverned(u)[s].user = sessions[s].user
                /\ SessionsOfGoverned(u)[s].token = sessions[s].token
    BY SessionRowsKnown DEF AccountsTypeOK, SessionsOfGoverned, SessionRows

LEMMA CommitGovernKeepsInvs ==
    ASSUME NEW r \in Servers, StoreInv, CommitGovern(r)
    PROVE  StoreInv' /\ (ProvenInv => ProvenInv') /\ (AdminInv => AdminInv')
<1>0. PICK w \in Tasks : w = serving[r]
    BY TaskTypes DEF StoreInv, AccountsTypeOK, CommitGovern, Waiting
<1> DEFINE u == w.user
<1>1. /\ w.stage = "governing" /\ u \in Users /\ w.actor \in Users /\ Known(u)
      /\ w.name \in Names /\ w.role \in Role
    BY <1>0, TaskTypes DEF CommitGovern, StoreInv, HandledKnown
<1>2. /\ users' = [users EXCEPT ![u].name = w.name, ![u].role = w.role]
      /\ record' = IF record[u] = Unknown THEN record
                   ELSE [record EXCEPT ![u].name = w.name, ![u].role = w.role]
      /\ sessions' = SessionsOfGoverned(u) /\ Dispute(r, u)
      /\ serving' = [serving EXCEPT ![r] = Waiting]
      /\ UNCHANGED <<issued, spent, unaudited, doubleSpent>>
    BY <1>0 DEF CommitGovern, Proceed, Done
<1> HIDE DEF u
<1>3. users[u] \in UserRows
    BY <1>1, ReadRowTypes DEF StoreInv
<1>4. PICK row \in UserRows : row = [users[u] EXCEPT !.name = w.name, !.role = w.role]
    BY <1>1, <1>3 DEF UserRows
<1>5. /\ row.role = w.role /\ row.active = users[u].active /\ row.blocked = users[u].blocked
      /\ row.confirmed = users[u].confirmed /\ row.password = users[u].password
      /\ row.confirmation = users[u].confirmation /\ row.setup = users[u].setup
    BY <1>3, <1>4 DEF UserRows
<1>6. users' = [users EXCEPT ![u] = row]
    BY <1>1, <1>2, <1>3, <1>4 DEF StoreInv, AccountsTypeOK, UserRows
<1>7. record' \in [Users -> [name : Names, role : Role, blocked : BOOLEAN] \cup {Unknown}]
    <2>1. CASE record[u] = Unknown
        BY <1>2, <2>1 DEF StoreInv, AccountsTypeOK
    <2>2. CASE record[u] # Unknown
        <3>1. record[u] \in [name : Names, role : Role, blocked : BOOLEAN]
            BY <1>1, <2>2 DEF StoreInv, AccountsTypeOK
        <3>2. record' = [record EXCEPT ![u].name = w.name, ![u].role = w.role]
            BY <1>2, <2>2
        <3> QED BY <1>1, <3>1, <3>2 DEF StoreInv, AccountsTypeOK
    <2> QED BY <2>1, <2>2
<1>8. /\ serving' \in [Servers -> Tasks \cup {Waiting}] /\ serving'[r].stage = "idle"
      /\ \A q \in Servers : q # r => serving'[q] = serving[q]
    BY <1>2, ServeKeepsOthers DEF StoreInv, Waiting
<1>9. /\ users' \in [Users -> UserRows \cup {Unknown}] /\ users'[u] = row
      /\ \A v \in Users : v # u => users'[v] = users[v]
      /\ \A v \in Users : Known(v) => Known(v)'
      /\ Known(u)'
    BY <1>1, <1>6, WriteRow DEF StoreInv
<1>10. AccountsTypeOK'
    BY <1>1, <1>2, <1>7, <1>8, <1>9, GovernedSessions, DisputeTypes DEF StoreInv, AccountsTypeOK
<1>11. RowsIssued' /\ SessionsIssued'
    <2>1. RowsIssued'
        BY <1>1, <1>2, <1>5, <1>9 DEF StoreInv, TokensIssued, RowsIssued, Storable, Known
    <2>2. SessionsIssued'
        BY <1>1, <1>2, GovernedSessions DEF StoreInv, TokensIssued, SessionsIssued
    <2> QED BY <2>1, <2>2
<1>12. ASSUME NEW s \in Sessions, sessions'[s] # Unknown PROVE Known(sessions[s].user)'
    <2>1. sessions[s] # Unknown /\ sessions'[s].user = sessions[s].user
        BY <1>1, <1>2, <1>12, GovernedSessions DEF StoreInv
    <2>2. sessions[s].user \in Users /\ Known(sessions[s].user)
        BY <2>1 DEF StoreInv, OwnersKnown, AccountsTypeOK, SessionRows
    <2> QED BY <1>9, <2>1, <2>2 DEF Known
<1>13. StoreInv'
    BY <1>2, <1>8, <1>9, <1>10, <1>11, <1>12, StoreStep
<1>14. ProvenInv => ProvenInv'
    <2> SUFFICES ASSUME ProvenInv PROVE RowsProven' /\ WritesProven'
        BY <1>13 DEF ProvenInv
    <2>1. Proven(row)
        BY <1>1, <1>5 DEF ProvenInv, RowsProven, Proven
    <2>2. RowsProven'
        BY <1>9, <2>1 DEF ProvenInv, RowsProven, Known
    <2>3. WritesProven'
        BY <1>8 DEF ProvenInv, WritesProven
    <2> QED BY <2>2, <2>3
<1>15. ASSUME AdminInv PROVE AdminInv'
    <2>1. users' = [users EXCEPT ![u] = users'[u]]
        BY <1>6, <1>9
    <2>2. ASSUME disputed' = {} PROVE \E v \in Users : IsAdmin(v)'
        <3>1. IsAdmin(u) /\ w.role = "admin" => IsAdmin(u)'
            BY <1>5, <1>9 DEF IsAdmin, Authentic
        <3> QED BY <1>0, <1>1, <1>2, <1>15, <2>1, <2>2, <3>1, AWriterSpares DEF u
    <2>3. ASSUME disputed' = {}, NEW q \in Servers, serving'[q].stage \in {"saving", "governing"}
          PROVE  SparesAnAdmin(serving[q])'
        <3>1. q # r /\ serving'[q] = serving[q]
            BY <1>8, <2>3
        <3> QED BY <1>1, <1>2, <1>15, <2>1, <2>3, <3>1, OthersStillSpare DEF AdminInv
    <2> QED BY <1>13, <2>2, <2>3 DEF AdminInv, AnAdminRemains, AdminsSpared
<1> QED BY <1>13, <1>14, <1>15

LEMMA SaveSessionKeepsInvs ==
    ASSUME NEW r \in Servers, StoreInv, SaveSession(r)
    PROVE  StoreInv' /\ (ProvenInv => ProvenInv') /\ (AdminInv => AdminInv')
<1>0. PICK w \in Tasks : w = serving[r]
    BY TaskTypes DEF StoreInv, AccountsTypeOK, SaveSession, Waiting
<1>1. /\ w.stage = "session" /\ w.user \in Users /\ w.row \in SessionRows /\ w.row.user \in Users
      /\ w.session \in Sessions /\ Known(w.row.user) /\ w.token \in Storable /\ w.row.token \in issued
    BY <1>0, TaskTypes DEF SaveSession, StoreInv, OwnersKnown, TokensIssued, TaskIssued, SessionRows
<1>2. /\ sessions' = [sessions EXCEPT ![w.session] = w.row] /\ Spend(w.token, w.user)
      /\ Dispute(r, w.user) /\ serving' = [serving EXCEPT ![r] = Waiting]
      /\ UNCHANGED <<users, record, issued, unaudited>>
    BY <1>0 DEF SaveSession, Proceed, Done
<1>3. /\ serving' \in [Servers -> Tasks \cup {Waiting}] /\ serving'[r].stage = "idle"
      /\ \A q \in Servers : q # r => serving'[q] = serving[q]
    BY <1>2, ServeKeepsOthers DEF StoreInv, Waiting
<1>4. disputed \subseteq disputed' /\ disputed' \subseteq Users
    BY <1>1, <1>2, DisputeTypes DEF StoreInv
<1>5. AccountsTypeOK'
    BY <1>1, <1>2, <1>3, <1>4, SpentTokens DEF StoreInv, AccountsTypeOK
<1>6. RowsIssued' /\ SessionsIssued'
    BY <1>1, <1>2 DEF StoreInv, TokensIssued, RowsIssued, SessionsIssued, Storable, Known, AccountsTypeOK
<1>7. \A s \in Sessions : sessions'[s] # Unknown => Known(sessions[s].user)'
    BY <1>1, <1>2 DEF StoreInv, OwnersKnown, AccountsTypeOK, Known
<1>8. \A v \in Users : Known(v) => Known(v)'
    BY <1>2 DEF Known
<1>9. StoreInv'
    BY <1>2, <1>3, <1>5, <1>6, <1>7, <1>8, StoreStep
<1> QED BY <1>2, <1>3, <1>4, <1>9, QuietStep

\* An ending handler: the audit entry is written, or the handler is dropped.
LEMMA HandlerEnds ==
    ASSUME NEW r \in Servers, StoreInv, AccountsTypeOK', serving' = [serving EXCEPT ![r] = Waiting],
           UNCHANGED <<users, sessions, issued, disputed>>
    PROVE  StoreInv' /\ (ProvenInv => ProvenInv') /\ (AdminInv => AdminInv')
<1>1. /\ serving'[r].stage = "idle"
      /\ \A q \in Servers : q # r => serving'[q] = serving[q]
    BY ServeKeepsOthers DEF StoreInv, Waiting
<1>2. \A v \in Users : Known(v) => Known(v)'
    BY DEF Known
<1>3. RowsIssued' /\ SessionsIssued'
    BY DEF StoreInv, TokensIssued, RowsIssued, SessionsIssued, Storable, Known
<1>4. \A s \in Sessions : sessions'[s] # Unknown => Known(sessions[s].user)'
    BY DEF StoreInv, OwnersKnown, Known
<1>5. StoreInv'
    BY <1>1, <1>2, <1>3, <1>4, StoreStep
<1> QED BY <1>1, <1>5, QuietStep

LEMMA RecordGovernanceKeepsInvs ==
    ASSUME NEW r \in Servers, StoreInv, RecordGovernance(r)
    PROVE  StoreInv' /\ (ProvenInv => ProvenInv') /\ (AdminInv => AdminInv')
<1>0. PICK w \in Tasks : w = serving[r]
    BY TaskTypes DEF StoreInv, AccountsTypeOK, RecordGovernance, Waiting
<1>1. /\ w.stage = "audit" /\ w.user \in Users /\ Known(w.user)
      /\ record' = [record EXCEPT ![w.user] = Recorded(w.user, w.op)]
      /\ serving' = [serving EXCEPT ![r] = Waiting]
      /\ UNCHANGED <<users, sessions, issued, spent, disputed, unaudited, doubleSpent>>
    BY <1>0, TaskTypes DEF RecordGovernance, StoreInv, HandledKnown, Proceed, Done
<1>2. users[w.user] \in UserRows
    BY <1>1, ReadRowTypes DEF StoreInv
<1>3. Recorded(w.user, w.op) \in [name : Names, role : Role, blocked : BOOLEAN] \cup {Unknown}
    <2>1. CASE w.op = "create"
        BY <1>2, <2>1 DEF Recorded, RecordOf, UserRows
    <2>2. CASE w.op # "create" /\ record[w.user] = Unknown
        BY <2>2 DEF Recorded
    <2>3. CASE w.op # "create" /\ record[w.user] # Unknown
        <3>1. record[w.user] \in [name : Names, role : Role, blocked : BOOLEAN]
            BY <1>1, <2>3 DEF StoreInv, AccountsTypeOK
        <3>2. Recorded(w.user, w.op) = [record[w.user] EXCEPT !.blocked = (w.op = "block")]
            BY <2>3 DEF Recorded
        <3> QED BY <3>1, <3>2
    <2> QED BY <2>1, <2>2, <2>3
<1>4. AccountsTypeOK'
    BY <1>1, <1>3, ServeKeepsOthers DEF StoreInv, AccountsTypeOK
<1> QED BY <1>1, <1>4, HandlerEnds

LEMMA DropKeepsInvs ==
    ASSUME NEW r \in Servers, StoreInv, Drop(r)
    PROVE  StoreInv' /\ (ProvenInv => ProvenInv') /\ (AdminInv => AdminInv')
<1>1. /\ serving' = [serving EXCEPT ![r] = Waiting] /\ unaudited' \subseteq Users
      /\ UNCHANGED <<users, sessions, record, issued, spent, disputed, doubleSpent>>
    BY DEF Drop, Proceed, Done, StoreInv, AccountsTypeOK
<1>2. AccountsTypeOK'
    BY <1>1, ServeKeepsOthers DEF StoreInv, AccountsTypeOK
<1> QED BY <1>1, <1>2, HandlerEnds

\* A new row administers nothing, and waits for its confirmation with a password or not at all.
LEMMA NewUserKeepsInvs ==
    ASSUME NEW u \in Users, NEW row \in UserRows, StoreInv, ~Known(u), Issue,
           users' = [users EXCEPT ![u] = row], UNCHANGED <<sessions, disputed>>,
           AccountsTypeOK', ~row.active, Proven(row),
           row.confirmation \in Storable', row.setup \in Storable',
           \A q \in Servers : serving'[q] = serving[q]
                              \/ (serving'[q].stage = "audit" /\ serving'[q].user = u)
    PROVE  StoreInv' /\ (ProvenInv => ProvenInv') /\ (AdminInv => AdminInv')
<1>1. issued \subseteq issued'
    BY DEF Issue
<1>2. /\ users'[u] = row /\ \A v \in Users : v # u => users'[v] = users[v]
      /\ \A v \in Users : Known(v) => Known(v)'
      /\ Known(u)'
    BY WriteRow DEF StoreInv
<1>3. RowsIssued' /\ SessionsIssued'
    BY <1>1, <1>2 DEF StoreInv, TokensIssued, RowsIssued, SessionsIssued, Storable, Known
<1>4. \A s \in Sessions : sessions'[s] # Unknown => Known(sessions[s].user)'
    BY <1>2 DEF StoreInv, OwnersKnown, AccountsTypeOK, SessionRows, Known
<1>5. StoreInv'
    <2>1. \A q \in Servers : serving'[q] = serving[q]
            \/ /\ serving'[q].stage \in {"idle", "audit"}
               /\ serving'[q].stage = "audit" => Known(serving[q].user)'
        BY <1>2 DEF Known
    <2> QED BY <1>1, <1>2, <1>3, <1>4, <2>1, StoreStep
<1>6. ProvenInv => ProvenInv'
    BY <1>2, <1>5 DEF ProvenInv, RowsProven, WritesProven, Known
<1>7. \A v \in Users : IsAdmin(v) <=> IsAdmin(v)'
    BY <1>2 DEF IsAdmin, Authentic, Known
<1>8. AdminInv => AnAdminRemains'
    BY <1>7 DEF AdminInv, AnAdminRemains
<1>9. ASSUME AdminInv, NEW q \in Servers, disputed' = {}, serving'[q].stage \in {"saving", "governing"}
      PROVE  SparesAnAdmin(serving[q])'
    <2>1. serving'[q] = serving[q] /\ SparesAnAdmin(serving[q])
        BY <1>9 DEF AdminInv, AdminsSpared
    <2>2. serving[q].user \in Users /\ serving[q].actor \in Users
        BY <1>9, <2>1, TaskTypes DEF StoreInv, AccountsTypeOK
    <2> QED BY <1>7, <2>1, <2>2 DEF SparesAnAdmin
<1>10. AdminInv => AdminInv'
    BY <1>5, <1>8, <1>9 DEF AdminInv, AdminsSpared
<1> QED BY <1>5, <1>6, <1>10

LEMMA SignUpKeepsInvs ==
    ASSUME NEW u \in Users, NEW name \in Names, StoreInv, SignUp(u, name)
    PROVE  StoreInv' /\ (ProvenInv => ProvenInv') /\ (AdminInv => AdminInv')
<1>1. NewToken \in Tokens /\ issued' = issued \cup {NewToken}
    BY FreshToken DEF SignUp, Issue, StoreInv, AccountsTypeOK
<1>2. PICK t \in Tokens : t = NewToken
    BY <1>1
<1>3. PICK made \in UserRows : made = SelfRow(name, t)
    BY <1>2, AccountsAssumption DEF SelfRow, UserRows
<1>4. ~made.active /\ Proven(made) /\ made.confirmation \in Storable' /\ made.setup \in Storable'
    BY <1>1, <1>2, <1>3 DEF SelfRow, Proven, Storable
<1>5. /\ users' = [users EXCEPT ![u] = made] /\ record' = [record EXCEPT ![u] = RecordOf(made)]
      /\ ~Known(u) /\ Issue /\ UNCHANGED <<sessions, serving, spent, disputed, unaudited, doubleSpent>>
    BY <1>2, <1>3 DEF SignUp
<1>6. RecordOf(made) \in [name : Names, role : Role, blocked : BOOLEAN]
    BY DEF RecordOf, UserRows
<1>7. AccountsTypeOK'
    <2>1. record' \in [Users -> [name : Names, role : Role, blocked : BOOLEAN] \cup {Unknown}]
        BY <1>5, <1>6 DEF StoreInv, AccountsTypeOK
    <2>2. users' \in [Users -> UserRows \cup {Unknown}]
        BY <1>5, WriteRow DEF StoreInv
    <2>3. issued' \subseteq Tokens /\ spent' \subseteq issued'
        BY <1>1, <1>5 DEF StoreInv, AccountsTypeOK
    <2> QED BY <1>5, <2>1, <2>2, <2>3 DEF StoreInv, AccountsTypeOK
<1> QED BY <1>4, <1>5, <1>7, NewUserKeepsInvs

LEMMA CreateAdminUserKeepsInvs ==
    ASSUME NEW r \in Servers, NEW a \in Users, NEW u \in Users, NEW name \in Names, NEW role \in Role,
           StoreInv, CreateAdminUser(r, a, u, name, role)
    PROVE  StoreInv' /\ (ProvenInv => ProvenInv') /\ (AdminInv => AdminInv')
<1>1. NewToken \in Tokens /\ issued' = issued \cup {NewToken}
    BY FreshToken DEF CreateAdminUser, Issue, StoreInv, AccountsTypeOK
<1>2. PICK t \in Tokens : t = NewToken
    BY <1>1
<1>3. PICK made \in UserRows : made = AdminMadeRow(name, role, t)
    BY <1>2 DEF AdminMadeRow, UserRows
<1>4. ~made.active /\ Proven(made) /\ made.confirmation \in Storable' /\ made.setup \in Storable'
    BY <1>1, <1>2, <1>3 DEF AdminMadeRow, Proven, Storable
<1> DEFINE task == [stage |-> "audit", op |-> "create", actor |-> a, user |-> u]
<1>5. task \in Tasks /\ task.stage = "audit" /\ task.user = u
    BY DEF Tasks
<1>6. /\ users' = [users EXCEPT ![u] = made] /\ serving' = [serving EXCEPT ![r] = task]
      /\ ~Known(u) /\ Issue /\ UNCHANGED <<sessions, record, spent, disputed, unaudited, doubleSpent>>
    BY <1>2, <1>3 DEF CreateAdminUser, Serve
<1> HIDE DEF task
<1>7. /\ serving' \in [Servers -> Tasks \cup {Waiting}] /\ serving'[r] = task
      /\ \A q \in Servers : q # r => serving'[q] = serving[q]
    BY <1>5, <1>6, ServeKeepsOthers DEF StoreInv
<1>8. AccountsTypeOK'
    BY <1>1, <1>6, <1>7 DEF StoreInv, AccountsTypeOK
<1>9. \A q \in Servers : serving'[q] = serving[q]
                         \/ (serving'[q].stage = "audit" /\ serving'[q].user = u)
    <2> TAKE q \in Servers
    <2>1. CASE q = r
        BY <1>5, <1>7, <2>1
    <2> QED BY <1>7, <2>1
<1> QED BY <1>4, <1>6, <1>8, <1>9, NewUserKeepsInvs

-------------------------------------------------------------------------------
LEMMA AccountsStep ==
    ASSUME StoreInv, [AccountsNext]_accountVars
    PROVE  StoreInv' /\ (ProvenInv => ProvenInv') /\ (AdminInv => AdminInv')
<1>1. CASE UNCHANGED accountVars
    <2>1. StoreInv'
        BY <1>1 DEF accountVars, StoreInv, AccountsTypeOK, HandledKnown, OwnersKnown, TokensIssued,
           RowsIssued, SessionsIssued, TaskIssued, Storable, Known
    <2>2. ProvenInv => ProvenInv'
        BY <1>1, <2>1 DEF accountVars, ProvenInv, RowsProven, WritesProven, Known
    <2>3. AdminInv => AdminInv'
        BY <1>1, <2>1 DEF accountVars, AdminInv, AnAdminRemains, AdminsSpared, SparesAnAdmin,
           IsAdmin, Authentic, Known
    <2> QED BY <2>1, <2>2, <2>3
<1>2. ASSUME NEW r \in Servers, HandlerBegins(r)
      PROVE  StoreInv' /\ (ProvenInv => ProvenInv') /\ (AdminInv => AdminInv')
    <2>1. PICK task \in Tasks : Begins(r, task) /\ SoundTask(task)
        BY <1>2, BeginsSoundly
    <2> QED BY <2>1, BeginsKeepsStore, BeginsKeepsInvs
<1>3. CASE \E u \in Users, name \in Names : SignUp(u, name)
    BY <1>3, SignUpKeepsInvs
<1>4. ASSUME NEW r \in Servers,
             SaveUser(r) \/ RecordGovernance(r) \/ CommitGovern(r) \/ SaveSession(r) \/ Drop(r)
      PROVE  StoreInv' /\ (ProvenInv => ProvenInv') /\ (AdminInv => AdminInv')
    BY <1>4, SaveUserKeepsInvs, RecordGovernanceKeepsInvs, CommitGovernKeepsInvs,
       SaveSessionKeepsInvs, DropKeepsInvs
<1>5. CASE \E r \in Servers, a, u \in Users, name \in Names, role \in Role :
              CreateAdminUser(r, a, u, name, role)
    BY <1>5, CreateAdminUserKeepsInvs
<1>6. CASE AccountsNext
    BY <1>2, <1>3, <1>4, <1>5, <1>6 DEF AccountsNext, HandlerBegins
<1> QED BY <1>1, <1>6

-------------------------------------------------------------------------------
(***************************************************************************)
(* Roles: what a handler is about to write carries the role of its user,   *)
(* unless he was disputed since it was read.                               *)
(***************************************************************************)
CurrentRole(role, u) == role = users[u].role \/ u \in disputed
HoldsRole(task) ==
    /\ task.stage = "saving" => CurrentRole(task.row.role, task.user)
    /\ task.stage = "session" => /\ task.row.user = task.user
                                 /\ task.row.revoked \/ CurrentRole(task.row.role, task.user)
RoleInv == StoreInv /\ LiveSessionsKnowTheRole /\ \A r \in Servers : HoldsRole(serving[r])

\* What keeps the roles of the users keeps what is known of them.
LEMMA SameRoles ==
    ASSUME RoleInv, StoreInv', disputed \subseteq disputed',
           \A u \in Users : Known(u) => users'[u].role = users[u].role,
           \A s \in Sessions : sessions'[s] # Unknown /\ ~sessions'[s].revoked =>
               \/ sessions'[s] = sessions[s]
               \/ CurrentRole(sessions'[s].role, sessions'[s].user) /\ Known(sessions'[s].user)
                  /\ sessions'[s].user \in Users,
           \A r \in Servers : \/ serving'[r] = serving[r]
                              \/ serving'[r].stage \in {"idle", "audit", "governing"}
    PROVE  RoleInv'
<1>1. LiveSessionsKnowTheRole'
    <2> SUFFICES ASSUME NEW s \in Sessions, sessions'[s] # Unknown, ~sessions'[s].revoked
                 PROVE  \/ sessions'[s].role = users'[sessions'[s].user].role
                        \/ sessions'[s].user \in disputed'
        BY DEF LiveSessionsKnowTheRole
    <2>1. CASE sessions'[s] = sessions[s]
        <3>1. sessions[s].user \in Users /\ Known(sessions[s].user)
            BY <2>1 DEF RoleInv, StoreInv, OwnersKnown, AccountsTypeOK, SessionRows
        <3> QED BY <2>1, <3>1 DEF RoleInv, LiveSessionsKnowTheRole
    <2> QED BY <2>1 DEF CurrentRole
<1>2. ASSUME NEW r \in Servers PROVE HoldsRole(serving[r])'
    <2>1. CASE serving'[r] = serving[r] /\ serving[r].stage \in {"saving", "session"}
        <3>1. serving[r].user \in Users /\ Known(serving[r].user) /\ HoldsRole(serving[r])
            BY <2>1, TaskTypes DEF RoleInv, StoreInv, HandledKnown, AccountsTypeOK
        <3> QED BY <2>1, <3>1 DEF HoldsRole, CurrentRole
    <2>2. CASE serving'[r].stage \in {"idle", "audit", "governing"}
        BY <2>2 DEF HoldsRole
    <2>3. CASE serving'[r] = serving[r] /\ serving[r].stage \notin {"saving", "session"}
        BY <2>3 DEF HoldsRole
    <2> QED BY <2>1, <2>2, <2>3
<1> QED BY <1>1, <1>2 DEF RoleInv

LEMMA BeginsKeepsRoles ==
    ASSUME NEW r \in Servers, NEW task \in Tasks, RoleInv, StoreInv', Begins(r, task), SoundTask(task)
    PROVE  RoleInv'
<1>1. /\ serving'[r] = task
      /\ \A q \in Servers : q # r => serving'[q] = serving[q]
      /\ users' = users /\ disputed' = disputed /\ sessions' = sessions
    BY ServeKeepsOthers DEF RoleInv, StoreInv, Begins, Proceed
<1>2. HoldsRole(task)'
    BY <1>1 DEF HoldsRole, CurrentRole, SoundTask, Matches
<1>3. ASSUME NEW q \in Servers PROVE HoldsRole(serving[q])'
    <2>1. CASE q = r
        BY <1>1, <1>2, <2>1 DEF HoldsRole, CurrentRole
    <2>2. CASE q # r
        BY <1>1, <2>2 DEF RoleInv, HoldsRole, CurrentRole
    <2> QED BY <2>1, <2>2
<1>4. LiveSessionsKnowTheRole'
    BY <1>1 DEF RoleInv, LiveSessionsKnowTheRole
<1> QED BY <1>3, <1>4 DEF RoleInv

LEMMA SaveUserKeepsRoles ==
    ASSUME NEW r \in Servers, RoleInv, StoreInv', SaveUser(r)
    PROVE  RoleInv'
<1>0. PICK w \in Tasks : w = serving[r]
    BY TaskTypes DEF RoleInv, StoreInv, AccountsTypeOK, SaveUser, Waiting
<1>1. /\ w.stage = "saving" /\ w.user \in Users /\ w.row \in UserRows
      /\ users' = [users EXCEPT ![w.user] = w.row] /\ Dispute(r, w.user)
      /\ sessions' = sessions
    BY <1>0, TaskTypes DEF SaveUser
<1>2. \A q \in Servers : serving'[q] = serving[q] \/ serving'[q].stage \in {"idle", "audit"}
    BY DEF SaveUser, Proceed, Done, Waiting, RoleInv, StoreInv, AccountsTypeOK
<1>3. users'[w.user] = w.row /\ \A v \in Users : v # w.user => users'[v] = users[v]
    BY <1>1, WriteRow DEF RoleInv, StoreInv
<1>4. disputed \subseteq disputed' /\ CurrentRole(w.row.role, w.user)
    BY <1>0, <1>1 DEF RoleInv, HoldsRole, Dispute
<1>5. CASE w.row.role = users[w.user].role
    <2>1. \A v \in Users : Known(v) => users'[v].role = users[v].role
        BY <1>3, <1>5
    <2> QED BY <1>1, <1>2, <1>4, <2>1, SameRoles
<1>6. CASE w.user \in disputed
    <2>1. LiveSessionsKnowTheRole'
        <3> SUFFICES ASSUME NEW s \in Sessions, sessions[s] # Unknown, ~sessions[s].revoked
                     PROVE  sessions[s].role = users'[sessions[s].user].role
                            \/ sessions[s].user \in disputed'
            BY <1>1 DEF LiveSessionsKnowTheRole
        <3>1. sessions[s].user \in Users
            BY DEF RoleInv, StoreInv, AccountsTypeOK, SessionRows
        <3> QED BY <1>3, <1>4, <1>6, <3>1 DEF RoleInv, LiveSessionsKnowTheRole
    <2>2. ASSUME NEW q \in Servers PROVE HoldsRole(serving[q])'
        <3>1. CASE serving'[q].stage \in {"idle", "audit"}
            BY <3>1 DEF HoldsRole
        <3>2. CASE serving'[q] = serving[q] /\ serving[q].stage \in {"saving", "session"}
            <4>1. serving[q].user \in Users /\ HoldsRole(serving[q])
                BY <3>2, TaskTypes DEF RoleInv, StoreInv, AccountsTypeOK
            <4> QED BY <1>3, <1>4, <1>6, <3>2, <4>1 DEF HoldsRole, CurrentRole
        <3>3. CASE serving'[q] = serving[q] /\ serving[q].stage \notin {"saving", "session"}
            BY <3>3 DEF HoldsRole
        <3> QED BY <1>2, <3>1, <3>2, <3>3
    <2> QED BY <2>1, <2>2 DEF RoleInv
<1> QED BY <1>4, <1>5, <1>6 DEF CurrentRole

\* Governance revokes the sessions of its user, and disputes him if another handler holds his role.
LEMMA CommitGovernKeepsRoles ==
    ASSUME NEW r \in Servers, RoleInv, StoreInv', CommitGovern(r)
    PROVE  RoleInv'
<1>0. PICK w \in Tasks : w = serving[r]
    BY TaskTypes DEF RoleInv, StoreInv, AccountsTypeOK, CommitGovern, Waiting
<1>1. /\ w.user \in Users /\ Dispute(r, w.user) /\ sessions' = SessionsOfGoverned(w.user)
      /\ users' = [users EXCEPT ![w.user].name = w.name, ![w.user].role = w.role]
      /\ serving' = [serving EXCEPT ![r] = Waiting]
    BY <1>0, TaskTypes DEF CommitGovern, Proceed, Done
<1>2. /\ disputed \subseteq disputed'
      /\ \A v \in Users : v # w.user => users'[v] = users[v]
    BY <1>1 DEF Dispute, RoleInv, StoreInv, AccountsTypeOK
<1>3. LiveSessionsKnowTheRole'
    <2> SUFFICES ASSUME NEW s \in Sessions, sessions'[s] # Unknown, ~sessions'[s].revoked
                 PROVE  sessions'[s].role = users'[sessions'[s].user].role
                        \/ sessions'[s].user \in disputed'
        BY DEF LiveSessionsKnowTheRole
    <2>1. sessions'[s] = sessions[s] /\ sessions[s].user # w.user /\ sessions[s].user \in Users
        BY <1>1, SessionRowsKnown DEF SessionsOfGoverned, RoleInv, StoreInv, AccountsTypeOK, SessionRows
    <2> QED BY <1>2, <2>1 DEF RoleInv, LiveSessionsKnowTheRole
<1>4. ASSUME NEW q \in Servers PROVE HoldsRole(serving[q])'
    <2>1. CASE q = r
        BY <1>1, <2>1 DEF HoldsRole, Waiting, RoleInv, StoreInv, AccountsTypeOK
    <2>2. CASE q # r /\ serving[q].stage \in {"saving", "session"}
        <3>1. serving'[q] = serving[q] /\ serving[q].user \in Users /\ HoldsRole(serving[q])
            BY <1>1, <2>2, TaskTypes DEF RoleInv, StoreInv, AccountsTypeOK
        <3>2. serving[q].user = w.user => w.user \in disputed'
            BY <1>1, <2>2 DEF Dispute, Concerns, Waiting
        <3> QED BY <1>2, <3>1, <3>2 DEF HoldsRole, CurrentRole
    <2>3. CASE q # r /\ serving[q].stage \notin {"saving", "session"}
        BY <1>1, <2>3 DEF HoldsRole, RoleInv, StoreInv, AccountsTypeOK
    <2> QED BY <2>1, <2>2, <2>3
<1> QED BY <1>3, <1>4 DEF RoleInv

LEMMA SaveSessionKeepsRoles ==
    ASSUME NEW r \in Servers, RoleInv, StoreInv', SaveSession(r)
    PROVE  RoleInv'
<1>0. PICK w \in Tasks : w = serving[r]
    BY TaskTypes DEF RoleInv, StoreInv, AccountsTypeOK, SaveSession, Waiting
<1>1. /\ w.stage = "session" /\ w.user \in Users /\ w.row \in SessionRows /\ w.session \in Sessions
      /\ Known(w.user) /\ w.row.user = w.user
      /\ w.row.revoked \/ CurrentRole(w.row.role, w.user)
    BY <1>0, TaskTypes DEF SaveSession, RoleInv, StoreInv, HandledKnown, HoldsRole
<1>2. /\ sessions' = [sessions EXCEPT ![w.session] = w.row] /\ Dispute(r, w.user)
      /\ serving' = [serving EXCEPT ![r] = Waiting] /\ users' = users
    BY <1>0 DEF SaveSession, Proceed, Done
<1>3. \A s \in Sessions : sessions'[s] # Unknown /\ ~sessions'[s].revoked =>
               \/ sessions'[s] = sessions[s]
               \/ CurrentRole(sessions'[s].role, sessions'[s].user) /\ Known(sessions'[s].user)
                  /\ sessions'[s].user \in Users
    BY <1>1, <1>2 DEF RoleInv, StoreInv, AccountsTypeOK
<1>4. \A q \in Servers : serving'[q] = serving[q] \/ serving'[q].stage \in {"idle", "audit", "governing"}
    BY <1>2 DEF Waiting, RoleInv, StoreInv, AccountsTypeOK
<1>5. disputed \subseteq disputed'
    BY <1>2 DEF Dispute
<1> QED BY <1>2, <1>3, <1>4, <1>5, SameRoles

\* New users, audit entries and dropped handlers touch no role that is known.
LEMMA OthersKeepRoles ==
    ASSUME RoleInv, StoreInv',
           \/ \E u \in Users, name \in Names : SignUp(u, name)
           \/ \E r \in Servers : RecordGovernance(r) \/ Drop(r)
           \/ \E r \in Servers, a, u \in Users, name \in Names, role \in Role :
                CreateAdminUser(r, a, u, name, role)
    PROVE  RoleInv'
<1>1. sessions' = sessions /\ disputed' = disputed
    BY DEF SignUp, RecordGovernance, Drop, CreateAdminUser
<1>2. \A u \in Users : Known(u) => users'[u].role = users[u].role
    BY DEF SignUp, RecordGovernance, Drop, CreateAdminUser, RoleInv, StoreInv, AccountsTypeOK
<1>3. \A q \in Servers : serving'[q] = serving[q] \/ serving'[q].stage \in {"idle", "audit", "governing"}
    BY DEF SignUp, RecordGovernance, Drop, CreateAdminUser, Serve, Proceed, Done, Waiting,
       RoleInv, StoreInv, AccountsTypeOK
<1> QED BY <1>1, <1>2, <1>3, SameRoles

LEMMA RoleStep ==
    ASSUME RoleInv, [AccountsNext]_accountVars
    PROVE  RoleInv'
<1>0. StoreInv'
    BY AccountsStep DEF RoleInv
<1>1. CASE UNCHANGED accountVars
    BY <1>0, <1>1 DEF accountVars, RoleInv, LiveSessionsKnowTheRole, HoldsRole, CurrentRole
<1>2. ASSUME NEW r \in Servers, HandlerBegins(r) PROVE RoleInv'
    <2>1. PICK task \in Tasks : Begins(r, task) /\ SoundTask(task)
        BY <1>2, BeginsSoundly DEF RoleInv
    <2> QED BY <1>0, <2>1, BeginsKeepsRoles
<1>3. ASSUME NEW r \in Servers, SaveUser(r) \/ CommitGovern(r) \/ SaveSession(r) PROVE RoleInv'
    BY <1>0, <1>3, SaveUserKeepsRoles, CommitGovernKeepsRoles, SaveSessionKeepsRoles
<1>4. CASE AccountsNext
    BY <1>0, <1>2, <1>3, <1>4, OthersKeepRoles DEF AccountsNext, HandlerBegins
<1> QED BY <1>1, <1>4

-------------------------------------------------------------------------------
(***************************************************************************)
(* Audit: a user who is not disputed has at most one handler at work on    *)
(* him that changes what the audit says, and it knows what the row says.   *)
(***************************************************************************)
Auditing(r, u) == serving[r].stage = "audit" /\ serving[r].user = u
Accounted(u) ==
    /\ Known(u) /\ (\A r \in Servers : ~Auditing(r, u)) => record[u] = RecordOf(users[u])
    /\ \A r \in Servers : Auditing(r, u) => Recorded(u, serving[r].op) = RecordOf(users[u])
    /\ \A q, r \in Servers : Auditing(q, u) /\ Auditing(r, u) => q = r
    /\ \A r \in Servers : serving[r].stage = "saving" /\ serving[r].user = u =>
            Matches(serving[r].op, u, serving[r].row)
AuditInv == StoreInv /\ \A u \in Users \ (disputed \cup unaudited) : Accounted(u)

\* A step that leaves the row and the record of u alone, and whose handlers start no write about him.
LEMMA StillAccounted ==
    ASSUME NEW u \in Users, Accounted(u), users'[u] = users[u], record'[u] = record[u],
           \A q \in Servers : \/ serving'[q] = serving[q]
                              \/ /\ ~Auditing(q, u)
                                 /\ ~Auditing(q, u)'
                                 /\ \/ ~(serving'[q].stage = "saving" /\ serving'[q].user = u)
                                    \/ Matches(serving'[q].op, u, serving'[q].row)
    PROVE  Accounted(u)'
<1>1. \A q \in Servers : Auditing(q, u)' <=> Auditing(q, u)
    BY DEF Auditing
<1>2. Known(u)' <=> Known(u)
    BY DEF Known
<1>3. RecordOf(users[u])' = RecordOf(users[u])
    BY DEF RecordOf
<1>4. (Known(u) /\ (\A q \in Servers : ~Auditing(q, u)) => record[u] = RecordOf(users[u]))'
    BY <1>1, <1>2, <1>3 DEF Accounted
<1>5. ASSUME NEW q \in Servers, Auditing(q, u)'
      PROVE  Recorded(u, serving[q].op)' = RecordOf(users[u])'
    <2>1. serving'[q] = serving[q] /\ Auditing(q, u)
        BY <1>1, <1>5
    <2>2. Recorded(u, serving[q].op)' = Recorded(u, serving[q].op)
        BY <1>3, <2>1 DEF Recorded
    <2> QED BY <1>3, <2>1, <2>2 DEF Accounted
<1>6. ASSUME NEW q \in Servers, serving'[q].stage = "saving", serving'[q].user = u
      PROVE  Matches(serving[q].op, u, serving[q].row)'
    BY <1>6 DEF Accounted, Matches
<1>7. (\A q, r \in Servers : Auditing(q, u) /\ Auditing(r, u) => q = r)'
    BY <1>1 DEF Accounted
<1> QED BY <1>4, <1>5, <1>6, <1>7 DEF Accounted

LEMMA BeginsKeepsAudit ==
    ASSUME NEW r \in Servers, NEW task \in Tasks, AuditInv, StoreInv', Begins(r, task), SoundTask(task)
    PROVE  AuditInv'
<1>1. /\ serving'[r] = task /\ serving[r].stage # "audit"
      /\ \A q \in Servers : q # r => serving'[q] = serving[q]
      /\ users' = users /\ disputed' = disputed /\ record' = record /\ unaudited' = unaudited
    BY ServeKeepsOthers DEF AuditInv, StoreInv, Begins, Proceed
<1>2. SUFFICES ASSUME NEW u \in Users, u \notin disputed \cup unaudited PROVE Accounted(u)'
    BY <1>1 DEF AuditInv
<1>3. Accounted(u)
    BY <1>2 DEF AuditInv
<1>4. ~Auditing(r, u)
    BY <1>1 DEF Auditing
<1>5. ~Auditing(r, u)'
    BY <1>1 DEF Auditing, Begins
<1>6. serving'[r].stage = "saving" /\ serving'[r].user = u => Matches(serving'[r].op, u, serving'[r].row)
    BY <1>1 DEF SoundTask
<1> QED BY <1>1, <1>3, <1>4, <1>5, <1>6, StillAccounted

\* When a handler writes the row of an undisputed user, no other handler is at work on him.
LEMMA AloneOn ==
    ASSUME NEW r \in Servers, NEW u \in Users, AuditInv, Dispute(r, u), u \notin disputed' \cup unaudited,
           serving[r].stage \in {"saving", "governing"}, serving[r].user = u, Known(u)
    PROVE  /\ \A q \in Servers : q # r /\ serving[q].stage # "idle" => serving[q].user # u
           /\ \A q \in Servers : ~Auditing(q, u)
           /\ record[u] = RecordOf(users[u])
           /\ serving[r].stage = "saving" => Matches(serving[r].op, u, serving[r].row)
<1>1. u \notin disputed /\ \A q \in Servers : q # r => ~Concerns(q, u)
    BY DEF Dispute
<1>2. ASSUME NEW q \in Servers, q # r, serving[q].stage # "idle" PROVE serving[q].user # u
    BY <1>1, <1>2 DEF Concerns, Waiting
<1>3. ASSUME NEW q \in Servers PROVE ~Auditing(q, u)
    BY <1>2 DEF Auditing
<1>4. Accounted(u)
    BY <1>1 DEF AuditInv
<1> QED BY <1>2, <1>3, <1>4 DEF Accounted

LEMMA BlockedChanged ==
    ASSUME NEW entry \in [name : Names, role : Role, blocked : BOOLEAN]
    PROVE  /\ [entry EXCEPT !.blocked = TRUE] = [name |-> entry.name, role |-> entry.role, blocked |-> TRUE]
           /\ [entry EXCEPT !.blocked = FALSE] = [name |-> entry.name, role |-> entry.role, blocked |-> FALSE]
<1>1. \A b \in BOOLEAN :
        [entry EXCEPT !.blocked = b] = [name |-> entry.name, role |-> entry.role, blocked |-> b]
    OBVIOUS
<1>2. TRUE \in BOOLEAN /\ FALSE \in BOOLEAN
    OBVIOUS
<1> QED BY <1>1, <1>2, Zenon

LEMMA RecordTypes ==
    ASSUME NEW u \in Users, AccountsTypeOK, Known(u)
    PROVE  /\ RecordOf(users[u]) \in [name : Names, role : Role, blocked : BOOLEAN]
           /\ RecordOf(users[u]).name = users[u].name /\ RecordOf(users[u]).role = users[u].role
           /\ RecordOf(users[u]) # Unknown
    BY ReadRowTypes DEF RecordOf, UserRows, Unknown

LEMMA SaveUserKeepsAudit ==
    ASSUME NEW r \in Servers, AuditInv, StoreInv', SaveUser(r)
    PROVE  AuditInv'
<1>0. PICK w \in Tasks : w = serving[r]
    BY TaskTypes DEF AuditInv, StoreInv, AccountsTypeOK, SaveUser, Waiting
<1>1. /\ w.stage = "saving" /\ w.op \in {"confirm", "password", "resend", "block", "unblock"}
      /\ w.user \in Users /\ w.row \in UserRows /\ Known(w.user)
      /\ users' = [users EXCEPT ![w.user] = w.row] /\ Dispute(r, w.user)
      /\ record' = record /\ unaudited' = unaudited
    BY <1>0, TaskTypes DEF SaveUser, AuditInv, StoreInv, HandledKnown
<1>2. /\ \A q \in Servers : q # r => serving'[q] = serving[q]
      /\ w.op \notin {"block", "unblock"} => serving'[r].stage = "idle"
      /\ w.op \in {"block", "unblock"} => /\ serving'[r].stage = "audit" /\ serving'[r].op = w.op
                                          /\ serving'[r].user = w.user
    BY <1>0, <1>1 DEF SaveUser, Proceed, Done, Waiting, AuditInv, StoreInv, AccountsTypeOK
<1>3. users'[w.user] = w.row /\ \A v \in Users : v # w.user => users'[v] = users[v]
    BY <1>1, WriteRow DEF AuditInv, StoreInv
<1>4. SUFFICES ASSUME NEW u \in Users, u \notin disputed' \cup unaudited PROVE Accounted(u)'
    BY <1>1 DEF AuditInv
<1>5. CASE u # w.user
    <2>1. Accounted(u) /\ ~Auditing(r, u)
        BY <1>0, <1>1, <1>4 DEF AuditInv, Dispute, Auditing
    <2>2. ~Auditing(r, u)' /\ serving'[r].stage # "saving"
        BY <1>1, <1>2, <1>5 DEF Auditing
    <2> QED BY <1>1, <1>2, <1>3, <1>5, <2>1, <2>2, StillAccounted
<1>6. CASE u = w.user
    <2>1. /\ \A q \in Servers : q # r /\ serving[q].stage # "idle" => serving[q].user # u
          /\ record[u] = RecordOf(users[u]) /\ Matches(w.op, u, w.row)
        BY <1>0, <1>1, <1>4, <1>6, AloneOn
    <2>2. \A q \in Servers : q # r => /\ ~Auditing(q, u)'
                                      /\ ~(serving'[q].stage = "saving" /\ serving'[q].user = u)
        BY <1>2, <2>1 DEF Auditing
    <2>3. serving'[r].stage # "saving"
        BY <1>1, <1>2
    <2>4. CASE w.op \notin {"block", "unblock"}
        <3>1. \A q \in Servers : ~Auditing(q, u)'
            BY <1>2, <2>2, <2>4 DEF Auditing
        <3>2. record'[u] = RecordOf(users'[u])
            BY <1>1, <1>3, <1>6, <2>1, <2>4 DEF RecordOf, Matches
        <3> QED BY <2>2, <2>3, <3>1, <3>2 DEF Accounted
    <2>5. CASE w.op \in {"block", "unblock"}
        <3>0. record'[u] # Unknown
            BY <1>1, <1>6, <2>1, RecordTypes DEF AuditInv, StoreInv
        <3>1. Auditing(r, u)' /\ serving'[r].op = w.op
            BY <1>2, <1>6, <2>5 DEF Auditing
        <3>2. Recorded(u, w.op)' = RecordOf(users'[u])
            <4>1. CASE w.op = "block"
                <5>1. (w.op = "block") = TRUE
                    BY <4>1
                <5>2. /\ users'[u].name = users[u].name /\ users'[u].role = users[u].role
                      /\ users'[u].blocked = TRUE
                    BY <1>3, <1>6, <2>1, <4>1 DEF Matches
                <5>3. Recorded(u, w.op)' = [record[u] EXCEPT !.blocked = TRUE]
                    BY <1>1, <3>0, <4>1, <5>1 DEF Recorded
                <5>4. [record[u] EXCEPT !.blocked = TRUE]
                        = [name |-> users[u].name, role |-> users[u].role, blocked |-> TRUE]
                    <6>1. /\ record[u] \in [name : Names, role : Role, blocked : BOOLEAN]
                          /\ record[u].name = users[u].name /\ record[u].role = users[u].role
                        BY <1>1, <1>6, <2>1, RecordTypes DEF AuditInv, StoreInv
                    <6> QED BY <6>1, BlockedChanged
                <5> QED BY <5>2, <5>3, <5>4 DEF RecordOf
            <4>2. CASE w.op = "unblock"
                <5>1. (w.op = "block") = FALSE
                    BY <4>2
                <5>2. /\ users'[u].name = users[u].name /\ users'[u].role = users[u].role
                      /\ users'[u].blocked = FALSE
                    BY <1>3, <1>6, <2>1, <4>2 DEF Matches
                <5>3. Recorded(u, w.op)' = [record[u] EXCEPT !.blocked = FALSE]
                    BY <1>1, <3>0, <4>2, <5>1 DEF Recorded
                <5>4. [record[u] EXCEPT !.blocked = FALSE]
                        = [name |-> users[u].name, role |-> users[u].role, blocked |-> FALSE]
                    <6>1. /\ record[u] \in [name : Names, role : Role, blocked : BOOLEAN]
                          /\ record[u].name = users[u].name /\ record[u].role = users[u].role
                        BY <1>1, <1>6, <2>1, RecordTypes DEF AuditInv, StoreInv
                    <6> QED BY <6>1, BlockedChanged
                <5> QED BY <5>2, <5>3, <5>4 DEF RecordOf
            <4> QED BY <2>5, <4>1, <4>2
        <3>3. Recorded(u, serving[r].op)' = RecordOf(users[u])'
            BY <3>1, <3>2 DEF Recorded
        <3>4. \A q \in Servers : Auditing(q, u)' => q = r
            BY <2>2
        <3> QED BY <2>2, <2>3, <3>1, <3>3, <3>4 DEF Accounted
    <2> QED BY <2>4, <2>5
<1> QED BY <1>5, <1>6

Governed(row, n, o) == [row EXCEPT !.name = n, !.role = o]

LEMMA RecordGoverned ==
    ASSUME NEW row \in UserRows, NEW n \in Names, NEW o \in Role
    PROVE  RecordOf(Governed(row, n, o)) = Governed(RecordOf(row), n, o)
<1> DEFINE Entries == [name : Names, role : Role, blocked : BOOLEAN]
<1>1. /\ Governed(row, n, o).name = n
      /\ Governed(row, n, o).role = o
      /\ Governed(row, n, o).blocked = row.blocked
    BY DEF UserRows, Governed
<1>2. RecordOf(Governed(row, n, o)) = [name |-> n, role |-> o, blocked |-> row.blocked]
    BY <1>1 DEF RecordOf
<1>3. ASSUME NEW entry \in Entries
      PROVE  Governed(entry, n, o) = [name |-> n, role |-> o, blocked |-> entry.blocked]
    <2> DEFINE governed == Governed(entry, n, o)
    <2>1. governed \in Entries /\ governed.name = n /\ governed.role = o /\ governed.blocked = entry.blocked
        BY DEF Governed
    <2> HIDE DEF governed
    <2>2. governed = [name |-> governed.name, role |-> governed.role, blocked |-> governed.blocked]
        BY <2>1
    <2> QED BY <2>1, <2>2 DEF governed
<1>4. RecordOf(row) \in Entries
    BY DEF RecordOf, UserRows
<1>5. RecordOf(row).blocked = row.blocked
    BY DEF RecordOf
<1> HIDE DEF Entries
<1> QED BY <1>2, <1>3, <1>4, <1>5

LEMMA CommitGovernKeepsAudit ==
    ASSUME NEW r \in Servers, AuditInv, StoreInv', CommitGovern(r)
    PROVE  AuditInv'
<1>0. PICK w \in Tasks : w = serving[r]
    BY TaskTypes DEF AuditInv, StoreInv, AccountsTypeOK, CommitGovern, Waiting
<1>1. /\ w.stage = "governing" /\ w.user \in Users /\ Known(w.user) /\ Dispute(r, w.user)
      /\ w.name \in Names /\ w.role \in Role
      /\ users' = [users EXCEPT ![w.user].name = w.name, ![w.user].role = w.role]
      /\ record' = IF record[w.user] = Unknown THEN record
                   ELSE [record EXCEPT ![w.user].name = w.name, ![w.user].role = w.role]
      /\ serving' = [serving EXCEPT ![r] = Waiting] /\ unaudited' = unaudited
    BY <1>0, TaskTypes DEF CommitGovern, AuditInv, StoreInv, HandledKnown, Proceed, Done
<1>2. /\ \A q \in Servers : q # r => serving'[q] = serving[q]
      /\ serving'[r].stage = "idle"
    BY <1>1, ServeKeepsOthers DEF AuditInv, StoreInv, Waiting
<1>3. /\ \A v \in Users : v # w.user => users'[v] = users[v] /\ record'[v] = record[v]
      /\ users'[w.user] = [users[w.user] EXCEPT !.name = w.name, !.role = w.role]
      /\ record[w.user] # Unknown =>
            record'[w.user] = [record[w.user] EXCEPT !.name = w.name, !.role = w.role]
    BY <1>1 DEF AuditInv, StoreInv, AccountsTypeOK
<1>4. SUFFICES ASSUME NEW u \in Users, u \notin disputed' \cup unaudited PROVE Accounted(u)'
    BY <1>1 DEF AuditInv
<1>5. CASE u # w.user
    <2>1. Accounted(u) /\ ~Auditing(r, u)
        BY <1>0, <1>1, <1>4 DEF AuditInv, Dispute, Auditing
    <2>2. ~Auditing(r, u)' /\ serving'[r].stage # "saving"
        BY <1>2 DEF Auditing
    <2> QED BY <1>2, <1>3, <1>5, <2>1, <2>2, StillAccounted
<1>6. CASE u = w.user
    <2>1. /\ \A q \in Servers : q # r /\ serving[q].stage # "idle" => serving[q].user # u
          /\ record[u] = RecordOf(users[u])
        BY <1>0, <1>1, <1>4, <1>6, AloneOn
    <2>2. \A q \in Servers : /\ ~Auditing(q, u)'
                             /\ ~(serving'[q].stage = "saving" /\ serving'[q].user = u)
        BY <1>2, <2>1 DEF Auditing
    <2>3. users[u] \in UserRows
        BY <1>1, <1>6, ReadRowTypes DEF AuditInv, StoreInv
    <2>4. record'[u] = RecordOf(users'[u])
        <3>1. users'[u] = Governed(users[u], w.name, w.role)
            BY <1>3, <1>6 DEF Governed
        <3>2. record'[u] = Governed(RecordOf(users[u]), w.name, w.role)
            <4>1. record[u] # Unknown
                BY <1>1, <1>6, <2>1, RecordTypes DEF AuditInv, StoreInv
            <4> QED BY <1>3, <1>6, <2>1, <4>1 DEF Governed
        <3>3. RecordOf(Governed(users[u], w.name, w.role)) = Governed(RecordOf(users[u]), w.name, w.role)
            BY <1>1, <2>3, RecordGoverned
        <3> QED BY <3>1, <3>2, <3>3
    <2> QED BY <2>2, <2>4 DEF Accounted
<1> QED BY <1>5, <1>6

LEMMA RecordGovernanceKeepsAudit ==
    ASSUME NEW r \in Servers, AuditInv, StoreInv', RecordGovernance(r)
    PROVE  AuditInv'
<1>0. PICK w \in Tasks : w = serving[r]
    BY TaskTypes DEF AuditInv, StoreInv, AccountsTypeOK, RecordGovernance, Waiting
<1>1. /\ w.stage = "audit" /\ w.user \in Users
      /\ record' = [record EXCEPT ![w.user] = Recorded(w.user, w.op)]
      /\ serving' = [serving EXCEPT ![r] = Waiting]
      /\ UNCHANGED <<users, disputed, unaudited>>
    BY <1>0, TaskTypes DEF RecordGovernance, Proceed, Done
<1>2. /\ \A q \in Servers : q # r => serving'[q] = serving[q]
      /\ serving'[r].stage = "idle"
    BY <1>1, ServeKeepsOthers DEF AuditInv, StoreInv, Waiting
<1>3. /\ record'[w.user] = Recorded(w.user, w.op)
      /\ \A v \in Users : v # w.user => record'[v] = record[v]
    BY <1>1 DEF AuditInv, StoreInv, AccountsTypeOK
<1>4. SUFFICES ASSUME NEW u \in Users, u \notin disputed \cup unaudited PROVE Accounted(u)'
    BY <1>1 DEF AuditInv
<1>5. Accounted(u)
    BY <1>4 DEF AuditInv
<1>6. CASE u # w.user
    <2>1. ~Auditing(r, u) /\ ~Auditing(r, u)' /\ serving'[r].stage # "saving"
        BY <1>0, <1>2, <1>6 DEF Auditing
    <2> QED BY <1>1, <1>2, <1>3, <1>5, <1>6, <2>1, StillAccounted
<1>7. CASE u = w.user
    <2>1. Auditing(r, u) /\ \A q \in Servers : q # r => ~Auditing(q, u)
        BY <1>0, <1>1, <1>5, <1>7 DEF Auditing, Accounted
    <2>2. \A q \in Servers : ~Auditing(q, u)'
        BY <1>2, <2>1 DEF Auditing
    <2>3. record'[u] = RecordOf(users'[u])
        BY <1>0, <1>1, <1>3, <1>5, <1>7, <2>1 DEF Accounted
    <2>4. ASSUME NEW q \in Servers, serving'[q].stage = "saving", serving'[q].user = u
          PROVE  Matches(serving[q].op, u, serving[q].row)'
        BY <1>1, <1>2, <1>5, <2>4 DEF Accounted, Matches
    <2> QED BY <2>2, <2>3, <2>4 DEF Accounted
<1> QED BY <1>6, <1>7

\* A dropped audit entry is noted; a saved session changes neither row nor record.
LEMMA EndsKeepAudit ==
    ASSUME NEW r \in Servers, AuditInv, StoreInv', Drop(r) \/ SaveSession(r)
    PROVE  AuditInv'
<1>1. /\ serving' = [serving EXCEPT ![r] = Waiting] /\ users' = users /\ record' = record
      /\ disputed \subseteq disputed' /\ unaudited \subseteq unaudited'
    BY DEF Drop, SaveSession, Proceed, Done, Dispute
<1>2. /\ \A q \in Servers : q # r => serving'[q] = serving[q]
      /\ serving'[r].stage = "idle"
    BY <1>1, ServeKeepsOthers DEF AuditInv, StoreInv, Waiting
<1>3. SUFFICES ASSUME NEW u \in Users, u \notin disputed' \cup unaudited' PROVE Accounted(u)'
    BY DEF AuditInv
<1>4. Accounted(u)
    BY <1>1, <1>3 DEF AuditInv
<1>5. ~Auditing(r, u)
    BY <1>3 DEF Drop, SaveSession, Auditing
<1>6. ~Auditing(r, u)' /\ serving'[r].stage # "saving"
    BY <1>2 DEF Auditing
<1> QED BY <1>1, <1>2, <1>4, <1>5, <1>6, StillAccounted

LEMMA NobodyServesTheUnknown ==
    ASSUME NEW u \in Users, StoreInv, ~Known(u)
    PROVE  \A q \in Servers : serving[q].stage # "idle" => serving[q].user # u
    BY DEF StoreInv, HandledKnown

LEMMA NewUserKeepsAudit ==
    ASSUME AuditInv, StoreInv',
           \/ \E u \in Users, name \in Names : SignUp(u, name)
           \/ \E r \in Servers, a, u \in Users, name \in Names, role \in Role :
                CreateAdminUser(r, a, u, name, role)
    PROVE  AuditInv'
<1>1. ASSUME NEW u \in Users, NEW name \in Names, SignUp(u, name) PROVE AuditInv'
    <2>1. /\ serving' = serving /\ disputed' = disputed /\ unaudited' = unaudited
          /\ users'[u] = SelfRow(name, NewToken) /\ record'[u] = RecordOf(SelfRow(name, NewToken))
          /\ \A v \in Users : v # u => users'[v] = users[v] /\ record'[v] = record[v]
        BY <1>1 DEF SignUp, AuditInv, StoreInv, AccountsTypeOK
    <2>2. SUFFICES ASSUME NEW v \in Users, v \notin disputed \cup unaudited PROVE Accounted(v)'
        BY <2>1 DEF AuditInv
    <2>3. CASE v # u
        BY <2>1, <2>2, <2>3, StillAccounted DEF AuditInv
    <2>4. CASE v = u
        <3>1. \A q \in Servers : serving[q].stage # "idle" => serving[q].user # u
            BY <1>1, NobodyServesTheUnknown DEF SignUp, AuditInv
        <3>2. \A q \in Servers : /\ ~Auditing(q, u)'
                                 /\ ~(serving'[q].stage = "saving" /\ serving'[q].user = u)
            BY <2>1, <3>1 DEF Auditing
        <3>3. record'[u] = RecordOf(users'[u])
            BY <2>1 DEF RecordOf
        <3> QED BY <2>4, <3>2, <3>3 DEF Accounted
    <2> QED BY <2>3, <2>4
<1>2. ASSUME NEW r \in Servers, NEW a \in Users, NEW u \in Users, NEW name \in Names, NEW role \in Role,
             CreateAdminUser(r, a, u, name, role)
      PROVE  AuditInv'
    <2>1. /\ disputed' = disputed /\ unaudited' = unaudited /\ record' = record
          /\ \A v \in Users : v # u => users'[v] = users[v]
          /\ serving[r] = Waiting
          /\ \A q \in Servers : q # r => serving'[q] = serving[q]
          /\ serving'[r].stage = "audit" /\ serving'[r].user = u /\ serving'[r].op = "create"
        BY <1>2 DEF CreateAdminUser, Serve, AuditInv, StoreInv, AccountsTypeOK
    <2>2. SUFFICES ASSUME NEW v \in Users, v \notin disputed \cup unaudited PROVE Accounted(v)'
        BY <2>1 DEF AuditInv
    <2>3. CASE v # u
        <3>1. ~Auditing(r, v) /\ ~Auditing(r, v)' /\ serving'[r].stage # "saving"
            BY <2>1, <2>3 DEF Auditing, Waiting
        <3> QED BY <2>1, <2>2, <2>3, <3>1, StillAccounted DEF AuditInv
    <2>4. CASE v = u
        <3>1. \A q \in Servers : serving[q].stage # "idle" => serving[q].user # u
            BY <1>2, NobodyServesTheUnknown DEF CreateAdminUser, AuditInv
        <3>2. \A q \in Servers : q # r => /\ ~Auditing(q, u)'
                                          /\ ~(serving'[q].stage = "saving" /\ serving'[q].user = u)
            BY <2>1, <3>1 DEF Auditing
        <3>3. Auditing(r, u)' /\ Recorded(u, serving[r].op)' = RecordOf(users[u])'
            BY <2>1 DEF Auditing, Recorded
        <3>4. serving'[r].stage # "saving" /\ \A q \in Servers : Auditing(q, u)' => q = r
            BY <2>1, <3>2
        <3> QED BY <2>4, <3>2, <3>3, <3>4 DEF Accounted
    <2> QED BY <2>3, <2>4
<1> QED BY <1>1, <1>2

LEMMA AuditStep ==
    ASSUME AuditInv, [AccountsNext]_accountVars
    PROVE  AuditInv'
<1>0. StoreInv'
    BY AccountsStep DEF AuditInv
<1>1. CASE UNCHANGED accountVars
    <2> SUFFICES ASSUME NEW u \in Users, u \notin disputed' \cup unaudited' PROVE Accounted(u)'
        BY <1>0 DEF AuditInv
    <2> QED BY <1>1, StillAccounted DEF AuditInv, accountVars
<1>2. ASSUME NEW r \in Servers, HandlerBegins(r) PROVE AuditInv'
    <2>1. PICK task \in Tasks : Begins(r, task) /\ SoundTask(task)
        BY <1>2, BeginsSoundly DEF AuditInv
    <2> QED BY <1>0, <2>1, BeginsKeepsAudit
<1>3. ASSUME NEW r \in Servers,
             SaveUser(r) \/ RecordGovernance(r) \/ CommitGovern(r) \/ SaveSession(r) \/ Drop(r)
      PROVE  AuditInv'
    BY <1>0, <1>3, SaveUserKeepsAudit, CommitGovernKeepsAudit, RecordGovernanceKeepsAudit, EndsKeepAudit
<1>4. CASE AccountsNext
    BY <1>0, <1>2, <1>3, <1>4, NewUserKeepsAudit DEF AccountsNext, HandlerBegins
<1> QED BY <1>1, <1>4

-------------------------------------------------------------------------------
(***************************************************************************)
(* Tokens.  A token is at one place only: a column of the row of a user,   *)
(* or the row of a session, and the handlers that hold a copy of that      *)
(* place.  What is spent is held by nobody any more, unless handlers       *)
(* overlapped on the user.                                                 *)
(***************************************************************************)
Kinds == {"confirmation", "setup", "session"}
Holders == Users \cup Sessions
Keeps(k, x, t) ==
    \/ k = "confirmation" /\ x \in Users /\ Known(x) /\ users[x].confirmation = t
    \/ k = "setup" /\ x \in Users /\ Known(x) /\ users[x].setup = t
    \/ k = "session" /\ x \in Sessions /\ sessions[x] # Unknown /\ sessions[x].token = t
Carries(task, k, x, t) ==
    \/ /\ k = "confirmation" /\ task.stage = "saving" /\ task.user = x
       /\ task.row.confirmation = t \/ (task.op = "confirm" /\ task.token = t)
    \/ /\ k = "setup" /\ task.stage = "saving" /\ task.user = x
       /\ task.row.setup = t \/ (task.op = "password" /\ task.token = t)
    \/ /\ k = "session" /\ task.stage = "session" /\ task.session = x
       /\ task.row.token = t \/ task.token = t
    \/ k = "session" /\ task.stage = "refreshing" /\ task.session = x /\ task.token = t
IsAt(t, k, x) == Keeps(k, x, t) \/ \E r \in Servers : Carries(serving[r], k, x, t)
PlacesApart ==
    \A t \in Tokens, k, l \in Kinds, x, y \in Holders :
        IsAt(t, k, x) /\ IsAt(t, l, y) => k = l /\ x = y

\* Whoever handles a session handles it for its one user.
HandlesSession(r, s) == serving[r].stage \in {"refreshing", "session"} /\ serving[r].session = s
SessionsOwned ==
    \A r \in Servers, s \in Sessions : HandlesSession(r, s) =>
        /\ serving[r].stage = "refreshing" => sessions[s] # Unknown
        /\ sessions[s] # Unknown => sessions[s].user = serving[r].user
        /\ \A q \in Servers : HandlesSession(q, s) => serving[q].user = serving[r].user

\* What a handler exchanges is not in the row it writes.
Shaped(task) ==
    /\ task.stage = "saving" =>
        /\ task.op = "confirm" => task.row.confirmation = NoToken
        /\ task.op = "password" => task.row.setup = NoToken
        /\ task.op \notin {"confirm", "password"} => task.token = NoToken
    /\ task.stage = "session" =>
        /\ task.row.user = task.user
        /\ task.row.revoked \/ task.row.token # task.token
TasksShaped == \A r \in Servers : Shaped(serving[r])

\* The token t of u can be exchanged, or is being exchanged, or will be stored.
LiveIn(task, u, t) ==
    \/ /\ task.stage = "saving" /\ task.user = u
       /\ t \in {task.token, task.row.confirmation, task.row.setup}
    \/ /\ task.stage = "session" /\ task.user = u
       /\ t = task.token \/ (~task.row.revoked /\ t = task.row.token)
    \/ task.stage = "refreshing" /\ task.user = u /\ t = task.token
LiveSession(s, u, t) ==
    /\ sessions[s] # Unknown /\ ~sessions[s].revoked
    /\ sessions[s].user = u /\ sessions[s].token = t
LiveRow(u, t) == Known(u) /\ t \in {users[u].confirmation, users[u].setup}
Live(t, u) ==
    \/ LiveRow(u, t)
    \/ \E s \in Sessions : LiveSession(s, u, t)
    \/ \E r \in Servers : LiveIn(serving[r], u, t)
SpentIsDead == \A u \in Users \ disputed, t \in spent : ~Live(t, u)

TokenInv ==
    /\ StoreInv /\ PlacesApart /\ SessionsOwned /\ TasksShaped
    /\ SpentIsDead /\ TokensAreSpentOnce

\* A place of u, and then of no other user.
PlaceOf(k, x, u) ==
    \/ k \in {"confirmation", "setup"} /\ x = u
    \/ /\ k = "session" /\ x \in Sessions
       /\ \/ sessions[x] # Unknown /\ sessions[x].user = u
          \/ \E r \in Servers : HandlesSession(r, x) /\ serving[r].user = u

LEMMA OneOwner ==
    ASSUME SessionsOwned, NEW k \in Kinds, NEW x \in Holders, NEW u \in Users, NEW v \in Users,
           PlaceOf(k, x, u), PlaceOf(k, x, v)
    PROVE  u = v
    BY DEF PlaceOf, SessionsOwned, Kinds

LEMMA LiveInAPlace ==
    ASSUME NEW r \in Servers, NEW u \in Users, NEW t \in Tokens,
           StoreInv, Shaped(serving[r]), LiveIn(serving[r], u, t)
    PROVE  \E k \in Kinds, x \in Holders : Carries(serving[r], k, x, t) /\ PlaceOf(k, x, u)
<1>1. PICK w \in Tasks : w = serving[r]
    BY TaskTypes DEF StoreInv, AccountsTypeOK, LiveIn, Waiting
<1>2. t # NoToken /\ {"confirmation", "setup", "session"} = Kinds
    BY AccountsAssumption DEF Kinds
<1>3. CASE w.stage = "saving"
    <2>1. /\ w.user = u /\ t \in {w.token, w.row.confirmation, w.row.setup}
          /\ w.op \notin {"confirm", "password"} => w.token = NoToken
        BY <1>1, <1>3 DEF LiveIn, Shaped
    <2>2. Carries(w, "confirmation", u, t) \/ Carries(w, "setup", u, t)
        BY <1>2, <1>3, <2>1 DEF Carries
    <2>3. PlaceOf("confirmation", u, u) /\ PlaceOf("setup", u, u) /\ u \in Holders
        BY DEF PlaceOf, Holders
    <2> QED BY <1>1, <1>2, <2>2, <2>3
<1>4. CASE w.stage \in {"refreshing", "session"}
    <2>1. /\ w.user = u /\ w.session \in Sessions
          /\ t = w.token \/ (w.stage = "session" /\ t = w.row.token)
        BY <1>1, <1>4, TaskTypes DEF LiveIn
    <2>2. Carries(w, "session", w.session, t)
        BY <1>4, <2>1 DEF Carries
    <2>3. PlaceOf("session", w.session, u) /\ w.session \in Holders
        BY <1>1, <1>4, <2>1 DEF PlaceOf, HandlesSession, Holders
    <2> QED BY <1>1, <1>2, <2>2, <2>3
<1> QED BY <1>1, <1>3, <1>4 DEF LiveIn

LEMMA LiveIsAt ==
    ASSUME NEW u \in Users, NEW t \in Tokens, StoreInv, TasksShaped, Live(t, u)
    PROVE  \E k \in Kinds, x \in Holders : IsAt(t, k, x) /\ PlaceOf(k, x, u)
<1>1. CASE LiveRow(u, t)
    <2>1. Keeps("confirmation", u, t) \/ Keeps("setup", u, t)
        BY <1>1 DEF LiveRow, Keeps
    <2>2. PlaceOf("confirmation", u, u) /\ PlaceOf("setup", u, u) /\ u \in Holders
        BY DEF PlaceOf, Holders
    <2> QED BY <2>1, <2>2 DEF IsAt, Kinds
<1>2. CASE \E s \in Sessions : LiveSession(s, u, t)
    <2>1. PICK s \in Sessions : LiveSession(s, u, t)
        BY <1>2
    <2>2. Keeps("session", s, t) /\ PlaceOf("session", s, u) /\ s \in Holders
        BY <2>1 DEF LiveSession, Keeps, PlaceOf, Holders
    <2> QED BY <2>2 DEF IsAt, Kinds
<1>3. CASE \E r \in Servers : LiveIn(serving[r], u, t)
    BY <1>3, LiveInAPlace DEF IsAt, TasksShaped
<1> QED BY <1>1, <1>2, <1>3 DEF Live

LEMMA IsAtIssued ==
    ASSUME NEW t \in Tokens, NEW k \in Kinds, NEW x \in Holders, StoreInv, IsAt(t, k, x)
    PROVE  t \in issued
<1>1. t # NoToken
    BY AccountsAssumption
<1>2. Keeps(k, x, t) => t \in issued
    BY <1>1 DEF Keeps, StoreInv, TokensIssued, RowsIssued, SessionsIssued, Storable
<1>3. ASSUME NEW r \in Servers, Carries(serving[r], k, x, t) PROVE t \in issued
    BY <1>1, <1>3 DEF Carries, StoreInv, TokensIssued, TaskIssued, Storable
<1> QED BY <1>2, <1>3 DEF IsAt

\* Tokens stay where they are, or are new at the one place k, x; nothing spent comes back.
TokensStay(k, x) ==
    \A t \in Tokens :
        /\ \A l \in Kinds, y \in Holders :
            IsAt(t, l, y)' => IsAt(t, l, y) \/ (t \notin issued /\ l = k /\ y = x)
        /\ \A u \in Users : Live(t, u)' => Live(t, u) \/ t \notin issued

LEMMA StayingKeepsPlaces ==
    ASSUME NEW k, NEW x, StoreInv, PlacesApart, TokensStay(k, x)
    PROVE  PlacesApart'
<1> SUFFICES ASSUME NEW t \in Tokens, NEW l \in Kinds, NEW m \in Kinds, NEW y \in Holders,
                    NEW z \in Holders, IsAt(t, l, y)', IsAt(t, m, z)'
             PROVE  l = m /\ y = z
    BY DEF PlacesApart
<1>1. /\ IsAt(t, l, y) \/ (t \notin issued /\ l = k /\ y = x)
      /\ IsAt(t, m, z) \/ (t \notin issued /\ m = k /\ z = x)
    BY DEF TokensStay
<1>2. (IsAt(t, l, y) => t \in issued) /\ (IsAt(t, m, z) => t \in issued)
    BY IsAtIssued
<1> QED BY <1>1, <1>2 DEF PlacesApart

LEMMA QuietTokens ==
    ASSUME NEW k, NEW x, TokenInv, StoreInv', TokensStay(k, x), SessionsOwned', TasksShaped',
           spent' = spent, doubleSpent' = doubleSpent, disputed \subseteq disputed'
    PROVE  TokenInv'
<1>1. PlacesApart'
    BY StayingKeepsPlaces DEF TokenInv
<1>2. SpentIsDead'
    <2> SUFFICES ASSUME NEW u \in Users, u \notin disputed', NEW t \in spent, Live(t, u)' PROVE FALSE
        BY DEF SpentIsDead
    <2>1. t \in issued /\ t \in Tokens /\ u \notin disputed
        BY DEF TokenInv, StoreInv, AccountsTypeOK
    <2>2. Live(t, u)
        BY <2>1 DEF TokensStay
    <2> QED BY <2>1, <2>2 DEF TokenInv, SpentIsDead
<1>3. TokensAreSpentOnce'
    BY DEF TokenInv, TokensAreSpentOnce
<1> QED BY <1>1, <1>2, <1>3 DEF TokenInv

-------------------------------------------------------------------------------
\* A handler that begins copies tokens from where they are, or holds a new one for the place k, x.
TokensCome(task, k, x) ==
    \A t \in Tokens :
        /\ \A l \in Kinds, y \in Holders :
            Carries(task, l, y, t) => IsAt(t, l, y) \/ (t \notin issued /\ l = k /\ y = x)
        /\ \A u \in Users : LiveIn(task, u, t) => Live(t, u) \/ t \notin issued
HasItsSession(task) ==
    task.stage \in {"refreshing", "session"} =>
        /\ task.stage = "refreshing" => sessions[task.session] # Unknown
        /\ sessions[task.session] # Unknown => sessions[task.session].user = task.user
        /\ \A q \in Servers : HandlesSession(q, task.session) => serving[q].user = task.user

LEMMA BeginsKeepsTokens ==
    ASSUME NEW r \in Servers, NEW task \in Tasks, NEW k, NEW x, TokenInv, Begins(r, task),
           Shaped(task), TokensCome(task, k, x), HasItsSession(task)
    PROVE  TokenInv'
<1>1. StoreInv'
    BY BeginsKeepsStore DEF TokenInv
<1>2. /\ UNCHANGED <<users, sessions, spent, disputed, doubleSpent>>
      /\ serving'[r] = task
      /\ \A q \in Servers : q # r => serving'[q] = serving[q]
    BY ServeKeepsOthers DEF TokenInv, StoreInv, Begins, Proceed
<1>3. TokensStay(k, x)
    <2> SUFFICES ASSUME NEW t \in Tokens
                 PROVE  /\ \A l \in Kinds, y \in Holders :
                            IsAt(t, l, y)' => IsAt(t, l, y) \/ (t \notin issued /\ l = k /\ y = x)
                        /\ \A u \in Users : Live(t, u)' => Live(t, u) \/ t \notin issued
        BY DEF TokensStay
    <2>1. ASSUME NEW l \in Kinds, NEW y \in Holders, IsAt(t, l, y)'
          PROVE  IsAt(t, l, y) \/ (t \notin issued /\ l = k /\ y = x)
        <3>1. Keeps(l, y, t)' => Keeps(l, y, t)
            BY <1>2 DEF Keeps, Known
        <3>2. ASSUME NEW q \in Servers, Carries(serving'[q], l, y, t)
              PROVE  IsAt(t, l, y) \/ (t \notin issued /\ l = k /\ y = x)
            BY <1>2, <3>2 DEF TokensCome, IsAt
        <3> QED BY <2>1, <3>1, <3>2 DEF IsAt, Carries
    <2>2. ASSUME NEW u \in Users, Live(t, u)'
          PROVE  Live(t, u) \/ t \notin issued
        <3>1. LiveRow(u, t)' => Live(t, u)
            BY <1>2 DEF LiveRow, Live, Known
        <3>2. (\E s \in Sessions : LiveSession(s, u, t)') => Live(t, u)
            BY <1>2 DEF LiveSession, Live
        <3>3. ASSUME NEW q \in Servers, LiveIn(serving'[q], u, t)
              PROVE  Live(t, u) \/ t \notin issued
            BY <1>2, <3>3 DEF TokensCome, Live
        <3> QED BY <2>2, <3>1, <3>2, <3>3 DEF Live, LiveIn, LiveSession
    <2> QED BY <2>1, <2>2
<1>4. SessionsOwned'
    <2> SUFFICES ASSUME NEW q \in Servers, NEW s \in Sessions, HandlesSession(q, s)'
                 PROVE  /\ serving'[q].stage = "refreshing" => sessions[s] # Unknown
                        /\ sessions[s] # Unknown => sessions[s].user = serving'[q].user
                        /\ \A p \in Servers : HandlesSession(p, s)' => serving'[p].user = serving'[q].user
        BY <1>2 DEF SessionsOwned
    <2>1. \A p \in Servers : p # r /\ HandlesSession(p, s)' =>
                HandlesSession(p, s) /\ serving'[p] = serving[p]
        BY <1>2 DEF HandlesSession
    <2>2. CASE HandlesSession(r, s)'
        <3>1. /\ task.stage = "refreshing" => sessions[s] # Unknown
              /\ sessions[s] # Unknown => sessions[s].user = task.user
              /\ \A p \in Servers : HandlesSession(p, s) => serving[p].user = task.user
            BY <1>2, <2>2 DEF HandlesSession, HasItsSession
        <3>2. q # r => /\ serving'[q].stage = "refreshing" => sessions[s] # Unknown
                       /\ sessions[s] # Unknown => sessions[s].user = serving'[q].user
            BY <2>1 DEF TokenInv, SessionsOwned
        <3> QED BY <1>2, <2>1, <3>1, <3>2
    <2>3. CASE ~HandlesSession(r, s)'
        BY <2>1, <2>3 DEF TokenInv, SessionsOwned
    <2> QED BY <2>2, <2>3
<1>5. TasksShaped'
    <2> SUFFICES ASSUME NEW q \in Servers PROVE Shaped(serving'[q])
        BY DEF TasksShaped, Shaped
    <2> QED BY <1>2 DEF TokenInv, TasksShaped
<1> QED BY <1>1, <1>2, <1>3, <1>4, <1>5, QuietTokens

\* The row read, or a new link in its place.
Copies(u, row) ==
    /\ row.confirmation \in {NoToken, users[u].confirmation}
    /\ row.setup \in {NoToken, users[u].setup} \/ row.setup \notin issued
Exchanges(op, u, row, t) ==
    /\ op = "confirm" => t = users[u].confirmation /\ row.confirmation = NoToken
    /\ op = "password" => t = users[u].setup /\ row.setup = NoToken
    /\ op \notin {"confirm", "password"} => t = NoToken

LEMMA SavingTokens ==
    ASSUME NEW r \in Servers, NEW task \in Tasks, TokenInv, Begins(r, task), task.stage = "saving",
           Copies(task.user, task.row), Exchanges(task.op, task.user, task.row, task.token)
    PROVE  TokenInv'
<1> DEFINE u == task.user
           row == task.row
<1>1. u \in Users /\ Known(u)
    BY TaskTypes DEF Begins, Waiting
<1>2. \A t \in Tokens : t # NoToken
    BY AccountsAssumption
<1>3. Shaped(task) /\ HasItsSession(task)
    BY DEF Shaped, Exchanges, HasItsSession
<1>4. TokensCome(task, "setup", u)
    <2> SUFFICES ASSUME NEW t \in Tokens
                 PROVE  /\ \A l \in Kinds, y \in Holders :
                            Carries(task, l, y, t) => IsAt(t, l, y) \/ (t \notin issued /\ l = "setup" /\ y = u)
                        /\ \A v \in Users : LiveIn(task, v, t) => Live(t, v) \/ t \notin issued
        BY DEF TokensCome
    <2>1. ASSUME NEW l \in Kinds, NEW y \in Holders, Carries(task, l, y, t)
          PROVE  IsAt(t, l, y) \/ (t \notin issued /\ l = "setup" /\ y = u)
        <3>1. y = u /\ l \in {"confirmation", "setup"}
            BY <2>1 DEF Carries
        <3>2. l = "confirmation" => t = users[u].confirmation
            BY <1>2, <2>1, <3>1 DEF Carries, Copies, Exchanges
        <3>3. l = "setup" => t = users[u].setup \/ t \notin issued
            BY <1>2, <2>1, <3>1 DEF Carries, Copies, Exchanges
        <3> QED BY <1>1, <3>1, <3>2, <3>3 DEF IsAt, Keeps
    <2>2. ASSUME NEW v \in Users, LiveIn(task, v, t)
          PROVE  Live(t, v) \/ t \notin issued
        <3>1. v = u /\ t \in {task.token, row.confirmation, row.setup}
            BY <2>2 DEF LiveIn
        <3>2. t \in {users[u].confirmation, users[u].setup} \/ t \notin issued
            BY <1>2, <3>1 DEF Copies, Exchanges
        <3> QED BY <1>1, <3>1, <3>2 DEF Live, LiveRow
    <2> QED BY <2>1, <2>2
<1> QED BY <1>3, <1>4, BeginsKeepsTokens

\* The handler r refreshes the session s of u, and holds the token t it was given.
Refreshes(r, s, u, t) ==
    /\ serving[r].stage = "refreshing"
    /\ serving[r].session = s /\ serving[r].user = u /\ serving[r].token = t

LEMMA SessionTokens ==
    ASSUME NEW r \in Servers, NEW task \in Tasks, TokenInv, Begins(r, task), task.stage = "session",
           HasItsSession(task), task.row.user = task.user,
           \/ task.token = NoToken
           \/ LiveSession(task.session, task.user, task.token)
           \/ Refreshes(r, task.session, task.user, task.token),
           \/ task.row.token \notin issued
           \/ /\ task.row.revoked /\ sessions[task.session] # Unknown
              /\ sessions[task.session].token = task.row.token
    PROVE  TokenInv'
<1> DEFINE s == task.session
<1>1. s \in Sessions /\ task.row.token \in Tokens
    BY TaskTypes DEF SessionRows
<1>2. \A t \in Tokens : t # NoToken
    BY AccountsAssumption
<1>3. /\ LiveSession(s, task.user, task.token) => task.token \in issued
      /\ Refreshes(r, s, task.user, task.token) => task.token \in issued
    BY <1>1 DEF LiveSession, Refreshes, TokenInv, StoreInv, TokensIssued, SessionsIssued, TaskIssued
<1>4. Shaped(task)
    BY <1>1, <1>2, <1>3 DEF Shaped
<1>5. TokensCome(task, "session", s)
    <2> SUFFICES ASSUME NEW t \in Tokens
                 PROVE  /\ \A l \in Kinds, y \in Holders :
                            Carries(task, l, y, t) => IsAt(t, l, y) \/ (t \notin issued /\ l = "session" /\ y = s)
                        /\ \A v \in Users : LiveIn(task, v, t) => Live(t, v) \/ t \notin issued
        BY DEF TokensCome
    <2>1. ASSUME NEW l \in Kinds, NEW y \in Holders, Carries(task, l, y, t)
          PROVE  IsAt(t, l, y) \/ (t \notin issued /\ l = "session" /\ y = s)
        <3>1. y = s /\ l = "session" /\ (t = task.token \/ t = task.row.token)
            BY <2>1 DEF Carries
        <3>2. \/ t \notin issued
              \/ sessions[s] # Unknown /\ sessions[s].token = t
              \/ Carries(serving[r], "session", s, t)
            BY <1>2, <3>1 DEF LiveSession, Refreshes, Carries
        <3> QED BY <1>1, <3>1, <3>2 DEF IsAt, Keeps
    <2>2. ASSUME NEW v \in Users, LiveIn(task, v, t)
          PROVE  Live(t, v) \/ t \notin issued
        <3>1. v = task.user /\ (t = task.token \/ (~task.row.revoked /\ t = task.row.token))
            BY <2>2 DEF LiveIn
        <3>2. t \notin issued \/ LiveSession(s, v, t) \/ LiveIn(serving[r], v, t)
            BY <1>2, <3>1 DEF Refreshes, LiveIn
        <3> QED BY <1>1, <3>2 DEF Live
    <2> QED BY <2>1, <2>2
<1> QED BY <1>4, <1>5, BeginsKeepsTokens

\* A refresh copies the token of a session that is open.
LEMMA RefreshTokens ==
    ASSUME NEW r \in Servers, NEW task \in Tasks, TokenInv, Begins(r, task), task.stage = "refreshing",
           HasItsSession(task), LiveSession(task.session, task.user, task.token)
    PROVE  TokenInv'
<1>1. task.session \in Sessions
    BY TaskTypes
<1>2. Shaped(task)
    BY DEF Shaped
<1>3. TokensCome(task, "session", task.session)
    <2> SUFFICES ASSUME NEW t \in Tokens
                 PROVE  /\ \A l \in Kinds, y \in Holders : Carries(task, l, y, t) => IsAt(t, l, y)
                        /\ \A v \in Users : LiveIn(task, v, t) => Live(t, v)
        BY DEF TokensCome
    <2>1. ASSUME NEW l \in Kinds, NEW y \in Holders, Carries(task, l, y, t) PROVE IsAt(t, l, y)
        BY <1>1, <2>1 DEF Carries, LiveSession, IsAt, Keeps
    <2>2. ASSUME NEW v \in Users, LiveIn(task, v, t) PROVE Live(t, v)
        BY <1>1, <2>2 DEF LiveIn, Live
    <2> QED BY <2>1, <2>2
<1> QED BY <1>2, <1>3, BeginsKeepsTokens

\* What each begin of a handler puts in its hands.
LEMMA BegunSaving ==
    ASSUME NEW r \in Servers, NEW op, NEW a, NEW u \in Users, NEW row, NEW t, TokenInv,
           BeginSave(r, op, a, u, row, t), HandlerBegins(r), Copies(u, row), Exchanges(op, u, row, t)
    PROVE  TokenInv'
<1>1. PICK task \in Tasks : Begins(r, task)
    BY BeginsSoundly DEF TokenInv
<1>2. task = serving'[r]
    BY <1>1, ServeKeepsOthers DEF Begins, Proceed, TokenInv, StoreInv
<1>3. task = [stage |-> "saving", op |-> op, actor |-> a, user |-> u, row |-> row, token |-> t]
    BY <1>2 DEF BeginSave, Serve, TokenInv, StoreInv, AccountsTypeOK
<1>4. task.stage = "saving" /\ task.op = op /\ task.user = u /\ task.row = row /\ task.token = t
    BY <1>3
<1> QED BY <1>1, <1>4, SavingTokens

LEMMA BegunSession ==
    ASSUME NEW r \in Servers, NEW u \in Users, NEW s \in Sessions, NEW row, NEW t, TokenInv,
           TakesSession(r, u, s, row, t), HandlerBegins(r), row.user = u,
           sessions[s] # Unknown => sessions[s].user = u,
           \A q \in Servers : HandlesSession(q, s) => serving[q].user = u,
           t = NoToken \/ LiveSession(s, u, t) \/ Refreshes(r, s, u, t),
           row.token \notin issued \/ (row.revoked /\ sessions[s] # Unknown /\ sessions[s].token = row.token)
    PROVE  TokenInv'
<1>1. PICK task \in Tasks : Begins(r, task)
    BY BeginsSoundly DEF TokenInv
<1>2. task = serving'[r]
    BY <1>1, ServeKeepsOthers DEF Begins, Proceed, TokenInv, StoreInv
<1>3. task = [stage |-> "session", user |-> u, session |-> s, row |-> row, token |-> t]
    BY <1>2 DEF TakesSession, Proceed, TokenInv, StoreInv, AccountsTypeOK
<1>4. task.stage = "session" /\ task.session = s /\ task.user = u /\ task.row = row /\ task.token = t
    BY <1>3
<1>5. HasItsSession(task)
    BY <1>4 DEF HasItsSession
<1> QED BY <1>1, <1>4, <1>5, SessionTokens

LEMMA CopiedRows ==
    ASSUME NEW u \in Users, AccountsTypeOK, Known(u)
    PROVE  /\ Copies(u, EmailConfirmed(users[u])) /\ EmailConfirmed(users[u]).confirmation = NoToken
           /\ Copies(u, PasswordSet(users[u])) /\ PasswordSet(users[u]).setup = NoToken
           /\ \A b \in BOOLEAN : Copies(u, [users[u] EXCEPT !.blocked = b])
           /\ \A t : t \notin issued => Copies(u, [users[u] EXCEPT !.setup = t])
<1>1. users[u] \in UserRows
    BY ReadRowTypes
<1> DEFINE row == users[u]
<1>2. Copies(u, EmailConfirmed(row)) /\ EmailConfirmed(row).confirmation = NoToken
    BY <1>1 DEF Copies, EmailConfirmed, UserRows
<1>3. Copies(u, PasswordSet(row)) /\ PasswordSet(row).setup = NoToken
    BY <1>1 DEF Copies, PasswordSet, UserRows
<1>4. \A b \in BOOLEAN : Copies(u, [row EXCEPT !.blocked = b])
    BY <1>1 DEF Copies, UserRows
<1>5. \A t : t \notin issued => Copies(u, [row EXCEPT !.setup = t])
    BY <1>1 DEF Copies, UserRows
<1> QED BY <1>2, <1>3, <1>4, <1>5

LEMMA HandlerBeginsKeepsTokens ==
    ASSUME NEW r \in Servers, TokenInv, HandlerBegins(r)
    PROVE  TokenInv'
<1>0. AccountsTypeOK /\ \A u \in Users : Known(u) => users[u] \in UserRows
    BY ReadRowTypes DEF TokenInv, StoreInv
<1>1. Issue => NewToken \notin issued
    BY <1>0, FreshToken DEF Issue, AccountsTypeOK
<1>2. \A s \in Sessions : sessions[s] # Unknown => sessions[s] \in SessionRows
    BY <1>0 DEF AccountsTypeOK
<1>3. ASSUME NEW u \in Users, BeginLogin(r, u) PROVE TokenInv'
    <2>1. NewSession \in Unopened
        BY <1>3 DEF BeginLogin, NewSession
    <2>2. PICK s \in Sessions : s = NewSession /\ sessions[s] = Unknown /\ \A q \in Servers : ~HandlesSession(q, s)
        BY <2>1 DEF Unopened, HandlesSession, TokenInv, SessionsOwned
    <2>3. TakesSession(r, u, s, NewRow(u), NoToken) /\ NewRow(u).user = u /\ NewRow(u).token \notin issued
        BY <1>1, <1>3, <2>2, SessionTaken DEF BeginLogin, NewRow
    <2> QED BY <2>2, <2>3, BegunSession
<1>4. ASSUME NEW u \in Users, NEW t \in Tokens, BeginConfirmEmail(r, u, t) PROVE TokenInv'
    <2>1. Known(u) /\ users[u].confirmation = t
          /\ BeginSave(r, "confirm", u, u, EmailConfirmed(users[u]), t)
        BY <1>4 DEF BeginConfirmEmail, CanConfirmEmail
    <2>2. Exchanges("confirm", u, EmailConfirmed(users[u]), t)
        BY <1>0, <2>1, CopiedRows DEF Exchanges
    <2> QED BY <1>0, <2>1, <2>2, CopiedRows, BegunSaving
<1>5. ASSUME NEW u \in Users, NEW t \in Tokens, BeginSetPassword(r, u, t) PROVE TokenInv'
    <2>1. Known(u) /\ users[u].setup = t
          /\ BeginSave(r, "password", u, u, PasswordSet(users[u]), t)
        BY <1>5 DEF BeginSetPassword, CanSetPassword
    <2>2. Exchanges("password", u, PasswordSet(users[u]), t)
        BY <1>0, <2>1, CopiedRows DEF Exchanges
    <2> QED BY <1>0, <2>1, <2>2, CopiedRows, BegunSaving
<1>6. ASSUME NEW s \in Sessions, NEW t \in Tokens, BeginRefresh(r, s, t) PROVE TokenInv'
    <2>1. PICK u : u = sessions[s].user
        OBVIOUS
    <2>2. LiveSession(s, u, t) /\ u \in Users
        BY <1>2, <1>6, <2>1 DEF BeginRefresh, Opens, LiveSession, SessionRows
    <2>3. PICK task \in Tasks : Begins(r, task)
        BY <1>6, BeginsSoundly DEF TokenInv, HandlerBegins
    <2>4. task = serving'[r]
        BY <2>3, ServeKeepsOthers DEF Begins, Proceed, TokenInv, StoreInv
    <2>5. task = [stage |-> "refreshing", user |-> u, session |-> s, token |-> t]
        BY <1>6, <2>1, <2>4 DEF BeginRefresh, Serve, TokenInv, StoreInv, AccountsTypeOK
    <2>6. task.stage = "refreshing" /\ task.session = s /\ task.user = u /\ task.token = t
        BY <2>5
    <2>7. HasItsSession(task)
        BY <2>2, <2>6 DEF HasItsSession, LiveSession, TokenInv, SessionsOwned
    <2> QED BY <2>2, <2>3, <2>6, <2>7, RefreshTokens
<1>7. ASSUME NEW s \in Sessions, NEW t \in Tokens, BeginLogout(r, s, t) PROVE TokenInv'
    <2>1. sessions[s] # Unknown /\ sessions[s] \in SessionRows
        BY <1>2, <1>7 DEF BeginLogout, Opens
    <2>2. PICK u \in Users : u = sessions[s].user
        BY <2>1 DEF SessionRows
    <2>3. PICK row : row = [sessions[s] EXCEPT !.revoked = TRUE]
        OBVIOUS
    <2>4. row.user = u /\ row.revoked /\ row.token = sessions[s].token
        BY <2>1, <2>2, <2>3 DEF SessionRows
    <2>5. TakesSession(r, u, s, row, NoToken)
        BY <1>7, <2>2, <2>3, SessionTaken DEF BeginLogout
    <2>6. \A q \in Servers : HandlesSession(q, s) => serving[q].user = u
        BY <2>1, <2>2 DEF TokenInv, SessionsOwned
    <2> QED BY <2>1, <2>2, <2>4, <2>5, <2>6, BegunSession
<1>8. ASSUME NEW a \in Users, NEW u \in Users, BeginBlock(r, a, u) \/ BeginUnblock(r, a, u) PROVE TokenInv'
    <2>1. PICK b \in BOOLEAN, op \in {"block", "unblock"} :
                BeginSave(r, op, a, u, [users[u] EXCEPT !.blocked = b], NoToken)
        BY <1>8 DEF BeginBlock, BeginUnblock
    <2>2. Known(u)
        BY <1>8 DEF BeginBlock, BeginUnblock, MayBlock
    <2>3. Exchanges(op, u, [users[u] EXCEPT !.blocked = b], NoToken)
        BY DEF Exchanges
    <2>4. Copies(u, [users[u] EXCEPT !.blocked = b])
        BY <1>0, <2>2, CopiedRows
    <2> QED BY <2>1, <2>3, <2>4, BegunSaving
<1>9. ASSUME NEW a \in Users, NEW u \in Users, BeginResendSetup(r, a, u) PROVE TokenInv'
    <2>1. Known(u) /\ NewToken \notin issued
          /\ BeginSave(r, "resend", a, u, [users[u] EXCEPT !.setup = NewToken], NoToken)
        BY <1>1, <1>9 DEF BeginResendSetup
    <2>2. Exchanges("resend", u, [users[u] EXCEPT !.setup = NewToken], NoToken)
        BY DEF Exchanges
    <2>3. Copies(u, [users[u] EXCEPT !.setup = NewToken])
        BY <1>0, <2>1, CopiedRows
    <2> QED BY <2>1, <2>2, <2>3, BegunSaving
<1>10. ASSUME NEW a \in Users, NEW u \in Users, NEW name \in Names, NEW role \in Role,
              BeginGovern(r, a, u, name, role)
       PROVE  TokenInv'
    <2>1. PICK task \in Tasks : Begins(r, task)
        BY BeginsSoundly DEF TokenInv
    <2>2. task = serving'[r]
        BY <2>1, ServeKeepsOthers DEF Begins, Proceed, TokenInv, StoreInv
    <2>3. task.stage = "governing"
        BY <1>0, <1>10, <2>2 DEF BeginGovern, Serve, AccountsTypeOK
    <2>4. /\ Shaped(task) /\ HasItsSession(task)
          /\ \A t \in Tokens : /\ \A k \in Kinds, x \in Holders : ~Carries(task, k, x, t)
                               /\ \A v \in Users : ~LiveIn(task, v, t)
        BY <2>3 DEF Shaped, HasItsSession, Carries, LiveIn
    <2>5. TokensCome(task, "setup", u)
        BY <2>4 DEF TokensCome
    <2> QED BY <2>1, <2>4, <2>5, BeginsKeepsTokens
<1>11. ASSUME RefreshFor(r) PROVE TokenInv'
    <2>1. serving[r] \in Tasks /\ serving[r].stage = "refreshing" /\ Issue
        BY <1>0, <1>11, TaskTypes DEF RefreshFor, AccountsTypeOK, Waiting
    <2>2. PICK u \in Users, s \in Sessions, t \in Tokens :
                u = serving[r].user /\ s = serving[r].session /\ t = serving[r].token
        BY <2>1, TaskTypes, Zenon DEF Waiting
    <2>3. HandlesSession(r, s) /\ Refreshes(r, s, u, t)
        BY <2>1, <2>2 DEF HandlesSession, Refreshes
    <2>4. /\ sessions[s] # Unknown => sessions[s].user = u
          /\ \A q \in Servers : HandlesSession(q, s) => serving[q].user = u
        BY <2>2, <2>3 DEF TokenInv, SessionsOwned
    <2>5. TakesSession(r, u, s, NewRow(u), t) /\ NewRow(u).user = u /\ NewRow(u).token \notin issued
        BY <1>1, <1>11, <2>1, <2>2, SessionTaken DEF NewRow
    <2> QED BY <1>11, <2>3, <2>4, <2>5, BegunSession DEF HandlerBegins
<1> QED BY <1>3, <1>4, <1>5, <1>6, <1>7, <1>8, <1>9, <1>10, <1>11 DEF HandlerBegins

-------------------------------------------------------------------------------
\* The handler r has written for u and holds nothing any more; the others are as they were.
Lays(r) ==
    /\ serving'[r].stage \in {"idle", "audit"}
    /\ \A q \in Servers : q # r => serving'[q] = serving[q]

LEMMA LaidDown ==
    ASSUME NEW r \in Servers, Lays(r)
    PROVE  /\ \A k, x, t : ~Carries(serving'[r], k, x, t)
           /\ \A u, t : ~LiveIn(serving'[r], u, t)
           /\ \A q \in Servers : \A s : HandlesSession(q, s)' => q # r /\ HandlesSession(q, s)
           /\ TasksShaped => TasksShaped'
    BY DEF Lays, Carries, LiveIn, HandlesSession, TasksShaped, Shaped

LEMMA NobodyElseServes ==
    ASSUME NEW r \in Servers, NEW u \in Users, StoreInv, Dispute(r, u), u \notin disputed'
    PROVE  \A q \in Servers : q # r => serving[q].stage = "idle" \/ serving[q].user # u
<1>1. \A q \in Servers : q # r => ~Concerns(q, u)
    BY DEF Dispute
<1>2. \A q \in Servers : serving[q].stage = "idle" <=> serving[q] = Waiting
    BY TaskTypes DEF StoreInv, AccountsTypeOK
<1> QED BY <1>1, <1>2 DEF Concerns

\* Spending a token that lives with u only, and not where u could still spend it.
LEMMA SpendingTokens ==
    ASSUME TokenInv, StoreInv', NEW k, NEW x, TokensStay(k, x), SessionsOwned', TasksShaped',
           NEW t \in Tokens \cup {NoToken}, NEW u \in Users, NEW r \in Servers, Spend(t, u), Dispute(r, u),
           t # NoToken => Live(t, u), u \notin disputed' /\ t # NoToken => ~Live(t, u)'
    PROVE  TokenInv'
<1>1. PlacesApart'
    BY StayingKeepsPlaces DEF TokenInv
<1>2. disputed \subseteq disputed'
    BY DEF Dispute
<1>3. TokensAreSpentOnce'
    <2>1. t \in spent => u \in disputed
        BY AccountsAssumption DEF TokenInv, SpentIsDead, StoreInv, AccountsTypeOK
    <2> QED BY <1>2, <2>1 DEF Spend, TokenInv, TokensAreSpentOnce
<1>4. ASSUME NEW v \in Users, v \notin disputed', NEW z \in spent', Live(z, v)' PROVE FALSE
    <2>1. CASE z \in spent
        <3>1. z \in issued /\ z \in Tokens /\ v \notin disputed
            BY <1>2, <1>4, <2>1 DEF TokenInv, StoreInv, AccountsTypeOK
        <3>2. Live(z, v)
            BY <1>4, <3>1 DEF TokensStay
        <3> QED BY <2>1, <3>1, <3>2 DEF TokenInv, SpentIsDead
    <2>2. CASE z \notin spent
        <3>1. z = t /\ t # NoToken /\ t \in Tokens /\ Live(t, u)
            BY <1>4, <2>2 DEF Spend
        <3>2. PICK l \in Kinds, y \in Holders : IsAt(t, l, y) /\ PlaceOf(l, y, u)
            BY <3>1, LiveIsAt DEF TokenInv
        <3>3. t \in issued
            BY <3>1, <3>2, IsAtIssued DEF TokenInv
        <3>4. Live(t, v)
            BY <1>4, <3>1, <3>3 DEF TokensStay
        <3>5. PICK m \in Kinds, w \in Holders : IsAt(t, m, w) /\ PlaceOf(m, w, v)
            BY <3>1, <3>4, LiveIsAt DEF TokenInv
        <3>6. l = m /\ y = w
            BY <3>1, <3>2, <3>5 DEF TokenInv, PlacesApart
        <3>7. u = v
            BY <3>2, <3>5, <3>6, OneOwner DEF TokenInv
        <3> QED BY <1>4, <3>1, <3>7
    <2> QED BY <2>1, <2>2
<1>5. SpentIsDead'
    BY <1>4 DEF SpentIsDead
<1> QED BY <1>1, <1>3, <1>5 DEF TokenInv

LEMMA SaveUserKeepsTokens ==
    ASSUME NEW r \in Servers, TokenInv, StoreInv', SaveUser(r)
    PROVE  TokenInv'
<1>0. PICK w \in Tasks : w = serving[r]
    BY TaskTypes DEF TokenInv, StoreInv, AccountsTypeOK, SaveUser, Waiting
<1>1. PICK u \in Users, row \in UserRows, t \in Tokens \cup {NoToken} :
            u = w.user /\ row = w.row /\ t = w.token
    BY <1>0, TaskTypes DEF SaveUser
<1>2. /\ w.stage = "saving" /\ users' = [users EXCEPT ![u] = row] /\ Spend(t, u) /\ Dispute(r, u)
      /\ sessions' = sessions /\ issued' = issued
    BY <1>0, <1>1 DEF SaveUser
<1>3. Lays(r)
    <2> DEFINE next == IF w.op \in {"block", "unblock"}
                       THEN [stage |-> "audit", op |-> w.op, actor |-> w.actor, user |-> u] ELSE Waiting
    <2>1. serving' = [serving EXCEPT ![r] = next]
        BY <1>0, <1>1 DEF SaveUser, Proceed, Done
    <2>2. next.stage \in {"idle", "audit"}
        BY DEF Waiting
    <2> HIDE DEF next
    <2> QED BY <2>1, <2>2 DEF Lays, TokenInv, StoreInv, AccountsTypeOK
<1>4. users'[u] = row /\ (\A v \in Users : v # u => users'[v] = users[v]) /\ Known(u)'
    BY <1>2, WriteRow DEF TokenInv, StoreInv
<1>5. \A z : z = row.confirmation \/ z = row.setup \/ z = t => LiveIn(w, u, z)
    BY <1>1, <1>2 DEF LiveIn
<1>6. TokensStay("setup", u)
    <2> SUFFICES ASSUME NEW z \in Tokens
                 PROVE  /\ \A l \in Kinds, y \in Holders : IsAt(z, l, y)' => IsAt(z, l, y)
                        /\ \A v \in Users : Live(z, v)' => Live(z, v)
        BY DEF TokensStay
    <2>1. ASSUME NEW l \in Kinds, NEW y \in Holders, IsAt(z, l, y)' PROVE IsAt(z, l, y)
        <3>1. ASSUME Keeps(l, y, z)', ~Keeps(l, y, z) PROVE Carries(w, l, y, z)
            BY <1>1, <1>2, <1>4, <3>1 DEF Keeps, Carries, Known
        <3>2. ASSUME NEW q \in Servers, Carries(serving'[q], l, y, z) PROVE Carries(serving[q], l, y, z)
            BY <1>3, <3>2, LaidDown DEF Lays
        <3> QED BY <1>0, <2>1, <3>1, <3>2 DEF IsAt, Carries
    <2>2. ASSUME NEW v \in Users, Live(z, v)' PROVE Live(z, v)
        <3>1. ASSUME LiveRow(v, z)', ~LiveRow(v, z) PROVE LiveIn(w, v, z)
            BY <1>4, <1>5, <3>1 DEF LiveRow, Known
        <3>2. (\E s \in Sessions : LiveSession(s, v, z)') => Live(z, v)
            BY <1>2 DEF LiveSession, Live
        <3>3. ASSUME NEW q \in Servers, LiveIn(serving'[q], v, z) PROVE LiveIn(serving[q], v, z)
            BY <1>3, <3>3, LaidDown DEF Lays
        <3> QED BY <1>0, <2>2, <3>1, <3>2, <3>3 DEF Live, LiveIn, LiveSession
    <2> QED BY <2>1, <2>2
<1>7. SessionsOwned'
    BY <1>2, <1>3, LaidDown DEF TokenInv, SessionsOwned, Lays
<1>8. t # NoToken => Live(t, u)
    BY <1>0, <1>5 DEF Live
<1>9. ASSUME u \notin disputed', t # NoToken, Live(t, u)' PROVE FALSE
    <2>0. t \in Tokens
        BY <1>9
    <2>1. PICK k \in {"confirmation", "setup"} :
                /\ Carries(w, k, u, t)
                /\ k = "confirmation" => row.confirmation = NoToken
                /\ k = "setup" => row.setup = NoToken
        BY <1>0, <1>1, <1>2, <1>9 DEF TokenInv, TasksShaped, Shaped, Carries
    <2>2. \A l \in Kinds, y \in Holders : IsAt(t, l, y) => l = k /\ y = u
        BY <1>0, <2>0, <2>1 DEF IsAt, TokenInv, PlacesApart, Kinds, Holders
    <2>3. ~LiveRow(u, t)'
        <3>1. ASSUME t = row.confirmation PROVE FALSE
            <4>1. Carries(w, "confirmation", u, t)
                BY <1>1, <1>2, <3>1 DEF Carries
            <4>2. k = "confirmation"
                BY <1>0, <2>2, <4>1 DEF IsAt, Kinds, Holders
            <4> QED BY <1>9, <2>1, <3>1, <4>2
        <3>2. ASSUME t = row.setup PROVE FALSE
            <4>1. Carries(w, "setup", u, t)
                BY <1>1, <1>2, <3>2 DEF Carries
            <4>2. k = "setup"
                BY <1>0, <2>2, <4>1 DEF IsAt, Kinds, Holders
            <4> QED BY <1>9, <2>1, <3>2, <4>2
        <3> QED BY <1>4, <3>1, <3>2 DEF LiveRow
    <2>4. \A s \in Sessions : ~LiveSession(s, u, t)'
        <3> SUFFICES ASSUME NEW s \in Sessions, LiveSession(s, u, t)' PROVE FALSE
            OBVIOUS
        <3>1. Keeps("session", s, t)
            BY <1>2 DEF LiveSession, Keeps
        <3> QED BY <2>2, <3>1 DEF IsAt, Kinds, Holders
    <2>5. \A q \in Servers : ~LiveIn(serving'[q], u, t)
        <3>1. \A q \in Servers : q # r => ~LiveIn(serving[q], u, t)
            BY <1>2, <1>9, NobodyElseServes DEF LiveIn, TokenInv
        <3> QED BY <1>3, <3>1, LaidDown DEF Lays
    <2> QED BY <1>9, <2>3, <2>4, <2>5 DEF Live, LiveIn
<1>10. TasksShaped'
    BY <1>3, LaidDown DEF TokenInv
<1> QED BY <1>2, <1>6, <1>7, <1>8, <1>9, <1>10, SpendingTokens

LEMMA SaveSessionKeepsTokens ==
    ASSUME NEW r \in Servers, TokenInv, StoreInv', SaveSession(r)
    PROVE  TokenInv'
<1>0. PICK w \in Tasks : w = serving[r]
    BY TaskTypes DEF TokenInv, StoreInv, AccountsTypeOK, SaveSession, Waiting
<1>1. PICK u \in Users, s \in Sessions, row \in SessionRows, t \in Tokens \cup {NoToken} :
            u = w.user /\ s = w.session /\ row = w.row /\ t = w.token
    BY <1>0, TaskTypes DEF SaveSession
<1>2. /\ w.stage = "session" /\ sessions' = [sessions EXCEPT ![s] = row] /\ Spend(t, u) /\ Dispute(r, u)
      /\ users' = users /\ issued' = issued /\ serving' = [serving EXCEPT ![r] = Waiting]
    BY <1>0, <1>1 DEF SaveSession, Proceed, Done
<1>3. Lays(r)
    BY <1>2, ServeKeepsOthers DEF Lays, TokenInv, StoreInv, Waiting
<1>4. sessions'[s] = row /\ (\A y \in Sessions : y # s => sessions'[y] = sessions[y])
    BY <1>2 DEF TokenInv, StoreInv, AccountsTypeOK
<1>5. row.user = u /\ (row.revoked \/ row.token # t)
    BY <1>0, <1>1, <1>2 DEF TokenInv, TasksShaped, Shaped
<1>6. TokensStay("session", s)
    <2> SUFFICES ASSUME NEW z \in Tokens
                 PROVE  /\ \A l \in Kinds, y \in Holders : IsAt(z, l, y)' => IsAt(z, l, y)
                        /\ \A v \in Users : Live(z, v)' => Live(z, v)
        BY DEF TokensStay
    <2>1. ASSUME NEW l \in Kinds, NEW y \in Holders, IsAt(z, l, y)' PROVE IsAt(z, l, y)
        <3>1. ASSUME Keeps(l, y, z)', ~Keeps(l, y, z) PROVE Carries(w, l, y, z)
            BY <1>1, <1>2, <1>4, <3>1 DEF Keeps, Carries, Known
        <3>2. ASSUME NEW q \in Servers, Carries(serving'[q], l, y, z) PROVE Carries(serving[q], l, y, z)
            BY <1>3, <3>2, LaidDown DEF Lays
        <3> QED BY <1>0, <2>1, <3>1, <3>2 DEF IsAt, Carries
    <2>2. ASSUME NEW v \in Users, Live(z, v)' PROVE Live(z, v)
        <3>1. LiveRow(v, z)' => Live(z, v)
            BY <1>2 DEF LiveRow, Live, Known
        <3>2. ASSUME NEW y \in Sessions, LiveSession(y, v, z)' PROVE LiveSession(y, v, z) \/ LiveIn(w, v, z)
            BY <1>1, <1>2, <1>4, <1>5, <3>2 DEF LiveSession, LiveIn
        <3>3. ASSUME NEW q \in Servers, LiveIn(serving'[q], v, z) PROVE LiveIn(serving[q], v, z)
            BY <1>3, <3>3, LaidDown DEF Lays
        <3> QED BY <1>0, <2>2, <3>1, <3>2, <3>3 DEF Live, LiveIn, LiveSession
    <2> QED BY <2>1, <2>2
<1>7. SessionsOwned'
    <2> SUFFICES ASSUME NEW q \in Servers, NEW y \in Sessions, HandlesSession(q, y)'
                 PROVE  /\ serving'[q].stage = "refreshing" => sessions'[y] # Unknown
                        /\ sessions'[y] # Unknown => sessions'[y].user = serving'[q].user
                        /\ \A p \in Servers : HandlesSession(p, y)' => serving'[p].user = serving'[q].user
        BY DEF SessionsOwned
    <2>1. \A p \in Servers : HandlesSession(p, y)' => HandlesSession(p, y) /\ serving'[p] = serving[p]
        BY <1>3, LaidDown DEF Lays
    <2>2. HandlesSession(r, s) /\ serving[r].user = u
        BY <1>0, <1>1, <1>2 DEF HandlesSession
    <2>3. y = s => serving[q].user = u
        BY <2>1, <2>2 DEF TokenInv, SessionsOwned
    <2> QED BY <1>4, <1>5, <2>1, <2>3, SessionRowsKnown DEF TokenInv, SessionsOwned
<1>8. t # NoToken => Live(t, u)
    BY <1>0, <1>1, <1>2 DEF Live, LiveIn
<1>9. ASSUME u \notin disputed', t # NoToken, Live(t, u)' PROVE FALSE
    <2>1. t \in Tokens /\ Carries(w, "session", s, t)
        BY <1>1, <1>2, <1>9 DEF Carries
    <2>2. \A l \in Kinds, y \in Holders : IsAt(t, l, y) => l = "session" /\ y = s
        BY <1>0, <2>1 DEF IsAt, TokenInv, PlacesApart, Kinds, Holders
    <2>3. ~LiveRow(u, t)'
        <3> SUFFICES ASSUME LiveRow(u, t)' PROVE FALSE
            OBVIOUS
        <3>1. Keeps("confirmation", u, t) \/ Keeps("setup", u, t)
            BY <1>2 DEF LiveRow, Keeps, Known
        <3> QED BY <2>2, <3>1 DEF IsAt, Kinds, Holders
    <2>4. \A y \in Sessions : ~LiveSession(y, u, t)'
        <3> SUFFICES ASSUME NEW y \in Sessions, LiveSession(y, u, t)' PROVE FALSE
            OBVIOUS
        <3>1. CASE y = s
            BY <1>4, <1>5, <3>1 DEF LiveSession
        <3>2. CASE y # s
            <4>1. Keeps("session", y, t)
                BY <1>4, <3>2 DEF LiveSession, Keeps
            <4> QED BY <2>2, <3>2, <4>1 DEF IsAt, Kinds, Holders
        <3> QED BY <3>1, <3>2
    <2>5. \A q \in Servers : ~LiveIn(serving'[q], u, t)
        <3>1. \A q \in Servers : q # r => ~LiveIn(serving[q], u, t)
            BY <1>2, <1>9, NobodyElseServes DEF LiveIn, TokenInv
        <3> QED BY <1>3, <3>1, LaidDown DEF Lays
    <2> QED BY <1>9, <2>3, <2>4, <2>5 DEF Live, LiveIn
<1>10. TasksShaped'
    BY <1>3, LaidDown DEF TokenInv
<1> QED BY <1>2, <1>6, <1>7, <1>8, <1>9, <1>10, SpendingTokens

LEMMA CommitGovernKeepsTokens ==
    ASSUME NEW r \in Servers, TokenInv, StoreInv', CommitGovern(r)
    PROVE  TokenInv'
<1>0. PICK w \in Tasks : w = serving[r]
    BY TaskTypes DEF TokenInv, StoreInv, AccountsTypeOK, CommitGovern, Waiting
<1>1. PICK u \in Users : u = w.user
    BY <1>0, TaskTypes DEF CommitGovern
<1>2. /\ users' = [users EXCEPT ![u].name = w.name, ![u].role = w.role]
      /\ sessions' = SessionsOfGoverned(u) /\ serving' = [serving EXCEPT ![r] = Waiting]
      /\ disputed \subseteq disputed'
      /\ UNCHANGED <<issued, spent, doubleSpent>>
    BY <1>0, <1>1 DEF CommitGovern, Proceed, Done, Dispute
<1>3. Lays(r)
    BY <1>2, ServeKeepsOthers DEF Lays, TokenInv, StoreInv, Waiting
<1>4. Known(u)
    BY <1>0, <1>1 DEF TokenInv, StoreInv, HandledKnown, CommitGovern
<1>5. /\ users'[u].confirmation = users[u].confirmation /\ users'[u].setup = users[u].setup
      /\ \A v \in Users : v # u => users'[v] = users[v]
    <2>1. users[u] \in UserRows
        BY <1>4, ReadRowTypes DEF TokenInv, StoreInv
    <2> QED BY <1>2, <2>1 DEF TokenInv, StoreInv, AccountsTypeOK, UserRows
<1>6. \A s \in Sessions : sessions'[s] # Unknown =>
            /\ sessions[s] # Unknown
            /\ sessions'[s].user = sessions[s].user
            /\ sessions'[s].token = sessions[s].token
    BY <1>2, GovernedSessions DEF TokenInv, StoreInv
<1>7. \A s \in Sessions : sessions[s] # Unknown /\ sessions[s].revoked => sessions'[s].revoked
    <2> SUFFICES ASSUME NEW s \in Sessions, sessions[s] # Unknown, sessions[s].revoked PROVE sessions'[s].revoked
        OBVIOUS
    <2>1. sessions[s] \in SessionRows
        BY DEF TokenInv, StoreInv, AccountsTypeOK
    <2> QED BY <1>2, <2>1 DEF SessionsOfGoverned, SessionRows
<1>8. TokensStay("setup", u)
    <2> SUFFICES ASSUME NEW z \in Tokens
                 PROVE  /\ \A l \in Kinds, y \in Holders : IsAt(z, l, y)' => IsAt(z, l, y)
                        /\ \A v \in Users : Live(z, v)' => Live(z, v)
        BY DEF TokensStay
    <2>1. ASSUME NEW l \in Kinds, NEW y \in Holders, IsAt(z, l, y)' PROVE IsAt(z, l, y)
        <3>1. Keeps(l, y, z)' => Keeps(l, y, z)
            BY <1>4, <1>5, <1>6 DEF Keeps, Known
        <3>2. ASSUME NEW q \in Servers, Carries(serving'[q], l, y, z) PROVE Carries(serving[q], l, y, z)
            BY <1>3, <3>2, LaidDown DEF Lays
        <3> QED BY <2>1, <3>1, <3>2 DEF IsAt, Carries
    <2>2. ASSUME NEW v \in Users, Live(z, v)' PROVE Live(z, v)
        <3>1. LiveRow(v, z)' => LiveRow(v, z)
            BY <1>4, <1>5 DEF LiveRow, Known
        <3>2. ASSUME NEW y \in Sessions, LiveSession(y, v, z)' PROVE LiveSession(y, v, z)
            BY <1>6, <1>7, <3>2 DEF LiveSession
        <3>3. ASSUME NEW q \in Servers, LiveIn(serving'[q], v, z) PROVE LiveIn(serving[q], v, z)
            BY <1>3, <3>3, LaidDown DEF Lays
        <3> QED BY <2>2, <3>1, <3>2, <3>3 DEF Live, LiveIn, LiveSession
    <2> QED BY <2>1, <2>2
<1>9. SessionsOwned'
    <2>1. \A p \in Servers, y \in Sessions : HandlesSession(p, y)' =>
                HandlesSession(p, y) /\ serving'[p] = serving[p]
        BY <1>3, LaidDown DEF Lays
    <2>2. \A y \in Sessions : sessions[y] # Unknown => sessions'[y] # Unknown
        <3> SUFFICES ASSUME NEW y \in Sessions, sessions[y] # Unknown PROVE sessions'[y] # Unknown
            OBVIOUS
        <3>1. sessions[y] \in SessionRows
            BY DEF TokenInv, StoreInv, AccountsTypeOK
        <3>2. sessions'[y] \in SessionRows
            BY <1>2, <3>1 DEF SessionsOfGoverned, SessionRows
        <3> QED BY <3>2, SessionRowsKnown
    <2> QED BY <1>6, <2>1, <2>2 DEF TokenInv, SessionsOwned
<1>10. TasksShaped'
    BY <1>3, LaidDown DEF TokenInv
<1> QED BY <1>2, <1>8, <1>9, <1>10, QuietTokens

\* An audit entry is written or lost.
LEMMA EndsKeepTokens ==
    ASSUME NEW r \in Servers, TokenInv, StoreInv', RecordGovernance(r) \/ Drop(r)
    PROVE  TokenInv'
<1>1. /\ serving' = [serving EXCEPT ![r] = Waiting]
      /\ UNCHANGED <<users, sessions, issued, spent, disputed, doubleSpent>>
    BY DEF RecordGovernance, Drop, Proceed, Done
<1>2. Lays(r)
    BY <1>1, ServeKeepsOthers DEF Lays, TokenInv, StoreInv, Waiting
<1>3. TokensStay("setup", r)
    <2> SUFFICES ASSUME NEW z \in Tokens
                 PROVE  /\ \A l \in Kinds, y \in Holders : IsAt(z, l, y)' => IsAt(z, l, y)
                        /\ \A v \in Users : Live(z, v)' => Live(z, v)
        BY DEF TokensStay
    <2>1. \A q \in Servers :
            /\ \A l \in Kinds, y \in Holders : Carries(serving'[q], l, y, z) => Carries(serving[q], l, y, z)
            /\ \A v \in Users : LiveIn(serving'[q], v, z) => LiveIn(serving[q], v, z)
        BY <1>2, LaidDown DEF Lays
    <2>2. \A l \in Kinds, y \in Holders : Keeps(l, y, z)' => Keeps(l, y, z)
        BY <1>1 DEF Keeps, Known
    <2>3. \A v \in Users : /\ LiveRow(v, z)' => LiveRow(v, z)
                           /\ \A s \in Sessions : LiveSession(s, v, z)' => LiveSession(s, v, z)
        BY <1>1 DEF LiveRow, LiveSession, Known
    <2>4. \A l \in Kinds, y \in Holders : IsAt(z, l, y)' => IsAt(z, l, y)
        BY <2>1, <2>2 DEF IsAt, Carries
    <2>5. \A v \in Users : Live(z, v)' => Live(z, v)
        BY <2>1, <2>3 DEF Live, LiveIn, LiveSession
    <2> QED BY <2>4, <2>5
<1>4. SessionsOwned'
    <2>1. \A p \in Servers, y \in Sessions : HandlesSession(p, y)' =>
                HandlesSession(p, y) /\ serving'[p] = serving[p]
        BY <1>2, LaidDown DEF Lays
    <2> QED BY <1>1, <2>1 DEF TokenInv, SessionsOwned
<1>5. TasksShaped'
    BY <1>2, LaidDown DEF TokenInv
<1> QED BY <1>1, <1>3, <1>4, <1>5, QuietTokens

\* A new user holds a new token, and nobody served him before.
LEMMA NewUserKeepsTokens ==
    ASSUME NEW u \in Users, NEW row \in UserRows, NEW k \in {"confirmation", "setup"}, TokenInv, StoreInv',
           users' = [users EXCEPT ![u] = row],
           \/ k = "confirmation" /\ row.confirmation \notin issued /\ row.setup = NoToken
           \/ k = "setup" /\ row.setup \notin issued /\ row.confirmation = NoToken,
           UNCHANGED <<sessions, spent, disputed, doubleSpent>>,
           \A q \in Servers : serving'[q] = serving[q] \/ serving'[q].stage = "audit"
    PROVE  TokenInv'
<1>1. users'[u] = row /\ (\A v \in Users : v # u => users'[v] = users[v])
    BY WriteRow DEF TokenInv, StoreInv
<1>2. \A t \in Tokens : t # NoToken
    BY AccountsAssumption
<1>3. \A q \in Servers :
        /\ \A l, y, z : Carries(serving'[q], l, y, z) => Carries(serving[q], l, y, z)
        /\ \A v, z : LiveIn(serving'[q], v, z) => LiveIn(serving[q], v, z)
        /\ \A y : HandlesSession(q, y)' => HandlesSession(q, y) /\ serving'[q] = serving[q]
        /\ Shaped(serving[q]) => Shaped(serving'[q])
    <2> TAKE q \in Servers
    <2>1. CASE serving'[q] = serving[q]
        BY <2>1 DEF HandlesSession
    <2>2. CASE serving'[q].stage = "audit"
        BY <2>2 DEF Carries, LiveIn, HandlesSession, Shaped
    <2> QED BY <2>1, <2>2
<1>4. TokensStay(k, u)
    <2> SUFFICES ASSUME NEW z \in Tokens
                 PROVE  /\ \A l \in Kinds, y \in Holders :
                            IsAt(z, l, y)' => IsAt(z, l, y) \/ (z \notin issued /\ l = k /\ y = u)
                        /\ \A v \in Users : Live(z, v)' => Live(z, v) \/ z \notin issued
        BY DEF TokensStay
    <2>1. ASSUME NEW l \in Kinds, NEW y \in Holders, Keeps(l, y, z)'
          PROVE  Keeps(l, y, z) \/ (z \notin issued /\ l = k /\ y = u)
        BY <1>1, <1>2, <2>1 DEF Keeps, Known
    <2>2. ASSUME NEW v \in Users, LiveRow(v, z)' PROVE LiveRow(v, z) \/ z \notin issued
        BY <1>1, <1>2, <2>2 DEF LiveRow, Known
    <2>3. \A v \in Users, s \in Sessions : LiveSession(s, v, z)' => LiveSession(s, v, z)
        BY DEF LiveSession
    <2>4. \A l \in Kinds, y \in Holders :
            IsAt(z, l, y)' => IsAt(z, l, y) \/ (z \notin issued /\ l = k /\ y = u)
        BY <1>3, <2>1 DEF IsAt, Carries
    <2>5. \A v \in Users : Live(z, v)' => Live(z, v) \/ z \notin issued
        BY <1>3, <2>2, <2>3 DEF Live, LiveIn, LiveSession
    <2> QED BY <2>4, <2>5
<1>5. SessionsOwned'
    BY <1>3 DEF TokenInv, SessionsOwned
<1>6. TasksShaped'
    BY <1>3 DEF TokenInv, TasksShaped, Shaped
<1> QED BY <1>4, <1>5, <1>6, QuietTokens

LEMMA NewUsersKeepTokens ==
    ASSUME TokenInv, StoreInv',
           \/ \E u \in Users, name \in Names : SignUp(u, name)
           \/ \E r \in Servers, a, u \in Users, name \in Names, role \in Role :
                CreateAdminUser(r, a, u, name, role)
    PROVE  TokenInv'
<1>1. ASSUME NEW u \in Users, NEW name \in Names, SignUp(u, name) PROVE TokenInv'
    <2>1. PICK t \in Tokens : t = NewToken /\ t \notin issued
        BY <1>1, FreshToken DEF SignUp, Issue, TokenInv, StoreInv, AccountsTypeOK
    <2>2. PICK row \in UserRows : row = SelfRow(name, t)
        BY <2>1, AccountsAssumption DEF SelfRow, UserRows
    <2>3. row.confirmation = t /\ row.setup = NoToken
        BY <2>2 DEF SelfRow
    <2>4. /\ users' = [users EXCEPT ![u] = row] /\ serving' = serving
          /\ UNCHANGED <<sessions, spent, disputed, doubleSpent>>
        BY <1>1, <2>1, <2>2 DEF SignUp
    <2> QED BY <2>1, <2>3, <2>4, NewUserKeepsTokens
<1>2. ASSUME NEW r \in Servers, NEW a \in Users, NEW u \in Users, NEW name \in Names, NEW role \in Role,
             CreateAdminUser(r, a, u, name, role)
      PROVE  TokenInv'
    <2>1. PICK t \in Tokens : t = NewToken /\ t \notin issued
        BY <1>2, FreshToken DEF CreateAdminUser, Issue, TokenInv, StoreInv, AccountsTypeOK
    <2>2. PICK row \in UserRows : row = AdminMadeRow(name, role, t)
        BY <2>1 DEF AdminMadeRow, UserRows
    <2>3. row.setup = t /\ row.confirmation = NoToken
        BY <2>2 DEF AdminMadeRow
    <2>4. /\ users' = [users EXCEPT ![u] = row]
          /\ UNCHANGED <<sessions, spent, disputed, doubleSpent>>
        BY <1>2, <2>1, <2>2 DEF CreateAdminUser
    <2>5. \A q \in Servers : serving'[q] = serving[q] \/ serving'[q].stage = "audit"
        BY <1>2 DEF CreateAdminUser, Serve, TokenInv, StoreInv, AccountsTypeOK
    <2> QED BY <2>1, <2>3, <2>4, <2>5, NewUserKeepsTokens
<1> QED BY <1>1, <1>2

LEMMA TokenStep ==
    ASSUME TokenInv, [AccountsNext]_accountVars
    PROVE  TokenInv'
<1>0. StoreInv'
    BY AccountsStep DEF TokenInv
<1>1. CASE UNCHANGED accountVars
    <2>1. UNCHANGED <<users, sessions, serving, spent, disputed, doubleSpent>>
        BY <1>1 DEF accountVars
    <2>2. /\ \A t, k, x : IsAt(t, k, x)' <=> IsAt(t, k, x)
          /\ \A t, u : Live(t, u)' <=> Live(t, u)
        BY <2>1 DEF IsAt, Keeps, Carries, Live, LiveRow, LiveSession, LiveIn, Known
    <2>3. SessionsOwned' /\ TasksShaped'
        BY <2>1 DEF TokenInv, SessionsOwned, HandlesSession, TasksShaped, Shaped
    <2>4. TokensStay("setup", NoToken)
        BY <2>2 DEF TokensStay
    <2> QED BY <1>0, <2>1, <2>3, <2>4, QuietTokens
<1>2. ASSUME NEW r \in Servers,
             SaveUser(r) \/ RecordGovernance(r) \/ CommitGovern(r) \/ SaveSession(r) \/ Drop(r)
      PROVE  TokenInv'
    BY <1>0, <1>2, SaveUserKeepsTokens, CommitGovernKeepsTokens, SaveSessionKeepsTokens, EndsKeepTokens
<1>3. CASE AccountsNext
    BY <1>0, <1>2, <1>3, HandlerBeginsKeepsTokens, NewUsersKeepTokens DEF AccountsNext, HandlerBegins
<1> QED BY <1>1, <1>3

-------------------------------------------------------------------------------
(* The rows of users, sessions, audit entries and running handlers keep    *)
(* their types: a handler never writes for a user that is not there, and   *)
(* no token is exchanged that was not issued.                              *)
THEOREM AccountsTypeCorrect == AccountsSpec => []AccountsTypeOK
<1>1. AccountsInit => StoreInv
    BY AccountsInitInv DEF ProvenInv
<1>2. StoreInv /\ [AccountsNext]_accountVars => StoreInv'
    BY AccountsStep
<1>3. StoreInv => AccountsTypeOK
    BY DEF StoreInv
<1> QED BY <1>1, <1>2, <1>3, PTL DEF AccountsSpec

(* Whoever can log in has proven an address and has a password, however    *)
(* the handlers of confirm-email, set-password, block and govern overlap   *)
(* and write back the rows they read before.                               *)
THEOREM AccountsAreProven == AccountsSpec => []ActiveAccountsAreProven
<1>1. AccountsInit => ProvenInv
    BY AccountsInitInv
<1>2. ProvenInv /\ [AccountsNext]_accountVars => ProvenInv'
    BY AccountsStep DEF ProvenInv
<1>3. ProvenInv => ActiveAccountsAreProven
    BY DEF ProvenInv, RowsProven, Proven, ActiveAccountsAreProven
<1> QED BY <1>1, <1>2, <1>3, PTL DEF AccountsSpec

(* While no handlers overlapped on a user, somebody can administer the     *)
(* platform: the refusal to block oneself and to change one's own role     *)
(* suffices, for any number of administrators.                             *)
THEOREM AdminRemains == AccountsSpec => []AnAdminRemains
<1>1. AccountsInit => AdminInv
    BY AccountsInitInv
<1>2. AdminInv /\ [AccountsNext]_accountVars => AdminInv'
    BY AccountsStep DEF AdminInv
<1>3. AdminInv => AnAdminRemains
    BY DEF AdminInv
<1> QED BY <1>1, <1>2, <1>3, PTL DEF AccountsSpec

(* A session that is not revoked names the role its user has, unless       *)
(* handlers overlapped on that user: a refresh or a login that read him    *)
(* before he was governed is the only way to keep a former role.           *)
THEOREM RolesOfSessions == AccountsSpec => []LiveSessionsKnowTheRole
<1>1. AccountsInit => RoleInv
    <2> SUFFICES ASSUME AccountsInit PROVE RoleInv
        OBVIOUS
    <2>1. StoreInv
        BY AccountsInitInv DEF ProvenInv
    <2>2. LiveSessionsKnowTheRole
        BY DEF AccountsInit, LiveSessionsKnowTheRole
    <2>3. \A r \in Servers : HoldsRole(serving[r])
        BY DEF AccountsInit, HoldsRole, Waiting
    <2> QED BY <2>1, <2>2, <2>3 DEF RoleInv
<1>2. RoleInv /\ [AccountsNext]_accountVars => RoleInv'
    BY RoleStep
<1>3. RoleInv => LiveSessionsKnowTheRole
    BY DEF RoleInv
<1> QED BY <1>1, <1>2, <1>3, PTL DEF AccountsSpec

(* What the admin audit says of a user is what his row says once nobody is *)
(* about to record it, unless handlers overlapped on him or an audit entry *)
(* was lost with its handler: blocking records after it saves, governance  *)
(* in the transaction that writes.                                         *)
THEOREM AuditIsTrue == AccountsSpec => []AuditExplainsUsers
<1>1. AccountsInit => AuditInv
    <2> SUFFICES ASSUME AccountsInit PROVE AuditInv
        OBVIOUS
    <2>1. StoreInv
        BY AccountsInitInv DEF ProvenInv
    <2>2. \A r \in Servers : serving[r].stage = "idle"
        BY DEF AccountsInit, Waiting
    <2>3. \A u \in Users : Known(u) => record[u] = RecordOf(users[u])
        BY DEF AccountsInit
    <2> QED BY <2>1, <2>2, <2>3 DEF AuditInv, Accounted, Auditing
<1>2. AuditInv /\ [AccountsNext]_accountVars => AuditInv'
    BY AuditStep
<1>3. AuditInv => AuditExplainsUsers
    BY DEF AuditInv, Accounted, Auditing, AuditExplainsUsers
<1> QED BY <1>1, <1>2, <1>3, PTL DEF AccountsSpec

(* A link or a refresh token is exchanged once, unless handlers overlapped *)
(* on its user: a token is never at two places, what a handler exchanges   *)
(* is gone from the row it writes, and only a copy read before the write   *)
(* can still hold it.                                                      *)
THEOREM TokensSpentOnce == AccountsSpec => []TokensAreSpentOnce
<1>1. AccountsInit => TokenInv
    <2> SUFFICES ASSUME AccountsInit PROVE TokenInv
        OBVIOUS
    <2>1. StoreInv
        BY AccountsInitInv DEF ProvenInv
    <2>2. \A r \in Servers : serving[r].stage = "idle"
        BY DEF AccountsInit, Waiting
    <2>3. PICK name \in Names : \A u \in Users : Known(u) =>
                users[u].confirmation = NoToken /\ users[u].setup = NoToken
        BY DEF AccountsInit, Known, AdminMadeRow
    <2>4. \A t \in Tokens, k \in Kinds, x \in Holders : ~IsAt(t, k, x)
        BY <2>2, <2>3, AccountsAssumption DEF IsAt, Keeps, Carries, AccountsInit
    <2>5. PlacesApart
        BY <2>4 DEF PlacesApart
    <2>6. SessionsOwned /\ TasksShaped
        BY <2>2 DEF SessionsOwned, HandlesSession, TasksShaped, Shaped
    <2>7. SpentIsDead /\ TokensAreSpentOnce
        BY DEF SpentIsDead, TokensAreSpentOnce, AccountsInit
    <2> QED BY <2>1, <2>5, <2>6, <2>7 DEF TokenInv
<1>2. TokenInv /\ [AccountsNext]_accountVars => TokenInv'
    BY TokenStep
<1>3. TokenInv => TokensAreSpentOnce
    BY DEF TokenInv
<1> QED BY <1>1, <1>2, <1>3, PTL DEF AccountsSpec

(* The three together: what a user may do is what was decided and          *)
(* recorded, for any number of users, sessions and handlers.               *)
THEOREM AuthorityRecorded == AccountsSpec => []AuthorityIsOnRecord
<1>1. LiveSessionsKnowTheRole /\ AuditExplainsUsers /\ AnAdminRemains => AuthorityIsOnRecord
    BY DEF AuthorityIsOnRecord
<1> QED BY <1>1, RolesOfSessions, AuditIsTrue, AdminRemains, PTL

-------------------------------------------------------------------------------
(***************************************************************************)
(* PricingVersions, for any versions, lists and handlers.  The versions an *)
(* open transaction has archived are active until it commits and nobody    *)
(* else has archived them, so the index lets it commit only when it has    *)
(* archived all that is active.  A version that a handler is at work on is *)
(* still as that handler found it, unless it was contested.                *)
(***************************************************************************)
InForceOnce(v) == versions[v].status \in {"active", "archived"}

AtMostOneActive == \A v, w \in Active : v = w
SomeActive == Active # {}

EditedExist == \A r \in Admins : edits[r] # Resting => versions[edits[r].version] # NotCreated

ClearedAreActive == \A r \in Admins : edits[r].stage = "archiving" => edits[r].cleared \subseteq Active
ClearedApart ==
    \A r, s \in Admins : r # s /\ edits[r].stage = "archiving" /\ edits[s].stage = "archiving"
        => edits[r].cleared \cap edits[s].cleared = {}

\* What a handler checked of its version, as long as nobody interfered.
StillAsChecked(e) ==
    e.version \in contested \/
        /\ e.stage \in {"replacing", "target", "archiving"} => versions[e.version].status = "draft"
        /\ e.stage \in {"checked", "target", "archiving"} => ListOf(e.version) \in CompleteLists
ChecksHold == \A r \in Admins : edits[r] # Resting => StillAsChecked(edits[r])

Inv == /\ PricingTypeOK /\ AtMostOneActive /\ SomeActive
       /\ EditedExist /\ ClearedAreActive /\ ClearedApart /\ ChecksHold

-------------------------------------------------------------------------------
LEMMA RestingIsNoStage ==
    ASSUME NEW r \in Admins, PricingTypeOK
    PROVE  /\ edits[r].stage \in {"idle", "replacing", "checked", "target", "archiving"}
           /\ edits[r] = Resting <=> edits[r].stage = "idle"
           /\ edits[r] # Resting => edits[r].version \in Versions
           /\ edits[r].stage = "replacing" => edits[r].list \in Lists
           /\ edits[r].stage = "archiving" => edits[r].cleared \subseteq Versions
    BY DEF PricingTypeOK, Editing, Resting

LEMMA RowTypes ==
    ASSUME NEW v \in Versions, PricingTypeOK
    PROVE  /\ versions[v].status \in {"none", "draft", "active", "archived"}
           /\ versions[v] = NotCreated <=> versions[v].status = "none"
           /\ versions[v] # NotCreated => /\ ListOf(v) \in Lists
                                          /\ versions[v] \in VersionRows
    BY DEF PricingTypeOK, NotCreated, VersionRows, ListOf

LEMMA PricingInitInv == PricingInit => Inv
<1> SUFFICES ASSUME PricingInit PROVE Inv
    OBVIOUS
<1>1. /\ versions = [v \in Versions |-> IF v = FirstVersion THEN [status |-> "active", list |-> FirstList]
                                      ELSE NotCreated]
      /\ FirstVersion \in Versions /\ FirstList \in Lists
    BY PricingAssumption DEF PricingInit
<1>2. Active = {FirstVersion}
    BY <1>1 DEF Active, NotCreated
<1>3. PricingTypeOK
    BY <1>1 DEF PricingInit, PricingTypeOK, VersionRows
<1>4. \A r \in Admins : edits[r] = Resting
    BY DEF PricingInit
<1> QED BY <1>2, <1>3, <1>4 DEF Inv, AtMostOneActive, SomeActive, EditedExist, ClearedAreActive,
           ClearedApart, ChecksHold, Resting

LEMMA PricingTypePreserved == Inv /\ [PricingNext]_pricingVars => PricingTypeOK'
<1> SUFFICES ASSUME PricingTypeOK, EditedExist, ClearedAreActive, [PricingNext]_pricingVars
             PROVE  PricingTypeOK'
    BY DEF Inv
<1>1. CASE UNCHANGED pricingVars
    BY <1>1 DEF PricingTypeOK, pricingVars
<1>2. ASSUME NEW v \in Versions, NEW list \in Lists, CreateDraft(v, list) PROVE PricingTypeOK'
    BY <1>2 DEF CreateDraft, PricingTypeOK, VersionRows
<1>3. ASSUME NEW r \in Admins, NEW v \in Versions, NEW list \in Lists, BeginReplace(r, v, list)
      PROVE  PricingTypeOK'
    BY <1>3 DEF BeginReplace, StartEdit, PricingTypeOK, Editing
<1>4. ASSUME NEW r \in Admins, NEW v \in Versions, BeginActivate(r, v) PROVE PricingTypeOK'
    BY <1>4 DEF BeginActivate, StartEdit, PricingTypeOK, Editing
<1>5. ASSUME NEW r \in Admins, CommitReplace(r) PROVE PricingTypeOK'
    <2>1. /\ edits[r].version \in Versions /\ edits[r].list \in Lists
          /\ versions[edits[r].version] \in VersionRows
        BY <1>5, RestingIsNoStage, RowTypes DEF CommitReplace, EditedExist
    <2>2. versions' \in [Versions -> VersionRows \cup {NotCreated}]
        BY <1>5, <2>1 DEF CommitReplace, PricingTypeOK, VersionRows
    <2> QED BY <1>5, <2>1, <2>2 DEF CommitReplace, PricingTypeOK, Contested, EndEdit, Editing
<1>6. ASSUME NEW r \in Admins, ReadTarget(r) PROVE PricingTypeOK'
    BY <1>6, RestingIsNoStage DEF ReadTarget, GoOn, PricingTypeOK, Editing
<1>7. ASSUME NEW r \in Admins, ArchiveActive(r) PROVE PricingTypeOK'
    <2>1. edits[r].version \in Versions /\ {v \in Active : ~Archiving(v)} \in SUBSET Versions
        BY <1>7, RestingIsNoStage DEF ArchiveActive, Active
    <2> QED BY <1>7, <2>1 DEF ArchiveActive, GoOn, PricingTypeOK, Editing
<1>8. ASSUME NEW r \in Admins, CommitActivate(r) PROVE PricingTypeOK'
    <2>1. /\ edits[r].version \in Versions /\ edits[r].cleared \subseteq Versions
          /\ versions[edits[r].version] \in VersionRows
        BY <1>8, RestingIsNoStage, RowTypes DEF CommitActivate, EditedExist
    <2>2. [versions[edits[r].version] EXCEPT !.status = "active"] \in VersionRows
        BY <2>1 DEF VersionRows
    <2>3. ASSUME NEW w \in Versions, versions[w] # NotCreated
          PROVE  [versions[w] EXCEPT !.status = "archived"] \in VersionRows
        BY <2>3, RowTypes DEF VersionRows
    <2>4. \A w \in edits[r].cleared : versions[w] # NotCreated
        BY <1>8, <2>1 DEF CommitActivate, ClearedAreActive, Active, NotCreated
    <2>5. \A w \in Versions : versions'[w] \in VersionRows \cup {NotCreated}
        <3> TAKE w \in Versions
        <3>1. CASE w = edits[r].version
            BY <1>8, <2>2, <3>1 DEF CommitActivate
        <3>2. CASE w # edits[r].version /\ w \in edits[r].cleared
            BY <1>8, <2>3, <2>4, <3>2 DEF CommitActivate
        <3>3. CASE w # edits[r].version /\ w \notin edits[r].cleared
            BY <1>8, <3>3 DEF CommitActivate, PricingTypeOK
        <3> QED BY <3>1, <3>2, <3>3
    <2>6. versions' = [w \in Versions |-> versions'[w]]
        BY <1>8 DEF CommitActivate
    <2>7. versions' \in [Versions -> VersionRows \cup {NotCreated}]
        BY <2>5, <2>6
    <2>8. edits' \in [Admins -> Editing \cup {Resting}] /\ contested' \subseteq Versions
        BY <1>8, <2>1 DEF CommitActivate, PricingTypeOK, Contested, EndEdit
    <2> QED BY <2>7, <2>8 DEF PricingTypeOK
<1>9. ASSUME NEW r \in Admins, AbandonEdit(r) PROVE PricingTypeOK'
    BY <1>9 DEF AbandonEdit, EndEdit, PricingTypeOK
<1> QED BY <1>1, <1>2, <1>3, <1>4, <1>5, <1>6, <1>7, <1>8, <1>9 DEF PricingNext

-------------------------------------------------------------------------------
\* Steps that put no version into force and take none out.
LEMMA StatusesKept ==
    ASSUME AtMostOneActive, SomeActive,
           \A v \in Versions : \/ versions'[v].status = versions[v].status
                               \/ versions[v].status = "none" /\ versions'[v].status = "draft"
    PROVE  AtMostOneActive' /\ SomeActive' /\ Active' = Active
<1>1. Active' = Active
    BY DEF Active
<1>2. SomeActive'
    BY <1>1 DEF SomeActive
<1> QED BY <1>1, <1>2 DEF AtMostOneActive

LEMMA CreateDraftInv ==
    ASSUME Inv, PricingTypeOK', NEW v \in Versions, NEW list \in Lists, CreateDraft(v, list)
    PROVE  Inv'
<1>1. /\ versions[v].status = "none" /\ versions'[v].status = "draft"
      /\ \A w \in Versions \ {v} : versions'[w] = versions[w]
      /\ UNCHANGED <<edits, contested>>
    BY DEF CreateDraft, Inv, PricingTypeOK, NotCreated
<1>2. AtMostOneActive' /\ SomeActive' /\ Active' = Active
    BY <1>1, StatusesKept DEF Inv
<1>3. \A r \in Admins : edits[r] # Resting => edits[r].version # v /\ edits[r].version \in Versions
    BY RestingIsNoStage DEF Inv, EditedExist, CreateDraft
<1>4. EditedExist'
    BY <1>1, <1>3 DEF EditedExist, Inv
<1>5. ClearedAreActive' /\ ClearedApart'
    BY <1>1, <1>2 DEF ClearedAreActive, ClearedApart, Inv
<1>6. ChecksHold'
    BY <1>1, <1>3 DEF ChecksHold, StillAsChecked, ListOf, Inv
<1> QED BY <1>2, <1>4, <1>5, <1>6 DEF Inv

\* Steps of one handler that leave the versions alone.
LEMMA EditingInv ==
    ASSUME Inv, PricingTypeOK', NEW r \in Admins, NEW e, edits' = [edits EXCEPT ![r] = e],
           UNCHANGED <<versions, contested>>,
           e # Resting => e.version \in Versions /\ versions[e.version] # NotCreated /\ StillAsChecked(e),
           e.stage = "archiving" =>
                /\ e.cleared \subseteq Active
                /\ \A s \in Admins \ {r} : edits[s].stage = "archiving" =>
                        e.cleared \cap edits[s].cleared = {}
    PROVE  Inv'
<1>1. edits'[r] = e /\ \A s \in Admins \ {r} : edits'[s] = edits[s]
    BY DEF Inv, PricingTypeOK
<1>2. Active' = Active
    BY DEF Active
<1>3. AtMostOneActive' /\ SomeActive'
    BY <1>2 DEF AtMostOneActive, SomeActive, Inv
<1>4. EditedExist'
    BY <1>1 DEF EditedExist, Inv
<1>5. ClearedAreActive'
    BY <1>1, <1>2 DEF ClearedAreActive, Inv
<1>6. ClearedApart'
    BY <1>1 DEF ClearedApart, Inv
<1>7. ChecksHold'
    <2> SUFFICES ASSUME NEW s \in Admins, edits'[s] # Resting PROVE StillAsChecked(edits[s])'
        BY DEF ChecksHold
    <2>1. StillAsChecked(edits'[s])
        BY <1>1 DEF Inv, ChecksHold
    <2> QED BY <2>1 DEF StillAsChecked, ListOf
<1> QED BY <1>3, <1>4, <1>5, <1>6, <1>7 DEF Inv

\* Both commits contest the version for every other handler at work on it.
LEMMA OthersAreContested ==
    ASSUME NEW r \in Admins, NEW s \in Admins \ {r}, NEW v, Contested(r, v),
           edits[s] # Resting, edits[s].version = v
    PROVE  v \in contested'
    BY DEF Contested, WorksOn

LEMMA CommitReplaceInv ==
    ASSUME Inv, PricingTypeOK', NEW r \in Admins, CommitReplace(r)
    PROVE  Inv'
<1>1. PICK v \in Versions : v = edits[r].version
    BY RestingIsNoStage DEF Inv, CommitReplace
<1>2. versions[v] # NotCreated /\ versions[v] \in VersionRows
    BY <1>1, RestingIsNoStage, RowTypes DEF Inv, CommitReplace, EditedExist
<1>3. /\ versions'[v].status = versions[v].status
      /\ \A w \in Versions \ {v} : versions'[w] = versions[w]
      /\ edits'[r] = Resting /\ \A s \in Admins \ {r} : edits'[s] = edits[s]
      /\ Contested(r, v) /\ contested \subseteq contested'
    BY <1>1, <1>2 DEF Inv, PricingTypeOK, CommitReplace, EndEdit, VersionRows, Contested
<1>4. AtMostOneActive' /\ SomeActive' /\ Active' = Active
    BY <1>3, StatusesKept DEF Inv
<1>5. EditedExist'
    <2> SUFFICES ASSUME NEW s \in Admins, edits'[s] # Resting
                 PROVE  versions'[edits'[s].version] # NotCreated
        BY DEF EditedExist
    <2>1. s # r /\ edits'[s] = edits[s] /\ edits[s].version \in Versions
        BY <1>3, RestingIsNoStage DEF Inv
    <2>2. versions[edits[s].version].status # "none"
        BY <2>1, RowTypes DEF Inv, EditedExist
    <2> QED BY <1>3, <2>1, <2>2 DEF NotCreated
<1>6. ClearedAreActive' /\ ClearedApart'
    BY <1>3, <1>4 DEF ClearedAreActive, ClearedApart, Inv, Resting
<1>7. ChecksHold'
    <2> SUFFICES ASSUME NEW s \in Admins, edits'[s] # Resting PROVE StillAsChecked(edits[s])'
        BY DEF ChecksHold
    <2>1. s # r /\ edits'[s] = edits[s] /\ edits[s].version \in Versions /\ StillAsChecked(edits[s])
        BY <1>3, RestingIsNoStage DEF Inv, ChecksHold
    <2>2. CASE edits[s].version = v
        BY <1>3, <2>1, <2>2, OthersAreContested DEF StillAsChecked
    <2>3. CASE edits[s].version # v
        BY <1>3, <2>1, <2>3 DEF StillAsChecked, ListOf
    <2> QED BY <2>2, <2>3
<1> QED BY <1>4, <1>5, <1>6, <1>7 DEF Inv

\* What an activation leaves in each row.
LEMMA ActivatedRows ==
    ASSUME Inv, NEW r \in Admins, CommitActivate(r)
    PROVE  /\ edits[r].version \in Versions
           /\ versions'[edits[r].version].status = "active"
           /\ versions'[edits[r].version].list = versions[edits[r].version].list
           /\ \A w \in Versions \ {edits[r].version} :
                /\ versions'[w].status = IF w \in Active THEN "archived" ELSE versions[w].status
                /\ versions[w] # NotCreated => versions'[w].list = versions[w].list
                /\ w \notin Active => versions'[w] = versions[w]
<1>1. /\ edits[r].version \in Versions /\ edits[r].cleared \subseteq Active
      /\ Active \subseteq edits[r].cleared \cup {edits[r].version}
      /\ versions[edits[r].version] \in VersionRows
    BY RestingIsNoStage, RowTypes DEF Inv, CommitActivate, ClearedAreActive, EditedExist
<1>2. /\ versions'[edits[r].version].status = "active"
      /\ versions'[edits[r].version].list = versions[edits[r].version].list
    BY <1>1 DEF CommitActivate, VersionRows
<1>3. ASSUME NEW w \in Versions \ {edits[r].version}
      PROVE  /\ versions'[w].status = IF w \in Active THEN "archived" ELSE versions[w].status
             /\ versions[w] # NotCreated => versions'[w].list = versions[w].list
             /\ w \notin Active => versions'[w] = versions[w]
    <2>1. CASE w \in Active
        <3>1. w \in edits[r].cleared /\ versions[w] \in VersionRows
            BY <1>1, <2>1, RowTypes DEF Inv, Active, NotCreated
        <3> QED BY <2>1, <3>1 DEF CommitActivate, VersionRows
    <2>2. CASE w \notin Active
        BY <1>1, <2>2 DEF CommitActivate
    <2> QED BY <2>1, <2>2
<1> QED BY <1>1, <1>2, <1>3

LEMMA CommitActivateInv ==
    ASSUME Inv, PricingTypeOK', NEW r \in Admins, CommitActivate(r)
    PROVE  Inv'
<1>1. PICK v \in Versions : v = edits[r].version
    BY ActivatedRows
<1>2. /\ versions'[v].status = "active" /\ ListOf(v)' = ListOf(v)
      /\ \A w \in Versions \ {v} :
            /\ versions'[w].status = IF w \in Active THEN "archived" ELSE versions[w].status
            /\ versions[w] # NotCreated => versions'[w].list = versions[w].list
            /\ w \notin Active => versions'[w] = versions[w]
    BY <1>1, ActivatedRows DEF ListOf
<1>3. /\ edits'[r] = Resting /\ \A s \in Admins \ {r} : edits'[s] = edits[s]
      /\ Contested(r, v) /\ contested \subseteq contested'
    BY <1>1 DEF Inv, PricingTypeOK, CommitActivate, EndEdit, Contested
<1>4. Active' = {v}
    BY <1>2 DEF Active
<1>5. AtMostOneActive' /\ SomeActive'
    BY <1>4 DEF AtMostOneActive, SomeActive
<1>6. EditedExist'
    <2> SUFFICES ASSUME NEW s \in Admins, edits'[s] # Resting
                 PROVE  versions'[edits'[s].version] # NotCreated
        BY DEF EditedExist
    <2>1. s # r /\ edits'[s] = edits[s] /\ edits[s].version \in Versions
        BY <1>3, RestingIsNoStage DEF Inv
    <2>2. versions[edits[s].version].status # "none"
        BY <2>1, RowTypes DEF Inv, EditedExist
    <2> QED BY <1>2, <2>1, <2>2 DEF NotCreated
<1>7. ClearedAreActive'
    <2> SUFFICES ASSUME NEW s \in Admins, edits'[s].stage = "archiving"
                 PROVE  edits'[s].cleared \subseteq {v}
        BY <1>4 DEF ClearedAreActive
    <2>1. s # r /\ edits'[s] = edits[s]
        BY <1>3 DEF Resting
    <2>2. /\ edits[s].cleared \subseteq Active /\ edits[s].cleared \cap edits[r].cleared = {}
          /\ Active \subseteq edits[r].cleared \cup {v}
        BY <1>1, <2>1 DEF Inv, ClearedAreActive, ClearedApart, CommitActivate
    <2> QED BY <2>1, <2>2
<1>8. ClearedApart'
    BY <1>3 DEF ClearedApart, Inv, Resting
<1>9. ChecksHold'
    <2> SUFFICES ASSUME NEW s \in Admins, edits'[s] # Resting PROVE StillAsChecked(edits[s])'
        BY DEF ChecksHold
    <2>1. s # r /\ edits'[s] = edits[s] /\ edits[s].version \in Versions /\ StillAsChecked(edits[s])
        BY <1>3, RestingIsNoStage DEF Inv, ChecksHold
    <2>2. CASE edits[s].version = v
        BY <1>3, <2>1, <2>2, OthersAreContested DEF StillAsChecked
    <2>3. CASE edits[s].version # v
        <3>1. versions[edits[s].version] # NotCreated
            BY <2>1 DEF Inv, EditedExist
        <3>2. CASE edits[s].version \in Active
            BY <1>2, <1>3, <2>1, <2>3, <3>1, <3>2, RestingIsNoStage
               DEF StillAsChecked, ListOf, Active, Inv
        <3>3. CASE edits[s].version \notin Active
            BY <1>2, <1>3, <2>1, <2>3, <3>3 DEF StillAsChecked, ListOf
        <3> QED BY <3>2, <3>3
    <2> QED BY <2>2, <2>3
<1> QED BY <1>5, <1>6, <1>7, <1>8, <1>9 DEF Inv

LEMMA PricingStep == Inv /\ [PricingNext]_pricingVars => Inv'
<1> SUFFICES ASSUME Inv, [PricingNext]_pricingVars PROVE Inv'
    OBVIOUS
<1> USE PricingTypePreserved
<1>1. CASE UNCHANGED pricingVars
    BY <1>1 DEF pricingVars, Inv, PricingTypeOK, AtMostOneActive, SomeActive, EditedExist,
       ClearedAreActive, ClearedApart, ChecksHold, StillAsChecked, Active, InForceOnce, ListOf
<1>2. ASSUME NEW v \in Versions, NEW list \in Lists, CreateDraft(v, list) PROVE Inv'
    BY <1>2, CreateDraftInv
<1>3. ASSUME NEW r \in Admins, NEW v \in Versions, NEW list \in Lists, BeginReplace(r, v, list)
      PROVE  Inv'
    <2> DEFINE e == [stage |-> "replacing", version |-> v, list |-> list]
    <2>1. StillAsChecked(e) /\ versions[v] # NotCreated
        BY <1>3 DEF BeginReplace, StillAsChecked, NotCreated
    <2> QED BY <1>3, <2>1, EditingInv DEF BeginReplace, StartEdit
<1>4. ASSUME NEW r \in Admins, NEW v \in Versions, BeginActivate(r, v) PROVE Inv'
    <2> DEFINE e == [stage |-> "checked", version |-> v]
    <2>1. StillAsChecked(e)
        BY <1>4 DEF BeginActivate, StillAsChecked
    <2> QED BY <1>4, <2>1, EditingInv DEF BeginActivate, StartEdit
<1>5. ASSUME NEW r \in Admins, CommitReplace(r) PROVE Inv'
    BY <1>5, CommitReplaceInv
<1>6. ASSUME NEW r \in Admins, ReadTarget(r) PROVE Inv'
    <2> DEFINE e == [stage |-> "target", version |-> edits[r].version]
    <2>1. /\ edits[r].version \in Versions /\ versions[edits[r].version] # NotCreated
          /\ StillAsChecked(edits[r])
        BY <1>6, RestingIsNoStage DEF Inv, ReadTarget, EditedExist, ChecksHold
    <2>2. StillAsChecked(e)
        BY <1>6, <2>1 DEF ReadTarget, StillAsChecked
    <2> QED BY <1>6, <2>1, <2>2, EditingInv DEF ReadTarget, GoOn
<1>7. ASSUME NEW r \in Admins, ArchiveActive(r) PROVE Inv'
    <2> DEFINE cleared == {v \in Active : ~Archiving(v)}
               e == [stage |-> "archiving", version |-> edits[r].version, cleared |-> cleared]
    <2>1. /\ edits[r].version \in Versions /\ versions[edits[r].version] # NotCreated
          /\ StillAsChecked(edits[r])
        BY <1>7, RestingIsNoStage DEF Inv, ArchiveActive, EditedExist, ChecksHold
    <2>2. StillAsChecked(e)
        BY <1>7, <2>1 DEF ArchiveActive, StillAsChecked
    <2>3. \A s \in Admins \ {r} : edits[s].stage = "archiving" => cleared \cap edits[s].cleared = {}
        BY DEF Archiving
    <2>4. edits' = [edits EXCEPT ![r] = e] /\ UNCHANGED <<versions, contested>>
        BY <1>7 DEF ArchiveActive, GoOn
    <2>5. e.version = edits[r].version /\ e.cleared = cleared /\ e.cleared \subseteq Active
        OBVIOUS
    <2> HIDE DEF e, cleared
    <2> QED BY <2>1, <2>2, <2>3, <2>4, <2>5, EditingInv
<1>8. ASSUME NEW r \in Admins, CommitActivate(r) PROVE Inv'
    BY <1>8, CommitActivateInv
<1>9. ASSUME NEW r \in Admins, AbandonEdit(r) PROVE Inv'
    BY <1>9, EditingInv DEF AbandonEdit, EndEdit, Resting
<1> QED BY <1>1, <1>2, <1>3, <1>4, <1>5, <1>6, <1>7, <1>8, <1>9 DEF PricingNext

LEMMA PricingInvariant == PricingSpec => []Inv
<1>1. PricingInit => Inv
    BY PricingInitInv
<1>2. Inv /\ [PricingNext]_pricingVars => Inv'
    BY PricingStep
<1> QED BY <1>1, <1>2, PTL DEF PricingSpec

\* Every variable of the pricing versions has its type, whatever is edited.
THEOREM PricingTypeCorrect == PricingSpec => []PricingTypeOK
<1>1. Inv => PricingTypeOK
    BY DEF Inv
<1> QED BY <1>1, PricingInvariant, PTL

\* However administrators interleave, and however transactions fail, prices
\* are calculated from one version, always the same for every reader: findActive
\* finds one, and never two.
THEOREM OneVersionInForce == PricingSpec => []OneActiveVersion
<1>1. Inv => OneActiveVersion
    <2> SUFFICES ASSUME Inv PROVE \E v \in Versions : Active = {v}
        BY DEF OneActiveVersion
    <2>1. PICK v \in Active : TRUE
        BY DEF Inv, SomeActive
    <2>2. v \in Versions /\ \A w \in Active : w = v
        BY DEF Active, Inv, AtMostOneActive
    <2> QED BY <2>1, <2>2
<1> QED BY <1>1, PricingInvariant, PTL

-------------------------------------------------------------------------------
(***************************************************************************)
(* The refinement: an activation of a version that is uncontested          *)
(* publishes it, and every other step is invisible, or it is one on a      *)
(* contested version, which the readers of other versions do not notice.   *)
(***************************************************************************)

\* The readers of prices see two things of a row.
LEMMA SameForReaders ==
    ASSUME \A v \in Versions :
              \/ versions'[v] = versions[v]
              \/ ~InForceOnce(v) /\ ~InForceOnce(v)'
    PROVE  UNCHANGED <<InForce, Published>>
<1>1. Active' = Active
    BY DEF Active, InForceOnce
<1>2. Published' = Published
    BY DEF Published, ListOf, InForceOnce
<1> QED BY <1>1, <1>2 DEF InForce

\* What readers see of an activation.
LEMMA ActivationSeen ==
    ASSUME Inv, NEW r \in Admins, CommitActivate(r), NEW v, v = edits[r].version
    PROVE  /\ v \in Versions /\ InForce' = v
           /\ \A w \in Versions \ {v} : Published'[w] = Published[w]
           /\ Published'[v] = ListOf(v)
<1>1. v \in Versions
    BY ActivatedRows
<1>2. /\ versions'[v].status = "active" /\ versions'[v].list = versions[v].list
      /\ \A w \in Versions \ {v} :
            /\ versions'[w].status = IF w \in Active THEN "archived" ELSE versions[w].status
            /\ versions[w] # NotCreated => versions'[w].list = versions[w].list
    BY ActivatedRows
<1>3. Active' = {v}
    BY <1>1, <1>2 DEF Active
<1>4. InForce' = v
    BY <1>3 DEF InForce
<1>5. ASSUME NEW w \in Versions \ {v} PROVE Published'[w] = Published[w]
    BY <1>2, <1>5 DEF Published, ListOf, Active, NotCreated
<1>6. Published'[v] = ListOf(v)
    BY <1>1, <1>2 DEF Published, ListOf
<1> QED BY <1>1, <1>4, <1>5, <1>6

LEMMA ActivationPublishes ==
    ASSUME Inv, NEW r \in Admins, CommitActivate(r), edits[r].version \notin contested
    PROVE  Abstract!PriceListNext
<1>1. PICK v \in Versions : v = edits[r].version
    BY ActivatedRows
<1>2. /\ versions[v].status = "draft" /\ ListOf(v) \in CompleteLists
      /\ edits[r] # Resting
    BY <1>1 DEF Inv, ChecksHold, StillAsChecked, CommitActivate, Resting
<1>3. /\ InForce' = v
      /\ \A w \in Versions \ {v} : Published'[w] = Published[w]
      /\ Published'[v] = ListOf(v)
    BY <1>1, ActivationSeen
<1>4. Published[v] = NoList
    BY <1>2 DEF Published
<1>5. Published' = [Published EXCEPT ![v] = ListOf(v)]
    <2>1. Published' = [w \in Versions |-> Published'[w]] /\ Published = [w \in Versions |-> Published[w]]
        BY DEF Published
    <2> QED BY <1>3, <2>1
<1> QED BY <1>2, <1>3, <1>4, <1>5 DEF Abstract!PriceListNext, Abstract!Publish

LEMMA PricingRefines ==
    ASSUME Inv, [PricingNext]_pricingVars
    PROVE  [Abstract!PriceListNext \/ \E v \in contested' : NoHarmBeyond(v)]_<<InForce, Published>>
<1>1. CASE UNCHANGED pricingVars
    BY <1>1 DEF pricingVars, InForce, Published, Active, ListOf
<1>2. ASSUME NEW v \in Versions, NEW list \in Lists, CreateDraft(v, list)
      PROVE  UNCHANGED <<InForce, Published>>
    <2>1. \A w \in Versions : w # v => versions'[w] = versions[w]
        BY <1>2 DEF CreateDraft, Inv, PricingTypeOK
    <2>2. ~InForceOnce(v) /\ ~InForceOnce(v)'
        BY <1>2 DEF CreateDraft, Inv, PricingTypeOK, InForceOnce, NotCreated
    <2> QED BY <2>1, <2>2, SameForReaders
<1>3. ASSUME NEW r \in Admins, CommitReplace(r)
      PROVE  UNCHANGED <<InForce, Published>> \/ \E v \in contested' : NoHarmBeyond(v)
    <2>1. PICK v \in Versions : v = edits[r].version
        BY <1>3, RestingIsNoStage DEF Inv, CommitReplace
    <2>2. versions[v] \in VersionRows
        BY <1>3, <2>1, RestingIsNoStage, RowTypes DEF Inv, CommitReplace, EditedExist
    <2>3. /\ \A w \in Versions : w # v => versions'[w] = versions[w]
          /\ versions'[v].status = versions[v].status /\ contested \subseteq contested'
        BY <1>3, <2>1, <2>2 DEF CommitReplace, Inv, PricingTypeOK, VersionRows, Contested
    <2>4. CASE v \notin contested
        <3>1. versions[v].status = "draft"
            BY <1>3, <2>1, <2>4, RestingIsNoStage DEF Inv, ChecksHold, StillAsChecked, CommitReplace
        <3>2. ~InForceOnce(v) /\ ~InForceOnce(v)'
            BY <2>3, <3>1 DEF InForceOnce
        <3> QED BY <2>3, <3>2, SameForReaders
    <2>5. CASE v \in contested
        <3>1. Active' = Active
            BY <2>3 DEF Active
        <3>2. \A w \in Versions \ {v} : Published'[w] = Published[w]
            BY <2>3 DEF Published, ListOf
        <3> QED BY <2>3, <2>5, <3>1, <3>2 DEF NoHarmBeyond, InForce
    <2> QED BY <2>4, <2>5
<1>4. ASSUME NEW r \in Admins, CommitActivate(r)
      PROVE  Abstract!PriceListNext \/ \E v \in contested' : NoHarmBeyond(v)
    <2>1. PICK v \in Versions : v = edits[r].version
        BY <1>4, ActivatedRows
    <2>2. InForce' = v /\ \A w \in Versions \ {v} : Published'[w] = Published[w]
        BY <1>4, <2>1, ActivationSeen
    <2>3. contested \subseteq contested'
        BY <1>4 DEF CommitActivate, Contested
    <2>4. CASE v \in contested
        BY <2>2, <2>3, <2>4 DEF NoHarmBeyond
    <2> QED BY <1>4, <2>1, <2>4, ActivationPublishes
<1>5. ASSUME UNCHANGED versions PROVE UNCHANGED <<InForce, Published>>
    BY <1>5 DEF InForce, Published, Active, ListOf
<1> QED BY <1>1, <1>2, <1>3, <1>4, <1>5
       DEF PricingNext, BeginReplace, BeginActivate, StartEdit, ReadTarget, ArchiveActive, GoOn, AbandonEdit

\* The versions implement PriceList: whoever calculates a price, however
\* administrators edit and activate, sees a list that was complete when it came
\* into force, does not change, and does not come back once superseded.  Only a
\* version that one handler wrote while another was at work on it may break this,
\* and it does no harm to any other.
THEOREM PricingImplementsPriceList == PricingSpec => ImplementsPriceList
<1>1. PricingInit => Abstract!PriceListInit
    <2> SUFFICES ASSUME PricingInit PROVE Abstract!PriceListInit
        OBVIOUS
    <2>1. /\ FirstVersion \in Versions
          /\ versions = [v \in Versions |-> IF v = FirstVersion THEN [status |-> "active", list |-> FirstList]
                                          ELSE NotCreated]
        BY PricingAssumption DEF PricingInit
    <2>2. Active = {FirstVersion}
        BY <2>1 DEF Active, NotCreated
    <2>3. InForce = FirstVersion
        BY <2>2 DEF InForce
    <2>4. Published = [v \in Versions |-> IF v = FirstVersion THEN FirstList ELSE NoList]
        BY <2>1 DEF Published, ListOf, NotCreated
    <2> QED BY <2>3, <2>4 DEF Abstract!PriceListInit
<1>2. Inv /\ [PricingNext]_pricingVars
        => [Abstract!PriceListNext \/ \E v \in contested' : NoHarmBeyond(v)]_<<InForce, Published>>
    BY PricingRefines
<1> QED BY <1>1, <1>2, PricingInvariant, PTL DEF PricingSpec, ImplementsPriceList

-------------------------------------------------------------------------------
(***************************************************************************)
(* ScheduledTasks.  What has been done of a boot is done in Redis, and     *)
(* what is left to remove is never a task of the build.                    *)
(***************************************************************************)
ArmedAsDeclared(tasks) == \A t \in tasks \ unarmed : schedules[t] = Declares[build][t]

ScheduleInv ==
    /\ ScheduledTasksTypeOK
    /\ worker.stage = "arming" => ArmedAsDeclared(Declared \ worker.todo)
    /\ worker.stage = "pruning" =>
        /\ ArmedAsDeclared(Declared)
        /\ Scheduled \ Declared \subseteq worker.todo /\ worker.todo \cap Declared = {}
    /\ worker.stage = "running" => ArmedAsDeclared(TaskNames)
    /\ worker.stage = "down" => worker = Down
    /\ \A call \in called : Declares[call[2]][call[1]] # NotArmed

LEMMA TasksStart == ASSUME ScheduledTasksInit PROVE ScheduleInv
<1>1. /\ Down \in [stage : {"down", "arming", "pruning", "running"}, todo : SUBSET TaskNames]
      /\ NoJob \in [state : {"none", "waiting", "active"}, attempts : 0..JobAttempts]
      /\ Down.stage = "down"
    BY ScheduledTasksAssumption DEF Down, NoJob
<1>2. ScheduledTasksTypeOK
    BY <1>1, ScheduledTasksAssumption DEF ScheduledTasksInit, ScheduledTasksTypeOK
<1> QED BY <1>1, <1>2 DEF ScheduledTasksInit, ScheduleInv

LEMMA JobTypes ==
    ASSUME ScheduledTasksTypeOK, NEW t \in TaskNames
    PROVE  /\ NoJob \in [state : {"none", "waiting", "active"}, attempts : 0..JobAttempts]
           /\ jobs[t].state \in {"none", "waiting", "active"} /\ jobs[t].attempts \in 0..JobAttempts
           /\ Fails(t) \in [state : {"none", "waiting", "active"}, attempts : 0..JobAttempts]
<1>1. jobs[t] \in [state : {"none", "waiting", "active"}, attempts : 0..JobAttempts]
    BY DEF ScheduledTasksTypeOK
<1>2. jobs[t].attempts + 1 < JobAttempts => jobs[t].attempts + 1 \in 0..JobAttempts
    BY <1>1, ScheduledTasksAssumption
<1>3. jobs[t].attempts + 1 >= JobAttempts \/ jobs[t].attempts + 1 < JobAttempts
    BY <1>1, ScheduledTasksAssumption
<1> QED BY <1>1, <1>2, <1>3, ScheduledTasksAssumption DEF NoJob, Fails

LEMMA StopTypes ==
    ASSUME ScheduledTasksTypeOK, Stop
    PROVE  /\ worker' = Down /\ worker'.stage = "down"
           /\ jobs' \in [TaskNames -> [state : {"none", "waiting", "active"}, attempts : 0..JobAttempts]]
<1>1. \A t \in TaskNames : /\ jobs[t] \in [state : {"none", "waiting", "active"}, attempts : 0..JobAttempts]
                           /\ [jobs[t] EXCEPT !.state = "waiting"]
                                \in [state : {"none", "waiting", "active"}, attempts : 0..JobAttempts]
    BY DEF ScheduledTasksTypeOK
<1> QED BY <1>1 DEF Stop, Returned, Down

LEMMA BuildChanges ==
    ASSUME ScheduleInv, Deploy \/ Boot \/ WorkerStops \/ Shutdown
    PROVE  ScheduleInv'
<1>1. Down \in [stage : {"down", "arming", "pruning", "running"}, todo : SUBSET TaskNames]
      /\ Down.stage = "down" /\ Declared \subseteq TaskNames
    BY DEF Down, Declared
<1>2. CASE Deploy
  <2>1. build' \in 1..Builds
      BY <1>2, ScheduledTasksAssumption DEF Deploy, ScheduleInv, ScheduledTasksTypeOK
  <2> QED BY <1>1, <1>2, <2>1 DEF Deploy, ScheduleInv, ScheduledTasksTypeOK
<1>3. CASE Boot
  <2>1. PICK w : w = [stage |-> "arming", todo |-> Declared]
      OBVIOUS
  <2>2. /\ w \in [stage : {"down", "arming", "pruning", "running"}, todo : SUBSET TaskNames]
        /\ w.stage = "arming" /\ w.todo = Declared /\ worker' = w /\ Declared' = Declared
      BY <1>1, <1>3, <2>1 DEF Boot, Declared
  <2> QED BY <1>3, <2>2 DEF Boot, ScheduleInv, ScheduledTasksTypeOK, ArmedAsDeclared
<1>4. CASE WorkerStops
  <2>1. worker' = Down /\ worker'.stage = "down"
        /\ jobs' \in [TaskNames -> [state : {"none", "waiting", "active"}, attempts : 0..JobAttempts]]
      BY <1>4, StopTypes DEF WorkerStops, ScheduleInv
  <2>2. mishaps' \in 0..MaxMishaps
      BY <1>4, ScheduledTasksAssumption DEF WorkerStops, Mishap, ScheduleInv, ScheduledTasksTypeOK
  <2> QED BY <1>1, <1>4, <2>1, <2>2 DEF WorkerStops, ScheduleInv, ScheduledTasksTypeOK
<1>5. CASE Shutdown
    BY <1>1, <1>5 DEF Shutdown, ScheduleInv, ScheduledTasksTypeOK
<1> QED BY <1>2, <1>3, <1>4, <1>5

LEMMA Narrowed ==
    ASSUME ScheduledTasksTypeOK, NEW t \in TaskNames, worker' = [worker EXCEPT !.todo = @ \ {t}]
    PROVE  /\ worker' \in [stage : {"down", "arming", "pruning", "running"}, todo : SUBSET TaskNames]
           /\ worker'.stage = worker.stage /\ worker'.todo = worker.todo \ {t}
    BY DEF ScheduledTasksTypeOK

LEMMA UpsertKeeps == ASSUME ScheduleInv, NEW t \in TaskNames, UpsertSchedule(t) PROVE ScheduleInv'
<1>1. /\ worker' \in [stage : {"down", "arming", "pruning", "running"}, todo : SUBSET TaskNames]
      /\ worker'.stage = "arming" /\ worker'.todo = worker.todo \ {t} /\ worker.stage = "arming"
      /\ Declared' = Declared
    BY Narrowed DEF UpsertSchedule, ScheduleInv, Declared
<1>2. Declares[build][t] \in Crons \cup {NotArmed}
    BY ScheduledTasksAssumption DEF ScheduleInv, ScheduledTasksTypeOK
<1>3. CASE schedules' = [schedules EXCEPT ![t] = Declares[build][t]] /\ UNCHANGED <<unarmed, mishaps>>
  <2>1. /\ schedules' \in [TaskNames -> Crons \cup {NotArmed}] /\ schedules'[t] = Declares[build][t]
        /\ \A s \in TaskNames : s # t => schedules'[s] = schedules[s]
      BY <1>2, <1>3 DEF ScheduleInv, ScheduledTasksTypeOK
  <2>2. \A s \in Declared : s \in TaskNames
      BY DEF Declared
  <2> QED BY <1>1, <1>3, <2>1, <2>2 DEF UpsertSchedule, ScheduleInv, ScheduledTasksTypeOK, ArmedAsDeclared
<1>4. CASE Mishap /\ unarmed' = unarmed \cup {t} /\ UNCHANGED schedules
  <2>1. mishaps' \in 0..MaxMishaps
      BY <1>4, ScheduledTasksAssumption DEF Mishap, ScheduleInv, ScheduledTasksTypeOK
  <2> QED BY <1>1, <1>4, <2>1 DEF UpsertSchedule, ScheduleInv, ScheduledTasksTypeOK, ArmedAsDeclared
<1> QED BY <1>3, <1>4 DEF UpsertSchedule

LEMMA ListKeeps == ASSUME ScheduleInv, ListSchedules PROVE ScheduleInv'
<1>1. PICK w : w = [stage |-> "pruning", todo |-> LeftBehind]
    OBVIOUS
<1>2. LeftBehind \subseteq TaskNames
    BY DEF LeftBehind, Scheduled
<1>3. /\ w \in [stage : {"down", "arming", "pruning", "running"}, todo : SUBSET TaskNames]
      /\ w.stage = "pruning" /\ w.todo = LeftBehind /\ worker' = w
      /\ Declared' = Declared /\ Scheduled' = Scheduled
      /\ ArmedAsDeclared(Declared)
    BY <1>1, <1>2 DEF ListSchedules, Declared, Scheduled, ScheduleInv, ArmedAsDeclared
<1> QED BY <1>3 DEF ListSchedules, ScheduleInv, ScheduledTasksTypeOK, ArmedAsDeclared, LeftBehind

LEMMA RemoveKeeps == ASSUME ScheduleInv, NEW t \in TaskNames, RemoveSchedule(t) PROVE ScheduleInv'
<1>1. /\ worker' \in [stage : {"down", "arming", "pruning", "running"}, todo : SUBSET TaskNames]
      /\ worker'.stage = "pruning" /\ worker'.todo = worker.todo \ {t} /\ worker.stage = "pruning"
      /\ Declared' = Declared
    BY Narrowed DEF RemoveSchedule, ScheduleInv, Declared
<1>2. /\ schedules' \in [TaskNames -> Crons \cup {NotArmed}] /\ schedules'[t] = NotArmed
      /\ \A s \in TaskNames : s # t => schedules'[s] = schedules[s]
    BY DEF RemoveSchedule, ScheduleInv, ScheduledTasksTypeOK
<1>3. t \notin Declared
    BY DEF RemoveSchedule, ScheduleInv
<1>4. Scheduled' \ Declared \subseteq worker'.todo
    BY <1>1, <1>2, <1>3 DEF ScheduleInv, Scheduled
<1>5. ArmedAsDeclared(Declared)'
    BY <1>1, <1>2, <1>3 DEF RemoveSchedule, ScheduleInv, ArmedAsDeclared, Declared
<1> QED BY <1>1, <1>2, <1>4, <1>5 DEF RemoveSchedule, ScheduleInv, ScheduledTasksTypeOK

LEMMA StartKeeps == ASSUME ScheduleInv, StartWorker PROVE ScheduleInv'
<1>1. PICK w : w = [stage |-> "running", todo |-> {}]
    OBVIOUS
<1>2. /\ w \in [stage : {"down", "arming", "pruning", "running"}, todo : SUBSET TaskNames]
      /\ w.stage = "running" /\ worker' = w
    BY <1>1 DEF StartWorker
<1>3. \A t \in TaskNames : t \notin Declared => schedules[t] = NotArmed /\ Declares[build][t] = NotArmed
    BY DEF StartWorker, ScheduleInv, Scheduled, Declared
<1>4. ArmedAsDeclared(TaskNames)
    BY <1>3 DEF StartWorker, ScheduleInv, ArmedAsDeclared
<1> QED BY <1>2, <1>4 DEF StartWorker, ScheduleInv, ScheduledTasksTypeOK, ArmedAsDeclared

\* A step that touches the queue only.
LEMMA QueueKeeps ==
    ASSUME ScheduleInv, NEW t \in TaskNames, Tick(t) \/ TakeJob(t) \/ RunTask(t) \/ UnknownTask(t)
    PROVE  ScheduleInv'
<1>1. jobs' \in [TaskNames -> [state : {"none", "waiting", "active"}, attempts : 0..JobAttempts]]
  <2>1. jobs[t] \in [state : {"none", "waiting", "active"}, attempts : 0..JobAttempts]
      BY DEF ScheduleInv, ScheduledTasksTypeOK
  <2>2. \A s \in {"waiting", "active"} :
            [jobs[t] EXCEPT !.state = s] \in [state : {"none", "waiting", "active"}, attempts : 0..JobAttempts]
      BY <2>1
  <2>3. [state |-> "waiting", attempts |-> 0] \in [state : {"none", "waiting", "active"}, attempts : 0..JobAttempts]
      BY ScheduledTasksAssumption
  <2>4. CASE Tick(t)
      BY <2>3, <2>4 DEF Tick, ScheduleInv, ScheduledTasksTypeOK
  <2>5. CASE TakeJob(t)
      BY <2>2, <2>5 DEF TakeJob, ScheduleInv, ScheduledTasksTypeOK
  <2>6. CASE RunTask(t) \/ UnknownTask(t)
    <3>1. jobs' = [jobs EXCEPT ![t] = NoJob] \/ jobs' = [jobs EXCEPT ![t] = Fails(t)]
        BY <2>6 DEF RunTask, UnknownTask
    <3>2. /\ NoJob \in [state : {"none", "waiting", "active"}, attempts : 0..JobAttempts]
          /\ Fails(t) \in [state : {"none", "waiting", "active"}, attempts : 0..JobAttempts]
        BY JobTypes DEF ScheduleInv
    <3> QED BY <3>1, <3>2 DEF ScheduleInv, ScheduledTasksTypeOK
  <2> QED BY <2>4, <2>5, <2>6
<1>2. mishaps' \in 0..MaxMishaps
    BY ScheduledTasksAssumption DEF Tick, TakeJob, RunTask, UnknownTask, Mishap, ScheduleInv, ScheduledTasksTypeOK
<1>3. called' = called \/ (t \in Declared /\ called' = called \cup {<<t, build>>})
    BY DEF Tick, TakeJob, RunTask, UnknownTask, Runnable
<1>4. /\ called' \subseteq TaskNames \X (1..Builds)
      /\ \A call \in called' : Declares[call[2]][call[1]] # NotArmed
    BY <1>3 DEF ScheduleInv, ScheduledTasksTypeOK, Declared
<1>5. UNCHANGED <<build, worker, unarmed, schedules>>
    BY DEF Tick, TakeJob, RunTask, UnknownTask
<1> QED BY <1>1, <1>2, <1>4, <1>5
    DEF ScheduleInv, ScheduledTasksTypeOK, ArmedAsDeclared, Declared, Scheduled

LEMMA TasksStep == ASSUME ScheduleInv, [ScheduledTasksNext]_scheduleVars PROVE ScheduleInv'
<1>1. CASE UNCHANGED scheduleVars
    BY <1>1 DEF scheduleVars, ScheduleInv, ScheduledTasksTypeOK, ArmedAsDeclared, Declared, Scheduled
<1>2. CASE ScheduledTasksNext
    BY <1>2, BuildChanges, UpsertKeeps, ListKeeps, RemoveKeeps, StartKeeps, QueueKeeps DEF ScheduledTasksNext
<1> QED BY <1>1, <1>2

LEMMA SchedulesFollow == ASSUME ScheduleInv PROVE SchedulesFollowTheBuild
    BY DEF ScheduleInv, ArmedAsDeclared, SchedulesFollowTheBuild

-------------------------------------------------------------------------------
(***************************************************************************)
(* Ratings.  Ratings that are not committed are of different raters or     *)
(* orders, and none of them is committed already; one that was made alone  *)
(* still knows all the others of its user.                                 *)
(***************************************************************************)
OfUser(u) == {x \in ratings : x.to = u}
SameRater(x, y) == x.deal = y.deal /\ x.from = y.from

RatingInv ==
    /\ RatingsTypeOK
    /\ \A x, y \in ratings : SameRater(x, y) => x = y
    /\ \A r, s \in Inserted : SameRater(rating[r].row, rating[s].row) => r = s
    /\ \A r \in Inserted : /\ ~Rated(rating[r].row.deal, rating[r].row.from)
                           /\ rating[r].mean \subseteq ratings \cup {rating[r].row}
                           /\ rating[r].alone => /\ OpenFor(rating[r].row.to) = {r}
                                                 /\ rating[r].mean = OfUser(rating[r].row.to) \cup {rating[r].row}
    /\ \A u \in Parties \ overlooked : reputation[u] = OfUser(u)

LEMMA RatersAt ==
    ASSUME RatingsTypeOK, NEW r \in Raters
    PROVE  /\ rating[r].stage \in {"idle", "checked", "inserted"}
           /\ rating[r] = NotRating <=> rating[r].stage = "idle"
           /\ rating[r].stage \in {"checked", "inserted"} => rating[r].row \in RatingRows
           /\ rating[r].stage = "inserted" => rating[r].alone \in BOOLEAN /\ rating[r].mean \subseteq RatingRows
           /\ r \in Inserted =>
                LET x == [rating[r] EXCEPT !.alone = FALSE] IN
                /\ x \in [stage : {"inserted"}, row : RatingRows, mean : SUBSET RatingRows, alone : BOOLEAN]
                /\ x.row = rating[r].row /\ x.mean = rating[r].mean /\ x.alone = FALSE
<1>1. rating[r] \in {NotRating} \cup [stage : {"checked"}, row : RatingRows]
                      \cup [stage : {"inserted"}, row : RatingRows, mean : SUBSET RatingRows, alone : BOOLEAN]
    BY DEF RatingsTypeOK
<1>2. CASE rating[r] = NotRating
    BY <1>2 DEF NotRating, Inserted
<1>3. CASE rating[r] \in [stage : {"checked"}, row : RatingRows]
    BY <1>3 DEF NotRating, Inserted
<1>4. CASE rating[r] \in [stage : {"inserted"}, row : RatingRows, mean : SUBSET RatingRows, alone : BOOLEAN]
  <2>1. PICK row \in RatingRows, mean \in SUBSET RatingRows, alone \in BOOLEAN :
            rating[r] = [stage |-> "inserted", row |-> row, mean |-> mean, alone |-> alone]
      BY <1>4
  <2>2. rating[r].stage = "inserted" /\ rating[r].row = row /\ rating[r].mean = mean /\ rating[r].alone = alone
      BY <2>1
  <2>3. rating[r] # NotRating
      BY <2>2 DEF NotRating
  <2>4. LET x == [rating[r] EXCEPT !.alone = FALSE] IN
        /\ x \in [stage : {"inserted"}, row : RatingRows, mean : SUBSET RatingRows, alone : BOOLEAN]
        /\ x.row = rating[r].row /\ x.mean = rating[r].mean /\ x.alone = FALSE
      BY <1>4
  <2> QED BY <2>2, <2>3, <2>4
<1> QED BY <1>1, <1>2, <1>3, <1>4

LEMMA RatingsStart == ASSUME RatingsInit PROVE RatingInv
<1>1. Inserted = {}
    BY DEF RatingsInit, Inserted, NotRating
<1> QED BY <1>1 DEF RatingsInit, RatingInv, RatingsTypeOK, OfUser

LEMMA DealAgesKeeps == ASSUME RatingInv, NEW d \in Deals, DealAges(d) PROVE RatingInv'
<1>1. deals' \in [Deals -> {"underway", "ratable", "closed"}]
    BY DEF DealAges, RatingInv, RatingsTypeOK
<1> QED BY <1>1 DEF DealAges, RatingInv, RatingsTypeOK, Inserted, OpenFor, Rated, OfUser

\* A rating is begun or refused: none of those that are inserted changes.
LEMMA UninsertedKeeps ==
    ASSUME RatingInv, NEW r \in Raters, r \notin Inserted, NEW new,
           new = NotRating \/ new \in [stage : {"checked"}, row : RatingRows],
           rating' = [rating EXCEPT ![r] = new],
           UNCHANGED <<deals, ratings, reputation, overlooked>>
    PROVE  RatingInv'
<1>1. /\ rating'[r] = new /\ new.stage # "inserted"
      /\ \A s \in Raters : s # r => rating'[s] = rating[s]
    BY DEF RatingInv, RatingsTypeOK, NotRating
<1>2. Inserted' = Inserted /\ \A s \in Inserted : rating'[s] = rating[s]
    BY <1>1 DEF Inserted
<1>3. \A u : OpenFor(u)' = OpenFor(u)
    BY <1>2 DEF OpenFor
<1>4. RatingsTypeOK'
    BY DEF RatingInv, RatingsTypeOK
<1> QED BY <1>2, <1>3, <1>4 DEF RatingInv, Rated, OfUser

LEMMA BeginRatingKeeps ==
    ASSUME RatingInv, NEW r \in Raters, NEW d \in Deals, NEW u \in Parties, NEW score \in Scores,
           BeginRating(r, d, u, score)
    PROVE  RatingInv'
<1>1. PICK v \in PartiesOf[d] \ {u} :
        rating' = [rating EXCEPT ![r] =
                     [stage |-> "checked", row |-> [deal |-> d, from |-> u, to |-> v, score |-> score]]]
    BY DEF BeginRating
<1>2. v \in Parties
    BY <1>1 DEF Parties
<1>3. r \notin Inserted
    BY RatersAt DEF BeginRating, RatingInv, Inserted
<1> QED BY <1>1, <1>2, <1>3, UninsertedKeeps DEF BeginRating, RatingRows

LEMMA RejectRatingKeeps == ASSUME RatingInv, NEW r \in Raters, RejectRating(r) PROVE RatingInv'
    BY UninsertedKeeps DEF RejectRating, Inserted

LEMMA InsertRatingKeeps == ASSUME RatingInv, NEW r \in Raters, InsertRating(r) PROVE RatingInv'
<1> DEFINE x == rating[r].row
           new == [stage |-> "inserted", row |-> x, mean |-> Seen(x), alone |-> OpenFor(x.to) = {}]
<1>0. rating[r].stage = "checked" /\ ~Rated(x.deal, x.from) /\ MayInsert(x)
      /\ UNCHANGED <<deals, ratings, reputation, overlooked>>
    BY DEF InsertRating
<1>1. x \in RatingRows
    BY <1>0, RatersAt DEF RatingInv
<1>2. PICK n : n = new
    OBVIOUS
<1>3. /\ n \in [stage : {"inserted"}, row : RatingRows, mean : SUBSET RatingRows, alone : BOOLEAN]
      /\ n.stage = "inserted" /\ n.row = x /\ n.mean = Seen(x) /\ n.alone = (OpenFor(x.to) = {})
    BY <1>1, <1>2 DEF Seen, RatingInv, RatingsTypeOK
<1>4. /\ rating' = [s \in Raters |-> IF s = r THEN n
                                     ELSE IF s \in OpenFor(x.to) THEN [rating[s] EXCEPT !.alone = FALSE]
                                     ELSE rating[s]]
    BY <1>2 DEF InsertRating
<1> HIDE DEF new
<1>5. rating'[r] = n
    BY <1>4
<1>6. \A s \in Inserted : /\ s # r /\ rating'[s].stage = "inserted"
                          /\ rating'[s].row = rating[s].row /\ rating'[s].mean = rating[s].mean
                          /\ rating'[s].alone => rating[s].alone /\ s \notin OpenFor(x.to)
    BY <1>0, <1>4, RatersAt DEF Inserted, RatingInv
<1>7. \A s \in Raters \ (Inserted \cup {r}) : rating'[s] = rating[s]
    BY <1>4 DEF OpenFor
<1>8. Inserted' = Inserted \cup {r}
    BY <1>3, <1>5, <1>6, <1>7 DEF Inserted
<1>9. RatingsTypeOK'
  <2>1. \A s \in Inserted : rating'[s] \in [stage : {"inserted"}, row : RatingRows, mean : SUBSET RatingRows, alone : BOOLEAN]
      BY <1>0, <1>4, RatersAt DEF Inserted, RatingInv, RatingsTypeOK
  <2>2. \A s \in Raters : s \in Inserted \/ s = r \/ s \in Raters \ (Inserted \cup {r})
      OBVIOUS
  <2>3. rating' \in [Raters -> {NotRating} \cup [stage : {"checked"}, row : RatingRows]
                             \cup [stage : {"inserted"}, row : RatingRows, mean : SUBSET RatingRows, alone : BOOLEAN]]
      BY <1>3, <1>4, <1>5, <1>7, <2>1, <2>2 DEF RatingInv, RatingsTypeOK
  <2> QED BY <1>0, <2>3 DEF RatingInv, RatingsTypeOK
<1>10. \A s \in Inserted : ~SameRater(x, rating[s].row)
    BY <1>0 DEF MayInsert, SameRater
<1>11. \A s, q \in Inserted' : SameRater(rating'[s].row, rating'[q].row) => s = q
    BY <1>3, <1>5, <1>6, <1>8, <1>10 DEF SameRater, RatingInv
<1>12. \A d, u : Rated(d, u)' = Rated(d, u)
    BY <1>0 DEF Rated
<1>13. \A u : OfUser(u)' = OfUser(u)
    BY <1>0 DEF OfUser
<1>14. Seen(x) = OfUser(x.to) \cup {x}
    BY DEF Seen, OfUser
<1>15. ASSUME NEW s \in Inserted'
       PROVE  /\ ~Rated(rating[s].row.deal, rating[s].row.from)'
              /\ rating'[s].mean \subseteq ratings' \cup {rating'[s].row}
              /\ rating'[s].alone => /\ OpenFor(rating[s].row.to)' = {s}
                                     /\ rating'[s].mean = OfUser(rating[s].row.to)' \cup {rating'[s].row}
  <2>1. CASE s = r
    <3>1. OpenFor(x.to) = {} => OpenFor(x.to)' = {r}
        BY <1>3, <1>5, <1>6, <1>8 DEF OpenFor
    <3>2. OfUser(x.to) \subseteq ratings
        BY DEF OfUser
    <3> QED BY <1>0, <1>3, <1>5, <1>12, <1>13, <1>14, <2>1, <3>1, <3>2
  <2>2. CASE s # r
    <3>1. s \in Inserted
        BY <1>8, <2>2
    <3>2. rating'[s].alone => OpenFor(rating[s].row.to) = {s} /\ rating[s].row.to # x.to
        BY <1>6, <3>1 DEF RatingInv, OpenFor
    <3>3. rating'[s].alone => OpenFor(rating[s].row.to)' = {s}
        BY <1>3, <1>5, <1>6, <1>8, <3>1, <3>2 DEF OpenFor
    <3> QED BY <1>0, <1>6, <1>12, <1>13, <3>1, <3>3 DEF RatingInv
  <2> QED BY <2>1, <2>2
<1> QED BY <1>0, <1>9, <1>11, <1>13, <1>15 DEF RatingInv

LEMMA CommitRatingKeeps == ASSUME RatingInv, NEW r \in Raters, CommitRating(r) PROVE RatingInv'
<1>0. PICK x, u : x = rating[r].row /\ u = rating[r].row.to
    OBVIOUS
<1>1. /\ r \in Inserted /\ x \in RatingRows /\ u \in Parties /\ rating[r].mean \subseteq ratings \cup {x}
      /\ ratings' = ratings \cup {x} /\ reputation' = [reputation EXCEPT ![u] = rating[r].mean]
      /\ overlooked' = IF rating[r].alone THEN overlooked \ {u} ELSE overlooked \cup {u}
      /\ rating' = [rating EXCEPT ![r] = NotRating] /\ deals' = deals /\ x = rating[r].row /\ u = x.to
    BY <1>0, RatersAt DEF CommitRating, RatingInv, Inserted, RatingRows
<1>2. \A s \in Raters : rating'[s] = IF s = r THEN NotRating ELSE rating[s]
    BY <1>1 DEF RatingInv, RatingsTypeOK
<1>3. Inserted' = Inserted \ {r} /\ \A s \in Inserted' : rating'[s] = rating[s] /\ s # r
    BY <1>1, <1>2 DEF Inserted, NotRating
<1>4. \A v \in Parties : reputation'[v] = IF v = u THEN rating[r].mean ELSE reputation[v]
    BY <1>1 DEF RatingInv, RatingsTypeOK
<1>5. RatingsTypeOK'
  <2>1. reputation' \in [Parties -> SUBSET ratings']
      BY <1>1 DEF RatingInv, RatingsTypeOK
  <2> QED BY <1>1, <2>1 DEF RatingInv, RatingsTypeOK
<1>6. \A y \in ratings : ~SameRater(x, y)
    BY <1>1 DEF RatingInv, Rated, SameRater
<1>7. \A y, z \in ratings' : SameRater(y, z) => y = z
    BY <1>1, <1>6 DEF RatingInv, SameRater
<1>8. \A s \in Inserted' : ~Rated(rating[s].row.deal, rating[s].row.from)'
    BY <1>1, <1>3 DEF RatingInv, Rated, SameRater
<1>9. OfUser(u)' = OfUser(u) \cup {x} /\ \A v : v # u => OfUser(v)' = OfUser(v)
    BY <1>1 DEF OfUser
<1>10. \A s \in Inserted' : rating[s].alone => rating[s].row.to # u /\ OpenFor(rating[s].row.to) = {s}
    BY <1>1, <1>3 DEF RatingInv, OpenFor
<1>11. \A s \in Inserted' : rating[s].alone => OpenFor(rating[s].row.to)' = {s}
    BY <1>3, <1>10 DEF OpenFor
<1>12. \A s \in Inserted' : /\ rating'[s].mean \subseteq ratings' \cup {rating'[s].row}
                            /\ rating'[s].alone =>
                                /\ OpenFor(rating[s].row.to)' = {s}
                                /\ rating'[s].mean = OfUser(rating[s].row.to)' \cup {rating'[s].row}
    BY <1>1, <1>3, <1>9, <1>10, <1>11 DEF RatingInv
<1>13. \A v \in Parties \ overlooked' : reputation'[v] = OfUser(v)'
  <2>1. rating[r].alone => rating[r].mean = OfUser(u) \cup {x}
      BY <1>1 DEF RatingInv
  <2>2. u \notin overlooked' => rating[r].alone
      BY <1>1
  <2>3. \A v \in Parties \ overlooked' : v # u => v \in Parties \ overlooked
      BY <1>1
  <2>4. u \notin overlooked' => reputation'[u] = OfUser(u)'
      BY <1>1, <1>4, <1>9, <2>1, <2>2
  <2>5. \A v \in Parties \ overlooked : reputation[v] = OfUser(v)
      BY DEF RatingInv
  <2>6. \A v \in Parties \ overlooked' : v # u => reputation'[v] = OfUser(v)'
      BY <1>4, <1>9, <2>3, <2>5
  <2> QED BY <2>4, <2>6
<1>14. \A s, q \in Inserted' : SameRater(rating'[s].row, rating'[q].row) => s = q
    BY <1>3 DEF RatingInv
<1> QED BY <1>5, <1>7, <1>8, <1>12, <1>13, <1>14 DEF RatingInv

LEMMA RatingsStep == ASSUME RatingInv, [RatingsNext]_ratingVars PROVE RatingInv'
<1>1. CASE UNCHANGED ratingVars
    BY <1>1 DEF ratingVars, RatingInv, RatingsTypeOK, Inserted, OpenFor, Rated, OfUser
<1>2. CASE RatingsNext
    BY <1>2, DealAgesKeeps, BeginRatingKeeps, InsertRatingKeeps, RejectRatingKeeps, CommitRatingKeeps
    DEF RatingsNext
<1> QED BY <1>1, <1>2

LEMMA ReputationCounts == ASSUME RatingInv PROVE ReputationCountsAll
    BY DEF RatingInv, SameRater, OfUser, ReputationCountsAll

-------------------------------------------------------------------------------
(***************************************************************************)
(* Tickets.  As long as no two writes to a ticket crossed, its messages    *)
(* are in the order of their times, and a reply on its way is later than   *)
(* all of them.                                                            *)
(***************************************************************************)
Messages == [by : Sides, at : Nat]
TicketRows == [status : TicketStatus, set : BOOLEAN, thread : Seq(Messages)]
Replies == [stage : {"reply"}, ticket : TicketIds, by : Sides, at : Nat]
Updates == [stage : {"status"}, ticket : TicketIds, status : TicketStatus]
Busy(r) == desks[r] # Vacant
Kept(t) == tickets[t] # NoTicket

FinalOf(said) == said[Len(said)]
Before(said, time) == \A i \in DOMAIN said : said[i].at < time
InOrder(row) ==
    /\ \A i \in DOMAIN row.thread : i < Len(row.thread) => row.thread[i].at < FinalOf(row.thread).at
    /\ ~row.set => row.status = TurnAfter(FinalOf(row.thread).by)

TicketInv ==
    /\ tickets \in [TicketIds -> TicketRows \cup {NoTicket}]
    /\ desks \in [Desks -> {Vacant} \cup Replies \cup Updates]
    /\ ticks \in Nat /\ crossed \subseteq TicketIds
    /\ \A t \in TicketIds : Kept(t) => tickets[t].thread # <<>> /\ Before(tickets[t].thread, ticks)
    /\ \A r \in Desks : Busy(r) => Kept(desks[r].ticket)
    /\ \A r \in Desks : Busy(r) /\ desks[r].stage = "reply" =>
        /\ desks[r].at < ticks
        /\ desks[r].ticket \notin crossed => Before(tickets[desks[r].ticket].thread, desks[r].at)
    /\ \A t \in TicketIds \ crossed : Kept(t) => InOrder(tickets[t])

LEMMA JobKinds ==
    ASSUME NEW job \in {Vacant} \cup Replies \cup Updates
    PROVE  /\ job = Vacant \/ job \in Replies \/ job \in Updates
           /\ job \in Replies \cup Updates => job # Vacant /\ job.ticket \in TicketIds
           /\ job \in Replies => job.stage = "reply" /\ job.by \in Sides /\ job.at \in Nat
           /\ job \in Updates => job.stage = "status" /\ job.status \in TicketStatus
    BY DEF Vacant, Replies, Updates

LEMMA ThreadTypes ==
    ASSUME NEW said \in Seq(Messages)
    PROVE  /\ Len(said) \in Nat /\ DOMAIN said = 1..Len(said) /\ (said # <<>> => Len(said) > 0)
           /\ \A i \in DOMAIN said : said[i].at \in Nat /\ said[i].by \in Sides
<1>1. Len(said) \in Nat /\ DOMAIN said = 1..Len(said) /\ (said # <<>> => Len(said) > 0)
    BY LenProperties, EmptySeq
<1>2. \A i \in 1..Len(said) : said[i] \in Messages
    BY ElementOfSeq
<1>3. \A m \in Messages : m.at \in Nat /\ m.by \in Sides
    BY DEF Messages
<1> QED BY <1>1, <1>2, <1>3

LEMMA RowKinds ==
    /\ NoTicket \notin TicketRows
    /\ NoTicket.status = "none" /\ NoTicket.thread = <<>> /\ NoTicket.set = FALSE
    BY DEF NoTicket, TicketRows, TicketStatus

LEMMA TicketsStart == ASSUME TicketsInit PROVE TicketInv
<1>1. \A t \in TicketIds : ~Kept(t)
    BY DEF TicketsInit, Kept
<1>2. \A r \in Desks : ~Busy(r)
    BY DEF TicketsInit, Busy
<1> QED BY <1>1, <1>2 DEF TicketsInit, TicketInv

LEMMA CreateTicketKeeps == ASSUME TicketInv, NEW t \in TicketIds, CreateWithInitialMessage(t) PROVE TicketInv'
<1>1. PICK row, first : /\ first = [by |-> "user", at |-> ticks]
                        /\ row = [status |-> "WAITING_SUPPORT", set |-> FALSE, thread |-> <<first>>]
    OBVIOUS
<1>2. /\ row.status = "WAITING_SUPPORT" /\ row.set = FALSE /\ row.thread = <<first>>
      /\ first \in Messages /\ first.by = "user" /\ first.at = ticks /\ row \in TicketRows
    BY <1>1 DEF Messages, TicketRows, TicketStatus, Sides, TicketInv
<1>3. /\ tickets' = [tickets EXCEPT ![t] = row] /\ ticks' = ticks + 1
      /\ desks' = desks /\ crossed' = crossed /\ ~Kept(t)
    BY <1>1 DEF CreateWithInitialMessage, Kept
<1>4. /\ tickets'[t] = row /\ \A s \in TicketIds : s # t => tickets'[s] = tickets[s]
      /\ tickets' \in [TicketIds -> TicketRows \cup {NoTicket}]
    BY <1>2, <1>3 DEF TicketInv
<1>5. /\ row.thread # <<>> /\ DOMAIN row.thread = {1} /\ Len(row.thread) = 1 /\ row.thread[1] = first
    BY <1>2
<1>6. InOrder(row) /\ Before(row.thread, ticks + 1)
  <2>1. TurnAfter("user") = "WAITING_SUPPORT"
      BY DEF TurnAfter
  <2>2. ticks \in Nat
      BY DEF TicketInv
  <2> QED BY <1>2, <1>5, <2>1, <2>2 DEF InOrder, Before, FinalOf
<1>7. \A s \in TicketIds : Kept(s)' <=> s = t \/ Kept(s)
    BY <1>2, <1>4, RowKinds DEF Kept
<1>8. \A s \in TicketIds : Kept(s)' => tickets'[s].thread # <<>> /\ Before(tickets'[s].thread, ticks')
  <2>1. \A s \in TicketIds : s # t /\ Kept(s) => tickets[s].thread # <<>> /\ Before(tickets[s].thread, ticks)
      BY DEF TicketInv
  <2>2. \A s \in TicketIds : s # t /\ Kept(s) => Before(tickets[s].thread, ticks + 1)
    <3> SUFFICES ASSUME NEW s \in TicketIds, s # t, Kept(s), NEW i \in DOMAIN tickets[s].thread
                 PROVE  tickets[s].thread[i].at < ticks + 1
        BY DEF Before
    <3>1. tickets[s].thread \in Seq(Messages)
        BY DEF TicketInv, Kept, TicketRows
    <3>2. tickets[s].thread[i].at \in Nat
        BY <3>1, ThreadTypes
    <3> QED BY <2>1, <3>2 DEF Before, TicketInv
  <2> QED BY <1>3, <1>4, <1>5, <1>6, <1>7, <2>1, <2>2
<1>9. \A r \in Desks : Busy(r) => desks[r].ticket \in TicketIds /\ desks[r].ticket # t
    BY <1>3, JobKinds DEF TicketInv, Busy
<1>10. \A r \in Desks : Busy(r) /\ desks[r].stage = "reply" => desks[r].at \in Nat
    BY JobKinds DEF TicketInv, Busy
<1>11. \A s \in TicketIds \ crossed : Kept(s)' => InOrder(tickets'[s])
    BY <1>4, <1>6, <1>7 DEF TicketInv
<1>12. \A r \in Desks : Busy(r)' <=> Busy(r)
    BY <1>3 DEF Busy
<1>13. \A r \in Desks : Busy(r)' /\ desks'[r].stage = "reply" =>
        /\ desks'[r].at < ticks'
        /\ desks'[r].ticket \notin crossed' => Before(tickets'[desks'[r].ticket].thread, desks'[r].at)
    BY <1>3, <1>4, <1>9, <1>10, <1>12 DEF TicketInv
<1>14. \A r \in Desks : Busy(r)' => Kept(desks[r].ticket)'
    BY <1>3, <1>7, <1>9, <1>12 DEF TicketInv
<1>15. ticks' \in Nat
    BY <1>3 DEF TicketInv
<1> QED BY <1>3, <1>4, <1>8, <1>11, <1>13, <1>14, <1>15 DEF TicketInv, InOrder, Before

\* A handler begins: it has read a ticket there is, and taken the time.
LEMMA OccupyKeeps ==
    ASSUME TicketInv, NEW r \in Desks, NEW job \in Replies \cup Updates, Occupy(r, job),
           \/ job \in Updates /\ ticks' = ticks
           \/ job \in Replies /\ job.at = ticks /\ ticks' = ticks + 1,
           UNCHANGED <<tickets, crossed>>
    PROVE  TicketInv'
<1>1. /\ desks'[r] = job /\ \A s \in Desks : s # r => desks'[s] = desks[s]
      /\ desks' \in [Desks -> {Vacant} \cup Replies \cup Updates]
    BY DEF Occupy, TicketInv
<1>2. job.ticket \in TicketIds /\ Kept(job.ticket) /\ job # Vacant
    BY JobKinds DEF Occupy, Kept
<1>3. ticks \in Nat /\ ticks' \in Nat /\ ticks <= ticks'
    BY DEF TicketInv
<1>4. \A t \in TicketIds : Kept(t) => Before(tickets[t].thread, ticks')
  <2> SUFFICES ASSUME NEW t \in TicketIds, Kept(t), NEW i \in DOMAIN tickets[t].thread
               PROVE  tickets[t].thread[i].at < ticks'
      BY DEF Before
  <2>1. tickets[t].thread \in Seq(Messages)
      BY DEF TicketInv, Kept, TicketRows
  <2>2. tickets[t].thread[i].at \in Nat
      BY <2>1, ThreadTypes
  <2> QED BY <1>3, <2>2 DEF Before, TicketInv
<1>5. \A t \in TicketIds : Kept(t)' <=> Kept(t)
    BY DEF Kept
<1>6. \A s \in Desks : Busy(s)' => Kept(desks[s].ticket)'
  <2> SUFFICES ASSUME NEW s \in Desks, Busy(s)' PROVE Kept(desks[s].ticket)'
      OBVIOUS
  <2>1. CASE s = r
      BY <1>1, <1>2, <2>1 DEF Kept
  <2>2. CASE s # r
      BY <1>1, <2>2 DEF TicketInv, Busy, Kept
  <2> QED BY <2>1, <2>2
<1>7. ASSUME NEW s \in Desks, Busy(s)', desks'[s].stage = "reply"
      PROVE  /\ desks'[s].at < ticks'
             /\ desks'[s].ticket \notin crossed => Before(tickets[desks'[s].ticket].thread, desks'[s].at)
  <2>1. CASE s = r
    <3>1. job \in Replies /\ job.at = ticks /\ ticks' = ticks + 1
        BY <1>1, <1>7, <2>1, JobKinds
    <3>2. Before(tickets[job.ticket].thread, ticks)
        BY <1>2 DEF TicketInv
    <3> QED BY <1>1, <1>3, <2>1, <3>1, <3>2
  <2>2. CASE s # r
    <3>1. Busy(s) /\ desks[s].stage = "reply" /\ desks'[s] = desks[s]
        BY <1>1, <1>7, <2>2 DEF Busy
    <3>2. desks[s].at \in Nat
        BY <3>1, JobKinds DEF TicketInv, Busy
    <3> QED BY <1>3, <3>1, <3>2 DEF TicketInv
  <2> QED BY <2>1, <2>2
<1> QED BY <1>1, <1>3, <1>4, <1>5, <1>6, <1>7 DEF TicketInv, InOrder, Before

LEMMA BeginsKeep ==
    ASSUME TicketInv, NEW r \in Desks, NEW t \in TicketIds,
           \/ \E by \in Sides : BeginReply(r, t, by)
           \/ \E status \in TicketStatus : BeginUpdateStatus(r, t, status)
    PROVE  TicketInv'
<1>1. ASSUME NEW by \in Sides, BeginReply(r, t, by) PROVE TicketInv'
  <2>1. PICK job : job = [stage |-> "reply", ticket |-> t, by |-> by, at |-> ticks]
      OBVIOUS
  <2>2. job \in Replies /\ job.at = ticks
      BY <2>1 DEF Replies, TicketInv
  <2> QED BY <1>1, <2>1, <2>2, OccupyKeeps DEF BeginReply
<1>2. ASSUME NEW status \in TicketStatus, BeginUpdateStatus(r, t, status) PROVE TicketInv'
  <2>1. PICK job : job = [stage |-> "status", ticket |-> t, status |-> status]
      OBVIOUS
  <2>2. job \in Updates
      BY <2>1 DEF Updates
  <2> QED BY <1>2, <2>1, <2>2, OccupyKeeps DEF BeginUpdateStatus
<1> QED BY <1>1, <1>2

\* The row a handler writes.
Written(row, job) ==
    IF job.stage = "reply"
    THEN [status |-> TurnAfter(job.by), set |-> FALSE,
          thread |-> Append(row.thread, [by |-> job.by, at |-> job.at])]
    ELSE [row EXCEPT !.status = job.status, !.set = TRUE]

LEMMA WrittenRow ==
    ASSUME NEW row \in TicketRows, NEW job \in Replies \cup Updates, NEW time \in Nat,
           row.thread # <<>>, Before(row.thread, time), job \in Replies => job.at < time
    PROVE  /\ Written(row, job) \in TicketRows /\ Written(row, job).thread # <<>>
           /\ Before(Written(row, job).thread, time)
           /\ InOrder(row) /\ (job \in Replies => Before(row.thread, job.at)) => InOrder(Written(row, job))
<1>1. CASE job \in Replies
  <2>1. PICK new, message, old : /\ new = Written(row, job) /\ old = row.thread
                                 /\ message = [by |-> job.by, at |-> job.at]
      OBVIOUS
  <2>2. job.stage = "reply" /\ job.by \in Sides /\ job.at \in Nat
      BY <1>1, JobKinds
  <2>3. message \in Messages /\ message.by = job.by /\ message.at = job.at /\ old \in Seq(Messages)
      BY <2>1, <2>2 DEF Messages, TicketRows
  <2>4. new = [status |-> TurnAfter(job.by), set |-> FALSE, thread |-> Append(old, message)]
      BY <2>1, <2>2 DEF Written
  <2>5. new.status = TurnAfter(job.by) /\ new.set = FALSE /\ new.thread = Append(old, message)
      BY <2>4
  <2>6. /\ Append(old, message) \in Seq(Messages) /\ new.thread # <<>> /\ Len(new.thread) = Len(old) + 1
        /\ \A i \in 1..Len(old) : new.thread[i] = old[i]
        /\ new.thread[Len(old) + 1] = message /\ Len(old) \in Nat /\ DOMAIN old = 1..Len(old)
        /\ DOMAIN new.thread = 1..(Len(old) + 1)
      BY <2>3, <2>5, AppendProperties, LenProperties
  <2>7. TurnAfter(job.by) \in TicketStatus
      BY DEF TurnAfter, TicketStatus
  <2>8. new \in TicketRows
      BY <2>4, <2>6, <2>7 DEF TicketRows
  <2>9. Before(new.thread, time)
      BY <1>1, <2>1, <2>3, <2>6 DEF Before
  <2>10. FinalOf(new.thread) = message
      BY <2>6 DEF FinalOf
  <2>11. Before(old, job.at) => InOrder(new)
      BY <2>3, <2>5, <2>6, <2>10 DEF InOrder, Before
  <2> QED BY <1>1, <2>1, <2>6, <2>8, <2>9, <2>11
<1>2. CASE job \in Updates
  <2>1. job.stage = "status" /\ job.status \in TicketStatus
      BY <1>2, JobKinds
  <2>2. PICK new : new = [row EXCEPT !.status = job.status, !.set = TRUE]
      OBVIOUS
  <2>3. new \in TicketRows /\ new.thread = row.thread /\ new.set = TRUE
      BY <2>1, <2>2 DEF TicketRows
  <2>4. Written(row, job) = new /\ job \notin Replies
      BY <1>2, <2>1, <2>2, JobKinds DEF Written
  <2> QED BY <2>3, <2>4 DEF InOrder
<1> QED BY <1>1, <1>2

LEMMA WriteTicketKeeps == ASSUME TicketInv, NEW r \in Desks, WriteTicket(r) PROVE TicketInv'
<1>1. PICK job, t, row : job = desks[r] /\ t = desks[r].ticket /\ row = Written(tickets[t], job)
    OBVIOUS
<1>2. job \in Replies \cup Updates /\ t = job.ticket /\ t \in TicketIds /\ Kept(t) /\ Busy(r)
    BY <1>1, JobKinds DEF WriteTicket, TicketInv, Busy
<1>3. /\ tickets' = [tickets EXCEPT ![t] = row] /\ desks' = [desks EXCEPT ![r] = Vacant]
      /\ crossed' = crossed \cup {w \in {t} : \E s \in Desks \ {r} : Busy(s) /\ desks[s].ticket = w}
      /\ ticks' = ticks
    BY <1>1 DEF WriteTicket, Written, Busy
<1>4. /\ tickets[t] \in TicketRows /\ tickets[t].thread # <<>> /\ Before(tickets[t].thread, ticks)
      /\ ticks \in Nat /\ (job \in Replies => job.at < ticks)
    BY <1>1, <1>2, JobKinds DEF TicketInv, Kept
<1>5. /\ row \in TicketRows /\ row.thread # <<>> /\ Before(row.thread, ticks)
      /\ InOrder(tickets[t]) /\ (job \in Replies => Before(tickets[t].thread, job.at)) => InOrder(row)
    BY <1>1, <1>2, <1>4, WrittenRow
<1>6. /\ tickets'[t] = row /\ \A s \in TicketIds : s # t => tickets'[s] = tickets[s]
      /\ tickets' \in [TicketIds -> TicketRows \cup {NoTicket}]
    BY <1>2, <1>3, <1>5 DEF TicketInv
<1>7. \A s \in TicketIds : Kept(s)' <=> Kept(s)
    BY <1>2, <1>5, <1>6, RowKinds DEF Kept
<1>8. /\ desks' \in [Desks -> {Vacant} \cup Replies \cup Updates]
      /\ \A s \in Desks : Busy(s)' => s # r /\ Busy(s) /\ desks'[s] = desks[s]
    BY <1>3 DEF TicketInv, Busy
<1>9. crossed \subseteq crossed' /\ crossed' \subseteq TicketIds
    BY <1>2, <1>3 DEF TicketInv
<1>10. t \notin crossed' => t \notin crossed /\ InOrder(row)
    BY <1>1, <1>2, <1>5, <1>9, JobKinds DEF TicketInv
<1>11. \A s \in TicketIds \ crossed' : Kept(s)' => InOrder(tickets'[s])
    BY <1>6, <1>7, <1>9, <1>10 DEF TicketInv
<1>12. \A s \in TicketIds : Kept(s)' => tickets'[s].thread # <<>> /\ Before(tickets'[s].thread, ticks)
    BY <1>5, <1>6, <1>7 DEF TicketInv
<1>13. ASSUME NEW s \in Desks, Busy(s)'
       PROVE  /\ Kept(desks[s].ticket)'
              /\ desks'[s].stage = "reply" =>
                    /\ desks'[s].at < ticks
                    /\ desks'[s].ticket \notin crossed' => Before(tickets'[desks'[s].ticket].thread, desks'[s].at)
  <2>1. s # r /\ Busy(s) /\ desks'[s] = desks[s] /\ desks[s].ticket \in TicketIds /\ Kept(desks[s].ticket)
      BY <1>8, <1>13, JobKinds DEF TicketInv, Busy
  <2>2. Kept(desks[s].ticket)'
      BY <1>7, <2>1 DEF Kept
  <2>3. desks[s].ticket \notin crossed' => desks[s].ticket # t /\ desks[s].ticket \notin crossed
      BY <1>3, <2>1
  <2> QED BY <1>6, <2>1, <2>2, <2>3 DEF TicketInv
<1> QED BY <1>3, <1>4, <1>6, <1>8, <1>9, <1>11, <1>12, <1>13 DEF TicketInv, InOrder, Before

LEMMA TicketsStep == ASSUME TicketInv, [TicketsNext]_ticketVars PROVE TicketInv'
<1>1. CASE UNCHANGED ticketVars
    BY <1>1 DEF ticketVars, TicketInv, Kept, Busy, InOrder, Before
<1>2. CASE TicketsNext
    BY <1>2, CreateTicketKeeps, BeginsKeep, WriteTicketKeeps DEF TicketsNext
<1> QED BY <1>1, <1>2

\* Only one message is the last: the one whose time is the latest.
LEMMA TicketsWait == ASSUME TicketInv PROVE TicketWaitsForTheOther
<1> SUFFICES ASSUME NEW t \in TicketIds \ crossed, Kept(t), ~tickets[t].set
             PROVE  tickets[t].status = IF LastBy(t) = "admin" THEN "WAITING_USER" ELSE "WAITING_SUPPORT"
    BY DEF TicketWaitsForTheOther, Kept
<1>1. PICK said : said = tickets[t].thread
    OBVIOUS
<1>2. /\ tickets[t] \in TicketRows /\ said \in Seq(Messages) /\ said # <<>> /\ InOrder(tickets[t])
    BY <1>1 DEF TicketInv, Kept, TicketRows
<1>3. /\ Len(said) \in Nat \ {0} /\ DOMAIN said = 1..Len(said)
      /\ \A i \in 1..Len(said) : said[i].at \in Nat /\ said[i].by \in Sides
    BY <1>2, ThreadTypes
<1>4. \A i \in 1..Len(said) : i < Len(said) => said[i].at < said[Len(said)].at
    BY <1>1, <1>2, <1>3 DEF InOrder, FinalOf
<1>5. \A i \in 1..Len(said) :
        (\A j \in 1..Len(said) : said[j].at <= said[i].at) <=> i = Len(said)
  <2> SUFFICES ASSUME NEW i \in 1..Len(said)
               PROVE  (\A j \in 1..Len(said) : said[j].at <= said[i].at) <=> i = Len(said)
      OBVIOUS
  <2>1. CASE i = Len(said)
    <3>1. ASSUME NEW j \in 1..Len(said) PROVE said[j].at <= said[i].at
        BY <1>3, <1>4, <2>1
    <3> QED BY <2>1, <3>1
  <2>2. CASE i < Len(said)
    <3>1. Len(said) \in 1..Len(said) /\ said[i].at < said[Len(said)].at
        BY <1>3, <1>4, <2>2
    <3>2. ~(said[Len(said)].at <= said[i].at)
        BY <1>3, <3>1
    <3>3. i # Len(said)
      <4>1. Len(said) \in Nat
          BY <1>3
      <4> QED BY <2>2, <4>1
    <3>4. \E j \in 1..Len(said) : ~(said[j].at <= said[i].at)
        BY <3>1, <3>2, Zenon
    <3> QED BY <3>3, <3>4, Zenon
  <2>3. i = Len(said) \/ i < Len(said)
    <3>1. Len(said) \in Nat
        BY <1>3
    <3> QED BY <3>1
  <2> QED BY <2>1, <2>2, <2>3
<1>6. LastBy(t) = CHOOSE by \in Sides : said[Len(said)].by = by
  <2>1. \A by \in Sides :
            (\E i \in DOMAIN said : /\ said[i].by = by
                                      /\ \A j \in DOMAIN said : said[j].at <= said[i].at)
            <=> said[Len(said)].by = by
    <3>1. Len(said) \in DOMAIN said
        BY <1>3
    <3>2. \A i \in DOMAIN said :
            (\A j \in DOMAIN said : said[j].at <= said[i].at) <=> i = Len(said)
        BY <1>3, <1>5
    <3> QED BY <3>1, <3>2
  <2> QED BY <1>1, <2>1 DEF LastBy
<1>7. LastBy(t) = said[Len(said)].by
    BY <1>3, <1>6
<1> QED BY <1>1, <1>2, <1>7 DEF InOrder, FinalOf, TurnAfter

LEMMA TicketTypes == ASSUME TicketInv PROVE TicketsTypeOK
    BY DEF TicketInv, TicketsTypeOK, TicketRows, Messages, Replies, Updates

-------------------------------------------------------------------------------
(***************************************************************************)
(* RequestThrottle.  What the window of a caller says of the requests he   *)
(* made: h are his requests and w is his window, at the time given.        *)
(***************************************************************************)
Hits == [at : 1..Horizon, result : {"let", "over", "blocked"}]
Windows == [total : Nat, expires : Nat, blocked : Nat]
With(h, result) == {i \in DOMAIN h : h[i].result = result}

\* Requests let through in the window that expires at e, and less than Ttl before it.
Inside(h, e) == {i \in With(h, "let") : h[i].at + Ttl >= e}
Ahead(h, e) == {i \in With(h, "let") : h[i].at + Ttl < e /\ e < h[i].at + Ttl + Ttl}
Lately(h, time) == {i \in With(h, "let") : h[i].at + Ttl > time}

\* Whoever is blocked went over the limit, and a block lasts as long as the window.
BlocksOnRecord(h, w, time) ==
    /\ \A i \in With(h, "over") : h[i].at + Ttl <= w.blocked \/ h[i].at + Ttl <= time
    /\ w.blocked > time => \E i \in With(h, "over") : h[i].at + Ttl = w.blocked
    /\ w.blocked = 0 \/ w.expires <= w.blocked

\* A window that counts has counted the last requests.
CountsTheLast(h, w, time) ==
    w.expires > time /\ w.blocked = 0 =>
        /\ w.total <= HitLimit /\ w.total <= Len(h) /\ Cardinality(Inside(h, w.expires)) <= w.total
        /\ \A i \in DOMAIN h : i > Len(h) - w.total => h[i].at + Ttl >= w.expires

\* No window and none of the times before it has seen more than the limit.
KeepsTheLimit(h, w, time) ==
    IF w.expires > time \/ w.blocked > time
    THEN Cardinality(Inside(h, w.expires)) <= HitLimit /\ Cardinality(Ahead(h, w.expires)) <= HitLimit
    ELSE Cardinality(Lately(h, time)) <= HitLimit /\ \A i \in With(h, "let") : h[i].at < time

Fits(h, w, time) ==
    /\ \A i \in DOMAIN h : h[i].at <= time
    /\ w.expires <= time + Ttl
    /\ BlocksOnRecord(h, w, time) /\ CountsTheLast(h, w, time) /\ KeepsTheLimit(h, w, time)

TurnedAwayRightly(h) ==
    /\ \A i \in With(h, "over") :
        /\ Cardinality({j \in 1..i : h[j].at + Ttl > h[i].at}) > HitLimit
        /\ \A j \in With(h, "let") : j > i => h[j].at >= h[i].at + Ttl
    /\ \A i \in With(h, "blocked") : \E j \in With(h, "over") : j < i /\ h[i].at < h[j].at + Ttl
LetThrough(h, t) == {i \in With(h, "let") : h[i].at \in t..(t + Ttl - 1)}

ThrottleInv ==
    /\ now \in 1..Horizon
    /\ windows \in [Callers -> Windows]
    /\ hits \in [Callers -> Seq(Hits)]
    /\ \A c \in Callers :
        /\ Fits(hits[c], windows[c], now) /\ TurnedAwayRightly(hits[c])
        /\ \A t \in 1..Horizon : Cardinality(LetThrough(hits[c], t)) <= 2 * HitLimit

LEMMA HitTypes ==
    ASSUME NEW h \in Seq(Hits)
    PROVE  /\ Len(h) \in Nat /\ DOMAIN h = 1..Len(h)
           /\ \A i \in DOMAIN h : h[i].at \in Nat /\ h[i].at >= 1 /\ h[i].result \in {"let", "over", "blocked"}
<1>1. Len(h) \in Nat /\ DOMAIN h = 1..Len(h)
    BY LenProperties
<1>2. \A i \in 1..Len(h) : h[i] \in Hits
    BY ElementOfSeq
<1>3. \A x \in Hits : x.at \in Nat /\ x.at >= 1 /\ x.result \in {"let", "over", "blocked"}
    BY DEF Hits
<1> QED BY <1>1, <1>2, <1>3

\* Any of a caller's requests are finitely many.
LEMMA Countable ==
    ASSUME NEW h \in Seq(Hits), NEW some \in SUBSET DOMAIN h
    PROVE  IsFiniteSet(some) /\ Cardinality(some) \in Nat
<1>1. IsFiniteSet(DOMAIN h)
    BY HitTypes, FS_Interval
<1>2. IsFiniteSet(some)
    BY <1>1, FS_Subset
<1> QED BY <1>2, FS_CardinalityType

LEMMA FewerAreFewer ==
    ASSUME NEW h \in Seq(Hits), NEW some \in SUBSET DOMAIN h, NEW fewer \in SUBSET some
    PROVE  Cardinality(fewer) <= Cardinality(some) /\ Cardinality(fewer) \in Nat /\ Cardinality(some) \in Nat
    BY Countable, FS_Subset

LEMMA LetSets ==
    ASSUME NEW h, NEW e
    PROVE  /\ With(h, "let") \subseteq DOMAIN h
           /\ Inside(h, e) \subseteq With(h, "let") /\ Ahead(h, e) \subseteq With(h, "let")
           /\ Lately(h, e) \subseteq With(h, "let") /\ LetThrough(h, e) \subseteq With(h, "let")
    BY DEF With, Inside, Ahead, Lately, LetThrough

\* Time passes.
LEMMA FitsLater ==
    ASSUME NEW h \in Seq(Hits), NEW w \in Windows, NEW time \in Nat, Fits(h, w, time)
    PROVE  Fits(h, w, time + 1)
<1>0. w.total \in Nat /\ w.expires \in Nat /\ w.blocked \in Nat /\ Ttl \in Nat \ {0} /\ HitLimit \in Nat
    BY ThrottleAssumption DEF Windows
<1>1. \A i \in DOMAIN h : h[i].at \in Nat /\ h[i].at <= time
    BY HitTypes DEF Fits
<1>2. \A i \in With(h, "let") : h[i].at \in Nat /\ h[i].at <= time
    BY <1>1 DEF With
<1>3. BlocksOnRecord(h, w, time + 1)
  <2>1. \A i \in With(h, "over") : h[i].at \in Nat
      BY <1>1 DEF With
  <2> QED BY <1>0, <2>1 DEF Fits, BlocksOnRecord
<1>4. CountsTheLast(h, w, time + 1)
    BY <1>0 DEF Fits, CountsTheLast
<1>5. KeepsTheLimit(h, w, time + 1)
  <2>1. CASE w.expires > time + 1 \/ w.blocked > time + 1
      BY <1>0, <2>1 DEF Fits, KeepsTheLimit
  <2>2. CASE ~(w.expires > time + 1 \/ w.blocked > time + 1)
    <3>1. \A i \in With(h, "let") : h[i].at < time + 1
        BY <1>2
    <3>2. Cardinality(Lately(h, time + 1)) <= HitLimit
      <4>1. CASE w.expires > time \/ w.blocked > time
        <5>1. Lately(h, time + 1) \subseteq Inside(h, w.expires)
            BY <1>0, <1>2, <2>2 DEF Lately, Inside
        <5>2. Cardinality(Lately(h, time + 1)) <= Cardinality(Inside(h, w.expires))
              /\ Cardinality(Lately(h, time + 1)) \in Nat /\ Cardinality(Inside(h, w.expires)) \in Nat
            BY <5>1, LetSets, FewerAreFewer
        <5>3. Cardinality(Inside(h, w.expires)) <= HitLimit
            BY <4>1 DEF Fits, KeepsTheLimit
        <5> QED BY <1>0, <5>2, <5>3
      <4>2. CASE ~(w.expires > time \/ w.blocked > time)
        <5>1. Lately(h, time + 1) \subseteq Lately(h, time)
            BY <1>0, <1>2 DEF Lately
        <5>2. Cardinality(Lately(h, time + 1)) <= Cardinality(Lately(h, time))
              /\ Cardinality(Lately(h, time + 1)) \in Nat /\ Cardinality(Lately(h, time)) \in Nat
            BY <5>1, LetSets, FewerAreFewer
        <5>3. Cardinality(Lately(h, time)) <= HitLimit
            BY <4>2 DEF Fits, KeepsTheLimit
        <5> QED BY <1>0, <5>2, <5>3
      <4> QED BY <4>1, <4>2
    <3> QED BY <2>2, <3>1, <3>2 DEF KeepsTheLimit
  <2> QED BY <2>1, <2>2
<1>6. \A i \in DOMAIN h : h[i].at <= time + 1
    BY <1>1
<1>7. w.expires <= time + 1 + Ttl
    BY <1>0 DEF Fits
<1> QED BY <1>3, <1>4, <1>5, <1>6, <1>7 DEF Fits

\* A window that has run out is dropped, or another one is opened.
LEMMA FitsRenewed ==
    ASSUME NEW h \in Seq(Hits), NEW w \in Windows, NEW time \in Nat \ {0}, Fits(h, w, time),
           w.expires <= time, w.blocked <= time,
           NEW v \in Windows, v.total = 0, v.blocked = 0, v.expires \in {0, time + Ttl}
    PROVE  Fits(h, v, time)
<1>0. w.total \in Nat /\ w.expires \in Nat /\ w.blocked \in Nat /\ Ttl \in Nat \ {0} /\ HitLimit \in Nat
    BY ThrottleAssumption DEF Windows
<1>1. Cardinality(Lately(h, time)) <= HitLimit /\ \A i \in With(h, "let") : h[i].at < time
    BY <1>0 DEF Fits, KeepsTheLimit
<1>2. \A i \in With(h, "let") : h[i].at \in Nat
    BY HitTypes, LetSets
<1>3. \A i \in With(h, "over") : h[i].at + Ttl <= time
  <2>1. \A i \in With(h, "over") : h[i].at \in Nat
      BY HitTypes DEF With
  <2> QED BY <1>0, <2>1 DEF Fits, BlocksOnRecord
<1>4. BlocksOnRecord(h, v, time)
    BY <1>3 DEF BlocksOnRecord
<1>5. v.expires = time + Ttl => Inside(h, v.expires) = {} /\ Ahead(h, v.expires) \subseteq Lately(h, time)
    BY <1>0, <1>1, <1>2 DEF Inside, Ahead, Lately
<1>6. CASE v.expires = 0
  <2>1. ~(v.expires > time) /\ ~(v.blocked > time) /\ v.expires <= time + Ttl
      BY <1>0, <1>6
  <2> QED BY <1>1, <1>4, <2>1 DEF Fits, CountsTheLast, KeepsTheLimit
<1>7. CASE v.expires = time + Ttl
  <2>1. Cardinality(Inside(h, v.expires)) = 0
      BY <1>5, <1>7, FS_EmptySet
  <2>2. Cardinality(Ahead(h, v.expires)) <= Cardinality(Lately(h, time))
        /\ Cardinality(Ahead(h, v.expires)) \in Nat /\ Cardinality(Lately(h, time)) \in Nat
      BY <1>5, <1>7, LetSets, FewerAreFewer
  <2>3. KeepsTheLimit(h, v, time)
      BY <1>0, <1>1, <1>7, <2>1, <2>2 DEF KeepsTheLimit
  <2>4. Len(h) \in Nat /\ DOMAIN h = 1..Len(h)
      BY HitTypes
  <2>5. CountsTheLast(h, v, time)
      BY <1>0, <2>1, <2>4 DEF CountsTheLast
  <2> QED BY <1>0, <1>4, <1>7, <2>3, <2>5 DEF Fits
<1> QED BY <1>6, <1>7

\* One more request, and what changes with it.
Grew(h, hit, more) ==
    /\ more \in Seq(Hits) /\ Len(h) \in Nat /\ Len(more) = Len(h) + 1
    /\ DOMAIN h = 1..Len(h) /\ DOMAIN more = DOMAIN h \cup {Len(h) + 1} /\ Len(h) + 1 \notin DOMAIN h
    /\ more[Len(h) + 1] = hit /\ \A i \in DOMAIN h : more[i] = h[i]
    /\ \A result : result = hit.result => With(more, result) = With(h, result) \cup {Len(h) + 1}
    /\ \A result : result # hit.result => With(more, result) = With(h, result)

LEMMA OneMore ==
    ASSUME NEW h \in Seq(Hits), NEW hit \in Hits, NEW more, more = Append(h, hit)
    PROVE  Grew(h, hit, more)
<1>1. /\ more \in Seq(Hits) /\ Len(h) \in Nat /\ Len(more) = Len(h) + 1
      /\ DOMAIN h = 1..Len(h) /\ DOMAIN more = 1..(Len(h) + 1)
      /\ more[Len(h) + 1] = hit /\ \A i \in 1..Len(h) : more[i] = h[i]
    BY AppendProperties, LenProperties
<1>2. DOMAIN more = DOMAIN h \cup {Len(h) + 1} /\ Len(h) + 1 \notin DOMAIN h
    BY <1>1
<1>3. \A result : result = hit.result => With(more, result) = With(h, result) \cup {Len(h) + 1}
    BY <1>1, <1>2 DEF With
<1>4. \A result : result # hit.result => With(more, result) = With(h, result)
    BY <1>1, <1>2 DEF With
<1> QED BY <1>1, <1>2, <1>3, <1>4 DEF Grew

\* What was turned away so far was turned away rightly, whatever comes after it.
LEMMA StillRightly ==
    ASSUME NEW h \in Seq(Hits), NEW hit \in Hits, NEW more, more = Append(h, hit), TurnedAwayRightly(h),
           \A i \in DOMAIN h : h[i].at <= hit.at,
           hit.result = "over" => Cardinality({j \in DOMAIN more : more[j].at + Ttl > hit.at}) > HitLimit,
           hit.result = "blocked" => \E j \in With(h, "over") : hit.at < h[j].at + Ttl,
           hit.result = "let" => \A i \in With(h, "over") : h[i].at + Ttl <= hit.at
    PROVE  TurnedAwayRightly(more)
<1>1. /\ Len(h) \in Nat /\ DOMAIN h = 1..Len(h) /\ DOMAIN more = DOMAIN h \cup {Len(h) + 1} /\ Len(h) + 1 \notin DOMAIN h
      /\ more[Len(h) + 1] = hit /\ \A i \in DOMAIN h : more[i] = h[i]
      /\ \A result : result = hit.result => With(more, result) = With(h, result) \cup {Len(h) + 1}
      /\ \A result : result # hit.result => With(more, result) = With(h, result)
  <2>1. Grew(h, hit, more)
      BY OneMore
  <2> QED BY <2>1 DEF Grew
<1>2. \A result : With(h, result) \subseteq DOMAIN h
    BY DEF With
<1>3. ASSUME NEW i \in With(more, "over")
      PROVE  /\ Cardinality({j \in 1..i : more[j].at + Ttl > more[i].at}) > HitLimit
             /\ \A j \in With(more, "let") : j > i => more[j].at >= more[i].at + Ttl
  <2>1. CASE i = Len(h) + 1
    <3>1. hit.result = "over"
        BY <1>1, <1>2, <1>3, <2>1
    <3>2. 1..i = DOMAIN more /\ more[i] = hit
        BY <1>1, <2>1
    <3>3. \A j \in With(more, "let") : ~(j > i)
        BY <1>1, <1>2, <2>1, <3>1
    <3>4. {j \in 1..i : more[j].at + Ttl > more[i].at} = {j \in DOMAIN more : more[j].at + Ttl > hit.at}
        BY <3>2
    <3> QED BY <3>1, <3>3, <3>4
  <2>2. CASE i # Len(h) + 1
    <3>1. i \in With(h, "over") /\ i \in DOMAIN h /\ more[i] = h[i]
        BY <1>1, <1>2, <1>3, <2>2
    <3>2. \A j \in 1..i : j \in DOMAIN h /\ more[j] = h[j]
        BY <1>1, <3>1
    <3>3. {j \in 1..i : more[j].at + Ttl > more[i].at} = {j \in 1..i : h[j].at + Ttl > h[i].at}
        BY <3>1, <3>2
    <3>4. ASSUME NEW j \in With(more, "let"), j > i PROVE more[j].at >= more[i].at + Ttl
      <4>1. CASE j \in With(h, "let")
          BY <1>1, <1>2, <3>1, <3>4, <4>1 DEF TurnedAwayRightly
      <4>2. CASE j \notin With(h, "let")
        <5>1. hit.result = "let" /\ j = Len(h) + 1
            BY <1>1, <3>4, <4>2
        <5>2. h[i].at + Ttl <= hit.at /\ h[i].at \in Nat /\ hit.at \in Nat /\ Ttl \in Nat
          <6>1. \A x \in Hits : x.at \in Nat
              BY DEF Hits
          <6> QED BY <3>1, <5>1, <6>1, HitTypes, ThrottleAssumption
        <5> QED BY <1>1, <3>1, <5>1, <5>2
      <4> QED BY <4>1, <4>2
    <3> QED BY <3>1, <3>3, <3>4 DEF TurnedAwayRightly
  <2> QED BY <2>1, <2>2
<1>4. ASSUME NEW i \in With(more, "blocked")
      PROVE  \E j \in With(more, "over") : j < i /\ more[i].at < more[j].at + Ttl
  <2>1. CASE i \in With(h, "blocked")
    <3>1. PICK j \in With(h, "over") : j < i /\ h[i].at < h[j].at + Ttl
        BY <2>1 DEF TurnedAwayRightly
    <3>2. j \in With(more, "over") /\ more[j] = h[j] /\ more[i] = h[i]
        BY <1>1, <1>2, <2>1
    <3> QED BY <3>1, <3>2
  <2>2. CASE i \notin With(h, "blocked")
    <3>1. hit.result = "blocked" /\ i = Len(h) + 1
        BY <1>1, <1>4, <2>2
    <3>2. PICK j \in With(h, "over") : hit.at < h[j].at + Ttl
        BY <3>1
    <3>3. j \in With(more, "over") /\ more[j] = h[j] /\ j < i
        BY <1>1, <1>2, <3>1
    <3> QED BY <1>1, <3>1, <3>2, <3>3
  <2> QED BY <2>1, <2>2
<1> QED BY <1>3, <1>4 DEF TurnedAwayRightly

\* A request that is not let through changes nothing about those that are.
SameLets(h, more) ==
    /\ With(more, "let") = With(h, "let")
    /\ \A e : /\ Inside(more, e) = Inside(h, e) /\ Ahead(more, e) = Ahead(h, e)
              /\ Lately(more, e) = Lately(h, e) /\ LetThrough(more, e) = LetThrough(h, e)

LEMMA LetsUnchanged ==
    ASSUME NEW h \in Seq(Hits), NEW hit \in Hits, NEW more, more = Append(h, hit), hit.result # "let"
    PROVE  SameLets(h, more)
<1>1. With(more, "let") = With(h, "let") /\ \A i \in With(h, "let") : more[i] = h[i]
  <2>1. Grew(h, hit, more)
      BY OneMore
  <2>2. With(more, "let") = With(h, "let")
      BY <2>1 DEF Grew
  <2>3. \A i \in With(h, "let") : i \in DOMAIN h
      BY LetSets
  <2> QED BY <2>1, <2>2, <2>3 DEF Grew
<1> QED BY <1>1 DEF SameLets, Inside, Ahead, Lately, LetThrough

LEMMA BlockedHit ==
    ASSUME NEW h \in Seq(Hits), NEW w \in Windows, NEW time \in 1..Horizon, w.blocked > time,
           Fits(h, w, time), TurnedAwayRightly(h),
           NEW more, more = Append(h, [at |-> time, result |-> "blocked"])
    PROVE  Fits(more, w, time) /\ TurnedAwayRightly(more)
<1>0. w.total \in Nat /\ w.expires \in Nat /\ w.blocked \in Nat /\ Ttl \in Nat \ {0} /\ HitLimit \in Nat
    BY ThrottleAssumption DEF Windows
<1>1. PICK hit : hit = [at |-> time, result |-> "blocked"]
    OBVIOUS
<1>2. hit \in Hits /\ hit.at = time /\ hit.result = "blocked" /\ more = Append(h, hit)
    BY <1>1 DEF Hits
<1>3. Grew(h, hit, more)
    BY <1>2, OneMore
<1>4. /\ With(more, "let") = With(h, "let")
      /\ \A e : Inside(more, e) = Inside(h, e) /\ Ahead(more, e) = Ahead(h, e)
  <2>1. SameLets(h, more)
      BY <1>2, LetsUnchanged
  <2> QED BY <2>1 DEF SameLets
<1>5. With(more, "over") = With(h, "over") /\ \A i \in With(h, "over") : more[i] = h[i]
    BY <1>2, <1>3 DEF Grew, With
<1>6. PICK j \in With(h, "over") : h[j].at + Ttl = w.blocked
    BY DEF Fits, BlocksOnRecord
<1>7. TurnedAwayRightly(more)
  <2>1. hit.at < h[j].at + Ttl
      BY <1>0, <1>2, <1>6
  <2>2. \A i \in DOMAIN h : h[i].at <= hit.at
      BY <1>2 DEF Fits
  <2> QED BY <1>2, <2>1, <2>2, StillRightly
<1>8. BlocksOnRecord(more, w, time)
    BY <1>5 DEF Fits, BlocksOnRecord
<1>9. KeepsTheLimit(more, w, time)
    BY <1>4 DEF Fits, KeepsTheLimit
<1>10. CountsTheLast(more, w, time)
    BY <1>0 DEF CountsTheLast
<1>11. \A i \in DOMAIN more : more[i].at <= time
    BY <1>2, <1>3 DEF Grew, Fits
<1> QED BY <1>7, <1>8, <1>9, <1>10, <1>11 DEF Fits

\* The last requests of a window that counts, and one more.
LEMMA Overflows ==
    ASSUME NEW h \in Seq(Hits), NEW w \in Windows, NEW time \in 1..Horizon, w.blocked = 0, w.expires > time,
           Fits(h, w, time), w.total + 1 > HitLimit,
           NEW hit \in Hits, hit.at = time, NEW more, more = Append(h, hit)
    PROVE  Cardinality({j \in DOMAIN more : more[j].at + Ttl > hit.at}) > HitLimit
<1>0. w.total \in Nat /\ w.expires \in Nat /\ Ttl \in Nat \ {0} /\ HitLimit \in Nat /\ time \in Nat
    BY ThrottleAssumption DEF Windows
<1>1. Grew(h, hit, more)
    BY OneMore
<1>2. /\ Len(h) \in Nat /\ DOMAIN h = 1..Len(h) /\ DOMAIN more = 1..(Len(h) + 1)
      /\ more[Len(h) + 1] = hit /\ more \in Seq(Hits) /\ \A i \in DOMAIN h : more[i] = h[i]
    BY <1>1 DEF Grew
<1>3. w.total <= Len(h) /\ \A i \in DOMAIN h : i > Len(h) - w.total => h[i].at + Ttl >= w.expires
    BY DEF Fits, CountsTheLast
<1>4. PICK first : first = Len(h) + 1 - w.total
    OBVIOUS
<1>5. first \in Int /\ first >= 1 /\ first <= Len(h) + 1
    BY <1>0, <1>2, <1>3, <1>4
<1>6. Cardinality(first..(Len(h) + 1)) = w.total + 1
  <2>1. Len(h) + 1 \in Int
      BY <1>2
  <2>2. Cardinality(first..(Len(h) + 1)) = IF first > Len(h) + 1 THEN 0 ELSE (Len(h) + 1) - first + 1
      BY <1>5, <2>1, FS_Interval
  <2>3. ~(first > Len(h) + 1) /\ (Len(h) + 1) - first + 1 = w.total + 1
      BY <1>0, <1>2, <1>4, <1>5
  <2> QED BY <2>2, <2>3
<1>7. ASSUME NEW i \in first..(Len(h) + 1) PROVE i \in DOMAIN more /\ more[i].at + Ttl > hit.at
  <2>1. CASE i = Len(h) + 1
      BY <1>0, <1>2, <2>1
  <2>2. CASE i # Len(h) + 1
    <3>1. i \in DOMAIN h /\ i > Len(h) - w.total
        BY <1>0, <1>2, <1>4, <1>5, <2>2
    <3>2. h[i].at \in Nat /\ h[i].at + Ttl >= w.expires /\ more[i] = h[i] /\ i \in DOMAIN more
        BY <1>2, <1>3, <3>1, HitTypes
    <3> QED BY <1>0, <3>2
  <2> QED BY <2>1, <2>2
<1>8. PICK all : all = {j \in DOMAIN more : more[j].at + Ttl > hit.at}
    OBVIOUS
<1>9. first..(Len(h) + 1) \subseteq all /\ all \subseteq DOMAIN more
    BY <1>7, <1>8
<1>10. Cardinality(first..(Len(h) + 1)) <= Cardinality(all) /\ Cardinality(all) \in Nat
    BY <1>2, <1>9, FewerAreFewer
<1>11. Cardinality(all) > HitLimit
    BY <1>0, <1>6, <1>10
<1> QED BY <1>8, <1>11, Zenon

LEMMA OverHit ==
    ASSUME NEW h \in Seq(Hits), NEW w \in Windows, NEW time \in 1..Horizon, w.blocked = 0, w.expires > time,
           Fits(h, w, time), TurnedAwayRightly(h), w.total + 1 > HitLimit,
           NEW more, more = Append(h, [at |-> time, result |-> "over"]),
           NEW v \in Windows, v.expires = w.expires, v.blocked = time + Ttl
    PROVE  Fits(more, v, time) /\ TurnedAwayRightly(more)
<1>0. /\ w.total \in Nat /\ w.expires \in Nat /\ Ttl \in Nat \ {0} /\ HitLimit \in Nat
      /\ time \in Nat /\ v.expires \in Nat /\ v.blocked \in Nat
    BY ThrottleAssumption DEF Windows
<1>1. PICK hit : hit = [at |-> time, result |-> "over"]
    OBVIOUS
<1>2. hit \in Hits /\ hit.at = time /\ hit.result = "over" /\ more = Append(h, hit)
    BY <1>1 DEF Hits
<1>3. Grew(h, hit, more)
    BY <1>2, OneMore
<1>4. /\ With(more, "let") = With(h, "let")
      /\ \A e : Inside(more, e) = Inside(h, e) /\ Ahead(more, e) = Ahead(h, e)
  <2>1. SameLets(h, more)
      BY <1>2, LetsUnchanged
  <2> QED BY <2>1 DEF SameLets
<1>5. TurnedAwayRightly(more)
  <2>1. Cardinality({j \in DOMAIN more : more[j].at + Ttl > hit.at}) > HitLimit
      BY <1>2, Overflows
  <2>2. \A i \in DOMAIN h : h[i].at <= hit.at
      BY <1>2 DEF Fits
  <2> QED BY <1>2, <2>1, <2>2, StillRightly
<1>6. Len(h) + 1 \in With(more, "over") /\ more[Len(h) + 1] = hit
    BY <1>2, <1>3 DEF Grew
<1>7. \A i \in With(more, "over") : more[i].at + Ttl <= v.blocked
  <2>1. \A i \in DOMAIN more : more[i].at <= time /\ more[i].at \in Nat
      BY <1>2, <1>3, HitTypes DEF Grew, Fits
  <2> QED BY <1>0, <2>1 DEF With
<1>8. BlocksOnRecord(more, v, time)
  <2>1. v.expires <= v.blocked
      BY DEF Fits
  <2> QED BY <1>2, <1>6, <1>7, <2>1 DEF BlocksOnRecord
<1>9. KeepsTheLimit(more, v, time)
    BY <1>0, <1>4 DEF Fits, KeepsTheLimit
<1>10. CountsTheLast(more, v, time)
    BY <1>0 DEF CountsTheLast
<1>11. \A i \in DOMAIN more : more[i].at <= time
    BY <1>0, <1>2, <1>3 DEF Grew, Fits
<1>12. v.expires <= time + Ttl
    BY DEF Fits
<1> QED BY <1>5, <1>8, <1>9, <1>10, <1>11, <1>12 DEF Fits

LEMMA LetHit ==
    ASSUME NEW h \in Seq(Hits), NEW w \in Windows, NEW time \in 1..Horizon, w.blocked = 0, w.expires > time,
           Fits(h, w, time), TurnedAwayRightly(h), w.total + 1 <= HitLimit,
           \A t \in 1..Horizon : Cardinality(LetThrough(h, t)) <= 2 * HitLimit,
           NEW more, more = Append(h, [at |-> time, result |-> "let"]),
           NEW v \in Windows, v.expires = w.expires, v.blocked = 0, v.total = w.total + 1
    PROVE  /\ Fits(more, v, time) /\ TurnedAwayRightly(more)
           /\ \A t \in 1..Horizon : Cardinality(LetThrough(more, t)) <= 2 * HitLimit
<1>0. /\ w.total \in Nat /\ w.expires \in Nat /\ Ttl \in Nat \ {0} /\ HitLimit \in Nat
      /\ time \in Nat /\ Horizon \in Nat /\ w.expires <= time + Ttl
    BY ThrottleAssumption DEF Windows, Fits
<1>1. PICK hit : hit = [at |-> time, result |-> "let"]
    OBVIOUS
<1>2. hit \in Hits /\ hit.at = time /\ hit.result = "let" /\ more = Append(h, hit)
    BY <1>1 DEF Hits
<1>3. Grew(h, hit, more)
    BY <1>2, OneMore
<1>4. /\ more \in Seq(Hits) /\ Len(h) \in Nat /\ Len(more) = Len(h) + 1 /\ DOMAIN h = 1..Len(h)
      /\ DOMAIN more = DOMAIN h \cup {Len(h) + 1} /\ Len(h) + 1 \notin DOMAIN h
      /\ more[Len(h) + 1] = hit /\ \A i \in DOMAIN h : more[i] = h[i]
    BY <1>3 DEF Grew
<1>5. With(more, "let") = With(h, "let") \cup {Len(h) + 1}
    BY <1>2, <1>3 DEF Grew
<1>6. With(more, "over") = With(h, "over")
    BY <1>2, <1>3 DEF Grew
<1>7. \A i \in DOMAIN h : h[i].at \in Nat /\ h[i].at <= time
    BY HitTypes DEF Fits
<1>8. \A i \in With(h, "let") : i \in DOMAIN h /\ more[i] = h[i] /\ h[i].at \in Nat /\ h[i].at <= time
    BY <1>4, <1>7, LetSets
<1>9. \A i \in With(h, "over") : h[i].at + Ttl <= time /\ more[i] = h[i]
  <2>1. \A i \in With(h, "over") : i \in DOMAIN h
      BY DEF With
  <2> QED BY <1>0, <1>4, <1>7, <2>1 DEF Fits, BlocksOnRecord
<1>10. TurnedAwayRightly(more)
  <2>1. \A i \in With(h, "over") : h[i].at + Ttl <= hit.at
      BY <1>2, <1>9
  <2>2. \A i \in DOMAIN h : h[i].at <= hit.at
      BY <1>2 DEF Fits
  <2> QED BY <1>2, <2>1, <2>2, StillRightly
<1>11. BlocksOnRecord(more, v, time)
  <2>1. \A i \in With(more, "over") : more[i].at + Ttl <= time
      BY <1>6, <1>9
  <2>2. ~(v.blocked > time)
      BY <1>0
  <2> QED BY <2>1, <2>2 DEF BlocksOnRecord
<1>12. Inside(more, w.expires) = Inside(h, w.expires) \cup {Len(h) + 1}
    BY <1>0, <1>2, <1>4, <1>5, <1>8 DEF Inside
<1>13. Ahead(more, w.expires) = Ahead(h, w.expires)
  <2>1. ~(hit.at + Ttl < w.expires)
      BY <1>0, <1>2
  <2> QED BY <1>4, <1>5, <1>8, <2>1 DEF Ahead
<1>14. /\ Cardinality(Inside(h, w.expires)) <= w.total /\ w.total <= Len(h)
       /\ \A i \in DOMAIN h : i > Len(h) - w.total => h[i].at + Ttl >= w.expires
    BY DEF Fits, CountsTheLast
<1>15. Cardinality(Inside(more, w.expires)) <= w.total + 1 /\ IsFiniteSet(Inside(more, w.expires))
       /\ Cardinality(Inside(more, w.expires)) \in Nat
  <2>1. Inside(h, w.expires) \subseteq DOMAIN h
      BY LetSets
  <2>2. IsFiniteSet(Inside(h, w.expires)) /\ Cardinality(Inside(h, w.expires)) \in Nat
      BY <2>1, Countable
  <2>3. Len(h) + 1 \notin Inside(h, w.expires)
      BY <1>4, <2>1
  <2>4. Cardinality(Inside(more, w.expires)) = Cardinality(Inside(h, w.expires)) + 1
        /\ IsFiniteSet(Inside(more, w.expires))
      BY <1>12, <2>2, <2>3, FS_AddElement
  <2> QED BY <1>0, <1>14, <2>2, <2>4
<1>16. Cardinality(Ahead(more, w.expires)) <= HitLimit
    BY <1>0, <1>13 DEF Fits, KeepsTheLimit
<1>17. KeepsTheLimit(more, v, time)
    BY <1>0, <1>15, <1>16 DEF KeepsTheLimit
<1>18. CountsTheLast(more, v, time)
  <2>1. ASSUME NEW i \in DOMAIN more, i > Len(more) - v.total PROVE more[i].at + Ttl >= v.expires
    <3>1. CASE i = Len(h) + 1
        BY <1>0, <1>2, <1>4, <3>1
    <3>2. CASE i # Len(h) + 1
      <4>1. i \in DOMAIN h /\ more[i] = h[i]
          BY <1>4, <3>2
      <4>2. i > Len(h) - w.total
          BY <1>0, <1>4, <2>1, <4>1
      <4> QED BY <1>14, <4>1, <4>2
    <3> QED BY <3>1, <3>2
  <2>2. v.total <= HitLimit /\ v.total <= Len(more)
      BY <1>0, <1>4, <1>14
  <2> QED BY <1>15, <2>1, <2>2 DEF CountsTheLast
<1>19. \A i \in DOMAIN more : more[i].at <= time
    BY <1>0, <1>2, <1>4, <1>7
<1>20. ASSUME NEW t \in 1..Horizon PROVE Cardinality(LetThrough(more, t)) <= 2 * HitLimit
  <2>0. t \in Nat
      BY <1>0
  <2>1. CASE time \in t..(t + Ttl - 1)
    <3>1. ASSUME NEW i \in LetThrough(more, t)
          PROVE  i \in Inside(more, w.expires) \cup Ahead(more, w.expires)
      <4>1. i \in With(more, "let") /\ more[i].at \in t..(t + Ttl - 1)
          BY <3>1 DEF LetThrough
      <4>2. more[i].at \in Nat
          BY <1>2, <1>4, <1>5, <1>8, <4>1
      <4>3. PICK at, e : at = more[i].at /\ e = w.expires
          OBVIOUS
      <4>4. at \in Nat /\ e \in Nat /\ at \in t..(t + Ttl - 1) /\ e <= time + Ttl
          BY <1>0, <4>1, <4>2, <4>3
      <4>5. e < at + Ttl + Ttl /\ (at + Ttl >= e \/ at + Ttl < e)
          BY <1>0, <2>0, <2>1, <4>4
      <4> QED BY <4>1, <4>3, <4>5 DEF Inside, Ahead
    <3>2. IsFiniteSet(Ahead(more, w.expires)) /\ Cardinality(Ahead(more, w.expires)) \in Nat
        BY <1>4, LetSets, Countable
    <3>3. PICK both : both = Inside(more, w.expires) \cup Ahead(more, w.expires)
        OBVIOUS
    <3>4. Cardinality(both) = Cardinality(Inside(more, w.expires)) + Cardinality(Ahead(more, w.expires))
                                - Cardinality(Inside(more, w.expires) \cap Ahead(more, w.expires))
        BY <1>15, <3>2, <3>3, FS_Union
    <3>5. Cardinality(Inside(more, w.expires) \cap Ahead(more, w.expires)) \in Nat
        BY <1>15, FS_Subset, FS_CardinalityType
    <3>6. both \subseteq DOMAIN more
        BY <3>3, LetSets
    <3>7. LetThrough(more, t) \subseteq both
        BY <3>1, <3>3
    <3>8. Cardinality(LetThrough(more, t)) <= Cardinality(both) /\ Cardinality(LetThrough(more, t)) \in Nat
        BY <1>4, <3>6, <3>7, FewerAreFewer
    <3>9. Cardinality(both) \in Nat
        BY <1>4, <3>6, Countable
    <3> QED BY <1>0, <1>15, <1>16, <3>2, <3>4, <3>5, <3>8, <3>9
  <2>2. CASE time \notin t..(t + Ttl - 1)
    <3>1. LetThrough(more, t) = LetThrough(h, t)
        BY <1>2, <1>4, <1>5, <1>8, <2>2 DEF LetThrough
    <3> QED BY <3>1
  <2> QED BY <2>1, <2>2
<1> QED BY <1>0, <1>10, <1>11, <1>17, <1>18, <1>19, <1>20 DEF Fits

ThrottleFits(h, w) ==
    /\ Fits(h, w, now) /\ TurnedAwayRightly(h)
    /\ \A t \in 1..Horizon : Cardinality(LetThrough(h, t)) <= 2 * HitLimit

\* A request: the window that is found or opened takes it, or it is turned away.
LEMMA RequestFits ==
    ASSUME ThrottleInv, NEW c \in Callers, Increment(c)
    PROVE  /\ windows'[c] \in Windows /\ hits'[c] \in Seq(Hits)
           /\ ThrottleFits(hits'[c], windows'[c])
<1> DEFINE found == windows[c].expires > now \/ Blocked(windows[c])
           start == IF found THEN windows[c] ELSE Fresh
           counted == IF Blocked(start) THEN start
                      ELSE [start EXCEPT !.total = @ + 1,
                                         !.blocked = IF start.total + 1 > HitLimit THEN now + Ttl ELSE @]
           outcome == IF Blocked(start) THEN "blocked" ELSE IF Blocked(counted) THEN "over" ELSE "let"
<1>0. /\ now \in Nat \ {0} /\ now \in 1..Horizon /\ Ttl \in Nat \ {0} /\ HitLimit \in Nat
    BY ThrottleAssumption DEF ThrottleInv
<1>1. /\ windows'[c] = counted
      /\ hits'[c] = Append(hits[c], [at |-> now, result |-> outcome])
  <2>1. /\ windows' = [(IF found THEN windows ELSE Swept) EXCEPT ![c] = counted]
        /\ hits' = [hits EXCEPT ![c] = Append(@, [at |-> now, result |-> outcome])]
      BY DEF Increment
  <2>2. c \in DOMAIN windows /\ c \in DOMAIN Swept /\ c \in DOMAIN hits
      BY DEF ThrottleInv, Swept
  <2> HIDE DEF found, counted, outcome
  <2>3. windows'[c] = counted
      BY <2>1, <2>2
  <2>4. hits'[c] = Append(hits[c], [at |-> now, result |-> outcome])
      BY <2>1, <2>2
  <2> QED BY <2>3, <2>4
<1>2. PICK h, w, x, v, more, result :
        /\ h = hits[c] /\ w = windows[c] /\ x = start /\ v = counted /\ result = outcome
        /\ more = Append(hits[c], [at |-> now, result |-> outcome])
    OBVIOUS
<1>3. /\ h \in Seq(Hits) /\ w \in Windows /\ Fits(h, w, now) /\ TurnedAwayRightly(h)
      /\ \A t \in 1..Horizon : Cardinality(LetThrough(h, t)) <= 2 * HitLimit
    BY <1>2 DEF ThrottleInv
<1>4. Fresh \in Windows /\ Fresh.total = 0 /\ Fresh.blocked = 0 /\ Fresh.expires = now + Ttl
    BY <1>0 DEF Fresh, Windows
<1>5. x \in Windows /\ Fits(h, x, now) /\ (x.blocked > now \/ x.expires > now)
  <2>1. CASE found
    <3>1. x = w
        BY <1>2, <2>1
    <3> QED BY <1>2, <1>3, <2>1, <3>1 DEF Blocked
  <2>2. CASE ~found
    <3>1. x = Fresh
        BY <1>2, <2>2
    <3>2. w.expires <= now /\ w.blocked <= now
        BY <1>0, <1>2, <1>3, <2>2 DEF Blocked, Windows
    <3>3. Fits(h, Fresh, now)
        BY <1>0, <1>3, <1>4, <3>2, FitsRenewed
    <3> QED BY <1>0, <1>4, <3>1, <3>3
  <2> QED BY <2>1, <2>2
<1>6. /\ more = Append(h, [at |-> now, result |-> result])
      /\ v = IF Blocked(x) THEN x
             ELSE [x EXCEPT !.total = @ + 1, !.blocked = IF x.total + 1 > HitLimit THEN now + Ttl ELSE @]
      /\ result = IF Blocked(x) THEN "blocked" ELSE IF Blocked(v) THEN "over" ELSE "let"
      /\ windows'[c] = v /\ hits'[c] = more
    BY <1>1, <1>2
<1> HIDE DEF found, start, counted, outcome
<1>7. /\ x.total \in Nat /\ x.expires \in Nat /\ x.blocked \in Nat
    BY <1>5 DEF Windows
<1>8. \A r \in {"blocked", "over", "let"} : [at |-> now, result |-> r] \in Hits
    BY <1>0 DEF Hits
<1>9. more \in Seq(Hits)
    BY <1>3, <1>6, <1>8, AppendProperties
<1>10. CASE Blocked(x)
  <2>1. x.blocked > now /\ v = x /\ more = Append(h, [at |-> now, result |-> "blocked"])
      BY <1>6, <1>10 DEF Blocked
  <2>2. PICK hit : hit = [at |-> now, result |-> "blocked"]
      OBVIOUS
  <2>3. hit \in Hits /\ hit.result = "blocked" /\ more = Append(h, hit)
      BY <1>8, <2>1, <2>2
  <2>4. SameLets(h, more)
      BY <1>3, <2>3, LetsUnchanged
  <2>5. Fits(more, x, now) /\ TurnedAwayRightly(more)
      BY <1>0, <1>3, <1>5, <2>1, BlockedHit
  <2>6. \A t \in 1..Horizon : Cardinality(LetThrough(more, t)) <= 2 * HitLimit
      BY <1>3, <2>4 DEF SameLets
  <2> QED BY <1>5, <1>6, <1>9, <2>1, <2>5, <2>6 DEF ThrottleFits
<1>11. CASE ~Blocked(x)
  <2>1. ~(x.blocked > now) /\ x.expires > now
      BY <1>5, <1>11 DEF Blocked
  <2>2. x.blocked = 0
      BY <1>0, <1>5, <1>7, <2>1 DEF Fits, BlocksOnRecord
  <2>3. v = [x EXCEPT !.total = @ + 1, !.blocked = IF x.total + 1 > HitLimit THEN now + Ttl ELSE @]
      BY <1>6, <1>11
  <2>4. ASSUME NEW blocked \in Nat, v = [x EXCEPT !.total = @ + 1, !.blocked = blocked]
        PROVE  v \in Windows /\ v.expires = x.expires /\ v.blocked = blocked /\ v.total = x.total + 1
    <3>1. PICK total : total = x.total + 1
        OBVIOUS
    <3>2. total \in Nat /\ v = [x EXCEPT !.total = total, !.blocked = blocked]
        BY <1>7, <2>4, <3>1
    <3>3. v \in Windows /\ v.expires = x.expires /\ v.blocked = blocked /\ v.total = total
        BY <1>5, <2>4, <3>2 DEF Windows
    <3> QED BY <3>1, <3>3
  <2>5. CASE x.total + 1 > HitLimit
    <3>1. /\ v \in Windows /\ v.expires = x.expires /\ v.blocked = now + Ttl
      <4>1. PICK blocked : blocked = IF x.total + 1 > HitLimit THEN now + Ttl ELSE x.blocked
          OBVIOUS
      <4>2. blocked = now + Ttl /\ blocked \in Nat
          BY <1>0, <2>5, <4>1
      <4>3. v = [x EXCEPT !.total = @ + 1, !.blocked = blocked]
          BY <2>3, <4>1, Zenon
      <4> QED BY <2>4, <4>2, <4>3
    <3>2. v.blocked > now
        BY <1>0, <3>1
    <3>3. more = Append(h, [at |-> now, result |-> "over"])
        BY <1>6, <1>11, <3>2 DEF Blocked
    <3>4. PICK hit : hit = [at |-> now, result |-> "over"]
        OBVIOUS
    <3>5. hit \in Hits /\ hit.result = "over" /\ more = Append(h, hit)
        BY <1>8, <3>3, <3>4
    <3>6. SameLets(h, more)
        BY <1>3, <3>5, LetsUnchanged
    <3>7. Fits(more, v, now) /\ TurnedAwayRightly(more)
        BY <1>0, <1>3, <1>5, <2>1, <2>2, <2>5, <3>1, <3>3, OverHit
    <3>8. \A t \in 1..Horizon : Cardinality(LetThrough(more, t)) <= 2 * HitLimit
        BY <1>3, <3>6 DEF SameLets
    <3> QED BY <1>6, <1>9, <3>1, <3>7, <3>8 DEF ThrottleFits
  <2>6. CASE ~(x.total + 1 > HitLimit)
    <3>1. /\ v \in Windows /\ v.expires = x.expires /\ v.blocked = 0 /\ v.total = x.total + 1
      <4>1. v = [x EXCEPT !.total = @ + 1, !.blocked = 0]
          BY <2>2, <2>3, <2>6
      <4> QED BY <2>4, <4>1
    <3>2. ~(v.blocked > now)
        BY <1>0, <3>1
    <3>3. more = Append(h, [at |-> now, result |-> "let"])
        BY <1>6, <1>11, <3>2 DEF Blocked
    <3>4. x.total + 1 <= HitLimit
        BY <1>0, <1>7, <2>6
    <3>5. /\ Fits(more, v, now) /\ TurnedAwayRightly(more)
          /\ \A t \in 1..Horizon : Cardinality(LetThrough(more, t)) <= 2 * HitLimit
        BY <1>0, <1>3, <1>5, <2>1, <2>2, <3>1, <3>3, <3>4, LetHit
    <3> QED BY <1>6, <1>9, <3>1, <3>5 DEF ThrottleFits
  <2> QED BY <2>5, <2>6
<1> QED BY <1>10, <1>11

LEMMA IncrementKeeps == ASSUME ThrottleInv, NEW c \in Callers, Increment(c) PROVE ThrottleInv'
<1>0. now' = now /\ now \in Nat \ {0} /\ now \in 1..Horizon
    BY ThrottleAssumption DEF Increment, ThrottleInv
<1>1. PICK counted, grown :
        /\ windows' = [windows EXCEPT ![c] = counted] \/ windows' = [Swept EXCEPT ![c] = counted]
        /\ hits' = [hits EXCEPT ![c] = grown]
    BY DEF Increment
<1>2. Swept \in [Callers -> Windows]
  <2>1. NoWindow \in Windows
      BY DEF NoWindow, Windows
  <2> QED BY <2>1 DEF Swept, ThrottleInv
<1>3. /\ windows'[c] \in Windows /\ hits'[c] \in Seq(Hits)
      /\ ThrottleFits(hits'[c], windows'[c])
    BY RequestFits
<1>4. windows'[c] = counted /\ hits'[c] = grown
    BY <1>1, <1>2 DEF ThrottleInv
<1>5. windows' \in [Callers -> Windows] /\ hits' \in [Callers -> Seq(Hits)]
  <2>1. counted \in Windows /\ grown \in Seq(Hits)
      BY <1>3, <1>4
  <2>2. windows' \in [Callers -> Windows]
      BY <1>1, <1>2, <2>1 DEF ThrottleInv
  <2>3. hits' \in [Callers -> Seq(Hits)]
      BY <1>1, <2>1 DEF ThrottleInv
  <2> QED BY <2>2, <2>3
<1>6. ASSUME NEW d \in Callers, d # c PROVE ThrottleFits(hits'[d], windows'[d])
  <2>1. hits'[d] = hits[d] /\ (windows'[d] = windows[d] \/ windows'[d] = Swept[d])
      BY <1>1, <1>2, <1>6 DEF ThrottleInv
  <2>2. ThrottleFits(hits[d], windows[d])
      BY DEF ThrottleInv, ThrottleFits
  <2>3. CASE windows'[d] = windows[d]
      BY <2>1, <2>2, <2>3
  <2>4. CASE windows'[d] # windows[d]
    <3>1. windows'[d] = NoWindow /\ RunOut(windows[d])
        BY <2>1, <2>4 DEF Swept
    <3>2. NoWindow \in Windows /\ NoWindow.total = 0 /\ NoWindow.blocked = 0 /\ NoWindow.expires = 0
        BY DEF NoWindow, Windows
    <3>3. windows[d] \in Windows /\ hits[d] \in Seq(Hits)
        BY DEF ThrottleInv
    <3>4. windows[d].expires <= now /\ windows[d].blocked <= now
        BY <1>0, <3>1, <3>3 DEF RunOut, Blocked, Windows
    <3>5. Fits(hits[d], windows[d], now)
        BY <2>2 DEF ThrottleFits
    <3>6. Fits(hits[d], NoWindow, now)
        BY <1>0, <3>2, <3>3, <3>4, <3>5, FitsRenewed
    <3> QED BY <2>1, <2>2, <3>1, <3>6 DEF ThrottleFits
  <2> QED BY <2>3, <2>4
<1>7. \A d \in Callers : ThrottleFits(hits'[d], windows'[d])
    BY <1>3, <1>6
<1> QED BY <1>0, <1>5, <1>7 DEF ThrottleFits, ThrottleInv

LEMMA TimeKeeps == ASSUME ThrottleInv, TimePasses PROVE ThrottleInv'
<1>1. now \in Nat /\ now' = now + 1 /\ now' \in 1..Horizon /\ windows' = windows /\ hits' = hits
    BY ThrottleAssumption DEF ThrottleInv, TimePasses
<1>2. \A c \in Callers : Fits(hits[c], windows[c], now + 1)
    BY <1>1, FitsLater DEF ThrottleInv
<1> QED BY <1>1, <1>2 DEF ThrottleInv

LEMMA ThrottleStep == ASSUME ThrottleInv, [ThrottleNext]_throttleVars PROVE ThrottleInv'
<1>1. CASE UNCHANGED throttleVars
    BY <1>1 DEF throttleVars, ThrottleInv
<1>2. CASE ThrottleNext
    BY <1>2, TimeKeeps, IncrementKeeps DEF ThrottleNext
<1> QED BY <1>1, <1>2

LEMMA CallersApart == ASSUME ThrottleInv PROVE CallersAreApart
<1> SUFFICES ASSUME NEW c \in Callers
             PROVE  /\ \A i \in Of(c, "over") :
                        /\ Cardinality({j \in 1..i : At(c, j) + Ttl > At(c, i)}) > HitLimit
                        /\ \A j \in Of(c, "let") : j > i => At(c, j) >= At(c, i) + Ttl
                    /\ \A i \in Of(c, "blocked") :
                        \E j \in Of(c, "over") : j < i /\ At(c, i) < At(c, j) + Ttl
                    /\ \A t \in 1..Horizon :
                        Cardinality({i \in Of(c, "let") : At(c, i) \in t..(t + Ttl - 1)}) <= 2 * HitLimit
    BY DEF CallersAreApart
<1>1. /\ TurnedAwayRightly(hits[c])
      /\ \A t \in 1..Horizon : Cardinality(LetThrough(hits[c], t)) <= 2 * HitLimit
    BY DEF ThrottleInv
<1> QED BY <1>1 DEF TurnedAwayRightly, LetThrough, At, Of, With

LEMMA ThrottleTypes == ASSUME ThrottleInv PROVE ThrottleTypeOK
<1>1. \A c \in Callers : \A i \in DOMAIN hits[c] : hits[c][i] \in Hits
    BY LenProperties, ElementOfSeq DEF ThrottleInv
<1> QED BY <1>1 DEF ThrottleInv, ThrottleTypeOK, Hits, Windows

LEMMA ThrottleStarts == ASSUME ThrottleInit PROVE ThrottleInv
<1>0. Ttl \in Nat \ {0} /\ HitLimit \in Nat /\ 1 \in 1..Horizon /\ now = 1
    BY ThrottleAssumption DEF ThrottleInit
<1>1. NoWindow \in Windows /\ NoWindow.total = 0 /\ NoWindow.blocked = 0 /\ NoWindow.expires = 0
    BY DEF NoWindow, Windows
<1>2. <<>> \in Seq(Hits) /\ \A r : With(<<>>, r) = {}
    BY DEF With
<1>3. Cardinality({}) = 0
    BY FS_EmptySet
<1>4. Cardinality(Lately(<<>>, 1)) = 0 /\ \A t : Cardinality(LetThrough(<<>>, t)) = 0
  <2>1. Lately(<<>>, 1) = {} /\ \A t : LetThrough(<<>>, t) = {}
      BY <1>2 DEF Lately, LetThrough
  <2> QED BY <1>3, <2>1, Zenon
<1>5. Fits(<<>>, NoWindow, 1)
  <2>1. NoWindow.expires <= 1 + Ttl
      BY <1>0, <1>1
  <2>2. BlocksOnRecord(<<>>, NoWindow, 1)
      BY <1>1, <1>2 DEF BlocksOnRecord
  <2>3. CountsTheLast(<<>>, NoWindow, 1)
      BY <1>1 DEF CountsTheLast
  <2>4. KeepsTheLimit(<<>>, NoWindow, 1)
      BY <1>0, <1>1, <1>2, <1>4 DEF KeepsTheLimit
  <2> QED BY <2>1, <2>2, <2>3, <2>4 DEF Fits
<1>6. TurnedAwayRightly(<<>>)
    BY <1>2 DEF TurnedAwayRightly
<1>7. \A t \in 1..Horizon : Cardinality(LetThrough(<<>>, t)) <= 2 * HitLimit
    BY <1>0, <1>4
<1>8. windows = [c \in Callers |-> NoWindow] /\ hits = [c \in Callers |-> <<>>]
    BY DEF ThrottleInit
<1> QED BY <1>0, <1>1, <1>2, <1>5, <1>6, <1>7, <1>8 DEF ThrottleInv
-------------------------------------------------------------------------------
(***************************************************************************)
(* Dashboards.  What is due on a dashboard is shown, or is still to come:  *)
(* on its way, in the half second, or in a rendering that was asked for    *)
(* after it was committed.                                                 *)
(***************************************************************************)
Coming(w, c) ==
    \/ c <= seen[w] \/ c \in arriving[w] \/ waiting[w] \/ refreshing[w].stage = "asked"
    \/ refreshing[w].stage = "ready" /\ c <= refreshing[w].version

RenderingInTime(w) ==
    /\ seen[w] <= version /\ \A c \in due[w] : c <= version
    /\ refreshing[w].stage = "none" => refreshing[w] = NoRefresh
    /\ refreshing[w].stage = "ready" => /\ seen[w] <= refreshing[w].version
                                        /\ refreshing[w].version <= version

OneStreamEach ==
    /\ subscribers = {w \in Screens : stream[w] = "on"}
    /\ \A w \in subscribers : keyed[UserOf[w]] = w
    /\ \A u \in Boosters \cup {Client} : keyed[u] # NoScreen =>
            keyed[u] \in subscribers /\ UserOf[keyed[u]] = u

EventsInv ==
    /\ DashboardEventsTypeOK
    /\ \A w \in Screens : RenderingInTime(w) /\ \A c \in due[w] : Coming(w, c)
    /\ \A event \in publishing : event.change <= version
    /\ OneStreamEach

LEMMA DashboardsStart == ASSUME DashboardEventsInit PROVE EventsInv
<1>1. MaxChanges \in Nat /\ MaxFailures \in Nat
    BY DashboardEventsAssumption
<1>2. NoRefresh \in [stage : {"none", "asked", "ready"}, version : 0..MaxChanges]
    BY <1>1 DEF NoRefresh
<1>3. DashboardEventsTypeOK
    BY <1>1, <1>2 DEF DashboardEventsInit, DashboardEventsTypeOK
<1>4. publishing = {} /\ \A w \in Screens : RenderingInTime(w) /\ due[w] = {}
    BY DEF DashboardEventsInit, RenderingInTime, NoRefresh
<1>5. OneStreamEach
    BY DEF DashboardEventsInit, OneStreamEach
<1> QED BY <1>3, <1>4, <1>5 DEF EventsInv

LEMMA DashboardTypesStay ==
    ASSUME DashboardEventsTypeOK, DashboardEventsNext
    PROVE  DashboardEventsTypeOK'
<1> USE DEF DashboardEventsTypeOK
<1>0. MaxChanges \in Nat /\ MaxFailures \in Nat
    BY DashboardEventsAssumption
<1>1. ASSUME NEW type \in {"order.paid", "order.accepted", "order.rejected"},
             NEW b \in Boosters \cup {NoBooster}, ChangeOrder(type, b)
      PROVE  DashboardEventsTypeOK'
    <2>1. version + 1 \in 1..MaxChanges
        BY <1>0, <1>1 DEF ChangeOrder
    <2>2. [change |-> version + 1, type |-> type, booster |-> b] \in OrderEvents
        BY <2>1 DEF OrderEvents, Changes
    <2> QED BY <1>0, <1>1, <2>1, <2>2 DEF ChangeOrder
<1>2. ASSUME NEW event \in publishing, Publish(event) PROVE DashboardEventsTypeOK'
    <2>1. event.change \in Changes
        BY DEF OrderEvents
    <2> QED BY <1>2, <2>1 DEF Publish
<1>3. ASSUME RestartApi PROVE DashboardEventsTypeOK'
    BY <1>0, <1>3 DEF RestartApi, Cut, Ended, KeyedWithout
<1>4. ASSUME NEW w \in Screens, Subscribe(w) PROVE DashboardEventsTypeOK'
    BY <1>4, DashboardEventsAssumption DEF Subscribe, Cut
<1>5. ASSUME NEW w \in Screens, Expire(w) PROVE DashboardEventsTypeOK'
    BY <1>5 DEF Expire
<1>6. ASSUME NEW w \in Screens, LoseStream(w) PROVE DashboardEventsTypeOK'
    BY <1>0, <1>6 DEF LoseStream, Cut, Ended, KeyedWithout
<1>7. ASSUME NEW w \in Screens, ReceiveEvent(w) PROVE DashboardEventsTypeOK'
    BY <1>7 DEF ReceiveEvent, Waits
<1>8. ASSUME NEW w \in Screens, NEW r, r \in [stage : {"none", "asked", "ready"}, version : 0..MaxChanges]
      PROVE  [refreshing EXCEPT ![w] = r]
                \in [Screens -> [stage : {"none", "asked", "ready"}, version : 0..MaxChanges]]
    BY <1>8
<1>9. ASSUME NEW w \in Screens, FireTimer(w) PROVE DashboardEventsTypeOK'
    BY <1>0, <1>8, <1>9 DEF FireTimer
<1>10. ASSUME NEW w \in Screens, RenderDashboard(w) PROVE DashboardEventsTypeOK'
    BY <1>8, <1>10 DEF RenderDashboard
<1>11. ASSUME NEW w \in Screens, ShowDashboard(w) PROVE DashboardEventsTypeOK'
    BY <1>0, <1>8, <1>11 DEF ShowDashboard, NoRefresh
<1> QED BY <1>1, <1>2, <1>3, <1>4, <1>5, <1>6, <1>7, <1>9, <1>10, <1>11 DEF DashboardEventsNext

LEMMA StreamsStay ==
    ASSUME EventsInv, DashboardEventsNext
    PROVE  OneStreamEach'
<1> USE DEF OneStreamEach
<1>1. DashboardEventsTypeOK /\ OneStreamEach
    BY DEF EventsInv
<1>2. ASSUME NEW w \in Screens, Subscribe(w) PROVE OneStreamEach'
    <2> DEFINE u == UserOf[w]  gone == Evicted(w)
    <2>1. u \in Boosters \cup {Client} /\ DOMAIN keyed = Boosters \cup {Client} /\ w # NoScreen
        BY <1>1, DashboardEventsAssumption DEF DashboardEventsTypeOK
    <2>2. w \notin subscribers /\ w \notin gone
        BY <1>1, <1>2 DEF Subscribe, Evicted
    <2>3. /\ subscribers' = (subscribers \ gone) \cup {w} /\ keyed' = [keyed EXCEPT ![u] = w]
          /\ stream' = [v \in Screens |-> IF v = w THEN "on" ELSE IF v \in gone THEN "off" ELSE stream[v]]
        BY <1>2 DEF Subscribe
    <2>4. \A v \in subscribers : UserOf[v] = u <=> v \in gone
        BY <1>1, <2>1, <2>2, DashboardEventsAssumption DEF Evicted, DashboardEventsTypeOK
    <2>5. \A x \in Boosters \cup {Client} : x # u => keyed[x] \notin gone
        <3> SUFFICES ASSUME NEW x \in Boosters \cup {Client}, x # u, keyed[x] \in gone PROVE FALSE
            OBVIOUS
        <3>1. keyed[x] = keyed[u] /\ keyed[x] # NoScreen
            BY DEF Evicted
        <3> QED BY <1>1, <2>1, <3>1
    <2> HIDE DEF gone, u
    <2>6. (subscribers = {v \in Screens : stream[v] = "on"})'
        BY <1>1, <2>2, <2>3 DEF DashboardEventsTypeOK
    <2>7. \A v \in subscribers' : keyed'[UserOf[v]] = v
        <3> SUFFICES ASSUME NEW v \in subscribers' PROVE keyed'[UserOf[v]] = v
            OBVIOUS
        <3>1. CASE v = w
            BY <2>1, <2>3, <3>1 DEF u
        <3>2. CASE v # w
            <4>1. v \in subscribers /\ v \notin gone
                BY <2>3, <3>2
            <4>2. UserOf[v] # u /\ keyed[UserOf[v]] = v
                BY <1>1, <2>4, <4>1
            <4> QED BY <2>1, <2>3, <4>2
        <3> QED BY <3>1, <3>2
    <2>8. \A x \in Boosters \cup {Client} : keyed'[x] # NoScreen =>
            keyed'[x] \in subscribers' /\ UserOf[keyed'[x]] = x
        <3> SUFFICES ASSUME NEW x \in Boosters \cup {Client}, keyed'[x] # NoScreen
                     PROVE  keyed'[x] \in subscribers' /\ UserOf[keyed'[x]] = x
            OBVIOUS
        <3>1. CASE x = u
            BY <2>1, <2>3, <3>1 DEF u
        <3>2. CASE x # u
            <4>1. keyed'[x] = keyed[x] /\ keyed[x] \notin gone
                BY <2>1, <2>3, <2>5, <3>2
            <4> QED BY <1>1, <2>3, <4>1
        <3> QED BY <3>1, <3>2
    <2> QED BY <2>6, <2>7, <2>8
<1>3. ASSUME NEW w \in Screens, LoseStream(w) PROVE OneStreamEach'
    BY <1>1, <1>3, DashboardEventsAssumption DEF LoseStream, Ended, KeyedWithout, DashboardEventsTypeOK
<1>4. ASSUME RestartApi PROVE OneStreamEach'
    BY <1>1, <1>4, DashboardEventsAssumption DEF RestartApi, Ended, KeyedWithout, DashboardEventsTypeOK
<1>5. ASSUME NEW w \in Screens, Expire(w) PROVE OneStreamEach'
    BY <1>1, <1>5 DEF Expire, DashboardEventsTypeOK
<1>6. ASSUME NEW w, NEW type, NEW b, NEW e,
             \/ ChangeOrder(type, b) \/ Publish(e) \/ ReceiveEvent(w) \/ FireTimer(w)
             \/ RenderDashboard(w) \/ ShowDashboard(w)
      PROVE  UNCHANGED <<subscribers, keyed, stream>>
    BY <1>6 DEF ChangeOrder, Publish, ReceiveEvent, FireTimer, RenderDashboard, ShowDashboard
<1>7. UNCHANGED <<subscribers, keyed, stream>> => OneStreamEach'
    BY <1>1
<1> QED BY <1>2, <1>3, <1>4, <1>5, <1>6, <1>7 DEF DashboardEventsNext

LEMMA RenderingsStay ==
    ASSUME EventsInv, DashboardEventsNext, NEW w \in Screens
    PROVE  RenderingInTime(w)' /\ \A c \in due'[w] : Coming(w, c)'
<1> DEFINE Goal == RenderingInTime(w)' /\ \A c \in due'[w] : Coming(w, c)'
<1> USE DEF RenderingInTime, Coming
<1>1. /\ DashboardEventsTypeOK /\ RenderingInTime(w) /\ \A c \in due[w] : Coming(w, c)
      /\ \A event \in publishing : event.change <= version
    BY DEF EventsInv
<1>2. /\ version \in Nat /\ seen[w] \in Nat /\ due[w] \subseteq Nat
      /\ refreshing[w].version \in Nat /\ refreshing[w].stage \in {"none", "asked", "ready"}
    BY <1>1, DashboardEventsAssumption DEF DashboardEventsTypeOK, Changes
<1>3. ASSUME NEW type, NEW b, ChangeOrder(type, b) PROVE Goal
    BY <1>1, <1>2, <1>3 DEF ChangeOrder
<1>4. ASSUME NEW event \in publishing, Publish(event) PROVE Goal
    BY <1>1, <1>2, <1>4 DEF Publish
<1>5. ASSUME NEW gone \in SUBSET Screens, Cut(gone), UNCHANGED <<version, waiting, refreshing, seen>> PROVE Goal
    BY <1>1, <1>2, <1>5 DEF Cut
<1>6. ASSUME NEW v \in Screens, Subscribe(v) PROVE Goal
    <2>1. Evicted(v) \in SUBSET Screens
        BY <1>1, DashboardEventsAssumption DEF Evicted, DashboardEventsTypeOK
    <2> QED BY <1>5, <1>6, <2>1 DEF Subscribe
<1>7. ASSUME NEW v \in Screens, LoseStream(v) PROVE Goal
    BY <1>5, <1>7 DEF LoseStream
<1>8. ASSUME RestartApi PROVE Goal
    BY <1>5, <1>8 DEF RestartApi
<1>9. ASSUME NEW v \in Screens, Expire(v) PROVE Goal
    BY <1>1, <1>9 DEF Expire
<1>10. ASSUME NEW v \in Screens, ReceiveEvent(v) PROVE Goal
    BY <1>1, <1>10 DEF ReceiveEvent, Waits, DashboardEventsTypeOK
<1>11. ASSUME NEW v \in Screens, FireTimer(v) PROVE Goal
    BY <1>1, <1>2, <1>11 DEF FireTimer, DashboardEventsTypeOK
<1>12. ASSUME NEW v \in Screens, RenderDashboard(v) PROVE Goal
    BY <1>1, <1>2, <1>12 DEF RenderDashboard, DashboardEventsTypeOK
<1>13. ASSUME NEW v \in Screens, ShowDashboard(v) PROVE Goal
    BY <1>1, <1>2, <1>13 DEF ShowDashboard, NoRefresh, DashboardEventsTypeOK
<1> QED BY <1>3, <1>4, <1>6, <1>7, <1>8, <1>9, <1>10, <1>11, <1>12, <1>13 DEF DashboardEventsNext

LEMMA PublishedIsCommitted ==
    ASSUME EventsInv, DashboardEventsNext
    PROVE  (\A event \in publishing : event.change <= version)'
<1>1. version \in Nat /\ \A event \in publishing : event.change <= version /\ event.change \in Nat
    BY DashboardEventsAssumption DEF EventsInv, DashboardEventsTypeOK, OrderEvents, Changes
<1>2. ASSUME NEW type, NEW b, ChangeOrder(type, b)
      PROVE  (\A event \in publishing : event.change <= version)'
    BY <1>1, <1>2 DEF ChangeOrder
<1>3. ASSUME NEW w, NEW e,
             \/ Publish(e) \/ RestartApi \/ Subscribe(w) \/ Expire(w) \/ LoseStream(w)
             \/ ReceiveEvent(w) \/ FireTimer(w) \/ RenderDashboard(w) \/ ShowDashboard(w)
      PROVE  publishing' \subseteq publishing /\ version' = version
    BY <1>3 DEF Publish, RestartApi, Subscribe, Expire, LoseStream, ReceiveEvent, FireTimer,
       RenderDashboard, ShowDashboard
<1>4. publishing' \subseteq publishing /\ version' = version =>
        (\A event \in publishing : event.change <= version)'
    BY <1>1
<1> QED BY <1>2, <1>3, <1>4 DEF DashboardEventsNext

LEMMA DashboardsStep == ASSUME EventsInv, [DashboardEventsNext]_eventVars PROVE EventsInv'
<1>1. CASE DashboardEventsNext
    BY <1>1, DashboardTypesStay, StreamsStay, RenderingsStay, PublishedIsCommitted DEF EventsInv
<1>2. CASE UNCHANGED eventVars
    BY <1>2 DEF eventVars, EventsInv, DashboardEventsTypeOK, RenderingInTime, Coming, OneStreamEach
<1> QED BY <1>1, <1>2

LEMMA DashboardsFollow == ASSUME EventsInv PROVE DashboardsAreFresh
<1>1. DashboardEventsTypeOK /\ OneStreamEach
    BY DEF EventsInv
<1>2. subscribers = {keyed[u] : u \in DOMAIN keyed} \ {NoScreen}
    BY <1>1, DashboardEventsAssumption DEF OneStreamEach, DashboardEventsTypeOK
<1>3. \A w \in Screens :
        arriving[w] = {} /\ ~waiting[w] /\ refreshing[w] = NoRefresh => \A c \in due[w] : c <= seen[w]
    BY DEF EventsInv, Coming, NoRefresh
<1> QED BY <1>1, <1>2, <1>3 DEF OneStreamEach, DashboardsAreFresh

-------------------------------------------------------------------------------
(***************************************************************************)
(* The chat.  A message of the thread that was announced is on a page that *)
(* has connected, or is still to come to it, by its socket or in a         *)
(* rendering it has asked for; or it was missed, or left out as too old.   *)
(***************************************************************************)
Once(seq) == \A i, j \in 1..Len(seq) : seq[i] = seq[j] => i = j
In(seq) == {seq[i] : i \in 1..Len(seq)}

LEMMA AppendedOnce ==
    ASSUME NEW S, NEW seq \in Seq(S), NEW m \in S, Once(seq)
    PROVE  /\ Appended(seq, m) \in Seq(S) /\ Once(Appended(seq, m))
           /\ In(Appended(seq, m)) = In(seq) \cup {m}
<1>1. CASE \E i \in 1..Len(seq) : seq[i] = m
    BY <1>1 DEF Appended, In
<1>2. CASE ~\E i \in 1..Len(seq) : seq[i] = m
    <2> DEFINE longer == Append(seq, m)
    <2>1. Appended(seq, m) = longer
        BY <1>2 DEF Appended
    <2>2. longer \in Seq(S) /\ Len(longer) = Len(seq) + 1 /\ Len(seq) \in Nat
        OBVIOUS
    <2>3. longer[Len(seq) + 1] = m /\ \A i \in 1..Len(seq) : longer[i] = seq[i]
        OBVIOUS
    <2> HIDE DEF longer
    <2>4. Once(longer)
        BY <1>2, <2>2, <2>3 DEF Once
    <2>5. In(longer) = In(seq) \cup {m}
        BY <2>2, <2>3 DEF In
    <2> QED BY <2>1, <2>2, <2>4, <2>5
<1> QED BY <1>1, <1>2

\* The recursion of Merged, for each length of the thread.
Merges(shown, n, c, g) == g = [m \in 0..n |-> IF m <= c THEN shown ELSE Appended(g[m - 1], m)]

\* The messages that are left out.
LEMMA SkippedIs ==
    ASSUME NEW n \in Nat, NEW m \in Nat, n <= m
    PROVE  Skipped(n) \in Nat /\ Skipped(n) <= n /\ Skipped(n) <= Skipped(m)
    BY LiveChatAssumption DEF Skipped

LEMMA MergesExist ==
    ASSUME NEW shown, NEW n \in Nat, NEW c \in Nat
    PROVE  \E g : Merges(shown, n, c, g)
<1> DEFINE bad == {k \in Nat : \A g : ~Merges(shown, k, c, g)}
<1> SUFFICES ASSUME bad # {} PROVE FALSE
    OBVIOUS
<1>1. PICK k \in bad : \A m \in bad : k <= m
    <2>1. bad \subseteq Nat
        OBVIOUS
    <2> HIDE DEF bad
    <2> QED BY <2>1, LeastNatural
<1>2. CASE k = 0
    <2> DEFINE g == [m \in 0..0 |-> shown]
    <2>1. g = [m \in 0..0 |-> IF m <= c THEN shown ELSE Appended(g[m - 1], m)]
        OBVIOUS
    <2> HIDE DEF g
    <2> QED BY <1>2, <2>1 DEF Merges
<1>3. CASE k # 0
    <2>1. k - 1 \in Nat /\ k - 1 \notin bad
        BY <1>1, <1>3
    <2>2. PICK g : Merges(shown, k - 1, c, g)
        BY <2>1
    <2> DEFINE h == [m \in 0..k |-> IF m = k THEN (IF k <= c THEN shown ELSE Appended(g[k - 1], k)) ELSE g[m]]
    <2>3. \A m \in 0..(k - 1) : g[m] = IF m <= c THEN shown ELSE Appended(g[m - 1], m)
        BY <2>2 DEF Merges
    <2>4. \A m \in 0..k : h[m] = IF m <= c THEN shown ELSE Appended(h[m - 1], m)
        <3> SUFFICES ASSUME NEW m \in 0..k
                     PROVE  h[m] = IF m <= c THEN shown ELSE Appended(h[m - 1], m)
            OBVIOUS
        <3>1. CASE m = k
            <4>1. m - 1 \in 0..k /\ m - 1 # k
                BY <1>3, <3>1
            <4> QED BY <3>1, <4>1
        <3>2. CASE m # k /\ ~(m <= c)
            <4>1. m - 1 \in 0..k /\ m - 1 # k /\ m \in 0..(k - 1)
                BY <1>3, <3>2
            <4> QED BY <2>3, <3>2, <4>1
        <3>3. CASE m # k /\ m <= c
            <4>1. m \in 0..(k - 1)
                BY <1>3, <3>3
            <4> QED BY <2>3, <3>3, <4>1
        <3> QED BY <3>1, <3>2, <3>3
    <2>5. h = [m \in 0..k |-> h[m]]
        OBVIOUS
    <2> HIDE DEF h
    <2>6. Merges(shown, k, c, h)
        BY <2>4, <2>5 DEF Merges
    <2> QED BY <2>6
<1> QED BY <1>2, <1>3

LEMMA MergedOnce ==
    ASSUME NEW S, NEW shown \in Seq(S), NEW n \in Nat, 1..n \subseteq S, Once(shown)
    PROVE  /\ Merged(shown, n) \in Seq(S) /\ Once(Merged(shown, n))
           /\ In(Merged(shown, n)) = In(shown) \cup (Skipped(n) + 1)..n
<1> DEFINE c == Skipped(n)
           g == CHOOSE f : Merges(shown, n, c, f)
<1>0. c \in Nat /\ c <= n
    BY SkippedIs
<1>1. Merged(shown, n) = g[n]
    BY DEF Merged, Merges
<1>2. Merges(shown, n, c, g)
    BY <1>0, MergesExist
<1> HIDE DEF g, c
<1>3. \A m \in 0..n : g[m] = IF m <= c THEN shown ELSE Appended(g[m - 1], m)
    BY <1>2 DEF Merges
<1> DEFINE Good(m) == g[m] \in Seq(S) /\ Once(g[m]) /\ In(g[m]) = In(shown) \cup (c + 1)..m
           bad == {m \in 0..n : ~Good(m)}
<1>4. bad = {}
    <2> SUFFICES ASSUME bad # {} PROVE FALSE
        OBVIOUS
    <2>1. PICK k \in bad : \A m \in bad : k <= m
        <3>1. bad \subseteq Nat
            OBVIOUS
        <3> HIDE DEF bad
        <3> QED BY <3>1, LeastNatural
    <2>2. k \in 0..n /\ ~Good(k)
        OBVIOUS
    <2>3. CASE k <= c
        <3>1. g[k] = shown /\ (c + 1)..k = {}
            BY <1>0, <1>3, <2>2, <2>3
        <3> QED BY <2>2, <2>3, <3>1
    <2>4. CASE ~(k <= c)
        <3>1. k - 1 \in 0..n /\ k - 1 \notin bad /\ k \in S /\ k \in Nat
            BY <1>0, <2>1, <2>2, <2>4
        <3>2. g[k - 1] \in Seq(S) /\ Once(g[k - 1]) /\ In(g[k - 1]) = In(shown) \cup (c + 1)..(k - 1)
            BY <3>1
        <3>3. g[k] = Appended(g[k - 1], k)
            BY <1>3, <2>2, <2>4
        <3>4. /\ g[k] \in Seq(S) /\ Once(g[k])
              /\ In(g[k]) = In(g[k - 1]) \cup {k}
            <4> DEFINE before == g[k - 1]
            <4>1. before \in Seq(S) /\ Once(before) /\ g[k] = Appended(before, k)
                BY <3>2, <3>3
            <4> HIDE DEF before
            <4>2. /\ Appended(before, k) \in Seq(S) /\ Once(Appended(before, k))
                  /\ In(Appended(before, k)) = In(before) \cup {k}
                BY <3>1, <4>1, AppendedOnce
            <4> QED BY <4>1, <4>2 DEF before
        <3>5. (c + 1)..(k - 1) \cup {k} = (c + 1)..k
            BY <1>0, <2>4, <3>1
        <3> QED BY <2>2, <3>2, <3>4, <3>5
    <2> QED BY <2>3, <2>4
<1>5. Good(n)
    <2>1. n \in 0..n
        OBVIOUS
    <2> QED BY <1>4, <2>1
<1> QED BY <1>1, <1>5 DEF c

IsMessage(e) == "message" \in DOMAIN e
\* The messages among the events on their way to a page.
MessagesIn(events) == {m \in Ids : \E i \in 1..Len(events) : IsMessage(events[i]) /\ events[i].message = m}
PageRows == [shown : Seq(Ids), enabled : BOOLEAN, connected : BOOLEAN,
             before : BOOLEAN, sending : BOOLEAN, error : BOOLEAN]
PageRow(s, en, c, b, sd, er) ==
    [shown |-> s, enabled |-> en, connected |-> c, before |-> b, sending |-> sd, error |-> er]

ChatTypes == LiveChatTypeOK /\ thread \in Seq(Talkers)

Reaches(m, view, events, rnd, gone, c) ==
    \/ m \in In(view.shown) \/ m \in gone \/ m \in MessagesIn(events) \/ m <= c
    \/ rnd.stage = "asked"
    \/ rnd.stage = "ready" /\ m <= rnd.messages

(* What a page shows, awaits, sends and has asked for is of the thread; only *)
(* a page that is connected is in the room or about to be, and has events on *)
(* their way; and to a page that is connected, or never was, every message  *)
(* that was announced comes, or it was missed, or was too old.               *)
ChatRow(p, reached, n, pending, view, events, mine, rnd, gone, c) ==
    /\ Once(view.shown) /\ In(view.shown) \subseteq 1..n
    /\ MessagesIn(events) \subseteq 1..n
    /\ \A k \in Slots : mine[k].stage = "stored" => mine[k].message \in 1..n
    /\ \A k \in Slots : mine[k].stage = "sent" => mine[k].own
    /\ rnd.stage = "ready" => rnd.messages <= n /\ c <= rnd.messages
    /\ p \in reached => view.connected
    /\ \A k \in Slots : mine[k] # NoSend /\ mine[k].own => view.connected
    /\ view.connected => view.before
    /\ rnd # NoRendering => view.before
    /\ ~view.connected => events = <<>>
    /\ c <= Skipped(n)
    /\ view.connected \/ ~view.before =>
        \A m \in (1..n) \ pending : Reaches(m, view, events, rnd, gone, c)

RowOfTalker(p) == ChatRow(p, room \cup joining, Len(thread), Unannounced, pages[p], socket[p], sends[p],
                    rendering[p], missed[p], cut[p])
ChatRows == \A p \in Talkers : RowOfTalker(p)
ChatInv == ChatTypes /\ ChatRows

LEMMA ChatStarts == ASSUME LiveChatInit PROVE ChatInv
<1>1. MaxPosts \in Nat /\ MaxLosses \in Nat
    BY LiveChatAssumption
<1>2. PICK n \in 0..MaxPosts : thread \in [1..n -> Talkers]
    BY DEF LiveChatInit
<1>3. thread \in Seq(Talkers) /\ Len(thread) = n /\ n \in Nat /\ 1..n \subseteq Ids
    BY <1>1, <1>2 DEF Ids
<1>4. Skipped(n) \in 0..MaxPosts /\ Skipped(n) <= n
    BY <1>1, <1>3, SkippedIs
<1>5. <<>> \in Seq(Ids) /\ <<>> \in Seq(SocketEvents) /\ Len(<<>>) = 0 /\ Once(<<>>) /\ In(<<>>) = {}
    BY DEF Once, In
<1>6. PICK shown : shown = Merged(<<>>, n)
    OBVIOUS
<1>7. shown \in Seq(Ids) /\ Once(shown) /\ In(shown) = (Skipped(n) + 1)..n
  <2>1. ASSUME NEW s \in Seq(Ids), Once(s), In(s) = {}
        PROVE  /\ Merged(s, n) \in Seq(Ids) /\ Once(Merged(s, n))
               /\ In(Merged(s, n)) = (Skipped(n) + 1)..n
    <3>1. \A k \in Nat : 1..k \subseteq Ids => /\ Merged(s, k) \in Seq(Ids) /\ Once(Merged(s, k))
                                             /\ In(Merged(s, k)) = In(s) \cup (Skipped(k) + 1)..k
        BY <2>1, MergedOnce
    <3> QED BY <1>3, <2>1, <3>1
  <2> QED BY <1>5, <1>6, <2>1
<1>8. /\ \A p \in Talkers : pages[p] = PageRow(shown, TRUE, FALSE, FALSE, FALSE, FALSE)
      /\ pages = [p \in Talkers |-> PageRow(shown, TRUE, FALSE, FALSE, FALSE, FALSE)]
    BY <1>3, <1>6 DEF LiveChatInit, PageRow
<1>9. ChatTypes
  <2>1. PageRow(shown, TRUE, FALSE, FALSE, FALSE, FALSE) \in PageRows
      BY <1>7 DEF PageRow, PageRows
  <2>2. pages \in [Talkers -> PageRows]
      BY <1>8, <2>1
  <2>3. Len(thread) <= MaxPosts /\ \A i \in Thread : thread[i] \in Talkers
      BY <1>1, <1>2, <1>3 DEF Thread
  <2> QED BY <1>1, <1>3, <1>4, <1>5, <2>2, <2>3
          DEF LiveChatInit, LiveChatTypeOK, ChatTypes, NoSend, NoRendering, Renderings, PageRows
<1>10. ASSUME NEW p \in Talkers PROVE RowOfTalker(p)
  <2>1. /\ pages[p].shown = shown /\ ~pages[p].connected
        /\ socket[p] = <<>> /\ rendering[p] = NoRendering /\ cut[p] = Skipped(n)
        /\ room \cup joining = {}
      BY <1>3, <1>8 DEF LiveChatInit, PageRow
  <2>2. MessagesIn(<<>>) = {}
      BY <1>5 DEF MessagesIn
  <2>3. \A k \in Slots : sends[p][k] = NoSend
      BY DEF LiveChatInit
  <2>4. In(shown) \subseteq 1..n /\ \A m \in 1..n : m \in In(shown) \/ m <= Skipped(n)
      BY <1>3, <1>4, <1>7
  <2> QED BY <1>3, <1>4, <1>7, <2>1, <2>2, <2>3, <2>4 DEF RowOfTalker, ChatRow, Reaches, NoSend, NoRendering
<1> QED BY <1>9, <1>10 DEF ChatInv, ChatRows

\* One page, socket, handler or rendering changes at a time.
LEMMA RowsTyped ==
    ASSUME ChatTypes, NEW p \in Talkers
    PROVE  /\ \A view \in PageRows : [pages EXCEPT ![p] = view] \in [Talkers -> PageRows]
           /\ \A r \in Renderings : [rendering EXCEPT ![p] = r] \in [Talkers -> Renderings]
           /\ \A s \in Seq(SocketEvents) : [socket EXCEPT ![p] = s] \in [Talkers -> Seq(SocketEvents)]
    BY DEF ChatTypes, LiveChatTypeOK, PageRows

LEMMA RowsAre ==
    ASSUME ChatTypes, NEW p \in Talkers
    PROVE  /\ pages[p] \in PageRows
           /\ \A k \in Slots : sends[p][k] \in Sends \cup {NoSend}
           /\ rendering[p] \in Renderings /\ socket[p] \in Seq(SocketEvents)
           /\ missed[p] \in SUBSET Ids /\ cut[p] \in Nat
<1>1. cut[p] \in Nat
    BY LiveChatAssumption DEF ChatTypes, LiveChatTypeOK
<1>2. \A k \in Slots : sends[p][k] \in Sends \cup {NoSend}
    BY DEF ChatTypes, LiveChatTypeOK
<1> QED BY <1>1, <1>2 DEF ChatTypes, LiveChatTypeOK, PageRows

\* One send changes.
SendBecomes(p, k, x) == sends' = [sends EXCEPT ![p][k] = x]
LEMMA SendChanges ==
    ASSUME ChatTypes, NEW p \in Talkers, NEW k \in Slots, NEW x, SendBecomes(p, k, x)
    PROVE  /\ sends'[p][k] = x
           /\ \A j \in Slots : j # k => sends'[p][j] = sends[p][j]
           /\ \A q \in Talkers : q # p => sends'[q] = sends[q]
           /\ x \in Sends \cup {NoSend} => sends' \in [Talkers -> [Slots -> Sends \cup {NoSend}]]
    BY DEF SendBecomes, ChatTypes, LiveChatTypeOK

\* The sends in progress, by stage.
LEMMA SendStages ==
    ASSUME NEW s \in Sends \cup {NoSend}
    PROVE  /\ s.stage \in {"idle", "sent", "checked", "stored"}
           /\ s.stage = "idle" <=> s = NoSend
           /\ s.stage = "stored" => s.message \in Ids
           /\ s # NoSend => s.own \in BOOLEAN
    BY DEF Sends, NoSend

LeftAlone(s) == [s EXCEPT !.own = FALSE]
LEMMA LeftSend ==
    ASSUME NEW s \in Sends
    PROVE  /\ LeftAlone(s) \in Sends /\ LeftAlone(s).stage = s.stage /\ LeftAlone(s).own = FALSE
           /\ s.stage = "stored" => LeftAlone(s).message = s.message
<1>1. ASSUME NEW stage \in {"sent", "checked"}, NEW own \in BOOLEAN, s = [stage |-> stage, own |-> own]
      PROVE  /\ LeftAlone(s) \in Sends /\ LeftAlone(s).stage = s.stage /\ LeftAlone(s).own = FALSE
             /\ s.stage # "stored"
  <2>1. \A v : [[stage |-> stage, own |-> own] EXCEPT !.own = v] = [stage |-> stage, own |-> v]
      OBVIOUS
  <2>2. LeftAlone(s) = [stage |-> stage, own |-> FALSE]
      BY <1>1, <2>1, Zenon DEF LeftAlone
  <2>3. \A v \in BOOLEAN : /\ [stage |-> stage, own |-> v] \in Sends
                           /\ [stage |-> stage, own |-> v].own = v
      BY DEF Sends
  <2>4. s.stage = stage /\ LeftAlone(s).stage = stage
      BY <1>1, <2>2
  <2>5. LeftAlone(s) \in Sends /\ LeftAlone(s).own = FALSE
      BY <2>2, <2>3, Zenon
  <2> QED BY <2>4, <2>5
<1>2. ASSUME NEW m \in Ids, NEW own \in BOOLEAN, s = [stage |-> "stored", message |-> m, own |-> own]
      PROVE  /\ LeftAlone(s) \in Sends /\ LeftAlone(s).stage = s.stage /\ LeftAlone(s).own = FALSE
             /\ LeftAlone(s).message = s.message
  <2>1. \A v : [[stage |-> "stored", message |-> m, own |-> own] EXCEPT !.own = v]
                = [stage |-> "stored", message |-> m, own |-> v]
      OBVIOUS
  <2>2. LeftAlone(s) = [stage |-> "stored", message |-> m, own |-> FALSE]
      BY <1>2, <2>1, Zenon DEF LeftAlone
  <2>3. \A v \in BOOLEAN : /\ [stage |-> "stored", message |-> m, own |-> v] \in Sends
                           /\ [stage |-> "stored", message |-> m, own |-> v].own = v
      BY DEF Sends
  <2>4. s.stage = "stored" /\ LeftAlone(s).stage = "stored" /\ s.message = m /\ LeftAlone(s).message = m
      BY <1>2, <2>2
  <2>5. LeftAlone(s) \in Sends /\ LeftAlone(s).own = FALSE
      BY <2>2, <2>3, Zenon
  <2> QED BY <2>4, <2>5
<1>3. CASE s \in [stage : {"sent", "checked"}, own : BOOLEAN]
  <2>1. PICK stage \in {"sent", "checked"}, own \in BOOLEAN : s = [stage |-> stage, own |-> own]
      BY <1>3
  <2> QED BY <1>1, <2>1
<1>4. CASE s \in [stage : {"stored"}, message : Ids, own : BOOLEAN]
  <2>1. PICK m \in Ids, own \in BOOLEAN : s = [stage |-> "stored", message |-> m, own |-> own]
      BY <1>4
  <2> QED BY <1>2, <2>1
<1> QED BY <1>3, <1>4 DEF Sends

LEMMA DisownedSend ==
    ASSUME NEW s \in Sends \cup {NoSend}
    PROVE  /\ Disowned(s) \in Sends \cup {NoSend} /\ Disowned(s).stage # "sent"
           /\ Disowned(s) # NoSend => ~Disowned(s).own
           /\ Disowned(s).stage = "stored" <=> s.stage = "stored"
           /\ s.stage = "stored" => Disowned(s).message = s.message
<1>1. CASE s.stage \in {"idle", "sent"}
    BY <1>1 DEF Disowned, NoSend
<1>2. CASE s.stage \notin {"idle", "sent"}
  <2>1. s \in Sends /\ Disowned(s) = LeftAlone(s)
      BY <1>2 DEF NoSend, Disowned, LeftAlone
  <2> QED BY <1>2, <2>1, LeftSend
<1> QED BY <1>1, <1>2

LEMMA CheckedSend ==
    ASSUME NEW s \in Sends, s.stage = "sent"
    PROVE  [s EXCEPT !.stage = "checked"] = [stage |-> "checked", own |-> s.own] /\ s.own \in BOOLEAN
<1>1. s \in [stage : {"sent", "checked"}, own : BOOLEAN]
    BY DEF Sends
<1>2. PICK own \in BOOLEAN : s = [stage |-> "sent", own |-> own]
    BY <1>1
<1>3. [s EXCEPT !.stage = "checked"] = [stage |-> "checked", own |-> own]
    BY <1>2
<1> QED BY <1>2, <1>3

LEMMA RenderingStages ==
    ASSUME NEW r \in Renderings
    PROVE  /\ r.stage \in {"none", "asked", "ready"}
           /\ r.stage = "none" <=> r = NoRendering
           /\ r.stage = "ready" => r.messages \in 0..MaxPosts /\ r.open \in BOOLEAN
    BY DEF Renderings, NoRendering

\* What the steps do to the pages.
Off == FALSE
Failed(view) == view.error \/ view.sending
Answered(view, shown, erred) == [view EXCEPT !.sending = FALSE, !.shown = shown, !.error = erred]
Refreshed(view, shown, enabled, plugged) ==
    [view EXCEPT !.shown = shown, !.enabled = enabled, !.connected = plugged]
LEMMA PageEdits ==
    ASSUME NEW view \in PageRows, NEW x, NEW y, NEW z
    PROVE  /\ Unplugged(view).shown = view.shown /\ Unplugged(view).before = view.before
           /\ Unplugged(view).connected = FALSE /\ Unplugged(view) \in PageRows
           /\ Answered(view, x, z).shown = x /\ Answered(view, x, z).connected = view.connected
           /\ Answered(view, x, z).before = view.before
           /\ x \in Seq(Ids) /\ z \in BOOLEAN => Answered(view, x, z) \in PageRows
           /\ Refreshed(view, x, y, z).shown = x /\ Refreshed(view, x, y, z).connected = z
           /\ Refreshed(view, x, y, z).before = view.before
           /\ x \in Seq(Ids) /\ y \in BOOLEAN /\ z \in BOOLEAN => Refreshed(view, x, y, z) \in PageRows
<1>1. ASSUME NEW s \in Seq(Ids), NEW en \in BOOLEAN, NEW c \in BOOLEAN, NEW b \in BOOLEAN,
             NEW sd \in BOOLEAN, NEW er \in BOOLEAN, view = PageRow(s, en, c, b, sd, er)
      PROVE  /\ Unplugged(view).shown = view.shown /\ Unplugged(view).before = view.before
             /\ Unplugged(view).connected = FALSE /\ Unplugged(view) \in PageRows
             /\ Answered(view, x, z).shown = x /\ Answered(view, x, z).connected = view.connected
             /\ Answered(view, x, z).before = view.before
             /\ x \in Seq(Ids) /\ z \in BOOLEAN => Answered(view, x, z) \in PageRows
             /\ Refreshed(view, x, y, z).shown = x /\ Refreshed(view, x, y, z).connected = z
             /\ Refreshed(view, x, y, z).before = view.before
             /\ x \in Seq(Ids) /\ y \in BOOLEAN /\ z \in BOOLEAN => Refreshed(view, x, y, z) \in PageRows
  <2>1. view.shown = s /\ view.connected = c /\ view.before = b
      BY <1>1 DEF PageRow
  <2>3. \A s1 \in Seq(Ids) : \A e1, c1, b1, d1, r1 \in BOOLEAN : PageRow(s1, e1, c1, b1, d1, r1) \in PageRows
      BY DEF PageRow, PageRows
  <2>4. FALSE \in BOOLEAN
      BY Zenon
  <2>5. \A u, v, w : [view EXCEPT !.sending = v, !.shown = u, !.error = w] = PageRow(u, en, c, b, v, w)
    <3> TAKE u, v, w
    <3>1. [PageRow(s, en, c, b, sd, er) EXCEPT !.sending = v] = PageRow(s, en, c, b, v, er)
        BY DEF PageRow
    <3>2. [PageRow(s, en, c, b, v, er) EXCEPT !.shown = u] = PageRow(u, en, c, b, v, er)
        BY DEF PageRow
    <3>3. [PageRow(u, en, c, b, v, er) EXCEPT !.error = w] = PageRow(u, en, c, b, v, w)
        BY DEF PageRow
    <3> QED BY <1>1, <3>1, <3>2, <3>3, Zenon
  <2>6. \A u, v, w : [view EXCEPT !.shown = u, !.enabled = v, !.connected = w] = PageRow(u, v, w, b, sd, er)
    <3> TAKE u, v, w
    <3>1. [PageRow(s, en, c, b, sd, er) EXCEPT !.shown = u] = PageRow(u, en, c, b, sd, er)
        BY DEF PageRow
    <3>2. [PageRow(u, en, c, b, sd, er) EXCEPT !.enabled = v] = PageRow(u, v, c, b, sd, er)
        BY DEF PageRow
    <3>3. [PageRow(u, v, c, b, sd, er) EXCEPT !.connected = w] = PageRow(u, v, w, b, sd, er)
        BY DEF PageRow
    <3> QED BY <1>1, <3>1, <3>2, <3>3, Zenon
  <2>7. \A u, v, w : [view EXCEPT !.connected = u, !.sending = v, !.error = w] = PageRow(s, en, u, b, v, w)
    <3> TAKE u, v, w
    <3>1. [PageRow(s, en, c, b, sd, er) EXCEPT !.connected = u] = PageRow(s, en, u, b, sd, er)
        BY DEF PageRow
    <3>2. [PageRow(s, en, u, b, sd, er) EXCEPT !.sending = v] = PageRow(s, en, u, b, v, er)
        BY DEF PageRow
    <3>3. [PageRow(s, en, u, b, v, er) EXCEPT !.error = w] = PageRow(s, en, u, b, v, w)
        BY DEF PageRow
    <3> QED BY <1>1, <3>1, <3>2, <3>3, Zenon
  <2>8. Answered(view, x, z) = PageRow(x, en, c, b, FALSE, z)
      BY <2>5, Zenon DEF Answered
  <2>9. Refreshed(view, x, y, z) = PageRow(x, y, z, b, sd, er)
      BY <2>6, Zenon DEF Refreshed
  <2>10. Unplugged(view) = PageRow(s, en, FALSE, b, FALSE, Failed(view)) /\ Failed(view) \in BOOLEAN
    <3>1. Unplugged(view) = [view EXCEPT !.connected = FALSE, !.sending = FALSE, !.error = Failed(view)]
        BY DEF Unplugged, Failed
    <3>2. Failed(view) \in BOOLEAN
        BY Zenon DEF Failed
    <3>3. \A w : [view EXCEPT !.connected = FALSE, !.sending = FALSE, !.error = w]
                    = PageRow(s, en, FALSE, b, FALSE, w)
        BY <2>7, Zenon
    <3> QED BY <3>1, <3>2, <3>3, Zenon
  <2>11. /\ Unplugged(view).shown = s /\ Unplugged(view).before = b
         /\ Unplugged(view).connected = Off
    <3>1. \A u, v, w : /\ PageRow(s, en, u, b, v, w).shown = s /\ PageRow(s, en, u, b, v, w).before = b
                       /\ PageRow(s, en, u, b, v, w).connected = u
        BY DEF PageRow
    <3>2. Unplugged(view) = PageRow(s, en, Off, b, Off, Failed(view))
        BY <2>10, Zenon DEF Off
    <3>3. \A w : /\ PageRow(s, en, Off, b, Off, w).shown = s /\ PageRow(s, en, Off, b, Off, w).before = b
                 /\ PageRow(s, en, Off, b, Off, w).connected = Off
        BY <3>1
    <3> QED BY <3>2, <3>3
  <2>12. Unplugged(view) \in PageRows
      BY <2>3, <2>4, <2>10, Zenon
  <2>13. /\ Answered(view, x, z).shown = x /\ Answered(view, x, z).connected = c
         /\ Answered(view, x, z).before = b
    <3>1. \A v : /\ PageRow(x, en, c, b, v, z).shown = x /\ PageRow(x, en, c, b, v, z).connected = c
                 /\ PageRow(x, en, c, b, v, z).before = b
        BY DEF PageRow
    <3> QED BY <2>8, <3>1, Zenon
  <2>14. x \in Seq(Ids) /\ z \in BOOLEAN => Answered(view, x, z) \in PageRows
      BY <2>3, <2>4, <2>8, Zenon
  <2>15. /\ Refreshed(view, x, y, z).shown = x /\ Refreshed(view, x, y, z).connected = z
         /\ Refreshed(view, x, y, z).before = b
      BY <2>9 DEF PageRow
  <2>16. x \in Seq(Ids) /\ y \in BOOLEAN /\ z \in BOOLEAN => Refreshed(view, x, y, z) \in PageRows
    <3> SUFFICES ASSUME x \in Seq(Ids), y \in BOOLEAN, z \in BOOLEAN
                 PROVE  Refreshed(view, x, y, z) \in PageRows
        OBVIOUS
    <3>1. PageRow(x, y, z, b, sd, er) \in PageRows
        BY <2>3
    <3> QED BY <2>9, <3>1, Zenon
  <2>17. Unplugged(view).connected = FALSE
      BY <2>11 DEF Off
  <2> QED BY <2>1, <2>11, <2>12, <2>13, <2>14, <2>15, <2>16, <2>17, Zenon
<1>2. \E s \in Seq(Ids), en \in BOOLEAN, c \in BOOLEAN, b \in BOOLEAN, sd \in BOOLEAN, er \in BOOLEAN :
            view = PageRow(s, en, c, b, sd, er)
  <2>1. /\ view = PageRow(view.shown, view.enabled, view.connected, view.before, view.sending, view.error)
        /\ view.shown \in Seq(Ids) /\ view.enabled \in BOOLEAN /\ view.connected \in BOOLEAN
        /\ view.before \in BOOLEAN /\ view.sending \in BOOLEAN /\ view.error \in BOOLEAN
      BY DEF PageRows, PageRow
  <2> QED BY <2>1, Zenon
<1> QED BY <1>1, <1>2, Zenon

TurnedAway(view) == [Unplugged(view) EXCEPT !.error = TRUE, !.enabled = FALSE]
LEMMA RefusedPage ==
    ASSUME NEW view \in PageRows
    PROVE  /\ TurnedAway(view) \in PageRows /\ TurnedAway(view).shown = view.shown
           /\ TurnedAway(view).before = view.before /\ TurnedAway(view).connected = FALSE
<1> DEFINE u == Unplugged(view)
<1>1. u \in PageRows /\ u.shown = view.shown /\ u.before = view.before /\ u.connected = FALSE
    BY PageEdits
<1>2. \A r \in PageRows, v \in BOOLEAN, w \in BOOLEAN :
        /\ [r EXCEPT !.error = v, !.enabled = w] \in PageRows
        /\ [r EXCEPT !.error = v, !.enabled = w].shown = r.shown
        /\ [r EXCEPT !.error = v, !.enabled = w].before = r.before
        /\ [r EXCEPT !.error = v, !.enabled = w].connected = r.connected
    BY DEF PageRows
<1>3. TRUE \in BOOLEAN /\ FALSE \in BOOLEAN
    BY Zenon
<1>4. TurnedAway(view) = [u EXCEPT !.error = TRUE, !.enabled = FALSE]
    BY DEF TurnedAway
<1> HIDE DEF u
<1> QED BY <1>1, <1>2, <1>3, <1>4, Zenon

\* What becomes of the sends of a page whose connection is lost.
LEMMA DisownRows ==
    ASSUME ChatTypes, NEW p \in Talkers, Disown(p)
    PROVE  /\ sends' \in [Talkers -> [Slots -> Sends \cup {NoSend}]]
           /\ \A k \in Slots :
                /\ sends'[p][k].stage # "sent" /\ (sends'[p][k] # NoSend => ~sends'[p][k].own)
                /\ sends'[p][k].stage = "stored" =>
                        sends[p][k].stage = "stored" /\ sends'[p][k].message = sends[p][k].message
           /\ Unannounced \subseteq Unannounced'
           /\ \A q \in Talkers : q # p => sends'[q] = sends[q]
<1>1. \A q \in Talkers, k \in Slots : sends[q][k] \in Sends \cup {NoSend}
    BY DEF ChatTypes, LiveChatTypeOK
<1>2. \A s \in Sends \cup {NoSend} :
            /\ Disowned(s) \in Sends \cup {NoSend} /\ Disowned(s).stage # "sent"
            /\ Disowned(s) # NoSend => ~Disowned(s).own
            /\ Disowned(s).stage = "stored" <=> s.stage = "stored"
            /\ s.stage = "stored" => Disowned(s).message = s.message
    BY DisownedSend
<1>3. /\ sends' = [sends EXCEPT ![p] = [k \in Slots |-> Disowned(sends[p][k])]]
      /\ sends \in [Talkers -> [Slots -> Sends \cup {NoSend}]]
    BY DEF Disown, ChatTypes, LiveChatTypeOK
<1>4. /\ \A k \in Slots : sends'[p][k] = Disowned(sends[p][k])
      /\ \A q \in Talkers : q # p => sends'[q] = sends[q]
    BY <1>3
<1>5. sends' \in [Talkers -> [Slots -> Sends \cup {NoSend}]]
  <2>1. [k \in Slots |-> Disowned(sends[p][k])] \in [Slots -> Sends \cup {NoSend}]
      BY <1>1, <1>2
  <2> QED BY <1>3, <2>1
<1>6. Unannounced \subseteq Unannounced'
  <2>1. \A q \in Talkers, k \in Slots : sends[q][k].stage = "stored" =>
                sends'[q][k].stage = "stored" /\ sends'[q][k].message = sends[q][k].message
      BY <1>1, <1>2, <1>4
  <2> QED BY <2>1 DEF Unannounced
<1> QED BY <1>1, <1>2, <1>4, <1>5, <1>6

LEMMA ChatTypesStay ==
    ASSUME ChatInv, LiveChatNext
    PROVE  ChatTypes'
<1>1. ChatTypes /\ MaxPosts \in Nat /\ MaxLosses \in Nat
    BY LiveChatAssumption DEF ChatInv
<1>21. \A p \in Talkers, k \in Slots : sends[p][k] \in Sends \cup {NoSend}
    BY <1>1, RowsAre
<1>22. Len(thread) \in Nat
    BY <1>1 DEF ChatTypes
<1> USE DEF ChatTypes, LiveChatTypeOK
<1>2. ASSUME NEW p \in Talkers, ConnectPage(p) PROVE ChatTypes'
  <2>1. pages' \in [Talkers -> PageRows]
      BY <1>1, <1>2 DEF ConnectPage, PageRows
  <2>2. rendering' \in [Talkers -> Renderings]
      BY <1>1, <1>2 DEF ConnectPage, Renderings
  <2>3. joining' \subseteq Talkers /\ missed' \in [Talkers -> SUBSET Ids]
      BY <1>1, <1>2 DEF ConnectPage
  <2> QED BY <1>1, <1>2, <2>1, <2>2, <2>3 DEF ConnectPage, PageRows, Thread
<1>3. ASSUME NEW p \in Talkers, Join(p) \/ Authenticate(p) PROVE ChatTypes'
    BY <1>1, <1>3 DEF Join, Authenticate, Thread
<1>4. ASSUME NEW lost \in SUBSET Talkers, Unplug(lost)
      PROVE  /\ known' \subseteq Talkers /\ room' \subseteq Talkers /\ joining' \subseteq Talkers
             /\ socket' \in [Talkers -> Seq(SocketEvents)]
  <2>1. <<>> \in Seq(SocketEvents)
      OBVIOUS
  <2> QED BY <1>1, <1>4, <2>1 DEF Unplug
<1>5. ASSUME NEW lost \in SUBSET Talkers, UnplugPages(lost)
      PROVE  pages' \in [Talkers -> PageRows]
  <2>1. \A p \in Talkers : Unplugged(pages[p]) \in PageRows /\ pages[p] \in PageRows
      BY <1>1, PageEdits DEF PageRows
  <2> QED BY <1>5, <2>1 DEF UnplugPages
<1>6. ASSUME NEW p \in Talkers, DisconnectPage(p) PROVE ChatTypes'
  <2>1. Disown(p) /\ Unplug({p}) /\ UnplugPages({p}) /\ {p} \in SUBSET Talkers
      BY <1>6 DEF DisconnectPage
  <2>2. sends' \in [Talkers -> [Slots -> Sends \cup {NoSend}]]
      BY <1>1, <2>1, DisownRows
  <2>3. losses' \in 0..MaxLosses
      BY <1>1, <1>6 DEF DisconnectPage
  <2>4. /\ known' \subseteq Talkers /\ room' \subseteq Talkers /\ joining' \subseteq Talkers
        /\ socket' \in [Talkers -> Seq(SocketEvents)] /\ pages' \in [Talkers -> PageRows]
      BY <1>4, <1>5, <2>1
  <2> QED BY <1>1, <1>6, <2>2, <2>3, <2>4 DEF DisconnectPage, PageRows, Thread
<1>18. ASSUME NEW p \in Talkers, RefuseConnection(p) PROVE ChatTypes'
  <2>1. Disown(p) /\ Unplug({p}) /\ {p} \in SUBSET Talkers
      BY <1>18 DEF RefuseConnection
  <2>2. sends' \in [Talkers -> [Slots -> Sends \cup {NoSend}]]
      BY <1>1, <2>1, DisownRows
  <2>3. pages' \in [Talkers -> PageRows]
    <3>1. pages \in [Talkers -> PageRows]
        BY <1>1 DEF PageRows
    <3>2. pages' = [pages EXCEPT ![p] = TurnedAway(pages[p])]
        BY <1>18, <3>1 DEF RefuseConnection, TurnedAway
    <3>3. TurnedAway(pages[p]) \in PageRows
        BY <3>1, RefusedPage
    <3> QED BY <3>1, <3>2, <3>3
  <2>4. /\ known' \subseteq Talkers /\ room' \subseteq Talkers /\ joining' \subseteq Talkers
        /\ socket' \in [Talkers -> Seq(SocketEvents)]
      BY <1>4, <2>1
  <2> QED BY <1>1, <1>18, <2>2, <2>3, <2>4 DEF RefuseConnection, PageRows, Thread
<1>7. ASSUME ServerDies PROVE ChatTypes'
  <2>1. Unannounced \subseteq Ids
      BY DEF Unannounced
  <2>2. losses' \in 0..MaxLosses /\ missed' \in [Talkers -> SUBSET Ids]
      BY <1>1, <1>7, <2>1 DEF ServerDies
  <2>3. Unplug(Talkers) /\ UnplugPages(Talkers) /\ Talkers \in SUBSET Talkers
      BY <1>7 DEF ServerDies
  <2>4. /\ known' \subseteq Talkers /\ room' \subseteq Talkers /\ joining' \subseteq Talkers
        /\ pages' \in [Talkers -> PageRows] /\ socket' \in [Talkers -> Seq(SocketEvents)]
      BY <1>4, <1>5, <2>3
  <2> QED BY <1>1, <1>7, <2>2, <2>4 DEF ServerDies, PageRows, Thread
<1>8. ASSUME NEW p \in Talkers, NEW k \in Slots, SendChat(p, k) PROVE ChatTypes'
  <2>1. pages' \in [Talkers -> PageRows]
      BY <1>1, <1>8 DEF SendChat, PageRows
  <2>2. [stage |-> "sent", own |-> TRUE] \in Sends
      BY DEF Sends
  <2>3. sends' \in [Talkers -> [Slots -> Sends \cup {NoSend}]]
      BY <1>1, <1>8, <2>2, SendChanges DEF SendChat, SendBecomes
  <2> QED BY <1>1, <1>8, <2>1, <2>3 DEF SendChat, PageRows, Thread
<1>9. ASSUME NEW p \in Talkers, Emit(p, [error |-> TRUE])
      PROVE  socket' \in [Talkers -> Seq(SocketEvents)]
  <2>1. [error |-> TRUE] \in SocketEvents
      BY Zenon DEF SocketEvents
  <2>2. Append(socket[p], [error |-> TRUE]) \in Seq(SocketEvents)
      BY <1>1, <2>1
  <2> QED BY <1>1, <1>9, <2>2 DEF Emit
<1>19. ASSUME NEW p \in Talkers, RefuseJoin(p) PROVE ChatTypes'
  <2>1. socket' \in [Talkers -> Seq(SocketEvents)]
      BY <1>1, <1>9, <1>19 DEF RefuseJoin
  <2> QED BY <1>1, <1>19, <2>1 DEF RefuseJoin, Thread
<1>20. NoSend \in Sends \cup {NoSend}
    OBVIOUS
<1>10. ASSUME NEW p \in Talkers, NEW k \in Slots, ReadOrder(p, k) PROVE ChatTypes'
  <2>1. sends[p][k] \in Sends /\ sends[p][k].stage = "sent"
      BY <1>10, <1>21 DEF ReadOrder, NoSend
  <2>2. [sends[p][k] EXCEPT !.stage = "checked"] \in Sends
    <3>1. \A v \in BOOLEAN : [stage |-> "checked", own |-> v] \in Sends
        BY DEF Sends
    <3> QED BY <2>1, <3>1, CheckedSend, Zenon
  <2>3. sends' \in [Talkers -> [Slots -> Sends \cup {NoSend}]]
    <3>1. \/ sends' = [sends EXCEPT ![p][k] = [sends[p][k] EXCEPT !.stage = "checked"]]
          \/ sends' = [sends EXCEPT ![p][k] = NoSend]
        BY <1>10 DEF ReadOrder
    <3>2. CASE sends' = [sends EXCEPT ![p][k] = [sends[p][k] EXCEPT !.stage = "checked"]]
        BY <1>1, <2>2, <3>2, SendChanges DEF SendBecomes
    <3>3. CASE sends' = [sends EXCEPT ![p][k] = NoSend]
        BY <1>1, <1>20, <3>3, SendChanges DEF SendBecomes
    <3> QED BY <3>1, <3>2, <3>3
  <2>4. socket' \in [Talkers -> Seq(SocketEvents)]
      BY <1>1, <1>9, <1>10 DEF ReadOrder
  <2> QED BY <1>1, <1>10, <2>3, <2>4 DEF ReadOrder, Thread
<1>11. ASSUME NEW p \in Talkers, NEW k \in Slots, Store(p, k) PROVE ChatTypes'
  <2>1. Len(thread) \in Nat /\ Len(thread) + 1 \in Ids
      BY <1>1, <1>11, <1>22 DEF Store, Ids
  <2>2. thread' \in Seq(Talkers) /\ Len(thread') <= MaxPosts /\ \A i \in 1..Len(thread') : thread'[i] \in Talkers
      BY <1>1, <1>11, <2>1 DEF Store
  <2>3. sends[p][k] \in Sends
      BY <1>11, <1>21 DEF Store, NoSend
  <2>4. sends[p][k].own \in BOOLEAN
      BY <2>3 DEF Sends
  <2>5. [stage |-> "stored", message |-> Len(thread) + 1, own |-> sends[p][k].own] \in Sends
      BY <2>1, <2>4 DEF Sends
  <2>6. sends' = [sends EXCEPT ![p][k] = [stage |-> "stored", message |-> Len(thread) + 1,
                                         own |-> sends[p][k].own]]
      BY <1>11 DEF Store
  <2>7. sends' \in [Talkers -> [Slots -> Sends \cup {NoSend}]]
      BY <1>1, <2>5, <2>6, SendChanges DEF SendBecomes
  <2> QED BY <1>1, <1>11, <2>2, <2>7 DEF Store, Thread
<1>12. ASSUME NEW p \in Talkers, NEW k \in Slots, FailStore(p, k) PROVE ChatTypes'
  <2>1. socket' \in [Talkers -> Seq(SocketEvents)]
      BY <1>1, <1>9, <1>12 DEF FailStore
  <2>2. sends' \in [Talkers -> [Slots -> Sends \cup {NoSend}]]
      BY <1>1, <1>12, <1>20, SendChanges DEF FailStore, SendBecomes
  <2> QED BY <1>1, <1>12, <2>1, <2>2 DEF FailStore, Thread
<1>13. ASSUME NEW p \in Talkers, NEW k \in Slots, Announce(p, k) PROVE ChatTypes'
  <2>1. sends[p][k].message \in Ids
    <3>1. sends[p][k] \in Sends /\ sends[p][k].stage = "stored"
        BY <1>13, <1>21 DEF Announce, NoSend
    <3> QED BY <3>1, SendStages
  <2>2. [message |-> sends[p][k].message] \in SocketEvents
      BY <2>1 DEF SocketEvents
  <2>3. socket' \in [Talkers -> Seq(SocketEvents)]
    <3>1. \A e \in SocketEvents : \A q \in Talkers : Append(socket[q], e) \in Seq(SocketEvents)
        BY <1>1
    <3>2. \A q \in Talkers : Append(socket[q], [message |-> sends[p][k].message]) \in Seq(SocketEvents)
        BY <2>2, <3>1
    <3> QED BY <1>1, <1>13, <3>2 DEF Announce
  <2>4. missed' \in [Talkers -> SUBSET Ids] /\ room' \subseteq Talkers
      BY <1>1, <1>13, <2>1 DEF Announce, Hearers
  <2>5. sends' \in [Talkers -> [Slots -> Sends \cup {NoSend}]]
      BY <1>1, <1>13, <1>20, SendChanges DEF Announce, SendBecomes
  <2> QED BY <1>1, <1>13, <2>3, <2>4, <2>5 DEF Announce, Thread
<1>14. ASSUME CloseOrder PROVE ChatTypes'
    BY <1>1, <1>14 DEF CloseOrder, Thread
<1>15. ASSUME NEW p \in Talkers, ReceiveChat(p) PROVE ChatTypes'
  <2> DEFINE e == Head(socket[p])
             shown == IF "message" \in DOMAIN e THEN Appended(pages[p].shown, e.message) ELSE pages[p].shown
  <2>1. e \in SocketEvents /\ Tail(socket[p]) \in Seq(SocketEvents)
      BY <1>1, <1>15 DEF ReceiveChat
  <2>2. shown \in Seq(Ids)
    <3>1. "message" \in DOMAIN e => e.message \in Ids
        BY <2>1 DEF SocketEvents
    <3>2. pages[p].shown \in Seq(Ids) /\ Once(pages[p].shown)
        BY <1>1 DEF ChatInv, ChatRows, RowOfTalker, ChatRow
    <3> HIDE DEF e
    <3> QED BY <3>1, <3>2, AppendedOnce
  <2>3. pages' = [pages EXCEPT ![p].sending = FALSE, ![p].shown = shown,
                               ![p].error = @ \/ "error" \in DOMAIN e]
      BY <1>1, <1>15 DEF ReceiveChat
  <2> HIDE DEF shown, e
  <2>4. pages' \in [Talkers -> PageRows]
    <3> DEFINE erred == pages[p].error \/ "error" \in DOMAIN e
    <3>1. erred \in BOOLEAN /\ pages[p] \in PageRows
        BY <1>1 DEF PageRows
    <3>2. pages' = [pages EXCEPT ![p] = Answered(pages[p], shown, erred)]
        BY <1>1, <2>3 DEF Answered
    <3> HIDE DEF erred
    <3>3. Answered(pages[p], shown, erred) \in PageRows
        BY <2>2, <3>1, PageEdits
    <3> QED BY <1>1, <3>2, <3>3 DEF PageRows
  <2>5. socket' \in [Talkers -> Seq(SocketEvents)]
      BY <1>1, <1>15, <2>1 DEF ReceiveChat
  <2> QED BY <1>1, <1>15, <2>4, <2>5 DEF ReceiveChat, PageRows, Thread
<1>16. ASSUME NEW p \in Talkers, Render(p) PROVE ChatTypes'
  <2>1. [stage |-> "ready", messages |-> Len(thread), open |-> open] \in Renderings
      BY <1>1 DEF Renderings
  <2> QED BY <1>1, <1>16, <2>1 DEF Render, Thread
<1>17. ASSUME NEW p \in Talkers, Refresh(p) PROVE ChatTypes'
  <2> DEFINE shown == Merged(pages[p].shown, rendering[p].messages)
  <2>1. rendering[p].messages \in 0..MaxPosts /\ rendering[p].open \in BOOLEAN
      BY <1>1, <1>17, RenderingStages DEF Refresh
  <2>2. shown \in Seq(Ids)
    <3>1. pages[p].shown \in Seq(Ids) /\ Once(pages[p].shown)
        BY <1>1 DEF ChatInv, ChatRows, RowOfTalker, ChatRow
    <3>2. rendering[p].messages \in Nat /\ 1..rendering[p].messages \subseteq Ids
        BY <1>1, <2>1 DEF Ids
    <3> QED BY <3>1, <3>2, MergedOnce
  <2>3. pages' = [pages EXCEPT ![p].shown = shown, ![p].enabled = @ /\ rendering[p].open,
                               ![p].connected = @ /\ rendering[p].open]
      BY <1>17 DEF Refresh
  <2> HIDE DEF shown
  <2>4. pages' \in [Talkers -> PageRows]
    <3> DEFINE plugged == pages[p].connected /\ rendering[p].open
               enabled == pages[p].enabled /\ rendering[p].open
    <3>1. plugged \in BOOLEAN /\ enabled \in BOOLEAN /\ pages[p] \in PageRows
        BY <1>1 DEF PageRows
    <3>2. pages' = [pages EXCEPT ![p] = Refreshed(pages[p], shown, enabled, plugged)]
        BY <1>1, <2>3 DEF Refreshed
    <3> HIDE DEF plugged, enabled
    <3>3. Refreshed(pages[p], shown, enabled, plugged) \in PageRows
        BY <2>1, <2>2, <3>1, PageEdits
    <3> QED BY <1>1, <3>2, <3>3 DEF PageRows
  <2>5. NoRendering \in Renderings
      BY DEF NoRendering, Renderings
  <2>6. cut' \in [Talkers -> 0..MaxPosts]
    <3>1. rendering[p].messages \in Nat /\ rendering[p].messages <= MaxPosts
        BY <1>1, <2>1
    <3>2. Skipped(rendering[p].messages) \in 0..MaxPosts
      <4> DEFINE n == rendering[p].messages
      <4>1. n \in Nat /\ n <= MaxPosts
          BY <3>1
      <4> HIDE DEF n
      <4>2. Skipped(n) \in Nat /\ Skipped(n) <= n
          BY <4>1, SkippedIs
      <4>3. Skipped(n) \in 0..MaxPosts
          BY <1>1, <4>1, <4>2
      <4> QED BY <4>3 DEF n
    <3> QED BY <1>1, <1>17, <3>2 DEF Refresh
  <2>7. /\ known' \subseteq Talkers /\ room' \subseteq Talkers /\ joining' \subseteq Talkers
        /\ socket' \in [Talkers -> Seq(SocketEvents)] /\ sends' \in [Talkers -> [Slots -> Sends \cup {NoSend}]]
    <3>1. CASE rendering[p].open
        BY <1>1, <1>17, <3>1 DEF Refresh
    <3>2. CASE ~rendering[p].open
      <4>1. Unplug({p}) /\ Disown(p) /\ {p} \in SUBSET Talkers
          BY <1>17, <3>2 DEF Refresh
      <4>2. sends' \in [Talkers -> [Slots -> Sends \cup {NoSend}]]
          BY <1>1, <4>1, DisownRows
      <4> QED BY <1>4, <4>1, <4>2
    <3> QED BY <3>1, <3>2
  <2> QED BY <1>1, <1>17, <2>4, <2>5, <2>6, <2>7 DEF Refresh, PageRows, Thread
<1> QED BY <1>2, <1>3, <1>6, <1>7, <1>8, <1>10, <1>11, <1>12, <1>13, <1>14, <1>15, <1>16, <1>17,
    <1>18, <1>19
    DEF LiveChatNext

\* The messages on their way, as events are sent and received.
LEMMA MessageSent ==
    ASSUME NEW s \in Seq(SocketEvents), NEW m \in Ids
    PROVE  MessagesIn(Append(s, [message |-> m])) = MessagesIn(s) \cup {m}
<1> DEFINE longer == Append(s, [message |-> m])
<1>1. Len(longer) = Len(s) + 1 /\ Len(s) \in Nat
    OBVIOUS
<1>2. longer[Len(s) + 1] = [message |-> m] /\ \A i \in 1..Len(s) : longer[i] = s[i]
    OBVIOUS
<1> HIDE DEF longer
<1>3. IsMessage([message |-> m]) /\ [message |-> m].message = m
    BY DEF IsMessage
<1>4. \A i \in 1..Len(longer) : i \in 1..Len(s) \/ i = Len(s) + 1
    BY <1>1
<1>5. 1..Len(s) \subseteq 1..Len(longer) /\ Len(s) + 1 \in 1..Len(longer)
    BY <1>1
<1>6. ASSUME NEW x \in MessagesIn(longer) PROVE x \in MessagesIn(s) \cup {m}
    BY <1>2, <1>3, <1>4, <1>6 DEF MessagesIn
<1>7. ASSUME NEW x \in MessagesIn(s) \cup {m} PROVE x \in MessagesIn(longer)
    BY <1>2, <1>3, <1>5, <1>7 DEF MessagesIn
<1>8. MessagesIn(longer) = MessagesIn(s) \cup {m}
    BY <1>6, <1>7
<1> QED BY <1>8 DEF longer

LEMMA ErrorSent ==
    ASSUME NEW s \in Seq(SocketEvents)
    PROVE  MessagesIn(Append(s, [error |-> TRUE])) = MessagesIn(s)
<1> DEFINE e == [error |-> TRUE]
           longer == Append(s, e)
<1>3. ~IsMessage(e)
  <2>1. \A v : ~IsMessage([error |-> v])
      BY DEF IsMessage
  <2> QED BY <2>1, Zenon
<1> HIDE DEF e
<1>1. Len(longer) = Len(s) + 1 /\ Len(s) \in Nat
    OBVIOUS
<1>2. longer[Len(s) + 1] = e /\ \A i \in 1..Len(s) : longer[i] = s[i]
    OBVIOUS
<1> HIDE DEF longer
<1>4. \A i \in 1..Len(longer) : i \in 1..Len(s) \/ i = Len(s) + 1
    BY <1>1
<1>5. 1..Len(s) \subseteq 1..Len(longer)
    BY <1>1
<1>6. ASSUME NEW x \in MessagesIn(longer) PROVE x \in MessagesIn(s)
    BY <1>2, <1>3, <1>4, <1>6 DEF MessagesIn
<1>7. ASSUME NEW x \in MessagesIn(s) PROVE x \in MessagesIn(longer)
    BY <1>2, <1>5, <1>7 DEF MessagesIn
<1>8. MessagesIn(longer) = MessagesIn(s)
    BY <1>6, <1>7
<1> QED BY <1>8, Zenon DEF longer, e

LEMMA MessageReceived ==
    ASSUME NEW s \in Seq(SocketEvents), s # <<>>
    PROVE  /\ IsMessage(Head(s)) => /\ Head(s).message \in MessagesIn(s)
                                    /\ MessagesIn(s) = MessagesIn(Tail(s)) \cup {Head(s).message}
           /\ ~IsMessage(Head(s)) => MessagesIn(s) = MessagesIn(Tail(s))
<1> DEFINE e == Head(s)
           rest == Tail(s)
<1>1. Len(rest) + 1 = Len(s) /\ Len(rest) \in Nat /\ e = s[1]
    OBVIOUS
<1>2. \A i \in 1..Len(rest) : rest[i] = s[i + 1]
    OBVIOUS
<1>3. IsMessage(e) => e.message \in Ids
  <2>1. e \in SocketEvents
      OBVIOUS
  <2> HIDE DEF e
  <2> QED BY <2>1 DEF SocketEvents, IsMessage
<1> HIDE DEF e, rest
<1>4. \A i \in 1..Len(s) : i = 1 \/ (i - 1 \in 1..Len(rest) /\ i - 1 + 1 = i)
    BY <1>1
<1>5. 1 \in 1..Len(s) /\ \A i \in 1..Len(rest) : i + 1 \in 1..Len(s)
    BY <1>1
<1>6. ASSUME NEW x \in MessagesIn(s) PROVE x \in MessagesIn(rest) \/ (IsMessage(e) /\ x = e.message)
  <2>1. PICK i \in 1..Len(s) : IsMessage(s[i]) /\ s[i].message = x
      BY DEF MessagesIn
  <2>2. CASE i = 1
      BY <1>1, <2>1, <2>2
  <2>3. CASE i # 1
    <3>1. i - 1 \in 1..Len(rest) /\ rest[i - 1] = s[i]
        BY <1>2, <1>4, <2>3
    <3> QED BY <2>1, <3>1 DEF MessagesIn
  <2> QED BY <2>2, <2>3
<1>7. ASSUME NEW x \in MessagesIn(rest) PROVE x \in MessagesIn(s)
    BY <1>2, <1>5, <1>7 DEF MessagesIn
<1>8. IsMessage(e) => e.message \in MessagesIn(s)
    BY <1>1, <1>3, <1>5 DEF MessagesIn
<1>9. /\ IsMessage(e) => e.message \in MessagesIn(s) /\ MessagesIn(s) = MessagesIn(rest) \cup {e.message}
      /\ ~IsMessage(e) => MessagesIn(s) = MessagesIn(rest)
    BY <1>6, <1>7, <1>8
<1> QED BY <1>9 DEF e, rest

\* What is pending stays so, but for the message of the one send that ends.
LEMMA PendingStays ==
    ASSUME ChatTypes, NEW p \in Talkers, NEW k \in Slots, NEW x, SendBecomes(p, k, x)
    PROVE  /\ Unannounced \subseteq Unannounced' \cup
                (IF sends[p][k].stage = "stored" THEN {sends[p][k].message} ELSE {})
           /\ x.stage = "stored" /\ x.message \in Ids => x.message \in Unannounced'
<1>1. /\ sends'[p][k] = x
      /\ \A j \in Slots : j # k => sends'[p][j] = sends[p][j]
      /\ \A q \in Talkers : q # p => sends'[q] = sends[q]
    BY SendChanges
<1> QED BY <1>1 DEF Unannounced

LEMMA RowStays ==
    ASSUME NEW p, NEW who, NEW n \in Nat, NEW pending, NEW view, NEW events, NEW mine, NEW rnd, NEW gone,
           NEW c \in Nat, ChatRow(p, who, n, pending, view, events, mine, rnd, gone, c),
           NEW who2, NEW n2 \in Nat, NEW pending2, n <= n2,
           p \in who2 => p \in who, (1..n2) \ pending2 \subseteq (1..n) \ pending,
           rnd \in Renderings
    PROVE  ChatRow(p, who2, n2, pending2, view, events, mine, rnd, gone, c)
<1>1. 1..n \subseteq 1..n2
    OBVIOUS
<1>2. rnd.stage = "ready" => rnd.messages \in Int
    BY RenderingStages
<1>3. rnd.stage = "ready" => rnd.messages <= n2
    BY <1>2 DEF ChatRow
<1>4. c <= Skipped(n2)
  <2>1. Skipped(n) \in Nat /\ Skipped(n2) \in Nat /\ Skipped(n) <= Skipped(n2) /\ c <= Skipped(n)
      BY SkippedIs DEF ChatRow
  <2> QED BY <2>1
<1> QED BY <1>1, <1>3, <1>4 DEF ChatRow

LEMMA OtherRow ==
    ASSUME ChatInv, ChatTypes', NEW q \in Talkers,
           pages'[q] = pages[q], socket'[q] = socket[q], sends'[q] = sends[q],
           rendering'[q] = rendering[q], missed'[q] = missed[q], cut'[q] = cut[q],
           q \in room' \cup joining' => q \in room \cup joining,
           Len(thread) <= Len(thread'),
           (1..Len(thread')) \ Unannounced' \subseteq (1..Len(thread)) \ Unannounced
    PROVE  RowOfTalker(q)'
<1>1. RowOfTalker(q) /\ rendering[q] \in Renderings /\ cut[q] \in Nat
    BY RowsAre DEF ChatInv, ChatRows
<1>2. Len(thread) \in Nat /\ Len(thread') \in Nat
    BY DEF ChatInv, ChatTypes
<1> DEFINE who == room \cup joining
           who2 == room' \cup joining'
           n == Len(thread)
           n2 == Len(thread')
           pending == Unannounced
           pending2 == Unannounced'
           view == pages[q]
           events == socket[q]
           mine == sends[q]
           rnd == rendering[q]
           gone == missed[q]
           c == cut[q]
<1>3. /\ ChatRow(q, who, n, pending, view, events, mine, rnd, gone, c)
      /\ n \in Nat /\ n2 \in Nat /\ n <= n2 /\ rnd \in Renderings /\ c \in Nat
      /\ q \in who2 => q \in who
      /\ (1..n2) \ pending2 \subseteq (1..n) \ pending
    BY <1>1, <1>2 DEF RowOfTalker
<1>4. RowOfTalker(q)' = ChatRow(q, who2, n2, pending2, view, events, mine, rnd, gone, c)
    BY DEF RowOfTalker
<1> HIDE DEF who, who2, n, n2, pending, pending2, view, events, mine, rnd, gone, c
<1>5. ChatRow(q, who2, n2, pending2, view, events, mine, rnd, gone, c)
    BY <1>3, RowStays
<1> QED BY <1>4, <1>5

LEMMA ConnectRows ==
    ASSUME ChatInv, ChatTypes', NEW p \in Talkers, ConnectPage(p)
    PROVE  ChatRows'
<1> SUFFICES ASSUME NEW q \in Talkers PROVE RowOfTalker(q)'
    BY DEF ChatRows
<1>1. ChatTypes /\ RowOfTalker(p)
    BY DEF ChatInv, ChatRows
<1>2. Unannounced' = Unannounced /\ thread' = thread /\ Len(thread) \in Nat
    BY <1>1 DEF ConnectPage, Unannounced, ChatTypes
<1>3. CASE q # p
  <2>1. /\ pages'[q] = pages[q] /\ socket'[q] = socket[q] /\ sends'[q] = sends[q]
        /\ rendering'[q] = rendering[q] /\ missed'[q] = missed[q] /\ cut'[q] = cut[q]
        /\ q \in room' \cup joining' => q \in room \cup joining
      BY <1>1, <1>3 DEF ConnectPage, ChatTypes, LiveChatTypeOK
  <2> QED BY <1>2, <2>1, OtherRow
<1>4. CASE q = p
  <2>1. pages[p] \in PageRows
      BY <1>1, RowsAre
  <2>2. /\ pages'[p].shown = pages[p].shown /\ pages'[p].connected /\ pages'[p].before
        /\ socket'[p] = socket[p] /\ sends'[p] = sends[p] /\ cut'[p] = cut[p]
        /\ IF pages[p].before THEN rendering'[p] = [stage |-> "asked"] /\ missed'[p] = {}
           ELSE rendering'[p] = rendering[p] /\ missed'[p] = missed[p]
      BY <1>1, <2>1 DEF ConnectPage, AsksForRendering, ChatTypes, LiveChatTypeOK, PageRows
  <2>3. CASE pages[p].before
      BY <1>1, <1>2, <1>4, <2>2, <2>3 DEF RowOfTalker, ChatRow, Reaches, NoRendering
  <2>4. CASE ~pages[p].before
      BY <1>1, <1>2, <1>4, <2>2, <2>4 DEF RowOfTalker, ChatRow, Reaches, NoRendering
  <2> QED BY <2>3, <2>4
<1> QED BY <1>3, <1>4

LEMMA JoinRows ==
    ASSUME ChatInv, ChatTypes', NEW p \in Talkers, Join(p) \/ Authenticate(p) \/ CloseOrder
    PROVE  ChatRows'
<1> SUFFICES ASSUME NEW q \in Talkers PROVE RowOfTalker(q)'
    BY DEF ChatRows
<1>1. /\ Unannounced' = Unannounced /\ thread' = thread /\ Len(thread) \in Nat
      /\ pages'[q] = pages[q] /\ socket'[q] = socket[q] /\ sends'[q] = sends[q]
      /\ rendering'[q] = rendering[q] /\ missed'[q] = missed[q] /\ cut'[q] = cut[q]
      /\ q \in room' \cup joining' => q \in room \cup joining
    BY DEF Join, Authenticate, CloseOrder, Unannounced, ChatInv, ChatTypes
<1> QED BY <1>1, OtherRow

LEMMA LostRow ==
    ASSUME ChatInv, NEW p \in Talkers, NEW lost \in SUBSET Talkers, Unplug(lost), UnplugPages(lost), p \in lost
    PROVE  /\ pages'[p].shown = pages[p].shown /\ ~pages'[p].connected
           /\ pages'[p].before = pages[p].before /\ socket'[p] = <<>>
           /\ p \notin room' \cup joining'
<1>1. pages[p] \in PageRows
    BY RowsAre DEF ChatInv
<1>2. /\ Unplugged(pages[p]).shown = pages[p].shown /\ Unplugged(pages[p]).before = pages[p].before
      /\ Unplugged(pages[p]).connected = FALSE
    BY <1>1, PageEdits
<1>3. /\ pages'[p].shown = pages[p].shown /\ ~pages'[p].connected /\ pages'[p].before = pages[p].before
  <2>1. pages'[p] = Unplugged(pages[p]) \/ (pages'[p] = pages[p] /\ ~pages[p].connected)
      BY DEF UnplugPages
  <2> QED BY <1>2, <2>1
<1> QED BY <1>3 DEF Unplug

LEMMA DisconnectRows ==
    ASSUME ChatInv, ChatTypes', NEW p \in Talkers, DisconnectPage(p) \/ RefuseConnection(p)
    PROVE  ChatRows'
<1> SUFFICES ASSUME NEW q \in Talkers PROVE RowOfTalker(q)'
    BY DEF ChatRows
<1>1. ChatTypes /\ RowOfTalker(p) /\ Len(thread) \in Nat /\ pages[p] \in PageRows
    BY RowsAre DEF ChatInv, ChatRows, ChatTypes
<1>2. /\ thread' = thread /\ rendering' = rendering /\ missed' = missed /\ cut' = cut
      /\ Unplug({p}) /\ Disown(p) /\ pages[p].connected /\ {p} \in SUBSET Talkers
    BY DEF DisconnectPage, RefuseConnection
<1>3. /\ \A k \in Slots :
            /\ sends'[p][k].stage # "sent" /\ (sends'[p][k] # NoSend => ~sends'[p][k].own)
            /\ sends'[p][k].stage = "stored" =>
                    sends[p][k].stage = "stored" /\ sends'[p][k].message = sends[p][k].message
      /\ Unannounced \subseteq Unannounced'
      /\ \A r \in Talkers : r # p => sends'[r] = sends[r]
    BY <1>1, <1>2, DisownRows
<1>4. CASE q # p
  <2>1. pages'[q] = pages[q]
    <3>1. CASE DisconnectPage(p)
        BY <1>4, <3>1 DEF DisconnectPage, UnplugPages
    <3>2. CASE RefuseConnection(p)
      <4>1. pages' = [pages EXCEPT ![p] = TurnedAway(pages[p])]
          BY <1>1, <3>2 DEF RefuseConnection, TurnedAway, ChatTypes, LiveChatTypeOK
      <4> QED BY <1>1, <1>4, <4>1 DEF ChatTypes, LiveChatTypeOK
    <3> QED BY <3>1, <3>2
  <2>2. /\ socket'[q] = socket[q]
        /\ q \in room' \cup joining' => q \in room \cup joining
      BY <1>2, <1>4 DEF Unplug
  <2> QED BY <1>1, <1>2, <1>3, <1>4, <2>1, <2>2, OtherRow
<1>5. CASE q = p
  <2>1. pages'[p].shown = pages[p].shown /\ ~pages'[p].connected /\ pages'[p].before = pages[p].before
    <3>1. CASE DisconnectPage(p)
        BY <1>2, <3>1, LostRow DEF DisconnectPage
    <3>2. CASE RefuseConnection(p)
      <4>1. pages' = [pages EXCEPT ![p] = TurnedAway(pages[p])]
          BY <1>1, <3>2 DEF RefuseConnection, TurnedAway, ChatTypes, LiveChatTypeOK
      <4>2. pages'[p] = TurnedAway(pages[p])
          BY <1>1, <4>1 DEF ChatTypes, LiveChatTypeOK
      <4> QED BY <1>1, <4>2, RefusedPage
    <3> QED BY <3>1, <3>2
  <2>2. socket'[p] = <<>> /\ p \notin room' \cup joining'
      BY <1>2 DEF Unplug
  <2>3. MessagesIn(<<>>) = {}
      BY DEF MessagesIn
  <2>4. pages[p].before
      BY <1>1, <1>2 DEF RowOfTalker, ChatRow
  <2> QED BY <1>1, <1>2, <1>3, <1>5, <2>1, <2>2, <2>3, <2>4 DEF RowOfTalker, ChatRow
<1> QED BY <1>4, <1>5

LEMMA DeathRows ==
    ASSUME ChatInv, ChatTypes', ServerDies
    PROVE  ChatRows'
<1> SUFFICES ASSUME NEW p \in Talkers PROVE RowOfTalker(p)'
    BY DEF ChatRows
<1>1. ChatTypes /\ RowOfTalker(p) /\ Len(thread) \in Nat
    BY DEF ChatInv, ChatRows, ChatTypes
<1>2. /\ thread' = thread /\ rendering' = rendering /\ cut' = cut
      /\ Unplug(Talkers) /\ UnplugPages(Talkers) /\ Talkers \in SUBSET Talkers
      /\ (\A k \in Slots : sends'[p][k] = NoSend) /\ missed'[p] = missed[p] \cup Unannounced
    BY DEF ServerDies
<1>3. /\ pages'[p].shown = pages[p].shown /\ ~pages'[p].connected
      /\ pages'[p].before = pages[p].before /\ socket'[p] = <<>>
      /\ p \notin room' \cup joining'
    BY <1>2, LostRow
<1>4. MessagesIn(<<>>) = {}
    BY DEF MessagesIn
<1>5. CASE pages[p].before
  <2>1. \A k \in Slots : sends'[p][k].stage # "stored" /\ sends'[p][k].stage # "sent"
      BY <1>2 DEF NoSend
  <2> QED BY <1>1, <1>2, <1>3, <1>4, <1>5, <2>1 DEF RowOfTalker, ChatRow
<1>6. CASE ~pages[p].before
  <2>1. socket[p] = <<>>
      BY <1>1, <1>6 DEF RowOfTalker, ChatRow
  <2>2. \A m \in 1..Len(thread) : m \in Unannounced \/ Reaches(m, pages[p], <<>>, rendering[p], missed[p], cut[p])
      BY <1>1, <1>6, <2>1 DEF RowOfTalker, ChatRow
  <2>3. \A m \in 1..Len(thread) : Reaches(m, pages'[p], <<>>, rendering[p], missed'[p], cut[p])
      BY <1>2, <1>3, <2>2 DEF Reaches
  <2>4. \A k \in Slots : sends'[p][k].stage # "stored" /\ sends'[p][k].stage # "sent"
      BY <1>2 DEF NoSend
  <2> QED BY <1>1, <1>2, <1>3, <1>4, <1>6, <2>3, <2>4 DEF RowOfTalker, ChatRow
<1> QED BY <1>5, <1>6

LEMMA SendRows ==
    ASSUME ChatInv, ChatTypes', NEW p \in Talkers, NEW k \in Slots, SendChat(p, k)
    PROVE  ChatRows'
<1> SUFFICES ASSUME NEW q \in Talkers PROVE RowOfTalker(q)'
    BY DEF ChatRows
<1>1. ChatTypes /\ RowOfTalker(p) /\ Len(thread) \in Nat /\ pages[p] \in PageRows
    BY RowsAre DEF ChatInv, ChatRows, ChatTypes
<1> DEFINE x == [stage |-> "sent", own |-> TRUE]
<1>2. SendBecomes(p, k, x) /\ sends[p][k].stage # "stored"
    BY DEF SendChat, NoSend, SendBecomes
<1>5. x.stage = "sent" /\ x.own
    OBVIOUS
<1> HIDE DEF x
<1>6. Unannounced \subseteq Unannounced'
    BY <1>1, <1>2, PendingStays
<1>7. /\ sends'[p][k] = x
      /\ \A j \in Slots : j # k => sends'[p][j] = sends[p][j]
      /\ \A r \in Talkers : r # p => sends'[r] = sends[r]
    BY <1>1, <1>2, SendChanges
<1>3. CASE q # p
  <2>1. /\ pages'[q] = pages[q] /\ socket'[q] = socket[q] /\ sends'[q] = sends[q]
        /\ rendering'[q] = rendering[q] /\ missed'[q] = missed[q] /\ cut'[q] = cut[q]
        /\ room' \cup joining' = room \cup joining /\ thread' = thread
      BY <1>1, <1>3, <1>7 DEF SendChat, ChatTypes, LiveChatTypeOK
  <2> QED BY <1>1, <1>6, <2>1, OtherRow
<1>4. CASE q = p
  <2>1. /\ pages'[p].shown = pages[p].shown /\ pages'[p].connected /\ pages[p].connected
        /\ pages'[p].before = pages[p].before
        /\ socket'[p] = socket[p] /\ rendering'[p] = rendering[p] /\ missed'[p] = missed[p]
        /\ cut'[p] = cut[p]
        /\ room' \cup joining' = room \cup joining /\ thread' = thread
      BY <1>1 DEF SendChat, ChatTypes, LiveChatTypeOK, PageRows
  <2>2. \A j \in Slots : /\ sends'[p][j].stage = "stored" => sends'[p][j] = sends[p][j]
                         /\ sends'[p][j].stage = "sent" => sends'[p][j].own \/ sends'[p][j] = sends[p][j]
      BY <1>5, <1>7
  <2> QED BY <1>1, <1>6, <1>4, <2>1, <2>2 DEF RowOfTalker, ChatRow, Reaches
<1> QED BY <1>3, <1>4

\* A page is told of an error, and a send of it goes on or ends.
LEMMA ToldRows ==
    ASSUME ChatInv, ChatTypes', NEW p \in Talkers,
           pages' = pages, rendering' = rendering, missed' = missed, cut' = cut, thread' = thread,
           room' \cup joining' \subseteq room \cup joining,
           NEW e, e = [error |-> TRUE], socket' = socket \/ (Emit(p, e) /\ pages[p].connected),
           Unannounced \subseteq Unannounced',
           \A r \in Talkers : r # p => sends'[r] = sends[r],
           \A k \in Slots : \/ sends'[p][k] = sends[p][k] \/ sends'[p][k] = NoSend
                            \/ /\ sends'[p][k].stage \notin {"sent", "stored"}
                               /\ sends[p][k] # NoSend /\ sends'[p][k].own = sends[p][k].own
    PROVE  ChatRows'
<1> SUFFICES ASSUME NEW q \in Talkers PROVE RowOfTalker(q)'
    BY DEF ChatRows
<1>1. ChatTypes /\ RowOfTalker(p) /\ Len(thread) \in Nat /\ pages[p] \in PageRows
    BY RowsAre DEF ChatInv, ChatRows, ChatTypes
<1>2. /\ \A r \in Talkers : r # p => socket'[r] = socket[r]
      /\ socket'[p] = socket[p] \/ (pages[p].connected /\ socket'[p] = Append(socket[p], e))
    BY <1>1 DEF Emit, ChatTypes, LiveChatTypeOK
<1>3. CASE q # p
    BY <1>1, <1>2, <1>3, OtherRow
<1>4. CASE q = p
  <2>1. MessagesIn(socket'[p]) = MessagesIn(socket[p]) /\ (~pages[p].connected => socket'[p] = socket[p])
    <3>1. socket[p] \in Seq(SocketEvents)
        BY <1>1, RowsAre
    <3>2. MessagesIn(Append(socket[p], e)) = MessagesIn(socket[p])
        BY <3>1, ErrorSent, Zenon
    <3> QED BY <1>2, <3>2
  <2>2. \A k \in Slots :
            /\ sends'[p][k].stage = "stored" => sends'[p][k].message \in 1..Len(thread)
            /\ sends'[p][k].stage = "sent" => sends'[p][k].own
            /\ sends'[p][k] # NoSend /\ sends'[p][k].own => pages[p].connected
      BY <1>1 DEF RowOfTalker, ChatRow, NoSend
  <2>3. /\ pages'[p] = pages[p] /\ rendering'[p] = rendering[p] /\ missed'[p] = missed[p]
        /\ cut'[p] = cut[p] /\ Len(thread') = Len(thread)
      OBVIOUS
  <2> QED BY <1>1, <1>4, <2>1, <2>2, <2>3 DEF RowOfTalker, ChatRow, Reaches
<1> QED BY <1>3, <1>4

LEMMA RefuseRows ==
    ASSUME ChatInv, ChatTypes', NEW p \in Talkers, RefuseJoin(p)
    PROVE  ChatRows'
<1> DEFINE e == [error |-> TRUE]
<1>1. socket' = socket \/ Emit(p, e)
    BY Zenon DEF RefuseJoin
<1>2. e = [error |-> TRUE]
    OBVIOUS
<1> HIDE DEF e
<1>3. /\ pages' = pages /\ rendering' = rendering /\ missed' = missed /\ cut' = cut /\ thread' = thread
      /\ sends' = sends /\ p \in joining /\ room' \cup joining' \subseteq room \cup joining
    BY DEF RefuseJoin
<1>4. pages[p].connected
    BY <1>3 DEF ChatInv, ChatRows, RowOfTalker, ChatRow
<1>5. Unannounced \subseteq Unannounced'
    BY <1>3 DEF Unannounced
<1> QED BY <1>1, <1>2, <1>3, <1>4, <1>5, ToldRows

\* An error is sent to the page whose send fails.
LEMMA ReadMessageRows ==
    ASSUME ChatInv, ChatTypes', NEW p \in Talkers, NEW k \in Slots, ReadOrder(p, k) \/ FailStore(p, k)
    PROVE  ChatRows'
<1>1. ChatTypes /\ RowOfTalker(p) /\ sends[p][k] \in Sends \cup {NoSend}
    BY RowsAre DEF ChatInv, ChatRows
<1>2. sends[p][k].stage \in {"sent", "checked"} /\ sends[p][k] \in Sends /\ sends[p][k] # NoSend
    BY <1>1 DEF ReadOrder, FailStore, NoSend
<1>3. PICK x : /\ SendBecomes(p, k, x)
               /\ x = NoSend \/ (x.stage = "checked" /\ x.own = sends[p][k].own)
  <2>1. \/ sends' = [sends EXCEPT ![p][k] = NoSend]
        \/ /\ sends' = [sends EXCEPT ![p][k] = [sends[p][k] EXCEPT !.stage = "checked"]]
           /\ sends[p][k].stage = "sent"
      BY <1>1 DEF ReadOrder, FailStore, ChatTypes, LiveChatTypeOK
  <2>2. CASE sends' = [sends EXCEPT ![p][k] = NoSend]
      BY <2>2, Zenon DEF SendBecomes
  <2>3. CASE /\ sends' = [sends EXCEPT ![p][k] = [sends[p][k] EXCEPT !.stage = "checked"]]
             /\ sends[p][k].stage = "sent"
    <3>1. [sends[p][k] EXCEPT !.stage = "checked"] = [stage |-> "checked", own |-> sends[p][k].own]
        BY <1>2, <2>3, CheckedSend
    <3> DEFINE y == [stage |-> "checked", own |-> sends[p][k].own]
    <3>2. SendBecomes(p, k, y)
        BY <2>3, <3>1, Zenon DEF SendBecomes
    <3>3. y.stage = "checked" /\ y.own = sends[p][k].own
        OBVIOUS
    <3> QED BY <3>2, <3>3, Zenon
  <2> QED BY <2>1, <2>2, <2>3
<1>4. Unannounced \subseteq Unannounced'
    BY <1>1, <1>2, <1>3, PendingStays
<1>5. /\ sends'[p][k] = x
      /\ \A j \in Slots : j # k => sends'[p][j] = sends[p][j]
      /\ \A r \in Talkers : r # p => sends'[r] = sends[r]
    BY <1>1, <1>3, SendChanges
<1>6. \A j \in Slots : \/ sends'[p][j] = sends[p][j] \/ sends'[p][j] = NoSend
                       \/ /\ sends'[p][j].stage \notin {"sent", "stored"}
                          /\ sends[p][j] # NoSend /\ sends'[p][j].own = sends[p][j].own
    BY <1>2, <1>3, <1>5
<1> DEFINE e == [error |-> TRUE]
<1>7. socket' = socket \/ (Emit(p, e) /\ (ReadOrder(p, k) \/ sends[p][k].own))
    BY Zenon DEF ReadOrder, FailStore
<1>8. e = [error |-> TRUE]
    OBVIOUS
<1> HIDE DEF e
<1>9. /\ pages' = pages /\ rendering' = rendering /\ missed' = missed /\ cut' = cut /\ thread' = thread
      /\ room' \cup joining' \subseteq room \cup joining
    BY DEF ReadOrder, FailStore
<1>10. (ReadOrder(p, k) => sends[p][k].own) /\ (sends[p][k].own => pages[p].connected)
    BY <1>1, <1>2 DEF ReadOrder, RowOfTalker, ChatRow
<1>11. socket' = socket \/ (Emit(p, e) /\ pages[p].connected)
    BY <1>7, <1>10
<1> QED BY <1>4, <1>5, <1>6, <1>8, <1>9, <1>11, ToldRows

LEMMA StoreRows ==
    ASSUME ChatInv, ChatTypes', NEW p \in Talkers, NEW k \in Slots, Store(p, k)
    PROVE  ChatRows'
<1> SUFFICES ASSUME NEW q \in Talkers PROVE RowOfTalker(q)'
    BY DEF ChatRows
<1>1. ChatTypes /\ RowOfTalker(p) /\ Len(thread) \in Nat /\ pages[p] \in PageRows /\ sends[p][k] \in Sends \cup {NoSend}
      /\ rendering[p] \in Renderings /\ cut[p] \in Nat
    BY RowsAre DEF ChatInv, ChatRows, ChatTypes
<1> DEFINE x == [stage |-> "stored", message |-> Len(thread) + 1, own |-> sends[p][k].own]
<1>2. SendBecomes(p, k, x) /\ sends[p][k].stage = "checked" /\ sends[p][k] # NoSend
    BY <1>1 DEF Store, NoSend, SendBecomes, ChatTypes, LiveChatTypeOK
<1>3. x.stage = "stored" /\ x.message = Len(thread) + 1 /\ x.own = sends[p][k].own
    OBVIOUS
<1> HIDE DEF x
<1>4. Len(thread') = Len(thread) + 1
    BY <1>1 DEF Store, ChatTypes
<1>10. Len(thread) + 1 \in Ids
    BY <1>1, LiveChatAssumption DEF Store, Ids
<1>5. Unannounced \subseteq Unannounced' /\ Len(thread) + 1 \in Unannounced'
    BY <1>1, <1>2, <1>3, <1>10, PendingStays
<1>11. /\ sends'[p][k] = x
       /\ \A j \in Slots : j # k => sends'[p][j] = sends[p][j]
       /\ \A r \in Talkers : r # p => sends'[r] = sends[r]
    BY <1>1, <1>2, SendChanges
<1>6. (1..Len(thread')) \ Unannounced' \subseteq (1..Len(thread)) \ Unannounced
    BY <1>1, <1>4, <1>5
<1>7. /\ pages' = pages /\ socket' = socket /\ rendering' = rendering /\ missed' = missed /\ cut' = cut
      /\ room' \cup joining' = room \cup joining
    BY DEF Store
<1>8. CASE q # p
  <2>1. sends'[q] = sends[q]
      BY <1>8, <1>11
  <2> QED BY <1>1, <1>4, <1>6, <1>7, <2>1, OtherRow
<1>9. CASE q = p
  <2>1. \A j \in Slots : sends'[p][j] = x \/ sends'[p][j] = sends[p][j]
      BY <1>11
  <2>2. 1..Len(thread) \subseteq 1..Len(thread') /\ Len(thread) + 1 \in 1..Len(thread')
      BY <1>1, <1>4
  <2>3. rendering[p].stage = "ready" => rendering[p].messages <= Len(thread')
    <3>1. rendering[p].stage = "ready" => rendering[p].messages \in Int
        BY <1>1, RenderingStages
    <3> QED BY <1>1, <1>4, <3>1 DEF RowOfTalker, ChatRow
  <2>4. cut[p] <= Skipped(Len(thread'))
    <3>1. /\ Skipped(Len(thread)) \in Nat /\ Skipped(Len(thread')) \in Nat
          /\ Skipped(Len(thread)) <= Skipped(Len(thread'))
        BY <1>1, <1>4, SkippedIs
    <3> QED BY <1>1, <3>1 DEF RowOfTalker, ChatRow
  <2>5. \A j \in Slots :
            /\ sends'[p][j].stage = "stored" => sends'[p][j].message \in 1..Len(thread')
            /\ sends'[p][j].stage = "sent" => sends'[p][j].own
            /\ sends'[p][j] # NoSend /\ sends'[p][j].own => pages[p].connected
    <3> TAKE j \in Slots
    <3>1. CASE sends'[p][j] = x
        BY <1>1, <1>2, <1>3, <2>2, <3>1 DEF RowOfTalker, ChatRow
    <3>2. CASE sends'[p][j] = sends[p][j]
        BY <1>1, <2>2, <3>2 DEF RowOfTalker, ChatRow
    <3> QED BY <2>1, <3>1, <3>2
  <2> QED BY <1>1, <1>6, <1>7, <1>9, <2>2, <2>3, <2>4, <2>5 DEF RowOfTalker, ChatRow
<1> QED BY <1>8, <1>9

LEMMA AnnounceRows ==
    ASSUME ChatInv, ChatTypes', NEW p \in Talkers, NEW k \in Slots, Announce(p, k)
    PROVE  ChatRows'
<1> SUFFICES ASSUME NEW q \in Talkers PROVE RowOfTalker(q)'
    BY DEF ChatRows
<1>1. /\ ChatTypes /\ RowOfTalker(q) /\ RowOfTalker(p) /\ Len(thread) \in Nat
      /\ sends[p][k] \in Sends \cup {NoSend} /\ socket[q] \in Seq(SocketEvents)
    BY RowsAre DEF ChatInv, ChatRows, ChatTypes
<1> DEFINE m == sends[p][k].message
<1>2. sends[p][k].stage = "stored" /\ sends[p][k] # NoSend /\ m \in Ids /\ m \in 1..Len(thread)
    BY <1>1, SendStages DEF Announce, NoSend, RowOfTalker, ChatRow
<1>3. /\ sends'[p][k] = NoSend
      /\ \A j \in Slots : j # k => sends'[p][j] = sends[p][j]
      /\ \A r \in Talkers : r # p => sends'[r] = sends[r]
      /\ Unannounced \subseteq Unannounced' \cup {m}
  <2>1. SendBecomes(p, k, NoSend)
      BY DEF Announce, SendBecomes
  <2> QED BY <1>1, <1>2, <2>1, PendingStays, SendChanges
<1>4. /\ pages'[q] = pages[q] /\ rendering'[q] = rendering[q] /\ cut'[q] = cut[q] /\ Len(thread') = Len(thread)
      /\ IF q \in Hearers(p, k) THEN socket'[q] = Append(socket[q], [message |-> m]) /\ missed'[q] = missed[q]
         ELSE socket'[q] = socket[q] /\ missed'[q] = missed[q] \cup {m}
    BY DEF Announce
<1>5. MessagesIn(Append(socket[q], [message |-> m])) = MessagesIn(socket[q]) \cup {m}
    BY <1>1, <1>2, MessageSent
<1> HIDE DEF m
<1>6. q \in Hearers(p, k) => pages[q].connected
    BY <1>1, <1>2 DEF Hearers, RowOfTalker, ChatRow
<1>7. q \in room' \cup joining' => q \in Hearers(p, k) \cup joining
    BY DEF Announce
<1>8. \A j \in Slots :
            /\ sends'[q][j].stage = "stored" => sends'[q][j].message \in 1..Len(thread)
            /\ sends'[q][j].stage = "sent" => sends'[q][j].own
            /\ sends'[q][j] # NoSend /\ sends'[q][j].own => pages[q].connected
  <2> TAKE j \in Slots
  <2>1. CASE q = p /\ j = k
      BY <1>3, <2>1 DEF NoSend
  <2>2. CASE ~(q = p /\ j = k)
    <3>1. sends'[q][j] = sends[q][j]
        BY <1>3, <2>2
    <3> QED BY <1>1, <3>1 DEF RowOfTalker, ChatRow
  <2> QED BY <2>1, <2>2
<1>9. MessagesIn(socket'[q]) \subseteq 1..Len(thread)
    BY <1>1, <1>2, <1>4, <1>5 DEF RowOfTalker, ChatRow
<1>10. q \in room' \cup joining' => pages[q].connected
    BY <1>1, <1>6, <1>7 DEF RowOfTalker, ChatRow
<1>11. ~pages[q].connected => socket'[q] = <<>>
    BY <1>1, <1>4, <1>6 DEF RowOfTalker, ChatRow
<1>12. ASSUME pages[q].connected \/ ~pages[q].before, NEW x \in (1..Len(thread)) \ Unannounced'
       PROVE  Reaches(x, pages[q], socket'[q], rendering[q], missed'[q], cut[q])
  <2>1. CASE x = m
      BY <1>4, <1>5, <2>1 DEF Reaches
  <2>2. CASE x # m
    <3>1. Reaches(x, pages[q], socket[q], rendering[q], missed[q], cut[q])
        BY <1>1, <1>3, <1>12, <2>2 DEF RowOfTalker, ChatRow
    <3> QED BY <1>4, <1>5, <3>1 DEF Reaches
  <2> QED BY <2>1, <2>2
<1>13. /\ Once(pages[q].shown) /\ In(pages[q].shown) \subseteq 1..Len(thread)
       /\ rendering[q].stage = "ready" => rendering[q].messages <= Len(thread) /\ cut[q] <= rendering[q].messages
       /\ cut[q] <= Skipped(Len(thread))
       /\ pages[q].connected => pages[q].before
       /\ rendering[q] # NoRendering => pages[q].before
    BY <1>1 DEF RowOfTalker, ChatRow
<1> QED BY <1>4, <1>8, <1>9, <1>10, <1>11, <1>12, <1>13 DEF RowOfTalker, ChatRow

LEMMA AnsweredPage ==
    ASSUME NEW view \in PageRows, NEW x, NEW z
    PROVE  /\ Answered(view, x, z).shown = x /\ Answered(view, x, z).connected = view.connected
           /\ Answered(view, x, z).before = view.before
<1>1. \A v : LET new == [view EXCEPT !.sending = v, !.shown = x, !.error = z] IN
             new.shown = x /\ new.connected = view.connected /\ new.before = view.before
    BY DEF PageRows
<1> QED BY <1>1, Zenon DEF Answered

LEMMA RefreshedPage ==
    ASSUME NEW view \in PageRows, NEW x, NEW y, NEW z
    PROVE  /\ Refreshed(view, x, y, z).shown = x /\ Refreshed(view, x, y, z).connected = z
           /\ Refreshed(view, x, y, z).before = view.before
    BY DEF PageRows, Refreshed

LEMMA ReceiveRows ==
    ASSUME ChatInv, ChatTypes', NEW p \in Talkers, ReceiveChat(p)
    PROVE  ChatRows'
<1> SUFFICES ASSUME NEW q \in Talkers PROVE RowOfTalker(q)'
    BY DEF ChatRows
<1>1. ChatTypes /\ RowOfTalker(p) /\ Len(thread) \in Nat /\ pages[p] \in PageRows /\ socket[p] \in Seq(SocketEvents)
    BY RowsAre DEF ChatInv, ChatRows, ChatTypes
<1>2. /\ Unannounced' = Unannounced /\ thread' = thread /\ room' = room /\ joining' = joining
      /\ sends' = sends /\ rendering' = rendering /\ missed' = missed /\ cut' = cut /\ socket[p] # <<>>
      /\ socket' = [socket EXCEPT ![p] = Tail(@)]
    BY DEF ReceiveChat, Unannounced
<1> DEFINE e == Head(socket[p])
           shown == IF IsMessage(e) THEN Appended(pages[p].shown, e.message) ELSE pages[p].shown
           failed == pages[p].error \/ "error" \in DOMAIN e
<1>3. pages' = [pages EXCEPT ![p] = Answered(pages[p], shown, failed)]
    BY <1>1 DEF ReceiveChat, Answered, IsMessage, ChatTypes, LiveChatTypeOK
<1>4. /\ IsMessage(e) => e.message \in MessagesIn(socket[p]) /\ MessagesIn(socket[p]) = MessagesIn(Tail(socket[p])) \cup {e.message}
      /\ ~IsMessage(e) => MessagesIn(socket[p]) = MessagesIn(Tail(socket[p]))
    BY <1>1, <1>2, MessageReceived
<1>5. pages[p].shown \in Seq(Ids) /\ Once(pages[p].shown) /\ \A x \in MessagesIn(socket[p]) : x \in Ids
    BY <1>1 DEF RowOfTalker, ChatRow, PageRows, MessagesIn
<1> HIDE DEF e
<1>6. /\ Once(shown)
      /\ In(shown) = In(pages[p].shown) \cup (IF IsMessage(e) THEN {e.message} ELSE {})
  <2>1. CASE IsMessage(e)
    <3>1. e.message \in Ids
        BY <1>4, <1>5, <2>1
    <3>2. /\ Once(Appended(pages[p].shown, e.message))
          /\ In(Appended(pages[p].shown, e.message)) = In(pages[p].shown) \cup {e.message}
        BY <1>5, <3>1, AppendedOnce
    <3> QED BY <2>1, <3>2
  <2>2. CASE ~IsMessage(e)
      BY <1>5, <2>2
  <2> QED BY <2>1, <2>2
<1> HIDE DEF shown, failed
<1>7. CASE q # p
  <2>1. pages'[q] = pages[q] /\ socket'[q] = socket[q]
      BY <1>1, <1>2, <1>3, <1>7 DEF ChatTypes, LiveChatTypeOK
  <2> QED BY <1>1, <1>2, <2>1, OtherRow
<1>8. CASE q = p
  <2>1. pages'[p] = Answered(pages[p], shown, failed) /\ socket'[p] = Tail(socket[p])
      BY <1>1, <1>2, <1>3 DEF ChatTypes, LiveChatTypeOK
  <2>2. /\ Answered(pages[p], shown, failed).shown = shown
        /\ Answered(pages[p], shown, failed).connected = pages[p].connected
        /\ Answered(pages[p], shown, failed).before = pages[p].before
    <3> DEFINE view == pages[p]
    <3>1. view \in PageRows
        BY <1>1
    <3> HIDE DEF view
    <3>2. /\ Answered(view, shown, failed).shown = shown
          /\ Answered(view, shown, failed).connected = view.connected
          /\ Answered(view, shown, failed).before = view.before
        BY <3>1, AnsweredPage
    <3> QED BY <3>2 DEF view
  <2>3. /\ pages'[p].shown = shown /\ pages'[p].connected = pages[p].connected
        /\ pages'[p].before = pages[p].before
      BY <2>1, <2>2
  <2>4. pages[p].connected
      BY <1>1, <1>2 DEF RowOfTalker, ChatRow
  <2>5. pages'[p].connected
      BY <2>3, <2>4
  <2> DEFINE given == IF IsMessage(e) THEN {e.message} ELSE {}
  <2>6. /\ In(shown) = In(pages[p].shown) \cup given /\ given \subseteq MessagesIn(socket[p])
        /\ MessagesIn(socket[p]) = MessagesIn(socket'[p]) \cup given
      BY <1>4, <1>6, <2>1
  <2> HIDE DEF given
  <2>7. ASSUME NEW x \in (1..Len(thread)) \ Unannounced
        PROVE  Reaches(x, pages'[p], socket'[p], rendering[p], missed[p], cut[p])
    <3>1. Reaches(x, pages[p], socket[p], rendering[p], missed[p], cut[p])
        BY <1>1, <2>4 DEF RowOfTalker, ChatRow
    <3> QED BY <2>3, <2>6, <3>1 DEF Reaches
  <2>8. In(pages'[p].shown) \subseteq 1..Len(thread) /\ MessagesIn(socket'[p]) \subseteq 1..Len(thread)
      BY <1>1, <2>3, <2>6 DEF RowOfTalker, ChatRow
  <2> QED BY <1>1, <1>2, <1>6, <1>8, <2>3, <2>4, <2>5, <2>7, <2>8 DEF RowOfTalker, ChatRow
<1> QED BY <1>7, <1>8

LEMMA RenderRows ==
    ASSUME ChatInv, ChatTypes', NEW p \in Talkers, Render(p)
    PROVE  ChatRows'
<1> SUFFICES ASSUME NEW q \in Talkers PROVE RowOfTalker(q)'
    BY DEF ChatRows
<1>1. ChatTypes /\ RowOfTalker(p) /\ Len(thread) \in Nat
    BY DEF ChatInv, ChatRows, ChatTypes
<1>2. /\ Unannounced' = Unannounced /\ thread' = thread /\ room' = room /\ joining' = joining
      /\ sends' = sends /\ missed' = missed /\ cut' = cut /\ pages' = pages /\ socket' = socket
    BY DEF Render, Unannounced
<1>3. /\ rendering[p].stage = "asked" /\ rendering'[p].stage = "ready"
      /\ rendering'[p].messages = Len(thread)
      /\ \A r \in Talkers : r # p => rendering'[r] = rendering[r]
    BY <1>1 DEF Render, ChatTypes, LiveChatTypeOK
<1>4. CASE q # p
    BY <1>1, <1>2, <1>3, <1>4, OtherRow
<1>5. CASE q = p
  <2>1. rendering[p] # NoRendering
      BY <1>3 DEF NoRendering
  <2>2. \A x \in (1..Len(thread)) : Reaches(x, pages[p], socket[p], rendering'[p], missed[p], cut[p])
      BY <1>1, <1>3 DEF Reaches
  <2>3. rendering'[p].messages <= Len(thread) /\ cut[p] <= rendering'[p].messages
    <3>1. Skipped(Len(thread)) \in Nat /\ Skipped(Len(thread)) <= Len(thread) /\ cut[p] \in Nat
        BY <1>1, SkippedIs, RowsAre
    <3>2. cut[p] <= Skipped(Len(thread))
        BY <1>1 DEF RowOfTalker, ChatRow
    <3>3. cut[p] <= Len(thread)
        BY <1>1, <3>1, <3>2
    <3> QED BY <1>1, <1>3, <3>3
  <2> QED BY <1>1, <1>2, <1>5, <2>1, <2>2, <2>3 DEF RowOfTalker, ChatRow
<1> QED BY <1>4, <1>5

LEMMA RefreshRows ==
    ASSUME ChatInv, ChatTypes', NEW p \in Talkers, Refresh(p)
    PROVE  ChatRows'
<1> SUFFICES ASSUME NEW q \in Talkers PROVE RowOfTalker(q)'
    BY DEF ChatRows
<1>1. /\ ChatTypes /\ RowOfTalker(p) /\ Len(thread) \in Nat /\ pages[p] \in PageRows /\ rendering[p] \in Renderings
      /\ MaxPosts \in Nat /\ cut[p] \in Nat
    BY RowsAre, LiveChatAssumption DEF ChatInv, ChatRows, ChatTypes
<1> DEFINE k == rendering[p].messages
           shown == Merged(pages[p].shown, k)
           still == rendering[p].open
           plugged == pages[p].connected /\ still
           enabled == pages[p].enabled /\ still
           c == Skipped(k)
<1>2. rendering[p].stage = "ready" /\ rendering[p] # NoRendering
    BY DEF Refresh, NoRendering
<1>3. k \in 0..MaxPosts /\ k <= Len(thread) /\ cut[p] <= k /\ pages[p].before
    BY <1>1, <1>2, RenderingStages DEF RowOfTalker, ChatRow
<1>4. pages' = [pages EXCEPT ![p] = Refreshed(pages[p], shown, enabled, plugged)]
    BY <1>1 DEF Refresh, Refreshed, ChatTypes, LiveChatTypeOK
<1>5. Once(shown) /\ In(shown) = In(pages[p].shown) \cup (c + 1)..k
  <2>1. pages[p].shown \in Seq(Ids) /\ Once(pages[p].shown)
      BY <1>1 DEF RowOfTalker, ChatRow, PageRows
  <2>2. k \in Nat /\ 1..k \subseteq Ids
      BY <1>1, <1>3 DEF Ids
  <2> HIDE DEF k
  <2> QED BY <2>1, <2>2, MergedOnce
<1>6. /\ thread' = thread /\ missed' = missed
      /\ cut'[p] = c /\ \A r \in Talkers : r # p => cut'[r] = cut[r]
      /\ rendering'[p] = NoRendering /\ \A r \in Talkers : r # p => rendering'[r] = rendering[r]
    BY <1>1 DEF Refresh, ChatTypes, LiveChatTypeOK
<1>14. c \in Nat /\ c <= k /\ c <= Skipped(Len(thread))
  <2>1. k \in Nat /\ k <= Len(thread)
      BY <1>1, <1>3
  <2> HIDE DEF k
  <2> QED BY <1>1, <2>1, SkippedIs
<1>7. IF ~still THEN /\ room' = room \ {p} /\ joining' = joining \ {p}
                     /\ socket' = [q2 \in Talkers |-> IF q2 = p THEN <<>> ELSE socket[q2]] /\ Disown(p)
      ELSE room' = room /\ joining' = joining /\ socket' = socket /\ sends' = sends
    BY DEF Refresh, Unplug
<1>8. /\ pages'[p] = Refreshed(pages[p], shown, enabled, plugged)
      /\ \A r \in Talkers : r # p => pages'[r] = pages[r]
    BY <1>1, <1>4 DEF ChatTypes, LiveChatTypeOK
<1> HIDE DEF k, shown, still, enabled, c
<1>9. /\ pages'[p].shown = shown /\ pages'[p].connected = plugged
      /\ pages'[p].before = pages[p].before
  <2> HIDE DEF plugged
  <2>1. /\ Refreshed(pages[p], shown, enabled, plugged).shown = shown
        /\ Refreshed(pages[p], shown, enabled, plugged).connected = plugged
        /\ Refreshed(pages[p], shown, enabled, plugged).before = pages[p].before
    <3> DEFINE view == pages[p]
    <3>1. view \in PageRows
        BY <1>1
    <3> HIDE DEF view
    <3>2. /\ Refreshed(view, shown, enabled, plugged).shown = shown
          /\ Refreshed(view, shown, enabled, plugged).connected = plugged
          /\ Refreshed(view, shown, enabled, plugged).before = view.before
        BY <3>1, RefreshedPage
    <3> QED BY <3>2 DEF view
  <2> QED BY <1>8, <2>1
<1>10. Unannounced \subseteq Unannounced' /\ \A r \in Talkers : r # p => sends'[r] = sends[r]
  <2>1. CASE still
      BY <1>7, <2>1 DEF Unannounced
  <2>2. CASE ~still
      BY <1>1, <1>7, <2>2, DisownRows
  <2> QED BY <2>1, <2>2
<1>11. CASE q # p
  <2>1. socket'[q] = socket[q] /\ (q \in room' \cup joining' => q \in room \cup joining)
      BY <1>1, <1>7, <1>11 DEF ChatTypes, LiveChatTypeOK
  <2> QED BY <1>1, <1>6, <1>8, <1>10, <1>11, <2>1, OtherRow
<1>12. CASE q = p /\ still
  <2>1. pages'[p].connected <=> pages[p].connected
      BY <1>9, <1>12
  <2>2. In(pages'[p].shown) = In(pages[p].shown) \cup (c + 1)..k /\ Once(pages'[p].shown)
      BY <1>5, <1>9
  <2>3. In(pages'[p].shown) \subseteq 1..Len(thread)
      BY <1>1, <1>3, <1>14, <2>2 DEF RowOfTalker, ChatRow
  <2>4. ASSUME pages[p].connected, NEW x \in (1..Len(thread)) \ Unannounced'
        PROVE  Reaches(x, pages'[p], socket[p], rendering'[p], missed[p], c)
    <3>1. Reaches(x, pages[p], socket[p], rendering[p], missed[p], cut[p])
        BY <1>1, <1>10, <2>4 DEF RowOfTalker, ChatRow
    <3>2. x \in In(pages[p].shown) \/ x \in missed[p] \/ x \in MessagesIn(socket[p]) \/ x <= k
        BY <1>1, <1>2, <1>3, <3>1 DEF Reaches, k
    <3>3. x <= k => x <= c \/ x \in (c + 1)..k
        BY <1>1, <1>3, <1>14
    <3> QED BY <2>2, <3>2, <3>3 DEF Reaches
  <2>5. /\ room' \cup joining' = room \cup joining /\ socket'[p] = socket[p] /\ sends'[p] = sends[p]
        /\ Len(thread') = Len(thread) /\ missed'[p] = missed[p] /\ cut'[p] = c
      BY <1>6, <1>7, <1>12
  <2>15. /\ \A j \in Slots : sends'[p][j] = sends[p][j]
         /\ MessagesIn(socket'[p]) = MessagesIn(socket[p]) /\ 1..Len(thread') = 1..Len(thread)
      BY <2>5, Zenon
  <2>6. rendering'[p].stage # "ready"
      BY <1>6 DEF NoRendering
  <2>7. pages'[p].before /\ (p \in room \cup joining => pages'[p].connected)
        /\ (\A j \in Slots : sends[p][j] # NoSend /\ sends[p][j].own => pages'[p].connected)
        /\ (~pages'[p].connected => socket[p] = <<>>)
      BY <1>1, <1>3, <1>9, <2>1 DEF RowOfTalker, ChatRow
  <2>8. pages'[p].connected => pages[p].connected
      BY <2>1
  <2>9. /\ MessagesIn(socket[p]) \subseteq 1..Len(thread)
        /\ \A j \in Slots : /\ sends[p][j].stage = "stored" => sends[p][j].message \in 1..Len(thread)
                            /\ sends[p][j].stage = "sent" => sends[p][j].own
      BY <1>1 DEF RowOfTalker, ChatRow
  <2>10. pages'[p].connected \/ ~pages'[p].before =>
            \A x \in (1..Len(thread)) \ Unannounced' :
                Reaches(x, pages'[p], socket[p], rendering'[p], missed[p], c)
      BY <2>4, <2>7, <2>8
  <2>11. /\ MessagesIn(socket'[p]) \subseteq 1..Len(thread')
         /\ In(pages'[p].shown) \subseteq 1..Len(thread')
         /\ \A j \in Slots : sends'[p][j].stage = "stored" => sends'[p][j].message \in 1..Len(thread')
         /\ \A j \in Slots : sends'[p][j].stage = "sent" => sends'[p][j].own
      BY <2>3, <2>9, <2>15
  <2>12. /\ p \in room' \cup joining' => pages'[p].connected
         /\ \A j \in Slots : sends'[p][j] # NoSend /\ sends'[p][j].own => pages'[p].connected
         /\ pages'[p].connected => pages'[p].before
         /\ rendering'[p] # NoRendering => pages'[p].before
         /\ ~pages'[p].connected => socket'[p] = <<>>
      BY <2>5, <2>7, <2>15
  <2>13. pages'[p].connected \/ ~pages'[p].before =>
            \A x \in (1..Len(thread')) \ Unannounced' :
                Reaches(x, pages'[p], socket'[p], rendering'[p], missed'[p], cut'[p])
      BY <2>5, <2>10
  <2>14. cut'[p] <= Skipped(Len(thread')) /\ (rendering'[p].stage = "ready" =>
            rendering'[p].messages <= Len(thread') /\ cut'[p] <= rendering'[p].messages)
      BY <1>14, <2>5, <2>6
  <2> QED BY <1>12, <2>2, <2>11, <2>12, <2>13, <2>14, Zenon DEF RowOfTalker, ChatRow
<1>13. CASE q = p /\ ~still
  <2>1. ~pages'[p].connected /\ pages'[p].before
      BY <1>3, <1>9, <1>13
  <2>2. In(pages'[p].shown) \subseteq 1..Len(thread) /\ Once(pages'[p].shown)
      BY <1>1, <1>3, <1>5, <1>9, <1>14 DEF RowOfTalker, ChatRow
  <2>3. socket'[p] = <<>> /\ p \notin room' \cup joining' /\ Disown(p)
      BY <1>1, <1>7, <1>13 DEF ChatTypes, LiveChatTypeOK
  <2>4. MessagesIn(<<>>) = {}
      BY DEF MessagesIn
  <2>5. \A j \in Slots :
            /\ sends'[p][j].stage # "sent" /\ (sends'[p][j] # NoSend => ~sends'[p][j].own)
            /\ sends'[p][j].stage = "stored" =>
                    sends[p][j].stage = "stored" /\ sends'[p][j].message = sends[p][j].message
      BY <1>1, <2>3, DisownRows
  <2>6. rendering'[p].stage # "ready"
      BY <1>6 DEF NoRendering
  <2>7. \A j \in Slots : sends'[p][j].stage = "stored" => sends'[p][j].message \in 1..Len(thread)
      BY <1>1, <2>5 DEF RowOfTalker, ChatRow
  <2> QED BY <1>6, <1>13, <1>14, <2>1, <2>2, <2>3, <2>4, <2>5, <2>6, <2>7 DEF RowOfTalker, ChatRow
<1> QED BY <1>11, <1>12, <1>13

LEMMA ChatStep == ChatInv /\ [LiveChatNext]_chatVars => ChatInv'
<1> SUFFICES ASSUME ChatInv, [LiveChatNext]_chatVars PROVE ChatInv'
    OBVIOUS
<1>1. CASE LiveChatNext
  <2>1. ChatTypes'
      BY <1>1, ChatTypesStay
  <2>2. ChatRows'
    <3>1. ASSUME NEW p \in Talkers, NEW k \in Slots,
                 SendChat(p, k) \/ ReadOrder(p, k) \/ Store(p, k) \/ FailStore(p, k) \/ Announce(p, k)
          PROVE  ChatRows'
      <4>1. ReadOrder(p, k) \/ FailStore(p, k) => ChatRows'
          BY <2>1, ReadMessageRows
      <4> QED BY <2>1, <3>1, <4>1, SendRows, StoreRows, AnnounceRows
    <3>2. ASSUME NEW p \in Talkers, Join(p) \/ Authenticate(p) \/ CloseOrder PROVE ChatRows'
        BY <2>1, <3>2, JoinRows
    <3>3. CASE CloseOrder
      <4> SUFFICES ASSUME NEW p \in Talkers PROVE RowOfTalker(p)'
          BY DEF ChatRows
      <4>1. ChatRows'
          BY <3>2, <3>3
      <4> QED BY <4>1 DEF ChatRows
    <3>4. CASE ServerDies
        BY <2>1, <3>4, DeathRows
    <3>5. ASSUME NEW p \in Talkers,
                 \/ ConnectPage(p) \/ Authenticate(p) \/ RefuseConnection(p) \/ Join(p) \/ RefuseJoin(p)
                 \/ DisconnectPage(p) \/ ReceiveChat(p) \/ Render(p) \/ Refresh(p)
          PROVE  ChatRows'
      <4>1. DisconnectPage(p) \/ RefuseConnection(p) => ChatRows'
          BY <2>1, DisconnectRows
      <4> QED BY <2>1, <3>2, <3>5, <4>1, ConnectRows, RefuseRows, ReceiveRows, RenderRows, RefreshRows
    <3> QED BY <1>1, <3>1, <3>3, <3>4, <3>5 DEF LiveChatNext
  <2> QED BY <2>1, <2>2 DEF ChatInv
<1>2. CASE UNCHANGED chatVars
  <2>1. /\ open' = open /\ thread' = thread /\ known' = known /\ room' = room /\ joining' = joining /\ sends' = sends
        /\ pages' = pages /\ socket' = socket /\ rendering' = rendering /\ missed' = missed
        /\ cut' = cut /\ losses' = losses
      BY <1>2 DEF chatVars
  <2> QED BY <2>1 DEF ChatInv, ChatTypes, LiveChatTypeOK, ChatRows, RowOfTalker, Unannounced, Thread
<1> QED BY <1>1, <1>2

LEMMA ChatTells == ChatInv => PagesShowTheThread
<1> SUFFICES ASSUME ChatInv, NEW p \in Talkers
             PROVE  /\ \A i, j \in 1..Len(pages[p].shown) : pages[p].shown[i] = pages[p].shown[j] => i = j
                    /\ Shown(p) \subseteq Thread
                    /\ InTouch(p) => Thread \ Unannounced \subseteq Shown(p) \cup missed[p] \cup 1..cut[p]
                    /\ cut[p] <= Skipped(Len(thread))
    BY DEF PagesShowTheThread
<1>1. RowOfTalker(p)
    BY DEF ChatInv, ChatRows
<1>2. Shown(p) = In(pages[p].shown)
    BY DEF Shown, In
<1>3. MessagesIn(<<>>) = {}
    BY DEF MessagesIn
<1>4. ASSUME InTouch(p), NEW m \in Thread \ Unannounced PROVE m \in Shown(p) \cup missed[p] \cup 1..cut[p]
  <2>1. Reaches(m, pages[p], <<>>, NoRendering, missed[p], cut[p])
      BY <1>1, <1>4 DEF InTouch, RowOfTalker, ChatRow, Thread
  <2>2. m \in Nat /\ m >= 1 /\ cut[p] \in Nat
    <3>1. ChatTypes /\ Len(thread) \in Nat
        BY DEF ChatInv, ChatTypes
    <3> QED BY <3>1, <1>4, RowsAre DEF Thread
  <2>3. m <= cut[p] => m \in 1..cut[p]
      BY <2>2
  <2> QED BY <1>2, <1>3, <2>1, <2>3 DEF Reaches, NoRendering
<1> QED BY <1>1, <1>2, <1>4 DEF RowOfTalker, ChatRow, Thread, Once

-------------------------------------------------------------------------------
(***************************************************************************)
(* CouponAdmin.  The table of coupons changes a row at a time, by the page *)
(* of coupons too: a row that was free is made of a free code, or one that *)
(* was made is switched.                                                   *)
(***************************************************************************)
CouponRows == [code : Codes \cup {NoCode}, active : BOOLEAN, events : Seq({"created", "disabled", "enabled"})]

Alternates(row) ==
    \A i \in DOMAIN row.events :
        /\ i > 1 => (row.events[i] = "enabled") = (row.events[i - 1] = "disabled")
        /\ i = Len(row.events) => row.active = (row.events[i] # "disabled")

CouponInv ==
    /\ coupons \in [AdminCoupons -> CouponRows]
    /\ \A k \in AdminCoupons : Made(k) => coupons[k].code \in Codes /\ coupons[k].events # <<>>
    /\ \A k, l \in AdminCoupons : Made(k) /\ coupons[k].code = coupons[l].code => k = l
    /\ \A k \in AdminCoupons : Alternates(coupons[k])

HandlersInv ==
    /\ admins \in [CouponAdmins -> {AtRest} \cup [op : {"create"}, code : Codes]
                                   \cup [op : {"disable", "enable"}, coupon : AdminCoupons]]
    /\ \A a \in CouponAdmins : admins[a].op \in {"disable", "enable"} => Made(admins[a].coupon)

LEMMA CouponsStart == ASSUME CouponAdminInit PROVE CouponInv /\ HandlersInv
<1>1. PICK r : r = NotMade
    OBVIOUS
<1>2. r.code = NoCode /\ r.events = <<>> /\ r \in CouponRows
    BY <1>1 DEF NotMade, CouponRows
<1>3. \A k \in AdminCoupons : coupons[k] = r /\ ~Made(k)
    BY <1>1 DEF CouponAdminInit, Made
<1>4. \A k \in AdminCoupons : Alternates(coupons[k])
    BY <1>2, <1>3 DEF Alternates
<1>5. coupons \in [AdminCoupons -> CouponRows]
    BY <1>1, <1>2 DEF CouponAdminInit
<1>6. \A a \in CouponAdmins : admins[a].op = "none"
    BY DEF CouponAdminInit, AtRest
<1>7. HandlersInv
    BY <1>6 DEF CouponAdminInit, HandlersInv
<1> QED BY <1>3, <1>4, <1>5, <1>7 DEF CouponInv

LEMMA CreatedRow ==
    ASSUME NEW code \in Codes
    PROVE  LET r == Created(code) IN
           /\ r \in CouponRows /\ r # NotMade /\ r.code = code /\ r.events # <<>> /\ Alternates(r)
<1>1. PICK r : r = Created(code)
    OBVIOUS
<1>2. /\ r.code = code /\ r.active = TRUE /\ r.events = <<"created">>
      /\ r = [code |-> code, active |-> TRUE, events |-> <<"created">>]
    BY <1>1 DEF Created
<1>3. /\ <<"created">> \in Seq({"created", "disabled", "enabled"}) /\ <<"created">> # <<>>
      /\ DOMAIN <<"created">> = 1..1 /\ Len(<<"created">>) = 1
      /\ <<"created">>[1] = "created"
    OBVIOUS
<1>4. NotMade.active = FALSE
    BY DEF NotMade
<1>5. Alternates(r)
  <2>1. DOMAIN r.events = {1} /\ r.events[1] = "created" /\ ~(1 > 1)
      BY <1>2, <1>3
  <2>2. r.active = (r.events[1] # "disabled")
      BY <1>2, <2>1
  <2> QED BY <2>1, <2>2 DEF Alternates
<1>6. r \in CouponRows
    BY <1>2, <1>3 DEF CouponRows
<1>7. r # NotMade
    BY <1>2, <1>4
<1> QED BY <1>1, <1>2, <1>3, <1>5, <1>6, <1>7

LEMMA SwitchedRow ==
    ASSUME CouponInv, NEW k \in AdminCoupons, Made(k), NEW active \in BOOLEAN
    PROVE  LET r == Switched(k, active) IN
           /\ r \in CouponRows /\ r # NotMade /\ r.code = coupons[k].code /\ r.events # <<>> /\ Alternates(r)
<1>0. /\ coupons[k] \in CouponRows /\ coupons[k].code \in Codes /\ coupons[k].events # <<>>
      /\ Alternates(coupons[k])
    BY DEF CouponInv
<1>1. CASE ~Switches(k, active)
    BY <1>0, <1>1 DEF Switched, Made
<1>2. CASE Switches(k, active)
  <2> DEFINE E == {"created", "disabled", "enabled"}
  <2>1. PICK e, old : e = (IF active THEN "enabled" ELSE "disabled") /\ old = coupons[k].events
      OBVIOUS
  <2>2. e \in E /\ old \in Seq(E) /\ old # <<>>
      BY <1>0, <2>1 DEF CouponRows
  <2>3. PICK r : r = Switched(k, active)
      OBVIOUS
  <2>4. r = [coupons[k] EXCEPT !.active = active, !.events = Append(@, e)]
      BY <1>2, <2>1, <2>3 DEF Switched
  <2>5. Append(old, e) \in Seq(E) /\ Append(old, e) # <<>>
      BY <2>2, AppendProperties
  <2>6. r \in CouponRows /\ r.code = coupons[k].code /\ r.active = active /\ r.events = Append(old, e)
      BY <1>0, <2>1, <2>4, <2>5 DEF CouponRows
  <2>7. /\ Len(old) \in Nat \ {0} /\ DOMAIN old = 1..Len(old)
        /\ \A i \in 1..Len(old) : r.events[i] = old[i]
        /\ r.events[Len(old) + 1] = e /\ Len(r.events) = Len(old) + 1
        /\ DOMAIN r.events = 1..(Len(old) + 1)
      BY <2>2, <2>5, <2>6, AppendProperties, LenProperties, EmptySeq
  <2>8. coupons[k].active = (old[Len(old)] # "disabled") /\ coupons[k].active # active /\ coupons[k].active \in BOOLEAN
      BY <1>0, <1>2, <2>1, <2>7 DEF Alternates, Switches, CouponRows
  <2>9. (e = "enabled") = (old[Len(old)] = "disabled") /\ active = (e # "disabled")
      BY <2>1, <2>8
  <2>10. Alternates(r)
    <3> SUFFICES ASSUME NEW i \in 1..(Len(old) + 1)
                 PROVE  /\ i > 1 => (r.events[i] = "enabled") = (r.events[i - 1] = "disabled")
                        /\ i = Len(r.events) => r.active = (r.events[i] # "disabled")
        BY <2>7 DEF Alternates
    <3>1. CASE i = Len(old) + 1
      <4>1. r.events[i] = e /\ r.events[i - 1] = old[Len(old)]
          BY <2>7, <3>1
      <4> QED BY <2>6, <2>9, <4>1, Zenon
    <3>2. CASE i \in 1..Len(old)
      <4>1. i > 1 => (old[i] = "enabled") = (old[i - 1] = "disabled")
          BY <1>0, <2>1, <2>7, <3>2 DEF Alternates
      <4> QED BY <2>7, <3>2, <4>1
    <3> QED BY <2>7, <3>1, <3>2
  <2>11. r # NotMade
      BY <2>5, <2>6 DEF NotMade
  <2> QED BY <2>3, <2>5, <2>6, <2>10, <2>11
<1> QED BY <1>1, <1>2

LEMMA RowChanges ==
    ASSUME CouponInv, NEW k \in AdminCoupons, NEW new, coupons' = [coupons EXCEPT ![k] = new],
           \/ ~Made(k) /\ \E code \in Codes : FreeCode(code) /\ new = Created(code)
           \/ Made(k) /\ \E active \in BOOLEAN : new = Switched(k, active)
    PROVE  CouponInv' /\ Made(k)' /\ \A l \in AdminCoupons : Made(l) => Made(l)'
<1>1. /\ coupons'[k] = new /\ \A l \in AdminCoupons : l # k => coupons'[l] = coupons[l]
      /\ coupons \in [AdminCoupons -> CouponRows]
    BY DEF CouponInv
<1>2. /\ new \in CouponRows /\ new # NotMade /\ new.code \in Codes /\ new.events # <<>> /\ Alternates(new)
      /\ \A l \in AdminCoupons : l # k => coupons[l].code # new.code
  <2>1. CASE ~Made(k)
    <3>1. PICK code \in Codes : FreeCode(code) /\ new = Created(code)
        BY <2>1
    <3> QED BY <3>1, CreatedRow DEF FreeCode, Taken
  <2>2. CASE Made(k)
    <3>1. PICK active \in BOOLEAN : new = Switched(k, active)
        BY <2>2
    <3> QED BY <2>2, <3>1, SwitchedRow DEF CouponInv
  <2> QED BY <2>1, <2>2
<1>3. coupons' \in [AdminCoupons -> CouponRows]
    BY <1>1, <1>2
<1>4. Made(k)' /\ \A l \in AdminCoupons : l # k => Made(l)' = Made(l)
    BY <1>1, <1>2 DEF Made
<1>5. \A l \in AdminCoupons : Made(l)' => coupons'[l].code \in Codes /\ coupons'[l].events # <<>>
    BY <1>1, <1>2, <1>4 DEF CouponInv
<1>6. \A l, m \in AdminCoupons : Made(l)' /\ coupons'[l].code = coupons'[m].code => l = m
  <2>1. ASSUME NEW l \in AdminCoupons, NEW m \in AdminCoupons, Made(l)', coupons'[l].code = coupons'[m].code, l # m
        PROVE  FALSE
    <3>1. CASE l = k
        BY <1>1, <1>2, <2>1, <3>1
    <3>2. CASE m = k
        BY <1>1, <1>2, <2>1, <3>2
    <3>3. CASE l # k /\ m # k
        BY <1>1, <1>4, <2>1, <3>3 DEF CouponInv
    <3> QED BY <3>1, <3>2, <3>3
  <2> QED BY <2>1
<1>7. \A l \in AdminCoupons : Alternates(coupons'[l])
    BY <1>1, <1>2 DEF CouponInv
<1>8. CouponInv'
    BY <1>3, <1>5, <1>6, <1>7 DEF CouponInv, Alternates
<1> QED BY <1>4, <1>8

LEMMA AdminActs ==
    ASSUME CouponInv, HandlersInv, CouponAdminNext
    PROVE  CouponInv' /\ HandlersInv' /\ \A l \in AdminCoupons : Made(l) => Made(l)'
<1>1. ASSUME NEW a \in CouponAdmins, NEW job, \A l \in AdminCoupons : Made(l) => Made(l)',
             \/ job = AtRest
             \/ job \in [op : {"create"}, code : Codes]
             \/ job \in [op : {"disable", "enable"}, coupon : AdminCoupons] /\ Made(job.coupon)',
             admins' = [admins EXCEPT ![a] = job]
      PROVE  HandlersInv'
  <2>1. admins'[a] = job /\ \A b \in CouponAdmins : b # a => admins'[b] = admins[b]
      BY <1>1 DEF HandlersInv
  <2>2. AtRest.op = "none"
      BY DEF AtRest
  <2>3. \A b \in CouponAdmins : admins[b].op \in {"disable", "enable"} => admins[b].coupon \in AdminCoupons
      BY <2>2 DEF HandlersInv
  <2>4. job.op \in {"disable", "enable"} => Made(job.coupon)'
      BY <1>1, <2>2
  <2>5. \A b \in CouponAdmins : admins'[b].op \in {"disable", "enable"} => Made(admins[b].coupon)'
      BY <1>1, <2>1, <2>3, <2>4 DEF HandlersInv
  <2>6. admins' \in [CouponAdmins -> {AtRest} \cup [op : {"create"}, code : Codes]
                                   \cup [op : {"disable", "enable"}, coupon : AdminCoupons]]
      BY <1>1 DEF HandlersInv
  <2> QED BY <2>5, <2>6 DEF HandlersInv
<1>2. UNCHANGED coupons => CouponInv' /\ \A l \in AdminCoupons : Made(l)' = Made(l)
    BY DEF CouponInv, Made, Alternates
<1>3. ASSUME NEW a \in CouponAdmins, NEW code \in Codes, BeginCreate(a, code) PROVE CouponInv' /\ HandlersInv' /\ \A l \in AdminCoupons : Made(l) => Made(l)'
    BY <1>1, <1>2, <1>3 DEF BeginCreate
<1>4. ASSUME NEW a \in CouponAdmins, NEW k \in AdminCoupons, NEW op \in {"disable", "enable"}, BeginSwitch(a, op, k)
      PROVE  CouponInv' /\ HandlersInv' /\ \A l \in AdminCoupons : Made(l) => Made(l)'
  <2>1. PICK job : job = [op |-> op, coupon |-> k]
      OBVIOUS
  <2>2. job \in [op : {"disable", "enable"}, coupon : AdminCoupons] /\ job.coupon = k
        /\ admins' = [admins EXCEPT ![a] = job] /\ Made(k) /\ coupons' = coupons
      BY <1>4, <2>1 DEF BeginSwitch
  <2> QED BY <1>1, <1>2, <2>2
<1>5. ASSUME NEW a \in CouponAdmins, NEW k \in AdminCoupons, CreateCoupon(a, k)
      PROVE  CouponInv' /\ HandlersInv' /\ \A l \in AdminCoupons : Made(l) => Made(l)'
  <2>1. admins[a].op = "create" /\ ~Made(k) /\ admins' = [admins EXCEPT ![a] = AtRest]
      BY <1>5 DEF CreateCoupon, FinishAdmin
  <2>2. admins[a].code \in Codes
      BY <2>1 DEF HandlersInv, AtRest
  <2>3. coupons' = coupons \/ (FreeCode(admins[a].code) /\ coupons' = [coupons EXCEPT ![k] = Created(admins[a].code)])
      BY <1>5 DEF CreateCoupon
  <2>4. CouponInv' /\ \A l \in AdminCoupons : Made(l) => Made(l)'
      BY <1>2, <2>1, <2>2, <2>3, RowChanges
  <2> QED BY <1>1, <2>1, <2>4
<1>6. ASSUME NEW a \in CouponAdmins, SwitchCoupon(a) PROVE CouponInv' /\ HandlersInv' /\ \A l \in AdminCoupons : Made(l) => Made(l)'
  <2>1. PICK k, active : /\ k = admins[a].coupon /\ active = (admins[a].op = "enable")
                         /\ coupons' = [coupons EXCEPT ![k] = Switched(k, active)]
                         /\ admins[a].op \in {"disable", "enable"} /\ admins' = [admins EXCEPT ![a] = AtRest]
      BY <1>6 DEF SwitchCoupon, FinishAdmin
  <2>2. k \in AdminCoupons /\ Made(k) /\ active \in BOOLEAN
      BY <2>1 DEF HandlersInv, AtRest
  <2>3. CouponInv' /\ \A l \in AdminCoupons : Made(l) => Made(l)'
      BY <2>1, <2>2, RowChanges
  <2> QED BY <1>1, <2>1, <2>3
<1> QED BY <1>3, <1>4, <1>5, <1>6 DEF CouponAdminNext

LEMMA HistoryTells == ASSUME CouponInv PROVE HistoryTellsTheState
    BY DEF CouponInv, Alternates, HistoryTellsTheState

LEMMA CouponTypes == ASSUME CouponInv, HandlersInv PROVE CouponAdminTypeOK
    BY DEF CouponInv, HandlersInv, CouponRows, CouponAdminTypeOK

================================================================================
