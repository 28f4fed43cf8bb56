-------------------------------- MODULE Accounts --------------------------------
(***************************************************************************)
(* Users, their sessions, and what administrators do to them.              *)
(*                                                                         *)
(* Confirming an e-mail, setting a first password, issuing a new link for  *)
(* it, blocking and unblocking all read the row of a user and write it     *)
(* back whole.  Renaming and changing the role write those two columns,    *)
(* from the copy, in one transaction with the audit entry and the          *)
(* revocation of the user's sessions; blocking records its audit entry     *)
(* afterwards and leaves the sessions alone, because every request reads   *)
(* the user anew.  A session is read by its refresh token and written back *)
(* whole, its revocation included.                                         *)
(*                                                                         *)
(* Tokens of all kinds are random and never issued twice.  That one has    *)
(* expired is not kept here: a handler that finds it so fails.             *)
(***************************************************************************)
EXTENDS FiniteSets

CONSTANTS
    Users, FirstAdmin,
    Names, Role, Tokens, NoToken,
    Sessions,
    Servers         \* the handlers that may be running at the same time

ASSUME AccountsAssumption ==
    /\ FirstAdmin \in Users
    /\ {"client", "admin"} \subseteq Role
    /\ NoToken \notin Tokens

VARIABLES
    users,          \* users[u]: the row of u
    sessions,       \* sessions[s]: the row of s, with the role its last access token names
    record,         \* record[u]: what the admin audit says of u
    serving,        \* serving[r]: the handler r is running, and what it holds
    issued,         \* the tokens generated so far
    spent,          \* the tokens exchanged, for a password, an activation or the next token
    disputed,       \* users written to while another handler was at work on them
    unaudited,      \* users of whom an audit entry was never written
    doubleSpent     \* users of whom a token was exchanged twice

accountVars == <<users, sessions, record, serving, issued, spent, disputed, unaudited, doubleSpent>>

Unknown == [row |-> "none"]
UserRows == [name : Names, role : Role, active : BOOLEAN, blocked : BOOLEAN,
             confirmed : BOOLEAN, password : BOOLEAN,
             confirmation : Tokens \cup {NoToken}, setup : Tokens \cup {NoToken}]
SessionRows == [user : Users, token : Tokens, revoked : BOOLEAN, role : Role]
RecordOf(row) == [name |-> row.name, role |-> row.role, blocked |-> row.blocked]

Waiting == [stage |-> "idle"]
Tasks ==
    [stage : {"saving"}, op : {"confirm", "password", "resend", "block", "unblock"},
     actor : Users, user : Users, row : UserRows, token : Tokens \cup {NoToken}]
    \cup [stage : {"audit"}, op : {"create", "block", "unblock"}, actor : Users, user : Users]
    \cup [stage : {"governing"}, actor : Users, user : Users, name : Names, role : Role]
    \cup [stage : {"refreshing"}, user : Users, session : Sessions, token : Tokens]
    \cup [stage : {"session"}, user : Users, session : Sessions, row : SessionRows,
          token : Tokens \cup {NoToken}]

AccountsTypeOK ==
    /\ users \in [Users -> UserRows \cup {Unknown}]
    /\ sessions \in [Sessions -> SessionRows \cup {Unknown}]
    /\ record \in [Users -> [name : Names, role : Role, blocked : BOOLEAN] \cup {Unknown}]
    /\ serving \in [Servers -> Tasks \cup {Waiting}]
    /\ issued \subseteq Tokens /\ spent \subseteq issued
    /\ disputed \subseteq Users /\ unaudited \subseteq Users /\ doubleSpent \subseteq Users

Known(u) == users[u] # Unknown

\* createPending, createPendingFromAdmin
SelfRow(name, t) ==
    [name |-> name, role |-> "client", active |-> FALSE, blocked |-> FALSE, confirmed |-> FALSE,
     password |-> TRUE, confirmation |-> t, setup |-> NoToken]
AdminMadeRow(name, role, t) ==
    [name |-> name, role |-> role, active |-> FALSE, blocked |-> FALSE, confirmed |-> FALSE,
     password |-> FALSE, confirmation |-> NoToken, setup |-> t]

\* The platform starts with one administrator.
AccountsInit ==
    /\ \E name \in Names :
        users = [u \in Users |-> IF u = FirstAdmin
            THEN [AdminMadeRow(name, "admin", NoToken) EXCEPT !.active = TRUE, !.confirmed = TRUE,
                                                              !.password = TRUE]
            ELSE Unknown]
    /\ sessions = [s \in Sessions |-> Unknown]
    /\ record = [u \in Users |-> IF Known(u) THEN RecordOf(users[u]) ELSE Unknown]
    /\ serving = [r \in Servers |-> Waiting]
    /\ issued = {} /\ spent = {}
    /\ disputed = {} /\ unaudited = {} /\ doubleSpent = {}

-------------------------------------------------------------------------------
\* Any token that was never issued is as good as any other, and so is any session id.
NewToken == CHOOSE t \in Tokens : t \notin issued
Issue == issued # Tokens /\ issued' = issued \cup {NewToken}
Unopened == {s \in Sessions : sessions[s] = Unknown}
                \ {s \in Sessions : \E r \in Servers : serving[r].stage = "session"
                                                         /\ serving[r].session = s}
NewSession == CHOOSE s \in Unopened : TRUE

\* The handler works on u, or on behalf of u.
Concerns(r, u) ==
    /\ serving[r] # Waiting
    /\ \/ u = serving[r].user
       \/ serving[r].stage \notin {"refreshing", "session"} /\ u = serving[r].actor
Dispute(r, u) == disputed' = disputed \cup {v \in {u} : \E q \in Servers \ {r} : Concerns(q, v)}
Spend(t, u) ==
    /\ spent' = spent \cup ({t} \ {NoToken})
    /\ doubleSpent' = doubleSpent \cup {v \in {u} : t \in spent}

Serve(r, task) == serving[r] = Waiting /\ serving' = [serving EXCEPT ![r] = task]
Proceed(r, task) == serving' = [serving EXCEPT ![r] = task]
Done(r) == Proceed(r, Waiting)

\* JwtAuthGuard, RolesGuard: the user is read at the start of every request.
Authentic(u) == Known(u) /\ users[u].active /\ ~users[u].blocked
IsAdmin(u) == Authentic(u) /\ users[u].role = "admin"

-------------------------------------------------------------------------------
(***************************************************************************)
(* New users.  Names are unique by an index of the database: a handler it  *)
(* refuses fails like any other, so names need not differ here.            *)
(***************************************************************************)
SignUp(u, name) ==
    /\ ~Known(u)
    /\ Issue
    /\ users' = [users EXCEPT ![u] = SelfRow(name, NewToken)]
    /\ record' = [record EXCEPT ![u] = RecordOf(SelfRow(name, NewToken))]
    /\ UNCHANGED <<sessions, serving, spent, disputed, unaudited, doubleSpent>>

CreateAdminUser(r, a, u, name, role) ==
    /\ IsAdmin(a)
    /\ ~Known(u)
    /\ Issue
    /\ users' = [users EXCEPT ![u] = AdminMadeRow(name, role, NewToken)]
    /\ Serve(r, [stage |-> "audit", op |-> "create", actor |-> a, user |-> u])
    /\ UNCHANGED <<sessions, record, spent, disputed, unaudited, doubleSpent>>

-------------------------------------------------------------------------------
(***************************************************************************)
(* Reads, each with the row its handler will write.  A definition whose    *)
(* name ends in X is a faulty variant of the one after it.                 *)
(***************************************************************************)
BeginSave(r, op, actor, u, row, t) ==
    /\ Serve(r, [stage |-> "saving", op |-> op, actor |-> actor, user |-> u, row |-> row, token |-> t])
    /\ UNCHANGED <<users, sessions, record, spent, disputed, unaudited, doubleSpent>>

CanConfirmEmail(row, t) == ~row.active /\ row.confirmation = t
EmailConfirmed(row) == [row EXCEPT !.active = TRUE, !.confirmed = TRUE, !.confirmation = NoToken]
BeginConfirmEmail(r, u, t) ==
    /\ Known(u) /\ CanConfirmEmail(users[u], t)
    /\ UNCHANGED issued
    /\ BeginSave(r, "confirm", u, u, EmailConfirmed(users[u]), t)

CanSetPassword(row, t) == ~row.active /\ ~row.confirmed /\ row.setup = t
\* the password is left out
PasswordSetX(row) == [row EXCEPT !.active = TRUE, !.confirmed = TRUE, !.confirmation = NoToken,
                                 !.setup = NoToken]
PasswordSet(row) == [row EXCEPT !.password = TRUE, !.active = TRUE, !.confirmed = TRUE,
                                !.confirmation = NoToken, !.setup = NoToken]
BeginSetPassword(r, u, t) ==
    /\ Known(u) /\ CanSetPassword(users[u], t)
    /\ UNCHANGED issued
    /\ BeginSave(r, "password", u, u, PasswordSet(users[u]), t)

BeginResendSetup(r, a, u) ==
    /\ IsAdmin(a)
    /\ Known(u) /\ ~users[u].active /\ ~users[u].confirmed
    /\ Issue
    /\ BeginSave(r, "resend", a, u, [users[u] EXCEPT !.setup = NewToken], NoToken)

MayBlock(a, u) == Known(u) /\ a # u
BeginBlock(r, a, u) ==
    /\ IsAdmin(a) /\ MayBlock(a, u)
    /\ UNCHANGED issued
    /\ BeginSave(r, "block", a, u, [users[u] EXCEPT !.blocked = TRUE], NoToken)

BeginUnblock(r, a, u) ==
    /\ IsAdmin(a) /\ Known(u)
    /\ UNCHANGED issued
    /\ BeginSave(r, "unblock", a, u, [users[u] EXCEPT !.blocked = FALSE], NoToken)

BeginGovern(r, a, u, name, role) ==
    /\ IsAdmin(a) /\ Known(u)
    /\ \/ name # users[u].name /\ role = users[u].role
       \/ name = users[u].name /\ role # users[u].role /\ a # u
    /\ Serve(r, [stage |-> "governing", actor |-> a, user |-> u, name |-> name, role |-> role])
    /\ UNCHANGED <<users, sessions, record, issued, spent, disputed, unaudited, doubleSpent>>

BeginSession(r, u, s, row, t) ==
    /\ Serve(r, [stage |-> "session", user |-> u, session |-> s, row |-> row, token |-> t])
    /\ UNCHANGED <<users, sessions, record, spent, disputed, unaudited, doubleSpent>>

NewRow(u) == [user |-> u, token |-> NewToken, revoked |-> FALSE, role |-> users[u].role]

BeginLogin(r, u) ==
    /\ Authentic(u) /\ users[u].password
    /\ Unopened # {}
    /\ Issue
    /\ BeginSession(r, u, NewSession, NewRow(u), NoToken)

\* A refresh token still opens its session.
Opens(t, s) == sessions[s] # Unknown /\ sessions[s].token = t /\ ~sessions[s].revoked

BeginRefresh(r, s, t) ==
    /\ Opens(t, s)
    /\ Serve(r, [stage |-> "refreshing", user |-> sessions[s].user, session |-> s, token |-> t])
    /\ UNCHANGED <<users, sessions, record, issued, spent, disputed, unaudited, doubleSpent>>

\* It asks whether the user is blocked, not whether he is active.
RefreshFor(r) ==
    LET w == serving[r] IN
    /\ w.stage = "refreshing"
    /\ ~users[w.user].blocked
    /\ Issue
    /\ Proceed(r, [stage |-> "session", user |-> w.user, session |-> w.session,
                   row |-> NewRow(w.user), token |-> w.token])
    /\ UNCHANGED <<users, sessions, record, spent, disputed, unaudited, doubleSpent>>

BeginLogout(r, s, t) ==
    /\ Opens(t, s)
    /\ UNCHANGED issued
    /\ BeginSession(r, sessions[s].user, s, [sessions[s] EXCEPT !.revoked = TRUE], NoToken)

-------------------------------------------------------------------------------
(***************************************************************************)
(* Writes.                                                                 *)
(***************************************************************************)
\* The row is written whole; a block or unblock goes on to its audit entry.
SaveUser(r) ==
    LET w == serving[r] IN
    /\ w.stage = "saving"
    /\ users' = [users EXCEPT ![w.user] = w.row]
    /\ Spend(w.token, w.user)
    /\ Dispute(r, w.user)
    /\ IF w.op \in {"block", "unblock"}
       THEN Proceed(r, [stage |-> "audit", op |-> w.op, actor |-> w.actor, user |-> w.user])
       ELSE Done(r)
    /\ UNCHANGED <<sessions, record, issued, unaudited>>

\* An entry says what it changed: without that of the creation it explains nobody.
Recorded(u, op) ==
    IF op = "create" THEN RecordOf(users[u])
    ELSE IF record[u] = Unknown THEN Unknown
    ELSE [record[u] EXCEPT !.blocked = (op = "block")]

RecordGovernance(r) ==
    LET w == serving[r] IN
    /\ w.stage = "audit"
    /\ record' = [record EXCEPT ![w.user] = Recorded(w.user, w.op)]
    /\ Done(r)
    /\ UNCHANGED <<users, sessions, issued, spent, disputed, unaudited, doubleSpent>>

\* the sessions are left alone
SessionsOfGovernedX(u) == sessions
SessionsOfGoverned(u) ==
    [s \in Sessions |-> IF sessions[s] # Unknown /\ sessions[s].user = u
                        THEN [sessions[s] EXCEPT !.revoked = TRUE] ELSE sessions[s]]

CommitGovern(r) ==
    LET w == serving[r] IN
    /\ w.stage = "governing"
    /\ users' = [users EXCEPT ![w.user].name = w.name, ![w.user].role = w.role]
    /\ record' = IF record[w.user] = Unknown THEN record
                 ELSE [record EXCEPT ![w.user].name = w.name, ![w.user].role = w.role]
    /\ sessions' = SessionsOfGoverned(w.user)
    /\ Dispute(r, w.user)
    /\ Done(r)
    /\ UNCHANGED <<issued, spent, unaudited, doubleSpent>>

SaveSession(r) ==
    LET w == serving[r] IN
    /\ w.stage = "session"
    /\ sessions' = [sessions EXCEPT ![w.session] = w.row]
    /\ Spend(w.token, w.user)
    /\ Dispute(r, w.user)
    /\ Done(r)
    /\ UNCHANGED <<users, record, issued, unaudited>>

\* A check fails or the process dies; an audit entry still to be written is lost.
Drop(r) ==
    /\ serving[r] # Waiting
    /\ unaudited' = unaudited \cup {u \in Users : serving[r].stage = "audit" /\ serving[r].user = u}
    /\ Done(r)
    /\ UNCHANGED <<users, sessions, record, issued, spent, disputed, doubleSpent>>

AccountsNext ==
    \/ \E u \in Users, name \in Names : SignUp(u, name)
    \/ \E r \in Servers :
        \/ SaveUser(r) \/ RecordGovernance(r) \/ CommitGovern(r) \/ RefreshFor(r)
        \/ SaveSession(r) \/ Drop(r)
        \/ \E u \in Users :
            \/ BeginLogin(r, u)
            \/ \E t \in Tokens : BeginConfirmEmail(r, u, t) \/ BeginSetPassword(r, u, t)
        \/ \E s \in Sessions, t \in Tokens : BeginRefresh(r, s, t) \/ BeginLogout(r, s, t)
        \/ \E a, u \in Users :
            \/ BeginBlock(r, a, u) \/ BeginUnblock(r, a, u) \/ BeginResendSetup(r, a, u)
            \/ \E name \in Names, role \in Role :
                BeginGovern(r, a, u, name, role) \/ CreateAdminUser(r, a, u, name, role)

AccountsSpec == AccountsInit /\ [][AccountsNext]_accountVars

-------------------------------------------------------------------------------
(* However handlers interleave, whoever can log in has proven an address   *)
(* and has a password: no stale copy of a row combines the columns of two  *)
(* states of the account.                                                  *)
ActiveAccountsAreProven ==
    \A u \in Users : Known(u) /\ users[u].active => users[u].confirmed /\ users[u].password

(* A link or a refresh token is exchanged once, unless handlers overlapped *)
(* on the user: the row that forgets it is written after it is checked.    *)
TokensAreSpentOnce == doubleSpent \subseteq disputed

(* Governance ends the sessions of a user for good, unless handlers        *)
(* overlapped on that user: no session that is not revoked carries a       *)
(* former role.                                                            *)
LiveSessionsKnowTheRole ==
    \A s \in Sessions : sessions[s] # Unknown /\ ~sessions[s].revoked =>
        sessions[s].role = users[sessions[s].user].role \/ sessions[s].user \in disputed

(* What the admin audit says of a user is what the row says, once nobody   *)
(* is about to write either, unless handlers overlapped on the user or an  *)
(* audit entry was lost with its handler.                                  *)
AuditExplainsUsers ==
    \A u \in Users \ (disputed \cup unaudited) :
        (~\E r \in Servers : serving[r].stage = "audit" /\ serving[r].user = u) =>
            (Known(u) => record[u] = RecordOf(users[u]))

(* Somebody can always administer the platform, unless administrators      *)
(* acted on each other at the same time: nobody blocks himself or changes  *)
(* his own role.                                                           *)
AnAdminRemains == disputed = {} => \E u \in Users : IsAdmin(u)

(* What a user may do is what was decided and recorded: sessions carry no  *)
(* former role, the audit explains the users, and the administrators       *)
(* never lock each other out one at a time.                                *)
AuthorityIsOnRecord == LiveSessionsKnowTheRole /\ AuditExplainsUsers /\ AnAdminRemains
================================================================================
