# EloNew: a verification project

EloNew sells League of Legends rank boosts. A client gets a quote, pays through
Mercado Pago, a booster accepts the order and plays it, and 70% of the sale ends
in the booster's wallet, locked for a while and then free to be withdrawn. The
back end is a NestJS API (`src/apps/api`), a BullMQ worker (`src/apps/workers`)
that calls the API back, PostgreSQL behind Prisma, and a Next.js front end.

This directory holds TLA+ models of every part that keeps state - orders, money
and checkout first, then the components around them, down to the pages that
keep state of their own -, the TLC runs that check them, and TLAPS proofs of
what matters most for any number of orders, boosters, handlers and failures. `PROJECT.json` maps every
definition to the lines it models, lists the runs, the faulty variants (below)
each property is tested against, the theorems, the hazards and the findings.

## The system

### What makes it hard

All modules of the API share one style. A use case *reads* a row into an entity
object, *decides* on that object, and *saves* it with an upsert of all columns.
There is no row lock, no version column and no condition on the update, and a
use case awaits at every one of these steps. Hence:

- two handlers interleave freely between read and save; the later save wins, and
  it writes columns that its use case never meant to touch;
- what one business change consists of is spread over several commits (the
  order, then the wallet; the payment, then the order; the balances, then the
  ledger), so a throw or a crash stops in the middle;
- the outside world repeats itself: Mercado Pago notifies again, BullMQ tries a
  job again after a lost reply, the scheduler runs the reconciliation again;
- where the database does decide (a conditional update, a unique index, a row
  lock), everything depends on its being asked in the right place;
- pages keep state that the server changes behind their back: a bell, a thread,
  a dashboard, a price, a button, a cookie.

### Components

| component | state | operations | what makes it correct | model |
|---|---|---|---|---|
| Order lifecycle | `orders`, credentials, rejections, coupon usage, chat, audit | pay, accept, reject, complete, cancel, force-cancel, store / clear / reveal credentials | nobody works unpaid, one booster earns a sale, credentials end with the order, reveals are audited | `OrderLifecycle` |
| Payment settlement | `payments`, processed webhook keys, late approvals, advisory lock | webhook, reconcile, confirm, fail, resume, release | holds follow approvals, releases follow completion, the order and its payment agree, no approval is lost | `PaymentSettlement` |
| Booster wallet | balances, ledger, release jobs | credit, release, forced release, withdraw | paid once, never overdrawn, the ledger explains the balances, every credit is released | `BoosterWallet` |
| Checkout, quotes, payment creation | quotes, draft orders, payments, checkouts at the provider | quote, create order, start checkout, create payment, clean up | a quote buys one order at its own price, what is charged is what was agreed | `Checkout` |
| Coupons | coupons, their events, usage | grant, create, switch, record usage | first orders only, limits, switched as the history says | `Checkout`, `CouponAdmin`, `OrderLifecycle` |
| Pricing versions | versions with their lists | draft, replace, activate | one in force, unchangeable from then on | `PricingVersions`, `PriceList` |
| Price calculation | none | rank price, extras, coupon, booster's share | sums in cents | `OrderPrice` |
| Accounts, sessions, governance | users, sessions, audit | sign up, confirm, set password, log in, refresh, log out, invite, block, unblock, rename, change role | no access without a proven address, sessions carry no former role, the audit explains the users | `Accounts` |
| Notifications and outbox | rows, events, bell of a page | raise, mark, dispatch, retry, refetch | the bell agrees with the store, no mark hides what came later, every event is decided | `Notifications` |
| Chat | thread, room, pages | connect, join, send, announce, refresh | a page shows the newest of the thread | `LiveChat` |
| Order events, dashboards | streams and subscribers in memory | publish, subscribe, evict, refresh | a dashboard at rest is up to date | `DashboardEvents` |
| Tickets | rows and messages | open, reply, set status | it waits for the side that did not write last | `Tickets` |
| Ratings | ratings, reputation | rate | one per order and side, the mean of all | `Ratings` |
| Request throttling | windows in memory | increment, prune | callers do not affect each other | `RequestThrottle` |
| Scheduled tasks | BullMQ schedules and jobs | sync, tick, run, retry | after a boot the schedules are those of the build | `ScheduledTasks` |
| Order pages | the page that is open | list, open, press, land | what is offered is taken, every live order is on a page of somebody who can move it on | `OrderPages` |
| Browser session | sealed cookie, refresh token | request, refresh, log in, log out | logged in until logged out, here and there | `WebSession` |
| Order form | form, price question, checkout | change, ask, show, submit | no route without a price, the price shown is the price charged | `OrderForm` |
| Coupon page | dialog and its form, requests, table | open, fill in, create, switch, answer | a coupon says what was shown and some order meets it, a row is wrong only of changes elsewhere | `CouponConsole` |
| Gateway adapter, other pages, configuration, e-mail, logging | none of record | I/O and presentation | - | not modelled |

How they interact: administrators publish price lists, from which quotes and the
order form are priced, and coupons on a page of their own; the checkout turns a quote into an order and its payment. Settlement
calls `markAsPaid` and `clearCredentials` of the orders module; completing an
order calls the wallet, which schedules a release job; the worker calls the
wallet back when the lock period is over; the scheduler triggers the
reconciliation of payments and the clean-up of quotes; an admin can force a
cancellation or a release. Every change of an order is published to the open
dashboards; every chat message raises a notification in its own transaction.

## The modules

| module | what it is |
|---|---|
| `OrderDomain` | rows, transitions and the pure operations of the order entity |
| `OrderService` | abstract specification: each use case of the orders module at one instant |
| `OrderLifecycle` | the use cases as they run: read, two-statement save, follow-up calls, failures |
| `OrderLifecycleProofs` | theorems about it |
| `BoosterAccount` | abstract specification: every order is paid once, no more is paid out than released |
| `BoosterWallet` | balances, ledger, handlers, release jobs and their worker |
| `BoosterWalletProofs` | theorems about it |
| `PaymentSettlement` | composes with `OrderService`: the payment row, its six use cases, Mercado Pago |
| `PaymentSettlementProofs` | theorems about it |
| `OrderPrice` | what an order costs: pure operators |
| `PriceList` | abstract specification: a published list never changes, one is in force |
| `Checkout` | composes with both: from a quote to an order with a payment |
| `CheckoutProofs` | theorems about it |
| `PricingVersions` | draft, replace, activate; implements `PriceList` |
| `Notifications` | the rows, the outbox, its dispatcher and the bell of one reader |
| `NotificationsProofs` | theorems about it |
| `Accounts` | users, sessions and the admin audit |
| `CouponAdmin`, `Tickets`, `Ratings`, `LiveChat`, `DashboardEvents`, `OrderPages`, `WebSession`, `OrderForm`, `RequestThrottle`, `ScheduledTasks` | one component each |
| `CouponConsole` | the page over `CouponAdmin`, with the conditions of `OrderPrice` |
| `Platform` | these eleven, `Accounts` and `PricingVersions`, side by side |
| `RecordsProofs` | theorems about `Accounts` and `PricingVersions`; invariants of `ScheduledTasks`, `Ratings`, `Tickets`, `RequestThrottle`, `CouponAdmin`, `DashboardEvents`, `LiveChat` |
| `PlatformProofs` | invariants of `OrderPages`, `WebSession`, `CouponConsole`, `OrderForm`; theorems about `Platform`, from these and those of `RecordsProofs` |
| `Sums` | lemmas about sums over finite sets and least elements |
| `MC...` | values of the constants and symmetry for TLC |

### How a model corresponds to the code

In the models of the API a running handler is `calls[r]` (`work`, `edits`,
`serving`, ... elsewhere), a record with the stage it
has reached and the copy of the row it will write; `Idle` is no handler. One
action is what happens between two awaits: `Begin...` is everything up to the
read and the decision (with the code's early returns and throws as guards), the
later actions are a commit or a call each, and they come in the order of the code.
Several reads are one action where only their last instant matters: the guard of a
route and the handler behind it read a user at once in `Accounts`; `BeginQuote`
takes any version of the prices that was in force so far and then examines the
coupon at one instant (that the order is a first one is examined again under the
lock of the checkout). `Fail(r)` is a throw or
the death of the process at any of these points; `MaxFails` bounds how often.
Realtime events, e-mails and log lines change no state of record and are left
out, as are the columns no decision depends on.

A definition whose name ends in `X` is a faulty variant of the definition after
it, the way a plausible slip would write it. It is used nowhere; put in place of
the right one it must make a property fail. `PROJECT.json` ("mutants") names one
for every property, so no property holds for want of anything to catch.

`Serialized` is a constant of the three models of orders, wallet and payments. FALSE is the deployed system, in which
handlers overlap freely. TRUE restricts attention to the executions in which no
handler reads a row between the read and the save of another. The code does not
enforce this; it is the usual case at low load, and what properties fail without
it is the subject of the findings. Each property stands in the section of its
module that says whether it needs the restriction.

**OrderLifecycle.** `rows` is the order row plus whether a credentials row
exists; `rejected`, `chats`, `usages`, `credited`, `audited`, `governed` are the
tables that follow-up calls write. A save is two actions because
`saveWithClient` (prisma-order.repository.ts) deletes the credentials row and
then upserts the order, and under READ COMMITTED another transaction can commit
in between. `storeCredentials` is a conditional write and keeps its condition.
`paid`, `acceptors`, `forced`, `revealed` are history variables for properties.

**BoosterWallet.** A save is three actions: the balances (a commit of their
own), the deletion of the ledger and its insertion (one transaction, whose
insert fails on a primary key when another one came first). A job is waiting,
active, done or failed with its number of tries; `LoseReply` is a worker whose
request is cut off while the handler goes on. `Mature(o)` is the end of the lock
period. `Ids` bounds the UUIDs ever drawn. The wallet of one booster is
modelled; wallets do not share rows.

**PaymentSettlement.** The payment row keeps its status and its `gatewayId`. The
stages follow the two orders of effects in the code: the webhook saves the
payment and then tells the order; the reconciliation tells the order and then
saves. A *resource* is one attempt to pay at Mercado Pago: its status changes by
itself (`ProviderMoves`), each change is notified until it is answered
(`unanswered`), and a notification may be given up (`LoseNotification`, counted
in `fails`). `rejected` also stands for `cancelled`, `pending` for `authorized`
and `in_process`, `refunded` for every status the code defers; an attempt that the
provider reports for another payment is treated like none found. The age of the
checkout is fresh, stale (15 minutes) or expired (24 hours), read when the
decision is taken; the code fixes the two thresholds when the task starts, a
difference of the seconds the task takes. One payment is modelled, so one
candidate per reconciliation. The orders module appears as `OrderService`, that
is, as one whose own writes do not meet; a run and a theorem show that
`OrderLifecycle` is one in that case.

**Checkout.** Quotes, orders and payments are rows; `asked` is the checkouts open
at Mercado Pago with their amounts. A checkout is three steps after the quote
was made: the call of the provider, the reads of the transaction with its lock
on the client (`ReadQuote`), and its commit (`CommitOrder`), which consumes the
quote with a conditional update (`StillUnused`) and whose insertion of an order
waits for that lock through the foreign key (`MayInsert`). The clean-up finds
quotes and deletes those still unused. Prices come from `PriceList`, which
`PricingVersions` is shown to implement. The ghosts `rivals`, `crowded` and `doubled` record that a client
had another live order, that a coupon was granted beside an unpaid grant, and
that two handlers made a payment for one order.

**Notifications.** Events are in the outbox in the order of their `createdAt`,
and may be committed in another. The page lists the newest 10 rows (`ListLimit`), as
rendered, as refetched and after each event, and beside them the count of all
unread ones. A mark of one row names the activity the page showed and is refused
if the row has moved on; a mark of all names no time, and the API dates it when it
handles it (`DateMarkAll`), so that a message sent between the click and that moment
is marked read without having been seen. The protocol promises no more
(`src/docs/realtime.md:49`), and the property says what is left: nothing later than
that date is hidden. The dispatcher takes a batch, a set it works off in that
order (`Turn`), publishes each, and only then marks it, so a crash repeats an event. The page is rendered, connects,
applies events and answers, and refetches; `skewed` collects what an abandoned
or repeated event may have made wrong. An event fails only once it was handed over:
emitting does not throw, and the other failure in the code, a type without a
handler, does not occur, since every type that is written has a handler that is
registered before the dispatcher starts.

**LiveChat.** A rendering lists the newest 50 messages (`PageSize`) and the page
never asks for older ones, though the API offers a cursor. What a page may
therefore lack is named: `cut`, the messages older than its rendering lists - after
more than 50 were missed, a gap in the middle of the page -, and `missed`, those
announced after the page was rendered and before it was in the room: the first
connection does not refetch, although `src/docs/realtime.md:3` says that clients do.
A connection is authenticated beside the events of its socket (`Authenticate`), so
a page may be refused its room without being told (`RefuseJoin`). Any message of
the room, an error or a lost connection enables the composer, so several sends of
one page may be under way (`Slots`).

**Accounts.** Every handler saves the row it read. A refresh has two reads, the
session and then the user, and saves the session as first read. `disputed` is the
users on whom handlers overlapped; what is done to them afterwards, by stale copies
or by handlers that find them so, is explored like the rest, and what is promised of
the other users must survive it.

**PricingVersions.** The migration that made the table put a version in force
(`FirstVersion`) whose list nobody examined (`FirstList`) and that has no price for
Master; `PriceList` starts with it. `contested` is the versions a handler wrote to
while another was at work on them: such a version may break its promises, and no
step on it harms another.

**OrderForm.** The client chooses a service, a route, extras and a coupon. The picker
knows no prices, so the server may refuse a route that passes it, and the property
says exactly when: a start in Master under the list of the migration, and a climb
that a list gives away (`ClimbMayBeFree`), since the schema admits a price of zero
and what is left of a step under way is rounded to the cent. The client gets an
error in the summary, and no order.

**OrderPages.** One page is followed, of a booster, the client or an
administrator; its rows are read in one query, or in two for a booster's work
(`queries`), and it keeps what it `offers` while everybody else goes on. The
operations themselves are those of `OrderService`; what the pages decide is
translated from the components that render the buttons. `changed` is the orders
that changed since the page was asked for. Where page and API disagree the
property says so: credentials that a late clean-up has removed are still offered
to the booster, a payment that failed to be resumed, and an administrator may
press cancel on an order that is accepted or over. The orders on nobody's page
are named too: a failed payment, an order all boosters rejected, an accepted
order older than the newest 20 of its booster.

**CouponConsole.** The form holds most of its inputs itself and leaves the code,
the minimum of extras and the limits to React, which blanks these after every answer, a
refusal included (`Blanked`): a second attempt sends a form that looks different, and
the property says that what is sent is what is shown. A choice that is no
longer rendered is dropped (`WithoutHidden`). Closing the dialog does not withdraw its
request, and an answer that is lost leaves a coupon the page does not know of
(`behind`). `Eligible` of `OrderPrice`, the check a quote makes, decides whether any
order could meet the coupon.

**Platform.** Its components share no state (but for the rows of `CouponAdmin`, which have two
scenes), so a behavior belongs to one of
them, the `scene`, and the others stay as they start. This is one run for thirteen
small models; it says of each what a run of its own would, and nothing of two at
a time. Where handlers of a component overlap and the code does not protect the
row, a ghost (`disputed`, `contested`, `overlooked`, `spoiled`, ...) records it, and the
properties except exactly the rows in question: they say how far the damage goes.

## The runs

Every run exhausts its state space (that of `checkout` and `platform` up to the
constraints below). One order suffices where handlers of different orders share
no row; two boosters are the least that can compete, two handlers the least that
can overlap, and one failure the least that can cut a use case in half.
`CHECK_DEADLOCK FALSE` is given where the system may stop: all ids drawn, the
payment settled, all events decided, the bound of a counter reached.

| run | bounds | what it shows |
|---|---|---|
| `order_serialized` | 1 order, 2 boosters, 2 handlers that do not overlap, 1 failure | boosters who accepted earn, nothing before payment, reveals are audited, credentials end with the order, one booster is credited, a coupon is used once; `OrderLifecycle` implements `OrderService`; completion leads to a credit |
| `order_double_credit` | the same, overlapping | **violation**: two boosters are credited for one sale |
| `order_credentials_left` | the same, overlapping | **violation**: credentials survive on a cancelled order |
| `wallet_overlap` | 1 order, 2 overlapping handlers, 1 failure, torn saves | no overdraft; a credit has its job or its scheduler |
| `wallet_settled` | 2 orders of different worth, 1 handler at a time, 2 attempts, 1 failure | one credit per order, balances equal the ledger, jobs release and not too early, `BoosterWallet` implements `BoosterAccount`; jobs lead to releases |
| `wallet_released_twice` | 1 handler, torn save, 2 attempts | **violation**: a retried release moves the same credit twice |
| `settlement_settled` | 1 attempt to pay, 2 handlers, 1 failure, all order moves | approval before hold, completion before release, a stored key means a settled approval, order and payment agree |
| `settlement_live` | 1 attempt, 1 handler at a time, 1 failure or lost notification | an approval is settled by the next notification, or by the reconciliation when notifications are given up |
| `settlement_hold_lost` | 2 overlapping handlers | **violation**: a held payment loses its hold before completion |
| `checkout` | 1 client, 2 each of quotes, orders, payments, coupons, versions and handlers | a quote buys one order, first-order coupons go to first orders, prices are those of the list they were quoted from, charges are agreed, second payments and exceeded limits only where the ghosts say |
| `notifications` | 2 orders, 2 messages, 3 events, 1 fault, 2 attempts, batches of 2 | no mark hides what came after it, the bell, with room for one row, agrees at rest, a refetch no event crosses puts it right, every event is decided |
| `platform` | per component, below | the properties of the thirteen components, and `PricingVersions` implements `PriceList` |

`settlement_settled` and `wallet_overlap` take handlers for symmetric, the
order violations also boosters, `checkout` also quotes, orders and payments, and
`platform` also tabs, callers, coupons and one user's dashboards; runs
with liveness use no symmetry. The orders are run without overlap only: what
survives overlap is proved for any number of handlers, and what does not is the
matter of the violations. The first three properties of `settlement_settled` and
both of `wallet_overlap` do not depend on `Serialized`; they are proved too.

**`checkout`.** Its constraint `FewAtATime` keeps the combinations apart: prices change
at most once and around one order, the two coupons are not in use together,
and a second checkout is opened at the provider only where prices stay and the
first-order coupon is out of play. States past the constraint are checked and not explored.
The route has two steps and one extra, k1 takes the whole price (down to the
minimum charge), k2 one cent with a limit of one order.

**`notifications`.** Two orders so that a row can be marked while another is
raised; two senders so that transactions overlap, and a batch of two so that a
crash leaves half of one. `MaxWork` bounds the events written; each fault costs
a message or a mark at most.

**`platform`.** Two users of whom one starts as the only administrator, one
session, two handlers; three pricing versions and two administrators; two
coupons for two codes; a ticket with four turns; two deals whose parties
overlap in one user, who is rated twice; a chat of two pages that list one message
and may have two sends under way, a thread of two messages, a lost connection; three dashboards of which two belong to one user, two changes; two
orders and two boosters of whom one is followed, lists cut at one or two (the
second order only competes with the first for places, `FewOrders`); two
tabs of a browser, two logins, three tokens; the order form with two leagues of two
divisions and Master, two services, and two price lists, one like that of the
migration, one with steps that are free, nearly free, and worth less than a cent per
point of Master; two callers, six ticks; a coupon form of at
most three changes with two amounts, counts and ranks each; two builds
that declare different schedules, three attempts.

`Bounded` says which states are explored further; those it leaves out are still
checked. `FewAccounts`: once handlers have overlapped on a user, those at work go on
with their stale copies and others follow on that user, one at a time; a lost audit
entry is looked at without sessions. `FewLosses`: the second page of the chat is
there for the first, which has two sends at a time when the second is in the room.
`FewQuestions`: up to three questions of the form are on their
way and overtake each other while the route stays the first one, one at a time with
other routes. `FewOrders`: the second order only competes with the first for places
on a list. `FewForms`: a coupon form with more than a percentage and a code is
followed until its coupon is made, with nothing else going on.

### Fairness

- A handler that was started proceeds (`WF` of `Proceed(r)`): Node schedules
  every continuation. Nothing says that a client, booster or admin calls.
- The lock period ends and checkouts grow old (`WF`): time passes.
- A worker gets to run a waiting job (`SF`): BullMQ offers it again although all
  handlers may be busy in between.
- Mercado Pago sends an unanswered notification again and the scheduler starts
  the reconciliation again (`SF`): both repeat, though each time the process may
  be busy or the lock taken. A notification given up is a counted failure.
- The dispatcher of the outbox goes on polling and its delays end (`WF`): a
  timer of the process, which is restarted when it dies.

The other modules state no liveness: what they promise is what holds at rest.

### Findings

Four runs end in a violation of what the repository's own documents say; each
finding in `PROJECT.json` quotes the line. All have one of two causes: full-row
saves without a version check (`order_double_credit`, `settlement_hold_lost`;
`order_credentials_left` is its transaction-level kin), or one business change
in several commits (`wallet_released_twice`; a completion that commits before a
failed credit is another, which `CompletedLeadsToCredit` excepts by name). They
are also why most strong properties of these three are stated for executions
that do not overlap.

Behaviours a reader may not expect, that no document rules out and the
properties except by name: one order can get two payments (`doubled`), a coupon
limit can be exceeded by grants that are unpaid (`crowded`), a draft that is
replaced while it is activated changes in force (`contested`), two ratings at once
leave a mean without one of them (`overlooked`), a save of a user read before a
block unblocks that user (`disputed`), two requests of one browser that refresh in
parallel log it out (`spoiled`), a mark of all takes in messages sent after the
click, a chat shows neither what is older than its rendering (`cut`) nor what was
said between the rendering and its first connection (`missed`), the list of the
migration cannot price an order that starts in Master, and under a list with a step
for nothing the form lets routes pass that the server refuses (`ClimbMayBeFree`).

## The proofs

TLAPS checks every theorem for all values of the constants under the named
assumptions of the modules (at least one attempt per job, positive shares and
amounts, finitely many ids, "no booster", "no order" and the like name nobody
and nothing). The invariants below were first checked by TLC.

- **Orders, any overlap** (`OrderLifecycleProofs`). `IInv` adds to the stated
  properties what each handler may rely on at each stage (`CallIsBacked`): a
  copy of a row is as well founded as the row was, because payments and accepts
  are history and nothing takes history back. Without it the properties are not
  inductive: a late save brings an old row back. Proved: `TypeCorrect`,
  `AcceptorsEarn`, `PaymentComesFirst`, `RevealsAreOnRecord`,
  `FollowUpsAreBacked`.
- **Orders, `Serialized`** (the same module). `SInv` adds that one
  handler at most is between read and commit (`OneWriter`), hence that its copy
  is still the effect of its use case on the row as stored (`CallsAreFresh`).
  `OnceInv` adds that only the commit of a payment still awaited leads to the
  recording of a usage. Proved: `CredentialsEndWithOrder`, `OneCreditPerSale`,
  `NoCancelAfterAccept`, `RejecterLeaves`, `CouponCountedOnce`, and
  `LifecycleImplementsService`: every step of `OrderLifecycle` is a step or a
  stutter of `OrderService`.
- **Wallet, any overlap and torn saves** (`BoosterWalletProofs`). `WInv` speaks
  of the copies in handlers' hands too: none holds a negative withdrawable
  balance, and none holds a credit whose job nobody will schedule. Proved:
  `TypeCorrect`, `NeverOverdrawn`, `CreditsGetJobs`.
- **Wallet, `Serialized`** (the same module). `LInv` adds that the ledger
  about to be inserted succeeds the one in the table (`Follows`). A save may
  still be torn. `BInv` adds, while none is, that the balances are the sums of
  the ledger: in the table, except between the commits of a save, and in the
  copy about to be saved. Proved: `CreditedOnce`, `ReleasesInTime`,
  `LedgerGrows`, `BooksAlwaysBalance`, and `WalletImplementsAccount`: every step
  is a credit, a release, a withdrawal or a stutter of `BoosterAccount`.
- **Settlement, any overlap** (`PaymentSettlementProofs`). `PInv` again speaks
  of handlers: what one was told by Mercado Pago is final or was true, its copy
  is backed by an approval, and at the stage before the key is stored the attempt
  is settled (`CallOK`). The common argument is `StepKeeps`: a step keeps `PInv`
  if it takes nothing back (`Monotone`) and what it writes is good. Proved:
  `TypeCorrect`, `ApprovalComesFirst`, `ReleaseComesLast`,
  `ProcessedHasSettled`.
- **Settlement, `Serialized`, until a handler fails** (the same module). `AInv`
  adds that the handler with a copy is the only one, so that the status in its
  hands is that of the row or one transition further (`Fits`), and who is about
  to bring the two tables together while they differ. Proved: `TablesAgree`.
- **Checkout, any number of handlers** (`CheckoutProofs`). `Inv` rests on three
  facts: an id is never used again, so a quote a handler has read still says the
  same if it is there (`ReadsHold`); while a handler holds the row of a client
  that client has no live order (`LocksHold`); and a payment belongs to the one
  handler whose checkout was opened for it (`MoneyInv`). `OnceInv` adds who came
  first to pay for an order, and the theorem about limits counts the orders of a
  coupon with facts about cardinalities. `RecordInv` adds that every price on a
  quote, on an order or in a handler's hands is what the published list of its
  version says: the list never changes, and the version it names exists. Proved:
  `OneOrderPerQuote`, `FirstOrderCouponsGoToFirstOrders`, `ChargesAreAgreed`,
  `SecondPaymentsOverlap`, `OnlyCrowdsExceedLimits`, `CheckoutTypeCorrect`,
  `PricesStayOnRecord`.
- **Pricing, any number of administrators** (`RecordsProofs`). What an open
  transaction has archived is active until it commits and archived by nobody
  else; the unique index then lets it commit only if it archived all that was
  active, so that one version is in force from the start. Proved: `PricingTypeCorrect`, `OneVersionInForce`, and
  `PricingImplementsPriceList`, the refinement on which `Checkout` rests.
- **Accounts, any number of users, sessions and handlers** (`RecordsProofs`).
  A handler holds a copy of the whole row, so the copies must be as well founded
  as the rows: `ProvenInv` says so of access, whatever overlaps. The other
  invariants except the users on whom handlers overlapped (`disputed`): `AdminInv`
  says that the handler about to take an administrator away was started by
  another who still is one; `RoleInv` that a login or refresh about to write
  knows the present role; `AuditInv` that what is unrecorded is what a handler in
  flight is about to record; `TokenInv` says where every token lives, a row or a
  handler's copy, each of one user (`PlacesApart`), so that an exchanged one
  lives nowhere (`SpentIsDead`). Proved: `AccountsTypeCorrect`,
  `AccountsAreProven`, `AdminRemains`, `RolesOfSessions`, `AuditIsTrue`,
  `AuthorityRecorded`, `TokensSpentOnce`.
- **Tickets, ratings, coupons, schedules, throttled callers** (`TicketInv`,
  `RatingInv`, `ScheduleInv`, `ThrottleInv`, `CouponInv`, `HandlersInv` in
  `RecordsProofs`; `ConsoleInv` in `PlatformProofs`). Each says what a handler
  between its read and its write may still rely on: a reply that nobody crossed
  is later than the thread it answers; a mean taken alone is of all ratings but
  one's own; tasks still to be armed or pruned are known by the stage of the
  worker. Proved of the platform: `RecordsAgree`, `CouponPageTellsTheTruth`.
- **Screens** (`EventsInv`, `ChatInv` in `RecordsProofs`, the others in
  `PlatformProofs`). `EventsInv`: whatever change a dashboard has not
  shown is coming, as an event, a timer, a refresh or a rendering. `ChatInv`: of
  every stored message a page does not show, something on its way tells it, unless
  its rendering left it out (`cut`) or it was announced too early (`missed`).
  `ShopInv`, `PageInv`: an offer on a page was true of a row that only moves
  forward. `SessionInv`: one tab at most may write the cookie. Proved of
  the platform: `ScreensFollow`, `CookieFollows`, `CredentialsProven`.
- **The order form** (`PlatformProofs`). `FormInv`: whatever question bears the
  newest number asked about the form on screen (`QuestionsFollow`), and past the
  picker the route goes up (`RouteGoesUp`). Such a
  route costs something unless it starts in Master at less than a cent a point, or
  its first step costs at most 50 cents and those above it nothing: only then can
  rounding take all of it away. `FormsFollow` needs no hypothesis on prices and names
  these cases, and the list without Master.
- **Notifications, any number of orders, senders, events and faults**
  (`NotificationsProofs`). `BellInv` has three layers. `BellStructure` says of
  each party what the others rely on: an event of an open transaction is nobody
  else's, what is in the batch is pending and what is on the wire was handed, no
  time is later than now, and what is read, or about to be, a mark was made for,
  up to the activity the page showed or the time at which the API dated a mark of all. `ListStands` says that, when no event is to come, a list being
  fetched that no event has crossed is the newest rows of the store, however skewed the
  bell is: that is why a quiet refetch puts it right. `Unskewed` says, while
  nothing is skewed: transactions run one by one and events are handed in their
  turn; every event still to be told says of its rows what the store says,
  unless a later one does (`EventsTell`), and the count in the last one is that
  of the store; and what is on the screen together with what is to come is the
  newest of the store (`ScreenTells`): activity only rises, so a row that was pushed
  off the page is among the newest again only when an event raises it. At rest
  nothing is to come, so the bell is the newest of the store.
  The argument per step is about which event is the last to speak of a row;
  sending, marking one and marking all are the three ways a new one becomes
  that, and delivering, answering and refetching the three ways it reaches the
  screen. Proved: `BellTypeCorrect`, `BellFollows`.
- `PlatformTypeCorrect` joins the types of all components.

A component of `Platform` never disturbs another (`EveryComponentSteps`), so that
an invariant its own steps keep is one of the platform.

Some proofs need induction, over the size of a set (`Sums`: sums do not depend
on the order of summation) or over numbers. The library's induction rules take
operators as parameters and cannot be used; these proofs look at the smallest
counterexample instead (`SmallestSubset`, `LeastNatural`).

The assumptions the proofs added to the modules are finite bounds
being numbers (`MaxPosts`, `MaxEdits`, `Horizon > 0`, ...), amounts and prices
being natural numbers, room for at least one message and one notification on a
page, at least one price list, complete but for the Master of the first one, and points of Master
that reach as far as a league has divisions.

Only model-checked: liveness (the prover does not handle fairness), that is,
`CompletedLeadsToCredit`, `EventsAreDecided` and the other leads-to properties of
the runs. Every invariant, action property and refinement of a passing run is a
theorem as well.

## Not modelled

- `simulate-dev-payment-outcome`: exists in development only, and does what
  `ConfirmPayment` and `FailPayment` do.
- The limit of a coupon per user, which is checked beside the global one in the
  same place and in the same way, and the coupon analytics.
- The key under which the throttling guard counts a caller (user or address):
  `RequestThrottle` starts from the key.
- Two replicas of the API. The deployment has one, the dispatcher of the outbox,
  the streams of events and the throttling windows all rely on that, and nothing
  in the code would keep two apart.
- Expiry dates of links and tokens, passwords and their hashes, permissions of
  single routes beyond role and ownership.
- The administrators' tables of users and jobs, login and landing pages,
  metrics and wallet panels: rendering of what the API returns, with no state of
  record. Where a page keeps state of its own or decides what may be done (order
  form, coupon page, order pages, bell, chat, dashboards, cookie) it is modelled.
- Gateway HTTP adapter beyond the statuses it maps, environment parsing, schemas,
  e-mail, logging.
