----------------------------- MODULE Notifications -----------------------------
(***************************************************************************)
(* The notifications of one reader: the rows, the outbox, and the bell.    *)
(*                                                                         *)
(* There is one row per order, raised again by every chat message.  Raising*)
(* or marking rows writes an event to the outbox in the same transaction,  *)
(* with the count of unread rows as that transaction saw it.  A dispatcher *)
(* polls the outbox, hands each event to the socket of the reader and then *)
(* marks it published; it tries again later when marking fails.  The page  *)
(* shows the newest of the rows: what it was rendered with, as the events  *)
(* it receives and the answers to its own requests change it, and the list *)
(* it reads again when its socket reconnects or a mark is refused.         *)
(*                                                                         *)
(* Time is the number of messages sent.  Events stand in the order of their*)
(* createdAt; their transaction may commit in another.  The page has one   *)
(* request and one refetch outstanding at a time, a bound of the model.    *)
(***************************************************************************)
EXTENDS Integers, Sequences, FiniteSetsExt

CONSTANTS
    Orders,
    Senders,        \* the chat requests that may be running at the same time
    MaxAttempts,    \* MAX_ATTEMPTS of the dispatcher
    BatchSize,      \* BATCH_SIZE
    ListLimit,      \* DASHBOARD_NOTIFICATION_LIST_LIMIT: the rows a page lists
    MaxMessages,    \* bound: messages sent
    MaxFaults,      \* bound: crashes, lost connections, failed writes and fetches
    MaxWork         \* bound: events written, and faults before the last of them

ASSUME NotificationsAssumption ==
    /\ IsFiniteSet(Orders)
    /\ MaxAttempts \in Nat \ {0} /\ BatchSize \in Nat \ {0} /\ ListLimit \in Nat \ {0}
    /\ MaxMessages \in Nat /\ MaxFaults \in Nat /\ MaxWork \in Nat

VARIABLES
    clock,          \* the time of the last message
    rows,           \* rows[o]: activityAt, and whether readAt is set
    outbox,         \* the events, in the order of createdAt
    writing,        \* writing[w]: the open transaction of w, and the rows it will leave
    batch,          \* the events the dispatcher has fetched and not finished
    handing,        \* the first of them has reached the gateway
    link,           \* the socket of the page
    wire,           \* the events on their way to the page
    bell,           \* what the page shows
    refetch,        \* the refetch of the page
    request,        \* the mark the reader asked for
    marked,         \* marked[o]: the latest activity of o a mark was made for
    skewed,         \* what has happened that the page cannot see through
    faults

bellVars == <<clock, rows, outbox, writing, batch, handing, link, wire, bell,
              refetch, request, marked, skewed, faults>>

Reader == "reader"
Writers == Senders \cup {Reader}
NoActivity == [at |-> 0, read |-> FALSE]
Rows == [Orders -> [at : 0..MaxMessages, read : BOOLEAN]]
Pages == [items : Rows, unread : 0..Cardinality(Orders)]
Unread(items) == Cardinality({o \in Orders : items[o].at > 0 /\ ~items[o].read})

\* A page lists the newest rows, and no more than it has room for.
Newer(items, o) == {p \in Orders : items[p].at > items[o].at}
Top(items) == {o \in Orders : items[o].at > 0 /\ Cardinality(Newer(items, o)) < ListLimit}
Newest(items) == [o \in Orders |-> IF o \in Top(items) THEN items[o] ELSE NoActivity]

Idle == [stage |-> "idle"]
Asking == [stage |-> "asking"]     \* a mark of all, which has no time yet
MarkOne == [kind : {"one"}, order : Orders, at : 1..MaxMessages]
MarkAll == [kind : {"all"}, cutoff : 0..MaxMessages]
Bodies == [kind : {"updated"}, order : Orders, at : 1..MaxMessages, read : BOOLEAN, unread : Nat]
          \cup [kind : {"read-all"}, cutoff : 0..MaxMessages, unread : Nat]

NotificationsTypeOK ==
    /\ clock \in 0..MaxMessages /\ faults \in 0..MaxFaults
    /\ rows \in Rows
    /\ \A i \in DOMAIN outbox :
        /\ outbox[i].body \in Bodies
        /\ outbox[i].status \in {"OPEN", "GONE", "PENDING", "PUBLISHED", "FAILED"}
        /\ outbox[i].attempts \in 0..MaxAttempts
        /\ outbox[i].waiting \in BOOLEAN /\ outbox[i].handed \in BOOLEAN
    /\ \A w \in Writers : writing[w] = Idle \/ writing[w].stage = "open"
    /\ handing \in BOOLEAN /\ (handing => batch # {})
    /\ link \in {"loading", "joining", "up", "down"}
    /\ bell.items \in Rows /\ bell.unread \in Nat
    /\ refetch.stage \in {"idle", "asked", "items", "answered"}
    /\ request.stage \in {"idle", "asking", "sent", "open", "done", "refused"}
    /\ marked \in [Orders -> 0..MaxMessages]
    /\ skewed \subseteq {"count", "order", "gap", "snapshot", "answer"}

NotificationsInit ==
    /\ clock = 0 /\ faults = 0
    /\ rows = [o \in Orders |-> NoActivity]
    /\ outbox = <<>> /\ batch = {} /\ handing = FALSE /\ wire = <<>>
    /\ writing = [w \in Writers |-> Idle]
    /\ link = "loading"
    /\ bell = [items |-> rows, unread |-> 0]
    /\ refetch = Idle /\ request = Idle
    /\ marked = [o \in Orders |-> 0]
    /\ skewed = {}

dispatcherVars == <<batch, handing>>
shownVars == <<link, wire, bell, refetch>>

-------------------------------------------------------------------------------
\* Transactions.  A row that a transaction has written is locked until it ends.
Locked(o) == \E w \in Writers : writing[w] # Idle /\ o \in writing[w].wrote
SomeOpen == \E w \in Writers : writing[w] # Idle

Outgoing(body) == [body |-> body, status |-> "OPEN", attempts |-> 0, waiting |-> FALSE, handed |-> FALSE]
Updated(o, row, count) ==
    [kind |-> "updated", order |-> o, at |-> row.at, read |-> row.read, unread |-> count]

\* The rows as a transaction leaves them that writes some.
With(wrote, new) == [o \in Orders |-> IF o \in wrote THEN new[o] ELSE rows[o]]

\* What the transaction of w writes.  The count in its event is of the rows it sees:
\* those committed so far and its own.
BeginWrite(w, wrote, new, body) ==
    /\ writing[w] = Idle /\ Len(outbox) + faults < MaxWork
    /\ \A o \in wrote : ~Locked(o)
    /\ writing' = [writing EXCEPT ![w] =
                     [stage |-> "open", wrote |-> wrote, new |-> new, event |-> Len(outbox) + 1]]
    /\ outbox' = Append(outbox, Outgoing(body))
    /\ skewed' = IF SomeOpen THEN skewed \cup {"count"} ELSE skewed
    /\ UNCHANGED <<rows, dispatcherVars, shownVars, marked, faults>>

\* createMessageWithNotification
SendMessage(w, o) ==
    LET row == [at |-> clock + 1, read |-> FALSE]
        new == [rows EXCEPT ![o] = row] IN
    /\ w # Reader /\ clock < MaxMessages
    /\ clock' = clock + 1
    /\ BeginWrite(w, {o}, new, Updated(o, row, Unread(new)))
    /\ UNCHANGED request

\* markRead: the row is written only if it still is the one the reader saw.
ExpectedX(o, at) == rows[o].at >= at
Expected(o, at) == rows[o].at = at

MarkRead ==
    LET o == request.order
        row == [rows[o] EXCEPT !.read = TRUE]
        new == [rows EXCEPT ![o] = row] IN
    /\ request.stage = "sent" /\ request.kind = "one"
    /\ Expected(o, request.at)
    /\ BeginWrite(Reader, {o}, new, Updated(o, row, Unread(new)))
    /\ request' = [request EXCEPT !.stage = "open"]
    /\ UNCHANGED clock

RefuseMark ==
    /\ request.stage = "sent" /\ request.kind = "one"
    /\ ~Locked(request.order) /\ ~Expected(request.order, request.at)
    /\ request' = [request EXCEPT !.stage = "refused"]
    /\ UNCHANGED <<clock, rows, outbox, writing, dispatcherVars, shownVars, marked, skewed, faults>>

\* MarkAllNotificationsReadUseCase: the API dates the mark when it handles it, so
\* that it takes in what was sent since the click.
DateMarkAll ==
    /\ request = Asking
    /\ request' = [stage |-> "sent", kind |-> "all", cutoff |-> clock]
    /\ marked' = [o \in Orders |-> clock]
    /\ UNCHANGED <<clock, rows, outbox, writing, dispatcherVars, shownVars, skewed, faults>>

\* markAllRead: the unread rows up to the cutoff.
UpTo(cutoff) == {o \in Orders : rows[o].at \in 1..cutoff /\ ~rows[o].read}

MarkAllRead ==
    LET cutoff == request.cutoff
        new == [o \in Orders |-> [rows[o] EXCEPT !.read = TRUE]] IN
    /\ request.stage = "sent" /\ request.kind = "all"
    /\ BeginWrite(Reader, UpTo(cutoff), new,
                  [kind |-> "read-all", cutoff |-> cutoff, unread |-> Unread(With(UpTo(cutoff), new))])
    /\ request' = [request EXCEPT !.stage = "open"]
    /\ UNCHANGED clock

\* The event becomes visible with the rows.
CommitWrite(w) == rows' = With(writing[w].wrote, writing[w].new)

Commit(w) ==
    /\ writing[w] # Idle
    /\ CommitWrite(w)
    /\ outbox' = [outbox EXCEPT ![writing[w].event].status = "PENDING"]
    /\ writing' = [writing EXCEPT ![w] = Idle]
    /\ request' = IF w = Reader
                  THEN [stage |-> "done", of |-> request, event |-> writing[w].event]
                  ELSE request
    /\ UNCHANGED <<clock, dispatcherVars, shownVars, marked, skewed, faults>>

-------------------------------------------------------------------------------
\* The dispatcher.
ReadyX == {i \in DOMAIN outbox : outbox[i].status = "PENDING" /\ outbox[i].attempts = 0}
Ready == {i \in DOMAIN outbox : outbox[i].status = "PENDING" /\ ~outbox[i].waiting}

\* The first of them, of which the first comes first.
FetchPending ==
    /\ batch = {} /\ Ready # {}
    /\ batch' = {i \in Ready : Cardinality({j \in Ready : j < i}) < BatchSize}
    /\ UNCHANGED <<clock, rows, outbox, writing, handing, shownVars, request, marked, skewed, faults>>

Turn == Min(batch)

\* A list that is on its way no longer shows what the event told.
Crossed(r) == IF r.stage \in {"items", "answered"} THEN [r EXCEPT !.crossed = TRUE] ELSE r

\* An event out of its turn, or one that comes while the page is not yet in the
\* room of its reader, is nothing the page makes up for.
Handle ==
    LET i == Turn IN
    /\ batch # {} /\ ~handing
    /\ handing' = TRUE
    /\ outbox' = [outbox EXCEPT ![i].handed = TRUE]
    /\ wire' = IF link = "up" THEN Append(wire, i) ELSE wire
    /\ skewed' = skewed \cup {s \in {"order"} : \E j \in DOMAIN outbox : j > i /\ outbox[j].handed}
                        \cup {s \in {"gap"} : link \in {"loading", "joining"}}
    /\ refetch' = IF link = "joining" THEN Crossed(refetch) ELSE refetch
    /\ UNCHANGED <<clock, rows, writing, batch, link, bell, request, marked, faults>>

FinishHead ==
    /\ batch' = batch \ {Turn} /\ handing' = FALSE
    /\ UNCHANGED <<clock, rows, writing, shownVars, request, marked, skewed>>

MarkPublished ==
    /\ batch # {} /\ handing
    /\ outbox' = [outbox EXCEPT ![Turn].status = "PUBLISHED"]
    /\ FinishHead
    /\ UNCHANGED faults

\* handleFailure: marking the event failed, so it is tried again later, or given up.
\* What fails again is the same fault.
GivesUp(attempts) == attempts >= MaxAttempts

HandleFailure ==
    LET i == Turn
        attempts == outbox[i].attempts + 1 IN
    /\ batch # {} /\ handing
    /\ \/ outbox[i].attempts = 0 /\ faults < MaxFaults /\ faults' = faults + 1
       \/ outbox[i].attempts > 0 /\ UNCHANGED faults
    /\ outbox' = [outbox EXCEPT ![i] =
                    IF GivesUp(attempts) THEN [@ EXCEPT !.attempts = attempts, !.status = "FAILED"]
                    ELSE [@ EXCEPT !.attempts = attempts, !.waiting = TRUE]]
    /\ FinishHead

BackoffEnds(i) ==
    /\ outbox[i].waiting
    /\ outbox' = [outbox EXCEPT ![i].waiting = FALSE]
    /\ UNCHANGED <<clock, rows, writing, dispatcherVars, shownVars, request, marked, skewed, faults>>

\* Recording the failure fails too: the rest of the batch waits for the next poll.
AbandonBatch ==
    /\ batch # {} /\ handing /\ faults < MaxFaults
    /\ faults' = faults + 1
    /\ batch' = {} /\ handing' = FALSE
    /\ UNCHANGED <<clock, rows, outbox, writing, shownVars, request, marked, skewed>>

\* The API stops: its transactions roll back, its sockets close, its batch is gone.
Crash ==
    /\ faults < MaxFaults
    /\ faults' = faults + 1
    /\ outbox' = [i \in DOMAIN outbox |->
                    IF outbox[i].status = "OPEN" THEN [outbox[i] EXCEPT !.status = "GONE"] ELSE outbox[i]]
    /\ writing' = [w \in Writers |-> Idle]
    /\ batch' = {} /\ handing' = FALSE
    /\ link' = IF link = "loading" THEN link ELSE "down"
    /\ wire' = <<>>
    /\ request' = IF request.stage \in {"asking", "sent", "open"} THEN Idle ELSE request
    /\ UNCHANGED <<clock, rows, bell, refetch, marked, skewed>>

-------------------------------------------------------------------------------
\* The page.
Disconnect ==
    /\ link \in {"joining", "up"} /\ faults < MaxFaults
    /\ faults' = faults + 1
    /\ link' = "down" /\ wire' = <<>>
    /\ UNCHANGED <<clock, rows, outbox, writing, dispatcherVars, bell, refetch, request, marked, skewed>>

\* refreshFromSource: the first connection trusts what the page was rendered with.
Refetches == link = "down"

Connect ==
    /\ link \in {"loading", "down"} /\ refetch = Idle
    /\ link' = "joining"
    /\ refetch' = IF Refetches THEN [stage |-> "asked"] ELSE refetch
    /\ UNCHANGED <<clock, rows, outbox, writing, dispatcherVars, wire, bell, request, marked, skewed, faults>>

\* handleConnection: the socket joins its room once its user is authenticated.
JoinRoom ==
    /\ link = "joining"
    /\ link' = "up"
    /\ UNCHANGED <<clock, rows, outbox, writing, dispatcherVars, wire, bell, refetch, request, marked, skewed, faults>>

\* list: the newest rows, and then the count of all the unread ones.
ReadItems ==
    /\ refetch.stage = "asked"
    /\ refetch' = [stage |-> "items", items |-> Newest(rows), crossed |-> FALSE]
    /\ UNCHANGED <<clock, rows, outbox, writing, dispatcherVars, link, wire, bell, request, marked, skewed, faults>>

CountUnread ==
    /\ refetch.stage = "items"
    /\ refetch' = [stage |-> "answered", items |-> refetch.items,
                   unread |-> Unread(rows), crossed |-> refetch.crossed]
    /\ UNCHANGED <<clock, rows, outbox, writing, dispatcherVars, link, wire, bell, request, marked, skewed, faults>>

\* Nothing is under way that would change the page again.
AllTold ==
    /\ ~SomeOpen /\ wire = <<>>
    /\ \A i \in DOMAIN outbox : outbox[i].status # "PENDING"
Quiet == AllTold /\ link = "up" /\ refetch = Idle /\ request = Idle

\* replaceNotifications
ReplaceNotifications ==
    /\ refetch.stage = "answered"
    /\ bell' = [items |-> refetch.items, unread |-> refetch.unread]
    /\ refetch' = Idle
    /\ skewed' = IF refetch.crossed THEN skewed \cup {"snapshot"}
                 ELSE IF AllTold /\ request = Idle /\ link = "up" THEN {} ELSE skewed
    /\ UNCHANGED <<clock, rows, outbox, writing, dispatcherVars, link, wire, request, marked, faults>>

RefetchFails ==
    /\ refetch # Idle /\ faults < MaxFaults
    /\ faults' = faults + 1
    /\ refetch' = Idle
    /\ skewed' = skewed \cup {"snapshot"}
    /\ UNCHANGED <<clock, rows, outbox, writing, dispatcherVars, link, wire, bell, request, marked>>

\* The items of the page with those up to the cutoff read.
ReadUpTo(items, cutoff) ==
    [o \in Orders |-> IF items[o].at \in 1..cutoff THEN [items[o] EXCEPT !.read = TRUE] ELSE items[o]]

\* applyNotificationUpdated, applyNotificationsReadAll
Applied(body) ==
    [items |-> IF body.kind = "updated"
               THEN Newest([bell.items EXCEPT ![body.order] = [at |-> body.at, read |-> body.read]])
               ELSE ReadUpTo(bell.items, body.cutoff),
     unread |-> body.unread]

Deliver ==
    /\ wire # <<>> /\ link = "up"
    /\ bell' = Applied(outbox[Head(wire)].body)
    /\ wire' = Tail(wire)
    /\ refetch' = Crossed(refetch)
    /\ UNCHANGED <<clock, rows, outbox, writing, dispatcherVars, link, request, marked, skewed, faults>>

\* markOneRead, openNotification: an unread item, with the activity it shows.
ClickRead(o) ==
    LET item == bell.items[o] IN
    /\ request = Idle /\ item.at > 0 /\ ~item.read
    /\ request' = [stage |-> "sent", kind |-> "one", order |-> o, at |-> item.at]
    /\ marked' = [marked EXCEPT ![o] = IF @ < item.at THEN item.at ELSE @]
    /\ UNCHANGED <<clock, rows, outbox, writing, dispatcherVars, shownVars, skewed, faults>>

\* markAllRead: the request names no time.
ClickAll ==
    /\ request = Idle /\ bell.unread > 0
    /\ request' = Asking
    /\ UNCHANGED <<clock, rows, outbox, writing, dispatcherVars, shownVars, marked, skewed, faults>>

\* The answer to the request, of an item that is still listed: it counts on its event to come later.
EventToCome(i) == \/ outbox[i].status = "PENDING" /\ ~outbox[i].handed
                  \/ \E k \in DOMAIN wire : wire[k] = i
\* an event may have counted the item as read already
OneLessX(n) == n - 1
OneLess(n) == IF n = 0 THEN 0 ELSE n - 1

ApplyAnswer ==
    LET of == request.of
        event == outbox[request.event].body IN
    /\ request.stage = "done"
    /\ bell' = IF of.kind = "one"
               THEN [items |-> [bell.items EXCEPT ![of.order] =
                                  IF @.at > 0 THEN [at |-> event.at, read |-> event.read] ELSE @],
                     unread |-> OneLess(bell.unread)]
               ELSE [items |-> ReadUpTo(bell.items, of.cutoff), unread |-> event.unread]
    /\ request' = Idle
    /\ skewed' = IF EventToCome(request.event) THEN skewed ELSE skewed \cup {"answer"}
    /\ UNCHANGED <<clock, rows, outbox, writing, dispatcherVars, link, wire, refetch, marked, faults>>

ShowRefusal ==
    /\ request.stage = "refused" /\ refetch = Idle
    /\ request' = Idle
    /\ refetch' = [stage |-> "asked"]
    /\ UNCHANGED <<clock, rows, outbox, writing, dispatcherVars, link, wire, bell, marked, skewed, faults>>

-------------------------------------------------------------------------------
DispatcherStep ==
    FetchPending \/ Handle \/ MarkPublished \/ \E i \in DOMAIN outbox : BackoffEnds(i)

NotificationsNext ==
    \/ \E w \in Senders, o \in Orders : SendMessage(w, o)
    \/ MarkRead \/ RefuseMark \/ DateMarkAll \/ MarkAllRead
    \/ \E w \in Writers : Commit(w)
    \/ DispatcherStep \/ HandleFailure \/ AbandonBatch \/ Crash
    \/ Disconnect \/ Connect \/ JoinRoom
    \/ ReadItems \/ CountUnread \/ ReplaceNotifications \/ RefetchFails
    \/ Deliver \/ (\E o \in Orders : ClickRead(o)) \/ ClickAll \/ ApplyAnswer \/ ShowRefusal

\* The poll of the dispatcher is a timer that never stops; the backoff is one too.
NotificationsFairness == WF_bellVars(DispatcherStep)

NotificationsSpec == NotificationsInit /\ [][NotificationsNext]_bellVars /\ NotificationsFairness

-------------------------------------------------------------------------------
\* When nothing is under way any more, the page shows the newest rows of the store
\* and the count of all its unread ones, unless an event came out of order or into a gap, a count was taken
\* beside an open transaction, or an answer or a list was overtaken by an event.
\* No event is lost for good: not by a crash between handing and marking it, and
\* not by a lost connection, which the refetch makes up for.
BellAgrees ==
    Quiet /\ skewed = {} => bell = [items |-> Newest(rows), unread |-> Unread(rows)]

\* A mark never hides a message that is later than it: a row is read only up to the
\* activity the page showed when the reader marked it, or up to the time at which
\* the API dated a mark of all.  (What is sent between that click and its dating is
\* marked with the rest.)
NoLaterMessageRead == \A o \in Orders : rows[o].read => rows[o].at <= marked[o]

\* A refetch puts the bell right, whatever skewed it: its two reads, at different
\* times, bring the newest rows and the count of the store, unless an event is still to
\* be told or one came between them and the answer.
RefetchRepairs ==
    refetch.stage = "answered" /\ ~refetch.crossed /\ AllTold /\ link # "down"
        => refetch.items = Newest(rows) /\ refetch.unread = Unread(rows)

\* What the bell shows, what it marks, and what a refetch brings.
BellFollowsTheThread == BellAgrees /\ NoLaterMessageRead /\ RefetchRepairs

\* Every event a transaction committed is published or given up in the end.
EventsAreDecided ==
    \A i \in 1..MaxWork :
        (i \in DOMAIN outbox /\ outbox[i].status = "PENDING")
            ~> (i \in DOMAIN outbox /\ outbox[i].status # "PENDING")
===============================================================================
