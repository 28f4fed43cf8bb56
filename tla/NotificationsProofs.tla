--------------------------- MODULE NotificationsProofs ---------------------------
(***************************************************************************)
(* Proofs about the notifications of one reader: the bell tells what the   *)
(* store says, for any number of orders, senders, attempts and faults.     *)
(*                                                                         *)
(* The inductive invariant BellInv has a part for each party (the open     *)
(* transactions, the outbox, the dispatcher, the wire, the page, the mark  *)
(* the reader asked for), and ListStands and Unskewed, which say of what   *)
(* the page shows, or a refetch brings, that the events still to come make *)
(* the rows of the store of it.                                            *)
(***************************************************************************)
EXTENDS Notifications, Sums, SequenceTheorems

-------------------------------------------------------------------------------
(***************************************************************************)
(* The bell.  What is still to come tells the page everything that it does *)
(* not show yet: the events it has not been told of are the last ones, in  *)
(* their order, and each says of its row, or of the rows up to its time,   *)
(* what the store says unless a later one does.                            *)
(***************************************************************************)
Visible == {"PENDING", "PUBLISHED", "FAILED"}
Committed(i) == outbox[i].status \in Visible
OnWire(i) == \E k \in DOMAIN wire : wire[k] = i
ToHand(i) == outbox[i].status = "PENDING" /\ ~outbox[i].handed
Coming == {i \in DOMAIN outbox : ToHand(i) \/ OnWire(i)}
Living == {i \in DOMAIN outbox : outbox[i].status = "PENDING" \/ OnWire(i)}
Later(i) == {k \in DOMAIN outbox : k > i /\ Committed(k)}

Open(w) == writing[w] # Idle

Statuses == {"OPEN", "GONE", "PENDING", "PUBLISHED", "FAILED"}
Entries == [body : Bodies, status : Statuses, attempts : Nat, waiting : BOOLEAN, handed : BOOLEAN]
Writes == [stage : {"open"}, wrote : SUBSET Orders, new : Rows, event : Nat]
OpenMarks == {"sent", "open", "refused"}
OneMarks(stages) == [stage : stages, kind : {"one"}, order : Orders, at : 1..MaxMessages]
AllMarks(stages) == [stage : stages, kind : {"all"}, cutoff : 0..MaxMessages]
Made == OneMarks({"open"}) \cup AllMarks({"open"})
Answers == [stage : {"done"}, of : Made, event : Nat]
Requests == {Idle, Asking} \cup OneMarks(OpenMarks) \cup AllMarks(OpenMarks) \cup Answers
ListsRead == [stage : {"items"}, items : Rows, crossed : BOOLEAN]
ListsCounted == [stage : {"answered"}, items : Rows, unread : Nat, crossed : BOOLEAN]
Refetchings == {Idle, [stage |-> "asked"]} \cup ListsRead \cup ListsCounted
BellTypes ==
    /\ clock \in 0..MaxMessages /\ faults \in 0..MaxFaults
    /\ rows \in Rows
    /\ outbox \in Seq(Entries)
    /\ writing \in [Writers -> Writes \cup {Idle}]
    /\ batch \subseteq DOMAIN outbox /\ handing \in BOOLEAN
    /\ link \in {"loading", "joining", "up", "down"}
    /\ wire \in Seq(DOMAIN outbox)
    /\ bell \in [items : Rows, unread : Nat]
    /\ refetch \in Refetchings
    /\ request \in Requests
    /\ marked \in [Orders -> 0..MaxMessages]
    /\ skewed \subseteq {"count", "order", "gap", "snapshot", "answer"}

\* What the dispatcher has done with an event.
EntriesOK ==
    \A i \in DOMAIN outbox :
        /\ outbox[i].status \in {"OPEN", "GONE"} => ~outbox[i].handed
        /\ outbox[i].status \in {"PUBLISHED", "FAILED"} => outbox[i].handed
        /\ outbox[i].waiting => outbox[i].handed
        /\ outbox[i].status # "FAILED" => outbox[i].attempts < MaxAttempts
        /\ outbox[i].attempts <= MaxAttempts
DispatchOK ==
    /\ \A i \in batch : outbox[i].status = "PENDING"
    /\ handing => batch # {} /\ outbox[Turn].handed
    /\ \A k \in DOMAIN wire : Committed(wire[k]) /\ outbox[wire[k]].handed
    /\ wire # <<>> => link = "up"
    /\ link = "loading" => /\ refetch = Idle /\ request = Idle /\ bell.unread = 0
                           /\ \A o \in Orders : bell.items[o].at = 0

\* The event of a mark is the one asked for.
Marks(of, b) ==
    /\ of.kind = "one" => b.kind = "updated" /\ b.order = of.order /\ b.at = of.at /\ b.read
    /\ of.kind = "all" => b.kind = "read-all" /\ b.cutoff = of.cutoff
WritersOK ==
    /\ \A w \in Writers : Open(w) => writing[w].event \in DOMAIN outbox /\ outbox[writing[w].event].status = "OPEN"
    /\ \A v, w \in Writers : Open(v) /\ Open(w) /\ writing[v].event = writing[w].event => v = w
    /\ Open(Reader) <=> request.stage = "open"
    /\ Open(Reader) => Marks(request, outbox[writing[Reader].event].body)
    /\ request.stage = "done" => /\ request.event \in DOMAIN outbox /\ Committed(request.event)
                                 /\ Marks(request.of, outbox[request.event].body)

\* No time is later than now, and a message is later than the marks before it.
RowsUpTo(items, now) == \A o \in Orders : items[o].at <= now
Timely(b, now) == /\ b.kind = "updated" => b.at <= now
                  /\ b.kind = "read-all" => b.cutoff <= now
Before(a, b) == a.kind = "read-all" /\ b.kind = "updated" /\ ~b.read => a.cutoff < b.at
RowsTimely == RowsUpTo(rows, clock)
ScreenTimely == /\ RowsUpTo(bell.items, clock)
                /\ refetch.stage \in {"items", "answered"} => RowsUpTo(refetch.items, clock)
NewTimely == \A w \in Writers : Open(w) => RowsUpTo(writing[w].new, clock)
BodiesTimely == \A i \in DOMAIN outbox : Timely(outbox[i].body, clock)
MarksBefore == \A i, k \in DOMAIN outbox : i < k => Before(outbox[i].body, outbox[k].body)
MarkedTimely == \A o \in Orders : marked[o] <= clock
TimesOK == RowsTimely /\ ScreenTimely /\ NewTimely /\ BodiesTimely /\ MarksBefore /\ MarkedTimely

\* What is read, or will be, the reader has asked to mark.
Asks(r) == /\ r.kind = "one" => r.at <= marked[r.order]
           /\ r.kind = "all" => r.cutoff <= clock /\ \A o \in Orders : r.cutoff <= marked[o]
RequestAsked == request.stage \in OpenMarks => Asks(request)
RowsAsked == \A o \in Orders : rows[o].read => rows[o].at <= marked[o]
NewAsked == \A w \in Writers : Open(w) =>
                \A o \in writing[w].wrote : writing[w].new[o].read => writing[w].new[o].at <= marked[o]
MarksOK == RequestAsked /\ RowsAsked /\ NewAsked

BellStructure == BellTypes /\ EntriesOK /\ DispatchOK /\ WritersOK /\ TimesOK /\ MarksOK

-------------------------------------------------------------------------------
\* Transactions one after the other, and events handed in their order.
OneByOne ==
    /\ \A v, w \in Writers : Open(v) /\ Open(w) => v = w
    /\ \A w \in Writers : Open(w) => writing[w].event = Len(outbox)
BatchFirst == \A i \in batch, k \in DOMAIN outbox \ batch : ToHand(k) => i < k
HandedFirst == \A i, k \in DOMAIN outbox : i < k /\ outbox[k].handed /\ Committed(i) => outbox[i].handed
WireSorted == \A m, n \in DOMAIN wire : m < n => wire[m] <= wire[n]
WireWhole == \A k \in DOMAIN wire, i \in DOMAIN outbox : wire[k] < i /\ outbox[i].handed => OnWire(i)
InTurn == BatchFirst /\ HandedFirst /\ WireSorted /\ WireWhole

\* What an event says of the rows after it.
About(b, o) == b.kind = "updated" /\ b.order = o
ReadsAt(b, time) == b.kind = "read-all" /\ time \in 1..b.cutoff
Says(b, before, after) ==
    /\ b.unread = Unread(after)
    /\ \A o \in Orders : before[o].at <= after[o].at
    /\ \A o \in Orders :
        IF About(b, o) THEN after[o].at = b.at /\ (after[o].read <=> b.read)
        ELSE after[o].at = before[o].at /\ (after[o].read <=> before[o].read \/ ReadsAt(b, before[o].at))
WritesSay ==
    \A w \in Writers : Open(w) =>
        Says(outbox[writing[w].event].body, rows, With(writing[w].wrote, writing[w].new))

\* A row is as v told it, once all events in S that mark rows read have been told.
Agrees(box, row, v, S) ==
    /\ row.at = v.at
    /\ row.read <=> v.read \/ \E i \in S : ReadsAt(box[i].body, v.at)

\* What the event i still says of the rows, when those in later came after it.
HoldsGood(box, store, i, later) ==
    /\ \A o \in Orders : About(box[i].body, o) /\ (\A k \in later : ~About(box[k].body, o))
            => Agrees(box, store[o], box[i].body, later)
    /\ \A o \in Orders : ReadsAt(box[i].body, store[o].at) => store[o].read
    /\ \A o \in Orders : About(box[i].body, o) => box[i].body.at <= store[o].at
    /\ later = {} => box[i].body.unread = Unread(store)
EventsTell == \A i \in Living : HoldsGood(outbox, rows, i, Later(i))

\* What is on screen, or will be, is what the newest rows are but for what is to
\* come; it is never later than the store, and of what nothing to come is about it
\* shows no more than there is room for.
Settled(box, S, o) == \A i \in S : ~About(box[i].body, o)
Told(box, store, items, S) == \A o \in Top(store) : Settled(box, S, o) => Agrees(box, store[o], items[o], S)
Lags(store, items) == \A o \in Orders : items[o].at <= store[o].at
SettledNewer(box, items, S, o) == {p \in Newer(items, o) : Settled(box, S, p)}
Capped(box, items, S) ==
    \A o \in Orders : items[o].at > 0 /\ Settled(box, S, o) => Cardinality(SettledNewer(box, items, S, o)) < ListLimit
Blank(items) == \A o \in Orders : items[o].at = 0 => ~items[o].read
Tells(box, store, items, coming) ==
    Told(box, store, items, coming) /\ Lags(store, items) /\ Capped(box, items, coming) /\ Blank(items)
Counts(store, n, coming) == coming = {} => n = Unread(store)
BellTells == refetch = Idle => Tells(outbox, rows, bell.items, Coming) /\ Counts(rows, bell.unread, Coming)
ListTells == refetch.stage \in {"items", "answered"} /\ ~refetch.crossed => Tells(outbox, rows, refetch.items, Coming)
ListCounts == refetch.stage = "answered" /\ ~refetch.crossed => Counts(rows, refetch.unread, Coming)
ScreenTells == link # "down" => BellTells /\ ListTells /\ ListCounts

Unskewed == OneByOne /\ InTurn /\ WritesSay /\ EventsTell /\ ScreenTells

\* However skewed: a list that no event crossed is the one of the store, but for what is to come.
ListStands ==
    link # "down" /\ Coming = {} =>
        /\ refetch.stage \in {"items", "answered"} /\ ~refetch.crossed => refetch.items = Newest(rows)
        /\ refetch.stage = "answered" /\ ~refetch.crossed => refetch.unread = Unread(rows)

BellInv == BellStructure /\ ListStands /\ (skewed = {} => Unskewed)

\* The parts of an entry, and those of one that changed.
LEMMA EntryIs ==
    ASSUME NEW e \in Entries
    PROVE  /\ e.body \in Bodies /\ e.status \in Statuses /\ e.attempts \in Nat
           /\ e.waiting \in BOOLEAN /\ e.handed \in BOOLEAN
           /\ e = [body |-> e.body, status |-> e.status, attempts |-> e.attempts,
                   waiting |-> e.waiting, handed |-> e.handed]
    BY DEF Entries

LEMMA EntryMade ==
    ASSUME NEW b \in Bodies, NEW s \in Statuses, NEW a \in Nat, NEW x \in BOOLEAN, NEW h \in BOOLEAN,
           NEW e, e = [body |-> b, status |-> s, attempts |-> a, waiting |-> x, handed |-> h]
    PROVE  /\ e \in Entries
           /\ e.body = b /\ e.status = s /\ e.attempts = a /\ e.waiting = x /\ e.handed = h
<1>1. \A v, y : LET d == [body |-> b, status |-> s, attempts |-> a, waiting |-> v, handed |-> y]
                IN  d.body = b /\ d.status = s /\ d.attempts = a /\ d.waiting = v /\ d.handed = y
    OBVIOUS
<1>2. e.body = b /\ e.status = s /\ e.attempts = a /\ e.waiting = x /\ e.handed = h
    BY <1>1, Zenon
<1>3. e \in Entries
    BY DEF Entries
<1> QED BY <1>2, <1>3, Zenon

LEMMA OutgoingIs ==
    ASSUME NEW b \in Bodies
    PROVE  /\ Outgoing(b) \in Entries /\ Outgoing(b).body = b /\ Outgoing(b).status = "OPEN"
           /\ Outgoing(b).attempts = 0 /\ ~Outgoing(b).waiting /\ ~Outgoing(b).handed
<1>1. "OPEN" \in Statuses /\ 0 \in Nat /\ FALSE \in BOOLEAN
    BY DEF Statuses
<1>2. Outgoing(b) = [body |-> b, status |-> "OPEN", attempts |-> 0, waiting |-> FALSE, handed |-> FALSE]
    BY DEF Outgoing
<1>3. PICK e : e = Outgoing(b)
    OBVIOUS
<1>4. e = [body |-> b, status |-> "OPEN", attempts |-> 0, waiting |-> FALSE, handed |-> FALSE]
    BY <1>2, <1>3, Zenon
<1>5. \A s \in Statuses, a \in Nat, x, h \in BOOLEAN :
        e = [body |-> b, status |-> s, attempts |-> a, waiting |-> x, handed |-> h]
            => e \in Entries /\ e.body = b /\ e.status = s /\ e.attempts = a /\ e.waiting = x /\ e.handed = h
    BY EntryMade
<1>6. /\ e \in Entries /\ e.body = b /\ e.status = "OPEN" /\ e.attempts = 0
      /\ e.waiting = FALSE /\ e.handed = FALSE
    BY <1>1, <1>4, <1>5, Zenon
<1> QED BY <1>3, <1>6, Zenon

\* The entries that agree but for one part.
SameBut(e, d, parts) ==
    /\ d \in Entries /\ d.body = e.body
    /\ "status" \in parts \/ d.status = e.status
    /\ "attempts" \in parts \/ d.attempts = e.attempts
    /\ "waiting" \in parts \/ d.waiting = e.waiting
    /\ "handed" \in parts \/ d.handed = e.handed

LEMMA EntryChanged ==
    ASSUME NEW e \in Entries
    PROVE  /\ \A s \in Statuses : SameBut(e, [e EXCEPT !.status = s], {"status"}) /\ [e EXCEPT !.status = s].status = s
           /\ \A a \in Nat : SameBut(e, [e EXCEPT !.attempts = a], {"attempts"}) /\ [e EXCEPT !.attempts = a].attempts = a
           /\ \A x \in BOOLEAN : SameBut(e, [e EXCEPT !.waiting = x], {"waiting"}) /\ [e EXCEPT !.waiting = x].waiting = x
           /\ \A x \in BOOLEAN : SameBut(e, [e EXCEPT !.handed = x], {"handed"}) /\ [e EXCEPT !.handed = x].handed = x
<1>1. /\ e.body \in Bodies /\ e.status \in Statuses /\ e.attempts \in Nat
      /\ e.waiting \in BOOLEAN /\ e.handed \in BOOLEAN
      /\ e = [body |-> e.body, status |-> e.status, attempts |-> e.attempts,
              waiting |-> e.waiting, handed |-> e.handed]
    BY EntryIs
<1>2. ASSUME NEW x \in Statuses, NEW d, d = [e EXCEPT !.status = x] PROVE SameBut(e, d, {"status"}) /\ d.status = x
  <2>1. d = [body |-> e.body, status |-> x, attempts |-> e.attempts, waiting |-> e.waiting, handed |-> e.handed]
      BY <1>1, <1>2
  <2>2. /\ d \in Entries
        /\ d.body = e.body
        /\ d.status = x
        /\ d.attempts = e.attempts
        /\ d.waiting = e.waiting
        /\ d.handed = e.handed
      BY <1>1, <2>1, EntryMade
  <2> QED BY <2>2, Zenon DEF SameBut
<1>3. ASSUME NEW x \in Nat, NEW d, d = [e EXCEPT !.attempts = x] PROVE SameBut(e, d, {"attempts"}) /\ d.attempts = x
  <2>1. d = [body |-> e.body, status |-> e.status, attempts |-> x, waiting |-> e.waiting, handed |-> e.handed]
      BY <1>1, <1>3
  <2>2. /\ d \in Entries
        /\ d.body = e.body
        /\ d.status = e.status
        /\ d.attempts = x
        /\ d.waiting = e.waiting
        /\ d.handed = e.handed
      BY <1>1, <2>1, EntryMade
  <2> QED BY <2>2, Zenon DEF SameBut
<1>4. ASSUME NEW x \in BOOLEAN, NEW d, d = [e EXCEPT !.waiting = x] PROVE SameBut(e, d, {"waiting"}) /\ d.waiting = x
  <2>1. d = [body |-> e.body, status |-> e.status, attempts |-> e.attempts, waiting |-> x, handed |-> e.handed]
      BY <1>1, <1>4
  <2>2. /\ d \in Entries
        /\ d.body = e.body
        /\ d.status = e.status
        /\ d.attempts = e.attempts
        /\ d.waiting = x
        /\ d.handed = e.handed
      BY <1>1, <2>1, EntryMade
  <2> QED BY <2>2, Zenon DEF SameBut
<1>5. ASSUME NEW x \in BOOLEAN, NEW d, d = [e EXCEPT !.handed = x] PROVE SameBut(e, d, {"handed"}) /\ d.handed = x
  <2>1. d = [body |-> e.body, status |-> e.status, attempts |-> e.attempts, waiting |-> e.waiting, handed |-> x]
      BY <1>1, <1>5
  <2>2. /\ d \in Entries
        /\ d.body = e.body
        /\ d.status = e.status
        /\ d.attempts = e.attempts
        /\ d.waiting = e.waiting
        /\ d.handed = x
      BY <1>1, <2>1, EntryMade
  <2> QED BY <2>2, Zenon DEF SameBut
<1> QED BY <1>2, <1>3, <1>4, <1>5, Zenon

\* One more event, or another entry for one.
LEMMA OutboxGrows ==
    ASSUME BellTypes, NEW b \in Bodies, NEW grown, grown = Append(outbox, Outgoing(b))
    PROVE  /\ grown \in Seq(Entries) /\ Len(grown) = Len(outbox) + 1 /\ Len(outbox) \in Nat
           /\ DOMAIN outbox = 1..Len(outbox) /\ DOMAIN grown = 1..Len(outbox) + 1
           /\ \A k \in DOMAIN outbox : grown[k] = outbox[k]
           /\ grown[Len(outbox) + 1] = Outgoing(b)
<1>1. outbox \in Seq(Entries) /\ Outgoing(b) \in Entries
    BY OutgoingIs DEF BellTypes
<1> HIDE DEF Outgoing
<1> QED BY <1>1, AppendProperties, LenProperties

LEMMA OutboxChanges ==
    ASSUME BellTypes, NEW i \in DOMAIN outbox, NEW e \in Entries, NEW changed, changed = [outbox EXCEPT ![i] = e]
    PROVE  /\ changed \in Seq(Entries) /\ DOMAIN changed = DOMAIN outbox /\ Len(changed) = Len(outbox)
           /\ changed[i] = e /\ \A k \in DOMAIN outbox : k # i => changed[k] = outbox[k]
    BY ExceptSeq DEF BellTypes

LEMMA TurnIs ==
    ASSUME BellTypes, batch # {}
    PROVE  Turn \in batch /\ Turn \in DOMAIN outbox /\ \A k \in batch : Turn <= k
<1>1. batch \subseteq DOMAIN outbox /\ DOMAIN outbox = 1..Len(outbox) /\ Len(outbox) \in Nat
    BY LenProperties DEF BellTypes
<1>2. batch \subseteq Nat
    BY <1>1
<1>3. \E n \in batch : \A m \in batch : n <= m
    BY <1>2, LeastNatural
<1>4. Turn \in batch /\ \A k \in batch : Turn <= k
    BY <1>3 DEF Turn, Min
<1> QED BY <1>1, <1>4

-------------------------------------------------------------------------------
\* The parts of the records the bell is made of.
LEMMA UnreadIsNat == ASSUME NEW items PROVE Unread(items) \in Nat
<1>1. IsFiniteSet({o \in Orders : items[o].at > 0 /\ ~items[o].read})
    BY NotificationsAssumption, FS_Subset
<1> QED BY <1>1, FS_CardinalityType DEF Unread

LEMMA RequestIs ==
    ASSUME NEW r \in Requests
    PROVE  /\ r.stage = "idle" => r = Idle
           /\ r.stage \in OpenMarks => r \in OneMarks({r.stage}) \cup AllMarks({r.stage})
           /\ r.stage \in OpenMarks /\ r.kind = "one" =>
                r \in OneMarks({r.stage}) /\ r.order \in Orders /\ r.at \in 1..MaxMessages
           /\ r.stage \in OpenMarks /\ r.kind = "all" => r \in AllMarks({r.stage}) /\ r.cutoff \in 0..MaxMessages
           /\ r.stage \in OpenMarks => r.kind \in {"one", "all"}
           /\ r.stage = "done" => r.of \in Made /\ r.event \in Nat
           /\ r.stage \in {"idle", "asking", "sent", "open", "refused", "done"}
<1>1. CASE r = Idle \/ r = Asking
    BY <1>1 DEF Idle, Asking, OpenMarks
<1>2. CASE r \in OneMarks(OpenMarks)
    BY <1>2 DEF OneMarks, OpenMarks
<1>3. CASE r \in AllMarks(OpenMarks)
    BY <1>3 DEF AllMarks, OpenMarks
<1>4. CASE r \in Answers
    BY <1>4 DEF Answers, OpenMarks
<1> QED BY <1>1, <1>2, <1>3, <1>4 DEF Requests

LEMMA MarkIs ==
    ASSUME NEW stage \in OpenMarks
    PROVE  /\ OneMarks({stage}) \subseteq Requests /\ AllMarks({stage}) \subseteq Requests
           /\ \A r \in OneMarks({stage}) : r.stage = stage /\ r.kind = "one" /\ r.order \in Orders /\ r.at \in 1..MaxMessages
           /\ \A r \in AllMarks({stage}) : r.stage = stage /\ r.kind = "all" /\ r.cutoff \in 0..MaxMessages
<1>1. OneMarks({stage}) \subseteq OneMarks(OpenMarks) /\ AllMarks({stage}) \subseteq AllMarks(OpenMarks)
    BY DEF OneMarks, AllMarks
<1>2. \A r \in OneMarks({stage}) : r.stage = stage /\ r.kind = "one" /\ r.order \in Orders /\ r.at \in 1..MaxMessages
    BY DEF OneMarks
<1>3. \A r \in AllMarks({stage}) : r.stage = stage /\ r.kind = "all" /\ r.cutoff \in 0..MaxMessages
    BY DEF AllMarks
<1> QED BY <1>1, <1>2, <1>3 DEF Requests

\* A request that goes on to another stage.
LEMMA MarkGoesOn ==
    ASSUME NEW r \in Requests, r.stage \in OpenMarks, NEW s \in OpenMarks, NEW d, d = [r EXCEPT !.stage = s]
    PROVE  /\ d \in Requests /\ d.stage = s /\ d.kind = r.kind
           /\ r.kind = "one" => d.order = r.order /\ d.at = r.at
           /\ r.kind = "all" => d.cutoff = r.cutoff
<1>1. CASE r.kind = "one"
  <2>1. r \in OneMarks({r.stage})
      BY <1>1, RequestIs
  <2>2. d \in OneMarks({s})
      BY <2>1 DEF OneMarks
  <2>3. d.order = r.order /\ d.at = r.at
      BY <2>1 DEF OneMarks
  <2> QED BY <1>1, <2>2, <2>3, MarkIs
<1>2. CASE r.kind = "all"
  <2>1. r \in AllMarks({r.stage})
      BY <1>2, RequestIs
  <2>2. d \in AllMarks({s})
      BY <2>1 DEF AllMarks
  <2>3. d.cutoff = r.cutoff
      BY <2>1 DEF AllMarks
  <2> QED BY <1>2, <2>2, <2>3, MarkIs
<1> QED BY <1>1, <1>2, RequestIs

LEMMA RefetchIs ==
    ASSUME NEW r \in Refetchings
    PROVE  /\ r.stage = "idle" => r = Idle
           /\ r.stage \in {"idle", "asked", "items", "answered"}
           /\ r.stage \in {"items", "answered"} => r.items \in Rows /\ r.crossed \in BOOLEAN
           /\ r.stage = "answered" => r.unread \in Nat
           /\ Crossed(r) \in Refetchings /\ Crossed(r).stage = r.stage
           /\ r = Idle => Crossed(r) = Idle
           /\ Crossed(r) = Idle => r = Idle
           /\ r.stage \in {"items", "answered"} => Crossed(r).crossed /\ Crossed(r).items = r.items
           /\ r.stage = "answered" => Crossed(r).unread = r.unread
<1>1. CASE r = Idle \/ r = [stage |-> "asked"]
    BY <1>1 DEF Idle, Crossed, Refetchings
<1>2. CASE r \in ListsRead
  <2>1. [r EXCEPT !.crossed = TRUE] \in ListsRead
      BY <1>2 DEF ListsRead
  <2> QED BY <1>2, <2>1 DEF Idle, Crossed, Refetchings, ListsRead
<1>3. CASE r \in ListsCounted
  <2>1. [r EXCEPT !.crossed = TRUE] \in ListsCounted
      BY <1>3 DEF ListsCounted
  <2> QED BY <1>3, <2>1 DEF Idle, Crossed, Refetchings, ListsCounted
<1> QED BY <1>1, <1>2, <1>3 DEF Refetchings

LEMMA IdleIs == Idle.stage = "idle" /\ Idle \in Requests /\ Idle \in Refetchings /\ [stage |-> "asked"] \in Refetchings
    BY DEF Idle, Requests, Refetchings

LEMMA AskingIs == Asking.stage = "asking" /\ Asking \in Requests /\ Asking # Idle
    BY DEF Asking, Idle, Requests

\* A row, a row marked, and the rows with one of them changed.
RowTypes == [at : 0..MaxMessages, read : BOOLEAN]
LEMMA RowIs ==
    ASSUME NEW r \in RowTypes
    PROVE  /\ r.at \in 0..MaxMessages /\ r.read \in BOOLEAN
           /\ [r EXCEPT !.read = TRUE] \in RowTypes
           /\ [r EXCEPT !.read = TRUE].at = r.at /\ [r EXCEPT !.read = TRUE].read
    BY DEF RowTypes

LEMMA RowEq ==
    ASSUME NEW r \in RowTypes, NEW s \in RowTypes, r.at = s.at, r.read <=> s.read
    PROVE  r = s
    BY DEF RowTypes

LEMMA RowMade ==
    ASSUME NEW a \in 0..MaxMessages, NEW b \in BOOLEAN, NEW r, r = [at |-> a, read |-> b]
    PROVE  r \in RowTypes /\ r.at = a /\ r.read = b
    BY DEF RowTypes

LEMMA RowsAre ==
    ASSUME NEW items \in Rows
    PROVE  /\ \A o \in Orders : items[o] \in RowTypes
           /\ \A o \in Orders, r \in RowTypes : \A new : new = [items EXCEPT ![o] = r] =>
                new \in Rows /\ new[o] = r /\ \A p \in Orders \ {o} : new[p] = items[p]
    BY DEF Rows, RowTypes

LEMMA RowsWith ==
    ASSUME BellTypes, NEW wrote \in SUBSET Orders, NEW new \in Rows
    PROVE  /\ With(wrote, new) \in Rows
           /\ \A o \in wrote : With(wrote, new)[o] = new[o]
           /\ \A o \in Orders \ wrote : With(wrote, new)[o] = rows[o]
    BY DEF BellTypes, With, Rows

\* Reading the items up to a time.
LEMMA ReadUpToIs ==
    ASSUME NEW items \in Rows, NEW cutoff
    PROVE  /\ ReadUpTo(items, cutoff) \in Rows
           /\ \A o \in Orders : /\ ReadUpTo(items, cutoff)[o].at = items[o].at
                                /\ ReadUpTo(items, cutoff)[o].read <=>
                                     items[o].read \/ items[o].at \in 1..cutoff
<1>1. ASSUME NEW o \in Orders, NEW r, r = IF items[o].at \in 1..cutoff THEN [items[o] EXCEPT !.read = TRUE] ELSE items[o]
      PROVE  r \in RowTypes /\ r.at = items[o].at /\ (r.read <=> items[o].read \/ items[o].at \in 1..cutoff)
  <2>1. items[o] \in RowTypes
      BY RowsAre
  <2> QED BY <1>1, <2>1, RowIs
<1>2. \A o \in Orders : ReadUpTo(items, cutoff)[o] =
                          IF items[o].at \in 1..cutoff THEN [items[o] EXCEPT !.read = TRUE] ELSE items[o]
    BY DEF ReadUpTo
<1>3. \A o \in Orders : /\ ReadUpTo(items, cutoff)[o] \in RowTypes
                        /\ ReadUpTo(items, cutoff)[o].at = items[o].at
                        /\ ReadUpTo(items, cutoff)[o].read <=> items[o].read \/ items[o].at \in 1..cutoff
    BY <1>1, <1>2
<1>4. ReadUpTo(items, cutoff) \in Rows
    BY <1>3 DEF ReadUpTo, Rows, RowTypes
<1> QED BY <1>3, <1>4

LEMMA RowTimes ==
    ASSUME NEW items \in Rows, NEW o \in Orders
    PROVE  items[o].at \in Nat /\ items[o].at \in Int
<1>1. items[o] \in RowTypes
    BY RowsAre
<1>2. items[o].at \in 0..MaxMessages
    BY <1>1, RowIs
<1> QED BY <1>2, NotificationsAssumption

\* The newest rows.
LEMMA NewerIs ==
    ASSUME NEW items, NEW o
    PROVE  IsFiniteSet(Newer(items, o)) /\ Cardinality(Newer(items, o)) \in Nat
<1>1. IsFiniteSet(Newer(items, o))
    BY NotificationsAssumption, FS_Subset DEF Newer
<1> QED BY <1>1, FS_CardinalityType

LEMMA Fewer ==
    ASSUME NEW items, NEW o, NEW few, few \subseteq Newer(items, o), Cardinality(Newer(items, o)) < ListLimit
    PROVE  Cardinality(few) < ListLimit
<1>1. Cardinality(few) <= Cardinality(Newer(items, o)) /\ IsFiniteSet(few)
    BY NewerIs, FS_Subset
<1>2. Cardinality(few) \in Nat /\ Cardinality(Newer(items, o)) \in Nat /\ ListLimit \in Nat
    BY <1>1, NewerIs, FS_CardinalityType, NotificationsAssumption
<1> QED BY <1>1, <1>2

LEMMA NewestIs ==
    ASSUME NEW items \in Rows
    PROVE  /\ Newest(items) \in Rows
           /\ \A o \in Top(items) : o \in Orders /\ Newest(items)[o] = items[o] /\ Newest(items)[o].at > 0
           /\ \A o \in Orders : o \notin Top(items) => Newest(items)[o] = NoActivity
           /\ \A o \in Orders : Newest(items)[o].at <= items[o].at
           /\ \A o \in Orders : Newest(items)[o].at > 0 => o \in Top(items)
           /\ \A o \in Orders : Newest(items)[o].at = 0 => ~Newest(items)[o].read
           /\ \A now : RowsUpTo(items, now) /\ now \in Nat => RowsUpTo(Newest(items), now)
<1>1. NoActivity \in RowTypes /\ NoActivity.at = 0 /\ NoActivity.read = FALSE
    BY NotificationsAssumption DEF NoActivity, RowTypes
<1>2. \A o \in Orders : /\ items[o] \in RowTypes /\ items[o].at \in Nat
                        /\ Newest(items)[o] = IF o \in Top(items) THEN items[o] ELSE NoActivity
  <2>1. \A o \in Orders : items[o].at \in Nat
      BY RowTimes
  <2> QED BY <2>1, RowsAre DEF Newest
<1>3. \A o \in Top(items) : o \in Orders /\ items[o].at > 0
    BY DEF Top
<1>4. Newest(items) \in Rows
    BY <1>1, <1>2 DEF Newest, Rows, RowTypes
<1>5. \A o \in Orders : o \notin Top(items) => Newest(items)[o].at = 0 /\ ~Newest(items)[o].read
    BY <1>1, <1>2
<1>6. \A o \in Top(items) : Newest(items)[o] = items[o]
    BY <1>2, <1>3
<1>7. \A o \in Orders : Newest(items)[o].at <= items[o].at
    BY <1>2, <1>5, <1>6
<1>8. \A now : RowsUpTo(items, now) /\ now \in Nat => RowsUpTo(Newest(items), now)
    BY <1>2, <1>5, <1>6 DEF RowsUpTo
<1> QED BY <1>2, <1>3, <1>4, <1>5, <1>6, <1>7, <1>8

\* As many of the rows that are newer are among the newest.
LEMMA NewestEnough ==
    ASSUME NEW store \in Rows, NEW o \in Orders, store[o].at > 0, o \notin Top(store)
    PROVE  ~(Cardinality({p \in Newer(store, o) : p \in Top(store)}) < ListLimit)
<1> DEFINE few == {p \in Newer(store, o) : p \in Top(store)}
<1>1. \A p \in Orders : store[p].at \in Nat
    BY RowTimes
<1>2. ~(Cardinality(Newer(store, o)) < ListLimit)
    BY DEF Top
<1>3. CASE Newer(store, o) \subseteq Top(store)
  <2>1. few = Newer(store, o)
      BY <1>3
  <2> QED BY <1>2, <2>1
<1>4. CASE ~(Newer(store, o) \subseteq Top(store))
  <2> DEFINE T == {Newer(store, p) : p \in Newer(store, o) \ Top(store)}
  <2>1. T \subseteq SUBSET Orders /\ T # {}
      BY <1>4 DEF Newer
  <2>2. PICK s \in T : \A t \in T : t \subseteq s => t = s
    <3>1. \A U : U \subseteq SUBSET Orders /\ U # {} => \E s \in U : \A t \in U : t \subseteq s => t = s
        BY SmallestSubset, NotificationsAssumption
    <3> HIDE DEF T
    <3> QED BY <2>1, <3>1
  <2>3. PICK p \in Newer(store, o) \ Top(store) : s = Newer(store, p)
      BY <2>2
  <2>4. p \in Orders /\ store[p].at > store[o].at
      BY <2>3 DEF Newer
  <2>5. ASSUME NEW q \in Newer(store, p) PROVE q \in few
    <3>1. q \in Orders /\ store[q].at > store[p].at
        BY DEF Newer
    <3>2. q \in Newer(store, o)
        BY <1>1, <2>4, <3>1 DEF Newer
    <3>3. Newer(store, q) \subseteq Newer(store, p) /\ q \notin Newer(store, q)
        BY <1>1, <2>4, <3>1 DEF Newer
    <3>4. CASE q \notin Top(store)
      <4>1. Newer(store, q) \in T
          BY <3>2, <3>4
      <4>2. Newer(store, q) = Newer(store, p)
          BY <2>2, <2>3, <3>3, <4>1
      <4> QED BY <3>3, <4>2
    <3> QED BY <3>2, <3>4
  <2>6. ~(Cardinality(Newer(store, p)) < ListLimit)
      BY <1>1, <2>3, <2>4 DEF Top
  <2>7. few \subseteq Newer(store, o) /\ IsFiniteSet(few)
      BY NewerIs, FS_Subset
  <2>8. Cardinality(Newer(store, p)) <= Cardinality(few)
      BY <2>5, <2>7, FS_Subset
  <2>9. Cardinality(few) \in Nat /\ Cardinality(Newer(store, p)) \in Nat /\ ListLimit \in Nat
      BY <2>7, NewerIs, FS_CardinalityType, NotificationsAssumption
  <2> QED BY <2>6, <2>8, <2>9
<1> QED BY <1>3, <1>4

\* What the events say.
LEMMA BodyIs ==
    ASSUME NEW b \in Bodies
    PROVE  /\ b.kind \in {"updated", "read-all"} /\ b.unread \in Nat
           /\ b.kind = "updated" => b.order \in Orders /\ b.at \in 1..MaxMessages /\ b.read \in BOOLEAN
           /\ b.kind = "read-all" => b.cutoff \in 0..MaxMessages
    BY DEF Bodies

LEMMA UpdatedIs ==
    ASSUME NEW o \in Orders, NEW r \in RowTypes, r.at > 0, NEW n \in Nat
    PROVE  /\ Updated(o, r, n) \in Bodies /\ Updated(o, r, n).kind = "updated" /\ Updated(o, r, n).order = o
           /\ Updated(o, r, n).at = r.at /\ Updated(o, r, n).read = r.read /\ Updated(o, r, n).unread = n
<1>0. r.at \in 0..MaxMessages /\ r.read \in BOOLEAN
    BY RowIs
<1>1. r.at \in 1..MaxMessages /\ r.read \in BOOLEAN
    BY <1>0, NotificationsAssumption
<1>2. \A a \in 1..MaxMessages, b \in BOOLEAN : LET d == [kind |-> "updated", order |-> o, at |-> a, read |-> b, unread |-> n] IN
        d \in Bodies /\ d.kind = "updated" /\ d.order = o /\ d.at = a /\ d.read = b /\ d.unread = n
    BY DEF Bodies
<1> QED BY <1>1, <1>2 DEF Updated

ReadAll(cutoff, n) == [kind |-> "read-all", cutoff |-> cutoff, unread |-> n]
LEMMA ReadAllIs ==
    ASSUME NEW c \in 0..MaxMessages, NEW n \in Nat
    PROVE  /\ ReadAll(c, n) \in Bodies /\ ReadAll(c, n).kind = "read-all"
           /\ ReadAll(c, n).cutoff = c /\ ReadAll(c, n).unread = n
    BY DEF Bodies, ReadAll

-------------------------------------------------------------------------------
\* What each kind of step does to the events.
Writing(w, wrote, new, e) == [stage |-> "open", wrote |-> wrote, new |-> new, event |-> e]
LEMMA WritingIs ==
    ASSUME NEW wrote \in SUBSET Orders, NEW new \in Rows, NEW e \in Nat, NEW w
    PROVE  /\ Writing(w, wrote, new, e) \in Writes /\ Writing(w, wrote, new, e) # Idle
           /\ Writing(w, wrote, new, e).wrote = wrote /\ Writing(w, wrote, new, e).new = new
           /\ Writing(w, wrote, new, e).event = e /\ Writing(w, wrote, new, e).stage = "open"
<1>1. Writing(w, wrote, new, e) \in Writes /\ Writing(w, wrote, new, e).stage = "open"
    BY DEF Writes, Writing
<1>2. Idle.stage = "idle"
    BY IdleIs
<1> QED BY <1>1, <1>2 DEF Writing

LEMMA WriterIs ==
    ASSUME BellTypes, NEW w \in Writers, Open(w)
    PROVE  /\ writing[w].wrote \in SUBSET Orders /\ writing[w].new \in Rows
           /\ writing[w].event \in Nat /\ writing[w].stage = "open"
    BY DEF BellTypes, Open, Writes

\* A transaction begins: one more event, not yet visible.
LEMMA WriteBegins ==
    ASSUME BellTypes, NEW w \in Writers, NEW wrote \in SUBSET Orders, NEW new \in Rows, NEW b \in Bodies,
           BeginWrite(w, wrote, new, b)
    PROVE  /\ outbox' \in Seq(Entries) /\ Len(outbox') = Len(outbox) + 1 /\ Len(outbox) \in Nat
           /\ DOMAIN outbox = 1..Len(outbox) /\ DOMAIN outbox' = 1..Len(outbox) + 1
           /\ \A k \in DOMAIN outbox : outbox'[k] = outbox[k]
           /\ outbox'[Len(outbox) + 1].body = b /\ outbox'[Len(outbox) + 1].status = "OPEN"
           /\ outbox'[Len(outbox) + 1].attempts = 0
           /\ ~outbox'[Len(outbox) + 1].waiting /\ ~outbox'[Len(outbox) + 1].handed
           /\ writing' \in [Writers -> Writes \cup {Idle}]
           /\ ~Open(w) /\ Open(w)' /\ \A v \in Writers \ {w} : writing'[v] = writing[v]
           /\ writing'[w].wrote = wrote /\ writing'[w].new = new
           /\ writing'[w].event = Len(outbox) + 1
           /\ \A o \in wrote : ~Locked(o)
           /\ wire' \in Seq(DOMAIN outbox') /\ batch' \subseteq DOMAIN outbox'
           /\ skewed' = IF SomeOpen THEN skewed \cup {"count"} ELSE skewed
           /\ UNCHANGED <<rows, batch, handing, link, wire, bell, refetch, marked, faults>>
<1>1. outbox' = Append(outbox, Outgoing(b))
    BY DEF BeginWrite
<1>2. PICK grown : grown = outbox'
    OBVIOUS
<1>3. /\ grown \in Seq(Entries) /\ Len(grown) = Len(outbox) + 1 /\ Len(outbox) \in Nat
      /\ DOMAIN outbox = 1..Len(outbox) /\ DOMAIN grown = 1..Len(outbox) + 1
      /\ \A k \in DOMAIN outbox : grown[k] = outbox[k]
      /\ grown[Len(outbox) + 1] = Outgoing(b)
    BY <1>1, <1>2, OutboxGrows
<1>4. /\ outbox' \in Seq(Entries) /\ Len(outbox') = Len(outbox) + 1 /\ Len(outbox) \in Nat
      /\ DOMAIN outbox = 1..Len(outbox) /\ DOMAIN outbox' = 1..Len(outbox) + 1
      /\ \A k \in DOMAIN outbox : outbox'[k] = outbox[k]
      /\ outbox'[Len(outbox) + 1] = Outgoing(b)
    BY <1>2, <1>3, Zenon
<1>5. /\ outbox'[Len(outbox) + 1].body = b /\ outbox'[Len(outbox) + 1].status = "OPEN"
      /\ outbox'[Len(outbox) + 1].attempts = 0
      /\ ~outbox'[Len(outbox) + 1].waiting /\ ~outbox'[Len(outbox) + 1].handed
    BY <1>4, OutgoingIs, Zenon
<1>6. PICK x : x = Writing(w, wrote, new, Len(outbox) + 1)
    OBVIOUS
<1>7. x \in Writes /\ x # Idle /\ x.wrote = wrote /\ x.new = new /\ x.event = Len(outbox) + 1
    BY <1>4, <1>6, WritingIs
<1>8. writing \in [Writers -> Writes \cup {Idle}] /\ writing' = [writing EXCEPT ![w] = x]
    BY <1>6 DEF BeginWrite, BellTypes, Writing
<1>9. /\ writing' \in [Writers -> Writes \cup {Idle}] /\ writing'[w] = x
      /\ \A v \in Writers \ {w} : writing'[v] = writing[v]
    BY <1>7, <1>8
<1>10. ~Open(w) /\ Open(w)' /\ writing'[w].wrote = wrote /\ writing'[w].new = new
       /\ writing'[w].event = Len(outbox) + 1
    BY <1>7, <1>9 DEF BeginWrite, Open
<1>11. /\ UNCHANGED <<rows, batch, handing, link, wire, bell, refetch, marked, faults>>
       /\ skewed' = IF SomeOpen THEN skewed \cup {"count"} ELSE skewed
       /\ \A o \in wrote : ~Locked(o)
    BY DEF BeginWrite, dispatcherVars, shownVars
<1>12. batch' \subseteq DOMAIN outbox' /\ DOMAIN outbox \subseteq DOMAIN outbox'
    BY <1>4, <1>11 DEF BellTypes
<1>13. wire' \in Seq(DOMAIN outbox')
    BY <1>11, <1>12, SeqMonotonic DEF BellTypes
<1> QED BY <1>4, <1>5, <1>9, <1>10, <1>11, <1>12, <1>13, Zenon

\* The transactions that begin.
LEMMA MessageBegins ==
    ASSUME BellTypes, NEW w \in Senders, NEW o \in Orders, SendMessage(w, o)
    PROVE  \E new \in Rows, b \in Bodies :
             /\ BeginWrite(w, {o}, new, b) /\ w \in Writers /\ {o} \in SUBSET Orders /\ w # Reader
             /\ \A p \in Orders \ {o} : new[p] = rows[p]
             /\ new[o].at = clock + 1 /\ new[o].read = FALSE
             /\ b.kind = "updated" /\ b.order = o /\ b.at = clock + 1 /\ b.read = FALSE /\ b.unread = Unread(new)
             /\ clock \in Nat /\ clock' = clock + 1 /\ clock' \in 0..MaxMessages /\ UNCHANGED request
<1>1. /\ clock < MaxMessages /\ clock' = clock + 1 /\ clock \in 0..MaxMessages /\ UNCHANGED request
      /\ rows \in Rows /\ w # Reader /\ w \in Writers
    BY DEF SendMessage, BellTypes, Writers
<1>2. clock \in Nat /\ clock + 1 \in 0..MaxMessages /\ clock + 1 > 0
    BY <1>1, NotificationsAssumption
<1>3. PICK row : row = [at |-> clock + 1, read |-> FALSE]
    OBVIOUS
<1>4. row \in RowTypes /\ row.at = clock + 1 /\ row.read = FALSE
    BY <1>2, <1>3, RowMade
<1>5. PICK new : new = [rows EXCEPT ![o] = row]
    OBVIOUS
<1>0. rows \in Rows /\ row \in RowTypes
    BY <1>1, <1>4
<1>6. new \in Rows /\ new[o] = row /\ \A p \in Orders \ {o} : new[p] = rows[p]
  <2>1. new \in Rows
      BY <1>0, <1>5, RowsAre
  <2>2. new[o] = row
      BY <1>0, <1>5, RowsAre
  <2>3. \A p \in Orders \ {o} : new[p] = rows[p]
      BY <1>0, <1>5, RowsAre
  <2> QED BY <2>1, <2>2, <2>3, Zenon
<1>7. PICK b : b = Updated(o, row, Unread(new))
    OBVIOUS
<1>8. /\ b \in Bodies /\ b.kind = "updated" /\ b.order = o /\ b.at = clock + 1
      /\ b.read = FALSE /\ b.unread = Unread(new)
    BY <1>2, <1>4, <1>7, UpdatedIs, UnreadIsNat
<1>9. BeginWrite(w, {o}, new, b)
    BY <1>3, <1>5, <1>7, Zenon DEF SendMessage
<1> QED BY <1>1, <1>2, <1>4, <1>6, <1>8, <1>9

LEMMA MarkBegins ==
    ASSUME BellTypes, MarkRead
    PROVE  \E new \in Rows, b \in Bodies, o \in Orders :
             /\ BeginWrite(Reader, {o}, new, b) /\ Reader \in Writers /\ {o} \in SUBSET Orders
             /\ \A p \in Orders \ {o} : new[p] = rows[p]
             /\ new[o].at = rows[o].at /\ new[o].read = TRUE
             /\ b.kind = "updated" /\ b.order = o /\ b.at = rows[o].at /\ b.read = TRUE /\ b.unread = Unread(new)
             /\ request.stage = "sent" /\ request.kind = "one" /\ request.order = o /\ request.at = rows[o].at
             /\ request' \in Requests /\ request'.stage = "open" /\ request'.kind = "one"
             /\ request'.order = o /\ request'.at = request.at /\ UNCHANGED clock
<1>1. /\ request \in Requests /\ request.stage = "sent" /\ request.kind = "one" /\ rows \in Rows
      /\ rows[request.order].at = request.at /\ UNCHANGED clock
      /\ request' = [request EXCEPT !.stage = "open"]
    BY DEF MarkRead, BellTypes, Expected
<1>2. PICK o : o = request.order
    OBVIOUS
<1>3. o \in Orders /\ request.at \in 1..MaxMessages /\ rows[o].at = request.at
      /\ "sent" \in OpenMarks /\ "open" \in OpenMarks
    BY <1>1, <1>2, RequestIs DEF OpenMarks
<1>4. PICK d : d = request'
    OBVIOUS
<1>5. d \in Requests /\ d.stage = "open" /\ d.kind = "one" /\ d.order = o /\ d.at = request.at
    BY <1>1, <1>2, <1>3, <1>4, MarkGoesOn
<1>6. PICK row : row = [rows[o] EXCEPT !.read = TRUE]
    OBVIOUS
<1>7. row \in RowTypes /\ row.at = rows[o].at /\ row.read = TRUE
    BY <1>1, <1>3, <1>6, RowsAre, RowIs
<1>8. PICK new : new = [rows EXCEPT ![o] = row]
    OBVIOUS
<1>0. rows \in Rows /\ row \in RowTypes /\ o \in Orders
    BY <1>1, <1>3, <1>7
<1>9. new \in Rows /\ new[o] = row /\ \A p \in Orders \ {o} : new[p] = rows[p]
  <2>1. new \in Rows
      BY <1>0, <1>8, RowsAre
  <2>2. new[o] = row
      BY <1>0, <1>8, RowsAre
  <2>3. \A p \in Orders \ {o} : new[p] = rows[p]
      BY <1>0, <1>8, RowsAre
  <2> QED BY <2>1, <2>2, <2>3, Zenon
<1>10. PICK b : b = Updated(o, row, Unread(new))
    OBVIOUS
<1>11. row.at > 0
    BY <1>3, <1>7
<1>12. /\ b \in Bodies /\ b.kind = "updated" /\ b.order = o /\ b.at = rows[o].at
       /\ b.read = TRUE /\ b.unread = Unread(new)
    BY <1>3, <1>7, <1>10, <1>11, UpdatedIs, UnreadIsNat
<1>13. BeginWrite(Reader, {o}, new, b)
    BY <1>2, <1>6, <1>8, <1>10, Zenon DEF MarkRead
<1>14. Reader \in Writers /\ {o} \in SUBSET Orders
    BY <1>3 DEF Writers
<1> QED BY <1>1, <1>2, <1>3, <1>4, <1>5, <1>7, <1>9, <1>12, <1>13, <1>14

LEMMA MarkAllBegins ==
    ASSUME BellTypes, MarkAllRead
    PROVE  \E new \in Rows, b \in Bodies, cutoff \in 0..MaxMessages :
             /\ BeginWrite(Reader, UpTo(cutoff), new, b) /\ Reader \in Writers /\ UpTo(cutoff) \in SUBSET Orders
             /\ \A p \in Orders : new[p].at = rows[p].at /\ new[p].read = TRUE
             /\ b.kind = "read-all" /\ b.cutoff = cutoff /\ b.unread = Unread(With(UpTo(cutoff), new))
             /\ request.stage = "sent" /\ request.kind = "all" /\ request.cutoff = cutoff
             /\ request' \in Requests /\ request'.stage = "open" /\ request'.kind = "all"
             /\ request'.cutoff = cutoff /\ UNCHANGED clock
<1>1. /\ request \in Requests /\ request.stage = "sent" /\ request.kind = "all" /\ rows \in Rows
      /\ UNCHANGED clock
      /\ request' = [request EXCEPT !.stage = "open"]
    BY DEF MarkAllRead, BellTypes
<1>2. PICK cutoff : cutoff = request.cutoff
    OBVIOUS
<1>3. cutoff \in 0..MaxMessages /\ "sent" \in OpenMarks /\ "open" \in OpenMarks
    BY <1>1, <1>2, RequestIs DEF OpenMarks
<1>4. PICK d : d = request'
    OBVIOUS
<1>5. d \in Requests /\ d.stage = "open" /\ d.kind = "all" /\ d.cutoff = cutoff
    BY <1>1, <1>2, <1>3, <1>4, MarkGoesOn
<1>6. PICK new : new = [o \in Orders |-> [rows[o] EXCEPT !.read = TRUE]]
    OBVIOUS
<1>7. \A o \in Orders : new[o] \in RowTypes /\ new[o].at = rows[o].at /\ new[o].read = TRUE
    BY <1>1, <1>6, RowsAre, RowIs
<1>8. new \in Rows
    BY <1>6, <1>7 DEF Rows, RowTypes
<1>9. PICK b : b = ReadAll(cutoff, Unread(With(UpTo(cutoff), new)))
    OBVIOUS
<1>10. b \in Bodies /\ b.kind = "read-all" /\ b.cutoff = cutoff /\ b.unread = Unread(With(UpTo(cutoff), new))
    BY <1>3, <1>9, ReadAllIs, UnreadIsNat
<1>11. BeginWrite(Reader, UpTo(cutoff), new, b)
    BY <1>2, <1>6, <1>9, Zenon DEF MarkAllRead, ReadAll
<1>12. Reader \in Writers /\ UpTo(cutoff) \in SUBSET Orders
    BY DEF Writers, UpTo
<1> QED BY <1>1, <1>2, <1>3, <1>4, <1>5, <1>7, <1>8, <1>10, <1>11, <1>12

-------------------------------------------------------------------------------
\* One entry changes, in some of its parts.
OneChanges(i, parts) ==
    /\ outbox' \in Seq(Entries) /\ DOMAIN outbox' = DOMAIN outbox /\ Len(outbox') = Len(outbox)
    /\ i \in DOMAIN outbox /\ SameBut(outbox[i], outbox'[i], parts)
    /\ \A k \in DOMAIN outbox : k # i => outbox'[k] = outbox[k]

LEMMA EntryOf == ASSUME BellTypes, NEW i \in DOMAIN outbox PROVE outbox[i] \in Entries
    BY ElementOfSeq, LenProperties DEF BellTypes

LEMMA OneChangesIs ==
    ASSUME BellTypes, NEW i \in DOMAIN outbox, NEW e \in Entries, NEW parts,
           SameBut(outbox[i], e, parts), outbox' = [outbox EXCEPT ![i] = e]
    PROVE  OneChanges(i, parts) /\ outbox'[i] = e
<1>1. PICK changed : changed = outbox'
    OBVIOUS
<1>2. /\ changed \in Seq(Entries) /\ DOMAIN changed = DOMAIN outbox /\ Len(changed) = Len(outbox)
      /\ changed[i] = e /\ \A k \in DOMAIN outbox : k # i => changed[k] = outbox[k]
    BY <1>1, OutboxChanges
<1> QED BY <1>1, <1>2, Zenon DEF OneChanges

LEMMA HandleDoes ==
    ASSUME BellTypes, Handle
    PROVE  /\ OneChanges(Turn, {"handed"}) /\ outbox'[Turn].handed = TRUE
           /\ Turn \in batch /\ \A k \in batch : Turn <= k
<1>1. batch # {} /\ outbox' = [outbox EXCEPT ![Turn].handed = TRUE]
    BY DEF Handle
<1>2. Turn \in batch /\ Turn \in DOMAIN outbox /\ \A k \in batch : Turn <= k
    BY <1>1, TurnIs
<1>3. PICK i : i = Turn
    OBVIOUS
<1>4. outbox[i] \in Entries /\ i \in DOMAIN outbox
    BY <1>2, <1>3, EntryOf
<1>5. PICK e : e = [outbox[i] EXCEPT !.handed = TRUE]
    OBVIOUS
<1>6. SameBut(outbox[i], e, {"handed"}) /\ e.handed = TRUE /\ e \in Entries
    BY <1>4, <1>5, EntryChanged DEF SameBut
<1>7. outbox' = [outbox EXCEPT ![i] = e]
    BY <1>1, <1>3, <1>5
<1>8. OneChanges(i, {"handed"}) /\ outbox'[i] = e
    BY <1>4, <1>6, <1>7, OneChangesIs
<1> QED BY <1>2, <1>3, <1>6, <1>8

LEMMA PublishDoes ==
    ASSUME BellTypes, MarkPublished
    PROVE  /\ OneChanges(Turn, {"status"}) /\ outbox'[Turn].status = "PUBLISHED"
           /\ Turn \in batch /\ \A k \in batch : Turn <= k
<1>1. batch # {} /\ outbox' = [outbox EXCEPT ![Turn].status = "PUBLISHED"]
    BY DEF MarkPublished
<1>2. Turn \in batch /\ Turn \in DOMAIN outbox /\ \A k \in batch : Turn <= k
    BY <1>1, TurnIs
<1>3. PICK i : i = Turn
    OBVIOUS
<1>4. outbox[i] \in Entries /\ i \in DOMAIN outbox
    BY <1>2, <1>3, EntryOf
<1>5. PICK e : e = [outbox[i] EXCEPT !.status = "PUBLISHED"]
    OBVIOUS
<1>6. SameBut(outbox[i], e, {"status"}) /\ e.status = "PUBLISHED" /\ e \in Entries
  <2>1. "PUBLISHED" \in Statuses
      BY DEF Statuses
  <2> QED BY <1>4, <1>5, <2>1, EntryChanged DEF SameBut
<1>7. outbox' = [outbox EXCEPT ![i] = e]
    BY <1>1, <1>3, <1>5
<1>8. OneChanges(i, {"status"}) /\ outbox'[i] = e
    BY <1>4, <1>6, <1>7, OneChangesIs
<1> QED BY <1>2, <1>3, <1>6, <1>8

LEMMA BackoffDoes ==
    ASSUME BellTypes, NEW i \in DOMAIN outbox, BackoffEnds(i)
    PROVE  OneChanges(i, {"waiting"}) /\ outbox'[i].waiting = FALSE
<1>1. outbox[i] \in Entries /\ outbox' = [outbox EXCEPT ![i].waiting = FALSE]
    BY EntryOf DEF BackoffEnds
<1>2. PICK e : e = [outbox[i] EXCEPT !.waiting = FALSE]
    OBVIOUS
<1>3. SameBut(outbox[i], e, {"waiting"}) /\ e.waiting = FALSE /\ e \in Entries
    BY <1>1, <1>2, EntryChanged DEF SameBut
<1>4. outbox' = [outbox EXCEPT ![i] = e]
    BY <1>1, <1>2
<1>5. OneChanges(i, {"waiting"}) /\ outbox'[i] = e
    BY <1>3, <1>4, OneChangesIs
<1> QED BY <1>3, <1>5

\* A failure is given up, or tried again.
LEMMA FailureDoes ==
    ASSUME BellTypes, HandleFailure
    PROVE  /\ OneChanges(Turn, {"status", "attempts", "waiting"})
           /\ outbox'[Turn].attempts = outbox[Turn].attempts + 1
           /\ GivesUp(outbox[Turn].attempts + 1) =>
                outbox'[Turn].status = "FAILED" /\ outbox'[Turn].waiting = outbox[Turn].waiting
           /\ ~GivesUp(outbox[Turn].attempts + 1) =>
                outbox'[Turn].status = outbox[Turn].status /\ outbox'[Turn].waiting = TRUE
           /\ Turn \in batch /\ \A k \in batch : Turn <= k
<1>1. /\ batch # {}
      /\ outbox' = [outbox EXCEPT ![Turn] =
            IF GivesUp(outbox[Turn].attempts + 1)
            THEN [outbox[Turn] EXCEPT !.attempts = outbox[Turn].attempts + 1, !.status = "FAILED"]
            ELSE [outbox[Turn] EXCEPT !.attempts = outbox[Turn].attempts + 1, !.waiting = TRUE]]
    BY DEF HandleFailure
<1>2. Turn \in batch /\ Turn \in DOMAIN outbox /\ \A k \in batch : Turn <= k
    BY <1>1, TurnIs
<1>3. PICK i : i = Turn
    OBVIOUS
<1>4. outbox[i] \in Entries /\ i \in DOMAIN outbox
    BY <1>2, <1>3, EntryOf
<1>5. PICK n : n = outbox[i].attempts + 1
    OBVIOUS
<1>6. n \in Nat /\ "FAILED" \in Statuses
    BY <1>4, <1>5, EntryIs DEF Statuses
<1>7. CASE GivesUp(n)
  <2>1. PICK d : d = [outbox[i] EXCEPT !.attempts = n]
      OBVIOUS
  <2>2. SameBut(outbox[i], d, {"attempts"}) /\ d.attempts = n /\ d \in Entries
      BY <1>4, <1>6, <2>1, EntryChanged DEF SameBut
  <2>3. PICK e : e = [d EXCEPT !.status = "FAILED"]
      OBVIOUS
  <2>4. SameBut(d, e, {"status"}) /\ e.status = "FAILED" /\ e \in Entries
      BY <1>6, <2>2, <2>3, EntryChanged DEF SameBut
  <2>5. e.attempts = n /\ e.waiting = outbox[i].waiting /\ SameBut(outbox[i], e, {"status", "attempts", "waiting"})
      BY <2>2, <2>4 DEF SameBut
  <2>6. outbox' = [outbox EXCEPT ![i] = e]
      BY <1>1, <1>3, <1>5, <1>7, <2>1, <2>3
  <2>7. OneChanges(i, {"status", "attempts", "waiting"}) /\ outbox'[i] = e
      BY <1>4, <2>4, <2>5, <2>6, OneChangesIs
  <2> QED BY <1>2, <1>3, <1>5, <1>7, <2>4, <2>5, <2>7
<1>8. CASE ~GivesUp(n)
  <2>1. PICK d : d = [outbox[i] EXCEPT !.attempts = n]
      OBVIOUS
  <2>2. SameBut(outbox[i], d, {"attempts"}) /\ d.attempts = n /\ d \in Entries
      BY <1>4, <1>6, <2>1, EntryChanged DEF SameBut
  <2>3. PICK e : e = [d EXCEPT !.waiting = TRUE]
      OBVIOUS
  <2>4. SameBut(d, e, {"waiting"}) /\ e.waiting = TRUE /\ e \in Entries
      BY <2>2, <2>3, EntryChanged DEF SameBut
  <2>5. e.attempts = n /\ e.status = outbox[i].status /\ SameBut(outbox[i], e, {"status", "attempts", "waiting"})
      BY <2>2, <2>4 DEF SameBut
  <2>6. outbox' = [outbox EXCEPT ![i] = e]
      BY <1>1, <1>3, <1>5, <1>8, <2>1, <2>3
  <2>7. OneChanges(i, {"status", "attempts", "waiting"}) /\ outbox'[i] = e
      BY <1>4, <2>4, <2>5, <2>6, OneChangesIs
  <2> QED BY <1>2, <1>3, <1>5, <1>8, <2>4, <2>5, <2>7
<1> QED BY <1>7, <1>8

LEMMA CommitDoes ==
    ASSUME BellTypes, WritersOK, NEW w \in Writers, Commit(w)
    PROVE  /\ OneChanges(writing[w].event, {"status"}) /\ outbox'[writing[w].event].status = "PENDING"
           /\ Open(w) /\ outbox[writing[w].event].status = "OPEN"
           /\ writing' \in [Writers -> Writes \cup {Idle}] /\ ~Open(w)'
           /\ \A v \in Writers \ {w} : writing'[v] = writing[v]
           /\ rows' = With(writing[w].wrote, writing[w].new) /\ rows' \in Rows
           /\ \A o \in writing[w].wrote : rows'[o] = writing[w].new[o]
           /\ \A o \in Orders \ writing[w].wrote : rows'[o] = rows[o]
<1>1. /\ Open(w) /\ outbox' = [outbox EXCEPT ![writing[w].event].status = "PENDING"]
      /\ writing' = [writing EXCEPT ![w] = Idle]
      /\ rows' = With(writing[w].wrote, writing[w].new)
    BY DEF Commit, CommitWrite, Open
<1>2. PICK i : i = writing[w].event
    OBVIOUS
<1>3. i \in DOMAIN outbox /\ outbox[i].status = "OPEN"
    BY <1>1, <1>2 DEF WritersOK
<1>4. outbox[i] \in Entries
    BY <1>3, EntryOf
<1>5. PICK e : e = [outbox[i] EXCEPT !.status = "PENDING"]
    OBVIOUS
<1>6. SameBut(outbox[i], e, {"status"}) /\ e.status = "PENDING" /\ e \in Entries
  <2>1. "PENDING" \in Statuses
      BY DEF Statuses
  <2> QED BY <1>4, <1>5, <2>1, EntryChanged DEF SameBut
<1>7. outbox' = [outbox EXCEPT ![i] = e]
    BY <1>1, <1>2, <1>5
<1>8. OneChanges(i, {"status"}) /\ outbox'[i] = e
    BY <1>3, <1>6, <1>7, OneChangesIs
<1>9. writing \in [Writers -> Writes \cup {Idle}]
    BY DEF BellTypes
<1>10. writing' \in [Writers -> Writes \cup {Idle}] /\ writing'[w] = Idle /\ \A v \in Writers \ {w} : writing'[v] = writing[v]
    BY <1>1, <1>9
<1>11. writing[w].wrote \in SUBSET Orders /\ writing[w].new \in Rows
    BY <1>1, WriterIs
<1>12. /\ With(writing[w].wrote, writing[w].new) \in Rows
       /\ \A o \in writing[w].wrote : With(writing[w].wrote, writing[w].new)[o] = writing[w].new[o]
       /\ \A o \in Orders \ writing[w].wrote : With(writing[w].wrote, writing[w].new)[o] = rows[o]
    BY <1>11, RowsWith
<1>13. ~Open(w)'
    BY <1>10 DEF Open
<1>14. OneChanges(writing[w].event, {"status"}) /\ outbox'[writing[w].event].status = "PENDING" /\ outbox[writing[w].event].status = "OPEN"
    BY <1>2, <1>3, <1>6, <1>8
<1> QED BY <1>1, <1>10, <1>12, <1>13, <1>14, Zenon

LEMMA CrashDoes ==
    ASSUME BellTypes, Crash
    PROVE  /\ outbox' \in Seq(Entries) /\ DOMAIN outbox' = DOMAIN outbox /\ Len(outbox') = Len(outbox)
           /\ \A k \in DOMAIN outbox :
                /\ SameBut(outbox[k], outbox'[k], {"status"})
                /\ outbox[k].status = "OPEN" => outbox'[k].status = "GONE"
                /\ outbox[k].status # "OPEN" => outbox'[k] = outbox[k]
           /\ \A w \in Writers : ~Open(w)'
           /\ writing' \in [Writers -> Writes \cup {Idle}]
<1>1. /\ outbox' = [i \in DOMAIN outbox |->
                    IF outbox[i].status = "OPEN" THEN [outbox[i] EXCEPT !.status = "GONE"] ELSE outbox[i]]
      /\ writing' = [w \in Writers |-> Idle]
    BY DEF Crash
<1>2. DOMAIN outbox = 1..Len(outbox) /\ Len(outbox) \in Nat
    BY LenProperties DEF BellTypes
<1>3. ASSUME NEW k \in DOMAIN outbox
      PROVE  /\ SameBut(outbox[k], outbox'[k], {"status"})
             /\ outbox[k].status = "OPEN" => outbox'[k].status = "GONE"
             /\ outbox[k].status # "OPEN" => outbox'[k] = outbox[k]
             /\ outbox'[k] \in Entries
  <2>1. outbox[k] \in Entries /\ "GONE" \in Statuses
      BY EntryOf DEF Statuses
  <2>2. PICK e : e = [outbox[k] EXCEPT !.status = "GONE"]
      OBVIOUS
  <2>3. SameBut(outbox[k], e, {"status"}) /\ e.status = "GONE" /\ e \in Entries
      BY <2>1, <2>2, EntryChanged DEF SameBut
  <2>4. outbox'[k] = IF outbox[k].status = "OPEN" THEN e ELSE outbox[k]
      BY <1>1, <2>2
  <2> QED BY <2>1, <2>3, <2>4 DEF SameBut
<1>4. outbox' \in Seq(Entries) /\ DOMAIN outbox' = DOMAIN outbox /\ Len(outbox') = Len(outbox)
  <2>1. PICK f : f = outbox'
      OBVIOUS
  <2>2. f = [i \in 1..Len(outbox) |-> f[i]] /\ \A i \in 1..Len(outbox) : f[i] \in Entries
      BY <1>1, <1>2, <1>3, <2>1
  <2>3. f \in Seq(Entries) /\ Len(f) = Len(outbox)
      BY <1>2, <2>2, IsASeq
  <2>4. DOMAIN f = DOMAIN outbox
      BY <1>1, <2>1
  <2> QED BY <2>1, <2>3, <2>4
<1>5. \A w \in Writers : ~Open(w)'
    BY <1>1 DEF Open
<1>6. writing' \in [Writers -> Writes \cup {Idle}]
    BY <1>1
<1> QED BY <1>3, <1>4, <1>5, <1>6

-------------------------------------------------------------------------------
\* The parts of the state keep their types.
LEMMA RowsStart == [o \in Orders |-> NoActivity] \in Rows
<1>1. NoActivity = [at |-> 0, read |-> FALSE] /\ 0 \in 0..MaxMessages /\ FALSE \in BOOLEAN
    BY NotificationsAssumption DEF NoActivity
<1>2. NoActivity \in RowTypes
    BY <1>1, RowMade
<1> QED BY <1>2 DEF Rows, RowTypes

LEMMA TypesStart == NotificationsInit => BellTypes
<1> SUFFICES ASSUME NotificationsInit PROVE BellTypes
    OBVIOUS
<1>1. /\ clock = 0 /\ faults = 0 /\ rows = [o \in Orders |-> NoActivity]
      /\ outbox = <<>> /\ batch = {} /\ handing = FALSE /\ wire = <<>>
      /\ writing = [w \in Writers |-> Idle] /\ link = "loading"
      /\ bell = [items |-> rows, unread |-> 0] /\ refetch = Idle /\ request = Idle
      /\ marked = [o \in Orders |-> 0] /\ skewed = {}
    BY DEF NotificationsInit
<1>2. clock \in 0..MaxMessages /\ faults \in 0..MaxFaults /\ marked \in [Orders -> 0..MaxMessages]
    BY <1>1, NotificationsAssumption
<1>3. rows \in Rows
    BY <1>1, RowsStart
<1>4. outbox \in Seq(Entries) /\ wire \in Seq(DOMAIN outbox) /\ batch \subseteq DOMAIN outbox
    BY <1>1, EmptySeq
<1>5. bell \in [items : Rows, unread : Nat]
    BY <1>1, <1>3
<1>6. writing \in [Writers -> Writes \cup {Idle}]
    BY <1>1
<1>7. handing \in BOOLEAN /\ link \in {"loading", "joining", "up", "down"}
      /\ skewed \subseteq {"count", "order", "gap", "snapshot", "answer"}
    BY <1>1
<1>8. refetch \in Refetchings /\ request \in Requests
    BY <1>1, IdleIs
<1> QED BY <1>2, <1>3, <1>4, <1>5, <1>6, <1>7, <1>8 DEF BellTypes

LEMMA BeginTypes ==
    ASSUME BellTypes, NEW w \in Writers, NEW wrote \in SUBSET Orders, NEW new \in Rows, NEW b \in Bodies,
           BeginWrite(w, wrote, new, b), clock' \in 0..MaxMessages, request' \in Requests
    PROVE  BellTypes'
<1>1. /\ outbox' \in Seq(Entries) /\ writing' \in [Writers -> Writes \cup {Idle}]
      /\ wire' \in Seq(DOMAIN outbox') /\ batch' \subseteq DOMAIN outbox'
      /\ skewed' = IF SomeOpen THEN skewed \cup {"count"} ELSE skewed
      /\ UNCHANGED <<rows, batch, handing, link, wire, bell, refetch, marked, faults>>
    BY WriteBegins
<1>2. skewed' \subseteq {"count", "order", "gap", "snapshot", "answer"}
    BY <1>1 DEF BellTypes
<1> QED BY <1>1, <1>2 DEF BellTypes

LEMMA WriterTypes ==
    ASSUME BellTypes
    PROVE  /\ \A w \in Senders, o \in Orders : SendMessage(w, o) => BellTypes'
           /\ MarkRead => BellTypes'
           /\ MarkAllRead => BellTypes'
<1>1. ASSUME NEW w \in Senders, NEW o \in Orders, SendMessage(w, o) PROVE BellTypes'
  <2>1. request \in Requests
      BY DEF BellTypes
  <2> QED BY <1>1, <2>1, MessageBegins, BeginTypes
<1>2. ASSUME MarkRead PROVE BellTypes'
  <2>1. clock \in 0..MaxMessages
      BY DEF BellTypes
  <2> QED BY <1>2, <2>1, MarkBegins, BeginTypes
<1>3. ASSUME MarkAllRead PROVE BellTypes'
  <2>1. clock \in 0..MaxMessages
      BY DEF BellTypes
  <2>2. PICK new \in Rows, b \in Bodies, cutoff \in 0..MaxMessages :
           /\ BeginWrite(Reader, UpTo(cutoff), new, b) /\ Reader \in Writers /\ UpTo(cutoff) \in SUBSET Orders
           /\ request' \in Requests /\ UNCHANGED clock
      BY <1>3, MarkAllBegins
  <2> QED BY <2>1, <2>2, BeginTypes
<1> QED BY <1>1, <1>2, <1>3

LEMMA CommitTypes ==
    ASSUME BellTypes, WritersOK, NEW w \in Writers, Commit(w)
    PROVE  /\ BellTypes'
           /\ w # Reader => request' = request
           /\ w = Reader => /\ request.stage = "open" /\ request'.stage = "done" /\ request'.of = request
                            /\ request'.event = writing[w].event
<1>1. /\ OneChanges(writing[w].event, {"status"})
      /\ writing' \in [Writers -> Writes \cup {Idle}] /\ rows' \in Rows /\ Open(w)
    BY CommitDoes
<1>2. /\ UNCHANGED <<clock, batch, handing, link, wire, bell, refetch, marked, skewed, faults>>
      /\ request' = IF w = Reader THEN [stage |-> "done", of |-> request, event |-> writing[w].event] ELSE request
    BY DEF Commit, dispatcherVars, shownVars
<1>3. w = Reader => request.stage = "open"
    BY <1>1 DEF WritersOK
<1>4. request \in Requests /\ writing[w].event \in Nat
    BY <1>1, WriterIs DEF BellTypes
<1>5. ASSUME w = Reader
      PROVE  /\ request' \in Requests /\ request'.stage = "done" /\ request'.of = request
             /\ request'.event = writing[w].event
  <2>1. request.stage \in OpenMarks
      BY <1>3, <1>5 DEF OpenMarks
  <2>2. request \in Made
      BY <1>3, <1>4, <1>5, <2>1, RequestIs DEF Made
  <2>3. \A of \in Made, e \in Nat : LET d == [stage |-> "done", of |-> of, event |-> e] IN
            d \in Answers /\ d.stage = "done" /\ d.of = of /\ d.event = e
      BY DEF Answers
  <2>4. PICK d : d = request'
      OBVIOUS
  <2>5. d = [stage |-> "done", of |-> request, event |-> writing[w].event]
      BY <1>2, <1>5, <2>4
  <2>6. d \in Answers /\ d.stage = "done" /\ d.of = request /\ d.event = writing[w].event
      BY <1>4, <2>2, <2>3, <2>5
  <2> QED BY <2>4, <2>6 DEF Requests
<1>6. request' \in Requests
    BY <1>2, <1>4, <1>5
<1>7. outbox' \in Seq(Entries) /\ DOMAIN outbox' = DOMAIN outbox
    BY <1>1 DEF OneChanges
<1>8. BellTypes'
    BY <1>1, <1>2, <1>6, <1>7 DEF BellTypes
<1> QED BY <1>2, <1>3, <1>5, <1>8

LEMMA DispatchTypes ==
    ASSUME BellTypes
    PROVE  /\ FetchPending => BellTypes'
           /\ Handle => BellTypes'
           /\ MarkPublished => BellTypes'
           /\ HandleFailure => BellTypes'
           /\ \A i \in DOMAIN outbox : BackoffEnds(i) => BellTypes'
           /\ AbandonBatch => BellTypes'
           /\ Crash => BellTypes'
<1>1. ASSUME FetchPending PROVE BellTypes'
  <2>1. UNCHANGED <<clock, rows, outbox, writing, handing, link, wire, bell, refetch, request, marked, skewed, faults>>
        /\ batch' \subseteq Ready
      BY <1>1 DEF FetchPending, shownVars
  <2>2. Ready \subseteq DOMAIN outbox
      BY DEF Ready
  <2> QED BY <2>1, <2>2 DEF BellTypes
<1>2. ASSUME Handle PROVE BellTypes'
  <2>1. OneChanges(Turn, {"handed"})
      BY <1>2, HandleDoes
  <2>2. /\ UNCHANGED <<clock, rows, writing, batch, link, bell, request, marked, faults>> /\ handing' = TRUE
        /\ wire' = IF link = "up" THEN Append(wire, Turn) ELSE wire
        /\ skewed' = skewed \cup {s \in {"order"} : \E j \in DOMAIN outbox : j > Turn /\ outbox[j].handed}
                            \cup {s \in {"gap"} : link \in {"loading", "joining"}}
        /\ refetch' = IF link = "joining" THEN Crossed(refetch) ELSE refetch
      BY <1>2 DEF Handle
  <2>3. outbox' \in Seq(Entries) /\ DOMAIN outbox' = DOMAIN outbox /\ Turn \in DOMAIN outbox
      BY <2>1 DEF OneChanges
  <2>4. wire \in Seq(DOMAIN outbox)
      BY DEF BellTypes
  <2>5. wire' \in Seq(DOMAIN outbox')
      BY <2>2, <2>3, <2>4, AppendProperties
  <2>6. refetch' \in Refetchings
      BY <2>2, RefetchIs DEF BellTypes
  <2>7. skewed' \subseteq {"count", "order", "gap", "snapshot", "answer"}
      BY <2>2 DEF BellTypes
  <2> QED BY <2>2, <2>3, <2>5, <2>6, <2>7 DEF BellTypes
<1>3. ASSUME MarkPublished PROVE BellTypes'
  <2>1. OneChanges(Turn, {"status"})
      BY <1>3, PublishDoes
  <2>2. /\ UNCHANGED <<clock, rows, writing, link, wire, bell, refetch, request, marked, skewed, faults>>
        /\ handing' = FALSE /\ batch' \subseteq batch
      BY <1>3 DEF MarkPublished, FinishHead, shownVars
  <2>3. outbox' \in Seq(Entries) /\ DOMAIN outbox' = DOMAIN outbox
      BY <2>1 DEF OneChanges
  <2> QED BY <2>2, <2>3 DEF BellTypes
<1>4. ASSUME HandleFailure PROVE BellTypes'
  <2>1. OneChanges(Turn, {"status", "attempts", "waiting"})
      BY <1>4, FailureDoes
  <2>2. /\ UNCHANGED <<clock, rows, writing, link, wire, bell, refetch, request, marked, skewed>>
        /\ handing' = FALSE /\ batch' \subseteq batch
        /\ (faults' = faults \/ (faults < MaxFaults /\ faults' = faults + 1))
      BY <1>4 DEF HandleFailure, FinishHead, shownVars
  <2>3. outbox' \in Seq(Entries) /\ DOMAIN outbox' = DOMAIN outbox
      BY <2>1 DEF OneChanges
  <2>4. faults' \in 0..MaxFaults
      BY <2>2, NotificationsAssumption DEF BellTypes
  <2> QED BY <2>2, <2>3, <2>4 DEF BellTypes
<1>5. ASSUME NEW i \in DOMAIN outbox, BackoffEnds(i) PROVE BellTypes'
  <2>1. OneChanges(i, {"waiting"})
      BY <1>5, BackoffDoes
  <2>2. UNCHANGED <<clock, rows, writing, batch, handing, link, wire, bell, refetch, request, marked, skewed, faults>>
      BY <1>5 DEF BackoffEnds, dispatcherVars, shownVars
  <2>3. outbox' \in Seq(Entries) /\ DOMAIN outbox' = DOMAIN outbox
      BY <2>1 DEF OneChanges
  <2> QED BY <2>2, <2>3 DEF BellTypes
<1>6. ASSUME AbandonBatch PROVE BellTypes'
  <2>1. /\ UNCHANGED <<clock, rows, outbox, writing, link, wire, bell, refetch, request, marked, skewed>>
        /\ handing' = FALSE /\ batch' = {} /\ faults < MaxFaults /\ faults' = faults + 1
      BY <1>6 DEF AbandonBatch, shownVars
  <2>2. faults' \in 0..MaxFaults
      BY <2>1, NotificationsAssumption DEF BellTypes
  <2> QED BY <2>1, <2>2 DEF BellTypes
<1>7. ASSUME Crash PROVE BellTypes'
  <2>1. /\ outbox' \in Seq(Entries) /\ DOMAIN outbox' = DOMAIN outbox
        /\ writing' \in [Writers -> Writes \cup {Idle}]
      BY <1>7, CrashDoes
  <2>2. /\ UNCHANGED <<clock, rows, bell, refetch, marked, skewed>>
        /\ batch' = {} /\ handing' = FALSE /\ faults < MaxFaults /\ faults' = faults + 1
        /\ link' \in {link, "down"} /\ wire' = <<>> /\ request' \in {request, Idle}
      BY <1>7 DEF Crash
  <2>3. faults' \in 0..MaxFaults
      BY <2>2, NotificationsAssumption DEF BellTypes
  <2>4. wire' \in Seq(DOMAIN outbox')
      BY <2>2, EmptySeq
  <2>5. request' \in Requests
      BY <2>2, IdleIs DEF BellTypes
  <2> QED BY <2>1, <2>2, <2>3, <2>4, <2>5 DEF BellTypes
<1> QED BY <1>1, <1>2, <1>3, <1>4, <1>5, <1>6, <1>7

-------------------------------------------------------------------------------
\* What the page shows after an event, and after an answer.
Shown == [items : Rows, unread : Nat]
LEMMA ShownIs ==
    ASSUME BellTypes
    PROVE  bell.items \in Rows /\ bell.unread \in Nat /\ \A o \in Orders : bell.items[o] \in RowTypes
    BY RowsAre DEF BellTypes

LEMMA ShownMade ==
    ASSUME NEW items \in Rows, NEW n \in Nat, NEW d, d = [items |-> items, unread |-> n]
    PROVE  d \in [items : Rows, unread : Nat] /\ d.items = items /\ d.unread = n
    OBVIOUS

\* The items with one of them told anew.
ItemAs(items, o, at, read) == [items EXCEPT ![o] = [at |-> at, read |-> read]]
LEMMA ItemTold ==
    ASSUME BellTypes, NEW b \in Bodies, b.kind = "updated", NEW o \in Orders, NEW items,
           items = ItemAs(bell.items, o, b.at, b.read)
    PROVE  /\ items \in Rows /\ items[o].at = b.at /\ items[o].read = b.read
           /\ \A p \in Orders \ {o} : items[p] = bell.items[p]
<1>1. b.at \in 0..MaxMessages /\ b.read \in BOOLEAN
    BY BodyIs, NotificationsAssumption
<1>2. PICK row : row = [at |-> b.at, read |-> b.read]
    OBVIOUS
<1>3. row \in RowTypes /\ row.at = b.at /\ row.read = b.read
    BY <1>1, <1>2, RowMade
<1>4. PICK old : old = bell.items
    OBVIOUS
<1>5. old \in Rows /\ items = [old EXCEPT ![o] = row] /\ row \in RowTypes /\ o \in Orders
    BY <1>2, <1>3, <1>4, ShownIs DEF ItemAs
<1>6. items \in Rows
    BY <1>5 DEF Rows, RowTypes
<1>7. items[o] = row
    BY <1>5 DEF Rows, RowTypes
<1>8. \A p \in Orders \ {o} : items[p] = old[p]
    BY <1>5 DEF Rows, RowTypes
<1> QED BY <1>3, <1>4, <1>6, <1>7, <1>8

LEMMA AppliedIs ==
    ASSUME BellTypes, NEW b \in Bodies
    PROVE  /\ Applied(b) \in [items : Rows, unread : Nat] /\ Applied(b).unread = b.unread
           /\ b.kind = "updated" =>
                LET told == ItemAs(bell.items, b.order, b.at, b.read) IN
                /\ Applied(b).items = Newest(told)
                /\ told \in Rows /\ told[b.order].at = b.at /\ told[b.order].read = b.read
                /\ \A p \in Orders \ {b.order} : told[p] = bell.items[p]
           /\ b.kind = "read-all" =>
                \A o \in Orders : /\ Applied(b).items[o].at = bell.items[o].at
                                  /\ Applied(b).items[o].read <=>
                                       bell.items[o].read \/ bell.items[o].at \in 1..b.cutoff
<1>1. b.unread \in Nat /\ b.kind \in {"updated", "read-all"} /\ (b.kind = "updated" => b.order \in Orders)
    BY BodyIs
<1>2. bell.items \in Rows
    BY ShownIs
<1>3. PICK d : d = Applied(b)
    OBVIOUS
<1>4. CASE b.kind = "updated"
  <2>1. PICK items : items = ItemAs(bell.items, b.order, b.at, b.read)
      OBVIOUS
  <2>2. d = [items |-> Newest(items), unread |-> b.unread]
      BY <1>3, <1>4, <2>1 DEF Applied, ItemAs
  <2>3. /\ items \in Rows /\ items[b.order].at = b.at /\ items[b.order].read = b.read
        /\ \A p \in Orders \ {b.order} : items[p] = bell.items[p]
      BY <1>1, <1>4, <2>1, ItemTold
  <2>4. d \in [items : Rows, unread : Nat] /\ d.items = Newest(items) /\ d.unread = b.unread
    <3>1. Newest(items) \in Rows
        BY <2>3, NewestIs
    <3> QED BY <1>1, <2>2, <3>1, ShownMade
  <2> QED BY <1>3, <1>4, <2>1, <2>3, <2>4
<1>5. CASE b.kind = "read-all"
  <2>1. PICK items : items = ReadUpTo(bell.items, b.cutoff)
      OBVIOUS
  <2>2. d = [items |-> items, unread |-> b.unread]
      BY <1>3, <1>5, <2>1 DEF Applied
  <2>3. /\ items \in Rows
        /\ \A o \in Orders : /\ items[o].at = bell.items[o].at
                             /\ items[o].read <=> bell.items[o].read \/ bell.items[o].at \in 1..b.cutoff
      BY <1>2, <2>1, ReadUpToIs
  <2>4. d \in [items : Rows, unread : Nat] /\ d.items = items /\ d.unread = b.unread
      BY <1>1, <2>2, <2>3, ShownMade
  <2> QED BY <1>3, <1>5, <2>3, <2>4
<1> QED BY <1>1, <1>4, <1>5

LEMMA DeliverDoes ==
    ASSUME BellTypes, Deliver
    PROVE  /\ Head(wire) \in DOMAIN outbox /\ outbox[Head(wire)].body \in Bodies
           /\ bell' = Applied(outbox[Head(wire)].body) /\ bell' \in [items : Rows, unread : Nat]
           /\ wire' \in Seq(DOMAIN outbox) /\ wire # <<>> /\ Len(wire) \in Nat /\ Len(wire) > 0
           /\ DOMAIN wire = 1..Len(wire) /\ DOMAIN wire' = 1..Len(wire) - 1
           /\ Head(wire) = wire[1] /\ \A k \in 1..Len(wire) - 1 : wire'[k] = wire[k + 1]
           /\ refetch' = Crossed(refetch) /\ link = "up"
           /\ UNCHANGED <<clock, rows, outbox, writing, batch, handing, link, request, marked, skewed, faults>>
<1>1. /\ wire # <<>> /\ link = "up" /\ wire' = Tail(wire) /\ refetch' = Crossed(refetch)
      /\ bell' = Applied(outbox[Head(wire)].body)
      /\ UNCHANGED <<clock, rows, outbox, writing, batch, handing, link, request, marked, skewed, faults>>
    BY DEF Deliver, dispatcherVars
<1>2. wire \in Seq(DOMAIN outbox)
    BY DEF BellTypes
<1>3. /\ Head(wire) \in DOMAIN outbox /\ Tail(wire) \in Seq(DOMAIN outbox)
      /\ Len(Tail(wire)) = Len(wire) - 1 /\ \A k \in 1..Len(Tail(wire)) : Tail(wire)[k] = wire[k + 1]
    BY <1>1, <1>2, HeadTailProperties
<1>4. /\ Len(wire) \in Nat /\ DOMAIN wire = 1..Len(wire) /\ Len(wire) > 0 /\ Head(wire) = wire[1]
      /\ DOMAIN Tail(wire) = 1..Len(Tail(wire))
    BY <1>1, <1>2, <1>3, LenProperties, EmptySeq DEF Head
<1>5. outbox[Head(wire)].body \in Bodies
    BY <1>3, EntryOf, EntryIs
<1>6. Applied(outbox[Head(wire)].body) \in [items : Rows, unread : Nat]
    BY <1>5, AppliedIs
<1> QED BY <1>1, <1>3, <1>4, <1>5, <1>6

\* The answer to a mark does to the items what its event would.
LEMMA AnswerDoes ==
    ASSUME BellTypes, WritersOK, ApplyAnswer
    PROVE  /\ request.event \in DOMAIN outbox /\ outbox[request.event].body \in Bodies
           /\ bell' \in [items : Rows, unread : Nat]
           /\ request.of \in Made /\ Committed(request.event) /\ Marks(request.of, outbox[request.event].body)
           /\ request.of.kind \in {"one", "all"}
           /\ request.of.kind = "one" =>
                LET b == outbox[request.event].body IN
                /\ b.kind = "updated" /\ b.order = request.of.order /\ b.order \in Orders
                /\ \/ bell'.items[b.order].at = b.at /\ bell'.items[b.order].read = b.read
                   \/ bell'.items[b.order] = bell.items[b.order]
                /\ \A p \in Orders \ {b.order} : bell'.items[p] = bell.items[p]
           /\ request.of.kind = "all" =>
                LET b == outbox[request.event].body IN
                /\ b.kind = "read-all" /\ bell'.unread = b.unread
                /\ \A o \in Orders : /\ bell'.items[o].at = bell.items[o].at
                                     /\ bell'.items[o].read <=>
                                          bell.items[o].read \/ bell.items[o].at \in 1..b.cutoff
<1>1. /\ request.stage = "done" /\ request.event \in DOMAIN outbox /\ Committed(request.event)
      /\ Marks(request.of, outbox[request.event].body) /\ request.of \in Made
    BY RequestIs DEF ApplyAnswer, WritersOK, BellTypes
<1>2. request.of.kind \in {"one", "all"}
    BY <1>1 DEF Made, OneMarks, AllMarks
<1>3. PICK b : b = outbox[request.event].body
    OBVIOUS
<1>4. b \in Bodies
    BY <1>1, <1>3, EntryOf, EntryIs
<1>5. bell.items \in Rows /\ bell.unread \in Nat
    BY ShownIs
<1>6. CASE request.of.kind = "one"
  <2>1. b.kind = "updated" /\ b.order = request.of.order /\ b.order \in Orders
      BY <1>1, <1>3, <1>4, <1>6, BodyIs DEF Marks
  <2>2. PICK items : items = IF bell.items[b.order].at > 0 THEN ItemAs(bell.items, b.order, b.at, b.read)
                             ELSE bell.items
      OBVIOUS
  <2>3. PICK d : d = bell'
      OBVIOUS
  <2>4. d = [items |-> items, unread |-> OneLess(bell.unread)]
    <3>1. d = [items |-> [bell.items EXCEPT ![b.order] =
                            IF bell.items[b.order].at > 0 THEN [at |-> b.at, read |-> b.read] ELSE bell.items[b.order]],
               unread |-> OneLess(bell.unread)]
        BY <1>3, <1>6, <2>1, <2>3 DEF ApplyAnswer
    <3>2. [bell.items EXCEPT ![b.order] = bell.items[b.order]] = bell.items
        BY <1>5, <2>1 DEF Rows
    <3> QED BY <2>2, <3>1, <3>2 DEF ItemAs
  <2>5. /\ items \in Rows
        /\ \/ items[b.order].at = b.at /\ items[b.order].read = b.read
           \/ items[b.order] = bell.items[b.order]
        /\ \A p \in Orders \ {b.order} : items[p] = bell.items[p]
    <3>1. PICK told : told = ItemAs(bell.items, b.order, b.at, b.read)
        OBVIOUS
    <3>2. /\ told \in Rows /\ told[b.order].at = b.at /\ told[b.order].read = b.read
          /\ \A p \in Orders \ {b.order} : told[p] = bell.items[p]
        BY <1>4, <2>1, <3>1, ItemTold
    <3> QED BY <1>5, <2>2, <3>1, <3>2
  <2>6. OneLess(bell.unread) \in Nat
      BY <1>5 DEF OneLess
  <2>7. d \in [items : Rows, unread : Nat] /\ d.items = items
      BY <2>4, <2>5, <2>6, ShownMade
  <2> QED BY <1>1, <1>3, <1>4, <1>6, <2>1, <2>3, <2>5, <2>7
<1>7. CASE request.of.kind = "all"
  <2>1. b.kind = "read-all" /\ b.cutoff = request.of.cutoff
      BY <1>1, <1>3, <1>7 DEF Marks
  <2>2. PICK items : items = ReadUpTo(bell.items, b.cutoff)
      OBVIOUS
  <2>3. PICK d : d = bell'
      OBVIOUS
  <2>4. d = [items |-> items, unread |-> b.unread]
      BY <1>3, <1>7, <2>1, <2>2, <2>3 DEF ApplyAnswer
  <2>5. /\ items \in Rows
        /\ \A o \in Orders : /\ items[o].at = bell.items[o].at
                             /\ items[o].read <=> bell.items[o].read \/ bell.items[o].at \in 1..b.cutoff
      BY <1>5, <2>2, ReadUpToIs
  <2>6. d \in [items : Rows, unread : Nat] /\ d.items = items /\ d.unread = b.unread
      BY <1>4, <2>4, <2>5, BodyIs, ShownMade
  <2> QED BY <1>1, <1>3, <1>4, <1>7, <2>1, <2>3, <2>5, <2>6
<1> QED BY <1>2, <1>6, <1>7

-------------------------------------------------------------------------------
\* What the page asks for and is answered.
LEMMA RefuseDoes ==
    ASSUME BellTypes, RefuseMark
    PROVE  /\ request' \in Requests /\ request.stage = "sent" /\ request'.stage = "refused"
           /\ request'.kind = request.kind
           /\ request.kind = "one" => request'.order = request.order /\ request'.at = request.at
           /\ request.kind = "all" => request'.cutoff = request.cutoff
           /\ UNCHANGED <<clock, rows, outbox, writing, batch, handing, link, wire, bell, refetch, marked, skewed, faults>>
<1>1. request \in Requests /\ request.stage = "sent" /\ request' = [request EXCEPT !.stage = "refused"]
    BY DEF RefuseMark, BellTypes
<1>2. request.stage \in OpenMarks /\ "refused" \in OpenMarks
    BY <1>1 DEF OpenMarks
<1>3. PICK d : d = request'
    OBVIOUS
<1>4. /\ d \in Requests /\ d.stage = "refused" /\ d.kind = request.kind
      /\ request.kind = "one" => d.order = request.order /\ d.at = request.at
      /\ request.kind = "all" => d.cutoff = request.cutoff
    BY <1>1, <1>2, <1>3, MarkGoesOn
<1>5. UNCHANGED <<clock, rows, outbox, writing, batch, handing, link, wire, bell, refetch, marked, skewed, faults>>
    BY DEF RefuseMark, dispatcherVars, shownVars
<1> QED BY <1>1, <1>3, <1>4, <1>5

LEMMA ClickReadDoes ==
    ASSUME BellTypes, NEW o \in Orders, ClickRead(o)
    PROVE  /\ request = Idle /\ request' \in Requests /\ request'.stage = "sent" /\ request'.kind = "one"
           /\ request'.order = o /\ request'.at = bell.items[o].at /\ bell.items[o].at > 0
           /\ marked' \in [Orders -> 0..MaxMessages]
           /\ \A p \in Orders : marked[p] <= marked'[p] /\ marked'[p] \in {marked[p], bell.items[p].at}
           /\ bell.items[o].at <= marked'[o]
           /\ UNCHANGED <<clock, rows, outbox, writing, batch, handing, link, wire, bell, refetch, skewed, faults>>
<1>1. /\ request = Idle /\ bell.items[o].at > 0
      /\ request' = [stage |-> "sent", kind |-> "one", order |-> o, at |-> bell.items[o].at]
      /\ marked' = [marked EXCEPT ![o] = IF marked[o] < bell.items[o].at THEN bell.items[o].at ELSE marked[o]]
      /\ UNCHANGED <<clock, rows, outbox, writing, batch, handing, link, wire, bell, refetch, skewed, faults>>
    BY DEF ClickRead, dispatcherVars, shownVars
<1>2. bell.items[o].at \in 0..MaxMessages /\ marked \in [Orders -> 0..MaxMessages]
    BY ShownIs, RowIs DEF BellTypes
<1>3. PICK n : n = bell.items[o].at
    OBVIOUS
<1>4. n \in 1..MaxMessages /\ n \in 0..MaxMessages
    BY <1>1, <1>2, <1>3
<1>5. PICK d : d = request'
    OBVIOUS
<1>6. d = [stage |-> "sent", kind |-> "one", order |-> o, at |-> n]
    BY <1>1, <1>3, <1>5
<1>7. d \in OneMarks(OpenMarks) /\ d.stage = "sent" /\ d.kind = "one" /\ d.order = o /\ d.at = n
    BY <1>4, <1>6 DEF OneMarks, OpenMarks
<1>8. d \in Requests
    BY <1>7 DEF Requests
<1>9. marked' = [marked EXCEPT ![o] = IF marked[o] < n THEN n ELSE marked[o]]
    BY <1>1, <1>3
<1>10. marked' \in [Orders -> 0..MaxMessages]
    BY <1>2, <1>4, <1>9
<1>11. /\ \A p \in Orders \ {o} : marked'[p] = marked[p]
       /\ marked'[o] = IF marked[o] < n THEN n ELSE marked[o]
    BY <1>2, <1>9
<1>12. \A p \in Orders : marked[p] \in 0..MaxMessages
    BY <1>2
<1>13. \A p \in Orders : marked[p] <= marked'[p] /\ marked'[p] \in {marked[p], bell.items[p].at}
    BY <1>3, <1>4, <1>11, <1>12
<1>14. n <= marked'[o]
    BY <1>4, <1>11, <1>12
<1> QED BY <1>1, <1>3, <1>5, <1>7, <1>8, <1>10, <1>13, <1>14

LEMMA ClickAllDoes ==
    ASSUME BellTypes, ClickAll
    PROVE  /\ request = Idle /\ request' = Asking /\ request' \in Requests /\ bell.unread > 0
           /\ request'.stage = "asking" /\ request'.stage \notin OpenMarks
           /\ UNCHANGED <<clock, rows, outbox, writing, batch, handing, link, wire, bell, refetch, marked, skewed, faults>>
    BY AskingIs DEF ClickAll, dispatcherVars, shownVars, OpenMarks

\* The API gives the mark of all its time.
LEMMA DateAllDoes ==
    ASSUME BellTypes, DateMarkAll
    PROVE  /\ request = Asking /\ request' \in Requests /\ request'.stage = "sent" /\ request'.kind = "all"
           /\ request'.cutoff = clock
           /\ marked' \in [Orders -> 0..MaxMessages] /\ \A p \in Orders : marked'[p] = clock
           /\ UNCHANGED <<clock, rows, outbox, writing, batch, handing, link, wire, bell, refetch, skewed, faults>>
<1>1. /\ request = Asking
      /\ request' = [stage |-> "sent", kind |-> "all", cutoff |-> clock]
      /\ marked' = [o \in Orders |-> clock]
      /\ UNCHANGED <<clock, rows, outbox, writing, batch, handing, link, wire, bell, refetch, skewed, faults>>
    BY DEF DateMarkAll, dispatcherVars, shownVars
<1>2. clock \in 0..MaxMessages
    BY DEF BellTypes
<1>3. PICK d : d = request'
    OBVIOUS
<1>4. d \in AllMarks(OpenMarks) /\ d.stage = "sent" /\ d.kind = "all" /\ d.cutoff = clock
    BY <1>1, <1>2, <1>3 DEF AllMarks, OpenMarks
<1>5. d \in Requests
    BY <1>4 DEF Requests
<1>6. marked' \in [Orders -> 0..MaxMessages] /\ \A p \in Orders : marked'[p] = clock
    BY <1>1, <1>2
<1> QED BY <1>1, <1>3, <1>4, <1>5, <1>6

\* The list is read, and then counted.
LEMMA ReadDoes ==
    ASSUME BellTypes, ReadItems
    PROVE  /\ refetch.stage = "asked" /\ refetch' \in Refetchings /\ refetch'.stage = "items"
           /\ refetch'.items = Newest(rows) /\ refetch'.crossed = FALSE
           /\ UNCHANGED <<clock, rows, outbox, writing, batch, handing, link, wire, bell, request, marked, skewed, faults>>
<1>1. /\ refetch.stage = "asked"
      /\ refetch' = [stage |-> "items", items |-> Newest(rows), crossed |-> FALSE]
      /\ UNCHANGED <<clock, rows, outbox, writing, batch, handing, link, wire, bell, request, marked, skewed, faults>>
    BY DEF ReadItems, dispatcherVars
<1>2. PICK d : d = refetch'
    OBVIOUS
<1>3. PICK newest : newest = Newest(rows)
    OBVIOUS
<1>5. newest \in Rows
    BY <1>3, NewestIs DEF BellTypes
<1>4. d \in ListsRead /\ d.stage = "items" /\ d.items = newest /\ d.crossed = FALSE
    BY <1>1, <1>2, <1>3, <1>5 DEF ListsRead
<1> QED BY <1>1, <1>2, <1>3, <1>4 DEF Refetchings

LEMMA CountDoes ==
    ASSUME BellTypes, CountUnread
    PROVE  /\ refetch.stage = "items" /\ refetch' \in Refetchings /\ refetch'.stage = "answered"
           /\ refetch'.items = refetch.items /\ refetch'.crossed = refetch.crossed
           /\ refetch'.unread = Unread(rows)
           /\ UNCHANGED <<clock, rows, outbox, writing, batch, handing, link, wire, bell, request, marked, skewed, faults>>
<1>1. /\ refetch.stage = "items"
      /\ refetch' = [stage |-> "answered", items |-> refetch.items, unread |-> Unread(rows), crossed |-> refetch.crossed]
      /\ UNCHANGED <<clock, rows, outbox, writing, batch, handing, link, wire, bell, request, marked, skewed, faults>>
    BY DEF CountUnread, dispatcherVars
<1>2. PICK d : d = refetch'
    OBVIOUS
<1>3. refetch.items \in Rows /\ refetch.crossed \in BOOLEAN
    BY <1>1, RefetchIs DEF BellTypes
<1>4. PICK n : n = Unread(rows)
    OBVIOUS
<1>5. n \in Nat
    BY <1>4, UnreadIsNat
<1>6. d = [stage |-> "answered", items |-> refetch.items, unread |-> n, crossed |-> refetch.crossed]
    BY <1>1, <1>2, <1>4
<1>7. d \in ListsCounted /\ d.stage = "answered" /\ d.items = refetch.items /\ d.crossed = refetch.crossed /\ d.unread = n
    BY <1>3, <1>5, <1>6 DEF ListsCounted
<1> QED BY <1>1, <1>2, <1>4, <1>7 DEF Refetchings

LEMMA ReplaceDoes ==
    ASSUME BellTypes, ReplaceNotifications
    PROVE  /\ refetch.stage = "answered" /\ refetch' = Idle /\ bell' \in [items : Rows, unread : Nat]
           /\ bell'.items = refetch.items /\ bell'.unread = refetch.unread
           /\ skewed' = IF refetch.crossed THEN skewed \cup {"snapshot"}
                        ELSE IF AllTold /\ request = Idle /\ link = "up" THEN {} ELSE skewed
           /\ UNCHANGED <<clock, rows, outbox, writing, batch, handing, link, wire, request, marked, faults>>
<1>1. /\ refetch.stage = "answered" /\ refetch' = Idle
      /\ bell' = [items |-> refetch.items, unread |-> refetch.unread]
      /\ skewed' = IF refetch.crossed THEN skewed \cup {"snapshot"}
                   ELSE IF AllTold /\ request = Idle /\ link = "up" THEN {} ELSE skewed
      /\ UNCHANGED <<clock, rows, outbox, writing, batch, handing, link, wire, request, marked, faults>>
    BY DEF ReplaceNotifications, dispatcherVars
<1>2. PICK d : d = bell'
    OBVIOUS
<1>3. refetch.items \in Rows /\ refetch.unread \in Nat
    BY <1>1, RefetchIs DEF BellTypes
<1>4. d \in [items : Rows, unread : Nat] /\ d.items = refetch.items /\ d.unread = refetch.unread
    BY <1>1, <1>2, <1>3, ShownMade
<1> QED BY <1>1, <1>2, <1>4

LEMMA PageTypes ==
    ASSUME BellTypes
    PROVE  /\ RefuseMark => BellTypes'
           /\ Disconnect \/ Connect \/ JoinRoom \/ RefetchFails \/ ShowRefusal => BellTypes'
           /\ ReadItems \/ CountUnread \/ ReplaceNotifications => BellTypes'
           /\ Deliver => BellTypes'
           /\ (\E o \in Orders : ClickRead(o)) \/ ClickAll \/ DateMarkAll => BellTypes'
           /\ WritersOK /\ ApplyAnswer => BellTypes'
<1>1. ASSUME RefuseMark PROVE BellTypes'
    BY <1>1, RefuseDoes DEF BellTypes
<1>2. ASSUME Disconnect PROVE BellTypes'
  <2>1. /\ faults < MaxFaults /\ faults' = faults + 1 /\ link' = "down" /\ wire' = <<>>
        /\ UNCHANGED <<clock, rows, outbox, writing, batch, handing, bell, refetch, request, marked, skewed>>
      BY <1>2 DEF Disconnect, dispatcherVars
  <2>2. faults' \in 0..MaxFaults
      BY <2>1, NotificationsAssumption DEF BellTypes
  <2>3. wire' \in Seq(DOMAIN outbox')
      BY <2>1, EmptySeq
  <2> QED BY <2>1, <2>2, <2>3 DEF BellTypes
<1>3. ASSUME Connect PROVE BellTypes'
  <2>1. /\ link' = "joining" /\ refetch' \in {refetch, [stage |-> "asked"]}
        /\ UNCHANGED <<clock, rows, outbox, writing, batch, handing, wire, bell, request, marked, skewed, faults>>
      BY <1>3 DEF Connect, dispatcherVars
  <2>2. refetch' \in Refetchings
      BY <2>1, IdleIs DEF BellTypes
  <2> QED BY <2>1, <2>2 DEF BellTypes
<1>4. ASSUME JoinRoom PROVE BellTypes'
    BY <1>4 DEF JoinRoom, dispatcherVars, BellTypes
<1>5. ASSUME RefetchFails PROVE BellTypes'
  <2>1. /\ faults < MaxFaults /\ faults' = faults + 1 /\ refetch' = Idle /\ skewed' = skewed \cup {"snapshot"}
        /\ UNCHANGED <<clock, rows, outbox, writing, batch, handing, link, wire, bell, request, marked>>
      BY <1>5 DEF RefetchFails, dispatcherVars
  <2>2. faults' \in 0..MaxFaults
      BY <2>1, NotificationsAssumption DEF BellTypes
  <2>3. refetch' \in Refetchings
      BY <2>1, IdleIs
  <2> QED BY <2>1, <2>2, <2>3 DEF BellTypes
<1>6. ASSUME ShowRefusal PROVE BellTypes'
  <2>1. /\ request' = Idle /\ refetch' = [stage |-> "asked"]
        /\ UNCHANGED <<clock, rows, outbox, writing, batch, handing, link, wire, bell, marked, skewed, faults>>
      BY <1>6 DEF ShowRefusal, dispatcherVars
  <2>2. refetch' \in Refetchings /\ request' \in Requests
      BY <2>1, IdleIs
  <2> QED BY <2>1, <2>2 DEF BellTypes
<1>7. ASSUME ReadItems PROVE BellTypes'
    BY <1>7, ReadDoes DEF BellTypes
<1>8. ASSUME CountUnread PROVE BellTypes'
    BY <1>8, CountDoes DEF BellTypes
<1>9. ASSUME ReplaceNotifications PROVE BellTypes'
  <2>1. /\ refetch' = Idle /\ bell' \in [items : Rows, unread : Nat]
        /\ skewed' = IF refetch.crossed THEN skewed \cup {"snapshot"}
                        ELSE IF AllTold /\ request = Idle /\ link = "up" THEN {} ELSE skewed
        /\ UNCHANGED <<clock, rows, outbox, writing, batch, handing, link, wire, request, marked, faults>>
      BY <1>9, ReplaceDoes
  <2>2. skewed' \subseteq {"count", "order", "gap", "snapshot", "answer"}
      BY <2>1 DEF BellTypes
  <2>3. refetch' \in Refetchings
      BY <2>1, IdleIs
  <2> QED BY <2>1, <2>2, <2>3 DEF BellTypes
<1>10. ASSUME Deliver PROVE BellTypes'
  <2>1. /\ bell' \in [items : Rows, unread : Nat] /\ wire' \in Seq(DOMAIN outbox) /\ refetch' = Crossed(refetch)
        /\ UNCHANGED <<clock, rows, outbox, writing, batch, handing, link, request, marked, skewed, faults>>
      BY <1>10, DeliverDoes
  <2>2. refetch' \in Refetchings
      BY <2>1, RefetchIs DEF BellTypes
  <2> QED BY <2>1, <2>2 DEF BellTypes
<1>11. ASSUME NEW o \in Orders, ClickRead(o) PROVE BellTypes'
    BY <1>11, ClickReadDoes DEF BellTypes
<1>12. ASSUME ClickAll \/ DateMarkAll PROVE BellTypes'
    BY <1>12, ClickAllDoes, DateAllDoes DEF BellTypes
<1>13. ASSUME WritersOK, ApplyAnswer PROVE BellTypes'
  <2>1. /\ request' = Idle /\ skewed' \in {skewed, skewed \cup {"answer"}}
        /\ UNCHANGED <<clock, rows, outbox, writing, batch, handing, link, wire, refetch, marked, faults>>
      BY <1>13 DEF ApplyAnswer, dispatcherVars
  <2>2. bell' \in [items : Rows, unread : Nat]
      BY <1>13, AnswerDoes
  <2>3. skewed' \subseteq {"count", "order", "gap", "snapshot", "answer"}
      BY <2>1 DEF BellTypes
  <2>4. request' \in Requests
      BY <2>1, IdleIs
  <2> QED BY <2>1, <2>2, <2>3, <2>4 DEF BellTypes
<1> QED BY <1>1, <1>2, <1>3, <1>4, <1>5, <1>6, <1>7, <1>8, <1>9, <1>10, <1>11, <1>12, <1>13

-------------------------------------------------------------------------------
\* An event keeps what it says, and stays committed and handed.
Grows ==
    /\ DOMAIN outbox \subseteq DOMAIN outbox'
    /\ \A k \in DOMAIN outbox : /\ outbox'[k].body = outbox[k].body
                                /\ Committed(k) => Committed(k)'
                                /\ outbox[k].handed => outbox'[k].handed

LEMMA BeginGrows ==
    ASSUME BellTypes, NEW w \in Writers, NEW wrote \in SUBSET Orders, NEW new \in Rows, NEW b \in Bodies,
           BeginWrite(w, wrote, new, b)
    PROVE  Grows
<1>1. DOMAIN outbox = 1..Len(outbox) /\ DOMAIN outbox' = 1..Len(outbox) + 1 /\ Len(outbox) \in Nat
    BY WriteBegins
<1>2. \A k \in DOMAIN outbox : outbox'[k] = outbox[k]
    BY WriteBegins
<1> QED BY <1>1, <1>2 DEF Grows, Committed, Visible

LEMMA StepsGrow ==
    ASSUME BellTypes
    PROVE  /\ WritersOK => \A w \in Writers : Commit(w) => Grows
           /\ Handle => Grows
           /\ MarkPublished => Grows
           /\ HandleFailure => Grows
           /\ \A i \in DOMAIN outbox : BackoffEnds(i) => Grows
           /\ Crash => Grows
<1>1. ASSUME WritersOK, NEW w \in Writers, Commit(w) PROVE Grows
  <2>1. OneChanges(writing[w].event, {"status"}) /\ outbox'[writing[w].event].status = "PENDING"
      BY <1>1, CommitDoes
  <2> QED BY <2>1 DEF Grows, OneChanges, SameBut, Committed, Visible
<1>2. ASSUME Handle PROVE Grows
  <2>1. OneChanges(Turn, {"handed"}) /\ outbox'[Turn].handed = TRUE
      BY <1>2, HandleDoes
  <2> QED BY <2>1 DEF Grows, OneChanges, SameBut, Committed, Visible
<1>3. ASSUME MarkPublished PROVE Grows
  <2>1. OneChanges(Turn, {"status"}) /\ outbox'[Turn].status = "PUBLISHED"
      BY <1>3, PublishDoes
  <2> QED BY <2>1 DEF Grows, OneChanges, SameBut, Committed, Visible
<1>4. ASSUME HandleFailure PROVE Grows
  <2>1. OneChanges(Turn, {"status", "attempts", "waiting"})
        /\ outbox'[Turn].status \in {outbox[Turn].status, "FAILED"}
      BY <1>4, FailureDoes
  <2> QED BY <2>1 DEF Grows, OneChanges, SameBut, Committed, Visible
<1>5. ASSUME NEW i \in DOMAIN outbox, BackoffEnds(i) PROVE Grows
  <2>1. OneChanges(i, {"waiting"})
      BY <1>5, BackoffDoes
  <2> QED BY <2>1 DEF Grows, OneChanges, SameBut, Committed, Visible
<1>6. ASSUME Crash PROVE Grows
  <2>1. /\ DOMAIN outbox' = DOMAIN outbox
        /\ \A k \in DOMAIN outbox :
                /\ SameBut(outbox[k], outbox'[k], {"status"})
                /\ outbox[k].status # "OPEN" => outbox'[k] = outbox[k]
      BY <1>6, CrashDoes
  <2> QED BY <2>1 DEF Grows, SameBut, Committed, Visible
<1> QED BY <1>1, <1>2, <1>3, <1>4, <1>5, <1>6

\* What the dispatcher has done with the events.
LEMMA BeginEntries ==
    ASSUME BellTypes, EntriesOK, NEW w \in Writers, NEW wrote \in SUBSET Orders, NEW new \in Rows, NEW b \in Bodies,
           BeginWrite(w, wrote, new, b)
    PROVE  EntriesOK'
<1>1. /\ DOMAIN outbox = 1..Len(outbox) /\ DOMAIN outbox' = 1..Len(outbox) + 1 /\ Len(outbox) \in Nat
      /\ \A k \in DOMAIN outbox : outbox'[k] = outbox[k]
    BY WriteBegins
<1>2. \A k : k = Len(outbox) + 1 => /\ outbox'[k].status = "OPEN" /\ outbox'[k].attempts = 0
                                    /\ ~outbox'[k].waiting /\ ~outbox'[k].handed
    BY WriteBegins, Zenon
<1>3. 0 < MaxAttempts /\ 0 <= MaxAttempts
    BY NotificationsAssumption
<1>4. ASSUME NEW k \in DOMAIN outbox'
      PROVE  /\ outbox'[k].status \in {"OPEN", "GONE"} => ~outbox'[k].handed
             /\ outbox'[k].status \in {"PUBLISHED", "FAILED"} => outbox'[k].handed
             /\ outbox'[k].waiting => outbox'[k].handed
             /\ outbox'[k].status # "FAILED" => outbox'[k].attempts < MaxAttempts
             /\ outbox'[k].attempts <= MaxAttempts
  <2>1. CASE k \in DOMAIN outbox
      BY <1>1, <2>1 DEF EntriesOK
  <2>2. CASE k = Len(outbox) + 1
      BY <1>2, <1>3, <2>2, Zenon
  <2> QED BY <1>1, <2>1, <2>2
<1> QED BY <1>4 DEF EntriesOK

LEMMA BeginsKeepEntries ==
    ASSUME BellTypes, EntriesOK
    PROVE  /\ \A w \in Senders, o \in Orders : SendMessage(w, o) => EntriesOK'
           /\ MarkRead => EntriesOK'
           /\ MarkAllRead => EntriesOK'
<1>1. ASSUME NEW w \in Senders, NEW o \in Orders, SendMessage(w, o) PROVE EntriesOK'
    BY <1>1, MessageBegins, BeginEntries
<1>2. ASSUME MarkRead PROVE EntriesOK'
    BY <1>2, MarkBegins, BeginEntries
<1>3. ASSUME MarkAllRead PROVE EntriesOK'
  <2>1. PICK new \in Rows, b \in Bodies, cutoff \in 0..MaxMessages :
           BeginWrite(Reader, UpTo(cutoff), new, b) /\ Reader \in Writers /\ UpTo(cutoff) \in SUBSET Orders
      BY <1>3, MarkAllBegins
  <2> QED BY <2>1, BeginEntries
<1> QED BY <1>1, <1>2, <1>3

LEMMA StepsKeepEntries ==
    ASSUME BellTypes, EntriesOK, DispatchOK, WritersOK
    PROVE  /\ \A w \in Writers : Commit(w) => EntriesOK'
           /\ Handle => EntriesOK'
           /\ MarkPublished => EntriesOK'
           /\ HandleFailure => EntriesOK'
           /\ \A i \in DOMAIN outbox : BackoffEnds(i) => EntriesOK'
           /\ Crash => EntriesOK'
           /\ UNCHANGED outbox => EntriesOK'
<1>0. \A i \in DOMAIN outbox : outbox[i].attempts \in Nat
    BY EntryOf, EntryIs
<1>1. ASSUME NEW w \in Writers, Commit(w) PROVE EntriesOK'
  <2>1. /\ OneChanges(writing[w].event, {"status"}) /\ outbox'[writing[w].event].status = "PENDING"
        /\ outbox[writing[w].event].status = "OPEN"
      BY <1>1, CommitDoes
  <2> QED BY <2>1 DEF EntriesOK, OneChanges, SameBut
<1>2. ASSUME Handle PROVE EntriesOK'
  <2>1. OneChanges(Turn, {"handed"}) /\ outbox'[Turn].handed = TRUE /\ Turn \in batch
      BY <1>2, HandleDoes
  <2>2. outbox[Turn].status = "PENDING"
      BY <2>1 DEF DispatchOK
  <2> QED BY <2>1, <2>2 DEF EntriesOK, OneChanges, SameBut
<1>3. ASSUME MarkPublished PROVE EntriesOK'
  <2>1. OneChanges(Turn, {"status"}) /\ outbox'[Turn].status = "PUBLISHED" /\ Turn \in batch
      BY <1>3, PublishDoes
  <2>2. outbox[Turn].handed /\ outbox[Turn].status = "PENDING"
      BY <1>3, <2>1 DEF DispatchOK, MarkPublished
  <2> QED BY <2>1, <2>2 DEF EntriesOK, OneChanges, SameBut
<1>4. ASSUME HandleFailure PROVE EntriesOK'
  <2>1. /\ OneChanges(Turn, {"status", "attempts", "waiting"})
        /\ outbox'[Turn].attempts = outbox[Turn].attempts + 1
        /\ GivesUp(outbox[Turn].attempts + 1) =>
                outbox'[Turn].status = "FAILED" /\ outbox'[Turn].waiting = outbox[Turn].waiting
        /\ ~GivesUp(outbox[Turn].attempts + 1) =>
                outbox'[Turn].status = outbox[Turn].status /\ outbox'[Turn].waiting = TRUE
        /\ Turn \in batch
      BY <1>4, FailureDoes
  <2>2. outbox[Turn].handed /\ outbox[Turn].status = "PENDING"
      BY <1>4, <2>1 DEF DispatchOK, HandleFailure
  <2>3. Turn \in DOMAIN outbox /\ outbox'[Turn].handed = outbox[Turn].handed /\ outbox[Turn].attempts < MaxAttempts
      BY <2>1, <2>2 DEF OneChanges, SameBut, EntriesOK
  <2>4. ASSUME NEW k \in DOMAIN outbox'
        PROVE  /\ outbox'[k].status \in {"OPEN", "GONE"} => ~outbox'[k].handed
               /\ outbox'[k].status \in {"PUBLISHED", "FAILED"} => outbox'[k].handed
               /\ outbox'[k].waiting => outbox'[k].handed
               /\ outbox'[k].status # "FAILED" => outbox'[k].attempts < MaxAttempts
               /\ outbox'[k].attempts <= MaxAttempts
    <3>1. CASE k # Turn
        BY <2>1, <2>4, <3>1 DEF EntriesOK, OneChanges
    <3>2. CASE k = Turn
      <4>1. outbox[k].attempts \in Nat /\ MaxAttempts \in Nat
          BY <1>0, <2>3, <3>2, NotificationsAssumption
      <4>2. outbox'[k].attempts = outbox[k].attempts + 1 /\ outbox'[k].handed /\ outbox[k].attempts < MaxAttempts
          BY <2>1, <2>2, <2>3, <3>2
      <4>3. outbox'[k].attempts <= MaxAttempts
          BY <4>1, <4>2
      <4>4. outbox'[k].status # "FAILED" => outbox'[k].attempts < MaxAttempts
          BY <2>1, <3>2, <4>1, <4>2 DEF GivesUp
      <4>5. outbox'[k].status \in {"PENDING", "FAILED"}
          BY <2>1, <2>2, <3>2
      <4> QED BY <4>2, <4>3, <4>4, <4>5
    <3> QED BY <3>1, <3>2
  <2> QED BY <2>4 DEF EntriesOK
<1>5. ASSUME NEW i \in DOMAIN outbox, BackoffEnds(i) PROVE EntriesOK'
  <2>1. OneChanges(i, {"waiting"}) /\ outbox'[i].waiting = FALSE
      BY <1>5, BackoffDoes
  <2> QED BY <2>1 DEF EntriesOK, OneChanges, SameBut
<1>6. ASSUME Crash PROVE EntriesOK'
  <2>1. /\ DOMAIN outbox' = DOMAIN outbox
        /\ \A k \in DOMAIN outbox :
                /\ SameBut(outbox[k], outbox'[k], {"status"})
                /\ outbox[k].status = "OPEN" => outbox'[k].status = "GONE"
                /\ outbox[k].status # "OPEN" => outbox'[k] = outbox[k]
      BY <1>6, CrashDoes
  <2> QED BY <2>1 DEF EntriesOK, SameBut
<1>7. ASSUME UNCHANGED outbox PROVE EntriesOK'
    BY <1>7 DEF EntriesOK
<1> QED BY <1>1, <1>2, <1>3, <1>4, <1>5, <1>6, <1>7

-------------------------------------------------------------------------------
\* What the dispatcher is at, and what a page shows that is not yet connected.
BatchPending == \A i \in batch : outbox[i].status = "PENDING"
HandingHanded == handing => batch # {} /\ outbox[Turn].handed
WireHanded == \A k \in DOMAIN wire : Committed(wire[k]) /\ outbox[wire[k]].handed
WireUp == wire # <<>> => link = "up"
LoadingEmpty == link = "loading" => /\ refetch = Idle /\ request = Idle /\ bell.unread = 0
                                    /\ \A o \in Orders : bell.items[o].at = 0

LEMMA DispatchParts == DispatchOK <=> BatchPending /\ HandingHanded /\ WireHanded /\ WireUp /\ LoadingEmpty
    BY DEF DispatchOK, BatchPending, HandingHanded, WireHanded, WireUp, LoadingEmpty
LEMMA DispatchPartsNext ==
    ASSUME BatchPending', HandingHanded', WireHanded', WireUp', LoadingEmpty'
    PROVE  DispatchOK'
    BY DEF DispatchOK, BatchPending, HandingHanded, WireHanded, WireUp, LoadingEmpty

LEMMA SameTurn == ASSUME batch' = batch PROVE Turn' = Turn
    BY DEF Turn

\* The wire and what it carries, while both go on.
LEMMA WireStays ==
    ASSUME BellTypes, WireHanded, Grows, wire' = wire
    PROVE  WireHanded'
<1>1. \A k \in DOMAIN wire : wire[k] \in DOMAIN outbox
    BY ElementOfSeq, LenProperties DEF BellTypes
<1> QED BY <1>1 DEF WireHanded, Grows

LEMMA HandingStays ==
    ASSUME BellTypes, HandingHanded, Grows, batch' = batch, handing' = handing
    PROVE  HandingHanded'
<1>1. handing => Turn \in DOMAIN outbox
    BY TurnIs DEF HandingHanded
<1> QED BY <1>1, SameTurn DEF HandingHanded, Grows

LEMMA NothingGrows == ASSUME UNCHANGED outbox PROVE Grows
    BY DEF Grows, Committed

LEMMA BeginDispatch ==
    ASSUME BellTypes, DispatchOK, NEW w \in Writers, NEW wrote \in SUBSET Orders, NEW new \in Rows, NEW b \in Bodies,
           BeginWrite(w, wrote, new, b), request' = request \/ request # Idle
    PROVE  DispatchOK'
<1>1. /\ UNCHANGED <<rows, batch, handing, link, wire, bell, refetch, marked, faults>>
      /\ \A k \in DOMAIN outbox : outbox'[k] = outbox[k]
    BY WriteBegins
<1>2. Grows
    BY BeginGrows
<1>3. BatchPending /\ HandingHanded /\ WireHanded /\ WireUp /\ LoadingEmpty
    BY DispatchParts
<1>4. BatchPending'
    BY <1>1, <1>3 DEF BatchPending, BellTypes
<1>5. HandingHanded' /\ WireHanded'
    BY <1>1, <1>2, <1>3, HandingStays, WireStays
<1>6. WireUp' /\ LoadingEmpty'
    BY <1>1, <1>3 DEF WireUp, LoadingEmpty
<1> QED BY <1>4, <1>5, <1>6, DispatchPartsNext

LEMMA BeginsKeepDispatch ==
    ASSUME BellTypes, DispatchOK
    PROVE  /\ \A w \in Senders, o \in Orders : SendMessage(w, o) => DispatchOK'
           /\ MarkRead => DispatchOK'
           /\ MarkAllRead => DispatchOK'
<1>1. ASSUME NEW w \in Senders, NEW o \in Orders, SendMessage(w, o) PROVE DispatchOK'
    BY <1>1, MessageBegins, BeginDispatch
<1>2. ASSUME MarkRead PROVE DispatchOK'
  <2>1. PICK new \in Rows, b \in Bodies, o \in Orders :
           BeginWrite(Reader, {o}, new, b) /\ Reader \in Writers /\ {o} \in SUBSET Orders /\ request.stage = "sent"
      BY <1>2, MarkBegins
  <2> QED BY <2>1, BeginDispatch, IdleIs
<1>3. ASSUME MarkAllRead PROVE DispatchOK'
  <2>1. PICK new \in Rows, b \in Bodies, cutoff \in 0..MaxMessages :
           BeginWrite(Reader, UpTo(cutoff), new, b) /\ Reader \in Writers /\ UpTo(cutoff) \in SUBSET Orders
           /\ request.stage = "sent"
      BY <1>3, MarkAllBegins
  <2> QED BY <2>1, BeginDispatch, IdleIs
<1> QED BY <1>1, <1>2, <1>3

LEMMA StepsKeepDispatch ==
    ASSUME BellTypes, EntriesOK, DispatchOK, WritersOK
    PROVE  /\ \A w \in Writers : Commit(w) => DispatchOK'
           /\ FetchPending => DispatchOK'
           /\ Handle => DispatchOK'
           /\ MarkPublished => DispatchOK'
           /\ HandleFailure => DispatchOK'
           /\ \A i \in DOMAIN outbox : BackoffEnds(i) => DispatchOK'
           /\ AbandonBatch => DispatchOK'
           /\ Crash => DispatchOK'
<1>0. BatchPending /\ HandingHanded /\ WireHanded /\ WireUp /\ LoadingEmpty /\ batch \subseteq DOMAIN outbox
    BY DispatchParts DEF BellTypes
<1>1. ASSUME NEW w \in Writers, Commit(w) PROVE DispatchOK'
  <2>1. /\ OneChanges(writing[w].event, {"status"}) /\ outbox[writing[w].event].status = "OPEN"
        /\ w # Reader => request' = request
        /\ w = Reader => request.stage = "open"
      BY <1>1, CommitDoes, CommitTypes
  <2>2. UNCHANGED <<clock, batch, handing, link, wire, bell, refetch, marked, skewed, faults>>
      BY <1>1 DEF Commit, dispatcherVars, shownVars
  <2>3. Grows
      BY <1>1, StepsGrow
  <2>4. BatchPending'
      BY <1>0, <2>1, <2>2 DEF BatchPending, OneChanges
  <2>5. HandingHanded' /\ WireHanded'
      BY <1>0, <2>2, <2>3, HandingStays, WireStays
  <2>6. LoadingEmpty'
      BY <1>0, <2>1, <2>2, IdleIs DEF LoadingEmpty
  <2>7. WireUp'
      BY <1>0, <2>2 DEF WireUp
  <2> QED BY <2>4, <2>5, <2>6, <2>7, DispatchPartsNext
<1>2. ASSUME FetchPending PROVE DispatchOK'
  <2>1. /\ batch = {} /\ batch' \subseteq Ready
        /\ UNCHANGED <<clock, rows, outbox, writing, handing, link, wire, bell, refetch, request, marked, skewed, faults>>
      BY <1>2 DEF FetchPending, shownVars
  <2>2. BatchPending'
      BY <2>1 DEF BatchPending, Ready
  <2>3. HandingHanded'
      BY <1>0, <2>1 DEF HandingHanded
  <2>4. WireHanded'
      BY <1>0, <2>1, WireStays, NothingGrows
  <2>5. WireUp' /\ LoadingEmpty'
      BY <1>0, <2>1 DEF WireUp, LoadingEmpty
  <2> QED BY <2>2, <2>3, <2>4, <2>5, DispatchPartsNext
<1>3. ASSUME Handle PROVE DispatchOK'
  <2>1. OneChanges(Turn, {"handed"}) /\ outbox'[Turn].handed = TRUE /\ Turn \in batch
      BY <1>3, HandleDoes
  <2>2. /\ UNCHANGED <<clock, rows, writing, batch, link, bell, request, marked, faults>> /\ handing' = TRUE
        /\ wire' = IF link = "up" THEN Append(wire, Turn) ELSE wire
        /\ refetch' = IF link = "joining" THEN Crossed(refetch) ELSE refetch
      BY <1>3 DEF Handle
  <2>3. Grows
      BY <1>3, StepsGrow
  <2>4. BatchPending'
      BY <1>0, <2>1, <2>2 DEF BatchPending, OneChanges, SameBut
  <2>5. HandingHanded'
      BY <2>1, <2>2, SameTurn DEF HandingHanded
  <2>6. Turn' = Turn /\ outbox'[Turn].status \in Visible
      BY <1>0, <2>1, <2>2, SameTurn DEF BatchPending, OneChanges, SameBut, Visible
  <2>7. CASE link = "up"
    <3>1. wire \in Seq(DOMAIN outbox) /\ Turn \in DOMAIN outbox /\ wire' = Append(wire, Turn)
        BY <2>1, <2>2, <2>7 DEF BellTypes, OneChanges
    <3>2. /\ DOMAIN wire = 1..Len(wire) /\ DOMAIN wire' = 1..Len(wire) + 1 /\ Len(wire) \in Nat
          /\ wire'[Len(wire) + 1] = Turn /\ \A k \in DOMAIN wire : wire'[k] = wire[k] /\ wire[k] \in DOMAIN outbox
        BY <3>1, AppendProperties, LenProperties, ElementOfSeq
    <3>3. \A k \in DOMAIN wire : outbox'[wire[k]].status \in Visible /\ outbox'[wire[k]].handed
        BY <1>0, <2>3, <3>2 DEF WireHanded, Grows, Committed
    <3>4. ASSUME NEW k \in DOMAIN wire' PROVE outbox'[wire'[k]].status \in Visible /\ outbox'[wire'[k]].handed
      <4>1. CASE k \in DOMAIN wire
          BY <3>2, <3>3, <4>1
      <4>2. CASE k = Len(wire) + 1
          BY <2>1, <2>6, <3>2, <4>2
      <4> QED BY <3>2, <4>1, <4>2
    <3>5. WireHanded'
        BY <3>4 DEF WireHanded, Committed
    <3>6. WireUp' /\ LoadingEmpty'
        BY <2>2, <2>7 DEF WireUp, LoadingEmpty
    <3> QED BY <2>4, <2>5, <3>5, <3>6, DispatchPartsNext
  <2>8. CASE link # "up"
    <3>1. wire' = wire
        BY <2>2, <2>8
    <3>2. WireHanded'
        BY <1>0, <2>3, <3>1, WireStays
    <3>3. WireUp' /\ LoadingEmpty'
        BY <1>0, <2>2, <2>8 DEF WireUp, LoadingEmpty
    <3> QED BY <2>4, <2>5, <3>2, <3>3, DispatchPartsNext
  <2> QED BY <2>7, <2>8
<1>4. ASSUME MarkPublished \/ HandleFailure PROVE DispatchOK'
  <2>1. OneChanges(Turn, {"status", "attempts", "waiting"})
      BY <1>4, PublishDoes, FailureDoes DEF OneChanges, SameBut
  <2>2. /\ UNCHANGED <<clock, rows, writing, link, wire, bell, refetch, request, marked, skewed>>
        /\ handing' = FALSE /\ batch' = batch \ {Turn}
      BY <1>4 DEF MarkPublished, HandleFailure, FinishHead, shownVars
  <2>3. Grows
      BY <1>4, StepsGrow
  <2>4. BatchPending'
      BY <1>0, <2>1, <2>2 DEF BatchPending, OneChanges
  <2>5. HandingHanded' /\ WireUp' /\ LoadingEmpty'
      BY <1>0, <2>2 DEF HandingHanded, WireUp, LoadingEmpty
  <2>6. WireHanded'
      BY <1>0, <2>2, <2>3, WireStays
  <2> QED BY <2>4, <2>5, <2>6, DispatchPartsNext
<1>5. ASSUME NEW i \in DOMAIN outbox, BackoffEnds(i) PROVE DispatchOK'
  <2>1. OneChanges(i, {"waiting"}) /\ Grows
      BY <1>5, BackoffDoes, StepsGrow
  <2>2. UNCHANGED <<clock, rows, writing, batch, handing, link, wire, bell, refetch, request, marked, skewed, faults>>
      BY <1>5 DEF BackoffEnds, dispatcherVars, shownVars
  <2>3. BatchPending'
      BY <1>0, <2>1, <2>2 DEF BatchPending, OneChanges, SameBut
  <2>4. HandingHanded' /\ WireHanded'
      BY <1>0, <2>1, <2>2, HandingStays, WireStays
  <2>5. WireUp' /\ LoadingEmpty'
      BY <1>0, <2>2 DEF WireUp, LoadingEmpty
  <2> QED BY <2>3, <2>4, <2>5, DispatchPartsNext
<1>6. ASSUME AbandonBatch PROVE DispatchOK'
  <2>1. /\ UNCHANGED <<clock, rows, outbox, writing, link, wire, bell, refetch, request, marked, skewed>>
        /\ handing' = FALSE /\ batch' = {}
      BY <1>6 DEF AbandonBatch, shownVars
  <2>2. BatchPending' /\ HandingHanded' /\ WireUp' /\ LoadingEmpty'
      BY <1>0, <2>1 DEF BatchPending, HandingHanded, WireUp, LoadingEmpty
  <2>3. WireHanded'
      BY <1>0, <2>1, WireStays, NothingGrows
  <2> QED BY <2>2, <2>3, DispatchPartsNext
<1>7. ASSUME Crash PROVE DispatchOK'
  <2>1. /\ UNCHANGED <<clock, rows, bell, refetch, marked, skewed>>
        /\ batch' = {} /\ handing' = FALSE /\ wire' = <<>> /\ request' \in {request, Idle}
        /\ link' \in {link, "down"}
      BY <1>7 DEF Crash
  <2>2. BatchPending' /\ HandingHanded' /\ WireUp'
      BY <2>1 DEF BatchPending, HandingHanded, WireUp
  <2>3. LoadingEmpty'
      BY <1>0, <2>1 DEF LoadingEmpty
  <2>4. WireHanded'
      BY <2>1, EmptySeq DEF WireHanded
  <2> QED BY <2>2, <2>3, <2>4, DispatchPartsNext
<1> QED BY <1>1, <1>2, <1>3, <1>4, <1>5, <1>6, <1>7

LEMMA PageKeepsDispatch ==
    ASSUME BellTypes, DispatchOK
    PROVE  /\ RefuseMark => DispatchOK'
           /\ Disconnect \/ Connect \/ JoinRoom \/ RefetchFails \/ ShowRefusal => DispatchOK'
           /\ ReadItems \/ CountUnread \/ ReplaceNotifications => DispatchOK'
           /\ Deliver => DispatchOK'
           /\ (\E o \in Orders : ClickRead(o)) \/ ClickAll \/ DateMarkAll => DispatchOK'
           /\ ApplyAnswer => DispatchOK'
<1>0. BatchPending /\ HandingHanded /\ WireHanded /\ WireUp /\ LoadingEmpty
    BY DispatchParts
<1>a. ASSUME UNCHANGED <<outbox, batch, handing>> PROVE BatchPending' /\ HandingHanded'
    BY <1>0, <1>a, HandingStays, NothingGrows DEF BatchPending
<1>b. ASSUME UNCHANGED <<outbox, wire>> PROVE WireHanded'
    BY <1>0, <1>b, WireStays, NothingGrows
<1>1. ASSUME RefuseMark PROVE DispatchOK'
  <2>1. /\ request.stage = "sent"
        /\ UNCHANGED <<clock, rows, outbox, writing, batch, handing, link, wire, bell, refetch, marked, skewed, faults>>
      BY <1>1, RefuseDoes
  <2>2. BatchPending' /\ HandingHanded' /\ WireHanded'
      BY <1>a, <1>b, <2>1
  <2>3. WireUp' /\ LoadingEmpty'
      BY <1>0, <2>1, IdleIs DEF WireUp, LoadingEmpty
  <2> QED BY <2>2, <2>3, DispatchPartsNext
<1>2. ASSUME Disconnect PROVE DispatchOK'
  <2>1. /\ link' = "down" /\ wire' = <<>>
        /\ UNCHANGED <<clock, rows, outbox, writing, batch, handing, bell, refetch, request, marked, skewed>>
      BY <1>2 DEF Disconnect, dispatcherVars
  <2>2. BatchPending' /\ HandingHanded'
      BY <1>a, <2>1
  <2>3. WireHanded'
      BY <2>1, EmptySeq DEF WireHanded
  <2>4. WireUp' /\ LoadingEmpty'
      BY <2>1 DEF WireUp, LoadingEmpty
  <2> QED BY <2>2, <2>3, <2>4, DispatchPartsNext
<1>3. ASSUME Connect PROVE DispatchOK'
  <2>1. /\ link' = "joining" /\ link \in {"loading", "down"}
        /\ UNCHANGED <<clock, rows, outbox, writing, batch, handing, wire, bell, request, marked, skewed, faults>>
      BY <1>3 DEF Connect, dispatcherVars
  <2>2. BatchPending' /\ HandingHanded' /\ WireHanded'
      BY <1>a, <1>b, <2>1
  <2>3. WireUp' /\ LoadingEmpty'
      BY <1>0, <2>1 DEF WireUp, LoadingEmpty
  <2> QED BY <2>2, <2>3, DispatchPartsNext
<1>4. ASSUME JoinRoom PROVE DispatchOK'
  <2>1. /\ link' = "up"
        /\ UNCHANGED <<clock, rows, outbox, writing, batch, handing, wire, bell, request, marked, skewed, faults>>
      BY <1>4 DEF JoinRoom, dispatcherVars
  <2>2. BatchPending' /\ HandingHanded' /\ WireHanded'
      BY <1>a, <1>b, <2>1
  <2>3. WireUp' /\ LoadingEmpty'
      BY <2>1 DEF WireUp, LoadingEmpty
  <2> QED BY <2>2, <2>3, DispatchPartsNext
<1>5. ASSUME RefetchFails PROVE DispatchOK'
  <2>1. /\ refetch' = Idle
        /\ UNCHANGED <<clock, rows, outbox, writing, batch, handing, link, wire, bell, request, marked>>
      BY <1>5 DEF RefetchFails, dispatcherVars
  <2>2. BatchPending' /\ HandingHanded' /\ WireHanded'
      BY <1>a, <1>b, <2>1
  <2>3. WireUp' /\ LoadingEmpty'
      BY <1>0, <2>1 DEF WireUp, LoadingEmpty
  <2> QED BY <2>2, <2>3, DispatchPartsNext
<1>6. ASSUME ShowRefusal PROVE DispatchOK'
  <2>1. /\ request.stage = "refused"
        /\ UNCHANGED <<clock, rows, outbox, writing, batch, handing, link, wire, bell, marked, skewed, faults>>
      BY <1>6 DEF ShowRefusal, dispatcherVars
  <2>2. BatchPending' /\ HandingHanded' /\ WireHanded'
      BY <1>a, <1>b, <2>1
  <2>3. WireUp' /\ LoadingEmpty'
      BY <1>0, <2>1, IdleIs DEF WireUp, LoadingEmpty
  <2> QED BY <2>2, <2>3, DispatchPartsNext
<1>7. ASSUME ReadItems \/ CountUnread \/ ReplaceNotifications PROVE DispatchOK'
  <2>1. /\ refetch.stage \in {"asked", "items", "answered"}
        /\ UNCHANGED <<clock, rows, outbox, writing, batch, handing, link, wire, request, marked, faults>>
      BY <1>7, ReadDoes, CountDoes, ReplaceDoes
  <2>2. BatchPending' /\ HandingHanded' /\ WireHanded'
      BY <1>a, <1>b, <2>1
  <2>3. WireUp' /\ LoadingEmpty'
      BY <1>0, <2>1, IdleIs DEF WireUp, LoadingEmpty
  <2> QED BY <2>2, <2>3, DispatchPartsNext
<1>8. ASSUME Deliver PROVE DispatchOK'
  <2>1. /\ link = "up" /\ Len(wire) \in Nat /\ Len(wire) > 0
        /\ DOMAIN wire = 1..Len(wire) /\ DOMAIN wire' = 1..Len(wire) - 1
        /\ \A k \in 1..Len(wire) - 1 : wire'[k] = wire[k + 1]
        /\ UNCHANGED <<clock, rows, outbox, writing, batch, handing, link, request, marked, skewed, faults>>
      BY <1>8, DeliverDoes
  <2>2. BatchPending' /\ HandingHanded'
      BY <1>a, <2>1
  <2>3. ASSUME NEW k \in DOMAIN wire' PROVE outbox'[wire'[k]].status \in Visible /\ outbox'[wire'[k]].handed
    <3>1. k + 1 \in DOMAIN wire /\ wire'[k] = wire[k + 1]
        BY <2>1
    <3> QED BY <1>0, <2>1, <3>1 DEF WireHanded, Committed
  <2>4. WireHanded'
      BY <2>3 DEF WireHanded, Committed
  <2>5. WireUp' /\ LoadingEmpty'
      BY <2>1 DEF WireUp, LoadingEmpty
  <2> QED BY <2>2, <2>4, <2>5, DispatchPartsNext
<1>9. ASSUME NEW o \in Orders, ClickRead(o) PROVE DispatchOK'
  <2>1. /\ bell.items[o].at > 0
        /\ UNCHANGED <<clock, rows, outbox, writing, batch, handing, link, wire, bell, refetch, skewed, faults>>
      BY <1>9, ClickReadDoes
  <2>2. BatchPending' /\ HandingHanded' /\ WireHanded'
      BY <1>a, <1>b, <2>1
  <2>3. WireUp' /\ LoadingEmpty'
      BY <1>0, <2>1 DEF WireUp, LoadingEmpty
  <2> QED BY <2>2, <2>3, DispatchPartsNext
<1>10. ASSUME ClickAll PROVE DispatchOK'
  <2>1. /\ bell.unread > 0
        /\ UNCHANGED <<clock, rows, outbox, writing, batch, handing, link, wire, bell, refetch, skewed, faults>>
      BY <1>10, ClickAllDoes
  <2>2. BatchPending' /\ HandingHanded' /\ WireHanded'
      BY <1>a, <1>b, <2>1
  <2>3. WireUp' /\ LoadingEmpty'
      BY <1>0, <2>1 DEF WireUp, LoadingEmpty
  <2> QED BY <2>2, <2>3, DispatchPartsNext
<1>12. ASSUME DateMarkAll PROVE DispatchOK'
  <2>1. /\ request = Asking
        /\ UNCHANGED <<clock, rows, outbox, writing, batch, handing, link, wire, bell, refetch, skewed, faults>>
      BY <1>12, DateAllDoes
  <2>2. BatchPending' /\ HandingHanded' /\ WireHanded'
      BY <1>a, <1>b, <2>1
  <2>3. WireUp' /\ LoadingEmpty'
      BY <1>0, <2>1, AskingIs DEF WireUp, LoadingEmpty
  <2> QED BY <2>2, <2>3, DispatchPartsNext
<1>11. ASSUME ApplyAnswer PROVE DispatchOK'
  <2>1. /\ request.stage = "done"
        /\ UNCHANGED <<clock, rows, outbox, writing, batch, handing, link, wire, refetch, marked, faults>>
      BY <1>11 DEF ApplyAnswer, dispatcherVars
  <2>2. BatchPending' /\ HandingHanded' /\ WireHanded'
      BY <1>a, <1>b, <2>1
  <2>3. WireUp' /\ LoadingEmpty'
      BY <1>0, <2>1, IdleIs DEF WireUp, LoadingEmpty
  <2> QED BY <2>2, <2>3, DispatchPartsNext
<1> QED BY <1>1, <1>2, <1>3, <1>4, <1>5, <1>6, <1>7, <1>8, <1>9, <1>10, <1>11, <1>12

-------------------------------------------------------------------------------
\* Who writes, and what the reader asked for.
EventsOpen == \A w \in Writers : Open(w) =>
                writing[w].event \in DOMAIN outbox /\ outbox[writing[w].event].status = "OPEN"
EventsApart == \A v, w \in Writers : Open(v) /\ Open(w) /\ writing[v].event = writing[w].event => v = w
ReaderAsks == /\ Open(Reader) <=> request.stage = "open"
              /\ Open(Reader) => Marks(request, outbox[writing[Reader].event].body)
AnswerStands == request.stage = "done" => /\ request.event \in DOMAIN outbox /\ Committed(request.event)
                                          /\ Marks(request.of, outbox[request.event].body)
LEMMA WritersParts == WritersOK <=> EventsOpen /\ EventsApart /\ ReaderAsks /\ AnswerStands
    BY DEF WritersOK, EventsOpen, EventsApart, ReaderAsks, AnswerStands
LEMMA WritersPartsNext ==
    ASSUME EventsOpen', EventsApart', ReaderAsks', AnswerStands'
    PROVE  WritersOK'
    BY DEF WritersOK, EventsOpen, EventsApart, ReaderAsks, AnswerStands

LEMMA AnswerStays ==
    ASSUME AnswerStands, Grows, request' = request \/ request'.stage # "done"
    PROVE  AnswerStands'
    BY DEF AnswerStands, Grows, Committed

\* A mark that goes on as it was asked.
LEMMA SameMark ==
    ASSUME NEW r, NEW s, NEW b, s.kind = r.kind,
           r.kind = "one" => s.order = r.order /\ s.at = r.at, r.kind = "all" => s.cutoff = r.cutoff
    PROVE  Marks(r, b) <=> Marks(s, b)
    BY DEF Marks

LEMMA BeginWriters ==
    ASSUME BellTypes, WritersOK, NEW w \in Writers, NEW wrote \in SUBSET Orders, NEW new \in Rows, NEW b \in Bodies,
           BeginWrite(w, wrote, new, b),
           w # Reader => request' = request,
           w = Reader => request'.stage = "open" /\ Marks(request', b)
    PROVE  WritersOK'
<1>1. /\ ~Open(w) /\ Open(w)' /\ \A v \in Writers \ {w} : writing'[v] = writing[v]
      /\ writing'[w].event = Len(outbox) + 1
      /\ outbox'[Len(outbox) + 1].body = b /\ outbox'[Len(outbox) + 1].status = "OPEN"
    BY WriteBegins
<1>2. /\ DOMAIN outbox = 1..Len(outbox) /\ DOMAIN outbox' = 1..Len(outbox) + 1 /\ Len(outbox) \in Nat
      /\ \A k \in DOMAIN outbox : outbox'[k] = outbox[k]
    BY WriteBegins
<1>3. EventsOpen /\ EventsApart /\ ReaderAsks /\ AnswerStands
    BY WritersParts
<1>4. \A v \in Writers \ {w} : Open(v)' <=> Open(v)
    BY <1>1 DEF Open
<1>5. \A v \in Writers \ {w} : Open(v)' =>
        /\ writing'[v].event = writing[v].event /\ writing[v].event \in DOMAIN outbox
        /\ outbox'[writing'[v].event] = outbox[writing[v].event] /\ outbox[writing[v].event].status = "OPEN"
        /\ writing'[v].event # writing'[w].event
    BY <1>1, <1>2, <1>3, <1>4 DEF EventsOpen
<1>6. EventsOpen'
  <2>1. writing'[w].event \in DOMAIN outbox' /\ outbox'[writing'[w].event].status = "OPEN"
      BY <1>1, <1>2
  <2>2. \A v \in Writers \ {w} : Open(v)' => writing'[v].event \in DOMAIN outbox' /\ outbox'[writing'[v].event].status = "OPEN"
      BY <1>2, <1>5
  <2> QED BY <2>1, <2>2 DEF EventsOpen
<1>7. EventsApart'
    BY <1>1, <1>3, <1>4, <1>5 DEF EventsApart
<1>8. Reader \in Writers
    BY DEF Writers
<1>9. ReaderAsks'
  <2>1. CASE w = Reader
      BY <1>1, <2>1 DEF ReaderAsks
  <2>2. CASE w # Reader
      BY <1>3, <1>4, <1>5, <1>8, <2>2 DEF ReaderAsks
  <2> QED BY <2>1, <2>2
<1>10. AnswerStands'
  <2>1. Grows
      BY BeginGrows
  <2> QED BY <1>3, <2>1, AnswerStays
<1> QED BY <1>6, <1>7, <1>9, <1>10, WritersPartsNext

LEMMA BeginsKeepWriters ==
    ASSUME BellTypes, WritersOK
    PROVE  /\ \A w \in Senders, o \in Orders : SendMessage(w, o) => WritersOK'
           /\ MarkRead => WritersOK'
           /\ MarkAllRead => WritersOK'
<1>1. ASSUME NEW w \in Senders, NEW o \in Orders, SendMessage(w, o) PROVE WritersOK'
  <2>1. PICK new \in Rows, b \in Bodies :
             /\ BeginWrite(w, {o}, new, b) /\ w \in Writers /\ {o} \in SUBSET Orders /\ w # Reader
             /\ UNCHANGED request
      BY <1>1, MessageBegins
  <2> QED BY <2>1, BeginWriters
<1>2. ASSUME MarkRead PROVE WritersOK'
  <2>1. PICK new \in Rows, b \in Bodies, o \in Orders :
             /\ BeginWrite(Reader, {o}, new, b) /\ Reader \in Writers /\ {o} \in SUBSET Orders
             /\ b.kind = "updated" /\ b.order = o /\ b.at = rows[o].at /\ b.read = TRUE
             /\ request.at = rows[o].at /\ request'.stage = "open" /\ request'.kind = "one"
             /\ request'.order = o /\ request'.at = request.at
      BY <1>2, MarkBegins
  <2>2. Marks(request', b)
      BY <2>1 DEF Marks
  <2> QED BY <2>1, <2>2, BeginWriters
<1>3. ASSUME MarkAllRead PROVE WritersOK'
  <2>1. PICK new \in Rows, b \in Bodies, cutoff \in 0..MaxMessages :
             /\ BeginWrite(Reader, UpTo(cutoff), new, b) /\ Reader \in Writers /\ UpTo(cutoff) \in SUBSET Orders
             /\ b.kind = "read-all" /\ b.cutoff = cutoff
             /\ request'.stage = "open" /\ request'.kind = "all" /\ request'.cutoff = cutoff
      BY <1>3, MarkAllBegins
  <2>2. Marks(request', b)
      BY <2>1 DEF Marks
  <2> QED BY <2>1, <2>2, BeginWriters
<1> QED BY <1>1, <1>2, <1>3

\* The entries that are still open stay so, but for the one that commits.
OpenStay == \A k \in DOMAIN outbox : outbox[k].status = "OPEN" => outbox'[k].status = "OPEN"

LEMMA WritersStay ==
    ASSUME WritersOK, Grows, OpenStay, UNCHANGED <<writing, request>>
    PROVE  WritersOK'
<1>1. EventsOpen /\ EventsApart /\ ReaderAsks /\ AnswerStands
    BY WritersParts
<1>2. \A w \in Writers : Open(w)' <=> Open(w)
    BY DEF Open
<1>3. EventsOpen'
    BY <1>1, <1>2 DEF EventsOpen, Grows, OpenStay
<1>4. EventsApart'
    BY <1>1, <1>2 DEF EventsApart
<1>5. ReaderAsks'
  <2>1. Reader \in Writers
      BY DEF Writers
  <2>2. Open(Reader) => outbox'[writing[Reader].event].body = outbox[writing[Reader].event].body
      BY <1>1, <2>1 DEF EventsOpen, Grows
  <2> QED BY <1>1, <1>2, <2>1, <2>2 DEF ReaderAsks
<1>6. AnswerStands'
    BY <1>1, AnswerStays
<1> QED BY <1>3, <1>4, <1>5, <1>6, WritersPartsNext

LEMMA StepsKeepWriters ==
    ASSUME BellTypes, EntriesOK, DispatchOK, WritersOK
    PROVE  /\ \A w \in Writers : Commit(w) => WritersOK'
           /\ FetchPending => WritersOK'
           /\ Handle => WritersOK'
           /\ MarkPublished => WritersOK'
           /\ HandleFailure => WritersOK'
           /\ \A i \in DOMAIN outbox : BackoffEnds(i) => WritersOK'
           /\ AbandonBatch => WritersOK'
           /\ Crash => WritersOK'
<1>0. EventsOpen /\ EventsApart /\ ReaderAsks /\ AnswerStands
    BY WritersParts
<1>1. ASSUME NEW w \in Writers, Commit(w) PROVE WritersOK'
  <2>1. /\ OneChanges(writing[w].event, {"status"}) /\ outbox'[writing[w].event].status = "PENDING"
        /\ ~Open(w)' /\ Open(w)
        /\ \A v \in Writers \ {w} : writing'[v] = writing[v]
        /\ w # Reader => request' = request
        /\ w = Reader => /\ request.stage = "open" /\ request'.stage = "done" /\ request'.of = request
                         /\ request'.event = writing[w].event
      BY <1>1, CommitDoes, CommitTypes
  <2>2. Grows
      BY <1>1, StepsGrow
  <2>3. \A v \in Writers \ {w} : Open(v)' <=> Open(v)
      BY <2>1 DEF Open
  <2>4. \A v \in Writers \ {w} : Open(v) => writing[v].event \in DOMAIN outbox /\ writing[v].event # writing[w].event
      BY <1>0, <2>1 DEF EventsOpen, EventsApart
  <2>5. EventsOpen'
      BY <1>0, <2>1, <2>3, <2>4 DEF EventsOpen, OneChanges
  <2>6. EventsApart'
      BY <1>0, <2>1, <2>3 DEF EventsApart
  <2>7. Reader \in Writers
      BY DEF Writers
  <2>8. CASE w = Reader
    <3>1. ReaderAsks'
        BY <2>1, <2>8 DEF ReaderAsks
    <3>2. /\ writing[w].event \in DOMAIN outbox' /\ outbox'[writing[w].event].body = outbox[writing[w].event].body
          /\ Marks(request, outbox[writing[w].event].body)
        BY <1>0, <2>1, <2>8 DEF OneChanges, SameBut, ReaderAsks
    <3>3. AnswerStands'
        BY <2>1, <2>8, <3>2 DEF AnswerStands, Committed, Visible
    <3> QED BY <2>5, <2>6, <3>1, <3>3, WritersPartsNext
  <2>9. CASE w # Reader
    <3>1. Open(Reader) => outbox'[writing[Reader].event].body = outbox[writing[Reader].event].body
        BY <2>2, <2>4, <2>7, <2>9 DEF Grows
    <3>2. ReaderAsks'
        BY <1>0, <2>1, <2>3, <2>7, <2>9, <3>1 DEF ReaderAsks
    <3>3. AnswerStands'
        BY <1>0, <2>1, <2>2, <2>9, AnswerStays
    <3> QED BY <2>5, <2>6, <3>2, <3>3, WritersPartsNext
  <2> QED BY <2>8, <2>9
<1>2. ASSUME FetchPending PROVE WritersOK'
    BY <1>2, NothingGrows, WritersStay DEF FetchPending, shownVars, OpenStay
<1>3. ASSUME Handle PROVE WritersOK'
  <2>1. OneChanges(Turn, {"handed"}) /\ Grows
      BY <1>3, HandleDoes, StepsGrow
  <2>2. OpenStay
      BY <2>1 DEF OpenStay, OneChanges, SameBut
  <2> QED BY <1>3, <2>1, <2>2, WritersStay DEF Handle
<1>4. ASSUME MarkPublished \/ HandleFailure PROVE WritersOK'
  <2>1. OneChanges(Turn, {"status", "attempts", "waiting"}) /\ Turn \in batch
      BY <1>4, PublishDoes, FailureDoes DEF OneChanges, SameBut
  <2>2. outbox[Turn].status = "PENDING"
      BY <2>1 DEF DispatchOK
  <2>3. OpenStay
      BY <2>1, <2>2 DEF OpenStay, OneChanges
  <2>4. UNCHANGED <<writing, request>>
      BY <1>4 DEF MarkPublished, HandleFailure, FinishHead
  <2> QED BY <1>4, <2>3, <2>4, StepsGrow, WritersStay
<1>5. ASSUME NEW i \in DOMAIN outbox, BackoffEnds(i) PROVE WritersOK'
  <2>1. OneChanges(i, {"waiting"}) /\ Grows
      BY <1>5, BackoffDoes, StepsGrow
  <2>2. OpenStay
      BY <2>1 DEF OpenStay, OneChanges, SameBut
  <2> QED BY <1>5, <2>1, <2>2, WritersStay DEF BackoffEnds
<1>6. ASSUME AbandonBatch PROVE WritersOK'
    BY <1>6, NothingGrows, WritersStay DEF AbandonBatch, OpenStay
<1>7. ASSUME Crash PROVE WritersOK'
  <2>1. /\ \A w \in Writers : ~Open(w)'
        /\ Grows
      BY <1>7, CrashDoes, StepsGrow
  <2>2. request' = (IF request.stage \in {"asking", "sent", "open"} THEN Idle ELSE request)
      BY <1>7 DEF Crash
  <2>3. EventsOpen' /\ EventsApart'
      BY <2>1 DEF EventsOpen, EventsApart
  <2>4. Reader \in Writers
      BY DEF Writers
  <2>5. ReaderAsks'
      BY <2>1, <2>2, <2>4, IdleIs DEF ReaderAsks
  <2>6. AnswerStands'
      BY <1>0, <2>1, <2>2, IdleIs, AnswerStays
  <2> QED BY <2>3, <2>5, <2>6, WritersPartsNext
<1> QED BY <1>1, <1>2, <1>3, <1>4, <1>5, <1>6, <1>7

\* The page does not write: it asks, and takes its answer.
LEMMA AskingStays ==
    ASSUME WritersOK, UNCHANGED <<outbox, writing>>, request.stage # "open", request'.stage \notin {"open", "done"}
    PROVE  WritersOK'
<1>1. EventsOpen /\ EventsApart /\ ReaderAsks /\ AnswerStands
    BY WritersParts
<1>2. EventsOpen' /\ EventsApart'
    BY <1>1 DEF EventsOpen, EventsApart, Open
<1>3. ReaderAsks'
    BY <1>1 DEF ReaderAsks, Open
<1>4. AnswerStands'
    BY DEF AnswerStands
<1> QED BY <1>2, <1>3, <1>4, WritersPartsNext

LEMMA PageKeepsWriters ==
    ASSUME BellTypes, WritersOK
    PROVE  /\ RefuseMark => WritersOK'
           /\ Disconnect \/ Connect \/ JoinRoom \/ RefetchFails \/ ShowRefusal => WritersOK'
           /\ ReadItems \/ CountUnread \/ ReplaceNotifications => WritersOK'
           /\ Deliver => WritersOK'
           /\ (\E o \in Orders : ClickRead(o)) \/ ClickAll \/ DateMarkAll => WritersOK'
           /\ ApplyAnswer => WritersOK'
<1>0. ASSUME UNCHANGED <<outbox, writing, request>> PROVE WritersOK'
    BY <1>0, NothingGrows, WritersStay DEF OpenStay
<1>1. ASSUME RefuseMark PROVE WritersOK'
  <2>1. request.stage = "sent" /\ request'.stage = "refused" /\ UNCHANGED <<outbox, writing>>
      BY <1>1, RefuseDoes
  <2> QED BY <2>1, AskingStays
<1>2. ASSUME Disconnect \/ Connect \/ JoinRoom \/ RefetchFails PROVE WritersOK'
    BY <1>0, <1>2 DEF Disconnect, Connect, JoinRoom, RefetchFails
<1>3. ASSUME ShowRefusal PROVE WritersOK'
  <2>1. request.stage = "refused" /\ request' = Idle /\ UNCHANGED <<outbox, writing>>
      BY <1>3 DEF ShowRefusal
  <2> QED BY <2>1, AskingStays, IdleIs
<1>4. ASSUME ReadItems \/ CountUnread \/ ReplaceNotifications PROVE WritersOK'
    BY <1>0, <1>4 DEF ReadItems, CountUnread, ReplaceNotifications
<1>5. ASSUME Deliver PROVE WritersOK'
    BY <1>0, <1>5 DEF Deliver
<1>6. ASSUME NEW o \in Orders, ClickRead(o) PROVE WritersOK'
  <2>1. request = Idle /\ request'.stage = "sent" /\ UNCHANGED <<outbox, writing>>
      BY <1>6, ClickReadDoes
  <2> QED BY <2>1, AskingStays, IdleIs
<1>7. ASSUME ClickAll PROVE WritersOK'
  <2>1. request = Idle /\ request'.stage = "asking" /\ UNCHANGED <<outbox, writing>>
      BY <1>7, ClickAllDoes
  <2> QED BY <2>1, AskingStays, IdleIs
<1>9. ASSUME DateMarkAll PROVE WritersOK'
  <2>1. request = Asking /\ request'.stage = "sent" /\ UNCHANGED <<outbox, writing>>
      BY <1>9, DateAllDoes
  <2> QED BY <2>1, AskingStays, AskingIs
<1>8. ASSUME ApplyAnswer PROVE WritersOK'
  <2>1. request.stage = "done" /\ request' = Idle /\ UNCHANGED <<outbox, writing>>
      BY <1>8 DEF ApplyAnswer
  <2> QED BY <2>1, AskingStays, IdleIs
<1> QED BY <1>1, <1>2, <1>3, <1>4, <1>5, <1>6, <1>7, <1>8, <1>9

-------------------------------------------------------------------------------
\* Times.
LEMMA TimesGoOn ==
    ASSUME NEW items \in Rows, NEW m \in Int, NEW n \in Int, m <= n, RowsUpTo(items, m)
    PROVE  RowsUpTo(items, n)
<1>1. \A o \in Orders : items[o].at \in Nat
    BY RowTimes
<1> QED BY <1>1 DEF RowsUpTo

LEMMA TimelyGoesOn ==
    ASSUME NEW b \in Bodies, NEW m \in Int, NEW n \in Int, m <= n, Timely(b, m)
    PROVE  Timely(b, n)
<1>1. (b.kind = "updated" => b.at \in Int) /\ (b.kind = "read-all" => b.cutoff \in Int)
    BY BodyIs
<1> QED BY <1>1 DEF Timely

LEMMA TimesAre ==
    ASSUME BellTypes
    PROVE  /\ clock \in Int /\ rows \in Rows /\ bell.items \in Rows
           /\ refetch.stage \in {"items", "answered"} => refetch.items \in Rows
           /\ \A w \in Writers : Open(w) => writing[w].new \in Rows
           /\ \A i \in DOMAIN outbox : outbox[i].body \in Bodies
           /\ \A o \in Orders : marked[o] \in Int
           /\ \A o \in Orders : rows[o].at \in Int
<1>1. clock \in 0..MaxMessages /\ rows \in Rows /\ refetch \in Refetchings /\ marked \in [Orders -> 0..MaxMessages]
    BY DEF BellTypes
<1>2. \A o \in Orders : rows[o].at \in Int
    BY <1>1, RowTimes
<1>3. \A i \in DOMAIN outbox : outbox[i].body \in Bodies
    BY EntryOf, EntryIs
<1>4. \A o \in Orders : marked[o] \in Int
    BY <1>1
<1> QED BY <1>1, <1>2, <1>3, <1>4, ShownIs, RefetchIs, WriterIs

LEMMA BeginTimes ==
    ASSUME BellTypes, TimesOK, NEW w \in Writers, NEW wrote \in SUBSET Orders, NEW new \in Rows, NEW b \in Bodies,
           BeginWrite(w, wrote, new, b), clock' \in Int, clock <= clock',
           RowsUpTo(new, clock'), Timely(b, clock'),
           \A i \in DOMAIN outbox : Before(outbox[i].body, b)
    PROVE  TimesOK'
<1>1. /\ ~Open(w) /\ Open(w)' /\ \A v \in Writers \ {w} : writing'[v] = writing[v]
      /\ writing'[w].new = new
      /\ outbox'[Len(outbox) + 1].body = b
      /\ UNCHANGED <<rows, batch, handing, link, wire, bell, refetch, marked, faults>>
    BY WriteBegins
<1>2. /\ DOMAIN outbox = 1..Len(outbox) /\ DOMAIN outbox' = 1..Len(outbox) + 1 /\ Len(outbox) \in Nat
      /\ \A k \in DOMAIN outbox : outbox'[k] = outbox[k]
    BY WriteBegins
<1>3. /\ clock \in Int /\ rows \in Rows /\ bell.items \in Rows
      /\ refetch.stage \in {"items", "answered"} => refetch.items \in Rows
      /\ \A v \in Writers : Open(v) => writing[v].new \in Rows
      /\ \A i \in DOMAIN outbox : outbox[i].body \in Bodies
      /\ \A o \in Orders : marked[o] \in Int
    BY TimesAre
<1>4. RowsTimely'
    BY <1>1, <1>3, TimesGoOn DEF TimesOK, RowsTimely
<1>5. ScreenTimely'
    BY <1>1, <1>3, TimesGoOn DEF TimesOK, ScreenTimely
<1>6. NewTimely'
  <2>1. \A v \in Writers \ {w} : (Open(v)' <=> Open(v)) /\ writing'[v].new = writing[v].new
      BY <1>1 DEF Open
  <2>2. \A v \in Writers \ {w} : Open(v)' => RowsUpTo(writing'[v].new, clock')
      BY <1>3, <2>1, TimesGoOn DEF TimesOK, NewTimely
  <2> QED BY <1>1, <2>2 DEF NewTimely
<1>7. BodiesTimely'
  <2>1. \A i \in DOMAIN outbox : Timely(outbox'[i].body, clock')
      BY <1>2, <1>3, TimelyGoesOn DEF TimesOK, BodiesTimely
  <2> QED BY <1>1, <1>2, <2>1 DEF BodiesTimely
<1>8. MarksBefore'
  <2>1. \A i, k \in DOMAIN outbox : i < k => Before(outbox'[i].body, outbox'[k].body)
      BY <1>2 DEF TimesOK, MarksBefore
  <2>2. \A i \in DOMAIN outbox : Before(outbox'[i].body, outbox'[Len(outbox) + 1].body)
      BY <1>1, <1>2
  <2>3. \A i, k \in DOMAIN outbox' : i < k => i \in DOMAIN outbox /\ (k \in DOMAIN outbox \/ k = Len(outbox) + 1)
      BY <1>2
  <2> QED BY <2>1, <2>2, <2>3 DEF MarksBefore
<1>9. MarkedTimely'
    BY <1>1, <1>3 DEF TimesOK, MarkedTimely
<1> QED BY <1>4, <1>5, <1>6, <1>7, <1>8, <1>9 DEF TimesOK

LEMMA BeginMarks ==
    ASSUME BellTypes, MarksOK, NEW w \in Writers, NEW wrote \in SUBSET Orders, NEW new \in Rows, NEW b \in Bodies,
           BeginWrite(w, wrote, new, b), RequestAsked',
           \A o \in wrote : new[o].read => new[o].at <= marked[o]
    PROVE  MarksOK'
<1>1. /\ ~Open(w) /\ Open(w)' /\ \A v \in Writers \ {w} : writing'[v] = writing[v]
      /\ writing'[w].new = new /\ writing'[w].wrote = wrote
      /\ UNCHANGED <<rows, batch, handing, link, wire, bell, refetch, marked, faults>>
    BY WriteBegins
<1>2. RowsAsked'
    BY <1>1 DEF MarksOK, RowsAsked
<1>3. NewAsked'
  <2>1. \A v \in Writers \ {w} : Open(v)' <=> Open(v)
      BY <1>1 DEF Open
  <2>2. ASSUME NEW v \in Writers, Open(v)', NEW o \in writing'[v].wrote, writing'[v].new[o].read
        PROVE  writing'[v].new[o].at <= marked'[o]
    <3>1. CASE v = w
        BY <1>1, <2>2, <3>1
    <3>2. CASE v # w
      <4>1. Open(v) /\ writing'[v] = writing[v] /\ marked' = marked
          BY <1>1, <2>1, <2>2, <3>2
      <4> QED BY <2>2, <4>1 DEF MarksOK, NewAsked
    <3> QED BY <3>1, <3>2
  <2> QED BY <2>2 DEF NewAsked
<1> QED BY <1>2, <1>3 DEF MarksOK

LEMMA BeginsKeepTimes ==
    ASSUME BellTypes, TimesOK, MarksOK
    PROVE  /\ \A w \in Senders, o \in Orders : SendMessage(w, o) => TimesOK' /\ MarksOK'
           /\ MarkRead => TimesOK' /\ MarksOK'
           /\ MarkAllRead => TimesOK' /\ MarksOK'
<1>0. /\ clock \in Int /\ rows \in Rows /\ \A i \in DOMAIN outbox : outbox[i].body \in Bodies
      /\ \A o \in Orders : marked[o] \in Int
      /\ \A o \in Orders : rows[o].at \in Int
    BY TimesAre
<1>1. ASSUME NEW w \in Senders, NEW o \in Orders, SendMessage(w, o) PROVE TimesOK' /\ MarksOK'
  <2>1. PICK new \in Rows, b \in Bodies :
             /\ BeginWrite(w, {o}, new, b) /\ w \in Writers /\ {o} \in SUBSET Orders /\ w # Reader
             /\ \A p \in Orders \ {o} : new[p] = rows[p]
             /\ new[o].at = clock + 1 /\ new[o].read = FALSE
             /\ b.kind = "updated" /\ b.order = o /\ b.at = clock + 1 /\ b.read = FALSE /\ b.unread = Unread(new)
             /\ clock \in Nat /\ clock' = clock + 1 /\ clock' \in 0..MaxMessages /\ UNCHANGED request
      BY <1>1, MessageBegins
  <2>2. clock' \in Int /\ clock <= clock'
      BY <2>1
  <2>3. RowsUpTo(new, clock')
    <3>1. \A p \in Orders \ {o} : new[p].at <= clock
        BY <2>1 DEF TimesOK, RowsTimely, RowsUpTo
    <3>2. \A p \in Orders : new[p].at <= clock'
        BY <1>0, <2>1, <3>1
    <3> QED BY <3>2 DEF RowsUpTo
  <2>4. Timely(b, clock')
      BY <2>1 DEF Timely
  <2>5. ASSUME NEW i \in DOMAIN outbox PROVE Before(outbox[i].body, b)
    <3>1. outbox[i].body.kind = "read-all" => outbox[i].body.cutoff <= clock /\ outbox[i].body.cutoff \in Int
        BY <1>0, BodyIs DEF TimesOK, BodiesTimely, Timely
    <3> QED BY <1>0, <2>1, <3>1 DEF Before
  <2>6. TimesOK'
      BY <2>1, <2>2, <2>3, <2>4, <2>5, BeginTimes
  <2>7. UNCHANGED marked
      BY <2>1, WriteBegins
  <2>8. RequestAsked'
    <3>1. request \in Requests
        BY DEF BellTypes
    <3>2. request.stage \in OpenMarks /\ request.kind = "all" => request.cutoff \in 0..MaxMessages
        BY <3>1, RequestIs, Zenon
    <3> QED BY <1>0, <2>1, <2>2, <2>7, <3>2, NotificationsAssumption DEF MarksOK, RequestAsked, Asks
  <2>9. MarksOK'
      BY <2>1, <2>8, BeginMarks
  <2> QED BY <2>6, <2>9
<1>2. ASSUME MarkRead PROVE TimesOK' /\ MarksOK'
  <2>1. PICK new \in Rows, b \in Bodies, o \in Orders :
             /\ BeginWrite(Reader, {o}, new, b) /\ Reader \in Writers /\ {o} \in SUBSET Orders
             /\ \A p \in Orders \ {o} : new[p] = rows[p]
             /\ new[o].at = rows[o].at /\ new[o].read = TRUE
             /\ b.kind = "updated" /\ b.order = o /\ b.at = rows[o].at /\ b.read = TRUE /\ b.unread = Unread(new)
             /\ request.stage = "sent" /\ request.kind = "one" /\ request.order = o /\ request.at = rows[o].at
             /\ request' \in Requests /\ request'.stage = "open" /\ request'.kind = "one"
             /\ request'.order = o /\ request'.at = request.at /\ UNCHANGED clock
      BY <1>2, MarkBegins
  <2>2. clock' \in Int /\ clock <= clock'
      BY <1>0, <2>1
  <2>3. RowsUpTo(new, clock')
      BY <2>1 DEF TimesOK, RowsTimely, RowsUpTo
  <2>4. Timely(b, clock')
      BY <2>1 DEF TimesOK, RowsTimely, RowsUpTo, Timely
  <2>5. \A i \in DOMAIN outbox : Before(outbox[i].body, b)
      BY <2>1 DEF Before
  <2>6. TimesOK'
      BY <2>1, <2>2, <2>3, <2>4, <2>5, BeginTimes
  <2>7. UNCHANGED marked
      BY <2>1, WriteBegins
  <2>8. request.at <= marked[o]
      BY <2>1 DEF MarksOK, RequestAsked, Asks, OpenMarks
  <2>9. RequestAsked'
      BY <2>1, <2>7, <2>8 DEF RequestAsked, Asks
  <2>10. MarksOK'
      BY <2>1, <2>8, <2>9, BeginMarks
  <2> QED BY <2>6, <2>10
<1>3. ASSUME MarkAllRead PROVE TimesOK' /\ MarksOK'
  <2>1. PICK new \in Rows, b \in Bodies, cutoff \in 0..MaxMessages :
             /\ BeginWrite(Reader, UpTo(cutoff), new, b) /\ Reader \in Writers /\ UpTo(cutoff) \in SUBSET Orders
             /\ \A p \in Orders : new[p].at = rows[p].at /\ new[p].read = TRUE
             /\ b.kind = "read-all" /\ b.cutoff = cutoff /\ b.unread = Unread(With(UpTo(cutoff), new))
             /\ request.stage = "sent" /\ request.kind = "all" /\ request.cutoff = cutoff
             /\ request' \in Requests /\ request'.stage = "open" /\ request'.kind = "all"
             /\ request'.cutoff = cutoff /\ UNCHANGED clock
      BY <1>3, MarkAllBegins
  <2>2. clock' \in Int /\ clock <= clock'
      BY <1>0, <2>1
  <2>3. RowsUpTo(new, clock')
      BY <2>1 DEF TimesOK, RowsTimely, RowsUpTo
  <2>4. cutoff <= clock /\ \A o \in Orders : cutoff <= marked[o]
      BY <2>1 DEF MarksOK, RequestAsked, Asks, OpenMarks
  <2>5. Timely(b, clock')
      BY <2>1, <2>4 DEF Timely
  <2>6. \A i \in DOMAIN outbox : Before(outbox[i].body, b)
      BY <2>1 DEF Before
  <2>7. TimesOK'
      BY <2>1, <2>2, <2>3, <2>5, <2>6, BeginTimes
  <2>8. UNCHANGED marked
      BY <2>1, WriteBegins
  <2>9. RequestAsked'
      BY <2>1, <2>4, <2>8 DEF RequestAsked, Asks
  <2>10. ASSUME NEW o \in UpTo(cutoff) PROVE new[o].at <= marked[o]
    <3>1. o \in Orders /\ rows[o].at \in 1..cutoff
        BY DEF UpTo
    <3> QED BY <1>0, <2>1, <2>4, <3>1
  <2>11. MarksOK'
      BY <2>1, <2>9, <2>10, BeginMarks
  <2> QED BY <2>7, <2>11
<1> QED BY <1>1, <1>2, <1>3

\* Nothing but a commit changes the rows, and nothing but the page what it shows.
LEMMA TimesStay ==
    ASSUME BellTypes, TimesOK, Grows, DOMAIN outbox' = DOMAIN outbox,
           UNCHANGED <<clock, marked>>,
           RowsTimely', ScreenTimely', \A w \in Writers : Open(w)' => Open(w) /\ writing'[w] = writing[w]
    PROVE  TimesOK'
<1>1. NewTimely'
    BY DEF TimesOK, NewTimely
<1>2. BodiesTimely'
    BY DEF TimesOK, BodiesTimely, Grows
<1>3. MarksBefore'
    BY DEF TimesOK, MarksBefore, Grows
<1>4. MarkedTimely'
    BY DEF TimesOK, MarkedTimely
<1> QED BY <1>1, <1>2, <1>3, <1>4 DEF TimesOK

LEMMA ScreenStays ==
    ASSUME BellTypes, TimesOK, UNCHANGED <<clock, bell>>, refetch' \in {refetch, Crossed(refetch)}
    PROVE  ScreenTimely'
<1>1. refetch' = refetch \/ (refetch'.stage = refetch.stage /\
        (refetch.stage \in {"items", "answered"} => refetch'.items = refetch.items))
    BY RefetchIs DEF BellTypes
<1> QED BY <1>1 DEF TimesOK, ScreenTimely

LEMMA RowsStay == ASSUME TimesOK, UNCHANGED <<clock, rows>> PROVE RowsTimely'
    BY DEF TimesOK, RowsTimely

LEMMA MarksStay ==
    ASSUME MarksOK, UNCHANGED <<clock, rows, marked>>, request' = request \/ request'.stage \notin OpenMarks,
           \A w \in Writers : Open(w)' => Open(w) /\ writing'[w] = writing[w]
    PROVE  MarksOK'
<1>1. RequestAsked'
    BY DEF MarksOK, RequestAsked, Asks
<1>2. RowsAsked'
    BY DEF MarksOK, RowsAsked
<1>3. NewAsked'
    BY DEF MarksOK, NewAsked
<1> QED BY <1>1, <1>2, <1>3 DEF MarksOK

LEMMA StepsKeepTimes ==
    ASSUME BellTypes, WritersOK, TimesOK, MarksOK
    PROVE  /\ \A w \in Writers : Commit(w) => TimesOK' /\ MarksOK'
           /\ FetchPending \/ Handle \/ MarkPublished \/ HandleFailure \/ AbandonBatch \/ Crash => TimesOK' /\ MarksOK'
           /\ \A i \in DOMAIN outbox : BackoffEnds(i) => TimesOK' /\ MarksOK'
<1>1. ASSUME NEW w \in Writers, Commit(w) PROVE TimesOK' /\ MarksOK'
  <2>1. /\ OneChanges(writing[w].event, {"status"}) /\ Open(w) /\ ~Open(w)'
        /\ \A v \in Writers \ {w} : writing'[v] = writing[v]
        /\ \A o \in writing[w].wrote : rows'[o] = writing[w].new[o]
        /\ \A o \in Orders \ writing[w].wrote : rows'[o] = rows[o]
        /\ Grows
      BY <1>1, CommitDoes, StepsGrow
  <2>2. UNCHANGED <<clock, batch, handing, link, wire, bell, refetch, marked, skewed, faults>>
      BY <1>1 DEF Commit, dispatcherVars, shownVars
  <2>3. \A v \in Writers : Open(v)' => Open(v) /\ writing'[v] = writing[v]
      BY <2>1 DEF Open
  <2>4. writing[w].wrote \subseteq Orders
      BY <2>1, WriterIs
  <2>5. RowsTimely'
      BY <2>1, <2>2, <2>4 DEF TimesOK, RowsTimely, NewTimely, RowsUpTo
  <2>6. DOMAIN outbox' = DOMAIN outbox
      BY <2>1 DEF OneChanges
  <2>7. TimesOK'
      BY <2>1, <2>2, <2>3, <2>5, <2>6, ScreenStays, TimesStay
  <2>8. request' = request \/ request'.stage \notin OpenMarks
      BY <1>1, CommitTypes DEF OpenMarks
  <2>9. RequestAsked'
      BY <2>2, <2>8 DEF MarksOK, RequestAsked, Asks
  <2>10. RowsAsked'
      BY <2>1, <2>2, <2>4 DEF MarksOK, RowsAsked, NewAsked
  <2>11. NewAsked'
      BY <2>2, <2>3 DEF MarksOK, NewAsked
  <2> QED BY <2>7, <2>9, <2>10, <2>11 DEF MarksOK
<1>2. ASSUME FetchPending PROVE TimesOK' /\ MarksOK'
  <2>1. UNCHANGED <<clock, rows, outbox, writing, handing, link, wire, bell, refetch, request, marked, skewed, faults>>
      BY <1>2 DEF FetchPending, shownVars
  <2>2. \A v \in Writers : Open(v)' => Open(v) /\ writing'[v] = writing[v]
      BY <2>1 DEF Open
  <2> QED BY <2>1, <2>2, RowsStay, ScreenStays, TimesStay, MarksStay, NothingGrows
<1>3. ASSUME Handle PROVE TimesOK' /\ MarksOK'
  <2>1. /\ UNCHANGED <<clock, rows, writing, batch, link, bell, request, marked, faults>>
        /\ refetch' \in {refetch, Crossed(refetch)}
      BY <1>3 DEF Handle
  <2>2. \A v \in Writers : Open(v)' => Open(v) /\ writing'[v] = writing[v]
      BY <2>1 DEF Open
  <2>3. Grows /\ DOMAIN outbox' = DOMAIN outbox
      BY <1>3, HandleDoes, StepsGrow DEF OneChanges
  <2> QED BY <2>1, <2>2, <2>3, RowsStay, ScreenStays, TimesStay, MarksStay
<1>4. ASSUME MarkPublished \/ HandleFailure PROVE TimesOK' /\ MarksOK'
  <2>1. UNCHANGED <<clock, rows, writing, link, wire, bell, refetch, request, marked, skewed>>
      BY <1>4 DEF MarkPublished, HandleFailure, FinishHead, shownVars
  <2>2. \A v \in Writers : Open(v)' => Open(v) /\ writing'[v] = writing[v]
      BY <2>1 DEF Open
  <2>3. Grows /\ DOMAIN outbox' = DOMAIN outbox
      BY <1>4, PublishDoes, FailureDoes, StepsGrow DEF OneChanges
  <2> QED BY <2>1, <2>2, <2>3, RowsStay, ScreenStays, TimesStay, MarksStay
<1>5. ASSUME AbandonBatch PROVE TimesOK' /\ MarksOK'
  <2>1. UNCHANGED <<clock, rows, outbox, writing, link, wire, bell, refetch, request, marked, skewed>>
      BY <1>5 DEF AbandonBatch, shownVars
  <2>2. \A v \in Writers : Open(v)' => Open(v) /\ writing'[v] = writing[v]
      BY <2>1 DEF Open
  <2> QED BY <2>1, <2>2, RowsStay, ScreenStays, TimesStay, MarksStay, NothingGrows
<1>6. ASSUME Crash PROVE TimesOK' /\ MarksOK'
  <2>1. /\ UNCHANGED <<clock, rows, bell, refetch, marked, skewed>>
        /\ request' \in {request, Idle}
      BY <1>6 DEF Crash
  <2>2. /\ \A v \in Writers : Open(v)' => Open(v) /\ writing'[v] = writing[v]
        /\ Grows /\ DOMAIN outbox' = DOMAIN outbox
      BY <1>6, CrashDoes, StepsGrow
  <2>3. request' = request \/ request'.stage \notin OpenMarks
      BY <2>1, IdleIs DEF OpenMarks
  <2> QED BY <2>1, <2>2, <2>3, RowsStay, ScreenStays, TimesStay, MarksStay
<1>7. ASSUME NEW i \in DOMAIN outbox, BackoffEnds(i) PROVE TimesOK' /\ MarksOK'
  <2>1. UNCHANGED <<clock, rows, writing, batch, handing, link, wire, bell, refetch, request, marked, skewed, faults>>
      BY <1>7 DEF BackoffEnds, dispatcherVars, shownVars
  <2>2. \A v \in Writers : Open(v)' => Open(v) /\ writing'[v] = writing[v]
      BY <2>1 DEF Open
  <2>3. Grows /\ DOMAIN outbox' = DOMAIN outbox
      BY <1>7, BackoffDoes, StepsGrow DEF OneChanges
  <2> QED BY <2>1, <2>2, <2>3, RowsStay, ScreenStays, TimesStay, MarksStay
<1> QED BY <1>1, <1>2, <1>3, <1>4, <1>5, <1>6, <1>7

\* An event tells no time that is still to come.
LEMMA BodyTimes ==
    ASSUME BellTypes, TimesOK, NEW i \in DOMAIN outbox, outbox[i].body.kind = "updated"
    PROVE  outbox[i].body.at <= clock
    BY DEF TimesOK, BodiesTimely, Timely

LEMMA PageKeepsTimes ==
    ASSUME BellTypes, WritersOK, TimesOK, MarksOK
    PROVE  /\ RefuseMark => TimesOK' /\ MarksOK'
           /\ Disconnect \/ Connect \/ JoinRoom \/ RefetchFails \/ ShowRefusal => TimesOK' /\ MarksOK'
           /\ ReadItems \/ CountUnread \/ ReplaceNotifications => TimesOK' /\ MarksOK'
           /\ Deliver => TimesOK' /\ MarksOK'
           /\ (\E o \in Orders : ClickRead(o)) \/ ClickAll \/ DateMarkAll => TimesOK' /\ MarksOK'
           /\ ApplyAnswer => TimesOK' /\ MarksOK'
<1>a. ASSUME UNCHANGED <<clock, rows, outbox, writing, marked>>, ScreenTimely',
             request' = request \/ request'.stage \notin OpenMarks
      PROVE  TimesOK' /\ MarksOK'
  <2>1. \A v \in Writers : Open(v)' => Open(v) /\ writing'[v] = writing[v]
      BY <1>a DEF Open
  <2> QED BY <1>a, <2>1, RowsStay, TimesStay, MarksStay, NothingGrows
<1>b. ASSUME UNCHANGED bell, UNCHANGED clock, refetch'.stage \notin {"items", "answered"} PROVE ScreenTimely'
    BY <1>b DEF TimesOK, ScreenTimely
<1>1. ASSUME RefuseMark PROVE TimesOK' /\ MarksOK'
  <2>1. /\ request.stage = "sent" /\ request'.stage = "refused" /\ request'.kind = request.kind
        /\ request.kind = "one" => request'.order = request.order /\ request'.at = request.at
        /\ request.kind = "all" => request'.cutoff = request.cutoff
        /\ UNCHANGED <<clock, rows, outbox, writing, batch, handing, link, wire, bell, refetch, marked, skewed, faults>>
      BY <1>1, RefuseDoes
  <2>2. \A v \in Writers : Open(v)' => Open(v) /\ writing'[v] = writing[v]
      BY <2>1 DEF Open
  <2>3. TimesOK'
      BY <2>1, <2>2, RowsStay, ScreenStays, TimesStay, NothingGrows
  <2>4. RequestAsked'
      BY <2>1 DEF MarksOK, RequestAsked, Asks, OpenMarks
  <2>5. RowsAsked' /\ NewAsked'
      BY <2>1, <2>2 DEF MarksOK, RowsAsked, NewAsked
  <2> QED BY <2>3, <2>4, <2>5 DEF MarksOK
<1>2. ASSUME Disconnect \/ JoinRoom PROVE TimesOK' /\ MarksOK'
  <2>1. UNCHANGED <<clock, rows, outbox, writing, marked, bell, refetch, request>>
      BY <1>2 DEF Disconnect, JoinRoom
  <2> QED BY <1>a, <2>1, ScreenStays
<1>3. ASSUME Connect PROVE TimesOK' /\ MarksOK'
  <2>1. /\ UNCHANGED <<clock, rows, outbox, writing, marked, bell, request>>
        /\ refetch' \in {refetch, [stage |-> "asked"]}
      BY <1>3 DEF Connect
  <2>2. ScreenTimely'
      BY <1>b, <2>1, ScreenStays
  <2> QED BY <1>a, <2>1, <2>2
<1>4. ASSUME RefetchFails PROVE TimesOK' /\ MarksOK'
  <2>1. UNCHANGED <<clock, rows, outbox, writing, marked, bell, request>> /\ refetch' = Idle
      BY <1>4 DEF RefetchFails
  <2>2. ScreenTimely'
      BY <1>b, <2>1, IdleIs
  <2> QED BY <1>a, <2>1, <2>2
<1>5. ASSUME ShowRefusal PROVE TimesOK' /\ MarksOK'
  <2>1. /\ UNCHANGED <<clock, rows, outbox, writing, marked, bell>> /\ refetch' = [stage |-> "asked"]
        /\ request' = Idle
      BY <1>5 DEF ShowRefusal
  <2>2. ScreenTimely'
      BY <1>b, <2>1
  <2>3. request'.stage \notin OpenMarks
      BY <2>1, IdleIs DEF OpenMarks
  <2> QED BY <1>a, <2>1, <2>2, <2>3
<1>6. ASSUME ReadItems PROVE TimesOK' /\ MarksOK'
  <2>1. /\ refetch'.items = Newest(rows)
        /\ UNCHANGED <<clock, rows, outbox, writing, batch, handing, link, wire, bell, request, marked, skewed, faults>>
      BY <1>6, ReadDoes
  <2>2. ScreenTimely'
    <3>1. RowsUpTo(Newest(rows), clock)
        BY NewestIs, NotificationsAssumption DEF BellTypes, TimesOK, RowsTimely
    <3> QED BY <2>1, <3>1 DEF TimesOK, ScreenTimely
  <2> QED BY <1>a, <2>1, <2>2
<1>7. ASSUME CountUnread PROVE TimesOK' /\ MarksOK'
  <2>1. /\ refetch'.items = refetch.items /\ refetch.stage = "items"
        /\ UNCHANGED <<clock, rows, outbox, writing, batch, handing, link, wire, bell, request, marked, skewed, faults>>
      BY <1>7, CountDoes
  <2>2. ScreenTimely'
      BY <2>1 DEF TimesOK, ScreenTimely
  <2> QED BY <1>a, <2>1, <2>2
<1>8. ASSUME ReplaceNotifications PROVE TimesOK' /\ MarksOK'
  <2>1. /\ refetch.stage = "answered" /\ refetch' = Idle /\ bell'.items = refetch.items
        /\ UNCHANGED <<clock, rows, outbox, writing, batch, handing, link, wire, request, marked, faults>>
      BY <1>8, ReplaceDoes
  <2>2. ScreenTimely'
      BY <2>1, IdleIs DEF TimesOK, ScreenTimely
  <2> QED BY <1>a, <2>1, <2>2
<1>9. ASSUME Deliver PROVE TimesOK' /\ MarksOK'
  <2>1. /\ Head(wire) \in DOMAIN outbox /\ outbox[Head(wire)].body \in Bodies
        /\ bell' = Applied(outbox[Head(wire)].body) /\ refetch' = Crossed(refetch)
        /\ UNCHANGED <<clock, rows, outbox, writing, batch, handing, link, request, marked, skewed, faults>>
      BY <1>9, DeliverDoes
  <2>2. PICK b \in Bodies : b = outbox[Head(wire)].body
      BY <2>1
  <2>3. /\ b.kind = "updated" =>
             \E told \in Rows :
                /\ bell'.items = Newest(told) /\ told[b.order].at = b.at
                /\ \A p \in Orders \ {b.order} : told[p] = bell.items[p]
        /\ b.kind = "read-all" => \A o \in Orders : bell'.items[o].at = bell.items[o].at
        /\ b.kind \in {"updated", "read-all"}
      BY <2>1, <2>2, AppliedIs, BodyIs
  <2>4. b.kind = "updated" => b.at <= clock
      BY <2>1, <2>2, BodyTimes
  <2>5. RowsUpTo(bell'.items, clock)
    <3>1. CASE b.kind = "updated"
      <4>1. PICK told \in Rows : /\ bell'.items = Newest(told) /\ told[b.order].at = b.at
                                 /\ \A p \in Orders \ {b.order} : told[p] = bell.items[p]
          BY <2>3, <3>1
      <4>2. RowsUpTo(told, clock)
          BY <2>4, <3>1, <4>1 DEF TimesOK, ScreenTimely, RowsUpTo
      <4> QED BY <4>1, <4>2, NewestIs, NotificationsAssumption DEF BellTypes
    <3> QED BY <2>3, <3>1 DEF TimesOK, ScreenTimely, RowsUpTo
  <2>6. refetch'.stage = refetch.stage /\ (refetch.stage \in {"items", "answered"} => refetch'.items = refetch.items)
      BY <2>1, RefetchIs DEF BellTypes
  <2>7. ScreenTimely'
      BY <2>1, <2>5, <2>6 DEF TimesOK, ScreenTimely
  <2> QED BY <1>a, <2>1, <2>7
<1>10. ASSUME NEW o \in Orders, ClickRead(o) PROVE TimesOK' /\ MarksOK'
  <2>1. /\ request' \in Requests /\ request'.stage = "sent" /\ request'.kind = "one"
        /\ request'.order = o /\ request'.at = bell.items[o].at
        /\ \A p \in Orders : marked[p] <= marked'[p] /\ marked'[p] \in {marked[p], bell.items[p].at}
        /\ bell.items[o].at <= marked'[o] /\ marked' \in [Orders -> 0..MaxMessages]
        /\ UNCHANGED <<clock, rows, outbox, writing, batch, handing, link, wire, bell, refetch, skewed, faults>>
      BY <1>10, ClickReadDoes
  <2>2. \A v \in Writers : Open(v)' => Open(v) /\ writing'[v] = writing[v]
      BY <2>1 DEF Open
  <2>3. RowsTimely' /\ ScreenTimely'
      BY <2>1, RowsStay, ScreenStays
  <2>4. NewTimely' /\ BodiesTimely' /\ MarksBefore'
      BY <2>1, <2>2 DEF TimesOK, NewTimely, BodiesTimely, MarksBefore
  <2>5. MarkedTimely'
      BY <2>1 DEF TimesOK, MarkedTimely, ScreenTimely, RowsUpTo
  <2>6. TimesOK'
      BY <2>3, <2>4, <2>5 DEF TimesOK
  <2>7. RequestAsked'
      BY <2>1 DEF RequestAsked, Asks
  <2>8. \A p \in Orders : marked[p] \in Int /\ marked'[p] \in Int /\ rows[p].at \in Int
    <3>1. \A p \in Orders : marked'[p] \in 0..MaxMessages
        BY <2>1
    <3> QED BY <3>1, TimesAre, NotificationsAssumption
  <2>9. RowsAsked'
      BY <2>1, <2>8 DEF MarksOK, RowsAsked
  <2>10. NewAsked'
    <3>1. ASSUME NEW w \in Writers, Open(w)', NEW p \in writing'[w].wrote, writing'[w].new[p].read
          PROVE  writing'[w].new[p].at <= marked'[p]
      <4>1. Open(w) /\ writing'[w] = writing[w]
          BY <2>2, <3>1
      <4>2. p \in Orders /\ writing[w].new \in Rows
          BY <3>1, <4>1, WriterIs
      <4>3. writing[w].new[p].at \in Int
          BY <4>2, RowTimes
      <4>4. writing[w].new[p].at <= marked[p]
          BY <3>1, <4>1 DEF MarksOK, NewAsked
      <4> QED BY <2>1, <2>8, <4>1, <4>2, <4>3, <4>4
    <3> QED BY <3>1 DEF NewAsked
  <2> QED BY <2>6, <2>7, <2>9, <2>10 DEF MarksOK
<1>13. ASSUME ClickAll PROVE TimesOK' /\ MarksOK'
  <2>1. /\ request'.stage \notin OpenMarks
        /\ UNCHANGED <<clock, rows, outbox, writing, batch, handing, link, wire, bell, refetch, marked, skewed, faults>>
      BY <1>13, ClickAllDoes
  <2> QED BY <1>a, <2>1, ScreenStays
<1>11. ASSUME DateMarkAll PROVE TimesOK' /\ MarksOK'
  <2>1. /\ request'.stage = "sent" /\ request'.kind = "all" /\ request'.cutoff = clock
        /\ \A p \in Orders : marked'[p] = clock
        /\ UNCHANGED <<clock, rows, outbox, writing, batch, handing, link, wire, bell, refetch, skewed, faults>>
      BY <1>11, DateAllDoes
  <2>2. \A v \in Writers : Open(v)' => Open(v) /\ writing'[v] = writing[v]
      BY <2>1 DEF Open
  <2>3. RowsTimely' /\ ScreenTimely'
      BY <2>1, RowsStay, ScreenStays
  <2>4. NewTimely' /\ BodiesTimely' /\ MarksBefore'
      BY <2>1, <2>2 DEF TimesOK, NewTimely, BodiesTimely, MarksBefore
  <2>5. clock \in Int
      BY TimesAre
  <2>6. MarkedTimely'
      BY <2>1, <2>5 DEF MarkedTimely
  <2>7. TimesOK'
      BY <2>3, <2>4, <2>6 DEF TimesOK
  <2>8. RequestAsked'
      BY <2>1, <2>5 DEF RequestAsked, Asks
  <2>9. RowsAsked'
      BY <2>1 DEF TimesOK, RowsTimely, RowsUpTo, RowsAsked
  <2>10. NewAsked'
    <3>1. ASSUME NEW w \in Writers, Open(w)', NEW p \in writing'[w].wrote
          PROVE  writing'[w].new[p].at <= marked'[p]
      <4>1. Open(w) /\ writing'[w] = writing[w]
          BY <2>2, <3>1
      <4>2. p \in Orders
          BY <3>1, <4>1, WriterIs
      <4> QED BY <2>1, <4>1, <4>2 DEF TimesOK, NewTimely, RowsUpTo
    <3> QED BY <3>1 DEF NewAsked
  <2> QED BY <2>7, <2>8, <2>9, <2>10 DEF MarksOK
<1>12. ASSUME ApplyAnswer PROVE TimesOK' /\ MarksOK'
  <2>1. /\ request' = Idle
        /\ UNCHANGED <<clock, rows, outbox, writing, batch, handing, link, wire, refetch, marked, faults>>
      BY <1>12 DEF ApplyAnswer, dispatcherVars
  <2>2. PICK b : b = outbox[request.event].body
      OBVIOUS
  <2>3. /\ request.event \in DOMAIN outbox
        /\ request.of.kind \in {"one", "all"}
        /\ request.of.kind = "one" =>
                /\ b.kind = "updated" /\ b.order \in Orders
                /\ \/ bell'.items[b.order].at = b.at
                   \/ bell'.items[b.order] = bell.items[b.order]
                /\ \A p \in Orders \ {b.order} : bell'.items[p] = bell.items[p]
        /\ request.of.kind = "all" => \A o \in Orders : bell'.items[o].at = bell.items[o].at
      BY <1>12, <2>2, AnswerDoes
  <2>4. b.kind = "updated" => b.at <= clock
      BY <2>2, <2>3, BodyTimes
  <2>5. RowsUpTo(bell'.items, clock)
      BY <2>3, <2>4 DEF TimesOK, ScreenTimely, RowsUpTo
  <2>6. ScreenTimely'
      BY <2>1, <2>5 DEF TimesOK, ScreenTimely
  <2>7. request'.stage \notin OpenMarks
      BY <2>1, IdleIs DEF OpenMarks
  <2> QED BY <1>a, <2>1, <2>6, <2>7
<1> QED BY <1>1, <1>2, <1>3, <1>4, <1>5, <1>6, <1>7, <1>8, <1>9, <1>10, <1>11, <1>12, <1>13

-------------------------------------------------------------------------------
\* What the rows, the events and the items of a page say of each other.
LEMMA UnreadSame ==
    ASSUME NEW items, NEW others,
           \A o \in Orders : items[o].at = others[o].at /\ (items[o].read <=> others[o].read)
    PROVE  Unread(items) = Unread(others)
<1>1. {o \in Orders : items[o].at > 0 /\ ~items[o].read} = {o \in Orders : others[o].at > 0 /\ ~others[o].read}
    OBVIOUS
<1> QED BY <1>1 DEF Unread

\* The events keep their bodies.
SameBodies(box, other, S) == \A i \in S : other[i].body = box[i].body

LEMMA AgreesSame ==
    ASSUME NEW box, NEW other, NEW S, SameBodies(box, other, S), NEW row, NEW v, Agrees(box, row, v, S)
    PROVE  Agrees(other, row, v, S)
    BY DEF Agrees, SameBodies

LEMMA TellsSame ==
    ASSUME NEW box, NEW other, NEW S, SameBodies(box, other, S), NEW store, NEW items, Tells(box, store, items, S)
    PROVE  Tells(other, store, items, S)
<1>1. \A o : Settled(other, S, o) <=> Settled(box, S, o)
    BY DEF Settled, SameBodies
<1>2. Told(other, store, items, S)
    BY <1>1, AgreesSame DEF Tells, Told
<1>3. \A o : SettledNewer(other, items, S, o) = SettledNewer(box, items, S, o)
    BY <1>1 DEF SettledNewer
<1>4. Capped(other, items, S)
    BY <1>1, <1>3 DEF Tells, Capped
<1> QED BY <1>2, <1>4 DEF Tells

\* What more is to come leaves less to be counted.
LEMMA CappedMore ==
    ASSUME NEW box, NEW items, NEW S, NEW T, S \subseteq T, Capped(box, items, S)
    PROVE  Capped(box, items, T)
<1>1. \A o : Settled(box, T, o) => Settled(box, S, o)
    BY DEF Settled
<1>2. ASSUME NEW o \in Orders, items[o].at > 0, Settled(box, T, o)
      PROVE  Cardinality(SettledNewer(box, items, T, o)) < ListLimit
  <2>1. Cardinality(SettledNewer(box, items, S, o)) < ListLimit
      BY <1>1, <1>2 DEF Capped
  <2>2. SettledNewer(box, items, T, o) \subseteq SettledNewer(box, items, S, o)
      BY <1>1 DEF SettledNewer
  <2>3. SettledNewer(box, items, S, o) \subseteq Newer(items, o)
      BY DEF SettledNewer
  <2>4. IsFiniteSet(SettledNewer(box, items, S, o))
      BY <2>3, NewerIs, FS_Subset
  <2>5. /\ Cardinality(SettledNewer(box, items, T, o)) <= Cardinality(SettledNewer(box, items, S, o))
        /\ IsFiniteSet(SettledNewer(box, items, T, o))
      BY <2>2, <2>4, FS_Subset
  <2>6. /\ Cardinality(SettledNewer(box, items, T, o)) \in Nat
        /\ Cardinality(SettledNewer(box, items, S, o)) \in Nat /\ ListLimit \in Nat
      BY <2>4, <2>5, FS_CardinalityType, NotificationsAssumption
  <2> QED BY <2>1, <2>5, <2>6
<1> QED BY <1>2 DEF Capped

\* A list of the newest is not too long.
LEMMA NewestCapped ==
    ASSUME NEW items \in Rows, NEW box, NEW S
    PROVE  Capped(box, Newest(items), S)
<1>1. ASSUME NEW o \in Orders, Newest(items)[o].at > 0
      PROVE  Cardinality(SettledNewer(box, Newest(items), S, o)) < ListLimit
  <2>1. o \in Top(items) /\ Newest(items)[o] = items[o]
      BY <1>1, NewestIs
  <2>2. \A p \in Orders : Newest(items)[p].at <= items[p].at /\ Newest(items)[p].at \in Nat /\ items[p].at \in Nat
      BY NewestIs, RowTimes
  <2>3. SettledNewer(box, Newest(items), S, o) \subseteq Newer(items, o)
      BY <1>1, <2>1, <2>2 DEF SettledNewer, Newer
  <2> QED BY <2>1, <2>3, Fewer DEF Top
<1> QED BY <1>1 DEF Capped

\* Reading changes neither what is newer nor what counts.
LEMMA ReadCapped ==
    ASSUME NEW box, NEW items, NEW told, NEW S, NEW T, Capped(box, items, S),
           \A o \in Orders : told[o].at = items[o].at,
           \A o \in Orders : Settled(box, T, o) <=> Settled(box, S, o)
    PROVE  Capped(box, told, T)
<1>1. \A o \in Orders : Newer(told, o) = Newer(items, o)
    BY DEF Newer
<1>2. \A o \in Orders : SettledNewer(box, told, T, o) = SettledNewer(box, items, S, o)
    BY <1>1 DEF SettledNewer, Newer
<1> QED BY <1>2 DEF Capped

LEMMA HoldsSame ==
    ASSUME NEW box, NEW other, NEW i, NEW S, SameBodies(box, other, S \cup {i}), NEW store, HoldsGood(box, store, i, S)
    PROVE  HoldsGood(other, store, i, S)
<1>1. other[i].body = box[i].body /\ SameBodies(box, other, S)
    BY DEF SameBodies
<1>2. ASSUME NEW o \in Orders, About(other[i].body, o), \A k \in S : ~About(other[k].body, o)
      PROVE  Agrees(other, store[o], other[i].body, S)
  <2>1. \A k \in S : ~About(box[k].body, o)
      BY <1>1, <1>2 DEF SameBodies
  <2>2. Agrees(box, store[o], box[i].body, S)
      BY <1>1, <1>2, <2>1 DEF HoldsGood
  <2> QED BY <1>1, <2>2, AgreesSame
<1>3. /\ \A o \in Orders : ReadsAt(other[i].body, store[o].at) => store[o].read
      /\ \A o \in Orders : About(other[i].body, o) => other[i].body.at <= store[o].at
      /\ S = {} => other[i].body.unread = Unread(store)
    BY <1>1 DEF HoldsGood
<1> QED BY <1>2, <1>3 DEF HoldsGood

\* What a transaction commits is told by its event, after all the others.
LEMMA AgreesAfter ==
    ASSUME NEW box, NEW before, NEW after, NEW n, Says(box[n].body, before, after),
           NEW o \in Orders, ~About(box[n].body, o), NEW S, NEW v, Agrees(box, before[o], v, S)
    PROVE  Agrees(box, after[o], v, S \cup {n})
<1>1. after[o].at = before[o].at /\ (after[o].read <=> before[o].read \/ ReadsAt(box[n].body, before[o].at))
    BY DEF Says
<1>2. before[o].at = v.at /\ (before[o].read <=> v.read \/ \E i \in S : ReadsAt(box[i].body, v.at))
    BY DEF Agrees
<1>3. (\E i \in S \cup {n} : ReadsAt(box[i].body, v.at)) <=> (\E i \in S : ReadsAt(box[i].body, v.at)) \/ ReadsAt(box[n].body, v.at)
    OBVIOUS
<1> QED BY <1>1, <1>2, <1>3 DEF Agrees

LEMMA TellsAfter ==
    ASSUME NEW box, NEW before \in Rows, NEW after \in Rows, NEW n, Says(box[n].body, before, after),
           NEW S, NEW items \in Rows, Tells(box, before, items, S)
    PROVE  Tells(box, after, items, S \cup {n})
<1>0. \A p \in Orders : before[p].at <= after[p].at
    BY DEF Says
<1>1. \A p \in Orders : before[p].at \in Nat /\ after[p].at \in Nat /\ items[p].at \in Nat
    BY RowTimes
<1>2. ASSUME NEW o \in Top(after), Settled(box, S \cup {n}, o)
      PROVE  Agrees(box, after[o], items[o], S \cup {n})
  <2>1. ~About(box[n].body, o) /\ Settled(box, S, o) /\ o \in Orders
      BY <1>2 DEF Settled, Top
  <2>2. after[o].at = before[o].at
      BY <2>1 DEF Says
  <2>3. Newer(before, o) \subseteq Newer(after, o)
      BY <1>0, <1>1, <2>1, <2>2 DEF Newer
  <2>4. after[o].at > 0 /\ Cardinality(Newer(after, o)) < ListLimit
      BY DEF Top
  <2>5. o \in Top(before)
      BY <2>1, <2>2, <2>3, <2>4, Fewer DEF Top
  <2>6. Agrees(box, before[o], items[o], S)
      BY <2>1, <2>5 DEF Tells, Told
  <2> QED BY <2>1, <2>6, AgreesAfter
<1>3. Told(box, after, items, S \cup {n})
    BY <1>2 DEF Told
<1>4. Lags(after, items)
    BY <1>0, <1>1 DEF Tells, Lags
<1>5. Capped(box, items, S \cup {n})
    BY CappedMore DEF Tells
<1> QED BY <1>3, <1>4, <1>5 DEF Tells

\* An earlier event, when a later one is committed.
LEMMA HoldsAfter ==
    ASSUME NEW box, NEW before \in Rows, NEW after \in Rows, NEW n, Says(box[n].body, before, after),
           NEW S, NEW i, HoldsGood(box, before, i, S), Before(box[i].body, box[n].body),
           box[i].body \in Bodies, box[n].body \in Bodies
    PROVE  HoldsGood(box, after, i, S \cup {n})
<1>1. ASSUME NEW o \in Orders, About(box[i].body, o), \A k \in S \cup {n} : ~About(box[k].body, o)
      PROVE  Agrees(box, after[o], box[i].body, S \cup {n})
  <2>1. ~About(box[n].body, o) /\ \A k \in S : ~About(box[k].body, o)
      BY <1>1
  <2>2. Agrees(box, before[o], box[i].body, S)
      BY <1>1, <2>1 DEF HoldsGood
  <2> QED BY <2>1, <2>2, AgreesAfter
<1>2. ASSUME NEW o \in Orders, ReadsAt(box[i].body, after[o].at) PROVE after[o].read
  <2>1. CASE About(box[n].body, o)
    <3>1. after[o].at = box[n].body.at /\ (after[o].read <=> box[n].body.read)
        BY <2>1 DEF Says
    <3>2. /\ box[i].body.kind = "read-all" /\ box[n].body.kind = "updated"
          /\ box[n].body.at \in 1..box[i].body.cutoff
        BY <1>2, <2>1, <3>1 DEF ReadsAt, About
    <3>3. box[i].body.cutoff \in Int /\ box[n].body.at \in Int
        BY <3>2, BodyIs, NotificationsAssumption
    <3>4. ~(box[i].body.cutoff < box[n].body.at)
        BY <3>2, <3>3
    <3> QED BY <3>1, <3>2, <3>4 DEF Before
  <2>2. CASE ~About(box[n].body, o)
    <3>1. after[o].at = before[o].at /\ (after[o].read <=> before[o].read \/ ReadsAt(box[n].body, before[o].at))
        BY <2>2 DEF Says
    <3> QED BY <1>2, <3>1 DEF HoldsGood
  <2> QED BY <2>1, <2>2
<1>3. ASSUME NEW o \in Orders, About(box[i].body, o) PROVE box[i].body.at <= after[o].at
  <2>1. box[i].body.at <= before[o].at /\ before[o].at <= after[o].at
      BY <1>3 DEF HoldsGood, Says
  <2>2. box[i].body.at \in Int /\ before[o].at \in Int /\ after[o].at \in Int
      BY <1>3, BodyIs, RowTimes DEF About
  <2> QED BY <2>1, <2>2
<1> QED BY <1>1, <1>2, <1>3 DEF HoldsGood

\* The event of a transaction that commits says all there is.
LEMMA HoldsFirst ==
    ASSUME NEW box, NEW before, NEW after \in Rows, NEW n, Says(box[n].body, before, after)
    PROVE  HoldsGood(box, after, n, {})
<1>1. ASSUME NEW o \in Orders, About(box[n].body, o) PROVE Agrees(box, after[o], box[n].body, {})
    BY <1>1 DEF Says, Agrees
<1>2. ASSUME NEW o \in Orders, ReadsAt(box[n].body, after[o].at) PROVE after[o].read
  <2>1. ~About(box[n].body, o)
      BY <1>2 DEF ReadsAt, About
  <2> QED BY <1>2, <2>1 DEF Says
<1>3. box[n].body.unread = Unread(after)
    BY DEF Says
<1>4. ASSUME NEW o \in Orders, About(box[n].body, o) PROVE box[n].body.at <= after[o].at
  <2>1. after[o].at = box[n].body.at /\ after[o].at \in Int
      BY <1>4, RowTimes DEF Says
  <2> QED BY <2>1
<1> QED BY <1>1, <1>2, <1>3, <1>4 DEF HoldsGood

\* An event told again tells nothing new.
LEMMA TellsAgain ==
    ASSUME NEW box, NEW store, NEW items, NEW S, NEW i, Tells(box, store, items, S),
           \A o \in Orders : ReadsAt(box[i].body, store[o].at) => store[o].read
    PROVE  Tells(box, store, items, S \cup {i})
<1>1. ASSUME NEW o \in Top(store), Settled(box, S \cup {i}, o)
      PROVE  Agrees(box, store[o], items[o], S \cup {i})
  <2>0. o \in Orders /\ Settled(box, S, o)
      BY <1>1 DEF Top, Settled
  <2>1. Agrees(box, store[o], items[o], S)
      BY <2>0 DEF Tells, Told
  <2>2. (\E k \in S \cup {i} : ReadsAt(box[k].body, items[o].at)) <=> (\E k \in S : ReadsAt(box[k].body, items[o].at)) \/ ReadsAt(box[i].body, items[o].at)
      OBVIOUS
  <2> QED BY <2>0, <2>1, <2>2 DEF Agrees
<1>2. Capped(box, items, S \cup {i})
    BY CappedMore DEF Tells
<1> QED BY <1>1, <1>2 DEF Tells, Told

\* The newest of the rows need nothing of what is to come.
LEMMA RowsTell ==
    ASSUME NEW box, NEW store \in Rows, NEW S,
           \A i \in S : \A o \in Orders : ReadsAt(box[i].body, store[o].at) => store[o].read
    PROVE  Tells(box, store, Newest(store), S)
<1>1. Told(box, store, Newest(store), S)
  <2>1. \A o \in Top(store) : o \in Orders /\ Newest(store)[o] = store[o]
      BY NewestIs
  <2> QED BY <2>1 DEF Told, Agrees
<1>2. Lags(store, Newest(store)) /\ Blank(Newest(store))
    BY NewestIs DEF Lags, Blank
<1> QED BY <1>1, <1>2, NewestCapped DEF Tells

\* The page has been told of i, and the rest are to come: raw is what it showed as i
\* changes it, and told what it lists of that.
LEMMA TellsTold ==
    ASSUME NEW box, NEW store \in Rows, NEW items \in Rows, NEW raw \in Rows, NEW told \in Rows,
           NEW S, NEW rest, NEW i \in S,
           Tells(box, store, items, S), rest \subseteq S, S \subseteq rest \cup {i},
           \A o \in Orders : About(box[i].body, o) =>
                raw[o].at = box[i].body.at /\ (raw[o].read <=> box[i].body.read),
           \A o \in Orders : ~About(box[i].body, o) =>
                raw[o].at = items[o].at /\ (raw[o].read <=> items[o].read \/ ReadsAt(box[i].body, items[o].at)),
           \A o \in Orders : About(box[i].body, o) /\ (\A k \in rest : ~About(box[k].body, o))
                => Agrees(box, store[o], box[i].body, rest),
           \A o \in Orders : About(box[i].body, o) => box[i].body.at <= store[o].at,
           \A o \in Top(raw) : told[o] = raw[o],
           \A o \in Orders : told[o].at <= raw[o].at,
           Blank(told), Capped(box, told, rest)
    PROVE  Tells(box, store, told, rest)
<1>1. \A o \in Orders : store[o].at \in Nat /\ raw[o].at \in Nat /\ told[o].at \in Nat /\ items[o].at \in Nat
    BY RowTimes
<1>2. \A o \in Orders : raw[o].at <= store[o].at
    BY <1>1 DEF Tells, Lags
<1>3. ASSUME NEW o \in Top(store), Settled(box, rest, o)
      PROVE  Agrees(box, store[o], told[o], rest)
  <2>0. o \in Orders /\ store[o].at > 0 /\ Cardinality(Newer(store, o)) < ListLimit
      BY DEF Top
  <2>1. Agrees(box, store[o], raw[o], rest)
    <3>1. CASE About(box[i].body, o)
      <4>1. Agrees(box, store[o], box[i].body, rest)
          BY <1>3, <2>0, <3>1 DEF Settled
      <4> QED BY <2>0, <3>1, <4>1 DEF Agrees
    <3>2. CASE ~About(box[i].body, o)
      <4>1. Settled(box, S, o)
          BY <1>3, <3>2 DEF Settled
      <4>2. store[o].at = items[o].at /\ (store[o].read <=> items[o].read \/ \E k \in S : ReadsAt(box[k].body, items[o].at))
          BY <4>1 DEF Tells, Told, Agrees
      <4>3. raw[o].at = items[o].at /\ (raw[o].read <=> items[o].read \/ ReadsAt(box[i].body, items[o].at))
          BY <2>0, <3>2
      <4>4. (\E k \in S : ReadsAt(box[k].body, items[o].at)) <=>
              (\E k \in rest : ReadsAt(box[k].body, items[o].at)) \/ ReadsAt(box[i].body, items[o].at)
          OBVIOUS
      <4> QED BY <4>2, <4>3, <4>4 DEF Agrees
    <3> QED BY <3>1, <3>2
  <2>2. raw[o].at = store[o].at
      BY <2>1 DEF Agrees
  <2>3. Newer(raw, o) \subseteq Newer(store, o)
      BY <1>1, <1>2, <2>0, <2>2 DEF Newer
  <2>4. Cardinality(Newer(raw, o)) < ListLimit
      BY <2>0, <2>3, Fewer
  <2>5. o \in Top(raw)
      BY <2>0, <2>2, <2>4 DEF Top
  <2>6. told[o] = raw[o]
      BY <2>5
  <2> QED BY <2>1, <2>6
<1>4. Lags(store, told)
    BY <1>1, <1>2 DEF Lags
<1> QED BY <1>3, <1>4 DEF Tells, Told

\* With nothing to come, what the page shows is what the newest rows are.
LEMMA AllToldAgrees ==
    ASSUME NEW box, NEW store \in Rows, NEW items \in Rows, Tells(box, store, items, {})
    PROVE  items = Newest(store)
<1>0. \A p \in Orders : store[p].at \in Nat /\ items[p].at \in Nat
    BY RowTimes
<1>1. \A o : Settled(box, {}, o)
    BY DEF Settled
<1>2. ASSUME NEW o \in Top(store) PROVE items[o] = store[o]
  <2>1. store[o].at = items[o].at /\ (store[o].read <=> items[o].read)
      BY <1>1 DEF Tells, Told, Agrees
  <2>2. store[o] \in RowTypes /\ items[o] \in RowTypes
      BY RowsAre DEF Top
  <2> QED BY <2>1, <2>2, RowEq
<1>3. ASSUME NEW o \in Orders, o \notin Top(store) PROVE items[o].at = 0
  <2>1. items[o].at <= store[o].at
      BY DEF Tells, Lags
  <2>2. CASE store[o].at = 0
      BY <1>0, <2>1, <2>2
  <2>3. CASE store[o].at > 0
    <3>1. ~(Cardinality({p \in Newer(store, o) : p \in Top(store)}) < ListLimit)
        BY <1>3, <2>3, NewestEnough
    <3>2. {p \in Newer(store, o) : p \in Top(store)} \subseteq Newer(items, o)
      <4>1. ASSUME NEW p \in Newer(store, o), p \in Top(store) PROVE p \in Newer(items, o)
          BY <1>0, <1>2, <2>1, <4>1 DEF Newer
      <4> QED BY <4>1
    <3>3. SettledNewer(box, items, {}, o) = Newer(items, o)
        BY <1>1 DEF SettledNewer
    <3>4. ~(Cardinality(Newer(items, o)) < ListLimit)
        BY <3>1, <3>2, Fewer
    <3>5. ~(items[o].at > 0)
        BY <1>1, <3>3, <3>4 DEF Tells, Capped
    <3> QED BY <1>0, <3>5
  <2> QED BY <1>0, <2>2, <2>3
<1>4. ASSUME NEW o \in Orders PROVE items[o] = Newest(store)[o]
  <2>1. CASE o \in Top(store)
      BY <1>2, <2>1, NewestIs
  <2>2. CASE o \notin Top(store)
    <3>1. items[o] \in RowTypes /\ items[o].at = 0 /\ ~items[o].read
        BY <1>3, <2>2, RowsAre DEF Tells, Blank
    <3>2. NoActivity \in RowTypes /\ NoActivity.at = 0 /\ ~NoActivity.read
        BY NotificationsAssumption DEF NoActivity, RowTypes
    <3>3. items[o] = NoActivity
        BY <3>1, <3>2, RowEq
    <3> QED BY <2>2, <3>3, NewestIs
  <2> QED BY <2>1, <2>2
<1> QED BY <1>4 DEF Rows, Newest

-------------------------------------------------------------------------------
\* What is to come, what may still be told, and what was committed after an event.
LEMMA WireIn == ASSUME BellTypes, NEW k \in DOMAIN wire PROVE wire[k] \in DOMAIN outbox
    BY ElementOfSeq, LenProperties DEF BellTypes

LEMMA ComingIn == ASSUME BellTypes PROVE Coming \subseteq Living /\ Living \subseteq DOMAIN outbox
    BY DEF Coming, Living, ToHand

LEMMA ComingCommitted ==
    ASSUME BellTypes, DispatchOK, NEW i \in Living
    PROVE  Committed(i)
    BY DEF Living, DispatchOK, OnWire, Committed, Visible

\* The events are told, waited for and committed as before.
SameComing == /\ Coming' = Coming /\ Living' \subseteq Living
              /\ \A i \in DOMAIN outbox : Later(i)' = Later(i)

LEMMA StaysComing ==
    ASSUME BellTypes, wire' = wire, DOMAIN outbox \subseteq DOMAIN outbox',
           \A k \in DOMAIN outbox : /\ ToHand(k)' <=> ToHand(k)
                                    /\ Committed(k)' <=> Committed(k)
                                    /\ outbox'[k].status = "PENDING" => outbox[k].status = "PENDING",
           \A k \in DOMAIN outbox' : k \in DOMAIN outbox \/ outbox'[k].status = "OPEN"
    PROVE  SameComing
<1>1. ASSUME NEW k PROVE k \in Coming' <=> k \in Coming
  <2>1. OnWire(k)' <=> OnWire(k)
      BY DEF OnWire
  <2>2. OnWire(k) => k \in DOMAIN outbox
      BY WireIn DEF OnWire
  <2> QED BY <2>1, <2>2 DEF Coming, ToHand
<1>2. ASSUME NEW k, k \in Living' PROVE k \in Living
  <2>1. OnWire(k)' <=> OnWire(k)
      BY DEF OnWire
  <2>2. OnWire(k) => k \in DOMAIN outbox
      BY WireIn DEF OnWire
  <2> QED BY <1>2, <2>1, <2>2 DEF Living
<1>3. ASSUME NEW i \in DOMAIN outbox PROVE Later(i)' = Later(i)
  <2>1. \A k \in DOMAIN outbox' : Committed(k)' => k \in DOMAIN outbox
      BY DEF Committed, Visible
  <2> QED BY <2>1 DEF Later
<1>4. Coming' = Coming
    BY <1>1
<1> QED BY <1>2, <1>3, <1>4 DEF SameComing

LEMMA BeginComing ==
    ASSUME BellTypes, NEW w \in Writers, NEW wrote \in SUBSET Orders, NEW new \in Rows, NEW b \in Bodies,
           BeginWrite(w, wrote, new, b)
    PROVE  SameComing
<1>1. /\ DOMAIN outbox = 1..Len(outbox) /\ DOMAIN outbox' = 1..Len(outbox) + 1 /\ Len(outbox) \in Nat
      /\ \A k \in DOMAIN outbox : outbox'[k] = outbox[k]
    BY WriteBegins
<1>2. outbox'[Len(outbox) + 1].status = "OPEN" /\ wire' = wire
    BY WriteBegins
<1>3. \A k \in DOMAIN outbox' : k \in DOMAIN outbox \/ outbox'[k].status = "OPEN"
    BY <1>1, <1>2
<1>4. DOMAIN outbox \subseteq DOMAIN outbox'
    BY <1>1
<1>5. \A k \in DOMAIN outbox : /\ ToHand(k)' <=> ToHand(k)
                               /\ Committed(k)' <=> Committed(k)
                               /\ outbox'[k].status = "PENDING" => outbox[k].status = "PENDING"
    BY <1>1 DEF ToHand, Committed
<1> QED BY <1>2, <1>3, <1>4, <1>5, StaysComing

LEMMA FinishComing ==
    ASSUME BellTypes, EntriesOK, DispatchOK
    PROVE  /\ MarkPublished \/ HandleFailure => SameComing
           /\ \A i \in DOMAIN outbox : BackoffEnds(i) => SameComing
           /\ UNCHANGED <<outbox, wire>> => SameComing
<1>1. ASSUME MarkPublished \/ HandleFailure PROVE SameComing
  <2>1. /\ OneChanges(Turn, {"status", "attempts", "waiting"}) /\ Turn \in batch
        /\ outbox'[Turn].status \in {"PENDING", "PUBLISHED", "FAILED"}
    <3>1. CASE MarkPublished
        BY <3>1, PublishDoes DEF OneChanges, SameBut
    <3>2. CASE HandleFailure
        BY <3>2, FailureDoes DEF OneChanges, SameBut, DispatchOK
    <3> QED BY <1>1, <3>1, <3>2
  <2>2. wire' = wire /\ outbox[Turn].handed /\ outbox[Turn].status = "PENDING"
      BY <1>1, <2>1 DEF MarkPublished, HandleFailure, FinishHead, shownVars, DispatchOK
  <2>3. PICK t : t = Turn
      OBVIOUS
  <2>4. ASSUME NEW k \in DOMAIN outbox
        PROVE  /\ ToHand(k)' <=> ToHand(k)
               /\ Committed(k)' <=> Committed(k)
               /\ outbox'[k].status = "PENDING" => outbox[k].status = "PENDING"
    <3>1. CASE k = t
      <4>1. /\ outbox'[k].handed /\ outbox[k].handed /\ outbox[k].status = "PENDING"
            /\ outbox'[k].status \in {"PENDING", "PUBLISHED", "FAILED"}
          BY <2>1, <2>2, <2>3, <3>1 DEF OneChanges, SameBut
      <4> QED BY <4>1 DEF ToHand, Committed, Visible
    <3>2. CASE k # t
      <4>1. outbox'[k] = outbox[k]
          BY <2>1, <2>3, <3>2 DEF OneChanges
      <4> QED BY <4>1 DEF ToHand, Committed
    <3> QED BY <3>1, <3>2
  <2> QED BY <2>1, <2>2, <2>4, StaysComing DEF OneChanges
<1>2. ASSUME NEW i \in DOMAIN outbox, BackoffEnds(i) PROVE SameComing
  <2>1. OneChanges(i, {"waiting"}) /\ wire' = wire
      BY <1>2, BackoffDoes DEF BackoffEnds, shownVars
  <2>2. \A k \in DOMAIN outbox : /\ ToHand(k)' <=> ToHand(k)
                                 /\ Committed(k)' <=> Committed(k)
                                 /\ outbox'[k].status = "PENDING" => outbox[k].status = "PENDING"
      BY <2>1 DEF OneChanges, SameBut, ToHand, Committed
  <2> QED BY <2>1, <2>2, StaysComing DEF OneChanges
<1>3. ASSUME UNCHANGED <<outbox, wire>> PROVE SameComing
    BY <1>3, StaysComing DEF ToHand, Committed
<1> QED BY <1>1, <1>2, <1>3

LEMMA CommitComing ==
    ASSUME BellTypes, EntriesOK, WritersOK, NEW w \in Writers, Commit(w), NEW n, n = writing[w].event
    PROVE  /\ n \in DOMAIN outbox /\ Coming' = Coming \cup {n} /\ Living' = Living \cup {n}
           /\ \A i \in DOMAIN outbox : n > i => Later(i)' = Later(i) \cup {n}
           /\ \A i \in DOMAIN outbox : ~(n > i) => Later(i)' = Later(i)
<1>1. /\ OneChanges(n, {"status"}) /\ outbox'[n].status = "PENDING" /\ outbox[n].status = "OPEN"
      /\ wire' = wire
    BY CommitDoes DEF Commit, shownVars
<1>2. /\ n \in DOMAIN outbox /\ DOMAIN outbox' = DOMAIN outbox /\ ~outbox[n].handed /\ ~outbox'[n].handed
      /\ \A k \in DOMAIN outbox : k # n => outbox'[k] = outbox[k]
    BY <1>1 DEF OneChanges, SameBut, EntriesOK
<1>3. \A k : OnWire(k)' <=> OnWire(k)
    BY <1>1 DEF OnWire
<1>4. \A k : k \in Coming' <=> k \in Coming \/ k = n
    BY <1>1, <1>2, <1>3 DEF Coming, ToHand
<1>5. \A k : k \in Living' <=> k \in Living \/ k = n
    BY <1>1, <1>2, <1>3 DEF Living
<1>6. ASSUME NEW i \in DOMAIN outbox PROVE \A k : k \in Later(i)' <=> k \in Later(i) \/ (k = n /\ n > i)
    BY <1>1, <1>2 DEF Later, Committed, Visible
<1>7. Coming' = Coming \cup {n}
    BY <1>4
<1>8. Living' = Living \cup {n}
    BY <1>5
<1>9. ASSUME NEW i \in DOMAIN outbox, n > i PROVE Later(i)' = Later(i) \cup {n}
    BY <1>6, <1>9
<1>10. ASSUME NEW i \in DOMAIN outbox, ~(n > i) PROVE Later(i)' = Later(i)
    BY <1>6, <1>10
<1> QED BY <1>2, <1>7, <1>8, <1>9, <1>10

LEMMA HandleComing ==
    ASSUME BellTypes, EntriesOK, DispatchOK, Handle
    PROVE  /\ Living' \subseteq Living /\ Turn \in Living
           /\ \A i \in DOMAIN outbox : Later(i)' = Later(i)
           /\ link = "up" => Coming' = Coming \cup {Turn}
<1>1. OneChanges(Turn, {"handed"}) /\ outbox'[Turn].handed = TRUE /\ Turn \in batch
    BY HandleDoes
<1>2. wire' = (IF link = "up" THEN Append(wire, Turn) ELSE wire) /\ outbox[Turn].status = "PENDING"
    BY <1>1 DEF Handle, DispatchOK
<1>3. PICK t : t = Turn
    OBVIOUS
<1>4. /\ t \in DOMAIN outbox /\ DOMAIN outbox' = DOMAIN outbox /\ outbox[t].status = "PENDING"
      /\ outbox'[t].status = "PENDING" /\ outbox'[t].handed
      /\ \A k \in DOMAIN outbox : k # t => outbox'[k] = outbox[k]
    BY <1>1, <1>2, <1>3 DEF OneChanges, SameBut
<1>5. ASSUME NEW k PROVE OnWire(k)' <=> OnWire(k) \/ (link = "up" /\ k = t)
  <2>1. CASE link = "up"
    <3>1. /\ DOMAIN wire = 1..Len(wire) /\ DOMAIN wire' = 1..Len(wire) + 1 /\ Len(wire) \in Nat
          /\ wire'[Len(wire) + 1] = t /\ \A j \in DOMAIN wire : wire'[j] = wire[j]
        BY <1>2, <1>3, <1>4, <2>1, AppendProperties, LenProperties DEF BellTypes
    <3>2. \A j : j \in DOMAIN wire' <=> j \in DOMAIN wire \/ j = Len(wire) + 1
        BY <3>1
    <3> QED BY <2>1, <3>1, <3>2 DEF OnWire
  <2>2. CASE link # "up"
      BY <1>2, <2>2 DEF OnWire
  <2> QED BY <2>1, <2>2
<1>6. t \in Living
    BY <1>4 DEF Living
<1>7. ASSUME NEW k \in Living' PROVE k \in Living
  <2>1. k \in DOMAIN outbox /\ (outbox'[k].status = "PENDING" \/ OnWire(k)')
      BY <1>4 DEF Living
  <2>2. CASE k = t
      BY <1>6, <2>2
  <2>3. CASE k # t
      BY <1>4, <1>5, <2>1, <2>3 DEF Living
  <2> QED BY <2>2, <2>3
<1>8. ASSUME NEW i \in DOMAIN outbox PROVE Later(i)' = Later(i)
    BY <1>4 DEF Later, Committed, Visible
<1>9. ASSUME link = "up" PROVE Coming' = Coming \cup {t}
  <2>1. ASSUME NEW k PROVE k \in Coming' <=> k \in Coming \/ k = t
    <3>1. CASE k = t
        BY <1>4, <1>5, <1>9, <3>1 DEF Coming
    <3>2. CASE k # t
        BY <1>4, <1>5, <3>2 DEF Coming, ToHand
    <3> QED BY <3>1, <3>2
  <2> QED BY <2>1
<1> QED BY <1>3, <1>6, <1>7, <1>8, <1>9

LEMMA CrashComing ==
    ASSUME BellTypes, DispatchOK, Crash
    PROVE  /\ Living' \subseteq Living /\ \A i \in DOMAIN outbox : Later(i)' = Later(i)
           /\ link = "loading" => Coming' = Coming
<1>1. /\ DOMAIN outbox' = DOMAIN outbox
      /\ \A k \in DOMAIN outbox :
                /\ SameBut(outbox[k], outbox'[k], {"status"})
                /\ outbox[k].status = "OPEN" => outbox'[k].status = "GONE"
                /\ outbox[k].status # "OPEN" => outbox'[k] = outbox[k]
    BY CrashDoes
<1>2. wire' = <<>>
    BY DEF Crash
<1>3. \A k : ~OnWire(k)'
    BY <1>2, EmptySeq DEF OnWire
<1>4. \A k \in DOMAIN outbox : /\ ToHand(k)' <=> ToHand(k)
                               /\ Committed(k)' <=> Committed(k)
                               /\ outbox'[k].status = "PENDING" => outbox[k].status = "PENDING"
    BY <1>1 DEF SameBut, ToHand, Committed, Visible
<1>5. Living' \subseteq Living
    BY <1>1, <1>3, <1>4 DEF Living
<1>6. ASSUME NEW i \in DOMAIN outbox PROVE Later(i)' = Later(i)
    BY <1>1, <1>4 DEF Later
<1>7. ASSUME link = "loading" PROVE Coming' = Coming
  <2>1. wire = <<>>
      BY <1>7 DEF DispatchOK
  <2>2. \A k : ~OnWire(k)
      BY <2>1, EmptySeq DEF OnWire
  <2> QED BY <1>1, <1>3, <1>4, <2>2 DEF Coming
<1> QED BY <1>5, <1>6, <1>7

LEMMA CutComing ==
    ASSUME BellTypes, UNCHANGED outbox, \A k : OnWire(k)' => OnWire(k)
    PROVE  Living' \subseteq Living /\ \A i \in DOMAIN outbox : Later(i)' = Later(i)
    BY DEF Living, Later, Committed

\* With nothing pending and nothing on the wire, nothing is to come.
LEMMA NothingComes ==
    ASSUME BellTypes, AllTold
    PROVE  Coming = {} /\ Living = {} /\ \A w \in Writers : ~Open(w)
<1>1. \A k : ~OnWire(k)
    BY EmptySeq DEF AllTold, OnWire
<1> QED BY <1>1 DEF AllTold, Coming, Living, ToHand, SomeOpen, Open

-------------------------------------------------------------------------------
\* A list no event crossed shows the rows of the store, when nothing is to come.
LEMMA ListStays ==
    ASSUME ListStands, Coming' = {} => Coming = {}, link' # "down" => link # "down", rows' = rows, refetch' = refetch
    PROVE  ListStands'
    BY DEF ListStands

LEMMA ListAway ==
    ASSUME refetch'.stage \notin {"items", "answered"} \/ refetch'.crossed \/ link' = "down" \/ Coming' # {}
    PROVE  ListStands'
    BY DEF ListStands

LEMMA BeginsKeepList ==
    ASSUME BellTypes, ListStands
    PROVE  /\ \A w \in Senders, o \in Orders : SendMessage(w, o) => ListStands'
           /\ MarkRead => ListStands'
           /\ MarkAllRead => ListStands'
<1>1. ASSUME NEW w \in Writers, NEW wrote \in SUBSET Orders, NEW new \in Rows, NEW b \in Bodies,
             BeginWrite(w, wrote, new, b)
      PROVE  ListStands'
  <2>1. UNCHANGED <<rows, link, refetch>>
      BY <1>1 DEF BeginWrite, shownVars
  <2>2. SameComing
      BY <1>1, BeginComing
  <2> QED BY <2>1, <2>2, ListStays DEF SameComing
<1>2. ASSUME NEW w \in Senders, NEW o \in Orders, SendMessage(w, o) PROVE ListStands'
    BY <1>1, <1>2, MessageBegins, Zenon
<1>3. ASSUME MarkRead PROVE ListStands'
    BY <1>1, <1>3, MarkBegins, Zenon
<1>4. ASSUME MarkAllRead PROVE ListStands'
    BY <1>1, <1>4, MarkAllBegins, Zenon
<1> QED BY <1>2, <1>3, <1>4

LEMMA StepsKeepList ==
    ASSUME BellTypes, EntriesOK, DispatchOK, WritersOK, ListStands
    PROVE  /\ \A w \in Writers : Commit(w) => ListStands'
           /\ FetchPending \/ Handle \/ MarkPublished \/ HandleFailure \/ AbandonBatch \/ Crash => ListStands'
           /\ \A i \in DOMAIN outbox : BackoffEnds(i) => ListStands'
<1>1. ASSUME NEW w \in Writers, Commit(w) PROVE ListStands'
  <2>1. PICK n : n = writing[w].event
      OBVIOUS
  <2>2. Coming' # {}
      BY <1>1, <2>1, CommitComing
  <2> QED BY <2>2, ListAway
<1>2. ASSUME FetchPending \/ MarkPublished \/ HandleFailure \/ AbandonBatch PROVE ListStands'
  <2>1. SameComing
      BY <1>2, FinishComing DEF FetchPending, AbandonBatch, shownVars
  <2>2. UNCHANGED <<rows, link, refetch>>
      BY <1>2 DEF FetchPending, MarkPublished, HandleFailure, AbandonBatch, FinishHead, shownVars
  <2> QED BY <2>1, <2>2, ListStays DEF SameComing
<1>3. ASSUME NEW i \in DOMAIN outbox, BackoffEnds(i) PROVE ListStands'
  <2>1. SameComing
      BY <1>3, FinishComing
  <2>2. UNCHANGED <<rows, link, refetch>>
      BY <1>3 DEF BackoffEnds, shownVars
  <2> QED BY <2>1, <2>2, ListStays DEF SameComing
<1>4. ASSUME Handle PROVE ListStands'
  <2>1. CASE link = "up"
      BY <1>4, <2>1, HandleComing, ListAway
  <2>2. CASE link = "joining"
    <3>1. refetch' = Crossed(refetch) /\ refetch \in Refetchings
        BY <1>4, <2>2 DEF Handle, BellTypes
    <3>2. refetch'.stage \notin {"items", "answered"} \/ refetch'.crossed
        BY <3>1, RefetchIs
    <3> QED BY <3>2, ListAway
  <2>3. CASE link = "loading"
    <3>1. refetch' = Idle
        BY <1>4, <2>3 DEF Handle, DispatchOK
    <3> QED BY <3>1, IdleIs, ListAway
  <2>4. CASE link = "down"
      BY <1>4, <2>4, ListAway DEF Handle
  <2> QED BY <2>1, <2>2, <2>3, <2>4 DEF BellTypes
<1>5. ASSUME Crash PROVE ListStands'
  <2>1. CASE link = "loading"
    <3>1. refetch' = Idle
        BY <1>5, <2>1 DEF Crash, DispatchOK
    <3> QED BY <3>1, IdleIs, ListAway
  <2>2. CASE link # "loading"
      BY <1>5, <2>2, ListAway DEF Crash
  <2> QED BY <2>1, <2>2
<1> QED BY <1>1, <1>2, <1>3, <1>4, <1>5

LEMMA PageKeepsList ==
    ASSUME BellTypes, EntriesOK, DispatchOK, ListStands
    PROVE  /\ RefuseMark => ListStands'
           /\ Disconnect \/ Connect \/ JoinRoom \/ RefetchFails \/ ShowRefusal => ListStands'
           /\ ReadItems \/ CountUnread \/ ReplaceNotifications => ListStands'
           /\ Deliver => ListStands'
           /\ (\E o \in Orders : ClickRead(o)) \/ ClickAll \/ DateMarkAll => ListStands'
           /\ ApplyAnswer => ListStands'
<1>1. ASSUME UNCHANGED <<rows, outbox, wire, refetch>>, link' # "down" => link # "down" PROVE ListStands'
  <2>1. SameComing
      BY <1>1, FinishComing
  <2> QED BY <1>1, <2>1, ListStays DEF SameComing
<1>2. ASSUME RefuseMark \/ (\E o \in Orders : ClickRead(o)) \/ ClickAll \/ DateMarkAll \/ ApplyAnswer \/ JoinRoom
      PROVE  ListStands'
    BY <1>1, <1>2 DEF RefuseMark, ClickRead, ClickAll, DateMarkAll, ApplyAnswer, JoinRoom, shownVars
<1>3. ASSUME Disconnect PROVE ListStands'
    BY <1>3, ListAway DEF Disconnect
<1>4. ASSUME Connect \/ RefetchFails \/ ShowRefusal \/ ReplaceNotifications PROVE ListStands'
  <2>1. refetch' = Idle \/ refetch' = [stage |-> "asked"]
      BY <1>4 DEF Connect, RefetchFails, ShowRefusal, ReplaceNotifications
  <2>2. refetch'.stage \notin {"items", "answered"}
      BY <2>1, IdleIs
  <2> QED BY <2>2, ListAway
<1>5. ASSUME ReadItems PROVE ListStands'
    BY <1>5, ReadDoes DEF ListStands
<1>6. ASSUME CountUnread PROVE ListStands'
  <2>1. /\ refetch.stage = "items" /\ refetch'.stage = "answered"
        /\ refetch'.items = refetch.items /\ refetch'.crossed = refetch.crossed
        /\ refetch'.unread = Unread(rows)
        /\ UNCHANGED <<rows, outbox, wire, link>>
      BY <1>6, CountDoes
  <2>2. SameComing
      BY <2>1, FinishComing
  <2>3. Unread(rows)' = Unread(rows)
      BY <2>1
  <2> QED BY <2>1, <2>2, <2>3 DEF ListStands, SameComing
<1>7. ASSUME Deliver PROVE ListStands'
  <2>1. refetch' = Crossed(refetch) /\ refetch \in Refetchings
      BY <1>7, DeliverDoes DEF BellTypes
  <2>2. refetch'.stage \notin {"items", "answered"} \/ refetch'.crossed
      BY <2>1, RefetchIs
  <2> QED BY <2>2, ListAway
<1> QED BY <1>2, <1>3, <1>4, <1>5, <1>6, <1>7

-------------------------------------------------------------------------------
\* One transaction after the other, and the events in their turn.
LEMMA BatchEmpty == ASSUME batch' = {} PROVE BatchFirst'
    BY DEF BatchFirst

LEMMA BatchStays ==
    ASSUME BatchFirst, batch' \subseteq batch,
           \A k \in DOMAIN outbox' : ToHand(k)' => k \in DOMAIN outbox /\ ToHand(k),
           \A k \in batch : k \notin batch' => ~ToHand(k)'
    PROVE  BatchFirst'
<1>1. ASSUME NEW i \in batch', NEW k \in DOMAIN outbox' \ batch', ToHand(k)' PROVE i < k
    BY <1>1 DEF BatchFirst
<1> QED BY <1>1 DEF BatchFirst

TurnsTaken == HandedFirst /\ WireSorted /\ WireWhole
LEMMA TurnsStay ==
    ASSUME BellTypes, TurnsTaken, wire' = wire \/ wire' = <<>>, DOMAIN outbox \subseteq DOMAIN outbox',
           \A k \in DOMAIN outbox : (outbox'[k].handed <=> outbox[k].handed) /\ (Committed(k)' <=> Committed(k)),
           \A k \in DOMAIN outbox' : k \in DOMAIN outbox \/ (~outbox'[k].handed /\ ~Committed(k)')
    PROVE  TurnsTaken'
<1>1. HandedFirst'
  <2>1. ASSUME NEW i \in DOMAIN outbox', NEW k \in DOMAIN outbox', i < k, outbox'[k].handed, Committed(i)'
        PROVE  outbox'[i].handed
    <3>1. i \in DOMAIN outbox /\ k \in DOMAIN outbox
        BY <2>1
    <3>2. outbox[k].handed /\ Committed(i)
        BY <2>1, <3>1
    <3>3. outbox[i].handed
        BY <2>1, <3>1, <3>2 DEF TurnsTaken, HandedFirst
    <3> QED BY <3>1, <3>3
  <2> QED BY <2>1 DEF HandedFirst
<1>2. CASE wire' = wire
  <2>1. WireSorted'
      BY <1>2 DEF TurnsTaken, WireSorted
  <2>2. WireWhole'
    <3>1. ASSUME NEW k \in DOMAIN wire, NEW i \in DOMAIN outbox', wire[k] < i, outbox'[i].handed
          PROVE  OnWire(i)
        BY <3>1 DEF TurnsTaken, WireWhole
    <3> QED BY <1>2, <3>1 DEF WireWhole, OnWire
  <2> QED BY <1>1, <2>1, <2>2 DEF TurnsTaken
<1>3. CASE wire' = <<>>
  <2>1. DOMAIN wire' = {}
      BY <1>3, EmptySeq
  <2>2. WireSorted' /\ WireWhole'
      BY <2>1 DEF WireSorted, WireWhole
  <2> QED BY <1>1, <2>2 DEF TurnsTaken
<1> QED BY <1>2, <1>3

LEMMA BeginInTurn ==
    ASSUME BellTypes, InTurn, OneByOne, NEW w \in Writers, NEW wrote \in SUBSET Orders, NEW new \in Rows, NEW b \in Bodies,
           BeginWrite(w, wrote, new, b), skewed' = {}
    PROVE  skewed = {} /\ ~SomeOpen /\ OneByOne' /\ InTurn'
<1>1. skewed = {} /\ ~SomeOpen
    BY WriteBegins
<1>2. OneByOne'
  <2>1. \A v \in Writers : Open(v)' => v = w
    <3>1. \A v \in Writers : ~Open(v)
        BY <1>1 DEF SomeOpen, Open
    <3>2. \A v \in Writers \ {w} : writing'[v] = writing[v]
        BY WriteBegins
    <3> QED BY <3>1, <3>2 DEF Open
  <2>2. writing'[w].event = Len(outbox) + 1 /\ Len(outbox') = Len(outbox) + 1
      BY WriteBegins
  <2> QED BY <2>1, <2>2 DEF OneByOne
<1>3. /\ DOMAIN outbox \subseteq DOMAIN outbox' /\ batch' = batch /\ wire' = wire
      /\ \A k \in DOMAIN outbox : outbox'[k] = outbox[k]
      /\ \A k \in DOMAIN outbox' : k \in DOMAIN outbox \/ (outbox'[k].status = "OPEN" /\ ~outbox'[k].handed)
  <2>1. DOMAIN outbox = 1..Len(outbox) /\ DOMAIN outbox' = 1..Len(outbox) + 1 /\ Len(outbox) \in Nat
      BY WriteBegins
  <2>2. /\ batch' = batch /\ wire' = wire /\ \A k \in DOMAIN outbox : outbox'[k] = outbox[k]
        /\ outbox'[Len(outbox) + 1].status = "OPEN" /\ ~outbox'[Len(outbox) + 1].handed
      BY WriteBegins
  <2> QED BY <2>1, <2>2
<1>4. BatchFirst'
  <2>1. \A k \in DOMAIN outbox' : ToHand(k)' => k \in DOMAIN outbox /\ ToHand(k)
      BY <1>3 DEF ToHand
  <2> QED BY <1>3, <2>1, BatchStays DEF InTurn
<1>5. TurnsTaken'
  <2>1. \A k \in DOMAIN outbox : (outbox'[k].handed <=> outbox[k].handed) /\ (Committed(k)' <=> Committed(k))
      BY <1>3 DEF Committed
  <2>2. \A k \in DOMAIN outbox' : k \in DOMAIN outbox \/ (~outbox'[k].handed /\ ~Committed(k)')
      BY <1>3 DEF Committed, Visible
  <2> QED BY <1>3, <2>1, <2>2, TurnsStay DEF InTurn, TurnsTaken
<1> QED BY <1>1, <1>2, <1>4, <1>5 DEF InTurn, TurnsTaken

LEMMA LastOpen ==
    ASSUME BellTypes, WritersOK, OneByOne, NEW w \in Writers, Open(w)
    PROVE  writing[w].event \in DOMAIN outbox /\ \A k \in DOMAIN outbox : k <= writing[w].event
<1>1. writing[w].event = Len(outbox) /\ DOMAIN outbox = 1..Len(outbox) /\ Len(outbox) \in Nat
    BY LenProperties DEF OneByOne, BellTypes
<1> QED BY <1>1 DEF WritersOK

LEMMA CommitInTurn ==
    ASSUME BellTypes, EntriesOK, DispatchOK, WritersOK, OneByOne, InTurn, NEW w \in Writers, Commit(w)
    PROVE  (\A v \in Writers : ~Open(v)') /\ OneByOne' /\ InTurn'
<1>1. PICK n : n = writing[w].event
    OBVIOUS
<1>2. /\ n \in DOMAIN outbox /\ DOMAIN outbox' = DOMAIN outbox /\ outbox[n].status = "OPEN" /\ ~outbox[n].handed
      /\ ~outbox'[n].handed /\ \A k \in DOMAIN outbox : k # n => outbox'[k] = outbox[k]
    BY <1>1, CommitDoes DEF OneChanges, SameBut, EntriesOK
<1>3. wire' = wire /\ batch' = batch
    BY DEF Commit, shownVars, dispatcherVars
<1>4. Open(w) /\ ~Open(w)' /\ \A v \in Writers \ {w} : writing'[v] = writing[v]
    BY CommitDoes
<1>5. \A k \in DOMAIN outbox : k <= n
    BY <1>1, <1>4, LastOpen
<1>6. \A v \in Writers : ~Open(v)'
    BY <1>4 DEF OneByOne, Open
<1>7. BatchFirst'
  <2>1. ASSUME NEW i \in batch, NEW k \in DOMAIN outbox, k \notin batch, ToHand(k)' PROVE i < k
    <3>1. i \in DOMAIN outbox /\ outbox[i].status = "PENDING"
        BY DEF BellTypes, DispatchOK
    <3>2. CASE k = n
      <4>1. i # n /\ i <= n /\ i \in Int /\ n \in Int
          BY <1>2, <1>5, <3>1, LenProperties DEF BellTypes
      <4> QED BY <3>2, <4>1
    <3>3. CASE k # n
      <4>1. ToHand(k)
          BY <1>2, <2>1, <3>3 DEF ToHand
      <4> QED BY <2>1, <4>1 DEF InTurn, BatchFirst
    <3> QED BY <3>2, <3>3
  <2> QED BY <1>2, <1>3, <2>1 DEF BatchFirst
<1>8. HandedFirst'
  <2>1. ASSUME NEW i \in DOMAIN outbox, NEW k \in DOMAIN outbox, i < k, outbox'[k].handed, Committed(i)'
        PROVE  outbox'[i].handed
    <3>1. k # n
        BY <1>2, <2>1
    <3>2. i # n
      <4>1. k <= n /\ k \in Int /\ n \in Int
          BY <1>2, <1>5, LenProperties DEF BellTypes
      <4> QED BY <2>1, <4>1
    <3>3. outbox'[k] = outbox[k] /\ outbox'[i] = outbox[i]
        BY <1>2, <3>1, <3>2
    <3>4. Committed(i) /\ outbox[k].handed
        BY <2>1, <3>3 DEF Committed
    <3>5. outbox[i].handed
        BY <2>1, <3>4 DEF InTurn, HandedFirst
    <3> QED BY <3>3, <3>5
  <2> QED BY <1>2, <2>1 DEF HandedFirst
<1>9. WireSorted'
    BY <1>3 DEF InTurn, WireSorted
<1>10. WireWhole'
  <2>1. ASSUME NEW k \in DOMAIN wire, NEW i \in DOMAIN outbox, wire[k] < i, outbox'[i].handed PROVE OnWire(i)
      BY <1>2, <2>1 DEF InTurn, WireWhole
  <2> QED BY <1>2, <1>3, <2>1 DEF WireWhole, OnWire
<1> QED BY <1>6, <1>7, <1>8, <1>9, <1>10 DEF InTurn, OneByOne

-------------------------------------------------------------------------------
LEMMA OneByOneStays ==
    ASSUME OneByOne, Len(outbox') = Len(outbox),
           \A w \in Writers : Open(w)' => Open(w) /\ writing'[w] = writing[w]
    PROVE  OneByOne'
<1>1. ASSUME NEW v \in Writers, NEW w \in Writers, Open(v)', Open(w)' PROVE v = w
  <2>1. Open(v) /\ Open(w)
      BY <1>1
  <2> QED BY <2>1 DEF OneByOne
<1>2. ASSUME NEW w \in Writers, Open(w)' PROVE writing'[w].event = Len(outbox')
  <2>1. Open(w) /\ writing'[w] = writing[w]
      BY <1>2
  <2> QED BY <2>1 DEF OneByOne
<1> QED BY <1>1, <1>2 DEF OneByOne

LEMMA ReadyFirst ==
    ASSUME BellTypes, NEW i \in Ready, NEW k \in Ready, k <= i
    PROVE  Cardinality({j \in Ready : j < k}) <= Cardinality({j \in Ready : j < i})
<1>1. DOMAIN outbox = 1..Len(outbox) /\ Len(outbox) \in Nat
    BY LenProperties DEF BellTypes
<1>2. IsFiniteSet(DOMAIN outbox) /\ Ready \subseteq DOMAIN outbox
    BY <1>1, FS_Interval DEF Ready
<1>3. {j \in Ready : j < i} \subseteq DOMAIN outbox
    BY <1>2
<1>4. {j \in Ready : j < k} \subseteq {j \in Ready : j < i}
  <2>1. ASSUME NEW j \in Ready, j < k PROVE j < i
    <3>1. j \in Int /\ k \in Int /\ i \in Int
        BY <1>1, <1>2
    <3> QED BY <2>1, <3>1
  <2> QED BY <2>1
<1>5. IsFiniteSet({j \in Ready : j < i})
    BY <1>2, <1>3, FS_Subset
<1> QED BY <1>4, <1>5, FS_Subset

LEMMA FetchInTurn ==
    ASSUME BellTypes, EntriesOK, OneByOne, InTurn, FetchPending
    PROVE  OneByOne' /\ InTurn'
<1>1. /\ batch' = {i \in Ready : Cardinality({j \in Ready : j < i}) < BatchSize}
      /\ UNCHANGED <<outbox, writing, wire>>
    BY DEF FetchPending, shownVars
<1>2. BatchFirst'
  <2>1. ASSUME NEW i \in batch', NEW k \in DOMAIN outbox, k \notin batch', ToHand(k) PROVE i < k
    <3>1. i \in Ready /\ Cardinality({j \in Ready : j < i}) < BatchSize
        BY <1>1
    <3>2. k \in Ready
        BY <2>1 DEF EntriesOK, ToHand, Ready
    <3>3. ~(Cardinality({j \in Ready : j < k}) < BatchSize)
        BY <1>1, <2>1, <3>2
    <3>4. i \in Int /\ k \in Int /\ BatchSize \in Nat
        BY <3>1, <3>2, LenProperties, NotificationsAssumption DEF Ready, BellTypes
    <3>5. CASE k <= i
      <4>1. /\ Cardinality({j \in Ready : j < k}) <= Cardinality({j \in Ready : j < i})
            /\ Cardinality({j \in Ready : j < k}) \in Nat /\ Cardinality({j \in Ready : j < i}) \in Nat
        <5>1. Cardinality({j \in Ready : j < k}) <= Cardinality({j \in Ready : j < i})
            BY <3>1, <3>2, <3>5, ReadyFirst
        <5>2. DOMAIN outbox = 1..Len(outbox) /\ Len(outbox) \in Nat
            BY LenProperties DEF BellTypes
        <5>3. IsFiniteSet(DOMAIN outbox)
            BY <5>2, FS_Interval
        <5>4. {j \in Ready : j < k} \subseteq DOMAIN outbox /\ {j \in Ready : j < i} \subseteq DOMAIN outbox
            BY DEF Ready
        <5>5. IsFiniteSet({j \in Ready : j < k}) /\ IsFiniteSet({j \in Ready : j < i})
            BY <5>3, <5>4, FS_Subset
        <5> QED BY <5>1, <5>5, FS_CardinalityType
      <4> QED BY <3>1, <3>3, <3>4, <4>1
    <3> QED BY <3>4, <3>5
  <2>2. \A k : ToHand(k)' <=> ToHand(k)
      BY <1>1 DEF ToHand
  <2> QED BY <1>1, <2>1, <2>2 DEF BatchFirst
<1>3. TurnsTaken'
    BY <1>1, TurnsStay DEF InTurn, TurnsTaken, Committed
<1>4. OneByOne'
    BY <1>1 DEF OneByOne, Open
<1> QED BY <1>2, <1>3, <1>4 DEF InTurn, TurnsTaken

LEMMA FinishInTurn ==
    ASSUME BellTypes, EntriesOK, DispatchOK, OneByOne, InTurn
    PROVE  /\ MarkPublished \/ HandleFailure => OneByOne' /\ InTurn'
           /\ \A i \in DOMAIN outbox : BackoffEnds(i) => OneByOne' /\ InTurn'
           /\ AbandonBatch \/ Crash => OneByOne' /\ InTurn'
<1>1. ASSUME MarkPublished \/ HandleFailure PROVE OneByOne' /\ InTurn'
  <2>1. PICK t : t = Turn
      OBVIOUS
  <2>2. /\ OneChanges(t, {"status", "attempts", "waiting"}) /\ t \in batch
        /\ outbox'[t].status \in {"PENDING", "PUBLISHED", "FAILED"}
    <3>1. CASE MarkPublished
        BY <2>1, <3>1, PublishDoes DEF OneChanges, SameBut
    <3>2. CASE HandleFailure
        BY <2>1, <3>2, FailureDoes DEF OneChanges, SameBut, DispatchOK
    <3> QED BY <1>1, <3>1, <3>2
  <2>3. wire' = wire /\ writing' = writing /\ outbox[t].handed /\ outbox[t].status = "PENDING" /\ batch' = batch \ {t}
      BY <1>1, <2>1, <2>2 DEF MarkPublished, HandleFailure, FinishHead, shownVars, DispatchOK
  <2>4. /\ DOMAIN outbox' = DOMAIN outbox /\ Len(outbox') = Len(outbox) /\ t \in DOMAIN outbox
        /\ outbox'[t].handed /\ \A k \in DOMAIN outbox : k # t => outbox'[k] = outbox[k]
      BY <2>2, <2>3 DEF OneChanges, SameBut
  <2>5. \A k \in DOMAIN outbox : (outbox'[k].handed <=> outbox[k].handed) /\ (Committed(k)' <=> Committed(k))
    <3>1. ASSUME NEW k \in DOMAIN outbox
          PROVE (outbox'[k].handed <=> outbox[k].handed) /\ (Committed(k)' <=> Committed(k))
      <4>1. CASE k = t
          BY <2>2, <2>3, <2>4, <4>1 DEF Committed, Visible
      <4>2. CASE k # t
          BY <2>4, <4>2 DEF Committed
      <4> QED BY <4>1, <4>2
    <3> QED BY <3>1
  <2>6. BatchFirst'
    <3>1. \A k \in DOMAIN outbox' : ToHand(k)' => k \in DOMAIN outbox /\ ToHand(k) /\ k # t
        BY <2>4 DEF ToHand
    <3> QED BY <2>3, <2>4, <3>1, BatchStays DEF InTurn
  <2>7. TurnsTaken'
      BY <2>3, <2>4, <2>5, TurnsStay DEF InTurn, TurnsTaken
  <2>8. OneByOne'
      BY <2>3, <2>4, OneByOneStays DEF Open
  <2> QED BY <2>6, <2>7, <2>8 DEF InTurn, TurnsTaken
<1>2. ASSUME NEW i \in DOMAIN outbox, BackoffEnds(i) PROVE OneByOne' /\ InTurn'
  <2>1. OneChanges(i, {"waiting"}) /\ UNCHANGED <<wire, writing, batch>>
      BY <1>2, BackoffDoes DEF BackoffEnds, shownVars, dispatcherVars
  <2>2. DOMAIN outbox' = DOMAIN outbox /\ Len(outbox') = Len(outbox)
      BY <2>1 DEF OneChanges
  <2>3. \A k \in DOMAIN outbox : /\ (outbox'[k].handed <=> outbox[k].handed) /\ (Committed(k)' <=> Committed(k))
                                 /\ ToHand(k)' <=> ToHand(k)
      BY <2>1 DEF OneChanges, SameBut, Committed, ToHand
  <2>4. BatchFirst'
      BY <2>1, <2>2, <2>3, BatchStays DEF InTurn
  <2>5. TurnsTaken'
      BY <2>1, <2>2, <2>3, TurnsStay DEF InTurn, TurnsTaken
  <2>6. OneByOne'
      BY <2>1, <2>2, OneByOneStays DEF Open
  <2> QED BY <2>4, <2>5, <2>6 DEF InTurn, TurnsTaken
<1>3. ASSUME AbandonBatch PROVE OneByOne' /\ InTurn'
  <2>1. batch' = {} /\ UNCHANGED <<outbox, writing, wire>>
      BY <1>3 DEF AbandonBatch, shownVars
  <2>2. TurnsTaken'
      BY <2>1, TurnsStay DEF InTurn, TurnsTaken, Committed
  <2>3. OneByOne'
      BY <2>1 DEF OneByOne, Open
  <2> QED BY <2>1, <2>2, <2>3, BatchEmpty DEF InTurn, TurnsTaken
<1>4. ASSUME Crash PROVE OneByOne' /\ InTurn'
  <2>1. batch' = {} /\ wire' = <<>>
      BY <1>4 DEF Crash
  <2>2. /\ DOMAIN outbox' = DOMAIN outbox /\ Len(outbox') = Len(outbox)
        /\ \A k \in DOMAIN outbox : /\ SameBut(outbox[k], outbox'[k], {"status"})
                                    /\ outbox[k].status = "OPEN" => outbox'[k].status = "GONE"
                                    /\ outbox[k].status # "OPEN" => outbox'[k] = outbox[k]
        /\ \A w \in Writers : ~Open(w)'
      BY <1>4, CrashDoes
  <2>3. \A k \in DOMAIN outbox : (outbox'[k].handed <=> outbox[k].handed) /\ (Committed(k)' <=> Committed(k))
      BY <2>2 DEF SameBut, Committed, Visible
  <2>4. TurnsTaken'
      BY <2>1, <2>2, <2>3, TurnsStay DEF InTurn, TurnsTaken
  <2>5. OneByOne'
      BY <2>2 DEF OneByOne
  <2> QED BY <2>1, <2>4, <2>5, BatchEmpty DEF InTurn, TurnsTaken
<1> QED BY <1>1, <1>2, <1>3, <1>4

LEMMA HandleInTurn ==
    ASSUME BellTypes, EntriesOK, DispatchOK, OneByOne, InTurn, Handle, skewed' = {}
    PROVE  skewed = {} /\ link \in {"up", "down"} /\ OneByOne' /\ InTurn'
<1>1. PICK t : t = Turn
    OBVIOUS
<1>2. /\ OneChanges(t, {"handed"}) /\ outbox'[t].handed /\ t \in batch /\ \A k \in batch : t <= k
      /\ outbox[t].status = "PENDING"
    BY <1>1, HandleDoes DEF DispatchOK
<1>3. /\ DOMAIN outbox' = DOMAIN outbox /\ Len(outbox') = Len(outbox) /\ t \in DOMAIN outbox
      /\ outbox'[t].status = "PENDING" /\ \A k \in DOMAIN outbox : k # t => outbox'[k] = outbox[k]
    BY <1>2 DEF OneChanges, SameBut
<1>4. /\ skewed = {} /\ link \in {"up", "down"} /\ \A j \in DOMAIN outbox : j > t => ~outbox[j].handed
      /\ batch' = batch /\ writing' = writing /\ wire' = IF link = "up" THEN Append(wire, t) ELSE wire
    BY <1>1 DEF Handle, BellTypes
<1>5. BatchFirst'
  <2>1. \A k \in DOMAIN outbox' : ToHand(k)' => k \in DOMAIN outbox /\ ToHand(k)
      BY <1>2, <1>3 DEF ToHand
  <2> QED BY <1>4, <2>1, BatchStays DEF InTurn
<1>6. HandedFirst'
  <2>1. ASSUME NEW i \in DOMAIN outbox, NEW k \in DOMAIN outbox, i < k, outbox'[k].handed, Committed(i)', i # t
        PROVE  outbox'[i].handed
    <3>1. outbox'[i] = outbox[i] /\ Committed(i)
        BY <1>3, <2>1 DEF Committed
    <3>2. CASE k = t
      <4>1. i \notin batch
        <5>1. i \in Int /\ t \in Int
            BY <1>3, LenProperties DEF BellTypes
        <5> QED BY <1>2, <2>1, <3>2, <5>1
      <4>2. ~ToHand(i)
        <5>1. i \in Int /\ t \in Int
            BY <1>3, LenProperties DEF BellTypes
        <5>2. ToHand(i) => t < i
            BY <1>2, <4>1 DEF InTurn, BatchFirst
        <5> QED BY <2>1, <3>2, <5>1, <5>2
      <4> QED BY <3>1, <4>2 DEF ToHand, Committed, Visible, EntriesOK
    <3>3. CASE k # t
      <4>1. outbox[k].handed
          BY <1>3, <2>1, <3>3
      <4> QED BY <2>1, <3>1, <4>1 DEF InTurn, HandedFirst
    <3> QED BY <3>2, <3>3
  <2>2. ASSUME NEW i \in DOMAIN outbox', NEW k \in DOMAIN outbox', i < k, outbox'[k].handed, Committed(i)'
        PROVE  outbox'[i].handed
    <3>1. CASE i = t
        BY <1>2, <3>1
    <3>2. CASE i # t
        BY <1>3, <2>1, <2>2, <3>2
    <3> QED BY <3>1, <3>2
  <2> QED BY <2>2 DEF HandedFirst
<1>7. ASSUME link = "up" PROVE WireSorted' /\ WireWhole'
  <2>1. /\ DOMAIN wire = 1..Len(wire) /\ DOMAIN wire' = 1..Len(wire) + 1 /\ Len(wire) \in Nat
        /\ wire'[Len(wire) + 1] = t /\ \A k \in DOMAIN wire : wire'[k] = wire[k]
      BY <1>3, <1>4, <1>7, AppendProperties, LenProperties DEF BellTypes
  <2>2. \A k \in DOMAIN wire : wire[k] \in DOMAIN outbox /\ wire[k] <= t
    <3>1. ASSUME NEW k \in DOMAIN wire PROVE wire[k] \in DOMAIN outbox /\ wire[k] <= t
      <4>1. wire[k] \in DOMAIN outbox /\ outbox[wire[k]].handed
          BY WireIn DEF DispatchOK
      <4>2. ~(wire[k] > t) /\ wire[k] \in Int /\ t \in Int
          BY <1>3, <1>4, <4>1, LenProperties DEF BellTypes
      <4> QED BY <4>1, <4>2
    <3> QED BY <3>1
  <2>3. WireSorted'
    <3>1. ASSUME NEW m \in DOMAIN wire', NEW n \in DOMAIN wire', m < n PROVE wire'[m] <= wire'[n]
      <4>1. m \in DOMAIN wire
          BY <2>1, <3>1
      <4>2. CASE n = Len(wire) + 1
          BY <2>1, <2>2, <4>1, <4>2
      <4>3. CASE n # Len(wire) + 1
        <5>1. n \in DOMAIN wire
            BY <2>1, <4>3
        <5> QED BY <2>1, <3>1, <4>1, <5>1 DEF InTurn, WireSorted
      <4> QED BY <4>2, <4>3
    <3> QED BY <3>1 DEF WireSorted
  <2>4. \A i : OnWire(i) => OnWire(i)'
    <3>1. \A k \in DOMAIN wire : k \in DOMAIN wire'
        BY <2>1
    <3> QED BY <2>1, <3>1 DEF OnWire
  <2>5. OnWire(t)'
      BY <2>1 DEF OnWire
  <2>6. WireWhole'
    <3>1. ASSUME NEW k \in DOMAIN wire', NEW i \in DOMAIN outbox', wire'[k] < i, outbox'[i].handed, i # t
          PROVE  OnWire(i)'
      <4>1. i \in DOMAIN outbox /\ outbox[i].handed
          BY <1>3, <3>1
      <4>2. CASE k = Len(wire) + 1
        <5>1. i > t
          <6>1. i \in Int /\ t \in Int
              BY <1>3, <4>1, LenProperties DEF BellTypes
          <6> QED BY <2>1, <3>1, <4>2, <6>1
        <5> QED BY <1>4, <4>1, <5>1
      <4>3. CASE k # Len(wire) + 1
        <5>1. k \in DOMAIN wire /\ wire[k] < i
            BY <2>1, <3>1, <4>3
        <5>2. OnWire(i)
            BY <4>1, <5>1 DEF InTurn, WireWhole
        <5> QED BY <2>4, <5>2
      <4> QED BY <4>2, <4>3
    <3>2. ASSUME NEW k \in DOMAIN wire', NEW i \in DOMAIN outbox', wire'[k] < i, outbox'[i].handed
          PROVE  OnWire(i)'
      <4>1. CASE i = t
          BY <2>5, <4>1
      <4>2. CASE i # t
          BY <3>1, <3>2, <4>2
      <4> QED BY <4>1, <4>2
    <3> QED BY <3>2 DEF WireWhole
  <2> QED BY <2>3, <2>6
<1>8. ASSUME link # "up" PROVE WireSorted' /\ WireWhole'
  <2>1. wire' = <<>>
      BY <1>4, <1>8 DEF DispatchOK
  <2>2. DOMAIN wire' = {}
      BY <2>1, EmptySeq
  <2> QED BY <2>2 DEF WireSorted, WireWhole
<1>9. OneByOne'
    BY <1>3, <1>4, OneByOneStays DEF Open
<1> QED BY <1>4, <1>5, <1>6, <1>7, <1>8, <1>9 DEF InTurn

-------------------------------------------------------------------------------
LEMMA SameInTurn ==
    ASSUME BellTypes, OneByOne, InTurn, UNCHANGED <<outbox, writing, batch>>, wire' = wire \/ wire' = <<>>
    PROVE  OneByOne' /\ InTurn'
<1>1. BatchFirst'
    BY DEF InTurn, BatchFirst, ToHand
<1>2. TurnsTaken'
    BY TurnsStay DEF InTurn, TurnsTaken, Committed
<1>3. OneByOne'
    BY DEF OneByOne, Open
<1> QED BY <1>1, <1>2, <1>3 DEF InTurn, TurnsTaken

\* The first on the wire is the earliest; those told of later stay on it.
LEMMA DeliverInTurn ==
    ASSUME BellTypes, OneByOne, InTurn, Deliver
    PROVE  /\ OneByOne' /\ InTurn'
           /\ \A k : OnWire(k)' => OnWire(k)
           /\ \A k : OnWire(k) => OnWire(k)' \/ k = Head(wire)
           /\ \A k : OnWire(k)' => k >= Head(wire)
           /\ \A k \in DOMAIN outbox : k > Head(wire) /\ outbox[k].handed => OnWire(k)'
<1>1. PICK h : h = Head(wire)
    OBVIOUS
<1>2. /\ h \in DOMAIN outbox /\ Len(wire) \in Nat /\ Len(wire) > 0
      /\ DOMAIN wire = 1..Len(wire) /\ DOMAIN wire' = 1..Len(wire) - 1 /\ h = wire[1]
      /\ \A k \in 1..Len(wire) - 1 : wire'[k] = wire[k + 1]
      /\ UNCHANGED <<outbox, writing, batch>>
    BY <1>1, DeliverDoes
<1>3. \A k \in DOMAIN wire' : k + 1 \in DOMAIN wire /\ wire'[k] = wire[k + 1] /\ 1 < k + 1
    BY <1>2
<1>4. \A k \in DOMAIN wire : k = 1 \/ (k - 1 \in DOMAIN wire' /\ wire'[k - 1] = wire[k])
    BY <1>2
<1>5. \A k : OnWire(k)' => OnWire(k)
  <2>1. ASSUME NEW k, NEW m \in DOMAIN wire', wire'[m] = k PROVE OnWire(k)
    <3>1. m + 1 \in DOMAIN wire /\ wire[m + 1] = k
        BY <1>3, <2>1
    <3> QED BY <3>1 DEF OnWire
  <2> QED BY <2>1 DEF OnWire
<1>6. \A k : OnWire(k) => OnWire(k)' \/ k = h
  <2>1. ASSUME NEW k, NEW m \in DOMAIN wire, wire[m] = k, k # h PROVE OnWire(k)'
    <3>1. m - 1 \in DOMAIN wire' /\ wire'[m - 1] = k
        BY <1>2, <1>4, <2>1
    <3> QED BY <3>1 DEF OnWire
  <2> QED BY <2>1 DEF OnWire
<1>7. \A k \in DOMAIN wire' : wire'[k] >= h /\ wire'[k] \in DOMAIN outbox
  <2>1. ASSUME NEW k \in DOMAIN wire' PROVE wire'[k] >= h /\ wire'[k] \in DOMAIN outbox
    <3>1. /\ 1 \in DOMAIN wire /\ k + 1 \in DOMAIN wire /\ 1 < k + 1 /\ wire'[k] = wire[k + 1]
        BY <1>2, <1>3
    <3>2. wire[1] <= wire[k + 1]
        BY <3>1 DEF InTurn, WireSorted
    <3>3. wire[k + 1] \in DOMAIN outbox /\ wire[k + 1] \in Int /\ h \in Int
      <4>1. wire[k + 1] \in DOMAIN outbox
          BY <3>1, WireIn
      <4> QED BY <1>2, <4>1, LenProperties DEF BellTypes
    <3> QED BY <1>2, <3>1, <3>2, <3>3
  <2> QED BY <2>1
<1>8. \A k : OnWire(k)' => k >= h
    BY <1>7 DEF OnWire
<1>9. ASSUME NEW k \in DOMAIN outbox, k > h, outbox[k].handed PROVE OnWire(k)'
  <2>1. 1 \in DOMAIN wire /\ wire[1] = h /\ h \in Int /\ k \in Int
      BY <1>2, LenProperties DEF BellTypes
  <2>2. OnWire(k) /\ k # h
      BY <1>9, <2>1 DEF InTurn, WireWhole
  <2> QED BY <1>6, <2>2
<1>10. WireSorted'
  <2>1. ASSUME NEW m \in DOMAIN wire', NEW n \in DOMAIN wire', m < n PROVE wire'[m] <= wire'[n]
    <3>1. /\ m + 1 \in DOMAIN wire /\ n + 1 \in DOMAIN wire /\ m + 1 < n + 1
          /\ wire'[m] = wire[m + 1] /\ wire'[n] = wire[n + 1]
        BY <1>2, <1>3, <2>1
    <3>2. wire[m + 1] <= wire[n + 1]
        BY <3>1 DEF InTurn, WireSorted
    <3> QED BY <3>1, <3>2
  <2> QED BY <2>1 DEF WireSorted
<1>11. WireWhole'
  <2>1. ASSUME NEW k \in DOMAIN wire', NEW i \in DOMAIN outbox, wire'[k] < i, outbox[i].handed PROVE OnWire(i)'
    <3>1. i > h
      <4>1. wire'[k] >= h /\ wire'[k] \in Int /\ h \in Int /\ i \in Int
          BY <1>2, <1>7, LenProperties DEF BellTypes
      <4> QED BY <2>1, <4>1
    <3> QED BY <1>9, <2>1, <3>1
  <2> QED BY <1>2, <2>1 DEF WireWhole
<1>12. BatchFirst'
    BY <1>2 DEF InTurn, BatchFirst, ToHand
<1>13. HandedFirst'
    BY <1>2 DEF InTurn, HandedFirst, Committed
<1>14. OneByOne'
    BY <1>2 DEF OneByOne, Open
<1> QED BY <1>1, <1>5, <1>6, <1>8, <1>9, <1>10, <1>11, <1>12, <1>13, <1>14 DEF InTurn

\* With nothing under way, everything is in order again.
LEMMA QuietInTurn ==
    ASSUME BellTypes, EntriesOK, DispatchOK, AllTold, UNCHANGED <<outbox, writing, batch, wire>>
    PROVE  OneByOne' /\ InTurn'
<1>1. \A w \in Writers : ~Open(w)
    BY NothingComes
<1>2. OneByOne'
    BY <1>1 DEF OneByOne, Open
<1>3. batch = {}
    BY DEF BellTypes, DispatchOK, AllTold
<1>4. BatchFirst'
    BY <1>3, BatchEmpty
<1>5. HandedFirst'
  <2>1. \A i \in DOMAIN outbox : Committed(i) => outbox[i].handed
      BY DEF Committed, Visible, AllTold, EntriesOK
  <2> QED BY <2>1 DEF HandedFirst, Committed
<1>6. DOMAIN wire' = {}
    BY EmptySeq DEF AllTold
<1>7. WireSorted' /\ WireWhole'
    BY <1>6 DEF WireSorted, WireWhole
<1> QED BY <1>2, <1>4, <1>5, <1>7 DEF InTurn

-------------------------------------------------------------------------------
\* What the open transaction says, and what the committed ones said.
LEMMA SaysStays ==
    ASSUME WritersOK, WritesSay, Grows, rows' = rows,
           \A w \in Writers : Open(w)' => Open(w) /\ writing'[w] = writing[w]
    PROVE  WritesSay'
<1>1. ASSUME NEW w \in Writers, Open(w)'
      PROVE  Says(outbox'[writing'[w].event].body, rows, With(writing'[w].wrote, writing'[w].new))
  <2>1. Open(w) /\ writing'[w] = writing[w]
      BY <1>1
  <2>2. PICK n : n = writing[w].event
      OBVIOUS
  <2>3. n \in DOMAIN outbox /\ outbox'[n].body = outbox[n].body
      BY <2>1, <2>2 DEF WritersOK, Grows
  <2>4. Says(outbox[n].body, rows, With(writing[w].wrote, writing[w].new))
      BY <2>1, <2>2 DEF WritesSay
  <2> QED BY <2>1, <2>2, <2>3, <2>4
<1>2. \A wrote, new : With(wrote, new)' = With(wrote', new')
    BY DEF With
<1>3. \A w \in Writers : With(writing[w].wrote, writing[w].new)' = With(writing'[w].wrote, writing'[w].new)
    BY DEF With
<1> QED BY <1>1, <1>3 DEF WritesSay

LEMMA NoneSay == ASSUME \A w \in Writers : ~Open(w)' PROVE WritesSay'
    BY DEF WritesSay

LEMMA BeginSays ==
    ASSUME BellTypes, NEW w \in Writers, NEW wrote \in SUBSET Orders, NEW new \in Rows, NEW b \in Bodies,
           BeginWrite(w, wrote, new, b), ~SomeOpen, Says(b, rows, With(wrote, new))
    PROVE  WritesSay'
<1>1. /\ writing'[w].wrote = wrote /\ writing'[w].new = new /\ writing'[w].event = Len(outbox) + 1
      /\ outbox'[Len(outbox) + 1].body = b /\ rows' = rows
      /\ \A v \in Writers \ {w} : writing'[v] = writing[v]
    BY WriteBegins
<1>2. \A v \in Writers : Open(v)' => v = w
    BY <1>1 DEF SomeOpen, Open
<1>3. With(writing[w].wrote, writing[w].new)' = With(wrote, new)
    BY <1>1 DEF With
<1>4. outbox'[writing'[w].event].body = b
    BY <1>1
<1>5. Says(outbox'[writing'[w].event].body, rows', With(writing[w].wrote, writing[w].new)')
    BY <1>1, <1>3, <1>4
<1> QED BY <1>2, <1>5 DEF WritesSay

\* What a mark or a message writes is what its event says.
LEMMA OneSays ==
    ASSUME BellTypes, NEW o \in Orders, NEW new \in Rows, NEW b \in Bodies,
           \A p \in Orders \ {o} : new[p] = rows[p], new[o].at = b.at, new[o].read = b.read,
           b.kind = "updated", b.order = o, b.unread = Unread(new), rows[o].at <= b.at
    PROVE  Says(b, rows, With({o}, new))
<1>1. {o} \in SUBSET Orders
    OBVIOUS
<1>2. PICK after : after = With({o}, new)
    OBVIOUS
<1>3. after[o] = new[o] /\ \A p \in Orders \ {o} : after[p] = rows[p]
    BY <1>1, <1>2, RowsWith
<1>4. Unread(after) = Unread(new)
  <2>1. \A p \in Orders : after[p] = new[p]
      BY <1>3
  <2> QED BY <2>1, UnreadSame
<1>5. ASSUME NEW p \in Orders, p # o
      PROVE  ~About(b, p) /\ after[p].at = rows[p].at /\ (after[p].read <=> rows[p].read \/ ReadsAt(b, rows[p].at))
  <2>1. after[p] = rows[p]
      BY <1>3, <1>5
  <2> QED BY <1>5, <2>1 DEF About, ReadsAt
<1>6. About(b, o) /\ after[o].at = b.at /\ (after[o].read <=> b.read)
    BY <1>3 DEF About
<1>8. \A p \in Orders : rows[p].at <= after[p].at
  <2>1. \A p \in Orders : rows[p].at \in Int
      BY TimesAre
  <2> QED BY <1>3, <1>6, <2>1
<1>7. Says(b, rows, after)
    BY <1>4, <1>5, <1>6, <1>8 DEF Says
<1> QED BY <1>2, <1>7

LEMMA AllSays ==
    ASSUME BellTypes, NEW cutoff \in 0..MaxMessages, NEW new \in Rows, NEW b \in Bodies,
           \A p \in Orders : new[p].at = rows[p].at /\ new[p].read = TRUE,
           b.kind = "read-all", b.cutoff = cutoff, b.unread = Unread(With(UpTo(cutoff), new))
    PROVE  Says(b, rows, With(UpTo(cutoff), new))
<1>1. UpTo(cutoff) \in SUBSET Orders
    BY DEF UpTo
<1>2. PICK after : after = With(UpTo(cutoff), new)
    OBVIOUS
<1>3. /\ \A p \in UpTo(cutoff) : after[p] = new[p]
      /\ \A p \in Orders \ UpTo(cutoff) : after[p] = rows[p]
    BY <1>1, <1>2, RowsWith
<1>4. ASSUME NEW p \in Orders
      PROVE  ~About(b, p) /\ after[p].at = rows[p].at /\ (after[p].read <=> rows[p].read \/ ReadsAt(b, rows[p].at))
  <2>1. CASE p \in UpTo(cutoff)
    <3>1. after[p] = new[p] /\ rows[p].at \in 1..cutoff
        BY <1>3, <2>1 DEF UpTo
    <3> QED BY <3>1 DEF About, ReadsAt
  <2>2. CASE p \notin UpTo(cutoff)
    <3>1. after[p] = rows[p] /\ (rows[p].at \in 1..cutoff => rows[p].read)
        BY <1>3, <2>2 DEF UpTo
    <3> QED BY <3>1 DEF About, ReadsAt
  <2> QED BY <2>1, <2>2
<1>5. b.unread = Unread(after)
    BY <1>2
<1>7. \A p \in Orders : rows[p].at <= after[p].at
  <2>1. \A p \in Orders : rows[p].at \in Int
      BY TimesAre
  <2> QED BY <1>4, <2>1
<1>6. Says(b, rows, after)
    BY <1>4, <1>5, <1>7 DEF Says
<1> QED BY <1>2, <1>6

LEMMA BeginsSay ==
    ASSUME BellTypes, TimesOK, ~SomeOpen
    PROVE  /\ \A w \in Senders, o \in Orders : SendMessage(w, o) => WritesSay'
           /\ MarkRead => WritesSay'
           /\ MarkAllRead => WritesSay'
<1>1. ASSUME NEW w \in Senders, NEW o \in Orders, SendMessage(w, o) PROVE WritesSay'
  <2>1. PICK new \in Rows, b \in Bodies :
             /\ BeginWrite(w, {o}, new, b) /\ w \in Writers /\ {o} \in SUBSET Orders /\ w # Reader
             /\ \A p \in Orders \ {o} : new[p] = rows[p]
             /\ new[o].at = clock + 1 /\ new[o].read = FALSE
             /\ b.kind = "updated" /\ b.order = o /\ b.at = clock + 1 /\ b.read = FALSE /\ b.unread = Unread(new)
             /\ clock \in Nat /\ clock' = clock + 1 /\ clock' \in 0..MaxMessages /\ UNCHANGED request
      BY <1>1, MessageBegins
  <2>3. rows[o].at <= b.at
    <3>1. rows[o].at <= clock /\ rows[o].at \in Int
        BY TimesAre DEF TimesOK, RowsTimely, RowsUpTo
    <3> QED BY <2>1, <3>1
  <2>4. new[o].at = b.at /\ new[o].read = b.read
      BY <2>1
  <2>2. Says(b, rows, With({o}, new))
      BY <2>1, <2>3, <2>4, OneSays
  <2> QED BY <2>1, <2>2, BeginSays
<1>2. ASSUME MarkRead PROVE WritesSay'
  <2>1. PICK new \in Rows, b \in Bodies, o \in Orders :
             /\ BeginWrite(Reader, {o}, new, b) /\ Reader \in Writers /\ {o} \in SUBSET Orders
             /\ \A p \in Orders \ {o} : new[p] = rows[p]
             /\ new[o].at = rows[o].at /\ new[o].read = TRUE
             /\ b.kind = "updated" /\ b.order = o /\ b.at = rows[o].at /\ b.read = TRUE /\ b.unread = Unread(new)
      BY <1>2, MarkBegins
  <2>3. rows[o].at <= b.at
    <3>1. rows[o].at \in Int
        BY TimesAre
    <3> QED BY <2>1, <3>1
  <2>4. new[o].at = b.at /\ new[o].read = b.read
      BY <2>1
  <2>2. Says(b, rows, With({o}, new))
      BY <2>1, <2>3, <2>4, OneSays
  <2> QED BY <2>1, <2>2, BeginSays
<1>3. ASSUME MarkAllRead PROVE WritesSay'
  <2>1. PICK new \in Rows, b \in Bodies, cutoff \in 0..MaxMessages :
             /\ BeginWrite(Reader, UpTo(cutoff), new, b) /\ Reader \in Writers /\ UpTo(cutoff) \in SUBSET Orders
             /\ \A p \in Orders : new[p].at = rows[p].at /\ new[p].read = TRUE
             /\ b.kind = "read-all" /\ b.cutoff = cutoff /\ b.unread = Unread(With(UpTo(cutoff), new))
      BY <1>3, MarkAllBegins
  <2>2. Says(b, rows, With(UpTo(cutoff), new))
      BY <2>1, AllSays
  <2> QED BY <2>1, <2>2, BeginSays
<1> QED BY <1>1, <1>2, <1>3

LEMMA EventsStay ==
    ASSUME BellTypes, EventsTell, Grows, Living' \subseteq Living, rows' = rows,
           \A i \in DOMAIN outbox : Later(i)' = Later(i)
    PROVE  EventsTell'
<1>1. ASSUME NEW i \in Living' PROVE HoldsGood(outbox', rows', i, Later(i)')
  <2>1. i \in Living /\ i \in DOMAIN outbox
      BY ComingIn
  <2>2. HoldsGood(outbox, rows, i, Later(i))
      BY <2>1 DEF EventsTell
  <2>3. SameBodies(outbox, outbox', Later(i) \cup {i})
      BY <2>1 DEF SameBodies, Grows, Later
  <2>4. HoldsGood(outbox', rows, i, Later(i))
      BY <2>2, <2>3, HoldsSame
  <2>5. Later(i)' = Later(i)
      BY <2>1
  <2> QED BY <2>4, <2>5
<1> QED BY <1>1 DEF EventsTell

LEMMA NothingTells == ASSUME Living' = {} PROVE EventsTell'
    BY DEF EventsTell

\* What the last transaction says, it says of the rows as it leaves them.
LEMMA CommitSays ==
    ASSUME BellTypes, WritesSay, NEW w \in Writers, Commit(w), NEW n, n = writing[w].event
    PROVE  Says(outbox[n].body, rows, rows')
<1>1. Open(w) /\ rows' = With(writing[w].wrote, writing[w].new)
    BY DEF Commit, CommitWrite, Open
<1> QED BY <1>1 DEF WritesSay

LEMMA CommitTells ==
    ASSUME BellTypes, EntriesOK, WritersOK, TimesOK, OneByOne, WritesSay, EventsTell, NEW w \in Writers, Commit(w)
    PROVE  EventsTell'
<1>1. PICK n : n = writing[w].event
    OBVIOUS
<1>2. /\ n \in DOMAIN outbox /\ Living' = Living \cup {n}
      /\ \A i \in DOMAIN outbox : n > i => Later(i)' = Later(i) \cup {n}
      /\ \A i \in DOMAIN outbox : ~(n > i) => Later(i)' = Later(i)
    BY <1>1, CommitComing
<1>3. Says(outbox[n].body, rows, rows')
    BY <1>1, CommitSays
<1>0. rows \in Rows /\ rows' \in Rows
    BY CommitTypes DEF BellTypes
<1>4. \A k \in DOMAIN outbox : outbox'[k].body = outbox[k].body
    BY CommitDoes DEF OneChanges, SameBut
<1>5. \A k \in DOMAIN outbox : k <= n /\ k \in Int
  <2>1. Open(w)
      BY CommitDoes
  <2> QED BY <1>1, <2>1, LastOpen, LenProperties DEF BellTypes
<1>6. HoldsGood(outbox', rows', n, Later(n)')
  <2>1. HoldsGood(outbox, rows', n, {})
      BY <1>0, <1>3, HoldsFirst
  <2>2. SameBodies(outbox, outbox', {} \cup {n})
      BY <1>2, <1>4 DEF SameBodies
  <2>3. HoldsGood(outbox', rows', n, {})
      BY <2>1, <2>2, HoldsSame
  <2>4. Later(n) = {}
    <3>1. \A k \in DOMAIN outbox : ~(k > n)
        BY <1>2, <1>5
    <3> QED BY <3>1 DEF Later
  <2>5. ~(n > n)
      BY <1>2, <1>5
  <2>6. Later(n)' = {}
    <3>1. \A i \in DOMAIN outbox : i = n => Later(i)' = Later(n)
        BY <1>2, <2>5
    <3>2. DOMAIN outbox' = DOMAIN outbox /\ \A k \in DOMAIN outbox' : ~(k > n)
      <4>1. DOMAIN outbox' = DOMAIN outbox
          BY CommitDoes DEF OneChanges
      <4> QED BY <1>2, <1>5, <4>1
    <3> QED BY <3>2 DEF Later
  <2> QED BY <2>3, <2>6
<1>7. ASSUME NEW i \in Living, i # n PROVE HoldsGood(outbox', rows', i, Later(i)')
  <2>1. i \in DOMAIN outbox /\ i < n
    <3>1. i \in DOMAIN outbox
        BY ComingIn
    <3> QED BY <1>2, <1>5, <1>7, <3>1
  <2>2. HoldsGood(outbox, rows, i, Later(i))
      BY DEF EventsTell
  <2>3. Before(outbox[i].body, outbox[n].body)
      BY <1>2, <2>1 DEF TimesOK, MarksBefore
  <2>4. outbox[i].body \in Bodies /\ outbox[n].body \in Bodies
      BY <1>2, <2>1, TimesAre
  <2>5. HoldsGood(outbox, rows', i, Later(i) \cup {n})
      BY <1>0, <1>3, <2>2, <2>3, <2>4, HoldsAfter
  <2>6. SameBodies(outbox, outbox', (Later(i) \cup {n}) \cup {i})
      BY <1>2, <1>4, <2>1 DEF SameBodies, Later
  <2>7. HoldsGood(outbox', rows', i, Later(i) \cup {n})
      BY <2>5, <2>6, HoldsSame
  <2>8. Later(i)' = Later(i) \cup {n}
    <3>1. n > i
        BY <1>2, <1>5, <2>1
    <3> QED BY <1>2, <2>1, <3>1
  <2> QED BY <2>7, <2>8
<1>8. ASSUME NEW i \in Living' PROVE HoldsGood(outbox', rows', i, Later(i)')
  <2>1. CASE i = n
    <3>1. Later(i)' = Later(n)'
        BY <2>1 DEF Later
    <3> QED BY <1>6, <2>1, <3>1
  <2>2. CASE i # n
      BY <1>2, <1>7, <2>2
  <2> QED BY <2>1, <2>2
<1> QED BY <1>8 DEF EventsTell

-------------------------------------------------------------------------------
\* The screen.
LEMMA ScreenStands ==
    ASSUME BellTypes, ScreenTells, Grows, Coming' = Coming, link' # "down" => link # "down",
           rows' = rows, bell' = bell, refetch' = refetch
    PROVE  ScreenTells'
<1>1. SameBodies(outbox, outbox', Coming)
    BY ComingIn DEF SameBodies, Grows
<1>2. \A items : Tells(outbox, rows, items, Coming) => Tells(outbox', rows, items, Coming)
    BY <1>1, TellsSame
<1>3. CASE link' # "down"
  <2>1. BellTells /\ ListTells /\ ListCounts
      BY <1>3 DEF ScreenTells
  <2>2. BellTells'
      BY <1>2, <2>1 DEF BellTells
  <2>3. ListTells'
      BY <1>2, <2>1 DEF ListTells
  <2>4. ListCounts'
      BY <2>1 DEF ListCounts
  <2> QED BY <2>2, <2>3, <2>4 DEF ScreenTells
<1>4. CASE link' = "down"
    BY <1>4 DEF ScreenTells
<1> QED BY <1>3, <1>4

LEMMA ScreenGone == ASSUME link' = "down" PROVE ScreenTells'
    BY DEF ScreenTells

LEMMA ScreenAsks == ASSUME refetch' = [stage |-> "asked"] PROVE ScreenTells'
<1>1. refetch' # Idle /\ refetch'.stage = "asked"
    BY DEF Idle
<1> QED BY <1>1 DEF ScreenTells, BellTells, ListTells, ListCounts

\* What more is to come, and the rows as it says.
LEMMA ScreenWaits ==
    ASSUME BellTypes, ScreenTells, Grows, NEW n \in DOMAIN outbox, Coming' = Coming \cup {n},
           \A items \in Rows : Tells(outbox, rows, items, Coming) => Tells(outbox, rows', items, Coming \cup {n}),
           link' = link, bell' = bell, refetch' = refetch
    PROVE  ScreenTells'
<1>1. SameBodies(outbox, outbox', Coming \cup {n})
    BY ComingIn DEF SameBodies, Grows
<1>2. \A items : Tells(outbox, rows', items, Coming \cup {n}) => Tells(outbox', rows', items, Coming')
    BY <1>1, TellsSame
<1>3. \A items \in Rows : Tells(outbox, rows, items, Coming) => Tells(outbox', rows', items, Coming')
    BY <1>2
<1>0. bell.items \in Rows /\ (refetch.stage \in {"items", "answered"} => refetch.items \in Rows)
    BY TimesAre
<1>4. Coming' # {}
    OBVIOUS
<1>5. CASE link # "down"
  <2>1. BellTells /\ ListTells /\ ListCounts
      BY <1>5 DEF ScreenTells
  <2>2. BellTells'
      BY <1>0, <1>3, <1>4, <2>1 DEF BellTells, Counts
  <2>3. ListTells'
      BY <1>0, <1>3, <2>1 DEF ListTells
  <2>4. ListCounts'
      BY <1>4 DEF ListCounts, Counts
  <2> QED BY <2>2, <2>3, <2>4 DEF ScreenTells
<1>6. CASE link = "down"
    BY <1>6 DEF ScreenTells
<1> QED BY <1>5, <1>6

LEMMA BeginScreen ==
    ASSUME BellTypes, ScreenTells, NEW w \in Writers, NEW wrote \in SUBSET Orders, NEW new \in Rows, NEW b \in Bodies,
           BeginWrite(w, wrote, new, b)
    PROVE  ScreenTells'
<1>1. UNCHANGED <<rows, link, bell, refetch>>
    BY DEF BeginWrite, shownVars
<1>2. Grows /\ Coming' = Coming
    BY BeginGrows, BeginComing DEF SameComing
<1> QED BY <1>1, <1>2, ScreenStands

LEMMA CommitScreen ==
    ASSUME BellTypes, EntriesOK, WritersOK, WritesSay, ScreenTells, NEW w \in Writers, Commit(w)
    PROVE  ScreenTells'
<1>1. PICK n : n = writing[w].event
    OBVIOUS
<1>2. n \in DOMAIN outbox /\ Coming' = Coming \cup {n}
    BY <1>1, CommitComing
<1>3. Says(outbox[n].body, rows, rows')
    BY <1>1, CommitSays
<1>0. rows \in Rows /\ rows' \in Rows
    BY CommitTypes DEF BellTypes
<1>4. ASSUME NEW items \in Rows, Tells(outbox, rows, items, Coming) PROVE Tells(outbox, rows', items, Coming \cup {n})
    BY <1>0, <1>3, <1>4, TellsAfter
<1>5. UNCHANGED <<link, bell, refetch>>
    BY DEF Commit, shownVars
<1> QED BY <1>2, <1>4, <1>5, StepsGrow, ScreenWaits

LEMMA HandleScreen ==
    ASSUME BellTypes, EntriesOK, DispatchOK, EventsTell, ScreenTells, Handle, link \in {"up", "down"}
    PROVE  ScreenTells'
<1>1. UNCHANGED <<link, bell, refetch, rows>>
    BY DEF Handle
<1>2. CASE link = "down"
    BY <1>1, <1>2, ScreenGone
<1>3. CASE link = "up"
  <2>1. PICK t : t = Turn
      OBVIOUS
  <2>2. t \in Living /\ Coming' = Coming \cup {t}
      BY <1>3, <2>1, HandleComing
  <2>3. t \in DOMAIN outbox
      BY <2>2, ComingIn
  <2>4. \A o \in Orders : ReadsAt(outbox[t].body, rows[o].at) => rows[o].read
      BY <2>2 DEF EventsTell, HoldsGood
  <2>5. ASSUME NEW items \in Rows, Tells(outbox, rows, items, Coming) PROVE Tells(outbox, rows', items, Coming \cup {t})
      BY <1>1, <2>4, <2>5, TellsAgain
  <2> QED BY <1>1, <2>2, <2>3, <2>5, StepsGrow, ScreenWaits
<1> QED BY <1>2, <1>3

LEMMA DispatchScreen ==
    ASSUME BellTypes, EntriesOK, DispatchOK, ScreenTells
    PROVE  /\ FetchPending \/ MarkPublished \/ HandleFailure \/ AbandonBatch \/ Crash => ScreenTells'
           /\ \A i \in DOMAIN outbox : BackoffEnds(i) => ScreenTells'
<1>1. ASSUME FetchPending \/ AbandonBatch PROVE ScreenTells'
  <2>1. UNCHANGED <<outbox, wire, rows, link, bell, refetch>>
      BY <1>1 DEF FetchPending, AbandonBatch, shownVars
  <2>2. Grows /\ Coming' = Coming
      BY <2>1, NothingGrows, FinishComing DEF SameComing
  <2> QED BY <2>1, <2>2, ScreenStands
<1>2. ASSUME MarkPublished \/ HandleFailure PROVE ScreenTells'
  <2>1. UNCHANGED <<rows, link, bell, refetch>>
      BY <1>2 DEF MarkPublished, HandleFailure, FinishHead, shownVars
  <2>2. Grows /\ Coming' = Coming
      BY <1>2, StepsGrow, FinishComing DEF SameComing
  <2> QED BY <2>1, <2>2, ScreenStands
<1>3. ASSUME NEW i \in DOMAIN outbox, BackoffEnds(i) PROVE ScreenTells'
  <2>1. UNCHANGED <<rows, link, bell, refetch>>
      BY <1>3 DEF BackoffEnds, shownVars
  <2>2. Grows /\ Coming' = Coming
      BY <1>3, StepsGrow, FinishComing DEF SameComing
  <2> QED BY <2>1, <2>2, ScreenStands
<1>4. ASSUME Crash PROVE ScreenTells'
  <2>1. CASE link = "loading"
    <3>1. Coming' = Coming /\ Grows
        BY <1>4, <2>1, CrashComing, StepsGrow
    <3>2. UNCHANGED <<rows, link, bell, refetch>>
        BY <1>4, <2>1 DEF Crash
    <3> QED BY <3>1, <3>2, ScreenStands
  <2>2. CASE link # "loading"
      BY <1>4, <2>2, ScreenGone DEF Crash
  <2> QED BY <2>1, <2>2
<1> QED BY <1>1, <1>2, <1>3, <1>4

-------------------------------------------------------------------------------
LEMMA ListScreen ==
    ASSUME BellTypes, EntriesOK, DispatchOK, EventsTell, ScreenTells, ReadItems \/ CountUnread
    PROVE  ScreenTells'
<1>1. UNCHANGED <<outbox, wire, rows, link, bell>> /\ refetch'.stage \in {"items", "answered"}
    BY ReadDoes, CountDoes
<1>2. Coming' = Coming
    BY <1>1, FinishComing DEF SameComing
<1>3. refetch' # Idle
    BY <1>1, IdleIs
<1>4. CASE link = "down"
    BY <1>1, <1>4, ScreenGone
<1>5. CASE link # "down"
  <2>1. BellTells'
      BY <1>3 DEF BellTells
  <2>2. CASE ReadItems
    <3>1. refetch'.stage = "items" /\ refetch'.items = Newest(rows)
        BY <2>2, ReadDoes
    <3>2. \A i \in Coming : \A o \in Orders : ReadsAt(outbox[i].body, rows[o].at) => rows[o].read
        BY ComingIn DEF EventsTell, HoldsGood
    <3>3. Tells(outbox, rows, Newest(rows), Coming)
        BY <3>2, RowsTell DEF BellTypes
    <3>4. ListTells'
        BY <1>1, <1>2, <3>1, <3>3 DEF ListTells
    <3>5. ListCounts'
        BY <3>1 DEF ListCounts
    <3> QED BY <2>1, <3>4, <3>5 DEF ScreenTells
  <2>3. CASE CountUnread
    <3>1. /\ refetch.stage = "items" /\ refetch'.stage = "answered"
          /\ refetch'.items = refetch.items /\ refetch'.crossed = refetch.crossed /\ refetch'.unread = Unread(rows)
        BY <2>3, CountDoes
    <3>2. ListTells
        BY <1>5 DEF ScreenTells
    <3>3. ListTells'
        BY <1>1, <1>2, <3>1, <3>2 DEF ListTells
    <3>4. Unread(rows)' = Unread(rows)
        BY <1>1
    <3>5. ListCounts'
        BY <3>1, <3>4 DEF ListCounts, Counts
    <3> QED BY <2>1, <3>3, <3>5 DEF ScreenTells
  <2> QED BY <2>2, <2>3
<1> QED BY <1>4, <1>5

\* The page takes the list, which tells it all but what is to come.
LEMMA ReplaceScreen ==
    ASSUME BellTypes, EntriesOK, DispatchOK, ListStands, ReplaceNotifications, skewed' = {}, skewed = {} => ScreenTells
    PROVE  ScreenTells'
<1>1. /\ refetch.stage = "answered" /\ refetch' = Idle
      /\ bell'.items = refetch.items /\ bell'.unread = refetch.unread
      /\ skewed' = IF refetch.crossed THEN skewed \cup {"snapshot"}
                   ELSE IF AllTold /\ request = Idle /\ link = "up" THEN {} ELSE skewed
      /\ UNCHANGED <<rows, outbox, link, wire>>
    BY ReplaceDoes
<1>2. ~refetch.crossed /\ (skewed = {} \/ (AllTold /\ link = "up"))
    BY <1>1
<1>3. Coming' = Coming
    BY <1>1, FinishComing DEF SameComing
<1>4. refetch'.stage = "idle"
    BY <1>1, IdleIs
<1>5. ListTells' /\ ListCounts'
    BY <1>4 DEF ListTells, ListCounts
<1>6. ASSUME link # "down" PROVE Tells(outbox, rows, refetch.items, Coming) /\ Counts(rows, refetch.unread, Coming)
  <2>1. CASE skewed = {}
      BY <1>1, <1>2, <1>6, <2>1 DEF ScreenTells, ListTells, ListCounts
  <2>2. CASE AllTold
    <3>1. Coming = {}
        BY <2>2, NothingComes
    <3>2. refetch.items = Newest(rows) /\ refetch.unread = Unread(rows)
        BY <1>1, <1>2, <1>6, <3>1 DEF ListStands
    <3>3. Tells(outbox, rows, Newest(rows), {})
        BY RowsTell DEF BellTypes
    <3> QED BY <3>1, <3>2, <3>3 DEF Counts
  <2> QED BY <1>2, <2>1, <2>2
<1>7. ASSUME link # "down" PROVE BellTells'
  <2>1. Tells(outbox, rows, bell'.items, Coming') /\ Counts(rows, bell'.unread, Coming')
      BY <1>1, <1>3, <1>6, <1>7
  <2> QED BY <1>1, <2>1 DEF BellTells
<1> QED BY <1>1, <1>5, <1>7 DEF ScreenTells

\* What comes after the event that is told, and what is still to come when it has been.
LEMMA DeliverComing ==
    ASSUME BellTypes, DispatchOK, EntriesOK, OneByOne, InTurn, Deliver, NEW i, i = Head(wire)
    PROVE  /\ i \in Coming /\ Coming' \subseteq Coming /\ Coming \subseteq Coming' \cup {i}
           /\ Later(i) \subseteq Coming' /\ Coming' \subseteq Later(i) \cup {i}
<1>1. /\ outbox' = outbox /\ i \in DOMAIN outbox /\ 1 \in DOMAIN wire /\ wire[1] = i
    BY DeliverDoes
<1>2. /\ \A k : OnWire(k)' => OnWire(k) /\ k >= i
      /\ \A k : OnWire(k) => OnWire(k)' \/ k = i
      /\ \A k \in DOMAIN outbox : k > i /\ outbox[k].handed => OnWire(k)'
    BY DeliverInTurn
<1>3. OnWire(i) /\ outbox[i].handed
    BY <1>1 DEF OnWire, DispatchOK
<1>4. \A k \in DOMAIN outbox : k \in Int
    BY LenProperties DEF BellTypes
<1>5. i \in Coming
    BY <1>1, <1>3 DEF Coming
<1>6. \A k : k \in Coming' <=> k \in DOMAIN outbox /\ (ToHand(k) \/ OnWire(k)')
    BY <1>1 DEF Coming, ToHand
<1>7. ASSUME NEW k \in Later(i) PROVE k \in Coming'
  <2>1. k \in DOMAIN outbox /\ k > i /\ Committed(k)
      BY DEF Later
  <2>2. ToHand(k) \/ outbox[k].handed
      BY <2>1 DEF ToHand, Committed, Visible, EntriesOK
  <2> QED BY <1>2, <1>6, <2>1, <2>2
<1>8. ASSUME NEW k \in Coming' PROVE k \in Later(i) \/ k = i
  <2>1. k \in DOMAIN outbox /\ (ToHand(k) \/ OnWire(k)')
      BY <1>6
  <2>2. CASE ToHand(k)
    <3>1. Committed(k) /\ ~outbox[k].handed
        BY <2>2 DEF ToHand, Committed, Visible
    <3>2. ~(k < i)
        BY <1>1, <1>3, <2>1, <3>1 DEF InTurn, HandedFirst
    <3>3. k > i \/ k = i
        BY <1>1, <1>4, <2>1, <3>2
    <3> QED BY <2>1, <3>1, <3>3 DEF Later
  <2>3. CASE OnWire(k)'
    <3>1. OnWire(k) /\ k >= i
        BY <1>2, <2>3
    <3>2. Committed(k)
        BY <3>1 DEF OnWire, DispatchOK
    <3>3. k > i \/ k = i
        BY <1>1, <1>4, <2>1, <3>1
    <3> QED BY <2>1, <3>2, <3>3 DEF Later
  <2> QED BY <2>1, <2>2, <2>3
<1>9. Coming' \subseteq Coming
    BY <1>2, <1>6 DEF Coming
<1>10. Coming \subseteq Coming' \cup {i}
    BY <1>2, <1>6 DEF Coming
<1> QED BY <1>5, <1>7, <1>8, <1>9, <1>10

LEMMA DeliverScreen ==
    ASSUME BellTypes, DispatchOK, EntriesOK, OneByOne, InTurn, EventsTell, ScreenTells, Deliver
    PROVE  ScreenTells'
<1>1. PICK i : i = Head(wire)
    OBVIOUS
<1>2. /\ i \in DOMAIN outbox /\ outbox[i].body \in Bodies /\ bell' = Applied(outbox[i].body)
      /\ refetch' = Crossed(refetch) /\ link = "up" /\ UNCHANGED <<rows, outbox, link>>
    BY <1>1, DeliverDoes
<1>3. /\ i \in Coming /\ Coming' \subseteq Coming /\ Coming \subseteq Coming' \cup {i}
      /\ Later(i) \subseteq Coming' /\ Coming' \subseteq Later(i) \cup {i}
    BY <1>1, DeliverComing
<1>4. refetch \in Refetchings
    BY DEF BellTypes
<1>5. refetch'.stage \notin {"items", "answered"} \/ refetch'.crossed
    BY <1>2, <1>4, RefetchIs
<1>6. ListTells' /\ ListCounts'
    BY <1>5 DEF ListTells, ListCounts
<1>7. PICK b : b = outbox[i].body
    OBVIOUS
<1>8. HoldsGood(outbox, rows, i, Later(i))
    BY <1>3, ComingIn DEF EventsTell
<1>9. ASSUME refetch = Idle PROVE Tells(outbox, rows, bell'.items, Coming')
  <2>1. Tells(outbox, rows, bell.items, Coming)
      BY <1>2, <1>9 DEF ScreenTells, BellTells
  <2>0. b \in Bodies /\ bell' = Applied(b) /\ bell.items \in Rows
      BY <1>2, <1>7, ShownIs
  <2>2. PICK raw \in Rows :
            /\ \A o \in Orders : About(b, o) => raw[o].at = b.at /\ (raw[o].read <=> b.read)
            /\ \A o \in Orders : ~About(b, o) =>
                  raw[o].at = bell.items[o].at /\ (raw[o].read <=> bell.items[o].read \/ ReadsAt(b, bell.items[o].at))
            /\ bell'.items \in Rows
            /\ \A o \in Top(raw) : bell'.items[o] = raw[o]
            /\ \A o \in Orders : bell'.items[o].at <= raw[o].at
            /\ Blank(bell'.items) /\ Capped(outbox, bell'.items, Coming')
    <3>1. CASE b.kind = "updated"
      <4>1. PICK raw \in Rows :
               /\ bell'.items = Newest(raw) /\ raw[b.order].at = b.at /\ raw[b.order].read = b.read
               /\ \A p \in Orders \ {b.order} : raw[p] = bell.items[p]
          BY <2>0, <3>1, AppliedIs
      <4>2. \A o \in Orders : About(b, o) => raw[o].at = b.at /\ (raw[o].read <=> b.read)
          BY <4>1 DEF About
      <4>3. \A o \in Orders : ~About(b, o) =>
               raw[o].at = bell.items[o].at /\ (raw[o].read <=> bell.items[o].read \/ ReadsAt(b, bell.items[o].at))
          BY <3>1, <4>1 DEF About, ReadsAt
      <4>4. /\ bell'.items \in Rows
            /\ \A o \in Top(raw) : bell'.items[o] = raw[o]
            /\ \A o \in Orders : bell'.items[o].at <= raw[o].at
            /\ Blank(bell'.items)
          BY <4>1, NewestIs DEF Blank
      <4>5. Capped(outbox, bell'.items, Coming')
          BY <4>1, NewestCapped
      <4> QED BY <4>2, <4>3, <4>4, <4>5
    <3>2. CASE b.kind = "read-all"
      <4>1. \A o \in Orders : /\ bell'.items[o].at = bell.items[o].at
                              /\ bell'.items[o].read <=> bell.items[o].read \/ bell.items[o].at \in 1..b.cutoff
          BY <2>0, <3>2, AppliedIs
      <4>2. bell'.items \in Rows
          BY <2>0, AppliedIs
      <4>3. \A o \in Orders : ~About(b, o) /\ (ReadsAt(b, bell.items[o].at) <=> bell.items[o].at \in 1..b.cutoff)
          BY <3>2 DEF About, ReadsAt
      <4>4. \A o \in Orders : bell'.items[o].at <= bell'.items[o].at
          BY <4>2, RowTimes
      <4>5. Blank(bell'.items)
        <5>1. b.cutoff \in Nat /\ \A o \in Orders : bell.items[o].at \in Nat
            BY <2>0, <3>2, BodyIs, RowTimes, NotificationsAssumption
        <5>2. \A o \in Orders : bell.items[o].at = 0 => ~bell.items[o].read
            BY <2>1 DEF Tells, Blank
        <5>3. ASSUME NEW o \in Orders, bell'.items[o].at = 0 PROVE ~bell'.items[o].read
          <6>1. bell.items[o].at = 0 /\ ~bell.items[o].read
              BY <4>1, <5>2, <5>3
          <6>2. bell.items[o].at \notin 1..b.cutoff
              BY <5>1, <6>1
          <6> QED BY <4>1, <6>1, <6>2
        <5> QED BY <5>3 DEF Blank
      <4>6. Capped(outbox, bell'.items, Coming')
        <5>1. \A o \in Orders : Settled(outbox, Coming', o) <=> Settled(outbox, Coming, o)
            BY <1>3, <1>7, <4>3 DEF Settled
        <5>2. \A o \in Orders : bell'.items[o].at = bell.items[o].at
            BY <4>1
        <5>3. Capped(outbox, bell.items, Coming)
            BY <2>1 DEF Tells
        <5> QED BY <5>1, <5>2, <5>3, ReadCapped
      <4>7. \A o \in Top(bell'.items) : bell'.items[o] = bell'.items[o]
          OBVIOUS
      <4>8. PICK raw \in Rows : raw = bell'.items
          BY <4>2
      <4>9. \A o \in Orders : ~About(b, o)
          BY <4>3
      <4>10. \A o \in Orders : raw[o].at = bell.items[o].at /\ (raw[o].read <=> bell.items[o].read \/ ReadsAt(b, bell.items[o].at))
          BY <4>1, <4>3, <4>8
      <4>11. (\A o \in Top(raw) : bell'.items[o] = raw[o]) /\ (\A o \in Orders : bell'.items[o].at <= raw[o].at)
          BY <4>4, <4>8
      <4> QED BY <4>2, <4>5, <4>6, <4>9, <4>10, <4>11
    <3> QED BY <2>0, <3>1, <3>2, BodyIs
  <2>4. ASSUME NEW o \in Orders, About(b, o), \A k \in Coming' : ~About(outbox[k].body, o)
        PROVE  Agrees(outbox, rows[o], b, Coming')
    <3>1. \A k \in Later(i) : ~About(outbox[k].body, o)
        BY <1>3, <2>4
    <3>2. Agrees(outbox, rows[o], b, Later(i))
        BY <1>7, <1>8, <2>4, <3>1 DEF HoldsGood
    <3>3. ~ReadsAt(outbox[i].body, b.at)
        BY <1>7, <2>4 DEF About, ReadsAt
    <3>4. (\E k \in Coming' : ReadsAt(outbox[k].body, b.at)) <=> (\E k \in Later(i) : ReadsAt(outbox[k].body, b.at))
        BY <1>3, <3>3
    <3> QED BY <3>2, <3>4 DEF Agrees
  <2>5. PICK rest, S, told : rest = Coming' /\ S = Coming /\ told = bell'.items
      OBVIOUS
  <2>6. Tells(outbox, rows, told, rest)
    <3>1. i \in S /\ Tells(outbox, rows, bell.items, S) /\ rest \subseteq S /\ S \subseteq rest \cup {i}
        BY <1>3, <2>1, <2>5
    <3>2. \A o \in Orders : About(outbox[i].body, o) =>
                raw[o].at = outbox[i].body.at /\ (raw[o].read <=> outbox[i].body.read)
        BY <1>7, <2>2
    <3>3. \A o \in Orders : ~About(outbox[i].body, o) =>
                raw[o].at = bell.items[o].at /\ (raw[o].read <=> bell.items[o].read \/ ReadsAt(outbox[i].body, bell.items[o].at))
        BY <1>7, <2>2
    <3>4. \A o \in Orders : About(outbox[i].body, o) /\ (\A k \in rest : ~About(outbox[k].body, o))
                => Agrees(outbox, rows[o], outbox[i].body, rest)
        BY <1>7, <2>4, <2>5
    <3>5. \A o \in Orders : About(outbox[i].body, o) => outbox[i].body.at <= rows[o].at
        BY <1>8 DEF HoldsGood
    <3>6. /\ told \in Rows /\ \A o \in Top(raw) : told[o] = raw[o]
          /\ \A o \in Orders : told[o].at <= raw[o].at
          /\ Blank(told) /\ Capped(outbox, told, rest)
        BY <2>2, <2>5
    <3>7. rows \in Rows /\ bell.items \in Rows
        BY <2>0 DEF BellTypes
    <3>8. told \in Rows /\ (\A o \in Top(raw) : told[o] = raw[o]) /\ (\A o \in Orders : told[o].at <= raw[o].at)
        BY <3>6
    <3> QED BY <3>1, <3>2, <3>3, <3>4, <3>5, <3>6, <3>7, <3>8, TellsTold, ZenonT(60)
  <2> QED BY <2>5, <2>6
<1>10. Counts(rows, bell'.unread, Coming')
  <2>1. bell'.unread = outbox[i].body.unread
      BY <1>2, AppliedIs
  <2>2. Coming' = {} => Later(i) = {}
      BY <1>3
  <2> QED BY <1>8, <2>1, <2>2 DEF HoldsGood, Counts
<1>11. BellTells'
  <2>1. refetch' = Idle => refetch = Idle
      BY <1>2, <1>4, RefetchIs
  <2> QED BY <1>2, <1>9, <1>10, <2>1 DEF BellTells
<1> QED BY <1>6, <1>11 DEF ScreenTells

\* The answer tells nothing that its event, still to come, would not.
LEMMA AnswerScreen ==
    ASSUME BellTypes, EntriesOK, DispatchOK, WritersOK, EventsTell, ScreenTells, ApplyAnswer, skewed' = {}
    PROVE  skewed = {} /\ ScreenTells'
<1>1. PICK e : e = request.event
    OBVIOUS
<1>2. PICK b : b = outbox[e].body
    OBVIOUS
<1>3. /\ skewed' = (IF EventToCome(request.event) THEN skewed ELSE skewed \cup {"answer"})
      /\ UNCHANGED <<rows, outbox, link, wire, refetch>>
    BY DEF ApplyAnswer
<1>4. skewed = {} /\ e \in Coming
  <2>1. EventToCome(e) /\ skewed = {}
      BY <1>1, <1>3
  <2>2. e \in DOMAIN outbox
      BY <1>1, AnswerDoes
  <2> QED BY <2>1, <2>2 DEF EventToCome, Coming, ToHand, OnWire
<1>5. Coming' = Coming
    BY <1>3, FinishComing DEF SameComing
<1>6. ASSUME Tells(outbox, rows, bell.items, Coming) PROVE Tells(outbox, rows, bell'.items, Coming)
  <2>0. bell.items \in Rows /\ bell'.items \in Rows /\ rows \in Rows
      BY AnswerDoes, ShownIs DEF BellTypes
  <2>1. ASSUME NEW o \in Top(rows), Settled(outbox, Coming, o)
        PROVE  Agrees(outbox, rows[o], bell'.items[o], Coming)
    <3>0. o \in Orders
        BY DEF Top
    <3>1. Agrees(outbox, rows[o], bell.items[o], Coming)
        BY <1>6, <2>1 DEF Tells, Told
    <3>2. ~About(b, o)
        BY <1>2, <1>4, <2>1 DEF Settled
    <3>3. CASE request.of.kind = "one"
      <4>1. b.kind = "updated" /\ \A p \in Orders \ {b.order} : bell'.items[p] = bell.items[p]
          BY <1>1, <1>2, <3>3, AnswerDoes
      <4>2. o # b.order
          BY <3>2, <4>1 DEF About
      <4>3. bell'.items[o] = bell.items[o]
          BY <3>0, <4>1, <4>2
      <4> QED BY <3>1, <4>3
    <3>4. CASE request.of.kind = "all"
      <4>1. /\ b.kind = "read-all" /\ bell'.items[o].at = bell.items[o].at
            /\ bell'.items[o].read <=> (bell.items[o].read \/ bell.items[o].at \in 1..b.cutoff)
          BY <1>1, <1>2, <3>0, <3>4, AnswerDoes
      <4>2. bell'.items[o].read <=> bell.items[o].read \/ ReadsAt(outbox[e].body, bell.items[o].at)
          BY <1>2, <4>1 DEF ReadsAt
      <4> QED BY <1>4, <3>1, <4>1, <4>2 DEF Agrees
    <3> QED BY <3>3, <3>4, AnswerDoes
  <2>2. \A o \in Orders : \/ bell'.items[o].at = bell.items[o].at
                          \/ About(b, o) /\ bell'.items[o].at = b.at
    <3>1. CASE request.of.kind = "one"
      <4>1. /\ b.kind = "updated" /\ \A p \in Orders \ {b.order} : bell'.items[p] = bell.items[p]
            /\ \/ bell'.items[b.order].at = b.at
               \/ bell'.items[b.order] = bell.items[b.order]
          BY <1>1, <1>2, <3>1, AnswerDoes
      <4> QED BY <4>1 DEF About
    <3>2. CASE request.of.kind = "all"
        BY <1>1, <1>2, <3>2, AnswerDoes
    <3> QED BY <3>1, <3>2, AnswerDoes
  <2>3. Lags(rows, bell'.items)
    <3>1. \A o \in Orders : About(b, o) => b.at <= rows[o].at
      <4>1. e \in Living
          BY <1>4, ComingIn
      <4> QED BY <1>2, <4>1 DEF EventsTell, HoldsGood
    <3> QED BY <1>6, <2>2, <3>1 DEF Tells, Lags
  <2>4. Blank(bell'.items)
    <3>1. ASSUME NEW o \in Orders, bell'.items[o].at = 0 PROVE ~bell'.items[o].read
      <4>1. b \in Bodies
          BY <1>1, <1>2, AnswerDoes
      <4>2. b.kind = "updated" => b.at # 0
          BY <4>1, BodyIs
      <4>3. bell.items[o].at = 0 /\ ~bell.items[o].read
          BY <1>6, <2>2, <3>1, <4>2 DEF About, Tells, Blank
      <4>4. CASE request.of.kind = "one"
        <5>1. /\ b.kind = "updated" /\ \A p \in Orders \ {b.order} : bell'.items[p] = bell.items[p]
              /\ \/ bell'.items[b.order].at = b.at
               \/ bell'.items[b.order] = bell.items[b.order]
            BY <1>1, <1>2, <4>4, AnswerDoes
        <5>2. bell'.items[o] = bell.items[o]
            BY <3>1, <4>2, <5>1
        <5> QED BY <4>3, <5>2
      <4>5. CASE request.of.kind = "all"
        <5>1. bell'.items[o].read <=> bell.items[o].read \/ bell.items[o].at \in 1..b.cutoff
            BY <1>1, <1>2, <4>5, AnswerDoes
        <5>2. b.kind = "read-all" /\ b.cutoff \in Int
            BY <1>1, <1>2, <4>1, <4>5, AnswerDoes, BodyIs
        <5> QED BY <4>3, <5>1, <5>2
      <4> QED BY <4>4, <4>5, AnswerDoes
    <3> QED BY <3>1 DEF Blank
  <2>5. Capped(outbox, bell'.items, Coming)
    <3>1. \A o \in Orders : Settled(outbox, Coming, o) => bell'.items[o].at = bell.items[o].at
        BY <1>2, <1>4, <2>2 DEF Settled
    <3>2. \A o \in Orders : Settled(outbox, Coming, o) =>
             SettledNewer(outbox, bell'.items, Coming, o) = SettledNewer(outbox, bell.items, Coming, o)
        BY <3>1 DEF SettledNewer, Newer
    <3> QED BY <1>6, <3>1, <3>2 DEF Tells, Capped
  <2> QED BY <2>1, <2>3, <2>4, <2>5 DEF Tells, Told
<1>7. Coming # {}
    BY <1>4
<1>8. CASE link = "down"
    BY <1>3, <1>4, <1>8, ScreenGone
<1>9. CASE link # "down"
  <2>1. BellTells /\ ListTells /\ ListCounts
      BY <1>9 DEF ScreenTells
  <2>2. BellTells'
      BY <1>3, <1>5, <1>6, <1>7, <2>1 DEF BellTells, Counts
  <2>3. ListTells'
      BY <1>3, <1>5, <2>1 DEF ListTells
  <2>4. ListCounts'
      BY <1>5, <1>7 DEF ListCounts, Counts
  <2> QED BY <1>4, <2>2, <2>3, <2>4 DEF ScreenTells
<1> QED BY <1>8, <1>9

LEMMA PageScreen ==
    ASSUME BellTypes, EntriesOK, DispatchOK, ScreenTells
    PROVE  /\ RefuseMark \/ (\E o \in Orders : ClickRead(o)) \/ ClickAll \/ DateMarkAll \/ JoinRoom => ScreenTells'
           /\ Disconnect \/ Connect \/ ShowRefusal => ScreenTells'
<1>1. ASSUME UNCHANGED <<rows, outbox, wire, bell, refetch>>, link' # "down" => link # "down" PROVE ScreenTells'
  <2>1. Grows /\ Coming' = Coming
      BY <1>1, NothingGrows, FinishComing DEF SameComing
  <2> QED BY <1>1, <2>1, ScreenStands
<1>2. ASSUME RefuseMark \/ (\E o \in Orders : ClickRead(o)) \/ ClickAll \/ DateMarkAll \/ JoinRoom PROVE ScreenTells'
    BY <1>1, <1>2 DEF RefuseMark, ClickRead, ClickAll, DateMarkAll, JoinRoom, shownVars
<1>3. ASSUME Disconnect PROVE ScreenTells'
    BY <1>3, ScreenGone DEF Disconnect
<1>4. ASSUME ShowRefusal PROVE ScreenTells'
    BY <1>4, ScreenAsks DEF ShowRefusal
<1>5. ASSUME Connect PROVE ScreenTells'
  <2>1. CASE link = "down"
      BY <1>5, <2>1, ScreenAsks DEF Connect, Refetches
  <2>2. CASE link # "down"
      BY <1>1, <1>5, <2>2 DEF Connect, Refetches
  <2> QED BY <2>1, <2>2
<1> QED BY <1>2, <1>3, <1>4, <1>5

-------------------------------------------------------------------------------
LEMMA UnskewedParts ==
    ASSUME OneByOne', InTurn', WritesSay', EventsTell', ScreenTells'
    PROVE  Unskewed'
    BY DEF Unskewed

LEMMA BeginsKeepUnskewed ==
    ASSUME BellStructure, skewed = {} => Unskewed, skewed' = {}
    PROVE  /\ \A w \in Senders, o \in Orders : SendMessage(w, o) => Unskewed'
           /\ MarkRead => Unskewed'
           /\ MarkAllRead => Unskewed'
<1> BellTypes /\ TimesOK
    BY DEF BellStructure
<1>1. ASSUME NEW w \in Writers, NEW wrote \in SUBSET Orders, NEW new \in Rows, NEW b \in Bodies,
             BeginWrite(w, wrote, new, b)
      PROVE  ~SomeOpen /\ OneByOne' /\ InTurn' /\ EventsTell' /\ ScreenTells'
  <2>1. skewed = {} /\ ~SomeOpen
      BY <1>1, WriteBegins
  <2>2. OneByOne /\ InTurn /\ EventsTell /\ ScreenTells
      BY <2>1 DEF Unskewed
  <2>3. OneByOne' /\ InTurn'
      BY <1>1, <2>2, BeginInTurn
  <2>4. EventsTell'
    <3>1. Grows /\ SameComing /\ rows' = rows
        BY <1>1, BeginGrows, BeginComing, WriteBegins
    <3> QED BY <2>2, <3>1, EventsStay DEF SameComing
  <2>5. ScreenTells'
      BY <1>1, <2>2, BeginScreen
  <2> QED BY <2>1, <2>3, <2>4, <2>5
<1>2. ASSUME NEW w \in Senders, NEW o \in Orders, SendMessage(w, o) PROVE Unskewed'
  <2>1. ~SomeOpen /\ OneByOne' /\ InTurn' /\ EventsTell' /\ ScreenTells'
      BY <1>1, <1>2, MessageBegins, Zenon
  <2>2. WritesSay'
      BY <1>2, <2>1, BeginsSay
  <2> QED BY <2>1, <2>2, UnskewedParts
<1>3. ASSUME MarkRead PROVE Unskewed'
  <2>1. ~SomeOpen /\ OneByOne' /\ InTurn' /\ EventsTell' /\ ScreenTells'
      BY <1>1, <1>3, MarkBegins, Zenon
  <2>2. WritesSay'
      BY <1>3, <2>1, BeginsSay
  <2> QED BY <2>1, <2>2, UnskewedParts
<1>4. ASSUME MarkAllRead PROVE Unskewed'
  <2>1. ~SomeOpen /\ OneByOne' /\ InTurn' /\ EventsTell' /\ ScreenTells'
      BY <1>1, <1>4, MarkAllBegins, Zenon
  <2>2. WritesSay'
      BY <1>4, <2>1, BeginsSay
  <2> QED BY <2>1, <2>2, UnskewedParts
<1> QED BY <1>2, <1>3, <1>4

LEMMA StepsKeepUnskewed ==
    ASSUME BellStructure, skewed = {} => Unskewed, skewed' = {}
    PROVE  /\ \A w \in Writers : Commit(w) => Unskewed'
           /\ FetchPending \/ Handle \/ MarkPublished \/ HandleFailure \/ AbandonBatch \/ Crash => Unskewed'
           /\ \A i \in DOMAIN outbox : BackoffEnds(i) => Unskewed'
<1> BellTypes /\ EntriesOK /\ DispatchOK /\ WritersOK /\ TimesOK
    BY DEF BellStructure
<1>1. ASSUME NEW w \in Writers, Commit(w) PROVE Unskewed'
  <2>1. skewed = {}
      BY <1>1 DEF Commit
  <2>2. OneByOne /\ InTurn /\ WritesSay /\ EventsTell /\ ScreenTells
      BY <2>1 DEF Unskewed
  <2>3. (\A v \in Writers : ~Open(v)') /\ OneByOne' /\ InTurn'
      BY <1>1, <2>2, CommitInTurn
  <2>4. WritesSay'
      BY <2>3, NoneSay
  <2>5. EventsTell'
      BY <1>1, <2>2, CommitTells
  <2>6. ScreenTells'
      BY <1>1, <2>2, CommitScreen
  <2> QED BY <2>3, <2>4, <2>5, <2>6, UnskewedParts
<1>2. ASSUME FetchPending \/ MarkPublished \/ HandleFailure \/ AbandonBatch PROVE Unskewed'
  <2>1. skewed = {} /\ UNCHANGED <<rows, writing>>
      BY <1>2 DEF FetchPending, MarkPublished, HandleFailure, AbandonBatch, FinishHead
  <2>2. OneByOne /\ InTurn /\ WritesSay /\ EventsTell /\ ScreenTells
      BY <2>1 DEF Unskewed
  <2>3. Grows /\ SameComing
    <3>1. CASE FetchPending \/ AbandonBatch
      <4>1. UNCHANGED <<outbox, wire>>
          BY <3>1 DEF FetchPending, AbandonBatch, shownVars
      <4> QED BY <4>1, NothingGrows, FinishComing
    <3>2. CASE MarkPublished \/ HandleFailure
        BY <3>2, StepsGrow, FinishComing
    <3> QED BY <1>2, <3>1, <3>2
  <2>4. OneByOne' /\ InTurn'
      BY <1>2, <2>2, FetchInTurn, FinishInTurn
  <2>5. WritesSay'
      BY <2>1, <2>2, <2>3, SaysStays DEF Open
  <2>6. EventsTell'
      BY <2>1, <2>2, <2>3, EventsStay DEF SameComing
  <2>7. ScreenTells'
      BY <1>2, <2>2, DispatchScreen
  <2> QED BY <2>4, <2>5, <2>6, <2>7, UnskewedParts
<1>3. ASSUME NEW i \in DOMAIN outbox, BackoffEnds(i) PROVE Unskewed'
  <2>1. skewed = {} /\ UNCHANGED <<rows, writing>>
      BY <1>3 DEF BackoffEnds
  <2>2. OneByOne /\ InTurn /\ WritesSay /\ EventsTell /\ ScreenTells
      BY <2>1 DEF Unskewed
  <2>3. Grows /\ SameComing
      BY <1>3, StepsGrow, FinishComing
  <2>4. OneByOne' /\ InTurn'
      BY <1>3, <2>2, FinishInTurn
  <2>5. WritesSay'
      BY <2>1, <2>2, <2>3, SaysStays DEF Open
  <2>6. EventsTell'
      BY <2>1, <2>2, <2>3, EventsStay DEF SameComing
  <2>7. ScreenTells'
      BY <1>3, <2>2, DispatchScreen
  <2> QED BY <2>4, <2>5, <2>6, <2>7, UnskewedParts
<1>4. ASSUME Handle PROVE Unskewed'
  <2>1. UNCHANGED <<rows, writing>> /\ skewed = {}
      BY <1>4 DEF Handle
  <2>2. OneByOne /\ InTurn /\ WritesSay /\ EventsTell /\ ScreenTells
      BY <2>1 DEF Unskewed
  <2>3. link \in {"up", "down"} /\ OneByOne' /\ InTurn'
      BY <1>4, <2>2, HandleInTurn
  <2>4. Grows /\ Living' \subseteq Living /\ \A i \in DOMAIN outbox : Later(i)' = Later(i)
      BY <1>4, StepsGrow, HandleComing
  <2>5. WritesSay'
      BY <2>1, <2>2, <2>4, SaysStays DEF Open
  <2>6. EventsTell'
      BY <2>1, <2>2, <2>4, EventsStay
  <2>7. ScreenTells'
      BY <1>4, <2>2, <2>3, HandleScreen
  <2> QED BY <2>3, <2>5, <2>6, <2>7, UnskewedParts
<1>5. ASSUME Crash PROVE Unskewed'
  <2>1. skewed = {} /\ rows' = rows
      BY <1>5 DEF Crash
  <2>2. OneByOne /\ InTurn /\ WritesSay /\ EventsTell /\ ScreenTells
      BY <2>1 DEF Unskewed
  <2>3. OneByOne' /\ InTurn'
      BY <1>5, <2>2, FinishInTurn
  <2>4. Grows /\ Living' \subseteq Living /\ \A i \in DOMAIN outbox : Later(i)' = Later(i)
      BY <1>5, StepsGrow, CrashComing
  <2>5. WritesSay'
      BY <1>5, CrashDoes, NoneSay
  <2>6. EventsTell'
      BY <2>1, <2>2, <2>4, EventsStay
  <2>7. ScreenTells'
      BY <1>5, <2>2, DispatchScreen
  <2> QED BY <2>3, <2>5, <2>6, <2>7, UnskewedParts
<1> QED BY <1>1, <1>2, <1>3, <1>4, <1>5

LEMMA PageKeepsUnskewed ==
    ASSUME BellStructure, ListStands, skewed = {} => Unskewed, skewed' = {}
    PROVE  /\ RefuseMark => Unskewed'
           /\ Disconnect \/ Connect \/ JoinRoom \/ RefetchFails \/ ShowRefusal => Unskewed'
           /\ ReadItems \/ CountUnread \/ ReplaceNotifications => Unskewed'
           /\ Deliver => Unskewed'
           /\ (\E o \in Orders : ClickRead(o)) \/ ClickAll \/ DateMarkAll => Unskewed'
           /\ ApplyAnswer => Unskewed'
<1> BellTypes /\ EntriesOK /\ DispatchOK /\ WritersOK /\ TimesOK
    BY DEF BellStructure
<1>1. ASSUME UNCHANGED <<rows, outbox, writing, batch>>, skewed = {}, wire' = wire \/ wire' = <<>>, ScreenTells'
      PROVE  Unskewed'
  <2>1. OneByOne /\ InTurn /\ WritesSay /\ EventsTell /\ ScreenTells
      BY <1>1 DEF Unskewed
  <2>2. Grows
      BY <1>1, NothingGrows
  <2>3. \A k : OnWire(k)' => OnWire(k)
    <3>1. CASE wire' = wire
        BY <3>1 DEF OnWire
    <3>2. CASE wire' = <<>>
        BY <3>2, EmptySeq DEF OnWire
    <3> QED BY <1>1, <3>1, <3>2
  <2>4. Living' \subseteq Living /\ \A i \in DOMAIN outbox : Later(i)' = Later(i)
      BY <1>1, <2>3, CutComing
  <2>5. OneByOne' /\ InTurn'
      BY <1>1, <2>1, SameInTurn
  <2>6. WritesSay'
      BY <1>1, <2>1, <2>2, SaysStays DEF Open
  <2>7. EventsTell'
      BY <1>1, <2>1, <2>2, <2>4, EventsStay
  <2> QED BY <1>1, <2>5, <2>6, <2>7, UnskewedParts
<1>2. ASSUME RefuseMark \/ (\E o \in Orders : ClickRead(o)) \/ ClickAll \/ DateMarkAll \/ JoinRoom \/ Disconnect
             \/ Connect \/ ShowRefusal
      PROVE  Unskewed'
  <2>1. UNCHANGED <<rows, outbox, writing, batch>> /\ skewed = {} /\ (wire' = wire \/ wire' = <<>>)
      BY <1>2 DEF RefuseMark, ClickRead, ClickAll, DateMarkAll, JoinRoom, Disconnect, Connect, ShowRefusal, dispatcherVars, shownVars
  <2>2. ScreenTells'
      BY <1>2, <2>1, PageScreen DEF Unskewed
  <2> QED BY <1>1, <2>1, <2>2
<1>3. ASSUME ReadItems \/ CountUnread PROVE Unskewed'
  <2>1. UNCHANGED <<rows, outbox, writing, batch, wire>> /\ skewed = {}
      BY <1>3, ReadDoes, CountDoes
  <2>2. ScreenTells'
      BY <1>3, <2>1, ListScreen DEF Unskewed
  <2> QED BY <1>1, <2>1, <2>2
<1>4. ASSUME ReplaceNotifications PROVE Unskewed'
  <2>1. /\ skewed' = (IF refetch.crossed THEN skewed \cup {"snapshot"}
                      ELSE IF AllTold /\ request = Idle /\ link = "up" THEN {} ELSE skewed)
        /\ UNCHANGED <<rows, outbox, writing, batch, wire>>
      BY <1>4, ReplaceDoes
  <2>2. skewed = {} \/ AllTold
      BY <2>1
  <2>3. ScreenTells'
      BY <1>4, ReplaceScreen DEF Unskewed
  <2>4. CASE skewed = {}
      BY <1>1, <2>1, <2>3, <2>4
  <2>5. CASE AllTold
    <3>1. OneByOne' /\ InTurn'
        BY <2>1, <2>5, QuietInTurn
    <3>2. Living = {} /\ \A w \in Writers : ~Open(w)
        BY <2>5, NothingComes
    <3>3. WritesSay'
        BY <2>1, <3>2, NoneSay DEF Open
    <3>4. Living' = {}
        BY <2>1, <3>2 DEF Living, OnWire
    <3> QED BY <2>3, <3>1, <3>3, <3>4, NothingTells, UnskewedParts
  <2> QED BY <2>2, <2>4, <2>5
<1>5. ASSUME RefetchFails PROVE FALSE
    BY <1>5 DEF RefetchFails
<1>6. ASSUME Deliver PROVE Unskewed'
  <2>1. UNCHANGED <<rows, outbox, writing, batch>> /\ skewed = {}
      BY <1>6, DeliverDoes
  <2>2. OneByOne /\ InTurn /\ WritesSay /\ EventsTell /\ ScreenTells
      BY <2>1 DEF Unskewed
  <2>3. OneByOne' /\ InTurn' /\ \A k : OnWire(k)' => OnWire(k)
      BY <1>6, <2>2, DeliverInTurn
  <2>4. Grows
      BY <2>1, NothingGrows
  <2>5. Living' \subseteq Living /\ \A i \in DOMAIN outbox : Later(i)' = Later(i)
      BY <2>1, <2>3, CutComing
  <2>6. WritesSay'
      BY <2>1, <2>2, <2>4, SaysStays DEF Open
  <2>7. EventsTell'
      BY <2>1, <2>2, <2>4, <2>5, EventsStay
  <2>8. ScreenTells'
      BY <1>6, <2>2, DeliverScreen
  <2> QED BY <2>3, <2>6, <2>7, <2>8, UnskewedParts
<1>7. ASSUME ApplyAnswer PROVE Unskewed'
  <2>1. UNCHANGED <<rows, outbox, writing, batch, wire>>
      BY <1>7 DEF ApplyAnswer, dispatcherVars
  <2>2. skewed = {}
      BY <1>7 DEF ApplyAnswer
  <2>3. ScreenTells'
      BY <1>7, <2>2, AnswerScreen DEF Unskewed
  <2> QED BY <1>1, <2>1, <2>2, <2>3
<1> QED BY <1>2, <1>3, <1>4, <1>5, <1>6, <1>7

-------------------------------------------------------------------------------
LEMMA BellStarts == NotificationsInit => BellInv
<1> SUFFICES ASSUME NotificationsInit PROVE BellInv
    OBVIOUS
<1>1. BellTypes
    BY TypesStart
<1>2. /\ clock = 0 /\ outbox = <<>> /\ batch = {} /\ handing = FALSE /\ wire = <<>> /\ link = "loading"
      /\ bell = [items |-> rows, unread |-> 0] /\ refetch = Idle /\ request = Idle /\ skewed = {}
      /\ rows = [o \in Orders |-> NoActivity] /\ marked = [o \in Orders |-> 0]
      /\ writing = [w \in Writers |-> Idle]
    BY DEF NotificationsInit
<1>3. DOMAIN outbox = {} /\ DOMAIN wire = {}
    BY <1>2, EmptySeq
<1>4. /\ \A o \in Orders : rows[o].at = 0 /\ rows[o].read = FALSE /\ marked[o] = 0
      /\ bell.items = rows /\ bell.unread = 0 /\ \A w \in Writers : ~Open(w)
    BY <1>2 DEF NoActivity, Open
<1>5. refetch.stage = "idle" /\ request.stage = "idle"
    BY <1>2, IdleIs
<1>6. EntriesOK /\ DispatchOK
    BY <1>2, <1>3, <1>4 DEF EntriesOK, DispatchOK
<1>7. WritersOK
    BY <1>4, <1>5 DEF WritersOK, Writers
<1>8. TimesOK
    BY <1>2, <1>3, <1>4, <1>5 DEF TimesOK, RowsTimely, ScreenTimely, NewTimely, BodiesTimely, MarksBefore,
                                  MarkedTimely, RowsUpTo
<1>9. MarksOK
    BY <1>4, <1>5 DEF MarksOK, RequestAsked, RowsAsked, NewAsked, OpenMarks
<1>10. ListStands
    BY <1>5 DEF ListStands
<1>11. OneByOne /\ WritesSay
    BY <1>4 DEF OneByOne, WritesSay
<1>12. InTurn
    BY <1>2, <1>3 DEF InTurn, BatchFirst, HandedFirst, WireSorted, WireWhole
<1>13. Living = {} /\ Coming = {}
    BY <1>3 DEF Living, Coming
<1>14. EventsTell
    BY <1>13 DEF EventsTell
<1>15. ScreenTells
  <2>1. Unread(rows) = 0
    <3>1. {o \in Orders : rows[o].at > 0 /\ ~rows[o].read} = {}
        BY <1>4
    <3> QED BY <3>1, FS_EmptySet DEF Unread
  <2>2. Tells(outbox, rows, rows, Coming)
    <3>1. Top(rows) = {}
        BY <1>4 DEF Top
    <3> QED BY <1>4, <3>1 DEF Tells, Told, Lags, Capped, Blank
  <2> QED BY <1>4, <1>5, <2>1, <2>2 DEF ScreenTells, BellTells, ListTells, ListCounts, Counts
<1>16. BellStructure /\ Unskewed
    BY <1>1, <1>6, <1>7, <1>8, <1>9, <1>11, <1>12, <1>14, <1>15 DEF BellStructure, Unskewed
<1> QED BY <1>10, <1>16 DEF BellInv

LEMMA BellPartsNext ==
    ASSUME BellTypes', EntriesOK', DispatchOK', WritersOK', TimesOK' /\ MarksOK', ListStands', skewed' = {} => Unskewed'
    PROVE  BellInv'
    BY DEF BellInv, BellStructure

LEMMA BellGoesOn == BellInv /\ [NotificationsNext]_bellVars => BellInv'
<1> SUFFICES ASSUME BellInv, [NotificationsNext]_bellVars PROVE BellInv'
    OBVIOUS
<1>0. /\ BellStructure /\ BellTypes /\ EntriesOK /\ DispatchOK /\ WritersOK /\ TimesOK /\ MarksOK
      /\ ListStands /\ (skewed = {} => Unskewed)
    BY DEF BellInv, BellStructure
<1>1. ASSUME NEW w \in Senders, NEW o \in Orders, SendMessage(w, o) PROVE BellInv'
  <2>1. BellTypes' /\ EntriesOK' /\ DispatchOK' /\ WritersOK'
      BY <1>0, <1>1, WriterTypes, BeginsKeepEntries, BeginsKeepDispatch, BeginsKeepWriters
  <2>2. TimesOK' /\ MarksOK' /\ ListStands' /\ (skewed' = {} => Unskewed')
      BY <1>0, <1>1, BeginsKeepTimes, BeginsKeepList, BeginsKeepUnskewed
  <2> QED BY <2>1, <2>2, BellPartsNext
<1>2. ASSUME MarkRead \/ MarkAllRead PROVE BellInv'
  <2>1. BellTypes' /\ EntriesOK' /\ DispatchOK' /\ WritersOK'
      BY <1>0, <1>2, WriterTypes, BeginsKeepEntries, BeginsKeepDispatch, BeginsKeepWriters
  <2>2. TimesOK' /\ MarksOK' /\ ListStands' /\ (skewed' = {} => Unskewed')
      BY <1>0, <1>2, BeginsKeepTimes, BeginsKeepList, BeginsKeepUnskewed
  <2> QED BY <2>1, <2>2, BellPartsNext
<1>3. ASSUME NEW w \in Writers, Commit(w) PROVE BellInv'
  <2>1. BellTypes' /\ EntriesOK' /\ DispatchOK' /\ WritersOK'
      BY <1>0, <1>3, CommitTypes, StepsKeepEntries, StepsKeepDispatch, StepsKeepWriters
  <2>2. TimesOK' /\ MarksOK' /\ ListStands' /\ (skewed' = {} => Unskewed')
      BY <1>0, <1>3, StepsKeepTimes, StepsKeepList, StepsKeepUnskewed
  <2> QED BY <2>1, <2>2, BellPartsNext
<1>4. ASSUME FetchPending \/ Handle \/ MarkPublished \/ HandleFailure \/ AbandonBatch \/ Crash PROVE BellInv'
  <2>1. BellTypes'
      BY <1>0, <1>4, DispatchTypes
  <2>2. EntriesOK'
      BY <1>0, <1>4, StepsKeepEntries DEF FetchPending, AbandonBatch
  <2>3. DispatchOK' /\ WritersOK'
      BY <1>0, <1>4, StepsKeepDispatch, StepsKeepWriters
  <2>4. TimesOK' /\ MarksOK' /\ ListStands' /\ (skewed' = {} => Unskewed')
      BY <1>0, <1>4, StepsKeepTimes, StepsKeepList, StepsKeepUnskewed
  <2> QED BY <2>1, <2>2, <2>3, <2>4, BellPartsNext
<1>5. ASSUME NEW i \in DOMAIN outbox, BackoffEnds(i) PROVE BellInv'
  <2>1. BellTypes' /\ EntriesOK' /\ DispatchOK' /\ WritersOK'
      BY <1>0, <1>5, DispatchTypes, StepsKeepEntries, StepsKeepDispatch, StepsKeepWriters
  <2>2. TimesOK' /\ MarksOK' /\ ListStands' /\ (skewed' = {} => Unskewed')
      BY <1>0, <1>5, StepsKeepTimes, StepsKeepList, StepsKeepUnskewed
  <2> QED BY <2>1, <2>2, BellPartsNext
<1>6. ASSUME \/ RefuseMark \/ Disconnect \/ Connect \/ JoinRoom \/ RefetchFails \/ ShowRefusal
             \/ ReadItems \/ CountUnread \/ ReplaceNotifications \/ Deliver
             \/ (\E o \in Orders : ClickRead(o)) \/ ClickAll \/ DateMarkAll \/ ApplyAnswer
      PROVE  BellInv'
  <2>1. BellTypes'
      BY <1>0, <1>6, PageTypes
  <2>2. EntriesOK'
    <3>1. UNCHANGED outbox
        BY <1>6 DEF RefuseMark, Disconnect, Connect, JoinRoom, RefetchFails, ShowRefusal, ReadItems, CountUnread,
                    ReplaceNotifications, Deliver, ClickRead, ClickAll, DateMarkAll, ApplyAnswer
    <3> QED BY <1>0, <3>1, StepsKeepEntries
  <2>3. DispatchOK'
      BY <1>0, <1>6, PageKeepsDispatch
  <2>4. WritersOK'
      BY <1>0, <1>6, PageKeepsWriters
  <2>5. TimesOK' /\ MarksOK'
      BY <1>0, <1>6, PageKeepsTimes
  <2>6. ListStands'
      BY <1>0, <1>6, PageKeepsList
  <2>7. skewed' = {} => Unskewed'
      BY <1>0, <1>6, PageKeepsUnskewed
  <2> QED BY <2>1, <2>2, <2>3, <2>4, <2>5, <2>6, <2>7, BellPartsNext
<1>7. ASSUME UNCHANGED bellVars PROVE BellInv'
  <2>1. BellTypes' /\ EntriesOK' /\ DispatchOK' /\ WritersOK'
      BY <1>0, <1>7 DEF bellVars, BellTypes, EntriesOK, DispatchOK, WritersOK, Open, Committed, Turn
  <2>2. TimesOK' /\ MarksOK'
      BY <1>0, <1>7 DEF bellVars, TimesOK, RowsTimely, ScreenTimely, NewTimely, BodiesTimely, MarksBefore,
                        MarkedTimely, MarksOK, RequestAsked, RowsAsked, NewAsked, Asks, Open
  <2>3. Coming' = Coming /\ Living' = Living /\ \A i : Later(i)' = Later(i)
      BY <1>7 DEF bellVars, Coming, Living, Later, ToHand, OnWire, Committed
  <2>4. ListStands'
      BY <1>0, <1>7, <2>3 DEF bellVars, ListStands
  <2>5. Unskewed => Unskewed'
    <3>1. OneByOne /\ InTurn => OneByOne' /\ InTurn'
        BY <1>0, <1>7, SameInTurn DEF bellVars
    <3>2. Grows
        BY <1>7, NothingGrows DEF bellVars
    <3>3. WritesSay => WritesSay'
        BY <1>0, <1>7, <3>2, SaysStays DEF bellVars, Open
    <3>4. EventsTell => EventsTell'
        BY <1>0, <1>7, <2>3, <3>2, EventsStay DEF bellVars
    <3>5. ScreenTells => ScreenTells'
        BY <1>0, <1>7, <2>3, <3>2, ScreenStands DEF bellVars
    <3> QED BY <3>1, <3>3, <3>4, <3>5 DEF Unskewed
  <2> QED BY <1>0, <1>7, <2>1, <2>2, <2>4, <2>5, BellPartsNext DEF bellVars
<1>8. CASE NotificationsNext
    BY <1>1, <1>2, <1>3, <1>4, <1>5, <1>6, <1>8 DEF NotificationsNext, DispatcherStep
<1> QED BY <1>7, <1>8

LEMMA BellTyped == BellInv => NotificationsTypeOK
<1> SUFFICES ASSUME BellInv PROVE NotificationsTypeOK
    OBVIOUS
<1>0. BellTypes /\ EntriesOK /\ DispatchOK
    BY DEF BellInv, BellStructure
<1>1. ASSUME NEW i \in DOMAIN outbox
      PROVE  /\ outbox[i].body \in Bodies
             /\ outbox[i].status \in {"OPEN", "GONE", "PENDING", "PUBLISHED", "FAILED"}
             /\ outbox[i].attempts \in 0..MaxAttempts
             /\ outbox[i].waiting \in BOOLEAN /\ outbox[i].handed \in BOOLEAN
  <2>1. outbox[i] \in Entries
      BY <1>0, EntryOf
  <2>2. outbox[i].attempts \in Nat /\ outbox[i].attempts <= MaxAttempts /\ MaxAttempts \in Nat
      BY <1>0, <2>1, EntryIs, NotificationsAssumption DEF EntriesOK
  <2> QED BY <2>1, <2>2, EntryIs DEF Statuses
<1>2. ASSUME NEW w \in Writers PROVE writing[w] = Idle \/ writing[w].stage = "open"
    BY <1>0, WriterIs DEF Open
<1>3. bell.items \in Rows /\ bell.unread \in Nat
    BY <1>0, ShownIs
<1>4. refetch.stage \in {"idle", "asked", "items", "answered"}
    BY <1>0, RefetchIs DEF BellTypes
<1>5. request.stage \in {"idle", "asking", "sent", "open", "done", "refused"}
    BY <1>0, RequestIs DEF BellTypes
<1>6. handing => batch # {}
    BY <1>0 DEF DispatchOK
<1> QED BY <1>0, <1>1, <1>2, <1>3, <1>4, <1>5, <1>6 DEF NotificationsTypeOK, BellTypes

LEMMA BellAgreeing == BellInv => BellFollowsTheThread
<1> SUFFICES ASSUME BellInv PROVE BellFollowsTheThread
    OBVIOUS
<1>0. BellTypes /\ MarksOK /\ ListStands /\ (skewed = {} => Unskewed)
    BY DEF BellInv, BellStructure
<1>1. NoLaterMessageRead
    BY <1>0 DEF MarksOK, RowsAsked, NoLaterMessageRead
<1>2. ASSUME Quiet, skewed = {} PROVE bell = [items |-> Newest(rows), unread |-> Unread(rows)]
  <2>1. AllTold /\ link = "up" /\ refetch = Idle
      BY <1>2 DEF Quiet
  <2>2. Coming = {}
      BY <1>0, <2>1, NothingComes
  <2>3. Tells(outbox, rows, bell.items, {}) /\ bell.unread = Unread(rows)
      BY <1>0, <1>2, <2>1, <2>2 DEF Unskewed, ScreenTells, BellTells, Counts
  <2>4. bell.items = Newest(rows)
    <3>1. bell.items \in Rows /\ rows \in Rows
        BY <1>0, ShownIs DEF BellTypes
    <3> QED BY <2>3, <3>1, AllToldAgrees
  <2>5. bell = [items |-> bell.items, unread |-> bell.unread]
      BY <1>0 DEF BellTypes
  <2> QED BY <2>3, <2>4, <2>5
<1>3. RefetchRepairs
  <2>1. AllTold => Coming = {}
      BY <1>0, NothingComes
  <2> QED BY <1>0, <2>1 DEF ListStands, RefetchRepairs
<1> QED BY <1>1, <1>2, <1>3 DEF BellFollowsTheThread, BellAgrees

-------------------------------------------------------------------------------
\* The rows, the outbox, the dispatcher and the page keep their types, and an
\* event that is being handed is in the batch.
THEOREM BellTypeCorrect == NotificationsSpec => []NotificationsTypeOK
<1>1. NotificationsInit => BellInv
    BY BellStarts
<1>2. BellInv /\ [NotificationsNext]_bellVars => BellInv'
    BY BellGoesOn
<1>3. BellInv => NotificationsTypeOK
    BY BellTyped
<1> QED BY <1>1, <1>2, <1>3, PTL DEF NotificationsSpec

\* When nothing is under way any more and nothing skewed it, the bell shows the
\* newest rows and the count of the store; no mark hides a message later than the
\* activity it was made for, or than the time the API gave it; and a refetch that no
\* event crossed brings the newest rows of the store, whatever skewed the bell.
THEOREM BellFollows == NotificationsSpec => []BellFollowsTheThread
<1>1. NotificationsInit => BellInv
    BY BellStarts
<1>2. BellInv /\ [NotificationsNext]_bellVars => BellInv'
    BY BellGoesOn
<1>3. BellInv => BellFollowsTheThread
    BY BellAgreeing
<1> QED BY <1>1, <1>2, <1>3, PTL DEF NotificationsSpec

=================================================================================
