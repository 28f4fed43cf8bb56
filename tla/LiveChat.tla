-------------------------------- MODULE LiveChat --------------------------------
(***************************************************************************)
(* The chat of one order: two pages, the sockets that join them to the     *)
(* room of the order, and the stored thread.                               *)
(*                                                                         *)
(* A page is rendered with the newest messages of the thread as it is      *)
(* stored, connects, and joins the room; a message is stored first and     *)
(* announced to the room afterwards.  A page that connects again asks for  *)
(* a new rendering, which is merged into what it shows; the messages that  *)
(* a rendering leaves out are never asked for.  The gateway handles the    *)
(* events of one socket side by side, and beside its authentication; the   *)
(* events sent to a socket arrive in order, and those in flight are lost   *)
(* with the connection.                                                    *)
(***************************************************************************)
EXTENDS Naturals, Sequences

CONSTANTS
    Talkers,                    \* the client and the booster of the order
    PageSize,                   \* ?limit=50: the messages a rendering brings
    Slots,                      \* the sends of one page that may be handled at the same time
    MaxPosts, MaxLosses         \* bounds: messages sent, connections and servers lost

ASSUME LiveChatAssumption == MaxPosts \in Nat /\ MaxLosses \in Nat /\ PageSize \in Nat \ {0}

VARIABLES
    open,           \* the order is in progress
    thread,         \* the stored messages: the sender of each
    known,          \* the pages whose socket is authenticated
    room,           \* the pages whose socket is in the room
    joining,        \* the pages whose chat:join is being handled
    sends,          \* sends[p][k]: a chat:send of p that is being handled
    pages,          \* pages[p]: what p sees
    socket,         \* socket[p]: events on their way to p
    rendering,      \* rendering[p]: the new rendering p has asked for
    missed,         \* missed[p]: messages announced before p, rendered or connected again, was in the room
    cut,            \* cut[p]: how many messages the last rendering of p left out, the oldest
    losses          \* how many connections and servers were lost

chatVars == <<open, thread, known, room, joining, sends, pages, socket, rendering, missed, cut, losses>>

Ids == 1..MaxPosts
NoSend == [stage |-> "idle"]
Sends == [stage : {"sent", "checked"}, own : BOOLEAN]
         \cup [stage : {"stored"}, message : Ids, own : BOOLEAN]
SocketEvents == [message : Ids] \cup {[error |-> TRUE]}
Renderings == [stage : {"none", "asked"}]
              \cup [stage : {"ready"}, messages : 0..MaxPosts, open : BOOLEAN]
NoRendering == [stage |-> "none"]
Thread == 1..Len(thread)
Shown(p) == {pages[p].shown[i] : i \in 1..Len(pages[p].shown)}

LiveChatTypeOK ==
    /\ open \in BOOLEAN
    /\ Len(thread) <= MaxPosts /\ \A i \in Thread : thread[i] \in Talkers
    /\ known \subseteq Talkers /\ room \subseteq Talkers /\ joining \subseteq Talkers
    /\ sends \in [Talkers -> [Slots -> Sends \cup {NoSend}]]
    /\ pages \in [Talkers -> [shown : Seq(Ids), enabled : BOOLEAN, connected : BOOLEAN,
                              before : BOOLEAN, sending : BOOLEAN, error : BOOLEAN]]
    /\ socket \in [Talkers -> Seq(SocketEvents)]
    /\ rendering \in [Talkers -> Renderings]
    /\ missed \in [Talkers -> SUBSET Ids]
    /\ cut \in [Talkers -> 0..MaxPosts]
    /\ losses \in 0..MaxLosses

\* The newest messages of a thread of n are those after the first Skipped(n).
Skipped(n) == IF n > PageSize THEN n - PageSize ELSE 0

Appended(shown, message) ==
    IF \E i \in 1..Len(shown) : shown[i] = message THEN shown ELSE Append(shown, message)

\* The messages of a rendering differ, so those that are not shown yet are appended in turn.
Merged(shown, n) ==
    LET upTo[m \in 0..n] == IF m <= Skipped(n) THEN shown ELSE Appended(upTo[m - 1], m)
    IN  upTo[n]

\* The pages are opened on a thread of some messages.
LiveChatInit ==
    /\ open = TRUE /\ \E n \in 0..MaxPosts : thread \in [1..n -> Talkers]
    /\ known = {} /\ room = {} /\ joining = {}
    /\ sends = [p \in Talkers |-> [k \in Slots |-> NoSend]]
    /\ pages = [p \in Talkers |-> [shown |-> Merged(<<>>, Len(thread)), enabled |-> TRUE, connected |-> FALSE,
                                   before |-> FALSE, sending |-> FALSE, error |-> FALSE]]
    /\ socket = [p \in Talkers |-> <<>>]
    /\ rendering = [p \in Talkers |-> NoRendering]
    /\ missed = [p \in Talkers |-> {}]
    /\ cut = [p \in Talkers |-> Skipped(Len(thread))]
    /\ losses = 0

-------------------------------------------------------------------------------
(***************************************************************************)
(* Connections.                                                            *)
(***************************************************************************)
AsksForRendering(p) == pages[p].before

ConnectPage(p) ==
    /\ pages[p].enabled /\ ~pages[p].connected
    /\ pages' = [pages EXCEPT ![p].connected = TRUE, ![p].before = TRUE]
    /\ joining' = joining \cup {p}
    /\ rendering' = IF AsksForRendering(p) THEN [rendering EXCEPT ![p] = [stage |-> "asked"]]
                    ELSE rendering
    /\ missed' = IF pages[p].before THEN [missed EXCEPT ![p] = {}] ELSE missed
    /\ UNCHANGED <<open, thread, known, room, sends, socket, cut, losses>>

Emit(p, event) == socket' = [socket EXCEPT ![p] = Append(@, event)]

\* handleConnection, beside which the events of the socket are handled already.
Authenticate(p) ==
    /\ pages[p].connected /\ p \notin known
    /\ known' = known \cup {p}
    /\ UNCHANGED <<open, thread, room, joining, sends, pages, socket, rendering, missed, cut, losses>>

Join(p) ==
    /\ p \in joining /\ p \in known
    /\ joining' = joining \ {p}
    /\ room' = room \cup {p}
    /\ UNCHANGED <<open, thread, known, sends, pages, socket, rendering, missed, cut, losses>>

\* requireUser throws outside the try of the handler: the page is told nothing it
\* listens to.  If the listing fails, it is told of an error.
RefuseJoin(p) ==
    /\ p \in joining
    /\ joining' = joining \ {p}
    /\ IF p \in known THEN Emit(p, [error |-> TRUE]) ELSE UNCHANGED socket
    /\ UNCHANGED <<open, thread, known, room, sends, pages, rendering, missed, cut, losses>>

\* A message whose confirmation is outstanding is reported.
Unplugged(page) ==
    [page EXCEPT !.connected = FALSE, !.sending = FALSE, !.error = page.error \/ page.sending]
Unplug(lost) ==
    /\ known' = known \ lost /\ room' = room \ lost /\ joining' = joining \ lost
    /\ socket' = [p \in Talkers |-> IF p \in lost THEN <<>> ELSE socket[p]]
UnplugPages(lost) ==
    pages' = [p \in Talkers |-> IF p \in lost /\ pages[p].connected
                                THEN Unplugged(pages[p]) ELSE pages[p]]

\* What was sent is lost with the socket; what is handled goes on without it.
Disowned(send) == IF send.stage \in {"idle", "sent"} THEN NoSend ELSE [send EXCEPT !.own = FALSE]
Disown(p) == sends' = [sends EXCEPT ![p] = [k \in Slots |-> Disowned(@[k])]]

DisconnectPage(p) ==
    /\ pages[p].connected
    /\ losses < MaxLosses /\ losses' = losses + 1
    /\ Unplug({p}) /\ UnplugPages({p}) /\ Disown(p)
    /\ UNCHANGED <<open, thread, rendering, missed, cut>>

\* A socket that the server closes is not connected again.
RefuseConnection(p) ==
    /\ pages[p].connected /\ p \notin known
    /\ Unplug({p}) /\ Disown(p)
    /\ pages' = [pages EXCEPT ![p] = [Unplugged(@) EXCEPT !.error = TRUE, !.enabled = FALSE]]
    /\ UNCHANGED <<open, thread, rendering, missed, cut, losses>>

\* The messages stored but not yet announced.
Unannounced == {m \in Ids : \E p \in Talkers, k \in Slots :
                    sends[p][k].stage = "stored" /\ sends[p][k].message = m}

ServerDies ==
    /\ losses < MaxLosses /\ losses' = losses + 1
    /\ Unplug(Talkers) /\ UnplugPages(Talkers)
    /\ missed' = [p \in Talkers |-> missed[p] \cup Unannounced]
    /\ sends' = [p \in Talkers |-> [k \in Slots |-> NoSend]]
    /\ UNCHANGED <<open, thread, rendering, cut>>

-------------------------------------------------------------------------------
(***************************************************************************)
(* Sending: the composer, and SendChatMessageUseCase behind the gateway.   *)
(***************************************************************************)
\* Whatever the room tells, an error and a lost connection enable the composer again,
\* so that a page may have several sends under way.
SendChat(p, k) ==
    /\ pages[p].connected /\ ~pages[p].sending
    /\ sends[p][k] = NoSend
    /\ pages' = [pages EXCEPT ![p].sending = TRUE, ![p].error = FALSE]
    /\ sends' = [sends EXCEPT ![p][k] = [stage |-> "sent", own |-> TRUE]]
    /\ UNCHANGED <<open, thread, known, room, joining, socket, rendering, missed, cut, losses>>

\* The status of the order is read before the transaction that stores the message.
\* A socket that is not authenticated yet is refused as in RefuseJoin.
ReadOrder(p, k) ==
    /\ sends[p][k].stage = "sent"
    /\ IF p \in known /\ open
       THEN sends' = [sends EXCEPT ![p][k].stage = "checked"] /\ UNCHANGED socket
       ELSE /\ sends' = [sends EXCEPT ![p][k] = NoSend]
            /\ IF p \in known THEN Emit(p, [error |-> TRUE]) ELSE UNCHANGED socket
    /\ UNCHANGED <<open, thread, known, room, joining, pages, rendering, missed, cut, losses>>

Store(p, k) ==
    /\ sends[p][k].stage = "checked"
    /\ Len(thread) < MaxPosts
    /\ thread' = Append(thread, p)
    /\ sends' = [sends EXCEPT ![p][k] = [stage |-> "stored", message |-> Len(thread) + 1, own |-> @.own]]
    /\ UNCHANGED <<open, known, room, joining, pages, socket, rendering, missed, cut, losses>>

FailStore(p, k) ==
    /\ sends[p][k].stage = "checked"
    /\ sends' = [sends EXCEPT ![p][k] = NoSend]
    /\ IF sends[p][k].own THEN Emit(p, [error |-> TRUE]) ELSE UNCHANGED socket
    /\ UNCHANGED <<open, thread, known, room, joining, pages, rendering, missed, cut, losses>>

Hearers(p, k) == room \cup {q \in {p} : sends[p][k].own}

\* The sender joins the room before the message is announced to it.
Announce(p, k) ==
    LET message == sends[p][k].message IN
    /\ sends[p][k].stage = "stored"
    /\ room' = Hearers(p, k)
    /\ socket' = [q \in Talkers |-> IF q \in Hearers(p, k)
                                    THEN Append(socket[q], [message |-> message]) ELSE socket[q]]
    /\ missed' = [q \in Talkers |-> IF q \in Hearers(p, k) THEN missed[q] ELSE missed[q] \cup {message}]
    /\ sends' = [sends EXCEPT ![p][k] = NoSend]
    /\ UNCHANGED <<open, thread, known, joining, pages, rendering, cut, losses>>

CloseOrder ==
    /\ open
    /\ open' = FALSE
    /\ UNCHANGED <<thread, known, room, joining, sends, pages, socket, rendering, missed, cut, losses>>

-------------------------------------------------------------------------------
(***************************************************************************)
(* What the page shows.                                                    *)
(***************************************************************************)
\* Any message of the room counts as the confirmation, any error as the failure.
ReceiveChat(p) ==
    /\ socket[p] # <<>>
    /\ socket' = [socket EXCEPT ![p] = Tail(@)]
    /\ pages' = [pages EXCEPT ![p].sending = FALSE,
                    ![p].shown = IF "message" \in DOMAIN Head(socket[p])
                                 THEN Appended(@, Head(socket[p]).message) ELSE @,
                    ![p].error = @ \/ "error" \in DOMAIN Head(socket[p])]
    /\ UNCHANGED <<open, thread, known, room, joining, sends, rendering, missed, cut, losses>>

\* The pages of the order list its newest messages.
Render(p) ==
    /\ rendering[p].stage = "asked"
    /\ rendering' = [rendering EXCEPT ![p] = [stage |-> "ready", messages |-> Len(thread),
                                              open |-> open]]
    /\ UNCHANGED <<open, thread, known, room, joining, sends, pages, socket, missed, cut, losses>>

\* A page that learns that the order has ended closes its socket.
Refresh(p) ==
    LET seen == rendering[p] IN
    /\ seen.stage = "ready"
    /\ rendering' = [rendering EXCEPT ![p] = NoRendering]
    /\ cut' = [cut EXCEPT ![p] = Skipped(seen.messages)]
    /\ pages' = [pages EXCEPT ![p].shown = Merged(@, seen.messages),
                              ![p].enabled = @ /\ seen.open,
                              ![p].connected = @ /\ seen.open]
    /\ IF seen.open THEN UNCHANGED <<known, room, joining, socket, sends>>
       ELSE Unplug({p}) /\ Disown(p)
    /\ UNCHANGED <<open, thread, missed, losses>>

LiveChatNext ==
    \/ ServerDies \/ CloseOrder
    \/ \E p \in Talkers :
        \/ ConnectPage(p) \/ Authenticate(p) \/ RefuseConnection(p) \/ Join(p) \/ RefuseJoin(p)
        \/ DisconnectPage(p) \/ ReceiveChat(p) \/ Render(p) \/ Refresh(p)
        \/ \E k \in Slots :
            SendChat(p, k) \/ ReadOrder(p, k) \/ Store(p, k) \/ FailStore(p, k) \/ Announce(p, k)

-------------------------------------------------------------------------------
InTouch(p) == p \in room /\ socket[p] = <<>> /\ rendering[p] = NoRendering

(* A page in touch with its order shows once each message of the thread    *)
(* but for the oldest, which the rendering left out, and no other, whatever*)
(* connections and servers were lost and whichever sends were refused; the *)
(* one gap is a message that was announced, or lost its announcement, after*)
(* the page was rendered, or connected again, and before it was in the     *)
(* room.  A message is not shown twice, though it comes both in the room   *)
(* and in the rendering, and the newest PageSize are never left out.       *)
PagesShowTheThread ==
    \A p \in Talkers :
        /\ \A i, j \in 1..Len(pages[p].shown) :
                pages[p].shown[i] = pages[p].shown[j] => i = j
        /\ Shown(p) \subseteq Thread
        /\ InTouch(p) => Thread \ Unannounced \subseteq Shown(p) \cup missed[p] \cup 1..cut[p]
        /\ cut[p] <= Skipped(Len(thread))
================================================================================
