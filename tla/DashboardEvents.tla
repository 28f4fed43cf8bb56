----------------------------- MODULE DashboardEvents ----------------------------
(***************************************************************************)
(* How open dashboards learn that an order has changed: the API publishes  *)
(* an event, in memory, after the change is committed; every dashboard     *)
(* keeps a stream of events open and asks for a new rendering half a       *)
(* second after one arrives.  The API keeps one stream per user: a second  *)
(* one ends the first, and the browser opens that again.  Events are not   *)
(* kept for a stream that is down.                                         *)
(***************************************************************************)
EXTENDS Naturals, FiniteSets

CONSTANTS
    Client, Boosters, NoBooster,
    Screens, NoScreen, UserOf,  \* the open dashboards, and whose they are
    MaxChanges, MaxFailures     \* bounds: changes of the order, streams lost

ASSUME DashboardEventsAssumption ==
    /\ NoBooster \notin Boosters /\ Client \notin Boosters
    /\ NoScreen \notin Screens /\ UserOf \in [Screens -> Boosters \cup {Client}]
    /\ MaxChanges \in Nat /\ MaxFailures \in Nat

VARIABLES
    version,        \* how many changes were committed
    publishing,     \* events whose change is committed, on their way to the bus
    subscribers,    \* the dashboards subscribed to the bus
    keyed,          \* keyed[u]: the dashboard whose stream is kept for u
    stream,         \* stream[w]: "off", "on" or, when the session has run out, "expired"
    arriving,       \* arriving[w]: events on their way to w
    waiting,        \* waiting[w]: the half second is running
    refreshing,     \* refreshing[w]: the rendering asked for
    seen,           \* seen[w]: the last change that the rendering of w includes
    due,            \* due[w]: the changes published for w since its stream is up
    failures

eventVars == <<version, publishing, subscribers, keyed, stream, arriving, waiting, refreshing,
               seen, due, failures>>

Changes == 1..MaxChanges
OrderEvents == [change : Changes, type : {"order.paid", "order.accepted", "order.rejected"},
                booster : Boosters \cup {NoBooster}]

NoRefresh == [stage |-> "none", version |-> 0]

DashboardEventsTypeOK ==
    /\ version \in 0..MaxChanges /\ publishing \subseteq OrderEvents
    /\ subscribers \subseteq Screens
    /\ keyed \in [Boosters \cup {Client} -> Screens \cup {NoScreen}]
    /\ stream \in [Screens -> {"off", "on", "expired"}]
    /\ arriving \in [Screens -> SUBSET Changes]
    /\ waiting \in [Screens -> BOOLEAN]
    /\ refreshing \in [Screens -> [stage : {"none", "asked", "ready"}, version : 0..MaxChanges]]
    /\ seen \in [Screens -> 0..MaxChanges] /\ due \in [Screens -> SUBSET Changes]
    /\ failures \in 0..MaxFailures

DashboardEventsInit ==
    /\ version = 0 /\ publishing = {}
    /\ subscribers = {} /\ keyed = [u \in Boosters \cup {Client} |-> NoScreen]
    /\ stream = [w \in Screens |-> "off"]
    /\ arriving = [w \in Screens |-> {}]
    /\ waiting = [w \in Screens |-> FALSE] /\ refreshing = [w \in Screens |-> NoRefresh]
    /\ seen = [w \in Screens |-> 0] /\ due = [w \in Screens |-> {}]
    /\ failures = 0

-------------------------------------------------------------------------------
(***************************************************************************)
(* The API.  A definition whose name ends in X is a faulty variant of the  *)
(* one after it.                                                           *)
(***************************************************************************)
\* A paid order concerns every booster, any other change those who take part in it.
CanReceive(u, event) ==
    \/ u = Client
    \/ event.type = "order.paid" /\ event.booster = NoBooster
    \/ event.booster = u

ChangeOrder(type, booster) ==
    /\ version < MaxChanges
    /\ version' = version + 1
    /\ publishing' = publishing \cup {[change |-> version + 1, type |-> type, booster |-> booster]}
    /\ UNCHANGED <<subscribers, keyed, stream, arriving, waiting, refreshing, seen, due, failures>>

Publish(event) ==
    LET meant == {w \in Screens : CanReceive(UserOf[w], event)} IN
    /\ event \in publishing
    /\ publishing' = publishing \ {event}
    /\ arriving' = [w \in Screens |-> IF w \in meant \cap subscribers
                                      THEN arriving[w] \cup {event.change} ELSE arriving[w]]
    /\ due' = [w \in Screens |-> IF w \in meant \cap subscribers
                                 THEN due[w] \cup {event.change} ELSE due[w]]
    /\ UNCHANGED <<version, subscribers, keyed, stream, waiting, refreshing, seen, failures>>

\* The stream of the user that is still there goes on.
EvictedX(w) == {}
Evicted(w) == {keyed[UserOf[w]]} \ {NoScreen, w}

\* A stream that ends takes with it the events that have not arrived.
Cut(gone) ==
    /\ arriving' = [w \in Screens |-> IF w \in gone THEN {} ELSE arriving[w]]
    /\ due' = [w \in Screens |-> IF w \in gone THEN {} ELSE due[w]]

Subscribe(w) ==
    LET gone == Evicted(w) IN
    /\ stream[w] = "off"
    /\ stream' = [v \in Screens |-> IF v = w THEN "on" ELSE IF v \in gone THEN "off" ELSE stream[v]]
    /\ Cut(gone)
    /\ subscribers' = (subscribers \ gone) \cup {w}
    /\ keyed' = [keyed EXCEPT ![UserOf[w]] = w]
    /\ UNCHANGED <<version, publishing, waiting, refreshing, seen, failures>>

\* The access token has run out: the dashboard does not ask again.
Expire(w) ==
    /\ stream[w] = "off"
    /\ stream' = [stream EXCEPT ![w] = "expired"]
    /\ UNCHANGED <<version, publishing, subscribers, keyed, arriving, waiting, refreshing, seen,
                   due, failures>>

Ended(gone) == [w \in Screens |-> IF w \in gone THEN "off" ELSE stream[w]]
KeyedWithout(gone) == [u \in DOMAIN keyed |-> IF keyed[u] \in gone THEN NoScreen ELSE keyed[u]]

LoseStream(w) ==
    /\ stream[w] = "on"
    /\ failures < MaxFailures /\ failures' = failures + 1
    /\ stream' = Ended({w})
    /\ Cut({w})
    /\ subscribers' = subscribers \ {w}
    /\ keyed' = KeyedWithout({w})
    /\ UNCHANGED <<version, publishing, waiting, refreshing, seen>>

\* The API stops: streams, subscriptions and events that were not published are gone.
RestartApi ==
    /\ failures < MaxFailures /\ failures' = failures + 1
    /\ publishing' = {}
    /\ stream' = Ended(subscribers)
    /\ Cut(Screens)
    /\ subscribers' = {}
    /\ keyed' = KeyedWithout(Screens)
    /\ UNCHANGED <<version, waiting, refreshing, seen>>

-------------------------------------------------------------------------------
(***************************************************************************)
(* The dashboard.                                                          *)
(***************************************************************************)
\* Events that come while the half second runs are part of the same rendering.
Waits(w) == TRUE

ReceiveEvent(w) ==
    \E c \in arriving[w] :
        /\ arriving' = [arriving EXCEPT ![w] = @ \ {c}]
        /\ waiting' = [waiting EXCEPT ![w] = Waits(w)]
        /\ UNCHANGED <<version, publishing, subscribers, keyed, stream, refreshing, seen, due,
                       failures>>

FireTimer(w) ==
    /\ waiting[w]
    /\ waiting' = [waiting EXCEPT ![w] = FALSE]
    /\ refreshing' = [refreshing EXCEPT ![w] = [stage |-> "asked", version |-> 0]]
    /\ UNCHANGED <<version, publishing, subscribers, keyed, stream, arriving, seen, due, failures>>

RenderDashboard(w) ==
    /\ refreshing[w].stage = "asked"
    /\ refreshing' = [refreshing EXCEPT ![w] = [stage |-> "ready", version |-> version]]
    /\ UNCHANGED <<version, publishing, subscribers, keyed, stream, arriving, waiting, seen, due,
                   failures>>

ShowDashboard(w) ==
    /\ refreshing[w].stage = "ready"
    /\ refreshing' = [refreshing EXCEPT ![w] = NoRefresh]
    /\ seen' = [seen EXCEPT ![w] = refreshing[w].version]
    /\ UNCHANGED <<version, publishing, subscribers, keyed, stream, arriving, waiting, due, failures>>

DashboardEventsNext ==
    \/ ChangeOrder("order.paid", NoBooster)
    \/ \E b \in Boosters, type \in {"order.accepted", "order.rejected"} : ChangeOrder(type, b)
    \/ \E event \in publishing : Publish(event)
    \/ RestartApi
    \/ \E w \in Screens : Subscribe(w) \/ Expire(w) \/ LoseStream(w)
                            \/ ReceiveEvent(w) \/ FireTimer(w)
                            \/ RenderDashboard(w) \/ ShowDashboard(w)
-------------------------------------------------------------------------------
(* A dashboard shows every change that was published for it since its      *)
(* stream is up, once no event is on its way to it and no rendering is     *)
(* outstanding, however events fall into the half second or into a         *)
(* rendering; and the bus keeps one subscription for each user, that of    *)
(* the stream it keeps for him, however often dashboards replace each      *)
(* other.                                                                  *)
DashboardsAreFresh ==
    /\ \A w \in Screens :
        arriving[w] = {} /\ ~waiting[w] /\ refreshing[w] = NoRefresh => \A c \in due[w] : c <= seen[w]
    /\ subscribers = {w \in Screens : stream[w] = "on"}
    /\ subscribers = {keyed[u] : u \in DOMAIN keyed} \ {NoScreen}
    /\ \A v, w \in subscribers : UserOf[v] = UserOf[w] => v = w
================================================================================
