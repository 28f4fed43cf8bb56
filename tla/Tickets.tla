--------------------------------- MODULE Tickets ---------------------------------
(***************************************************************************)
(* Support tickets.  A reply says whose turn it is, by who wrote it, in    *)
(* the same update that adds its message; the ticket is read and the time  *)
(* of the message taken before.  An administrator may set any status.      *)
(***************************************************************************)
EXTENDS Naturals, Sequences

CONSTANTS
    TicketIds,
    Desks,          \* the handlers that may be running at the same time
    MaxThread       \* bound: the messages of a ticket, and the replies begun

ASSUME TicketsAssumption == MaxThread \in Nat

VARIABLES
    tickets,        \* tickets[t]: its status, and its messages in the order of commit
    desks,          \* desks[r]: the handler r is running, and what it holds
    ticks,          \* the time
    crossed         \* tickets written to while another handler was at work on them

ticketVars == <<tickets, desks, ticks, crossed>>

TicketStatus == {"OPEN", "WAITING_SUPPORT", "WAITING_USER", "CLOSED"}
Sides == {"user", "admin"}
NoTicket == [status |-> "none", thread |-> <<>>, set |-> FALSE]
Vacant == [stage |-> "idle"]

TicketsTypeOK ==
    /\ \A t \in TicketIds : \/ tickets[t] = NoTicket
                            \/ /\ tickets[t].status \in TicketStatus /\ tickets[t].set \in BOOLEAN
                               /\ tickets[t].thread \in Seq([by : Sides, at : Nat])
    /\ desks \in [Desks -> {Vacant}
                           \cup [stage : {"reply"}, ticket : TicketIds, by : Sides, at : Nat]
                           \cup [stage : {"status"}, ticket : TicketIds, status : TicketStatus]]
    /\ ticks \in Nat /\ crossed \subseteq TicketIds

TicketsInit ==
    /\ tickets = [t \in TicketIds |-> NoTicket]
    /\ desks = [r \in Desks |-> Vacant]
    /\ ticks = 0 /\ crossed = {}

CreateWithInitialMessage(t) ==
    /\ tickets[t] = NoTicket
    /\ ticks' = ticks + 1
    /\ tickets' = [tickets EXCEPT ![t] =
                     [status |-> "WAITING_SUPPORT", set |-> FALSE,
                      thread |-> <<[by |-> "user", at |-> ticks]>>]]
    /\ UNCHANGED <<desks, crossed>>

Occupy(r, job) ==
    /\ desks[r] = Vacant /\ tickets[job.ticket] # NoTicket
    /\ desks' = [desks EXCEPT ![r] = job]

\* add-ticket-message, add-admin-ticket-message
BeginReply(r, t, by) ==
    /\ ticks < MaxThread
    /\ Occupy(r, [stage |-> "reply", ticket |-> t, by |-> by, at |-> ticks])
    /\ ticks' = ticks + 1
    /\ UNCHANGED <<tickets, crossed>>

BeginUpdateStatus(r, t, status) ==
    /\ Occupy(r, [stage |-> "status", ticket |-> t, status |-> status])
    /\ UNCHANGED <<tickets, ticks, crossed>>

\* recordReply
TurnAfter(by) == IF by = "admin" THEN "WAITING_USER" ELSE "WAITING_SUPPORT"

WriteTicket(r) ==
    LET job == desks[r]
        t == job.ticket IN
    /\ job # Vacant
    /\ tickets' = [tickets EXCEPT ![t] =
            IF job.stage = "reply"
            THEN [status |-> TurnAfter(job.by), set |-> FALSE,
                  thread |-> Append(@.thread, [by |-> job.by, at |-> job.at])]
            ELSE [@ EXCEPT !.status = job.status, !.set = TRUE]]
    /\ crossed' = crossed \cup {w \in {t} : \E s \in Desks \ {r} : desks[s] # Vacant /\ desks[s].ticket = w}
    /\ desks' = [desks EXCEPT ![r] = Vacant]
    /\ UNCHANGED ticks

TicketsNext ==
    \/ \E t \in TicketIds : CreateWithInitialMessage(t)
    \/ \E r \in Desks, t \in TicketIds, by \in Sides : BeginReply(r, t, by)
    \/ \E r \in Desks, t \in TicketIds, status \in TicketStatus : BeginUpdateStatus(r, t, status)
    \/ \E r \in Desks : WriteTicket(r)

-------------------------------------------------------------------------------
\* A page lists the messages of a ticket by their time.
LastBy(t) ==
    LET thread == tickets[t].thread IN
    CHOOSE by \in Sides :
        \E i \in DOMAIN thread : /\ thread[i].by = by
                                 /\ \A j \in DOMAIN thread : thread[j].at <= thread[i].at

\* A ticket waits for the side that did not write the last message it shows, until
\* an administrator sets its status, unless two writes to it crossed.
TicketWaitsForTheOther ==
    \A t \in TicketIds \ crossed :
        tickets[t] # NoTicket /\ ~tickets[t].set =>
            tickets[t].status = IF LastBy(t) = "admin" THEN "WAITING_USER" ELSE "WAITING_SUPPORT"
================================================================================
