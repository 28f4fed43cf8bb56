-------------------------------- MODULE OrderForm -------------------------------
(***************************************************************************)
(* The wizard in which a client describes an order: the rank picker, the   *)
(* extras, the price that follows every change, and the checkout at its    *)
(* end.  The price is asked for a moment after a change; a change drops    *)
(* the question that was waiting and ignores the answer to the one that    *)
(* was sent.  The server prices with the list in force when it is asked,   *)
(* and once more when the order is placed.                                 *)
(*                                                                         *)
(* A league below Master has divisions, Master has points (PDL) in their   *)
(* place.                                                                  *)
(***************************************************************************)
EXTENDS OrderPrice, Sequences

CONSTANTS
    Leagues, Divisions,     \* how many, below Master and in each of them
    MaxPdl,                 \* MASTER_PDL_MAX
    PdlInputs,              \* points the client enters
    Offered,                \* the services of the wizard, the first one chosen at the start
    OrderLists,             \* the price lists, in the order they come into force
    MaxEdits                \* bound: changes of the form

ASSUME OrderFormAssumption ==
    /\ Leagues \in Nat \ {0} /\ Divisions \in Nat \ {0} /\ Top = Leagues * Divisions
    /\ MaxPdl \in Nat /\ Divisions <= MaxPdl /\ PdlInputs \subseteq 0..MaxPdl
    /\ {"mmr_nerfed", "priority"} \subseteq Extras
    /\ Offered \in Seq(Services) /\ Offered # <<>>
    /\ Len(OrderLists) \in Nat \ {0} /\ MaxEdits \in Nat

\* A list is examined before it comes into force.  Only the first one, of the migration,
\* was not, and it has no price for Master.
ASSUME ListsAreExamined ==
    \A list \in 1..Len(OrderLists) :
        /\ list > 1 => CompleteList(OrderLists[list])
        /\ DOMAIN OrderLists[list].extras = Extras
        /\ \A service \in Services :
            \E ranks \in {Ranks, Ranks \ {Top}} : OrderLists[list].steps[service] \in [ranks -> Nat]

VARIABLES
    form,           \* what the client has entered so far
    step,           \* the page of the wizard, and "placed" after the last
    asking,         \* the questions: the newest one, those sent, those answered
    summary,        \* what the summary shows
    listNow,        \* the list in force
    checkout        \* the order being placed, and what was on screen then

formVars == <<form, step, asking, summary, listNow, checkout>>

Master == Leagues
DivisionsOf(league) == IF league = Master THEN 0..MaxPdl ELSE 0..Divisions - 1
Forms == {f \in [service : Services, from : 0..Master, fromDivision : 0..MaxPdl, lp : 0..MaxPdl,
                 to : 0..Master, toDivision : 0..MaxPdl,
                 extras : SUBSET Extras, gain : {17, 18}, coupon : BOOLEAN] :
            f.fromDivision \in DivisionsOf(f.from) /\ f.toDivision \in DivisionsOf(f.to)}

Place(league, division) == IF league = Master THEN Top ELSE league * Divisions + division

\* What the server makes of a form: the points of a rank in Master are its division.
RequestOf(f) ==
    [service |-> f.service,
     from |-> Place(f.from, f.fromDivision),
     points |-> IF f.from = Master THEN f.fromDivision ELSE f.lp,
     to |-> Place(f.to, f.toDivision), target |-> IF f.to = Master THEN f.toDivision ELSE 0,
     extras |-> f.extras]

\* It refuses a route it has no price for, points out of range, and coupons it does not know.
Quotable(f, list) ==
    Priceable(OrderLists[list], RequestOf(f)) /\ (f.from # Master => f.lp <= 99) /\ ~f.coupon
Quoted(f, list) == Subtotal(OrderLists[list], RequestOf(f))

NoTotal == [total |-> 0, list |-> 0]
NoCheckout == [stage |-> "none"]
OrderFormTypeOK ==
    /\ form \in Forms
    /\ step \in 1..4 \cup {5}
    /\ asking.last \in 1..MaxEdits + 1 /\ asking.waiting \in BOOLEAN
    /\ \A q \in asking.sent \cup asking.answered : q.id <= asking.last
    /\ summary.pending \in BOOLEAN /\ summary.failed \in BOOLEAN
    /\ summary.shown.list \in 0..Len(OrderLists) /\ listNow \in 1..Len(OrderLists)

StartForm == [service |-> Offered[1], from |-> 0, fromDivision |-> 0, lp |-> 0, to |-> 1, toDivision |-> 0,
              extras |-> {}, gain |-> 18, coupon |-> FALSE]
OrderFormInit ==
    /\ form = StartForm
    /\ step = 1
    /\ asking = [last |-> 1, waiting |-> TRUE, sent |-> {}, answered |-> {}]
    /\ summary = [shown |-> NoTotal, pending |-> TRUE, failed |-> FALSE]
    /\ listNow = 1
    /\ checkout = NoCheckout

-------------------------------------------------------------------------------
(***************************************************************************)
(* The ranks.  A definition whose name ends in X is a faulty variant of    *)
(* the one after it.                                                       *)
(***************************************************************************)
\* the same rank as well
IsDesiredRankAvailableX(from, fromDivision, to, toDivision) ==
    IF from = Master /\ to = Master THEN toDivision >= fromDivision
    ELSE Place(to, toDivision) >= Place(from, fromDivision)
IsDesiredRankAvailable(from, fromDivision, to, toDivision) ==
    IF from = Master /\ to = Master THEN toDivision > fromDivision
    ELSE Place(to, toDivision) > Place(from, fromDivision)

\* whatever the league
NormalizeRankDivisionX(league, division, chosenIn) == division
\* What a division of chosenIn is in a league: the first one takes the place of points.
NormalizeRankDivision(league, division, chosenIn) ==
    IF league = Master THEN Min({division, MaxPdl})
    ELSE IF chosenIn = Master THEN 0 ELSE division

\* The next division, or one point more, if there is room for it.
NextRankStep(league, division) ==
    IF league = Master THEN [league |-> Master, division |-> Min({division + 1, MaxPdl})]
    ELSE IF division + 1 < Divisions THEN [league |-> league, division |-> division + 1]
    ELSE [league |-> league + 1, division |-> 0]

NormalizeDesiredRank(from, fromDivision, to, toDivision) ==
    IF IsDesiredRankAvailable(from, fromDivision, to, toDivision)
    THEN [league |-> to, division |-> NormalizeRankDivision(to, toDivision, to)]
    ELSE NextRankStep(from, fromDivision)

LpOf(league, division, lp) ==
    IF league = Master THEN division ELSE IF lp > 99 THEN 0 ELSE lp

-------------------------------------------------------------------------------
(***************************************************************************)
(* Changes.  Each is one rendering: the effect that follows it drops the   *)
(* question that was waiting.                                              *)
(***************************************************************************)
Change(f) ==
    /\ asking.last <= MaxEdits
    /\ form' = f
    /\ asking' = [asking EXCEPT !.last = @ + 1, !.waiting = TRUE]
    /\ summary' = [summary EXCEPT !.pending = TRUE]
    /\ UNCHANGED <<listNow, checkout>>

ChangeCurrentRank(league, chosen, chosenIn) ==
    LET division == NormalizeRankDivision(league, chosen, chosenIn)
        desired == NormalizeDesiredRank(league, division, form.to, form.toDivision)
    IN  /\ step = 1
        /\ Change([form EXCEPT !.from = league, !.fromDivision = division,
                               !.lp = LpOf(league, division, @),
                               !.to = desired.league, !.toDivision = desired.division])
        /\ UNCHANGED step

ChangeDesiredRank(league, chosen, chosenIn) ==
    LET division == NormalizeRankDivision(league, chosen, chosenIn)
        desired == NormalizeDesiredRank(form.from, form.fromDivision, league, division)
    IN  /\ step = 1
        /\ Change([form EXCEPT !.to = desired.league, !.toDivision = desired.division])
        /\ UNCHANGED step

ChooseService(service) ==
    /\ step = 1
    /\ Change([form EXCEPT !.service = service])
    /\ UNCHANGED step

\* Another league keeps the division; Master starts without points.
PickCurrentLeague ==
    \E league \in 0..Master :
        ChangeCurrentRank(league, IF league = Master THEN 0 ELSE form.fromDivision, form.from)
PickDesiredLeague ==
    \E league \in 0..Master :
        /\ IF league = Master THEN form.from = Master => form.fromDivision < MaxPdl
           ELSE \E d \in DivisionsOf(league) :
                    IsDesiredRankAvailable(form.from, form.fromDivision, league, d)
        /\ ChangeDesiredRank(league, IF league = Master THEN 0 ELSE form.toDivision, form.to)

OfferedBy(league) == IF league = Master THEN PdlInputs ELSE DivisionsOf(league)
PickCurrentDivision == \E d \in OfferedBy(form.from) : ChangeCurrentRank(form.from, d, form.from)
PickDesiredDivision ==
    \E d \in OfferedBy(form.to) :
        /\ form.to # Master => IsDesiredRankAvailable(form.from, form.fromDivision, form.to, d)
        /\ ChangeDesiredRank(form.to, d, form.to)

\* the extra is only ever added
ExtrasForX(extras, gain) == IF gain <= 17 THEN extras \cup {"mmr_nerfed"} ELSE extras
ExtrasFor(extras, gain) ==
    IF gain <= 17 THEN extras \cup {"mmr_nerfed"} ELSE extras \ {"mmr_nerfed"}

ChangeLpGain(gain) ==
    /\ step = 2
    /\ Change([form EXCEPT !.gain = gain, !.extras = ExtrasFor(@, gain)])
    /\ UNCHANGED step

\* The details do not offer mmr_nerfed.
ToggleExtra(x) ==
    /\ step = 2 /\ x # "mmr_nerfed"
    /\ Change([form EXCEPT !.extras = IF x \in @ THEN @ \ {x} ELSE @ \cup {x}])
    /\ UNCHANGED step

\* A code is entered that is refused, or removed; the question is asked anew in any case.
ChangeCoupon(coupon) ==
    /\ step < 5
    /\ Change([form EXCEPT !.coupon = coupon])
    /\ UNCHANGED step

NextStep ==
    /\ \/ step = 1 /\ IsDesiredRankAvailable(form.from, form.fromDivision, form.to, form.toDivision)
       \/ step \in 2..3
    /\ step' = step + 1
    /\ UNCHANGED <<form, asking, summary, listNow, checkout>>

PreviousStep ==
    /\ step \in 2..4
    /\ step' = step - 1
    /\ UNCHANGED <<form, asking, summary, listNow, checkout>>

-------------------------------------------------------------------------------
(***************************************************************************)
(* The price.                                                              *)
(***************************************************************************)
AskForPrice ==
    /\ asking.waiting
    /\ asking' = [asking EXCEPT !.waiting = FALSE, !.sent = @ \cup {[id |-> asking.last, of |-> form]}]
    /\ UNCHANGED <<form, step, summary, listNow, checkout>>

AnswerPrice ==
    \E q \in asking.sent :
        /\ asking' = [asking EXCEPT !.sent = @ \ {q},
                !.answered = @ \cup {[id |-> q.id, good |-> Quotable(q.of, listNow),
                                      total |-> IF Quotable(q.of, listNow)
                                                THEN [total |-> Quoted(q.of, listNow), list |-> listNow]
                                                ELSE NoTotal]}]
        /\ UNCHANGED <<form, step, summary, listNow, checkout>>

IsAwaited(answer) == answer.id = asking.last

\* An error keeps the last good price.
ShowPrice ==
    \E answer \in asking.answered, lost \in BOOLEAN :
        /\ asking' = [asking EXCEPT !.answered = @ \ {answer}]
        /\ IF ~IsAwaited(answer) THEN UNCHANGED summary
           ELSE IF answer.good /\ ~lost
           THEN summary' = [shown |-> answer.total, pending |-> FALSE, failed |-> FALSE]
           ELSE summary' = [summary EXCEPT !.pending = FALSE, !.failed = TRUE]
        /\ UNCHANGED <<form, step, listNow, checkout>>

ActivateList ==
    /\ listNow < Len(OrderLists)
    /\ listNow' = listNow + 1
    /\ UNCHANGED <<form, step, asking, summary, checkout>>

-------------------------------------------------------------------------------
(***************************************************************************)
(* The order.  The wizard hands over the form as it is at the click.       *)
(***************************************************************************)
Settled == ~summary.pending /\ ~summary.failed
SubmitOrder ==
    /\ step = 4 /\ checkout = NoCheckout
    /\ checkout' = [stage |-> "submitted", form |-> form,
                    seen |-> IF Settled THEN summary.shown ELSE NoTotal]
    /\ UNCHANGED <<form, step, asking, summary, listNow>>

PlaceOrder ==
    /\ checkout.stage = "submitted"
    /\ Quotable(checkout.form, listNow)
    /\ step' = 5
    /\ checkout' = [stage |-> "placed", seen |-> checkout.seen,
                    charged |-> [total |-> Quoted(checkout.form, listNow), list |-> listNow]]
    /\ UNCHANGED <<form, asking, summary, listNow>>

FailOrder ==
    /\ checkout.stage = "submitted"
    /\ checkout' = NoCheckout
    /\ UNCHANGED <<form, step, asking, summary, listNow>>

OrderFormNext ==
    \/ \E k \in DOMAIN Offered : ChooseService(Offered[k])
    \/ PickCurrentLeague \/ PickDesiredLeague \/ PickCurrentDivision \/ PickDesiredDivision
    \/ \E gain \in {17, 18} : ChangeLpGain(gain)
    \/ \E x \in Extras : ToggleExtra(x)
    \/ \E coupon \in BOOLEAN : ChangeCoupon(coupon)
    \/ NextStep \/ PreviousStep
    \/ AskForPrice \/ AnswerPrice \/ ShowPrice \/ ActivateList
    \/ SubmitOrder \/ PlaceOrder \/ FailOrder

-------------------------------------------------------------------------------
\* Prices under which a climb may come to nothing: a point of Master costs less than a
\* cent; below it, only the step under way costs anything, so little that rounding can
\* give it away to a client who is at its end.
ClimbMayBeFree(f, list) ==
    LET steps == OrderLists[list].steps[f.service]
        from == Place(f.from, f.fromDivision)
    IN  IF f.from = Master THEN steps[Top] < 100
        ELSE /\ steps[from] <= 50
             /\ \A rank \in Ranks :
                    from < rank /\ rank < Place(f.to, f.toDivision) => steps[rank] = 0

(* The web and the server agree on routes: whatever the client went back   *)
(* and changed, a form that got past the rank picker is one the server     *)
(* has a price for, under every list that can be in force.  The two        *)
(* exceptions are of the list's making, since the picker knows no prices:  *)
(* the list of the migration does not price a start in Master, and the     *)
(* server does not sell a climb that costs nothing.                        *)
RoutesPastThePickerAreQuoted ==
    step \in 2..4 =>
        \A list \in 1..Len(OrderLists) :
            \/ Quotable([form EXCEPT !.coupon = FALSE], list)
            \/ form.from = Master /\ Top \notin DOMAIN OrderLists[list].steps[form.service]
            \/ ClimbMayBeFree(form, list)

(* The summary, once it shows neither an error nor that it is working,     *)
(* shows what the form costs, with the extra that low gains entail,        *)
(* however answers overtook each other; and an order placed at that sight  *)
(* is charged that amount, unless another list came into force meanwhile.  *)
SummaryShowsTheCharge ==
    /\ Settled /\ step < 5 =>
        /\ summary.shown.total = Quoted(form, summary.shown.list)
        /\ form.gain <= 17 <=> "mmr_nerfed" \in form.extras
    /\ checkout.stage = "placed" /\ checkout.seen # NoTotal =>
        \/ checkout.charged = checkout.seen
        \/ checkout.charged.list # checkout.seen.list
================================================================================
