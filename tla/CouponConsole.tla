------------------------------ MODULE CouponConsole ------------------------------
(***************************************************************************)
(* The page on which an administrator makes coupons and switches them.     *)
(* The form is sent as it stands, and the API examines it.  React keeps    *)
(* what the component holds and blanks the other inputs after every answer,*)
(* a refusal included.  A closed dialog forgets its form, and what it had  *)
(* sent is carried out all the same.  Requests of one page are carried out *)
(* in order.  An answer brings the rows of the table along, unless it is   *)
(* an error.                                                               *)
(*                                                                         *)
(* No minimum and no limit are 0.  A fixed discount, which the code keeps  *)
(* in reais with two decimals, is counted in cents.                        *)
(***************************************************************************)
EXTENDS OrderPrice, CouponAdmin, SequencesExt

CONSTANTS
    UnpricedServices,       \* that the form offers and no price list has
    Queues, Emails,
    BadCode,                \* a code that is too short
    Amounts, ExtraCounts, RankChoices,  \* what is entered
    MaxFills                \* bound: the changes of one form

ASSUME CouponConsoleAssumption ==
    /\ UnpricedServices \cap Services = {}
    /\ BadCode \notin Codes \cup {NoCode}
    /\ Amounts \subseteq Nat /\ ExtraCounts \subseteq Nat \ {0} /\ RankChoices \subseteq Ranks
    /\ Services # {} /\ Queues # {} /\ Emails # {} /\ IsFiniteSet(Extras) /\ MaxFills \in Nat

VARIABLES
    dialog,         \* whether it is open, its form, and whether it shows an error
    asked,          \* the requests of the page that have no answer yet
    minted,         \* minted[k]: what the form showed when k was asked for, and what k says
    table,          \* table[k]: the row of k on the page
    behind          \* coupons that changed without the page being told

consoleVars == <<dialog, asked, minted, table, behind>>

AllServices == Services \cup UnpricedServices
MaxPercentage == 99
MinFixed == 50
NoRank == -1
CouponForms ==
    [percentage : BOOLEAN, digits : Nat, code : Codes \cup {NoCode, BadCode},
     services : SUBSET AllServices, queues : SUBSET Queues, clients : SUBSET Emails,
     minSubtotal : Nat, maxSubtotal : Nat,
     minRank : Ranks \cup {NoRank}, maxRank : Ranks \cup {NoRank},
     requiredExtras : SUBSET Extras, minExtras : Nat, firstOrderOnly : BOOLEAN, limit : 0..1]
BlankForm ==
    [percentage |-> TRUE, digits |-> 0, code |-> NoCode,
     services |-> {}, queues |-> {}, clients |-> {},
     minSubtotal |-> 0, maxSubtotal |-> 0, minRank |-> NoRank, maxRank |-> NoRank,
     requiredExtras |-> {}, minExtras |-> 0, firstOrderOnly |-> FALSE, limit |-> 0]
NotMinted == [shown |-> NotMade, terms |-> NotMade]
RowOf(k) == [code |-> coupons[k].code, active |-> coupons[k].active]
NoRow == [code |-> NoCode, active |-> FALSE]

CouponConsoleTypeOK ==
    /\ dialog \in [open : BOOLEAN, form : CouponForms, failed : BOOLEAN, fills : 0..MaxFills]
    /\ \A i \in DOMAIN asked : asked[i].op \in {"create", "switch"}
    /\ behind \subseteq AdminCoupons
    /\ \A k \in AdminCoupons : Made(k) => coupons[k].code \in Codes

CouponConsoleInit ==
    /\ dialog = [open |-> FALSE, form |-> BlankForm, failed |-> FALSE, fills |-> 0]
    /\ asked = <<>>
    /\ minted = [k \in AdminCoupons |-> NotMinted]
    /\ table = [k \in AdminCoupons |-> NoRow]
    /\ behind = {}

-------------------------------------------------------------------------------
(***************************************************************************)
(* The form.  A definition whose name ends in X is a faulty variant of the *)
(* one after it.                                                           *)
(***************************************************************************)
ShowsExtras(f) == f.services = {} \/ f.services \cap Services # {}

\* the choice stays where it is not shown
WithoutHiddenX(f) == f
WithoutHidden(f) == IF ShowsExtras(f) THEN f ELSE [f EXCEPT !.requiredExtras = {}]

Fill(f) ==
    /\ dialog.open /\ dialog.fills < MaxFills
    /\ dialog' = [dialog EXCEPT !.form = WithoutHidden(f), !.fills = @ + 1]
    /\ UNCHANGED <<asked, minted, table, behind, couponVars>>

Toggled(set, x) == IF x \in set THEN set \ {x} ELSE set \cup {x}

SelectDiscountType(percentage) ==
    Fill([dialog.form EXCEPT !.percentage = percentage, !.digits = 0])

AmountIn(percentage, n) == IF percentage THEN Min({n, MaxPercentage}) ELSE n
EnterAmount(n) ==
    \/ Fill([dialog.form EXCEPT !.digits = AmountIn(dialog.form.percentage, n)])
    \/ Fill([dialog.form EXCEPT !.minSubtotal = n])
    \/ Fill([dialog.form EXCEPT !.maxSubtotal = n])

ToggleScope ==
    \/ \E s \in AllServices : Fill([dialog.form EXCEPT !.services = Toggled(@, s)])
    \/ \E q \in Queues : Fill([dialog.form EXCEPT !.queues = Toggled(@, q)])
    \/ Fill([dialog.form EXCEPT !.firstOrderOnly = ~@])

\* An address is added once, and removed by its cross or from the end.
ChangeEmails == \E e \in Emails : Fill([dialog.form EXCEPT !.clients = Toggled(@, e)])

PickRank(r) ==
    \/ Fill([dialog.form EXCEPT !.minRank = r])
    \/ Fill([dialog.form EXCEPT !.maxRank = r])

PickExtra(x) ==
    /\ ShowsExtras(dialog.form)
    /\ Fill([dialog.form EXCEPT !.requiredExtras = {x} \ @])

\* The inputs the component does not hold.
TypeIn ==
    \/ \E code \in Codes \cup {BadCode} : Fill([dialog.form EXCEPT !.code = code])
    \/ \E n \in ExtraCounts : Fill([dialog.form EXCEPT !.minExtras = n])
    \/ Fill([dialog.form EXCEPT !.limit = 1])
Blanked(f) == [f EXCEPT !.code = NoCode, !.minExtras = 0, !.limit = 0]

OpenDialog ==
    /\ ~dialog.open
    /\ dialog' = [open |-> TRUE, form |-> BlankForm, failed |-> FALSE, fills |-> 0]
    /\ UNCHANGED <<asked, minted, table, behind, couponVars>>

CloseDialog ==
    /\ dialog.open
    /\ dialog' = [open |-> FALSE, form |-> BlankForm, failed |-> FALSE, fills |-> 0]
    /\ asked' = [i \in DOMAIN asked |-> [asked[i] EXCEPT !.here = (@ /\ asked[i].op = "switch")]]
    /\ UNCHANGED <<minted, table, behind, couponVars>>

-------------------------------------------------------------------------------
(***************************************************************************)
(* The requests of the page.                                               *)
(***************************************************************************)
\* What is on the screen, whatever else the component holds.
ShownBy(f) == IF ShowsExtras(f) THEN f ELSE [f EXCEPT !.requiredExtras = {}]

\* What the form sends: an amount in its unit, and a rank by its place, where none is
\* the first or the last one.
Sent(f) ==
    [percentage |-> f.percentage, discount |-> f.digits, code |-> f.code,
     services |-> f.services, queues |-> f.queues, clients |-> f.clients,
     minSubtotal |-> f.minSubtotal, maxSubtotal |-> f.maxSubtotal,
     minRank |-> IF f.minRank = NoRank THEN 0 ELSE f.minRank,
     maxRank |-> IF f.maxRank = NoRank THEN Top ELSE f.maxRank,
     requiredExtras |-> f.requiredExtras, minExtras |-> f.minExtras,
     firstOrderOnly |-> f.firstOrderOnly, limit |-> f.limit]

PressCreate ==
    /\ dialog.open /\ Len(asked) < 2
    /\ ~\E i \in DOMAIN asked : asked[i].op = "create" /\ asked[i].here
    /\ asked' = Append(asked, [op |-> "create", here |-> TRUE,
                               shown |-> ShownBy(dialog.form), terms |-> Sent(dialog.form)])
    /\ UNCHANGED <<dialog, minted, table, behind, couponVars>>

\* A row has one of two buttons, and only that one waits.
PressSwitch(k) ==
    LET request == [op |-> "switch", here |-> TRUE, coupon |-> k, on |-> ~table[k].active] IN
    /\ table[k] # NoRow /\ Len(asked) < 2
    /\ ~\E i \in DOMAIN asked : asked[i] = request
    /\ asked' = Append(asked, request)
    /\ UNCHANGED <<dialog, minted, table, behind, couponVars>>

\* the ranks are not compared
AcceptedX(t) ==
    /\ t.code # BadCode
    /\ IF t.percentage THEN t.discount \in 1..MaxPercentage ELSE t.discount >= MinFixed
    /\ t.minSubtotal > 0 /\ t.maxSubtotal > 0 => t.minSubtotal <= t.maxSubtotal
Accepted(t) ==
    /\ t.code # BadCode
    /\ IF t.percentage THEN t.discount \in 1..MaxPercentage ELSE t.discount >= MinFixed
    /\ t.minSubtotal > 0 /\ t.maxSubtotal > 0 => t.minSubtotal <= t.maxSubtotal
    /\ t.minRank <= t.maxRank

\* A code that is not given is drawn among the free ones.
CodesFor(t) == IF t.code = NoCode THEN Codes ELSE {t.code}

Mint(k) ==
    LET r == Head(asked) IN
    /\ r.op = "create" /\ ~Made(k) /\ Accepted(r.terms)
    /\ \E code \in CodesFor(r.terms) :
        FreeCode(code) /\ coupons' = [coupons EXCEPT ![k] = Created(code)]
    /\ minted' = [minted EXCEPT ![k] = [shown |-> r.shown, terms |-> r.terms]]

Switch(k) ==
    LET r == Head(asked) IN
    /\ r.op = "switch" /\ r.coupon = k
    /\ Len(coupons[k].events) < MaxEvents
    /\ coupons' = [coupons EXCEPT ![k] = Switched(k, r.on)]
    /\ UNCHANGED minted

\* revalidatePath: the answer comes with the rows as they are now.
Reread == table' = [k \in AdminCoupons |-> RowOf(k)'] /\ behind' = {}

Carried ==
    /\ asked # <<>> /\ \E k \in AdminCoupons : Mint(k) \/ Switch(k)
    /\ asked' = Tail(asked) /\ Reread
    /\ dialog' = IF Head(asked).op = "create" /\ Head(asked).here
                 THEN [open |-> FALSE, form |-> BlankForm, failed |-> FALSE, fills |-> 0]
                 ELSE dialog
    /\ UNCHANGED admins

\* An error is shown where the request came from, and nothing is read.
ShowError ==
    /\ asked' = Tail(asked)
    /\ dialog' = IF Head(asked).op = "create" /\ Head(asked).here
                 THEN [dialog EXCEPT !.failed = TRUE, !.form = Blanked(@)]
                 ELSE dialog
    /\ UNCHANGED <<table, admins>>

\* The API refuses, or is not reached.
Refused ==
    /\ asked # <<>> /\ ShowError
    /\ UNCHANGED <<coupons, minted, behind>>

\* The request is carried out and its answer is lost.
LoseAnswer ==
    /\ asked # <<>> /\ \E k \in AdminCoupons : (Mint(k) \/ Switch(k)) /\ behind' = behind \cup {k}
    /\ ShowError

\* Another administrator makes or switches a coupon.
ChangedElsewhere(k) ==
    /\ \/ ~Made(k) /\ \E code \in Codes :
            FreeCode(code) /\ coupons' = [coupons EXCEPT ![k] = Created(code)]
       \/ /\ Made(k) /\ Len(coupons[k].events) < MaxEvents
          /\ coupons' = [coupons EXCEPT ![k] = Switched(k, ~coupons[k].active)]
    /\ behind' = behind \cup {k}
    /\ UNCHANGED <<dialog, asked, minted, table, admins>>

CouponConsoleNext ==
    \/ OpenDialog \/ CloseDialog
    \/ \E percentage \in BOOLEAN : SelectDiscountType(percentage)
    \/ \E n \in Amounts : EnterAmount(n)
    \/ ToggleScope \/ ChangeEmails \/ TypeIn
    \/ \E r \in RankChoices \cup {NoRank} : PickRank(r)
    \/ \E x \in Extras : PickExtra(x)
    \/ PressCreate
    \/ \E k \in AdminCoupons : PressSwitch(k) \/ ChangedElsewhere(k)
    \/ Carried \/ Refused \/ LoseAnswer

-------------------------------------------------------------------------------
(* A coupon says what was on the screen when it was asked for: nothing     *)
(* that an earlier choice left behind in the form.                         *)
CouponsSayWhatWasShown ==
    \A k \in AdminCoupons : minted[k] # NotMinted => minted[k].terms = Sent(minted[k].shown)

(* The form and the rules of the API leave no coupon that no order meets,  *)
(* but for one of services without prices, and for one that asks for more  *)
(* extras than there are.                                                  *)
MetBySomeOrder(t) ==
    \E s \in Services, q \in Queues, r \in Ranks, extras \in SUBSET Extras, e \in Emails,
       subtotal \in {1, t.minSubtotal, t.maxSubtotal} :
        Eligible(t, e, TRUE, [service |-> s, queue |-> q, from |-> r, extras |-> extras], subtotal)
CouponsCanBeSpent ==
    \A k \in AdminCoupons : minted[k] # NotMinted =>
        LET t == minted[k].terms IN
        MetBySomeOrder(t) <=>
            /\ t.services = {} \/ t.services \cap Services # {}
            /\ t.minExtras <= Cardinality(Extras)

(* A row is wrong only of a coupon that changed behind the back of the     *)
(* page since the last answer to it.                                       *)
TableTellsTheCoupons ==
    \A k \in AdminCoupons \ behind : table[k] = RowOf(k)
================================================================================
