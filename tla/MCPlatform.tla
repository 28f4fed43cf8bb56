------------------------------- MODULE MCPlatform -------------------------------
(***************************************************************************)
(* A small instance of every component around the core.                    *)
(***************************************************************************)
EXTENDS Platform, TLC

CONSTANTS
    u1, u2, u3,         \* users
    m1,                 \* a booster whose pages are followed
    d1, d2,             \* deals that are rated
    ta, tb, tc,         \* tasks
    w1, w2, w3,         \* open dashboards
    p1, p2              \* the pages of a chat

MCPartiesOf == d1 :> {u1, u2} @@ d2 :> {u1, u3}
MCDeclares == <<(ta :> "x" @@ tb :> "x" @@ tc :> NotArmed),
                (ta :> "y" @@ tb :> NotArmed @@ tc :> "x")>>
MCUserOf == [w \in {w1, w2, w3} |-> IF w = w3 THEN u2 ELSE u1]

PriceList(steps) == [steps |-> [s \in Services |-> steps], extras |-> [x \in Extras |-> 2500]]
\* The list of the migration has no price for Master.  The second one gives a step away,
\* has one so cheap that rounding may, and points of Master for less than a cent.
MCOrderLists ==
    <<[PriceList([r \in Ranks \ {Top} |-> 300]) EXCEPT !.steps["duo_boost"] = [r \in Ranks \ {Top} |-> 500]],
      PriceList(0 :> 40 @@ 1 :> 0 @@ 2 :> 200 @@ 3 :> 300 @@ 4 :> 99)>>
MCOffered == <<"elo_boost", "duo_boost">>

-------------------------------------------------------------------------------
(***************************************************************************)
(* Bounds on the states that are explored further.                         *)
(***************************************************************************)
\* The first administrator keeps its name, and a lost audit entry is looked at without
\* sessions.  Once handlers have overlapped on a user, those that are at work go on, and
\* others follow on that user, one at a time.
FewAccounts ==
    /\ users[FirstAdmin].name = CHOOSE n \in Names : TRUE
    /\ unaudited # {} => \A s \in Sessions : sessions[s] = Unknown
    /\ disputed # {} =>
        /\ \A r \in Servers : serving[r] # Waiting => serving[r].user \in disputed
        /\ Cardinality({r \in Servers : serving[r].stage \notin {"idle", "audit"}}) <= 1
        /\ unaudited = {}

\* The second page is there for the first: it connects before it, is not authenticated
\* late again, has one send at a time, and is not followed once it shows an error.  When
\* the thread is full and a connection was lost, it is the other one that sends.  Its
\* message is the oldest only when the first page is there, which has two sends at a time
\* only when the second one is.  An order that ends has one message at most.
FewLosses ==
    /\ pages[p2].connected /\ p2 \notin known => losses = 0 /\ ~pages[p1].connected
    /\ sends[p2][2] = NoSend /\ ~pages[p2].error
    /\ Cardinality({h \in Talkers \X Slots : sends[h[1]][h[2]] # NoSend}) <= IF losses = 0 THEN 2 ELSE 1
    /\ Len(thread) + losses > 2 => p2 \in room /\ \A k \in Slots : sends[p1][k] = NoSend
    /\ ~open => Len(thread) <= 1
    /\ thread # <<>> /\ thread[1] = p2 => p1 \in room
    /\ sends[p1][2] # NoSend => p2 \in room

\* Three questions on their way overtake each other while the route stays the first one;
\* with other routes there is one at a time.  The third change of the form comes before
\* the last step, and under the first list.
FewQuestions ==
    LET underway == Cardinality(asking.sent \cup asking.answered)
        Route(f) == <<f.from, f.fromDivision, f.lp, f.to, f.toDivision>>
    IN  /\ underway + listNow <= IF Route(form) = Route(StartForm) THEN 4 ELSE 2
        /\ asking.last > 2 => listNow = 1 /\ checkout = NoCheckout
        /\ asking.last > 3 => step \in 1..2 /\ ~form.coupon

\* The second order only gets in the way of the first, on the pages of the booster;
\* and a page of his that is out of date is not looked at any further.
FewOrders ==
    /\ 2 \notin lapsed /\ declined[2] = {} /\ payout[2] # "released"
    /\ shop[2].status # "cancelled" /\ (shop[2].status = "in_progress" => shop[2].creds)
    /\ Cardinality(page.changed) <= 1
    /\ page.viewer = m1 /\ page.queries = {} => page.changed = {}
    /\ page.viewer # m1 => page.to # 2 /\ shop[2] = Service!DraftRow(Unassigned)
    /\ shop[2].status = "awaiting_payment" => shop[2].booster = Unassigned

\* A form on which more than a percentage and a code were entered is followed until its
\* coupon is made, with nothing else going on; two coupons are looked at at rest; and the
\* second service is one of the order form only.
Plain(f) ==
    /\ f.digits \in {0, 40} /\ f.code # BadCode
    /\ [f EXCEPT !.digits = 0, !.code = NoCode] = BlankForm
FewForms ==
    LET creates == {i \in DOMAIN asked : asked[i].op = "create"}
        forms == {dialog.form} \cup {asked[i].shown : i \in creates}
                 \cup {minted[k].shown : k \in {j \in AdminCoupons : minted[j] # NotMinted}}
        made == {k \in AdminCoupons : Made(k)}
    IN  /\ \A f \in forms : "duo_boost" \notin f.services
        /\ made # {} \/ Len(asked) > 1 => dialog.fills <= 1 /\ \A f \in forms : Plain(f)
        /\ dialog.failed => Plain(dialog.form) \/ dialog.fills <= 2
        /\ \A i \in creates :
                Plain(asked[i].shown) \/ (asked[i].here /\ ShownBy(dialog.form) = asked[i].shown)
        /\ made = AdminCoupons => asked = <<>> /\ \A k \in made : Len(coupons[k].events) <= 2

Bounded == FewAccounts /\ FewLosses /\ FewQuestions /\ FewOrders /\ FewForms

-------------------------------------------------------------------------------
(***************************************************************************)
(* Handlers, tabs, callers, coupons and the two dashboards of one user are *)
(* alike.  A behavior is one of a single scene, and a scene has one or two *)
(* of these pairs: swapping all of them at once is enough.                 *)
(***************************************************************************)
Alike == {Servers, Tabs, Callers, AdminCoupons, {w1, w2}}
Other(x) == CHOOSE y \in UNION Alike \ {x} : \E pair \in Alike : {x, y} \subseteq pair
Swaps == {[x \in UNION Alike |-> x], [x \in UNION Alike |-> Other(x)]}
MCSymmetry == Swaps
=================================================================================
