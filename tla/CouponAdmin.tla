------------------------------- MODULE CouponAdmin -------------------------------
(***************************************************************************)
(* What administrators do to coupons.  A code is looked up before a coupon *)
(* is made of it, and the unique index decides.  Switching a coupon is an  *)
(* update that only a change of state makes, with its event in the same    *)
(* transaction.                                                            *)
(***************************************************************************)
EXTENDS Naturals, Sequences

CONSTANTS
    AdminCoupons, Codes, NoCode,
    CouponAdmins,   \* the handlers that may be running at the same time
    MaxEvents       \* bound: the events of a coupon

ASSUME CouponAdminAssumption == NoCode \notin Codes /\ MaxEvents \in Nat

VARIABLES
    coupons,        \* coupons[k]: its code, whether it is active, and its events
    admins          \* admins[a]: the handler a is running, and what it holds

couponVars == <<coupons, admins>>

NotMade == [code |-> NoCode, active |-> FALSE, events |-> <<>>]
AtRest == [op |-> "none"]
Made(k) == coupons[k] # NotMade

CouponAdminTypeOK ==
    /\ coupons \in [AdminCoupons -> [code : Codes \cup {NoCode}, active : BOOLEAN,
                                     events : Seq({"created", "disabled", "enabled"})]]
    /\ admins \in [CouponAdmins -> {AtRest} \cup [op : {"create"}, code : Codes]
                                   \cup [op : {"disable", "enable"}, coupon : AdminCoupons]]

CouponAdminInit ==
    /\ coupons = [k \in AdminCoupons |-> NotMade]
    /\ admins = [a \in CouponAdmins |-> AtRest]

Taken(code) == \E k \in AdminCoupons : coupons[k].code = code

\* resolveCode
BeginCreate(a, code) ==
    /\ admins[a] = AtRest /\ ~Taken(code)
    /\ admins' = [admins EXCEPT ![a] = [op |-> "create", code |-> code]]
    /\ UNCHANGED coupons

\* findById
BeginSwitch(a, op, k) ==
    /\ admins[a] = AtRest /\ Made(k)
    /\ admins' = [admins EXCEPT ![a] = [op |-> op, coupon |-> k]]
    /\ UNCHANGED coupons

FinishAdmin(a) == admins' = [admins EXCEPT ![a] = AtRest]

\* create; the index on the code fails the second of two.
FreeCode(code) == ~Taken(code)
Created(code) == [code |-> code, active |-> TRUE, events |-> <<"created">>]

CreateCoupon(a, k) ==
    /\ admins[a].op = "create" /\ ~Made(k)
    /\ coupons' = IF FreeCode(admins[a].code)
                  THEN [coupons EXCEPT ![k] = Created(admins[a].code)]
                  ELSE coupons
    /\ FinishAdmin(a)

\* disable, enable
Switches(k, active) == coupons[k].active # active

Switched(k, active) ==
    IF Switches(k, active)
    THEN [coupons[k] EXCEPT !.active = active,
                            !.events = Append(@, IF active THEN "enabled" ELSE "disabled")]
    ELSE coupons[k]

SwitchCoupon(a) ==
    LET k == admins[a].coupon
        active == admins[a].op = "enable" IN
    /\ admins[a].op \in {"disable", "enable"}
    /\ Len(coupons[k].events) < MaxEvents
    /\ coupons' = [coupons EXCEPT ![k] = Switched(k, active)]
    /\ FinishAdmin(a)

CouponAdminNext ==
    \/ \E a \in CouponAdmins, code \in Codes : BeginCreate(a, code)
    \/ \E a \in CouponAdmins, k \in AdminCoupons, op \in {"disable", "enable"} : BeginSwitch(a, op, k)
    \/ \E a \in CouponAdmins, k \in AdminCoupons : CreateCoupon(a, k)
    \/ \E a \in CouponAdmins : SwitchCoupon(a)

-------------------------------------------------------------------------------
\* The history of a coupon tells its state: switching it off and on alternate,
\* however many administrators do the same at once, and the last of it is how the
\* coupon stands.  No code names two coupons.
HistoryTellsTheState ==
    /\ \A k, l \in AdminCoupons : Made(k) /\ coupons[k].code = coupons[l].code => k = l
    /\ \A k \in AdminCoupons :
        LET events == coupons[k].events IN
        \A i \in DOMAIN events :
            /\ i > 1 => (events[i] = "enabled") = (events[i - 1] = "disabled")
            /\ i = Len(events) => coupons[k].active = (events[i] # "disabled")
================================================================================
