------------------------------- MODULE OrderPrice -------------------------------
(***************************************************************************)
(* What an order costs: pure operators, no state.  Amounts are whole       *)
(* cents.  A price list gives, for each service, the price of climbing     *)
(* from each rank to the next one, and a rate, in ten-thousandths, for     *)
(* each extra; a rank is its place in the progression, and the last one,   *)
(* Top, is Master, which has points instead of divisions.                  *)
(*                                                                         *)
(* The code multiplies by binary fractions before it rounds.  Here a rate  *)
(* is the decimal fraction its author wrote, and rounding is exact.        *)
(***************************************************************************)
EXTENDS FiniteSetsExt

CONSTANTS
    Top,            \* the place of Master in the progression
    Services,
    Extras,
    MinTotal        \* what a coupon leaves to pay

ASSUME PriceAssumption ==
    /\ Top \in Nat \ {0}
    /\ MinTotal \in Nat

Ranks == 0 .. Top

Magnitude(n) == IF n < 0 THEN -n ELSE n

\* rounds half away from zero
Percentage(cents, part, whole) ==
    LET rounded == (2 * Magnitude(cents) * part + whole) \div (2 * whole)
    IN  IF cents < 0 THEN -rounded ELSE rounded

\* the prices of all the steps below rank
CumulativeValue(steps, rank) == MapThenSumSet(LAMBDA k : steps[k], {k \in DOMAIN steps : k < rank})

\* A position is a rank and the points made in it (of Master: up to 250).
ValueAt(steps, rank, points) ==
    CumulativeValue(steps, rank) + Percentage(steps[rank], points, 100)

\* Only Master may be missing from the list, and only a target in Master has points.
TargetValue(steps, rank, points) ==
    IF rank \in DOMAIN steps
    THEN IF rank = Top THEN ValueAt(steps, rank, points) ELSE CumulativeValue(steps, rank)
    ELSE CumulativeValue(steps, Top + 1)

\* What the climb costs before extras.
BaseSubtotal(list, request) ==
    TargetValue(list.steps[request.service], request.to, request.target)
        - ValueAt(list.steps[request.service], request.from, request.points)

Priceable(list, request) ==
    LET steps == list.steps[request.service]
    IN  /\ request.from \in DOMAIN steps
        /\ request.to \in DOMAIN steps \cup {Top}
        /\ BaseSubtotal(list, request) > 0
        /\ request.extras \subseteq DOMAIN list.extras

ExtraPrice(list, request, extra) ==
    Percentage(BaseSubtotal(list, request), list.extras[extra], 10000)

Subtotal(list, request) ==
    BaseSubtotal(list, request)
        + MapThenSumSet(LAMBDA x : ExtraPrice(list, request, x), request.extras)

\* Every service prices every rank, and every extra has a rate.
CompleteList(list) ==
    /\ \A s \in Services : DOMAIN list.steps[s] = Ranks
    /\ DOMAIN list.extras = Extras

-------------------------------------------------------------------------------
\* A coupon: the empty set allows everything, a minimum of 0 is no minimum.
Permits(allowed, x) == allowed = {} \/ x \in allowed

Eligible(coupon, client, firstPaid, request, subtotal) ==
    /\ coupon.firstOrderOnly => firstPaid
    /\ Permits(coupon.services, request.service)
    /\ Permits(coupon.queues, request.queue)
    /\ Permits(coupon.clients, client)
    /\ coupon.minSubtotal <= subtotal
    /\ coupon.maxSubtotal = 0 \/ subtotal <= coupon.maxSubtotal
    /\ coupon.minRank <= request.from
    /\ request.from <= coupon.maxRank
    /\ coupon.minExtras <= Cardinality(request.extras)
    /\ coupon.requiredExtras \subseteq request.extras

\* A definition whose name ends in X is a faulty variant of the one after it:
\* without the minimum that stays to be paid
DiscountX(coupon, subtotal) == IF coupon.percentage THEN Percentage(subtotal, coupon.discount, 100)
                               ELSE coupon.discount
Discount(coupon, subtotal) ==
    LET raw == IF coupon.percentage THEN Percentage(subtotal, coupon.discount, 100)
               ELSE coupon.discount
    IN  Min({raw, Max({0, subtotal - MinTotal})})

BoosterShare(gross) == Percentage(gross, 70, 100)
================================================================================
