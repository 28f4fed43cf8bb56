------------------------------- MODULE MCCheckout -------------------------------
(* Values of the constants of Checkout for the runs. *)
EXTENDS Checkout, TLC

CONSTANTS v1, v2, k1, k2, x1

\* Two ranks below Master.
MCList(price) == [steps |-> [s \in {"elo_boost"} |-> [r \in 0 .. Top |-> price]],
                  extras |-> [x \in {x1} |-> 2500]]
MCFirstList == [MCList(101) EXCEPT !.steps = [s \in {"elo_boost"} |-> [r \in 0 .. Top - 1 |-> 101]]]
MCComplete == {MCList(200)}
MCLists == {MCFirstList} \cup MCComplete

MCRequests == {[service |-> "elo_boost", from |-> 0, points |-> 50, to |-> 2, target |-> 30,
                queue |-> "solo", extras |-> {x1}]}

\* k1 makes a first order almost free, k2 takes a cent off any one order.
MCConditions == [k \in {k1, k2} |->
    [firstOrderOnly |-> k = k1, services |-> {"elo_boost"}, queues |-> {}, clients |-> {},
     minSubtotal |-> 0, maxSubtotal |-> 0, minRank |-> 0, maxRank |-> Top, minExtras |-> 1,
     requiredExtras |-> {x1}, percentage |-> k = k1,
     discount |-> IF k = k1 THEN 100 ELSE 1]]
MCLimit == [k \in {k1, k2} |-> 1]

\* The prices change at most once, from the one list to the other, around one order;
\* the two coupons are not both in use, and where the first of them is in use or
\* the prices change no more than one checkout is opened at Mercado Pago; orders with
\* the second are made before they are paid for.
Uses(k) ==
    \/ \E q \in Quotes : There(quotes[q]) /\ quotes[q].terms.coupon = k
    \/ \E h \in Handlers : At(h, "quoting") /\ work[h].terms.coupon = k
Changed == published[v2] # NoList
FewAtATime ==
    /\ Changed => ~Uses(k2) /\ \E o \in Orders : orders[o] = Absent
    /\ ~(Uses(k1) /\ Uses(k2))
    /\ Changed \/ Uses(k1) => Cardinality(asked) <= 1
    /\ Uses(k2) => Cardinality(asked) <= Cardinality({o \in Orders : orders[o] # Absent})

\* Nothing depends on the names of rows and handlers.
Symmetry == Permutations(Quotes) \cup Permutations(Orders) \cup Permutations(Payments)
            \cup Permutations(Handlers)
================================================================================
