------------------------------- MODULE PriceList --------------------------------
(***************************************************************************)
(* What the pricing versions promise to whoever quotes a price: a version  *)
(* that has been in force keeps its list for ever, only complete lists     *)
(* come into force, and a version that was superseded stays so.  The first *)
(* version is of the migration that created the tables; its list prices no *)
(* rank of Master.  PriceList is the abstract specification of             *)
(* PricingVersions, and all that Checkout knows of the prices.             *)
(***************************************************************************)
CONSTANTS
    Versions,
    FirstVersion,   \* the version of the migration
    Lists,
    FirstList,      \* its list
    CompleteLists,  \* those that price every rank of every service and every extra
    NoList          \* the version has not been in force

ASSUME PriceListAssumption ==
    /\ FirstVersion \in Versions
    /\ FirstList \in Lists
    /\ NoList \notin Lists
    /\ CompleteLists \subseteq Lists

VARIABLES
    inForce,        \* the version that prices are calculated from
    published       \* published[v]: the list of v, once v has been in force

priceListVars == <<inForce, published>>

PriceListInit ==
    /\ inForce = FirstVersion
    /\ published = [v \in Versions |-> IF v = FirstVersion THEN FirstList ELSE NoList]

Publish(v, list) ==
    /\ published[v] = NoList
    /\ inForce' = v
    /\ published' = [published EXCEPT ![v] = list]

PriceListNext == \E v \in Versions, list \in CompleteLists : Publish(v, list)
PriceListSpec == PriceListInit /\ [][PriceListNext]_priceListVars
================================================================================
