--------------------------- MODULE MCOrderLifecycle ----------------------------
(* Instances of OrderLifecycle for TLC. *)
EXTENDS OrderLifecycle, TLC

\* Handlers are alike, and so are boosters.
Symmetry == Permutations(Requests) \cup Permutations(Boosters)
================================================================================
