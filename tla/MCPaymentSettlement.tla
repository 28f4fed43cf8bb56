-------------------------- MODULE MCPaymentSettlement --------------------------
(* Values of the constants of PaymentSettlement for the runs. *)
EXTENDS PaymentSettlement, TLC

\* Handlers and attempts have no names that matter.
Symmetry == Permutations(Requests) \cup Permutations(Resources)
================================================================================
