---------------------------- MODULE MCBoosterWallet ----------------------------
(* Values of the constants of BoosterWallet for the runs. *)
EXTENDS BoosterWallet, TLC

CONSTANTS o1, o2

\* Different shares, so that money that moves to the wrong order shows.
MCPay == (o1 :> 1) @@ (o2 :> 2)
MCPayOfOne == o1 :> 2

\* Orders differ by their share, and CHOOSE tells ids apart; requests are
\* interchangeable.
Symmetry == Permutations(Requests)
================================================================================
