----------------------------- MODULE BoosterAccount ----------------------------
(***************************************************************************)
(* What a booster's wallet promises: every completed order is paid once,   *)
(* first locked, then released; and no more is ever paid out than has been *)
(* released.  It is the abstract specification of BoosterWallet, whose     *)
(* balances, ledger and release jobs have to keep this promise together.   *)
(***************************************************************************)
EXTENDS Integers, FiniteSetsExt

CONSTANTS
    Orders,
    Pay         \* Pay[o]: the booster's share of order o, in cents

VARIABLES
    earnings,   \* earnings[o]: has o been paid, and can the pay be withdrawn?
    paidOut     \* the sum of all withdrawals

accountVars == <<earnings, paidOut>>

Earned(state) == MapThenSumSet(LAMBDA o : Pay[o], {o \in Orders : earnings[o] = state})

AccountInit == earnings = [o \in Orders |-> "none"] /\ paidOut = 0

Earn(o) ==
    /\ earnings[o] = "none"
    /\ earnings' = [earnings EXCEPT ![o] = "locked"]
    /\ UNCHANGED paidOut

Release(o) ==
    /\ earnings[o] = "locked"
    /\ earnings' = [earnings EXCEPT ![o] = "released"]
    /\ UNCHANGED paidOut

PayOut ==
    /\ \E cents \in 1 .. (Earned("released") - paidOut) : paidOut' = paidOut + cents
    /\ UNCHANGED earnings

AccountSpec ==
    AccountInit /\ [][PayOut \/ \E o \in Orders : Earn(o) \/ Release(o)]_accountVars
================================================================================
