---------------------------- MODULE RequestThrottle ----------------------------
(***************************************************************************)
(* The limits on requests: one window per caller, kept in the memory of    *)
(* the API and compared with the clock, never by a timer.  Windows that    *)
(* have run out are dropped only when the map has grown, all at once.      *)
(*                                                                         *)
(* A caller is a user or an address; the guard blocks for as long as a     *)
(* window lasts.  The branch of resolveWindow that resets a window in      *)
(* place can never be taken (its condition is the negation of the one      *)
(* around it) and has no counterpart here.                                 *)
(***************************************************************************)
EXTENDS Naturals, Sequences, FiniteSets

CONSTANTS
    Callers,
    HitLimit, Ttl,      \* the limit of a route, and the length of its window
    PruneThreshold,     \* PRUNE_THRESHOLD
    Horizon,            \* bound: the time
    MaxHits             \* bound: the requests of one caller

ASSUME ThrottleAssumption ==
    /\ IsFiniteSet(Callers)
    /\ HitLimit \in Nat /\ Ttl \in Nat \ {0} /\ PruneThreshold \in Nat
    /\ Horizon \in Nat \ {0} /\ MaxHits \in Nat

VARIABLES
    now,
    windows,        \* windows[c]: the window of c, if the map holds one
    hits            \* hits[c]: the requests of c so far, and what became of them

throttleVars == <<now, windows, hits>>

NoWindow == [total |-> 0, expires |-> 0, blocked |-> 0]
Stored == {c \in Callers : windows[c] # NoWindow}

ThrottleTypeOK ==
    /\ now \in 1..Horizon
    /\ windows \in [Callers -> [total : Nat, expires : Nat, blocked : Nat]]
    /\ \A c \in Callers : \A i \in DOMAIN hits[c] :
        hits[c][i] \in [at : 1..Horizon, result : {"let", "over", "blocked"}]

ThrottleInit ==
    /\ now = 1
    /\ windows = [c \in Callers |-> NoWindow]
    /\ hits = [c \in Callers |-> <<>>]

Blocked(w) == w.blocked > now
RunOut(w) == w.expires <= now /\ ~Blocked(w)

\* prune: it sweeps the map when a new window is needed and the map is large.
Swept == [c \in Callers |->
            IF Cardinality(Stored) >= PruneThreshold /\ RunOut(windows[c]) THEN NoWindow ELSE windows[c]]

Fresh == [total |-> 0, expires |-> now + Ttl, blocked |-> 0]

\* increment: a request within a block is not counted.
Increment(c) ==
    LET found == windows[c].expires > now \/ Blocked(windows[c])
        w == IF found THEN windows[c] ELSE Fresh
        counted == IF Blocked(w) THEN w
                   ELSE [w EXCEPT !.total = @ + 1,
                                  !.blocked = IF w.total + 1 > HitLimit THEN now + Ttl ELSE @]
        result == IF Blocked(w) THEN "blocked" ELSE IF Blocked(counted) THEN "over" ELSE "let" IN
    /\ Len(hits[c]) < MaxHits
    /\ windows' = [(IF found THEN windows ELSE Swept) EXCEPT ![c] = counted]
    /\ hits' = [hits EXCEPT ![c] = Append(@, [at |-> now, result |-> result])]
    /\ UNCHANGED now

TimePasses ==
    /\ now < Horizon
    /\ now' = now + 1
    /\ UNCHANGED <<windows, hits>>

ThrottleNext == TimePasses \/ \E c \in Callers : Increment(c)

-------------------------------------------------------------------------------
Of(c, result) == {i \in DOMAIN hits[c] : hits[c][i].result = result}
At(c, i) == hits[c][i].at

(* Callers cannot affect each other, and the limit holds across windows: a *)
(* caller over the limit has itself made that many requests within Ttl,    *)
(* is let through again after Ttl and not before, whoever else makes the   *)
(* map be swept meanwhile, is turned away for no other reason, and never   *)
(* gets more than two windows' worth of requests through within Ttl.       *)
CallersAreApart ==
    \A c \in Callers :
        /\ \A i \in Of(c, "over") :
            /\ Cardinality({j \in 1..i : At(c, j) + Ttl > At(c, i)}) > HitLimit
            /\ \A j \in Of(c, "let") : j > i => At(c, j) >= At(c, i) + Ttl
        /\ \A i \in Of(c, "blocked") :
            \E j \in Of(c, "over") : j < i /\ At(c, i) < At(c, j) + Ttl
        /\ \A t \in 1..Horizon :
            Cardinality({i \in Of(c, "let") : At(c, i) \in t..(t + Ttl - 1)}) <= 2 * HitLimit
================================================================================
