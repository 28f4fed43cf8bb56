--------------------------------- MODULE Ratings ---------------------------------
(***************************************************************************)
(* The two users of a completed order rate each other once, for some days. *)
(* A rating is inserted, the mean of all those its transaction sees is     *)
(* taken, and the profile of the rated user is given it.                   *)
(***************************************************************************)
EXTENDS FiniteSets

CONSTANTS
    Deals, PartiesOf,   \* orders, and the client and the booster of each
    Scores,
    Raters              \* the handlers that may be running at the same time

ASSUME RatingsAssumption == \A d \in Deals : Cardinality(PartiesOf[d]) = 2

VARIABLES
    deals,          \* deals[d]: the order is under way, can be rated, or can no longer
    ratings,        \* the ratings committed
    reputation,     \* reputation[u]: the ratings whose mean the profile of u shows
    rating,         \* rating[r]: the rating the handler r is making
    overlooked      \* users given a mean beside another open rating of theirs

ratingVars == <<deals, ratings, reputation, rating, overlooked>>

Parties == UNION {PartiesOf[d] : d \in Deals}
RatingRows == [deal : Deals, from : Parties, to : Parties, score : Scores]
NotRating == [stage |-> "idle"]

RatingsTypeOK ==
    /\ deals \in [Deals -> {"underway", "ratable", "closed"}]
    /\ ratings \subseteq RatingRows
    /\ reputation \in [Parties -> SUBSET ratings]
    /\ rating \in [Raters -> {NotRating}
                             \cup [stage : {"checked"}, row : RatingRows]
                             \cup [stage : {"inserted"}, row : RatingRows,
                                   mean : SUBSET RatingRows, alone : BOOLEAN]]
    /\ overlooked \subseteq Parties

RatingsInit ==
    /\ deals = [d \in Deals |-> "underway"]
    /\ ratings = {} /\ reputation = [u \in Parties |-> {}]
    /\ rating = [r \in Raters |-> NotRating]
    /\ overlooked = {}

Rated(d, u) == \E x \in ratings : x.deal = d /\ x.from = u
Inserted == {r \in Raters : rating[r].stage = "inserted"}
OpenFor(u) == {r \in Inserted : rating[r].row.to = u}

\* The order is completed; RATING_WINDOW_DAYS go by.
DealAges(d) ==
    /\ deals[d] # "closed"
    /\ deals' = [deals EXCEPT ![d] = IF @ = "underway" THEN "ratable" ELSE "closed"]
    /\ UNCHANGED <<ratings, reputation, rating, overlooked>>

\* submit-rating: resolveCounterparty, assertWithinWindow, findByOrderAndRater
BeginRating(r, d, u, score) ==
    /\ rating[r] = NotRating
    /\ deals[d] = "ratable" /\ u \in PartiesOf[d] /\ ~Rated(d, u)
    /\ \E v \in PartiesOf[d] \ {u} :
        rating' = [rating EXCEPT ![r] =
                     [stage |-> "checked", row |-> [deal |-> d, from |-> u, to |-> v, score |-> score]]]
    /\ UNCHANGED <<deals, ratings, reputation, overlooked>>

\* save: the insert, which the unique index lets through once per order and rater,
\* and the mean of what the transaction sees.
MayInsert(x) == \A s \in Inserted : ~(rating[s].row.deal = x.deal /\ rating[s].row.from = x.from)

SeenX(x) == {y \in ratings : y.to = x.to}
Seen(x) == {y \in ratings \cup {x} : y.to = x.to}

InsertRating(r) ==
    LET x == rating[r].row IN
    /\ rating[r].stage = "checked" /\ ~Rated(x.deal, x.from) /\ MayInsert(x)
    /\ rating' = [s \in Raters |->
            IF s = r THEN [stage |-> "inserted", row |-> x, mean |-> Seen(x), alone |-> OpenFor(x.to) = {}]
            ELSE IF s \in OpenFor(x.to) THEN [rating[s] EXCEPT !.alone = FALSE]
            ELSE rating[s]]
    /\ UNCHANGED <<deals, ratings, reputation, overlooked>>

\* RatingAlreadySubmittedError
RejectRating(r) ==
    /\ rating[r].stage = "checked" /\ Rated(rating[r].row.deal, rating[r].row.from)
    /\ rating' = [rating EXCEPT ![r] = NotRating]
    /\ UNCHANGED <<deals, ratings, reputation, overlooked>>

CommitRating(r) ==
    LET u == rating[r].row.to IN
    /\ r \in Inserted
    /\ ratings' = ratings \cup {rating[r].row}
    /\ reputation' = [reputation EXCEPT ![u] = rating[r].mean]
    /\ overlooked' = IF rating[r].alone THEN overlooked \ {u} ELSE overlooked \cup {u}
    /\ rating' = [rating EXCEPT ![r] = NotRating]
    /\ UNCHANGED deals

RatingsNext ==
    \/ \E d \in Deals : DealAges(d)
    \/ \E r \in Raters, d \in Deals, u \in Parties, score \in Scores : BeginRating(r, d, u, score)
    \/ \E r \in Raters : InsertRating(r) \/ RejectRating(r) \/ CommitRating(r)

-------------------------------------------------------------------------------
\* No user rates an order twice, or one that was never completed; and a profile
\* shows the mean of every rating of its user, unless the last of them was made
\* beside another.  The next rating made alone repairs it.
ReputationCountsAll ==
    /\ \A x, y \in ratings : x.deal = y.deal /\ x.from = y.from => x = y
    /\ \A u \in Parties \ overlooked : reputation[u] = {x \in ratings : x.to = u}
================================================================================
