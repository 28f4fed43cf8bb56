---------------------------- MODULE PricingVersions -----------------------------
(***************************************************************************)
(* How administrators change the prices: a version is a draft, is edited   *)
(* as a whole, and is activated, which archives the one in force.  Editing *)
(* and activating both check that the version is a draft, and both check   *)
(* it before they write.                                                   *)
(*                                                                         *)
(* The unique index on the status ACTIVE is the database's: of two         *)
(* activations that would both leave their version active, the second to   *)
(* commit fails.                                                           *)
(***************************************************************************)
CONSTANTS
    Versions, FirstVersion,
    Lists, FirstList, CompleteLists, NoList,
    Admins          \* the handlers that may be running at the same time

ASSUME PricingAssumption == FirstVersion \in Versions /\ FirstList \in Lists

VARIABLES
    versions,       \* versions[v]: the row of v, with its steps and extras
    edits,          \* edits[r]: the handler r is running, and how far it has come
    contested       \* versions that one handler wrote to while another was at work on them

pricingVars == <<versions, edits, contested>>

NotCreated == [status |-> "none", list |-> NoList]
VersionRows == [status : {"draft", "active", "archived"}, list : Lists]

Resting == [stage |-> "idle"]
Editing == [stage : {"replacing"}, version : Versions, list : Lists]
           \cup [stage : {"checked", "target"}, version : Versions]
           \cup [stage : {"archiving"}, version : Versions, cleared : SUBSET Versions]

PricingTypeOK ==
    /\ versions \in [Versions -> VersionRows \cup {NotCreated}]
    /\ edits \in [Admins -> Editing \cup {Resting}]
    /\ contested \subseteq Versions

\* The migration puts a version in force, whose list it does not examine.
PricingInit ==
    /\ versions = [v \in Versions |-> IF v = FirstVersion THEN [status |-> "active", list |-> FirstList]
                                     ELSE NotCreated]
    /\ edits = [r \in Admins |-> Resting]
    /\ contested = {}

Active == {v \in Versions : versions[v].status = "active"}
ListOf(v) == versions[v].list
WorksOn(r, v) == edits[r] # Resting /\ edits[r].version = v
Contested(r, v) == contested' = contested \cup {w \in {v} : \E s \in Admins \ {r} : WorksOn(s, w)}

StartEdit(r, edit) ==
    /\ edits[r] = Resting
    /\ edits' = [edits EXCEPT ![r] = edit]
    /\ UNCHANGED <<versions, contested>>

GoOn(r, from, edit) ==
    /\ edits[r].stage = from
    /\ edits' = [edits EXCEPT ![r] = edit]
    /\ UNCHANGED <<versions, contested>>

EndEdit(r) == edits' = [edits EXCEPT ![r] = Resting]

-------------------------------------------------------------------------------
CreateDraft(v, list) ==
    /\ versions[v] = NotCreated
    /\ versions' = [versions EXCEPT ![v] = [status |-> "draft", list |-> list]]
    /\ UNCHANGED <<edits, contested>>

\* A definition whose name ends in X is a faulty variant of the one after it.
\* without the check
BeginReplaceX(r, v, list) ==
    /\ versions[v] # NotCreated
    /\ StartEdit(r, [stage |-> "replacing", version |-> v, list |-> list])
BeginReplace(r, v, list) ==
    /\ versions[v].status = "draft"
    /\ StartEdit(r, [stage |-> "replacing", version |-> v, list |-> list])

\* by id, whatever the status is by now
CommitReplace(r) ==
    /\ edits[r].stage = "replacing"
    /\ versions' = [versions EXCEPT ![edits[r].version].list = edits[r].list]
    /\ Contested(r, edits[r].version)
    /\ EndEdit(r)

BeginActivate(r, v) ==
    /\ versions[v] # NotCreated
    /\ ListOf(v) \in CompleteLists
    /\ StartEdit(r, [stage |-> "checked", version |-> v])

ReadTarget(r) ==
    /\ edits[r].stage = "checked"
    /\ versions[edits[r].version].status = "draft"
    /\ GoOn(r, "checked", [stage |-> "target", version |-> edits[r].version])

Archiving(v) == \E s \in Admins : edits[s].stage = "archiving" /\ v \in edits[s].cleared

\* The statement waits for a row that another transaction is archiving, and then
\* leaves it alone.
ArchiveActive(r) ==
    /\ edits[r].stage = "target"
    /\ GoOn(r, "target", [stage |-> "archiving", version |-> edits[r].version,
                          cleared |-> {v \in Active : ~Archiving(v)}])

\* without the index
CommitActivateX(r) ==
    LET v == edits[r].version IN
    /\ edits[r].stage = "archiving"
    /\ versions' = [w \in Versions |->
            IF w = v THEN [versions[v] EXCEPT !.status = "active"]
            ELSE IF w \in edits[r].cleared THEN [versions[w] EXCEPT !.status = "archived"]
            ELSE versions[w]]
    /\ Contested(r, v)
    /\ EndEdit(r)
CommitActivate(r) ==
    LET v == edits[r].version IN
    /\ edits[r].stage = "archiving"
    /\ Active \subseteq edits[r].cleared \cup {v}
    /\ versions' = [w \in Versions |->
            IF w = v THEN [versions[v] EXCEPT !.status = "active"]
            ELSE IF w \in edits[r].cleared THEN [versions[w] EXCEPT !.status = "archived"]
            ELSE versions[w]]
    /\ Contested(r, v)
    /\ EndEdit(r)

\* A check failed, the index refused the row, or the process died.
AbandonEdit(r) ==
    /\ edits[r] # Resting
    /\ EndEdit(r)
    /\ UNCHANGED <<versions, contested>>

PricingNext ==
    \/ \E v \in Versions, list \in Lists : CreateDraft(v, list)
    \/ \E r \in Admins :
        \/ CommitReplace(r) \/ ReadTarget(r) \/ ArchiveActive(r) \/ CommitActivate(r)
        \/ AbandonEdit(r)
        \/ \E v \in Versions :
            \/ BeginActivate(r, v)
            \/ \E list \in Lists : BeginReplace(r, v, list)

PricingSpec == PricingInit /\ [][PricingNext]_pricingVars

-------------------------------------------------------------------------------
(* However administrators interleave, prices are calculated from one       *)
(* version, and there always is one: the archiving and the activation of   *)
(* one transaction are never seen apart, and findActive never finds two.   *)
OneActiveVersion == \E v \in Versions : Active = {v}

InForce == CHOOSE v \in Active : TRUE
Published == [v \in Versions |-> IF versions[v].status \in {"active", "archived"}
                                 THEN ListOf(v) ELSE NoList]
Abstract == INSTANCE PriceList WITH inForce <- InForce, published <- Published

\* A step that PriceList does not know does no harm beyond v.
NoHarmBeyond(v) ==
    /\ InForce' \in {InForce, v}
    /\ \A w \in Versions \ {v} : Published'[w] = Published[w]

(* A version that was once in force keeps its list and, once superseded,   *)
(* never comes back, and only complete lists come into force: every step   *)
(* is one of PriceList.  Where a handler wrote to a version while another  *)
(* was at work on it (replaceDraft and activate check the status before    *)
(* they write), that version may break these promises, for ever after, but *)
(* no other does.                                                          *)
ImplementsPriceList ==
    /\ Abstract!PriceListInit
    /\ [][Abstract!PriceListNext \/ \E v \in contested' : NoHarmBeyond(v)]_<<InForce, Published>>
================================================================================
