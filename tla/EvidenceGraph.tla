--------------------------- MODULE EvidenceGraph ---------------------------
(* The evidence rows, claims and conflicts of one question, as record_page *)
(* writes them and refresh_question_relations keeps them                   *)
(* (infrastructure/db/evidence_graph_relations.py, domain/evidence_graph.py).*)
(* A claim's text is reduced to its dimension, the claims it contradicts   *)
(* and whether its type is risky; a quote to its score.                    *)
EXTENDS Integers, Sequences, FiniteSets, SequencesExt

CONSTANTS
    Claims,          \* atomic claims a page can state
    Owners,          \* owners of sources
    Dimensions,      \* acceptance dimensions of the question
    DimensionOf,     \* the dimension each claim is tagged with
    Contradictions,  \* pairs of claims infer_claim_relation calls contradictory
    RiskyTypes,      \* claims of a numeric, forecast, comparative or market type
    Independent      \* dimensions whose criterion asks for independent sources

ASSUME GraphAssumption ==
    /\ DimensionOf \in [Claims -> Dimensions]
    /\ Contradictions \subseteq SUBSET Claims
    /\ \A p \in Contradictions : Cardinality(p) = 2

Scores == {1, 2}
Item == [claim : Claims, owner : Owners, accepted : BOOLEAN, refutes : BOOLEAN, score : Scores]
ClaimStatuses == {"none", "rejected", "partial", "supported", "disputed"}

EmptyGraph ==
    [evidence |-> <<>>, status |-> [c \in Claims |-> "none"], open |-> {}, dismissed |-> {}]

------------------------------------------------------------------------------
Known(g) == {g.evidence[i].claim : i \in DOMAIN g.evidence}
Accepted(g) == {i \in DOMAIN g.evidence : g.evidence[i].accepted}
AcceptedOf(g, c) == {i \in Accepted(g) : g.evidence[i].claim = c}
OwnersOf(g, c) == {g.evidence[i].owner : i \in AcceptedOf(g, c)}
Refuted(g, c) == \E i \in AcceptedOf(g, c) : g.evidence[i].refutes

(* The accepted evidence with the highest score, the earliest of equals.   *)
Best(g, c) ==
    CHOOSE i \in AcceptedOf(g, c) : \A j \in AcceptedOf(g, c) \ {i} :
        \/ g.evidence[i].score > g.evidence[j].score
        \/ g.evidence[i].score = g.evidence[j].score /\ i < j

derive_claim_status(g, c) ==
    IF Refuted(g, c) THEN "disputed"
    ELSE IF AcceptedOf(g, c) = {} THEN "rejected"
    ELSE IF Cardinality(OwnersOf(g, c)) >= 2 THEN "supported"
    ELSE "partial"

(* Two contradictory claims conflict when the best evidence of each comes  *)
(* from a different owner.                                                 *)
InConflict(g, pair) ==
    /\ \A c \in pair : AcceptedOf(g, c) # {}
    /\ Cardinality({g.evidence[Best(g, c)].owner : c \in pair}) = 2
ConflictOf(g, pair) == {Best(g, c) : c \in pair}

(* infer_claim_relation on every pair with a touched claim.                *)
ContradictoryPairs(touched) == {p \in Contradictions : p \cap touched # {}}
ConflictingPairs_BothTouched(g, touched) ==
    {p \in Contradictions : p \subseteq touched /\ InConflict(g, p)}
ConflictingPairs(g, touched) ==
    {p \in ContradictoryPairs(touched) : InConflict(g, p)}
DisputedClaims(g, touched) == UNION ConflictingPairs(g, touched)

(* The rows the refresh may dismiss: an incremental one looks only at      *)
(* conflicts of the best evidence of the claims it was told of.            *)
DismissableIncremental(g, touched) ==
    {k \in g.open : \E c \in touched : AcceptedOf(g, c) # {} /\ Best(g, c) \in k}

Refreshed(g, touched, examined) ==
    LET desired == {ConflictOf(g, p) : p \in ConflictingPairs(g, touched)}
        disputed == DisputedClaims(g, touched)
        dropped == examined \ desired
    IN  [g EXCEPT !.open = (@ \ dropped) \union desired,
                  !.dismissed = (@ \ desired) \union dropped,
                  !.status = [c \in Claims |->
                      IF c \in disputed THEN "disputed"
                      ELSE IF c \in touched THEN derive_claim_status(g, c) ELSE @[c]]]

refresh_question_relations(g, touched) ==
    Refreshed(g, touched, DismissableIncremental(g, touched))

(* record_page: rows whose evidence_hash exists are skipped, the others are *)
(* appended, and the relations of the claims they state are refreshed.      *)
NewItems(g, items) == {e \in items : \A i \in DOMAIN g.evidence : g.evidence[i] # e}
InsertEvidence(g, items) ==
    LET fresh == NewItems(g, items)
        grown == [g EXCEPT !.evidence = @ \o SetToSeq(fresh)]
    IN  IF fresh = {} THEN g
        ELSE refresh_question_relations(grown, {e.claim : e \in fresh})

------------------------------------------------------------------------------
(* What the evaluator of finish_iteration reads from the graph.            *)
HighRisk(g, c) ==
    g.status[c] = "disputed" \/ AcceptedOf(g, c) # {} \/ c \in RiskyTypes
RequiredSources(g, d) ==
    IF d \in Independent \/ \E c \in Known(g) : DimensionOf[c] = d /\ HighRisk(g, c)
    THEN 2 ELSE 1
ClaimRequired(g, c) == IF HighRisk(g, c) \/ DimensionOf[c] \in Independent THEN 2 ELSE 1
OpenConflicts(g, c) == {k \in g.open : \E i \in k : g.evidence[i].claim = c}

(* classify_claim_risk *)
UnresolvedClaim(g, c) ==
    /\ g.status[c] # "rejected"
    /\ ~ (/\ g.status[c] = "supported" /\ OpenConflicts(g, c) = {}
          /\ Cardinality(OwnersOf(g, c)) >= ClaimRequired(g, c))

EvidenceIn(g, d) == {i \in Accepted(g) : DimensionOf[g.evidence[i].claim] = d}
OwnersIn(g, d) == {g.evidence[i].owner : i \in EvidenceIn(g, d)}
HasUnresolvedClaim(g, d) ==
    \E c \in Known(g) : DimensionOf[c] = d /\ UnresolvedClaim(g, c)
=============================================================================
