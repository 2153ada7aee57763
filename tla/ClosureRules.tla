---------------------------- MODULE ClosureRules ----------------------------
(* The pure rules between accepted evidence and the next query: when a gap *)
(* requirement is satisfied, how a batch of evidence moves it, what        *)
(* feedback an unsatisfied one gets, and which feedback leads to a query   *)
(* (the domain modules from gap_closure.py to query_execution.py).         *)
EXTENDS Integers, FiniteSets

RequirementTypes ==
    {"independent_source", "claim_verification", "evidence_quality", "dimension_coverage"}
SourceCounted == {"independent_source", "claim_verification"}
Verifications == {"not_evaluated", "required", "verified"}
ClosureStatuses == {"open", "partial", "closed"}
RequiredEvidence == 1       \* required_evidence_count of every requirement
FullCoverage == 2           \* coverage in halves

(* transition_reason of a stored requirement, and ClosureFeedbackReason.   *)
RowReasons ==
    {"runtime_evidence_alignment", "evaluator_projection", "requirement_satisfied",
     "progress_without_closure", "requirement_not_satisfied", "missing_independent_source",
     "claim_verification_required"}
FeedbackReasons ==
    {"missing_independent_source", "claim_not_verified", "insufficient_evidence",
     "evidence_quality_low", "dimension_mismatch", "no_valid_path", "unknown"}

Row == [type : RequirementTypes, required : 1..2, count : Nat, owners : Nat,
        coverage : 0..2, verification : Verifications, status : ClosureStatuses,
        reason : RowReasons, version : Nat]
NoRow == [status |-> "absent"]

rank(status) == CASE status = "open" -> 0 [] status = "partial" -> 1 [] status = "closed" -> 2

(* ClosureSnapshot *)
SnapshotOf(row) ==
    [coverage |-> row.coverage, count |-> row.count, owners |-> row.owners,
     verification |-> row.verification]
NoSnapshot == [coverage |-> 0, count |-> 0, owners |-> 0, verification |-> "not_evaluated"]

requirement_is_satisfied(row, snap) ==
    CASE row.type = "dimension_coverage" -> snap.coverage >= FullCoverage
      [] row.type \in SourceCounted -> snap.owners >= row.required
      [] row.type = "evidence_quality" ->
            snap.count >= RequiredEvidence /\ snap.verification = "verified"

has_progress(before, after) ==
    \/ after.coverage > before.coverage
    \/ after.count > before.count
    \/ after.owners > before.owners
    \/ after.verification # before.verification

(* ClosureEvaluation.evaluate *)
ClosureEvaluation(row, before, after) ==
    IF requirement_is_satisfied(row, after)
    THEN [status |-> "closed", reason |-> "requirement_satisfied"]
    ELSE IF has_progress(before, after)
    THEN [status |-> "partial", reason |-> "progress_without_closure"]
    ELSE [status |-> "open", reason |-> "requirement_not_satisfied"]

------------------------------------------------------------------------------
(* EvidenceAlignment.evaluate, of evidence tagged with the row's dimension. *)
(* The live path passes no claim verification, so evidence_quality never   *)
(* aligns fully.                                                           *)
AlignmentStatus(row, accepted, owners) ==
    IF ~accepted THEN "not_aligned"
    ELSE IF \/ row.type \in SourceCounted /\ owners < row.required
            \/ row.type = "evidence_quality" THEN "partial"
    ELSE "aligned"

RejectionReason(row, accepted, owners) ==
    IF ~accepted THEN "insufficient_quality"
    ELSE IF row.type \in SourceCounted /\ owners < row.required
    THEN IF row.type = "claim_verification"
         THEN "claim_verification_required" ELSE "missing_independent_source"
    ELSE IF row.type = "evidence_quality" THEN "requirement_not_satisfied"
    ELSE "-"

(* ClosureEvaluator._after_snapshot: useful is the number of aligned and   *)
(* partial items of the batch.                                             *)
AfterSnapshot(row, before, useful, owners) ==
    [coverage |-> before.coverage, count |-> before.count + useful, owners |-> owners,
     verification |->
        IF row.type = "claim_verification"
        THEN IF owners >= row.required THEN "verified" ELSE "required"
        ELSE before.verification]

TransitionReason(reasons, fallback) ==
    IF "missing_independent_source" \in reasons THEN "missing_independent_source"
    ELSE IF "claim_verification_required" \in reasons THEN "claim_verification_required"
    ELSE fallback

(* GapRequirement.apply_closure_transition *)
apply_closure_transition(row, status, reason) ==
    IF status = row.status THEN row
    ELSE [row EXCEPT !.status = status, !.reason = reason, !.version = @ + 1]

(* ClosureEvaluator.evaluate on a row that is not closed: the requirement  *)
(* it leaves, the reason it gives and how much of the batch was of use.    *)
ClosureEvaluator(row, batch, owners) ==
    LET before == SnapshotOf(row)
        useful == Cardinality({e \in batch : AlignmentStatus(row, e.accepted, owners) # "not_aligned"})
        raw == ClosureEvaluation(row, before, AfterSnapshot(row, before, useful, owners))
        reason == TransitionReason({RejectionReason(row, e.accepted, owners) : e \in batch},
                                   raw.reason)
        kept == rank(raw.status) < rank(row.status)
        verdict == IF kept THEN "existing_closure_state_preserved" ELSE reason
    IN  [row |-> apply_closure_transition(row, IF kept THEN row.status ELSE raw.status, verdict),
         reason |-> verdict, useful |-> useful]

(* GapRequirementRepository.upsert_many over an existing row.              *)
Changed(old, new) == [old EXCEPT !.version = 0] # [new EXCEPT !.version = 0]
Larger(a, b) == IF a >= b THEN a ELSE b
upsert(old, new) ==
    IF old = NoRow THEN new
    ELSE IF Changed(old, new)
    THEN [new EXCEPT !.version = Larger(new.version, old.version + 1)]
    ELSE old

------------------------------------------------------------------------------
(* ClosureFeedbackGenerator._feedback_reason *)
FeedbackReason(reason, useful) ==
    CASE reason = "missing_independent_source" -> "missing_independent_source"
      [] reason = "claim_verification_required" -> "claim_not_verified"
      [] reason = "requirement_not_satisfied" ->
            IF useful = 0 THEN "no_valid_path" ELSE "insufficient_evidence"
      [] reason = "progress_without_closure" -> "insufficient_evidence"
      [] OTHER -> "unknown"

(* derive_feedback_reason of the completeness pass and the finalizer,      *)
(* which know no alignment.                                                *)
derive_feedback_reason(row) ==
    IF row.count < RequiredEvidence THEN "insufficient_evidence"
    ELSE IF row.owners < row.required THEN "missing_independent_source"
    ELSE IF row.type = "claim_verification" /\ row.verification # "verified" THEN "claim_not_verified"
    ELSE IF row.type = "evidence_quality" THEN "evidence_quality_low"
    ELSE "no_valid_path"

need_type_for_reason(reason) ==
    CASE reason = "missing_independent_source" -> "independent_source"
      [] reason = "claim_not_verified" -> "claim_verification"
      [] reason \in {"insufficient_evidence", "evidence_quality_low"} -> "evidence_quality"
      [] reason = "dimension_mismatch" -> "dimension_coverage"
      [] reason = "no_valid_path" -> "additional_source"
      [] reason = "unknown" -> "unknown"

action_type_for_need(need) ==
    CASE need = "independent_source" -> "find_independent_source"
      [] need = "claim_verification" -> "verify_claim"
      [] need = "evidence_quality" -> "improve_evidence_quality"
      [] need = "dimension_coverage" -> "expand_dimension_coverage"
      [] need = "additional_source" -> "find_additional_source"
      [] need = "unknown" -> "unknown"

(* Every action but one gives its name to the intent.                      *)
intent_type_for_action(action) ==
    IF action = "expand_dimension_coverage" THEN "cover_dimension" ELSE action

strategy_for_intent(intent) ==
    CASE intent = "find_independent_source" -> "independent_source_discovery"
      [] intent = "verify_claim" -> "claim_validation"
      [] intent = "improve_evidence_quality" -> "evidence_upgrade"
      [] intent = "cover_dimension" -> "dimension_completion"
      [] intent = "find_additional_source" -> "additional_source_discovery"
      [] intent = "unknown" -> "unknown"

StrategyFor(reason) ==
    strategy_for_intent(intent_type_for_action(action_type_for_need(need_type_for_reason(reason))))

(* QueryPlanValidator: only the strategy made for the type is VALID.       *)
PlanValid(type, strategy) ==
    strategy = CASE type = "independent_source" -> "independent_source_discovery"
                 [] type = "claim_verification" -> "claim_validation"
                 [] type = "evidence_quality" -> "evidence_upgrade"
                 [] type = "dimension_coverage" -> "dimension_completion"

(* What the text of a candidate and the sources of its plan are about.     *)
CandidateTerms(strategy) ==
    CASE strategy = "independent_source_discovery" ->
            {"report", "official", "statistics", "third party", "analysis"}
      [] strategy = "claim_validation" ->
            {"claim", "official", "documentation", "technical", "report", "verification"}
      [] strategy = "evidence_upgrade" -> {"primary", "official", "report", "authoritative"}
      [] OTHER -> {}
SourceTypes(strategy) ==
    CASE strategy = "independent_source_discovery" ->
            {"government", "research_institution", "industry_report"}
      [] strategy = "claim_validation" -> {"official", "technical_document", "research_institution"}
      [] strategy = "evidence_upgrade" ->
            {"primary_source", "official_documentation", "authoritative_report"}
      [] OTHER -> {}

(* QueryCandidateValidator._evaluate_candidate *)
CandidateValid(type, terms, sources) ==
    CASE type = "independent_source" ->
            /\ sources \cap {"government", "research_institution", "industry_report",
                             "independent_analysis"} # {}
            /\ terms \cap {"industry", "report", "statistics", "third party", "analysis"} # {}
      [] type = "claim_verification" ->
            /\ sources \cap {"official", "technical_document", "research_institution"} # {}
            /\ terms \cap {"claim", "verification", "official", "documentation", "technical"} # {}
      [] type = "evidence_quality" -> terms \cap {"primary", "official", "authoritative"} # {}
      [] OTHER -> FALSE

(* QueryExecutionAdapter.create_request: a query is handed over when plan  *)
(* and candidate are valid for a gap that is not closed.                   *)
RequestReady(row, reason) ==
    LET strategy == StrategyFor(reason)
    IN  /\ row.status # "closed"
        /\ PlanValid(row.type, strategy)
        /\ CandidateValid(row.type, CandidateTerms(strategy), SourceTypes(strategy))
=============================================================================
