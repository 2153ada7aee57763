---------------------------- MODULE GapFeedback ----------------------------
(* The gap requirements of one question from page to report: record_page   *)
(* aligns new evidence with them and evaluates their closure, unsatisfied  *)
(* ones get closure feedback, feedback is dispatched into at most two extra *)
(* queries that the scheduler consumes, finish_iteration projects every    *)
(* requirement again from the facts, and the finalizer explains what is    *)
(* left when writing starts (infrastructure/db/research_tools.py,          *)
(* gap_requirements.py and the domain's closure modules).                  *)
(*                                                                         *)
(* A row's state_version only tells its states apart and grows with every  *)
(* change, so the projection's jump to the run's version is one step here. *)
(* Gap ids contain the plan version: rows, feedback and ids of a plan that *)
(* was replaced are never looked at again, and a replan forgets them.      *)
EXTENDS EvidenceGraph, ClosureRules

CONSTANTS
    Findings,        \* evidence items the extractor can return
    MaxPages,        \* pages of the run
    MaxItems,        \* evidence items of one page
    MaxIterations,   \* finished research attempts
    MaxReplans,      \* _MAX_REPLANS
    MaxExecutions,   \* feedback queries of one run: 2 in the code
    MaxCrashes       \* executions that die between two commits

ASSUME GapAssumption ==
    /\ Findings \subseteq Item /\ IsFiniteSet(Dimensions)
    /\ MaxPages \in Nat /\ MaxIterations \in Nat /\ MaxReplans \in Nat
    /\ MaxExecutions \in Nat /\ MaxCrashes \in Nat

VARIABLES
    graph,       \* evidence rows, claim statuses and conflicts
    rows,        \* gap_requirements of the current plan
    fed,         \* dimensions with a closure.feedback.generated event
    dispatched,  \* usage_snapshot.dispatched_feedback_ids
    executions,  \* feedback.query.execution.started events
    consumed,    \* how many of them have a consumed event
    refused,     \* feedback.query.execution.blocked events
    run          \* phase of the run, stop reason and what was used up

vars == <<graph, rows, fed, dispatched, executions, consumed, refused, run>>
graphVars == <<graph, rows>>
feedback == <<fed, dispatched, executions, refused>>

TerminalReasons == {"search_budget_exhausted", "source_space_exhausted"}
StopReasons == TerminalReasons \union {"quality_met", "stagnation"}
FeedbackIds ==
    [kind : {"closure", "completeness"}, gap : Dimensions, version : Nat, reason : FeedbackReasons]

TypeOK ==
    /\ graph.evidence \in Seq(Item) /\ graph.status \in [Claims -> ClaimStatuses]
    /\ graph.open \cap graph.dismissed = {}
    /\ \A k \in graph.open \union graph.dismissed : k \subseteq DOMAIN graph.evidence
    /\ rows \in [Dimensions -> Row \union {NoRow}]
    /\ fed \subseteq Dimensions /\ dispatched \subseteq FeedbackIds
    /\ executions \in Seq([gap : Dimensions, plan : 1..(MaxReplans + 1)])
    /\ Len(executions) <= MaxExecutions /\ consumed \in 0..Len(executions) /\ refused \in Nat
    /\ run \in [phase : {"schedule", "research", "replan", "writing"}, stop : StopReasons \union {"-"},
                plan : 1..(MaxReplans + 1), pages : 0..MaxPages, iterations : 0..MaxIterations,
                crashes : 0..MaxCrashes]

Init ==
    /\ graph = EmptyGraph
    /\ rows = [d \in Dimensions |-> NoRow]
    /\ fed = {} /\ dispatched = {} /\ executions = <<>> /\ consumed = 0 /\ refused = 0
    /\ run = [phase |-> "schedule", stop |-> "-", plan |-> 1, pages |-> 0, iterations |-> 0,
              crashes |-> 0]

ClosedRows(rs) == {d \in Dimensions : rs[d].status = "closed"}

------------------------------------------------------------------------------
(* Feedback and its dispatch.  The feedback side of the state travels as a *)
(* record through the steps below.                                         *)
Box == [fed |-> fed, dispatched |-> dispatched, executions |-> executions, refused |-> refused]
Unbox(b) ==
    /\ fed' = b.fed /\ dispatched' = b.dispatched
    /\ executions' = b.executions /\ refused' = b.refused

Feedback(kind, d, version, reason) ==
    [kind |-> kind, gap |-> d, version |-> version, reason |-> reason]

(* _dispatch_closure_feedback with ClosureFeedbackDispatcher.dispatch: the *)
(* event is appended whatever becomes of it, an id is dispatched once, and *)
(* a request is started while the run has feedback queries left.           *)
Dispatched(b, id, row) ==
    LET told == [b EXCEPT !.fed = @ \union {id.gap}]
        sent == [told EXCEPT !.dispatched = @ \union {id}]
    IN  IF row.status = "closed" \/ id \in b.dispatched THEN told
        ELSE IF ~RequestReady(row, id.reason) THEN sent
        ELSE IF Len(b.executions) >= MaxExecutions THEN [sent EXCEPT !.refused = @ + 1]
        ELSE [sent EXCEPT !.executions = Append(@, [gap |-> id.gap, plan |-> run.plan])]

DispatchAll(b, ids, rs) ==
    LET after[i \in 0..Len(ids)] ==
            IF i = 0 THEN b ELSE Dispatched(after[i - 1], ids[i], rs[ids[i].gap])
    IN  after[Len(ids)]

CompletenessFeedback_Again(rs, told) ==
    SetToSeq({Feedback("completeness", d, rs[d].version, derive_feedback_reason(rs[d])) :
              d \in {x \in Dimensions : rs[x].status \in {"open", "partial"}}})

(* generate_completeness_feedback for the rows nothing was said about.     *)
CompletenessFeedback(rs, told) ==
    LET silent == {d \in Dimensions : rs[d].status \in {"open", "partial"} /\ d \notin told}
    IN  SetToSeq({Feedback("completeness", d, rs[d].version, derive_feedback_reason(rs[d])) :
                  d \in silent})

------------------------------------------------------------------------------
(* record_page and _align_and_evaluate_evidence.                           *)
(* _runtime_gap_requirement *)
FallbackRow(d) ==
    [type |-> IF d \in Independent THEN "independent_source" ELSE "evidence_quality",
     required |-> IF d \in Independent THEN 2 ELSE 1, count |-> 0, owners |-> 0, coverage |-> 0,
     verification |-> "required", status |-> "open", reason |-> "runtime_evidence_alignment",
     version |-> 1]

WithFallbacks == [d \in Dimensions |-> IF rows[d] = NoRow THEN FallbackRow(d) ELSE rows[d]]

(* The row as the evaluation of a batch starts from it: counts are those   *)
(* without the batch, a stale row gets the next version.                   *)
BaseRow(row, before) ==
    [row EXCEPT !.count = before.count, !.owners = before.owners,
                !.version = IF row.count # before.count \/ row.owners # before.owners
                            THEN @ + 1 ELSE @]

CountsOf(g, d) ==
    [count |-> Cardinality(EvidenceIn(g, d)), owners |-> Cardinality(OwnersIn(g, d))]

Evaluated_CountsBatch(d, fresh, after) ==
    LET facts == CountsOf(after, d)
        batch == {e \in fresh : DimensionOf[e.claim] = d}
        verdict == ClosureEvaluator(BaseRow(WithFallbacks[d], CountsOf(graph, d)), batch, facts.owners)
    IN  [verdict |-> verdict,
         row |-> upsert(WithFallbacks[d],
                        [verdict.row EXCEPT !.count = @ + Cardinality(batch), !.owners = facts.owners])]

Evaluated(d, fresh, after) ==
    LET facts == CountsOf(after, d)
        verdict == ClosureEvaluator(BaseRow(WithFallbacks[d], CountsOf(graph, d)),
                                    {e \in fresh : DimensionOf[e.claim] = d}, facts.owners)
    IN  [verdict |-> verdict,
         row |-> upsert(WithFallbacks[d],
                        [verdict.row EXCEPT !.count = facts.count, !.owners = facts.owners])]

(* Dimensions the page speaks to whose row is not closed: a closed one is  *)
(* left alone, counts included.                                            *)
Touched(fresh) ==
    {d \in Dimensions : WithFallbacks[d].status # "closed"
                        /\ \E e \in fresh : DimensionOf[e.claim] = d}

(* ClosureFeedbackGenerator.generate, against the requirement the          *)
(* evaluation left.                                                        *)
EvaluationFeedback(results, d) ==
    Feedback("closure", d, results[d].verdict.row.version,
             FeedbackReason(results[d].verdict.reason, results[d].verdict.useful))

(* Up to two items of one owner on a page.                                 *)
Pages == {s \in {{e, f} : e, f \in Findings} :
             /\ Cardinality(s) <= MaxItems
             /\ \A e, f \in s : e.owner = f.owner /\ (e.claim = f.claim => e = f)}

RecordPage ==
    \E items \in Pages :
    LET fresh == NewItems(graph, items)
        after == InsertEvidence(graph, items)
        dims == Touched(fresh)
        results == [d \in dims |-> Evaluated(d, fresh, after)]
        left == [d \in Dimensions |-> IF d \in dims THEN results[d].row ELSE WithFallbacks[d]]
        \* the chain is handed the evaluated requirement, not the stored row
        seen == [d \in Dimensions |-> IF d \in dims THEN results[d].verdict.row ELSE left[d]]
        unmet == SetToSeq({EvaluationFeedback(results, d) : d \in dims \ ClosedRows(left)})
        b1 == DispatchAll(Box, unmet, seen)
        b2 == DispatchAll(b1, CompletenessFeedback(left, b1.fed), left)
    IN  /\ run.phase = "research" /\ run.pages < MaxPages
        /\ run' = [run EXCEPT !.pages = @ + 1]
        /\ graph' = after
        /\ IF fresh = {} THEN UNCHANGED <<rows, feedback>>
           ELSE rows' = left /\ Unbox(b2)
        /\ UNCHANGED consumed

------------------------------------------------------------------------------
(* finish_iteration: project_gap_requirements over the coverage map, then  *)
(* an unconditional upsert.                                                *)
ProjectedType(d) ==
    IF HasUnresolvedClaim(graph, d) THEN "claim_verification"
    ELSE IF RequiredSources(graph, d) > 1 THEN "independent_source"
    ELSE "evidence_quality"
ProjectedCoverage(d) ==
    LET facts == CountsOf(graph, d)
    IN  IF facts.count = 0 THEN 0 ELSE IF facts.owners >= RequiredSources(graph, d) THEN 2 ELSE 1
Projected_StuckOnFlag(d) ==
    LET facts == CountsOf(graph, d)
        done == ~HasUnresolvedClaim(graph, d) /\ ProjectedCoverage(d) = 2
    IN  [type |-> ProjectedType(d), required |-> RequiredSources(graph, d),
         count |-> facts.count, owners |-> facts.owners, coverage |-> ProjectedCoverage(d),
         verification |-> IF done THEN "verified" ELSE "required",
         status |-> IF done THEN "closed" ELSE "partial",
         reason |-> "evaluator_projection", version |-> 1]

Projected(d) ==
    LET facts == CountsOf(graph, d)
        open == [type |-> ProjectedType(d), required |-> RequiredSources(graph, d),
                 count |-> facts.count, owners |-> facts.owners, coverage |-> ProjectedCoverage(d),
                 verification |-> IF ~HasUnresolvedClaim(graph, d) /\ ProjectedCoverage(d) = 2
                                  THEN "verified" ELSE "required",
                 status |-> "open", reason |-> "evaluator_projection", version |-> 1]
    IN  [open EXCEPT !.status = ClosureEvaluation(open, NoSnapshot, SnapshotOf(open)).status]
Projection == [d \in Dimensions |-> upsert(rows[d], Projected(d))]

(* finalize_run_closure_feedback: a terminal stop reason explains every    *)
(* open gap, any other leaves the ones without feedback to be explained.   *)
is_terminal_run_stop_reason(stop) == stop \in TerminalReasons
FinalFeedback(rs, stop) ==
    IF is_terminal_run_stop_reason(stop) THEN <<>> ELSE CompletenessFeedback(rs, fed)

EnterWriting(rs, stop) ==
    /\ run' = [run EXCEPT !.phase = "writing", !.stop = stop]
    /\ Unbox(DispatchAll(Box, FinalFeedback(rs, stop), rs))

Continue ==
    /\ run' = [run EXCEPT !.phase = "schedule", !.iterations = @ + 1]
    /\ UNCHANGED feedback

AskReplan ==
    /\ run.plan <= MaxReplans
    /\ run' = [run EXCEPT !.phase = "replan", !.iterations = @ + 1]
    /\ UNCHANGED feedback

FinishIteration ==
    /\ run.phase = "research" /\ run.iterations < MaxIterations
    /\ rows' = Projection
    /\ \/ Continue
       \/ AskReplan
       \/ \E stop \in StopReasons : EnterWriting(Projection, stop)
    /\ UNCHANGED <<graph, consumed>>

(* An attempt that ran out of its question's tokens returns before the     *)
(* evaluation: nothing is projected.                                       *)
GiveUpQuestion ==
    /\ run.phase = "research" /\ run.iterations < MaxIterations
    /\ run' = [run EXCEPT !.phase = "schedule", !.iterations = @ + 1]
    /\ UNCHANGED <<graphVars, feedback, consumed>>

SaveReplan ==
    /\ run.phase = "replan"
    /\ run' = [run EXCEPT !.phase = "schedule", !.plan = @ + 1]
    /\ rows' = [d \in Dimensions |-> NoRow]
    /\ fed' = {} /\ dispatched' = {}
    /\ UNCHANGED <<graph, executions, consumed, refused>>

------------------------------------------------------------------------------
(* prepare_target: a budget that is used up comes first, then the oldest   *)
(* feedback query nobody took, then the scheduler.                         *)
StopAtSchedule ==
    /\ run.phase = "schedule"
    /\ \E stop \in StopReasons :
        /\ is_terminal_run_stop_reason(stop) \/ consumed = Len(executions)
        /\ EnterWriting(rows, stop)
    /\ UNCHANGED <<graphVars, consumed>>

PendingFeedback == consumed < Len(executions)

TakeFeedback ==
    /\ run.phase = "schedule" /\ run.iterations < MaxIterations
    /\ PendingFeedback
    /\ consumed' = consumed + 1
    /\ run' = [run EXCEPT !.phase = "research"]
    /\ UNCHANGED <<graphVars, feedback>>

PrepareTarget ==
    /\ run.phase = "schedule" /\ run.iterations < MaxIterations
    /\ ~PendingFeedback
    /\ run' = [run EXCEPT !.phase = "research"]
    /\ UNCHANGED <<graphVars, feedback, consumed>>

(* The execution dies; the next one starts from the committed rows.        *)
Crash ==
    /\ run.phase = "research" /\ run.crashes < MaxCrashes
    /\ run' = [run EXCEPT !.phase = "schedule", !.crashes = @ + 1]
    /\ UNCHANGED <<graphVars, feedback, consumed>>

Writing == run.phase = "writing" /\ UNCHANGED vars

Next ==
    \/ RecordPage \/ FinishIteration \/ GiveUpQuestion \/ SaveReplan
    \/ StopAtSchedule \/ TakeFeedback \/ PrepareTarget \/ Crash \/ Writing

Spec == Init /\ [][Next]_vars

------------------------------------------------------------------------------
(* A closed requirement is backed by accepted evidence of two owners in    *)
(* its dimension, whichever of the two paths closed it and whatever type   *)
(* and number of sources it asked for at that moment                       *)
(* (_requirement_is_satisfied, record_page, project_gap_requirements).     *)
ClosedHasSources ==
    \A d \in ClosedRows(rows) : Cardinality(OwnersIn(graph, d)) >= 2

(* A requirement that was closed stays closed under its plan, although     *)
(* finish_iteration writes every row again from scratch, with another type *)
(* and another number of required sources (GapRequirementRepository.upsert_many).*)
ClosedStaysClosed ==
    [][run'.plan = run.plan => ClosedRows(rows) \subseteq ClosedRows(rows')]_vars

(* No row claims more evidence or more owners than were accepted, through  *)
(* batches, skipped duplicates, replans and projections                    *)
(* (_align_and_evaluate_evidence counts without the batch and with it).    *)
RowsNeverOverstate ==
    \A d \in Dimensions : rows[d] # NoRow =>
        /\ rows[d].count <= Cardinality(EvidenceIn(graph, d))
        /\ rows[d].owners <= Cardinality(OwnersIn(graph, d))

(* When writing starts every requirement that is not closed was given      *)
(* feedback, or the run's stop reason explains it                          *)
(* (finalize_run_closure_feedback).                                        *)
NoSilentLeftover ==
    run.phase = "writing" =>
        \A d \in Dimensions : rows[d].status \in {"open", "partial"} =>
            d \in fed \/ is_terminal_run_stop_reason(run.stop)

(* The completeness passes of all pages and the finalizer together send    *)
(* one feedback per gap, although the row's version, and with it the id    *)
(* the dispatcher would recognise, changes between them                    *)
(* (run_closure_feedback_completeness_pass, Rule 2).                       *)
BackfilledOnce ==
    \A f, g \in dispatched :
        f.kind = "completeness" /\ g.kind = "completeness" /\ f.gap = g.gap => f = g

(* Contradictory claims whose best evidence comes from different owners    *)
(* are disclosed by an open conflict and both are disputed, although a     *)
(* page refreshes only the claims it touched (refresh_question_relations). *)
ContradictionDisclosed ==
    \A p \in Contradictions : InConflict(graph, p) =>
        ConflictOf(graph, p) \in graph.open /\ \A c \in p : graph.status[c] = "disputed"

(* The row of a gap never says more than the evidence does, whichever of   *)
(* record_page and finish_iteration wrote it last.                         *)
RowsTellTheFacts == TypeOK /\ ClosedHasSources /\ RowsNeverOverstate

(* What is left open when writing starts is explained, and no gap is told  *)
(* twice (run_closure_feedback_completeness_pass, the finalizer).          *)
LeftoversExplainedOnce == NoSilentLeftover /\ BackfilledOnce

=============================================================================
