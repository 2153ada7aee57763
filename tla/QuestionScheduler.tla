-------------------------- MODULE QuestionScheduler --------------------------
(***************************************************************************)
(* Which question the research loop works on next, and when it stops:      *)
(* prepare_target and finish_iteration of                                  *)
(* infrastructure/db/research_tools.py, the replan node of                 *)
(* services/research_graph.py and save_gap_resolution_plan of              *)
(* infrastructure/db/research_runs.py.                                     *)
(*                                                                         *)
(* Evidence is reduced to the number of independent owners a dimension     *)
(* has; a query to its question, family, criterion and hints.  Utilities   *)
(* are floating point estimates: the model keeps the lanes they are sorted *)
(* into and lets any question of the best lane win.                        *)
(***************************************************************************)
EXTENDS Integers, Sequences, FiniteSets, FiniteSetsExt, SequencesExt

CONSTANTS
    Priority,       \* [question -> 1..3]
    Requirements,   \* [question -> its dimensions]
    Independent,    \* dimensions whose criterion asks for independent sources
    Families,       \* QUERY_FAMILIES, a sequence
    Findings,       \* what evidence may show: risk, reliability, global metrics
    MaxActions,     \* budget: scheduler_actions
    MaxSearches,    \* budget: logical_queries
    MaxPages,       \* budget: pages
    MaxIterations,  \* budget: iterations
    MaxReplans,     \* _MAX_REPLANS
    MaxTechnical,   \* provider failures that degrade a question
    StreakToStop,   \* _LOW_INFORMATION_GAIN_STREAK_TO_STOP
    MaxFeedback,    \* feedback queries of one run
    Phrases,        \* number of wordings of a feedback query, hints included
    MaxRestarts     \* bound: executions that a crash ends

Questions == DOMAIN Priority
Dimensions == UNION {Requirements[q] : q \in Questions}
FamilySet == Range(Families)

ASSUME SchedulerAssumption ==
    /\ Priority \in [Questions -> 1..3]
    /\ \A q \in Questions : IsFiniteSet(Requirements[q]) /\ Requirements[q] # {}
    /\ \A q, r \in Questions : q # r => Requirements[q] \intersect Requirements[r] = {}
    /\ Independent \subseteq Dimensions
    /\ Findings \subseteq [risky : BOOLEAN, weak : BOOLEAN, good : BOOLEAN,
                           gate : {"clean", "stale", "minor", "dirty"}]
    /\ Families \in Seq(FamilySet) /\ "scope" \in FamilySet /\ "feedback" \notin FamilySet
    /\ MaxPages \in Nat /\ MaxReplans \in Nat /\ MaxFeedback \in Nat
    /\ Phrases \in Nat \ {0}

VARIABLES
    plan,      \* plan version; status and hints version of each plan item
    gap,       \* parity of resolution_attempts of the plan's gap rows, -1: no row
    usage,     \* counters and per-question maps of usage_snapshot
    facts,     \* evidence and claims in the database
    quality,   \* quality_snapshot: the facts as of the last evaluation
    rows,      \* SearchQueryRows with status succeeded
    found,     \* questions with recorded results
    unread,    \* questions with results or pages not yet processed
    calls,     \* duplicate keys of the web_search tool calls
    queue,     \* texts of the feedback executions started and not consumed
    started,   \* feedback_execution_count
    pc, target,
    outcome,   \* outcome of the attempt
    reason,    \* termination_reason
    restarts,
    asked,     \* history: queries a provider answered
    spent,     \* history: questions that met their hard token limit
    inherited  \* history: quality is that of an execution that had begun to write

schedulerVars ==
    <<plan, gap, usage, facts, quality, rows, found, unread, calls, queue, started, pc, target,
      outcome, reason, restarts, asked, spent, inherited>>

Statuses == {"pending", "active", "blocked", "partial", "technical_retry",
             "technical_degraded", "researched"}
Query(q, f, d, h) == <<q, f, IF f = "scope" THEN "-" ELSE d, h>>
NoTarget == [question |-> "-", family |-> "-", query |-> <<>>, feedback |-> FALSE]

(* The text of a feedback query names a dimension and is otherwise one of  *)
(* a few fixed phrases: two gaps may well give the same one, and nothing   *)
(* compares it with the queries before it (_candidate_text).               *)
FeedbackTexts(q) == {q} \X {"feedback"} \X Requirements[q] \X (1..Phrases)

SchedulerTypeOK ==
    /\ plan.version \in 1..(MaxReplans + 1)
    /\ plan.status \in [Questions -> Statuses]
    /\ gap \in [Questions -> -1..1]
    /\ usage.actions \in Nat /\ usage.pages \in 0..MaxPages
    /\ usage.replans \in 0..MaxReplans
    /\ usage.technical \in [Questions -> Nat]
    /\ usage.families \in [Questions -> SUBSET FamilySet]
    /\ usage.frozen \subseteq Questions /\ usage.strategy \subseteq Questions
    /\ facts.owners \in [Dimensions -> 0..2] /\ facts.risky \subseteq Dimensions
    /\ quality.owners \in [Dimensions -> 0..2] /\ quality.repair \subseteq Questions
    /\ found \subseteq Questions /\ unread \subseteq Questions
    /\ started \in 0..MaxFeedback /\ Len(queue) <= started
    /\ queue \in Seq(UNION {FeedbackTexts(q) : q \in Questions})
    /\ pc \in {"schedule", "attempt", "read", "evaluate", "replan", "writing", "failed"}
    /\ calls \subseteq (Questions \X (FamilySet \union {"feedback"}) \X
                        (Dimensions \union {"-"}) \X (1..(MaxReplans + Phrases + 1)))
    /\ rows \subseteq calls /\ asked \subseteq rows

SchedulerInit ==
    /\ plan = [version |-> 1, status |-> [q \in Questions |-> "pending"],
               hints |-> [q \in Questions |-> 1]]
    /\ gap = [q \in Questions |-> -1]
    /\ usage = [actions |-> 0, searches |-> 0, pages |-> 0, iterations |-> 0, replans |-> 0,
                replan |-> FALSE, guarded |-> FALSE,
                technical |-> [q \in Questions |-> 0], families |-> [q \in Questions |-> {}],
                outcomes |-> [q \in Questions |-> <<>>],
                exhausted |-> {}, strategy |-> {}, source |-> {}, frozen |-> {}]
    /\ facts = [owners |-> [d \in Dimensions |-> 0], risky |-> {}, weak |-> {},
                good |-> FALSE, gate |-> "clean"]
    /\ quality = [seen |-> FALSE, owners |-> [d \in Dimensions |-> 0],
                  required |-> [d \in Dimensions |-> 1], repair |-> {}, good |-> FALSE,
                  gate |-> "clean", streak |-> [q \in Questions |-> 0]]
    /\ rows = {} /\ found = {} /\ unread = {} /\ calls = {} /\ queue = <<>> /\ started = 0
    /\ pc = "schedule" /\ target = NoTarget /\ outcome = "-" /\ reason = "-"
    /\ restarts = 0 /\ asked = {} /\ spent = {} /\ inherited = FALSE

------------------------------------------------------------------------------
(* Coverage of dimensions, questions and the run, in halves and percent.   *)
Required(risky, d) == IF d \in Independent \union risky THEN 2 ELSE 1
Score(owners, required) == IF owners = 0 THEN 0 ELSE IF owners >= required THEN 2 ELSE 1

DimensionScore(snap, d) == Score(snap.owners[d], snap.required[d])
Coverage(snap, q) ==
    (50 * (Cardinality({d \in Requirements[q] : DimensionScore(snap, d) >= 1})
           + Cardinality({d \in Requirements[q] : DimensionScore(snap, d) = 2})))
        \div Cardinality(Requirements[q])
Full(snap, q) == \A d \in Requirements[q] : DimensionScore(snap, d) = 2
RunCoverage(snap) ==
    SumFunction([q \in Questions |-> Coverage(snap, q) * (4 - Priority[q])])
        \div SumFunction([q \in Questions |-> 4 - Priority[q]])

P1 == {q \in Questions : Priority[q] = 1}
CriticalGaps(snap) == {q \in P1 : ~Full(snap, q)}
Unresolved(snap) == IF snap.seen THEN {q \in Questions : ~Full(snap, q)} ELSE {}
CrossDimensions(snap) == {d \in Dimensions : snap.required[d] = 2}
Corroborated(snap) == {d \in CrossDimensions(snap) : snap.owners[d] >= 2}
CrossValidated(snap) ==
    10 * Cardinality(Corroborated(snap)) >= 7 * Cardinality(CrossDimensions(snap))

QualityMet(snap) ==
    /\ snap.seen /\ snap.good /\ snap.gate \in {"clean", "minor"}
    /\ P1 # {} /\ CriticalGaps(snap) = {}
    /\ CrossValidated(snap)
    /\ RunCoverage(snap) >= 85

(* _quality_enrichment_needed or an open conflict, number or role check.   *)
GateOpen(snap) == ~snap.good \/ ~CrossValidated(snap) \/ snap.gate \in {"minor", "dirty"}

(* _quality_repair_targets *)
RepairTargets(snap, weak) ==
    {q \in Questions : \E d \in Requirements[q] :
        /\ snap.owners[d] > 0
        /\ \/ ~CrossValidated(snap) /\ snap.owners[d] < snap.required[d]
           \/ ~snap.good /\ d \in weak}

------------------------------------------------------------------------------
(* _budget_exhaustion_reason names the first limit that is met; after the  *)
(* model guard come the search limits: cached work goes on, whatever else is used up.*)
SearchExhausted == usage.searches >= MaxSearches

BudgetStopOf(u) ==
    \/ u.guarded
    \/ /\ u.searches < MaxSearches
       /\ u.pages >= MaxPages \/ u.actions >= MaxActions \/ u.iterations >= MaxIterations

BudgetStop == BudgetStopOf(usage)

(* Without a target the loop looks at replan_requested first: a request a  *)
(* crashed execution left behind sends a run that has just entered writing *)
(* to the replan node.                                                     *)
EnterWriting(why) ==
    /\ pc' = IF usage.replan THEN "replan" ELSE "writing"
    /\ reason' = why /\ target' = NoTarget

Candidates ==
    {q \in Questions : plan.status[q] \in {"pending", "active", "blocked", "partial", "technical_retry"}}

(* Questions with evidence that still lacks an independent source.         *)
CorroborationTargets ==
    quality.repair \union
    {q \in Questions : quality.seen /\ \E d \in Requirements[q] : DimensionScore(quality, d) = 1}

(* A complete question that no gate wants back is researched.              *)
Settled ==
    {q \in Candidates : /\ plan.status[q] = "partial" /\ Full(quality, q)
                        /\ q \notin CorroborationTargets}
SettledStatus == [q \in Questions |-> IF q \in Settled THEN "researched" ELSE plan.status[q]]

Barred == usage.exhausted \union usage.strategy \union usage.frozen
Workable == Candidates \ (Settled \union Barred)
Reachable == {q \in Workable : SearchExhausted => q \in found}
Attempts(q) == Cardinality(usage.families[q])
Untouched == {q \in Workable : Attempts(q) = 0}

ZeroYield(q) ==
    /\ ~SearchExhausted /\ Attempts(q) >= 2 /\ Coverage(quality, q) = 0
    /\ q \notin CorroborationTargets

UnfinishedP1 ==
    {q \in Reachable : /\ Priority[q] = 1 \/ q \in CorroborationTargets
                       /\ ~Full(quality, q) /\ Attempts(q) < Len(Families)}

P1Variants == UnfinishedP1 # {} /\ Untouched = {}

PageReserve ==
    LET wanted == 2 * Max({Cardinality(IF quality.seen THEN CriticalGaps(quality) ELSE {}),
                           Cardinality(quality.repair)})
    IN  IF wanted < MaxPages THEN wanted ELSE MaxPages
ProtectedPages == PageReserve > 0 /\ MaxPages - usage.pages <= PageReserve

Eligible ==
    {q \in Reachable :
        /\ P1Variants => q \in UnfinishedP1
        /\ ProtectedPages => \/ Priority[q] = 1 \/ ~Full(quality, q) \/ q \in quality.repair
                             \/ plan.status[q] \in {"partial", "blocked", "technical_retry"}}

EffectivePriority(q) ==
    Priority[q] + (IF ProtectedPages /\ Priority[q] > 1 /\ Full(quality, q) THEN 10 ELSE 0)

(* The lane of a retry: corroboration, productive, ordinary, fruitless.    *)
Lane(q) ==
    IF q \in CorroborationTargets THEN <<0, Attempts(q)>>
    ELSE IF Coverage(quality, q) > 0 THEN <<1, 0>>
    ELSE IF ZeroYield(q) THEN <<3, 0>> ELSE <<2, 0>>

ScheduleKey(q) ==
    LET first == IF Attempts(q) = 0 THEN 0 ELSE 1
        cover == Coverage(quality, q)
    IN  IF P1Variants THEN <<1, cover, Attempts(q), EffectivePriority(q), 0>>
        ELSE IF ProtectedPages THEN <<first, 0, cover, EffectivePriority(q), 0>>
        ELSE IF first = 0 THEN <<0, 0, 0, cover, EffectivePriority(q)>>
        ELSE <<1, Lane(q)[1], Lane(q)[2], 0, 0>>

Precedes(a, b) ==
    \E i \in 1..Len(a) : a[i] < b[i] /\ \A j \in 1..(i - 1) : a[j] = b[j]
Best == {q \in Eligible : ~\E r \in Eligible : Precedes(ScheduleKey(r), ScheduleKey(q))}

------------------------------------------------------------------------------
(* The query of the selected question.                                     *)

(* _select_unmet_requirement: lowest coverage, then fewest owners.         *)
LeastMet(unmet) ==
    CHOOSE d \in unmet : \A e \in unmet :
        ~Precedes(<<DimensionScore(quality, e), quality.owners[e]>>,
                  <<DimensionScore(quality, d), quality.owners[d]>>)

(* The requirement the query is about, else a dimension the repair names.  *)
UnmetDimension(q) ==
    LET unmet == {d \in Requirements[q] : quality.seen /\ DimensionScore(quality, d) < 2}
    IN  IF unmet # {} THEN LeastMet(unmet)
        ELSE IF q \in quality.repair THEN CHOOSE d \in Requirements[q] : TRUE
        ELSE "-"

QueryOf(q, f) == Query(q, f, UnmetDimension(q), plan.hints[q])

(* The families, by their place in QUERY_FAMILIES, whose query has no row. *)
OpenFamilies_Repeats(q) == DOMAIN Families
OpenFamilies(q) == {i \in DOMAIN Families : QueryOf(q, Families[i]) \notin rows}

(* _query_family_order: a question that lacks an independent source asks   *)
(* the authoritative family before the others.                             *)
FamilyOrder(q, i) ==
    IF q \in CorroborationTargets /\ Families[i] = "authoritative" THEN 0 ELSE i

NextFamily(q) ==
    Families[CHOOSE i \in OpenFamilies(q) :
                \A j \in OpenFamilies(q) : FamilyOrder(q, i) <= FamilyOrder(q, j)]

RowsOf(q) == {r \in rows : r[1] = q}
GapRow(q) == IF gap[q] = -1 THEN Cardinality(RowsOf(q)) % 2 ELSE gap[q]

------------------------------------------------------------------------------
(* prepare_target                                                          *)
Scheduling == pc = "schedule" /\ ~BudgetStop

(* The deadline may have passed at any time; like every limit but the      *)
(* guard it is looked at only while searches are left.                     *)
StopOnBudget ==
    /\ pc = "schedule"
    /\ \/ BudgetStop /\ EnterWriting("budget_exhausted")
       \/ ~SearchExhausted /\ EnterWriting("deadline_exhausted")
    /\ UNCHANGED <<plan, gap, usage, facts, quality, rows, found, unread, calls, queue, started,
                   outcome, restarts, asked, spent, inherited>>

(* _prepare_feedback_target comes first and is not a scheduler action.  It *)
(* writes the tool call without a look at those of the run: a text the     *)
(* question has used raises IntegrityError (uq_research_tool_call_dedupe), *)
(* the transaction is lost and the worker fails the run.                   *)
TakeFeedback ==
    /\ Scheduling /\ queue # <<>> /\ Head(queue) \notin calls
    /\ LET q == Head(queue)[1]
       IN  /\ target' = [question |-> q, family |-> "scope", feedback |-> TRUE,
                         query |-> Head(queue)]
           /\ gap' = [gap EXCEPT ![q] = GapRow(q)]
    /\ calls' = calls \union {Head(queue)} /\ queue' = Tail(queue)
    /\ pc' = "attempt"
    /\ UNCHANGED <<plan, usage, facts, quality, rows, found, unread, started, outcome, reason,
                   restarts, asked, spent, inherited>>

FeedbackRepeats ==
    /\ Scheduling /\ queue # <<>> /\ Head(queue) \in calls
    /\ pc' = "failed"
    /\ UNCHANGED <<plan, gap, usage, facts, quality, rows, found, unread, calls, queue, started,
                   target, outcome, reason, restarts, asked, spent, inherited>>

RequestReplan ==
    /\ Scheduling /\ queue = <<>> /\ Eligible = {}
    /\ ~SearchExhausted /\ ~QualityMet(quality)
    /\ Unresolved(quality) # {} /\ usage.replans < MaxReplans
    /\ usage' = [usage EXCEPT !.replan = TRUE]
    /\ plan' = [plan EXCEPT !.status = SettledStatus]
    /\ pc' = "replan"
    /\ UNCHANGED <<gap, facts, quality, rows, found, unread, calls, queue, started, target,
                   outcome, reason, restarts, asked, spent, inherited>>

NothingEligible ==
    /\ Scheduling /\ queue = <<>> /\ Eligible = {}
    /\ \/ SearchExhausted \/ QualityMet(quality)
       \/ Unresolved(quality) = {} \/ usage.replans >= MaxReplans
    /\ EnterWriting(IF SearchExhausted THEN "search_exhausted"
                    ELSE IF QualityMet(quality) THEN "quality_met" ELSE "sources_exhausted")
    /\ plan' = [plan EXCEPT !.status = SettledStatus]
    /\ UNCHANGED <<gap, usage, facts, quality, rows, found, unread, calls, queue, started,
                   outcome, restarts, asked, spent, inherited>>

(* A question without a query left is retired; the graph schedules again,  *)
(* or replans when an old request is still on record (replan_requested).   *)
RetireQuestion_NotBarred(q) ==
    /\ Scheduling /\ queue = <<>> /\ OpenFamilies(q) = {}
    /\ usage' = [usage EXCEPT !.source = @ \union {q}]
    /\ plan' = [plan EXCEPT !.status = [SettledStatus EXCEPT
                    ![q] = IF Coverage(quality, q) > 0 THEN "partial" ELSE "blocked"]]
    /\ gap' = [gap EXCEPT ![q] = GapRow(q)]
    /\ pc' = IF usage.replan THEN "replan" ELSE "schedule"
    /\ UNCHANGED <<facts, quality, rows, found, unread, calls, queue, started, target, outcome,
                   reason, restarts, asked, spent, inherited>>

RetireQuestion(q) ==
    /\ Scheduling /\ queue = <<>> /\ OpenFamilies(q) = {}
    /\ usage' = [usage EXCEPT !.strategy = @ \union {q}, !.source = @ \union {q}]
    /\ plan' = [plan EXCEPT !.status = [SettledStatus EXCEPT
                    ![q] = IF Coverage(quality, q) > 0 THEN "partial" ELSE "blocked"]]
    /\ gap' = [gap EXCEPT ![q] = GapRow(q)]
    /\ pc' = IF usage.replan THEN "replan" ELSE "schedule"
    /\ UNCHANGED <<facts, quality, rows, found, unread, calls, queue, started, target, outcome,
                   reason, restarts, asked, spent, inherited>>

SelectTarget(q) ==
    /\ Scheduling /\ queue = <<>> /\ OpenFamilies(q) # {}
    /\ plan' = [plan EXCEPT !.status = [SettledStatus EXCEPT ![q] = "active"]]
    /\ gap' = [gap EXCEPT ![q] = GapRow(q)]
    /\ calls' = calls \union {QueryOf(q, NextFamily(q))}
    /\ IF SearchExhausted /\ q \notin unread
       THEN EnterWriting("search_exhausted") /\ UNCHANGED usage
       ELSE /\ usage' = [usage EXCEPT !.actions = @ + 1]
            /\ target' = [question |-> q, family |-> NextFamily(q),
                          query |-> QueryOf(q, NextFamily(q)), feedback |-> FALSE]
            /\ pc' = "attempt"
            /\ UNCHANGED reason
    /\ UNCHANGED <<facts, quality, rows, found, unread, queue, started, outcome, restarts, asked,
                   spent, inherited>>

PrepareTarget ==
    \/ StopOnBudget \/ TakeFeedback \/ FeedbackRepeats \/ RequestReplan \/ NothingEligible
    \/ pc = "schedule" /\ \E q \in Best : RetireQuestion(q) \/ SelectTarget(q)

------------------------------------------------------------------------------
(* The attempt: a cache-only pass or a provider's answer, then its pages.  *)
EndAttempt(result) == pc' = "evaluate" /\ outcome' = result

(* query_already_executed is about the row prepare_target looked up; the   *)
(* query it chose has none.  A feedback target carries no cached work.     *)
ReuseOnly ==
    /\ ~target.feedback
    /\ SearchExhausted \/ (target.question \in unread /\ gap[target.question] = 0)

(* record_search_results with reused=True writes a succeeded row for the   *)
(* query although no provider has seen it; prepare_target has seen to it   *)
(* that there is cached work left.                                         *)
SearchReused ==
    /\ pc = "attempt" /\ ReuseOnly
    /\ rows' = rows \union {target.query}
    /\ pc' = "read"
    /\ UNCHANGED <<plan, gap, usage, facts, quality, found, unread, calls, queue, started, target,
                   outcome, reason, restarts, asked, spent, inherited>>

SearchAnswered(results) ==
    /\ pc = "attempt" /\ ~ReuseOnly
    /\ usage' = [usage EXCEPT !.searches = @ + 1,
                              !.families[target.question] = @ \union {target.family}]
    /\ rows' = rows \union {target.query}
    /\ asked' = asked \union {target.query}
    /\ found' = IF results THEN found \union {target.question} ELSE found
    /\ unread' = IF results THEN unread \union {target.question} ELSE unread
    /\ IF target.question \in unread' THEN pc' = "read" /\ UNCHANGED outcome
       ELSE EndAttempt("zero_results")
    /\ UNCHANGED <<plan, gap, facts, quality, calls, queue, started, target, reason, restarts,
                   spent, inherited>>

(* record_tool_failure: the family counts only if somebody answered.       *)
SearchFailed(healthy) ==
    /\ pc = "attempt" /\ ~ReuseOnly
    /\ usage' = [usage EXCEPT !.searches = @ + 1,
                              !.families[target.question] =
                                  IF healthy THEN @ \union {target.family} ELSE @]
    /\ EndAttempt("provider_error")
    /\ UNCHANGED <<plan, gap, facts, quality, rows, found, unread, calls, queue, started, target,
                   reason, restarts, asked, spent, inherited>>

(* The attempt ends early: the deadline or the model-token guard before    *)
(* the search; no page slot, or no reservation for the question, after it. *)
AttemptRefused(result) ==
    /\ \/ pc = "attempt" /\ result = "deadline_exhausted"
       \/ pc = "attempt" /\ result = "stop_run"
       \/ pc = "read" /\ usage.pages >= MaxPages /\ result = "budget_exhausted"
       \/ pc = "read" /\ usage.pages < MaxPages /\ result \in {"question_budget_exhausted", "yield_question"}
    /\ usage' = [usage EXCEPT !.guarded = @ \/ result = "stop_run"]
    /\ EndAttempt(result)
    /\ UNCHANGED <<plan, gap, facts, quality, rows, found, unread, calls, queue, started, target,
                   reason, restarts, asked, spent, inherited>>

(* A page gives evidence for a dimension or none; a gap that stays open    *)
(* may start a feedback query.                                             *)
PageWithoutEvidence(more) ==
    /\ pc = "read" /\ usage.pages < MaxPages
    /\ usage' = [usage EXCEPT !.pages = @ + 1]
    /\ unread' = IF more THEN unread ELSE unread \ {target.question}
    /\ EndAttempt("no_evidence")
    /\ UNCHANGED <<plan, gap, facts, quality, rows, found, calls, queue, started, target, reason,
                   restarts, asked, spent, inherited>>

RecordEvidence(d, seen, more, feedback) ==
    /\ pc = "read" /\ usage.pages < MaxPages /\ d \in Requirements[target.question]
    /\ \E owners \in {facts.owners[d], facts.owners[d] + 1} \intersect 1..2 :
          facts' = [owners |-> [facts.owners EXCEPT ![d] = owners],
                    risky |-> IF seen.risky THEN facts.risky \union {d} ELSE facts.risky,
                    weak |-> IF seen.weak THEN facts.weak \union {d} ELSE facts.weak \ {d},
                    good |-> seen.good, gate |-> seen.gate]
    /\ usage' = [usage EXCEPT !.pages = @ + 1]
    /\ unread' = IF more THEN unread ELSE unread \ {target.question}
    /\ feedback => started < MaxFeedback
    /\ started' = IF feedback THEN started + 1 ELSE started
    /\ IF feedback THEN \E text \in FeedbackTexts(target.question) : queue' = Append(queue, text)
       ELSE UNCHANGED queue
    /\ EndAttempt("evidence_gained")
    /\ UNCHANGED <<plan, gap, quality, rows, found, calls, target, reason, restarts, asked, spent,
                   inherited>>

------------------------------------------------------------------------------
(* finish_iteration                                                        *)

(* A hard token limit is recorded and the plan goes on.                    *)
QuestionExhausted ==
    /\ pc = "evaluate" /\ outcome = "question_budget_exhausted"
    /\ LET q == target.question
           accepted == \E d \in Requirements[q] : facts.owners[d] > 0
       IN  /\ usage' = [usage EXCEPT !.exhausted = @ \union {q}]
           /\ spent' = spent \union {q}
           /\ plan' = [plan EXCEPT !.status[q] = IF accepted THEN "partial" ELSE "blocked"]
    /\ pc' = "schedule" /\ target' = NoTarget /\ outcome' = "-"
    /\ UNCHANGED <<gap, facts, quality, rows, found, unread, calls, queue, started, reason,
                   restarts, asked, inherited>>

QuestionYielded ==
    /\ pc = "evaluate" /\ outcome = "yield_question"
    /\ pc' = "schedule" /\ target' = NoTarget /\ outcome' = "-"
    /\ UNCHANGED <<plan, gap, usage, facts, quality, rows, found, unread, calls, queue, started,
                   reason, restarts, asked, spent, inherited>>

Technical == outcome = "provider_error"
CurrentRequired == [d \in Dimensions |-> Required(facts.risky, d)]

(* _requirements_satisfied *)
RequirementsMet(q) == \A d \in Requirements[q] : Score(facts.owners[d], CurrentRequired[d]) = 2

FailuresAfter(q) == usage.technical[q] + (IF Technical THEN 1 ELSE 0)

StrategyExhausted(q) ==
    ~Technical /\ ~RequirementsMet(q) /\ Attempts(q) >= Len(Families)

RetryCurrent(q) ==
    IF Technical THEN FailuresAfter(q) < MaxTechnical
    ELSE ~RequirementsMet(q) /\ ~StrategyExhausted(q)

StatusAfter(q) ==
    IF Technical THEN (IF RetryCurrent(q) THEN "technical_retry" ELSE "technical_degraded")
    ELSE IF RetryCurrent(q) THEN "active"
    ELSE IF RequirementsMet(q) THEN "researched"
    ELSE IF \E d \in Requirements[q] : facts.owners[d] > 0 THEN "partial" ELSE "blocked"

(* calculate_information_gain: new evidence, sources or coverage.          *)
Gained == outcome = "evidence_gained"
StreakAfter(q) ==
    IF Technical THEN quality.streak[q] ELSE IF Gained THEN 0 ELSE quality.streak[q] + 1

(* What an evaluation measures anew: the mean reliability of the owners,   *)
(* and the open conflicts, of which those of a first-priority question and *)
(* the severe ones are high-risk.                                          *)
SourceQualityMet == facts.good
ConflictGate == facts.gate

(* The snapshot of this evaluation, streaks capped where they decide.      *)
Evaluated ==
    LET q == target.question
        base == [seen |-> TRUE, owners |-> facts.owners, required |-> CurrentRequired,
                 repair |-> {}, good |-> SourceQualityMet, gate |-> ConflictGate,
                 streak |-> [quality.streak EXCEPT
                     ![q] = IF StreakAfter(q) > StreakToStop THEN StreakToStop ELSE StreakAfter(q)]]
    IN  [base EXCEPT !.repair = RepairTargets(base, facts.weak)]

(* question_family_outcomes: the last four attempts of the question.       *)
OutcomesAfter(q) ==
    LET all == Append(usage.outcomes[q], <<target.family, Gained>>)
    IN  IF Len(all) > 4 THEN Tail(all) ELSE all

(* The two latest outcomes of different families, the latest one first.    *)
RecentDistinct(seq) ==
    LET n == Len(seq)
        other == {i \in 1..(n - 1) : seq[i][1] # seq[n][1]}
    IN  IF other = {} THEN {seq[n]} ELSE {seq[n], seq[Max(other)]}

(* Frozen: two fruitless families in a row, after every family has run.    *)
FreezeDue(q) ==
    LET recent == RecentDistinct(OutcomesAfter(q))
    IN  /\ Priority[q] > 1 /\ Cardinality(recent) = 2 /\ \A o \in recent : ~o[2]
        /\ Attempts(q) >= Len(Families)

(* _research_attempt_consumes_iteration *)
Consumes == outcome \in {"evidence_gained", "deadline_exhausted"}

UsageAfter ==
    LET q == target.question
        flagged == IF StrategyExhausted(q) THEN {q} ELSE {}
    IN  [usage EXCEPT !.technical[q] = FailuresAfter(q),
                      !.outcomes[q] = OutcomesAfter(q),
                      !.strategy = @ \union flagged, !.source = @ \union flagged,
                      !.frozen = IF FreezeDue(q) THEN @ \union {q} ELSE @,
                      !.iterations = IF Consumes THEN @ + 1 ELSE @]

(* A question a gate wants back is reopened.                               *)
StatusesAfter(repair) ==
    LET q == target.question
        base == [plan.status EXCEPT ![q] = StatusAfter(q)]
        reopened == {r \in repair : base[r] = "researched"}
                        \union (IF Technical \/ RetryCurrent(q) THEN {} ELSE repair \intersect {q})
    IN  [r \in Questions |-> IF r \in reopened THEN "partial" ELSE base[r]]

Remaining(status) == {q \in Questions : status[q] \in {"pending", "active", "technical_retry"}}
FirstPassDone(status) == \A q \in Questions : status[q] # "pending"
SourceSpaceExhausted(status, u) ==
    /\ FirstPassDone(status)
    /\ \A q \in Questions : status[q] = "researched" \/ q \in u.source

(* _replan_reserve_reached *)
ReserveReached(u) ==
    LET fifth == MaxIterations \div 5
    IN  MaxIterations - u.iterations <= (IF fifth > 2 THEN fifth ELSE 2)

ReplanNeeded(snap, u, status) ==
    /\ u.replans < MaxReplans /\ plan.version <= MaxReplans
    /\ FirstPassDone(status)
    /\ Unresolved(snap) # {}
    /\ \/ Remaining(status) = {} \/ snap.streak[target.question] >= StreakToStop
       \/ ReserveReached(u)

Stagnated(snap) ==
    /\ RunCoverage(snap) >= 85 /\ CriticalGaps(snap) = {} /\ ~GateOpen(snap)
    /\ snap.streak[target.question] >= StreakToStop

(* The decision, in the order of the code: <<next location, stop reason>>. *)
Decision(snap, u, status) ==
    CASE outcome = "deadline_exhausted" -> <<"writing", "deadline_exhausted">>
      [] OTHER ->
         IF BudgetStopOf(u) THEN <<"writing", "budget_exhausted">>
         ELSE IF QualityMet(snap) THEN <<"writing", "quality_met">>
         ELSE IF SearchExhausted THEN <<"schedule", "-">>
         ELSE IF ReplanNeeded(snap, u, status) THEN <<"replan", "-">>
         ELSE IF Stagnated(snap) THEN <<"writing", "stagnation">>
         ELSE IF GateOpen(snap) /\ snap.repair # {} THEN <<"schedule", "-">>
         ELSE IF Remaining(status) = {} /\ Unresolved(snap) = {} THEN <<"writing", "sources_exhausted">>
         ELSE IF Remaining(status) = {} /\ SourceSpaceExhausted(status, u)
              THEN <<"writing", "source_space_exhausted">>
         ELSE <<"schedule", "-">>

FinishIteration ==
    /\ pc = "evaluate" /\ outcome \notin {"question_budget_exhausted", "yield_question"}
    /\ LET snap == Evaluated
           u == UsageAfter
           status == StatusesAfter(snap.repair)
           decision == Decision(snap, u, status)
       IN  /\ quality' = snap /\ usage' = u
           /\ plan' = [plan EXCEPT !.status = status]
           /\ pc' = decision[1]
           /\ reason' = IF decision[1] = "writing" THEN decision[2] ELSE reason
    /\ gap' = IF Technical THEN gap ELSE [gap EXCEPT ![target.question] = 1 - @]
    /\ target' = NoTarget /\ outcome' = "-" /\ inherited' = FALSE
    /\ UNCHANGED <<facts, rows, found, unread, calls, queue, started, restarts, asked, spent>>

------------------------------------------------------------------------------
(* The replan node: up to three gaps, by priority and coverage, restart    *)
(* with new hints; a proven token limit is not forgotten.                  *)
ReplanLimit == 3
GapRank(q) == <<Priority[q], Coverage(quality, q)>>
ReplanTargets ==
    LET gaps == Unresolved(quality)
    IN  {S \in SUBSET gaps :
            /\ Cardinality(S) = Min({ReplanLimit, Cardinality(gaps)})
            /\ \A q \in S, r \in gaps \ S : ~Precedes(GapRank(r), GapRank(q))}

UsageReset_KeepsStrategy(S) ==
    [usage EXCEPT !.replan = FALSE, !.frozen = @ \ S, !.replans = @ + 1,
                  !.families = [q \in Questions |-> IF q \in S THEN {} ELSE @[q]]]

(* _reset_plan_scoped_question_budget                                      *)
UsageReset(S) ==
    [usage EXCEPT !.replan = FALSE, !.strategy = @ \ S, !.frozen = @ \ S, !.replans = @ + 1,
                  !.families = [q \in Questions |-> IF q \in S THEN {} ELSE @[q]]]

(* _reset_replanned_quality_state: only the low-gain history is forgotten. *)
QualityReset(S) ==
    [quality EXCEPT !.streak = [q \in Questions |-> IF q \in S THEN 0 ELSE @[q]]]

Replan ==
    /\ pc = "replan" /\ Unresolved(quality) # {}
    /\ \E S \in ReplanTargets :
           /\ usage' = UsageReset(S)
           /\ plan' = [version |-> plan.version + 1,
                       status |-> [q \in Questions |-> IF q \in S THEN "pending" ELSE plan.status[q]],
                       hints |-> [q \in Questions |-> IF q \in S THEN plan.version + 1 ELSE plan.hints[q]]]
           /\ quality' = QualityReset(S)
    /\ gap' = [q \in Questions |-> -1]
    /\ pc' = "schedule" /\ reason' = "-"
    /\ UNCHANGED <<facts, rows, found, unread, calls, queue, started, target, outcome, restarts,
                   asked, spent, inherited>>

(* The execution ends, by a crash, a durable retry of the model or a pause *)
(* that the user resumes; the next one schedules from the database, also   *)
(* when the report was being written: the graph always starts at planner,  *)
(* then research_iteration.                                                *)
Restart ==
    /\ pc \notin {"schedule", "failed"} /\ restarts < MaxRestarts
    /\ restarts' = restarts + 1
    /\ pc' = "schedule" /\ target' = NoTarget /\ outcome' = "-" /\ reason' = "-"
    /\ inherited' = (inherited \/ pc = "writing")
    /\ UNCHANGED <<plan, gap, usage, facts, quality, rows, found, unread, calls, queue, started,
                   asked, spent>>

Attempt ==
    \/ SearchReused
    \/ \E b \in BOOLEAN : SearchAnswered(b) \/ SearchFailed(b) \/ PageWithoutEvidence(b)
    \/ \E r \in {"deadline_exhausted", "stop_run", "budget_exhausted", "question_budget_exhausted",
                "yield_question"} : AttemptRefused(r)
    \/ \E d \in Dimensions, seen \in Findings, more, feedback \in BOOLEAN :
          RecordEvidence(d, seen, more, feedback)

Evaluate == QuestionExhausted \/ QuestionYielded \/ FinishIteration

SchedulerNext == PrepareTarget \/ Attempt \/ Evaluate \/ Replan \/ Restart

SchedulerSpec == SchedulerInit /\ [][SchedulerNext]_schedulerVars

(* The worker keeps stepping the graph: one loop, no other scheduler.      *)
FairSpec == SchedulerSpec /\ WF_schedulerVars(PrepareTarget \/ Attempt \/ Evaluate \/ Replan)

------------------------------------------------------------------------------
(* A retry is selected only when every incomplete question that can be     *)
(* worked on has had its first pass: "keep that fairness contract at the   *)
(* scheduler boundary" (prepare_target).                                   *)
FirstPassFirst ==
    [][(pc = "schedule" /\ pc' = "attempt" /\ ~target'.feedback /\ Attempts(target'.question) > 0)
       => \A q \in Untouched \intersect Reachable : Full(quality, q)]_schedulerVars

(* No provider is asked a query it has already answered, across replans    *)
(* and restarts: "it must never authorize replaying a query that already   *)
(* succeeded in an older plan" (prepare_target).  The scheduler's queries  *)
(* are compared with the succeeded ones; a feedback text is not, and only  *)
(* the unique index, which fails the run, keeps a repeated one away.       *)
NoQueryReplayed == [][asked' # asked \/ usage'.searches = usage.searches \/ outcome' = "provider_error"]_schedulerVars

(* A question that met its hard token limit is never scheduled again, in   *)
(* no plan version (_reset_plan_scoped_question_budget); feedback queries  *)
(* are not scheduled.                                                      *)
HardLimitSurvivesReplan ==
    [][(pc = "schedule" /\ pc' = "attempt" /\ ~target'.feedback)
       => target'.question \notin spent]_schedulerVars

(* A question is frozen only while every query family of its current plan  *)
(* has run (_query_space_exhausted_for_freeze), replans included.          *)
FrozenAfterEveryFamily == \A q \in usage.frozen : usage.families[q] = FamilySet

(* The replan node always finds a gap: without one it raises and the run   *)
(* fails.                                                                  *)
ReplanHasGap == pc = "replan" => Unresolved(quality) # {}

(* Research that goes on has not met the quality gate: the gate is looked  *)
(* at in the evaluation that meets it.  The exception is an execution that *)
(* takes over from one that was writing: prepare_target finds the gate met *)
(* and yet hands out targets, until its first evaluation.  A met gate is   *)
(* never replanned.                                                        *)
GateMetEndsResearch ==
    /\ pc # "writing" /\ QualityMet(quality) => inherited
    /\ pc = "replan" => ~QualityMet(quality)

(* A run that stops because sources are used up leaves no question without *)
(* a pass of the current plan, but for those out of tokens and those that  *)
(* are complete and give way to the pages kept for the critical gaps.      *)
NothingLeftUntouched ==
    (pc = "writing" /\ reason \in {"sources_exhausted", "source_space_exhausted"})
        => \A q \in Questions : plan.status[q] = "pending" => q \in usage.exhausted \/ Full(quality, q)

(* Research ends, in every execution: every step that selects a target is  *)
(* paid from the action budget or from the queries that are left.  It ends *)
(* in a report, or in a failed run when a feedback text repeats.           *)
ResearchEnds == []<>(pc \in {"writing", "failed"})

(* A question freezes, the run replans and research stops only for the     *)
(* reason the evaluation gives, whatever marks crashes and replans left    *)
(* behind (finish_iteration, prepare_target).                              *)
StopsAreJustified ==
    /\ SchedulerTypeOK
    /\ FrozenAfterEveryFamily /\ ReplanHasGap
    /\ GateMetEndsResearch /\ NothingLeftUntouched

(* No choice of prepare_target repeats spent work or passes a question     *)
(* over: not across replans, restarts and provider failures.               *)
ChoicesAreFresh == NoQueryReplayed /\ HardLimitSurvivesReplan /\ FirstPassFirst

==============================================================================
