------------------------ MODULE ResearchStateProofs ------------------------
(***************************************************************************)
(* Proofs about the state a research run is steered by and shows:          *)
(* QuestionScheduler, for any questions, dimensions, query families and    *)
(* budgets, and StateRuntime, for any executions, requests and limits.     *)
(* The two components have no variable in common.                          *)
(***************************************************************************)
EXTENDS QuestionScheduler, StateRuntime, FiniteSetTheorems, SequenceTheorems,
        WellFoundedInduction, TLAPS

------------------------------------------------------------------------------
(* The inductive invariant, part by part.                                  *)
Busy == {"attempt", "read", "evaluate"}
QuerySpace ==
    Questions \X (FamilySet \union {"feedback"}) \X (Dimensions \union {"-"})
              \X (1..(MaxReplans + Phrases + 1))
FeedbackSpace == UNION {FeedbackTexts(q) : q \in Questions}

PlanTyped ==
    plan \in [version : 1..(MaxReplans + 1), status : [Questions -> Statuses],
              hints : [Questions -> 1..(MaxReplans + 1)]]

UsageTyped ==
    usage \in [actions : Nat, searches : Nat, pages : 0..MaxPages, iterations : Nat,
               replans : 0..MaxReplans, replan : BOOLEAN, guarded : BOOLEAN,
               technical : [Questions -> Nat], families : [Questions -> SUBSET FamilySet],
               outcomes : {usage.outcomes}, exhausted : SUBSET Questions,
               strategy : SUBSET Questions, source : SUBSET Questions,
               frozen : SUBSET Questions]

FactsTyped ==
    facts \in [owners : [Dimensions -> 0..2], risky : SUBSET Dimensions,
               weak : SUBSET Dimensions, good : {facts.good}, gate : {facts.gate}]

QualityTyped ==
    quality \in [seen : {TRUE, FALSE}, owners : [Dimensions -> 0..2],
                 required : [Dimensions -> 1..2], repair : SUBSET Questions,
                 good : {quality.good}, gate : {quality.gate}, streak : {quality.streak}]

RestTyped ==
    /\ gap \in [Questions -> -1..1]
    /\ found \subseteq Questions /\ unread \subseteq Questions
    /\ queue \in Seq(FeedbackSpace) /\ started \in 0..MaxFeedback /\ Len(queue) <= started
    /\ pc \in {"schedule", "attempt", "read", "evaluate", "replan", "writing", "failed"}
    /\ calls \subseteq QuerySpace /\ rows \subseteq calls /\ IsFiniteSet(rows)
    /\ asked \subseteq rows /\ inherited \in BOOLEAN

(* The plan version counts the replans; the replan node is entered only    *)
(* with one left and a gap to close.                                       *)
ReplanReady ==
    /\ plan.version = usage.replans + 1
    /\ pc = "replan" => usage.replans < MaxReplans /\ Unresolved(quality) # {}

(* A replan request survives a crash; until the replan node has run,       *)
(* prepare_target finds what it found when it wrote the request.           *)
ReplanRequest ==
    usage.replan =>
        /\ pc \in {"schedule", "replan"}
        /\ queue = <<>> /\ Eligible = {} /\ ~SearchExhausted
        /\ Unresolved(quality) # {} /\ usage.replans < MaxReplans
        /\ ~QualityMet(quality)

(* A question that awaits its first pass carries no mark of an older plan. *)
PendingIsFree ==
    \A q \in Questions : plan.status[q] = "pending" => q \notin usage.strategy \union usage.frozen

SpentIsRecorded == spent \subseteq usage.exhausted

TargetSound ==
    pc \in Busy => /\ target.question \in Questions /\ target.family \in FamilySet
                   /\ gap[target.question] \in 0..1

(* The query of an attempt has a tool call, its own, but no results.       *)
QueriesFresh == pc = "attempt" => target.query \in calls \ rows

SchedulerInv ==
    /\ PlanTyped /\ UsageTyped /\ FactsTyped /\ QualityTyped /\ RestTyped
    /\ ReplanReady /\ ReplanRequest /\ GateMetEndsResearch
    /\ FrozenAfterEveryFamily /\ PendingIsFree /\ SpentIsRecorded
    /\ TargetSound /\ QueriesFresh /\ NothingLeftUntouched

------------------------------------------------------------------------------
(* Operators of the model.                                                 *)

(* A non-empty set of natural numbers has a least element. *)
LEMMA NatLeast ==
  ASSUME NEW T, T \subseteq Nat, T # {}
  PROVE  \E x \in T : \A y \in T : x <= y
<1>1. PICK x \in T : \A y \in T : ~ (<<y, x>> \in OpToRel(<, Nat))
  BY NatLessThanWellFounded, WFMin, Zenon
<1>2. \A y \in T : ~(y < x)
  BY <1>1, Zenon DEF OpToRel
<1> QED
  BY <1>2

(* A dimension's score is one of three halves. *)
LEMMA ScoreRange ==
  ASSUME QualityTyped, NEW d \in Dimensions
  PROVE  DimensionScore(quality, d) \in 0..2 /\ quality.owners[d] \in 0..2
<1>1. quality.owners[d] \in 0..2 /\ quality.required[d] \in 1..2
  BY DEF QualityTyped
<1> QED
  BY <1>1 DEF DimensionScore, Score

(* _select_unmet_requirement finds a requirement whenever one is unmet. *)
LEMMA LeastMetIsUnmet ==
  ASSUME QualityTyped, NEW unmet, unmet \subseteq Dimensions, unmet # {}
  PROVE  LeastMet(unmet) \in unmet
<1> DEFINE S(d) == DimensionScore(quality, d)
           O(d) == quality.owners[d]
           K(d) == 3 * S(d) + O(d)
<1>1. \A d \in unmet : S(d) \in 0..2 /\ O(d) \in 0..2
  BY ScoreRange
<1> HIDE DEF S, O
<1>2. {K(d) : d \in unmet} \subseteq Nat /\ {K(d) : d \in unmet} # {}
  BY <1>1
<1>3. PICK x \in {K(d) : d \in unmet} : \A y \in {K(d) : d \in unmet} : x <= y
  BY <1>2, NatLeast
<1>4. PICK d \in unmet : x = K(d)
  BY <1>3
<1>5. ASSUME NEW e \in unmet PROVE ~Precedes(<<S(e), O(e)>>, <<S(d), O(d)>>)
  <2>1. K(d) <= K(e)
    BY <1>3, <1>4
  <2>2. S(d) <= S(e)
    BY <2>1, <1>1
  <2>3. S(d) = S(e) => O(d) <= O(e)
    BY <2>1, <1>1
  <2>4. SUFFICES ASSUME NEW i \in 1..2, <<S(e), O(e)>>[i] < <<S(d), O(d)>>[i],
                        \A j \in 1..(i - 1) : <<S(e), O(e)>>[j] = <<S(d), O(d)>>[j]
                 PROVE FALSE
    BY DEF Precedes
  <2>5. i = 1 => S(e) < S(d)
    BY <2>4
  <2>6. i = 2 => O(e) < O(d) /\ S(e) = S(d)
    BY <2>4
  <2> QED
    BY <2>2, <2>3, <2>5, <2>6, <1>1
<1> QED
  BY <1>5 DEF LeastMet, S, O

(* A query names a dimension of its question or none. *)
LEMMA UnmetDimensionType ==
  ASSUME SchedulerAssumption, QualityTyped, NEW q \in Questions
  PROVE  UnmetDimension(q) \in Dimensions \union {"-"}
<1>1. Requirements[q] \subseteq Dimensions /\ Requirements[q] # {}
  BY DEF Dimensions, SchedulerAssumption
<1> DEFINE unmet == {d \in Requirements[q] : quality.seen /\ DimensionScore(quality, d) < 2}
<1>2. unmet # {} => LeastMet(unmet) \in Dimensions
  BY <1>1, LeastMetIsUnmet
<1> HIDE DEF unmet
<1>3. (CHOOSE d \in Requirements[q] : TRUE) \in Dimensions
  BY <1>1
<1> QED
  BY <1>2, <1>3 DEF UnmetDimension, unmet

LEMMA QueryOfType ==
  ASSUME SchedulerAssumption, QualityTyped, PlanTyped, NEW q \in Questions, NEW f \in FamilySet
  PROVE  QueryOf(q, f) \in QuerySpace /\ QueryOf(q, f)[2] # "feedback"
<1>1. UnmetDimension(q) \in Dimensions \union {"-"}
  BY UnmetDimensionType
<1>2. plan.hints[q] \in 1..(MaxReplans + Phrases + 1)
  BY DEF PlanTyped, SchedulerAssumption
<1>3. f # "feedback"
  BY DEF SchedulerAssumption
<1>4. (IF f = "scope" THEN "-" ELSE UnmetDimension(q)) \in Dimensions \union {"-"}
  BY <1>1
<1> QED
  BY <1>2, <1>3, <1>4 DEF QueryOf, Query, QuerySpace

(* The family the selected question asks has no row for its query. *)
LEMMA NextFamilyIsOpen ==
  ASSUME SchedulerAssumption, NEW q, OpenFamilies(q) # {}
  PROVE  NextFamily(q) \in FamilySet /\ QueryOf(q, NextFamily(q)) \notin rows
<1>1. DOMAIN Families = 1..Len(Families) /\ \A i \in DOMAIN Families : Families[i] \in FamilySet
  BY LenProperties, ElementOfSeq DEF SchedulerAssumption
<1> DEFINE F == {FamilyOrder(q, i) : i \in OpenFamilies(q)}
<1>2. \A i \in OpenFamilies(q) : i \in 1..Len(Families) /\ QueryOf(q, Families[i]) \notin rows
  BY <1>1 DEF OpenFamilies
<1>3. Len(Families) \in Nat
  BY LenProperties DEF SchedulerAssumption
<1>4. F \subseteq Nat /\ F # {}
  BY <1>2, <1>3 DEF FamilyOrder
<1>5. PICK x \in F : \A y \in F : x <= y
  BY <1>4, NatLeast
<1>6. \E i \in OpenFamilies(q) : \A j \in OpenFamilies(q) : FamilyOrder(q, i) <= FamilyOrder(q, j)
  BY <1>5
<1> DEFINE n == CHOOSE i \in OpenFamilies(q) :
                   \A j \in OpenFamilies(q) : FamilyOrder(q, i) <= FamilyOrder(q, j)
<1>7. n \in OpenFamilies(q)
  BY <1>6
<1>8. NextFamily(q) = Families[n]
  BY DEF NextFamily
<1> HIDE DEF n
<1> QED
  BY <1>1, <1>2, <1>7, <1>8

LEMMA GapRowType ==
  ASSUME RestTyped, NEW q \in Questions
  PROVE  GapRow(q) \in 0..1
<1>1. IsFiniteSet(RowsOf(q))
  BY FS_Subset DEF RowsOf, RestTyped
<1>2. Cardinality(RowsOf(q)) \in Nat
  BY <1>1, FS_CardinalityType
<1> DEFINE n == Cardinality(RowsOf(q))
<1>3. n % 2 \in 0..1
  <2> HIDE DEF n
  <2> QED BY <1>2 DEF n
<1>4. gap[q] \in -1..1
  BY DEF RestTyped
<1> QED
  BY <1>3, <1>4 DEF GapRow

(* As many families as QUERY_FAMILIES has places are all of them. *)
LEMMA EveryFamily ==
  ASSUME SchedulerAssumption, NEW T, T \subseteq FamilySet, Cardinality(T) >= Len(Families)
  PROVE  T = FamilySet
<1>1. DOMAIN Families = 1..Len(Families) /\ Len(Families) \in Nat
  BY LenProperties DEF SchedulerAssumption
<1>2. IsFiniteSet(1..Len(Families)) /\ Cardinality(1..Len(Families)) = Len(Families)
  <2> DEFINE n == Len(Families)
  <2>1. n \in Nat
    BY <1>1
  <2> HIDE DEF n
  <2>2. IsFiniteSet(1..n) /\ Cardinality(1..n) = IF 1 <= n THEN n - 1 + 1 ELSE 0
    BY <2>1, FS_Interval
  <2>3. IsFiniteSet(1..n) /\ Cardinality(1..n) = n
    BY <2>1, <2>2
  <2> QED
    BY <2>3 DEF n
<1>3. Families \in Surjection(1..Len(Families), FamilySet)
  BY <1>1 DEF FamilySet, Range, Surjection, SchedulerAssumption
<1>4. IsFiniteSet(FamilySet) /\ Cardinality(FamilySet) <= Len(Families)
  BY <1>2, <1>3, FS_Surjection
<1>5. IsFiniteSet(T) /\ Cardinality(T) <= Cardinality(FamilySet)
  BY <1>4, FS_Subset
<1>6. Cardinality(T) \in Nat /\ Cardinality(FamilySet) \in Nat
  BY <1>4, <1>5, FS_CardinalityType
<1>7. Cardinality(T) = Cardinality(FamilySet)
  BY <1>1, <1>4, <1>5, <1>6
<1> QED
  BY <1>4, <1>7, FS_Subset

LEMMA SettledStatusType ==
  ASSUME PlanTyped
  PROVE  /\ SettledStatus \in [Questions -> Statuses]
         /\ \A q \in Questions : SettledStatus[q] = "pending" => plan.status[q] = "pending"
BY DEF SettledStatus, Statuses, PlanTyped

(* Settling questions changes nobody's eligibility. *)
LEMMA SettlingKeepsEligible ==
  ASSUME PlanTyped, UsageTyped, QualityTyped,
         plan' = [plan EXCEPT !.status = SettledStatus],
         usage' = [usage EXCEPT !.replan = TRUE], quality' = quality, found' = found
  PROVE  Eligible' = Eligible
<1>1. plan'.status = SettledStatus /\ usage'.exhausted = usage.exhausted
      /\ usage'.strategy = usage.strategy /\ usage'.frozen = usage.frozen
      /\ usage'.searches = usage.searches /\ usage'.pages = usage.pages
      /\ usage'.families = usage.families
  BY DEF PlanTyped, UsageTyped
<1>2. CorroborationTargets' = CorroborationTargets
  BY DEF CorroborationTargets
<1>3. \A q \in Questions : Full(quality, q)' = Full(quality, q)
  BY DEF Full
<1>4. Candidates' = Candidates \ Settled
  BY <1>1 DEF Candidates, SettledStatus, Settled
<1>5. Settled' = {}
  <2> SUFFICES ASSUME NEW q \in Settled' PROVE FALSE
    OBVIOUS
  <2>1. q \in Candidates' /\ plan'.status[q] = "partial" /\ Full(quality, q)' /\ q \notin CorroborationTargets'
    BY DEF Settled
  <2>2. q \in Candidates /\ q \in Questions /\ q \notin Settled
    BY <2>1, <1>4 DEF Candidates
  <2>3. plan.status[q] = "partial"
    BY <1>1, <2>1, <2>2 DEF SettledStatus
  <2>4. Full(quality, q)
    BY <2>1, <2>2, <1>3
  <2>5. q \in Settled
    BY <1>2, <2>1, <2>2, <2>3, <2>4 DEF Settled
  <2> QED
    BY <2>2, <2>5
<1>6. Workable' = Workable
  BY <1>1, <1>4, <1>5 DEF Workable, Barred
<1>7. Reachable' = Reachable
  BY <1>1, <1>6 DEF Reachable, SearchExhausted
<1>8. \A q \in Questions : Attempts(q)' = Attempts(q)
  BY <1>1 DEF Attempts
<1>9. Workable \subseteq Questions /\ Reachable \subseteq Workable
  BY DEF Workable, Candidates, Reachable
<1>10. UnfinishedP1' = UnfinishedP1
  BY <1>2, <1>7, <1>8, <1>9 DEF UnfinishedP1
<1>11. Untouched' = Untouched
  BY <1>6, <1>8, <1>9 DEF Untouched
<1>12. P1Variants' = P1Variants
  BY <1>10, <1>11 DEF P1Variants
<1>13. PageReserve' = PageReserve
  BY DEF PageReserve
<1>14. ProtectedPages' = ProtectedPages
  BY <1>1, <1>13 DEF ProtectedPages
<1>15. \A q \in Reachable : plan'.status[q] = plan.status[q]
  BY <1>1, <1>9 DEF SettledStatus, Workable
<1> QED
  BY <1>7, <1>10, <1>12, <1>14, <1>15 DEF Eligible

LEMMA EligibleAgrees ==
  ASSUME plan' = plan, usage' = usage, quality' = quality, found' = found
  PROVE  Eligible' = Eligible
BY DEF Eligible, Reachable, Workable, Candidates, Settled, Barred, CorroborationTargets,
       SearchExhausted, P1Variants, UnfinishedP1, Untouched, Attempts, ProtectedPages, PageReserve

LEMMA EligibleIsReachable == Best \subseteq Eligible /\ Eligible \subseteq Reachable
                             /\ Reachable \subseteq Workable /\ Workable \subseteq Questions
BY DEF Best, Eligible, Reachable, Workable, Candidates

(* When nothing is eligible although searches are left, a question without *)
(* its first pass has met its token limit or is complete.                  *)
LEMMA NoneEligible ==
  ASSUME PendingIsFree, Eligible = {}, ~SearchExhausted,
         NEW q \in Questions, plan.status[q] = "pending", q \notin usage.exhausted
  PROVE  Full(quality, q)
<1> SUFFICES ASSUME ~Full(quality, q) PROVE FALSE
  OBVIOUS
<1>1. q \in Reachable
  BY DEF Reachable, Workable, Candidates, Settled, Barred, PendingIsFree
<1>2. CASE P1Variants
  <2>1. PICK r \in UnfinishedP1 : TRUE
    BY <1>2 DEF P1Variants
  <2>2. r \in Reachable /\ ~Full(quality, r)
    BY <2>1 DEF UnfinishedP1
  <2>3. r \in Eligible
    BY <2>1, <2>2 DEF Eligible
  <2> QED
    BY <2>3
<1>3. CASE ~P1Variants
  BY <1>1, <1>3 DEF Eligible
<1> QED
  BY <1>2, <1>3

(* The chosen question is a retry only when no incomplete question waits   *)
(* for its first pass.                                                     *)
LEMMA FirstPassWins ==
  ASSUME NEW q \in Best, Attempts(q) > 0, NEW r \in Untouched \intersect Reachable
  PROVE  Full(quality, r)
<1> SUFFICES ASSUME ~Full(quality, r) PROVE FALSE
  OBVIOUS
<1>1. ~P1Variants /\ Attempts(r) = 0 /\ Attempts(q) # 0
  BY DEF P1Variants, Untouched
<1>2. r \in Eligible
  BY <1>1 DEF Eligible
<1> DEFINE a == ScheduleKey(r)
           b == ScheduleKey(q)
<1>3. Len(a) = 5 /\ a[1] = 0
  BY <1>1 DEF ScheduleKey
<1>4. b[1] = 1
  BY <1>1 DEF ScheduleKey
<1> HIDE DEF a, b
<1>5. Precedes(a, b)
  <2>1. 1 \in 1..Len(a) /\ a[1] < b[1] /\ \A j \in 1..(1 - 1) : a[j] = b[j]
    BY <1>3, <1>4
  <2> QED
    BY <2>1 DEF Precedes
<1> QED
  BY <1>2, <1>5 DEF Best, a, b

------------------------------------------------------------------------------
(* Initial states and steps.                                               *)
LEMMA InitInv ==
  ASSUME SchedulerAssumption, SchedulerInit
  PROVE  SchedulerInv
<1>1. PlanTyped
  BY DEF PlanTyped, SchedulerInit, Statuses, SchedulerAssumption
<1>2. UsageTyped
  BY DEF UsageTyped, SchedulerInit, SchedulerAssumption
<1>3. FactsTyped
  BY DEF FactsTyped, SchedulerInit
<1>4. QualityTyped
  BY DEF QualityTyped, SchedulerInit
<1>5. RestTyped
  <2>1. <<>> \in Seq(FeedbackSpace) /\ Len(<<>>) = 0
    BY EmptySeq
  <2>2. MaxFeedback \in Nat
    BY DEF SchedulerAssumption
  <2>3. /\ queue = <<>> /\ started = 0 /\ rows = {} /\ calls = {} /\ asked = {} /\ found = {}
        /\ unread = {} /\ inherited = FALSE /\ pc = "schedule"
        /\ gap = [q \in Questions |-> -1]
    BY DEF SchedulerInit
  <2>4. queue \in Seq(FeedbackSpace) /\ Len(queue) <= started /\ started \in 0..MaxFeedback
    BY <2>1, <2>2, <2>3
  <2>5. IsFiniteSet(rows)
    BY <2>3, FS_EmptySet
  <2>6. gap \in [Questions -> -1..1]
    BY <2>3
  <2>7. calls \subseteq QuerySpace /\ rows \subseteq calls /\ asked \subseteq rows
    BY <2>3
  <2>8. found \subseteq Questions /\ unread \subseteq Questions /\ inherited \in BOOLEAN
    BY <2>3
  <2>9. pc \in {"schedule", "attempt", "read", "evaluate", "replan", "writing", "failed"}
    BY <2>3
  <2> QED
    BY <2>4, <2>5, <2>6, <2>7, <2>8, <2>9 DEF RestTyped
<1>6. ReplanReady /\ ReplanRequest /\ SpentIsRecorded /\ TargetSound /\ QueriesFresh
  BY DEF ReplanReady, ReplanRequest, SpentIsRecorded, TargetSound, QueriesFresh, SchedulerInit, Busy
<1>7. GateMetEndsResearch
  BY DEF GateMetEndsResearch, QualityMet, SchedulerInit
<1>8. FrozenAfterEveryFamily /\ PendingIsFree /\ NothingLeftUntouched
  BY DEF FrozenAfterEveryFamily, PendingIsFree, NothingLeftUntouched, SchedulerInit
<1> QED
  BY <1>1, <1>2, <1>3, <1>4, <1>5, <1>6, <1>7, <1>8 DEF SchedulerInv

LEMMA StopOnBudgetInv ==
  ASSUME SchedulerAssumption, SchedulerInv, StopOnBudget
  PROVE  SchedulerInv'
<1> USE DEF SchedulerInv
<1>1. /\ UNCHANGED <<plan, gap, usage, facts, quality, rows, found, unread, calls, queue, started,
                     outcome, restarts, asked, spent, inherited>>
      /\ pc = "schedule"
      /\ pc' = IF usage.replan THEN "replan" ELSE "writing"
      /\ reason' \in {"budget_exhausted", "deadline_exhausted"}
      /\ usage.replan => ~QualityMet(quality)
  BY DEF StopOnBudget, EnterWriting, ReplanRequest
<1>2. PlanTyped' /\ UsageTyped' /\ FactsTyped' /\ QualityTyped' /\ RestTyped'
  BY <1>1 DEF PlanTyped, UsageTyped, FactsTyped, QualityTyped, RestTyped
<1>3. ReplanReady'
  BY <1>1 DEF ReplanReady, ReplanRequest
<1>4. ReplanRequest'
  BY <1>1, EligibleAgrees DEF ReplanRequest, SearchExhausted
<1>5. GateMetEndsResearch'
  BY <1>1 DEF GateMetEndsResearch
<1>6. FrozenAfterEveryFamily' /\ PendingIsFree' /\ SpentIsRecorded'
  BY <1>1 DEF FrozenAfterEveryFamily, PendingIsFree, SpentIsRecorded
<1>7. TargetSound' /\ QueriesFresh' /\ NothingLeftUntouched'
  BY <1>1 DEF TargetSound, QueriesFresh, NothingLeftUntouched, Busy
<1> QED
  BY <1>2, <1>3, <1>4, <1>5, <1>6, <1>7

(* The text of a feedback query is a query of its question. *)
LEMMA FeedbackTextType ==
  ASSUME SchedulerAssumption, NEW text \in FeedbackSpace
  PROVE  text \in QuerySpace /\ text[1] \in Questions
<1>1. PICK q \in Questions : text \in FeedbackTexts(q)
  BY DEF FeedbackSpace
<1>2. PICK d \in Requirements[q], n \in 1..Phrases : text = <<q, "feedback", d, n>>
  BY <1>1 DEF FeedbackTexts
<1>3. d \in Dimensions /\ n \in 1..(MaxReplans + Phrases + 1)
  BY <1>2 DEF Dimensions, SchedulerAssumption
<1> QED
  BY <1>2, <1>3 DEF QuerySpace

LEMMA TakeFeedbackInv ==
  ASSUME SchedulerAssumption, SchedulerInv, TakeFeedback
  PROVE  SchedulerInv'
<1> USE DEF SchedulerInv
<1> DEFINE text == Head(queue)
           q == text[1]
<1>1. /\ UNCHANGED <<plan, usage, facts, quality, rows, found, unread, started, outcome, reason,
                     restarts, asked, spent, inherited>>
      /\ pc = "schedule" /\ pc' = "attempt" /\ queue' = Tail(queue) /\ queue # <<>>
      /\ text \notin calls /\ calls' = calls \union {text}
      /\ target' = [question |-> q, family |-> "scope", feedback |-> TRUE, query |-> text]
      /\ gap' = [gap EXCEPT ![q] = GapRow(q)]
  BY DEF TakeFeedback, Scheduling
<1>2. /\ text \in FeedbackSpace /\ queue' \in Seq(FeedbackSpace)
      /\ Len(queue') = Len(queue) - 1 /\ Len(queue) \in Nat
  BY <1>1, HeadTailProperties, LenProperties DEF RestTyped
<1>3. text \in QuerySpace /\ q \in Questions
  BY <1>2, FeedbackTextType
<1> HIDE DEF text, q
<1>4. PlanTyped' /\ UsageTyped' /\ FactsTyped' /\ QualityTyped'
  BY <1>1 DEF PlanTyped, UsageTyped, FactsTyped, QualityTyped
<1>5. GapRow(q) \in 0..1
  BY <1>3, GapRowType
<1>6. RestTyped' /\ gap'[q] \in 0..1
  BY <1>1, <1>2, <1>3, <1>5 DEF RestTyped
<1>7. ReplanReady' /\ ReplanRequest' /\ GateMetEndsResearch'
  BY <1>1 DEF ReplanReady, ReplanRequest, GateMetEndsResearch
<1>8. FrozenAfterEveryFamily' /\ PendingIsFree' /\ SpentIsRecorded' /\ NothingLeftUntouched'
  BY <1>1 DEF FrozenAfterEveryFamily, PendingIsFree, SpentIsRecorded, NothingLeftUntouched
<1>9. TargetSound'
  BY <1>1, <1>3, <1>6 DEF TargetSound, SchedulerAssumption
<1>10. QueriesFresh'
  BY <1>1 DEF QueriesFresh, RestTyped
<1> QED
  BY <1>4, <1>6, <1>7, <1>8, <1>9, <1>10

LEMMA FeedbackRepeatsInv ==
  ASSUME SchedulerAssumption, SchedulerInv, FeedbackRepeats
  PROVE  SchedulerInv'
<1> USE DEF SchedulerInv, FeedbackRepeats, Scheduling
<1>1. PlanTyped' /\ UsageTyped' /\ FactsTyped' /\ QualityTyped' /\ RestTyped'
  BY DEF PlanTyped, UsageTyped, FactsTyped, QualityTyped, RestTyped
<1>2. ReplanReady' /\ ReplanRequest' /\ GateMetEndsResearch'
  BY DEF ReplanReady, ReplanRequest, GateMetEndsResearch
<1>3. FrozenAfterEveryFamily' /\ PendingIsFree' /\ SpentIsRecorded'
  BY DEF FrozenAfterEveryFamily, PendingIsFree, SpentIsRecorded
<1>4. TargetSound' /\ QueriesFresh' /\ NothingLeftUntouched'
  BY DEF TargetSound, QueriesFresh, NothingLeftUntouched, Busy
<1> QED
  BY <1>1, <1>2, <1>3, <1>4

LEMMA RequestReplanInv ==
  ASSUME SchedulerAssumption, SchedulerInv, RequestReplan
  PROVE  SchedulerInv'
<1> USE DEF SchedulerInv
<1>1. /\ UNCHANGED <<gap, facts, quality, rows, found, unread, calls, queue, started, target,
                     outcome, reason, restarts, asked, spent, inherited>>
      /\ usage' = [usage EXCEPT !.replan = TRUE]
      /\ plan' = [plan EXCEPT !.status = SettledStatus]
      /\ pc = "schedule" /\ pc' = "replan" /\ queue = <<>> /\ Eligible = {} /\ ~SearchExhausted
      /\ Unresolved(quality) # {} /\ usage.replans < MaxReplans /\ ~QualityMet(quality)
  BY DEF RequestReplan, Scheduling
<1>2. /\ SettledStatus \in [Questions -> Statuses]
      /\ \A q \in Questions : SettledStatus[q] = "pending" => plan.status[q] = "pending"
  BY SettledStatusType
<1>3. PlanTyped' /\ plan'.status = SettledStatus /\ plan'.version = plan.version
  BY <1>1, <1>2 DEF PlanTyped
<1>4. UsageTyped' /\ usage'.replans = usage.replans /\ usage'.strategy = usage.strategy
      /\ usage'.frozen = usage.frozen /\ usage'.exhausted = usage.exhausted
      /\ usage'.families = usage.families /\ usage'.searches = usage.searches
  BY <1>1 DEF UsageTyped
<1>5. FactsTyped' /\ QualityTyped' /\ RestTyped'
  BY <1>1 DEF FactsTyped, QualityTyped, RestTyped
<1>6. ReplanReady'
  BY <1>1, <1>3, <1>4 DEF ReplanReady
<1>7. ReplanRequest'
  <2>1. Eligible' = Eligible
    BY <1>1, SettlingKeepsEligible
  <2> QED
    BY <1>1, <1>4, <2>1 DEF ReplanRequest, SearchExhausted
<1>8. GateMetEndsResearch'
  BY <1>1 DEF GateMetEndsResearch
<1>9. FrozenAfterEveryFamily' /\ PendingIsFree' /\ SpentIsRecorded'
  BY <1>1, <1>2, <1>3, <1>4 DEF FrozenAfterEveryFamily, PendingIsFree, SpentIsRecorded
<1>10. TargetSound' /\ QueriesFresh' /\ NothingLeftUntouched'
  BY <1>1 DEF TargetSound, QueriesFresh, NothingLeftUntouched, Busy
<1> QED
  BY <1>3, <1>4, <1>5, <1>6, <1>7, <1>8, <1>9, <1>10

LEMMA NothingEligibleInv ==
  ASSUME SchedulerAssumption, SchedulerInv, NothingEligible
  PROVE  SchedulerInv'
<1> USE DEF SchedulerInv
<1>1. /\ UNCHANGED <<gap, usage, facts, quality, rows, found, unread, calls, queue, started,
                     outcome, restarts, asked, spent, inherited>>
      /\ plan' = [plan EXCEPT !.status = SettledStatus]
      /\ pc = "schedule" /\ queue = <<>> /\ Eligible = {}
  BY DEF NothingEligible, Scheduling
<1>2. ~usage.replan
  BY DEF NothingEligible, ReplanRequest, UsageTyped
<1>3. /\ pc' = "writing"
      /\ SearchExhausted => reason' = "search_exhausted"
      /\ reason' \in {"search_exhausted", "quality_met", "sources_exhausted"}
  BY <1>2 DEF NothingEligible, EnterWriting
<1>4. /\ SettledStatus \in [Questions -> Statuses]
      /\ \A q \in Questions : SettledStatus[q] = "pending" => plan.status[q] = "pending"
  BY SettledStatusType
<1>5. PlanTyped' /\ plan'.status = SettledStatus /\ plan'.version = plan.version
  BY <1>1, <1>4 DEF PlanTyped
<1>6. UsageTyped' /\ FactsTyped' /\ QualityTyped' /\ RestTyped'
  BY <1>1, <1>3 DEF UsageTyped, FactsTyped, QualityTyped, RestTyped
<1>7. ReplanReady' /\ ReplanRequest' /\ GateMetEndsResearch'
  BY <1>1, <1>2, <1>3, <1>5 DEF ReplanReady, ReplanRequest, GateMetEndsResearch
<1>8. FrozenAfterEveryFamily' /\ PendingIsFree' /\ SpentIsRecorded'
  BY <1>1, <1>4, <1>5 DEF FrozenAfterEveryFamily, PendingIsFree, SpentIsRecorded
<1>9. TargetSound' /\ QueriesFresh'
  BY <1>1, <1>3 DEF TargetSound, QueriesFresh, Busy
<1>10. NothingLeftUntouched'
  <2>1. ASSUME NEW q \in Questions, plan'.status[q] = "pending", ~SearchExhausted
        PROVE  q \in usage'.exhausted \/ Full(quality', q)
    <3>1. plan.status[q] = "pending"
      BY <1>4, <1>5, <2>1
    <3>2. q \in usage.exhausted \/ Full(quality, q)
      BY <1>1, <2>1, <3>1, NoneEligible
    <3> QED
      BY <1>1, <3>2
  <2> QED
    BY <1>3, <2>1 DEF NothingLeftUntouched
<1> QED
  BY <1>5, <1>6, <1>7, <1>8, <1>9, <1>10

LEMMA RetireQuestionInv ==
  ASSUME SchedulerAssumption, SchedulerInv, NEW q \in Best, RetireQuestion(q)
  PROVE  SchedulerInv'
<1> USE DEF SchedulerInv
<1> DEFINE st == IF Coverage(quality, q) > 0 THEN "partial" ELSE "blocked"
<1>1. /\ UNCHANGED <<facts, quality, rows, found, unread, calls, queue, started, target, outcome,
                     reason, restarts, asked, spent, inherited>>
      /\ usage' = [usage EXCEPT !.strategy = @ \union {q}, !.source = @ \union {q}]
      /\ plan' = [plan EXCEPT !.status = [SettledStatus EXCEPT ![q] = st]]
      /\ gap' = [gap EXCEPT ![q] = GapRow(q)]
      /\ pc = "schedule" /\ pc' = IF usage.replan THEN "replan" ELSE "schedule"
  BY DEF RetireQuestion, Scheduling
<1>2. st \in {"partial", "blocked"}
  OBVIOUS
<1> HIDE DEF st
<1>3. q \in Questions /\ q \in Eligible
  BY EligibleIsReachable
<1>4. usage.replan = FALSE
  BY <1>3 DEF ReplanRequest, UsageTyped
<1>5. /\ SettledStatus \in [Questions -> Statuses]
      /\ \A r \in Questions : SettledStatus[r] = "pending" => plan.status[r] = "pending"
  BY SettledStatusType
<1>6. /\ [SettledStatus EXCEPT ![q] = st] \in [Questions -> Statuses]
      /\ \A r \in Questions : [SettledStatus EXCEPT ![q] = st][r] = "pending"
                                 => plan.status[r] = "pending" /\ r # q
  BY <1>2, <1>3, <1>5 DEF Statuses
<1>7. PlanTyped' /\ plan'.status = [SettledStatus EXCEPT ![q] = st] /\ plan'.version = plan.version
  BY <1>1, <1>6 DEF PlanTyped
<1>8. UsageTyped' /\ usage'.replans = usage.replans /\ usage'.strategy = usage.strategy \union {q}
      /\ usage'.frozen = usage.frozen /\ usage'.exhausted = usage.exhausted
      /\ usage'.families = usage.families /\ usage'.replan = FALSE
  BY <1>1, <1>3, <1>4 DEF UsageTyped
<1>9. FactsTyped' /\ QualityTyped'
  BY <1>1 DEF FactsTyped, QualityTyped
<1>10. RestTyped'
  BY <1>1, <1>3, GapRowType DEF RestTyped
<1>11. ReplanReady' /\ ReplanRequest' /\ GateMetEndsResearch'
  BY <1>1, <1>4, <1>7, <1>8 DEF ReplanReady, ReplanRequest, GateMetEndsResearch
<1>12. FrozenAfterEveryFamily' /\ PendingIsFree' /\ SpentIsRecorded'
  BY <1>1, <1>6, <1>7, <1>8 DEF FrozenAfterEveryFamily, PendingIsFree, SpentIsRecorded
<1>13. TargetSound' /\ QueriesFresh' /\ NothingLeftUntouched'
  BY <1>1, <1>4 DEF TargetSound, QueriesFresh, NothingLeftUntouched, Busy
<1> QED
  BY <1>7, <1>8, <1>9, <1>10, <1>11, <1>12, <1>13

LEMMA SelectTargetInv ==
  ASSUME SchedulerAssumption, SchedulerInv, NEW q \in Best, SelectTarget(q)
  PROVE  SchedulerInv'
<1> USE DEF SchedulerInv
<1> DEFINE chosen == [question |-> q, family |-> NextFamily(q),
                      query |-> QueryOf(q, NextFamily(q)), feedback |-> FALSE]
<1>1. /\ UNCHANGED <<facts, quality, rows, found, unread, queue, started, outcome,
                     restarts, asked, spent, inherited>>
      /\ plan' = [plan EXCEPT !.status = [SettledStatus EXCEPT ![q] = "active"]]
      /\ gap' = [gap EXCEPT ![q] = GapRow(q)]
      /\ pc = "schedule" /\ OpenFamilies(q) # {}
      /\ calls' = calls \union {chosen.query}
  BY DEF SelectTarget, Scheduling
<1>2. q \in Questions /\ q \in Eligible
  BY EligibleIsReachable
<1>3. usage.replan = FALSE
  BY <1>2 DEF ReplanRequest, UsageTyped
<1>4. \/ pc' = "writing" /\ reason' = "search_exhausted" /\ usage' = usage
      \/ pc' = "attempt" /\ target' = chosen /\ usage' = [usage EXCEPT !.actions = @ + 1]
  BY <1>3 DEF SelectTarget, EnterWriting
<1>5. NextFamily(q) \in FamilySet /\ QueryOf(q, NextFamily(q)) \notin rows
  BY <1>1, NextFamilyIsOpen
<1>6. QueryOf(q, NextFamily(q)) \in QuerySpace
  BY <1>2, <1>5, QueryOfType
<1>7. chosen.question = q /\ chosen.family \in FamilySet /\ chosen.query \in QuerySpace \ rows
  BY <1>5, <1>6
<1> HIDE DEF chosen
<1>8. /\ SettledStatus \in [Questions -> Statuses]
      /\ \A r \in Questions : SettledStatus[r] = "pending" => plan.status[r] = "pending"
  BY SettledStatusType
<1>9. /\ [SettledStatus EXCEPT ![q] = "active"] \in [Questions -> Statuses]
      /\ \A r \in Questions : [SettledStatus EXCEPT ![q] = "active"][r] = "pending"
                                 => plan.status[r] = "pending"
  BY <1>2, <1>8 DEF Statuses
<1>10. PlanTyped' /\ plan'.status = [SettledStatus EXCEPT ![q] = "active"]
       /\ plan'.version = plan.version
  BY <1>1, <1>9 DEF PlanTyped
<1>11. UsageTyped' /\ usage'.replans = usage.replans /\ usage'.strategy = usage.strategy
       /\ usage'.frozen = usage.frozen /\ usage'.exhausted = usage.exhausted
       /\ usage'.families = usage.families /\ usage'.replan = FALSE
  <2>1. CASE usage' = usage
    BY <1>3, <2>1 DEF UsageTyped
  <2>2. CASE usage' = [usage EXCEPT !.actions = @ + 1]
    <3>1. usage.actions + 1 \in Nat
      BY DEF UsageTyped
    <3> QED
      BY <1>3, <2>2, <3>1 DEF UsageTyped
  <2> QED
    BY <1>4, <2>1, <2>2
<1>12. FactsTyped' /\ QualityTyped'
  BY <1>1 DEF FactsTyped, QualityTyped
<1>13. GapRow(q) \in 0..1
  BY <1>2, GapRowType
<1>14. RestTyped' /\ gap'[q] \in 0..1
  BY <1>1, <1>2, <1>4, <1>7, <1>13 DEF RestTyped
<1>15. ReplanReady' /\ ReplanRequest' /\ GateMetEndsResearch'
  BY <1>1, <1>4, <1>10, <1>11 DEF ReplanReady, ReplanRequest, GateMetEndsResearch
<1>16. FrozenAfterEveryFamily' /\ PendingIsFree' /\ SpentIsRecorded'
  BY <1>1, <1>9, <1>10, <1>11 DEF FrozenAfterEveryFamily, PendingIsFree, SpentIsRecorded
<1>17. TargetSound' /\ QueriesFresh' /\ NothingLeftUntouched'
  BY <1>1, <1>2, <1>4, <1>7, <1>14
     DEF TargetSound, QueriesFresh, NothingLeftUntouched, Busy
<1> QED
  BY <1>10, <1>11, <1>12, <1>14, <1>15, <1>16, <1>17

(* What a step of the attempt leaves as it is.                             *)
AttemptFrame ==
    /\ pc \in {"attempt", "read"} /\ pc' \in {"read", "evaluate"}
    /\ plan' = plan /\ quality' = quality /\ gap' = gap /\ target' = target /\ spent' = spent
    /\ inherited' = inherited
    /\ usage'.replans = usage.replans /\ usage'.replan = usage.replan
    /\ usage'.strategy = usage.strategy /\ usage'.frozen = usage.frozen
    /\ usage'.exhausted = usage.exhausted
    /\ \A q \in Questions : usage.families[q] \subseteq usage'.families[q]

LEMMA AttemptKeeps ==
  ASSUME SchedulerInv, AttemptFrame, UsageTyped'
  PROVE  /\ PlanTyped' /\ QualityTyped' /\ ReplanReady' /\ ReplanRequest' /\ GateMetEndsResearch'
         /\ FrozenAfterEveryFamily' /\ PendingIsFree' /\ SpentIsRecorded' /\ TargetSound'
         /\ NothingLeftUntouched'
<1> USE DEF SchedulerInv, AttemptFrame
<1>1. PlanTyped' /\ QualityTyped'
  BY DEF PlanTyped, QualityTyped
<1>2. ReplanReady' /\ ReplanRequest' /\ GateMetEndsResearch'
  BY DEF ReplanReady, ReplanRequest, GateMetEndsResearch
<1>3. FrozenAfterEveryFamily'
  <2> SUFFICES ASSUME NEW q \in usage'.frozen PROVE usage'.families[q] = FamilySet
    BY DEF FrozenAfterEveryFamily
  <2>1. q \in Questions /\ usage.families[q] = FamilySet
    BY DEF FrozenAfterEveryFamily, UsageTyped
  <2>2. usage'.families[q] \subseteq FamilySet
    BY <2>1 DEF UsageTyped
  <2> QED
    BY <2>1, <2>2
<1>4. PendingIsFree' /\ SpentIsRecorded' /\ TargetSound' /\ NothingLeftUntouched'
  BY DEF PendingIsFree, SpentIsRecorded, TargetSound, NothingLeftUntouched, Busy
<1> QED
  BY <1>1, <1>2, <1>3, <1>4

LEMMA SearchReusedInv ==
  ASSUME SchedulerAssumption, SchedulerInv, SearchReused
  PROVE  SchedulerInv'
<1> USE DEF SchedulerInv
<1>1. UsageTyped' /\ FactsTyped'
  BY DEF SearchReused, UsageTyped, FactsTyped
<1>2. AttemptFrame
  BY DEF AttemptFrame, SearchReused
<1>3. target.query \in calls
  BY DEF SearchReused, QueriesFresh
<1>4. rows' \subseteq calls' /\ IsFiniteSet(rows') /\ asked' \subseteq rows'
  BY <1>3, FS_AddElement DEF SearchReused, RestTyped
<1>5. RestTyped'
  BY <1>4 DEF SearchReused, RestTyped
<1>6. QueriesFresh'
  BY <1>3 DEF SearchReused, QueriesFresh
<1> QED
  BY <1>1, <1>2, <1>5, <1>6, AttemptKeeps

LEMMA SearchAnsweredInv ==
  ASSUME SchedulerAssumption, SchedulerInv, NEW b \in BOOLEAN, SearchAnswered(b)
  PROVE  SchedulerInv'
<1> USE DEF SchedulerInv
<1>1. target.question \in Questions /\ target.family \in FamilySet
  BY DEF SearchAnswered, TargetSound, Busy
<1>2. UsageTyped'
  <2> DEFINE ran == usage.families[target.question] \union {target.family}
             fams == [usage.families EXCEPT ![target.question] = ran]
  <2>1. ran \subseteq FamilySet /\ usage.searches + 1 \in Nat
    BY <1>1 DEF UsageTyped
  <2>2. usage' = [usage EXCEPT !.searches = usage.searches + 1, !.families = fams]
    BY DEF SearchAnswered, UsageTyped
  <2> HIDE DEF ran
  <2>3. fams \in [Questions -> SUBSET FamilySet]
    BY <1>1, <2>1 DEF UsageTyped
  <2> HIDE DEF fams
  <2> QED
    BY <2>1, <2>2, <2>3 DEF UsageTyped
<1>3. FactsTyped'
  BY DEF SearchAnswered, FactsTyped
<1>4. AttemptFrame
  <2>1. pc = "attempt" /\ pc' \in {"read", "evaluate"}
    BY DEF SearchAnswered, EndAttempt
  <2>2. /\ plan' = plan /\ quality' = quality /\ gap' = gap /\ target' = target /\ spent' = spent
        /\ inherited' = inherited
    BY DEF SearchAnswered
  <2>3. /\ usage'.replans = usage.replans /\ usage'.replan = usage.replan
        /\ usage'.strategy = usage.strategy /\ usage'.frozen = usage.frozen
        /\ usage'.exhausted = usage.exhausted
        /\ \A q \in Questions : usage.families[q] \subseteq usage'.families[q]
    BY <1>1 DEF SearchAnswered, UsageTyped
  <2> QED
    BY <2>1, <2>2, <2>3 DEF AttemptFrame
<1>5. target.query \in calls
  BY DEF SearchAnswered, QueriesFresh
<1>6. rows' \subseteq calls' /\ IsFiniteSet(rows') /\ asked' \subseteq rows'
  BY <1>5, FS_AddElement DEF SearchAnswered, RestTyped
<1>7. RestTyped'
  BY <1>1, <1>4, <1>6 DEF SearchAnswered, RestTyped, AttemptFrame
<1>8. QueriesFresh'
  BY <1>4, <1>5 DEF SearchAnswered, QueriesFresh, AttemptFrame
<1> QED
  BY <1>2, <1>3, <1>4, <1>7, <1>8, AttemptKeeps

LEMMA SearchFailedInv ==
  ASSUME SchedulerAssumption, SchedulerInv, NEW b \in BOOLEAN, SearchFailed(b)
  PROVE  SchedulerInv'
<1> USE DEF SchedulerInv
<1>1. target.question \in Questions /\ target.family \in FamilySet
  BY DEF SearchFailed, TargetSound, Busy
<1>2. UsageTyped'
  <2> DEFINE ran == IF b THEN usage.families[target.question] \union {target.family} ELSE usage.families[target.question]
             fams == [usage.families EXCEPT ![target.question] = ran]
  <2>1. ran \subseteq FamilySet /\ usage.searches + 1 \in Nat
    BY <1>1 DEF UsageTyped
  <2>2. usage' = [usage EXCEPT !.searches = usage.searches + 1, !.families = fams]
    BY DEF SearchFailed, UsageTyped
  <2> HIDE DEF ran
  <2>3. fams \in [Questions -> SUBSET FamilySet]
    BY <1>1, <2>1 DEF UsageTyped
  <2> HIDE DEF fams
  <2> QED
    BY <2>1, <2>2, <2>3 DEF UsageTyped
<1>3. FactsTyped'
  BY DEF SearchFailed, FactsTyped
<1>4. AttemptFrame
  BY <1>1 DEF SearchFailed, UsageTyped, AttemptFrame, EndAttempt
<1>5. RestTyped' /\ QueriesFresh'
  BY <1>4 DEF SearchFailed, EndAttempt, RestTyped, QueriesFresh
<1> QED
  BY <1>2, <1>3, <1>4, <1>5, AttemptKeeps

LEMMA AttemptRefusedInv ==
  ASSUME SchedulerAssumption, SchedulerInv, NEW r, AttemptRefused(r)
  PROVE  SchedulerInv'
<1> USE DEF SchedulerInv
<1>1. UsageTyped' /\ FactsTyped'
  BY DEF AttemptRefused, UsageTyped, FactsTyped
<1>2. AttemptFrame
  BY DEF AttemptRefused, UsageTyped, AttemptFrame, EndAttempt
<1>3. RestTyped' /\ QueriesFresh'
  BY DEF AttemptRefused, EndAttempt, RestTyped, QueriesFresh
<1> QED
  BY <1>1, <1>2, <1>3, AttemptKeeps

LEMMA PageWithoutEvidenceInv ==
  ASSUME SchedulerAssumption, SchedulerInv, NEW b \in BOOLEAN, PageWithoutEvidence(b)
  PROVE  SchedulerInv'
<1> USE DEF SchedulerInv
<1>1. UsageTyped'
  <2>1. usage.pages + 1 \in 0..MaxPages
    BY DEF PageWithoutEvidence, UsageTyped, SchedulerAssumption
  <2> QED
    BY <2>1 DEF PageWithoutEvidence, UsageTyped
<1>2. FactsTyped'
  BY DEF PageWithoutEvidence, FactsTyped
<1>3. AttemptFrame
  BY DEF PageWithoutEvidence, UsageTyped, AttemptFrame, EndAttempt
<1>4. RestTyped' /\ QueriesFresh'
  BY DEF PageWithoutEvidence, EndAttempt, RestTyped, QueriesFresh
<1> QED
  BY <1>1, <1>2, <1>3, <1>4, AttemptKeeps

LEMMA RecordEvidenceInv ==
  ASSUME SchedulerAssumption, SchedulerInv, NEW d \in Dimensions, NEW seen \in Findings,
         NEW more \in BOOLEAN, NEW feedback \in BOOLEAN, RecordEvidence(d, seen, more, feedback)
  PROVE  SchedulerInv'
<1> USE DEF SchedulerInv
<1>1. UsageTyped'
  BY DEF RecordEvidence, UsageTyped, SchedulerAssumption
<1>2. FactsTyped'
  BY DEF RecordEvidence, FactsTyped
<1>3. AttemptFrame
  BY DEF RecordEvidence, UsageTyped, AttemptFrame, EndAttempt
<1>4. target.question \in Questions
  BY DEF RecordEvidence, TargetSound, Busy
<1>5. /\ queue' \in Seq(FeedbackSpace) /\ started' \in 0..MaxFeedback
      /\ Len(queue') <= started'
  <2>1. \A text \in FeedbackTexts(target.question) :
          /\ Append(queue, text) \in Seq(FeedbackSpace)
          /\ Len(Append(queue, text)) = Len(queue) + 1 /\ Len(queue) \in Nat
    <3>1. FeedbackTexts(target.question) \subseteq FeedbackSpace
      BY <1>4 DEF FeedbackSpace
    <3> QED
      BY <3>1, AppendProperties, LenProperties DEF RestTyped
  <2>2. CASE feedback
    <3>1. PICK text \in FeedbackTexts(target.question) : queue' = Append(queue, text)
      BY <2>2 DEF RecordEvidence
    <3>2. started < MaxFeedback /\ started' = started + 1
      BY <2>2 DEF RecordEvidence
    <3> QED
      BY <2>1, <3>1, <3>2 DEF RestTyped, SchedulerAssumption
  <2>3. CASE ~feedback
    BY <2>3 DEF RecordEvidence, RestTyped
  <2> QED
    BY <2>2, <2>3
<1>6. RestTyped'
  BY <1>5 DEF RecordEvidence, EndAttempt, RestTyped
<1>7. QueriesFresh'
  BY <1>5 DEF RecordEvidence, EndAttempt, QueriesFresh
<1> QED
  BY <1>1, <1>2, <1>3, <1>6, <1>7, AttemptKeeps

LEMMA QuestionExhaustedInv ==
  ASSUME SchedulerAssumption, SchedulerInv, QuestionExhausted
  PROVE  SchedulerInv'
<1> USE DEF SchedulerInv
<1> DEFINE q == target.question
           st == IF \E d \in Requirements[q] : facts.owners[d] > 0 THEN "partial" ELSE "blocked"
<1>1. /\ UNCHANGED <<gap, facts, quality, rows, found, unread, calls, queue, started, reason,
                     restarts, asked, inherited>>
      /\ usage' = [usage EXCEPT !.exhausted = @ \union {q}]
      /\ spent' = spent \union {q}
      /\ plan' = [plan EXCEPT !.status[q] = st]
      /\ pc = "evaluate" /\ pc' = "schedule"
  BY DEF QuestionExhausted
<1>2. st \in {"partial", "blocked"}
  OBVIOUS
<1>3. q \in Questions
  BY <1>1 DEF TargetSound, Busy
<1>4. usage.replan = FALSE
  BY <1>1 DEF ReplanRequest, UsageTyped
<1> HIDE DEF st, q
<1>5. PlanTyped' /\ plan'.version = plan.version /\ plan'.status = [plan.status EXCEPT ![q] = st]
  BY <1>1, <1>2, <1>3 DEF PlanTyped, Statuses
<1>6. UsageTyped' /\ usage'.replans = usage.replans /\ usage'.strategy = usage.strategy
      /\ usage'.frozen = usage.frozen /\ usage'.exhausted = usage.exhausted \union {q}
      /\ usage'.families = usage.families /\ usage'.replan = FALSE
  BY <1>1, <1>3, <1>4 DEF UsageTyped
<1>7. FactsTyped' /\ QualityTyped' /\ RestTyped'
  BY <1>1 DEF FactsTyped, QualityTyped, RestTyped
<1>8. ReplanReady' /\ ReplanRequest' /\ GateMetEndsResearch'
  BY <1>1, <1>5, <1>6 DEF ReplanReady, ReplanRequest, GateMetEndsResearch
<1>9. FrozenAfterEveryFamily' /\ SpentIsRecorded'
  BY <1>1, <1>6 DEF FrozenAfterEveryFamily, SpentIsRecorded
<1>10. PendingIsFree'
  BY <1>2, <1>5, <1>6 DEF PendingIsFree, PlanTyped
<1>11. TargetSound' /\ QueriesFresh' /\ NothingLeftUntouched'
  BY <1>1 DEF TargetSound, QueriesFresh, NothingLeftUntouched, Busy
<1> QED
  BY <1>5, <1>6, <1>7, <1>8, <1>9, <1>10, <1>11

LEMMA QuestionYieldedInv ==
  ASSUME SchedulerAssumption, SchedulerInv, QuestionYielded
  PROVE  SchedulerInv'
<1> USE DEF SchedulerInv, QuestionYielded
<1>1. PlanTyped' /\ UsageTyped' /\ FactsTyped' /\ QualityTyped' /\ RestTyped'
  BY DEF PlanTyped, UsageTyped, FactsTyped, QualityTyped, RestTyped
<1>2. ReplanReady' /\ ReplanRequest' /\ GateMetEndsResearch'
  BY DEF ReplanReady, ReplanRequest, GateMetEndsResearch
<1>3. FrozenAfterEveryFamily' /\ PendingIsFree' /\ SpentIsRecorded'
  BY DEF FrozenAfterEveryFamily, PendingIsFree, SpentIsRecorded
<1>4. TargetSound' /\ QueriesFresh' /\ NothingLeftUntouched'
  BY DEF TargetSound, QueriesFresh, NothingLeftUntouched, Busy
<1> QED
  BY <1>1, <1>2, <1>3, <1>4

LEMMA RestartInv ==
  ASSUME SchedulerAssumption, SchedulerInv, Restart
  PROVE  SchedulerInv'
<1> USE DEF SchedulerInv, Restart
<1>1. PlanTyped' /\ UsageTyped' /\ FactsTyped' /\ QualityTyped' /\ RestTyped'
  BY DEF PlanTyped, UsageTyped, FactsTyped, QualityTyped, RestTyped
<1>2. ReplanReady' /\ GateMetEndsResearch'
  BY DEF ReplanReady, GateMetEndsResearch
<1>3. ReplanRequest'
  BY EligibleAgrees DEF ReplanRequest, SearchExhausted
<1>4. FrozenAfterEveryFamily' /\ PendingIsFree' /\ SpentIsRecorded'
  BY DEF FrozenAfterEveryFamily, PendingIsFree, SpentIsRecorded
<1>5. TargetSound' /\ QueriesFresh' /\ NothingLeftUntouched'
  BY DEF TargetSound, QueriesFresh, NothingLeftUntouched, Busy
<1> QED
  BY <1>1, <1>2, <1>3, <1>4, <1>5

LEMMA ReplanInv ==
  ASSUME SchedulerAssumption, SchedulerInv, Replan
  PROVE  SchedulerInv'
<1> USE DEF SchedulerInv
<1>1. /\ UNCHANGED <<facts, rows, found, unread, calls, queue, started, target, outcome, restarts,
                     asked, spent, inherited>>
      /\ gap' = [q \in Questions |-> -1] /\ pc = "replan" /\ pc' = "schedule"
  BY DEF Replan
<1>2. PICK S \in SUBSET Questions :
         /\ usage' = UsageReset(S)
         /\ plan' = [version |-> plan.version + 1,
                     status |-> [q \in Questions |-> IF q \in S THEN "pending" ELSE plan.status[q]],
                     hints |-> [q \in Questions |-> IF q \in S THEN plan.version + 1 ELSE plan.hints[q]]]
         /\ quality' = QualityReset(S)
  <2>1. ReplanTargets \subseteq SUBSET Questions
    BY DEF ReplanTargets, Unresolved
  <2> QED
    BY <2>1 DEF Replan
<1>3. usage.replans < MaxReplans /\ plan.version = usage.replans + 1
  BY <1>1 DEF ReplanReady
<1>4. plan.version + 1 \in 1..(MaxReplans + 1) /\ usage.replans + 1 \in 0..MaxReplans
  BY <1>3 DEF PlanTyped, UsageTyped, SchedulerAssumption
<1>5. PlanTyped' /\ plan'.version = plan.version + 1
  BY <1>2, <1>4 DEF PlanTyped, Statuses
<1> DEFINE fams == [q \in Questions |-> IF q \in S THEN {} ELSE usage.families[q]]
<1>6. fams \in [Questions -> SUBSET FamilySet]
  BY DEF UsageTyped
<1>7. usage' = [usage EXCEPT !.replan = FALSE, !.strategy = usage.strategy \ S,
                             !.frozen = usage.frozen \ S, !.replans = usage.replans + 1,
                             !.families = fams]
  BY <1>2 DEF UsageReset, UsageTyped
<1>8. \A q \in Questions : fams[q] = IF q \in S THEN {} ELSE usage.families[q]
  OBVIOUS
<1> HIDE DEF fams
<1>9. UsageTyped'
  BY <1>4, <1>6, <1>7 DEF UsageTyped
<1>10. /\ usage'.replan = FALSE /\ usage'.strategy = usage.strategy \ S
       /\ usage'.frozen = usage.frozen \ S /\ usage'.replans = usage.replans + 1
       /\ usage'.families = fams /\ usage'.exhausted = usage.exhausted
  BY <1>7 DEF UsageTyped
<1>11. FactsTyped' /\ RestTyped'
  BY <1>1 DEF FactsTyped, RestTyped
<1>12. /\ QualityTyped'
       /\ quality'.seen = quality.seen /\ quality'.owners = quality.owners
       /\ quality'.required = quality.required /\ quality'.good = quality.good
       /\ quality'.gate = quality.gate
  BY <1>2 DEF QualityReset, QualityTyped
<1>13. ReplanReady' /\ ReplanRequest'
  BY <1>1, <1>3, <1>5, <1>10 DEF ReplanReady, ReplanRequest
<1>14. GateMetEndsResearch'
  <2>1. QualityMet(quality)' = QualityMet(quality)
    BY <1>12 DEF QualityMet, CriticalGaps, CrossValidated, CrossDimensions, Corroborated,
                 RunCoverage, Coverage, Full, DimensionScore
  <2> QED
    BY <1>1, <2>1 DEF GateMetEndsResearch
<1>15. FrozenAfterEveryFamily'
  BY <1>8, <1>10 DEF FrozenAfterEveryFamily, UsageTyped
<1>16. PendingIsFree' /\ SpentIsRecorded'
  BY <1>1, <1>2, <1>10 DEF PendingIsFree, SpentIsRecorded
<1>17. TargetSound' /\ QueriesFresh' /\ NothingLeftUntouched'
  BY <1>1 DEF TargetSound, QueriesFresh, NothingLeftUntouched, Busy
<1> QED
  BY <1>5, <1>9, <1>11, <1>12, <1>13, <1>14, <1>15, <1>16, <1>17

(* finish_iteration goes on only below the quality gate, replans only with *)
(* a gap and a replan left, and calls the sources exhausted only when no   *)
(* question awaits its first pass.                                         *)
LEMMA DecisionSound ==
  ASSUME NEW snap, NEW u, NEW status, NEW decision, decision = Decision(snap, u, status)
  PROVE  /\ decision[1] \in {"schedule", "replan", "writing"}
         /\ decision[1] # "writing" => ~QualityMet(snap)
         /\ decision[1] = "replan" => u.replans < MaxReplans /\ Unresolved(snap) # {}
         /\ decision[1] = "writing" /\ decision[2] \in {"sources_exhausted", "source_space_exhausted"}
               => \A q \in Questions : status[q] # "pending"
<1>1. CASE outcome = "deadline_exhausted"
  BY <1>1 DEF Decision
<1>2. CASE outcome # "deadline_exhausted"
  <2>1. decision = IF BudgetStopOf(u) THEN <<"writing", "budget_exhausted">>
         ELSE IF QualityMet(snap) THEN <<"writing", "quality_met">>
         ELSE IF SearchExhausted THEN <<"schedule", "-">>
         ELSE IF ReplanNeeded(snap, u, status) THEN <<"replan", "-">>
         ELSE IF Stagnated(snap) THEN <<"writing", "stagnation">>
         ELSE IF GateOpen(snap) /\ snap.repair # {} THEN <<"schedule", "-">>
         ELSE IF Remaining(status) = {} /\ Unresolved(snap) = {} THEN <<"writing", "sources_exhausted">>
         ELSE IF Remaining(status) = {} /\ SourceSpaceExhausted(status, u)
              THEN <<"writing", "source_space_exhausted">>
         ELSE <<"schedule", "-">>
    BY <1>2 DEF Decision
  <2>2. ReplanNeeded(snap, u, status) => u.replans < MaxReplans /\ Unresolved(snap) # {}
    BY DEF ReplanNeeded
  <2>3. Remaining(status) = {} => \A q \in Questions : status[q] # "pending"
    BY DEF Remaining
  <2>4. \/ \E why \in {"budget_exhausted", "quality_met", "stagnation"} : decision = <<"writing", why>>
        \/ decision = <<"schedule", "-">> /\ ~QualityMet(snap)
        \/ decision = <<"replan", "-">> /\ ~QualityMet(snap) /\ ReplanNeeded(snap, u, status)
        \/ /\ Remaining(status) = {}
           /\ \E why \in {"sources_exhausted", "source_space_exhausted"} : decision = <<"writing", why>>
    BY <2>1, Zenon
  <2>5. CASE \E why \in {"budget_exhausted", "quality_met", "stagnation"} : decision = <<"writing", why>>
    BY <2>5
  <2>6. CASE decision = <<"schedule", "-">> /\ ~QualityMet(snap)
    BY <2>6
  <2>7. CASE decision = <<"replan", "-">> /\ ~QualityMet(snap) /\ ReplanNeeded(snap, u, status)
    BY <2>2, <2>7
  <2>8. CASE /\ Remaining(status) = {}
             /\ \E why \in {"sources_exhausted", "source_space_exhausted"} : decision = <<"writing", why>>
    BY <2>3, <2>8
  <2> QED
    BY <2>4, <2>5, <2>6, <2>7, <2>8
<1> QED
  BY <1>1, <1>2

LEMMA FinishIterationInv ==
  ASSUME SchedulerAssumption, SchedulerInv, FinishIteration
  PROVE  SchedulerInv'
<1> USE DEF SchedulerInv
<1> DEFINE q == target.question
           snap == Evaluated
           u == UsageAfter
           status == StatusesAfter(snap.repair)
           decision == Decision(snap, u, status)
<1>1. /\ UNCHANGED <<facts, rows, found, unread, calls, queue, started, restarts, asked, spent>>
      /\ pc = "evaluate" /\ inherited' = FALSE /\ quality' = snap /\ usage' = u /\ plan' = [plan EXCEPT !.status = status]
      /\ pc' = decision[1]
      /\ reason' = IF decision[1] = "writing" THEN decision[2] ELSE reason
      /\ gap' = IF Technical THEN gap ELSE [gap EXCEPT ![q] = 1 - @]
  BY DEF FinishIteration
<1>2. q \in Questions /\ gap[q] \in 0..1
  BY <1>1 DEF TargetSound, Busy
<1>3. usage.replan = FALSE
  BY <1>1 DEF ReplanRequest, UsageTyped
<1>4. /\ decision[1] \in {"schedule", "replan", "writing"}
      /\ decision[1] # "writing" => ~QualityMet(snap)
      /\ decision[1] = "replan" => u.replans < MaxReplans /\ Unresolved(snap) # {}
      /\ decision[1] = "writing" /\ decision[2] \in {"sources_exhausted", "source_space_exhausted"}
            => \A r \in Questions : status[r] # "pending"
  BY DecisionSound
<1> HIDE DEF decision
<1>5. QualityTyped' /\ snap.repair \subseteq Questions
  <2> DEFINE streaks == [quality.streak EXCEPT
                 ![q] = IF StreakAfter(q) > StreakToStop THEN StreakToStop ELSE StreakAfter(q)]
             base == [seen |-> TRUE, owners |-> facts.owners, required |-> CurrentRequired,
                      repair |-> {}, good |-> SourceQualityMet, gate |-> ConflictGate,
                      streak |-> streaks]
             repair == RepairTargets(base, facts.weak)
  <2>1. snap = [base EXCEPT !.repair = repair]
    BY DEF Evaluated
  <2>2. repair \subseteq Questions
    BY DEF RepairTargets
  <2>3. CurrentRequired \in [Dimensions -> 1..2] /\ facts.owners \in [Dimensions -> 0..2]
    BY DEF CurrentRequired, Required, FactsTyped
  <2> HIDE DEF repair, streaks
  <2>4. snap = [seen |-> TRUE, owners |-> facts.owners, required |-> CurrentRequired,
                repair |-> repair, good |-> SourceQualityMet, gate |-> ConflictGate,
                streak |-> streaks]
    BY <2>1
  <2> HIDE DEF snap
  <2> QED
    BY <1>1, <2>2, <2>3, <2>4 DEF QualityTyped
<1>6. status \in [Questions -> Statuses] /\ status[q] # "pending"
      /\ \A r \in Questions : status[r] = "pending" => plan.status[r] = "pending"
  <2>1. StatusAfter(q) \in Statuses \ {"pending"}
    BY DEF StatusAfter, Statuses
  <2> DEFINE base == [plan.status EXCEPT ![q] = StatusAfter(q)]
             reopened == {r \in snap.repair : base[r] = "researched"}
                          \union (IF Technical \/ RetryCurrent(q) THEN {} ELSE snap.repair \intersect {q})
  <2>2. base \in [Questions -> Statuses] /\ base[q] # "pending"
        /\ \A r \in Questions : base[r] = "pending" => plan.status[r] = "pending"
    BY <1>2, <2>1 DEF PlanTyped
  <2>3. status = [r \in Questions |-> IF r \in reopened THEN "partial" ELSE base[r]]
    BY DEF StatusesAfter
  <2> HIDE DEF base, reopened, status
  <2> QED
    BY <1>2, <2>2, <2>3 DEF Statuses
<1> HIDE DEF snap, status
<1>7. PlanTyped' /\ plan'.status = status /\ plan'.version = plan.version
  BY <1>1, <1>6 DEF PlanTyped
<1> DEFINE flagged == IF StrategyExhausted(q) THEN {q} ELSE {}
           frozen == IF FreezeDue(q) THEN usage.frozen \union {q} ELSE usage.frozen
           failed == [usage.technical EXCEPT ![q] = FailuresAfter(q)]
           outs == [usage.outcomes EXCEPT ![q] = OutcomesAfter(q)]
           its == IF Consumes THEN usage.iterations + 1 ELSE usage.iterations
<1>8. u = [usage EXCEPT !.technical = failed, !.outcomes = outs,
                        !.strategy = usage.strategy \union flagged,
                        !.source = usage.source \union flagged,
                        !.frozen = frozen, !.iterations = its]
  BY DEF UsageAfter, UsageTyped
<1>9. failed \in [Questions -> Nat] /\ its \in Nat
  BY <1>2 DEF FailuresAfter, UsageTyped
<1>10. flagged \subseteq {q} /\ flagged \subseteq Questions /\ usage.frozen \subseteq frozen
       /\ frozen \subseteq usage.frozen \union {q} /\ frozen \subseteq Questions
       /\ (q \in frozen => q \in usage.frozen \/ FreezeDue(q))
  BY <1>2 DEF UsageTyped
<1> HIDE DEF flagged, frozen, failed, outs, its, u
<1>11. UsageTyped'
  BY <1>1, <1>8, <1>9, <1>10 DEF UsageTyped
<1>12. /\ usage'.replan = FALSE /\ usage'.strategy = usage.strategy \union flagged
       /\ usage'.frozen = frozen /\ usage'.replans = usage.replans
       /\ usage'.families = usage.families /\ usage'.exhausted = usage.exhausted
  BY <1>1, <1>3, <1>8 DEF UsageTyped
<1>13. FactsTyped'
  BY <1>1 DEF FactsTyped
<1>14. RestTyped'
  <2>1. gap' \in [Questions -> -1..1]
    BY <1>1, <1>2 DEF RestTyped
  <2> QED
    BY <1>1, <1>4, <2>1 DEF RestTyped
<1>15. ReplanReady' /\ ReplanRequest' /\ GateMetEndsResearch'
  BY <1>1, <1>4, <1>7, <1>12 DEF ReplanReady, ReplanRequest, GateMetEndsResearch
<1>16. FrozenAfterEveryFamily'
  <2>1. FreezeDue(q) => usage.families[q] = FamilySet
    <3>1. FreezeDue(q) => Cardinality(usage.families[q]) >= Len(Families)
      BY DEF FreezeDue, Attempts
    <3>2. usage.families[q] \subseteq FamilySet
      BY <1>2 DEF UsageTyped
    <3> QED
      BY <3>1, <3>2, EveryFamily
  <2> QED
    BY <1>10, <1>12, <2>1 DEF FrozenAfterEveryFamily
<1>17. PendingIsFree'
  BY <1>6, <1>7, <1>10, <1>12 DEF PendingIsFree
<1>18. SpentIsRecorded' /\ TargetSound' /\ QueriesFresh'
  BY <1>1, <1>4, <1>12 DEF SpentIsRecorded, TargetSound, QueriesFresh, Busy
<1>19. NothingLeftUntouched'
  BY <1>1, <1>4, <1>7 DEF NothingLeftUntouched
<1> QED
  BY <1>5, <1>7, <1>11, <1>13, <1>14, <1>15, <1>16, <1>17, <1>18, <1>19

LEMMA NextInv ==
  ASSUME SchedulerAssumption, SchedulerInv, SchedulerNext
  PROVE  SchedulerInv'
<1>1. CASE PrepareTarget
  BY <1>1, StopOnBudgetInv, TakeFeedbackInv, FeedbackRepeatsInv, RequestReplanInv, NothingEligibleInv,
     RetireQuestionInv, SelectTargetInv DEF PrepareTarget
<1>2. CASE Attempt
  BY <1>2, SearchReusedInv, SearchAnsweredInv, SearchFailedInv, AttemptRefusedInv,
     PageWithoutEvidenceInv, RecordEvidenceInv DEF Attempt
<1>3. CASE Evaluate
  BY <1>3, QuestionExhaustedInv, QuestionYieldedInv, FinishIterationInv DEF Evaluate
<1> QED
  BY <1>1, <1>2, <1>3, ReplanInv, RestartInv DEF SchedulerNext

LEMMA StutterInv ==
  ASSUME SchedulerInv, UNCHANGED schedulerVars
  PROVE  SchedulerInv'
<1> USE DEF SchedulerInv, schedulerVars
<1>1. PlanTyped' /\ UsageTyped' /\ FactsTyped' /\ QualityTyped' /\ RestTyped'
  BY DEF PlanTyped, UsageTyped, FactsTyped, QualityTyped, RestTyped
<1>2. ReplanReady' /\ GateMetEndsResearch'
  BY DEF ReplanReady, GateMetEndsResearch
<1>3. ReplanRequest'
  BY EligibleAgrees DEF ReplanRequest, SearchExhausted
<1>4. FrozenAfterEveryFamily' /\ PendingIsFree' /\ SpentIsRecorded'
  BY DEF FrozenAfterEveryFamily, PendingIsFree, SpentIsRecorded
<1>5. TargetSound' /\ QueriesFresh' /\ NothingLeftUntouched'
  BY DEF TargetSound, QueriesFresh, NothingLeftUntouched, Busy
<1> QED
  BY <1>1, <1>2, <1>3, <1>4, <1>5

------------------------------------------------------------------------------
(* In every reachable state the inductive invariant holds. *)
THEOREM SchedulerInvariant == SchedulerSpec => []SchedulerInv
<1>1. SchedulerInit => SchedulerInv
  BY SchedulerAssumption, InitInv
<1>2. SchedulerInv /\ [SchedulerNext]_schedulerVars => SchedulerInv'
  BY SchedulerAssumption, NextInv, StutterInv
<1> QED
  BY <1>1, <1>2, PTL DEF SchedulerSpec

(* Whatever marks crashes and replans left behind, a question is frozen    *)
(* only after every family of its plan, the replan node has a gap, research*)
(* past a met quality gate is that of an execution which took over from    *)
(* one that was writing, and then never replans, and a run that calls its  *)
(* sources exhausted leaves nothing without a pass (finish_iteration,      *)
(* prepare_target, save_gap_resolution_plan).                              *)
THEOREM StopsJustified == SchedulerSpec => []StopsAreJustified
<1>1. SchedulerInv => StopsAreJustified
  <2> SUFFICES ASSUME SchedulerInv PROVE StopsAreJustified
    OBVIOUS
  <2> USE DEF SchedulerInv
  <2>1. SchedulerTypeOK
    BY DEF SchedulerTypeOK, PlanTyped, UsageTyped, FactsTyped, QualityTyped, RestTyped, QuerySpace,
           FeedbackSpace
  <2>2. ReplanHasGap
    BY DEF ReplanHasGap, ReplanReady
  <2> QED
    BY <2>1, <2>2 DEF StopsAreJustified
<1> QED
  BY <1>1, SchedulerInvariant, PTL

LEMMA SearchIsNew ==
  ASSUME SchedulerInv, SchedulerNext
  PROVE  asked' # asked \/ usage'.searches = usage.searches \/ outcome' = "provider_error"
<1> USE DEF SchedulerInv
<1>1. CASE PrepareTarget
  <2>1. CASE StopOnBudget \/ TakeFeedback \/ FeedbackRepeats \/ RequestReplan \/ NothingEligible
    BY <2>1 DEF StopOnBudget, TakeFeedback, FeedbackRepeats, RequestReplan, NothingEligible,
                UsageTyped
  <2>2. CASE \E q \in Best : RetireQuestion(q) \/ SelectTarget(q)
    BY <2>2 DEF RetireQuestion, SelectTarget, UsageTyped
  <2> QED
    BY <1>1, <2>1, <2>2 DEF PrepareTarget
<1>2. CASE Attempt
  <2>1. CASE SearchReused
    BY <2>1 DEF SearchReused
  <2>2. ASSUME NEW b \in BOOLEAN, SearchAnswered(b) PROVE asked' # asked
    BY <2>2 DEF SearchAnswered, QueriesFresh, RestTyped
  <2>3. ASSUME NEW b \in BOOLEAN, SearchFailed(b) PROVE outcome' = "provider_error"
    BY <2>3 DEF SearchFailed, EndAttempt
  <2>4. ASSUME NEW b \in BOOLEAN, PageWithoutEvidence(b) PROVE usage'.searches = usage.searches
    BY <2>4 DEF PageWithoutEvidence, UsageTyped
  <2>5. ASSUME NEW r, AttemptRefused(r) PROVE usage'.searches = usage.searches
    BY <2>5 DEF AttemptRefused, UsageTyped
  <2>6. ASSUME NEW d, NEW seen, NEW more, NEW feedback, RecordEvidence(d, seen, more, feedback)
        PROVE  usage'.searches = usage.searches
    BY <2>6 DEF RecordEvidence, UsageTyped
  <2> QED
    BY <1>2, <2>1, <2>2, <2>3, <2>4, <2>5, <2>6 DEF Attempt
<1>3. CASE Evaluate
  <2>1. CASE QuestionExhausted \/ QuestionYielded
    BY <2>1 DEF QuestionExhausted, QuestionYielded, UsageTyped
  <2>2. CASE FinishIteration
    BY <2>2 DEF FinishIteration, UsageAfter, UsageTyped
  <2> QED
    BY <1>3, <2>1, <2>2 DEF Evaluate
<1>4. CASE Replan
  BY <1>4 DEF Replan, UsageReset, UsageTyped
<1>5. CASE Restart
  BY <1>5 DEF Restart
<1> QED
  BY <1>1, <1>2, <1>3, <1>4, <1>5 DEF SchedulerNext

LEMMA ChosenIsBest ==
  ASSUME SchedulerNext, pc = "schedule", pc' = "attempt", ~target'.feedback
  PROVE  target'.question \in Best
<1>1. CASE PrepareTarget
  <2>1. ~StopOnBudget /\ ~TakeFeedback /\ ~FeedbackRepeats /\ ~RequestReplan /\ ~NothingEligible
    BY DEF StopOnBudget, TakeFeedback, FeedbackRepeats, RequestReplan, NothingEligible, EnterWriting
  <2>2. PICK q \in Best : RetireQuestion(q) \/ SelectTarget(q)
    BY <1>1, <2>1 DEF PrepareTarget
  <2> QED
    BY <2>2 DEF RetireQuestion, SelectTarget, EnterWriting
<1>2. ~Attempt /\ ~Evaluate /\ ~Replan /\ ~Restart
  BY DEF Attempt, Evaluate, Replan, Restart, SearchReused, SearchAnswered, SearchFailed,
         PageWithoutEvidence, AttemptRefused, RecordEvidence, QuestionExhausted, QuestionYielded,
         FinishIteration
<1> QED
  BY <1>1, <1>2 DEF SchedulerNext

(* No provider answers a query twice, whether the scheduler chooses it or a*)
(* feedback repeats a text, and prepare_target never chooses a question    *)
(* that met its token limit, or a retry before a first pass: across        *)
(* replans, restarts and provider failures.                                *)
THEOREM ChoicesFresh == SchedulerSpec => ChoicesAreFresh
<1>1. SchedulerInv /\ [SchedulerNext]_schedulerVars =>
         [asked' # asked \/ usage'.searches = usage.searches \/ outcome' = "provider_error"]_schedulerVars
  BY SearchIsNew
<1>2. SchedulerInv /\ [SchedulerNext]_schedulerVars =>
         [(pc = "schedule" /\ pc' = "attempt" /\ ~target'.feedback)
             => target'.question \notin spent]_schedulerVars
  <2> SUFFICES ASSUME SchedulerInv, SchedulerNext, pc = "schedule", pc' = "attempt", ~target'.feedback
               PROVE  target'.question \notin spent
    OBVIOUS
  <2>1. target'.question \in Workable
    BY ChosenIsBest, EligibleIsReachable
  <2> QED
    BY <2>1 DEF Workable, Barred, SchedulerInv, SpentIsRecorded
<1>3. SchedulerInv /\ [SchedulerNext]_schedulerVars =>
         [(pc = "schedule" /\ pc' = "attempt" /\ ~target'.feedback /\ Attempts(target'.question) > 0)
             => \A q \in Untouched \intersect Reachable : Full(quality, q)]_schedulerVars
  BY ChosenIsBest, FirstPassWins
<1>4. SchedulerSpec => NoQueryReplayed
  BY <1>1, SchedulerInvariant, PTL DEF SchedulerSpec, NoQueryReplayed
<1>5. SchedulerSpec => HardLimitSurvivesReplan
  BY <1>2, SchedulerInvariant, PTL DEF SchedulerSpec, HardLimitSurvivesReplan
<1>6. SchedulerSpec => FirstPassFirst
  BY <1>3, SchedulerInvariant, PTL DEF SchedulerSpec, FirstPassFirst
<1> QED
  BY <1>4, <1>5, <1>6 DEF ChoicesAreFresh

------------------------------------------------------------------------------
(* StateRuntime: the public snapshot follows every commit that stops,      *)
(* queues or ends the run, and an overrun of tokens that an execution      *)
(* inherits never fails it.                                                *)

(* An execution that found the tokens spent runs under the guard. *)
GuardHolds == \A e \in Executions : exec[e].entered => row.guarded

IInv == TypeOK /\ GuardHolds /\ OverrunIsGuarded /\ SettledIsProjected

Stops == {"none", "quality_met", "budget_exhausted", "completed_with_limitations",
          "stagnation", "cancelled", "fatal_error"}

(* What the projection yields is a state. *)
LEMMA StopType ==
  ASSUME TypeOK
  PROVE  stop_reason \in Stops
BY DEF TypeOK, stop_reason, Stops

LEMMA ProjectedType ==
  ASSUME TypeOK, NEW stop \in Stops
  PROVE  /\ Projected(stop) \in Snapshots
         /\ Projected(stop) # NoSnapshot
         /\ Projected(stop).stop = stop /\ Projected(stop).over = row.over
         /\ Projected(stop).guarded = row.guarded
<1>1. state_status \in Terminal \cup {"queued", "interrupted", "writing", "researching"}
  BY DEF TypeOK, Row, state_status, Terminal
<1>2. state_phase \in {"init", "plan", "research", "write", "finalize"}
  BY DEF TypeOK, Row, state_phase
<1>3. row.over \in SUBSET Limits /\ row.guarded \in BOOLEAN
  BY DEF TypeOK, Row
<1>4. Projected(stop) \in Snapshots
  BY <1>1, <1>2, <1>3 DEF Projected, Snapshots, Stops
<1>5. state_status # "none"
  BY <1>1 DEF Terminal
<1>6. Projected(stop).status = state_status /\ NoSnapshot.status = "none"
  BY DEF Projected, NoSnapshot
<1>7. Projected(stop) # NoSnapshot
  BY <1>5, <1>6
<1> QED
  BY <1>4, <1>7 DEF Projected

LEMMA PatchedType ==
  ASSUME TypeOK, snapshot # NoSnapshot
  PROVE  \E stop \in Stops : Patched = Projected(stop)
<1>1. snapshot.stop \in Stops
  BY DEF TypeOK, Snapshots, Stops
<1> QED
  BY <1>1, StopType DEF Patched

(* A patch applied twice is applied once. *)
LEMMA PatchIsIdempotent ==
  ASSUME TypeOK, snapshot # NoSnapshot, row' = row, snapshot' = Patched
  PROVE  Patched' = snapshot' /\ snapshot' # NoSnapshot
<1> DEFINE keep == IF row.reason = "none" \/ stop_reason # "none" THEN stop_reason
                   ELSE snapshot.stop
<1>1. Patched = Projected(keep)
  BY DEF Patched
<1>2. keep \in Stops
  BY StopType DEF TypeOK, Snapshots, Stops
<1>3. snapshot'.stop = keep /\ snapshot' # NoSnapshot
  BY <1>1, <1>2, ProjectedType
<1>4. stop_reason' = stop_reason
  BY DEF stop_reason
<1>5. Patched' = Projected(IF row.reason = "none" \/ stop_reason # "none" THEN stop_reason
                           ELSE keep)
  BY <1>3, <1>4 DEF Patched, Projected, state_status, state_phase
<1> QED
  BY <1>1, <1>3, <1>5

-----------------------------------------------------------------------------
(* Types *)

(* The three ways in which an execution moves. *)
LEMMA MoveTypes ==
  ASSUME TypeOK, NEW e \in Executions
  PROVE  /\ \A at \in Places : Goto(e, at) => exec' \in [Executions -> Context]
         /\ Quit(e) => exec' \in [Executions -> Context]
         /\ \A x \in Errors : RaiseWith(e, x) => exec' \in [Executions -> Context]
<1>1. exec[e] \in Context /\ exec \in [Executions -> Context]
  BY DEF TypeOK
<1>2. ASSUME NEW at \in Places, Goto(e, at)
      PROVE  exec' \in [Executions -> Context]
  <2>1. [exec[e] EXCEPT !.pc = at] \in Context
    BY <1>1 DEF Context
  <2>2. exec' = [exec EXCEPT ![e] = [exec[e] EXCEPT !.pc = at]]
    BY <1>2 DEF Goto
  <2> QED
    BY <1>1, <2>1, <2>2
<1>3. Off \in Context
  BY DEF Off, Context, Places, Errors
<1>4. ASSUME NEW x \in Errors, RaiseWith(e, x)
      PROVE  exec' \in [Executions -> Context]
  <2>1. [exec[e] EXCEPT !.pc = "raised", !.error = x] \in Context
    BY <1>1 DEF Context, Places
  <2>2. exec' = [exec EXCEPT ![e] = [exec[e] EXCEPT !.pc = "raised", !.error = x]]
    BY <1>1, <1>4 DEF RaiseWith
  <2> QED
    BY <1>1, <2>1, <2>2
<1> QED
  BY <1>1, <1>2, <1>3, <1>4 DEF Quit

(* A reason of the list is a reason. *)
LEMMA ReasonTypes ==
  /\ \A x \in StopReasons \cup Codes : x \in Reasons
  /\ {"none", "retry_pending", "completed_with_limitations", "user_cancelled", "quality_met",
      "user_paused", "stale_worker_lease_recovered", "REPORT_NO_ACCEPTED_EVIDENCE"}
       \subseteq Reasons
BY DEF Reasons, StopReasons

LEMMA RefusalType ==
  ASSUME NEW s
  PROVE  Refusal(s) \in Errors
BY DEF Refusal, Errors

RowTyped == row \in Row /\ (row.status = "running" <=> row.owner # "none")

LEMMA ClosedTyped ==
  ASSUME RowTyped, NEW r \in Row, NEW status \in Terminal, NEW why \in Reasons
  PROVE  /\ Closed(r, status, why) \in Row
         /\ Closed(r, status, why).status # "running"
         /\ Closed(r, status, why).owner = "none"
         /\ Closed(r, status, why).guarded = r.guarded
BY DEF Closed, Row, Terminal

(* What an iteration leaves of the row. *)
LEMMA ResearchRows ==
  ASSUME row \in Row, NEW e \in Executions, ResearchNode(e)
  PROVE  /\ row' \in Row /\ row'.status = row.status /\ row'.owner = row.owner
         /\ row.guarded => row'.guarded
<1>1. PICK passed \in SUBSET Limits, guarded \in {row.guarded, TRUE} :
        row' \in Continued([row EXCEPT !.over = @ \cup passed, !.guarded = guarded])
                \cup Stopped([row EXCEPT !.over = @ \cup passed, !.guarded = guarded])
  BY DEF ResearchNode
<1> DEFINE r == [row EXCEPT !.over = @ \cup passed, !.guarded = guarded]
<1>2. /\ r \in Row /\ r.status = row.status /\ r.owner = row.owner
      /\ r.guarded = guarded /\ (row.guarded => guarded)
  BY <1>1 DEF Row
<1>3. row' \in Continued(r) \cup Stopped(r)
  BY <1>1
<1> HIDE DEF r
<1>4. ASSUME NEW phase \in {"researching", "writing"}, NEW why \in Reasons
      PROVE  /\ [r EXCEPT !.phase = phase] \in Row
             /\ [r EXCEPT !.phase = phase, !.reason = why] \in Row
             /\ \A q \in {[r EXCEPT !.phase = phase],
                          [r EXCEPT !.phase = phase, !.reason = why]} :
                  q.status = r.status /\ q.owner = r.owner /\ q.guarded = r.guarded
  BY <1>2 DEF Row
<1>5. CASE row' \in Continued(r)
  BY <1>2, <1>4, <1>5, ReasonTypes DEF Continued
<1>6. CASE row' \in Stopped(r)
  <2>1. PICK why \in StopReasons : row' = [r EXCEPT !.phase = "writing", !.reason = why]
    BY <1>6 DEF Stopped
  <2> QED
    BY <1>2, <1>4, <2>1, ReasonTypes
<1> QED
  BY <1>3, <1>5, <1>6

LEMMA NodeTypes ==
  ASSUME TypeOK, NEW e \in Executions, Node(e)
  PROVE  TypeOK'
<1> USE LimitsAssumption
<1>1. CASE Acquire(e)
  <2>1. row' \in Row /\ row'.status = "running" /\ row'.owner = e
    <3> DEFINE p == IF row.status = "queued" /\ row.phase = "initializing"
                      THEN IF row.planned THEN "researching" ELSE "planning" ELSE row.phase
               m == IF row.reason = "retry_pending" THEN "none" ELSE row.reason
               g == GuardOnAcquire
    <3>1. p \in {"initializing", "planning", "researching", "writing", "terminal"}
      BY DEF TypeOK, Row
    <3>2. m \in Reasons
      BY ReasonTypes DEF TypeOK, Row
    <3>3. g \in BOOLEAN
      BY DEF TypeOK, Row, GuardOnAcquire
    <3>4. row' = [row EXCEPT !.status = "running", !.owner = e, !.guarded = g,
                             !.phase = p, !.reason = m]
      BY <1>1 DEF Acquire
    <3> HIDE DEF p, m, g
    <3> QED
      BY <3>1, <3>2, <3>3, <3>4 DEF TypeOK, Row
  <2>2. exec' \in [Executions -> Context]
    BY <1>1 DEF Acquire, TypeOK, Context, Places, Errors
  <2> QED
    BY <1>1, <2>1, <2>2 DEF Acquire, TypeOK
<1>2. CASE OpenState(e)
  BY <1>2, MoveTypes DEF OpenState, TypeOK, Places
<1>3. CASE InsertState(e)
  <2>1. Projected(stop_reason) \in Snapshots
    BY StopType, ProjectedType
  <2>2. exec' \in [Executions -> Context]
    BY <1>3, MoveTypes, RefusalType DEF InsertState, Places, Errors
  <2> QED
    BY <1>3, <2>1, <2>2 DEF InsertState, TypeOK
<1>4. CASE PlannerNode(e)
  <2>1. exec' \in [Executions -> Context]
    BY <1>4, MoveTypes DEF PlannerNode, Places, Errors
  <2>2. row' \in Row /\ row'.status = row.status /\ row'.owner = row.owner
    BY <1>4, ReasonTypes DEF PlannerNode, TypeOK, Row
  <2> QED
    BY <1>4, <2>1, <2>2 DEF PlannerNode, TypeOK
<1>5. CASE ResearchNode(e)
  <2>1. exec' \in [Executions -> Context]
    BY <1>5, MoveTypes DEF ResearchNode, Places
  <2>2. row' \in Row /\ row'.status = row.status /\ row'.owner = row.owner
    BY <1>5, ResearchRows DEF TypeOK
  <2> QED
    BY <1>5, <2>1, <2>2 DEF ResearchNode, TypeOK
<1>6. CASE SaveReplan(e)
  <2>1. exec' \in [Executions -> Context]
    BY <1>6, MoveTypes DEF SaveReplan, Places, Errors
  <2>2. row' \in Row /\ row'.status = row.status /\ row'.owner = row.owner
    BY <1>6 DEF SaveReplan, TypeOK, Row, Reasons
  <2> QED
    BY <1>6, <2>1, <2>2 DEF SaveReplan, TypeOK
<1>7. CASE WriterNode(e)
  <2>1. exec' \in [Executions -> Context]
    BY <1>7, MoveTypes DEF WriterNode, Places
  <2>2. row' \in Row /\ row'.status # "running" /\ row'.owner = "none"
    <3>1. PICK r \in Row : \E status \in Terminal, why \in Reasons :
            row' = Closed(r, status, why)
      <4>1. PICK passed \in SUBSET (Limits \cap {"tokens"}) :
              \/ row' = Closed([row EXCEPT !.over = @ \cup passed], "completed", "quality_met")
              \/ row' = Closed([row EXCEPT !.over = @ \cup passed],
                               "completed_with_limitations", "completed_with_limitations")
              \/ row' = Closed(row, "failed", "REPORT_NO_ACCEPTED_EVIDENCE")
        BY <1>7 DEF WriterNode
      <4>2. row \in Row /\ [row EXCEPT !.over = @ \cup passed] \in Row
        BY <4>1 DEF TypeOK, Row
      <4> QED
        BY <4>1, <4>2 DEF Terminal, Reasons, StopReasons
    <3> QED
      BY <3>1, ClosedTyped DEF TypeOK, RowTyped
  <2> QED
    BY <1>7, <2>1, <2>2 DEF WriterNode, TypeOK
<1>8. CASE LeaseLost(e)
  BY <1>8, MoveTypes DEF LeaseLost, TypeOK
<1>9. CASE NodeError(e)
  BY <1>9, MoveTypes DEF NodeError, TypeOK, Errors
<1>10. CASE ResearchRaises(e)
  <2>1. exec' \in [Executions -> Context]
    BY <1>10, MoveTypes DEF ResearchRaises, Errors
  <2>2. row' \in Row /\ row'.status = row.status /\ row'.owner = row.owner
    BY <1>10 DEF ResearchRaises, TypeOK, Row
  <2> QED
    BY <1>10, <2>1, <2>2 DEF ResearchRaises, TypeOK
<1> QED
  BY <1>1, <1>2, <1>3, <1>4, <1>5, <1>6, <1>7, <1>8, <1>9, <1>10 DEF Node

LEMMA BoundaryTypes ==
  ASSUME TypeOK, NEW e \in Executions, Boundary(e)
  PROVE  TypeOK'
<1>1. CASE Synchronize(e)
  <2>1. Patched \in Snapshots
    BY <1>1, PatchedType, ProjectedType DEF Synchronize
  <2>2. exec' \in [Executions -> Context]
    BY <1>1, MoveTypes DEF Synchronize, After, Places
  <2> QED
    BY <1>1, <2>1, <2>2 DEF Synchronize, TypeOK
<1>2. CASE SyncLeaseLost(e)
  BY <1>2, MoveTypes DEF SyncLeaseLost, TypeOK
<1>3. CASE SyncFails(e)
  <2>1. exec' \in [Executions -> Context]
    BY <1>3, MoveTypes, RefusalType DEF SyncFails, Errors
  <2> QED
    BY <1>3, <2>1 DEF SyncFails, TypeOK
<1>4. CASE SyncError(e)
  <2>1. exec' \in [Executions -> Context]
    BY <1>4, MoveTypes DEF SyncError, Errors
  <2> QED
    BY <1>4, <2>1 DEF SyncError, TypeOK
<1>5. CASE FailExecution(e)
  <2>1. exec' \in [Executions -> Context]
    BY <1>5, MoveTypes DEF FailExecution, Places
  <2>2. ErrorCode(exec[e].error) \in Reasons
    BY ReasonTypes DEF ErrorCode, Codes
  <2>3. row' \in Row /\ (row'.status = "running" <=> row'.owner # "none")
    BY <1>5, <2>2, ClosedTyped DEF FailExecution, TypeOK, RowTyped, Terminal
  <2> QED
    BY <1>5, <2>1, <2>3 DEF FailExecution, TypeOK
<1>6. CASE DeferExecution(e)
  <2>1. exec' \in [Executions -> Context]
    BY <1>6, MoveTypes DEF DeferExecution, Places
  <2>2. row' \in Row /\ row'.status = "queued" /\ row'.owner = "none"
    BY <1>6, ReasonTypes DEF DeferExecution, TypeOK, Row
  <2> QED
    BY <1>6, <2>1, <2>2 DEF DeferExecution, TypeOK
<1>7. CASE Crash(e)
  BY <1>7, MoveTypes DEF Crash, TypeOK
<1> QED
  BY <1>1, <1>2, <1>3, <1>4, <1>5, <1>6, <1>7 DEF Boundary

LEMMA UserTypes ==
  ASSUME TypeOK, NEW c \in Clients, UserNext(c)
  PROVE  TypeOK'
<1>1. ASSUME NEW r \in Row, r.status = "running" <=> r.owner # "none", Request(c, r)
      PROVE  TypeOK'
  BY <1>1 DEF Request, TypeOK
<1>2. CASE Cancel(c)
  <2>1. Closed(row, "cancelled", "user_cancelled") \in Row
        /\ Closed(row, "cancelled", "user_cancelled").status # "running"
        /\ Closed(row, "cancelled", "user_cancelled").owner = "none"
    BY ClosedTyped, ReasonTypes DEF TypeOK, RowTyped, Terminal
  <2> QED
    BY <1>1, <1>2, <2>1 DEF Cancel, TypeOK
<1>3. CASE Pause(c)
  <2> DEFINE r == [row EXCEPT !.status = "interrupted", !.reason = "user_paused",
                              !.owner = "none"]
  <2>1. r \in Row /\ r.status = "interrupted" /\ r.owner = "none"
    BY ReasonTypes DEF TypeOK, Row
  <2> QED
    BY <1>1, <1>3, <2>1 DEF Pause, TypeOK
<1>4. CASE Resume(c)
  <2> DEFINE r == [row EXCEPT !.status = "queued", !.phase = "initializing", !.reason = "none"]
  <2>1. r \in Row /\ r.status = "queued" /\ r.owner = row.owner
    BY ReasonTypes DEF TypeOK, Row
  <2>2. row.status \in {"cancelled", "failed", "interrupted"} => row.owner = "none"
    BY DEF TypeOK
  <2> QED
    BY <1>1, <1>4, <2>1, <2>2 DEF Resume, TypeOK
<1>5. CASE LifecycleSync(c)
  <2>1. snapshot # NoSnapshot => Patched \in Snapshots
    BY PatchedType, ProjectedType
  <2> QED
    BY <1>5, <2>1 DEF LifecycleSync, TypeOK
<1>6. CASE ClientCrash(c)
  BY <1>6 DEF ClientCrash, TypeOK
<1> QED
  BY <1>2, <1>3, <1>4, <1>5, <1>6 DEF UserNext

LEMMA ReconcileTypes ==
  ASSUME TypeOK, Reconcile
  PROVE  TypeOK'
<1>1. row' \in Row /\ row'.status = "queued" /\ row'.owner = "none"
  BY ReasonTypes DEF Reconcile, TypeOK, Row
<1> QED
  BY <1>1 DEF Reconcile, TypeOK

LEMMA TypesKept ==
  ASSUME TypeOK, [Next]_vars
  PROVE  TypeOK'
BY NodeTypes, BoundaryTypes, UserTypes, ReconcileTypes DEF Next, vars, TypeOK

LEMMA InitTypes == Init => TypeOK
<1> SUFFICES ASSUME Init PROVE TypeOK
  OBVIOUS
<1>1. row \in Row
  BY ReasonTypes DEF Init, Row
<1>2. exec \in [Executions -> Context]
  BY DEF Init, Off, Context, Places, Errors
<1> QED
  BY <1>1, <1>2 DEF Init, TypeOK

(* The run row and the public snapshot always have their types, and the    *)
(* run has a worker_task_id exactly while it is running.                   *)
THEOREM StateTyped == Spec => []TypeOK
BY InitTypes, TypesKept, PTL DEF Spec

-----------------------------------------------------------------------------
(* The token guard *)

(* The validator finds the tokens of a projection passed only where the    *)
(* guard is missing.                                                       *)
LEMMA UnguardedOnly ==
  ASSUME TypeOK, NEW stop \in Stops, Refusal(Projected(stop)) = "tokens"
  PROVE  ~row.guarded
BY ProjectedType DEF Refusal

(* The ways an execution moves without acquiring. *)
Moves(e) ==
  \/ \E at \in Places : Goto(e, at)
  \/ Quit(e)
  \/ \E x \in Errors : RaiseWith(e, x) /\ (x = "tokens" => ~row.guarded)

LEMMA MovesAreGuarded ==
  ASSUME TypeOK, GuardHolds, OverrunIsGuarded, NEW e \in Executions,
         Moves(e), row.guarded => row'.guarded
  PROVE  GuardHolds' /\ OverrunIsGuarded'
<1> SUFFICES ASSUME NEW f \in Executions, exec'[f].entered
             PROVE  row'.guarded /\ exec'[f].error # "tokens"
  BY DEF GuardHolds, OverrunIsGuarded
<1>1. exec \in [Executions -> Context] /\ exec[e] \in Context
  BY DEF TypeOK
<1>2. CASE f # e
  <2>1. exec'[f] = exec[f]
    BY <1>1, <1>2 DEF Moves, Goto, Quit, RaiseWith
  <2> QED
    BY <2>1 DEF GuardHolds, OverrunIsGuarded
<1>3. CASE f = e
  <2>1. CASE \E at \in Places : Goto(e, at)
    <3>1. exec'[e].entered = exec[e].entered /\ exec'[e].error = exec[e].error
      BY <1>1, <2>1 DEF Goto, Context
    <3> QED
      BY <1>3, <3>1 DEF GuardHolds, OverrunIsGuarded
  <2>2. CASE Quit(e)
    BY <1>1, <1>3, <2>2 DEF Quit, Off
  <2>3. CASE \E x \in Errors : RaiseWith(e, x) /\ (x = "tokens" => ~row.guarded)
    <3>1. PICK x \in Errors : RaiseWith(e, x) /\ (x = "tokens" => ~row.guarded)
      BY <2>3
    <3>2. exec'[e].entered = exec[e].entered /\ exec'[e].error = x
      BY <1>1, <3>1 DEF RaiseWith, Context
    <3> QED
      BY <1>3, <3>1, <3>2 DEF GuardHolds
  <2> QED
    BY <2>1, <2>2, <2>3 DEF Moves
<1> QED
  BY <1>2, <1>3

(* Whoever leaves the executions alone keeps their guard. *)
LEMMA OthersAreGuarded ==
  ASSUME GuardHolds, OverrunIsGuarded, exec' = exec, row.guarded => row'.guarded
  PROVE  GuardHolds' /\ OverrunIsGuarded'
BY DEF GuardHolds, OverrunIsGuarded

LEMMA AcquireIsGuarded ==
  ASSUME TypeOK, GuardHolds, OverrunIsGuarded, NEW e \in Executions, Acquire(e)
  PROVE  GuardHolds' /\ OverrunIsGuarded'
<1>1. row \in Row
  BY DEF TypeOK
<1>2. row'.guarded = GuardOnAcquire
  BY <1>1 DEF Acquire, Row
<1>3. /\ exec'[e].entered = ("tokens" \in row.over) /\ exec'[e].error = "none"
      /\ \A f \in Executions \ {e} : exec'[f] = exec[f]
  BY DEF Acquire, TypeOK
<1> QED
  BY <1>2, <1>3 DEF GuardOnAcquire, GuardHolds, OverrunIsGuarded

LEMMA NodeMoves ==
  ASSUME TypeOK, NEW e \in Executions, Node(e), ~Acquire(e)
  PROVE  Moves(e) /\ (row.guarded => row'.guarded)
<1>1. row \in Row
  BY DEF TypeOK
<1>2. CASE OpenState(e)
  BY <1>2 DEF OpenState, Moves, Places
<1>3. CASE InsertState(e)
  <2>1. Refusal(Projected(stop_reason)) = "tokens" => ~row.guarded
    BY StopType, UnguardedOnly
  <2> QED
    BY <1>3, <2>1, RefusalType DEF InsertState, Moves, Places, Errors
<1>4. CASE PlannerNode(e)
  BY <1>1, <1>4 DEF PlannerNode, Moves, Places, Errors, Row
<1>5. CASE ResearchNode(e)
  BY <1>1, <1>5, ResearchRows DEF ResearchNode, Moves, Places
<1>6. CASE SaveReplan(e)
  BY <1>1, <1>6 DEF SaveReplan, Moves, Places, Errors, Row
<1>7. CASE WriterNode(e)
  BY <1>1, <1>7 DEF WriterNode, Moves, Places, Row, Closed
<1>8. CASE LeaseLost(e)
  BY <1>8 DEF LeaseLost, Moves
<1>9. CASE NodeError(e)
  BY <1>9 DEF NodeError, Moves, Errors
<1>10. CASE ResearchRaises(e)
  BY <1>1, <1>10 DEF ResearchRaises, Moves, Errors, Row
<1> QED
  BY <1>2, <1>3, <1>4, <1>5, <1>6, <1>7, <1>8, <1>9, <1>10 DEF Node

LEMMA BoundaryMoves ==
  ASSUME TypeOK, NEW e \in Executions, Boundary(e)
  PROVE  Moves(e) /\ (row.guarded => row'.guarded)
<1>1. row \in Row
  BY DEF TypeOK
<1>2. CASE Synchronize(e)
  BY <1>2 DEF Synchronize, After, Moves, Places
<1>3. CASE SyncLeaseLost(e)
  BY <1>3 DEF SyncLeaseLost, Moves
<1>4. CASE SyncFails(e)
  <2>1. snapshot # NoSnapshot /\ Refusal(Patched) = "tokens" => ~row.guarded
    BY PatchedType, UnguardedOnly
  <2> QED
    BY <1>4, <2>1, RefusalType DEF SyncFails, Moves, Errors
<1>5. CASE SyncError(e)
  BY <1>5 DEF SyncError, Moves, Errors
<1>6. CASE FailExecution(e)
  BY <1>1, <1>6 DEF FailExecution, Closed, Row, Moves, Places
<1>7. CASE DeferExecution(e)
  BY <1>1, <1>7 DEF DeferExecution, Row, Moves, Places
<1>8. CASE Crash(e)
  BY <1>8 DEF Crash, Moves
<1> QED
  BY <1>2, <1>3, <1>4, <1>5, <1>6, <1>7, <1>8 DEF Boundary

LEMMA GuardKept ==
  ASSUME TypeOK, GuardHolds, OverrunIsGuarded, [Next]_vars
  PROVE  GuardHolds' /\ OverrunIsGuarded'
<1>1. ASSUME NEW e \in Executions, Node(e) \/ Boundary(e)
      PROVE  GuardHolds' /\ OverrunIsGuarded'
  BY <1>1, AcquireIsGuarded, NodeMoves, BoundaryMoves, MovesAreGuarded
<1>2. ASSUME NEW c \in Clients, UserNext(c)
      PROVE  exec' = exec /\ row'.guarded = row.guarded
  <2>1. row \in Row
    BY DEF TypeOK
  <2> QED
    BY <1>2, <2>1 DEF UserNext, Cancel, Pause, Resume, LifecycleSync, ClientCrash, Request,
                      Closed, Row
<1>3. ASSUME Reconcile
      PROVE  exec' = exec /\ row'.guarded = row.guarded
  BY <1>3 DEF Reconcile, TypeOK, Row
<1>4. CASE UNCHANGED vars
  BY <1>4, OthersAreGuarded DEF vars
<1> QED
  BY <1>1, <1>2, <1>3, <1>4, OthersAreGuarded DEF Next

-----------------------------------------------------------------------------
(* The snapshot follows the row *)

(* The patch is a function of row and snapshot. *)
LEMMA PatchFrame ==
  ASSUME row' = row, snapshot' = snapshot
  PROVE  Patched' = Patched /\ Refusal(Patched)' = Refusal(Patched)
<1>1. Patched' = Patched
  BY DEF Patched, Projected, stop_reason, state_status, state_phase
<1> QED
  BY <1>1 DEF Refusal

(* A step that touches neither, and forgets no synchronization to come. *)
LEMMA NothingSettles ==
  ASSUME SettledIsProjected, row' = row, snapshot' = snapshot,
         Pending => Pending', lostSync => lostSync'
  PROVE  SettledIsProjected'
BY PatchFrame DEF SettledIsProjected

(* A step that brings the snapshot up to date. *)
LEMMA PatchSettles ==
  ASSUME TypeOK, snapshot # NoSnapshot, row' = row, snapshot' = Patched
  PROVE  SettledIsProjected'
BY PatchIsIdempotent DEF SettledIsProjected

(* A step that the validator refuses. *)
LEMMA RefusalSettles ==
  ASSUME row' = row, snapshot' = snapshot,
         snapshot = NoSnapshot \/ Refusal(Patched) # "none"
  PROVE  SettledIsProjected'
BY PatchFrame DEF SettledIsProjected

(* What a step of e must leave Pending for the others. *)
LEMMA OthersPending ==
  ASSUME TypeOK, NEW e \in Executions, Moves(e), client' = client,
         exec[e].pc \notin Leaving \/ exec'[e].pc \in Leaving
  PROVE  Pending => Pending'
<1>1. \A f \in Executions \ {e} : exec'[f] = exec[f]
  BY DEF TypeOK, Moves, Goto, Quit, RaiseWith
<1> QED
  BY <1>1 DEF Pending

LEMMA GotoPlace ==
  ASSUME TypeOK, NEW e \in Executions
  PROVE  /\ \A at \in Places : Goto(e, at) => exec'[e].pc = at
         /\ \A x \in Errors : RaiseWith(e, x) => exec'[e].pc = "raised"
<1>1. exec \in [Executions -> Context] /\ exec[e] \in Context
  BY DEF TypeOK
<1> QED
  BY <1>1 DEF Goto, RaiseWith, Context

(* An exception on its way will be synchronized. *)
LEMMA LeavingIsPending ==
  ASSUME NEW e \in Executions, exec'[e].pc \in Leaving
  PROVE  Pending'
BY DEF Pending

LEMMA RaiseIsPending ==
  ASSUME TypeOK, NEW e \in Executions, NEW x \in Errors, RaiseWith(e, x)
  PROVE  Pending'
BY GotoPlace, LeavingIsPending DEF Leaving

LEMMA PendingSettles ==
  ASSUME Pending' \/ lostSync' \/ row'.status = "running"
           \/ row'.reason = "stale_worker_lease_recovered"
  PROVE  SettledIsProjected'
BY DEF SettledIsProjected

LEMMA NodeSettles ==
  ASSUME TypeOK, SettledIsProjected, NEW e \in Executions, Node(e)
  PROVE  SettledIsProjected'
<1>1. row \in Row /\ "error" \in Errors /\ "transient" \in Errors
  BY DEF TypeOK, Errors
<1>2. ASSUME Owns(e), row'.status = row.status
      PROVE  SettledIsProjected'
  BY <1>2, PendingSettles DEF Owns
<1>3. ASSUME exec[e].pc \notin Leaving, Moves(e), UNCHANGED <<row, snapshot, client, lostSync>>
      PROVE  SettledIsProjected'
  BY <1>3, OthersPending, NothingSettles
<1>4. CASE Acquire(e)
  BY <1>1, <1>4, PendingSettles DEF Acquire, Row
<1>5. CASE OpenState(e)
  BY <1>5, <1>3 DEF OpenState, At, Leaving, Moves, Places
<1>6. CASE InsertState(e)
  <2>1. CASE /\ snapshot = NoSnapshot /\ snapshot' = Projected(stop_reason) /\ row' = row
    <3>1. Projected(stop_reason).stop = stop_reason
      BY StopType, ProjectedType
    <3>2. Patched' = snapshot'
      BY <2>1, <3>1 DEF Patched, Projected, stop_reason, state_status, state_phase
    <3> QED
      BY <3>2 DEF SettledIsProjected
  <2>2. CASE \E x \in Errors : RaiseWith(e, x)
    BY <2>2, RaiseIsPending, PendingSettles
  <2> QED
    BY <1>6, <2>1, <2>2, <1>1, RefusalType DEF InsertState
<1>7. CASE PlannerNode(e)
  <2>1. CASE Owns(e) /\ row' = [row EXCEPT !.phase = "researching", !.reason = "none",
                                           !.planned = TRUE]
    BY <1>1, <1>2, <2>1 DEF Row
  <2>2. CASE Goto(e, "sync_plan") /\ UNCHANGED row
    BY <1>3, <1>7, <2>2 DEF PlannerNode, At, Leaving, Moves, Places
  <2>3. CASE RaiseWith(e, "error")
    BY <1>1, <2>3, RaiseIsPending, PendingSettles
  <2> QED
    BY <1>7, <2>1, <2>2, <2>3 DEF PlannerNode
<1>8. CASE ResearchNode(e)
  <2>1. row'.status = row.status
    BY <1>1, <1>8, ResearchRows
  <2> QED
    BY <1>2, <1>8, <2>1 DEF ResearchNode
<1>9. CASE SaveReplan(e)
  <2>1. CASE Owns(e) /\ row' = [row EXCEPT !.phase = "researching", !.reason = "none"]
    BY <1>1, <1>2, <2>1 DEF Row
  <2>2. CASE RaiseWith(e, "error")
    BY <1>1, <2>2, RaiseIsPending, PendingSettles
  <2> QED
    BY <1>9, <2>1, <2>2 DEF SaveReplan
<1>10. CASE WriterNode(e)
  <2>1. exec'[e].pc = "sync_writer"
    BY <1>10, GotoPlace DEF WriterNode, Places
  <2> QED
    BY <2>1, LeavingIsPending, PendingSettles DEF Leaving
<1>11. CASE LeaseLost(e)
  <2>1. exec[e].pc \notin Leaving
    BY <1>11 DEF LeaseLost, At, Leaving
  <2> QED
    BY <1>3, <1>11, <2>1 DEF LeaseLost, Moves
<1>12. CASE NodeError(e)
  BY <1>1, <1>12, RaiseIsPending, PendingSettles DEF NodeError
<1>13. CASE ResearchRaises(e)
  BY <1>1, <1>13, RaiseIsPending, PendingSettles DEF ResearchRaises
<1> QED
  BY <1>4, <1>5, <1>6, <1>7, <1>8, <1>9, <1>10, <1>11, <1>12, <1>13 DEF Node

LEMMA BoundarySettles ==
  ASSUME TypeOK, SettledIsProjected, NEW e \in Executions, Boundary(e)
  PROVE  SettledIsProjected'
<1>1. "error" \in Errors
  BY DEF Errors
<1>2. CASE Synchronize(e)
  BY <1>2, PatchSettles DEF Synchronize
<1>3. CASE SyncLeaseLost(e)
  <2>1. exec[e].pc \notin Leaving
    BY <1>3 DEF SyncLeaseLost, Applies, Fenced, Leaving
  <2>2. Pending => Pending'
    BY <1>3, <2>1, OthersPending DEF SyncLeaseLost, Moves
  <2> QED
    BY <1>3, <2>2, NothingSettles DEF SyncLeaseLost
<1>4. CASE SyncFails(e)
  BY <1>4, RefusalSettles DEF SyncFails
<1>5. CASE SyncError(e)
  BY <1>1, <1>5, RaiseIsPending, PendingSettles DEF SyncError
<1>6. CASE FailExecution(e)
  <2>1. exec'[e].pc = "sync_failure"
    BY <1>6, GotoPlace DEF FailExecution, Places
  <2> QED
    BY <2>1, LeavingIsPending, PendingSettles DEF Leaving
<1>7. CASE DeferExecution(e)
  <2>1. exec'[e].pc = "sync_retry"
    BY <1>7, GotoPlace DEF DeferExecution, Places
  <2> QED
    BY <2>1, LeavingIsPending, PendingSettles DEF Leaving
<1>8. CASE Crash(e)
  <2>1. CASE exec[e].pc \in Leaving
    BY <1>8, <2>1, PendingSettles DEF Crash
  <2>2. CASE exec[e].pc \notin Leaving
    <3>1. Pending => Pending'
      BY <1>8, <2>2, OthersPending DEF Crash, Moves
    <3> QED
      BY <1>8, <3>1, NothingSettles DEF Crash
  <2> QED
    BY <2>1, <2>2
<1> QED
  BY <1>2, <1>3, <1>4, <1>5, <1>6, <1>7, <1>8 DEF Boundary

LEMMA UserSettles ==
  ASSUME TypeOK, SettledIsProjected, NEW c \in Clients, UserNext(c)
  PROVE  SettledIsProjected'
<1>1. ASSUME NEW r, Request(c, r)
      PROVE  SettledIsProjected'
  <2>1. Pending'
    BY <1>1 DEF Request, Pending, TypeOK
  <2> QED
    BY <2>1, PendingSettles
<1>2. CASE LifecycleSync(c)
  BY <1>2, PatchSettles, RefusalSettles DEF LifecycleSync
<1>3. CASE ClientCrash(c)
  BY <1>3, PendingSettles DEF ClientCrash
<1> QED
  BY <1>1, <1>2, <1>3 DEF UserNext, Cancel, Pause, Resume

LEMMA SettledKept ==
  ASSUME TypeOK, SettledIsProjected, [Next]_vars
  PROVE  SettledIsProjected'
<1>1. CASE Reconcile
  <2>1. row'.reason = "stale_worker_lease_recovered"
    BY <1>1 DEF Reconcile, TypeOK, Row
  <2> QED
    BY <2>1, PendingSettles
<1>2. CASE UNCHANGED vars
  <2>1. Pending' = Pending
    BY <1>2 DEF vars, Pending
  <2> QED
    BY <1>2, <2>1, NothingSettles DEF vars
<1> QED
  BY <1>1, <1>2, NodeSettles, BoundarySettles, UserSettles DEF Next

-----------------------------------------------------------------------------
LEMMA Inductive ==
  /\ Init => IInv
  /\ IInv /\ [Next]_vars => IInv'
<1>1. ASSUME Init PROVE IInv
  BY <1>1, InitTypes DEF Init, Off, IInv, GuardHolds, OverrunIsGuarded, SettledIsProjected
<1>2. ASSUME IInv, [Next]_vars PROVE IInv'
  BY <1>2, TypesKept, GuardKept, SettledKept DEF IInv
<1> QED
  BY <1>1, <1>2

(* However the commits and the synchronizations of any number of           *)
(* executions and requests interleave, the public snapshot shows every     *)
(* commit that stops, queues or ends the run, once the synchronizations    *)
(* that are still to come have been made and unless one of them was lost   *)
(* or refused.                                                             *)
THEOREM SnapshotFollows == Spec => []SettledIsProjected
BY Inductive, PTL DEF Spec, IInv

(* No execution that acquires a run whose tokens are spent already is      *)
(* failed for that overrun: acquire_for_execution's guard reaches every    *)
(* state that its synchronizations validate.                               *)
THEOREM InheritedOverrunGuarded == Spec => []OverrunIsGuarded
BY Inductive, PTL DEF Spec, IInv

=============================================================================
