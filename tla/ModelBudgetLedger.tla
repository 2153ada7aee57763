-------------------------- MODULE ModelBudgetLedger --------------------------
(***************************************************************************)
(* The model-token ledger of one research run: the rows of                 *)
(* model_budget_reservations, the token counters of usage_snapshot, and    *)
(* the three services that call a model: PlannerService.generate,          *)
(* ResearchLoop._research_target (one evidence extraction) and             *)
(* ReportWriterService.write.                                              *)
(*                                                                         *)
(* A call is reserved before the provider is asked and settled, released   *)
(* or marked uncertain afterwards, each in a transaction of its own on the *)
(* locked run row.  Between two of them an execution may be lost (crash,   *)
(* pause, lost lease, a database error), and a row nobody closes lapses 15 *)
(* minutes after it was made.  Two deliveries of one dispatch share a      *)
(* worker_task_id (see RunLifecycle), so several executions may be at work *)
(* at once.                                                                *)
(***************************************************************************)
EXTENDS Integers, FiniteSets, Functions

CONSTANTS
  Executions,      \* worker executions, all owning the run
  Attempts,        \* the attempt ids (uuid) a behaviour may use: a bound
  Questions,       \* question ids of the plan
  MaxTokens,       \* budget_snapshot.max_tokens
  PlannerTokens,   \* allocation.planner_tokens
  ResearchTokens,  \* allocation.research_tokens
  WriterTokens,    \* allocation.writer_tokens_initial
  ReserveTokens,   \* allocation.verification_tokens + allocation.safety_tokens
  PlannerCall,     \* what the planner reserves: 1500 + its output limit
  MinCall,         \* the smallest evidence call that can be assembled
  MaxCall,         \* max_evidence_call_tokens
  MinRetry,        \* _MIN_RETRY_TOKEN_BUDGET of the extractor
  Target           \* question_token_budgets of every question

(* allocate_budget_shares splits max_tokens over the five pools; of none   *)
(* of the three tiers is the planner's, research's or writer's pool empty, *)
(* which would mean a pool without a limit.                                *)
ASSUME PoolAssumption ==
  /\ PlannerTokens \in Nat \ {0} /\ ResearchTokens \in Nat \ {0}
  /\ WriterTokens \in Nat \ {0} /\ ReserveTokens \in Nat /\ Target \in Nat
  /\ MaxTokens = PlannerTokens + ResearchTokens + WriterTokens + ReserveTokens

(* The planner asks for at least its 1500 input tokens, and                *)
(* allocate_research_call refuses a minimum of zero.                       *)
ASSUME CallAssumption ==
  /\ PlannerCall \in Nat \ {0}
  /\ MinCall \in Nat \ {0} /\ MaxCall \in Nat /\ MinRetry \in Nat

ASSUME NamesAssumption ==
  /\ "none" \notin Questions /\ "none" \notin Attempts
  /\ IsFiniteSet(Attempts)

VARIABLES
  rows,    \* model_budget_reservations, by attempt id
  usage,   \* usage_snapshot: planner, evidence and writer tokens
  frozen,  \* usage_snapshot.frozen_questions
  planned, \* a plan has been saved
  done,    \* the report has been saved: the run is terminal
  exec,    \* each execution: where it is, its attempt and what the call said
  bill     \* the provider's side of each attempt (observed by nobody)

vars == <<rows, usage, frozen, planned, done, exec, bill>>

NoQuestion == "none"
NoAttempt  == "none"
Nodes      == {"planner", "evidence_extractor", "report_writer"}

NoRow == [status |-> "none", node |-> "planner", question |-> NoQuestion,
          reserved |-> 0, actual |-> 0, lapsed |-> FALSE]

Rows == [status : {"none", "reserved", "settled", "released", "uncertain"},
         node : Nodes, question : Questions \cup {NoQuestion},
         reserved : Nat, actual : Nat, lapsed : BOOLEAN]

(* The calls of one extraction: the first, the compact one after a failed  *)
(* first, and the last, a schema repair or the rescue of an empty batch.   *)
Extracting == {"extracting", "retrying", "last"}

(* The writer's call and the gateway's regeneration of an unreadable one. *)
Writing == {"writing", "regenerating"}

(* idle: no message; refused: ended with PLANNER_BUDGET_EXHAUSTED;         *)
(* retry_plan: the graph's in-process planner retry.                       *)
Places == {"idle", "refused", "plan", "retry_plan", "planning", "compact",
           "save_plan", "research", "reserve", "setup", "cleanup", "write",
           "save_report"} \cup Extracting \cup Writing

(* How a provider call ended: ok; usage: an output error that reports its  *)
(* tokens; unknown: an isolated error or timeout without usage; fatal: any *)
(* other error, which the writer does not tell from "unknown".  An         *)
(* execution also knows whether any call of its attempt reported usage,    *)
(* and the sum of what was reported.                                       *)
Results == {"none", "ok", "usage", "unknown", "fatal"}

Resting == [pc |-> "idle", attempt |-> NoAttempt, question |-> NoQuestion,
            call |-> 0, used |-> 0, known |-> FALSE, result |-> "none"]

(* What an attempt was billed: the tokens its answers reported, and        *)
(* whether it was called at all, and answered by a call that has a usage.  *)
NoBill == [reported |-> 0, heard |-> "uncalled"]

Init ==
  /\ rows = [a \in Attempts |-> NoRow]
  /\ usage = [planner |-> 0, evidence |-> 0, writer |-> 0]
  /\ frozen = {}
  /\ planned = FALSE
  /\ done = FALSE
  /\ exec = [e \in Executions |-> Resting]
  /\ bill = [a \in Attempts |-> NoBill]

-----------------------------------------------------------------------------
(* What the rows hold. *)

model_tokens == usage.planner + usage.evidence + usage.writer

(* A reserved row holds funds while its lease is alive, an uncertain one   *)
(* until somebody settles it.                                              *)
Holds(r) == r.status = "uncertain" \/ (r.status = "reserved" /\ ~r.lapsed)

outstanding_reservation_total ==
  SumFunctionOnSet([a \in Attempts |-> rows[a].reserved],
                   {a \in Attempts : Holds(rows[a])})

Charge(r) == IF r.status = "settled" THEN r.actual ELSE r.reserved

Charges == [a \in Attempts |-> Charge(rows[a])]

model_pool_committed(node) ==
  SumFunctionOnSet(Charges,
    {a \in Attempts : /\ rows[a].node = node
                      /\ rows[a].status = "settled" \/ Holds(rows[a])})

(* question_spend counts every row that is not released, its lease alive   *)
(* or not.                                                                 *)
QuestionSpend(q) ==
  SumFunctionOnSet(Charges,
    {a \in Attempts : /\ rows[a].question = q
                      /\ rows[a].status \in {"reserved", "uncertain", "settled"}})

model_token_pool_limits(node) ==
  CASE node = "planner"            -> PlannerTokens
    [] node = "evidence_extractor" -> ResearchTokens
    [] node = "report_writer"      -> WriterTokens

protected_reserve(node) ==
  ReserveTokens + IF node = "report_writer" THEN 0 ELSE WriterTokens

Available == MaxTokens - model_tokens - outstanding_reservation_total

Affordable_NoPool(node, requested) ==
  MaxTokens > 0 =>
    /\ Available >= requested
    /\ Available - requested >= protected_reserve(node)

(* The run-level part of reserve_model_tokens; 0 means no limit. *)
Affordable(node, requested) ==
  MaxTokens > 0 =>
    /\ Available >= requested
    /\ LET limit == model_token_pool_limits(node)
       IN  limit > 0 => model_pool_committed(node) + requested <= limit
    /\ Available - requested >= protected_reserve(node)

-----------------------------------------------------------------------------
(* May a question pass its target?  The question's state is abstracted to  *)
(* what the decision reads of it.                                          *)

BorrowStates == [eligibility : {"deferred", "denied", "open"},
                 exception : BOOLEAN,   \* recovery_exception
                 worthwhile : BOOLEAN]  \* not blocked, gap open, gain and utility

decide_question_borrow(s, projected) ==
  IF projected <= Target THEN "allowed"
  ELSE IF s.eligibility = "deferred" THEN "yielded"
  ELSE IF s.eligibility = "denied" THEN "frozen"
  ELSE IF ~s.exception /\ projected > (Target * 3) \div 2 THEN "exhausted"
  ELSE IF s.exception /\ projected > Target * 2 THEN "exhausted_frozen"
  ELSE IF ~s.worthwhile THEN "frozen"
  ELSE "allowed"

QuestionDecision(q, requested, s) ==
  LET projected == QuestionSpend(q) + requested
  IN  IF MaxTokens > 0 /\ Target > 0 /\ projected > Target
        THEN decide_question_borrow(s, projected)
        ELSE "allowed"

-----------------------------------------------------------------------------
(* The ledger's own transactions on one row. *)

Insert(a, node, q, requested) ==
  rows' = [rows EXCEPT ![a] = [status |-> "reserved", node |-> node, question |-> q,
                               reserved |-> requested, actual |-> 0, lapsed |-> FALSE]]

settle_reservation(a, tokens) ==
  rows' = IF rows[a].status \in {"settled", "released"}
            THEN rows
            ELSE [rows EXCEPT ![a].status = "settled", ![a].actual = tokens]

mark_uncertain_FromAny(a) ==
  rows' = [rows EXCEPT ![a].status = "uncertain"]

mark_uncertain(a) ==
  rows' = IF rows[a].status = "reserved"
            THEN [rows EXCEPT ![a].status = "uncertain"]
            ELSE rows

release_reservation(a) ==
  rows' = IF rows[a].status = "reserved"
            THEN [rows EXCEPT ![a].status = "released"]
            ELSE rows

At(e, pc) == ~done /\ exec[e].pc = pc

Goto(e, pc) == exec' = [exec EXCEPT ![e] = [Resting EXCEPT !.pc = pc]]

(* Go on with the attempt, its calls not made yet or over. *)
Hold(e, a, used, pc) ==
  exec' = [exec EXCEPT ![e] = [Resting EXCEPT !.pc = pc, !.attempt = a, !.used = used]]

Fresh(a) == rows[a].status = "none"

-----------------------------------------------------------------------------
(* Executions come and go. *)

(* acquire_for_execution; planner_node looks for a plan. *)
Start(e) ==
  /\ ~done /\ exec[e].pc \in {"idle", "refused"}
  /\ Goto(e, IF planned THEN "research" ELSE "plan")
  /\ UNCHANGED <<rows, usage, frozen, planned, done, bill>>

(* A crash, a pause, a takeover, an error outside the handled ones, a run  *)
(* that has no evidence to report: nothing closes the row.                 *)
Lose(e) ==
  /\ exec[e].pc \notin {"idle", "refused"}
  /\ Goto(e, "idle")
  /\ UNCHANGED <<rows, usage, frozen, planned, done, bill>>

(* lease_until passes; no execution renews it. *)
Lapse(a) ==
  /\ rows[a].status = "reserved" /\ ~rows[a].lapsed
  /\ rows' = [rows EXCEPT ![a].lapsed = TRUE]
  /\ UNCHANGED <<usage, frozen, planned, done, exec, bill>>

(* A request is sized to what is left of the reservation: the extractor    *)
(* takes off what its earlier calls reported (not what they cost), the     *)
(* planner's compact request and the gateway's regeneration take off       *)
(* nothing.                                                                *)
CallCap_Whole(e) == rows[exec[e].attempt].reserved

CallCap(e) ==
  rows[exec[e].attempt].reserved - (IF exec[e].pc \in Extracting THEN exec[e].used ELSE 0)

(* The provider answers, fails or is given up on.  An answer reports its   *)
(* tokens, or none when the provider leaves the usage out; a failed call   *)
(* may have been billed or not, and nobody learns how much.                *)
CallModel(e) ==
  LET x == exec[e]  a == x.attempt IN
  /\ ~done /\ x.pc \in {"planning", "compact"} \cup Extracting \cup Writing
  /\ x.result = "none"
  /\ \/ \E result \in {"ok", "usage"}, tokens \in 0 .. CallCap(e) :
          /\ exec' = [exec EXCEPT ![e] = [x EXCEPT !.result = result, !.known = TRUE,
                                                   !.used = @ + tokens]]
          /\ bill' = [bill EXCEPT ![a].reported = @ + tokens, ![a].heard = "answered"]
     \/ \E result \in {"unknown", "fatal"} :
          /\ result = "fatal" => x.pc \notin Writing
          /\ exec' = [exec EXCEPT ![e].result = result]
          /\ bill' = [bill EXCEPT ![a].heard = IF @ = "uncalled" THEN "silent" ELSE @]
  /\ UNCHANGED <<rows, usage, frozen, planned, done>>

Ended(e, places, results) ==
  ~done /\ exec[e].pc \in places /\ exec[e].result \in results

-----------------------------------------------------------------------------
(* PlannerService.generate, under the graph's in-process retry. *)

ReservePlanner(e) ==
  /\ ~done /\ exec[e].pc \in {"plan", "retry_plan"}
  /\ Affordable("planner", PlannerCall)
  /\ \E a \in Attempts :
       /\ Fresh(a)
       /\ Insert(a, "planner", NoQuestion, PlannerCall)
       /\ Hold(e, a, 0, "planning")
  /\ UNCHANGED <<usage, frozen, planned, done, bill>>

(* PLANNER_BUDGET_EXHAUSTED is not retryable: the run fails. *)
RefusePlanner(e) ==
  /\ ~done /\ exec[e].pc \in {"plan", "retry_plan"}
  /\ ~Affordable("planner", PlannerCall)
  /\ Goto(e, "refused")
  /\ UNCHANGED <<rows, usage, frozen, planned, done, bill>>

(* The plan is valid. *)
SettlePlanner(e) ==
  /\ Ended(e, {"planning"}, {"ok"})
  /\ settle_reservation(exec[e].attempt, exec[e].used)
  /\ exec' = [exec EXCEPT ![e].pc = "save_plan"]
  /\ UNCHANGED <<usage, frozen, planned, done, bill>>

(* The output is truncated, not JSON or not a plan: build a compact        *)
(* request, or give the reservation back when that cannot be built.        *)
BuildCompactRequest(e) ==
  /\ Ended(e, {"planning"}, {"ok", "usage", "unknown"})
  /\ \/ /\ exec' = [exec EXCEPT ![e].pc = "compact", ![e].result = "none"]
        /\ UNCHANGED rows
     \/ /\ release_reservation(exec[e].attempt)
        /\ Goto(e, "idle")
  /\ UNCHANGED <<usage, frozen, planned, done, bill>>

(* Any other gateway error. *)
ReleasePlanner(e) ==
  /\ Ended(e, {"planning"}, {"unknown", "fatal"})
  /\ release_reservation(exec[e].attempt)
  /\ \E pc \in {"retry_plan", "idle"} : Goto(e, pc)
  /\ UNCHANGED <<usage, frozen, planned, done, bill>>

(* The compact answer is settled with both calls' tokens, plan or not. *)
SettleCompact(e) ==
  /\ Ended(e, {"compact"}, {"ok"})
  /\ settle_reservation(exec[e].attempt, exec[e].used)
  /\ \/ exec' = [exec EXCEPT ![e].pc = "save_plan"]
     \/ Goto(e, "idle")
  /\ UNCHANGED <<usage, frozen, planned, done, bill>>

(* The compact call fails; a transport error keeps retryable = True. *)
CompactFails(e) ==
  /\ Ended(e, {"compact"}, {"usage", "unknown", "fatal"})
  /\ mark_uncertain(exec[e].attempt)
  /\ \E pc \in {"retry_plan", "idle"} : Goto(e, pc)
  /\ UNCHANGED <<usage, frozen, planned, done, bill>>

(* save_generated_plan: the planner's tokens replace what stood there. *)
SavePlan(e) ==
  /\ At(e, "save_plan")
  /\ usage' = [usage EXCEPT !.planner = exec[e].used]
  /\ planned' = TRUE
  /\ Goto(e, "research")
  /\ UNCHANGED <<rows, frozen, done, bill>>

-----------------------------------------------------------------------------
(* One extraction of ResearchLoop._research_target. *)

Least(S) == CHOOSE x \in S : \A y \in S : x <= y

(* evidence_model_budget: what one more research call may cost. *)
ResearchAvailable ==
  Least({Available - ReserveTokens - WriterTokens,
         IF ResearchTokens > 0
           THEN ResearchTokens - model_pool_committed("evidence_extractor")
           ELSE Available})

(* The guard reads the budget in a transaction of its own; the reservation *)
(* follows in another.  allocate_research_call shares what is available    *)
(* among the open questions, at least MinCall for each.                    *)
EvidenceModelBudget(e) ==
  /\ At(e, "research")
  /\ \E q \in Questions \ frozen, call \in MinCall .. MaxCall :
       /\ call <= ResearchAvailable
       /\ exec' = [exec EXCEPT ![e].pc = "reserve", ![e].question = q, ![e].call = call]
  /\ UNCHANGED <<rows, usage, frozen, planned, done, bill>>

ReserveEvidence(e) ==
  LET q == exec[e].question  call == exec[e].call IN
  /\ At(e, "reserve")
  /\ Affordable("evidence_extractor", call)
  /\ \E s \in BorrowStates : QuestionDecision(q, call, s) = "allowed"
  /\ \E a \in Attempts :
       /\ Fresh(a)
       /\ Insert(a, "evidence_extractor", q, call)
       /\ Hold(e, a, 0, "setup")
  /\ UNCHANGED <<usage, frozen, planned, done, bill>>

RefuseEvidence(e) ==
  LET q == exec[e].question  call == exec[e].call IN
  /\ At(e, "reserve")
  /\ \/ /\ ~Affordable("evidence_extractor", call)
        /\ UNCHANGED frozen
     \/ /\ Affordable("evidence_extractor", call)
        /\ \E s \in BorrowStates :
             /\ QuestionDecision(q, call, s) # "allowed"
             /\ frozen' = IF QuestionDecision(q, call, s) \in {"frozen", "exhausted_frozen"}
                             THEN frozen \cup {q} ELSE frozen
  /\ Goto(e, "research")
  /\ UNCHANGED <<rows, usage, planned, done, bill>>

(* Saving the page or recording the start fails: cleanup_attempt refunds,  *)
(* no call was made.  An extraction found in the cache needs none either,  *)
(* and is settled with zero tokens.                                        *)
SetUp(e) ==
  /\ At(e, "setup")
  /\ \/ /\ exec' = [exec EXCEPT ![e].pc = "extracting"]
        /\ UNCHANGED rows
     \/ /\ exec' = [exec EXCEPT ![e].pc = "last", ![e].known = TRUE, ![e].result = "ok"]
        /\ UNCHANGED rows
     \/ /\ release_reservation(exec[e].attempt)
        /\ Goto(e, "idle")
  /\ UNCHANGED <<usage, frozen, planned, done, bill>>

(* extract() asks again under the same reservation: a compact request      *)
(* after a failed first one, a repair of an invalid batch, a rescue of an  *)
(* empty one; never without _MIN_RETRY_TOKEN_BUDGET left.                  *)
RetryExtraction(e) ==
  /\ ~done /\ exec[e].pc \in {"extracting", "retrying"}
  /\ CallCap(e) >= MinRetry
  /\ \/ /\ exec[e].pc = "extracting" /\ exec[e].result \in {"usage", "unknown"}
        /\ exec' = [exec EXCEPT ![e].pc = "retrying", ![e].result = "none"]
     \/ /\ exec[e].result = "ok"
        /\ exec' = [exec EXCEPT ![e].pc = "last", ![e].result = "none"]
  /\ UNCHANGED <<rows, usage, frozen, planned, done, bill>>

(* record_page and record_extraction_failure count the tokens and close    *)
(* the row in one transaction, which may commit although the call raises.  *)
(* The usage they are told is what any of the calls reported, or nothing   *)
(* when the deadline cut extract() off.                                    *)
Record(e) ==
  \/ /\ exec[e].known
     /\ settle_reservation(exec[e].attempt, exec[e].used)
     /\ usage' = [usage EXCEPT !.evidence = @ + exec[e].used]
  \/ /\ mark_uncertain(exec[e].attempt)
     /\ UNCHANGED usage

(* pc' = "cleanup": extract() or the repository call raised, the latter    *)
(* after or without its commit; "idle": a transport error that the worker  *)
(* retries later.                                                          *)
RecordExtraction(e) ==
  /\ Ended(e, Extracting, {"ok", "usage", "unknown"})
  /\ \/ /\ Record(e)
        /\ \/ Goto(e, "research")
           \/ Hold(e, exec[e].attempt, 0, "cleanup")
           \/ /\ exec[e].result # "ok"
              /\ Goto(e, "idle")
     \/ /\ Hold(e, exec[e].attempt, 0, "cleanup")
        /\ UNCHANGED <<rows, usage>>
  /\ UNCHANGED <<frozen, planned, done, bill>>

(* cleanup_attempt(uncertain = True). *)
CleanUp(e) ==
  /\ At(e, "cleanup")
  /\ mark_uncertain(exec[e].attempt)
  /\ Goto(e, "idle")
  /\ UNCHANGED <<usage, frozen, planned, done, bill>>

(* A gateway error that is not isolated is raised at once. *)
ExtractionRaises(e) ==
  /\ Ended(e, Extracting, {"fatal"})
  /\ Goto(e, "idle")
  /\ UNCHANGED <<rows, usage, frozen, planned, done, bill>>

-----------------------------------------------------------------------------
(* ReportWriterService.write. *)

StartWriting(e) ==
  /\ At(e, "research")
  /\ Goto(e, "write")
  /\ UNCHANGED <<rows, usage, frozen, planned, done, bill>>

writer_budget_available == MaxTokens - usage.planner - usage.evidence >= WriterTokens

ReserveWriter(e) ==
  /\ At(e, "write")
  /\ writer_budget_available
  /\ Affordable("report_writer", WriterTokens)
  /\ \E a \in Attempts :
       /\ Fresh(a)
       /\ Insert(a, "report_writer", NoQuestion, WriterTokens)
       /\ Hold(e, a, 0, "writing")
  /\ UNCHANGED <<usage, frozen, planned, done, bill>>

(* The report is assembled without a model, from a draft that an earlier   *)
(* execution cached or from the evidence alone.                            *)
SkipWriter(e) ==
  /\ At(e, "write")
  /\ \/ ~writer_budget_available
     \/ ~Affordable("report_writer", WriterTokens)
     \/ \E a \in Attempts : rows[a].node = "report_writer" /\ rows[a].status = "settled"
  /\ Goto(e, "save_report")
  /\ UNCHANGED <<rows, usage, frozen, planned, done, bill>>

(* ContextBudgetInsufficientError: the request was never built. *)
ReleaseWriter(e) ==
  /\ Ended(e, {"writing"}, {"none"})
  /\ release_reservation(exec[e].attempt)
  /\ Goto(e, "save_report")
  /\ UNCHANGED <<usage, frozen, planned, done, bill>>

(* The gateway asks a compatible provider once more, in the same call, for *)
(* an answer it cannot read: the whole request again.                      *)
Regenerate(e) ==
  /\ Ended(e, {"writing"}, {"usage"})
  /\ exec' = [exec EXCEPT ![e].pc = "regenerating", ![e].result = "none"]
  /\ UNCHANGED <<rows, usage, frozen, planned, done, bill>>

(* A draft, or an error that has the usage, settles; a regeneration that   *)
(* fails, a schema error and the deadline lose it.  save stores the usage  *)
(* of a draft that came back.                                              *)
CloseWriter(e) ==
  /\ Ended(e, Writing, {"ok", "usage", "unknown"})
  /\ \/ /\ exec[e].result \in {"ok", "usage"}
        /\ settle_reservation(exec[e].attempt, exec[e].used)
        /\ Hold(e, exec[e].attempt, IF exec[e].result = "ok" THEN exec[e].used ELSE 0,
                "save_report")
     \/ /\ mark_uncertain(exec[e].attempt)
        /\ Hold(e, exec[e].attempt, 0, "save_report")
  /\ UNCHANGED <<usage, frozen, planned, done, bill>>

SaveReport(e) ==
  /\ At(e, "save_report")
  /\ usage' = [usage EXCEPT !.writer = exec[e].used]
  /\ done' = TRUE
  /\ Goto(e, "idle")
  /\ UNCHANGED <<rows, frozen, planned, bill>>

-----------------------------------------------------------------------------
Plan(e) ==
  \/ ReservePlanner(e) \/ RefusePlanner(e) \/ SettlePlanner(e)
  \/ BuildCompactRequest(e) \/ ReleasePlanner(e) \/ SettleCompact(e)
  \/ CompactFails(e) \/ SavePlan(e)

Extract(e) ==
  \/ EvidenceModelBudget(e) \/ ReserveEvidence(e) \/ RefuseEvidence(e)
  \/ SetUp(e) \/ RetryExtraction(e) \/ RecordExtraction(e) \/ CleanUp(e) \/ ExtractionRaises(e)

Write(e) ==
  \/ StartWriting(e) \/ ReserveWriter(e) \/ SkipWriter(e)
  \/ ReleaseWriter(e) \/ Regenerate(e) \/ CloseWriter(e) \/ SaveReport(e)

Next ==
  \/ \E e \in Executions :
       Start(e) \/ Lose(e) \/ CallModel(e) \/ Plan(e) \/ Extract(e) \/ Write(e)
  \/ \E a \in Attempts : Lapse(a)

Spec == Init /\ [][Next]_vars

-----------------------------------------------------------------------------
(* Every variable has its type, only a settled row has an actual total, an *)
(* attempt without a row was never charged, and an execution that works on *)
(* a call has a row (model_budget_reservations is written before the       *)
(* provider is asked).                                                     *)
TypeOK ==
  /\ rows \in [Attempts -> Rows]
  /\ usage \in [planner : Nat, evidence : Nat, writer : Nat]
  /\ frozen \subseteq Questions
  /\ planned \in BOOLEAN /\ done \in BOOLEAN
  /\ exec \in [Executions -> [pc : Places, attempt : Attempts \cup {NoAttempt},
                              question : Questions \cup {NoQuestion},
                              call : Nat, used : Nat, known : BOOLEAN, result : Results]]
  /\ bill \in [Attempts -> [reported : Nat, heard : {"uncalled", "silent", "answered"}]]
  /\ \A a \in Attempts :
       /\ rows[a].status # "settled" => rows[a].actual = 0
       /\ rows[a].status = "none" => bill[a] = NoBill
  /\ \A e \in Executions :
       exec[e].pc \in {"planning", "compact", "setup", "cleanup"} \cup Extracting \cup Writing =>
         exec[e].attempt \in Attempts /\ rows[exec[e].attempt].status # "none"

(* Tokens a row was settled with beyond what was reserved for it. *)
Excess(S) ==
  SumFunctionOnSet([a \in Attempts |-> IF rows[a].actual > rows[a].reserved
                                         THEN rows[a].actual - rows[a].reserved ELSE 0], S)

(* What lapsed rows gave back although their call may still be settled. *)
LapsedTotal(S) ==
  SumFunctionOnSet([a \in Attempts |-> rows[a].reserved], {a \in S : rows[a].lapsed})

OfNode(node) == {a \in Attempts : rows[a].node = node /\ rows[a].status # "none"}

(* The nodes whose second call is sized as if the first had not been made. *)
Repeaters == {"planner", "report_writer"}

(* However reservations, settlements and losses of concurrent executions   *)
(* interleave, what is spent and held leaves the verification and safety   *)
(* reserves of reserve_model_tokens untouched, and the writer's until it   *)
(* has reserved.  Three things get past it: a second call of the planner   *)
(* or of the writer, which nobody reserved, and rows that lapsed; an       *)
(* extraction's retries, repairs and rescues do not.                       *)
ReservesProtected ==
  model_tokens + outstanding_reservation_total + ReserveTokens
    + (IF OfNode("report_writer") = {} THEN WriterTokens ELSE 0)
  <= MaxTokens + Excess(OfNode("planner")) + Excess(OfNode("report_writer"))
       + LapsedTotal(Attempts)

(* No pool commits more than allocate_budget_shares gave it, although      *)
(* evidence_model_budget reads the pool in an earlier transaction than the *)
(* reservation; a second call of the planner or of the writer and lapsed   *)
(* rows get past it, an extraction's further calls do not.                 *)
PoolsWithinLimits ==
  \A node \in Nodes :
    model_pool_committed(node)
      <= model_token_pool_limits(node) + LapsedTotal(OfNode(node))
           + (IF node \in Repeaters THEN Excess(OfNode(node)) ELSE 0)

(* "A bounded recovery allowance, not a second unlimited budget": however  *)
(* often a question borrows, and whoever reserves for it, its spend stays  *)
(* within twice its target.                                                *)
QuestionsWithinRecoveryCap ==
  Target > 0 => \A q \in Questions : QuestionSpend(q) <= 2 * Target

(* The counter and the table agree: evidence_total_tokens is the sum of    *)
(* the settled extraction rows, although record_page may commit and raise, *)
(* and cleanup_attempt then runs on a settled row.                         *)
EvidenceLedgerAgrees ==
  usage.evidence =
    SumFunctionOnSet([a \in Attempts |-> rows[a].actual], OfNode("evidence_extractor"))

(* Every token an answer reported is charged, whichever call of the        *)
(* attempt reported it and however the attempt ended, but for the planner, *)
(* whose failed first call is refunded with whatever it cost.  A settled   *)
(* row has exactly the reported tokens; an open or uncertain one covers    *)
(* them with its reservation, but for a second call of the planner or of   *)
(* the writer; every other refund means that no call was made, and "never  *)
(* refund an unknown outcome to zero" holds of an attempt none of whose    *)
(* calls reported anything.  What a silent call may have cost beside one   *)
(* that answered is charged by no row (evidence_extractor's prior_usage is *)
(* then None).                                                             *)
ReportedTokensCharged ==
  \A a \in Attempts :
    LET r == rows[a]  b == bill[a] IN
    /\ r.status = "settled" => r.actual = b.reported /\ b.heard # "silent"
    /\ r.status \in {"reserved", "uncertain"} =>
         b.reported <= r.reserved + (IF r.node \in Repeaters THEN r.reserved ELSE 0)
    /\ r.status = "released" =>
         IF r.node = "planner" THEN b.reported <= r.reserved ELSE b = NoBill

(* The limits of run, pools and questions hold together, and the counter   *)
(* they are read from agrees with the rows, whatever lapses, is lost or    *)
(* is settled late (reserve_model_tokens and its callers).                 *)
LedgerSound ==
  /\ ReservesProtected /\ PoolsWithinLimits /\ QuestionsWithinRecoveryCap
  /\ EvidenceLedgerAgrees

=============================================================================
