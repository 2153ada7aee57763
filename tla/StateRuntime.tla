---------------------------- MODULE StateRuntime ----------------------------
(***************************************************************************)
(* The public ResearchState of one run: the snapshot row that              *)
(* ResearchStateRuntimeRepository keeps beside the run row, and everybody  *)
(* who writes either of them: the graph's nodes, the worker's failure      *)
(* handlers, and the cancel, pause and resume requests.                    *)
(*                                                                         *)
(* A business commit and the synchronize that projects it are two          *)
(* transactions.  synchronize locks snapshot and run, applies one patch    *)
(* and validates the result; a validation error rolls it back and is       *)
(* raised to its caller.  The patch's base version is the version of the   *)
(* snapshot just locked, so the version check of apply_patch holds, and    *)
(* version numbers are left out.                                           *)
(*                                                                         *)
(* Of the counters in usage_snapshot only the limits they have passed are  *)
(* kept.  That they pass them: pages and searches by the amounts proved in *)
(* PageBudget, iterations because a spent search budget hides their limit  *)
(* (see PageBudget), tokens because a provider's usage is known *)
(* only after the call.                                                    *)
(***************************************************************************)
CONSTANTS
  Executions,  \* worker executions; each is the worker_task_id it acquires with
  Clients,     \* API requests that may be in progress at once
  Limits       \* the limits that research may pass

ASSUME LimitsAssumption ==
  /\ Limits \subseteq {"iterations", "searches", "pages", "tokens"}
  /\ "none" \notin Executions

VARIABLES
  row,      \* the run row, as far as the projection reads it
  snapshot, \* the snapshot row, or NoSnapshot
  exec,     \* each execution: its place in the graph, and the error it raised
  client,   \* each API request: idle, or about to synchronize
  lostSync  \* a commit's synchronize was lost with its process or the database

vars == <<row, snapshot, exec, client, lostSync>>

Terminal == {"failed", "cancelled", "completed", "completed_with_limitations"}

(* termination_reason; some names stand for several.  search_budget_       *)
(* exhausted: every exhausted limit that _stop_reason knows;               *)
(* source_space_exhausted: the ones it does not know; stagnation: the      *)
(* reasons that keep their name (sources_exhausted).                       *)
StopReasons == {"quality_met", "search_budget_exhausted", "source_space_exhausted",
                "stagnation"}
Codes == {"RESEARCH_BUDGET_EXHAUSTED", "STATE_VALIDATION_FAILED",
          "WORKER_EXECUTION_FAILED"}
Reasons == StopReasons \cup Codes \cup
           {"none", "retry_pending", "completed_with_limitations", "user_cancelled",
            "user_paused", "stale_worker_lease_recovered", "REPORT_NO_ACCEPTED_EVIDENCE"}

Row == [status : Terminal \cup {"queued", "running", "interrupted"},
        phase : {"initializing", "planning", "researching", "writing", "terminal"},
        reason : Reasons, owner : Executions \cup {"none"}, planned : BOOLEAN,
        over : SUBSET Limits, guarded : BOOLEAN]

NoSnapshot == [status |-> "none"]

(* off: no message; open, insert: in ensure_initialized, before the read   *)
(* and before the locked insert; plan, research, save_replan, write: in a  *)
(* node, before its business commit; sync_plan, sync, replan, sync_writer: *)
(* before a node's synchronize; raised: an exception on its way to the     *)
(* worker's handlers; sync_failure, sync_retry: the handlers' own          *)
(* synchronize.                                                            *)
Places == {"off", "open", "insert", "plan", "research", "save_replan", "write",
           "sync_plan", "sync", "replan", "sync_writer", "raised", "sync_failure",
           "sync_retry"}

(* Why an execution failed: a limit the validator found passed, another    *)
(* error, or one that is worth a durable retry.                            *)
Errors == {"none", "iterations", "searches", "pages", "tokens", "error", "transient"}

Context == [pc : Places, error : Errors,
            entered : BOOLEAN]   \* history: the tokens were passed when it acquired

Off == [pc |-> "off", error |-> "none", entered |-> FALSE]

Init ==
  /\ row = [status |-> "queued", phase |-> "initializing", reason |-> "none",
            owner |-> "none", planned |-> FALSE, over |-> {}, guarded |-> FALSE]
  /\ snapshot = NoSnapshot
  /\ exec = [e \in Executions |-> Off]
  /\ client = [c \in Clients |-> "idle"]
  /\ lostSync = FALSE

-----------------------------------------------------------------------------
(* The projection of the run row. *)

state_status ==
  CASE row.status # "running"  -> row.status
    [] row.phase = "writing"   -> "writing"
    [] OTHER                   -> "researching"

state_phase ==
  CASE row.phase = "initializing" -> "init"
    [] row.phase = "planning"     -> "plan"
    [] row.phase = "researching"  -> "research"
    [] row.phase = "writing"      -> "write"
    [] row.phase = "terminal"     -> "finalize"

(* what is neither pending nor known is a fatal error *)
stop_reason ==
  CASE row.reason \in {"none", "retry_pending"} -> "none"
    [] row.reason = "quality_met" -> "quality_met"
    [] row.reason \in {"search_budget_exhausted", "RESEARCH_BUDGET_EXHAUSTED"} -> "budget_exhausted"
    [] row.reason \in {"completed_with_limitations", "stagnation"} -> row.reason
    [] row.reason = "user_cancelled" -> "cancelled"
    [] OTHER -> "fatal_error"

Projected(stop) ==
  [status |-> state_status, phase |-> state_phase, stop |-> stop,
   over |-> row.over, guarded |-> row.guarded]

(* A patch clears the stop reason when the run has none, and keeps the old *)
(* one when it projects none (a pending retry).                            *)
Patched ==
  Projected(IF row.reason = "none" \/ stop_reason # "none" THEN stop_reason
            ELSE snapshot.stop)

(* validate_state_invariants: the first passed limit that a state may not  *)
(* show.                                                                   *)
Refusal(s) ==
  CASE "iterations" \in s.over -> "iterations"
    [] "searches" \in s.over -> "searches"
    [] "pages" \in s.over /\ ~(s.status = "failed" /\ s.stop = "budget_exhausted") -> "pages"
    [] "tokens" \in s.over /\ s.phase \notin {"write", "finalize"} /\ ~s.guarded -> "tokens"
    [] OTHER -> "none"

-----------------------------------------------------------------------------
(* Steps of an execution *)

At(e, pc) == exec[e].pc = pc
Goto(e, pc) == exec' = [exec EXCEPT ![e].pc = pc]
Quit(e) == exec' = [exec EXCEPT ![e] = Off]
RaiseWith(e, error) == exec' = [exec EXCEPT ![e].pc = "raised", ![e].error = error]

Owns(e) == row.status = "running" /\ row.owner = e

GuardOnAcquire_Forgotten == row.guarded

(* acquire_for_execution marks an overrun of tokens before anybody looks *)
GuardOnAcquire == row.guarded \/ "tokens" \in row.over

(* A queued run, or a running one whose lease may have expired.  A         *)
(* takeover keeps phase and stop reason.                                   *)
Acquire(e) ==
  /\ At(e, "off")
  /\ row.status \in {"queued", "running"}
  /\ row' = [row EXCEPT
       !.status = "running", !.owner = e, !.guarded = GuardOnAcquire,
       !.phase = IF row.status = "queued" /\ @ = "initializing"
                   THEN IF row.planned THEN "researching" ELSE "planning" ELSE @,
       !.reason = IF @ = "retry_pending" THEN "none" ELSE @]
  /\ exec' = [exec EXCEPT ![e] = [pc |-> "open", error |-> "none",
                                  entered |-> "tokens" \in row.over]]
  /\ UNCHANGED <<snapshot, client, lostSync>>

(* ensure_initialized reads without a lock ... *)
OpenState(e) ==
  /\ At(e, "open")
  /\ Goto(e, IF snapshot = NoSnapshot THEN "insert" ELSE "plan")
  /\ UNCHANGED <<row, snapshot, client, lostSync>>

(* ... and inserts under the run's: a snapshot that came in between makes  *)
(* the insert fail.  Who owns the run is not asked.                        *)
InsertState(e) ==
  /\ At(e, "insert")
  /\ \/ /\ snapshot = NoSnapshot
        /\ Refusal(Projected(stop_reason)) = "none"
        /\ snapshot' = Projected(stop_reason)
        /\ Goto(e, "plan")
     \/ /\ snapshot = NoSnapshot
        /\ Refusal(Projected(stop_reason)) # "none"
        /\ RaiseWith(e, Refusal(Projected(stop_reason)))
        /\ UNCHANGED snapshot
     \/ /\ snapshot # NoSnapshot
        /\ RaiseWith(e, "error")
        /\ UNCHANGED snapshot
  /\ UNCHANGED <<row, client, lostSync>>

(* planner_node: save_generated_plan, or the plan is there already.  A     *)
(* save that was refused is an ordinary exception.                         *)
PlannerNode(e) ==
  /\ At(e, "plan")
  /\ \/ row.planned /\ Goto(e, "sync_plan") /\ UNCHANGED row
     \/ /\ ~row.planned /\ Owns(e)
        /\ row' = [row EXCEPT !.phase = "researching", !.reason = "none", !.planned = TRUE]
        /\ Goto(e, "sync_plan")
     \/ ~row.planned /\ ~Owns(e) /\ RaiseWith(e, "error") /\ UNCHANGED row
  /\ UNCHANGED <<snapshot, client, lostSync>>

(* What one research iteration leaves of phase and reason: a question that *)
(* is retired or yields changes neither, a request to replan the phase.    *)
Continued(r) ==
  {r, [r EXCEPT !.phase = "researching"],
      [r EXCEPT !.phase = "researching", !.reason = "none"]}

Stopped(r) == {[r EXCEPT !.phase = "writing", !.reason = reason] : reason \in StopReasons}

(* The iteration passes limits, may set the guard, and goes on or enters   *)
(* writing.                                                                *)
ResearchNode(e) ==
  /\ At(e, "research") /\ Owns(e)
  /\ \E passed \in SUBSET Limits, guarded \in {row.guarded, TRUE} :
       LET r == [row EXCEPT !.over = @ \cup passed, !.guarded = guarded]
       IN  row' \in Continued(r) \cup Stopped(r)
  /\ Goto(e, "sync")
  /\ UNCHANGED <<snapshot, client, lostSync>>

(* A model or search error in an iteration, worth a retry or not; what the *)
(* owner has counted by then stays.                                        *)
ResearchRaises(e) ==
  /\ At(e, "research")
  /\ \E passed \in SUBSET Limits :
       /\ Owns(e) \/ passed = {}
       /\ row' = [row EXCEPT !.over = @ \cup passed]
  /\ \E error \in {"transient", "error"} : RaiseWith(e, error)
  /\ UNCHANGED <<snapshot, client, lostSync>>

(* save_gap_resolution_plan *)
SaveReplan(e) ==
  /\ At(e, "save_replan")
  /\ \/ /\ Owns(e)
        /\ row' = [row EXCEPT !.phase = "researching", !.reason = "none"]
        /\ Goto(e, "sync_plan")
     \/ ~Owns(e) /\ RaiseWith(e, "error") /\ UNCHANGED row
  /\ UNCHANGED <<snapshot, client, lostSync>>

Closed(r, status, reason) ==
  [r EXCEPT !.status = status, !.phase = "terminal", !.reason = reason, !.owner = "none"]

(* ReportRepository.save, or fail_no_evidence *)
WriterNode(e) ==
  /\ At(e, "write") /\ Owns(e) /\ row.phase = "writing"
  /\ \E passed \in SUBSET (Limits \cap {"tokens"}) :
       LET r == [row EXCEPT !.over = @ \cup passed]
       IN  \/ row' = Closed(r, "completed", "quality_met")
           \/ row' = Closed(r, "completed_with_limitations", "completed_with_limitations")
           \/ row' = Closed(row, "failed", "REPORT_NO_ACCEPTED_EVIDENCE")
  /\ Goto(e, "sync_writer")
  /\ UNCHANGED <<snapshot, client, lostSync>>

(* a node's repository call meets somebody else's lease: "lease_lost" *)
LeaseLost(e) ==
  /\ \/ exec[e].pc \in {"plan", "research"} /\ ~Owns(e)
     \/ At(e, "write") /\ ~(Owns(e) /\ row.phase = "writing")
  /\ Quit(e)
  /\ UNCHANGED <<row, snapshot, client, lostSync>>

(* the same in the other nodes; the planner's may be worth a retry *)
NodeError(e) ==
  /\ \/ At(e, "plan") /\ RaiseWith(e, "transient")
     \/ /\ exec[e].pc \in {"open", "insert", "plan", "save_replan", "write"}
        /\ RaiseWith(e, "error")
  /\ UNCHANGED <<row, snapshot, client, lostSync>>

-----------------------------------------------------------------------------
(* Synchronization *)

Fenced_Writer == {"sync_plan", "sync", "replan", "sync_writer"}

(* the nodes that pass their worker_task_id; the writer's commit has       *)
(* cleared it                                                              *)
Fenced == {"sync_plan", "sync", "replan"}

Applies(e) == exec[e].pc \in Fenced => row.owner = e

(* what follows each node; route_after_research follows the iteration's    *)
(* own decision                                                            *)
After(pc) ==
  CASE pc = "sync_plan" -> {"research"}
    [] pc = "sync"      -> {"research", "replan", "write"}
    [] pc = "replan"    -> {"save_replan"}
    [] OTHER            -> {"off"}

SyncPlaces == {"sync_plan", "sync", "replan", "sync_writer", "sync_failure", "sync_retry"}

Synchronize(e) ==
  /\ exec[e].pc \in SyncPlaces
  /\ snapshot # NoSnapshot /\ Applies(e)
  /\ Refusal(Patched) = "none"
  /\ snapshot' = Patched
  /\ lostSync' = FALSE
  /\ \E pc \in After(exec[e].pc) : IF pc = "off" THEN Quit(e) ELSE Goto(e, pc)
  /\ UNCHANGED <<row, client>>

SyncLeaseLost(e) ==
  /\ exec[e].pc \in SyncPlaces
  /\ snapshot # NoSnapshot /\ ~Applies(e)
  /\ Quit(e)
  /\ UNCHANGED <<row, snapshot, client, lostSync>>

(* The validator refuses, or there is no snapshot: a node raises, the      *)
(* failure handlers log it.                                                *)
SyncFails(e) ==
  /\ exec[e].pc \in SyncPlaces
  /\ \/ snapshot = NoSnapshot
     \/ snapshot # NoSnapshot /\ Applies(e) /\ Refusal(Patched) # "none"
  /\ IF exec[e].pc \in {"sync_failure", "sync_retry"} THEN Quit(e)
     ELSE RaiseWith(e, IF snapshot = NoSnapshot THEN "error" ELSE Refusal(Patched))
  /\ UNCHANGED <<row, snapshot, client, lostSync>>

(* the database fails in a synchronize *)
SyncError(e) ==
  /\ exec[e].pc \in SyncPlaces
  /\ IF exec[e].pc \in {"sync_failure", "sync_retry"}
       THEN Quit(e) /\ lostSync' = TRUE
       ELSE RaiseWith(e, "error") /\ UNCHANGED lostSync
  /\ UNCHANGED <<row, snapshot, client>>

(* _unexpected_failure_codes *)
ErrorCode(error) ==
  CASE error \in {"tokens", "pages"} -> "RESEARCH_BUDGET_EXHAUSTED"
    [] error \in {"iterations", "searches"} -> "STATE_VALIDATION_FAILED"
    [] OTHER -> "WORKER_EXECUTION_FAILED"

(* fail_execution does nothing for an execution that lost the run; the     *)
(* failure state is synchronized all the same.                             *)
FailExecution(e) ==
  /\ At(e, "raised")
  /\ row' = IF Owns(e) THEN Closed(row, "failed", ErrorCode(exec[e].error)) ELSE row
  /\ Goto(e, "sync_failure")
  /\ UNCHANGED <<snapshot, client, lostSync>>

(* defer_retryable_model_error, defer_retryable_search_error; out of       *)
(* retries it is FailExecution                                             *)
DeferExecution(e) ==
  /\ At(e, "raised") /\ exec[e].error = "transient" /\ Owns(e)
  /\ row' = [row EXCEPT !.status = "queued", !.reason = "retry_pending", !.owner = "none"]
  /\ Goto(e, "sync_retry")
  /\ UNCHANGED <<snapshot, client, lostSync>>

(* Places from which a synchronize that asks for no owner follows. *)
Leaving == {"sync_writer", "raised", "sync_failure", "sync_retry"}

Pending ==
  \/ \E e \in Executions : exec[e].pc \in Leaving
  \/ \E c \in Clients : client[c] = "sync"

Crash(e) ==
  /\ ~At(e, "off")
  /\ lostSync' = (lostSync \/ exec[e].pc \in Leaving)
  /\ Quit(e)
  /\ UNCHANGED <<row, snapshot, client>>

(* reconcile_expired_leases; it does not synchronize *)
Reconcile ==
  /\ row.status = "running"
  /\ row' = [row EXCEPT !.status = "queued", !.phase = "initializing", !.owner = "none",
                        !.reason = "stale_worker_lease_recovered"]
  /\ UNCHANGED <<snapshot, exec, client, lostSync>>

-----------------------------------------------------------------------------
(* Requests of the user: one commit, then a synchronize. *)

Request(c, r) ==
  /\ client[c] = "idle"
  /\ row' = r
  /\ client' = [client EXCEPT ![c] = "sync"]
  /\ UNCHANGED <<snapshot, exec, lostSync>>

Cancel(c) ==
  Request(c, IF row.status \in Terminal THEN row
             ELSE Closed(row, "cancelled", "user_cancelled"))

Pause_KeepsOwner(c) ==
  Request(c, IF row.status \in Terminal THEN row
             ELSE [row EXCEPT !.status = "interrupted", !.reason = "user_paused"])

Pause(c) ==
  Request(c, IF row.status \in Terminal THEN row
             ELSE [row EXCEPT !.status = "interrupted", !.reason = "user_paused",
                              !.owner = "none"])

(* a completed run is refused before anything is written *)
Resume(c) ==
  /\ row.status # "completed"
  /\ Request(c, IF row.status \in {"cancelled", "failed", "interrupted"}
                  THEN [row EXCEPT !.status = "queued", !.phase = "initializing",
                                   !.reason = "none"]
                  ELSE row)

(* The answer is an error when the validator refuses, and the commit       *)
(* stays.                                                                  *)
LifecycleSync(c) ==
  /\ client[c] = "sync"
  /\ client' = [client EXCEPT ![c] = "idle"]
  /\ IF snapshot # NoSnapshot /\ Refusal(Patched) = "none"
       THEN snapshot' = Patched /\ lostSync' = FALSE
       ELSE UNCHANGED <<snapshot, lostSync>>
  /\ UNCHANGED <<row, exec>>

ClientCrash(c) ==
  /\ client[c] = "sync"
  /\ client' = [client EXCEPT ![c] = "idle"]
  /\ lostSync' = TRUE
  /\ UNCHANGED <<row, snapshot, exec>>

-----------------------------------------------------------------------------
Node(e) ==
  \/ Acquire(e) \/ OpenState(e) \/ InsertState(e) \/ PlannerNode(e)
  \/ ResearchNode(e) \/ ResearchRaises(e) \/ SaveReplan(e) \/ WriterNode(e)
  \/ LeaseLost(e) \/ NodeError(e)

Boundary(e) ==
  \/ Synchronize(e) \/ SyncLeaseLost(e) \/ SyncFails(e) \/ SyncError(e)
  \/ FailExecution(e) \/ DeferExecution(e) \/ Crash(e)

UserNext(c) == Cancel(c) \/ Pause(c) \/ Resume(c) \/ LifecycleSync(c) \/ ClientCrash(c)

Next ==
  \/ \E e \in Executions : Node(e) \/ Boundary(e)
  \/ \E c \in Clients : UserNext(c)
  \/ Reconcile

Spec == Init /\ [][Next]_vars

-----------------------------------------------------------------------------
Snapshots == [status : (Terminal \cup {"queued", "interrupted", "writing", "researching"}),
              phase : {"init", "plan", "research", "write", "finalize"},
              stop : {"none", "quality_met", "budget_exhausted", "completed_with_limitations",
                      "stagnation", "cancelled", "fatal_error"},
              over : SUBSET Limits, guarded : BOOLEAN]

(* Every variable has its type, and the run has a worker_task_id exactly   *)
(* while it is running.                                                    *)
TypeOK ==
  /\ row \in Row
  /\ snapshot \in Snapshots \cup {NoSnapshot}
  /\ exec \in [Executions -> Context]
  /\ client \in [Clients -> {"idle", "sync"}]
  /\ lostSync \in BOOLEAN
  /\ row.status = "running" <=> row.owner # "none"

(* "Keep an existing public state snapshot aligned with lifecycle writes": *)
(* whoever stops, queues or ends the run, in whatever order the commits    *)
(* and synchronizations of executions and requests come, the snapshot      *)
(* shows it, unless that synchronization is still to come, was lost with   *)
(* its process or the database, or the validator refuses the state.  (A    *)
(* run that the reconciler queued is shown by its next execution.)         *)
SettledIsProjected ==
  row.status # "running" /\ row.reason # "stale_worker_lease_recovered"
    /\ snapshot # NoSnapshot =>
      Patched = snapshot \/ Pending \/ lostSync \/ Refusal(Patched) # "none"

(* "mark it guarded before State synchronization so the graph can          *)
(* converge": an execution that takes over a run whose tokens are spent    *)
(* already is not failed for that by any synchronize of its own.           *)
OverrunIsGuarded ==
  \A e \in Executions : exec[e].entered => exec[e].error # "tokens"

=============================================================================
