---------------------------- MODULE RunLifecycle ----------------------------
(***************************************************************************)
(* One research run from its creation to a terminal status: the row of     *)
(* research_runs, the transactional outbox, the dispatcher process, the    *)
(* Celery broker, the worker processes, the lease reconciler, and the      *)
(* user's pause, cancel and resume.                                        *)
(*                                                                         *)
(* Every repository method is one PostgreSQL transaction on the locked run *)
(* row, so it is one action.  What is not atomic is kept apart: claiming a *)
(* dispatch, sending it and marking it; receiving a message, acquiring the *)
(* run, and each later commit of the execution.                            *)
(*                                                                         *)
(* A dispatch key is "<run>:<kind>:<state_version>".  Every transaction    *)
(* that adds an outbox row bumps state_version first, so the version alone *)
(* names the dispatch; it is also the Celery task id and, once the run is  *)
(* acquired, the worker_task_id that fences the execution's writes.        *)
(***************************************************************************)
EXTENDS Naturals

CONSTANTS
  Workers,            \* worker processes (celery --concurrency)
  Dispatchers,        \* outbox dispatcher processes
  MaxRequeues,        \* durable retries per phase: len(_..._REQUEUE_DELAYS_SECONDS)
  MaxPlannerRetries,  \* len(_PLANNER_RETRY_DELAYS_SECONDS)
  MaxActions,         \* targets until a budget or the deadline ends the research
  MaxReplans,         \* _MAX_REPLANS
  MaxUserOps,         \* bound: pause, cancel and resume requests
  MaxFaults           \* bound: crashes, stalls, ambiguous sends, redeliveries

ASSUME BoundsAssumption ==
  /\ MaxRequeues \in Nat
  /\ MaxPlannerRetries \in Nat
  /\ MaxActions \in Nat
  /\ MaxReplans \in Nat
  /\ MaxUserOps \in Nat
  /\ MaxFaults \in Nat

VARIABLES
  run,        \* the research_runs row
  outbox,     \* dispatch key -> task_dispatch_outbox row
  queue,      \* dispatch key -> copies of its message waiting in the broker
  sends,      \* dispatch key -> times its message entered the broker (history)
  dispatcher, \* what each dispatcher has claimed and still has to mark
  worker,     \* what each worker process is doing
  epoch,      \* acquisitions of the run so far (history)
  userOps,    \* user requests so far
  faults,     \* faults so far
  setupFails  \* tasks that died before acquire_for_execution (history)

vars == <<run, outbox, queue, sends, dispatcher, worker,
          epoch, userOps, faults, setupFails>>

brokerVars == <<queue, sends>>
boundVars == <<userOps, faults, setupFails>>

-----------------------------------------------------------------------------
(* Types *)

NoKey == 0    \* no worker_task_id, no dispatch in hand; real keys start at 1

TerminalStatuses == {"failed", "cancelled", "completed",
                     "completed_with_limitations"}
Statuses == TerminalStatuses \cup {"absent", "queued", "running", "interrupted"}
Phases == {"initializing", "planning", "researching", "writing", "terminal"}
Leases == {"none", "live", "expired"}

RunRow == [status: Statuses, phase: Phases, owner: Nat, lease: Leases,
           version: Nat, plan: Nat, actions: Nat, replans: Nat,
           replanRequested: BOOLEAN,
           modelPhase: Phases, modelRequeues: Nat,
           searchPhase: Phases, searchRequeues: Nat]

Unpublished == {"pending", "retry", "publishing"}
OutboxRow == [st: Unpublished \cup {"published", "cancelled"},
              ripe: BOOLEAN]   \* next_attempt_at, or the claim's 30 s, has passed

Pcs == {"idle", "received", "planner", "planning", "research", "target",
        "replan", "writer"}
Executions == Pcs \ {"idle", "received"}
WorkerState == [pc: Pcs, key: Nat, tries: Nat, heartbeat: BOOLEAN, epoch: Nat]
IdleWorker == [pc |-> "idle", key |-> NoKey, tries |-> 0,
               heartbeat |-> FALSE, epoch |-> 0]

DispatcherState == [batch: SUBSET Nat, key: Nat, ok: BOOLEAN]
IdleDispatcher == [batch |-> {}, key |-> NoKey, ok |-> FALSE]

Keys == DOMAIN outbox

TypeOK ==
  /\ run \in RunRow
  /\ Keys \subseteq Nat \ {NoKey}
  /\ outbox \in [Keys -> OutboxRow]
  /\ queue \in [Keys -> Nat]
  /\ sends \in [Keys -> Nat]
  /\ dispatcher \in [Dispatchers -> DispatcherState]
  /\ worker \in [Workers -> WorkerState]
  /\ \A d \in Dispatchers :
       /\ dispatcher[d].batch \subseteq Keys
       /\ dispatcher[d].key \in Keys \cup {NoKey}
  /\ \A w \in Workers : worker[w].pc # "idle" => worker[w].key \in Keys
  /\ epoch \in Nat /\ userOps \in Nat /\ faults \in Nat /\ setupFails \in Nat

-----------------------------------------------------------------------------
(* Helpers *)

AddTo(f, k, v) == [x \in DOMAIN f \cup {k} |-> IF x = k THEN v ELSE f[x]]

(* A new outbox row under the key the transaction's state_version gives.  A *)
(* durable retry is not due until retry_at; the others are due at once.     *)
AddDispatch(k, due) ==
  /\ outbox' = AddTo(outbox, k, [st |-> "pending", ripe |-> due])
  /\ queue' = AddTo(queue, k, 0)
  /\ sends' = AddTo(sends, k, 0)

(* cancel and pause revoke the dispatches that are not yet marked published *)
RevokeDispatches ==
  outbox' = [k \in Keys |-> IF outbox[k].st \in Unpublished
                            THEN [st |-> "cancelled", ripe |-> FALSE]
                            ELSE outbox[k]]

NextVersion == run.version + 1

(* Mutant: the commit guard forgets to compare the task id *)
Owns_AnyTask(w) == run.status = "running"

(* the guard of every commit of an execution: running, and the same task id *)
Owns(w) == run.status = "running" /\ run.owner = worker[w].key

Executing(w) == worker[w].pc \in Executions

Finish(w) == worker' = [worker EXCEPT ![w] = IdleWorker]
Goto(w, pc) == worker' = [worker EXCEPT ![w].pc = pc]

Fault == faults < MaxFaults /\ faults' = faults + 1

-----------------------------------------------------------------------------
(* Creation and the user's requests (API process) *)

Init ==
  /\ run = [status |-> "absent", phase |-> "initializing", owner |-> NoKey,
            lease |-> "none", version |-> 0, plan |-> 0,
            actions |-> 0, replans |-> 0, replanRequested |-> FALSE,
            modelPhase |-> "terminal", modelRequeues |-> 0,
            searchPhase |-> "terminal", searchRequeues |-> 0]
  /\ outbox = [k \in {} |-> [st |-> "pending", ripe |-> TRUE]]
  /\ queue = [k \in {} |-> 0]
  /\ sends = [k \in {} |-> 0]
  /\ dispatcher = [d \in Dispatchers |-> IdleDispatcher]
  /\ worker = [w \in Workers |-> IdleWorker]
  /\ epoch = 0 /\ userOps = 0 /\ faults = 0 /\ setupFails = 0

(* run, first event and "start" dispatch in one transaction *)
Create ==
  /\ run.status = "absent"
  /\ run' = [run EXCEPT !.status = "queued", !.version = 1]
  /\ AddDispatch(1, TRUE)
  /\ UNCHANGED <<dispatcher, worker, epoch, boundVars>>

UserRequest == userOps < MaxUserOps /\ userOps' = userOps + 1

Cancel ==
  /\ run.status \notin TerminalStatuses \cup {"absent"}
  /\ UserRequest
  /\ RevokeDispatches
  /\ run' = [run EXCEPT !.status = "cancelled", !.phase = "terminal",
                        !.owner = NoKey, !.lease = "none",
                        !.version = NextVersion]
  /\ UNCHANGED <<brokerVars, dispatcher, worker, epoch, faults, setupFails>>

(* Mutant: pause leaves the lease fields set *)
Pause_KeepsLease ==
  /\ run.status \notin TerminalStatuses \cup {"absent"}
  /\ UserRequest
  /\ RevokeDispatches
  /\ run' = [run EXCEPT !.status = "interrupted", !.version = NextVersion]
  /\ UNCHANGED <<brokerVars, dispatcher, worker, epoch, faults, setupFails>>

Pause ==
  /\ run.status \notin TerminalStatuses \cup {"absent"}
  /\ UserRequest
  /\ RevokeDispatches
  /\ run' = [run EXCEPT !.status = "interrupted",
                        !.owner = NoKey, !.lease = "none",
                        !.version = NextVersion]
  /\ UNCHANGED <<brokerVars, dispatcher, worker, epoch, faults, setupFails>>

Resume ==
  /\ run.status \in {"cancelled", "failed", "interrupted"}
  /\ UserRequest
  /\ run' = [run EXCEPT !.status = "queued", !.phase = "initializing",
                        !.version = NextVersion]
  /\ AddDispatch(NextVersion, TRUE)
  /\ UNCHANGED <<dispatcher, worker, epoch, faults, setupFails>>

-----------------------------------------------------------------------------
(* Outbox dispatcher *)

(* Mutant: a row left publishing by a dead dispatcher is never claimed again *)
Claimable_NoStale(k) == outbox[k].st \in {"pending", "retry"} /\ outbox[k].ripe

Claimable(k) == outbox[k].st \in Unpublished /\ outbox[k].ripe

(* time passes: a delayed row falls due, or a claim turns 30 seconds old *)
Ripen(k) ==
  /\ outbox[k].st \in Unpublished /\ ~outbox[k].ripe
  /\ outbox' = [outbox EXCEPT ![k].ripe = TRUE]
  /\ UNCHANGED <<run, brokerVars, dispatcher, worker, epoch, boundVars>>

(* claim_batch takes every due row (the limit of 20 is above any one run's) *)
ClaimBatch(d) ==
  LET due == {k \in Keys : Claimable(k)} IN
  /\ dispatcher[d] = IdleDispatcher
  /\ due # {}
  /\ outbox' = [k \in Keys |-> IF k \in due
                               THEN [st |-> "publishing", ripe |-> FALSE]
                               ELSE outbox[k]]
  /\ dispatcher' = [dispatcher EXCEPT ![d].batch = due]
  /\ UNCHANGED <<run, brokerVars, worker, epoch, boundVars>>

(* send_task: delivered, or refused, or delivered although it raised *)
SendTask(d, k, delivered, ok) ==
  /\ k \in dispatcher[d].batch /\ dispatcher[d].key = NoKey
  /\ ok => delivered
  /\ IF ok THEN UNCHANGED faults ELSE Fault
  /\ dispatcher' = [dispatcher EXCEPT ![d] =
       [batch |-> dispatcher[d].batch \ {k}, key |-> k, ok |-> ok]]
  /\ IF delivered THEN /\ queue' = [queue EXCEPT ![k] = @ + 1]
                       /\ sends' = [sends EXCEPT ![k] = @ + 1]
                  ELSE UNCHANGED brokerVars
  /\ UNCHANGED <<run, outbox, worker, epoch, userOps, setupFails>>

(* Mutant: a refused send is marked published as well *)
MarkDispatch_AlwaysPublished(d) ==
  /\ dispatcher[d].key # NoKey
  /\ outbox' = [outbox EXCEPT ![dispatcher[d].key] =
                  [st |-> "published", ripe |-> FALSE]]
  /\ dispatcher' = [dispatcher EXCEPT ![d] = [@ EXCEPT !.key = NoKey, !.ok = FALSE]]
  /\ UNCHANGED <<run, brokerVars, worker, epoch, boundVars>>

(* mark_published and mark_retry overwrite the row whatever its status is *)
MarkDispatch(d) ==
  /\ dispatcher[d].key # NoKey
  /\ outbox' = [outbox EXCEPT ![dispatcher[d].key] =
       [st |-> IF dispatcher[d].ok THEN "published" ELSE "retry", ripe |-> FALSE]]
  /\ dispatcher' = [dispatcher EXCEPT ![d] = [@ EXCEPT !.key = NoKey, !.ok = FALSE]]
  /\ UNCHANGED <<run, brokerVars, worker, epoch, boundVars>>

DispatcherCrash(d) ==
  /\ dispatcher[d] # IdleDispatcher
  /\ Fault
  /\ dispatcher' = [dispatcher EXCEPT ![d] = IdleDispatcher]
  /\ UNCHANGED <<run, outbox, brokerVars, worker, epoch, userOps, setupFails>>

-----------------------------------------------------------------------------
(* Worker: delivery, acquisition, lease *)

(* Mutant: a message is taken from an empty queue *)
Receive_Empty(w, k) ==
  /\ worker[w].pc = "idle"
  /\ queue' = [queue EXCEPT ![k] = @ - 1]
  /\ worker' = [worker EXCEPT ![w] = [@ EXCEPT !.pc = "received", !.key = k]]
  /\ UNCHANGED <<run, outbox, sends, dispatcher, epoch, boundVars>>

Receive(w, k) ==
  /\ worker[w].pc = "idle" /\ queue[k] > 0
  /\ queue' = [queue EXCEPT ![k] = @ - 1]
  /\ worker' = [worker EXCEPT ![w] = [@ EXCEPT !.pc = "received", !.key = k]]
  /\ UNCHANGED <<run, outbox, sends, dispatcher, epoch, boundVars>>

(* The task raises before the run is acquired (master key, database); the *)
(* message is acknowledged and fail_execution finds nothing to fail.      *)
FailBeforeAcquire(w) ==
  /\ worker[w].pc = "received"
  /\ Fault
  /\ setupFails' = setupFails + 1
  /\ Finish(w)
  /\ UNCHANGED <<run, outbox, brokerVars, dispatcher, epoch, userOps>>

ExpiredTakeover == run.status = "running" /\ run.lease = "expired"
Acquirable == run.status = "queued" \/ ExpiredTakeover

AcquiredPhase ==
  IF ~ExpiredTakeover /\ run.phase = "initializing"
  THEN IF run.plan > 0 THEN "researching" ELSE "planning"
  ELSE run.phase

AcquireForExecution(w) ==
  /\ worker[w].pc = "received"
  /\ Acquirable
  /\ run' = [run EXCEPT !.status = "running", !.phase = AcquiredPhase,
                        !.owner = worker[w].key, !.lease = "live",
                        !.version = NextVersion]
  /\ epoch' = epoch + 1
  /\ worker' = [worker EXCEPT ![w] = [@ EXCEPT !.pc = "planner",
                              !.heartbeat = TRUE, !.epoch = epoch + 1]]
  /\ UNCHANGED <<outbox, brokerVars, dispatcher, boundVars>>

(* "skipped": the message is acknowledged without effect *)
SkipDelivery(w) ==
  /\ worker[w].pc = "received"
  /\ ~Acquirable
  /\ Finish(w)
  /\ UNCHANGED <<run, outbox, brokerVars, dispatcher, epoch, boundVars>>

(* Mutant: the heartbeat does not look whether the lease has expired *)
Heartbeat_Resurrects(w) ==
  /\ Executing(w) /\ worker[w].heartbeat
  /\ IF Owns(w)
     THEN run' = [run EXCEPT !.lease = "live"] /\ UNCHANGED worker
     ELSE UNCHANGED run /\ worker' = [worker EXCEPT ![w].heartbeat = FALSE]
  /\ UNCHANGED <<outbox, brokerVars, dispatcher, epoch, boundVars>>

(* renew_execution_lease: a late heartbeat finds the lease expired and stops *)
Heartbeat(w) ==
  /\ Executing(w) /\ worker[w].heartbeat
  /\ IF Owns(w) /\ run.lease = "live"
     THEN run' = [run EXCEPT !.lease = "live"] /\ UNCHANGED worker
     ELSE UNCHANGED run /\ worker' = [worker EXCEPT ![w].heartbeat = FALSE]
  /\ UNCHANGED <<outbox, brokerVars, dispatcher, epoch, boundVars>>

(* 900 seconds without a renewal: nobody is left to renew, or (a fault) the *)
(* heartbeat of a live execution is stalled for that long                   *)
Renewing(w) == Executing(w) /\ worker[w].heartbeat /\ Owns(w)
ExpireLease ==
  /\ run.lease = "live"
  /\ IF \E w \in Workers : Renewing(w) THEN Fault ELSE UNCHANGED faults
  /\ run' = [run EXCEPT !.lease = "expired"]
  /\ UNCHANGED <<outbox, brokerVars, dispatcher, worker, epoch, userOps, setupFails>>

ReconcileExpiredLease ==
  /\ ExpiredTakeover
  /\ run' = [run EXCEPT !.status = "queued", !.phase = "initializing",
                        !.owner = NoKey, !.lease = "none",
                        !.version = NextVersion]
  /\ AddDispatch(NextVersion, TRUE)
  /\ UNCHANGED <<dispatcher, worker, epoch, boundVars>>

-----------------------------------------------------------------------------
(* Worker: the graph planner -> research <-> replan -> writer *)

(* get_plan_for_execution reads the row without locking it *)
ReadPlan(w) ==
  /\ worker[w].pc = "planner"
  /\ Goto(w, IF run.plan > 0 THEN "research" ELSE "planning")
  /\ UNCHANGED <<run, outbox, brokerVars, dispatcher, epoch, boundVars>>

(* Mutant: the plan is saved without the ownership check *)
SaveGeneratedPlan_Unfenced(w) ==
  /\ worker[w].pc = "planning"
  /\ run' = [run EXCEPT !.plan = @ + 1, !.phase = "researching",
                        !.version = NextVersion]
  /\ Goto(w, "research")
  /\ UNCHANGED <<outbox, brokerVars, dispatcher, epoch, boundVars>>

SaveGeneratedPlan(w) ==
  /\ worker[w].pc = "planning" /\ Owns(w)
  /\ run' = [run EXCEPT !.plan = @ + 1, !.phase = "researching",
                        !.version = NextVersion]
  /\ Goto(w, "research")
  /\ UNCHANGED <<outbox, brokerVars, dispatcher, epoch, boundVars>>

RecordModelRetry(w) ==
  /\ worker[w].pc = "planning" /\ Owns(w)
  /\ worker[w].tries < MaxPlannerRetries
  /\ run' = [run EXCEPT !.lease = "live", !.version = NextVersion]
  /\ worker' = [worker EXCEPT ![w].tries = @ + 1]
  /\ UNCHANGED <<outbox, brokerVars, dispatcher, epoch, boundVars>>

(* prepare_target: a question, or a feedback query, becomes the target *)
PrepareTarget(w) ==
  /\ worker[w].pc = "research" /\ Owns(w)
  /\ run.actions < MaxActions
  /\ run' = [run EXCEPT !.actions = @ + 1]
  /\ Goto(w, "target")
  /\ UNCHANGED <<outbox, brokerVars, dispatcher, epoch, boundVars>>

(* Where the graph goes when prepare_target returned no target: the replan *)
(* flag is read back from the row, and outranks the phase.                 *)
NodeWithoutTarget(phase, requested) ==
  CASE requested -> "replan"
    [] ~requested /\ phase = "researching" -> "research"
    [] ~requested /\ phase # "researching" -> "writer"

(* prepare_target ends the research: budget, deadline, quality or sources *)
PrepareEntersWriting(w) ==
  /\ worker[w].pc = "research" /\ Owns(w)
  /\ run' = [run EXCEPT !.phase = "writing", !.lease = "live",
                        !.version = NextVersion]
  /\ Goto(w, NodeWithoutTarget("writing", run.replanRequested))
  /\ UNCHANGED <<outbox, brokerVars, dispatcher, epoch, boundVars>>

(* prepare_target finds no candidate but open gaps: no version bump *)
RequestReplan(w) ==
  /\ worker[w].pc = "research" /\ Owns(w)
  /\ run.actions < MaxActions /\ run.replans < MaxReplans
  /\ run' = [run EXCEPT !.phase = "researching", !.replanRequested = TRUE]
  /\ Goto(w, NodeWithoutTarget("researching", TRUE))
  /\ UNCHANGED <<outbox, brokerVars, dispatcher, epoch, boundVars>>

(* prepare_target retires a question without choosing another one *)
RetireQuestion(w) ==
  /\ worker[w].pc = "research" /\ Owns(w)
  /\ run.actions < MaxActions
  /\ Goto(w, NodeWithoutTarget(run.phase, run.replanRequested))
  /\ UNCHANGED <<run, outbox, brokerVars, dispatcher, epoch, boundVars>>

(* finish_iteration without a stop reason: go on, or replan the open gaps *)
FinishIteration(w, node) ==
  /\ worker[w].pc = "target" /\ Owns(w)
  /\ node = "replan" => run.replans < MaxReplans /\ run.plan <= MaxReplans
  /\ run' = [run EXCEPT !.phase = "researching", !.lease = "live",
                        !.version = NextVersion]
  /\ Goto(w, node)
  /\ UNCHANGED <<outbox, brokerVars, dispatcher, epoch, boundVars>>

(* finish_iteration's early returns: the question yields or is out of tokens *)
YieldQuestion(w) ==
  /\ worker[w].pc = "target" /\ Owns(w)
  /\ Goto(w, "research")
  /\ UNCHANGED <<run, outbox, brokerVars, dispatcher, epoch, boundVars>>

(* finish_iteration with a stop reason *)
FinishResearch(w) ==
  /\ worker[w].pc = "target" /\ Owns(w)
  /\ run' = [run EXCEPT !.phase = "writing", !.lease = "live",
                        !.version = NextVersion]
  /\ Goto(w, "writer")
  /\ UNCHANGED <<outbox, brokerVars, dispatcher, epoch, boundVars>>

(* Mutant: the saved replan leaves the request flag set *)
SaveGapResolutionPlan_KeepsFlag(w) ==
  /\ worker[w].pc = "replan" /\ Owns(w) /\ run.plan > 0
  /\ run' = [run EXCEPT !.plan = @ + 1, !.replans = @ + 1,
                        !.phase = "researching", !.version = NextVersion]
  /\ Goto(w, "research")
  /\ UNCHANGED <<outbox, brokerVars, dispatcher, epoch, boundVars>>

SaveGapResolutionPlan(w) ==
  /\ worker[w].pc = "replan" /\ Owns(w) /\ run.plan > 0
  /\ run' = [run EXCEPT !.plan = @ + 1, !.replans = @ + 1,
                        !.replanRequested = FALSE,
                        !.phase = "researching", !.version = NextVersion]
  /\ Goto(w, "research")
  /\ UNCHANGED <<outbox, brokerVars, dispatcher, epoch, boundVars>>

OwnsWriting(w) == Owns(w) /\ run.phase = "writing"

(* the report, or the refusal to write one without evidence *)
SaveReport(w, outcome) ==
  /\ worker[w].pc = "writer" /\ OwnsWriting(w)
  /\ run' = [run EXCEPT !.status = outcome, !.phase = "terminal",
                        !.owner = NoKey, !.lease = "none",
                        !.version = NextVersion]
  /\ Finish(w)
  /\ UNCHANGED <<outbox, brokerVars, dispatcher, epoch, boundVars>>

-----------------------------------------------------------------------------
(* Worker: the ways an execution ends early *)

(* a commit's guard fails: the execution ends and touches nothing *)
LeaseLost(w) ==
  /\ Executing(w)
  /\ ~Owns(w) \/ (worker[w].pc = "writer" /\ run.phase # "writing")
  /\ Finish(w)
  /\ UNCHANGED <<run, outbox, brokerVars, dispatcher, epoch, boundVars>>

(* Mutant: a failing execution does not look whether it still owns the run *)
FailExecution_Unfenced(w) ==
  /\ Executing(w)
  /\ run' = [run EXCEPT !.status = "failed", !.phase = "terminal",
                        !.owner = NoKey, !.lease = "none",
                        !.version = NextVersion]
  /\ Finish(w)
  /\ UNCHANGED <<outbox, brokerVars, dispatcher, epoch, boundVars>>

FailExecution(w) ==
  /\ Executing(w) /\ Owns(w)
  /\ run' = [run EXCEPT !.status = "failed", !.phase = "terminal",
                        !.owner = NoKey, !.lease = "none",
                        !.version = NextVersion]
  /\ Finish(w)
  /\ UNCHANGED <<outbox, brokerVars, dispatcher, epoch, boundVars>>

(* consecutive requeues are counted per phase *)
ModelRequeuesUsed == IF run.modelPhase = run.phase THEN run.modelRequeues ELSE 0
SearchRequeuesUsed == IF run.searchPhase = run.phase THEN run.searchRequeues ELSE 0

(* a transient model error outlived the in-process retries; the deadline   *)
(* may also refuse the delay, which is FailExecution                       *)
DeferRetryableModelError(w) ==
  /\ worker[w].pc \in {"planning", "target"} /\ Owns(w)
  /\ ModelRequeuesUsed < MaxRequeues
  /\ run' = [run EXCEPT !.status = "queued", !.owner = NoKey, !.lease = "none",
                        !.modelPhase = run.phase,
                        !.modelRequeues = ModelRequeuesUsed + 1,
                        !.version = NextVersion]
  /\ AddDispatch(NextVersion, FALSE)
  /\ Finish(w)
  /\ UNCHANGED <<dispatcher, epoch, boundVars>>

DeferRetryableSearchError(w) ==
  /\ worker[w].pc = "target" /\ Owns(w)
  /\ SearchRequeuesUsed < MaxRequeues
  /\ run' = [run EXCEPT !.status = "queued", !.owner = NoKey, !.lease = "none",
                        !.searchPhase = run.phase,
                        !.searchRequeues = SearchRequeuesUsed + 1,
                        !.version = NextVersion]
  /\ AddDispatch(NextVersion, FALSE)
  /\ Finish(w)
  /\ UNCHANGED <<dispatcher, epoch, boundVars>>

(* the process dies: acks_late and reject_on_worker_lost put the message back *)
WorkerCrash(w) ==
  /\ worker[w].pc # "idle"
  /\ Fault
  /\ queue' = [queue EXCEPT ![worker[w].key] = @ + 1]
  /\ Finish(w)
  /\ UNCHANGED <<run, outbox, sends, dispatcher, epoch, userOps, setupFails>>

(* the task outlives the broker's visibility timeout and is delivered again *)
Redeliver(w) ==
  /\ Executing(w)
  /\ Fault
  /\ queue' = [queue EXCEPT ![worker[w].key] = @ + 1]
  /\ sends' = [sends EXCEPT ![worker[w].key] = @ + 1]
  /\ UNCHANGED <<run, outbox, dispatcher, worker, epoch, userOps, setupFails>>

-----------------------------------------------------------------------------
UserNext == Create \/ Cancel \/ Pause \/ Resume

DispatcherStep(d) ==
  \/ ClaimBatch(d)
  \/ \E k \in Keys : SendTask(d, k, TRUE, TRUE)
  \/ MarkDispatch(d)

DispatcherFault(d) ==
  \/ \E k \in Keys, delivered \in BOOLEAN : SendTask(d, k, delivered, FALSE)
  \/ DispatcherCrash(d)

WorkerStep(w) ==
  \/ \E k \in Keys : Receive(w, k)
  \/ AcquireForExecution(w)
  \/ SkipDelivery(w)
  \/ ReadPlan(w)
  \/ SaveGeneratedPlan(w)
  \/ RecordModelRetry(w)
  \/ PrepareTarget(w)
  \/ PrepareEntersWriting(w)
  \/ RequestReplan(w)
  \/ RetireQuestion(w)
  \/ \E node \in {"research", "replan"} : FinishIteration(w, node)
  \/ YieldQuestion(w)
  \/ FinishResearch(w)
  \/ SaveGapResolutionPlan(w)
  \/ \E outcome \in {"completed", "completed_with_limitations", "failed"} :
       SaveReport(w, outcome)
  \/ LeaseLost(w)
  \/ FailExecution(w)
  \/ DeferRetryableModelError(w)
  \/ DeferRetryableSearchError(w)

WorkerFault(w) == FailBeforeAcquire(w) \/ WorkerCrash(w) \/ Redeliver(w)

Next ==
  \/ UserNext
  \/ ExpireLease
  \/ ReconcileExpiredLease
  \/ \E k \in Keys : Ripen(k)
  \/ \E d \in Dispatchers : DispatcherStep(d) \/ DispatcherFault(d)
  \/ \E w \in Workers : WorkerStep(w) \/ WorkerFault(w) \/ Heartbeat(w)

Spec == Init /\ [][Next]_vars

(* The dispatcher loops forever, worker processes are restarted and every   *)
(* call they make has a timeout, beat runs the reconciler every minute, and *)
(* time passes.  Nothing is assumed of the user or of the faults.           *)
Fairness ==
  /\ \A d \in Dispatchers : WF_vars(DispatcherStep(d))
  /\ \A w \in Workers : WF_vars(WorkerStep(w))
  /\ WF_vars(ReconcileExpiredLease)
  /\ WF_vars(ExpireLease /\ UNCHANGED faults)
  /\ WF_vars(\E k \in Keys : Ripen(k))

FairSpec == Spec /\ Fairness

-----------------------------------------------------------------------------
(* Properties *)

(* While a dispatch has entered the broker at most once, its key fences: an *)
(* execution whose commits the worker_task_id check lets through is the one *)
(* that acquired the run last.  (acquire_for_execution, _locked_run)        *)
FencingTokenUnique ==
  \A w \in Workers :
    Executing(w) /\ Owns(w) /\ sends[worker[w].key] <= 1
      => worker[w].epoch = epoch

(* A queued run can still be started: some dispatch of it is in the outbox, *)
(* in the broker, or in the hands of a worker that has not acquired yet -   *)
(* unless a task died before acquiring.                                     *)
Live(k) ==
  \/ outbox[k].st \in Unpublished
  \/ queue[k] > 0
  \/ \E w \in Workers : worker[w].pc = "received" /\ worker[w].key = k
NoLostWakeup ==
  run.status = "queued" /\ setupFails = 0 => \E k \in Keys : Live(k)

(* Lease fields and status agree: a run is leased exactly while it runs, so *)
(* the reconciler's scan of running rows sees every abandoned execution.    *)
LeaseIffRunning ==
  /\ run.status = "running" <=> run.lease # "none"
  /\ run.status = "running" <=> run.owner # NoKey

AtMostOnce == \A k \in Keys : sends[k] <= 1

(* The first plan is generated once, although planner_node reads "no plan   *)
(* yet" without a lock and saves minutes later, after pauses, takeovers and *)
(* restarts; every later plan version is a counted replan.                  *)
PlanGeneratedOnce == AtMostOnce => run.plan <= run.replans + 1

(* save_gap_resolution_plan has no limit of its own: the checks at the two  *)
(* places that decide to replan, and the flag that survives a crash between *)
(* decision and save, keep the replans within _MAX_REPLANS.                 *)
ReplansBounded == AtMostOnce => run.replans <= MaxReplans

(* A terminal run stays as it is, whatever a late execution, dispatch or    *)
(* reconciler pass does; only the user's resume queues it again, and never  *)
(* a completed one.                                                         *)
TerminalStep ==
  run.status \in TerminalStatuses =>
    \/ run' = run
    \/ /\ run.status \in {"cancelled", "failed"}
       /\ run'.status = "queued" /\ userOps' = userOps + 1
TerminalIsFinal == [][TerminalStep]_vars

(* An expired lease is never silently renewed: it becomes live again only   *)
(* with a new state_version, that is by a takeover or by a commit of the    *)
(* execution that still owns the run - never by a delayed heartbeat.        *)
RevivalStep ==
  run.lease = "expired" /\ run'.lease = "live" => run'.version > run.version
LeaseRevivalIsVersioned == [][RevivalStep]_vars

(* Every run that is queued or running comes to rest - finished, failed,    *)
(* cancelled or paused - after finitely many faults, unless a task died     *)
(* before it acquired the run.                                              *)
AtRest == run.status \in TerminalStatuses \cup {"interrupted"}
Settles == run.status \in {"queued", "running"} ~> (AtRest \/ setupFails > 0)

(* What the documentation says of duplicate deliveries ("skipped") and of   *)
(* the execution a pause or cancel revokes ("a no-op"): only the execution  *)
(* that acquired the run last can commit.  Not so when two copies of one    *)
(* dispatch reach the workers: both executions carry the same task id.      *)
RevokedExecutionIsNoOp ==
  \A w \in Workers : Executing(w) /\ Owns(w) => worker[w].epoch = epoch

=============================================================================
