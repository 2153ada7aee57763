----------------------------- MODULE RunProofs -----------------------------
(***************************************************************************)
(* Proofs about the run as its owner and its workers see it: RunLifecycle, *)
(* for any number of workers and dispatchers and any bounds, and           *)
(* RunService, for any number of profiles, adapters, requests and clients. *)
(* The two components have no variable in common.                          *)
(***************************************************************************)
EXTENDS RunLifecycle, RunService, FiniteSetTheorems, SequenceTheorems, TLAPS

-----------------------------------------------------------------------------
(* Type correctness, part by part *)

MapsType ==
  /\ Keys \subseteq Nat \ {NoKey}
  /\ outbox \in [Keys -> OutboxRow]
  /\ queue \in [Keys -> Nat]
  /\ sends \in [Keys -> Nat]

DispatcherType ==
  /\ dispatcher \in [Dispatchers -> DispatcherState]
  /\ \A d \in Dispatchers : /\ dispatcher[d].batch \subseteq Keys
                            /\ dispatcher[d].key \in Keys \cup {NoKey}

WorkerType ==
  /\ worker \in [Workers -> WorkerState]
  /\ \A w \in Workers : worker[w].pc # "idle" => worker[w].key \in Keys

CountersType ==
  epoch \in Nat /\ userOps \in Nat /\ faults \in Nat /\ setupFails \in Nat

(* TypeOK is the conjunction of its parts. *)
LEMMA TypeParts ==
  TypeOK <=> run \in RunRow /\ MapsType /\ DispatcherType /\ WorkerType /\ CountersType
  BY DEF TypeOK, MapsType, DispatcherType, WorkerType, CountersType

(* The values the actions assign belong to the types of their columns. *)
LEMMA RowValues ==
  /\ "queued" \in Statuses /\ "running" \in Statuses /\ "interrupted" \in Statuses
  /\ "failed" \in Statuses /\ "cancelled" \in Statuses /\ "completed" \in Statuses
  /\ "completed_with_limitations" \in Statuses /\ "absent" \in Statuses
  /\ "initializing" \in Phases /\ "planning" \in Phases /\ "researching" \in Phases
  /\ "writing" \in Phases /\ "terminal" \in Phases
  /\ "none" \in Leases /\ "live" \in Leases /\ "expired" \in Leases
  /\ NoKey \in Nat
  BY DEF Statuses, TerminalStatuses, Phases, Leases, NoKey

LEMMA PcValues ==
  /\ "idle" \in Pcs /\ "received" \in Pcs /\ "planner" \in Pcs /\ "planning" \in Pcs
  /\ "research" \in Pcs /\ "target" \in Pcs /\ "replan" \in Pcs /\ "writer" \in Pcs
  BY DEF Pcs

LEMMA IdleTypes == IdleWorker \in WorkerState /\ IdleDispatcher \in DispatcherState
  BY PcValues DEF IdleWorker, WorkerState, IdleDispatcher, DispatcherState, NoKey

(* A worker that gets a well-typed state keeps the workers well typed. *)
LEMMA WorkerUpdate ==
  ASSUME WorkerType, NEW w \in Workers, NEW s \in WorkerState,
         s.pc # "idle" => s.key \in Keys,
         worker' = [worker EXCEPT ![w] = s], Keys \subseteq Keys'
  PROVE  WorkerType'
  BY DEF WorkerType

LEMMA FinishType ==
  ASSUME WorkerType, NEW w \in Workers, Finish(w), Keys \subseteq Keys'
  PROVE  WorkerType'
<1>1. IdleWorker.pc = "idle"
  BY DEF IdleWorker
<1> QED
  BY <1>1, IdleTypes, WorkerUpdate DEF Finish

LEMMA GotoType ==
  ASSUME WorkerType, NEW w \in Workers, worker[w].pc # "idle",
         NEW pc \in Pcs, Goto(w, pc), Keys \subseteq Keys'
  PROVE  WorkerType'
<1> DEFINE s == [worker[w] EXCEPT !.pc = pc]
<1>1. worker[w] \in WorkerState
  BY DEF WorkerType
<1>2. s \in WorkerState /\ s.key = worker[w].key
  BY <1>1 DEF WorkerState
<1>3. s.key \in Keys
  BY <1>2 DEF WorkerType
<1>4. worker' = [worker EXCEPT ![w] = s]
  BY DEF Goto
<1> HIDE DEF s
<1> QED
  BY <1>2, <1>3, <1>4, WorkerUpdate

(* A new dispatch extends the outbox and the broker's counters by its key. *)
LEMMA AddDispatchFacts ==
  ASSUME MapsType, NEW k \in Nat \ {NoKey}, NEW due \in BOOLEAN, AddDispatch(k, due)
  PROVE  /\ MapsType'
         /\ Keys' = Keys \cup {k}
         /\ outbox'[k] = [st |-> "pending", ripe |-> due]
         /\ queue'[k] = 0 /\ sends'[k] = 0
         /\ \A x \in Keys : x # k => /\ outbox'[x] = outbox[x]
                                     /\ queue'[x] = queue[x]
                                     /\ sends'[x] = sends[x]
<1> DEFINE row == [st |-> "pending", ripe |-> due]
<1>1. row \in OutboxRow
  BY DEF OutboxRow, Unpublished
<1>2. outbox' = AddTo(outbox, k, row) /\ queue' = AddTo(queue, k, 0)
      /\ sends' = AddTo(sends, k, 0)
  BY DEF AddDispatch
<1> HIDE DEF row
<1>3. /\ outbox' \in [Keys \cup {k} -> OutboxRow] /\ outbox'[k] = row
      /\ DOMAIN outbox' = Keys \cup {k}
      /\ \A x \in Keys : x # k => outbox'[x] = outbox[x]
  BY <1>1, <1>2 DEF MapsType, AddTo, Keys
<1>4. /\ queue' \in [Keys \cup {k} -> Nat] /\ queue'[k] = 0
      /\ \A x \in Keys : x # k => queue'[x] = queue[x]
  BY <1>2 DEF MapsType, AddTo
<1>5. /\ sends' \in [Keys \cup {k} -> Nat] /\ sends'[k] = 0
      /\ \A x \in Keys : x # k => sends'[x] = sends[x]
  BY <1>2 DEF MapsType, AddTo
<1>6. Keys' = Keys \cup {k}
  BY <1>3 DEF Keys
<1>7. MapsType'
  BY <1>3, <1>4, <1>5, <1>6 DEF MapsType
<1> QED
  BY <1>3, <1>4, <1>5, <1>6, <1>7 DEF row

LEMMA DispatcherGrow ==
  ASSUME DispatcherType, dispatcher' = dispatcher, Keys \subseteq Keys'
  PROVE  DispatcherType'
  BY DEF DispatcherType

LEMMA WorkerGrow ==
  ASSUME WorkerType, worker' = worker, Keys \subseteq Keys'
  PROVE  WorkerType'
  BY DEF WorkerType

LEMMA RevokeType ==
  ASSUME MapsType, RevokeDispatches, UNCHANGED brokerVars
  PROVE  MapsType' /\ Keys' = Keys
<1>1. [st |-> "cancelled", ripe |-> FALSE] \in OutboxRow
  BY DEF OutboxRow
<1>2. outbox' \in [Keys -> OutboxRow]
  BY <1>1 DEF RevokeDispatches, MapsType
<1>3. Keys' = Keys
  BY <1>2 DEF Keys
<1> QED
  BY <1>2, <1>3 DEF MapsType, brokerVars

LEMMA RowFacts ==
  ASSUME run \in RunRow
  PROVE  /\ NextVersion \in Nat \ {NoKey} /\ NextVersion > run.version
         /\ run.phase \in Phases /\ run.version \in Nat /\ AcquiredPhase \in Phases
         /\ ModelRequeuesUsed + 1 \in Nat /\ SearchRequeuesUsed + 1 \in Nat
         /\ run.plan + 1 \in Nat /\ run.replans + 1 \in Nat /\ run.actions + 1 \in Nat
<1>1. /\ run.phase \in Phases /\ run.version \in Nat /\ run.modelRequeues \in Nat
      /\ run.searchRequeues \in Nat /\ run.plan \in Nat /\ run.replans \in Nat
      /\ run.actions \in Nat
  BY DEF RunRow
<1> QED
  BY <1>1, RowValues
     DEF NextVersion, NoKey, AcquiredPhase, ModelRequeuesUsed, SearchRequeuesUsed

(* Every step of the run row's actions leaves a well-typed row. *)
LEMMA RowStep ==
  ASSUME TypeOK, Next
  PROVE  run' \in RunRow
<1>0. run \in RunRow /\ WorkerType
  BY TypeParts
<1> USE <1>0, RowFacts, RowValues
<1>1. CASE UserNext
  <2>1. CASE Create
    BY <2>1 DEF Create, RunRow
  <2>2. CASE Cancel
    BY <2>2 DEF Cancel, RunRow
  <2>3. CASE Pause
    BY <2>3 DEF Pause, RunRow
  <2>4. CASE Resume
    BY <2>4 DEF Resume, RunRow
  <2> QED
    BY <1>1, <2>1, <2>2, <2>3, <2>4 DEF UserNext
<1>2. CASE ExpireLease \/ ReconcileExpiredLease
  BY <1>2 DEF ExpireLease, ReconcileExpiredLease, RunRow
<1>3. CASE \E k \in Keys : Ripen(k)
  BY <1>3 DEF Ripen
<1>4. CASE \E d \in Dispatchers : DispatcherStep(d) \/ DispatcherFault(d)
  BY <1>4 DEF DispatcherStep, DispatcherFault, ClaimBatch, SendTask, MarkDispatch,
     DispatcherCrash
<1>5. ASSUME NEW w \in Workers, WorkerStep(w) \/ WorkerFault(w) \/ Heartbeat(w)
      PROVE  run' \in RunRow
  <2>1. worker[w].key \in Nat
    BY DEF WorkerType, WorkerState
  <2>2. CASE AcquireForExecution(w)
    BY <2>1, <2>2 DEF AcquireForExecution, RunRow
  <2>3. CASE SaveGeneratedPlan(w) \/ SaveGapResolutionPlan(w) \/ RecordModelRetry(w)
    BY <2>3 DEF SaveGeneratedPlan, SaveGapResolutionPlan, RecordModelRetry, RunRow
  <2>4. CASE PrepareTarget(w) \/ PrepareEntersWriting(w) \/ RequestReplan(w)
             \/ FinishResearch(w)
    BY <2>4 DEF PrepareTarget, PrepareEntersWriting, RequestReplan, FinishResearch, RunRow
  <2>5. CASE \E node \in {"research", "replan"} : FinishIteration(w, node)
    BY <2>5 DEF FinishIteration, RunRow
  <2>6. ASSUME NEW o \in {"completed", "completed_with_limitations", "failed"},
               SaveReport(w, o)
        PROVE  run' \in RunRow
    <3>1. o \in Statuses
      OBVIOUS
    <3> QED
      BY <2>6, <3>1 DEF SaveReport, RunRow
  <2>7. CASE FailExecution(w)
    BY <2>7 DEF FailExecution, RunRow
  <2>10. CASE DeferRetryableModelError(w)
    BY <2>10 DEF DeferRetryableModelError, RunRow
  <2>11. CASE DeferRetryableSearchError(w)
    BY <2>11 DEF DeferRetryableSearchError, RunRow
  <2>8. CASE Heartbeat(w)
    BY <2>8 DEF Heartbeat, RunRow
  <2>9. CASE run' = run
    BY <2>9
  <2> QED
    BY <1>5, <2>2, <2>3, <2>4, <2>5, <2>6, <2>7, <2>8, <2>9, <2>10, <2>11
    DEF WorkerStep, WorkerFault, Receive, SkipDelivery, ReadPlan, RetireQuestion,
        YieldQuestion, LeaseLost, FailBeforeAcquire, WorkerCrash, Redeliver
<1> QED
  BY <1>1, <1>2, <1>3, <1>4, <1>5 DEF Next

(* The keys of the outbox and of the broker only grow, and stay in step. *)
LEMMA MapsStep ==
  ASSUME TypeOK, Next
  PROVE  MapsType' /\ Keys \subseteq Keys'
<1>0. run \in RunRow /\ MapsType /\ DispatcherType /\ WorkerType
  BY TypeParts
<1> USE <1>0
<1>a. \A due \in BOOLEAN : AddDispatch(NextVersion, due) => MapsType' /\ Keys \subseteq Keys'
  BY RowFacts, AddDispatchFacts
<1>b. UNCHANGED <<outbox, brokerVars>> => MapsType' /\ Keys \subseteq Keys'
  BY DEF MapsType, brokerVars, Keys
<1>c. RevokeDispatches /\ UNCHANGED brokerVars => MapsType' /\ Keys \subseteq Keys'
  BY RevokeType
<1>1. CASE UserNext
  <2>1. Create => MapsType' /\ Keys \subseteq Keys'
    <3>1. 1 \in Nat \ {NoKey}
      BY DEF NoKey
    <3>2. Create => AddDispatch(1, TRUE)
      BY DEF Create
    <3> QED
      BY <3>1, <3>2, AddDispatchFacts
  <2> QED
    BY <1>1, <1>a, <1>c, <2>1 DEF UserNext, Cancel, Pause, Resume
<1>2. CASE ExpireLease \/ ReconcileExpiredLease
  BY <1>2, <1>a, <1>b DEF ExpireLease, ReconcileExpiredLease
<1>3. ASSUME NEW k \in Keys, Ripen(k)
      PROVE  MapsType' /\ Keys \subseteq Keys'
  <2>1. outbox[k] \in OutboxRow
    BY DEF MapsType
  <2>2. [outbox[k] EXCEPT !.ripe = TRUE] \in OutboxRow
    BY <2>1 DEF OutboxRow
  <2>3. outbox' \in [Keys -> OutboxRow]
    BY <1>3, <2>2 DEF Ripen, MapsType
  <2>4. Keys' = Keys
    BY <2>3 DEF Keys
  <2> QED
    BY <1>3, <2>3, <2>4 DEF Ripen, MapsType, brokerVars
<1>4. ASSUME NEW d \in Dispatchers, DispatcherStep(d) \/ DispatcherFault(d)
      PROVE  MapsType' /\ Keys \subseteq Keys'
  <2>1. CASE ClaimBatch(d)
    <3>1. [st |-> "publishing", ripe |-> FALSE] \in OutboxRow
      BY DEF OutboxRow, Unpublished
    <3>2. outbox' \in [Keys -> OutboxRow]
      BY <2>1, <3>1 DEF ClaimBatch, MapsType
    <3>3. Keys' = Keys
      BY <3>2 DEF Keys
    <3> QED
      BY <2>1, <3>2, <3>3 DEF ClaimBatch, MapsType, brokerVars
  <2>2. ASSUME NEW k \in Keys, NEW delivered \in BOOLEAN, NEW ok \in BOOLEAN,
               SendTask(d, k, delivered, ok)
        PROVE  MapsType' /\ Keys \subseteq Keys'
    <3>1. Keys' = Keys /\ outbox' \in [Keys -> OutboxRow]
      BY <2>2 DEF SendTask, Keys, MapsType
    <3>2. queue' \in [Keys -> Nat] /\ sends' \in [Keys -> Nat]
      BY <2>2 DEF SendTask, MapsType, brokerVars
    <3> QED
      BY <3>1, <3>2 DEF MapsType
  <2>3. CASE MarkDispatch(d)
    <3>1. dispatcher[d].key \in Keys
      BY <2>3 DEF MarkDispatch, DispatcherType
    <3>2. \A b \in {"published", "retry"} : [st |-> b, ripe |-> FALSE] \in OutboxRow
      BY DEF OutboxRow, Unpublished
    <3>3. outbox' \in [Keys -> OutboxRow]
      BY <2>3, <3>1, <3>2 DEF MarkDispatch, MapsType
    <3>4. Keys' = Keys
      BY <3>3 DEF Keys
    <3> QED
      BY <2>3, <3>3, <3>4 DEF MarkDispatch, MapsType, brokerVars
  <2>4. CASE DispatcherCrash(d)
    BY <2>4, <1>b DEF DispatcherCrash
  <2> QED
    BY <1>4, <2>1, <2>2, <2>3, <2>4 DEF DispatcherStep, DispatcherFault
<1>5. ASSUME NEW w \in Workers, WorkerStep(w) \/ WorkerFault(w) \/ Heartbeat(w)
      PROVE  MapsType' /\ Keys \subseteq Keys'
  <2>1. ASSUME NEW k \in Keys, Receive(w, k)
        PROVE  MapsType' /\ Keys \subseteq Keys'
    <3>1. queue' \in [Keys -> Nat]
      BY <2>1 DEF Receive, MapsType
    <3> QED
      BY <2>1, <3>1 DEF Receive, MapsType, Keys
  <2>2. CASE WorkerCrash(w) \/ Redeliver(w)
    <3>1. queue' \in [Keys -> Nat] /\ sends' \in [Keys -> Nat]
      BY <2>2 DEF WorkerCrash, Redeliver, MapsType
    <3> QED
      BY <2>2, <3>1 DEF WorkerCrash, Redeliver, MapsType, Keys
  <2>3. CASE DeferRetryableModelError(w) \/ DeferRetryableSearchError(w)
    BY <2>3, <1>a DEF DeferRetryableModelError, DeferRetryableSearchError
  <2>4. CASE UNCHANGED <<outbox, brokerVars>>
    BY <2>4, <1>b
  <2> QED
    BY <1>5, <2>1, <2>2, <2>3, <2>4
    DEF WorkerStep, WorkerFault, Heartbeat, AcquireForExecution, SkipDelivery, ReadPlan,
        SaveGeneratedPlan, RecordModelRetry, PrepareTarget, PrepareEntersWriting,
        RequestReplan, RetireQuestion, FinishIteration, YieldQuestion, FinishResearch,
        SaveGapResolutionPlan, SaveReport, LeaseLost, FailExecution, FailBeforeAcquire
<1> QED
  BY <1>1, <1>2, <1>3, <1>4, <1>5 DEF Next

(* Dispatchers only ever hold keys of the outbox. *)
LEMMA DispatcherTypeStep ==
  ASSUME TypeOK, Next, Keys \subseteq Keys'
  PROVE  DispatcherType'
<1>0. MapsType /\ DispatcherType
  BY TypeParts
<1> USE <1>0
<1>1. CASE UNCHANGED dispatcher
  BY <1>1, DispatcherGrow
<1>2. ASSUME NEW d \in Dispatchers, NEW s \in DispatcherState,
             s.batch \subseteq Keys, s.key \in Keys \cup {NoKey},
             dispatcher' = [dispatcher EXCEPT ![d] = s]
      PROVE  DispatcherType'
  BY <1>2 DEF DispatcherType
<1>3. ASSUME NEW d \in Dispatchers, DispatcherStep(d) \/ DispatcherFault(d)
      PROVE  DispatcherType'
  <2>1. /\ dispatcher[d] \in DispatcherState /\ dispatcher[d].batch \subseteq Keys
        /\ dispatcher[d].key \in Keys \cup {NoKey}
    BY DEF DispatcherType
  <2>2. CASE ClaimBatch(d)
    <3> DEFINE due == {k \in Keys : Claimable(k)}
               s == [dispatcher[d] EXCEPT !.batch = due]
    <3>1. due \subseteq Nat /\ due \subseteq Keys
      BY DEF MapsType
    <3>2. dispatcher' = [dispatcher EXCEPT ![d] = s]
      BY <2>2 DEF ClaimBatch
    <3> HIDE DEF due
    <3>3. s \in DispatcherState /\ s.batch = due /\ s.key = dispatcher[d].key
      BY <2>1, <3>1 DEF DispatcherState
    <3> HIDE DEF s
    <3> QED
      BY <1>2, <2>1, <3>1, <3>2, <3>3
  <2>3. ASSUME NEW k \in Keys, NEW delivered \in BOOLEAN, NEW ok \in BOOLEAN,
               SendTask(d, k, delivered, ok)
        PROVE  DispatcherType'
    <3> DEFINE s == [batch |-> dispatcher[d].batch \ {k}, key |-> k, ok |-> ok]
    <3>1. k \in Nat
      BY DEF MapsType
    <3>2. s \in DispatcherState /\ s.batch \subseteq Keys /\ s.key = k
      BY <2>1, <3>1 DEF DispatcherState
    <3>3. dispatcher' = [dispatcher EXCEPT ![d] = s]
      BY <2>3 DEF SendTask
    <3> HIDE DEF s
    <3> QED
      BY <1>2, <3>2, <3>3
  <2>4. CASE MarkDispatch(d)
    <3> DEFINE s == [dispatcher[d] EXCEPT !.key = NoKey, !.ok = FALSE]
    <3>1. s \in DispatcherState /\ s.batch = dispatcher[d].batch /\ s.key = NoKey
      BY <2>1 DEF DispatcherState, NoKey
    <3>2. dispatcher' = [dispatcher EXCEPT ![d] = s]
      BY <2>4 DEF MarkDispatch
    <3> HIDE DEF s
    <3> QED
      BY <1>2, <2>1, <3>1, <3>2
  <2>5. CASE DispatcherCrash(d)
    <3>1. IdleDispatcher.batch = {} /\ IdleDispatcher.key = NoKey
      BY DEF IdleDispatcher
    <3> QED
      BY <1>2, <2>5, <3>1, IdleTypes DEF DispatcherCrash
  <2> QED
    BY <1>3, <2>2, <2>3, <2>4, <2>5 DEF DispatcherStep, DispatcherFault
<1>4. ASSUME NEW w \in Workers, WorkerStep(w) \/ WorkerFault(w) \/ Heartbeat(w)
      PROVE  UNCHANGED dispatcher
  BY <1>4
  DEF WorkerStep, WorkerFault, Heartbeat, Receive, AcquireForExecution, SkipDelivery,
      ReadPlan, SaveGeneratedPlan, RecordModelRetry, PrepareTarget, PrepareEntersWriting,
      RequestReplan, RetireQuestion, FinishIteration, YieldQuestion, FinishResearch,
      SaveGapResolutionPlan, SaveReport, LeaseLost, FailExecution, FailBeforeAcquire,
      DeferRetryableModelError, DeferRetryableSearchError, WorkerCrash, Redeliver
<1> QED
  BY <1>1, <1>3, <1>4
  DEF Next, UserNext, Create, Cancel, Pause, Resume, ExpireLease, ReconcileExpiredLease,
      Ripen

(* A worker that is not idle holds a key of the outbox. *)
LEMMA WorkerTypeStep ==
  ASSUME TypeOK, Next, Keys \subseteq Keys'
  PROVE  WorkerType'
<1>0. run \in RunRow /\ MapsType /\ WorkerType /\ epoch \in Nat
  BY TypeParts DEF CountersType
<1> USE <1>0
<1>1. CASE UNCHANGED worker
  BY <1>1, WorkerGrow
<1>2. ASSUME NEW w \in Workers, WorkerStep(w) \/ WorkerFault(w) \/ Heartbeat(w)
      PROVE  WorkerType'
  <2>1. worker[w] \in WorkerState /\ (worker[w].pc # "idle" => worker[w].key \in Keys)
    BY DEF WorkerType
  <2>2. CASE Finish(w)
    BY <2>2, FinishType
  <2>3. ASSUME NEW pc \in Pcs, Goto(w, pc), worker[w].pc # "idle"
        PROVE  WorkerType'
    BY <2>3, GotoType
  <2>4. ASSUME NEW k \in Keys, Receive(w, k)
        PROVE  WorkerType'
    <3> DEFINE s == [worker[w] EXCEPT !.pc = "received", !.key = k]
    <3>1. k \in Nat
      BY DEF MapsType
    <3>2. s \in WorkerState /\ s.key = k
      BY <2>1, <3>1, PcValues DEF WorkerState
    <3>3. worker' = [worker EXCEPT ![w] = s]
      BY <2>4 DEF Receive
    <3> HIDE DEF s
    <3> QED
      BY <3>2, <3>3, WorkerUpdate
  <2>5. CASE AcquireForExecution(w)
    <3> DEFINE s == [worker[w] EXCEPT !.pc = "planner", !.heartbeat = TRUE,
                                      !.epoch = epoch + 1]
    <3>0. epoch + 1 \in Nat
      OBVIOUS
    <3>1. s \in WorkerState /\ s.key = worker[w].key
      BY <2>1, <3>0, PcValues DEF WorkerState
    <3>2. worker' = [worker EXCEPT ![w] = s] /\ worker[w].pc # "idle"
      BY <2>5 DEF AcquireForExecution
    <3> HIDE DEF s
    <3> QED
      BY <2>1, <3>1, <3>2, WorkerUpdate
  <2>6. CASE Heartbeat(w)
    <3> DEFINE s == [worker[w] EXCEPT !.heartbeat = FALSE]
    <3>1. s \in WorkerState /\ s.key = worker[w].key /\ s.pc = worker[w].pc
      BY <2>1 DEF WorkerState
    <3>2. UNCHANGED worker \/ worker' = [worker EXCEPT ![w] = s]
      BY <2>6 DEF Heartbeat
    <3> HIDE DEF s
    <3> QED
      BY <1>1, <2>1, <3>1, <3>2, WorkerUpdate
  <2>7. CASE RecordModelRetry(w)
    <3> DEFINE s == [worker[w] EXCEPT !.tries = @ + 1]
    <3>1. s \in WorkerState /\ s.key = worker[w].key /\ s.pc = worker[w].pc
      BY <2>1 DEF WorkerState
    <3>2. worker' = [worker EXCEPT ![w] = s]
      BY <2>7 DEF RecordModelRetry
    <3> HIDE DEF s
    <3> QED
      BY <2>1, <3>1, <3>2, WorkerUpdate
  <2>8. \A phase, requested : NodeWithoutTarget(phase, requested) \in Pcs
               \/ requested \notin BOOLEAN
    BY PcValues DEF NodeWithoutTarget
  <2>9. run.replanRequested \in BOOLEAN
    BY DEF RunRow
  <2>10. CASE ReadPlan(w) \/ SaveGeneratedPlan(w) \/ PrepareTarget(w)
              \/ YieldQuestion(w) \/ FinishResearch(w) \/ SaveGapResolutionPlan(w)
    BY <2>3, <2>10, PcValues DEF ReadPlan, SaveGeneratedPlan, PrepareTarget,
       YieldQuestion, FinishResearch, SaveGapResolutionPlan
  <2>11. CASE PrepareEntersWriting(w) \/ RequestReplan(w) \/ RetireQuestion(w)
    BY <2>3, <2>8, <2>9, <2>11
    DEF PrepareEntersWriting, RequestReplan, RetireQuestion
  <2>12. CASE \E node \in {"research", "replan"} : FinishIteration(w, node)
    BY <2>3, <2>12, PcValues DEF FinishIteration
  <2> QED
    BY <1>1, <1>2, <2>2, <2>4, <2>5, <2>6, <2>7, <2>10, <2>11, <2>12
    DEF WorkerStep, WorkerFault, SkipDelivery, SaveReport, LeaseLost, FailExecution,
        FailBeforeAcquire, DeferRetryableModelError, DeferRetryableSearchError,
        WorkerCrash, Redeliver
<1>3. ASSUME NEW d \in Dispatchers, DispatcherStep(d) \/ DispatcherFault(d)
      PROVE  UNCHANGED worker
  BY <1>3 DEF DispatcherStep, DispatcherFault, ClaimBatch, SendTask, MarkDispatch,
     DispatcherCrash
<1> QED
  BY <1>1, <1>2, <1>3
  DEF Next, UserNext, Create, Cancel, Pause, Resume, ExpireLease, ReconcileExpiredLease,
      Ripen

LEMMA CountersStep ==
  ASSUME TypeOK, Next
  PROVE  CountersType'
<1>0. CountersType
  BY TypeParts
<1>1. /\ epoch' = epoch \/ epoch' = epoch + 1
      /\ userOps' = userOps \/ userOps' = userOps + 1
      /\ faults' = faults \/ faults' = faults + 1
      /\ setupFails' = setupFails \/ setupFails' = setupFails + 1
  <2>1. CASE UserNext \/ ExpireLease \/ ReconcileExpiredLease \/ \E k \in Keys : Ripen(k)
    BY <2>1 DEF UserNext, Create, Cancel, Pause, Resume, UserRequest, ExpireLease,
       ReconcileExpiredLease, Ripen, Fault, boundVars
  <2>2. CASE \E d \in Dispatchers : DispatcherStep(d) \/ DispatcherFault(d)
    BY <2>2 DEF DispatcherStep, DispatcherFault, ClaimBatch, SendTask, MarkDispatch,
       DispatcherCrash, Fault, boundVars
  <2>3. CASE \E w \in Workers : WorkerStep(w) \/ WorkerFault(w) \/ Heartbeat(w)
    BY <2>3
    DEF WorkerStep, WorkerFault, Heartbeat, Receive, AcquireForExecution, SkipDelivery,
        ReadPlan, SaveGeneratedPlan, RecordModelRetry, PrepareTarget,
        PrepareEntersWriting, RequestReplan, RetireQuestion, FinishIteration,
        YieldQuestion, FinishResearch, SaveGapResolutionPlan, SaveReport, LeaseLost,
        FailExecution, FailBeforeAcquire, DeferRetryableModelError,
        DeferRetryableSearchError, WorkerCrash, Redeliver, Fault, boundVars
  <2> QED
    BY <2>1, <2>2, <2>3 DEF Next
<1> QED
  BY <1>0, <1>1 DEF CountersType

LEMMA InitType == Init => TypeOK
<1> SUFFICES ASSUME Init PROVE TypeOK
  OBVIOUS
<1>1. run \in RunRow
  BY RowValues DEF Init, RunRow
<1>2. Keys = {}
  BY DEF Init, Keys
<1>3. MapsType
  BY <1>2 DEF Init, MapsType
<1>4. IdleDispatcher.batch = {} /\ IdleDispatcher.key = NoKey /\ IdleWorker.pc = "idle"
  BY DEF IdleDispatcher, IdleWorker
<1>5. DispatcherType /\ WorkerType
  BY <1>4, IdleTypes DEF Init, DispatcherType, WorkerType
<1>6. CountersType
  BY DEF Init, CountersType
<1> QED
  BY <1>1, <1>3, <1>5, <1>6, TypeParts

LEMMA NextType ==
  ASSUME TypeOK, [Next]_vars
  PROVE  TypeOK'
<1>1. CASE Next
  <2>1. TypeOK' <=> /\ run' \in RunRow /\ MapsType' /\ DispatcherType' /\ WorkerType'
                    /\ CountersType'
    BY DEF TypeOK, MapsType, DispatcherType, WorkerType, CountersType, Keys
  <2> QED
    BY <1>1, <2>1, RowStep, MapsStep, DispatcherTypeStep, WorkerTypeStep, CountersStep
<1>2. CASE UNCHANGED vars
  BY <1>2 DEF vars, TypeOK, Keys
<1> QED
  BY <1>1, <1>2

(* The row, the outbox, the broker and every process keep their types: no   *)
(* message count goes negative, and no process holds a dispatch key the     *)
(* outbox does not know.                                                    *)
THEOREM TypeCorrect == Spec => []TypeOK
<1>1. TypeOK /\ [Next]_vars => TypeOK'
  BY NextType
<1> QED
  BY <1>1, InitType, PTL DEF Spec

-----------------------------------------------------------------------------
(* What a step may do to the run row *)

(* The version never goes back, the lease agrees with the status, terminal  *)
(* rows and expired leases are respected.                                   *)
RowFrame ==
  /\ run'.version >= run.version
  /\ run'.status = "absent" => run' = run
  /\ LeaseIffRunning'
  /\ TerminalStep
  /\ RevivalStep

(* Ownership comes from acquire_for_execution alone. *)
KeepsOwner ==
  run'.status = "running" => run.status = "running" /\ run'.owner = run.owner

LEMMA UnchangedRow ==
  ASSUME run \in RunRow, LeaseIffRunning, run' = run
  PROVE  RowFrame /\ KeepsOwner
  BY DEF RunRow, RowFrame, KeepsOwner, LeaseIffRunning, TerminalStep, RevivalStep

LEMMA UserRow ==
  ASSUME run \in RunRow, LeaseIffRunning, UserNext,
         run.status = "absent" => run.version = 0
  PROVE  RowFrame /\ KeepsOwner
<1>1. NextVersion \in Nat /\ NextVersion > run.version
  BY RowFacts
<1> USE <1>1 DEF RowFrame, KeepsOwner, LeaseIffRunning, TerminalStep, RevivalStep, RunRow,
                 TerminalStatuses
<1>2. CASE Create
  BY <1>2 DEF Create
<1>3. CASE Cancel
  BY <1>3 DEF Cancel
<1>4. CASE Pause
  BY <1>4 DEF Pause
<1>5. CASE Resume
  BY <1>5 DEF Resume, UserRequest
<1> QED
  BY <1>2, <1>3, <1>4, <1>5 DEF UserNext

LEMMA LeaseRow ==
  ASSUME run \in RunRow, LeaseIffRunning, ExpireLease \/ ReconcileExpiredLease
  PROVE  RowFrame /\ KeepsOwner
<1>1. NextVersion \in Nat /\ NextVersion > run.version
  BY RowFacts
<1> USE <1>1 DEF RowFrame, KeepsOwner, LeaseIffRunning, TerminalStep, RevivalStep, RunRow,
                 TerminalStatuses
<1>2. CASE ExpireLease
  BY <1>2 DEF ExpireLease
<1>3. CASE ReconcileExpiredLease
  BY <1>3 DEF ReconcileExpiredLease, ExpiredTakeover
<1> QED
  BY <1>2, <1>3

LEMMA WorkerRow ==
  ASSUME TypeOK, LeaseIffRunning, NEW w \in Workers,
         WorkerStep(w) \/ WorkerFault(w) \/ Heartbeat(w)
  PROVE  RowFrame /\ (KeepsOwner \/ AcquireForExecution(w))
<1>0. run \in RunRow /\ NextVersion \in Nat /\ NextVersion > run.version
      /\ (worker[w].pc # "idle" => worker[w].key \in Nat \ {NoKey})
  BY TypeParts, RowFacts DEF WorkerType, MapsType
<1>1. CASE run' = run
  BY <1>0, <1>1, UnchangedRow
<1> USE <1>0 DEF RowFrame, KeepsOwner, LeaseIffRunning, TerminalStep, RevivalStep, RunRow,
                 TerminalStatuses, Owns
<1>2. CASE AcquireForExecution(w)
  BY <1>2 DEF AcquireForExecution, Acquirable, ExpiredTakeover
<1>3. CASE Heartbeat(w)
  BY <1>3 DEF Heartbeat
<1>4. CASE SaveGeneratedPlan(w)
  BY <1>4 DEF SaveGeneratedPlan
<1>5. CASE RecordModelRetry(w)
  BY <1>5 DEF RecordModelRetry
<1>6. CASE PrepareTarget(w)
  BY <1>6 DEF PrepareTarget
<1>7. CASE PrepareEntersWriting(w)
  BY <1>7 DEF PrepareEntersWriting
<1>8. CASE RequestReplan(w)
  BY <1>8 DEF RequestReplan
<1>9. CASE \E node \in {"research", "replan"} : FinishIteration(w, node)
  BY <1>9 DEF FinishIteration
<1>10. CASE FinishResearch(w)
  BY <1>10 DEF FinishResearch
<1>11. CASE SaveGapResolutionPlan(w)
  BY <1>11 DEF SaveGapResolutionPlan
<1>12. CASE \E o \in {"completed", "completed_with_limitations", "failed"} :
              SaveReport(w, o)
  BY <1>12 DEF SaveReport, OwnsWriting
<1>13. CASE FailExecution(w)
  BY <1>13 DEF FailExecution
<1>14. CASE DeferRetryableModelError(w)
  BY <1>14 DEF DeferRetryableModelError
<1>15. CASE DeferRetryableSearchError(w)
  BY <1>15 DEF DeferRetryableSearchError
<1> QED
  BY <1>1, <1>2, <1>3, <1>4, <1>5, <1>6, <1>7, <1>8, <1>9, <1>10, <1>11, <1>12, <1>13,
     <1>14, <1>15
  DEF WorkerStep, WorkerFault, Receive, SkipDelivery, ReadPlan, RetireQuestion,
      YieldQuestion, LeaseLost, FailBeforeAcquire, WorkerCrash, Redeliver

-----------------------------------------------------------------------------
(* The inductive invariant *)

(* A dispatch key is the state_version of the transaction that added it, so *)
(* the next version is never in use.                                        *)
KeysBelowVersion ==
  /\ \A k \in Keys : k <= run.version
  /\ run.status = "absent" => run.version = 0

Holds(w, k) == worker[w].pc # "idle" /\ worker[w].key = k

(* A dispatch that entered the broker once exists in one copy at most: in   *)
(* the queue, or in one worker's hands.                                     *)
SingleCopy ==
  \A k \in Keys :
    /\ sends[k] = 0 => queue[k] = 0 /\ \A w \in Workers : ~Holds(w, k)
    /\ sends[k] <= 1 => queue[k] <= 1
    /\ sends[k] <= 1 /\ queue[k] > 0 => \A w \in Workers : ~Holds(w, k)
    /\ sends[k] <= 1 => \A v, w \in Workers : Holds(v, k) /\ Holds(w, k) => v = w

InBroker(k) ==
  \/ queue[k] > 0
  \/ \E w \in Workers : worker[w].pc = "received" /\ worker[w].key = k

(* A queued run has a dispatch that is live and that no dispatcher is about *)
(* to mark published without its message being in the broker.               *)
Pending(k) ==
  /\ outbox[k].st \in Unpublished \/ InBroker(k)
  /\ \A d \in Dispatchers : dispatcher[d].key = k /\ dispatcher[d].ok => InBroker(k)
WakeupPending ==
  run.status = "queued" /\ setupFails = 0 => \E k \in Keys : Pending(k)

Fenced(w) == Owns(w) /\ sends[worker[w].key] <= 1

(* The plan a planner is about to save is still the first one, and the      *)
(* replan a worker is about to save is still within the limit.              *)
PlannerFresh ==
  \A w \in Workers : worker[w].pc = "planning" /\ Fenced(w) => run.plan = 0
ReplanAllowed ==
  /\ AtMostOnce /\ run.replanRequested => run.replans < MaxReplans
  /\ \A w \in Workers :
       AtMostOnce /\ worker[w].pc = "replan" /\ Owns(w) => run.replans < MaxReplans

IInv ==
  /\ TypeOK
  /\ KeysBelowVersion
  /\ LeaseIffRunning
  /\ SingleCopy
  /\ FencingTokenUnique
  /\ WakeupPending
  /\ PlannerFresh
  /\ PlanGeneratedOnce
  /\ ReplanAllowed
  /\ ReplansBounded

-----------------------------------------------------------------------------
(* What a step may do to the processes and to the broker *)

LEMMA FreshKey ==
  ASSUME TypeOK, KeysBelowVersion
  PROVE  /\ NextVersion \notin Keys
         /\ run.status = "absent" => Keys = {}
<1>1. Keys \subseteq Nat \ {0} /\ run.version \in Nat
  BY DEF TypeOK, NoKey, RunRow
<1> QED
  BY <1>1 DEF KeysBelowVersion, NextVersion

(* The worker whose step it is moves in one of these ways. *)
Moves(w) ==
  \/ worker'[w] = worker[w]
  \/ worker'[w].pc = "idle"
  \/ /\ worker[w].pc # "idle"
     /\ worker'[w].key = worker[w].key /\ worker'[w].epoch = worker[w].epoch
     /\ Executing(w) /\ Executing(w)'
     /\ worker'[w].pc = "planning" =>
          worker[w].pc = "planning" \/ (ReadPlan(w) /\ run.plan = 0)
     /\ worker'[w].pc = "replan" =>
          \/ worker[w].pc = "replan"
          \/ PrepareEntersWriting(w) /\ run.replanRequested
          \/ RequestReplan(w)
          \/ RetireQuestion(w) /\ run.replanRequested
          \/ FinishIteration(w, "replan")
  \/ /\ worker[w].pc = "idle" /\ worker'[w].pc = "received"
     /\ \E k \in Keys : Receive(w, k) /\ worker'[w].key = k
  \/ /\ AcquireForExecution(w)
     /\ worker[w].pc = "received" /\ worker'[w].pc = "planner"
     /\ worker'[w].key = worker[w].key /\ worker'[w].epoch = epoch + 1

LEMMA WorkerMoves ==
  ASSUME TypeOK, NEW w \in Workers, WorkerStep(w) \/ WorkerFault(w) \/ Heartbeat(w)
  PROVE  /\ \A x \in Workers \ {w} : worker'[x] = worker[x]
         /\ Moves(w)
<1>0. worker \in [Workers -> WorkerState] /\ worker[w] \in WorkerState
      /\ run.replanRequested \in BOOLEAN
  BY DEF TypeOK, RunRow
<1> USE <1>0
<1>1. IdleWorker.pc = "idle"
  BY DEF IdleWorker
<1>2. CASE Finish(w)
  BY <1>1, <1>2 DEF Finish, Moves
<1>3. CASE UNCHANGED worker
  BY <1>3 DEF Moves
<1>4. ASSUME NEW pc \in Executions, Goto(w, pc), Executing(w)
      PROVE  /\ \A x \in Workers \ {w} : worker'[x] = worker[x]
             /\ worker[w].pc # "idle" /\ worker'[w].pc = pc
             /\ worker'[w].key = worker[w].key /\ worker'[w].epoch = worker[w].epoch
             /\ Executing(w)'
  BY <1>4 DEF Goto, Executing, Executions, WorkerState
<1>5. \A pc \in {"planner", "planning", "research", "target", "replan", "writer"} :
         pc \in Executions
  BY DEF Executions, Pcs
<1>6. CASE ReadPlan(w)
  <2>1. Executing(w) /\ \E pc \in {"research", "planning"} :
          Goto(w, pc) /\ (pc = "planning" => run.plan = 0)
    BY <1>5, <1>6 DEF ReadPlan, Executing, TypeOK, RunRow
  <2> QED
    BY <1>4, <1>5, <1>6, <2>1 DEF Moves
<1>7. CASE SaveGeneratedPlan(w) \/ PrepareTarget(w) \/ YieldQuestion(w)
           \/ FinishResearch(w) \/ SaveGapResolutionPlan(w)
  <2>1. Executing(w) /\ \E pc \in {"research", "target", "writer"} : Goto(w, pc)
    BY <1>5, <1>7 DEF SaveGeneratedPlan, PrepareTarget, YieldQuestion, FinishResearch,
       SaveGapResolutionPlan, Executing
  <2> QED
    BY <1>4, <1>5, <2>1 DEF Moves
<1>8. CASE PrepareEntersWriting(w)
  <2>1. Executing(w) /\ \E pc \in {"replan", "writer"} :
          Goto(w, pc) /\ (pc = "replan" => run.replanRequested)
    BY <1>5, <1>8 DEF PrepareEntersWriting, NodeWithoutTarget, Executing
  <2> QED
    BY <1>4, <1>5, <1>8, <2>1 DEF Moves
<1>9. CASE RequestReplan(w)
  <2>1. Executing(w) /\ Goto(w, "replan")
    BY <1>5, <1>9 DEF RequestReplan, NodeWithoutTarget, Executing
  <2> QED
    BY <1>4, <1>5, <1>9, <2>1 DEF Moves
<1>10. CASE RetireQuestion(w)
  <2>1. Executing(w) /\ \E pc \in {"replan", "research", "writer"} :
          Goto(w, pc) /\ (pc = "replan" => run.replanRequested)
    BY <1>5, <1>10 DEF RetireQuestion, NodeWithoutTarget, Executing
  <2> QED
    BY <1>4, <1>5, <1>10, <2>1 DEF Moves
<1>11. ASSUME NEW node \in {"research", "replan"}, FinishIteration(w, node)
       PROVE  (\A x \in Workers \ {w} : worker'[x] = worker[x]) /\ Moves(w)
  <2>1. Executing(w) /\ Goto(w, node)
    BY <1>5, <1>11 DEF FinishIteration, Executing
  <2> QED
    BY <1>4, <1>5, <1>11, <2>1 DEF Moves
<1>12. CASE RecordModelRetry(w)
  <2>1. worker[w].pc = "planning" /\ worker' = [worker EXCEPT ![w].tries = @ + 1]
    BY <1>12 DEF RecordModelRetry
  <2>2. Executing(w) /\ Executing(w)'
    BY <1>5, <2>1 DEF Executing, WorkerState
  <2> QED
    BY <2>1, <2>2 DEF Moves, WorkerState
<1>13. CASE Heartbeat(w)
  <2>1. CASE worker' = [worker EXCEPT ![w].heartbeat = FALSE]
    <3>1. Executing(w) /\ Executing(w)' /\ worker[w].pc # "idle"
      BY <1>13, <2>1 DEF Heartbeat, Executing, Executions, WorkerState
    <3> QED
      BY <2>1, <3>1 DEF Moves, WorkerState
  <2> QED
    BY <1>3, <1>13, <2>1 DEF Heartbeat
<1>14. ASSUME NEW k \in Keys, Receive(w, k)
       PROVE  (\A x \in Workers \ {w} : worker'[x] = worker[x]) /\ Moves(w)
  BY <1>14 DEF Receive, Moves, WorkerState
<1>15. CASE AcquireForExecution(w)
  BY <1>15 DEF AcquireForExecution, Moves, WorkerState
<1> QED
  BY <1>2, <1>3, <1>6, <1>7, <1>8, <1>9, <1>10, <1>11, <1>12, <1>13, <1>14, <1>15
  DEF WorkerStep, WorkerFault, SkipDelivery, SaveReport, LeaseLost, FailExecution,
      FailBeforeAcquire, DeferRetryableModelError, DeferRetryableSearchError,
      WorkerCrash, Redeliver

(* A step outside the workers leaves them alone, and does not acquire. *)
LEMMA OtherSteps ==
  ASSUME Next, ~\E w \in Workers : WorkerStep(w) \/ WorkerFault(w) \/ Heartbeat(w)
  PROVE  UNCHANGED <<worker, epoch>>
<1>1. CASE \E d \in Dispatchers : DispatcherStep(d) \/ DispatcherFault(d)
  BY <1>1 DEF DispatcherStep, DispatcherFault, ClaimBatch, SendTask, MarkDispatch,
     DispatcherCrash
<1> QED
  BY <1>1 DEF Next, UserNext, Create, Cancel, Pause, Resume, ExpireLease,
     ReconcileExpiredLease, Ripen

(* Executions are started by acquire_for_execution and by nothing else. *)
LEMMA ExecutionKept ==
  ASSUME TypeOK, Next, NEW x \in Workers, Executing(x)'
  PROVE  \/ AcquireForExecution(x) /\ worker'[x].pc = "planner"
            /\ worker'[x].key = worker[x].key /\ worker'[x].epoch = epoch + 1
         \/ /\ Executing(x) /\ worker'[x].key = worker[x].key
            /\ worker'[x].epoch = worker[x].epoch
<1>1. Executing(x)' => worker'[x].pc # "idle" /\ worker'[x].pc # "received"
  BY DEF Executing, Executions
<1>2. CASE worker'[x] = worker[x]
  BY <1>2 DEF Executing
<1>3. ASSUME NEW w \in Workers, WorkerStep(w) \/ WorkerFault(w) \/ Heartbeat(w)
      PROVE  worker'[x] = worker[x] \/ (x = w /\ Moves(x))
  BY <1>3, WorkerMoves
<1> QED
  BY <1>1, <1>2, <1>3, OtherSteps DEF Moves

(* A worker comes to hold a dispatch by receiving its message only. *)
LEMMA HoldersKept ==
  ASSUME TypeOK, Next, NEW x \in Workers, NEW k, Holds(x, k)'
  PROVE  Holds(x, k) \/ (k \in Keys /\ Receive(x, k))
<1>1. CASE worker'[x] = worker[x]
  BY <1>1 DEF Holds
<1>2. ASSUME NEW w \in Workers, WorkerStep(w) \/ WorkerFault(w) \/ Heartbeat(w)
      PROVE  worker'[x] = worker[x] \/ (x = w /\ Moves(x))
  BY <1>2, WorkerMoves
<1>3. CASE Moves(x)
  BY <1>3 DEF Moves, Holds
<1> QED
  BY <1>1, <1>2, <1>3, OtherSteps

(* Most steps leave the messages of the known dispatches alone, and a new   *)
(* dispatch has none.                                                       *)
BrokerKept ==
  /\ \A k \in Keys : k \in Keys' /\ queue'[k] = queue[k] /\ sends'[k] = sends[k]
  /\ \A k \in Keys' \ Keys : queue'[k] = 0 /\ sends'[k] = 0

LEMMA BrokerSteps ==
  ASSUME TypeOK, KeysBelowVersion, Next
  PROVE  \/ BrokerKept /\ ~\E w \in Workers, k \in Keys : Receive(w, k)
         \/ \E d \in Dispatchers, k \in Keys, ok \in BOOLEAN : SendTask(d, k, TRUE, ok)
         \/ \E w \in Workers, k \in Keys : Receive(w, k)
         \/ \E w \in Workers : WorkerCrash(w) \/ Redeliver(w)
<1>0. MapsType /\ run \in RunRow
  BY TypeParts
<1>1. ASSUME NEW k \in Nat \ {NoKey}, NEW due \in BOOLEAN, AddDispatch(k, due), k \notin Keys
      PROVE  BrokerKept
  BY <1>0, <1>1, AddDispatchFacts DEF BrokerKept
<1>2. ASSUME NEW due \in BOOLEAN, AddDispatch(NextVersion, due)
      PROVE  BrokerKept
  BY <1>0, <1>1, <1>2, FreshKey, RowFacts
<1>3. ASSUME UNCHANGED brokerVars
      PROVE  BrokerKept
  <2>1. DOMAIN queue = Keys
    BY <1>0 DEF MapsType
  <2>2. MapsType'
    BY MapsStep
  <2>3. Keys' = Keys
    BY <1>3, <2>1, <2>2 DEF MapsType, brokerVars
  <2> QED
    BY <1>3, <2>3 DEF BrokerKept, brokerVars
<1>4. CASE UserNext
  <2>1. Create => AddDispatch(1, TRUE) /\ 1 \notin Keys /\ 1 \in Nat \ {NoKey}
    <3>1. 1 \in Nat \ {NoKey}
      BY DEF NoKey
    <3>2. Create => AddDispatch(1, TRUE) /\ run.status = "absent"
      BY DEF Create
    <3> QED
      BY <3>1, <3>2, FreshKey
  <2> QED
    BY <1>1, <1>2, <1>3, <1>4, <2>1 DEF UserNext, Cancel, Pause, Resume
<1>5. CASE ExpireLease \/ ReconcileExpiredLease \/ \E k \in Keys : Ripen(k)
  BY <1>2, <1>3, <1>5 DEF ExpireLease, ReconcileExpiredLease, Ripen
<1>6. CASE \E d \in Dispatchers : DispatcherStep(d) \/ DispatcherFault(d)
  BY <1>3, <1>6 DEF DispatcherStep, DispatcherFault, ClaimBatch, SendTask, MarkDispatch,
     DispatcherCrash
<1>7. ASSUME NEW w \in Workers, WorkerStep(w) \/ WorkerFault(w) \/ Heartbeat(w)
      PROVE  BrokerKept \/ (\E k \in Keys : Receive(w, k)) \/ WorkerCrash(w) \/ Redeliver(w)
  BY <1>2, <1>3, <1>7
  DEF WorkerStep, WorkerFault, Heartbeat, AcquireForExecution, SkipDelivery,
      ReadPlan, SaveGeneratedPlan, RecordModelRetry, PrepareTarget, PrepareEntersWriting,
      RequestReplan, RetireQuestion, FinishIteration, YieldQuestion, FinishResearch,
      SaveGapResolutionPlan, SaveReport, LeaseLost, FailExecution, FailBeforeAcquire,
      DeferRetryableModelError, DeferRetryableSearchError
<1> QED
  BY <1>4, <1>5, <1>6, <1>7 DEF Next

LEMMA SendsGrow ==
  ASSUME TypeOK, KeysBelowVersion, Next
  PROVE  /\ \A k \in Keys : k \in Keys' /\ sends'[k] \in Nat /\ sends'[k] >= sends[k]
         /\ AtMostOnce' => AtMostOnce
<1>0. MapsType /\ MapsType' /\ Keys \subseteq Keys'
  BY TypeParts, MapsStep
<1>1. \A k \in Keys : k \in Keys' /\ sends'[k] \in Nat
  BY <1>0 DEF MapsType
<1>2. \A k \in Keys : sends[k] \in Nat
  BY <1>0 DEF MapsType
<1>3. \A k \in Keys : sends'[k] >= sends[k]
  <2>1. CASE BrokerKept
    BY <1>2, <2>1 DEF BrokerKept
  <2>2. ASSUME NEW d \in Dispatchers, NEW k \in Keys, NEW ok \in BOOLEAN,
               SendTask(d, k, TRUE, ok)
        PROVE  \A x \in Keys : sends'[x] >= sends[x]
    BY <1>0, <1>2, <2>2 DEF SendTask, MapsType
  <2>3. CASE \E w \in Workers, k \in Keys : Receive(w, k)
    BY <1>2, <2>3 DEF Receive
  <2>4. CASE \E w \in Workers : WorkerCrash(w) \/ Redeliver(w)
    BY <1>0, <1>2, <2>4 DEF WorkerCrash, Redeliver, MapsType
  <2> QED
    BY <2>1, <2>2, <2>3, <2>4, BrokerSteps
<1>4. AtMostOnce' => AtMostOnce
  BY <1>1, <1>2, <1>3 DEF AtMostOnce
<1> QED
  BY <1>1, <1>3, <1>4

LEMMA SingleCopyStep ==
  ASSUME TypeOK, KeysBelowVersion, SingleCopy, Next
  PROVE  SingleCopy'
<1>0. MapsType /\ WorkerType /\ MapsType' /\ Keys \subseteq Keys'
  BY TypeParts, MapsStep
<1>1. \A k \in Keys : queue[k] \in Nat /\ sends[k] \in Nat
  BY <1>0 DEF MapsType
<1>2. \A x \in Workers : \A k : Holds(x, k) => k \in Keys
  BY <1>0 DEF WorkerType, Holds
<1>3. CASE BrokerKept /\ ~\E w \in Workers, k \in Keys : Receive(w, k)
  <2>1. \A x \in Workers : \A k : Holds(x, k)' => Holds(x, k)
    BY <1>3, HoldersKept
  <2>2. \A k \in Keys' : k \in Keys \/ (queue'[k] = 0 /\ sends'[k] = 0)
    BY <1>3 DEF BrokerKept
  <2>3. \A k \in Keys : queue'[k] = queue[k] /\ sends'[k] = sends[k]
    BY <1>3 DEF BrokerKept
  <2> QED
    BY <1>1, <1>2, <2>1, <2>2, <2>3 DEF SingleCopy
<1>4. ASSUME NEW d \in Dispatchers, NEW k \in Keys, NEW ok \in BOOLEAN,
             SendTask(d, k, TRUE, ok)
      PROVE  SingleCopy'
  <2>1. /\ Keys' = Keys /\ UNCHANGED worker
        /\ queue' = [queue EXCEPT ![k] = @ + 1] /\ sends' = [sends EXCEPT ![k] = @ + 1]
    BY <1>4 DEF SendTask, Keys
  <2>2. \A x \in Workers : \A y : Holds(x, y)' <=> Holds(x, y)
    BY <2>1 DEF Holds
  <2>3. /\ queue'[k] = queue[k] + 1 /\ sends'[k] = sends[k] + 1
        /\ \A y \in Keys \ {k} : queue'[y] = queue[y] /\ sends'[y] = sends[y]
    BY <1>0, <2>1 DEF MapsType
  <2> QED
    BY <1>1, <2>1, <2>2, <2>3 DEF SingleCopy
<1>5. ASSUME NEW w \in Workers, NEW k \in Keys, Receive(w, k)
      PROVE  SingleCopy'
  <2>1. /\ Keys' = Keys /\ UNCHANGED sends /\ queue[k] > 0
        /\ queue'[k] = queue[k] - 1 /\ \A y \in Keys \ {k} : queue'[y] = queue[y]
    BY <1>0, <1>5 DEF Receive, MapsType, Keys
  <2>2. \A x \in Workers : \A y : Holds(x, y)' => Holds(x, y) \/ (x = w /\ y = k)
    <3>1. /\ \A x \in Workers \ {w} : worker'[x] = worker[x]
          /\ worker'[w].key = k
      BY <1>0, <1>5 DEF Receive, WorkerType, WorkerState
    <3> QED
      BY <3>1 DEF Holds
  <2> QED
    BY <1>1, <2>1, <2>2 DEF SingleCopy
<1>6. ASSUME NEW w \in Workers, WorkerCrash(w)
      PROVE  SingleCopy'
  <2>1. PICK k \in Keys : k = worker[w].key /\ Holds(w, k)
    BY <1>6, <1>0 DEF WorkerCrash, Holds, WorkerType
  <2>2. /\ Keys' = Keys /\ UNCHANGED sends
        /\ queue'[k] = queue[k] + 1 /\ \A y \in Keys \ {k} : queue'[y] = queue[y]
    BY <1>0, <1>6, <2>1 DEF WorkerCrash, MapsType, Keys
  <2>3. \A x \in Workers : \A y : Holds(x, y)' => Holds(x, y) /\ x # w
    BY <1>0, <1>6 DEF WorkerCrash, Finish, Holds, IdleWorker, WorkerType
  <2>4. \A x \in Workers : sends[k] <= 1 => queue[k] = 0 /\ ~Holds(x, k)'
    BY <1>1, <2>1, <2>3 DEF SingleCopy
  <2> QED
    BY <1>1, <2>1, <2>2, <2>3, <2>4 DEF SingleCopy
<1>7. ASSUME NEW w \in Workers, Redeliver(w)
      PROVE  SingleCopy'
  <2>1. PICK k \in Keys : k = worker[w].key /\ Holds(w, k)
    BY <1>7, <1>0 DEF Redeliver, Executing, Executions, Holds, WorkerType
  <2>2. /\ Keys' = Keys /\ UNCHANGED worker
        /\ sends'[k] = sends[k] + 1 /\ \A y \in Keys \ {k} : sends'[y] = sends[y]
        /\ queue'[k] = queue[k] + 1 /\ \A y \in Keys \ {k} : queue'[y] = queue[y]
    BY <1>0, <1>7, <2>1 DEF Redeliver, MapsType, Keys
  <2>3. \A x \in Workers : \A y : Holds(x, y)' <=> Holds(x, y)
    BY <2>2 DEF Holds
  <2>4. sends[k] > 0
    BY <1>1, <2>1 DEF SingleCopy
  <2> QED
    BY <1>1, <2>1, <2>2, <2>3, <2>4 DEF SingleCopy
<1> QED
  BY <1>3, <1>4, <1>5, <1>6, <1>7, BrokerSteps

-----------------------------------------------------------------------------
(* Every part of the invariant is preserved *)

LEMMA RowFrameStep ==
  ASSUME TypeOK, KeysBelowVersion, LeaseIffRunning, Next
  PROVE  RowFrame /\ (KeepsOwner \/ \E w \in Workers : AcquireForExecution(w))
<1>0. run \in RunRow
  BY TypeParts
<1>1. CASE UserNext
  BY <1>0, <1>1, UserRow DEF KeysBelowVersion
<1>2. CASE ExpireLease \/ ReconcileExpiredLease
  BY <1>0, <1>2, LeaseRow
<1>3. CASE \E k \in Keys : Ripen(k)
  BY <1>0, <1>3, UnchangedRow DEF Ripen
<1>4. CASE \E d \in Dispatchers : DispatcherStep(d) \/ DispatcherFault(d)
  <2>1. run' = run
    BY <1>4 DEF DispatcherStep, DispatcherFault, ClaimBatch, SendTask, MarkDispatch,
       DispatcherCrash
  <2> QED
    BY <1>0, <2>1, UnchangedRow
<1>5. CASE \E w \in Workers : WorkerStep(w) \/ WorkerFault(w) \/ Heartbeat(w)
  BY <1>5, WorkerRow
<1> QED
  BY <1>1, <1>2, <1>3, <1>4, <1>5 DEF Next

(* A transaction that adds a dispatch uses its own new version as the key. *)
LEMMA KeysStep ==
  ASSUME TypeOK, Next
  PROVE  Keys' = Keys \/ Keys' = Keys \cup {run'.version}
<1>0. MapsType /\ DispatcherType /\ run \in RunRow
  BY TypeParts
<1>1. ASSUME NEW due \in BOOLEAN, AddDispatch(NextVersion, due)
      PROVE  Keys' = Keys \cup {NextVersion}
  BY <1>0, <1>1, AddDispatchFacts, RowFacts
<1>2. UNCHANGED outbox => Keys' = Keys
  BY DEF Keys
<1>3. CASE UserNext
  <2>1. CASE Create
    <3>1. AddDispatch(1, TRUE) /\ run'.version = 1
      BY <1>0, <2>1 DEF Create, RunRow
    <3>2. 1 \in Nat \ {NoKey}
      BY DEF NoKey
    <3> QED
      BY <1>0, <3>1, <3>2, AddDispatchFacts
  <2>2. CASE Resume
    <3>1. run'.version = NextVersion
      BY <1>0, <2>2 DEF Resume, RunRow
    <3> QED
      BY <1>1, <2>2, <3>1 DEF Resume
  <2>3. CASE Cancel \/ Pause
    BY <1>0, <2>3, RevokeType DEF Cancel, Pause
  <2> QED
    BY <1>3, <2>1, <2>2, <2>3 DEF UserNext
<1>4. CASE ReconcileExpiredLease
  <2>1. run'.version = NextVersion
    BY <1>0, <1>4 DEF ReconcileExpiredLease, RunRow
  <2> QED
    BY <1>1, <1>4, <2>1 DEF ReconcileExpiredLease
<1>5. CASE \E k \in Keys : Ripen(k)
  BY <1>5 DEF Ripen, Keys
<1>6. CASE \E d \in Dispatchers : DispatcherStep(d) \/ DispatcherFault(d)
  BY <1>0, <1>6 DEF DispatcherStep, DispatcherFault, ClaimBatch, SendTask, MarkDispatch,
     DispatcherCrash, Keys
<1>7. ASSUME NEW w \in Workers, WorkerStep(w) \/ WorkerFault(w) \/ Heartbeat(w)
      PROVE  Keys' = Keys \/ Keys' = Keys \cup {run'.version}
  <2>1. CASE DeferRetryableModelError(w)
    <3>1. run'.version = NextVersion
      BY <1>0, <2>1 DEF DeferRetryableModelError, RunRow
    <3> QED
      BY <1>1, <2>1, <3>1 DEF DeferRetryableModelError
  <2>2. CASE DeferRetryableSearchError(w)
    <3>1. run'.version = NextVersion
      BY <1>0, <2>2 DEF DeferRetryableSearchError, RunRow
    <3> QED
      BY <1>1, <2>2, <3>1 DEF DeferRetryableSearchError
  <2> QED
    BY <1>2, <1>7, <2>1, <2>2
    DEF WorkerStep, WorkerFault, Heartbeat, Receive, AcquireForExecution, SkipDelivery,
        ReadPlan, SaveGeneratedPlan, RecordModelRetry, PrepareTarget,
        PrepareEntersWriting, RequestReplan, RetireQuestion, FinishIteration,
        YieldQuestion, FinishResearch, SaveGapResolutionPlan, SaveReport, LeaseLost,
        FailExecution, FailBeforeAcquire, WorkerCrash, Redeliver
<1>8. CASE ExpireLease
  BY <1>2, <1>8 DEF ExpireLease
<1> QED
  BY <1>3, <1>4, <1>5, <1>6, <1>7, <1>8 DEF Next

LEMMA KeysBelowStep ==
  ASSUME TypeOK, KeysBelowVersion, LeaseIffRunning, Next
  PROVE  KeysBelowVersion'
<1>1. run' \in RunRow /\ RowFrame /\ Keys \subseteq Nat
  BY RowStep, RowFrameStep DEF TypeOK
<1>2. run.version \in Nat /\ run'.version \in Nat /\ run'.version >= run.version
  BY <1>1 DEF TypeOK, RunRow, RowFrame
<1>3. \A k \in Keys' : k <= run'.version
  <2>1. \A k \in Keys : k \in Nat /\ k <= run.version
    BY <1>1 DEF KeysBelowVersion
  <2>2. \A k \in Keys : k <= run'.version
    BY <1>2, <2>1
  <2>3. \A k \in Keys' : k \in Keys \/ k = run'.version
    BY KeysStep
  <2>4. run'.version <= run'.version
    BY <1>2
  <2> QED
    BY <2>2, <2>3, <2>4
<1>4. run'.status = "absent" => run'.version = 0
  BY <1>1 DEF RowFrame, KeysBelowVersion
<1> QED
  BY <1>3, <1>4 DEF KeysBelowVersion

(* An execution that is fenced after a step was fenced before it, and is    *)
(* the only one whose commits pass the check.                               *)
LEMMA FencedKept ==
  ASSUME TypeOK, KeysBelowVersion, LeaseIffRunning, SingleCopy, Next,
         NEW x \in Workers, Executing(x)', Owns(x)', (sends[worker[x].key] <= 1)',
         ~AcquireForExecution(x)
  PROVE  /\ Executing(x) /\ Fenced(x)
         /\ worker'[x].epoch = worker[x].epoch
         /\ \A w \in Workers : ~AcquireForExecution(w)
         /\ \A v \in Workers : Executing(v) /\ Owns(v) => v = x
<1>0. WorkerType /\ MapsType
  BY TypeParts
<1>1. /\ Executing(x) /\ worker'[x].key = worker[x].key
      /\ worker'[x].epoch = worker[x].epoch
  BY ExecutionKept
<1>2. worker[x].pc # "idle" /\ worker[x].key \in Keys
  BY <1>0, <1>1 DEF Executing, Executions, WorkerType
<1>3. sends[worker[x].key] <= 1
  <2>1. PICK k \in Keys : k = worker[x].key
    BY <1>2
  <2>2. sends[k] \in Nat
    BY <1>0 DEF MapsType
  <2>3. sends'[k] \in Nat /\ sends'[k] >= sends[k]
    BY SendsGrow
  <2>4. sends'[k] <= 1
    BY <1>1, <2>1
  <2> QED
    BY <2>1, <2>2, <2>3, <2>4
<1>4. ASSUME NEW w \in Workers, worker[w].pc # "idle", worker[w].key = worker[x].key
      PROVE  w = x
  BY <1>2, <1>3, <1>4 DEF SingleCopy, Holds
<1>5. ASSUME NEW w \in Workers, AcquireForExecution(w)
      PROVE  FALSE
  <2>1. run'.owner = worker[w].key /\ worker[w].pc = "received"
    BY <1>5 DEF AcquireForExecution, TypeOK, RunRow
  <2>2. worker[w].key = worker[x].key
    BY <1>1, <2>1 DEF Owns
  <2> QED
    BY <1>4, <1>5, <2>1, <2>2
<1>6. KeepsOwner
  BY <1>5, RowFrameStep
<1>7. Owns(x)
  BY <1>1, <1>6 DEF Owns, KeepsOwner
<1>8. ASSUME NEW v \in Workers, Executing(v), Owns(v)
      PROVE  v = x
  BY <1>4, <1>7, <1>8 DEF Owns, Executing, Executions
<1> QED
  BY <1>1, <1>3, <1>5, <1>7, <1>8 DEF Fenced

LEMMA FencingStep ==
  ASSUME TypeOK, KeysBelowVersion, LeaseIffRunning, SingleCopy, FencingTokenUnique, Next
  PROVE  FencingTokenUnique'
<1> SUFFICES ASSUME NEW x \in Workers, Executing(x)', Owns(x)', (sends[worker[x].key] <= 1)'
             PROVE  worker'[x].epoch = epoch'
  BY DEF FencingTokenUnique
<1>1. CASE AcquireForExecution(x)
  <2>1. worker[x].pc = "received"
    BY <1>1 DEF AcquireForExecution
  <2>2. ~Executing(x)
    BY <2>1 DEF Executing, Executions
  <2> QED
    BY <1>1, <2>2, ExecutionKept DEF AcquireForExecution
<1>2. CASE ~AcquireForExecution(x)
  <2>1. /\ Executing(x) /\ Fenced(x) /\ worker'[x].epoch = worker[x].epoch
        /\ \A w \in Workers : ~AcquireForExecution(w)
    BY <1>2, FencedKept
  <2>2. worker[x].epoch = epoch
    BY <2>1 DEF FencingTokenUnique, Fenced
  <2>3. epoch' = epoch
    <3>1. ASSUME NEW w \in Workers, WorkerStep(w) \/ WorkerFault(w) \/ Heartbeat(w)
          PROVE  epoch' = epoch
      BY <2>1, <3>1
      DEF WorkerStep, WorkerFault, Heartbeat, Receive, SkipDelivery,
          ReadPlan, SaveGeneratedPlan, RecordModelRetry, PrepareTarget,
          PrepareEntersWriting, RequestReplan, RetireQuestion, FinishIteration,
          YieldQuestion, FinishResearch, SaveGapResolutionPlan, SaveReport, LeaseLost,
          FailExecution, FailBeforeAcquire, DeferRetryableModelError,
          DeferRetryableSearchError, WorkerCrash, Redeliver
    <3> QED
      BY <3>1, OtherSteps
  <2> QED
    BY <2>1, <2>2, <2>3
<1> QED
  BY <1>1, <1>2

(* Which steps write the plan, the replan count and the replan flag. *)
LEMMA PlanColumns ==
  ASSUME TypeOK, Next
  PROVE  /\ \/ run'.plan = run.plan /\ run'.replans = run.replans
            \/ \E v \in Workers : SaveGeneratedPlan(v) \/ SaveGapResolutionPlan(v)
         /\ \/ run'.replanRequested = run.replanRequested
            \/ \E v \in Workers : RequestReplan(v) \/ SaveGapResolutionPlan(v)
<1> DEFINE Kept == /\ run'.plan = run.plan /\ run'.replans = run.replans
                   /\ run'.replanRequested = run.replanRequested
<1>0. run \in RunRow
  BY TypeParts
<1>1. CASE UserNext
  <2>1. Kept
    BY <1>0, <1>1 DEF UserNext, Create, Cancel, Pause, Resume, RunRow
  <2> QED
    BY <2>1
<1>2. CASE ExpireLease \/ ReconcileExpiredLease
  BY <1>0, <1>2 DEF ExpireLease, ReconcileExpiredLease, RunRow
<1>3. CASE \E k \in Keys : Ripen(k)
  BY <1>3 DEF Ripen
<1>4. CASE \E d \in Dispatchers : DispatcherStep(d) \/ DispatcherFault(d)
  BY <1>4 DEF DispatcherStep, DispatcherFault, ClaimBatch, SendTask, MarkDispatch,
     DispatcherCrash
<1>5. ASSUME NEW w \in Workers, WorkerStep(w) \/ WorkerFault(w) \/ Heartbeat(w)
      PROVE  \/ Kept \/ SaveGapResolutionPlan(w)
             \/ SaveGeneratedPlan(w) /\ run'.replanRequested = run.replanRequested
             \/ RequestReplan(w) /\ run'.plan = run.plan /\ run'.replans = run.replans
  <2>1. CASE AcquireForExecution(w)
    BY <1>0, <2>1 DEF AcquireForExecution, RunRow
  <2>2. CASE PrepareTarget(w) \/ PrepareEntersWriting(w) \/ RequestReplan(w)
             \/ FinishResearch(w) \/ RecordModelRetry(w)
    BY <1>0, <2>2 DEF PrepareTarget, PrepareEntersWriting, RequestReplan, FinishResearch,
       RecordModelRetry, RunRow
  <2>3. CASE \E node \in {"research", "replan"} : FinishIteration(w, node)
    BY <1>0, <2>3 DEF FinishIteration, RunRow
  <2>4. CASE \E o \in {"completed", "completed_with_limitations", "failed"} :
               SaveReport(w, o)
    BY <1>0, <2>4 DEF SaveReport, RunRow
  <2>5. CASE FailExecution(w)
    BY <1>0, <2>5 DEF FailExecution, RunRow
  <2>6. CASE DeferRetryableModelError(w)
    BY <1>0, <2>6 DEF DeferRetryableModelError, RunRow
  <2>7. CASE DeferRetryableSearchError(w)
    BY <1>0, <2>7 DEF DeferRetryableSearchError, RunRow
  <2>8. CASE Heartbeat(w)
    BY <1>0, <2>8 DEF Heartbeat, RunRow
  <2>9. CASE SaveGeneratedPlan(w)
    BY <1>0, <2>9 DEF SaveGeneratedPlan, RunRow
  <2>10. CASE run' = run
    BY <2>10
  <2> QED
    BY <1>5, <2>1, <2>2, <2>3, <2>4, <2>5, <2>6, <2>7, <2>8, <2>9, <2>10
    DEF WorkerStep, WorkerFault, Receive, SkipDelivery, ReadPlan, RetireQuestion,
        YieldQuestion, LeaseLost, FailBeforeAcquire, WorkerCrash, Redeliver
<1> QED
  BY <1>1, <1>2, <1>3, <1>4, <1>5 DEF Next

(* How a worker comes to the two nodes that write a plan. *)
LEMMA PlanNodes ==
  ASSUME TypeOK, Next, NEW x \in Workers
  PROVE  /\ worker'[x].pc = "planning" =>
              worker[x].pc = "planning" \/ (ReadPlan(x) /\ run.plan = 0)
         /\ worker'[x].pc = "replan" =>
              \/ worker[x].pc = "replan"
              \/ PrepareEntersWriting(x) /\ run.replanRequested
              \/ RequestReplan(x)
              \/ RetireQuestion(x) /\ run.replanRequested
              \/ FinishIteration(x, "replan")
<1>1. ASSUME NEW w \in Workers, WorkerStep(w) \/ WorkerFault(w) \/ Heartbeat(w)
      PROVE  worker'[x] = worker[x] \/ (x = w /\ Moves(x))
  BY <1>1, WorkerMoves
<1>2. CASE Moves(x)
  BY <1>2 DEF Moves
<1> QED
  BY <1>1, <1>2, OtherSteps

LEMMA PlanWriters ==
  /\ \A v : SaveGeneratedPlan(v) => Executing(v) /\ Owns(v) /\ worker[v].pc = "planning"
  /\ \A v : SaveGapResolutionPlan(v) => Executing(v) /\ Owns(v) /\ worker[v].pc = "replan"
  BY DEF SaveGeneratedPlan, SaveGapResolutionPlan, Executing, Executions, Pcs

LEMMA PlanWriterLeaves ==
  ASSUME TypeOK, NEW v \in Workers, SaveGeneratedPlan(v) \/ SaveGapResolutionPlan(v)
  PROVE  worker'[v].pc = "research"
  BY DEF SaveGeneratedPlan, SaveGapResolutionPlan, Goto, TypeOK, WorkerState

LEMMA AcquiredPc ==
  ASSUME TypeOK, NEW x \in Workers, AcquireForExecution(x)
  PROVE  worker'[x].pc = "planner"
  BY DEF AcquireForExecution, TypeOK, WorkerState

LEMMA PlannerFreshStep ==
  ASSUME TypeOK, KeysBelowVersion, LeaseIffRunning, SingleCopy, PlannerFresh, Next
  PROVE  PlannerFresh'
<1> SUFFICES ASSUME NEW x \in Workers, worker'[x].pc = "planning", Owns(x)',
                    (sends[worker[x].key] <= 1)'
             PROVE  run'.plan = 0
  BY DEF PlannerFresh, Fenced
<1>1. Executing(x)'
  BY DEF Executing, Executions, Pcs
<1>2. /\ Executing(x) /\ Fenced(x)
      /\ \A v \in Workers : Executing(v) /\ Owns(v) => v = x
  BY <1>1, FencedKept, AcquiredPc
<1>3. CASE ReadPlan(x) /\ run.plan = 0
  BY <1>3 DEF ReadPlan
<1>4. CASE worker[x].pc = "planning"
  <2>1. run.plan = 0
    BY <1>2, <1>4 DEF PlannerFresh
  <2>2. ~\E v \in Workers : SaveGeneratedPlan(v) \/ SaveGapResolutionPlan(v)
    BY <1>2, PlanWriters, PlanWriterLeaves
  <2> QED
    BY <2>1, <2>2, PlanColumns
<1> QED
  BY <1>3, <1>4, PlanNodes

LEMMA PlanGeneratedOnceStep ==
  ASSUME TypeOK, KeysBelowVersion, PlannerFresh, PlanGeneratedOnce, Next
  PROVE  PlanGeneratedOnce'
<1> SUFFICES ASSUME AtMostOnce'
             PROVE  run'.plan <= run'.replans + 1
  BY DEF PlanGeneratedOnce
<1>1. /\ AtMostOnce /\ run.plan <= run.replans + 1
      /\ run \in RunRow /\ run.plan \in Nat /\ run.replans \in Nat
  BY SendsGrow DEF PlanGeneratedOnce, TypeOK, RunRow
<1>2. ASSUME NEW v \in Workers, SaveGeneratedPlan(v)
      PROVE  run'.plan <= run'.replans + 1
  <2>1. worker[v].key \in Keys
    BY <1>2 DEF SaveGeneratedPlan, TypeOK
  <2>2. run.plan = 0
    BY <1>1, <1>2, <2>1, PlanWriters DEF PlannerFresh, Fenced, AtMostOnce
  <2>3. run'.plan = run.plan + 1 /\ run'.replans = run.replans
    BY <1>1, <1>2 DEF SaveGeneratedPlan, RunRow
  <2> QED
    BY <1>1, <2>2, <2>3
<1>3. ASSUME NEW v \in Workers, SaveGapResolutionPlan(v)
      PROVE  run'.plan <= run'.replans + 1
  <2>1. run'.plan = run.plan + 1 /\ run'.replans = run.replans + 1
    BY <1>1, <1>3 DEF SaveGapResolutionPlan, RunRow
  <2> QED
    BY <1>1, <2>1
<1> QED
  BY <1>1, <1>2, <1>3, PlanColumns

(* The replan limit: the flag and every worker at the replan node stand for *)
(* a replan that is still allowed.                                          *)
LEMMA ReplanStep ==
  ASSUME TypeOK, KeysBelowVersion, LeaseIffRunning, SingleCopy, ReplanAllowed,
         ReplansBounded, Next
  PROVE  ReplanAllowed' /\ ReplansBounded'
<1> SUFFICES ASSUME AtMostOnce'
             PROVE  /\ run'.replanRequested => run'.replans < MaxReplans
                    /\ \A x \in Workers : worker'[x].pc = "replan" /\ Owns(x)'
                                            => run'.replans < MaxReplans
                    /\ run'.replans <= MaxReplans
  BY DEF ReplanAllowed, ReplansBounded
<1>1. /\ AtMostOnce /\ run.replans <= MaxReplans
      /\ run.replanRequested => run.replans < MaxReplans
      /\ run \in RunRow /\ run.replans \in Nat /\ MaxReplans \in Nat
  BY SendsGrow, BoundsAssumption DEF ReplansBounded, ReplanAllowed, TypeOK, RunRow
<1>2. ASSUME NEW x \in Workers, worker'[x].pc = "replan", Owns(x)'
      PROVE  run.replans < MaxReplans /\ run'.replans = run.replans
  <2>1. Executing(x)' /\ WorkerType'
    BY <1>2, WorkerTypeStep, MapsStep DEF Executing, Executions, Pcs
  <2>2. (sends[worker[x].key] <= 1)'
    BY <1>2, <2>1 DEF WorkerType, AtMostOnce
  <2>3. /\ Executing(x) /\ Fenced(x)
        /\ \A v \in Workers : Executing(v) /\ Owns(v) => v = x
    BY <1>2, <2>1, <2>2, FencedKept, AcquiredPc
  <2>4. ~\E v \in Workers : SaveGeneratedPlan(v) \/ SaveGapResolutionPlan(v)
    BY <1>2, <2>3, PlanWriters, PlanWriterLeaves
  <2>5. run'.replans = run.replans
    BY <2>4, PlanColumns
  <2>6. run.replans < MaxReplans
    BY <1>1, <1>2, <2>3, PlanNodes DEF ReplanAllowed, Fenced, RequestReplan, FinishIteration
  <2> QED
    BY <2>5, <2>6
<1>3. ASSUME NEW v \in Workers, SaveGapResolutionPlan(v)
      PROVE  run'.replans <= MaxReplans /\ ~run'.replanRequested
  <2>1. run'.replans = run.replans + 1 /\ run'.replanRequested = FALSE
    BY <1>1, <1>3 DEF SaveGapResolutionPlan, RunRow
  <2>2. run.replans < MaxReplans
    BY <1>1, <1>3, PlanWriters DEF ReplanAllowed
  <2> QED
    BY <1>1, <2>1, <2>2
<1>4. ASSUME NEW v \in Workers, SaveGeneratedPlan(v)
      PROVE  run'.replans = run.replans /\ run'.replanRequested = run.replanRequested
  BY <1>1, <1>4 DEF SaveGeneratedPlan, RunRow
<1>5. ASSUME NEW v \in Workers, RequestReplan(v)
      PROVE  run'.replans = run.replans /\ run.replans < MaxReplans
  BY <1>1, <1>5 DEF RequestReplan, RunRow
<1>6. run'.replanRequested => run'.replans < MaxReplans
  BY <1>1, <1>3, <1>4, <1>5, PlanColumns
<1>7. run'.replans <= MaxReplans
  BY <1>1, <1>3, <1>4, PlanColumns
<1> QED
  BY <1>2, <1>6, <1>7

(* A dispatch that is added is pending, and no dispatcher has it yet. *)
LEMMA NewDispatchPending ==
  ASSUME TypeOK, NEW k \in Nat \ {NoKey}, k \notin Keys, NEW due \in BOOLEAN,
         AddDispatch(k, due), UNCHANGED dispatcher
  PROVE  WakeupPending'
<1>1. MapsType /\ DispatcherType
  BY TypeParts
<1>2. k \in Keys' /\ outbox'[k] = [st |-> "pending", ripe |-> due]
  BY <1>1, AddDispatchFacts
<1>3. outbox'[k].st \in Unpublished
  BY <1>2 DEF Unpublished
<1>4. \A d \in Dispatchers : dispatcher'[d].key # k
  BY <1>1 DEF DispatcherType
<1>5. Pending(k)'
  BY <1>3, <1>4 DEF Pending
<1> QED
  BY <1>2, <1>5 DEF WakeupPending

(* The worker steps that can be taken of a run that is and stays queued. *)
LEMMA QueuedWorkerSteps ==
  ASSUME run \in RunRow, run.status = "queued", run'.status = "queued",
         setupFails \in Nat, setupFails' = 0, NEW w \in Workers,
         WorkerStep(w) \/ WorkerFault(w) \/ Heartbeat(w)
  PROVE  \/ \E k \in Keys : Receive(w, k)
         \/ ReadPlan(w) \/ LeaseLost(w) \/ WorkerCrash(w) \/ Redeliver(w) \/ Heartbeat(w)
<1>1. ~Owns(w) /\ Acquirable
  BY DEF Owns, Acquirable
<1>2. ~AcquireForExecution(w)
  BY DEF AcquireForExecution, RunRow
<1>3. ~FailBeforeAcquire(w) /\ ~SkipDelivery(w)
  BY <1>1 DEF FailBeforeAcquire, SkipDelivery
<1> QED
  BY <1>1, <1>2, <1>3
  DEF WorkerStep, WorkerFault, SaveGeneratedPlan, RecordModelRetry,
      PrepareTarget, PrepareEntersWriting, RequestReplan, RetireQuestion,
      FinishIteration, YieldQuestion, FinishResearch, SaveGapResolutionPlan, SaveReport,
      OwnsWriting, FailExecution, DeferRetryableModelError,
      DeferRetryableSearchError

(* Those steps keep a message in the broker or in a worker's hands. *)
LEMMA InBrokerKept ==
  ASSUME TypeOK, NEW w \in Workers, NEW k \in Keys, InBroker(k),
         \/ \E y \in Keys : Receive(w, y)
         \/ ReadPlan(w) \/ LeaseLost(w) \/ WorkerCrash(w) \/ Redeliver(w) \/ Heartbeat(w)
  PROVE  InBroker(k)'
<1>0. /\ queue \in [Keys -> Nat] /\ queue[k] \in Nat
      /\ worker \in [Workers -> WorkerState] /\ worker[w] \in WorkerState
      /\ worker[w].pc # "idle" => worker[w].key \in Keys
  BY DEF TypeOK
<1>1. CASE \E y \in Keys : Receive(w, y)
  <2>1. PICK y \in Keys : Receive(w, y)
    BY <1>1
  <2>2. /\ worker[w].pc = "idle" /\ worker'[w].pc = "received" /\ worker'[w].key = y
        /\ \A x \in Workers \ {w} : worker'[x] = worker[x]
    BY <1>0, <2>1 DEF Receive, WorkerState
  <2>3. y # k => queue'[k] = queue[k]
    BY <1>0, <2>1 DEF Receive
  <2> QED
    BY <2>2, <2>3 DEF InBroker
<1>2. CASE WorkerCrash(w)
  <2>1. /\ \A x \in Workers \ {w} : worker'[x] = worker[x]
        /\ worker[w].key \in Keys
        /\ queue'[worker[w].key] = queue[worker[w].key] + 1
        /\ k # worker[w].key => queue'[k] = queue[k]
    BY <1>0, <1>2 DEF WorkerCrash, Finish
  <2>2. CASE k = worker[w].key
    BY <1>0, <2>1, <2>2 DEF InBroker
  <2>3. CASE k # worker[w].key
    BY <2>1, <2>3 DEF InBroker
  <2> QED
    BY <2>2, <2>3
<1>3. CASE Redeliver(w)
  BY <1>0, <1>3 DEF Redeliver, InBroker
<1>4. CASE ReadPlan(w) \/ LeaseLost(w) \/ Heartbeat(w)
  <2>1. worker[w].pc # "received" /\ queue' = queue
    BY <1>4 DEF ReadPlan, LeaseLost, Heartbeat, Executing, Executions, brokerVars
  <2>2. \A x \in Workers \ {w} : worker'[x] = worker[x]
    BY <1>0, <1>4 DEF ReadPlan, LeaseLost, Heartbeat, Goto, Finish
  <2> QED
    BY <2>1, <2>2 DEF InBroker
<1> QED
  BY <1>1, <1>2, <1>3, <1>4

(* A worker queues a run by deferring it and in no other way. *)
LEMMA QueuedBy ==
  ASSUME run \in RunRow, run.status # "queued", NEW w \in Workers,
         WorkerStep(w) \/ WorkerFault(w) \/ Heartbeat(w),
         ~DeferRetryableModelError(w), ~DeferRetryableSearchError(w)
  PROVE  run'.status # "queued"
<1>1. CASE AcquireForExecution(w)
  BY <1>1 DEF AcquireForExecution, RunRow
<1>2. CASE SaveGeneratedPlan(w) \/ SaveGapResolutionPlan(w) \/ RecordModelRetry(w)
           \/ PrepareTarget(w) \/ PrepareEntersWriting(w) \/ RequestReplan(w)
           \/ FinishResearch(w)
  BY <1>2 DEF SaveGeneratedPlan, SaveGapResolutionPlan, RecordModelRetry, PrepareTarget,
     PrepareEntersWriting, RequestReplan, FinishResearch, RunRow
<1>3. CASE \E node \in {"research", "replan"} : FinishIteration(w, node)
  BY <1>3 DEF FinishIteration, RunRow
<1>4. CASE \E o \in {"completed", "completed_with_limitations", "failed"} :
             SaveReport(w, o)
  BY <1>4 DEF SaveReport, RunRow
<1>5. CASE FailExecution(w)
  BY <1>5 DEF FailExecution, RunRow
<1>6. CASE Heartbeat(w)
  BY <1>6 DEF Heartbeat, RunRow
<1>7. CASE run' = run
  BY <1>7
<1> QED
  BY <1>1, <1>2, <1>3, <1>4, <1>5, <1>6, <1>7
  DEF WorkerStep, WorkerFault, Receive, SkipDelivery, ReadPlan, RetireQuestion,
      YieldQuestion, LeaseLost, FailBeforeAcquire, WorkerCrash, Redeliver

LEMMA WakeupStep ==
  ASSUME TypeOK, KeysBelowVersion, LeaseIffRunning, WakeupPending, Next
  PROVE  WakeupPending'
<1> SUFFICES ASSUME run'.status = "queued", setupFails' = 0
             PROVE  WakeupPending'
  BY DEF WakeupPending
<1>0. /\ run \in RunRow /\ run' \in RunRow /\ MapsType /\ DispatcherType /\ WorkerType
      /\ CountersType
  BY TypeParts, RowStep
<1>1. ASSUME NEW due \in BOOLEAN, AddDispatch(NextVersion, due), UNCHANGED dispatcher
      PROVE  WakeupPending'
  BY <1>0, <1>1, NewDispatchPending, FreshKey, RowFacts
<1>2. CASE UserNext
  <2>1. CASE Create
    <3>1. AddDispatch(1, TRUE) /\ UNCHANGED dispatcher /\ run.status = "absent"
      BY <2>1 DEF Create
    <3>2. 1 \in Nat \ {NoKey} /\ 1 \notin Keys
      <4>1. 1 \in Nat \ {NoKey}
        BY DEF NoKey
      <4> QED
        BY <3>1, <4>1, FreshKey
    <3> QED
      BY <3>1, <3>2, NewDispatchPending
  <2>2. CASE Cancel
    BY <1>0, <2>2 DEF Cancel, RunRow
  <2>3. CASE Pause
    BY <1>0, <2>3 DEF Pause, RunRow
  <2>4. CASE Resume
    BY <1>1, <2>4 DEF Resume
  <2> QED
    BY <1>2, <2>1, <2>2, <2>3, <2>4 DEF UserNext
<1>3. CASE ReconcileExpiredLease
  BY <1>1, <1>3 DEF ReconcileExpiredLease
<1>4. CASE ExpireLease
  BY <1>0, <1>4 DEF ExpireLease, LeaseIffRunning, RunRow
<1>5. CASE \E k \in Keys : Ripen(k)
  <2>1. PICK y \in Keys : Ripen(y)
    BY <1>5
  <2>2. PICK k \in Keys : Pending(k)
    BY <2>1 DEF Ripen, boundVars, WakeupPending
  <2>3. k \in Keys' /\ outbox'[k].st = outbox[k].st
    BY <1>0, <2>1 DEF Ripen, MapsType, OutboxRow, Keys
  <2>4. Pending(k)'
    BY <2>1, <2>2, <2>3 DEF Ripen, Pending, InBroker, brokerVars
  <2> QED
    BY <2>3, <2>4 DEF WakeupPending
<1>6. ASSUME NEW d \in Dispatchers, DispatcherStep(d) \/ DispatcherFault(d)
      PROVE  WakeupPending'
  <2>0. PICK k \in Keys : Pending(k)
    BY <1>6 DEF DispatcherStep, DispatcherFault, ClaimBatch, SendTask, MarkDispatch,
       DispatcherCrash, boundVars, WakeupPending
  <2>k. k \in Keys' /\ k \in Nat \ {NoKey}
    BY <1>0, MapsStep DEF MapsType
  <2>d. dispatcher \in [Dispatchers -> DispatcherState] /\ dispatcher[d] \in DispatcherState
    BY <1>0 DEF DispatcherType
  <2>1. CASE ClaimBatch(d)
    <3>1. \/ outbox'[k] = outbox[k]
          \/ outbox'[k] = [st |-> "publishing", ripe |-> FALSE]
      BY <2>1 DEF ClaimBatch
    <3>2. outbox[k].st \in Unpublished => outbox'[k].st \in Unpublished
      BY <3>1 DEF Unpublished
    <3>3. InBroker(k)' <=> InBroker(k)
      BY <2>1 DEF ClaimBatch, InBroker, brokerVars
    <3>4. \A x \in Dispatchers : /\ dispatcher'[x].key = dispatcher[x].key
                                 /\ dispatcher'[x].ok = dispatcher[x].ok
      BY <2>1, <2>d DEF ClaimBatch, DispatcherState
    <3>5. outbox'[k].st \in Unpublished \/ outbox'[k].st = outbox[k].st
      BY <3>1 DEF Unpublished
    <3> QED
      BY <2>0, <2>k, <3>2, <3>3, <3>4, <3>5 DEF WakeupPending, Pending
  <2>2. ASSUME NEW y \in Keys, NEW delivered \in BOOLEAN, NEW ok \in BOOLEAN,
               SendTask(d, y, delivered, ok)
        PROVE  WakeupPending'
    <3>1. outbox' = outbox /\ worker' = worker /\ (ok => delivered)
      BY <2>2 DEF SendTask
    <3>2. /\ queue'[k] \in Nat /\ queue[k] \in Nat /\ queue'[k] >= queue[k]
          /\ y = k /\ delivered => queue'[k] > 0
      BY <1>0, <2>2 DEF SendTask, MapsType, brokerVars
    <3>3. InBroker(k) => InBroker(k)'
      BY <3>1, <3>2 DEF InBroker
    <3>4. /\ dispatcher'[d].key = y /\ dispatcher'[d].ok = ok
          /\ \A x \in Dispatchers \ {d} : dispatcher'[x] = dispatcher[x]
      BY <2>2, <2>d DEF SendTask
    <3>5. \A x \in Dispatchers : dispatcher'[x].key = k /\ dispatcher'[x].ok => InBroker(k)'
      BY <2>0, <3>1, <3>2, <3>3, <3>4 DEF Pending, InBroker
    <3>6. outbox'[k].st \in Unpublished \/ InBroker(k)'
      BY <2>0, <3>1, <3>3 DEF Pending
    <3> QED
      BY <2>k, <3>5, <3>6 DEF WakeupPending, Pending
  <2>3. CASE MarkDispatch(d)
    <3>1. /\ outbox' = [outbox EXCEPT ![dispatcher[d].key] =
                [st |-> IF dispatcher[d].ok THEN "published" ELSE "retry", ripe |-> FALSE]]
          /\ queue' = queue /\ worker' = worker
      BY <2>3 DEF MarkDispatch, brokerVars
    <3>2. InBroker(k)' <=> InBroker(k)
      BY <3>1 DEF InBroker
    <3>3. /\ dispatcher'[d].key = NoKey
          /\ \A x \in Dispatchers \ {d} : dispatcher'[x] = dispatcher[x]
      BY <2>3, <2>d DEF MarkDispatch, DispatcherState
    <3>4. k # dispatcher[d].key => outbox'[k] = outbox[k]
      BY <1>0, <3>1 DEF MapsType
    <3>5. k = dispatcher[d].key /\ ~dispatcher[d].ok => outbox'[k].st = "retry"
      BY <1>0, <3>1 DEF MapsType
    <3>6. outbox'[k].st \in Unpublished \/ InBroker(k)'
      BY <2>0, <3>2, <3>4, <3>5 DEF Pending, Unpublished
    <3>7. \A x \in Dispatchers : dispatcher'[x].key = k /\ dispatcher'[x].ok => InBroker(k)'
      BY <2>0, <2>k, <3>2, <3>3 DEF Pending
    <3> QED
      BY <2>k, <3>6, <3>7 DEF WakeupPending, Pending
  <2>4. CASE DispatcherCrash(d)
    <3>1. /\ dispatcher'[d].key = NoKey
          /\ \A x \in Dispatchers \ {d} : dispatcher'[x] = dispatcher[x]
      BY <2>4, <2>d DEF DispatcherCrash, IdleDispatcher
    <3>2. outbox' = outbox /\ (InBroker(k)' <=> InBroker(k))
      BY <2>4 DEF DispatcherCrash, InBroker, brokerVars
    <3> QED
      BY <2>0, <2>k, <3>1, <3>2 DEF WakeupPending, Pending
  <2> QED
    BY <1>6, <2>1, <2>2, <2>3, <2>4 DEF DispatcherStep, DispatcherFault
<1>7. ASSUME NEW w \in Workers, WorkerStep(w) \/ WorkerFault(w) \/ Heartbeat(w)
      PROVE  WakeupPending'
  <2>1. CASE DeferRetryableModelError(w) \/ DeferRetryableSearchError(w)
    BY <1>1, <2>1 DEF DeferRetryableModelError, DeferRetryableSearchError
  <2>2. CASE run.status = "queued"
    <3>1. \/ \E y \in Keys : Receive(w, y)
          \/ ReadPlan(w) \/ LeaseLost(w) \/ WorkerCrash(w) \/ Redeliver(w) \/ Heartbeat(w)
      BY <1>0, <1>7, <2>2, QueuedWorkerSteps DEF CountersType
    <3>2. UNCHANGED <<outbox, dispatcher, setupFails>>
      BY <3>1 DEF Receive, ReadPlan, LeaseLost, WorkerCrash, Redeliver, Heartbeat,
         boundVars
    <3>3. PICK k \in Keys : Pending(k)
      BY <2>2, <3>2 DEF WakeupPending
    <3>4. InBroker(k) => InBroker(k)'
      BY <3>1, InBrokerKept
    <3>5. k \in Keys' /\ Pending(k)'
      BY <3>2, <3>3, <3>4 DEF Pending, Keys
    <3> QED
      BY <3>5 DEF WakeupPending
  <2>3. CASE run.status # "queued" /\ ~DeferRetryableModelError(w)
             /\ ~DeferRetryableSearchError(w)
    <3>1. run'.status # "queued"
      BY <1>0, <1>7, <2>3, QueuedBy
    <3> QED
      BY <3>1
  <2> QED
    BY <2>1, <2>2, <2>3
<1> QED
  BY <1>2, <1>3, <1>4, <1>5, <1>6, <1>7 DEF Next

-----------------------------------------------------------------------------
(* The theorems *)

LEMMA InitIInv == Init => IInv
<1> SUFFICES ASSUME Init PROVE IInv
  OBVIOUS
<1>1. TypeOK
  BY InitType
<1>2. Keys = {}
  BY DEF Init, Keys
<1>3. /\ run.status = "absent" /\ run.version = 0 /\ run.lease = "none"
      /\ run.owner = NoKey /\ run.plan = 0 /\ run.replans = 0 /\ run.replanRequested = FALSE
  BY DEF Init
<1>4. \A w \in Workers : worker[w].pc = "idle"
  BY DEF Init, IdleWorker
<1>5. KeysBelowVersion /\ LeaseIffRunning /\ SingleCopy /\ WakeupPending
  BY <1>2, <1>3 DEF KeysBelowVersion, LeaseIffRunning, SingleCopy, WakeupPending
<1>6. FencingTokenUnique /\ PlannerFresh
  BY <1>3, <1>4 DEF FencingTokenUnique, PlannerFresh, Executing, Executions
<1>7. PlanGeneratedOnce /\ ReplansBounded
  BY <1>3, BoundsAssumption DEF PlanGeneratedOnce, ReplansBounded
<1>8. ReplanAllowed
  BY <1>3, <1>4 DEF ReplanAllowed
<1> QED
  BY <1>1, <1>5, <1>6, <1>7, <1>8 DEF IInv

LEMMA NextIInv ==
  ASSUME IInv, [Next]_vars
  PROVE  IInv'
<1>0. /\ TypeOK /\ KeysBelowVersion /\ LeaseIffRunning /\ SingleCopy
      /\ FencingTokenUnique /\ WakeupPending /\ PlannerFresh /\ PlanGeneratedOnce
      /\ ReplanAllowed /\ ReplansBounded
  BY DEF IInv
<1>1. CASE Next
  <2>1. TypeOK'
    BY <1>0, NextType
  <2>2. KeysBelowVersion' /\ SingleCopy'
    BY <1>0, <1>1, KeysBelowStep, SingleCopyStep
  <2>3. LeaseIffRunning'
    BY <1>0, <1>1, RowFrameStep DEF RowFrame
  <2>4. FencingTokenUnique' /\ WakeupPending'
    BY <1>0, <1>1, FencingStep, WakeupStep
  <2>5. PlannerFresh' /\ PlanGeneratedOnce'
    BY <1>0, <1>1, PlannerFreshStep, PlanGeneratedOnceStep
  <2>6. ReplanAllowed' /\ ReplansBounded'
    BY <1>0, <1>1, ReplanStep
  <2> QED
    BY <2>1, <2>2, <2>3, <2>4, <2>5, <2>6 DEF IInv
<1>2. CASE UNCHANGED vars
  <2>1. /\ run' = run /\ outbox' = outbox /\ queue' = queue /\ sends' = sends
        /\ dispatcher' = dispatcher /\ worker' = worker /\ epoch' = epoch
        /\ setupFails' = setupFails /\ Keys' = Keys
    BY <1>2 DEF vars, Keys
  <2>2. TypeOK'
    BY <1>0, NextType
  <2>3. KeysBelowVersion' /\ LeaseIffRunning' /\ SingleCopy' /\ FencingTokenUnique'
    BY <1>0, <2>1 DEF KeysBelowVersion, LeaseIffRunning, SingleCopy, Holds,
       FencingTokenUnique, Executing, Owns
  <2>4. WakeupPending'
    BY <1>0, <2>1 DEF WakeupPending, Pending, InBroker
  <2>5. PlannerFresh' /\ PlanGeneratedOnce' /\ ReplanAllowed' /\ ReplansBounded'
    BY <1>0, <2>1 DEF PlannerFresh, Fenced, Owns, PlanGeneratedOnce, AtMostOnce,
       ReplanAllowed, ReplansBounded
  <2> QED
    BY <2>2, <2>3, <2>4, <2>5 DEF IInv
<1> QED
  BY <1>1, <1>2

(* IInv is an invariant of the run lifecycle. *)
THEOREM Invariance == Spec => []IInv
<1>1. IInv /\ [Next]_vars => IInv'
  BY NextIInv
<1> QED
  BY <1>1, InitIInv, PTL DEF Spec

(* acquire_for_execution, _locked_run: however deliveries, crashes, pauses  *)
(* and takeovers interleave, an execution whose dispatch entered the broker *)
(* once and whose commits pass the worker_task_id check is the latest one.  *)
THEOREM Fencing == Spec => []FencingTokenUnique
<1>1. IInv => FencingTokenUnique
  BY DEF IInv
<1> QED
  BY <1>1, Invariance, PTL

(* The transactional outbox: a queued run always has a dispatch that can    *)
(* still start it, whatever the dispatchers and workers were doing when     *)
(* they died, as long as no task died before acquiring the run.             *)
THEOREM NoWakeupIsLost == Spec => []NoLostWakeup
<1>1. IInv => NoLostWakeup
  BY DEF IInv, WakeupPending, Pending, InBroker, NoLostWakeup, Live
<1> QED
  BY <1>1, Invariance, PTL

(* research_runs: lease columns are set exactly while the status is running. *)
THEOREM LeaseAgreesWithStatus == Spec => []LeaseIffRunning
<1>1. IInv => LeaseIffRunning
  BY DEF IInv
<1> QED
  BY <1>1, Invariance, PTL

(* save_generated_plan: the unlocked read in planner_node never leads to a  *)
(* second first plan while every dispatch is delivered at most once.        *)
THEOREM FirstPlanOnce == Spec => []PlanGeneratedOnce
<1>1. IInv => PlanGeneratedOnce
  BY DEF IInv
<1> QED
  BY <1>1, Invariance, PTL

(* save_gap_resolution_plan: the replans stay within _MAX_REPLANS although  *)
(* the transaction that saves one does not check the limit.                 *)
THEOREM ReplanLimit == Spec => []ReplansBounded
<1>1. IInv => ReplansBounded
  BY DEF IInv
<1> QED
  BY <1>1, Invariance, PTL

(* No step changes a terminal run, except the user's resume of a cancelled  *)
(* or failed one.                                                           *)
THEOREM TerminalRunsStay == Spec => TerminalIsFinal
<1>1. IInv /\ [Next]_vars => [TerminalStep]_vars
  BY RowFrameStep DEF IInv, RowFrame
<1> QED
  BY <1>1, Invariance, PTL DEF Spec, TerminalIsFinal

(* renew_execution_lease: an expired lease comes back to life only with a   *)
(* new state_version.                                                       *)
THEOREM RevivalsAreVersioned == Spec => LeaseRevivalIsVersioned
<1>1. IInv /\ [Next]_vars => [RevivalStep]_vars
  BY RowFrameStep DEF IInv, RowFrame
<1> QED
  BY <1>1, Invariance, PTL DEF Spec, LeaseRevivalIsVersioned

-----------------------------------------------------------------------------
(* RunService: the credentials agree with their profiles, no replaced      *)
(* secret returns, and a key names one run that keeps its credential.      *)

CredRows == [profile : Profiles, version : Nat, aad : Adapters, secret : Nat,
             state : {"active", "revoked", "deleted"}]

ProfileRows == [status : {"absent", "active", "deleted"},
                adapter : Adapters \cup {"none"}, default : BOOLEAN]

Requests == {NoOp} \cup [kind : {"rotate", "adapter"}, profile : Profiles,
                         base : Nat, adapter : Adapters]

(* The tables of the profiles, and requests that name a credential of      *)
(* their profile.                                                          *)
Tables ==
  /\ profiles \in [Profiles -> ProfileRows]
  /\ \A p \in Profiles : profiles[p].status = "active" => profiles[p].adapter \in Adapters
  /\ creds \in Seq(CredRows)
  /\ op \in [Sessions -> Requests]
  /\ \A s \in Sessions : op[s].kind # "none" =>
       op[s].base \in 1..Len(creds) /\ creds[op[s].base].profile = op[s].profile

(* Secrets are numbered by the credential that brought them.               *)
SecretsNumbered == \A i \in 1..Len(creds) : creds[i].secret \in 1..i

(* The credential in force is the youngest of its profile.                 *)
ActiveIsLatest ==
  \A i \in 1..Len(creds) : creds[i].state = "active" =>
    \A j \in (i + 1)..Len(creds) : creds[j].profile # creds[i].profile

(* An active profile has a credential in force; one that does not exist    *)
(* has none at all, and of a deleted one only deleted ones are left.       *)
StatusHasKeys ==
  \A p \in Profiles :
    /\ profiles[p].status = "active" =>
         \E i \in 1..Len(creds) : creds[i].profile = p /\ creds[i].state = "active"
    /\ profiles[p].status = "absent" => \A i \in 1..Len(creds) : creds[i].profile # p
    /\ profiles[p].status = "deleted" =>
         \A i \in 1..Len(creds) : creds[i].profile = p => creds[i].state = "deleted"

CredsInv ==
  /\ Tables
  /\ SecretsNumbered /\ ActiveIsLatest /\ StatusHasKeys
  /\ RotatedSecretNeverReturns /\ OneDefault

-----------------------------------------------------------------------------
(* The operators on the credential table.                                  *)

LEMMA ProfileRowFields ==
  ASSUME NEW c \in CredRows, NEW st \in {"active", "revoked", "deleted"}
  PROVE  [c EXCEPT !.state = st] \in CredRows
BY DEF CredRows

(* WithState changes no field but the state, and no other profile's.       *)
LEMMA WithStateRows ==
  ASSUME creds \in Seq(CredRows), NEW p \in Profiles, NEW states,
         NEW st \in {"active", "revoked", "deleted"}
  PROVE  /\ WithState(p, states, st) \in Seq(CredRows)
         /\ Len(WithState(p, states, st)) = Len(creds)
         /\ \A i \in 1..Len(creds) :
              WithState(p, states, st)[i] =
                IF creds[i].profile = p /\ creds[i].state \in states
                THEN [creds[i] EXCEPT !.state = st] ELSE creds[i]
<1> DEFINE W == WithState(p, states, st)
<1>1. Len(creds) \in Nat /\ DOMAIN creds = 1..Len(creds)
  BY LenProperties
<1>2. \A i \in 1..Len(creds) : creds[i] \in CredRows
  BY ElementOfSeq
<1>3. W = [i \in 1..Len(creds) |->
            IF creds[i].profile = p /\ creds[i].state \in states
            THEN [creds[i] EXCEPT !.state = st] ELSE creds[i]]
  BY <1>1 DEF WithState
<1> HIDE DEF W
<1>4. W \in [1..Len(creds) -> CredRows]
  <2>1. \A i \in 1..Len(creds) : [creds[i] EXCEPT !.state = st] \in CredRows
    BY <1>2, ProfileRowFields
  <2> QED
    BY <1>2, <1>3, <2>1
<1>5. W \in Seq(CredRows) /\ Len(W) = Len(creds)
  BY <1>1, <1>4, SeqDef
<1> QED
  BY <1>3, <1>5 DEF W

(* What a commit that writes a credential does to the table: the active    *)
(* ones of the profile are revoked, and the new one is appended.           *)
Superseded(p, c) ==
  /\ creds' \in Seq(CredRows)
  /\ Len(creds') = Len(creds) + 1
  /\ creds'[Len(creds) + 1] = c
  /\ \A i \in 1..Len(creds) :
       creds'[i] = IF creds[i].profile = p /\ creds[i].state = "active"
                   THEN [creds[i] EXCEPT !.state = "revoked"] ELSE creds[i]

LEMMA NewCredRow ==
  ASSUME NEW p \in Profiles, NEW v \in Nat, NEW a \in Adapters, NEW x \in Nat
  PROVE  /\ NewCred(p, v, a, x) \in CredRows
         /\ NewCred(p, v, a, x).profile = p
         /\ NewCred(p, v, a, x).secret = x
         /\ NewCred(p, v, a, x).state = "active"
         /\ NewCred(p, v, a, x).aad = a
BY DEF NewCred, CredRows

LEMMA AppendSupersedes ==
  ASSUME creds \in Seq(CredRows), NEW p \in Profiles, NEW c \in CredRows,
         creds' = Append(WithState(p, {"active"}, "revoked"), c)
  PROVE  Superseded(p, c)
<1> DEFINE W == WithState(p, {"active"}, "revoked")
<1>1. /\ W \in Seq(CredRows) /\ Len(W) = Len(creds)
      /\ \A i \in 1..Len(creds) :
           W[i] = IF creds[i].profile = p /\ creds[i].state \in {"active"}
                  THEN [creds[i] EXCEPT !.state = "revoked"] ELSE creds[i]
  BY WithStateRows
<1>2. /\ Append(W, c) \in Seq(CredRows)
      /\ Len(Append(W, c)) = Len(W) + 1
      /\ \A i \in 1..Len(W) : Append(W, c)[i] = W[i]
      /\ Append(W, c)[Len(W) + 1] = c
  BY <1>1, AppendProperties
<1> HIDE DEF W
<1> QED
  BY <1>1, <1>2 DEF Superseded, W

-----------------------------------------------------------------------------
(* The invariant of the table survives a new credential whose secret is    *)
(* new, or that of the credential it supersedes.                           *)

LEMMA SupersedeKeepsOrder ==
  ASSUME creds \in Seq(CredRows), SecretsNumbered, ActiveIsLatest,
         RotatedSecretNeverReturns,
         NEW p \in Profiles, NEW c \in CredRows, Superseded(p, c),
         c.profile = p, c.state = "active",
         \/ c.secret = Len(creds) + 1
         \/ \E b \in 1..Len(creds) : /\ creds[b].profile = p /\ creds[b].state = "active"
                                     /\ c.secret = creds[b].secret
  PROVE  SecretsNumbered' /\ ActiveIsLatest' /\ RotatedSecretNeverReturns'
<1> DEFINE n == Len(creds)
<1>1. /\ n \in Nat /\ DOMAIN creds = 1..n
      /\ Len(creds') = n + 1 /\ DOMAIN creds' = 1..(n + 1)
  BY LenProperties DEF Superseded
<1>2. /\ \A i \in 1..n : creds[i] \in CredRows
      /\ \A i \in 1..(n + 1) : creds'[i] \in CredRows
  BY <1>1, ElementOfSeq DEF Superseded
<1>3. \A i \in 1..n : /\ creds'[i].profile = creds[i].profile
                      /\ creds'[i].secret = creds[i].secret
                      /\ creds'[i].state = "active" =>
                           creds[i].state = "active" /\ creds[i].profile # p
  BY <1>2 DEF Superseded, CredRows
<1>4. creds'[n + 1] = c
  BY DEF Superseded
<1>5. \A i \in 1..n : creds[i].secret \in 1..i
  BY DEF SecretsNumbered
<1> HIDE DEF n
<1>6. SecretsNumbered'
  <2>1. c.secret \in 1..(n + 1)
    BY <1>1, <1>5 DEF n
  <2>2. ASSUME NEW i \in 1..(n + 1) PROVE creds'[i].secret \in 1..i
    <3>1. CASE i = n + 1
      BY <3>1, <1>4, <2>1
    <3>2. CASE i \in 1..n
      BY <3>2, <1>3, <1>5
    <3> QED
      BY <1>1, <3>1, <3>2
  <2> QED
    BY <2>2, <1>1 DEF SecretsNumbered
<1>7. ActiveIsLatest'
  <2> SUFFICES ASSUME NEW i \in 1..(n + 1), creds'[i].state = "active",
                      NEW j \in (i + 1)..(n + 1)
               PROVE  creds'[j].profile # creds'[i].profile
    BY <1>1 DEF ActiveIsLatest
  <2>1. i \in 1..n
    BY <1>1
  <2>2. creds[i].state = "active" /\ creds[i].profile # p
    BY <2>1, <1>3
  <2>3. CASE j = n + 1
    BY <2>1, <2>2, <2>3, <1>3, <1>4
  <2>4. CASE j \in 1..n
    <3>1. j \in (i + 1)..n
      BY <2>1, <2>4, <1>1
    <3>2. creds[j].profile # creds[i].profile
      BY <2>1, <2>2, <3>1 DEF ActiveIsLatest, n
    <3> QED
      BY <2>1, <2>4, <3>2, <1>3
  <2> QED
    BY <1>1, <2>3, <2>4
<1>8. RotatedSecretNeverReturns'
  <2> SUFFICES ASSUME NEW i \in 1..(n + 1), NEW j \in 1..(n + 1), i < j,
                      creds'[i].profile = creds'[j].profile,
                      creds'[i].secret = creds'[j].secret,
                      NEW k \in i..j, creds'[k].profile = creds'[i].profile
               PROVE  creds'[k].secret = creds'[i].secret
    BY <1>1 DEF RotatedSecretNeverReturns
  <2>1. i \in 1..n
    BY <1>1
  <2>2. CASE j \in 1..n
    <3>1. k \in 1..n
      BY <2>2, <1>1
    <3>2. /\ creds[i].profile = creds[j].profile /\ creds[i].secret = creds[j].secret
          /\ creds[k].profile = creds[i].profile
      BY <2>1, <2>2, <3>1, <1>3
    <3>3. creds[k].secret = creds[i].secret
      BY <2>1, <2>2, <3>2, <1>1 DEF RotatedSecretNeverReturns
    <3> QED
      BY <2>1, <3>1, <3>3, <1>3
  <2>3. CASE j = n + 1
    <3>1. creds[i].profile = p /\ creds[i].secret = c.secret
      BY <2>1, <2>3, <1>3, <1>4
    <3>2. PICK b \in 1..n : /\ creds[b].profile = p /\ creds[b].state = "active"
                            /\ c.secret = creds[b].secret
      BY <3>1, <2>1, <1>1, <1>5 DEF n
    <3>3. CASE k = n + 1
      BY <3>3, <3>1, <2>1, <1>3, <1>4
    <3>4. CASE k \in 1..n
      <4>1. creds[k].profile = p
        BY <3>4, <3>1, <2>1, <1>3
      <4>2. i <= b /\ k <= b
        BY <3>1, <3>2, <3>4, <4>1, <2>1, <1>1 DEF ActiveIsLatest, n
      <4>3. i = b => k = i
        BY <4>2, <3>4, <2>1, <1>1
      <4>4. i < b => creds[k].secret = creds[i].secret
        BY <4>1, <4>2, <3>1, <3>2, <3>4, <2>1, <1>1 DEF RotatedSecretNeverReturns
      <4>5. creds[k].secret = creds[i].secret
        BY <4>2, <4>3, <4>4, <2>1, <1>1
      <4> QED
        BY <4>5, <3>4, <2>1, <1>3
    <3> QED
      BY <3>3, <3>4, <2>3, <2>1, <1>1
  <2> QED
    BY <2>2, <2>3, <1>1
<1> QED
  BY <1>6, <1>7, <1>8

(* Every step keeps what a credential is: rows are added, and a deleted    *)
(* one stays deleted.                                                      *)
CredsGrow ==
  /\ creds' \in Seq(CredRows)
  /\ Len(creds) <= Len(creds')
  /\ \A i \in 1..Len(creds) :
       /\ creds'[i].profile = creds[i].profile
       /\ creds'[i].aad = creds[i].aad
       /\ creds'[i].secret = creds[i].secret
       /\ creds[i].state = "deleted" => creds'[i].state = "deleted"

LEMMA SupersedeGrows ==
  ASSUME creds \in Seq(CredRows), NEW p \in Profiles, NEW c, Superseded(p, c)
  PROVE  CredsGrow
<1>1. Len(creds) \in Nat /\ \A i \in 1..Len(creds) : creds[i] \in CredRows
  BY LenProperties, ElementOfSeq
<1>2. \A i \in 1..Len(creds) :
        /\ creds'[i].profile = creds[i].profile
        /\ creds'[i].aad = creds[i].aad
        /\ creds'[i].secret = creds[i].secret
        /\ creds[i].state = "deleted" => creds'[i].state = "deleted"
  BY <1>1 DEF Superseded, CredRows
<1> QED
  BY <1>1, <1>2 DEF Superseded, CredsGrow

(* The requests in flight keep a credential of their profile.              *)
LEMMA GrowthKeepsRequests ==
  ASSUME Tables, CredsGrow, op' \in [Sessions -> Requests],
         \A s \in Sessions : op'[s] = op[s] \/ op'[s].kind = "none"
  PROVE  \A s \in Sessions : op'[s].kind # "none" =>
           op'[s].base \in 1..Len(creds') /\ creds'[op'[s].base].profile = op'[s].profile
<1>1. Len(creds) \in Nat /\ Len(creds') \in Nat
  BY LenProperties DEF Tables, CredsGrow
<1> QED
  BY <1>1 DEF Tables, CredsGrow

(* Steps that change no more of a credential than its state, and activate  *)
(* none.                                                                   *)
LEMMA SameKeys ==
  ASSUME creds \in Seq(CredRows), SecretsNumbered, ActiveIsLatest,
         RotatedSecretNeverReturns,
         creds' \in Seq(CredRows), Len(creds') = Len(creds),
         \A i \in 1..Len(creds) :
           /\ creds'[i].profile = creds[i].profile
           /\ creds'[i].secret = creds[i].secret
           /\ creds'[i].state = "active" => creds[i].state = "active"
  PROVE  SecretsNumbered' /\ ActiveIsLatest' /\ RotatedSecretNeverReturns'
<1>1. /\ Len(creds) \in Nat /\ DOMAIN creds = 1..Len(creds)
      /\ DOMAIN creds' = 1..Len(creds)
  BY LenProperties
<1>2. SecretsNumbered'
  BY DEF SecretsNumbered
<1>3. ActiveIsLatest'
  <2> SUFFICES ASSUME NEW i \in 1..Len(creds), creds'[i].state = "active",
                      NEW j \in (i + 1)..Len(creds)
               PROVE  creds'[j].profile # creds'[i].profile
    BY DEF ActiveIsLatest
  <2>1. j \in 1..Len(creds)
    BY <1>1
  <2> QED
    BY <2>1 DEF ActiveIsLatest
<1>4. RotatedSecretNeverReturns'
  <2> SUFFICES ASSUME NEW i \in 1..Len(creds), NEW j \in 1..Len(creds), i < j,
                      creds'[i].profile = creds'[j].profile,
                      creds'[i].secret = creds'[j].secret,
                      NEW k \in i..j, creds'[k].profile = creds'[i].profile
               PROVE  creds'[k].secret = creds'[i].secret
    BY <1>1 DEF RotatedSecretNeverReturns
  <2>1. k \in 1..Len(creds)
    BY <1>1
  <2>2. creds[k].secret = creds[i].secret
    BY <2>1, <1>1 DEF RotatedSecretNeverReturns
  <2> QED
    BY <2>1, <2>2
<1> QED
  BY <1>2, <1>3, <1>4

-----------------------------------------------------------------------------
(* The profiles.                                                           *)

LEMMA DefaultGiven ==
  ASSUME Tables, OneDefault, NEW p \in Profiles, NEW row \in ProfileRows,
         row.status = "active", row.adapter \in Adapters,
         NEW default \in BOOLEAN, profiles' = WithDefault(p, row, default)
  PROVE  /\ profiles' \in [Profiles -> ProfileRows]
         /\ \A q \in Profiles : profiles'[q].status = "active" => profiles'[q].adapter \in Adapters
         /\ profiles'[p].status = "active"
         /\ \A q \in Profiles : q # p => profiles'[q].status = profiles[q].status
         /\ OneDefault'
<1>1. \A q \in Profiles : profiles[q] \in ProfileRows
  BY DEF Tables
<1>2. \A q \in Profiles : profiles'[q] =
        IF q = p THEN [row EXCEPT !.default = default]
        ELSE IF default /\ profiles[q].status = "active"
        THEN [profiles[q] EXCEPT !.default = FALSE] ELSE profiles[q]
  BY DEF WithDefault
<1>3. \A q \in Profiles : profiles'[q] \in ProfileRows
  <2>1. [row EXCEPT !.default = default] \in ProfileRows
    BY DEF ProfileRows
  <2>2. \A q \in Profiles : [profiles[q] EXCEPT !.default = FALSE] \in ProfileRows
    BY <1>1 DEF ProfileRows
  <2> QED
    BY <1>1, <1>2, <2>1, <2>2
<1>4. profiles' \in [Profiles -> ProfileRows]
  BY <1>3 DEF WithDefault
<1>5. \A q \in Profiles : q # p => /\ profiles'[q].status = profiles[q].status
                                   /\ profiles'[q].adapter = profiles[q].adapter
                                   /\ profiles'[q].default => profiles[q].default
                                   /\ default /\ profiles[q].status = "active" =>
                                        ~profiles'[q].default
  BY <1>1, <1>2 DEF ProfileRows
<1>6. /\ profiles'[p].status = "active" /\ profiles'[p].adapter = row.adapter
      /\ profiles'[p].default = default
  BY <1>2 DEF ProfileRows
<1>7. \A q \in Profiles : profiles'[q].status = "active" => profiles'[q].adapter \in Adapters
  BY <1>5, <1>6 DEF Tables
<1>8. OneDefault'
  BY <1>5, <1>6 DEF OneDefault
<1> QED
  BY <1>4, <1>5, <1>6, <1>7, <1>8

(* A commit that writes a credential for an active profile.                *)
LEMMA SupersedeKeepsInv ==
  ASSUME CredsInv, NEW p \in Profiles, NEW c \in CredRows, Superseded(p, c),
         c.profile = p, c.state = "active",
         \/ c.secret = Len(creds) + 1
         \/ \E b \in 1..Len(creds) : /\ creds[b].profile = p /\ creds[b].state = "active"
                                     /\ c.secret = creds[b].secret,
         profiles' \in [Profiles -> ProfileRows],
         \A q \in Profiles : profiles'[q].status = "active" => profiles'[q].adapter \in Adapters,
         profiles'[p].status = "active",
         \A q \in Profiles : q # p => profiles'[q].status = profiles[q].status,
         OneDefault',
         op' \in [Sessions -> Requests],
         \A s \in Sessions : op'[s] = op[s] \/ op'[s].kind = "none"
  PROVE  CredsInv'
<1>1. CredsGrow
  BY SupersedeGrows DEF CredsInv, Tables
<1>2. Tables'
  BY <1>1, GrowthKeepsRequests DEF CredsInv, Tables, CredsGrow
<1>3. SecretsNumbered' /\ ActiveIsLatest' /\ RotatedSecretNeverReturns'
  BY SupersedeKeepsOrder DEF CredsInv, Tables
<1>4. StatusHasKeys'
  <2>1. /\ Len(creds) \in Nat /\ Len(creds') = Len(creds) + 1
        /\ creds'[Len(creds) + 1] = c
        /\ \A i \in 1..Len(creds) : creds[i] \in CredRows
        /\ \A i \in 1..Len(creds) :
             creds'[i] = IF creds[i].profile = p /\ creds[i].state = "active"
                         THEN [creds[i] EXCEPT !.state = "revoked"] ELSE creds[i]
    BY LenProperties, ElementOfSeq DEF CredsInv, Tables, Superseded
  <2>2. \E i \in 1..Len(creds') : creds'[i].profile = p /\ creds'[i].state = "active"
    <3>1. Len(creds) + 1 \in 1..Len(creds')
      BY <2>1
    <3> QED
      BY <2>1, <3>1
  <2>3. ASSUME NEW q \in Profiles, q # p
        PROVE  /\ profiles'[q].status = "active" =>
                    \E i \in 1..Len(creds') : creds'[i].profile = q /\ creds'[i].state = "active"
               /\ profiles'[q].status = "absent" => \A i \in 1..Len(creds') : creds'[i].profile # q
               /\ profiles'[q].status = "deleted" =>
                    \A i \in 1..Len(creds') : creds'[i].profile = q => creds'[i].state = "deleted"
    <3>1. \A i \in 1..Len(creds) :
            creds'[i].profile = creds[i].profile /\ (creds[i].profile = q => creds'[i] = creds[i])
      BY <2>1, <2>3 DEF CredRows
    <3>2. \A i \in 1..Len(creds') : i \in 1..Len(creds) \/ creds'[i].profile = p
      BY <2>1
    <3>3. \A i \in 1..Len(creds) : i \in 1..Len(creds')
      BY <2>1
    <3>4. /\ profiles[q].status = "active" =>
               \E i \in 1..Len(creds) : creds[i].profile = q /\ creds[i].state = "active"
          /\ profiles[q].status = "absent" => \A i \in 1..Len(creds) : creds[i].profile # q
          /\ profiles[q].status = "deleted" =>
               \A i \in 1..Len(creds) : creds[i].profile = q => creds[i].state = "deleted"
      BY DEF CredsInv, StatusHasKeys
    <3> QED
      BY <3>1, <3>2, <3>3, <3>4, <2>3
  <2> QED
    BY <2>2, <2>3 DEF StatusHasKeys
<1> QED
  BY <1>2, <1>3, <1>4 DEF CredsInv

-----------------------------------------------------------------------------
(* The steps of the management requests.                                   *)

(* A step that leaves the credential table and the statuses alone.         *)
LEMMA TableUntouched ==
  ASSUME CredsInv, creds' = creds, profiles' \in [Profiles -> ProfileRows],
         \A q \in Profiles : profiles'[q].status = "active" => profiles'[q].adapter \in Adapters,
         \A q \in Profiles : profiles'[q].status = profiles[q].status,
         OneDefault',
         op' \in [Sessions -> Requests],
         \A s \in Sessions : op'[s].kind # "none" =>
           op'[s].base \in 1..Len(creds) /\ creds[op'[s].base].profile = op'[s].profile
  PROVE  CredsInv'
BY DEF CredsInv, Tables, SecretsNumbered, ActiveIsLatest, StatusHasKeys,
       RotatedSecretNeverReturns

LEMMA CreateKeeps ==
  ASSUME CredsInv, NEW p \in Profiles, NEW a \in Adapters, NEW d \in BOOLEAN,
         CreateProfile(p, a, d)
  PROVE  CredsInv' /\ CredsGrow
<1> DEFINE c == NewCred(p, 1, a, Len(creds) + 1)
           row == [Absent EXCEPT !.status = "active", !.adapter = a]
<1>1. Len(creds) \in Nat
  BY LenProperties DEF CredsInv, Tables
<1>2. c \in CredRows /\ c.profile = p /\ c.state = "active" /\ c.secret = Len(creds) + 1
  BY <1>1, NewCredRow
<1>3. row \in ProfileRows /\ row.status = "active" /\ row.adapter \in Adapters
  BY DEF Absent, ProfileRows
<1>4. profiles' = WithDefault(p, row, d) /\ creds' = Append(creds, c) /\ op' = op
      /\ profiles[p].status = "absent"
  BY DEF CreateProfile
<1> HIDE DEF c, row
<1>5. Superseded(p, c)
  <2>1. \A i \in 1..Len(creds) : creds[i].profile # p
    BY <1>4 DEF CredsInv, StatusHasKeys
  <2>2. /\ Append(creds, c) \in Seq(CredRows)
        /\ Len(Append(creds, c)) = Len(creds) + 1
        /\ \A i \in 1..Len(creds) : Append(creds, c)[i] = creds[i]
        /\ Append(creds, c)[Len(creds) + 1] = c
    BY <1>2, AppendProperties DEF CredsInv, Tables
  <2> QED
    BY <1>4, <2>1, <2>2 DEF Superseded
<1>6. /\ profiles' \in [Profiles -> ProfileRows]
      /\ \A q \in Profiles : profiles'[q].status = "active" => profiles'[q].adapter \in Adapters
      /\ profiles'[p].status = "active"
      /\ \A q \in Profiles : q # p => profiles'[q].status = profiles[q].status
      /\ OneDefault'
  BY <1>3, <1>4, DefaultGiven DEF CredsInv
<1>7. op' \in [Sessions -> Requests] /\ \A s \in Sessions : op'[s] = op[s]
  BY <1>4 DEF CredsInv, Tables
<1>8. CredsInv'
  BY <1>2, <1>5, <1>6, <1>7, SupersedeKeepsInv
<1> QED
  BY <1>5, <1>8, SupersedeGrows DEF CredsInv, Tables

LEMMA UpdateKeeps ==
  ASSUME CredsInv, NEW p \in Profiles, NEW d \in BOOLEAN, UpdateNonSecret(p, d)
  PROVE  CredsInv' /\ creds' = creds
<1>1. /\ profiles[p] \in ProfileRows /\ profiles[p].status = "active"
      /\ profiles[p].adapter \in Adapters
      /\ profiles' = WithDefault(p, profiles[p], d) /\ creds' = creds /\ op' = op
  BY DEF UpdateNonSecret, CredsInv, Tables
<1>2. /\ profiles' \in [Profiles -> ProfileRows]
      /\ \A q \in Profiles : profiles'[q].status = "active" => profiles'[q].adapter \in Adapters
      /\ \A q \in Profiles : profiles'[q].status = profiles[q].status
      /\ OneDefault'
  BY <1>1, DefaultGiven DEF CredsInv
<1>3. /\ op' \in [Sessions -> Requests]
      /\ \A s \in Sessions : op'[s].kind # "none" =>
           op'[s].base \in 1..Len(creds) /\ creds[op'[s].base].profile = op'[s].profile
  BY <1>1 DEF CredsInv, Tables
<1> QED
  BY <1>1, <1>2, <1>3, TableUntouched

(* A request that reads the current credential, or one that ends without   *)
(* a change.                                                               *)
LEMMA RequestKeeps ==
  ASSUME CredsInv, UNCHANGED <<profiles, creds>>, NEW s \in Sessions, NEW o \in Requests,
         op' = [op EXCEPT ![s] = o],
         o.kind # "none" => o.base \in 1..Len(creds) /\ creds[o.base].profile = o.profile
  PROVE  CredsInv'
<1>1. op' \in [Sessions -> Requests]
  BY DEF CredsInv, Tables
<1>2. \A t \in Sessions : op'[t].kind # "none" =>
        op'[t].base \in 1..Len(creds) /\ creds[op'[t].base].profile = op'[t].profile
  BY DEF CredsInv, Tables
<1>3. /\ profiles' \in [Profiles -> ProfileRows]
      /\ \A q \in Profiles : profiles'[q].status = "active" => profiles'[q].adapter \in Adapters
      /\ \A q \in Profiles : profiles'[q].status = profiles[q].status
      /\ OneDefault'
  BY DEF CredsInv, Tables, OneDefault
<1> QED
  BY <1>1, <1>2, <1>3, TableUntouched

LEMMA BeginKeeps ==
  ASSUME CredsInv, NEW s \in Sessions, NEW p \in Profiles,
         BeginRotate(s, p) \/ \E a \in Adapters : BeginAdapterChange(s, p, a)
  PROVE  CredsInv' /\ creds' = creds
<1>1. DOMAIN creds = 1..Len(creds)
  BY LenProperties DEF CredsInv, Tables
<1>2. CASE BeginRotate(s, p)
  <2>1. PICK i \in DOMAIN creds :
          /\ IsCurrent(p, i)
          /\ op' = [op EXCEPT ![s] = [kind |-> "rotate", profile |-> p, base |-> i,
                                      adapter |-> profiles[p].adapter]]
    BY <1>2 DEF BeginRotate
  <2> DEFINE o == [kind |-> "rotate", profile |-> p, base |-> i, adapter |-> profiles[p].adapter]
  <2>2. profiles[p].adapter \in Adapters /\ i \in Nat /\ creds[i].profile = p
    BY <1>1, <2>1, LenProperties DEF IsCurrent, ActiveCreds, CredsInv, Tables
  <2>3. o \in Requests /\ o.base \in 1..Len(creds) /\ creds[o.base].profile = o.profile
    BY <1>1, <2>2 DEF Requests
  <2>4. UNCHANGED <<profiles, creds>>
    BY <1>2 DEF BeginRotate
  <2> HIDE DEF o
  <2>5. op' = [op EXCEPT ![s] = o]
    BY <2>1 DEF o
  <2> QED
    BY <2>3, <2>4, <2>5, RequestKeeps
<1>3. ASSUME NEW a \in Adapters, BeginAdapterChange(s, p, a)
      PROVE  CredsInv' /\ creds' = creds
  <2>1. PICK i \in DOMAIN creds :
          /\ IsCurrent(p, i)
          /\ op' = [op EXCEPT ![s] = [kind |-> "adapter", profile |-> p, base |-> i,
                                      adapter |-> a]]
    BY <1>3 DEF BeginAdapterChange
  <2> DEFINE o == [kind |-> "adapter", profile |-> p, base |-> i, adapter |-> a]
  <2>2. i \in Nat /\ creds[i].profile = p
    BY <1>1, <2>1, LenProperties DEF IsCurrent, ActiveCreds, CredsInv, Tables
  <2>3. o \in Requests /\ o.base \in 1..Len(creds) /\ creds[o.base].profile = o.profile
    BY <1>1, <2>2 DEF Requests
  <2>4. UNCHANGED <<profiles, creds>>
    BY <1>3 DEF BeginAdapterChange
  <2> HIDE DEF o
  <2>5. op' = [op EXCEPT ![s] = o]
    BY <2>1 DEF o
  <2> QED
    BY <2>3, <2>4, <2>5, RequestKeeps
<1> QED
  BY <1>2, <1>3

LEMMA RequestFields ==
  ASSUME CredsInv, NEW s \in Sessions, op[s].kind # "none"
  PROVE  /\ op[s].profile \in Profiles /\ op[s].adapter \in Adapters
         /\ op[s].base \in 1..Len(creds) /\ creds[op[s].base] \in CredRows
         /\ creds[op[s].base].profile = op[s].profile
         /\ creds[op[s].base].version + 1 \in Nat /\ creds[op[s].base].secret \in Nat
         /\ Len(creds) + 1 \in Nat
<1>1. op[s] \in Requests /\ op[s] # NoOp
  BY DEF CredsInv, Tables, NoOp
<1>2. op[s].profile \in Profiles /\ op[s].adapter \in Adapters
  BY <1>1 DEF Requests
<1>3. /\ op[s].base \in 1..Len(creds)
      /\ creds[op[s].base].profile = op[s].profile /\ creds \in Seq(CredRows)
  BY DEF CredsInv, Tables
<1>4. creds[op[s].base] \in CredRows /\ Len(creds) \in Nat
  BY <1>3, ElementOfSeq, LenProperties
<1> QED
  BY <1>2, <1>3, <1>4 DEF CredRows

(* An ended request.                                                       *)
LEMMA RequestEnds ==
  ASSUME CredsInv, NEW s \in Sessions, op' = [op EXCEPT ![s] = NoOp]
  PROVE  /\ op' \in [Sessions -> Requests]
         /\ \A t \in Sessions : op'[t] = op[t] \/ op'[t].kind = "none"
BY DEF CredsInv, Tables, Requests, NoOp

LEMMA CommitRotateKeeps ==
  ASSUME CredsInv, NEW s \in Sessions, CommitRotate(s)
  PROVE  CredsInv' /\ (CredsGrow \/ creds' = creds)
<1> DEFINE o == op[s]
           c == NewCred(o.profile, creds[o.base].version + 1, o.adapter, Len(creds) + 1)
<1>1. op[s].kind = "rotate" /\ op' = [op EXCEPT ![s] = NoOp] /\ profiles' = profiles
  BY DEF CommitRotate
<1>2. CASE profiles[o.profile].status # "active" /\ UNCHANGED creds
  <2>1. NoOp \in Requests /\ NoOp.kind = "none"
    BY DEF NoOp, Requests
  <2> QED
    BY <1>1, <1>2, <2>1, RequestKeeps
<1>3. CASE /\ profiles[o.profile].status = "active" /\ Len(creds) < MaxCreds
           /\ creds' = RotateRows(o)
  <2>1. /\ o.profile \in Profiles /\ c \in CredRows /\ c.profile = o.profile
        /\ c.state = "active" /\ c.secret = Len(creds) + 1
    BY <1>1, RequestFields, NewCredRow
  <2>2. creds' = Append(WithState(o.profile, {"active"}, "revoked"), c)
    BY <1>3 DEF RotateRows
  <2> HIDE DEF c
  <2>3. Superseded(o.profile, c)
    BY <2>1, <2>2, AppendSupersedes DEF CredsInv, Tables
  <2>4. /\ profiles' \in [Profiles -> ProfileRows]
        /\ \A q \in Profiles : profiles'[q].status = "active" => profiles'[q].adapter \in Adapters
        /\ profiles'[o.profile].status = "active"
        /\ \A q \in Profiles : q # o.profile => profiles'[q].status = profiles[q].status
        /\ OneDefault'
    BY <1>1, <1>3 DEF CredsInv, Tables, OneDefault
  <2>5. CredsInv'
    BY <2>1, <2>3, <2>4, <1>1, RequestEnds, SupersedeKeepsInv
  <2> QED
    BY <2>1, <2>3, <2>5, SupersedeGrows DEF CredsInv, Tables
<1> QED
  BY <1>2, <1>3 DEF CommitRotate

LEMMA CommitAdapterKeeps ==
  ASSUME CredsInv, NEW s \in Sessions, NEW d \in BOOLEAN, CommitAdapterChange(s, d)
  PROVE  CredsInv' /\ (CredsGrow \/ creds' = creds)
<1> DEFINE o == op[s]
           c == NewCred(o.profile, creds[o.base].version + 1, o.adapter, creds[o.base].secret)
           row == [profiles[o.profile] EXCEPT !.adapter = o.adapter]
<1>1. op[s].kind = "adapter" /\ op' = [op EXCEPT ![s] = NoOp]
  BY DEF CommitAdapterChange
<1>2. CASE ~AdapterApplies(o) /\ UNCHANGED <<profiles, creds>>
  <2>1. NoOp \in Requests /\ NoOp.kind = "none"
    BY DEF NoOp, Requests
  <2> QED
    BY <1>1, <1>2, <2>1, RequestKeeps
<1>3. CASE /\ AdapterApplies(o) /\ Len(creds) < MaxCreds
           /\ profiles' = WithDefault(o.profile, row, d)
           /\ creds' = Append(WithState(o.profile, {"active"}, "revoked"), c)
  <2>1. /\ o.profile \in Profiles /\ c \in CredRows /\ c.profile = o.profile
        /\ c.state = "active" /\ c.secret = creds[o.base].secret
    BY <1>1, RequestFields, NewCredRow
  <2>2. row \in ProfileRows /\ row.status = "active" /\ row.adapter \in Adapters
    <3>1. profiles[o.profile] \in ProfileRows /\ profiles[o.profile].status = "active"
      BY <1>3, <2>1 DEF CredsInv, Tables, AdapterApplies
    <3>2. o.adapter \in Adapters
      BY <1>1, RequestFields
    <3> QED
      BY <3>1, <3>2 DEF ProfileRows
  <2>3. /\ o.base \in 1..Len(creds)
        /\ creds[o.base].profile = o.profile /\ creds[o.base].state = "active"
    BY <1>1, <1>3, RequestFields DEF AdapterApplies, ActiveCreds
  <2> HIDE DEF c, row
  <2>4. Superseded(o.profile, c)
    BY <1>3, <2>1, AppendSupersedes DEF CredsInv, Tables
  <2>5. /\ profiles' \in [Profiles -> ProfileRows]
        /\ \A q \in Profiles : profiles'[q].status = "active" => profiles'[q].adapter \in Adapters
        /\ profiles'[o.profile].status = "active"
        /\ \A q \in Profiles : q # o.profile => profiles'[q].status = profiles[q].status
        /\ OneDefault'
    BY <1>3, <2>1, <2>2, DefaultGiven DEF CredsInv
  <2>6. CredsInv'
    BY <2>1, <2>3, <2>4, <2>5, <1>1, RequestEnds, SupersedeKeepsInv
  <2> QED
    BY <2>1, <2>4, <2>6, SupersedeGrows DEF CredsInv, Tables
<1> QED
  BY <1>2, <1>3 DEF CommitAdapterChange

LEMMA DeleteKeeps ==
  ASSUME CredsInv, NEW p \in Profiles, DeleteProfile(p)
  PROVE  CredsInv' /\ CredsGrow
<1> DEFINE n == Len(creds)
<1>1. /\ profiles[p].status = "active" /\ op' = op
      /\ profiles' = [profiles EXCEPT ![p].status = "deleted"]
      /\ creds' = WithState(p, {"active", "revoked"}, "deleted")
  BY DEF DeleteProfile
<1>2. /\ creds \in Seq(CredRows) /\ n \in Nat
      /\ \A i \in 1..n : creds[i] \in CredRows
  BY ElementOfSeq, LenProperties DEF CredsInv, Tables
<1>3. /\ creds' \in Seq(CredRows) /\ Len(creds') = n
      /\ \A i \in 1..n :
           creds'[i] = IF creds[i].profile = p /\ creds[i].state \in {"active", "revoked"}
                       THEN [creds[i] EXCEPT !.state = "deleted"] ELSE creds[i]
  BY <1>1, <1>2, WithStateRows
<1>4. \A i \in 1..n : /\ creds'[i].profile = creds[i].profile
                      /\ creds'[i].aad = creds[i].aad
                      /\ creds'[i].secret = creds[i].secret
                      /\ creds'[i].state = "active" => creds[i].state = "active"
                      /\ creds[i].state = "deleted" => creds'[i].state = "deleted"
                      /\ creds[i].profile = p => creds'[i].state = "deleted"
                      /\ creds[i].profile # p => creds'[i] = creds[i]
  BY <1>2, <1>3 DEF CredRows
<1>5. SecretsNumbered' /\ ActiveIsLatest' /\ RotatedSecretNeverReturns'
  BY <1>2, <1>3, <1>4, SameKeys DEF CredsInv
<1>6. CredsGrow
  BY <1>2, <1>3, <1>4 DEF CredsGrow
<1>7. /\ \A q \in Profiles : profiles[q] \in ProfileRows
      /\ \A q \in Profiles : q # p => profiles'[q] = profiles[q]
      /\ profiles'[p] = [profiles[p] EXCEPT !.status = "deleted"]
      /\ profiles'[p].status = "deleted"
  BY <1>1 DEF CredsInv, Tables, ProfileRows
<1>8. Tables'
  <2>1. [profiles[p] EXCEPT !.status = "deleted"] \in ProfileRows
    BY <1>7 DEF ProfileRows
  <2>2. profiles' \in [Profiles -> ProfileRows]
    BY <1>1, <1>7, <2>1 DEF CredsInv, Tables
  <2>3. \A q \in Profiles : profiles'[q].status = "active" => profiles'[q].adapter \in Adapters
    BY <1>7 DEF CredsInv, Tables
  <2>4. op' \in [Sessions -> Requests]
    BY <1>1 DEF CredsInv, Tables
  <2>5. \A s \in Sessions : op'[s].kind # "none" =>
          op'[s].base \in 1..Len(creds') /\ creds'[op'[s].base].profile = op'[s].profile
    BY <1>1, <1>6, <2>4, GrowthKeepsRequests DEF CredsInv
  <2> QED
    BY <1>3, <2>2, <2>3, <2>4, <2>5 DEF Tables
<1>9. StatusHasKeys'
  <2> SUFFICES ASSUME NEW q \in Profiles
      PROVE  /\ profiles'[q].status = "active" =>
                  \E i \in 1..n : creds'[i].profile = q /\ creds'[i].state = "active"
             /\ profiles'[q].status = "absent" => \A i \in 1..n : creds'[i].profile # q
             /\ profiles'[q].status = "deleted" =>
                  \A i \in 1..n : creds'[i].profile = q => creds'[i].state = "deleted"
    BY <1>3 DEF StatusHasKeys
  <2>1. CASE q = p
    BY <2>1, <1>4, <1>7
  <2>2. CASE q # p
    BY <2>2, <1>4, <1>7 DEF CredsInv, StatusHasKeys
  <2> QED
    BY <2>1, <2>2
<1>10. OneDefault'
  BY <1>7 DEF CredsInv, OneDefault
<1> QED
  BY <1>5, <1>6, <1>8, <1>9, <1>10 DEF CredsInv

LEMMA ManageKeeps ==
  ASSUME CredsInv, ManageStep
  PROVE  CredsInv' /\ (CredsGrow \/ creds' = creds)
BY CreateKeeps, UpdateKeeps, BeginKeeps, CommitRotateKeeps, CommitAdapterKeeps, DeleteKeeps
   DEF ManageStep

LEMMA ProfilesInitKeys ==
  ASSUME ProfilesInit
  PROVE  CredsInv
<1>1. /\ profiles = [p \in Profiles |-> Absent] /\ creds = <<>>
      /\ op = [s \in Sessions |-> NoOp]
  BY DEF ProfilesInit
<1>2. creds \in Seq(CredRows) /\ Len(creds) = 0 /\ DOMAIN creds = {}
  BY <1>1, EmptySeq
<1>3. Tables
  <2>1. Absent \in ProfileRows /\ Absent.status = "absent"
    BY DEF Absent, ProfileRows
  <2>2. NoOp \in Requests /\ NoOp.kind = "none"
    BY DEF NoOp, Requests
  <2> QED
    BY <1>1, <1>2, <2>1, <2>2 DEF Tables
<1>4. SecretsNumbered /\ ActiveIsLatest /\ RotatedSecretNeverReturns
  BY <1>2 DEF SecretsNumbered, ActiveIsLatest, RotatedSecretNeverReturns
<1>5. StatusHasKeys /\ OneDefault
  BY <1>1, <1>2 DEF StatusHasKeys, OneDefault, Absent
<1> QED
  BY <1>3, <1>4, <1>5 DEF CredsInv
-----------------------------------------------------------------------------
(* The creation of the run and its executions.                             *)

RunRows == [status : {"queued", "running", "completed"} \cup Resumable,
            cred : Nat, adapter : Adapters \cup {"none"}, usable : BOOLEAN]

CreateRequests == [at : {"idle", "inserting", "answered", "failed"}, cred : Nat,
                   adapter : Adapters \cup {"none"}, run : Nat]

(* A request that was not refused names a credential, and a run names one  *)
(* that decrypted at its creation if the run says so.                      *)
RunTables ==
  /\ runs \in Seq(RunRows)
  /\ req \in [Clients -> CreateRequests]
  /\ \A c \in Clients : req[c].at = "inserting" => req[c].cred \in 1..Len(creds)
  /\ \A r \in 1..Len(runs) : /\ runs[r].cred \in 1..Len(creds)
                             /\ runs[r].usable = Decrypts(runs[r].cred, runs[r].adapter)

OneRun ==
  /\ Len(runs) <= 1 /\ starts = 1..Len(runs)
  /\ \A c \in Clients : req[c].at = "answered" => req[c].run \in 1..Len(runs)

(* A failure for want of a key is that of the one run.                     *)
FailureExplained ==
  /\ failure \in {"none", "other", "CREDENTIAL_UNAVAILABLE"}
  /\ failure = "CREDENTIAL_UNAVAILABLE" =>
       /\ Len(runs) = 1
       /\ creds[runs[1].cred].state = "deleted" \/ ~runs[1].usable

RunsInv == RunTables /\ OneRun /\ FailureExplained

(* Managing the profiles disturbs none of it.                              *)
LEMMA ManageKeepsRuns ==
  ASSUME CredsInv, RunsInv, CredsGrow \/ creds' = creds, UNCHANGED createVars
  PROVE  RunsInv'
<1>1. CASE creds' = creds
  BY <1>1 DEF RunsInv, RunTables, OneRun, FailureExplained, Decrypts, createVars
<1>2. CASE CredsGrow
  <2>1. /\ UNCHANGED <<runs, starts, req, failure>>
        /\ Len(creds) \in Nat /\ Len(creds') \in Nat /\ Len(creds) <= Len(creds')
    BY <1>2, LenProperties DEF createVars, CredsGrow, CredsInv, Tables
  <2>2. \A i \in 1..Len(creds) : i \in 1..Len(creds')
    BY <2>1
  <2>3. \A i \in 1..Len(creds) : creds'[i].aad = creds[i].aad
                                /\ (creds[i].state = "deleted" => creds'[i].state = "deleted")
    BY <1>2 DEF CredsGrow
  <2>4. RunTables'
    BY <2>1, <2>2, <2>3 DEF RunsInv, RunTables, Decrypts
  <2>5. OneRun'
    BY <2>1 DEF RunsInv, OneRun
  <2>6. FailureExplained'
    BY <2>1, <2>3 DEF RunsInv, FailureExplained, RunTables
  <2> QED
    BY <2>4, <2>5, <2>6 DEF RunsInv
<1> QED
  BY <1>1, <1>2

(* A request that changes no run.                                          *)
LEMMA RequestKeepsRuns ==
  ASSUME RunsInv, UNCHANGED <<profileVars, runs, starts, failure>>,
         NEW c \in Clients, NEW q \in CreateRequests, req' = [req EXCEPT ![c] = q],
         q.at = "inserting" => q.cred \in 1..Len(creds),
         q.at = "answered" => q.run \in 1..Len(runs)
  PROVE  RunsInv'
<1>1. UNCHANGED <<creds, runs, starts, failure>>
  BY DEF profileVars
<1>2. \A d \in Clients : req'[d] = IF d = c THEN q ELSE req[d]
  BY DEF RunsInv, RunTables
<1>3. req' \in [Clients -> CreateRequests]
  BY DEF RunsInv, RunTables
<1>4. RunTables'
  BY <1>1, <1>2, <1>3 DEF RunsInv, RunTables, Decrypts
<1>5. OneRun' /\ FailureExplained'
  BY <1>1, <1>2 DEF RunsInv, OneRun, FailureExplained
<1> QED
  BY <1>4, <1>5 DEF RunsInv

LEMMA BeginCreateKeeps ==
  ASSUME CredsInv, RunsInv, NEW c \in Clients, NEW i \in DOMAIN creds, BeginCreate(c, i)
  PROVE  RunsInv'
<1> DEFINE q == IF runs # <<>> THEN [NoRequest EXCEPT !.at = "answered", !.run = 1]
                ELSE IF IsCurrent(creds[i].profile, i)
                THEN [NoRequest EXCEPT !.at = "inserting", !.cred = i,
                                       !.adapter = profiles[creds[i].profile].adapter]
                ELSE [NoRequest EXCEPT !.at = "failed"]
<1>1. req' = [req EXCEPT ![c] = q] /\ UNCHANGED <<profileVars, runs, starts, failure>>
  BY DEF BeginCreate
<1>2. i \in 1..Len(creds) /\ i \in Nat /\ creds[i].profile \in Profiles
  <2>1. i \in 1..Len(creds) /\ creds \in Seq(CredRows) /\ Len(creds) \in Nat
    BY LenProperties DEF CredsInv, Tables
  <2>2. creds[i] \in CredRows
    BY <2>1, ElementOfSeq
  <2> QED
    BY <2>1, <2>2 DEF CredRows
<1>3. profiles[creds[i].profile].adapter \in Adapters \cup {"none"}
  BY <1>2 DEF CredsInv, Tables, ProfileRows
<1>4. runs # <<>> => 1 \in 1..Len(runs)
  BY LenProperties, EmptySeq DEF RunsInv, RunTables
<1>5. /\ q \in CreateRequests
      /\ q.at = "inserting" => q.cred \in 1..Len(creds)
      /\ q.at = "answered" => q.run \in 1..Len(runs)
  BY <1>2, <1>3, <1>4 DEF CreateRequests, NoRequest
<1> HIDE DEF q
<1> QED
  BY <1>1, <1>5, RequestKeepsRuns

LEMMA CommitCreateKeeps ==
  ASSUME CredsInv, RunsInv, NEW c \in Clients, CommitCreate(c)
  PROVE  RunsInv'
<1> DEFINE row == [status |-> "queued", cred |-> req[c].cred, adapter |-> req[c].adapter,
                   usable |-> Decrypts(req[c].cred, req[c].adapter)]
           q == [NoRequest EXCEPT !.at = "answered", !.run = 1]
<1>1. runs = <<>> /\ Len(runs) = 0 /\ runs \in Seq(RunRows)
  BY EmptySeq DEF CommitCreate, KeyIsFree, RunsInv, RunTables
<1>2. /\ req[c].at = "inserting" /\ runs' = Append(runs, row) /\ starts' = starts \union {1}
      /\ req' = [req EXCEPT ![c] = q] /\ failure' = failure /\ creds' = creds
  BY <1>1 DEF CommitCreate, profileVars
<1>3. row \in RunRows
  <2>1. req[c].cred \in Nat /\ req[c].adapter \in Adapters \cup {"none"}
    BY DEF RunsInv, RunTables, CreateRequests
  <2> QED
    BY <2>1 DEF RunRows, Decrypts
<1>4. row.cred \in 1..Len(creds) /\ row.usable = Decrypts(row.cred, row.adapter)
  BY <1>2 DEF RunsInv, RunTables
<1>5. q \in CreateRequests /\ q.at = "answered" /\ q.run = 1
  BY DEF NoRequest, CreateRequests
<1> HIDE DEF row, q
<1>6. runs' \in Seq(RunRows) /\ Len(runs') = 1 /\ runs'[1] = row
  BY <1>1, <1>2, <1>3, AppendProperties
<1>7. RunTables'
  <2>1. req' \in [Clients -> CreateRequests]
    BY <1>2, <1>5 DEF RunsInv, RunTables
  <2>2. \A d \in Clients : req'[d].at = "inserting" => req'[d].cred \in 1..Len(creds)
    BY <1>2, <1>5 DEF RunsInv, RunTables
  <2>3. \A r \in 1..1 : /\ runs'[r].cred \in 1..Len(creds)
                       /\ runs'[r].usable = Decrypts(runs'[r].cred, runs'[r].adapter)
    BY <1>4, <1>6
  <2> QED
    BY <1>2, <1>6, <2>1, <2>2, <2>3 DEF RunTables, Decrypts
<1>8. OneRun'
  <2>1. \A d \in Clients : req'[d] = q \/ req'[d].at # "answered"
    BY <1>1, <1>2 DEF RunsInv, RunTables, OneRun
  <2> QED
    BY <1>1, <1>2, <1>5, <1>6, <2>1 DEF RunsInv, OneRun
<1>9. FailureExplained'
  BY <1>1, <1>2 DEF RunsInv, FailureExplained
<1> QED
  BY <1>7, <1>8, <1>9 DEF RunsInv

(* A step of the one run.                                                  *)
LEMMA StatusKeepsRuns ==
  ASSUME RunsInv, NEW r \in DOMAIN runs,
         NEW st \in {"queued", "running", "completed"} \cup Resumable,
         runs' = [runs EXCEPT ![r].status = st], UNCHANGED <<profileVars, starts, req>>,
         failure' \in {"none", "other", "CREDENTIAL_UNAVAILABLE"},
         failure' = "CREDENTIAL_UNAVAILABLE" =>
           failure = "CREDENTIAL_UNAVAILABLE" \/ BindingFails(r)
  PROVE  RunsInv'
<1>1. /\ runs \in Seq(RunRows) /\ Len(runs) \in Nat /\ DOMAIN runs = 1..Len(runs)
      /\ r \in 1..Len(runs) /\ runs[r] \in RunRows
  BY LenProperties, ElementOfSeq DEF RunsInv, RunTables
<1>2. Len(runs) = 1 /\ r = 1
  BY <1>1 DEF RunsInv, OneRun
<1> DEFINE row == [runs[1] EXCEPT !.status = st]
<1>3. /\ row \in RunRows /\ row.cred = runs[1].cred
      /\ row.adapter = runs[1].adapter /\ row.usable = runs[1].usable
  BY <1>1, <1>2 DEF RunRows
<1>4. runs' = [runs EXCEPT ![1] = row]
  BY <1>1, <1>2
<1> HIDE DEF row
<1>5. runs' \in Seq(RunRows) /\ Len(runs') = 1 /\ runs'[1] = row
  <2> DEFINE R == [runs EXCEPT ![1] = row]
  <2>1. R \in Seq(RunRows) /\ Len(R) = 1 /\ R[1] = row
    <3>1. runs \in Seq(RunRows) /\ 1 \in 1..Len(runs) /\ row \in RunRows
      BY <1>1, <1>2, <1>3
    <3>2. /\ R \in Seq(RunRows) /\ Len(R) = Len(runs)
          /\ \A j \in 1..Len(runs) : R[j] = IF j = 1 THEN row ELSE runs[j]
      BY <3>1, ExceptSeq
    <3> HIDE DEF R
    <3> QED
      BY <3>1, <3>2, <1>2
  <2> QED
    BY <1>4, <2>1
<1>6. UNCHANGED <<creds, starts, req>>
  BY DEF profileVars
<1>7. RunTables'
  <2>1. \A k \in 1..1 : /\ runs'[k].cred \in 1..Len(creds)
                       /\ runs'[k].usable = Decrypts(runs'[k].cred, runs'[k].adapter)
    BY <1>1, <1>2, <1>3, <1>5 DEF RunsInv, RunTables
  <2> QED
    BY <1>5, <1>6, <2>1 DEF RunsInv, RunTables, Decrypts
<1>8. OneRun'
  BY <1>2, <1>5, <1>6 DEF RunsInv, OneRun
<1>9. FailureExplained'
  <2>1. BindingFails(r) => creds[runs[1].cred].state = "deleted" \/ ~runs[1].usable
    BY <1>1, <1>2 DEF BindingFails, RunBinding, RunsInv, RunTables
  <2> QED
    BY <1>3, <1>5, <1>6, <2>1 DEF RunsInv, FailureExplained
<1> QED
  BY <1>7, <1>8, <1>9 DEF RunsInv

LEMMA ExecutionKeeps ==
  ASSUME RunsInv, NEW r \in DOMAIN runs, FailForCredential(r) \/ Progress(r)
  PROVE  RunsInv' /\ UNCHANGED profileVars
<1>1. CASE FailForCredential(r)
  <2>1. "failed" \in {"queued", "running", "completed"} \cup Resumable
    BY DEF Resumable
  <2> QED
    BY <1>1, <2>1, StatusKeepsRuns DEF FailForCredential
<1>2. ASSUME NEW from, NEW to \in {"queued", "running", "completed"} \cup Resumable,
             Transition(r, from, to)
      PROVE  RunsInv' /\ UNCHANGED profileVars
  <2>1. failure' \in {"none", "other", failure}
    BY <1>2 DEF Transition
  <2>2. /\ failure' \in {"none", "other", "CREDENTIAL_UNAVAILABLE"}
        /\ failure' = "CREDENTIAL_UNAVAILABLE" => failure = "CREDENTIAL_UNAVAILABLE"
    BY <2>1 DEF RunsInv, FailureExplained
  <2>3. runs' = [runs EXCEPT ![r].status = to] /\ UNCHANGED <<profileVars, starts, req>>
    BY <1>2 DEF Transition
  <2> QED
    BY <2>2, <2>3, StatusKeepsRuns
<1>3. CASE Progress(r)
  <2>1. \E from, to : /\ to \in {"queued", "running", "completed"} \cup Resumable
                      /\ Transition(r, from, to)
    BY <1>3 DEF Progress, Resumable
  <2> QED
    BY <2>1, <1>2
<1> QED
  BY <1>1, <1>3

-----------------------------------------------------------------------------
Inv == CredsInv /\ RunsInv

LEMMA InitInv == ServiceInit => Inv
<1> SUFFICES ASSUME ServiceInit PROVE Inv
  OBVIOUS
<1>1. CredsInv
  BY ProfilesInitKeys DEF ServiceInit
<1>2. runs \in Seq(RunRows) /\ Len(runs) = 0
  BY EmptySeq DEF ServiceInit
<1>3. /\ NoRequest \in CreateRequests /\ NoRequest.at = "idle"
      /\ req = [c \in Clients |-> NoRequest] /\ starts = {} /\ failure = "none"
  BY DEF ServiceInit, NoRequest, CreateRequests
<1>4. RunsInv
  BY <1>2, <1>3 DEF RunsInv, RunTables, OneRun, FailureExplained
<1> QED
  BY <1>1, <1>4 DEF Inv

LEMMA StepInv == Inv /\ [ServiceNext]_serviceVars => Inv'
<1> SUFFICES ASSUME CredsInv, RunsInv, [ServiceNext]_serviceVars PROVE CredsInv' /\ RunsInv'
  BY DEF Inv
<1>1. CASE ManageStep /\ UNCHANGED createVars
  BY <1>1, ManageKeeps, ManageKeepsRuns
<1>2. ASSUME UNCHANGED profileVars PROVE CredsInv'
  BY <1>2 DEF profileVars, CredsInv, Tables, SecretsNumbered, ActiveIsLatest, StatusHasKeys,
              RotatedSecretNeverReturns, OneDefault
<1>3. ASSUME NEW c \in Clients, NEW i \in DOMAIN creds, BeginCreate(c, i)
      PROVE  CredsInv' /\ RunsInv'
  <2>1. UNCHANGED profileVars
    BY <1>3 DEF BeginCreate
  <2> QED
    BY <1>2, <1>3, <2>1, BeginCreateKeeps
<1>4. ASSUME NEW c \in Clients, CommitCreate(c) PROVE CredsInv' /\ RunsInv'
  <2>1. UNCHANGED profileVars
    BY <1>4 DEF CommitCreate
  <2> QED
    BY <1>2, <1>4, <2>1, CommitCreateKeeps
<1>5. ASSUME NEW c \in Clients, RefuseCreate(c) \/ RetryCreate(c)
      PROVE  CredsInv' /\ RunsInv'
  <2>1. /\ UNCHANGED <<profileVars, runs, starts, failure>>
        /\ \E q \in {NoRequest, [NoRequest EXCEPT !.at = "failed"]} :
             req' = [req EXCEPT ![c] = q]
    BY <1>5 DEF RefuseCreate, RetryCreate
  <2>2. \A q \in {NoRequest, [NoRequest EXCEPT !.at = "failed"]} :
          q \in CreateRequests /\ q.at # "inserting" /\ q.at # "answered"
    BY DEF NoRequest, CreateRequests
  <2>3. RunsInv'
    BY <2>1, <2>2, RequestKeepsRuns
  <2> QED
    BY <1>2, <2>1, <2>3
<1>6. ASSUME NEW r \in DOMAIN runs, FailForCredential(r) \/ Progress(r)
      PROVE  CredsInv' /\ RunsInv'
  BY <1>2, <1>6, ExecutionKeeps
<1>7. CASE UNCHANGED serviceVars
  <2>1. UNCHANGED profileVars /\ UNCHANGED createVars
    BY <1>7 DEF serviceVars
  <2> QED
    BY <1>2, <2>1, ManageKeepsRuns DEF profileVars
<1> QED
  BY <1>1, <1>3, <1>4, <1>5, <1>6, <1>7 DEF ServiceNext

(* The credentials are sound and the runs are, in every reachable state.   *)
THEOREM ServiceInvariant == ServiceSpec => []Inv
BY InitInv, StepInv, PTL DEF ServiceSpec

(* However many requests manage the profiles of an owner at once, an active *)
(* profile has exactly one key in force and a deleted one none, a replaced  *)
(* secret never comes back into force, and at most one profile is the       *)
(* default (rotate_credential, update_profile, delete_profile).             *)
THEOREM CredentialsStaySound == ServiceSpec => []CredentialsSound
<1>1. Inv => CredentialsSound
  <2> SUFFICES ASSUME Inv PROVE CredentialsSound
    OBVIOUS
  <2>1. /\ DOMAIN creds = 1..Len(creds) /\ Len(creds) \in Nat
        /\ \A i \in 1..Len(creds) : creds[i] \in CredRows
    BY LenProperties, ElementOfSeq DEF Inv, CredsInv, Tables
  <2>2. ServiceTypeOK
    <3>1. \A p \in Profiles : profiles[p].status \in {"absent", "active", "deleted"}
      BY DEF Inv, CredsInv, Tables, ProfileRows
    <3>2. \A i \in DOMAIN creds : creds[i].state \in {"active", "revoked", "deleted"}
                                  /\ creds[i].aad \in Adapters
      BY <2>1 DEF CredRows
    <3>3. \A s \in Sessions : op[s].kind \in {"none", "rotate", "adapter"}
      <4> SUFFICES ASSUME NEW s \in Sessions PROVE op[s].kind \in {"none", "rotate", "adapter"}
        OBVIOUS
      <4>1. op[s] \in Requests
        BY DEF Inv, CredsInv, Tables
      <4> QED
        BY <4>1 DEF Requests, NoOp
    <3>4. \A c \in Clients : req[c].at \in {"idle", "inserting", "answered", "failed"}
      BY DEF Inv, RunsInv, RunTables, CreateRequests
    <3>5. failure \in {"none", "other", "CREDENTIAL_UNAVAILABLE"}
      BY DEF Inv, RunsInv, FailureExplained
    <3> QED
      BY <3>1, <3>2, <3>3, <3>4, <3>5 DEF ServiceTypeOK, ProfilesTypeOK
  <2>3. OneKeyInForce
    <3>1. ASSUME NEW p \in Profiles, profiles[p].status = "active"
          PROVE  Cardinality(ActiveCreds(p)) = 1
      <4>1. PICK i \in 1..Len(creds) : creds[i].profile = p /\ creds[i].state = "active"
        BY <3>1 DEF Inv, CredsInv, StatusHasKeys
      <4>2. ASSUME NEW j \in 1..Len(creds), creds[j].profile = p, creds[j].state = "active"
            PROVE  j = i
        <5>1. ~(i < j) /\ ~(j < i)
          BY <4>1, <4>2, <2>1 DEF Inv, CredsInv, ActiveIsLatest
        <5> QED
          BY <5>1, <2>1
      <4>3. ActiveCreds(p) = {i}
        BY <4>1, <4>2, <2>1 DEF ActiveCreds
      <4> QED
        BY <4>3, FS_Singleton
    <3>2. \A p \in Profiles : profiles[p].status = "deleted" =>
            \A i \in DOMAIN creds : creds[i].profile = p => creds[i].state = "deleted"
      BY <2>1 DEF Inv, CredsInv, StatusHasKeys
    <3> QED
      BY <3>1, <3>2 DEF OneKeyInForce
  <2> QED
    BY <2>2, <2>3 DEF CredentialsSound, Inv, CredsInv
<1> QED
  BY <1>1, ServiceInvariant, PTL

(* For any number of clients that create under one key and lose answers,    *)
(* one run with one start dispatch exists, and it is without a key only if  *)
(* its profile was deleted or its key never decrypted (create,              *)
(* RunProviderBindingRepository.get).                                       *)
THEOREM RunsStaySound == ServiceSpec => []RunsSound
<1>1. Inv => RunsSound
  <2> SUFFICES ASSUME Inv PROVE RunsSound
    OBVIOUS
  <2>1. DOMAIN runs = 1..Len(runs)
    BY LenProperties DEF Inv, RunsInv, RunTables
  <2>2. OneRunPerKey
    BY <2>1 DEF Inv, RunsInv, OneRun, OneRunPerKey
  <2>3. RunKeepsItsKey
    BY DEF Inv, RunsInv, FailureExplained, RunKeepsItsKey
  <2> QED
    BY <2>2, <2>3 DEF RunsSound
<1> QED
  BY <1>1, ServiceInvariant, PTL

=============================================================================
