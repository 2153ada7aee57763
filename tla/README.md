# TLA+ models of the deep-research agent

The agent answers a research task: a user creates a *run*, a worker plans it,
searches the web, reads and extracts pages under budgets, replans for open gaps
and writes a report. PostgreSQL holds all state, Celery over Redis delivers work,
and runs must survive crashes, restarts, pauses and late answers.

This directory models the parts where steps of several actors, failures and
limits meet, checks them with TLC on small instances and proves the most
important results with TLAPS for every value of the constants.

## The system

| Part | State it keeps | Operations | Talks to |
|---|---|---|---|
| API process (`api/`, `services/research_runs.py`) | none | create, pause, cancel, resume, event stream | run repository |
| Run repository (`infrastructure/db/research_runs.py`) | `research_runs` row: status, phase, lease, owner, version, plan, budgets | acquire, renew, reconcile, save plans, defer, fail | everyone |
| Outbox and dispatcher (`outbox.py`, `worker/dispatcher.py`) | `task_dispatch_outbox` rows | claim, send, mark | broker |
| Celery workers (`worker/tasks.py`) | the task in hand | deliver, acquire, heartbeat, map failures | repository, graph |
| Research graph (`services/research_graph.py`) | none of its own | planner, research, replan, writer nodes | planner, loop, writer |
| Research loop (`services/research_loop.py`) | one attempt in memory | search, reserve, read, triage, extract, record | tool repository, readers, model |
| Tool repository (`infrastructure/db/research_tools.py`) | `usage_snapshot` counters and reservations, questions, gaps, evidence | reserve, settle, release, prepare, finish | graph, loop |
| Model ledger (same file, 1190-2434) | token reservations | reserve, settle, mark uncertain, release | loop, writer |
| State runtime (`state_runtime.py`, `domain/state.py`, `agent/reducers/`) | the public `ResearchState` snapshot | initialize, synchronize (project the row, patch, validate) | graph, worker, API |
| Provider health and router (`domain/provider_*.py`) | health records with cooldowns and probes | route, record an outcome | loop, tool repository |
| Web search (`tools/web_search.py`) | circuits per engine group, `last_*` counters | ask engine groups in turn, hedge, count | loop |
| Scheduler (`prepare_target`, `finish_iteration` in `research_tools.py`) | per-question marks, action and search counters, the quality snapshot | choose a question and a query, evaluate, stop or replan | graph, loop |
| Readers (`services/parallel_reads.py`, `tools/web_reader.py`) | host permits and global slots of a batch | read, follow redirects, give up at the deadline | loop |
| Evidence extractor (`services/evidence_extractor.py`, `extraction_cache.py`) | extraction cache rows | call, retry, repair, rescue, cache | loop, gateway |
| LLM gateway (`llm/adapters.py`) | none | one structured call with its retries | planner, extractor, writer |
| Evidence graph, gaps, feedback (`domain/`, `evidence_graph_relations.py`, `research_tools.py`) | evidence, claims, conflicts, gap rows, feedback queue and executions | align, evaluate, project, dispatch, finalize | tool repository |
| Provider profiles (`provider_profiles.py`, both), run service | profiles, encrypted credential versions, run bindings | create, update, rotate, change adapter, delete; create a run | API, worker |
| Report writer (`services/report_writer.py`, `reports.py`) | report rows, draft cache | load, draft, assemble, verify, commit | ledger, run repository |
| Context manager (`context/manager.py`) | none | cut a token budget from the window, select what fits | writer |
| Event stream (`api/v1/research_runs.py`) | `agent_events`; a cursor per connection | list after the cursor, send, end when the run rests | client |
| Memory, retrieval, controlled tools, web UI | their own tables | see `PROJECT.json` | |

What is hard here:

- *Delivery.* A message may be sent twice, redelivered, delayed or lost with its
  process; the run row is the only referee.
- *Ownership.* An execution goes on for minutes after a pause, a cancel or a
  takeover has revoked it, and must not commit.
- *Unlocked reads.* The planner reads "no plan" and saves one much later.
- *Budgets over several transactions.* A slot is reserved, used and settled in
  different transactions, with a crash or a raise possible in between.
- *Limits in a list.* The first exhausted limit decides how a run goes on.
- *Money across a call.* Model tokens are reserved before a call whose price is known
  only after it; the call may fail, be billed and never be settled.
- *Answers in any order.* A slow engine group and its hedge, a batch of reads, a
  deadline: what arrives late must be neither lost nor asked for again.
- *Marks that outlive their reason.* Questions, families, gaps and feedback carry
  marks through crashes and replans that reset some of them and keep others.
- *Reads before locks in the service.* A key is read and re-encrypted before the
  profile is locked.
- *Two rows for one fact.* The public state is projected from the run row in a later
  transaction, by whoever happens to come next.

`PROJECT.json` lists every hazard at its line with the properties that cover it.

## Modules

| Module | Models | Lines of the code |
|---|---|---|
| `RunLifecycle` | one run, its row, outbox, dispatcher, broker, workers, reconciler, user | `research_runs.py`, `outbox.py`, `dispatcher.py`, `tasks.py`, `research_graph.py`, parts of `research_tools.py` and `reports.py` |
| `MCRunLifecycle` | the same, with worker symmetry, for TLC | |
| `PageBudget` | search, page and extraction counters and reservations along an attempt | `research_tools.py`, `research_loop.py` |
| `MCPageBudget` | the same, for TLC | |
| `PageBudgetProofs` | its inductive invariants and theorems | |
| `ModelBudgetLedger` | token reservations of planner, extractions and writer | `research_tools.py`, `planner.py`, `research_loop.py`, `report_writer.py`, `research_budget.py`, `research_management.py` |
| `MCModelBudgetLedger` | the same, with its symmetries, for TLC | |
| `ModelBudgetLedgerProofs` | its inductive invariant and theorems | |
| `StateRuntime` | the run row as the projection reads it, the snapshot, and everybody who commits or synchronizes | `state_runtime.py`, `domain/state.py`, `state_reducer.py`, `research_graph.py`, `tasks.py`, `research_runs.py` (both) |
| `MCStateRuntime` | the same, with its symmetries, for TLC | |
| `ProviderRouting` | provider health records, routing, failure classes (operators) | `provider_health.py`, `provider_router.py`, `provider_registry.py`, `provider_failure_classification.py` |
| `SearchAcquisition` | one search of the loop after the other, with the adapters and the records they leave | `web_search.py`, `brave_search.py`, `duckduckgo_search.py`, `research_loop.py`, `research_tools.py` |
| `SearchAcquisitionProofs` | its inductive invariant and theorems | |
| `QuestionScheduler` | the choice of question and query, the evaluation of an iteration, replans | `research_tools.py`, `research_runs.py`, `research_graph.py` |
| `ResearchStateProofs` | inductive invariants and theorems of `QuestionScheduler` and `StateRuntime` | |
| `EvidenceGraph` | evidence, claim status, conflicts and their refresh (operators) | `evidence_graph_relations.py`, `domain/evidence_graph.py`, `research_tools.py` |
| `ClosureRules` | closure evaluation, feedback and the chain to a query (operators) | `gap_closure.py` and the domain modules after it |
| `GapFeedback` | the gap rows of a question from page to report | `research_tools.py`, `gap_requirements.py` |
| `GapFeedbackProofs` | its inductive invariant and theorems | |
| `WebReader` | the outcome of one read with its redirects (operators) | `web_reader.py` |
| `ModelGateway` | the results one structured model call can have (operators) | `llm/adapters.py` |
| `EvidenceExtraction` | the calls for one page and their token sizes (operators) | `evidence_extractor.py` |
| `PageReading` | the reading half of an attempt: batch, triage, extraction, cache, record | `research_loop.py`, `parallel_reads.py`, `extraction_cache.py`, `research_tools.py` |
| `PageReadingProofs` | its inductive invariant and theorems | |
| `ProviderProfiles` | profiles and credential versions under overlapping requests | `services/` and `infrastructure/db/provider_profiles.py` |
| `RunService` | run creation and the credential a run is pinned to, over `ProviderProfiles` | `run_providers.py`, `research_runs.py` |
| `RunProofs` | inductive invariants and theorems of `RunLifecycle` and `RunService` | |
| `EventDelivery` | abstract: a log delivered in order, once, without a gap | what the event endpoint promises |
| `EventStream` | the log's reads, the stream and a client that reconnects | `api/v1/research_runs.py`, `research_runs.py` |
| `Listings` | lists made of sets: in an order, part of a list, without repetitions (operators) | the sorts and loops of `report_writer.py`, `reports.py`, `context/ranker.py` |
| `ContextBudget` | token budget and selection of a prompt (operators) | `context/` |
| `ReportAssembly` | selection, rendering, citations and verification (operators) | `report_writer.py`, `report_verifier.py` |
| `ReportWriting` | the writing phase and the commit that ends the run, over `EventStream` | `report_writer.py`, `reports.py` |
| `ReportWritingProofs` | its inductive invariant, theorems, and the refinement of `EventDelivery` | |
| `MCSearchAcquisition`, `MCQuestionScheduler`, `MCGapFeedback`, `MCPageReading`, `MCRunService`, `MCReportWriting` | the same, with their inputs and symmetries, for TLC | |

`ReportWriting` composes `EventStream`, `ReportAssembly`, `ContextBudget` and
`ModelGateway` (the first two over `Listings`); `PageReading` composes `WebReader`, `EvidenceExtraction` and
`ModelGateway`; `RunService` extends `ProviderProfiles`; `GapFeedback` joins
`EvidenceGraph` and `ClosureRules`; `SearchAcquisition` extends `ProviderRouting`.

`RunProofs` and `ResearchStateProofs` hold the proofs of two components each, one after
the other. The components of a pair have no variable in common and their theorems do not
mix: the second ones' specifications are named `ServiceSpec` and `SchedulerSpec`.

### RunLifecycle

Every repository method is one transaction on the locked row, hence one action.
What the code does in several transactions stays apart: claim, send and mark of a
dispatch; receive, acquire and each later commit of an execution.

- `run` is the row. `lease` is `none`, `live` or `expired`; time is the action
  `ExpireLease`. `version` is `state_version`; it names each dispatch
  (`<run>:<kind>:<version>`), which is also the Celery task id and, after
  acquisition, the `worker_task_id` that fences commits (`Owns`).
- `outbox`, `queue`, `sends`: the outbox row, the copies in the broker and how
  often a dispatch entered it. `ripe` stands for a due `next_attempt_at`, or a
  claim older than 30 seconds.
- `worker[w].pc` is the graph node the worker is in; `target` is a research
  attempt, whose inside is `PageBudget`.
- `epoch`, `setupFails` and `sends` are history for the properties.
- The pure choice of a question, quality or a stop reason is nondeterministic:
  `prepare_target` may schedule, request a replan, retire a question or enter
  writing, under the guards that the limits impose.

### PageBudget

`usage` is the part of `usage_snapshot` that the limits read, `owners` is
`page_slots_reserved_by_worker`, and `exec` is the execution that owns the run
together with the local variables of `_research_target` (`granted`, `settled`,
`limit`, `read`, and the results still ahead). `CutOff` (a crash, or the refusal of
the next call after a pause, cancel or takeover) and `Raise` may happen between any
two repository calls; the two releases of `cleanup_attempt` are one action, since a
cut between them leaves nothing that a cut before them would not leave.
`lost` remembers what was reserved when an execution ended. Which pages are
mirrors, fail or are rejected is nondeterministic, as far as earlier steps make it
possible (a page is "already processed" or read from a snapshot only after an
extraction; results are reused only after a search that found some).

### ModelBudgetLedger

`rows` is the table `model_budget_reservations`, one row per attempt; `usage` holds
the counters that `_model_tokens` adds up; `exec` is where each execution stands in
`PlannerService.generate`, `_research_target` or `ReportWriterService.write`. Two
executions may share a task id (a duplicate delivery), so both pass the ownership
check. `bill` is a ghost, the provider's side of an attempt: the tokens its answers
reported, and whether any call was made and answered with a usage.

One reservation may pay for several calls. An extraction makes up to three: the first, a
compact one after a failed first, a repair or a rescue at the end (`RetryExtraction`), each
sized to what the *reported* usage of the earlier ones leaves of the reservation
(`CallCap`) and never below `MinRetry`; a cached extraction makes none and is settled with
zero. The planner has its compact call and the writer the gateway's regeneration
(`Regenerate`), both sized as if the first had not been made. `CallModel` is external: it
may answer, answer unusably or fail. An answer reports at most the limit of its request
(that a provider counts as estimated is an assumption), or nothing if the provider leaves
the usage out; what a call without usage cost, nobody learns. `Lose` is the end of an
execution at any step; `Lapse` is a reservation's lease running out, after which the row no
longer holds run or pool tokens and may still be settled. The states of recovery borrowing
are abstracted to what `decide_question_borrow` reads of them: eligibility, the recovery
exception, and whether the gap is worth it.

A row that lapsed is lent out again by run and pool but still counts for its question
(`QuestionSpend`), as in the code. A settled planner or writer row may charge more than it
reserved: `ReservesProtected` and `PoolsWithinLimits` are stated up to the `Excess` of these
two nodes (`Repeaters`) and to what lapsed rows gave back, and show that an extraction's
further calls never pass its reservation. `ReportedTokensCharged` says what is charged: a
settled row has exactly the tokens its answers reported, an open or uncertain one covers
them (twice, for a repeater), and a row given back had no call, but for the planner's.

### StateRuntime

A repository method is one action, and so is a `synchronize`; between the two
anything may happen. `row` keeps the columns that the projection reads. Its
`over` is the set of limits that the counters have passed: the amounts are the
matter of `PageBudget`, which shows that pages and searches pass theirs and that a
spent search budget hides the iteration limit, and of the providers, whose usage is
known only after a call (so the validator's own comment). `snapshot` is the public state; `Patched` is
`apply_patch` of the projection, `Refusal` the budget checks of
`validate_state_invariants`. Versions are left out: the base version of a patch is
read under the lock that the patch is applied under. `exec` is the place of an
execution in the graph or in the worker's handlers, `client` a request of the user
between its commit and its synchronize. `entered` and `lostSync` are history.
The choice of the next node after an iteration is nondeterministic; the writer
node gives up unless the row is in writing, as in the code.

### SearchAcquisition

`health` and `usage` are columns of `usage_snapshot`; `last` and `circuit` belong to
the SearXNG object, which outlives its searches and which Bing shares. `search` holds
the local variables of the strategy loop. One step is one answer of an engine group;
the hedge is asked together with a slow first group, and the pair may answer in
either order or not at all. A page of results is the number of candidates it adds.
A provider's record is chosen, used and updated in three steps, and its cooldown may
end between any two of them. The run's deadline may cut a search off at any of its steps
(`DeadlinePasses`), also with a request under way: the attempt ends in `over` without a
charge or a record, and research with it. `sent` and `asked` are history.

### QuestionScheduler

`prepare_target` is one action with the code's order of lanes: a pending feedback
query, then first passes, then what the quality snapshot says. A utility is a float;
the model keeps the lane it sorts into, and any question of the best lane may win.
Evidence is the number of owners a dimension has. `Attempt` records what the search
yielded (`Findings`), with failures, crashes and cached passes; `Evaluate` is
`finish_iteration` with its stop conditions in order; `Replan` resets what
`save_gap_resolution_plan` resets and keeps the rest. `calls` are the duplicate keys of the
search calls: a text from a plan is compared with the queries that succeeded, the text of
a feedback query (one of `Phrases` wordings for a dimension) with nothing, and one that
the question has used violates the unique index and fails the run (`FeedbackRepeats`).
`Restart` is a crash, a durable retry or a resume at any step, also while the report is
written: the graph begins again at research with the snapshot that ended it, and
`inherited` remembers that. Whether other limits (time, tokens) are spent is
nondeterministic. That a question may reuse another one's cached results is left out.

### EvidenceGraph, ClosureRules, GapFeedback

A claim is its dimension, whom it contradicts, and whether its type is risky; a quote
is its owner and score. `record_page` inserts, refreshes the relations of the claims
it touched, aligns and evaluates in one transaction, hence in one action. The
iteration's projection, the completeness pass, the dispatch, the consumption and the
finalizer are actions of their own; a crash forgets what only the process knew.
`ClosureRules` follows the chain from a requirement and a snapshot to feedback, need,
intent and an executable query; every rule is a case of the code. A row version only
tells states apart, so its jump to the run's version is one step, and the rows of a
replaced plan, which no code reads again, are forgotten.

### PageReading

`read` is where each `read_one` coroutine of the batch stands, `permits` who holds a
host permit and a global slot; `Work` is what the process does next, `Deadline` may come
at any time. After the batch the pages are taken one by one: processed already, triaged,
reserved, extracted (`ext`, a state machine of at most three requests with the code's
own token constants), stored and recorded. `LeastCall` is the part of
`estimate_minimum_request_tokens` that does not depend on the prompt (768 tokens of
output, 1000 of source, 15 percent): the loop extracts with no smaller budget, so the
model's budgets are at least that. `store` is durable, all else dies with the worker.
An exception of the HTML parser leaves the batch at once (`ReadEscapes`), and so does a
crash: the reads that were started and have no record yet move to the history `lost`. A page
whose extraction the transport cut off is recorded like any other and remembered in `cut`.
Content-hash mirrors are folded into the final URL; a budget may refuse at any time; a
call costs its limit or a third of it.

### RunService

The two halves of a management call (read and encrypt; lock and commit) are two
steps, so two sessions overlap in every way. A ciphertext is the adapter and the secret it
was made for; it decrypts under that adapter only. URLs and names are data. Creation
is a lookup, an insert that the unique constraint may refuse, and the binding of the
credential version; the run is executed and resumed while its profile is managed.

### ReportWriting

`write()` is cut at its awaits: load, cache lookup, reservation, model call, cache
write, commit. Another execution, a cancel, a pause or more research may happen
between any two. A draft is which evidence its paragraphs cite, in which order, with
which numbers the model wrote itself. A crash is an execution that takes no further
step. Every commit appends its events to the log of `EventStream`, whose follower is
part of the composition. Compression is left out, since the writer's policy allows it
for none of its candidates.

## Runs

| Run | Question | Bounds |
|---|---|---|
| `delivery` | does the task id fence, is no wake-up lost, do lease and status agree, do terminal runs stay? | 2 workers, 1 dispatcher, 1 fault, 2 user requests |
| `retries` | is the first plan generated once, are replans bounded, are expired leases never silently renewed; and does every queued or running run come to rest? | 2 workers, requeues, planner retries, one replan; fair specification, 1 fault |
| `page_slots` | are slots given back, are extraction limits kept, are the overruns of pages and searches bounded, does each reserved slot have an owner? | 3 executions, 2 scheduled targets and a feedback query, 3 results per attempt, 2 slots |
| `ledger` | are reserves and pools protected, questions capped, counters and table in agreement, reported tokens charged? | 2 executions, 3 attempts, 1 question, extraction calls of 2 tokens, up to 3 calls under one reservation |
| `state_sync` | does the public snapshot follow every stop, requeue and end; does inherited overrun stay harmless? | 2 executions, 1 request at a time, 3 limits |
| `search` | does a search stay within its allowance, ask an engine group again only after a failed hedge, run only a provider that may run, and charge what SearXNG sent unless it is cut off; does a disabled provider stay disabled but for routing stops; does an attempt end? | 3 providers, 2 engine groups, 7 searches of 9 requests, degraded at the second failure in a row, 1 restart; fair specification |
| `questions` | does a question freeze only after all its families, does a met gate end research in the execution that meets it, is nothing left untouched, is no answered query asked again; does every execution end? | 2 questions, 2 families, 4 actions, 1 replan, 2 feedback queries of 1 wording, 1 restart; fair specification |
| `gaps` | does a closed gap have its sources and stay closed, does a row never claim more than the facts, is every leftover explained once, is every contradiction disclosed? | 3 claims in 2 dimensions, 2 owners, 3 pages, 1 replan, 1 crash |
| `reading` | are hosts read politely, reads audited unless their execution ends, pages recorded and paid for once, pages cut off passed over, calls and tokens bounded; does an attempt end? | 5 URLs on 3 hosts with a redirect and a redirect loop, 3 reads for 2 slots, 2 attempts, 1 crash; fair specification |
| `service` | has each profile one key in force, do old secrets stay gone, is there one default, one run per key, and does a run keep its credential? | 2 profiles, 2 adapters, 2 overlapping requests, 2 creates, 3 versions |
| `report` | is there one report exactly with completion, verified, complete, drafted from its own evidence, paid for; does the prompt fit; is delivery to a follower gap-free? | 2 executions, 2 questions, 3 cards of which 2 fit, 3 drafts, 3 windows, 5 events, 1 drop |
| `duplicates` | *violated*: a revoked execution is a no-op | 2 copies of one dispatch |

Some runs check related invariants under one name, the conjunction of its parts;
the sections above discuss the parts:

- `SearchSound` (`SearchAcquisition`): `TypeOK`, `RequestsWithinAllowance`, `RepeatsOnlyAfterFailedHedge`, `ExecutesOnlyUnblocked`, `WindowAgreesWithState`
- `StopsAreJustified` (`QuestionScheduler`): `SchedulerTypeOK`, `FrozenAfterEveryFamily`, `ReplanHasGap`, `GateMetEndsResearch`, `NothingLeftUntouched`
- `ChoicesAreFresh` (`QuestionScheduler`): `NoQueryReplayed`, `HardLimitSurvivesReplan`, `FirstPassFirst`
- `RowsTellTheFacts` (`GapFeedback`): `TypeOK`, `ClosedHasSources`, `RowsNeverOverstate`
- `LeftoversExplainedOnce` (`GapFeedback`): `NoSilentLeftover`, `BackfilledOnce`
- `ReadsControlled` (`PageReading`): `TypeOK`, `PoliteReads`, `ReadsAudited`
- `PagesPaidOnce` (`PageReading`): `RecordedOnce`, `CutOffPassedOver`, `CachedNeverPaidAgain`, `ReportedWithinReservation`, `CallsBounded`
- `CredentialsSound` (`RunService`): `ServiceTypeOK`, `OneKeyInForce`, `RotatedSecretNeverReturns`, `OneDefault`
- `RunsSound` (`RunService`): `OneRunPerKey`, `RunKeepsItsKey`
- `OutcomesRecorded` (`SearchAcquisition`): `SearXNGChargedOrCutOff`, `DisabledUntilRoutingStop`
- `ReportsSound` (`ReportWriting`): `PromptFitsWindow`, `StoredReportsVerify`, `AnsweredQuestionsAppear`
- `DraftsSound` (`ReportWriting`): `TypeOK`, `DraftFitsEvidence`, `SavedReportIsPaidFor`
- `LedgerSound` (`ModelBudgetLedger`): `ReservesProtected`, `PoolsWithinLimits`, `QuestionsWithinRecoveryCap`, `EvidenceLedgerAgrees`

The bounds are the smallest in which the cases of the hazards happen: two workers make
takeover and duplicate execution possible, one fault is any one of crash, stall,
ambiguous send or redelivery; three results against two slots make the loop go past its
reservation; three executions make a stale owner entry of one meet the reservation of
another under a reused task id; three attempts are a lapsed row, one that takes its
tokens and a third that meets both; two executions and a request are the fewest in which
a synchronize without owner comes after somebody else's commit. Extraction calls of two
tokens leave one after an answer that reports one, so that a retry under the same
reservation happens. Seven searches lead a provider through degradation, cooldown, probe
and disabling to a routing stop; two questions and two
families make a first pass, a second choice and a freeze differ; two feedback queries of one
wording may repeat each other; two owners and a
contradiction make a closed gap possible and contested; three hosts want three reads at
once where there are two slots, and a page of the batch has a second
link that redirects to it; three credential versions are a rotation and an adapter
change that overlap; one card more than the report takes makes selection matter, and
five events exceed one page of the log (two events) and end with the run. The page and
ledger runs switch deadlock checking off because a run really stops there when its
executions, targets or attempts are used up; the lifecycle, service, report, search,
question and reading runs do so because a finished run, a used-up bound of requests or
an ended or failed research is at rest. Each question of the `questions` run has one
required dimension; a met gate that is found while another gap asks for a target needs
two, and is covered by the theorem alone. A user may always send another request, so the state runs
check for deadlock.

### Fairness

`FairSpec` of `RunLifecycle` (the `retries` run) assumes weak fairness of the dispatcher's loop (`dispatch_forever`
restarts after every error), of each worker's steps (the process supervisor
restarts it; every external call has a timeout, so an execution always goes on), of
the reconciler (Celery beat, every 60 s), and of time (leases expire, delays pass).
Nothing is assumed of users, faults or heartbeats.

`FairSpec` of `SearchAcquisition`, `QuestionScheduler` and `PageReading` assumes weak
fairness of the execution's own next step (every external call has a timeout, so the
coroutine goes on) and of nothing else: not of time, crashes, or the deadline. With
`Restart` allowed while writing, `ResearchEnds` says that every execution, the last one
included, comes to writing or to a failed run.

### Refinement

The property `StreamImplementsDelivery` of the `report` run is the specification of
`EventDelivery`, instantiated in `EventStream` with `log` as the numbers published so
far and `delivered` as what the follower received. Reading the log by pages, checking
the status after it, dropped connections, and runs that finish or are resumed in between
are all stuttering or a delivery of the next event. `StreamDeliversTheLog` proves it for
every page size and number of events, step by step.

## Where code and documents disagree

The first is a run; the others were seen on small instances, or while reading, and
are recorded here for the maintainers.

Lifecycle and budgets:

1. **Duplicate deliveries share a fencing token** (run `duplicates`). Two copies of one
   dispatch carry the same task id. After pause and resume the second copy
   acquires the run, and the first, revoked execution passes `_locked_run` again.
   `FencingTokenUnique` shows that this is the only way: with one delivery per
   dispatch the token fences.
2. A task that dies before acquiring strands its run: the message is acknowledged, the
   outbox row is published, and only running rows are reconciled.
3. Pages are fetched without a slot: a mirror of a page already processed costs a
   fetch but does not count as read. `OverrunBounded` bounds the damage.
4. The first exhausted limit in `_budget_exhaustion_reason` wins; the search limits do
   not stop a run, so the action, token, iteration and time limits behind them are
   not seen any more, and `max_scheduler_actions` is passed by cached passes.
5. `release_model_reservation` says "Refund a reservation that never produced a billable
   provider call" (`research_tools.py:2116`); the planner refunds calls that were made: every
   gateway error that is not an output error releases, timeouts of a running call
   included. `ReportedTokensCharged` shows that extractions and the writer never do, and
   bounds what the planner can lose by the reservation.
6. The planner's compact retry is paid from the reservation of the first call
   (`planner.py:69,130-145`), and both calls together may pass the planner pool
   (`research_management.py:76`). Where a duplicate execution still plans while research
   goes on, that excess reaches the reserves for verification and report (seen with a pool of
   3, calls of 2 and one token for each of the others). In the quick tier
   a later attempt to plan has no money: the uncertain reservation is the whole pool.
   The writer's reservation is likewise passed when the gateway regenerates an answer it
   cannot read (`adapters.py:252-269`, `report_writer.py:375`), and a regeneration that
   fails leaves the row uncertain at a price below that of its two calls.
7. A spent budget fails the run: searches and pages may pass their limits, and the
   validator refuses such a state, so the run ends as `STATE_VALIDATION_FAILED` or
   `RESEARCH_BUDGET_EXHAUSTED` without a report; a cancel or pause of such a run
   answers with an error after it was carried out.
8. `question_token_pools` of the dashboard leaves out lapsed reservations that
   `question_spend` still counts.

Search, scheduling, gaps and reading:

9. A provider is "disabled for the remainder of the run" (`provider_health.py:28-31`). That
   is true of every provider but the primary: a routing stop, which has no provider, is
   charged to the primary (`research_tools.py:4306-4316`), and `record_failure` puts it back
   into cooldown, disabled or not. `DisabledUntilRoutingStop` shows that this is the
   only way. And a search that the run's deadline cuts off returns before
   `record_search_results` and `record_tool_failure` (`research_loop.py:651-680`): the
   requests it sent are neither charged nor recorded, and its tool call stays started.
   `SearXNGChargedOrCutOff` shows that this and a crash are the only ways to pay nothing,
   and `RequestsWithinAllowance` bounds what is lost.
10. `executed_query_families_by_question` marks a family although the counters it is read
    from are those of an earlier search; `bing_only_search` counts a request
    that a non-local SearXNG host keeps from being sent.
11. A cache-only pass records its query as succeeded, so a question can be reported as
    exhausted although a family was never asked.
12. The incremental relation refresh looks only at conflicts of the best evidence; when the
    best evidence moves, older conflict rows stay open that a full refresh would
    dismiss.
13. A feedback query waits in the event log and is still consumed after its gap was closed;
    feedback that was consumed before a crash is lost; two evaluations may give one
    feedback id; backfilled feedback `insufficient_evidence` of an independent-source gap
    never leads to a query. Its text is compared with no earlier query
    (`research_tools.py:3401-3473`), while `uq_research_tool_call_dedupe`
    (`research_models.py:93-102`) allows a text once per run, tool and question: a text that
    repeats raises `IntegrityError`, which no caller handles, and the run fails.
14. After a transport error of an extraction the loop is to "let the Worker schedule a
    durable model retry. Resume can reuse the Artifact without another webpage request"
    (`research_loop.py:1386-1389`). But the page has been recorded as processed for
    its question, so the retry skips it there; only another question extracts it, from
    the snapshot. `CutOffPassedOver` states what the code does.
15. `parallel_reads.py` promises "auditable outcomes for every HTTP read that was started"
    (61) and that a page failure "is isolated and never cancels sibling fetches" (4-5). An exception of the HTML parser leaves its `asyncio.gather`: that read and
    its siblings, finished or not, get no record, and the run fails. `ReadsAudited` shows
    that a read loses its record in no other way but with a crashed worker. In an
    extraction, a retry that does report usage drops the unknown usage of the call before it
    (`evidence_extractor.py:383`), and the settled row charges nothing for that call:
    `ReportedTokensCharged` is about reported tokens for this reason. An extraction slot
    reserved by an execution that crashed stays reserved.
16. A crash, a durable retry or a resume while the report is written begins again at the
    research node (`research_graph.py:204-231`), where `prepare_target` looks at the quality
    gate only when no question is eligible and no feedback query waits
    (`research_tools.py:2786-2816`): although the gate is met, research may go on until the
    next evaluation. `GateMetEndsResearch` shows
    that no other execution goes on.

Service, stream and report:

17. `rotate` does not say which credential it expects: a rotation that overlaps an
    adapter change stores a key that was encrypted for the old adapter, and runs of the
    profile fail with `CREDENTIAL_AUTHENTICATION_FAILED`. An adapter change without a
    base URL writes back the URL it read before the lock. A create that loses the race
    for its idempotency key gets an error and must be repeated; the web page makes
    a new key for each click.
18. The web page reads status and events in parallel and stops at a stopped status, so
    it may never show the last events, or those beyond the first 200.
19. The writer passes its payload as a content part of kind `json`, which
    `_content_text` drops. A cached draft that no budget is left for is reported with
    a fallback reason. `RunCredentialUnavailable` escapes `write()` with the
    reservation still held. A report is stored as `verified` whatever the verifier said;
    `StoredReportsVerify` shows that every assembled report passes.
20. `interrupt_for_pending_planner`, `save_replanned_questions`, `recovery_probe`, the
    full refresh of relations and `gap_backfill` have no caller in the runtime.

## Proofs

All theorems hold for every value of the constants that satisfies the assumptions of
its module, which TLC evaluates on the runs:

| Module | Assumptions |
|---|---|
| `RunLifecycle`, `PageBudget` | `BoundsAssumption`, `LimitsAssumption`: natural limits |
| `ModelBudgetLedger` | `PoolAssumption`: planner, research and writer have a pool each, and the pools add up to the token limit (`allocate_budget_shares`); `CallAssumption`: planner and extraction calls ask for at least one token, the least retry is natural; `NamesAssumption`: finitely many attempts |
| `StateRuntime` | `LimitsAssumption`: the limits are the four the validator knows |
| `ProviderRouting`, `SearchAcquisition` | `RoutingAssumption`, `SearchAssumption`: thresholds are positive, bounds natural |
| `WebReader`, `PageReading` | `WebAssumption`: every URL has a location; `ReadingAssumption`: limits are natural, there is a question, no call budget is below `LeastCall` |
| `QuestionScheduler` | `SchedulerAssumption`: every question has its own, finitely many dimensions, at least one; `feedback` is no family of a plan and has at least one wording; bounds are natural |
| `EvidenceGraph`, `GapFeedback` | `GraphAssumption`: a claim belongs to a dimension, a contradiction is between two claims; `GapAssumption`: finitely many dimensions, natural bounds |
| `EventStream` | `StreamBounds`: a page of the log has room for an event |
| `ReportAssembly`, `ReportWriting` | `AssemblyConstants`: finitely many cards, each for a question of the plan and with a place of its own in the load order; a plan has no more questions than the writer takes cards (12, `domain/planning.py:11,38`, against 20, `_MAX_WRITER_EVIDENCE`). `WriterConstants`: saving appends an event, research finds evidence that exists, windows and tokens are natural, drafts are any values of the type `ReportDraft` |
| `ProviderProfiles` | `ProfileBounds`: a natural bound |

`RunProofs`, for the lifecycle: `Invariance` proves the inductive invariant
`TypeOK /\ KeysBelowVersion /\ LeaseIffRunning /\ SingleCopy /\ FencingTokenUnique /\
WakeupPending /\ PlannerFresh /\ PlanGeneratedOnce /\ ReplanAllowed /\ ReplansBounded`.
The properties alone are not inductive. Fencing needs that new keys are fresh
(`KeysBelowVersion`) and that a dispatch that entered the broker once is in one
place only (`SingleCopy`). No wake-up is lost because the dispatch whose message is
gone is always covered by another (`WakeupPending`). One first plan needs that an
owner in the planning node still sees the row it read (`PlannerFresh`), and bounded
replans that the decision, wherever it is stored, was allowed (`ReplanAllowed`).
From it follow `TypeCorrect`, `Fencing`, `NoWakeupIsLost`, `LeaseAgreesWithStatus`,
`FirstPlanOnce`, `ReplanLimit` and the action properties `TerminalRunsStay` and
`RevivalsAreVersioned`.

`PageBudgetProofs`: `PageInvariance` proves
`TypeOK /\ ResultsCounted /\ OverrunCovered /\ SlotHeld /\ AttemptOwnsUnused /\
ExtractionWithinBudget`. The overrun bound is carried by charging the results not
looked at yet when the attempt starts (`OverrunCovered`); giving slots back rests on
the attempt owning what it has not used (`AttemptOwnsUnused`), whatever other
entries the map holds. `SearchLimit` uses a second invariant, `SearchesCounted`:
every search past the budget is a feedback query that was taken up. `SlotsAreOwned`
uses a third, `OwnersCounted` (the owner map is finite and its entries add up to the
reserved slots): a settle or release takes from the worker's entry no more than it
holds, and the same number from the counter, floored at zero.

`ModelBudgetLedgerProofs`: `LedgerTyped` and `ReportsAreCharged` follow from an invariant
that ties each place in a service to the row it works on: before the first call the row is
reserved and has no bill; while calls go on, what the execution remembers as used is what
the answers of its row reported, within the reservation for an extraction and within twice
that for a repeater; after it the row is settled with that or covers it. No two executions
work on one row, and only settled rows carry an actual total. Without it a release could
be applied to a row whose call was made. `LedgerStaysSound` adds `LimitsInv`. Its sums
leave out what lapsed rows gave back and what the second calls of planner and writer cost
on top (`SolidSum`), for these stay below the limits in every step: a reservation enters
after the check, and a settled extraction costs at most what was reserved, however many
calls it made. The limits of the properties follow by adding both again.

Sums over a map or a table are `SumFunctionOnSet` of the community modules, a fold.
Both modules prove what they use of it: that the fold exists and is unique on a
finite set, that any element may be taken out first, and from this how a sum follows a
change of one row. The induction is over the cardinality and rests on the well-founded
order of the natural numbers (`NatLeast`), since the induction theorems of the library
take an operator as a parameter.

`ResearchStateProofs`, for the snapshot: `TypeOK /\ GuardHolds /\ OverrunIsGuarded /\
SettledIsProjected` is inductive. `GuardHolds` (an execution that found the tokens
spent runs under the guard) is what makes the validator's answer about tokens
impossible for it. `SnapshotFollows` rests on `PatchIsIdempotent`: a patch applied
twice is applied once, so that it does not matter whose synchronize comes last.

`ResearchStateProofs`, for the scheduler: `SchedulerInvariant` proves `SchedulerInv`, that
is the types and the parts without which the marks of a crash or a replan cannot be
trusted. A replan request survives a crash, and until the replan node has run
`prepare_target` finds what it found when it wrote the request (`ReplanRequest`); the plan
version counts the replans (`ReplanReady`), which makes the queries of a new plan new; a
question that awaits its first pass has no mark of an older plan (`PendingIsFree`); a
query in hand has a tool call of its own and no results yet (`QueriesFresh`), since a plan's
text is compared with those that have results, and a feedback text that has a call does not
become one in hand. `StopsJustified` follows from the invariant, and the
action property `ChoicesFresh` from the invariant and the step.

`GapFeedbackProofs`: `GapInv` has a part per table. `GraphSound`: conflicts name evidence
rows, none is open and dismissed, every contradiction among accepted evidence is open and
its claims disputed. `RowsSound`: a stored requirement counts no more evidence and owners
than there are, and a closed one has its two owners. `BoxSound` and `OncePerGap`: what was
dispatched was told of, and by the completeness pass once per gap. That a refresh looks
only at the claims a page touched is the hard step: the proof shows what one conflict row
does to the others. It gives `RowsTruthful`, `LeftoversExplained`,
`ContradictionsDisclosed` and the action property `ClosedForGood`. The passes over
requirements and feedback are recursive functions; what they keep is shown by induction
over the number of items done.

`SearchAcquisitionProofs`: the invariant is
`HealthInv /\ UsageInv /\ TargetInv /\ CountersInv /\ AskedInv`. That an engine group is
not asked twice is seen from the groups behind the loop's index and those a hedge took
(`AskedInv`); that a provider may run needs that nothing between choice and outcome
changes its record (`TargetInv`). Charging needs that the shared counters are those of
the search under way (`CountersInv`), a routing stop included, which leaves them zero, and that
only the deadline ends an attempt without them.
`SearchStaysSound` and the action properties `OutcomesAreRecorded` follow.

`PageReadingProofs`: the invariant has one part for each kind of state. `PermitsInv`
says who holds which permit, so that a read that ends, escapes or is cancelled frees
what it held; `ReadsInv` and `AuditInv` that reads belong to the batch and a read
without a record is either ahead of the recorder or lost with its execution; `PageInv` and
`HistoryInv` that what is recorded, cut off or not, is processed, and that the page
in hand is new to its question and not cached; `ExtractionInv` that reported tokens and
the cap of the next call add up to the reservation. The last is arithmetic on the
code's own constants and needs `LeastCall`: below it the least output a call asks for can
exceed the reservation. `ReadsStayControlled` and `PagesArePaidOnce` follow.

`RunProofs`, for the service: secrets are numbered in commit order, an active
row is the latest of its profile, and a profile's status decides whether it has one; a
commit that was encrypted from an old read therefore still appends a newer row
(`CredentialsStaySound`). The runs need that a key has one row however often its answer
is lost, and that a binding stays as the table of credentials grows (`RunsStaySound`).

`ReportWritingProofs`: the follower's receptions are the log up to its cursor
(`StreamInv`); with it every step of the composition is a step of `EventDelivery` or
leaves its variables alone (`StreamDeliversTheLog`). An execution that lost its run
cannot commit, so reports are empty or one (`ReportsInv`, `CompletedWithReport`), and
evidence does not move under the owner between load and commit (`SelectionCurrent`,
`DraftsStaySound`). `ReportsStaySound` adds what the operators compute for every input.
`SelectSound`: each question with evidence has a card among those selected, which needs
that a plan has no more questions than the writer takes cards. `AssembleSound`: lines cite
at least one selected card and no number of the model's own, the template fills in where a
draft gives a question nothing, and the registry has all cards of all lines, so that the
citation check passes. `SelectionFits`: the best candidate is one that is left, and what
is taken never passes the budget, which `BudgetLeavesRoom` shows to leave room for the
reply and the margin. Lists are built from sets (`Listings`), so that what they hold
follows from counting (`ListedAll`); that recursive functions exist and keep what their
steps keep are `ChainExists` and `ChainTyped`.

Every invariant and every action property of the runs is the statement of a theorem, with
the exceptions below. The parts of the inductive invariants were checked with TLC on the
instances of the runs before they were proved.

Only model-checked:

- `Settles`, `ResearchEnds` and both `AttemptEnds`: liveness is out of the prover's reach.
- `RevokedExecutionIsNoOp`, which is violated.

Induction is done by hand. The library's induction theorems take an operator as a
parameter, which the provers cannot instantiate; the modules state induction for a set of
numbers instead (`NatInduct`, from `NatLeast`, from the well-founded order of the natural
numbers).

## Not modelled

- Texts, prompts, parsing and ranking; wording of plans, queries and reports.
- LangGraph's checkpoints (each node re-reads the row); deletion of runs and the read
  models; the backoff times themselves.
- Recovery execution traces, retrieval projections: records recomputed from events.
- The memory manager: candidate, active, superseded and expired memories. Its
  `capture_state` has no lease check and its "forget" decision needs an importance
  below 0.35 that no memory has.
- Controlled tools, the command line tools and the web interface: clients that keep
  no state the server relies on.
- Evaluation, benchmarks and the analysis scripts (some 8000 lines): offline
  measurement of finished runs.
- In what is modelled: reuse of another question's cached results, serial reads
  (fetch and record are one step), prompt compression, capability tests and URL
  policy of providers. Deadlines are nondeterministic.

## Plan

Done: every module above, with proofs of all its safety properties. What is worth doing
next, in this order:

1. `RunContract`, what a user is promised of a run, refined by `RunLifecycle`.
2. `MemoryLifecycle`, the states of a memory and the captures that race its edits.
3. The parts of the budget rules that `ModelBudgetLedger` abstracts to a choice
   (`research_budget.py`).
