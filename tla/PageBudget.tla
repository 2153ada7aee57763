----------------------------- MODULE PageBudget -----------------------------
(***************************************************************************)
(* The page and extraction budgets of one research run: the counters and   *)
(* reservations that ResearchToolRepository keeps in usage_snapshot, and   *)
(* the research attempt (ResearchLoop._research_target) that reserves,     *)
(* settles and releases them.                                              *)
(*                                                                         *)
(* Every repository call is one transaction on the locked run row.         *)
(* Between two calls the attempt may raise, and the execution may be cut   *)
(* off: the process dies, or the run is paused, cancelled or taken over,   *)
(* after which its calls are refused.  One execution owns the run at a     *)
(* time; RunLifecycle is about that.                                       *)
(***************************************************************************)
EXTENDS Integers, Functions

CONSTANTS
  MaxPages,         \* max_pages_fetched
  MaxFetchAttempts, \* max_page_fetch_attempts
  MaxSearches,      \* max_searches and max_logical_queries (equal in every tier)
  MaxExtracted,     \* max_pages_extracted
  MaxCalls,         \* max_extraction_calls
  MaxActions,       \* max_scheduler_actions
  MaxFeedback,      \* feedback queries a run may start
  MaxPageAttempts,  \* _MAX_PAGE_ATTEMPTS
  MaxPagesRead,     \* _MAX_PAGES_READ
  MaxExecutions,    \* bound: acquisitions of the run
  MaxTargets        \* bound: targets prepared

ASSUME LimitsAssumption ==
  /\ MaxPages \in Nat \ {0} /\ MaxFetchAttempts \in Nat \ {0}
  /\ MaxSearches \in Nat \ {0} /\ MaxActions \in Nat \ {0} /\ MaxFeedback \in Nat
  /\ MaxExtracted \in Nat \ {0} /\ MaxCalls \in Nat \ {0}
  /\ MaxPageAttempts \in Nat \ {0} /\ MaxPagesRead \in Nat \ {0}
  /\ MaxExecutions \in Nat /\ MaxTargets \in Nat

VARIABLES
  usage,      \* the counters of usage_snapshot
  owners,     \* page_slots_reserved_by_worker: task id -> slots, no zero entries
  exec,       \* the execution that owns the run, and its attempt
  executions, \* acquisitions so far
  lost        \* reservations left behind when an execution ended (history)

vars == <<usage, owners, exec, executions, lost>>

-----------------------------------------------------------------------------
(* Types *)

(* found: the searches with results; the rows they leave are what a later   *)
(* attempt can reuse.  feedback, consumed: feedback queries started, and    *)
(* taken up as a target.                                                    *)
Usage == [actions: Nat, searches: Nat, found: Nat, fetched: Nat, attempts: Nat,
          reserved: Nat, extracted: Nat, calls: Nat, slots: Nat,
          feedback: Nat, consumed: Nat]

(* "off": nobody owns the run; "idle": between two attempts; "target": to   *)
(* search; "results": to reserve; "prefetch": the parallel reads; "loop":   *)
(* at the head of the loop over the results; "page": a page was read;       *)
(* "slot": an extraction slot is held; "exit", "failing": only the final    *)
(* release is left, before a return or a raise; "raised": an exception is   *)
(* on its way to the worker's failure handler.                              *)
Pcs == {"off", "idle", "target", "results", "prefetch", "loop", "page", "slot",
        "exit", "failing", "raised"}

(* left counts the results not looked at yet: the prefetched ones, others   *)
(* among the first limit that were not prefetched, and those behind them    *)
Execution == [pc: Pcs, key: Nat, fresh: BOOLEAN, granted: Nat, settled: Nat,
              limit: Nat, batch: Nat, prefetched: Nat, others: Nat, left: Nat,
              read: Nat]

NoAttempt(pc, key) ==
  [pc |-> pc, key |-> key, fresh |-> FALSE, granted |-> 0, settled |-> 0,
   limit |-> 0, batch |-> 0, prefetched |-> 0, others |-> 0, left |-> 0,
   read |-> 0]

TypeOK ==
  /\ usage \in Usage
  /\ DOMAIN owners \subseteq Nat
  /\ owners \in [DOMAIN owners -> Nat \ {0}]
  /\ exec \in Execution
  /\ executions \in Nat
  /\ lost \in [pages: Nat, slots: Nat]

Init ==
  /\ usage = [actions |-> 0, searches |-> 0, found |-> 0, fetched |-> 0,
              attempts |-> 0, reserved |-> 0, extracted |-> 0, calls |-> 0, slots |-> 0,
              feedback |-> 0, consumed |-> 0]
  /\ owners = [k \in {} |-> 0]
  /\ exec = NoAttempt("off", 0)
  /\ executions = 0
  /\ lost = [pages |-> 0, slots |-> 0]

-----------------------------------------------------------------------------
(* Reservations *)

AtMost(a, b) == IF a <= b THEN a ELSE b
Monus(a, b) == IF a >= b THEN a - b ELSE 0       \* max(0, a - b)

Owned == IF exec.key \in DOMAIN owners THEN owners[exec.key] ELSE 0
SetOwned(n) ==
  owners' = [k \in (DOMAIN owners \cup {exec.key}) \ (IF n = 0 THEN {exec.key} ELSE {})
               |-> IF k = exec.key THEN n ELSE owners[k]]

(* What reserve_page_slots grants: one slot stays back for every search     *)
(* that is still to come, unless the attempt only reuses results.           *)
Grant(requested) ==
  LET remaining == Monus(MaxPages, usage.fetched + usage.reserved)
      kept == IF exec.fresh THEN Monus(MaxSearches, usage.searches) ELSE 0
      tries == Monus(MaxFetchAttempts, usage.attempts + usage.reserved)
  IN  AtMost(requested, AtMost(Monus(remaining, kept), tries))

(* slots that one fetch takes from the reservation: the worker's own, or    *)
(* one of nobody's when the map is empty                                    *)
ToSettle == IF DOMAIN owners = {} THEN 1 ELSE AtMost(1, Owned)

(* Mutant: the counter is not floored at zero *)
Settle_NoFloor(counts) ==
  /\ IF DOMAIN owners = {} THEN UNCHANGED owners ELSE SetOwned(Owned - ToSettle)
  /\ usage' = [usage EXCEPT !.reserved = @ - ToSettle,
                            !.attempts = @ + counts.attempts,
                            !.fetched = @ + counts.fetched]

Settle(counts) ==
  /\ IF DOMAIN owners = {} THEN UNCHANGED owners ELSE SetOwned(Owned - ToSettle)
  /\ usage' = [usage EXCEPT !.reserved = Monus(@, ToSettle),
                            !.attempts = @ + counts.attempts,
                            !.fetched = @ + counts.fetched]

FetchOk == [attempts |-> 1, fetched |-> 1]
FetchFailed == [attempts |-> 1, fetched |-> 0]
Reuse == [attempts |-> 0, fetched |-> 0]

ToRelease(count) ==
  IF DOMAIN owners = {} THEN AtMost(count, usage.reserved) ELSE AtMost(count, Owned)

(* Mutant: release takes the slots off the counter, not off the owner *)
Release_OnlyOwner(count, slots) ==
  /\ IF DOMAIN owners = {} \/ count = 0 THEN UNCHANGED owners
                                        ELSE SetOwned(Owned - ToRelease(count))
  /\ usage' = [usage EXCEPT !.slots = slots]

(* release_page_slots, together with a change of extraction_slots_reserved *)
Release(count, slots) ==
  /\ IF DOMAIN owners = {} \/ count = 0 THEN UNCHANGED owners
                                        ELSE SetOwned(Owned - ToRelease(count))
  /\ usage' = [usage EXCEPT !.reserved = Monus(@, ToRelease(count)),
                            !.slots = slots]

Unused == Monus(exec.granted, exec.settled)

-----------------------------------------------------------------------------
(* Executions *)

(* acquire_for_execution: under a new task id, or under the one of an       *)
(* earlier execution whose message was delivered again                      *)
Acquire(key) ==
  /\ exec.pc = "off"
  /\ executions < MaxExecutions
  /\ key \in {exec.key, executions + 1} \ {0}
  /\ exec' = NoAttempt("idle", key)
  /\ executions' = executions + 1
  /\ UNCHANGED <<usage, owners, lost>>

(* the process dies, or a pause, cancel or takeover refuses its next call *)
CutOff ==
  /\ exec.pc # "off"
  /\ exec' = NoAttempt("off", exec.key)
  /\ lost' = [pages |-> usage.reserved, slots |-> usage.slots]
  /\ UNCHANGED <<usage, owners, executions>>

(* fail_execution and the two durable deferrals clear page_slots_reserved,  *)
(* neither the owner map nor the extraction slots                           *)
EndExecution ==
  /\ exec.pc = "raised"
  /\ exec' = NoAttempt("off", exec.key)
  /\ usage' = [usage EXCEPT !.reserved = 0]
  /\ lost' = [pages |-> 0, slots |-> usage.slots]
  /\ UNCHANGED <<owners, executions>>

(* an error outside the extraction: nothing is released on the way out *)
Raise ==
  /\ exec.pc \in {"idle", "target", "results", "prefetch", "loop", "page",
                   "exit", "failing"}
  /\ exec' = [exec EXCEPT !.pc = "raised"]
  /\ UNCHANGED <<usage, owners, executions, lost>>

-----------------------------------------------------------------------------
(* One attempt *)

(* The first exhausted limit decides.  An exhausted search or fetch-attempt *)
(* limit does not stop the run: its cached results are drained first.       *)
ExhaustionReason ==
  CASE usage.searches >= MaxSearches -> "search"
    [] usage.searches < MaxSearches /\ usage.fetched >= MaxPages -> "stop"
    [] usage.searches < MaxSearches /\ usage.fetched < MaxPages
       /\ usage.attempts >= MaxFetchAttempts -> "search"
    [] OTHER -> IF \/ usage.extracted >= MaxExtracted
                   \/ usage.calls >= MaxCalls
                   \/ usage.actions >= MaxActions
                THEN "stop" ELSE "none"

(* prepare_target charges an action; the target asks for a fresh search, or *)
(* for the results and pages that earlier searches left                     *)
PrepareTarget(fresh) ==
  /\ exec.pc = "idle"
  /\ usage.actions < MaxTargets
  /\ ExhaustionReason # "stop"
  /\ IF fresh THEN ExhaustionReason = "none" ELSE usage.found > 0
  /\ exec' = [exec EXCEPT !.pc = "target", !.fresh = fresh]
  /\ usage' = [usage EXCEPT !.actions = @ + 1]
  /\ UNCHANGED <<owners, executions, lost>>

(* A feedback query is taken up first, whatever it asks for: a fresh search *)
(* that no action is charged for and no search limit refuses.  (One whose   *)
(* question a replan dropped waits, and the normal targets go on.)          *)
PrepareFeedbackTarget ==
  /\ exec.pc = "idle"
  /\ ExhaustionReason # "stop"
  /\ usage.consumed < usage.feedback
  /\ exec' = [exec EXCEPT !.pc = "target", !.fresh = TRUE]
  /\ usage' = [usage EXCEPT !.consumed = @ + 1]
  /\ UNCHANGED <<owners, executions, lost>>

(* hits is 1 when the search found something, else 0 *)
CountSearch(hits) ==
  usage' = [usage EXCEPT !.searches = IF exec.fresh THEN @ + 1 ELSE @,
                         !.found = IF exec.fresh THEN @ + hits ELSE @]

RecordSearchResults(hits) ==
  /\ exec.pc = "target"
  /\ CountSearch(hits)
  /\ exec' = [exec EXCEPT !.pc = "results"]
  /\ UNCHANGED <<owners, executions, lost>>

RecordToolFailure ==
  /\ exec.pc = "target" /\ exec.fresh
  /\ CountSearch(0)
  /\ exec' = NoAttempt("idle", exec.key)
  /\ UNCHANGED <<owners, executions, lost>>

(* no tokens or no time before the search; no result or no slot after it *)
AbandonAttempt ==
  /\ exec.pc \in {"target", "results"}
  /\ exec' = NoAttempt("idle", exec.key)
  /\ UNCHANGED <<usage, owners, executions, lost>>

(* Mutant: at least one slot is granted *)
ReservePageSlots_AtLeastOne(requested, results, batch) ==
  LET granted == IF Grant(requested) = 0 THEN 1 ELSE Grant(requested)
      limit == AtMost(granted, requested)
  IN
  /\ exec.pc = "results" /\ usage.found > 0
  /\ batch <= AtMost(limit, results)
  /\ SetOwned(Owned + granted)
  /\ usage' = [usage EXCEPT !.reserved = @ + granted]
  /\ exec' = [exec EXCEPT !.pc = "prefetch", !.granted = granted,
                !.limit = limit, !.batch = batch, !.left = results,
                !.others = AtMost(limit, results) - batch]
  /\ UNCHANGED <<executions, lost>>

(* reserve_page_slots; the results to look at, and those read in parallel *)
ReservePageSlots(requested, results, batch) ==
  LET granted == Grant(requested)
      limit == AtMost(granted, requested)
  IN
  /\ exec.pc = "results" /\ usage.found > 0
  /\ granted > 0
  /\ batch <= AtMost(limit, results)
  /\ SetOwned(Owned + granted)
  /\ usage' = [usage EXCEPT !.reserved = @ + granted]
  /\ exec' = [exec EXCEPT !.pc = "prefetch", !.granted = granted,
                !.limit = limit, !.batch = batch, !.left = results,
                !.others = AtMost(limit, results) - batch]
  /\ UNCHANGED <<executions, lost>>

(* one parallel read is recorded, a success or a failure *)
RecordPrefetch(ok) ==
  /\ exec.pc = "prefetch" /\ exec.batch > 0
  /\ Settle(IF ok THEN FetchOk ELSE FetchFailed)
  /\ exec' = [exec EXCEPT !.batch = @ - 1, !.settled = @ + 1,
                !.prefetched = IF ok THEN @ + 1 ELSE @,
                !.left = IF ok THEN @ ELSE @ - 1]
  /\ UNCHANGED <<executions, lost>>

EnterLoop ==
  /\ exec.pc = "prefetch" /\ exec.batch = 0
  /\ exec' = [exec EXCEPT !.pc = "loop"]
  /\ UNCHANGED <<usage, owners, executions, lost>>

MoreResults == exec.pc = "loop" /\ exec.left > 0 /\ exec.read < exec.limit

TakePrefetched ==
  /\ MoreResults /\ exec.prefetched > 0
  /\ exec' = [exec EXCEPT !.pc = "page", !.prefetched = @ - 1, !.left = @ - 1]
  /\ UNCHANGED <<usage, owners, executions, lost>>

(* the next result has to be read; the results behind the first ones are   *)
(* only reached when those are done                                        *)
NextUnread ==
  /\ MoreResults
  /\ exec.left > exec.prefetched
  /\ exec.prefetched = 0 \/ exec.others > 0

(* it is read from the web, or from the snapshot an earlier extraction     *)
(* left: the loop does not ask whether a reserved slot is left for it      *)
RecordPageFetched(counts) ==
  /\ NextUnread
  /\ counts = Reuse => usage.extracted > 0
  /\ Settle(counts)
  /\ exec' = [exec EXCEPT !.pc = "page", !.settled = @ + 1, !.left = @ - 1,
                          !.others = Monus(@, 1)]
  /\ UNCHANGED <<executions, lost>>

RecordPageFailure ==
  /\ NextUnread
  /\ Settle(FetchFailed)
  /\ exec' = [exec EXCEPT !.settled = @ + 1, !.left = @ - 1,
                          !.others = Monus(@, 1)]
  /\ UNCHANGED <<executions, lost>>

(* page_already_processed: the page was extracted before, and does not *)
(* count as read                                                       *)
SkipProcessedPage ==
  /\ exec.pc = "page" /\ usage.extracted > 0
  /\ exec' = [exec EXCEPT !.pc = "loop"]
  /\ UNCHANGED <<usage, owners, executions, lost>>

RejectInTriage ==
  /\ exec.pc = "page"
  /\ exec' = [exec EXCEPT !.pc = "loop", !.read = @ + 1]
  /\ UNCHANGED <<usage, owners, executions, lost>>

(* Mutant: the extractions in flight are not counted *)
ExtractionAllowed_IgnoresReserved ==
  /\ usage.extracted < MaxExtracted
  /\ usage.calls < MaxCalls

ExtractionAllowed ==
  /\ usage.extracted + usage.slots < MaxExtracted
  /\ usage.calls + usage.slots < MaxCalls

ReserveExtractionSlot ==
  /\ exec.pc = "page"
  /\ ExtractionAllowed
  /\ usage' = [usage EXCEPT !.slots = @ + 1]
  /\ exec' = [exec EXCEPT !.pc = "slot", !.read = @ + 1]
  /\ UNCHANGED <<owners, executions, lost>>

(* refused by the limits, or by the deadline *)
ExtractionRefused ==
  /\ exec.pc = "page"
  /\ exec' = [exec EXCEPT !.pc = "exit", !.read = @ + 1]
  /\ UNCHANGED <<usage, owners, executions, lost>>

(* deadline, or no tokens for the call: the slot goes back, the loop ends *)
ReleaseExtractionSlot ==
  /\ exec.pc = "slot"
  /\ usage' = [usage EXCEPT !.slots = Monus(@, 1)]
  /\ exec' = [exec EXCEPT !.pc = "exit"]
  /\ UNCHANGED <<owners, executions, lost>>

(* Mutant: the limit of feedback queries is not looked at *)
FeedbackStarted_Unlimited(more) == usage.feedback + more

(* the evidence of a page may open further queries; feedback_execution_     *)
(* allowed blocks those above the limit                                     *)
FeedbackStarted(more) == AtMost(usage.feedback + more, MaxFeedback)

(* Mutant: the extraction slot is not given back *)
RecordPage_KeepsSlot(cacheHit, next, more) ==
  /\ exec.pc = "slot"
  /\ usage' = [usage EXCEPT !.extracted = @ + 1,
                            !.calls = IF cacheHit THEN @ ELSE @ + 1,
                            !.feedback = FeedbackStarted(more)]
  /\ exec' = [exec EXCEPT !.pc = next]
  /\ UNCHANGED <<owners, executions, lost>>

(* record_page, or record_extraction_failure (never a cache hit): on to the *)
(* next result, out of the loop, or out and raise: a transport error, or a  *)
(* second invalid output in a row                                           *)
RecordPage(cacheHit, next, more) ==
  /\ exec.pc = "slot"
  /\ next = "failing" => ~cacheHit /\ more = 0
  /\ usage' = [usage EXCEPT !.extracted = @ + 1,
                            !.calls = IF cacheHit THEN @ ELSE @ + 1,
                            !.slots = Monus(@, 1),
                            !.feedback = FeedbackStarted(more)]
  /\ exec' = [exec EXCEPT !.pc = next]
  /\ UNCHANGED <<owners, executions, lost>>

(* cleanup_attempt: the set-up, the extraction or its recording failed *)
CleanupAttempt ==
  /\ exec.pc = "slot"
  /\ Release(exec.granted, Monus(usage.slots, 1))
  /\ exec' = [exec EXCEPT !.pc = "raised"]
  /\ UNCHANGED <<executions, lost>>

(* a model error outside _ISOLATED_EXTRACTION_ERRORS, or an error of the    *)
(* ledger or of the recording of a timed-out extraction: no clean-up        *)
RaiseModelError ==
  /\ exec.pc = "slot"
  /\ exec' = [exec EXCEPT !.pc = "raised"]
  /\ UNCHANGED <<usage, owners, executions, lost>>

(* the end of the loop, the deadline, or the way to a raise: what was not *)
(* used goes back                                                         *)
ReleasePageSlots ==
  /\ exec.pc \in {"loop", "exit", "failing"}
  /\ Release(Unused, usage.slots)
  /\ exec' = IF exec.pc = "failing" THEN [exec EXCEPT !.pc = "raised"]
                                    ELSE NoAttempt("idle", exec.key)
  /\ UNCHANGED <<executions, lost>>

-----------------------------------------------------------------------------
Next ==
  \/ \E key \in 1..MaxExecutions : Acquire(key)
  \/ CutOff \/ EndExecution \/ Raise
  \/ \E fresh \in BOOLEAN : PrepareTarget(fresh)
  \/ PrepareFeedbackTarget
  \/ \E hits \in 0..1 : RecordSearchResults(hits)
  \/ RecordToolFailure \/ AbandonAttempt
  \/ \E requested \in {1, MaxPagesRead}, results \in 0..MaxPageAttempts,
        batch \in 0..MaxPagesRead : ReservePageSlots(requested, results, batch)
  \/ \E ok \in BOOLEAN : RecordPrefetch(ok)
  \/ EnterLoop \/ TakePrefetched
  \/ \E counts \in {FetchOk, Reuse} : RecordPageFetched(counts)
  \/ RecordPageFailure
  \/ SkipProcessedPage \/ RejectInTriage
  \/ ReserveExtractionSlot \/ ExtractionRefused \/ ReleaseExtractionSlot
  \/ \E cacheHit \in BOOLEAN, next \in {"loop", "exit", "failing"},
        more \in 0..MaxFeedback : RecordPage(cacheHit, next, more)
  \/ CleanupAttempt \/ RaiseModelError
  \/ ReleasePageSlots

Spec == Init /\ [][Next]_vars

-----------------------------------------------------------------------------
(* Properties *)

(* Every way out of an attempt gives back what it reserved and did not use: *)
(* between two attempts no slot is reserved but the ones an earlier         *)
(* execution lost when it was cut off or raised.                            *)
SlotsGivenBack ==
  exec.pc \in {"off", "idle", "target", "results"} =>
    usage.reserved <= lost.pages /\ usage.slots <= lost.slots

(* Extractions never exceed their limits, the ones in flight included,      *)
(* whatever crashes between the reservation of a slot and its settlement.   *)
ExtractionWithinBudget ==
  /\ usage.extracted + usage.slots <= MaxExtracted
  /\ usage.calls + usage.slots <= MaxCalls

(* The page limits are overrun by less than one attempt: an attempt starts  *)
(* below them and looks at no more than _MAX_PAGE_ATTEMPTS results.         *)
OverrunBounded ==
  /\ usage.fetched < MaxPages + MaxPageAttempts
  /\ usage.attempts < MaxFetchAttempts + MaxPageAttempts

(* Feedback queries are searched past the search budget, and by no more     *)
(* than their own limit: a crash or a raise between taking a query up and   *)
(* counting its search never lets it be searched again.                     *)
SearchesBounded == usage.searches <= MaxSearches + MaxFeedback

(* Every reserved slot is accounted to a task id, so that "no owner" never  *)
(* lets one execution settle or release what another one reserved.          *)
ReservedSlotsHaveOwners ==
  usage.reserved <= SumFunction(owners)

=============================================================================
