------------------------------ MODULE PageReading ------------------------------
(***************************************************************************)
(* The reading half of a research attempt (services/research_loop.py):     *)
(* search results become pages through a concurrent batch under host and   *)
(* global permits (services/parallel_reads.py), then one by one they are   *)
(* checked against what the question has processed, triaged, paid for and  *)
(* extracted, and their evidence recorded (infrastructure/db/              *)
(* research_tools.py, extraction_cache.py).  Snapshots, processed sources  *)
(* and the extraction cache outlive an execution; everything else dies     *)
(* with the worker.  Page slots and the token ledger are PageBudget and    *)
(* ModelBudgetLedger; here a budget may refuse at any time.                *)
(***************************************************************************)
EXTENDS WebReader, EvidenceExtraction, SequencesExt

CONSTANTS
    Questions,
    HostOf,          \* [Urls -> hosts]
    ResultLists,     \* the ordered results an attempt may start from
    PageLimit,       \* pages one attempt may read: granted slots, at most _MAX_PAGES_READ
    MaxConcurrency,  \* global permits of a batch
    MaxSameHost,     \* permits per host
    MaxExtracted,    \* budget max_pages_extracted
    CallBudgets,     \* allowances evidence_model_budget may grant
    MaxAttempts,     \* bound: attempts of the run
    MaxCrashes       \* bound: executions a crash ends

(* No call is made for less than estimate_minimum_request_tokens: 768      *)
(* tokens of output, 1000 of source and a margin of 15 percent, before the *)
(* prompt is counted.                                                      *)
LeastCall == 2034

ASSUME ReadingAssumption ==
    /\ Questions # {} /\ ResultLists \subseteq Seq(Urls) /\ "none" \notin Urls
    /\ PageLimit \in Nat \ {0} /\ MaxConcurrency \in Nat \ {0} /\ MaxSameHost \in Nat \ {0}
    /\ MaxExtracted \in Nat /\ CallBudgets \subseteq Nat
    /\ \A max \in CallBudgets : max >= LeastCall
    /\ MaxAttempts \in Nat /\ MaxCrashes \in Nat

StructuredErrors ==
    {"EVIDENCE_OUTPUT_SCHEMA_INVALID", "MODEL_OUTPUT_INVALID", "MODEL_OUTPUT_TRUNCATED",
     "MODEL_RESPONSE_INVALID"}
IsolatedErrors == StructuredErrors \cup TransportErrors \cup {"MODEL_TOKEN_BUDGET_EXHAUSTED"}
StructuredFailureLimit == 2

VARIABLES
    pc,        \* where the attempt is
    att,       \* locals of the attempt
    read,      \* per URL of the batch: where its read_one coroutine is
    permits,   \* holders of host permits and global slots, and the slots' queue
    ext,       \* the extraction under way
    store,     \* durable: snapshots, processed sources, cache, extraction budget
    env,       \* run status, deadline, attempts and crashes so far
    hist       \* history: reads not yet recorded, reads that never will be, (question,
               \* page) pairs recorded, recorded again, cut off by the transport, and
               \* paid for although cached

vars == <<pc, att, read, permits, ext, store, env, hist>>

NoUrl == "none"
NoAttempt == [q |-> CHOOSE q \in Questions : TRUE, results |-> <<>>, batch |-> <<>>, reusable |-> {},
              index |-> 1, url |-> NoUrl, page |-> NoUrl, pagesRead |-> 0, accepted |-> FALSE,
              structured |-> 0, zero |-> 0]
Idle == [u \in Urls |-> "none"]
Free == [host |-> {}, slot |-> {}, queue |-> <<>>]
NoExtraction == Start(0)

Finished == {"page", "error", "deadline"}

TypeOK ==
    /\ pc \in {"idle", "reading", "recording", "loop", "extracting", "storing"}
    /\ att.q \in Questions /\ att.pagesRead \in 0..PageLimit
    /\ read \in [Urls -> {"none", "host", "global", "fetch"} \cup Finished]
    /\ permits.host \subseteq Urls /\ permits.slot \subseteq Urls /\ permits.queue \in Seq(Urls)
    /\ ext.phase \in Phases
    /\ store.snapshots \subseteq Pages /\ store.processed \in [Questions -> SUBSET Pages]
    /\ store.cache \subseteq Questions \X Pages
    /\ store.extracted \in Nat /\ store.reserved \in Nat
    /\ store.extracted + store.reserved <= MaxExtracted
    /\ env.run \in {"active", "failed"} /\ env.deadline \in BOOLEAN

Init ==
    /\ pc = "idle" /\ att = NoAttempt /\ read = Idle /\ permits = Free /\ ext = NoExtraction
    /\ store = [snapshots |-> {}, processed |-> [q \in Questions |-> {}], cache |-> {},
                extracted |-> 0, reserved |-> 0]
    /\ env = [run |-> "active", deadline |-> FALSE, attempts |-> 0, crashes |-> 0]
    /\ hist = [unaudited |-> {}, lost |-> {}, recorded |-> {}, again |-> {}, cut |-> {},
               repaid |-> {}]

--------------------------------------------------------------------------------
(* An attempt and its batch.                                               *)

(* Snapshots of other questions' pages that this question has not processed. *)
ReusablePages(q) == store.snapshots \ store.processed[q]
(* The first results, as many as may be read, without the reusable ones. *)
BatchUrls(results, reusable) ==
    LET kept[i \in 0..Len(results)] ==
          IF i = 0 THEN <<>>
          ELSE IF results[i] \in reusable THEN kept[i - 1]
          ELSE Append(kept[i - 1], results[i])
    IN kept[Least(PageLimit, Len(results))]

StartAttempt(q, results) ==
    LET reusable == ReusablePages(q)
        batch == BatchUrls(results, reusable)
    IN
    /\ pc = "idle" /\ env.run = "active" /\ ~env.deadline /\ env.attempts < MaxAttempts
    /\ att' = [NoAttempt EXCEPT !.q = q, !.results = results, !.batch = batch, !.reusable = reusable]
    /\ read' = [u \in Urls |-> IF u \in Range(batch) THEN "host" ELSE "none"]
    /\ pc' = IF batch = <<>> THEN "loop" ELSE "reading"
    /\ env' = [env EXCEPT !.attempts = @ + 1]
    /\ UNCHANGED <<permits, ext, store, hist>>

(* The coroutines queue for their host in the order of the batch. *)
HostWaiters(h) == SelectSeq(att.batch, LAMBDA u : read[u] = "host" /\ HostOf[u] = h)
HostHolders(h) == {u \in permits.host : HostOf[u] = h}

AcquireHost(u) ==
    /\ pc = "reading" /\ read[u] = "host"
    /\ Head(HostWaiters(HostOf[u])) = u
    /\ Cardinality(HostHolders(HostOf[u])) < MaxSameHost
    /\ permits' = [permits EXCEPT !.host = @ \cup {u}, !.queue = Append(@, u)]
    /\ read' = [read EXCEPT ![u] = "global"]
    /\ UNCHANGED <<pc, att, ext, store, env, hist>>
(* Mutant: a finished read keeps its host permit *)
Release_KeepsHost(u) == [permits EXCEPT !.slot = @ \ {u}]

Release(u) == [permits EXCEPT !.host = @ \ {u}, !.slot = @ \ {u}]

(* A read whose deadline has passed reports it without a request. *)
AcquireSlot(u) ==
    /\ pc = "reading" /\ read[u] = "global"
    /\ Head(permits.queue) = u
    /\ Cardinality(permits.slot) < MaxConcurrency
    /\ IF env.deadline
       THEN /\ permits' = [permits EXCEPT !.host = @ \ {u}, !.queue = Tail(@)]
            /\ read' = [read EXCEPT ![u] = "deadline"]
            /\ UNCHANGED hist
       ELSE /\ permits' = [permits EXCEPT !.slot = @ \cup {u}, !.queue = Tail(@)]
            /\ read' = [read EXCEPT ![u] = "fetch"]
            /\ hist' = [hist EXCEPT !.unaudited = @ \cup {u}]
    /\ UNCHANGED <<pc, att, ext, store, env>>

FinishRead(u) ==
    /\ pc = "reading" /\ read[u] = "fetch"
    /\ \E outcome \in (ReadOutcomes(u) \ {"escape"}) \cup (IF env.deadline THEN {"deadline"} ELSE {}) :
           read' = [read EXCEPT ![u] = outcome]
    /\ permits' = Release(u)
    /\ UNCHANGED <<pc, att, ext, store, env, hist>>

(* The run fails: no handler of the loop takes the exception.  Whatever    *)
(* the attempt had not committed is gone, the reads started among it.      *)
Abandon(newEnv, newStore) ==
    /\ pc' = "idle" /\ att' = NoAttempt /\ read' = Idle /\ permits' = Free /\ ext' = NoExtraction
    /\ env' = newEnv /\ store' = newStore
LoseReads(reads) == hist' = [hist EXCEPT !.unaudited = {}, !.lost = @ \cup reads]

(* An exception of the parser leaves asyncio.gather at once: the other     *)
(* reads of the batch, finished or not, get no record either.              *)
ReadEscapes(u) ==
    /\ pc = "reading" /\ read[u] = "fetch" /\ "escape" \in ReadOutcomes(u)
    /\ Abandon([env EXCEPT !.run = "failed"], store)
    /\ LoseReads(hist.unaudited)

GatherReturns ==
    /\ pc = "reading" /\ \A u \in Range(att.batch) : read[u] \in Finished
    /\ pc' = "recording" /\ att' = [att EXCEPT !.index = 1]
    /\ UNCHANGED <<read, permits, ext, store, env, hist>>
(* Mutant: the last outcome of a batch is not recorded *)
RecordOutcome_OffByOne ==
    LET u == att.batch[att.index] IN
    /\ pc = "recording"
    /\ hist' = IF att.index = Len(att.batch) THEN hist ELSE [hist EXCEPT !.unaudited = @ \ {u}]
    /\ IF att.index = Len(att.batch)
       THEN pc' = "loop" /\ att' = [att EXCEPT !.index = 1]
       ELSE att' = [att EXCEPT !.index = @ + 1] /\ UNCHANGED pc
    /\ UNCHANGED <<read, permits, ext, store, env>>

(* One transaction per outcome, in the order of the batch. *)
RecordOutcome ==
    LET u == att.batch[att.index] IN
    /\ pc = "recording"
    /\ hist' = [hist EXCEPT !.unaudited = @ \ {u}]
    /\ IF att.index = Len(att.batch)
       THEN pc' = "loop" /\ att' = [att EXCEPT !.index = 1]
       ELSE att' = [att EXCEPT !.index = @ + 1] /\ UNCHANGED pc
    /\ UNCHANGED <<read, permits, ext, store, env>>

--------------------------------------------------------------------------------
(* The serial loop over the results.                                       *)

EndAttempt ==
    /\ pc' = "idle" /\ att' = NoAttempt /\ read' = Idle /\ ext' = NoExtraction
    /\ UNCHANGED <<permits, env>>

LoopEnds ==
    /\ pc = "loop" /\ att.url = NoUrl
    /\ \/ att.index > Len(att.results)
       \/ att.pagesRead >= PageLimit
       \/ env.deadline
    /\ EndAttempt /\ UNCHANGED <<store, hist>>

InLoop == pc = "loop" /\ att.url = NoUrl /\ att.index <= Len(att.results)
          /\ att.pagesRead < PageLimit /\ ~env.deadline

NextResult(a) == [a EXCEPT !.index = @ + 1, !.url = NoUrl, !.page = NoUrl]
Taken(u, p) == [att EXCEPT !.url = u, !.page = p]

(* A stored snapshot is used when its artifact still has the stored hash. *)
TakeReusable ==
    LET u == att.results[att.index] IN
    /\ InLoop /\ u \in att.reusable
    /\ att' = Taken(u, u)
    /\ UNCHANGED <<pc, read, permits, ext, store, env, hist>>

TakePrefetched ==
    LET u == att.results[att.index] IN
    /\ InLoop /\ u \in Range(att.batch)
    /\ att' = IF read[u] = "page" THEN Taken(u, FinalUrl(u)) ELSE NextResult(att)
    /\ UNCHANGED <<pc, read, permits, ext, store, env, hist>>

(* Results past the batch, and snapshots whose artifact is gone, are read  *)
(* on the spot: the read and its record are one step of the loop.          *)
ReadSerially ==
    LET u == att.results[att.index] IN
    /\ InLoop /\ u \notin Range(att.batch)
    /\ \E outcome \in ReadOutcomes(u) :
          \/ /\ outcome = "page"  /\ att' = Taken(u, FinalUrl(u))
             /\ UNCHANGED <<pc, read, permits, ext, store, env, hist>>
          \/ /\ outcome = "error" /\ att' = NextResult(att)
             /\ UNCHANGED <<pc, read, permits, ext, store, env, hist>>
          \/ /\ outcome = "escape" /\ Abandon([env EXCEPT !.run = "failed"], store)
             /\ LoseReads({u})
(* page_already_processed compares final URL and content, not the link. *)
AlreadyProcessed(q, u, p) == p \in store.processed[q] \/ u \in store.processed[q]

SkipProcessed ==
    /\ pc = "loop" /\ att.url # NoUrl /\ AlreadyProcessed(att.q, att.url, att.page)
    /\ att' = NextResult(att)
    /\ UNCHANGED <<pc, read, permits, ext, store, env, hist>>

Fresh == pc = "loop" /\ att.url # NoUrl /\ ~AlreadyProcessed(att.q, att.url, att.page)

TriageRejects ==
    /\ Fresh
    /\ att' = [NextResult(att) EXCEPT !.pagesRead = @ + 1]
    /\ UNCHANGED <<pc, read, permits, ext, store, env, hist>>

(* No extraction slot, an expired deadline, or no tokens: the loop is left. *)
ExtractionRefused ==
    /\ Fresh
    /\ EndAttempt /\ UNCHANGED <<store, hist>>
ExtractionSlotFree == store.extracted + store.reserved < MaxExtracted

(* Mutant: the cache is never asked *)
BeginExtraction_NoCache ==
    /\ Fresh /\ ~env.deadline
    /\ ExtractionSlotFree
    /\ att' = [att EXCEPT !.pagesRead = @ + 1]
    /\ store' = [store EXCEPT !.reserved = @ + 1]
    /\ \E max \in CallBudgets : ext' = Start(max) /\ pc' = "extracting"
    /\ UNCHANGED <<read, permits, env, hist>>

(* The slot is taken, the artifact saved and the extraction announced; a   *)
(* cached extraction answers at once, for no tokens.                       *)
BeginExtraction ==
    /\ Fresh /\ ~env.deadline
    /\ ExtractionSlotFree
    /\ att' = [att EXCEPT !.pagesRead = @ + 1]
    /\ store' = [store EXCEPT !.reserved = @ + 1]
    /\ \E max \in CallBudgets :
          IF <<att.q, att.page>> \in store.cache
          THEN /\ ext' = [Start(max) EXCEPT !.phase = "scored", !.batch = "accepted", !.known = TRUE]
               /\ pc' = "storing"
          ELSE ext' = Start(max) /\ pc' = "extracting"
    /\ UNCHANGED <<read, permits, env, hist>>

--------------------------------------------------------------------------------
(* Extraction and its record.                                              *)

(* A call that stays in its cap costs some share of it. *)
Costs(cap) == {cap, cap \div 3}

ModelCall ==
    /\ pc = "extracting" /\ ext.phase \notin {"scored", "failed"}
    /\ \E r \in Answered, cost \in Costs(ext.cap) :
          \E valid, relevant \in BOOLEAN, batch \in Batches :
             ext' = AfterCall(ext, r, cost, valid, batch, relevant)
    /\ UNCHANGED <<pc, att, read, permits, store, env>>
    /\ hist' = [hist EXCEPT !.repaid =
                   @ \cup (IF <<att.q, att.page>> \in store.cache THEN {<<att.q, att.page>>} ELSE {})]

(* ExtractionCacheRepository.put: idempotent, and a transaction of its own. *)
CachePut ==
    /\ pc = "extracting" /\ ext.phase = "scored"
    /\ store' = [store EXCEPT !.cache = @ \cup (IF Cacheable(ext) THEN {<<att.q, att.page>>} ELSE {})]
    /\ pc' = "storing"
    /\ UNCHANGED <<att, read, permits, ext, env, hist>>

(* Both recorders keep the snapshot, count the extraction against its      *)
(* budget and mark the source as read for the question.                    *)
Recorded(q, p) ==
    [store EXCEPT !.snapshots = @ \cup {p}, !.processed[q] = @ \cup {p},
                  !.extracted = @ + 1, !.reserved = @ - 1]
MarkRecorded(q, p, cut) ==
    [hist EXCEPT !.recorded = @ \cup {<<q, p>>},
                 !.again = @ \cup (IF <<q, p>> \in hist.recorded THEN {<<q, p>>} ELSE {}),
                 !.cut = @ \cup (IF cut THEN {<<q, p>>} ELSE {})]

(* No candidate at all, or a second page in a row without accepted         *)
(* evidence, ends the attempt.                                             *)
RecordPage ==
    /\ pc = "storing" /\ ext.phase = "scored"
    /\ store' = Recorded(att.q, att.page)
    /\ hist' = MarkRecorded(att.q, att.page, FALSE)
    /\ IF ext.batch = "empty" \/ (ext.batch = "rejected" /\ att.zero + 1 >= 2)
       THEN EndAttempt
       ELSE /\ pc' = "loop" /\ ext' = NoExtraction
            /\ att' = [NextResult(att) EXCEPT !.structured = 0,
                           !.zero = IF ext.batch = "rejected" THEN @ + 1 ELSE 0,
                           !.accepted = @ \/ ext.batch = "accepted"]
            /\ UNCHANGED <<read, permits, env>>

FailureRecorded(cut) ==
    store' = Recorded(att.q, att.page) /\ hist' = MarkRecorded(att.q, att.page, cut)

(* A transport error raises for a durable model retry of the run, with the *)
(* page recorded as read for the question like any other; output errors    *)
(* are isolated until two sources in a row failed with nothing accepted,   *)
(* which fails the run.                                                    *)
RecordFailure ==
    LET code == ext.code
        structured == IF code \in StructuredErrors THEN att.structured + 1 ELSE 0
        open == code \in StructuredErrors /\ structured >= StructuredFailureLimit /\ ~att.accepted
    IN
    /\ pc = "extracting" /\ ext.phase = "failed" /\ code \in IsolatedErrors
    /\ FailureRecorded(code \in TransportErrors)
    /\ IF code \in TransportErrors THEN EndAttempt
       ELSE IF open
       THEN /\ pc' = "idle" /\ att' = NoAttempt /\ read' = Idle /\ ext' = NoExtraction
            /\ env' = [env EXCEPT !.run = "failed"] /\ UNCHANGED permits
       ELSE /\ pc' = "loop" /\ att' = [NextResult(att) EXCEPT !.structured = structured]
            /\ ext' = NoExtraction /\ UNCHANGED <<read, permits, env>>

(* Any other error fails the run; an unexpected one first gives the        *)
(* extraction slot back (cleanup_attempt).                                 *)
ExtractionEscapes ==
    /\ pc = "extracting" /\ ext.phase = "failed" /\ ext.code \notin IsolatedErrors
    /\ Abandon([env EXCEPT !.run = "failed"],
               IF ext.code = Escaped THEN [store EXCEPT !.reserved = @ - 1] ELSE store)
    /\ UNCHANGED hist

(* wait_for cancels extract at the deadline; the failure is recorded. *)
DeadlineCancels ==
    /\ pc = "extracting" /\ ext.phase # "failed" /\ env.deadline
    /\ FailureRecorded(FALSE)
    /\ EndAttempt

--------------------------------------------------------------------------------
(* The surroundings.                                                       *)

Expire ==
    /\ ~env.deadline /\ pc # "idle"
    /\ env' = [env EXCEPT !.deadline = TRUE]
    /\ UNCHANGED <<pc, att, read, permits, ext, store, hist>>

(* The worker dies.  The extraction slot it held stays reserved: lease     *)
(* reconciliation does not know extraction_slots_reserved.                 *)
Crash ==
    /\ pc # "idle" /\ env.crashes < MaxCrashes
    /\ Abandon([env EXCEPT !.crashes = @ + 1], store)
    /\ LoseReads(hist.unaudited)

Work ==
    \/ \E u \in Urls : AcquireHost(u) \/ AcquireSlot(u) \/ FinishRead(u) \/ ReadEscapes(u)
    \/ GatherReturns \/ RecordOutcome
    \/ LoopEnds \/ TakeReusable \/ TakePrefetched \/ ReadSerially
    \/ SkipProcessed \/ TriageRejects \/ ExtractionRefused \/ BeginExtraction
    \/ ModelCall \/ CachePut \/ RecordPage \/ RecordFailure \/ ExtractionEscapes \/ DeadlineCancels

Next ==
    \/ \E q \in Questions, results \in ResultLists : StartAttempt(q, results)
    \/ Work \/ Expire \/ Crash

Spec == Init /\ [][Next]_vars
FairSpec == Spec /\ WF_vars(Work)

--------------------------------------------------------------------------------
(* Properties.                                                             *)

(* "caps total in-flight fetches with a semaphore and caps simultaneous    *)
(* requests per host, so a slow host cannot saturate the pool": no host    *)
(* has more than MaxSameHost fetches or slots, and all together no more    *)
(* than MaxConcurrency.                                                    *)
PoliteReads ==
    LET fetching == {u \in Urls : read[u] = "fetch"} IN
    /\ Cardinality(fetching) <= MaxConcurrency
    /\ \A u \in Urls : Cardinality({v \in fetching \cup permits.slot : HostOf[v] = HostOf[u]}) <= MaxSameHost

(* "auditable outcomes for every HTTP read that was started", as far as it *)
(* goes: once the loop works on pages, every fetch of the batch has been   *)
(* recorded, and a read loses its record only with its execution, which    *)
(* died or was failed by an exception that left a read: a page failure the *)
(* reader does not turn into an error is neither "isolated" nor audited.   *)
ReadsAudited ==
    /\ pc \notin {"reading", "recording"} => hist.unaudited = {}
    /\ env.run = "active" /\ env.crashes = 0 => hist.lost = {}

(* The outcome of an extraction is recorded at most once for a question    *)
(* and page, under whichever link the page is found again and whatever     *)
(* crashed in between.                                                     *)
RecordedOnce == hist.again = {}

(* The price of that: a page whose extraction the transport cut off counts *)
(* as read, and no later execution extracts it for its question.  The loop *)
(* says that the run is retried by the worker and "Resume can reuse the    *)
(* Artifact without another webpage request": it can, but only for another *)
(* question.                                                               *)
CutOffPassedOver ==
    \A w \in hist.cut :
        /\ w[2] \in store.processed[w[1]]
        /\ pc \in {"extracting", "storing"} => w # <<att.q, att.page>>

(* An extraction whose accepted items reached the cache is never paid for  *)
(* again, even when the worker died before record_page.                    *)
CachedNeverPaidAgain == hist.repaid = {}

(* Each compact request is sized from what the reported usage leaves, so   *)
(* the usage that settles a reservation never exceeds it.                  *)
ReportedWithinReservation == ext.reported <= ext.max

(* Retry, repair and rescue do not stack up: at most three calls a page.   *)
CallsBounded == ext.calls <= 3

(* Every read of a batch gets its host permit, its slot and an outcome,    *)
(* and every attempt comes to an end.                                      *)
AttemptEnds == (pc # "idle") ~> (pc = "idle")

(* Concurrent reads keep their permits and every one of them leaves its       *)
(* record, deadline or not, unless its execution ends before the loop goes on *)
(* (read_page_attempts_concurrently).                                         *)
ReadsControlled == TypeOK /\ PoliteReads /\ ReadsAudited

(* A page is paid for once, and for no more than was reserved for it,         *)
(* through redirects, retries, crashes and restarts (extract, record_page).   *)
PagesPaidOnce ==
    /\ RecordedOnce /\ CutOffPassedOver /\ CachedNeverPaidAgain
    /\ ReportedWithinReservation /\ CallsBounded

================================================================================
