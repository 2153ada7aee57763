--------------------------- MODULE SearchAcquisition ---------------------------
(***************************************************************************)
(* One search attempt of the research loop: services/research_loop.py      *)
(* asks the repository which provider to use, runs that provider's adapter *)
(* (tools/web_search.py, brave_search.py, duckduckgo_search.py) and the    *)
(* repository records results or failure, the usage counters and the       *)
(* health of the provider (infrastructure/db/research_tools.py).           *)
(*                                                                         *)
(* The SearXNG object outlives its searches: its last_* counters and its   *)
(* circuits per engine group are state here, and Bing shares them.  Pages  *)
(* of results are reduced to how many candidates they add.                 *)
(***************************************************************************)
EXTENDS ProviderRouting

CONSTANTS
    Families,            \* query families of one question
    Strategies,          \* number of engine groups in _strategies_for_query
    Target,              \* results that end a search: min(limit, _TARGET_RESULTS_PER_QUERY)
    LocalSearXNG,        \* the SearXNG base URL names a local host
    QueryCap,            \* _MAX_PROVIDER_REQUESTS_PER_QUERY
    MaxProviderRequests, \* limit of usage["search_provider_requests"]
    MaxSearches,         \* bound: logical queries of the run
    MaxRestarts          \* bound: executions that a crash ends

ASSUME SearchAssumption ==
    /\ LocalSearXNG \in BOOLEAN
    /\ Strategies \in Nat \ {0} /\ Target \in Nat \ {0} /\ QueryCap \in Nat \ {0}
    /\ MaxProviderRequests \in Nat /\ MaxSearches \in Nat /\ MaxRestarts \in Nat

Standalone == {"Brave", "DuckDuckGo"}
Counters == [requests : Nat, healthy : Nat, productive : Nat]
ZeroCounters == [requests |-> 0, healthy |-> 0, productive |-> 0]

VARIABLES
    health,      \* usage_snapshot["provider_health"]
    usage,       \* searches, search_provider_requests, provider_retry_count
    executed,    \* executed_query_families_by_question of the question
    last,        \* the SearXNG object's last_* counters
    circuit,     \* engine groups whose circuit is open
    pc,          \* where the attempt is
    target,      \* the prepared query: family, feedback, allowance, provider
    search,      \* locals of SearXNGSearchProvider.search
    restarts,
    sent,        \* history: requests that left this process for this attempt
    asked        \* history: engine groups this search asked, in order

vars == <<health, usage, executed, last, circuit, pc, target, search, restarts, sent, asked>>

NoTarget == [family |-> "none", feedback |-> FALSE, allowance |-> 0, provider |-> NoProvider]
NoSearch == [index |-> 1, skip |-> {}, results |-> 0, shut |-> {}, sameQuery |-> FALSE,
             bothFailed |-> FALSE, rejected |-> FALSE]

(* over: the run's deadline has passed, and no attempt follows.            *)
Locations == {"idle", "prepared", "stopped", "dispatched", "searching", "hedged", "found", "failed",
              "over"}

TypeOK ==
    /\ health \in [Providers -> HealthRecords(MaxSearches)]
    /\ usage \in [searches : 0..MaxSearches, requests : Nat, retries : 0..MaxSearches]
    /\ executed \subseteq Families
    /\ last \in Counters
    /\ circuit \subseteq 1..Strategies
    /\ pc \in Locations
    /\ target.family \in Families \union {"none"}
    /\ target.provider \in Providers \union {NoProvider}
    /\ search.index \in 1..(Strategies + 1) /\ search.results \in 0..(Target + Target)
    /\ restarts \in 0..MaxRestarts /\ sent \in Nat
    /\ asked \in Seq(1..Strategies)

Init ==
    /\ health = [p \in Providers |-> NewRecord]
    /\ usage = [searches |-> 0, requests |-> 0, retries |-> 0]
    /\ executed = {}
    /\ last = ZeroCounters /\ circuit = {}
    /\ pc = "idle" /\ target = NoTarget /\ search = NoSearch
    /\ restarts = 0 /\ sent = 0 /\ asked = <<>>

------------------------------------------------------------------------------
(* _fair_provider_request_allowance; a feedback query is given one request. *)
Least(S) == CHOOSE x \in S : \A y \in S : x <= y

FairAllowance(remaining, untouched) ==
    IF remaining = 0 THEN 0
    ELSE LET share == IF untouched = 0 THEN remaining
                      ELSE IF remaining \div untouched = 0 THEN 1 ELSE remaining \div untouched
         IN  Least({remaining, QueryCap, share})

(* prepare_target hands out a query while the request budget has room.     *)
PrepareTarget(family, feedback, untouched) ==
    /\ pc = "idle"
    /\ usage.searches < MaxSearches
    /\ usage.requests < MaxProviderRequests
    /\ target' = [family |-> family, feedback |-> feedback, provider |-> NoProvider,
                  allowance |-> IF feedback THEN 1
                                ELSE FairAllowance(MaxProviderRequests - usage.requests, untouched)]
    /\ pc' = "prepared"
    /\ sent' = 0 /\ asked' = <<>>
    /\ UNCHANGED <<health, usage, executed, last, circuit, search, restarts>>

(* A search whose candidates the run already has asks nobody: it counts as *)
(* a reuse, not as a search (record_search_results with reused=True).      *)
ReuseResults ==
    /\ pc = "prepared"
    /\ pc' = "idle" /\ target' = NoTarget
    /\ UNCHANGED <<health, usage, executed, last, circuit, search, restarts, sent, asked>>

(* select_provider_for_target expires cooldowns on a copy it throws away.  *)
SelectProvider ==
    /\ pc = "prepared"
    /\ LET choice == SelectFor(ExpireCooldowns(health), target.feedback, {}, usage.retries)
       IN  /\ target' = [target EXCEPT !.provider = choice]
           /\ pc' = IF choice = NoProvider THEN "stopped" ELSE "dispatched"
    /\ UNCHANGED <<health, usage, executed, last, circuit, search, restarts, sent, asked>>

------------------------------------------------------------------------------
(* SearXNGSearchProvider.search with single_provider_only.                 *)

(* Counters are reset; circuits are compared with the time of this moment. *)
StartSearch_KeepsCounters(sameQuery) ==
    /\ pc = "dispatched" /\ target.provider = "SearXNG"
    /\ search' = [NoSearch EXCEPT !.shut = circuit, !.sameQuery = sameQuery]
    /\ pc' = "searching"
    /\ UNCHANGED <<health, usage, executed, last, circuit, target, restarts, sent, asked>>

StartSearch(sameQuery) ==
    /\ pc = "dispatched" /\ target.provider = "SearXNG"
    /\ last' = ZeroCounters
    /\ search' = [NoSearch EXCEPT !.shut = circuit, !.sameQuery = sameQuery]
    /\ pc' = "searching"
    /\ UNCHANGED <<health, usage, executed, circuit, target, restarts, sent, asked>>

SearchEnds ==
    \/ search.index > Strategies
    \/ search.results >= Target
    \/ last.requests >= target.allowance

StrategySkipped == search.index \in search.skip \union search.shut

SkipStrategy_Stays ==
    /\ pc = "searching" /\ ~SearchEnds /\ StrategySkipped
    /\ UNCHANGED vars

SkipStrategy ==
    /\ pc = "searching" /\ ~SearchEnds /\ StrategySkipped
    /\ search' = [search EXCEPT !.index = @ + 1]
    /\ UNCHANGED <<health, usage, executed, last, circuit, pc, target, restarts, sent, asked>>

MayHedge ==
    /\ search.index = 1 /\ Strategies > 1 /\ search.sameQuery
    /\ last.requests + 2 <= target.allowance

(* What one upstream request may answer: a retryable error, an error that  *)
(* is not, engines that do not respond, and a page without or with usable  *)
(* candidates, of which `added' survive the filters.                       *)
Answers ==
    [kind : {"error", "rejected", "unresponsive", "unusable"}, added : {0}]
        \union [kind : {"usable"}, added : 0..Target]

CountAnswer(counters, answer) ==
    [requests   |-> counters.requests + 1,
     healthy    |-> counters.healthy + (IF answer.kind \in {"unusable", "usable"} THEN 1 ELSE 0),
     productive |-> counters.productive + (IF answer.kind = "usable" THEN 1 ELSE 0)]

Leaves(n) == sent' = sent + n

(* One engine group after the other.                                       *)
AskStrategy(answer) ==
    /\ pc = "searching" /\ ~SearchEnds /\ ~StrategySkipped /\ ~MayHedge
    /\ last' = CountAnswer(last, answer)
    /\ circuit' = IF answer.kind \in {"error", "unresponsive"} THEN circuit \union {search.index} ELSE circuit
    /\ search' = [search EXCEPT !.index = @ + 1, !.results = @ + answer.added,
                               !.rejected = answer.kind = "rejected"]
    /\ pc' = IF answer.kind = "rejected" THEN "failed" ELSE "searching"
    /\ Leaves(1) /\ asked' = Append(asked, search.index)
    /\ UNCHANGED <<health, usage, executed, target, restarts>>

(* The first group answers within the hedge delay: whatever it raises is   *)
(* swallowed into an empty page, so no circuit opens for an error.         *)
HedgeFast(answer) ==
    /\ pc = "searching" /\ ~SearchEnds /\ ~StrategySkipped /\ MayHedge
    /\ last' = CountAnswer(last, answer)
    /\ circuit' = IF answer.kind = "unresponsive" THEN circuit \union {1} ELSE circuit
    /\ search' = [search EXCEPT !.index = 2, !.results = @ + answer.added]
    /\ Leaves(1) /\ asked' = Append(asked, 1)
    /\ UNCHANGED <<health, usage, executed, pc, target, restarts>>

(* It does not: the second group is asked as well.                         *)
HedgeSlow ==
    /\ pc = "searching" /\ ~SearchEnds /\ ~StrategySkipped /\ MayHedge
    /\ last' = [last EXCEPT !.requests = @ + 2]
    /\ pc' = "hedged"
    /\ Leaves(2) /\ asked' = asked \o <<1, 2>>
    /\ UNCHANGED <<health, usage, executed, circuit, target, search, restarts>>

(* The first usable page wins and the other request is cancelled, answered *)
(* or not; without one both are awaited and any page that came is taken.   *)
(* The loop then passes over group two.                                    *)
Cancelled == [kind |-> "cancelled", added |-> 0]
Pages(a1, a2) == {a \in {a1, a2} : a.kind \in {"unresponsive", "unusable", "usable"}}
UsablePages(a1, a2) == {a \in {a1, a2} : a.kind = "usable"}

HedgeAnswered(a1, a2) ==
    /\ pc = "hedged"
    /\ Pages(a1, a2) # {}
    /\ Cancelled \in {a1, a2} => UsablePages(a1, a2) # {}
    /\ \E page \in IF UsablePages(a1, a2) # {} THEN UsablePages(a1, a2) ELSE Pages(a1, a2) :
          /\ search' = [search EXCEPT !.index = 2, !.results = @ + page.added, !.skip = {2}]
          /\ circuit' = circuit
                \union {k \in 1..2 : <<a1, a2>>[k].kind = "unresponsive"}
                \union (IF page.kind = "unresponsive" THEN {1} ELSE {})
    /\ last' = [CountAnswer(CountAnswer(last, a1), a2) EXCEPT !.requests = last.requests]
    /\ pc' = "searching"
    /\ UNCHANGED <<health, usage, executed, target, restarts, sent, asked>>

(* Both raise: the error leaves _request_hedged before group two is marked. *)
HedgeFailed ==
    /\ pc = "hedged"
    /\ circuit' = circuit \union {1}
    /\ search' = [search EXCEPT !.index = 2, !.bothFailed = TRUE]
    /\ pc' = "searching"
    /\ UNCHANGED <<health, usage, executed, last, target, restarts, sent, asked>>

FinishSearch ==
    /\ pc = "searching" /\ SearchEnds
    /\ pc' = IF search.results > 0 THEN "found" ELSE "failed"
    /\ UNCHANGED <<health, usage, executed, last, circuit, target, search, restarts, sent, asked>>

------------------------------------------------------------------------------
(* _direct_bing_fallback, told to pass over its own cooldown: it asks Bing *)
(* only beside a local SearXNG, and a transport error, an error status, an *)
(* empty page and a page without a usable row are all nothing found.       *)
DirectBing(found) ==
    /\ found => LocalSearXNG
    /\ IF LocalSearXNG THEN Leaves(1) ELSE UNCHANGED <<sent>>

(* bing_only_search adds to the counters the previous search left behind.  *)
BingSearch(found) ==
    /\ pc = "dispatched" /\ target.provider = "Bing"
    /\ DirectBing(found)
    /\ last' = [requests   |-> last.requests + 1,
                healthy    |-> last.healthy + (IF found THEN 1 ELSE 0),
                productive |-> last.productive + (IF found THEN 1 ELSE 0)]
    /\ pc' = IF found THEN "found" ELSE "failed"
    /\ search' = [NoSearch EXCEPT !.results = IF found THEN 1 ELSE 0]
    /\ UNCHANGED <<health, usage, executed, circuit, target, restarts, asked>>

(* Brave and DuckDuckGo: one request; an empty page is a result.           *)
StandaloneSearch(found, report) ==
    /\ pc = "dispatched" /\ target.provider \in Standalone
    /\ \/ /\ report = "none"
          /\ pc' = "found" /\ search' = [NoSearch EXCEPT !.results = IF found THEN 1 ELSE 0]
       \/ /\ report # "none" /\ ~found
          /\ pc' = "failed" /\ search' = NoSearch
    /\ Leaves(1)
    /\ UNCHANGED <<health, usage, executed, last, circuit, target, restarts, asked>>

------------------------------------------------------------------------------
(* The deadline passes before the provider is asked, or cuts the search    *)
(* off: asyncio.wait_for cancels it, between two requests or with one that *)
(* has no answer yet, which was counted when it left.  The attempt ends as *)
(* "deadline_exhausted" without a word to record_search_results or         *)
(* record_tool_failure, and finish_iteration stops the research.           *)
Unanswered ==
    \/ UNCHANGED <<last, sent, asked>>
    \/ /\ pc = "searching" /\ ~SearchEnds /\ ~StrategySkipped
       /\ last' = [last EXCEPT !.requests = @ + 1]
       /\ Leaves(1) /\ asked' = Append(asked, search.index)
    \/ /\ pc = "dispatched" /\ target.provider = "Bing"
       /\ last' = [last EXCEPT !.requests = @ + 1]
       /\ DirectBing(FALSE) /\ UNCHANGED asked
    \/ /\ pc = "dispatched" /\ target.provider \in Standalone
       /\ Leaves(1) /\ UNCHANGED <<last, asked>>

DeadlinePasses ==
    /\ pc \in {"prepared", "dispatched", "searching", "hedged"}
    /\ Unanswered
    /\ pc' = "over"
    /\ UNCHANGED <<health, usage, executed, circuit, target, search, restarts>>

------------------------------------------------------------------------------
(* What the loop reads off the executed source.  A standalone adapter has  *)
(* no counters: one request when it returned, none when it raised.  After  *)
(* a routing stop the source is still the shared SearXNG object.           *)
Reported ==
    IF target.provider \in Standalone
    THEN [ZeroCounters EXCEPT !.requests = IF pc = "found" THEN 1 ELSE 0]
    ELSE last

Charge(counters, retried) ==
    usage' = [searches |-> usage.searches + 1,
              requests |-> usage.requests + counters.requests,
              retries  |-> usage.retries + (IF retried THEN 1 ELSE 0)]

MarkExecuted(condition) ==
    executed' = IF condition THEN executed \union {target.family} ELSE executed

Done == pc' = "idle" /\ target' = NoTarget /\ search' = NoSearch

(* _record_provider_health_and_routing expires cooldowns first and saves   *)
(* the records; the routing it then logs decides nothing.                  *)
HealthAfterSuccess(p) == [ExpireCooldowns(health) EXCEPT ![p] = RecordSuccess(@)]
HealthAfterFailure(p, type) == [ExpireCooldowns(health) EXCEPT ![p] = RecordFailure(@, type)]

(* record_search_results and the health update in its transaction.         *)
RecordResults ==
    /\ pc = "found"
    /\ LET c == Reported
           served == search.results > 0 \/ c.healthy > 0 \/ c.productive > 0
       IN  /\ Charge(c, FALSE)
           /\ MarkExecuted(c.requests > 0 /\ served)
           /\ health' = IF served THEN HealthAfterSuccess(target.provider) ELSE health
    /\ Done
    /\ UNCHANGED <<last, circuit, restarts, sent, asked>>

(* record_tool_failure: a failure nobody is named for is the primary's.    *)
FailureTypesOf(p) ==
    CASE pc = "stopped"     -> {"circuit_open"}
      [] p = "SearXNG"      -> {IF search.rejected THEN Classify("rejected") ELSE "empty_response"}
      [] p = "Bing"         -> {"empty_response"}
      [] OTHER              -> {Classify(r) : r \in {"timeout", "network_error", "rate_limited",
                                                     "http_error", "empty_response", "bad_payload"}}

RecordToolFailure(type) ==
    /\ pc \in {"failed", "stopped"}
    /\ type \in FailureTypesOf(target.provider)
    /\ LET c == Reported
           failing == IF target.provider \in Providers THEN target.provider ELSE Primary
       IN  /\ Charge(c, RetryDecision(type) = "retry")
           /\ MarkExecuted(c.requests > 0 /\ (c.healthy > 0 \/ c.productive > 0))
           /\ health' = HealthAfterFailure(failing, type)
    /\ Done
    /\ UNCHANGED <<last, circuit, restarts, sent, asked>>

------------------------------------------------------------------------------
(* Time: a provider's cooldown window ends, an engine group's circuit      *)
(* closes.                                                                 *)
CooldownEnds(p) ==
    /\ health[p].window = "running"
    /\ health' = [health EXCEPT ![p].window = "over"]
    /\ UNCHANGED <<usage, executed, last, circuit, pc, target, search, restarts, sent, asked>>

CircuitCloses(k) ==
    /\ k \in circuit
    /\ circuit' = circuit \ {k}
    /\ UNCHANGED <<health, usage, executed, last, pc, target, search, restarts, sent, asked>>

(* The attempt dies with its worker and records nothing; the next          *)
(* execution builds a new SearXNG object.                                  *)
Restart ==
    /\ pc \notin {"idle", "over"} /\ restarts < MaxRestarts
    /\ restarts' = restarts + 1
    /\ last' = ZeroCounters /\ circuit' = {}
    /\ Done
    /\ UNCHANGED <<health, usage, executed, sent, asked>>

Next ==
    \/ \E f \in Families, fb \in BOOLEAN, n \in 0..1 : PrepareTarget(f, fb, n)
    \/ ReuseResults \/ SelectProvider
    \/ \E same \in BOOLEAN : StartSearch(same)
    \/ SkipStrategy
    \/ \E a \in Answers : AskStrategy(a)
    \/ \E a \in Answers : HedgeFast(a)
    \/ HedgeSlow
    \/ \E a1, a2 \in Answers \union {Cancelled} : HedgeAnswered(a1, a2)
    \/ HedgeFailed \/ FinishSearch
    \/ \E found \in BOOLEAN : BingSearch(found)
    \/ \E found \in BOOLEAN, r \in {"none", "raised"} : StandaloneSearch(found, r)
    \/ DeadlinePasses \/ RecordResults
    \/ \E type \in FailureTypes : RecordToolFailure(type)
    \/ \E p \in Providers : CooldownEnds(p)
    \/ \E k \in 1..Strategies : CircuitCloses(k)
    \/ Restart

(* The steps of an attempt itself: the loop, its requests (each with a     *)
(* timeout of 20 s) and the recording transactions always go on.           *)
AttemptStep ==
    \/ SelectProvider \/ \E same \in BOOLEAN : StartSearch(same)
    \/ SkipStrategy \/ \E a \in Answers : AskStrategy(a)
    \/ HedgeSlow \/ HedgeFailed \/ FinishSearch
    \/ \E found \in BOOLEAN : BingSearch(found)
    \/ \E found \in BOOLEAN, r \in {"none", "raised"} : StandaloneSearch(found, r)
    \/ RecordResults \/ \E type \in FailureTypes : RecordToolFailure(type)

Spec == Init /\ [][Next]_vars
FairSpec == Spec /\ WF_vars(AttemptStep)

------------------------------------------------------------------------------
Searching ==
    pc \in {"searching", "hedged", "found", "failed", "over"} /\ target.provider = "SearXNG"

(* A SearXNG search never sends more upstream requests than the allowance  *)
(* its query was given, the hedge included (the two checks against         *)
(* max_provider_requests in search).  That also bounds what the deadline   *)
(* leaves uncharged.                                                       *)
RequestsWithinAllowance == Searching => sent <= target.allowance

(* An engine group that the hedge has asked is asked again by the loop     *)
(* only when both hedged requests raised (hedged_strategy_indexes).        *)
RepeatsOnlyAfterFailedHedge ==
    \A i, j \in DOMAIN asked :
        i < j /\ asked[i] = asked[j] => search.bothFailed \/ pc = "idle"

(* The provider an attempt runs on is not blocked when its outcome is      *)
(* recorded, although select_provider_for_target decided on a copy it did  *)
(* not save and the window may have ended meanwhile.                       *)
ExecutesOnlyUnblocked ==
    pc \in {"dispatched", "searching", "hedged", "found", "failed"} =>
        ExpireCooldown(health[target.provider]).state \notin {"unavailable", "disabled"}

(* Window and state agree in every record a transaction can read: a        *)
(* provider that is usable or disabled has no window left that a later     *)
(* failure could take for its own cooldown, and a blocked one has.         *)
WindowAgreesWithState ==
    \A p \in Providers :
        (health[p].window = "none") <=> (health[p].state \in {"unknown", "healthy", "degraded", "disabled"})

(* What a SearXNG attempt adds to search_provider_requests is what it sent, *)
(* whatever searches ran on the shared object before it, and an attempt     *)
(* that adds nothing although it sent something was cut off: by the crash   *)
(* of its worker or, once in a run, by the deadline, where the code charges *)
(* and records nothing (except TimeoutError in _research_target).           *)
SearXNGChargedOrCutOff ==
    [][target.provider = "SearXNG" /\ pc \in {"dispatched", "searching", "hedged", "found", "failed"}
         /\ pc' \in {"idle", "over"}
         => \/ usage'.searches = usage.searches + 1 /\ usage'.requests = usage.requests + sent
            \/ usage' = usage /\ (restarts' # restarts \/ pc' = "over")]_vars

(* "disabled for the remainder of the run" (provider_health.py): true of    *)
(* every provider but the primary.  Every routing stop is charged to the    *)
(* primary as a circuit_open failure, which puts it into cooldown again     *)
(* even when it is disabled, after which it is probed (record_tool_failure, *)
(* record_failure); no other step of the run enables a disabled provider.   *)
DisabledUntilRoutingStop ==
    [][\A p \in Providers :
          health[p].state = "disabled" /\ health'[p].state # "disabled"
            => p = Primary /\ pc = "stopped"]_vars

(* What the end of an attempt records is what the attempt did, unless it is *)
(* cut off, and a decision of the run about a provider outlives the         *)
(* attempts after it, unless routing stops.                                 *)
OutcomesRecorded == SearXNGChargedOrCutOff /\ DisabledUntilRoutingStop

(* Every attempt ends: no combination of skipped, hedged and failing       *)
(* engine groups keeps a search going.                                     *)
AttemptEnds == pc = "prepared" ~> pc \in {"idle", "over"}

(* A search spends what its query was allowed, asks no engine group in     *)
(* vain, and runs on a provider that may run and whose record the next     *)
(* transaction can rely on (search, record_tool_failure).                  *)
SearchSound ==
    /\ TypeOK
    /\ RequestsWithinAllowance /\ RepeatsOnlyAfterFailedHedge
    /\ ExecutesOnlyUnblocked /\ WindowAgreesWithState

==============================================================================
