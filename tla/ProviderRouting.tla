--------------------------- MODULE ProviderRouting ---------------------------
(***************************************************************************)
(* Health of the search providers and the choice of one for an attempt:    *)
(* domain/provider_health.py, provider_router.py, provider_registry.py and *)
(* provider_failure_classification.py.  All of it is pure: the repository  *)
(* keeps the records in usage_snapshot["provider_health"].                 *)
(*                                                                         *)
(* A record keeps what decides a state: the failure streaks and whether    *)
(* the cooldown window is unset, running or over.  Counters, latencies and *)
(* the window of recent outcomes are telemetry and left out.               *)
(***************************************************************************)
EXTENDS Naturals, Sequences, FiniteSets

CONSTANTS
    BraveKeyPresent,     \* an API key registers Brave
    DuckDuckGoEnabled,   \* configuration registers DuckDuckGo
    UnavailableStreak,   \* FAILURE_STREAK_TO_UNAVAILABLE
    MaxProbeFailures,    \* MAX_PROBE_FAILURES
    MaxSwitches          \* DEFAULT_MAX_PROVIDER_SWITCHES

ASSUME RoutingAssumption ==
    /\ BraveKeyPresent \in BOOLEAN /\ DuckDuckGoEnabled \in BOOLEAN
    /\ UnavailableStreak \in Nat \ {0} /\ MaxProbeFailures \in Nat \ {0}
    /\ MaxSwitches \in Nat

------------------------------------------------------------------------------
(* The registry: enabled providers in the order of their priority.         *)
Candidates ==
    <<"SearXNG", "Bing">>
        \o (IF BraveKeyPresent THEN <<"Brave">> ELSE <<>>)
        \o (IF DuckDuckGoEnabled THEN <<"DuckDuckGo">> ELSE <<>>)

Providers == {Candidates[i] : i \in DOMAIN Candidates}
Primary == Candidates[1]
Order(p) == CHOOSE i \in DOMAIN Candidates : Candidates[i] = p

------------------------------------------------------------------------------
(* Failure taxonomy.                                                       *)
RetryTypes == {"timeout", "unresponsive", "rate_limit", "network_error", "server_error"}
FallbackTypes == {"circuit_open", "empty_response"}
FailureTypes == RetryTypes \union FallbackTypes \union {"unknown"}

RetryDecision(type) ==
    CASE type \in RetryTypes    -> "retry"
      [] type \in FallbackTypes -> "fallback"
      [] OTHER                  -> "stop"

(* What an adapter reports and how it is classified: a failure_type outside *)
(* the taxonomy falls back to a search for words in the error code.         *)
Classify(report) ==
    CASE report \in FailureTypes   -> report
      [] report = "rate_limited"   -> "rate_limit"      \* SEARCH_PROVIDER_RATE_LIMIT
      [] report = "http_error"     -> "server_error"    \* SEARCH_PROVIDER_HTTP_ERROR
      [] OTHER                     -> "unknown"         \* rejected, invalid_response, bad_payload

------------------------------------------------------------------------------
(* ProviderHealthTracker.                                                  *)
HealthStates == {"unknown", "healthy", "degraded", "unavailable", "cooldown", "disabled"}
Windows == {"none", "running", "over"}
HealthRecords(bound) ==
    [state : HealthStates, streak : 0..bound, probes : 0..bound, window : Windows]

NewRecord == [state |-> "unknown", streak |-> 0, probes |-> 0, window |-> "none"]

RecordSuccess(r) == [state |-> "healthy", streak |-> 0, probes |-> 0, window |-> "none"]

FailedProbe(r) ==
    LET probes == r.probes + 1
    IN  IF probes >= MaxProbeFailures
        THEN [state |-> "disabled", streak |-> r.streak + 1, probes |-> probes, window |-> "none"]
        ELSE [state |-> "unavailable", streak |-> r.streak + 1, probes |-> probes, window |-> "running"]

FailedAttempt(r, type) ==
    LET streak == r.streak + 1
    IN  IF type = "circuit_open" \/ streak >= UnavailableStreak
        THEN [r EXCEPT !.state = "unavailable", !.streak = streak, !.window = "running"]
        ELSE [r EXCEPT !.state = "degraded", !.streak = streak]

RecordFailure(r, type) ==
    IF r.state = "cooldown" THEN FailedProbe(r) ELSE FailedAttempt(r, type)

ExpireCooldown(r) ==
    IF r.state = "unavailable" /\ r.window = "over" THEN [r EXCEPT !.state = "cooldown"] ELSE r

ExpireCooldowns(health) == [p \in DOMAIN health |-> ExpireCooldown(health[p])]

------------------------------------------------------------------------------
(* ProviderRouter.select_for.                                              *)
Blocked_DisabledOnly(state) == state = "disabled"

Blocked(state) == state \in {"unavailable", "disabled"}

Priority(state, feedback) ==
    LET base == CASE state = "healthy" -> 0 [] state = "degraded" -> 1
                  [] state = "unknown" -> 2 [] state = "cooldown" -> 3
                  [] state = "unavailable" -> 99 [] state = "disabled" -> 100
    IN  IF feedback /\ state # "healthy" THEN base + 50 ELSE base

Available(health, excluded) ==
    {p \in Providers \ excluded : ~Blocked(health[p].state)}

Preferred(health, feedback, p, q) ==
    LET a == Priority(health[p].state, feedback)
        b == Priority(health[q].state, feedback)
    IN  a < b \/ (a = b /\ Order(p) <= Order(q))

Ranked(health, feedback, excluded) ==
    CHOOSE p \in Available(health, excluded) :
        \A q \in Available(health, excluded) : Preferred(health, feedback, p, q)

NoProvider == "none"

SelectFor(health, feedback, excluded, switchesUsed) ==
    IF Available(health, excluded) = {} THEN NoProvider
    ELSE LET best == Ranked(health, feedback, excluded)
         IN  IF best # Primary /\ switchesUsed >= MaxSwitches THEN NoProvider ELSE best
==============================================================================
