----------------------- MODULE SearchAcquisitionProofs -----------------------
(***************************************************************************)
(* Proofs about SearchAcquisition for any configuration of providers,      *)
(* engine groups, thresholds and allowances: a search keeps to its         *)
(* allowance and repeats no engine group in vain, it runs on a provider    *)
(* that may run, and what is recorded of it is what it did.                *)
(***************************************************************************)
EXTENDS SearchAcquisition, SequenceTheorems, WellFoundedInduction, TLAPS

-----------------------------------------------------------------------------
(* The candidates and the choice among them.                               *)

Names == {"SearXNG", "Bing", "Brave", "DuckDuckGo"}

LEMMA CandidateNames ==
  /\ Candidates \in Seq(Names) /\ Len(Candidates) \in 2..4
  /\ DOMAIN Candidates = 1..Len(Candidates) /\ Candidates[1] = "SearXNG"
<1> DEFINE a == <<"SearXNG", "Bing">>
           b == IF BraveKeyPresent THEN <<"Brave">> ELSE <<>>
           c == IF DuckDuckGoEnabled THEN <<"DuckDuckGo">> ELSE <<>>
<1>1. a \in Seq(Names) /\ Len(a) = 2 /\ a[1] = "SearXNG"
  BY DEF Names
<1>2. b \in Seq(Names) /\ (Len(b) = 0 \/ Len(b) = 1)
  <2>1. <<"Brave">> \in Seq(Names) /\ Len(<<"Brave">>) = 1
    BY DEF Names
  <2>2. <<>> \in Seq(Names) /\ Len(<<>>) = 0
    BY EmptySeq
  <2> QED
    BY <2>1, <2>2
<1>3. c \in Seq(Names) /\ (Len(c) = 0 \/ Len(c) = 1)
  <2>1. <<"DuckDuckGo">> \in Seq(Names) /\ Len(<<"DuckDuckGo">>) = 1
    BY DEF Names
  <2>2. <<>> \in Seq(Names) /\ Len(<<>>) = 0
    BY EmptySeq
  <2> QED
    BY <2>1, <2>2
<1>4. Candidates = (a \o b) \o c
  BY DEF Candidates
<1> HIDE DEF a, b, c
<1>5. ASSUME NEW s \in Seq(Names), NEW t \in Seq(Names), Len(s) >= 1
      PROVE  /\ s \o t \in Seq(Names) /\ Len(s \o t) = Len(s) + Len(t)
             /\ (s \o t)[1] = s[1]
  <2>1. Len(s) \in Nat /\ Len(t) \in Nat
    BY LenProperties
  <2>2. /\ s \o t \in Seq(Names) /\ Len(s \o t) = Len(s) + Len(t)
        /\ \A i \in 1..Len(s) + Len(t) :
             (s \o t)[i] = IF i <= Len(s) THEN s[i] ELSE t[i - Len(s)]
    BY ConcatProperties
  <2>3. 1 \in 1..Len(s) + Len(t) /\ 1 <= Len(s)
    BY <1>5, <2>1
  <2> QED
    BY <2>2, <2>3, Zenon
<1> DEFINE d == a \o b
<1>6. d \in Seq(Names) /\ Len(d) = Len(a) + Len(b) /\ d[1] = a[1]
  <2>1. Len(a) >= 1
    BY <1>1
  <2>2. a \in Seq(Names) /\ b \in Seq(Names)
    BY <1>1, <1>2
  <2> QED
    BY <2>1, <2>2, <1>5, Zenon
<1> HIDE DEF d
<1>7. Len(d) \in 2..3
  <2>1. Len(d) = 2 + Len(b) /\ (Len(b) = 0 \/ Len(b) = 1)
    BY <1>1, <1>2, <1>6, Zenon
  <2>2. Len(d) = 2 + 0 \/ Len(d) = 2 + 1
    BY <2>1, Zenon
  <2> QED
    BY <2>2
<1> DEFINE e == d \o c
<1>8. e \in Seq(Names) /\ Len(e) = Len(d) + Len(c) /\ e[1] = d[1]
  BY <1>3, <1>5, <1>6, <1>7
<1> HIDE DEF e
<1>9. Candidates = e
  BY <1>4 DEF d, e
<1>10. DOMAIN e = 1..Len(e) /\ Len(e) \in 2..4
  <2>1. DOMAIN e = 1..Len(e)
    BY <1>8, LenProperties
  <2>2. Len(e) \in 2..4
    <3>1. Len(e) = Len(d) + 0 \/ Len(e) = Len(d) + 1
      BY <1>3, <1>8, Zenon
    <3>2. ASSUME NEW x \in 2..3, NEW y, y = x + 0 \/ y = x + 1
          PROVE  y \in 2..4
      BY <3>2
    <3> QED
      BY <1>7, <3>1, <3>2, Zenon
  <2> QED
    BY <2>1, <2>2
<1> QED
  BY <1>1, <1>6, <1>8, <1>9, <1>10

LEMMA ProviderNames ==
  Providers \subseteq Names /\ Primary \in Providers /\ Primary = "SearXNG"
  /\ NoProvider \notin Providers
<1>1. \A i \in DOMAIN Candidates : Candidates[i] \in Names
  BY CandidateNames, ElementOfSeq
<1>2. 1 \in DOMAIN Candidates
  BY CandidateNames
<1> QED
  BY <1>1, <1>2, CandidateNames DEF Providers, Primary, NoProvider, Names

LEMMA OrderOf ==
  ASSUME NEW p \in Providers
  PROVE  Order(p) \in 1..4
<1>1. \E i \in DOMAIN Candidates : Candidates[i] = p
  BY DEF Providers
<1>2. Order(p) \in DOMAIN Candidates
  BY <1>1 DEF Order
<1> QED
  BY <1>2, CandidateNames

(* Of a set of naturals there is a least one.                              *)
LEMMA LeastNatural ==
  ASSUME NEW T, T \subseteq Nat, T # {}
  PROVE  \E x \in T : \A y \in T : x <= y
<1>1. PICK x \in T : \A y \in T : ~ (<<y, x>> \in OpToRel(<, Nat))
  BY NatLessThanWellFounded, WFMin, Zenon
<1>2. \A y \in T : ~(y < x)
  BY <1>1, Zenon DEF OpToRel
<1> QED
  BY <1>2

LEMMA LeastOf ==
  ASSUME NEW T, T \subseteq Nat, T # {}
  PROVE  Least(T) \in T
BY LeastNatural DEF Least

(* The choice of the router is one of the providers that may run.          *)
LEMMA SelectsAvailable ==
  ASSUME NEW h, \A p \in Providers : h[p].state \in HealthStates,
         NEW fb \in BOOLEAN, NEW used \in Nat,
         SelectFor(h, fb, {}, used) # NoProvider
  PROVE  /\ SelectFor(h, fb, {}, used) \in Providers
         /\ ~Blocked(h[SelectFor(h, fb, {}, used)].state)
<1> DEFINE A == Available(h, {})
           key(p) == 10 * Priority(h[p].state, fb) + Order(p)
           T == {key(p) : p \in A}
<1>1. A # {} /\ SelectFor(h, fb, {}, used) = Ranked(h, fb, {})
  BY DEF SelectFor
<1>2. A \subseteq Providers /\ \A p \in A : ~Blocked(h[p].state)
  BY DEF Available
<1>3. \A p \in Providers : Priority(h[p].state, fb) \in Nat
  BY DEF Priority, HealthStates
<1>4. \A p \in A : key(p) \in Nat
  BY <1>2, <1>3, OrderOf
<1>5. PICK x \in T : \A y \in T : x <= y
  BY <1>1, <1>4, LeastNatural
<1>6. PICK p \in A : x = key(p)
  BY <1>5
<1>7. \A q \in A : Preferred(h, fb, p, q)
  <2> SUFFICES ASSUME NEW q \in A PROVE Preferred(h, fb, p, q)
    OBVIOUS
  <2>1. 10 * Priority(h[p].state, fb) + Order(p) <= 10 * Priority(h[q].state, fb) + Order(q)
    BY <1>5, <1>6
  <2>2. /\ Priority(h[p].state, fb) \in Nat /\ Priority(h[q].state, fb) \in Nat
        /\ Order(p) \in 1..4 /\ Order(q) \in 1..4
    BY <1>2, <1>3, OrderOf
  <2>3. ASSUME NEW a \in Nat, NEW b \in Nat, NEW i \in 1..4, NEW j \in 1..4,
               10 * a + i <= 10 * b + j
        PROVE  a < b \/ (a = b /\ i <= j)
    BY <2>3
  <2> QED
    BY <2>1, <2>2, <2>3, Zenon DEF Preferred
<1>8. Ranked(h, fb, {}) \in A
  BY <1>7 DEF Ranked
<1> QED
  BY <1>1, <1>2, <1>8

-----------------------------------------------------------------------------
(* The health records.                                                     *)

Idle == {"unknown", "healthy", "degraded", "disabled"}

(* Window and state of a record agree, and its streaks are no longer than  *)
(* the number of attempts.                                                 *)
RecordOk(r, n) ==
  /\ r \in [state : HealthStates, streak : Nat, probes : Nat, window : Windows]
  /\ r.probes <= r.streak /\ r.streak <= n
  /\ (r.window = "none") <=> (r.state \in Idle)

LEMMA NewRecordOk == RecordOk(NewRecord, 0)
BY DEF RecordOk, NewRecord, HealthStates, Windows, Idle

LEMMA ExpireOk ==
  ASSUME NEW n \in Nat, NEW r, RecordOk(r, n)
  PROVE  /\ RecordOk(ExpireCooldown(r), n)
         /\ r.state = "disabled" <=> ExpireCooldown(r).state = "disabled"
BY DEF RecordOk, ExpireCooldown, HealthStates, Windows, Idle

LEMMA OlderRecordOk ==
  ASSUME NEW n \in Nat, NEW r, RecordOk(r, n)
  PROVE  RecordOk(r, n + 1)
BY DEF RecordOk

LEMMA SuccessOk ==
  ASSUME NEW n \in Nat, NEW r
  PROVE  RecordOk(RecordSuccess(r), n)
BY DEF RecordOk, RecordSuccess, HealthStates, Windows, Idle

LEMMA FailureOk ==
  ASSUME NEW n \in Nat, NEW r, RecordOk(r, n), NEW type,
         r.state \notin {"unavailable", "disabled"} \/ type = "circuit_open"
  PROVE  RecordOk(RecordFailure(r, type), n + 1)
<1>1. CASE r.state = "cooldown"
  BY <1>1, RoutingAssumption DEF RecordOk, RecordFailure, FailedProbe, HealthStates, Windows, Idle
<1>2. CASE r.state # "cooldown"
  <2> DEFINE k == r.streak + 1
             blocked == [r EXCEPT !.state = "unavailable", !.streak = k,
                                  !.window = "running"]
             worse == [r EXCEPT !.state = "degraded", !.streak = k]
             Rows == [state : HealthStates, streak : Nat, probes : Nat, window : Windows]
  <2>1. \/ RecordFailure(r, type) = blocked
        \/ RecordFailure(r, type) = worse /\ type # "circuit_open"
    BY <1>2 DEF RecordFailure, FailedAttempt
  <2>2. /\ r \in Rows /\ r.streak \in Nat /\ r.probes \in Nat /\ r.probes <= r.streak
        /\ r.streak <= n
        /\ type # "circuit_open" => r.window = "none" /\ r.state # "unavailable"
    BY <1>2 DEF RecordOk, HealthStates, Windows, Idle
  <2>3. k \in Nat /\ r \in Rows
    BY <2>2
  <2> HIDE DEF k
  <2>4. /\ blocked \in Rows /\ blocked.probes = r.probes /\ blocked.streak = k
        /\ blocked.state = "unavailable" /\ blocked.window = "running"
    BY <2>3 DEF HealthStates, Windows
  <2>5. /\ worse \in Rows /\ worse.probes = r.probes /\ worse.streak = k
        /\ worse.state = "degraded" /\ worse.window = r.window
    BY <2>3 DEF HealthStates, Windows
  <2> HIDE DEF blocked, worse
  <2>6. RecordOk(blocked, n + 1)
    BY <2>2, <2>4 DEF RecordOk, Idle, k
  <2>7. type # "circuit_open" => RecordOk(worse, n + 1)
    BY <2>2, <2>5 DEF RecordOk, Idle, k
  <2> QED
    BY <2>1, <2>6, <2>7
<1> QED
  BY <1>1, <1>2

-----------------------------------------------------------------------------
(* The inductive invariant.                                                *)

Records == [state : HealthStates, streak : Nat, probes : Nat, window : Windows]
Usages == [searches : 0..MaxSearches, requests : Nat, retries : Nat]
Targets == [family : Families \union {"none"}, feedback : BOOLEAN, allowance : Nat,
            provider : Providers \union {NoProvider}]
Searches == [index : 1..(Strategies + 1), skip : SUBSET {2}, results : 0..(Target + Target),
             shut : SUBSET (1..Strategies), sameQuery : BOOLEAN, bothFailed : BOOLEAN,
             rejected : BOOLEAN]
Executing == {"dispatched", "searching", "hedged", "found", "failed"}

(* Every record was written by the tracker, from at most as many outcomes  *)
(* as searches were recorded.                                              *)
HealthInv ==
    /\ health \in [Providers -> Records]
    /\ \A p \in Providers : RecordOk(health[p], usage.searches)

(* One search at a time: the one under way is still to be recorded.        *)
UsageInv ==
    /\ usage \in Usages /\ usage.retries <= usage.searches
    /\ pc # "idle" => usage.searches < MaxSearches
    /\ executed \subseteq Families /\ restarts \in 0..MaxRestarts

(* What runs, runs on a provider that may.                                 *)
TargetInv ==
    /\ pc \in Locations /\ target \in Targets
    /\ pc # "idle" => target.family \in Families
    /\ pc \in Executing => target.provider \in Providers
    /\ pc \in {"searching", "hedged"} => target.provider = "SearXNG"
    /\ pc = "stopped" => target.provider = NoProvider
    /\ ExecutesOnlyUnblocked

(* The counters of the shared object are those of the search under way,    *)
(* unless the deadline passes before it resets them.                       *)
CountersInv ==
    /\ last \in Counters /\ sent \in Nat
    /\ pc \in {"prepared", "stopped", "dispatched"} => sent = 0
    /\ Searching => sent <= target.allowance
    /\ Searching /\ pc # "over" => sent = last.requests

(* No engine group before the loop's index is asked again, and none that   *)
(* the hedge took.                                                         *)
AskedInv ==
    /\ search \in Searches /\ circuit \subseteq 1..Strategies
    /\ asked \in Seq(1..Strategies)
    /\ pc \in {"prepared", "stopped", "dispatched"} => asked = <<>>
    /\ pc = "searching" /\ search.index = 1 => search.skip = {}
    /\ pc = "searching" /\ ~search.bothFailed =>
          \A i \in DOMAIN asked : asked[i] < search.index \/ asked[i] \in search.skip
    /\ pc = "hedged" => Strategies > 1 /\ search.results < Target
    /\ pc = "hedged" /\ ~search.bothFailed => \A i \in DOMAIN asked : asked[i] \in {1, 2}
    /\ pc # "idle" /\ ~search.bothFailed =>
          \A i, j \in DOMAIN asked : i < j => asked[i] # asked[j]

IInv == HealthInv /\ UsageInv /\ TargetInv /\ CountersInv /\ AskedInv

LEMMA UsageFields ==
  ASSUME UsageInv
  PROVE  /\ usage.searches \in Nat /\ usage.searches <= MaxSearches
         /\ usage.requests \in Nat /\ usage.retries \in Nat
BY SearchAssumption DEF UsageInv, Usages

LEMMA RecordIn ==
  ASSUME NEW r, NEW n, RecordOk(r, n)
  PROVE  r \in Records
BY DEF RecordOk, Records

LEMMA ExpiredOk ==
  ASSUME HealthInv, UsageInv
  PROVE  /\ ExpireCooldowns(health) \in [Providers -> Records]
         /\ \A p \in Providers :
              /\ ExpireCooldowns(health)[p] = ExpireCooldown(health[p])
              /\ RecordOk(ExpireCooldown(health[p]), usage.searches)
<1>1. DOMAIN health = Providers
  BY DEF HealthInv
<1>2. ExpireCooldowns(health) = [p \in Providers |-> ExpireCooldown(health[p])]
  BY <1>1 DEF ExpireCooldowns
<1>3. \A p \in Providers : RecordOk(ExpireCooldown(health[p]), usage.searches)
  BY UsageFields, ExpireOk DEF HealthInv
<1>4. \A p \in Providers : ExpireCooldown(health[p]) \in Records
  BY <1>3, RecordIn
<1> QED
  BY <1>2, <1>3, <1>4

(* An outcome is recorded of one provider; the others are only older.      *)
LEMMA OutcomeOk ==
  ASSUME HealthInv, UsageInv, NEW p \in Providers, NEW r,
         RecordOk(r, usage.searches + 1),
         health' = [ExpireCooldowns(health) EXCEPT ![p] = r],
         usage'.searches = usage.searches + 1
  PROVE  HealthInv'
<1> DEFINE h == ExpireCooldowns(health)
           n == usage.searches
<1>1. n \in Nat
  BY UsageFields
<1>2. h \in [Providers -> Records] /\ \A q \in Providers : RecordOk(h[q], n)
  BY ExpiredOk
<1>3. health' = [h EXCEPT ![p] = r] /\ usage'.searches = n + 1 /\ RecordOk(r, n + 1)
  OBVIOUS
<1> HIDE DEF h, n
<1>4. r \in Records
  BY <1>3, RecordIn
<1>5. health' \in [Providers -> Records]
  BY <1>2, <1>3, <1>4
<1>6. ASSUME NEW q \in Providers PROVE RecordOk(health'[q], n + 1)
  <2>1. CASE q = p
    BY <1>2, <1>3, <2>1
  <2>2. CASE q # p
    <3>1. health'[q] = h[q]
      BY <1>2, <1>3, <2>2
    <3> QED
      BY <1>1, <1>2, <3>1, OlderRecordOk
  <2> QED
    BY <2>1, <2>2
<1> QED
  BY <1>3, <1>5, <1>6 DEF HealthInv

LEMMA HealthStep ==
  ASSUME IInv, Next
  PROVE  HealthInv'
<1> USE DEF IInv
<1>1. CASE UNCHANGED <<health, usage>>
  BY <1>1 DEF HealthInv
<1>2. CASE RecordResults
  <2>1. usage'.searches = usage.searches + 1
    BY <1>2 DEF RecordResults, Charge
  <2>2. target.provider \in Providers
    BY <1>2 DEF RecordResults, TargetInv, Executing
  <2>3. CASE health' = health
    <3>1. \A p \in Providers : RecordOk(health[p], usage.searches + 1)
      BY UsageFields, OlderRecordOk DEF HealthInv
    <3> QED
      BY <2>1, <2>3, <3>1 DEF HealthInv
  <2>4. CASE health' = HealthAfterSuccess(target.provider)
    <3> DEFINE r == RecordSuccess(ExpireCooldowns(health)[target.provider])
    <3>1. RecordOk(r, usage.searches + 1)
      BY SuccessOk, UsageFields
    <3>2. health' = [ExpireCooldowns(health) EXCEPT ![target.provider] = r]
      BY <2>4 DEF HealthAfterSuccess
    <3> QED
      BY <2>1, <2>2, <3>1, <3>2, OutcomeOk
  <2> QED
    BY <1>2, <2>3, <2>4 DEF RecordResults
<1>3. CASE \E type \in FailureTypes : RecordToolFailure(type)
  <2>1. PICK type \in FailureTypes : RecordToolFailure(type)
    BY <1>3
  <2> DEFINE p == IF target.provider \in Providers THEN target.provider ELSE Primary
             r == RecordFailure(ExpireCooldowns(health)[p], type)
  <2>2. /\ usage'.searches = usage.searches + 1 /\ p \in Providers
        /\ health' = [ExpireCooldowns(health) EXCEPT ![p] = r]
    BY <2>1, ProviderNames DEF RecordToolFailure, Charge, HealthAfterFailure
  <2>3. /\ RecordOk(ExpireCooldowns(health)[p], usage.searches)
        /\ ExpireCooldowns(health)[p] = ExpireCooldown(health[p])
    BY <2>2, ExpiredOk
  <2>4. pc = "stopped" => type = "circuit_open"
    BY <2>1 DEF RecordToolFailure, FailureTypesOf, TargetInv, NoProvider
  <2>5. pc = "failed" => p = target.provider
    BY DEF TargetInv, Executing
  <2>6. pc = "failed" => ExpireCooldowns(health)[p].state \notin {"unavailable", "disabled"}
    BY <2>3, <2>5 DEF TargetInv, ExecutesOnlyUnblocked
  <2>7. pc \in {"failed", "stopped"}
    BY <2>1 DEF RecordToolFailure
  <2> HIDE DEF p
  <2>8. RecordOk(r, usage.searches + 1)
    BY <2>3, <2>4, <2>6, <2>7, FailureOk, UsageFields
  <2> QED
    BY <2>2, <2>8, OutcomeOk
<1>4. CASE \E p \in Providers : CooldownEnds(p)
  <2>1. PICK p \in Providers : CooldownEnds(p)
    BY <1>4
  <2> DEFINE r == [health[p] EXCEPT !.window = "over"]
  <2>2. /\ health' = [health EXCEPT ![p] = r] /\ usage' = usage
        /\ health[p].window = "running"
    BY <2>1 DEF CooldownEnds
  <2>3. RecordOk(health[p], usage.searches) /\ health \in [Providers -> Records]
    BY DEF HealthInv
  <2>4. RecordOk(r, usage.searches)
    BY <2>2, <2>3 DEF RecordOk, Windows, HealthStates, Idle
  <2> HIDE DEF r
  <2>5. r \in Records
    BY <2>4, RecordIn
  <2>6. health' \in [Providers -> Records]
    BY <2>2, <2>3, <2>5
  <2>7. ASSUME NEW q \in Providers PROVE RecordOk(health'[q], usage.searches)
    <3>1. health'[q] = IF q = p THEN r ELSE health[q]
      BY <2>2, <2>3
    <3> QED
      BY <2>4, <3>1 DEF HealthInv
  <2> QED
    BY <2>2, <2>6, <2>7 DEF HealthInv
<1>5. \/ UNCHANGED <<health, usage>> \/ RecordResults
      \/ \E type \in FailureTypes : RecordToolFailure(type)
      \/ \E p \in Providers : CooldownEnds(p)
  BY DEF Next, PrepareTarget, ReuseResults, SelectProvider, StartSearch, SkipStrategy,
     AskStrategy, HedgeFast, HedgeSlow, HedgeAnswered, HedgeFailed, FinishSearch, BingSearch,
     StandaloneSearch, DeadlinePasses, CircuitCloses, Restart
<1> QED
  BY <1>1, <1>2, <1>3, <1>4, <1>5

LEMMA UsageStep ==
  ASSUME IInv, Next
  PROVE  UsageInv'
<1> USE DEF IInv
<1>1. CASE UNCHANGED <<usage, executed, restarts>> /\ (pc' # "idle" => pc # "idle")
  BY <1>1 DEF UsageInv
<1>2. CASE \E f \in Families, fb \in BOOLEAN, n \in 0..1 : PrepareTarget(f, fb, n)
  BY <1>2 DEF PrepareTarget, UsageInv
<1>3. ASSUME NEW c \in Counters, NEW retried \in BOOLEAN, NEW b, pc # "idle", pc' = "idle",
             Charge(c, retried), MarkExecuted(b), restarts' = restarts
      PROVE  UsageInv'
  <2>1. usage.searches + 1 \in 0..MaxSearches /\ usage.retries \in 0..usage.searches
    BY <1>3, UsageFields, SearchAssumption DEF UsageInv
  <2>2. usage' \in Usages /\ usage'.retries <= usage'.searches
    BY <1>3, <2>1, UsageFields DEF Usages, Charge, Counters
  <2>3. executed' \subseteq Families
    BY <1>3 DEF MarkExecuted, UsageInv, TargetInv
  <2> QED
    BY <1>3, <2>2, <2>3 DEF UsageInv
<1>4. CASE RecordResults
  <2>1. Reported \in Counters
    BY DEF Reported, CountersInv, ZeroCounters, Counters
  <2> QED
    BY <1>3, <1>4, <2>1 DEF RecordResults, Done
<1>5. CASE \E type \in FailureTypes : RecordToolFailure(type)
  <2>1. Reported \in Counters
    BY DEF Reported, CountersInv, ZeroCounters, Counters
  <2>2. PICK type \in FailureTypes : RecordToolFailure(type)
    BY <1>5
  <2> QED
    BY <1>3, <2>1, <2>2 DEF RecordToolFailure, Done
<1>6. CASE Restart
  BY <1>6, SearchAssumption DEF Restart, Done, UsageInv
<1>7. \/ UNCHANGED <<usage, executed, restarts>> /\ (pc' # "idle" => pc # "idle")
      \/ \E f \in Families, fb \in BOOLEAN, n \in 0..1 : PrepareTarget(f, fb, n)
      \/ RecordResults \/ Restart \/ \E type \in FailureTypes : RecordToolFailure(type)
  BY DEF Next, ReuseResults, SelectProvider, StartSearch, SkipStrategy, AskStrategy,
     HedgeFast, HedgeSlow, HedgeAnswered, HedgeFailed, FinishSearch, BingSearch,
     StandaloneSearch, DeadlinePasses, CooldownEnds, CircuitCloses
<1> QED
  BY <1>1, <1>2, <1>4, <1>5, <1>6, <1>7

LEMMA AllowanceOf ==
  ASSUME UsageInv, usage.requests < MaxProviderRequests, NEW n \in 0..1
  PROVE  FairAllowance(MaxProviderRequests - usage.requests, n) \in Nat
<1> DEFINE m == MaxProviderRequests - usage.requests
           share == IF n = 0 THEN m ELSE IF m \div n = 0 THEN 1 ELSE m \div n
<1>1. m \in Nat \ {0}
  BY UsageFields, SearchAssumption
<1>2. share \in Nat
  <2>1. CASE n = 0
    BY <1>1, <2>1
  <2>2. CASE n = 1
    BY <1>1, <2>2
  <2> QED
    BY <2>1, <2>2
<1>3. FairAllowance(m, n) = Least({m, QueryCap, share})
  BY <1>1 DEF FairAllowance
<1> HIDE DEF m, share
<1>4. {m, QueryCap, share} \subseteq Nat /\ {m, QueryCap, share} # {}
  BY <1>1, <1>2, SearchAssumption
<1>5. Least({m, QueryCap, share}) \in Nat
  BY <1>4, LeastOf
<1> QED
  BY <1>3, <1>5 DEF m

(* The choice that the loop makes on its copy of the records is one it     *)
(* may run when the outcome is recorded.                                   *)
LEMMA ChoiceOk ==
  ASSUME HealthInv, UsageInv, TargetInv,
         SelectFor(ExpireCooldowns(health), target.feedback, {}, usage.retries) # NoProvider
  PROVE  LET choice == SelectFor(ExpireCooldowns(health), target.feedback, {}, usage.retries)
         IN  /\ choice \in Providers
             /\ ExpireCooldown(health[choice]).state \notin {"unavailable", "disabled"}
<1> DEFINE h == ExpireCooldowns(health)
           choice == SelectFor(h, target.feedback, {}, usage.retries)
<1>1. \A p \in Providers : h[p].state \in HealthStates /\ h[p] = ExpireCooldown(health[p])
  BY ExpiredOk DEF Records
<1>2. target.feedback \in BOOLEAN /\ usage.retries \in Nat
  BY UsageFields DEF TargetInv, Targets
<1> HIDE DEF h
<1>3. choice \in Providers /\ ~Blocked(h[choice].state)
  BY <1>1, <1>2, SelectsAvailable DEF h
<1>4. h[choice] = ExpireCooldown(health[choice])
  BY <1>1, <1>3
<1> QED
  BY <1>3, <1>4 DEF Blocked, h

LEMMA TargetStep ==
  ASSUME IInv, Next
  PROVE  TargetInv'
<1> USE DEF IInv
<1>1. ASSUME UNCHANGED <<health, target>>, pc' \in Locations,
             pc' # "idle" => pc # "idle", pc' \in Executing => pc \in Executing,
             pc' \in {"searching", "hedged"} => target.provider = "SearXNG",
             pc' = "stopped" => pc = "stopped"
      PROVE  TargetInv'
  BY <1>1 DEF TargetInv, ExecutesOnlyUnblocked, Executing
<1>2. ASSUME pc' = "idle", target' = NoTarget
      PROVE  TargetInv'
  <2>1. NoTarget \in Targets
    BY DEF NoTarget, Targets
  <2> QED
    BY <1>2, <2>1 DEF TargetInv, ExecutesOnlyUnblocked, Executing, Locations
<1>3. ASSUME NEW f \in Families, NEW fb \in BOOLEAN, NEW n \in 0..1, PrepareTarget(f, fb, n)
      PROVE  TargetInv'
  <2>1. PICK k \in Nat : target' = [family |-> f, feedback |-> fb, provider |-> NoProvider,
                                   allowance |-> k]
    BY <1>3, AllowanceOf DEF PrepareTarget
  <2>2. target' \in Targets /\ target'.family \in Families
    BY <2>1 DEF Targets
  <2> QED
    BY <1>3, <2>2 DEF PrepareTarget, TargetInv, ExecutesOnlyUnblocked, Executing, Locations
<1>4. CASE SelectProvider
  <2> DEFINE choice == SelectFor(ExpireCooldowns(health), target.feedback, {}, usage.retries)
  <2>1. /\ target' = [target EXCEPT !.provider = choice] /\ target \in Targets
        /\ pc = "prepared" /\ health' = health /\ target.family \in Families
        /\ pc' = IF choice = NoProvider THEN "stopped" ELSE "dispatched"
    BY <1>4 DEF SelectProvider, TargetInv
  <2>2. choice # NoProvider =>
          /\ choice \in Providers
          /\ ExpireCooldown(health[choice]).state \notin {"unavailable", "disabled"}
    BY ChoiceOk
  <2> HIDE DEF choice
  <2>3. /\ target' \in Targets /\ target'.family \in Families
        /\ target'.provider = choice
    BY <2>1, <2>2 DEF Targets
  <2> QED
    BY <2>1, <2>2, <2>3 DEF TargetInv, ExecutesOnlyUnblocked, Executing, Locations
<1>5. CASE \E p \in Providers : CooldownEnds(p)
  <2>1. PICK p \in Providers : CooldownEnds(p)
    BY <1>5
  <2>2. /\ health[p].window = "running" /\ UNCHANGED <<pc, target>>
        /\ health' = [health EXCEPT ![p].window = "over"]
    BY <2>1 DEF CooldownEnds
  <2>3. health \in [Providers -> Records] /\ RecordOk(health[p], usage.searches)
    BY DEF HealthInv
  <2>4. ASSUME NEW q \in Providers,
               ExpireCooldown(health[q]).state \notin {"unavailable", "disabled"}
        PROVE  ExpireCooldown(health'[q]).state \notin {"unavailable", "disabled"}
    <3>1. CASE q = p
      <4>1. health'[q] = [health[p] EXCEPT !.window = "over"] /\ health[p] \in Records
        BY <2>2, <2>3, <3>1
      <4>2. /\ health'[q].state = health[p].state /\ health'[q].window = "over"
            /\ health[p].state # "disabled"
        BY <2>2, <2>3, <4>1 DEF Records, RecordOk, Idle
      <4> QED
        BY <4>1, <4>2 DEF ExpireCooldown, Records
    <3>2. CASE q # p
      BY <2>2, <2>3, <2>4, <3>2
    <3> QED
      BY <3>1, <3>2
  <2> QED
    BY <2>2, <2>4 DEF TargetInv, ExecutesOnlyUnblocked, Executing
<1>6. \/ UNCHANGED <<health, target>> /\ pc' \in Locations
         /\ (pc' # "idle" => pc # "idle") /\ (pc' \in Executing => pc \in Executing)
         /\ (pc' \in {"searching", "hedged"} => target.provider = "SearXNG")
         /\ (pc' = "stopped" => pc = "stopped")
      \/ pc' = "idle" /\ target' = NoTarget
      \/ \E f \in Families, fb \in BOOLEAN, n \in 0..1 : PrepareTarget(f, fb, n)
      \/ SelectProvider \/ \E p \in Providers : CooldownEnds(p)
  BY DEF Next, ReuseResults, StartSearch, SkipStrategy, AskStrategy,
     HedgeFast, HedgeSlow, HedgeAnswered, HedgeFailed, FinishSearch, BingSearch,
     StandaloneSearch, DeadlinePasses, CircuitCloses, RecordResults, RecordToolFailure,
     Restart, Done, TargetInv, Executing, Locations
<1> QED
  BY <1>1, <1>2, <1>3, <1>4, <1>5, <1>6

LEMMA CountedAnswer ==
  ASSUME NEW c \in Counters, NEW a
  PROVE  CountAnswer(c, a) \in Counters /\ CountAnswer(c, a).requests = c.requests + 1
BY DEF CountAnswer, Counters

LEMMA CountersStep ==
  ASSUME IInv, Next
  PROVE  CountersInv'
<1> USE DEF IInv
<1>1. /\ last \in Counters /\ last.requests \in Nat /\ sent \in Nat /\ target.allowance \in Nat
      /\ ZeroCounters \in Counters /\ ZeroCounters.requests = 0
  BY DEF CountersInv, Counters, TargetInv, Targets, ZeroCounters
<1>2. ASSUME UNCHANGED <<last, target, sent>>,
             pc' \in {"prepared", "stopped", "dispatched"}
               => pc \in {"prepared", "stopped", "dispatched"},
             Searching' => Searching, pc' # "over" => pc # "over"
      PROVE  CountersInv'
  BY <1>2 DEF CountersInv
<1>3. ASSUME last' \in Counters, sent' \in Nat,
             pc' = "idle" \/ target'.provider # "SearXNG" \/ pc' \in {"prepared", "stopped", "dispatched"},
             pc' \in {"prepared", "stopped", "dispatched"} => sent' = 0
      PROVE  CountersInv'
  BY <1>3 DEF CountersInv, Searching
<1>4. ASSUME NEW k \in Nat, NEW c \in Counters, pc \in {"searching", "hedged"},
             pc' \in {"searching", "hedged", "found", "failed"}, target' = target,
             last' = c, c.requests = last.requests + k, sent' = sent + k,
             last.requests + k <= target.allowance
      PROVE  CountersInv'
  <2>1. Searching /\ target.provider = "SearXNG"
    BY <1>4 DEF Searching, TargetInv
  <2> QED
    BY <1>1, <1>4, <2>1 DEF CountersInv, Searching
<1>5. ASSUME NEW s \in BOOLEAN, StartSearch(s)
      PROVE  CountersInv'
  BY <1>1, <1>5 DEF StartSearch, CountersInv, Searching
<1>6. ASSUME NEW a, AskStrategy(a)
      PROVE  CountersInv'
  <2>1. last.requests + 1 <= target.allowance
    BY <1>1, <1>6 DEF AskStrategy, SearchEnds
  <2>2. /\ pc = "searching" /\ pc' \in {"searching", "failed"} /\ target' = target
        /\ last' = CountAnswer(last, a) /\ sent' = sent + 1
    BY <1>6 DEF AskStrategy, Leaves
  <2> QED
    BY <1>1, <1>4, <2>1, <2>2, CountedAnswer
<1>7. ASSUME NEW a, HedgeFast(a)
      PROVE  CountersInv'
  <2>1. last.requests + 1 <= target.allowance
    BY <1>1, <1>7 DEF HedgeFast, SearchEnds
  <2>2. /\ pc = "searching" /\ pc' = "searching" /\ target' = target
        /\ last' = CountAnswer(last, a) /\ sent' = sent + 1
    BY <1>7 DEF HedgeFast, Leaves
  <2> QED
    BY <1>1, <1>4, <2>1, <2>2, CountedAnswer
<1>8. CASE HedgeSlow
  <2>1. last.requests + 2 <= target.allowance
    BY <1>8 DEF HedgeSlow, MayHedge
  <2>2. /\ pc = "searching" /\ pc' = "hedged" /\ target' = target
        /\ last' = [last EXCEPT !.requests = @ + 2] /\ sent' = sent + 2
    BY <1>8 DEF HedgeSlow, Leaves
  <2>3. last' \in Counters /\ last'.requests = last.requests + 2
    BY <1>1, <2>2 DEF Counters
  <2> QED
    BY <1>1, <1>4, <2>1, <2>2, <2>3
<1>9. ASSUME NEW a1, NEW a2, HedgeAnswered(a1, a2)
      PROVE  CountersInv'
  <2> DEFINE c == CountAnswer(CountAnswer(last, a1), a2)
  <2>1. c \in Counters
    BY <1>1, CountedAnswer
  <2>2. /\ pc = "hedged" /\ pc' = "searching" /\ target' = target
        /\ last' = [c EXCEPT !.requests = last.requests] /\ sent' = sent
    BY <1>9 DEF HedgeAnswered
  <2> HIDE DEF c
  <2>3. last' \in Counters /\ last'.requests = last.requests
    BY <1>1, <2>1, <2>2 DEF Counters
  <2> QED
    BY <1>1, <2>2, <2>3 DEF CountersInv, Searching, TargetInv
<1>10. ASSUME NEW found \in BOOLEAN, BingSearch(found)
       PROVE  CountersInv'
  <2>1. /\ last' = [requests |-> last.requests + 1,
                    healthy    |-> last.healthy + (IF found THEN 1 ELSE 0),
                    productive |-> last.productive + (IF found THEN 1 ELSE 0)]
        /\ sent' = sent \/ sent' = sent + 1
        /\ pc' \in {"found", "failed"} /\ target' = target /\ target.provider = "Bing"
    BY <1>10 DEF BingSearch, DirectBing, Leaves
  <2>2. last' \in Counters
    BY <1>1, <2>1 DEF Counters
  <2> QED
    BY <1>1, <1>3, <2>1, <2>2
<1>11. CASE \E found \in BOOLEAN, r \in {"none", "raised"} : StandaloneSearch(found, r)
  BY <1>1, <1>3, <1>11 DEF StandaloneSearch, Leaves, Standalone
<1>12. CASE Restart
  BY <1>1, <1>3, <1>12 DEF Restart, Done
<1>13. CASE \E f \in Families, fb \in BOOLEAN, n \in 0..1 : PrepareTarget(f, fb, n)
  BY <1>1, <1>3, <1>13 DEF PrepareTarget
<1>14. CASE SelectProvider
  <2>1. pc = "prepared" /\ pc' \in {"stopped", "dispatched"} /\ last' = last /\ sent' = sent
    BY <1>14 DEF SelectProvider
  <2> QED
    BY <1>1, <1>3, <2>1 DEF CountersInv
<1>15. CASE ReuseResults \/ RecordResults \/ \E type \in FailureTypes : RecordToolFailure(type)
  <2>1. pc' = "idle" /\ last' = last /\ sent' = sent
    BY <1>15 DEF ReuseResults, RecordResults, RecordToolFailure, Done
  <2> QED
    BY <1>1, <1>3, <2>1
<1>16. CASE HedgeFailed \/ FinishSearch \/ SkipStrategy
  <2>1. /\ UNCHANGED <<last, target, sent>> /\ pc \in {"searching", "hedged"}
        /\ pc' \in {"searching", "found", "failed"}
    BY <1>16 DEF HedgeFailed, FinishSearch, SkipStrategy
  <2> QED
    BY <1>2, <2>1 DEF Searching
<1>17. CASE (\E p \in Providers : CooldownEnds(p)) \/ (\E k \in 1..Strategies : CircuitCloses(k))
  BY <1>2, <1>17 DEF CooldownEnds, CircuitCloses, Searching
<1>18. CASE DeadlinePasses
  <2>1. pc' = "over" /\ target' = target
    BY <1>18 DEF DeadlinePasses
  <2>2. /\ last' \in Counters /\ sent' \in Nat
    BY <1>1, <1>18 DEF DeadlinePasses, Unanswered, DirectBing, Leaves, Counters
  <2>3. ASSUME target.provider = "SearXNG" PROVE sent' <= target.allowance
    <3>1. sent <= target.allowance
      <4>1. CASE Searching
        BY <4>1 DEF CountersInv
      <4>2. CASE ~Searching
        <5>1. pc \in {"prepared", "dispatched"}
          BY <1>18, <2>3, <4>2 DEF DeadlinePasses, Searching
        <5> QED
          BY <1>1, <5>1 DEF CountersInv
      <4> QED
        BY <4>1, <4>2
    <3>2. CASE pc = "searching" /\ ~SearchEnds /\ sent' = sent + 1
      <4>1. sent = last.requests /\ ~(last.requests >= target.allowance)
        BY <2>3, <3>2 DEF CountersInv, Searching, SearchEnds
      <4> QED
        BY <1>1, <3>2, <4>1
    <3>3. sent' = sent \/ (pc = "searching" /\ ~SearchEnds /\ sent' = sent + 1)
      BY <1>18, <2>3 DEF DeadlinePasses, Unanswered, Standalone, Leaves
    <3> QED
      BY <3>1, <3>2, <3>3
  <2> QED
    BY <2>1, <2>2, <2>3 DEF CountersInv, Searching
<1> QED
  BY <1>5, <1>6, <1>7, <1>8, <1>9, <1>10, <1>11, <1>12, <1>13, <1>14, <1>15, <1>16, <1>17,
     <1>18 DEF Next

(* One more engine group asked: it is none of those before.                *)
LEMMA AskedOnce ==
  ASSUME NEW S, NEW s \in Seq(S), NEW x \in S,
         \A i \in DOMAIN s : s[i] # x,
         \A i, j \in DOMAIN s : i < j => s[i] # s[j]
  PROVE  /\ Append(s, x) \in Seq(S)
         /\ \A i \in DOMAIN Append(s, x) : Append(s, x)[i] = x \/ \E k \in DOMAIN s : Append(s, x)[i] = s[k]
         /\ \A i, j \in DOMAIN Append(s, x) : i < j => Append(s, x)[i] # Append(s, x)[j]
<1> DEFINE t == Append(s, x)
           n == Len(s)
<1>1. n \in Nat /\ DOMAIN s = 1..n
  BY LenProperties
<1>2. /\ t \in Seq(S) /\ Len(t) = n + 1 /\ t[n + 1] = x
      /\ \A i \in 1..n : t[i] = s[i]
  BY AppendProperties
<1> HIDE DEF t, n
<1>3. DOMAIN t = 1..(n + 1)
  BY <1>2, LenProperties
<1>4. \A i \in 1..(n + 1) : i \in 1..n \/ i = n + 1
  BY <1>1
<1>5. \A i \in DOMAIN t : t[i] = x \/ \E k \in DOMAIN s : t[i] = s[k]
  BY <1>1, <1>2, <1>3, <1>4, Zenon
<1>6. ASSUME NEW i \in DOMAIN t, NEW j \in DOMAIN t, i < j PROVE t[i] # t[j]
  <2>1. i \in 1..n
    BY <1>1, <1>3, <1>6
  <2>2. CASE j \in 1..n
    <3>1. t[i] = s[i] /\ t[j] = s[j] /\ s[i] # s[j]
      BY <1>1, <1>2, <1>6, <2>1, <2>2
    <3> QED
      BY <3>1
  <2>3. CASE j = n + 1
    BY <1>1, <1>2, <2>1, <2>3
  <2> QED
    BY <1>3, <1>4, <2>2, <2>3
<1> QED
  BY <1>2, <1>5, <1>6 DEF t

LEMMA SearchFields ==
  ASSUME AskedInv
  PROVE  /\ search.index \in Nat \ {0} /\ search.index <= Strategies + 1
         /\ search.results \in Nat /\ search.results <= Target + Target
         /\ Strategies \in Nat \ {0} /\ Target \in Nat \ {0}
         /\ \A i \in DOMAIN asked : asked[i] \in 1..Strategies
<1>1. \A i \in DOMAIN asked : asked[i] \in 1..Strategies
  <2>1. asked \in Seq(1..Strategies)
    BY DEF AskedInv
  <2>2. DOMAIN asked = 1..Len(asked)
    BY <2>1, LenProperties
  <2> QED
    BY <2>1, <2>2, ElementOfSeq, Zenon
<1> QED
  BY <1>1, SearchAssumption DEF AskedInv, Searches

LEMMA NoSearchOk ==
  /\ NoSearch \in Searches /\ NoSearch.index = 1 /\ NoSearch.skip = {}
  /\ NoSearch.results = 0 /\ ~NoSearch.bothFailed
BY SearchAssumption DEF NoSearch, Searches

(* The fields a step of the search sets.                                   *)
LEMMA SearchWith ==
  ASSUME NEW x \in Searches
  PROVE  /\ \A k \in 1..(Strategies + 1) :
              /\ [x EXCEPT !.index = k] \in Searches /\ [x EXCEPT !.index = k].index = k
              /\ [x EXCEPT !.index = k].skip = x.skip
              /\ [x EXCEPT !.index = k].results = x.results
              /\ [x EXCEPT !.index = k].bothFailed = x.bothFailed
         /\ \A n \in 0..(Target + Target) :
              /\ [x EXCEPT !.results = n] \in Searches /\ [x EXCEPT !.results = n].results = n
              /\ [x EXCEPT !.results = n].index = x.index
              /\ [x EXCEPT !.results = n].skip = x.skip
              /\ [x EXCEPT !.results = n].bothFailed = x.bothFailed
         /\ \A b \in BOOLEAN :
              /\ [x EXCEPT !.rejected = b] \in Searches /\ [x EXCEPT !.rejected = b].rejected = b
              /\ [x EXCEPT !.rejected = b].index = x.index
              /\ [x EXCEPT !.rejected = b].skip = x.skip
              /\ [x EXCEPT !.rejected = b].bothFailed = x.bothFailed
         /\ \A z \in SUBSET {2} :
              /\ [x EXCEPT !.skip = z] \in Searches /\ [x EXCEPT !.skip = z].skip = z
              /\ [x EXCEPT !.skip = z].index = x.index
              /\ [x EXCEPT !.skip = z].bothFailed = x.bothFailed
         /\ \A b \in BOOLEAN :
              /\ [x EXCEPT !.bothFailed = b] \in Searches /\ [x EXCEPT !.bothFailed = b].bothFailed = b
              /\ [x EXCEPT !.bothFailed = b].index = x.index
<1> DEFINE I == 1..(Strategies + 1)
           R == 0..(Target + Target)
           G == SUBSET (1..Strategies)
           Z == SUBSET {2}
<1>1. Searches = [index : I, skip : Z, results : R, shut : G, sameQuery : BOOLEAN,
                  bothFailed : BOOLEAN, rejected : BOOLEAN]
  BY DEF Searches
<1> HIDE DEF I, R, G, Z
<1>2. ASSUME NEW k \in I
      PROVE  /\ [x EXCEPT !.index = k] \in Searches /\ [x EXCEPT !.index = k].index = k
             /\ [x EXCEPT !.index = k].skip = x.skip
             /\ [x EXCEPT !.index = k].results = x.results
             /\ [x EXCEPT !.index = k].bothFailed = x.bothFailed
  BY <1>1
<1>3. ASSUME NEW n \in R
      PROVE  /\ [x EXCEPT !.results = n] \in Searches /\ [x EXCEPT !.results = n].results = n
             /\ [x EXCEPT !.results = n].index = x.index
             /\ [x EXCEPT !.results = n].skip = x.skip
             /\ [x EXCEPT !.results = n].bothFailed = x.bothFailed
  BY <1>1
<1>4. ASSUME NEW b \in BOOLEAN
      PROVE  /\ [x EXCEPT !.rejected = b] \in Searches /\ [x EXCEPT !.rejected = b].rejected = b
             /\ [x EXCEPT !.rejected = b].index = x.index
             /\ [x EXCEPT !.rejected = b].skip = x.skip
             /\ [x EXCEPT !.rejected = b].bothFailed = x.bothFailed
  BY <1>1
<1>5. ASSUME NEW z \in Z
      PROVE  /\ [x EXCEPT !.skip = z] \in Searches /\ [x EXCEPT !.skip = z].skip = z
             /\ [x EXCEPT !.skip = z].index = x.index
             /\ [x EXCEPT !.skip = z].bothFailed = x.bothFailed
  BY <1>1
<1>6. ASSUME NEW b \in BOOLEAN
      PROVE  /\ [x EXCEPT !.bothFailed = b] \in Searches /\ [x EXCEPT !.bothFailed = b].bothFailed = b
             /\ [x EXCEPT !.bothFailed = b].index = x.index
  BY <1>1
<1> QED
  BY <1>2, <1>3, <1>4, <1>5, <1>6 DEF I, R, Z

(* The group the loop is at is none of those it has asked.                 *)
LEMMA AskedNext ==
  ASSUME AskedInv, pc = "searching", search.index \in 1..Strategies,
         search.index \notin search.skip, asked' = Append(asked, search.index)
  PROVE  /\ asked' \in Seq(1..Strategies)
         /\ ~search.bothFailed =>
              /\ \A i \in DOMAIN asked : asked[i] < search.index \/ asked[i] \in search.skip
              /\ \A i \in DOMAIN asked' :
                    asked'[i] = search.index \/ \E k \in DOMAIN asked : asked'[i] = asked[k]
              /\ \A i, j \in DOMAIN asked' : i < j => asked'[i] # asked'[j]
<1>1. asked \in Seq(1..Strategies)
  BY DEF AskedInv
<1>2. asked' \in Seq(1..Strategies)
  BY <1>1, AppendProperties
<1>3. ASSUME ~search.bothFailed
      PROVE  /\ \A i \in DOMAIN asked : asked[i] < search.index \/ asked[i] \in search.skip
             /\ \A i \in DOMAIN asked : asked[i] # search.index
             /\ \A i, j \in DOMAIN asked : i < j => asked[i] # asked[j]
  <2>1. \A i \in DOMAIN asked : asked[i] < search.index \/ asked[i] \in search.skip
    BY <1>3 DEF AskedInv
  <2>2. \A i \in DOMAIN asked : asked[i] # search.index
    BY <2>1, SearchFields
  <2> QED
    BY <1>3, <2>1, <2>2 DEF AskedInv
<1>4. ASSUME ~search.bothFailed
      PROVE  /\ \A i \in DOMAIN asked' :
                   asked'[i] = search.index \/ \E k \in DOMAIN asked : asked'[i] = asked[k]
             /\ \A i, j \in DOMAIN asked' : i < j => asked'[i] # asked'[j]
  <2> DEFINE S == 1..Strategies
  <2>1. asked \in Seq(S) /\ search.index \in S
    BY <1>1
  <2> HIDE DEF S
  <2>2. /\ \A i \in DOMAIN asked : asked[i] # search.index
        /\ \A i, j \in DOMAIN asked : i < j => asked[i] # asked[j]
    BY <1>3, <1>4
  <2>3. asked' = Append(asked, search.index)
    OBVIOUS
  <2> QED
    BY <2>1, <2>2, <2>3, AskedOnce
<1> QED
  BY <1>2, <1>3, <1>4

LEMMA AskedStep ==
  ASSUME IInv, Next
  PROVE  AskedInv'
<1> USE DEF IInv
<1>1. /\ search \in Searches /\ circuit \subseteq 1..Strategies /\ asked \in Seq(1..Strategies)
      /\ Strategies \in Nat \ {0}
  BY SearchAssumption DEF AskedInv
<1>2. DOMAIN <<>> = {} /\ <<>> \in Seq(1..Strategies)
  BY EmptySeq
<1>3. ASSUME UNCHANGED <<search, asked>>, circuit' \subseteq 1..Strategies,
             pc' = pc \/ (pc = "searching" /\ pc' \in {"found", "failed"})
               \/ pc' = "idle"
               \/ (pc = "prepared" /\ pc' \in {"stopped", "dispatched"})
      PROVE  AskedInv'
  BY <1>3 DEF AskedInv
<1>4. ASSUME search' \in Searches, circuit' = circuit \/ circuit' = {},
             asked' = asked, pc' = "idle"
      PROVE  AskedInv'
  BY <1>4 DEF AskedInv
<1>5. ASSUME search' \in Searches, circuit' = circuit, asked' = <<>>,
             pc' \in {"prepared", "searching", "found", "failed"},
             pc' = "searching" => search'.skip = {}
      PROVE  AskedInv'
  BY <1>1, <1>2, <1>5 DEF AskedInv
<1>6. ASSUME NEW s \in BOOLEAN, StartSearch(s)
      PROVE  AskedInv'
  <2>1. /\ asked = <<>> /\ asked' = asked /\ circuit' = circuit /\ pc' = "searching"
        /\ search' = [NoSearch EXCEPT !.shut = circuit, !.sameQuery = s]
    BY <1>6 DEF StartSearch, AskedInv
  <2>2. search' \in Searches /\ search'.skip = {}
    BY <1>1, <1>6, <2>1, NoSearchOk DEF Searches
  <2> QED
    BY <1>5, <2>1, <2>2
<1>7. CASE SkipStrategy
  <2>1. /\ pc = "searching" /\ pc' = "searching" /\ UNCHANGED <<asked, circuit>>
        /\ search' = [search EXCEPT !.index = @ + 1] /\ ~(search.index > Strategies)
    BY <1>7 DEF SkipStrategy, SearchEnds
  <2>2. /\ search' \in Searches /\ search'.index = search.index + 1
        /\ search'.skip = search.skip /\ search'.bothFailed = search.bothFailed
    <3> DEFINE k == search.index + 1
    <3>1. k \in 1..(Strategies + 1) /\ search' = [search EXCEPT !.index = k]
      BY <2>1, SearchFields
    <3> HIDE DEF k
    <3>2. search \in Searches
      BY <1>1
    <3> QED
      BY <3>1, <3>2, SearchWith DEF k
  <2>3. ~search.bothFailed => \A i \in DOMAIN asked :
          asked[i] < search.index + 1 \/ asked[i] \in search.skip
    BY <1>1, <2>1, SearchFields DEF AskedInv
  <2>4. search'.index # 1
    BY <2>2, SearchFields
  <2> QED
    BY <1>1, <2>1, <2>2, <2>3, <2>4 DEF AskedInv
<1>8. ASSUME pc = "searching", search' \in Searches, circuit' \subseteq 1..Strategies,
             search.index \in 1..Strategies, search.index \notin search.skip,
             search'.bothFailed = search.bothFailed, search'.skip = search.skip,
             search'.index = search.index + 1, asked' = Append(asked, search.index),
             pc' \in {"searching", "failed"}
      PROVE  AskedInv'
  <2>1. /\ asked' \in Seq(1..Strategies)
        /\ ~search.bothFailed =>
             /\ \A i \in DOMAIN asked : asked[i] < search.index \/ asked[i] \in search.skip
             /\ \A i \in DOMAIN asked' :
                   asked'[i] = search.index \/ \E k \in DOMAIN asked : asked'[i] = asked[k]
             /\ \A i, j \in DOMAIN asked' : i < j => asked'[i] # asked'[j]
    BY <1>8, AskedNext
  <2>4. ~search.bothFailed =>
          \A i \in DOMAIN asked' : asked'[i] < search.index + 1 \/ asked'[i] \in search.skip
    <3>1. SUFFICES ASSUME ~search.bothFailed, NEW i \in DOMAIN asked'
                   PROVE  asked'[i] < search.index + 1 \/ asked'[i] \in search.skip
      OBVIOUS
    <3>2. CASE asked'[i] = search.index
      BY <1>8, <3>2
    <3>3. CASE \E k \in DOMAIN asked : asked'[i] = asked[k]
      BY <1>8, <2>1, <3>1, <3>3, SearchFields
    <3> QED
      BY <2>1, <3>1, <3>2, <3>3
  <2>5. search'.index # 1
    BY <1>8
  <2> QED
    BY <1>8, <2>1, <2>4, <2>5 DEF AskedInv
<1>9. ASSUME NEW a \in Answers, AskStrategy(a)
      PROVE  AskedInv'
  <2>1. /\ pc = "searching" /\ ~(search.index > Strategies) /\ ~(search.results >= Target)
        /\ search.index \notin search.skip
        /\ search' = [search EXCEPT !.index = @ + 1, !.results = @ + a.added,
                                   !.rejected = a.kind = "rejected"]
        /\ asked' = Append(asked, search.index)
        /\ pc' \in {"searching", "failed"}
        /\ circuit' = circuit \/ circuit' = circuit \union {search.index}
    BY <1>9 DEF AskStrategy, SearchEnds, StrategySkipped
  <2>2. a.added \in 0..Target
    BY SearchFields DEF Answers
  <2>3. search.index \in 1..Strategies /\ search.results + a.added \in 0..(Target + Target)
    BY <2>1, <2>2, SearchFields
  <2>4. circuit' \subseteq 1..Strategies
    BY <1>1, <2>1, <2>3
  <2>5. /\ search' \in Searches /\ search'.index = search.index + 1
        /\ search'.skip = search.skip /\ search'.bothFailed = search.bothFailed
    <3> DEFINE k == search.index + 1
               n == search.results + a.added
               b == a.kind = "rejected"
               x1 == [search EXCEPT !.index = k]
               x2 == [x1 EXCEPT !.results = n]
    <3>1. search' = [x2 EXCEPT !.rejected = b] /\ search \in Searches
      BY <1>1, <2>1, SearchWith
    <3>2. k \in 1..(Strategies + 1) /\ n \in 0..(Target + Target) /\ b \in BOOLEAN
      BY <2>3, SearchAssumption
    <3> HIDE DEF k, n, b
    <3>3. /\ x1 \in Searches /\ x1.index = k
          /\ x1.skip = search.skip /\ x1.bothFailed = search.bothFailed
      BY <3>1, <3>2, SearchWith
    <3> HIDE DEF x1
    <3>4. /\ x2 \in Searches /\ x2.index = k
          /\ x2.skip = search.skip /\ x2.bothFailed = search.bothFailed
      BY <3>2, <3>3, SearchWith
    <3> HIDE DEF x2
    <3> QED
      BY <3>1, <3>2, <3>4, SearchWith DEF k
  <2> QED
    BY <1>8, <2>1, <2>3, <2>4, <2>5
<1>10. ASSUME NEW a \in Answers, HedgeFast(a)
       PROVE  AskedInv'
  <2>1. /\ pc = "searching" /\ ~(search.results >= Target) /\ search.index = 1
        /\ search.index \notin search.skip
        /\ search' = [search EXCEPT !.index = 2, !.results = @ + a.added]
        /\ asked' = Append(asked, 1) /\ pc' = pc
        /\ circuit' = circuit \/ circuit' = circuit \union {1}
    BY <1>10 DEF HedgeFast, SearchEnds, StrategySkipped, MayHedge
  <2>2. a.added \in 0..Target
    BY SearchFields DEF Answers
  <2>3. search.index \in 1..Strategies /\ search.results + a.added \in 0..(Target + Target)
    BY <2>1, <2>2, SearchFields
  <2>4. circuit' \subseteq 1..Strategies
    BY <1>1, <2>1, <2>3
  <2>5. /\ search' \in Searches /\ search'.index = search.index + 1
        /\ search'.skip = search.skip /\ search'.bothFailed = search.bothFailed
    <3> DEFINE n == search.results + a.added
               x1 == [search EXCEPT !.index = 2]
    <3>1. search' = [x1 EXCEPT !.results = n] /\ search \in Searches
      BY <1>1, <2>1, SearchWith
    <3>2. 2 \in 1..(Strategies + 1) /\ n \in 0..(Target + Target) /\ search.index + 1 = 2
      BY <2>1, <2>3, SearchAssumption
    <3> HIDE DEF n
    <3>3. /\ x1 \in Searches /\ x1.index = 2
          /\ x1.skip = search.skip /\ x1.bothFailed = search.bothFailed
      BY <3>1, <3>2, SearchWith
    <3> HIDE DEF x1
    <3> QED
      BY <3>1, <3>2, <3>3, SearchWith
  <2> QED
    BY <1>8, <2>1, <2>3, <2>4, <2>5
<1>11. CASE HedgeSlow
  <2>1. /\ pc = "searching" /\ ~(search.results >= Target) /\ search.index = 1
        /\ Strategies > 1 /\ UNCHANGED <<search, circuit>> /\ pc' = "hedged"
        /\ asked' = asked \o <<1, 2>>
    BY <1>11 DEF HedgeSlow, SearchEnds, MayHedge
  <2>2. <<1, 2>> \in Seq(1..Strategies)
    BY <2>1, SearchFields
  <2>3. asked' \in Seq(1..Strategies)
    BY <1>1, <2>1, <2>2, ConcatProperties
  <2>4. search.skip = {}
    BY <2>1 DEF AskedInv
  <2>5. ~search.bothFailed => asked = <<>>
    <3>1. SUFFICES ASSUME ~search.bothFailed PROVE asked = <<>>
      OBVIOUS
    <3>2. \A i \in DOMAIN asked : asked[i] < 1 /\ asked[i] \in 1..Strategies
      BY <2>1, <2>4, <3>1, SearchFields DEF AskedInv
    <3>3. DOMAIN asked = {}
      BY <1>1, <3>2
    <3> QED
      BY <1>1, <3>3, EmptySeq, LenProperties
  <2>6. ~search.bothFailed => asked' = <<1, 2>>
    BY <2>1, <2>2, <2>5, ConcatEmptySeq
  <2>7. /\ DOMAIN <<1, 2>> = {1, 2} /\ <<1, 2>>[1] = 1 /\ <<1, 2>>[2] = 2
    OBVIOUS
  <2>8. ~search.bothFailed =>
          /\ \A i \in DOMAIN asked' : asked'[i] \in {1, 2}
          /\ \A i, j \in DOMAIN asked' : i < j => asked'[i] # asked'[j]
    BY <2>6, <2>7
  <2>9. search.results < Target
    BY <2>1, SearchFields
  <2> QED
    BY <1>1, <2>1, <2>3, <2>8, <2>9 DEF AskedInv
<1>12. ASSUME NEW a1 \in Answers \union {Cancelled}, NEW a2 \in Answers \union {Cancelled},
              HedgeAnswered(a1, a2)
       PROVE  AskedInv'
  <2>1. PICK page \in {a1, a2} :
          /\ search' = [search EXCEPT !.index = 2, !.results = @ + page.added, !.skip = {2}]
          /\ circuit' = circuit
                \union {k \in 1..2 : <<a1, a2>>[k].kind = "unresponsive"}
                \union (IF page.kind = "unresponsive" THEN {1} ELSE {})
    BY <1>12 DEF HedgeAnswered, Pages, UsablePages
  <2>2. pc = "hedged" /\ pc' = "searching" /\ asked' = asked
    BY <1>12 DEF HedgeAnswered
  <2>3. Strategies > 1 /\ search.results < Target
    BY <2>2 DEF AskedInv
  <2>4. page.added \in 0..Target
    BY SearchFields DEF Answers, Cancelled
  <2>5. search.results + page.added \in 0..(Target + Target)
    BY <2>3, <2>4, SearchFields
  <2>6. /\ search' \in Searches /\ search'.index = 2 /\ search'.skip = {2}
        /\ search'.bothFailed = search.bothFailed
    <3> DEFINE n == search.results + page.added
               x1 == [search EXCEPT !.index = 2]
               x2 == [x1 EXCEPT !.results = n]
    <3> DEFINE z == {2}
    <3>1. search' = [x2 EXCEPT !.skip = z] /\ search \in Searches
      BY <1>1, <2>1
    <3>2. 2 \in 1..(Strategies + 1) /\ n \in 0..(Target + Target) /\ z \in SUBSET {2}
      BY <2>3, <2>5, SearchFields
    <3> HIDE DEF n, z
    <3>3. x1 \in Searches /\ x1.index = 2 /\ x1.bothFailed = search.bothFailed
      BY <3>1, <3>2, SearchWith
    <3> HIDE DEF x1
    <3>4. x2 \in Searches /\ x2.index = 2 /\ x2.bothFailed = search.bothFailed
      BY <3>2, <3>3, SearchWith
    <3> HIDE DEF x2
    <3>5. search' \in Searches /\ search'.index = 2 /\ search'.skip = z
      BY <3>1, <3>2, <3>4, SearchWith
    <3>6. search'.bothFailed = search.bothFailed
      BY <3>1, <3>2, <3>4, SearchWith
    <3> QED
      BY <3>5, <3>6 DEF z
  <2>7. circuit' \subseteq 1..Strategies
    <3>1. {k \in 1..2 : <<a1, a2>>[k].kind = "unresponsive"} \subseteq 1..Strategies
      BY <1>1, <2>3
    <3>2. (IF page.kind = "unresponsive" THEN {1} ELSE {}) \subseteq 1..Strategies
      BY <1>1, <2>3
    <3> QED
      BY <1>1, <2>1, <3>1, <3>2, Zenon
  <2>8. ~search.bothFailed => \A i \in DOMAIN asked : asked[i] < 2 \/ asked[i] \in {2}
    BY <2>2 DEF AskedInv
  <2> QED
    BY <1>1, <2>2, <2>6, <2>7, <2>8 DEF AskedInv
<1>13. CASE HedgeFailed
  <2>1. /\ pc = "hedged" /\ pc' = "searching" /\ asked' = asked
        /\ circuit' = circuit \union {1}
        /\ search' = [search EXCEPT !.index = 2, !.bothFailed = TRUE]
    BY <1>13 DEF HedgeFailed
  <2>2. search' \in Searches /\ search'.index = 2 /\ search'.bothFailed
    <3> DEFINE x1 == [search EXCEPT !.index = 2]
    <3>1. search' = [x1 EXCEPT !.bothFailed = TRUE] /\ search \in Searches
      BY <1>1, <2>1
    <3>2. 2 \in 1..(Strategies + 1)
      BY <1>1
    <3>3. x1 \in Searches /\ x1.index = 2
      BY <3>1, <3>2, SearchWith
    <3> HIDE DEF x1
    <3> QED
      BY <3>1, <3>3, SearchWith
  <2>3. circuit' \subseteq 1..Strategies
    BY <1>1, <2>1
  <2> QED
    BY <1>1, <2>1, <2>2, <2>3 DEF AskedInv
<1>14. ASSUME NEW found \in BOOLEAN, BingSearch(found)
       PROVE  AskedInv'
  <2>1. /\ asked = <<>> /\ asked' = asked /\ circuit' = circuit /\ pc' \in {"found", "failed"}
        /\ search' = [NoSearch EXCEPT !.results = IF found THEN 1 ELSE 0]
    BY <1>14 DEF BingSearch, AskedInv
  <2>2. search' \in Searches
    BY <2>1, NoSearchOk, SearchAssumption DEF Searches
  <2> QED
    BY <1>5, <2>1, <2>2
<1>15. ASSUME NEW found \in BOOLEAN, NEW r, StandaloneSearch(found, r)
       PROVE  AskedInv'
  <2>1. /\ asked = <<>> /\ asked' = asked /\ circuit' = circuit /\ pc' \in {"found", "failed"}
        /\ \/ search' = [NoSearch EXCEPT !.results = IF found THEN 1 ELSE 0]
           \/ search' = NoSearch
    BY <1>15 DEF StandaloneSearch, AskedInv
  <2>2. search' \in Searches
    BY <2>1, NoSearchOk, SearchAssumption DEF Searches
  <2> QED
    BY <1>5, <2>1, <2>2
<1>16. CASE \E f \in Families, fb \in BOOLEAN, n \in 0..1 : PrepareTarget(f, fb, n)
  BY <1>1, <1>5, <1>16 DEF PrepareTarget
<1>17. CASE RecordResults \/ Restart \/ \E type \in FailureTypes : RecordToolFailure(type)
  BY <1>1, <1>4, <1>17, NoSearchOk DEF RecordResults, RecordToolFailure, Restart, Done
<1>18. CASE ReuseResults \/ SelectProvider \/ FinishSearch
  BY <1>1, <1>3, <1>18 DEF ReuseResults, SelectProvider, FinishSearch
<1>19. CASE (\E p \in Providers : CooldownEnds(p)) \/ (\E k \in 1..Strategies : CircuitCloses(k))
  BY <1>1, <1>3, <1>19 DEF CooldownEnds, CircuitCloses
<1>20. CASE DeadlinePasses
  <2>1. /\ search' = search /\ circuit' = circuit /\ pc' = "over" /\ pc # "idle"
    BY <1>20 DEF DeadlinePasses
  <2>2. CASE asked' = asked
    BY <1>1, <2>1, <2>2 DEF AskedInv
  <2>3. CASE /\ pc = "searching" /\ ~SearchEnds /\ ~StrategySkipped
             /\ asked' = Append(asked, search.index)
    <3>1. search.index \in 1..Strategies /\ search.index \notin search.skip
      BY <2>3, SearchFields DEF SearchEnds, StrategySkipped
    <3>2. /\ asked' \in Seq(1..Strategies)
          /\ ~search.bothFailed => \A i, j \in DOMAIN asked' : i < j => asked'[i] # asked'[j]
      BY <2>3, <3>1, AskedNext
    <3> QED
      BY <1>1, <2>1, <3>2 DEF AskedInv
  <2> QED
    BY <1>20, <2>2, <2>3 DEF DeadlinePasses, Unanswered
<1> QED
  BY <1>6, <1>7, <1>9, <1>10, <1>11, <1>12, <1>13, <1>14, <1>15, <1>16, <1>17, <1>18, <1>19,
     <1>20 DEF Next

LEMMA IInvInitially == Init => IInv
<1> SUFFICES ASSUME Init PROVE IInv
  OBVIOUS
<1>1. HealthInv
  <2>1. RecordOk(NewRecord, 0) /\ NewRecord \in Records
    BY NewRecordOk, RecordIn
  <2> QED
    BY <2>1 DEF Init, HealthInv
<1>2. UsageInv
  BY SearchAssumption DEF Init, UsageInv, Usages
<1>3. TargetInv
  BY DEF Init, TargetInv, Targets, NoTarget, Executing, Locations, ExecutesOnlyUnblocked
<1>4. CountersInv
  BY DEF Init, CountersInv, Counters, ZeroCounters, Searching
<1>5. AskedInv
  BY NoSearchOk, EmptySeq, SearchAssumption DEF Init, AskedInv
<1> QED
  BY <1>1, <1>2, <1>3, <1>4, <1>5 DEF IInv

LEMMA IInvStep == IInv /\ [Next]_vars => IInv'
<1>1. IInv /\ Next => IInv'
  BY HealthStep, UsageStep, TargetStep, CountersStep, AskedStep DEF IInv
<1>2. IInv /\ UNCHANGED vars => IInv'
  BY DEF vars, IInv, HealthInv, UsageInv, TargetInv, CountersInv, AskedInv, Searching,
     ExecutesOnlyUnblocked
<1> QED
  BY <1>1, <1>2

LEMMA IInvImpliesSound == IInv => SearchSound
<1> SUFFICES ASSUME IInv PROVE SearchSound
  OBVIOUS
<1>1. health \in [Providers -> HealthRecords(MaxSearches)]
  <2>1. ASSUME NEW p \in Providers PROVE health[p] \in HealthRecords(MaxSearches)
    <3> DEFINE r == health[p]
               n == usage.searches
    <3>1. RecordOk(r, n) /\ n \in Nat /\ n <= MaxSearches /\ MaxSearches \in Nat
      BY UsageFields, SearchAssumption DEF IInv, HealthInv
    <3> HIDE DEF r, n
    <3>2. r.streak \in 0..MaxSearches /\ r.probes \in 0..MaxSearches
      BY <3>1 DEF RecordOk
    <3>3. r \in HealthRecords(MaxSearches)
      BY <3>1, <3>2 DEF RecordOk, HealthRecords
    <3> QED
      BY <3>3 DEF r
  <2> QED
    BY <2>1 DEF IInv, HealthInv
<1>2. usage \in [searches : 0..MaxSearches, requests : Nat, retries : 0..MaxSearches]
  <2>1. usage \in Usages /\ usage.retries \in 0..MaxSearches
    BY UsageFields, SearchAssumption DEF IInv, UsageInv
  <2> QED
    BY <2>1 DEF Usages
<1>3. TypeOK
  <2>1. search.index \in 1..(Strategies + 1) /\ search.results \in 0..(Target + Target)
    BY DEF IInv, AskedInv, Searches
  <2>2. target.family \in Families \union {"none"} /\ target.provider \in Providers \union {NoProvider}
    BY DEF IInv, TargetInv, Targets
  <2> QED
    BY <1>1, <1>2, <2>1, <2>2
       DEF IInv, TypeOK, UsageInv, TargetInv, CountersInv, AskedInv
<1>4. RequestsWithinAllowance
  BY DEF IInv, CountersInv, RequestsWithinAllowance
<1>5. RepeatsOnlyAfterFailedHedge
  BY DEF IInv, AskedInv, RepeatsOnlyAfterFailedHedge
<1>6. WindowAgreesWithState
  BY DEF IInv, HealthInv, RecordOk, Idle, WindowAgreesWithState
<1> QED
  BY <1>3, <1>4, <1>5, <1>6 DEF SearchSound, IInv, TargetInv

(* A search of the shared object leaves in its counters what it sent, and  *)
(* they are what the recording transaction adds; nothing else but a crash  *)
(* and the deadline ends an attempt.                                       *)
LEMMA ChargedStep ==
  ASSUME IInv, [Next]_vars, target.provider = "SearXNG",
         pc \in {"dispatched", "searching", "hedged", "found", "failed"}, pc' \in {"idle", "over"}
  PROVE  \/ usage'.searches = usage.searches + 1 /\ usage'.requests = usage.requests + sent
         \/ usage' = usage /\ (restarts' # restarts \/ pc' = "over")
<1>1. CASE RecordResults \/ \E type \in FailureTypes : RecordToolFailure(type)
  <2>1. pc \in {"found", "failed"}
    BY <1>1 DEF RecordResults, RecordToolFailure
  <2>2. sent = last.requests
    BY <2>1 DEF IInv, CountersInv, Searching
  <2>3. Reported = last
    BY DEF Reported, Standalone
  <2>4. usage'.searches = usage.searches + 1 /\ usage'.requests = usage.requests + last.requests
    BY <1>1, <2>3 DEF RecordResults, RecordToolFailure, Charge
  <2> QED
    BY <2>2, <2>4
<1>2. CASE Restart
  BY <1>2, SearchAssumption DEF Restart, IInv, UsageInv
<1>3. CASE DeadlinePasses
  BY <1>3 DEF DeadlinePasses
<1> QED
  BY <1>1, <1>2, <1>3 DEF Next, vars, PrepareTarget, ReuseResults, SelectProvider, StartSearch,
     SkipStrategy, AskStrategy, HedgeFast, HedgeSlow, HedgeAnswered, HedgeFailed,
     FinishSearch, BingSearch, StandaloneSearch, CooldownEnds, CircuitCloses

(* A disabled provider is not selected, so no outcome is its own; only a   *)
(* routing stop reaches its record, and that is the primary's.             *)
LEMMA DisabledStep ==
  ASSUME IInv, [Next]_vars, NEW p \in Providers,
         health[p].state = "disabled", health'[p].state # "disabled"
  PROVE  p = Primary /\ pc = "stopped"
<1> USE DEF IInv
<1>1. health' # health
  OBVIOUS
<1>2. ExpireCooldown(health[p]).state = "disabled"
  BY DEF ExpireCooldown
<1>3. ASSUME NEW q \in Providers, NEW r, q # p
      PROVE  [ExpireCooldowns(health) EXCEPT ![q] = r][p].state = "disabled"
  BY <1>2, <1>3, ExpiredOk
<1>4. pc \in Executing => target.provider # p
  BY <1>2 DEF TargetInv, ExecutesOnlyUnblocked, Executing
<1>5. ~RecordResults
  <2> SUFFICES ASSUME RecordResults PROVE FALSE
    OBVIOUS
  <2>1. /\ health' = HealthAfterSuccess(target.provider) /\ pc = "found"
    BY <1>1 DEF RecordResults
  <2>2. target.provider \in Providers /\ target.provider # p
    BY <1>4, <2>1 DEF TargetInv, Executing
  <2> QED
    BY <1>3, <2>1, <2>2 DEF HealthAfterSuccess
<1>6. ASSUME NEW q \in Providers, CooldownEnds(q) PROVE FALSE
  <2>1. /\ health[q].window = "running" /\ health' = [health EXCEPT ![q].window = "over"]
    BY <1>6 DEF CooldownEnds
  <2>2. q # p
    BY <2>1 DEF HealthInv, RecordOk, Idle
  <2> QED
    BY <2>1, <2>2 DEF HealthInv
<1>7. ASSUME NEW type, RecordToolFailure(type) PROVE p = Primary /\ pc = "stopped"
  <2> DEFINE q == IF target.provider \in Providers THEN target.provider ELSE Primary
  <2>1. /\ pc \in {"failed", "stopped"} /\ q \in Providers
        /\ health' = [ExpireCooldowns(health) EXCEPT
                        ![q] = RecordFailure(ExpireCooldowns(health)[q], type)]
    BY <1>7, ProviderNames DEF RecordToolFailure, HealthAfterFailure
  <2>2. q = p
    BY <1>3, <2>1
  <2>3. pc # "failed"
    BY <1>4, <2>2 DEF TargetInv, Executing
  <2>4. pc = "stopped" => target.provider \notin Providers
    BY ProviderNames DEF TargetInv
  <2> QED
    BY <2>1, <2>2, <2>3, <2>4
<1> QED
  BY <1>1, <1>5, <1>6, <1>7 DEF Next, vars, PrepareTarget, ReuseResults, SelectProvider,
     StartSearch, SkipStrategy, AskStrategy, HedgeFast, HedgeSlow, HedgeAnswered,
     HedgeFailed, FinishSearch, BingSearch, StandaloneSearch, DeadlinePasses, CircuitCloses, Restart

-----------------------------------------------------------------------------
(* A search keeps to its allowance, asks no engine group in vain, runs on  *)
(* a provider that may run, and leaves records the next transaction can    *)
(* rely on, whatever providers, engine groups, thresholds and allowances   *)
(* are configured (SearXNGSearchProvider.search, record_tool_failure).     *)
THEOREM SearchStaysSound == Spec => []SearchSound
<1>1. Spec => []IInv
  BY IInvInitially, IInvStep, PTL DEF Spec
<1> QED
  BY <1>1, IInvImpliesSound, PTL

(* The run is charged what a search of the shared object sent, unless a    *)
(* crash or the deadline cuts the attempt off, and a disabled provider     *)
(* stays disabled but for the primary, which a routing stop is charged to  *)
(* (record_search_results, record_tool_failure, _research_target).         *)
THEOREM OutcomesAreRecorded == Spec => OutcomesRecorded
<1>1. Spec => []IInv
  BY IInvInitially, IInvStep, PTL DEF Spec
<1>2. IInv /\ [Next]_vars =>
        [target.provider = "SearXNG" /\ pc \in {"dispatched", "searching", "hedged", "found", "failed"}
           /\ pc' \in {"idle", "over"}
         => \/ usage'.searches = usage.searches + 1 /\ usage'.requests = usage.requests + sent
            \/ usage' = usage /\ (restarts' # restarts \/ pc' = "over")]_vars
  BY ChargedStep
<1>3. IInv /\ [Next]_vars =>
        [\A p \in Providers :
           health[p].state = "disabled" /\ health'[p].state # "disabled"
             => p = Primary /\ pc = "stopped"]_vars
  BY DisabledStep
<1>4. Spec => SearXNGChargedOrCutOff
  BY <1>1, <1>2, PTL DEF Spec, SearXNGChargedOrCutOff
<1>5. Spec => DisabledUntilRoutingStop
  BY <1>1, <1>3, PTL DEF Spec, DisabledUntilRoutingStop
<1> QED
  BY <1>4, <1>5 DEF OutcomesRecorded

==============================================================================
