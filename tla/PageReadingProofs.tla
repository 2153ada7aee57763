-------------------------- MODULE PageReadingProofs --------------------------
(***************************************************************************)
(* Proofs about PageReading: the permits of concurrent reads, the record   *)
(* every read leaves, and what a page may cost, for all questions, pages,  *)
(* redirects, result lists and limits.                                     *)
(***************************************************************************)
EXTENDS PageReading, FiniteSetTheorems, SequenceTheorems, WellFoundedInduction, TLAPS

--------------------------------------------------------------------------------
(* The inductive invariant                                                     *)

Attempt == [q: Questions, results: Seq(Urls), batch: Seq(Urls), reusable: SUBSET Pages,
            index: Nat \ {0}, url: Urls \cup {NoUrl}, page: Urls \cup {NoUrl},
            pagesRead: 0..PageLimit, accepted: BOOLEAN, structured: Nat, zero: Nat]
Reads == [Urls -> {"none", "host", "global", "fetch"} \cup Finished]
Permits == [host: SUBSET Urls, slot: SUBSET Urls, queue: Seq(Urls)]
Store == [snapshots: SUBSET Pages, processed: [Questions -> SUBSET Pages],
          cache: SUBSET (Questions \X Pages), extracted: Nat, reserved: Nat]
Surroundings == [run: {"active", "failed"}, deadline: BOOLEAN, attempts: Nat, crashes: Nat]
History == [unaudited: SUBSET Urls, lost: SUBSET Urls, recorded: SUBSET (Questions \X Pages),
            again: SUBSET (Questions \X Pages), cut: SUBSET (Questions \X Pages),
            repaid: SUBSET (Questions \X Pages)]

Typed ==
    /\ pc \in {"idle", "reading", "recording", "loop", "extracting", "storing"}
    /\ att \in Attempt /\ read \in Reads /\ permits \in Permits
    /\ store \in Store /\ store.extracted + store.reserved <= MaxExtracted
    /\ env \in Surroundings /\ hist \in History

(* A fetch, and nothing else, holds a slot; it keeps the host permit it    *)
(* had while it waited for the slot.                                       *)
PermitsInv ==
    /\ IsFiniteSet(permits.host)
    /\ \A u \in Urls : u \in permits.slot <=> read[u] = "fetch"
    /\ \A u \in Urls : read[u] \in {"global", "fetch"} => u \in permits.host
    /\ Cardinality(permits.slot) <= MaxConcurrency
    /\ \A u \in Urls : Cardinality(HostHolders(HostOf[u])) <= MaxSameHost

(* Only URLs of the batch are read, those that wait for a slot are in the  *)
(* queue, only a reachable document becomes a page, and no read is still   *)
(* under way when the batch is over.                                       *)
ReadsInv ==
    \A u \in Urls :
        /\ read[u] # "none" => u \in Range(att.batch)
        /\ read[u] = "global" => \E i \in DOMAIN permits.queue : permits.queue[i] = u
        /\ read[u] = "page" => Reachable(u)
        /\ pc # "reading" => read[u] \in {"none"} \cup Finished

(* While a batch is read or recorded there is one, and a read that is not  *)
(* recorded yet stands at the recorder's index or behind it.               *)
AuditInv ==
    /\ pc \in {"reading", "recording"} => att.batch # <<>>
    /\ pc = "reading" => hist.unaudited \subseteq Range(att.batch)
    /\ pc = "recording" =>
         /\ att.index <= Len(att.batch)
         /\ \A u \in hist.unaudited : \E i \in DOMAIN att.batch : i >= att.index /\ att.batch[i] = u
    /\ pc \notin {"reading", "recording"} => hist.unaudited = {}

(* The page the loop works on: a document, read within the limit; once it  *)
(* is extracted a slot is held for it, and it is new to the question.      *)
PageInv ==
    /\ att.url # NoUrl => att.page \in Pages
    /\ pc \in {"idle", "reading", "recording"} => att.url = NoUrl
    /\ pc = "loop" /\ att.url # NoUrl => att.pagesRead < PageLimit
    /\ pc \in {"extracting", "storing"} =>
         /\ att.url # NoUrl
         /\ att.page \notin store.processed[att.q]
         /\ store.reserved > 0
    /\ pc = "extracting" => <<att.q, att.page>> \notin store.cache /\ ext.max >= LeastCall

(* What is recorded is processed; a lost read has ended its execution.     *)
HistoryInv ==
    /\ \A q \in Questions, p \in Pages : <<q, p>> \in hist.recorded => p \in store.processed[q]
    /\ hist.cut \subseteq hist.recorded
    /\ hist.again = {} /\ hist.repaid = {}
    /\ env.run = "active" /\ env.crashes = 0 => hist.lost = {}

(* How often an extraction has called, and what its next call may cost.    *)
Calling == {"first", "compact", "repair", "rescue"}

ExtractionInv(x) ==
    /\ x \in [phase: Phases, max: Nat, cap: Nat, known: BOOLEAN, reported: Nat, calls: Nat,
              fallback: BOOLEAN, batch: {x.batch}, code: {x.code}]
    /\ x.reported <= x.max /\ (~x.known => x.reported = 0)
    /\ x.max >= LeastCall /\ x.phase \in Calling => x.reported + x.cap <= x.max
    /\ x.phase = "first" => x.calls = 0 /\ ~x.fallback
    /\ x.phase = "compact" => x.calls <= 1 /\ x.fallback
    /\ x.phase = "repair" => x.calls <= 2 /\ x.fallback
    /\ x.phase = "rescue" => x.calls <= 1
    /\ x.calls <= 3

IInv ==
    /\ Typed
    /\ PermitsInv
    /\ ReadsInv
    /\ AuditInv
    /\ PageInv
    /\ HistoryInv
    /\ ExtractionInv(ext)

--------------------------------------------------------------------------------
(* The batch is a sequence                                                     *)

(* Induction over the natural numbers, from their being well-founded.      *)
LEMMA Induct ==
    ASSUME NEW T, 0 \in T, \A n \in Nat : n \in T => n + 1 \in T
    PROVE  Nat \subseteq T
<1> SUFFICES ASSUME Nat \ T # {} PROVE FALSE
  OBVIOUS
<1>1. PICK x \in Nat \ T : \A y \in Nat \ T : ~ (<<y, x>> \in OpToRel(<, Nat))
  BY NatLessThanWellFounded, WFMin, Zenon
<1>2. \A y \in Nat \ T : ~(y < x)
  BY <1>1, Zenon DEF OpToRel
<1>3. x # 0 /\ x - 1 \in Nat /\ x - 1 \in T
  BY <1>2
<1> QED
  BY <1>3

(* What BatchUrls builds, result by result, and that there is such a       *)
(* function.                                                               *)
Builds(kept, results, reusable) ==
    kept = [i \in 0..Len(results) |->
              IF i = 0 THEN <<>>
              ELSE IF results[i] \in reusable THEN kept[i - 1]
              ELSE Append(kept[i - 1], results[i])]

LEMMA KeptExists ==
    ASSUME NEW results \in Seq(Urls), NEW reusable
    PROVE  \E kept : Builds(kept, results, reusable)
<1> DEFINE n == Len(results)
           Step(k) == [i \in 0..n |->
                         IF i = 0 THEN <<>>
                         ELSE IF results[i] \in reusable THEN k[i - 1]
                         ELSE Append(k[i - 1], results[i])]
           T == {m \in Nat : \E k : \A i \in 0..n : i <= m => k[i] = Step(k)[i]}
<1>1. n \in Nat
  BY LenProperties
<1>2. 0 \in T
  <2> DEFINE k == [i \in 0..n |-> <<>>]
  <2>1. \A i \in 0..n : i <= 0 => k[i] = Step(k)[i]
    BY <1>1
  <2> QED
    BY <2>1
<1>3. ASSUME NEW m \in Nat, m \in T PROVE m + 1 \in T
  <2>1. PICK k : \A i \in 0..n : i <= m => k[i] = Step(k)[i]
    BY <1>3
  <2>2. ASSUME NEW i \in 0..n, i <= m + 1 PROVE Step(k)[i] = Step(Step(k))[i]
    <3>1. CASE i = 0
      BY <3>1
    <3>2. CASE i # 0
      <4>1. i - 1 \in 0..n /\ i - 1 <= m
        BY <1>1, <2>2, <3>2
      <4>2. k[i - 1] = Step(k)[i - 1]
        BY <2>1, <4>1
      <4> QED
        BY <3>2, <4>2
    <3> QED
      BY <3>1, <3>2
  <2> HIDE DEF Step
  <2> QED
    BY <2>2
<1>4. n \in T
  <2> HIDE DEF T, n
  <2> QED
    BY <1>1, <1>2, <1>3, Induct
<1>5. PICK k : \A i \in 0..n : i <= n => k[i] = Step(k)[i]
  BY <1>4
<1>6. \A i \in 0..n : k[i] = Step(k)[i]
  BY <1>1, <1>5
<1>7. Step(k) = Step(Step(k))
  <2>1. ASSUME NEW i \in 0..n PROVE Step(k)[i] = Step(Step(k))[i]
    <3>1. CASE i = 0
      BY <3>1
    <3>2. CASE i # 0
      <4>1. i - 1 \in 0..n
        BY <1>1, <3>2
      <4>2. k[i - 1] = Step(k)[i - 1]
        BY <1>6, <4>1
      <4> QED
        BY <3>2, <4>2
    <3> QED
      BY <3>1, <3>2
  <2> QED
    BY <2>1
<1> QED
  BY <1>7 DEF Builds

(* The batch is a sequence of URLs.                                        *)
LEMMA BatchType ==
    ASSUME NEW results \in Seq(Urls), NEW reusable
    PROVE  BatchUrls(results, reusable) \in Seq(Urls)
<1> DEFINE K == CHOOSE kept : Builds(kept, results, reusable)
           n == Len(results)
           T == {m \in Nat : m <= n => K[m] \in Seq(Urls)}
<1>1. n \in Nat
  BY LenProperties
<1>2. Builds(K, results, reusable)
  BY KeptExists
<1>3. BatchUrls(results, reusable) = K[Least(PageLimit, n)]
  BY DEF BatchUrls, Builds
<1> HIDE DEF K
<1>4. 0 \in T
  <2>1. K[0] = <<>>
    BY <1>1, <1>2 DEF Builds
  <2> QED
    BY <2>1, EmptySeq
<1>5. ASSUME NEW m \in Nat, m \in T PROVE m + 1 \in T
  <2>1. CASE m + 1 <= n
    <3>1. m + 1 \in 0..n /\ m + 1 # 0 /\ (m + 1) - 1 = m /\ m + 1 \in 1..n
      BY <1>1, <2>1
    <3>2. K[m + 1] = IF results[m + 1] \in reusable THEN K[m] ELSE Append(K[m], results[m + 1])
      BY <1>2, <3>1 DEF Builds
    <3>3. K[m] \in Seq(Urls) /\ results[m + 1] \in Urls
      BY <1>1, <1>5, <2>1, <3>1, ElementOfSeq
    <3>4. K[m + 1] \in Seq(Urls)
      BY <3>2, <3>3, AppendProperties
    <3> QED
      BY <3>4
  <2>2. CASE ~(m + 1 <= n)
    BY <2>2
  <2> QED
    BY <2>1, <2>2
<1>6. Nat \subseteq T
  <2> HIDE DEF T
  <2> QED
    BY <1>4, <1>5, Induct
<1>7. Least(PageLimit, n) \in Nat /\ Least(PageLimit, n) <= n
  BY <1>1, ReadingAssumption DEF Least
<1> QED
  BY <1>3, <1>6, <1>7

--------------------------------------------------------------------------------
(* What an extraction costs                                                    *)

(* The first request fits any allowance that the loop calls with.          *)
LEMMA FirstFits ==
    ASSUME NEW max \in Nat
    PROVE  /\ FirstOutput(max) \in Nat /\ FirstCap(max) \in Nat
           /\ max >= LeastCall => FirstCap(max) <= max
<1>1. max \div 3 \in Nat /\ 3 * (max \div 3) <= max /\ max < 3 * (max \div 3) + 3
  OBVIOUS
<1> QED
  BY <1>1 DEF FirstCap, FirstOutput, FirstInput, Least, Most, OutputTokens, InputTokens,
     Margin, LeastCall

(* A compact request fits what is left, when that is worth a retry.        *)
LEMMA CompactFits ==
    ASSUME NEW max \in Nat, NEW left \in Nat, left >= MinRetryBudget
    PROVE  CompactCap(max, left) \in Nat /\ CompactCap(max, left) <= left
<1>1. left \div 3 \in Nat /\ 3 * (left \div 3) <= left
  OBVIOUS
<1>2. FirstOutput(max) \in Nat
  BY FirstFits
<1> DEFINE most == CompactOutputBudget(CompactOutputTokens, left)
           out == CompactOutputBudget(FirstOutput(max), left)
<1>3. out \in Nat /\ most \in Nat /\ out <= most
  BY <1>1, <1>2 DEF CompactOutputBudget, CompactOutputTokens, Least, Most
<1>4. most <= 1800 /\ (most <= left \div 3 \/ most <= 512)
  BY <1>1 DEF CompactOutputBudget, CompactOutputTokens, Least, Most
<1> HIDE DEF most, out
<1>5. left - most - Margin >= 512
  BY <1>1, <1>3, <1>4 DEF Margin, MinRetryBudget
<1>6. CompactInputBudget(left) \in Nat /\ CompactInputBudget(left) <= left - most - Margin
  <2>1. CompactInputBudget(left) = Most(512, Least(CompactInputTokens, left - most - Margin))
    BY DEF CompactInputBudget, most
  <2> QED
    BY <1>3, <1>5, <2>1 DEF CompactInputTokens, Least, Most, Margin
<1>7. CompactCap(max, left) = out + CompactInputBudget(left) + Margin
  BY DEF CompactCap, out
<1> QED
  BY <1>3, <1>6, <1>7 DEF Margin

LEMMA StartSound ==
    ASSUME NEW max \in Nat
    PROVE  ExtractionInv(Start(max)) /\ Start(max).max = max /\ Start(max).phase = "first"
<1>1. FirstCap(max) \in Nat /\ (max >= LeastCall => FirstCap(max) <= max)
  BY FirstFits
<1> QED
  BY <1>1 DEF ExtractionInv, Start, Phases

(* A cached extraction is scored without a call.                           *)
LEMMA CachedSound ==
    ASSUME NEW max \in Nat, NEW x,
           x = [Start(max) EXCEPT !.phase = "scored", !.batch = "accepted", !.known = TRUE]
    PROVE  ExtractionInv(x)
<1>1. FirstCap(max) \in Nat
  BY FirstFits
<1>2. /\ x.phase = "scored" /\ x.max = max /\ x.cap = FirstCap(max) /\ x.known = TRUE
      /\ x.reported = 0 /\ x.calls = 0 /\ x.fallback = FALSE
  BY DEF Start
<1>3. x \in [phase: Phases, max: Nat, cap: Nat, known: BOOLEAN, reported: Nat, calls: Nat,
             fallback: BOOLEAN, batch: {x.batch}, code: {x.code}]
  BY <1>1 DEF Start, Phases
<1> QED
  BY <1>2, <1>3 DEF ExtractionInv, Calling

(* Every result says whether it reported usage.                            *)
LEMMA AnsweredReports == \A r \in Answered : r.reported \in BOOLEAN
<1>1. ASSUME NEW e PROVE Result(e).reported \in BOOLEAN
  BY DEF Result
<1>2. ASSUME NEW r \in StructuredCall(FALSE) PROVE r.reported \in BOOLEAN
  <2>1. CASE \E e : r = Result(e)
    BY <1>1, <2>1
  <2>2. CASE \E e : r \in Regenerated(e)
    <3>1. PICK e, d : r = [Result(d) EXCEPT !.posts = e.posts + d.posts]
      BY <2>2 DEF Regenerated
    <3>2. r.reported = Result(d).reported
      BY <3>1 DEF Result
    <3> QED
      BY <1>1, <3>2
  <2> QED
    BY <2>1, <2>2 DEF StructuredCall
<1>3. ASSUME NEW r \in Answered PROVE r.reported \in BOOLEAN
  <2>1. PICK s \in StructuredCall(FALSE) : r = [code |-> s.code, reported |-> s.reported]
    BY DEF Answered
  <2> QED
    BY <1>2, <2>1
<1> QED
  BY <1>3

(* An extraction that just got an answer: one call more, the allowance     *)
(* still kept, and the phase the one of the call.                          *)
CallCounted(y) ==
    /\ y \in [phase: Calling, max: Nat, cap: Nat, known: BOOLEAN, reported: Nat, calls: Nat,
              fallback: BOOLEAN, batch: {y.batch}, code: {y.code}]
    /\ y.max >= LeastCall
    /\ y.reported <= y.max /\ (~y.known => y.reported = 0)
    /\ y.phase = "first" => y.calls <= 1 /\ ~y.fallback
    /\ y.phase = "compact" => y.calls <= 2 /\ y.fallback
    /\ y.phase = "repair" => y.fallback
    /\ y.phase = "rescue" => y.calls <= 2
    /\ y.calls <= 3

LEMMA CountedSound ==
    ASSUME NEW x, ExtractionInv(x), x.phase \in Calling, x.max >= LeastCall,
           NEW r \in Answered, NEW cost \in Costs(x.cap)
    PROVE  LET y == Counted(x, r, cost) IN
             CallCounted(y) /\ y.max = x.max /\ y.phase = x.phase /\ y.batch = x.batch
<1> DEFINE more == IF r.reported THEN cost ELSE 0
           y == Counted(x, r, cost)
<1>1. x.cap \in Nat /\ x.reported \in Nat /\ x.calls \in Nat /\ x.max \in Nat
      /\ x.reported + x.cap <= x.max
  BY DEF ExtractionInv
<1>2. more \in Nat /\ more <= x.cap /\ (~r.reported => more = 0)
  <2>1. x.cap \div 3 \in Nat /\ x.cap \div 3 <= x.cap
    BY <1>1
  <2> QED
    BY <1>1, <2>1, AnsweredReports DEF Costs
<1>3. x.reported + more \in Nat /\ x.reported + more <= x.max /\ x.calls + 1 \in Nat
  BY <1>1, <1>2
<1>4. y = [x EXCEPT !.calls = x.calls + 1, !.known = x.known \/ r.reported,
                    !.reported = x.reported + more]
  BY DEF Counted
<1>5. r.reported \in BOOLEAN
  BY AnsweredReports
<1> HIDE DEF y, more
<1>6. x \in [phase: Phases, max: Nat, cap: Nat, known: BOOLEAN, reported: Nat, calls: Nat,
             fallback: BOOLEAN, batch: {x.batch}, code: {x.code}]
  BY DEF ExtractionInv
<1>7. /\ y.phase = x.phase /\ y.max = x.max /\ y.cap = x.cap /\ y.calls = x.calls + 1
      /\ y.known = (x.known \/ r.reported) /\ y.reported = x.reported + more
      /\ y.fallback = x.fallback /\ y.batch = x.batch /\ y.code = x.code
  BY <1>4, <1>6
<1>8. y \in [phase: Calling, max: Nat, cap: Nat, known: BOOLEAN, reported: Nat, calls: Nat,
             fallback: BOOLEAN, batch: {y.batch}, code: {y.code}]
  BY <1>3, <1>4, <1>5, <1>6, <1>7
<1>9. ~y.known => y.reported = 0
  BY <1>1, <1>2, <1>5, <1>7 DEF ExtractionInv
<1>10. /\ y.phase = "first" => y.calls <= 1 /\ ~y.fallback
       /\ y.phase = "compact" => y.calls <= 2 /\ y.fallback
       /\ y.phase = "repair" => y.fallback
       /\ y.phase = "rescue" => y.calls <= 2
       /\ y.calls <= 3
  BY <1>1, <1>7 DEF ExtractionInv, Calling
<1>11. CallCounted(y)
  BY <1>3, <1>7, <1>8, <1>9, <1>10 DEF CallCounted
<1> QED
  BY <1>7, <1>11 DEF y

LEMMA FailsSound ==
    ASSUME NEW y, CallCounted(y), NEW code
    PROVE  ExtractionInv(Fails(y, code)) /\ Fails(y, code).max = y.max
  BY DEF ExtractionInv, CallCounted, Fails, Calling, Phases

LEMMA ScoredSound ==
    ASSUME NEW y, CallCounted(y), NEW batch,
           NEW x, x = [y EXCEPT !.phase = "scored", !.batch = batch]
    PROVE  ExtractionInv(x) /\ x.max = y.max
  BY DEF ExtractionInv, CallCounted, Calling, Phases

LEMMA RemainingIs ==
    ASSUME NEW y, CallCounted(y)
    PROVE  Remaining(y) \in Nat /\ Remaining(y) = y.max - y.reported
  BY DEF CallCounted, Remaining, RemainingTokenBudget, Most

LEMMA CompactSound ==
    ASSUME NEW y, CallCounted(y), Remaining(y) >= MinRetryBudget,
           NEW phase \in {"compact", "repair", "rescue"},
           phase # "repair" => y.phase = "first",
           phase = "repair" => y.phase \in {"first", "compact"}
    PROVE  ExtractionInv(Compact(y, phase)) /\ Compact(y, phase).max = y.max
<1> DEFINE x == Compact(y, phase)
           cap == CompactCap(y.max, Remaining(y))
<1>1. y.max \in Nat /\ y.reported \in Nat /\ y.calls \in Nat /\ y.reported <= y.max
  BY DEF CallCounted
<1>2. Remaining(y) \in Nat /\ Remaining(y) = y.max - y.reported
  BY RemainingIs
<1>3. cap \in Nat /\ cap <= Remaining(y)
  BY <1>1, <1>2, CompactFits
<1>4. x = [y EXCEPT !.phase = phase, !.cap = cap,
                    !.fallback = y.fallback \/ phase \in {"compact", "repair"}]
  BY DEF Compact
<1> HIDE DEF x, cap
<1>5. y \in [phase: Calling, max: Nat, cap: Nat, known: BOOLEAN, reported: Nat, calls: Nat,
             fallback: BOOLEAN, batch: {y.batch}, code: {y.code}]
  BY DEF CallCounted
<1>6. /\ x.phase = phase /\ x.max = y.max /\ x.cap = cap /\ x.calls = y.calls
      /\ x.known = y.known /\ x.reported = y.reported
      /\ x.fallback = (y.fallback \/ phase \in {"compact", "repair"})
      /\ x.batch = y.batch /\ x.code = y.code
  BY <1>4, <1>5
<1>7. x \in [phase: Phases, max: Nat, cap: Nat, known: BOOLEAN, reported: Nat, calls: Nat,
             fallback: BOOLEAN, batch: {x.batch}, code: {x.code}]
  BY <1>3, <1>4, <1>5, <1>6 DEF Phases
<1>8. x.reported + x.cap <= x.max
  BY <1>1, <1>2, <1>3, <1>6
<1>a. (phase # "repair" => y.calls <= 1) /\ (phase = "repair" => y.calls <= 2)
  BY <1>1 DEF CallCounted
<1>b. phase \in {"compact", "repair"} => x.fallback
  BY <1>6
<1>c. (phase # "repair" => x.calls <= 1) /\ x.calls <= 2 /\ x.calls <= 3
  BY <1>1, <1>6, <1>a
<1>9. /\ x.phase = "first" => x.calls = 0 /\ ~x.fallback
      /\ x.phase = "compact" => x.calls <= 1 /\ x.fallback
      /\ x.phase = "repair" => x.calls <= 2 /\ x.fallback
      /\ x.phase = "rescue" => x.calls <= 1
      /\ x.calls <= 3
  BY <1>6, <1>b, <1>c
<1>10. x.reported <= x.max /\ (~x.known => x.reported = 0)
  BY <1>6 DEF CallCounted
<1>11. ExtractionInv(x)
  BY <1>7, <1>8, <1>9, <1>10 DEF ExtractionInv
<1> QED
  BY <1>6, <1>11 DEF x

(* Whatever a call answers, the extraction keeps its allowance and its     *)
(* three calls.                                                            *)
LEMMA AfterCallSound ==
    ASSUME NEW x, ExtractionInv(x), x.phase \in Calling, x.max >= LeastCall,
           NEW r \in Answered, NEW cost \in Costs(x.cap),
           NEW valid \in BOOLEAN, NEW batch, NEW relevant \in BOOLEAN,
           NEW z, z = AfterCall(x, r, cost, valid, batch, relevant)
    PROVE  ExtractionInv(z) /\ z.max = x.max
<1> DEFINE y == Counted(x, r, cost)
<1>1. CallCounted(y) /\ y.max = x.max /\ y.phase = x.phase
  BY CountedSound
<1>2. Remaining(y) = y.max - y.reported /\ Remaining(y) \in Nat
  BY <1>1, RemainingIs
<1>3. z = CASE r.code = Escaped           -> Fails(y, Escaped)
            [] r.code # Escaped /\ x.phase = "rescue" ->
                 AfterRescue(y, r.code = "ok" /\ valid, batch)
            [] r.code \notin {"ok", Escaped} /\ x.phase = "first" -> AfterFirstError(y, r.code)
            [] r.code \notin {"ok", Escaped} /\ x.phase \in {"compact", "repair"} ->
                 Fails(y, r.code)
            [] r.code = "ok" /\ x.phase # "rescue" ->
                 IF valid THEN AfterBatch(y, batch, relevant) ELSE AfterInvalidBatch(y)
  BY DEF AfterCall
<1> HIDE DEF y
<1>4. CASE r.code = Escaped
  <2>1. z = Fails(y, Escaped)
    BY <1>3, <1>4 DEF Escaped
  <2> QED
    BY <1>1, <2>1, FailsSound
<1>5. CASE r.code # Escaped /\ x.phase = "rescue"
  <2>1. z = AfterRescue(y, r.code = "ok" /\ valid, batch)
    BY <1>3, <1>5
  <2>2. PICK b : z = [y EXCEPT !.phase = "scored", !.batch = b]
    BY <2>1 DEF AfterRescue
  <2>3. ExtractionInv(z) /\ z.max = y.max
    BY <1>1, <2>2, ScoredSound
  <2> QED
    BY <1>1, <2>3
<1>6. CASE r.code \notin {"ok", Escaped} /\ x.phase = "first"
  <2>1. z = AfterFirstError(y, r.code)
    BY <1>3, <1>6
  <2>2. \/ \E code : z = Fails(y, code)
        \/ Remaining(y) >= MinRetryBudget /\ z = Compact(y, "compact")
    BY <1>2, <2>1 DEF AfterFirstError, MinRetryBudget
  <2> QED
    BY <1>1, <1>6, <2>2, FailsSound, CompactSound
<1>7. CASE r.code \notin {"ok", Escaped} /\ x.phase \in {"compact", "repair"}
  <2>1. z = Fails(y, r.code)
    BY <1>3, <1>7
  <2> QED
    BY <1>1, <2>1, FailsSound
<1>8. CASE r.code = "ok" /\ x.phase # "rescue"
  <2>1. z = IF valid THEN AfterBatch(y, batch, relevant) ELSE AfterInvalidBatch(y)
    BY <1>3, <1>8 DEF Escaped
  <2>2. CASE valid
    <3>1. \/ z = [y EXCEPT !.phase = "scored", !.batch = batch]
          \/ /\ ~y.fallback /\ y.max - y.reported >= MinRetryBudget
             /\ z = Compact(y, "rescue")
      BY <2>1, <2>2 DEF AfterBatch
    <3>2. ~y.fallback => y.phase = "first"
      BY <1>1, <1>8 DEF CallCounted, Calling
    <3>3. CASE z = [y EXCEPT !.phase = "scored", !.batch = batch]
      <4>1. ExtractionInv(z) /\ z.max = y.max
        BY <1>1, <3>3, ScoredSound
      <4> QED
        BY <1>1, <4>1
    <3>4. CASE /\ ~y.fallback /\ y.max - y.reported >= MinRetryBudget
               /\ z = Compact(y, "rescue")
      BY <1>1, <1>2, <3>2, <3>4, CompactSound
    <3> QED
      BY <3>1, <3>3, <3>4
  <2>3. CASE ~valid
    <3>1. \/ \E code : z = Fails(y, code)
          \/ /\ Remaining(y) >= MinRetryBudget /\ y.phase # "repair"
             /\ z = Compact(y, "repair")
      BY <1>2, <2>1, <2>3 DEF AfterInvalidBatch, MinRetryBudget
    <3>2. y.phase # "repair" => y.phase \in {"first", "compact"}
      BY <1>1, <1>8 DEF CallCounted, Calling
    <3> QED
      BY <1>1, <3>1, <3>2, FailsSound, CompactSound
  <2> QED
    BY <2>2, <2>3
<1> QED
  BY <1>4, <1>5, <1>6, <1>7, <1>8 DEF Calling

--------------------------------------------------------------------------------
(* Steps that end an attempt                                                   *)

LEMMA NoAttemptType == NoAttempt \in Attempt /\ NoAttempt.url = NoUrl /\ NoAttempt.batch = <<>>
<1>1. (CHOOSE q \in Questions : TRUE) \in Questions
  BY ReadingAssumption
<1>2. <<>> \in Seq(Urls)
  BY EmptySeq
<1> QED
  BY <1>1, <1>2, ReadingAssumption DEF NoAttempt, Attempt

LEMMA InitInv == Init => IInv
<1> SUFFICES ASSUME Init PROVE IInv
  OBVIOUS
<1>1. Typed
  <2>1. <<>> \in Seq(Urls)
    BY EmptySeq
  <2> QED
    BY <2>1, NoAttemptType, ReadingAssumption DEF Init, Typed, Reads, Permits, Store,
       Surroundings, History, Idle, Free, Finished
<1>2. PermitsInv
  <2>1. IsFiniteSet({}) /\ Cardinality({}) = 0
    BY FS_EmptySet
  <2>2. permits.host = {} /\ permits.slot = {}
    BY DEF Init, Free
  <2>3. \A u \in Urls : HostHolders(HostOf[u]) = {} /\ read[u] = "none"
    BY <2>2 DEF HostHolders, Init, Idle
  <2>4. IsFiniteSet(permits.host) /\ Cardinality(permits.slot) = 0
    BY <2>1, <2>2
  <2>5. \A u \in Urls : Cardinality(HostHolders(HostOf[u])) = 0
    BY <2>1, <2>3
  <2>6. 0 <= MaxConcurrency /\ 0 <= MaxSameHost
    BY ReadingAssumption
  <2> QED
    BY <2>2, <2>3, <2>4, <2>5, <2>6 DEF PermitsInv
<1>3. ReadsInv /\ AuditInv /\ PageInv /\ HistoryInv
  BY NoAttemptType DEF Init, ReadsInv, AuditInv, PageInv, HistoryInv, Idle
<1>4. ExtractionInv(ext)
  BY StartSound DEF Init, NoExtraction
<1> QED
  BY <1>1, <1>2, <1>3, <1>4 DEF IInv

(* When an attempt is over nothing is read, taken or extracted.            *)
LEMMA OverInv ==
    ASSUME IInv, pc' = "idle", att' = NoAttempt, read' = Idle, ext' = NoExtraction,
           (permits' = permits /\ pc # "reading") \/ permits' = Free,
           store' \in Store, store'.extracted + store'.reserved <= MaxExtracted,
           env' \in Surroundings, hist' \in History, hist'.unaudited = {}, HistoryInv'
    PROVE  IInv'
<1>1. permits' \in Permits
  <2>1. Free \in Permits
    <3>1. <<>> \in Seq(Urls)
      BY EmptySeq
    <3> QED
      BY <3>1 DEF Permits, Free
  <2>2. permits \in Permits
    BY DEF IInv, Typed
  <2> QED
    BY <2>1, <2>2
<1>2. Typed'
  BY <1>1, NoAttemptType DEF Typed, Reads, Idle
<1>3. PermitsInv'
  <2>1. \A u \in Urls : read'[u] = "none"
    BY DEF Idle
  <2>2. CASE permits' = permits /\ pc # "reading"
    <3>1. permits.slot = {}
      BY <2>2 DEF IInv, Typed, Permits, PermitsInv, ReadsInv, Finished
    <3> QED
      BY <2>1, <2>2, <3>1 DEF IInv, PermitsInv, HostHolders
  <2>3. CASE permits' = Free
    <3>1. IsFiniteSet({}) /\ Cardinality({}) = 0
      BY FS_EmptySet
    <3>2. permits'.host = {} /\ permits'.slot = {}
      BY <2>3 DEF Free
    <3>3. \A u \in Urls : HostHolders(HostOf[u])' = {}
      BY <3>2 DEF HostHolders
    <3>4. IsFiniteSet(permits'.host) /\ Cardinality(permits'.slot) = 0
      BY <3>1, <3>2
    <3>5. \A u \in Urls : Cardinality(HostHolders(HostOf[u])') = 0
      BY <3>1, <3>3
    <3>6. 0 <= MaxConcurrency /\ 0 <= MaxSameHost
      BY ReadingAssumption
    <3> QED
      BY <2>1, <3>2, <3>4, <3>5, <3>6 DEF PermitsInv
  <2> QED
    BY <2>2, <2>3
<1>4. ReadsInv' /\ AuditInv' /\ PageInv'
  BY NoAttemptType DEF ReadsInv, AuditInv, PageInv, Idle
<1>5. ExtractionInv(ext)'
  BY StartSound DEF NoExtraction
<1> QED
  BY <1>2, <1>3, <1>4, <1>5 DEF IInv

(* Reads are lost only to an execution that ends for it.                   *)
LEMMA LostReads ==
    ASSUME IInv, NEW reads \in SUBSET Urls, LoseReads(reads), store' = store,
           env'.run = "failed" \/ env'.crashes # 0
    PROVE  hist' \in History /\ hist'.unaudited = {} /\ HistoryInv'
<1>1. hist \in History /\ hist.lost \cup reads \in SUBSET Urls
  BY DEF IInv, Typed, History
<1>2. hist' = [hist EXCEPT !.unaudited = {}, !.lost = hist.lost \cup reads]
  BY DEF LoseReads
<1>3. /\ hist' \in History /\ hist'.unaudited = {} /\ hist'.recorded = hist.recorded
      /\ hist'.again = hist.again /\ hist'.repaid = hist.repaid /\ hist'.cut = hist.cut
  BY <1>1, <1>2 DEF History
<1> QED
  BY <1>3 DEF IInv, HistoryInv

LEMMA CrashInv == ASSUME IInv, Crash PROVE IInv'
<1>1. /\ Abandon([env EXCEPT !.crashes = env.crashes + 1], store)
      /\ LoseReads(hist.unaudited)
  BY DEF Crash
<1>2. env' \in Surroundings /\ env'.crashes # 0
  BY <1>1 DEF Abandon, IInv, Typed, Surroundings
<1>3. hist' \in History /\ hist'.unaudited = {} /\ HistoryInv'
  <2>1. hist.unaudited \in SUBSET Urls /\ store' = store
    BY <1>1 DEF Abandon, IInv, Typed, History
  <2> QED
    BY <1>1, <1>2, <2>1, LostReads
<1> QED
  BY <1>1, <1>2, <1>3, OverInv DEF Abandon, IInv, Typed

LEMMA ReadEscapesInv == ASSUME IInv, NEW u \in Urls, ReadEscapes(u) PROVE IInv'
<1>1. /\ Abandon([env EXCEPT !.run = "failed"], store)
      /\ LoseReads(hist.unaudited)
  BY DEF ReadEscapes
<1>2. env' \in Surroundings /\ env'.run = "failed"
  BY <1>1 DEF Abandon, IInv, Typed, Surroundings
<1>3. hist' \in History /\ hist'.unaudited = {} /\ HistoryInv'
  <2>1. hist.unaudited \in SUBSET Urls /\ store' = store
    BY <1>1 DEF Abandon, IInv, Typed, History
  <2> QED
    BY <1>1, <1>2, <2>1, LostReads
<1> QED
  BY <1>1, <1>2, <1>3, OverInv DEF Abandon, IInv, Typed

LEMMA LeaveLoopInv == ASSUME IInv, LoopEnds \/ ExtractionRefused PROVE IInv'
<1>1. pc = "loop" /\ EndAttempt /\ UNCHANGED <<store, hist>>
  BY DEF LoopEnds, ExtractionRefused, Fresh
<1>2. hist'.unaudited = {} /\ HistoryInv'
  BY <1>1 DEF EndAttempt, IInv, AuditInv, HistoryInv
<1> QED
  BY <1>1, <1>2, OverInv DEF EndAttempt, IInv, Typed

LEMMA ExtractionEscapesInv == ASSUME IInv, ExtractionEscapes PROVE IInv'
<1> DEFINE given == IF ext.code = Escaped THEN [store EXCEPT !.reserved = store.reserved - 1]
                    ELSE store
<1>1. /\ pc = "extracting" /\ Abandon([env EXCEPT !.run = "failed"], given)
      /\ UNCHANGED hist
  BY DEF ExtractionEscapes
<1>2. env' \in Surroundings /\ env'.run = "failed"
  BY <1>1 DEF Abandon, IInv, Typed, Surroundings
<1>3. hist'.unaudited = {}
  BY <1>1 DEF IInv, AuditInv
<1>4. store \in Store /\ store.reserved > 0 /\ store.reserved \in Nat /\ store.extracted \in Nat
      /\ store.extracted + store.reserved <= MaxExtracted
  BY <1>1 DEF IInv, Typed, PageInv, Store
<1>5. given \in Store /\ given.processed = store.processed
      /\ given.extracted + given.reserved <= MaxExtracted
  <2>1. CASE ext.code = Escaped
    <3>1. given = [store EXCEPT !.reserved = store.reserved - 1] /\ store.reserved - 1 \in Nat
      BY <1>4, <2>1
    <3> HIDE DEF given
    <3>2. given \in Store /\ given.processed = store.processed
          /\ given.extracted = store.extracted /\ given.reserved = store.reserved - 1
      BY <1>4, <3>1 DEF Store
    <3> QED
      BY <1>4, <3>2, ReadingAssumption
  <2>2. CASE ext.code # Escaped
    BY <1>4, <2>2
  <2> QED
    BY <2>1, <2>2
<1>6. store' = given
  BY <1>1 DEF Abandon
<1> HIDE DEF given
<1>7. HistoryInv'
  BY <1>1, <1>2, <1>5, <1>6 DEF IInv, HistoryInv
<1> QED
  BY <1>1, <1>2, <1>3, <1>5, <1>6, <1>7, OverInv DEF Abandon, IInv, Typed

--------------------------------------------------------------------------------
(* The concurrent batch                                                        *)

LEMMA StartAttemptInv ==
    ASSUME IInv, NEW q \in Questions, NEW results \in ResultLists, StartAttempt(q, results)
    PROVE  IInv'
<1> DEFINE reusable == ReusablePages(q)
           batch == BatchUrls(results, reusable)
<1>1. /\ pc = "idle"
      /\ att' = [NoAttempt EXCEPT !.q = q, !.results = results, !.batch = batch,
                                  !.reusable = reusable]
      /\ read' = [u \in Urls |-> IF u \in Range(batch) THEN "host" ELSE "none"]
      /\ pc' = IF batch = <<>> THEN "loop" ELSE "reading"
      /\ env' = [env EXCEPT !.attempts = env.attempts + 1]
      /\ UNCHANGED <<permits, ext, store, hist>>
  BY DEF StartAttempt
<1>2. results \in Seq(Urls)
  BY ReadingAssumption
<1>3. batch \in Seq(Urls)
  BY <1>2, BatchType
<1>4. reusable \in SUBSET Pages
  BY DEF ReusablePages, IInv, Typed, Store
<1> HIDE DEF batch, reusable
<1>5. /\ att' \in Attempt /\ att'.url = NoUrl /\ att'.batch = batch
  BY <1>1, <1>2, <1>3, <1>4, NoAttemptType DEF Attempt
<1>6. env' \in Surroundings /\ env'.run = env.run /\ env'.crashes = env.crashes
  BY <1>1 DEF IInv, Typed, Surroundings
<1>7. read' \in Reads /\ \A u \in Urls : read'[u] \in {"host", "none"}
      /\ (read'[u] = "host" => u \in Range(batch))
  BY <1>1 DEF Reads
<1>8. Typed'
  BY <1>1, <1>5, <1>6, <1>7 DEF IInv, Typed
<1>9. PermitsInv'
  <2>1. permits.slot = {}
    BY <1>1 DEF IInv, Typed, Permits, PermitsInv, ReadsInv, Finished
  <2> QED
    BY <1>1, <1>7, <2>1 DEF IInv, PermitsInv, HostHolders
<1>10. ReadsInv'
  <2>1. batch = <<>> => Range(batch) = {}
    BY DEF Range
  <2> QED
    BY <1>1, <1>5, <1>7, <2>1 DEF ReadsInv
<1>11. AuditInv' /\ PageInv' /\ HistoryInv'
  BY <1>1, <1>5, <1>6 DEF IInv, AuditInv, PageInv, HistoryInv
<1>12. ExtractionInv(ext)'
  BY <1>1 DEF IInv
<1> QED
  BY <1>8, <1>9, <1>10, <1>11, <1>12 DEF IInv

(* One read of the batch moves on; the rest of the attempt stays.          *)
LEMMA ReadMoves ==
    ASSUME IInv, NEW u \in Urls, pc = "reading", read[u] # "none",
           NEW new, read' = [read EXCEPT ![u] = new],
           new \in {"global", "fetch"} \cup Finished,
           permits' \in Permits, PermitsInv', ReadsInv',
           hist' = hist \/ hist' = [hist EXCEPT !.unaudited = hist.unaudited \cup {u}],
           UNCHANGED <<pc, att, ext, store, env>>
    PROVE  IInv'
<1>1. u \in Range(att.batch)
  BY DEF IInv, ReadsInv
<1>2. read' \in Reads
  BY DEF IInv, Typed, Reads, Finished
<1>3. hist' \in History /\ hist'.unaudited \subseteq hist.unaudited \cup {u}
      /\ hist'.recorded = hist.recorded /\ hist'.again = hist.again /\ hist'.repaid = hist.repaid
      /\ hist'.lost = hist.lost /\ hist'.cut = hist.cut
  BY DEF IInv, Typed, History
<1>4. Typed'
  BY <1>2, <1>3 DEF IInv, Typed
<1>5. AuditInv' /\ PageInv' /\ HistoryInv'
  BY <1>1, <1>3 DEF IInv, AuditInv, PageInv, HistoryInv
<1>6. ExtractionInv(ext)'
  BY DEF IInv
<1> QED
  BY <1>4, <1>5, <1>6 DEF IInv

LEMMA SlotsFinite == ASSUME IInv PROVE permits.slot \subseteq permits.host /\ IsFiniteSet(permits.slot)
<1>1. permits.slot \subseteq permits.host
  BY DEF IInv, Typed, Permits, PermitsInv
<1> QED
  BY <1>1, FS_Subset DEF IInv, PermitsInv

LEMMA AcquireHostInv == ASSUME IInv, NEW u \in Urls, AcquireHost(u) PROVE IInv'
<1>1. /\ pc = "reading" /\ read[u] = "host"
      /\ Cardinality(HostHolders(HostOf[u])) < MaxSameHost
      /\ permits' = [permits EXCEPT !.host = permits.host \cup {u},
                                    !.queue = Append(permits.queue, u)]
      /\ read' = [read EXCEPT ![u] = "global"]
      /\ UNCHANGED <<pc, att, ext, store, env, hist>>
  BY DEF AcquireHost
<1>2. permits \in Permits /\ permits.queue \in Seq(Urls) /\ read \in Reads
  BY DEF IInv, Typed, Permits
<1>3. /\ Append(permits.queue, u) \in Seq(Urls)
      /\ \A i \in DOMAIN permits.queue :
           i \in DOMAIN Append(permits.queue, u) /\ Append(permits.queue, u)[i] = permits.queue[i]
      /\ \E i \in DOMAIN Append(permits.queue, u) : Append(permits.queue, u)[i] = u
  <2>1. /\ Append(permits.queue, u) \in Seq(Urls)
        /\ Len(Append(permits.queue, u)) = Len(permits.queue) + 1
        /\ \A i \in 1..Len(permits.queue) : Append(permits.queue, u)[i] = permits.queue[i]
        /\ Append(permits.queue, u)[Len(permits.queue) + 1] = u
    BY <1>2, AppendProperties
  <2>2. DOMAIN permits.queue = 1..Len(permits.queue) /\ Len(permits.queue) \in Nat
        /\ DOMAIN Append(permits.queue, u) = 1..Len(Append(permits.queue, u))
    BY <1>2, <2>1, LenProperties
  <2>3. Len(permits.queue) + 1 \in 1..(Len(permits.queue) + 1)
        /\ 1..Len(permits.queue) \subseteq 1..(Len(permits.queue) + 1)
    BY <2>2
  <2> QED
    BY <2>1, <2>2, <2>3
<1>4. /\ permits' \in Permits /\ permits'.host = permits.host \cup {u}
      /\ permits'.slot = permits.slot /\ permits'.queue = Append(permits.queue, u)
  BY <1>1, <1>2, <1>3 DEF Permits
<1>5. \A v \in Urls : read'[v] = IF v = u THEN "global" ELSE read[v]
  BY <1>1, <1>2 DEF Reads
<1>6. PermitsInv'
  <2>1. IsFiniteSet(permits'.host)
    BY <1>4, FS_AddElement DEF IInv, PermitsInv
  <2>2. ASSUME NEW v \in Urls PROVE Cardinality(HostHolders(HostOf[v])') <= MaxSameHost
    <3>1. IsFiniteSet(HostHolders(HostOf[v]))
      BY FS_Subset DEF IInv, PermitsInv, HostHolders
    <3>2. CASE HostOf[v] = HostOf[u]
      <4>1. HostHolders(HostOf[v])' = HostHolders(HostOf[v]) \cup {u}
        BY <1>4, <3>2 DEF HostHolders
      <4>2. Cardinality(HostHolders(HostOf[v])) < MaxSameHost
            /\ Cardinality(HostHolders(HostOf[v])) \in Nat
        BY <1>1, <3>1, <3>2, FS_CardinalityType
      <4>3. \/ Cardinality(HostHolders(HostOf[v])') = Cardinality(HostHolders(HostOf[v]))
            \/ Cardinality(HostHolders(HostOf[v])') = Cardinality(HostHolders(HostOf[v])) + 1
        BY <3>1, <4>1, FS_AddElement
      <4> QED
        BY <4>2, <4>3, ReadingAssumption
    <3>3. CASE HostOf[v] # HostOf[u]
      <4>1. HostHolders(HostOf[v])' = HostHolders(HostOf[v])
        BY <1>4, <3>3 DEF HostHolders
      <4> QED
        BY <4>1 DEF IInv, PermitsInv
    <3> QED
      BY <3>2, <3>3
  <2> QED
    BY <1>1, <1>4, <1>5, <2>1, <2>2 DEF IInv, PermitsInv
<1>7. ReadsInv'
  <2>1. ASSUME NEW v \in Urls, read'[v] = "global"
        PROVE  \E i \in DOMAIN permits'.queue : permits'.queue[i] = v
    <3>1. CASE v = u
      BY <1>3, <1>4, <3>1
    <3>2. CASE v # u
      <4>1. PICK i \in DOMAIN permits.queue : permits.queue[i] = v
        BY <1>5, <2>1, <3>2 DEF IInv, ReadsInv
      <4> QED
        BY <1>3, <1>4, <4>1
    <3> QED
      BY <3>1, <3>2
  <2> QED
    BY <1>1, <1>5, <2>1 DEF IInv, ReadsInv
<1> QED
  BY <1>1, <1>4, <1>6, <1>7, ReadMoves

(* Giving permits back keeps the limits.                                   *)
LEMMA PermitsShrink ==
    ASSUME IInv, permits'.host \subseteq permits.host, permits'.slot \subseteq permits.slot,
           \A v \in Urls : v \in permits'.slot <=> read'[v] = "fetch",
           \A v \in Urls : read'[v] \in {"global", "fetch"} => v \in permits'.host
    PROVE  PermitsInv'
<1>1. IsFiniteSet(permits.host) /\ IsFiniteSet(permits.slot) /\ IsFiniteSet(permits'.host)
  BY SlotsFinite, FS_Subset DEF IInv, PermitsInv
<1>2. Cardinality(permits'.slot) <= Cardinality(permits.slot)
      /\ Cardinality(permits'.slot) \in Nat /\ Cardinality(permits.slot) \in Nat
  BY <1>1, FS_Subset, FS_CardinalityType
<1>3. ASSUME NEW v \in Urls PROVE Cardinality(HostHolders(HostOf[v])') <= MaxSameHost
  <2>1. IsFiniteSet(HostHolders(HostOf[v])) /\ HostHolders(HostOf[v])' \subseteq HostHolders(HostOf[v])
    BY <1>1, FS_Subset DEF HostHolders
  <2>2. Cardinality(HostHolders(HostOf[v])') <= Cardinality(HostHolders(HostOf[v]))
        /\ Cardinality(HostHolders(HostOf[v])') \in Nat
        /\ Cardinality(HostHolders(HostOf[v])) \in Nat
    BY <2>1, FS_Subset, FS_CardinalityType
  <2>3. Cardinality(HostHolders(HostOf[v])) <= MaxSameHost
    BY DEF IInv, PermitsInv
  <2> QED
    BY <2>2, <2>3, ReadingAssumption
<1>4. Cardinality(permits'.slot) <= MaxConcurrency
  BY <1>2, ReadingAssumption DEF IInv, PermitsInv
<1> QED
  BY <1>1, <1>3, <1>4 DEF PermitsInv

(* The head of the queue leaves it; those behind it stay.                  *)
LEMMA QueueMoves ==
    ASSUME IInv, NEW u \in Urls, read[u] = "global", Head(permits.queue) = u
    PROVE  /\ Tail(permits.queue) \in Seq(Urls)
           /\ \A v \in Urls : v # u /\ read[v] = "global" =>
                \E i \in DOMAIN Tail(permits.queue) : Tail(permits.queue)[i] = v
<1> DEFINE s == permits.queue
<1>1. s \in Seq(Urls)
  BY DEF IInv, Typed, Permits
<1>2. DOMAIN s = 1..Len(s) /\ Len(s) \in Nat
  BY <1>1, LenProperties
<1>3. \A v \in Urls : read[v] = "global" => \E i \in DOMAIN s : s[i] = v
  BY DEF IInv, ReadsInv
<1> HIDE DEF s
<1>4. Len(s) # 0 /\ s # <<>>
  <2>1. PICK i \in DOMAIN s : s[i] = u
    BY <1>3
  <2>2. Len(s) # 0
    BY <1>2, <2>1
  <2> QED
    BY <1>1, <2>2, EmptySeq
<1>5. /\ Tail(s) \in Seq(Urls) /\ Len(Tail(s)) = Len(s) - 1
      /\ \A i \in 1..Len(Tail(s)) : Tail(s)[i] = s[i + 1]
      /\ Head(s) = s[1]
  BY <1>1, <1>4, HeadTailProperties
<1>6. DOMAIN Tail(s) = 1..(Len(s) - 1)
  BY <1>5, LenProperties
<1>7. ASSUME NEW v \in Urls, v # u, read[v] = "global"
      PROVE  \E i \in DOMAIN Tail(s) : Tail(s)[i] = v
  <2>1. PICK i \in DOMAIN s : s[i] = v
    BY <1>3, <1>7
  <2>2. i # 1
    BY <1>5, <1>7, <2>1 DEF s
  <2>3. i - 1 \in 1..(Len(s) - 1) /\ (i - 1) + 1 = i
    BY <1>2, <2>1, <2>2
  <2>4. Tail(s)[i - 1] = v
    BY <1>5, <2>1, <2>3
  <2> QED
    BY <1>6, <2>3, <2>4
<1> QED
  BY <1>5, <1>7 DEF s

LEMMA AcquireSlotInv == ASSUME IInv, NEW u \in Urls, AcquireSlot(u) PROVE IInv'
<1>1. /\ pc = "reading" /\ read[u] = "global" /\ Head(permits.queue) = u
      /\ Cardinality(permits.slot) < MaxConcurrency
      /\ UNCHANGED <<pc, att, ext, store, env>>
  BY DEF AcquireSlot
<1>2. permits \in Permits /\ read \in Reads
  BY DEF IInv, Typed
<1>3. /\ Tail(permits.queue) \in Seq(Urls)
      /\ \A v \in Urls : v # u /\ read[v] = "global" =>
           \E i \in DOMAIN Tail(permits.queue) : Tail(permits.queue)[i] = v
  BY <1>1, QueueMoves
<1>5. CASE env.deadline
  <2>1. /\ permits' = [permits EXCEPT !.host = permits.host \ {u},
                                      !.queue = Tail(permits.queue)]
        /\ read' = [read EXCEPT ![u] = "deadline"]
        /\ UNCHANGED hist
    BY <1>5 DEF AcquireSlot
  <2>2. /\ permits' \in Permits /\ permits'.host = permits.host \ {u}
        /\ permits'.slot = permits.slot /\ permits'.queue = Tail(permits.queue)
    BY <1>2, <1>3, <2>1 DEF Permits
  <2>3. \A v \in Urls : read'[v] = IF v = u THEN "deadline" ELSE read[v]
    BY <1>2, <2>1 DEF Reads
  <2>4. /\ \A v \in Urls : v \in permits'.slot <=> read'[v] = "fetch"
        /\ \A v \in Urls : read'[v] \in {"global", "fetch"} => v \in permits'.host
    BY <1>1, <2>2, <2>3 DEF IInv, PermitsInv
  <2>5. PermitsInv'
    BY <2>2, <2>4, PermitsShrink
  <2>6. ReadsInv'
    BY <1>1, <1>3, <2>2, <2>3 DEF IInv, ReadsInv
  <2> QED
    BY <1>1, <2>1, <2>2, <2>5, <2>6, ReadMoves DEF Finished
<1>6. CASE ~env.deadline
  <2>1. /\ permits' = [permits EXCEPT !.slot = permits.slot \cup {u},
                                      !.queue = Tail(permits.queue)]
        /\ read' = [read EXCEPT ![u] = "fetch"]
        /\ hist' = [hist EXCEPT !.unaudited = hist.unaudited \cup {u}]
    BY <1>6 DEF AcquireSlot
  <2>2. /\ permits' \in Permits /\ permits'.host = permits.host
        /\ permits'.slot = permits.slot \cup {u} /\ permits'.queue = Tail(permits.queue)
    BY <1>2, <1>3, <2>1 DEF Permits
  <2>3. \A v \in Urls : read'[v] = IF v = u THEN "fetch" ELSE read[v]
    BY <1>2, <2>1 DEF Reads
  <2>4. u \in permits.host
    BY <1>1 DEF IInv, PermitsInv
  <2>5. PermitsInv'
    <3>1. IsFiniteSet(permits.slot)
      BY SlotsFinite
    <3>2. Cardinality(permits'.slot) <= MaxConcurrency
      <4>1. \/ Cardinality(permits'.slot) = Cardinality(permits.slot)
            \/ Cardinality(permits'.slot) = Cardinality(permits.slot) + 1
        BY <2>2, <3>1, FS_AddElement
      <4>2. Cardinality(permits.slot) \in Nat
        BY <3>1, FS_CardinalityType
      <4> QED
        BY <1>1, <4>1, <4>2, ReadingAssumption
    <3> QED
      BY <2>2, <2>3, <2>4, <3>2 DEF IInv, PermitsInv, HostHolders
  <2>6. ReadsInv'
    BY <1>1, <1>3, <2>2, <2>3 DEF IInv, ReadsInv
  <2> QED
    BY <1>1, <2>1, <2>2, <2>5, <2>6, ReadMoves
<1> QED
  BY <1>5, <1>6 DEF IInv, Typed, Surroundings

LEMMA FinishReadInv == ASSUME IInv, NEW u \in Urls, FinishRead(u) PROVE IInv'
<1>1. PICK outcome \in (ReadOutcomes(u) \ {"escape"}) \cup {"deadline"} :
        read' = [read EXCEPT ![u] = outcome]
  BY DEF FinishRead
<1>2. /\ pc = "reading" /\ read[u] = "fetch" /\ permits' = Release(u)
      /\ UNCHANGED <<pc, att, ext, store, env, hist>>
  BY DEF FinishRead
<1>3. permits \in Permits /\ read \in Reads
  BY DEF IInv, Typed
<1>4. outcome \in Finished /\ (outcome = "page" => Reachable(u))
  BY DEF ReadOutcomes, Finished
<1>5. /\ permits' \in Permits /\ permits'.host = permits.host \ {u}
      /\ permits'.slot = permits.slot \ {u} /\ permits'.queue = permits.queue
  BY <1>2, <1>3 DEF Permits, Release
<1>6. \A v \in Urls : read'[v] = IF v = u THEN outcome ELSE read[v]
  BY <1>1, <1>3 DEF Reads
<1>7. PermitsInv'
  <2>1. \A v \in Urls : v \in permits'.slot <=> read'[v] = "fetch"
    BY <1>4, <1>5, <1>6 DEF IInv, PermitsInv, Finished
  <2>2. \A v \in Urls : read'[v] \in {"global", "fetch"} => v \in permits'.host
    BY <1>4, <1>5, <1>6 DEF IInv, PermitsInv, Finished
  <2> QED
    BY <1>5, <2>1, <2>2, PermitsShrink
<1>8. ReadsInv'
  BY <1>2, <1>4, <1>5, <1>6 DEF IInv, ReadsInv, Finished
<1> QED
  BY <1>1, <1>2, <1>4, <1>5, <1>7, <1>8, ReadMoves

LEMMA IndexMoves ==
    ASSUME att \in Attempt, NEW i \in Nat \ {0}, att' = [att EXCEPT !.index = i]
    PROVE  /\ att' \in Attempt /\ att'.index = i /\ att'.batch = att.batch
           /\ att'.url = att.url /\ att'.page = att.page
  BY DEF Attempt

LEMMA GatherReturnsInv == ASSUME IInv, GatherReturns PROVE IInv'
<1>1. /\ pc = "reading" /\ pc' = "recording" /\ att' = [att EXCEPT !.index = 1]
      /\ UNCHANGED <<read, permits, ext, store, env, hist>>
  BY DEF GatherReturns
<1>2. att \in Attempt /\ att.batch \in Seq(Urls)
  BY DEF IInv, Typed, Attempt
<1>3. /\ att' \in Attempt /\ att'.index = 1 /\ att'.batch = att.batch /\ att'.url = att.url
      /\ att'.page = att.page
  <2>1. 1 \in Nat \ {0}
    OBVIOUS
  <2> QED
    BY <1>1, <1>2, <2>1, IndexMoves
<1>4. DOMAIN att.batch = 1..Len(att.batch) /\ Len(att.batch) \in Nat
  BY <1>2, LenProperties
<1>5. att.batch # <<>> /\ Len(att.batch) # 0
  BY <1>1, <1>2, EmptySeq DEF IInv, AuditInv
<1>6. AuditInv'
  <2>1. ASSUME NEW u \in hist.unaudited
        PROVE  \E i \in DOMAIN att.batch : i >= 1 /\ att.batch[i] = u
    BY <1>1, <1>4 DEF IInv, AuditInv, Range
  <2> QED
    BY <1>1, <1>3, <1>4, <1>5, <2>1 DEF AuditInv
<1>7. Typed' /\ PageInv' /\ HistoryInv'
  BY <1>1, <1>3 DEF IInv, Typed, PageInv, HistoryInv
<1>8. PermitsInv' /\ ReadsInv'
  <2>1. \A u \in Urls : read[u] # "none" => read[u] \in Finished
    BY DEF GatherReturns, IInv, ReadsInv
  <2> QED
    BY <1>1, <1>3, <2>1 DEF IInv, PermitsInv, ReadsInv, HostHolders
<1>9. ExtractionInv(ext)'
  BY <1>1 DEF IInv
<1> QED
  BY <1>6, <1>7, <1>8, <1>9 DEF IInv

(* The recorder passes one outcome of the batch.                           *)
LEMMA RecordOutcomeInv == ASSUME IInv, RecordOutcome PROVE IInv'
<1> DEFINE u == att.batch[att.index]
           last == att.index = Len(att.batch)
<1>1. /\ pc = "recording" /\ hist' = [hist EXCEPT !.unaudited = hist.unaudited \ {u}]
      /\ IF last THEN pc' = "loop" /\ att' = [att EXCEPT !.index = 1]
                 ELSE att' = [att EXCEPT !.index = att.index + 1] /\ UNCHANGED pc
      /\ UNCHANGED <<read, permits, ext, store, env>>
  BY DEF RecordOutcome
<1>2. att \in Attempt /\ att.batch \in Seq(Urls) /\ att.index \in Nat \ {0}
  BY DEF IInv, Typed, Attempt
<1>3. DOMAIN att.batch = 1..Len(att.batch) /\ Len(att.batch) \in Nat
  BY <1>2, LenProperties
<1>4. att.index <= Len(att.batch) /\ att.url = NoUrl
      /\ \A v \in hist.unaudited : \E i \in DOMAIN att.batch : i >= att.index /\ att.batch[i] = v
  BY <1>1 DEF IInv, AuditInv, PageInv
<1>5. /\ att' \in Attempt /\ att'.batch = att.batch /\ att'.url = att.url
      /\ att'.page = att.page /\ (~last => att'.index = att.index + 1)
  <2>1. att.index + 1 \in Nat \ {0} /\ 1 \in Nat \ {0}
    BY <1>2
  <2> QED
    BY <1>1, <1>2, <2>1, IndexMoves
<1>6. /\ hist' \in History /\ hist'.unaudited = hist.unaudited \ {u}
      /\ hist'.recorded = hist.recorded /\ hist'.again = hist.again /\ hist'.repaid = hist.repaid
  BY <1>1 DEF IInv, Typed, History
<1>7. AuditInv'
  <2>1. ASSUME NEW v \in hist'.unaudited
        PROVE  \E i \in DOMAIN att.batch : i > att.index /\ att.batch[i] = v
    <3>1. PICK i \in DOMAIN att.batch : i >= att.index /\ att.batch[i] = v
      BY <1>4, <1>6, <2>1
    <3>2. i # att.index
      BY <1>6, <2>1, <3>1
    <3> QED
      BY <1>2, <1>3, <3>1, <3>2
  <2>2. CASE last
    <3>1. hist'.unaudited = {}
      BY <1>2, <1>3, <2>1, <2>2
    <3> QED
      BY <1>1, <2>2, <3>1 DEF AuditInv
  <2>3. CASE ~last
    <3>1. att'.index <= Len(att.batch)
      BY <1>2, <1>3, <1>4, <1>5, <2>3
    <3>2. \A v \in hist'.unaudited :
            \E i \in DOMAIN att.batch : i >= att'.index /\ att.batch[i] = v
      BY <1>2, <1>3, <1>5, <2>1, <2>3
    <3>3. pc' = "recording" /\ att.batch # <<>>
      BY <1>1, <2>3 DEF IInv, AuditInv
    <3> QED
      BY <1>5, <3>1, <3>2, <3>3 DEF AuditInv
  <2> QED
    BY <2>2, <2>3
<1>8. pc' \in {"recording", "loop"}
  BY <1>1
<1>9. Typed' /\ PageInv' /\ HistoryInv'
  BY <1>1, <1>4, <1>5, <1>6, <1>8 DEF IInv, Typed, PageInv, HistoryInv
<1>10. PermitsInv' /\ ReadsInv'
  BY <1>1, <1>5, <1>8 DEF IInv, PermitsInv, ReadsInv, HostHolders
<1>11. ExtractionInv(ext)'
  BY <1>1 DEF IInv
<1> QED
  BY <1>7, <1>9, <1>10, <1>11 DEF IInv

--------------------------------------------------------------------------------
(* The loop over the results                                                   *)

(* A step of the loop that only changes what the attempt is at.            *)
LEMMA LoopMoves ==
    ASSUME IInv, pc = "loop", UNCHANGED <<pc, read, permits, ext, store, env, hist>>,
           att' \in Attempt, att'.batch = att.batch,
           att'.url # NoUrl => att'.page \in Pages /\ att'.pagesRead < PageLimit
    PROVE  IInv'
<1>1. Typed' /\ AuditInv' /\ PageInv' /\ HistoryInv'
  BY DEF IInv, Typed, AuditInv, PageInv, HistoryInv
<1>2. PermitsInv' /\ ReadsInv'
  BY DEF IInv, PermitsInv, ReadsInv, HostHolders
<1>3. ExtractionInv(ext)'
  BY DEF IInv
<1> QED
  BY <1>1, <1>2, <1>3 DEF IInv

(* A reachable page is a document.                                         *)
LEMMA ReachablePages == ASSUME NEW u, Reachable(u) PROVE FinalUrl(u) \in Pages
<1>1. FinalUrl(u) \in Requested(u)
  BY WebAssumption DEF FinalUrl, Requested
<1>2. FinalUrl(u) \in Urls
  BY <1>1, WebAssumption DEF Reachable
<1> QED
  BY <1>2 DEF Reachable, Pages

LEMMA NextResultType ==
    ASSUME IInv, pc \in {"loop", "extracting", "storing"}
    PROVE  /\ NextResult(att) \in Attempt /\ NextResult(att).batch = att.batch
           /\ NextResult(att).url = NoUrl /\ NextResult(att).pagesRead = att.pagesRead
<1>1. att \in Attempt /\ att.index + 1 \in Nat \ {0}
  BY DEF IInv, Typed, Attempt
<1> QED
  BY <1>1 DEF NextResult, Attempt

LEMMA TakenType ==
    ASSUME IInv, NEW u \in Urls, NEW p \in Urls
    PROVE  /\ Taken(u, p) \in Attempt /\ Taken(u, p).batch = att.batch
           /\ Taken(u, p).page = p /\ Taken(u, p).pagesRead = att.pagesRead
  BY DEF Taken, IInv, Typed, Attempt

(* The URL the loop looks at.                                              *)
LEMMA ResultIsUrl == ASSUME IInv, InLoop PROVE att.results[att.index] \in Urls
<1>1. att.results \in Seq(Urls) /\ att.index \in Nat \ {0} /\ att.index <= Len(att.results)
  BY DEF InLoop, IInv, Typed, Attempt
<1>2. Len(att.results) \in Nat
  BY <1>1, LenProperties
<1>3. att.index \in 1..Len(att.results)
  BY <1>1, <1>2
<1> QED
  BY <1>1, <1>3, ElementOfSeq

LEMMA TakeInv ==
    ASSUME IInv, InLoop, NEW u \in Urls, NEW p \in Pages, att' = Taken(u, p),
           UNCHANGED <<pc, read, permits, ext, store, env, hist>>
    PROVE  IInv'
<1>1. p \in Urls
  BY DEF Pages
<1>2. /\ att' \in Attempt /\ att'.batch = att.batch /\ att'.page = p
      /\ att'.pagesRead = att.pagesRead
  BY <1>1, TakenType
<1> QED
  BY <1>2, LoopMoves DEF InLoop

LEMMA SkipInv ==
    ASSUME IInv, pc = "loop", att' = NextResult(att),
           UNCHANGED <<pc, read, permits, ext, store, env, hist>>
    PROVE  IInv'
  BY NextResultType, LoopMoves

LEMMA TakeReusableInv == ASSUME IInv, TakeReusable PROVE IInv'
<1> DEFINE u == att.results[att.index]
<1>1. InLoop /\ u \in att.reusable /\ att' = Taken(u, u)
      /\ UNCHANGED <<pc, read, permits, ext, store, env, hist>>
  BY DEF TakeReusable
<1>2. u \in Urls /\ u \in Pages
  BY <1>1, ResultIsUrl DEF IInv, Typed, Attempt
<1> HIDE DEF u
<1> QED
  BY <1>1, <1>2, TakeInv

LEMMA TakePrefetchedInv == ASSUME IInv, TakePrefetched PROVE IInv'
<1> DEFINE u == att.results[att.index]
<1>1. InLoop /\ u \in Range(att.batch)
      /\ att' = (IF read[u] = "page" THEN Taken(u, FinalUrl(u)) ELSE NextResult(att))
      /\ UNCHANGED <<pc, read, permits, ext, store, env, hist>>
  BY DEF TakePrefetched
<1>2. u \in Urls
  BY <1>1, ResultIsUrl
<1> HIDE DEF u
<1>3. CASE read[u] = "page"
  <2>1. FinalUrl(u) \in Pages
    BY <1>2, <1>3, ReachablePages DEF IInv, ReadsInv
  <2> QED
    BY <1>1, <1>2, <1>3, <2>1, TakeInv
<1>4. CASE read[u] # "page"
  BY <1>1, <1>4, SkipInv DEF InLoop
<1> QED
  BY <1>3, <1>4

LEMMA ReadSeriallyInv == ASSUME IInv, ReadSerially PROVE IInv'
<1> DEFINE u == att.results[att.index]
           same == UNCHANGED <<pc, read, permits, ext, store, env, hist>>
<1>1. InLoop
      /\ \E outcome \in ReadOutcomes(u) :
           \/ outcome = "page"  /\ att' = Taken(u, FinalUrl(u)) /\ same
           \/ outcome = "error" /\ att' = NextResult(att) /\ same
           \/ /\ outcome = "escape" /\ Abandon([env EXCEPT !.run = "failed"], store)
              /\ LoseReads({u})
  BY DEF ReadSerially
<1>2. u \in Urls
  BY <1>1, ResultIsUrl
<1> HIDE DEF u
<1>3. CASE "page" \in ReadOutcomes(u) /\ att' = Taken(u, FinalUrl(u)) /\ same
  <2>1. FinalUrl(u) \in Pages
    BY <1>3, ReachablePages DEF ReadOutcomes
  <2> QED
    BY <1>1, <1>2, <1>3, <2>1, TakeInv
<1>4. CASE att' = NextResult(att) /\ same
  BY <1>1, <1>4, SkipInv DEF InLoop
<1>5. CASE Abandon([env EXCEPT !.run = "failed"], store) /\ LoseReads({u})
  <2>1. env' \in Surroundings /\ env'.run = "failed"
    BY <1>5 DEF Abandon, IInv, Typed, Surroundings
  <2>2. hist' \in History /\ hist'.unaudited = {} /\ HistoryInv'
    <3>1. {u} \in SUBSET Urls /\ store' = store
      BY <1>2, <1>5 DEF Abandon
    <3> QED
      BY <1>5, <2>1, <3>1, LostReads
  <2> QED
    BY <1>5, <2>1, <2>2, OverInv DEF Abandon, IInv, Typed
<1> QED
  BY <1>1, <1>3, <1>4, <1>5

LEMMA SkipProcessedInv == ASSUME IInv, SkipProcessed PROVE IInv'
  BY SkipInv DEF SkipProcessed

(* A fresh page is below the limit of an attempt and new to the question.  *)
LEMMA FreshPage ==
    ASSUME IInv, Fresh
    PROVE  /\ pc = "loop" /\ att.url # NoUrl /\ att.page \in Pages
           /\ att.page \notin store.processed[att.q]
           /\ att.pagesRead \in 0..PageLimit /\ att.pagesRead + 1 \in 0..PageLimit
<1>1. att.pagesRead \in 0..PageLimit
  BY DEF IInv, Typed, Attempt
<1>2. att.pagesRead < PageLimit
  BY DEF Fresh, IInv, PageInv
<1> QED
  BY <1>1, <1>2, ReadingAssumption DEF Fresh, AlreadyProcessed, IInv, PageInv

LEMMA TriageRejectsInv == ASSUME IInv, TriageRejects PROVE IInv'
<1>1. att.pagesRead + 1 \in 0..PageLimit /\ pc = "loop"
  BY FreshPage DEF TriageRejects
<1>2. att' = [NextResult(att) EXCEPT !.pagesRead = NextResult(att).pagesRead + 1]
      /\ UNCHANGED <<pc, read, permits, ext, store, env, hist>>
  BY DEF TriageRejects
<1>3. att' \in Attempt /\ att'.batch = att.batch /\ att'.url = NoUrl
  BY <1>1, <1>2, NextResultType DEF Attempt
<1> QED
  BY <1>1, <1>2, <1>3, LoopMoves

LEMMA BeginExtractionInv == ASSUME IInv, BeginExtraction PROVE IInv'
<1>1. PICK max \in CallBudgets :
        IF <<att.q, att.page>> \in store.cache
        THEN /\ ext' = [Start(max) EXCEPT !.phase = "scored", !.batch = "accepted",
                                          !.known = TRUE]
             /\ pc' = "storing"
        ELSE ext' = Start(max) /\ pc' = "extracting"
  BY DEF BeginExtraction
<1>2. /\ Fresh /\ ExtractionSlotFree
      /\ att' = [att EXCEPT !.pagesRead = att.pagesRead + 1]
      /\ store' = [store EXCEPT !.reserved = store.reserved + 1]
      /\ UNCHANGED <<read, permits, env, hist>>
  BY DEF BeginExtraction
<1>3. max \in Nat /\ max >= LeastCall
  BY ReadingAssumption
<1>4. /\ att' \in Attempt /\ att'.batch = att.batch /\ att'.url = att.url
      /\ att'.page = att.page /\ att'.q = att.q
  BY <1>2, FreshPage DEF IInv, Typed, Attempt
<1>5. /\ store.extracted \in Nat /\ store.reserved \in Nat
      /\ store.extracted + store.reserved < MaxExtracted
  BY <1>2 DEF ExtractionSlotFree, IInv, Typed, Store
<1>6. /\ store' \in Store /\ store'.processed = store.processed /\ store'.cache = store.cache
      /\ store'.extracted = store.extracted /\ store'.reserved = store.reserved + 1
  BY <1>2, <1>5 DEF IInv, Typed, Store
<1>7. store'.reserved > 0 /\ store'.extracted + store'.reserved <= MaxExtracted
  BY <1>5, <1>6, ReadingAssumption
<1>8. pc' \in {"storing", "extracting"}
      /\ (pc' = "extracting" => <<att.q, att.page>> \notin store.cache /\ ext' = Start(max))
  BY <1>1
<1>9. ExtractionInv(ext)'
  BY <1>1, <1>3, StartSound, CachedSound
<1>10. pc' = "extracting" => ext'.max >= LeastCall
  BY <1>3, <1>8, StartSound
<1>11. Typed'
  BY <1>2, <1>4, <1>6, <1>7, <1>8 DEF IInv, Typed
<1>12. PermitsInv' /\ ReadsInv'
  <2>1. pc = "loop"
    BY <1>2 DEF Fresh
  <2> QED
    BY <1>2, <1>4, <2>1 DEF IInv, PermitsInv, ReadsInv, HostHolders
<1>13. AuditInv' /\ HistoryInv'
  BY <1>2, <1>4, <1>6, <1>8 DEF IInv, AuditInv, HistoryInv, Fresh
<1>14. PageInv'
  BY <1>2, <1>4, <1>6, <1>7, <1>8, <1>10, FreshPage DEF PageInv
<1> QED
  BY <1>9, <1>11, <1>12, <1>13, <1>14 DEF IInv

--------------------------------------------------------------------------------
(* Extraction and its record                                                   *)

LEMMA ModelCallInv == ASSUME IInv, ModelCall PROVE IInv'
<1>1. PICK r \in Answered, cost \in Costs(ext.cap), valid \in BOOLEAN, relevant \in BOOLEAN,
           batch \in Batches :
        ext' = AfterCall(ext, r, cost, valid, batch, relevant)
  BY DEF ModelCall
<1>2. /\ pc = "extracting" /\ ext.phase \notin {"scored", "failed"}
      /\ UNCHANGED <<pc, att, read, permits, store, env>>
  BY DEF ModelCall
<1>3. ext.max >= LeastCall /\ <<att.q, att.page>> \notin store.cache
  BY <1>2 DEF IInv, PageInv
<1>4. ext.phase \in Calling
  BY <1>2 DEF IInv, ExtractionInv, Phases, Calling
<1>5. ExtractionInv(ext') /\ ext'.max = ext.max
  BY <1>1, <1>3, <1>4, AfterCallSound DEF IInv
<1>6. hist' = hist
  <2>1. hist' = [hist EXCEPT !.repaid = hist.repaid \cup {}]
    BY <1>3 DEF ModelCall
  <2>2. hist.repaid \cup {} = hist.repaid
    OBVIOUS
  <2> QED
    BY <2>1, <2>2 DEF IInv, Typed, History
<1>7. Typed' /\ AuditInv' /\ PageInv' /\ HistoryInv'
  BY <1>2, <1>5, <1>6 DEF IInv, Typed, AuditInv, PageInv, HistoryInv
<1>8. PermitsInv' /\ ReadsInv'
  BY <1>2 DEF IInv, PermitsInv, ReadsInv, HostHolders
<1> QED
  BY <1>5, <1>7, <1>8 DEF IInv

LEMMA CachePutInv == ASSUME IInv, CachePut PROVE IInv'
<1>1. /\ pc = "extracting" /\ pc' = "storing"
      /\ store' = [store EXCEPT !.cache = store.cache \cup
                     (IF Cacheable(ext) THEN {<<att.q, att.page>>} ELSE {})]
      /\ UNCHANGED <<att, read, permits, ext, env, hist>>
  BY DEF CachePut
<1>2. <<att.q, att.page>> \in Questions \X Pages
  BY <1>1 DEF IInv, Typed, Attempt, PageInv
<1>3. /\ store' \in Store /\ store'.processed = store.processed
      /\ store'.extracted = store.extracted /\ store'.reserved = store.reserved
  BY <1>1, <1>2 DEF IInv, Typed, Store
<1>4. Typed' /\ AuditInv' /\ PageInv' /\ HistoryInv'
  BY <1>1, <1>3 DEF IInv, Typed, AuditInv, PageInv, HistoryInv
<1>5. PermitsInv' /\ ReadsInv'
  BY <1>1 DEF IInv, PermitsInv, ReadsInv, HostHolders
<1>6. ExtractionInv(ext)'
  BY <1>1 DEF IInv
<1> QED
  BY <1>4, <1>5, <1>6 DEF IInv

(* Recording a page marks it for its question, where it was not marked     *)
(* before, and turns its reserved slot into an extracted page.             *)
LEMMA RecordedFacts ==
    ASSUME IInv, pc \in {"extracting", "storing"}, NEW cut \in BOOLEAN, FailureRecorded(cut),
           env' \in Surroundings, env'.run = "failed" \/ env' = env
    PROVE  /\ store' \in Store /\ store'.extracted + store'.reserved <= MaxExtracted
           /\ hist' \in History /\ hist'.unaudited = {} /\ HistoryInv'
<1> DEFINE q == att.q
           p == att.page
<1>1. q \in Questions /\ p \in Pages /\ p \notin store.processed[q] /\ store.reserved > 0
  BY DEF IInv, Typed, Attempt, PageInv
<1>2. store \in Store /\ store.extracted \in Nat /\ store.reserved \in Nat
      /\ store.extracted + store.reserved <= MaxExtracted
  BY DEF IInv, Typed, Store
<1>3. store' = [store EXCEPT !.snapshots = store.snapshots \cup {p},
                             !.processed[q] = store.processed[q] \cup {p},
                             !.extracted = store.extracted + 1, !.reserved = store.reserved - 1]
  BY DEF FailureRecorded, Recorded
<1>4. hist' = [hist EXCEPT !.recorded = hist.recorded \cup {<<q, p>>},
                           !.again = hist.again \cup
                             (IF <<q, p>> \in hist.recorded THEN {<<q, p>>} ELSE {}),
                           !.cut = hist.cut \cup (IF cut THEN {<<q, p>>} ELSE {})]
  BY DEF FailureRecorded, MarkRecorded
<1> HIDE DEF q, p
<1>5. store.extracted + 1 \in Nat /\ store.reserved - 1 \in Nat
  BY <1>1, <1>2
<1>6. /\ store'.extracted = store.extracted + 1 /\ store'.reserved = store.reserved - 1
      /\ store'.processed = [store.processed EXCEPT ![q] = store.processed[q] \cup {p}]
  BY <1>2, <1>3 DEF Store
<1>7. store' \in Store
  BY <1>1, <1>2, <1>3, <1>5 DEF Store
<1>8. <<q, p>> \notin hist.recorded
  BY <1>1 DEF IInv, HistoryInv
<1>9. /\ hist' \in History /\ hist'.recorded = hist.recorded \cup {<<q, p>>}
      /\ hist'.again = {} /\ hist'.repaid = {} /\ hist'.unaudited = {}
      /\ hist'.lost = hist.lost /\ hist'.cut \subseteq hist'.recorded
  <2>1. hist \in History /\ hist.again = {} /\ hist.repaid = {} /\ hist.unaudited = {}
        /\ hist.cut \subseteq hist.recorded
    BY DEF IInv, Typed, HistoryInv, AuditInv
  <2>2. <<q, p>> \in Questions \X Pages
    BY <1>1
  <2> QED
    BY <1>4, <1>8, <2>1, <2>2 DEF History
<1>10. HistoryInv'
  <2>1. ASSUME NEW r \in Questions, NEW w \in Pages, <<r, w>> \in hist'.recorded
        PROVE  w \in store'.processed[r]
    <3>1. CASE r = q /\ w = p
      BY <1>1, <1>2, <1>6, <3>1 DEF Store
    <3>2. CASE ~(r = q /\ w = p)
      <4>1. <<r, w>> \in hist.recorded
        BY <1>9, <2>1, <3>2
      <4>2. w \in store.processed[r]
        BY <4>1 DEF IInv, HistoryInv
      <4> QED
        BY <1>1, <1>2, <1>6, <4>2 DEF Store
    <3> QED
      BY <3>1, <3>2
  <2>2. env'.run = "active" /\ env'.crashes = 0 => hist'.lost = {}
    BY <1>9 DEF IInv, HistoryInv
  <2> QED
    BY <1>9, <2>1, <2>2 DEF HistoryInv
<1> QED
  BY <1>2, <1>5, <1>6, <1>7, <1>9, <1>10, ReadingAssumption

(* After a recorded page the attempt is over, or at its next result.       *)
LEMMA RecordedEnds ==
    ASSUME IInv, pc \in {"extracting", "storing"}, NEW cut \in BOOLEAN, FailureRecorded(cut),
           pc' = "idle", att' = NoAttempt, read' = Idle, ext' = NoExtraction,
           UNCHANGED permits, env' \in Surroundings, env'.run = "failed" \/ env' = env
    PROVE  IInv'
  BY RecordedFacts, OverInv

LEMMA RecordedGoesOn ==
    ASSUME IInv, pc \in {"extracting", "storing"}, NEW cut \in BOOLEAN, FailureRecorded(cut),
           pc' = "loop", ext' = NoExtraction, UNCHANGED <<read, permits, env>>,
           att' \in Attempt, att'.batch = att.batch, att'.url = NoUrl
    PROVE  IInv'
<1>1. Typed' /\ HistoryInv' /\ hist'.unaudited = {}
  BY RecordedFacts DEF IInv, Typed
<1>2. AuditInv' /\ PageInv'
  BY <1>1 DEF AuditInv, PageInv
<1>3. PermitsInv' /\ ReadsInv'
  BY DEF IInv, PermitsInv, ReadsInv, HostHolders
<1>4. ExtractionInv(ext)'
  BY StartSound DEF NoExtraction
<1> QED
  BY <1>1, <1>2, <1>3, <1>4 DEF IInv

LEMMA RecordPageInv == ASSUME IInv, RecordPage PROVE IInv'
<1>1. pc = "storing" /\ FailureRecorded(FALSE) /\ FALSE \in BOOLEAN
  BY DEF RecordPage, FailureRecorded
<1>2. CASE EndAttempt
  BY <1>1, <1>2, RecordedEnds DEF EndAttempt, IInv, Typed
<1>3. CASE /\ pc' = "loop" /\ ext' = NoExtraction
           /\ att' = [NextResult(att) EXCEPT !.structured = 0,
                        !.zero = IF ext.batch = "rejected" THEN NextResult(att).zero + 1 ELSE 0,
                        !.accepted = NextResult(att).accepted \/ ext.batch = "accepted"]
           /\ UNCHANGED <<read, permits, env>>
  <2>1. NextResult(att) \in Attempt /\ NextResult(att).batch = att.batch
        /\ NextResult(att).url = NoUrl
    BY <1>1, NextResultType
  <2>2. /\ (IF ext.batch = "rejected" THEN NextResult(att).zero + 1 ELSE 0) \in Nat
        /\ (NextResult(att).accepted \/ ext.batch = "accepted") \in BOOLEAN
    BY <2>1 DEF Attempt
  <2>3. att' \in Attempt /\ att'.batch = att.batch /\ att'.url = NoUrl
    BY <1>3, <2>1, <2>2 DEF Attempt
  <2> QED
    BY <1>1, <1>3, <2>3, RecordedGoesOn
<1> QED
  BY <1>2, <1>3 DEF RecordPage

LEMMA RecordFailureInv == ASSUME IInv, RecordFailure PROVE IInv'
<1> DEFINE structured == IF ext.code \in StructuredErrors THEN att.structured + 1 ELSE 0
           cut == ext.code \in TransportErrors
<1>1. pc = "extracting" /\ FailureRecorded(cut) /\ cut \in BOOLEAN
  BY DEF RecordFailure
<1> HIDE DEF cut
<1>2. CASE EndAttempt
  BY <1>1, <1>2, RecordedEnds DEF EndAttempt, IInv, Typed
<1>3. CASE /\ pc' = "idle" /\ att' = NoAttempt /\ read' = Idle /\ ext' = NoExtraction
           /\ env' = [env EXCEPT !.run = "failed"] /\ UNCHANGED permits
  <2>1. env' \in Surroundings /\ env'.run = "failed"
    BY <1>3 DEF IInv, Typed, Surroundings
  <2> QED
    BY <1>1, <1>3, <2>1, RecordedEnds
<1>4. CASE /\ pc' = "loop" /\ att' = [NextResult(att) EXCEPT !.structured = structured]
           /\ ext' = NoExtraction /\ UNCHANGED <<read, permits, env>>
  <2>1. NextResult(att) \in Attempt /\ NextResult(att).batch = att.batch
        /\ NextResult(att).url = NoUrl
    BY <1>1, NextResultType
  <2>2. structured \in Nat
    BY DEF IInv, Typed, Attempt
  <2>3. att' \in Attempt /\ att'.batch = att.batch /\ att'.url = NoUrl
    BY <1>4, <2>1, <2>2 DEF Attempt
  <2> QED
    BY <1>1, <1>4, <2>3, RecordedGoesOn
<1> QED
  BY <1>2, <1>3, <1>4 DEF RecordFailure

LEMMA DeadlineCancelsInv == ASSUME IInv, DeadlineCancels PROVE IInv'
<1>1. pc = "extracting" /\ FailureRecorded(FALSE) /\ FALSE \in BOOLEAN /\ EndAttempt
  BY DEF DeadlineCancels
<1> QED
  BY <1>1, RecordedEnds DEF EndAttempt, IInv, Typed

LEMMA ExpireInv == ASSUME IInv, Expire PROVE IInv'
<1>1. env' = [env EXCEPT !.deadline = TRUE]
      /\ UNCHANGED <<pc, att, read, permits, ext, store, hist>>
  BY DEF Expire
<1>2. env' \in Surroundings /\ env'.run = env.run /\ env'.crashes = env.crashes
  BY <1>1 DEF IInv, Typed, Surroundings
<1>3. Typed' /\ AuditInv' /\ PageInv' /\ HistoryInv'
  BY <1>1, <1>2 DEF IInv, Typed, AuditInv, PageInv, HistoryInv
<1>4. PermitsInv' /\ ReadsInv'
  BY <1>1 DEF IInv, PermitsInv, ReadsInv, HostHolders
<1>5. ExtractionInv(ext)'
  BY <1>1 DEF IInv
<1> QED
  BY <1>3, <1>4, <1>5 DEF IInv

LEMMA StutterInv == ASSUME IInv, UNCHANGED vars PROVE IInv'
<1>1. UNCHANGED <<pc, att, read, permits, ext, store, env, hist>>
  BY DEF vars
<1>2. Typed' /\ AuditInv' /\ PageInv' /\ HistoryInv'
  BY <1>1 DEF IInv, Typed, AuditInv, PageInv, HistoryInv
<1>3. PermitsInv' /\ ReadsInv'
  BY <1>1 DEF IInv, PermitsInv, ReadsInv, HostHolders
<1>4. ExtractionInv(ext)'
  BY <1>1 DEF IInv
<1> QED
  BY <1>2, <1>3, <1>4 DEF IInv

LEMMA NextInv == IInv /\ [Next]_vars => IInv'
<1> SUFFICES ASSUME IInv, [Next]_vars PROVE IInv'
  OBVIOUS
<1>1. CASE \E q \in Questions, results \in ResultLists : StartAttempt(q, results)
  BY <1>1, StartAttemptInv
<1>2. CASE \E u \in Urls : AcquireHost(u) \/ AcquireSlot(u) \/ FinishRead(u) \/ ReadEscapes(u)
  BY <1>2, AcquireHostInv, AcquireSlotInv, FinishReadInv, ReadEscapesInv
<1>3. CASE GatherReturns \/ RecordOutcome
  BY <1>3, GatherReturnsInv, RecordOutcomeInv
<1>4. CASE LoopEnds \/ TakeReusable \/ TakePrefetched \/ ReadSerially
  BY <1>4, LeaveLoopInv, TakeReusableInv, TakePrefetchedInv, ReadSeriallyInv
<1>5. CASE SkipProcessed \/ TriageRejects \/ ExtractionRefused \/ BeginExtraction
  BY <1>5, SkipProcessedInv, TriageRejectsInv, LeaveLoopInv, BeginExtractionInv
<1>6. CASE ModelCall \/ CachePut \/ RecordPage \/ RecordFailure
  BY <1>6, ModelCallInv, CachePutInv, RecordPageInv, RecordFailureInv
<1>7. CASE ExtractionEscapes \/ DeadlineCancels
  BY <1>7, ExtractionEscapesInv, DeadlineCancelsInv
<1>8. CASE Expire \/ Crash \/ UNCHANGED vars
  BY <1>8, ExpireInv, CrashInv, StutterInv
<1> QED
  BY <1>1, <1>2, <1>3, <1>4, <1>5, <1>6, <1>7, <1>8 DEF Next, Work

--------------------------------------------------------------------------------
(* The theorems                                                                *)

(* The inductive invariant holds in every reachable state.                 *)
THEOREM ReadingInvariant == Spec => []IInv
  BY InitInv, NextInv, PTL DEF Spec

(* For any batch, any hosts and any limits: no more fetches run at once    *)
(* than there are slots, no host has more than its permits, whichever read *)
(* finishes, escapes or meets the deadline; once the loop works on pages   *)
(* every fetch of the batch has its record; and a run that is not failed   *)
(* and in which no worker died has lost no read, batch or not.             *)
THEOREM ReadsStayControlled == Spec => []ReadsControlled
<1>1. IInv => ReadsControlled
  <2> SUFFICES ASSUME IInv PROVE ReadsControlled
    OBVIOUS
  <2>1. TypeOK
    BY ReadingAssumption DEF IInv, Typed, Attempt, Reads, Permits, Store, Surroundings,
       ExtractionInv, TypeOK
  <2>2. PoliteReads
    <3> DEFINE fetching == {u \in Urls : read[u] = "fetch"}
    <3>1. fetching = permits.slot
      BY DEF IInv, Typed, Permits, PermitsInv
    <3>2. Cardinality(fetching) <= MaxConcurrency
      BY <3>1 DEF IInv, PermitsInv
    <3>3. ASSUME NEW u \in Urls
          PROVE  Cardinality({v \in fetching \cup permits.slot : HostOf[v] = HostOf[u]})
                   <= MaxSameHost
      <4> DEFINE here == {v \in fetching \cup permits.slot : HostOf[v] = HostOf[u]}
      <4>1. here \subseteq HostHolders(HostOf[u]) /\ IsFiniteSet(HostHolders(HostOf[u]))
        <5>1. permits.slot \subseteq permits.host /\ IsFiniteSet(permits.host)
          BY SlotsFinite DEF IInv, PermitsInv
        <5> QED
          BY <3>1, <5>1, FS_Subset DEF HostHolders
      <4>2. Cardinality(here) <= Cardinality(HostHolders(HostOf[u]))
            /\ Cardinality(here) \in Nat /\ Cardinality(HostHolders(HostOf[u])) \in Nat
        BY <4>1, FS_Subset, FS_CardinalityType
      <4>3. Cardinality(HostHolders(HostOf[u])) <= MaxSameHost
        BY DEF IInv, PermitsInv
      <4> QED
        BY <4>2, <4>3, ReadingAssumption
    <3> QED
      BY <3>2, <3>3 DEF PoliteReads
  <2>3. ReadsAudited
    BY DEF IInv, AuditInv, HistoryInv, ReadsAudited
  <2> QED
    BY <2>1, <2>2, <2>3 DEF ReadsControlled
<1> QED
  BY <1>1, ReadingInvariant, PTL

(* Through redirects, retries, repairs, rescues, crashes and restarts a    *)
(* page is recorded once for a question, extracted or cut off, never paid  *)
(* for again once its evidence is cached, and its calls (three at most)    *)
(* report no more tokens than were reserved for them.                      *)
THEOREM PagesArePaidOnce == Spec => []PagesPaidOnce
<1>1. IInv => PagesPaidOnce
  <2> SUFFICES ASSUME IInv PROVE PagesPaidOnce
    OBVIOUS
  <2>1. RecordedOnce /\ CachedNeverPaidAgain /\ ReportedWithinReservation /\ CallsBounded
    BY DEF IInv, HistoryInv, ExtractionInv, RecordedOnce, CachedNeverPaidAgain,
       ReportedWithinReservation, CallsBounded
  <2>2. CutOffPassedOver
    <3> SUFFICES ASSUME NEW w \in hist.cut
                 PROVE  /\ w[2] \in store.processed[w[1]]
                        /\ pc \in {"extracting", "storing"} => w # <<att.q, att.page>>
      BY DEF CutOffPassedOver
    <3>1. w \in hist.recorded /\ hist.recorded \subseteq Questions \X Pages
      BY DEF IInv, Typed, History, HistoryInv
    <3>2. PICK q \in Questions, p \in Pages : w = <<q, p>>
      BY <3>1
    <3>3. p \in store.processed[q]
      BY <3>1, <3>2 DEF IInv, HistoryInv
    <3> QED
      BY <3>2, <3>3 DEF IInv, PageInv
  <2> QED
    BY <2>1, <2>2 DEF PagesPaidOnce
<1> QED
  BY <1>1, ReadingInvariant, PTL

=============================================================================
