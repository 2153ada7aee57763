-------------------------- MODULE GapFeedbackProofs --------------------------
(***************************************************************************)
(* Proofs about GapFeedback for any claims, owners, dimensions, findings   *)
(* and bounds: what a gap's row says is backed by the evidence, a closed   *)
(* one stays closed under its plan, what is left open is explained once,   *)
(* and contradictions are disclosed although refreshes are incremental.    *)
(***************************************************************************)
EXTENDS GapFeedback, FiniteSetTheorems, SequenceTheorems, WellFoundedInduction, TLAPS

------------------------------------------------------------------------------
(* The inductive invariant, part by part.                                  *)

(* The graph of one question: conflicts name evidence rows, an open        *)
(* conflict is not also dismissed, and a claim's status was derived when   *)
(* its evidence came in.                                                   *)
Disclosed(g) ==
    \A p \in Contradictions : InConflict(g, p) =>
        ConflictOf(g, p) \in g.open /\ \A c \in p : g.status[c] = "disputed"

StatusBacked(g) ==
    \A c \in Claims :
        /\ c \in Known(g) => g.status[c] # "none"
        /\ g.status[c] \in {"partial", "supported"} => AcceptedOf(g, c) # {}

GraphSound(g) ==
    /\ g \in [evidence : Seq(Item), status : [Claims -> ClaimStatuses],
              open : {g.open}, dismissed : {g.dismissed}]
    /\ g.open \cap g.dismissed = {}
    /\ \A k \in g.open \union g.dismissed : k \subseteq DOMAIN g.evidence
    /\ StatusBacked(g) /\ Disclosed(g)

(* A stored requirement: those that count sources ask for two owners, and  *)
(* one that asks for quality is never verified and never closes.           *)
RequirementSound(r) ==
    /\ r \in Row /\ r.type # "dimension_coverage"
    /\ r.type \in SourceCounted => r.required = 2
    /\ r.type = "evidence_quality" => r.verification = "required" /\ r.status # "closed"

RowBacked(g, d, r) ==
    /\ r.count <= Cardinality(EvidenceIn(g, d)) /\ r.owners <= Cardinality(OwnersIn(g, d))
    /\ r.status = "closed" => Cardinality(OwnersIn(g, d)) >= 2

RowsSound(g, rs) ==
    /\ rs \in [Dimensions -> Row \union {NoRow}]
    /\ \A d \in Dimensions : rs[d] # NoRow => RequirementSound(rs[d]) /\ RowBacked(g, d, rs[d])

(* The feedback side: whatever was dispatched was told of.                 *)
Executions == [gap : Dimensions, plan : 1..(MaxReplans + 1)]
BoxSound(b) ==
    /\ b \in [fed : SUBSET Dimensions, dispatched : SUBSET FeedbackIds,
              executions : Seq(Executions), refused : Nat]
    /\ Len(b.executions) <= MaxExecutions
    /\ \A f \in b.dispatched : f.gap \in b.fed

OncePerGap(ids) ==
    \A f, g \in ids : f.kind = "completeness" /\ g.kind = "completeness" /\ f.gap = g.gap => f = g

RunSound ==
    /\ run \in [phase : {"schedule", "research", "replan", "writing"}, stop : StopReasons \union {"-"},
                plan : 1..(MaxReplans + 1), pages : 0..MaxPages, iterations : 0..MaxIterations,
                crashes : 0..MaxCrashes]
    /\ run.phase = "replan" => run.plan <= MaxReplans

GapInv ==
    /\ GraphSound(graph) /\ RowsSound(graph, rows)
    /\ BoxSound(Box) /\ OncePerGap(dispatched) /\ consumed \in 0..Len(executions)
    /\ RunSound /\ NoSilentLeftover

------------------------------------------------------------------------------
(* Numbers and sequences.                                                  *)

(* A non-empty set of natural numbers has a least element. *)
LEMMA NatLeast ==
  ASSUME NEW T, T \subseteq Nat, T # {}
  PROVE  \E x \in T : \A y \in T : x <= y
<1>1. PICK x \in T : \A y \in T : ~ (<<y, x>> \in OpToRel(<, Nat))
  BY NatLessThanWellFounded, WFMin, Zenon
<1>2. \A y \in T : ~(y < x)
  BY <1>1, Zenon DEF OpToRel
<1> QED
  BY <1>2

LEMMA NatInduct ==
  ASSUME NEW T, 0 \in T, \A n \in Nat : n \in T => n + 1 \in T
  PROVE  Nat \subseteq T
<1> SUFFICES ASSUME Nat \ T # {} PROVE FALSE
  OBVIOUS
<1>1. PICK x \in Nat \ T : \A y \in Nat \ T : x <= y
  BY NatLeast
<1>2. x # 0 /\ x - 1 \in Nat /\ x - 1 \in T
  BY <1>1
<1> QED
  BY <1>2

(* SetToSeq lists every element of a finite set. *)
LEMMA SetToSeqLists ==
  ASSUME NEW S, IsFiniteSet(S), NEW s, s = SetToSeq(S)
  PROVE  /\ s \in Seq(S) /\ Len(s) \in Nat /\ DOMAIN s = 1..Len(s)
         /\ \A e \in S : \E i \in 1..Len(s) : s[i] = e
<1> DEFINE n == Cardinality(S)
<1>1. n \in Nat /\ ExistsBijection(1..n, S)
  BY FS_CardinalityType
<1>2. PICK f : f \in Bijection(1..n, S)
  BY <1>1 DEF ExistsBijection
<1>3. f \in [1..n -> S] /\ IsInjective(f)
  BY <1>2 DEF Bijection, Injection, IsInjective
<1>4. s \in [1..n -> S] /\ IsInjective(s)
  BY <1>3 DEF SetToSeq
<1>5. s \in Seq(S)
  BY <1>1, <1>4 DEF Seq
<1>6. Len(s) = n /\ DOMAIN s = 1..n
  BY <1>1, <1>4, <1>5, LenProperties
<1>7. s \in Injection(1..n, S)
  BY <1>4 DEF Injection, IsInjective
<1>8. IsFiniteSet(1..n) /\ Cardinality(1..n) = n
  <2> HIDE DEF n
  <2>1. IsFiniteSet(1..n) /\ Cardinality(1..n) = IF 1 > n THEN 0 ELSE n - 1 + 1
    BY <1>1, FS_Interval
  <2> QED
    BY <1>1, <2>1
<1>9. s \in Surjection(1..n, S)
  BY <1>7, <1>8, FS_Injection
<1>10. \A e \in S : \E i \in 1..n : s[i] = e
  BY <1>9 DEF Surjection
<1> QED
  BY <1>1, <1>5, <1>6, <1>10

(* Evidence appended to the rows: the old rows keep their places.          *)
LEMMA GrownRows ==
  ASSUME NEW old \in Seq(Item), NEW fresh, fresh \subseteq Item, IsFiniteSet(fresh),
         NEW s, s = old \o SetToSeq(fresh)
  PROVE  /\ s \in Seq(Item) /\ Len(old) \in Nat /\ Len(s) \in Nat /\ Len(old) <= Len(s)
         /\ DOMAIN old = 1..Len(old) /\ DOMAIN s = 1..Len(s)
         /\ \A i \in DOMAIN old : i \in DOMAIN s /\ s[i] = old[i]
         /\ \A i \in DOMAIN s : i \notin DOMAIN old => s[i] \in fresh
<1> DEFINE t == SetToSeq(fresh)
<1>1. t \in Seq(fresh) /\ Len(t) \in Nat /\ DOMAIN t = 1..Len(t)
  BY SetToSeqLists
<1>2. t \in Seq(Item)
  BY <1>1
<1> HIDE DEF t
<1>3. s = old \o t
  BY DEF t
<1>4. /\ s \in Seq(Item) /\ Len(s) = Len(old) + Len(t)
      /\ \A i \in 1..Len(s) : s[i] = IF i <= Len(old) THEN old[i] ELSE t[i - Len(old)]
  BY <1>2, <1>3, ConcatProperties
<1>5. Len(old) \in Nat /\ Len(s) \in Nat /\ DOMAIN old = 1..Len(old) /\ DOMAIN s = 1..Len(s)
  BY <1>4, LenProperties
<1>6. ASSUME NEW i \in DOMAIN s, i \notin DOMAIN old PROVE s[i] \in fresh
  <2>1. i - Len(old) \in 1..Len(t) /\ i \in 1..Len(s) /\ ~(i <= Len(old))
    BY <1>1, <1>4, <1>5, <1>6
  <2>2. t[i - Len(old)] \in fresh
    BY <1>1, <2>1, ElementOfSeq
  <2> QED
    BY <1>4, <2>1, <2>2
<1> QED
  BY <1>1, <1>4, <1>5, <1>6

------------------------------------------------------------------------------
(* Dispatching a sequence of feedback.                                     *)

(* The states DispatchAll goes through, and that there are such.           *)
Runs(after, b, ids, rs) ==
    after = [i \in 0..Len(ids) |->
               IF i = 0 THEN b ELSE Dispatched(after[i - 1], ids[i], rs[ids[i].gap])]

LEMMA RunsExist ==
  ASSUME NEW b, NEW ids \in Seq(FeedbackIds), NEW rs
  PROVE  \E after : Runs(after, b, ids, rs)
<1> DEFINE n == Len(ids)
           Go(i, x) == Dispatched(x, ids[i], rs[ids[i].gap])
           Step(k) == [i \in 0..n |-> IF i = 0 THEN b ELSE Go(i, k[i - 1])]
           T == {m \in Nat : \E k : \A i \in 0..n : i <= m => k[i] = Step(k)[i]}
<1>1. n \in Nat
  BY LenProperties
<1> HIDE DEF Go, n
<1>2. 0 \in T
  <2> DEFINE k == [i \in 0..n |-> b]
  <2>1. \A i \in 0..n : i <= 0 => k[i] = Step(k)[i]
    BY <1>1
  <2> QED
    BY <2>1
<1>3. ASSUME NEW m \in Nat, m \in T PROVE m + 1 \in T
  <2>1. PICK k : \A i \in 0..n : i <= m => k[i] = Step(k)[i]
    BY <1>3
  <2>2. ASSUME NEW i \in 0..n, i <= m + 1 PROVE Step(k)[i] = Step(Step(k))[i]
    <3>1. CASE i = 0
      BY <3>1
    <3>2. CASE i # 0
      <4>1. i - 1 \in 0..n /\ i - 1 <= m
        BY <1>1, <2>2, <3>2
      <4>2. k[i - 1] = Step(k)[i - 1]
        BY <2>1, <4>1
      <4> QED
        BY <3>2, <4>2
    <3> QED
      BY <3>1, <3>2
  <2> HIDE DEF Step
  <2> QED
    BY <2>2
<1>4. n \in T
  <2> HIDE DEF T
  <2> QED
    BY <1>1, <1>2, <1>3, NatInduct
<1>5. PICK k : \A i \in 0..n : i <= n => k[i] = Step(k)[i]
  BY <1>4
<1>6. Step(k) = Step(Step(k))
  <2>1. ASSUME NEW i \in 0..n PROVE Step(k)[i] = Step(Step(k))[i]
    <3>1. CASE i = 0
      BY <3>1
    <3>2. CASE i # 0
      <4>1. i - 1 \in 0..n /\ i - 1 <= n
        BY <1>1, <3>2
      <4>2. k[i - 1] = Step(k)[i - 1]
        BY <1>5, <4>1
      <4> QED
        BY <3>2, <4>2
    <3> QED
      BY <3>1, <3>2
  <2> QED
    BY <2>1
<1> QED
  BY <1>6 DEF Runs, Go, n

(* One feedback: its gap is told of, and at most its id and one execution  *)
(* are added.                                                              *)
LEMMA DispatchedSound ==
  ASSUME GapAssumption, RunSound, NEW b, BoxSound(b), NEW id \in FeedbackIds, NEW row,
         NEW c, c = Dispatched(b, id, row)
  PROVE  /\ BoxSound(c) /\ c.fed = b.fed \union {id.gap}
         /\ c.dispatched \subseteq b.dispatched \union {id}
         /\ Len(b.executions) <= Len(c.executions)
<1> DEFINE told == [b EXCEPT !.fed = @ \union {id.gap}]
           sent == [told EXCEPT !.dispatched = @ \union {id}]
           started == Append(b.executions, [gap |-> id.gap, plan |-> run.plan])
<1>1. id.gap \in Dimensions
  BY DEF FeedbackIds
<1>2. BoxSound(told) /\ told.fed = b.fed \union {id.gap} /\ told.dispatched = b.dispatched
      /\ told.executions = b.executions
  BY <1>1 DEF BoxSound
<1>3. BoxSound(sent) /\ sent.fed = b.fed \union {id.gap} /\ sent.dispatched = b.dispatched \union {id}
      /\ sent.executions = b.executions
  <2> HIDE DEF told
  <2> QED
    BY <1>2 DEF BoxSound
<1>4. Len(b.executions) \in Nat
  BY LenProperties DEF BoxSound
<1>5. \/ c \in {told, sent, [sent EXCEPT !.refused = @ + 1]}
      \/ Len(b.executions) < MaxExecutions /\ c = [sent EXCEPT !.executions = started]
  <2>1. CASE row.status = "closed" \/ id \in b.dispatched
    BY <2>1 DEF Dispatched
  <2>2. CASE ~(row.status = "closed" \/ id \in b.dispatched)
    <3>1. CASE ~RequestReady(row, id.reason)
      BY <2>2, <3>1 DEF Dispatched
    <3>2. CASE RequestReady(row, id.reason)
      <4>1. CASE Len(b.executions) >= MaxExecutions
        BY <2>2, <3>2, <4>1 DEF Dispatched
      <4>2. CASE ~(Len(b.executions) >= MaxExecutions)
        <5>1. c = [sent EXCEPT !.executions = Append(@, [gap |-> id.gap, plan |-> run.plan])]
          BY <2>2, <3>2, <4>2 DEF Dispatched
        <5> QED
          BY <1>3, <1>4, <4>2, <5>1 DEF BoxSound, GapAssumption
      <4> QED
        BY <4>1, <4>2
    <3> QED
      BY <3>1, <3>2
  <2> QED
    BY <2>1, <2>2
<1>6. CASE c \in {told, sent}
  <2> HIDE DEF told, sent
  <2> QED
    BY <1>2, <1>3, <1>4, <1>6
<1>7. CASE c = [sent EXCEPT !.refused = @ + 1]
  <2> HIDE DEF sent
  <2>1. sent.refused + 1 \in Nat
    BY <1>3 DEF BoxSound
  <2> QED
    BY <1>3, <1>4, <1>7, <2>1 DEF BoxSound
<1>8. CASE Len(b.executions) < MaxExecutions /\ c = [sent EXCEPT !.executions = started]
  <2>1. [gap |-> id.gap, plan |-> run.plan] \in Executions
    BY <1>1 DEF Executions, RunSound
  <2>2. started \in Seq(Executions) /\ Len(started) = Len(b.executions) + 1
    BY <2>1, AppendProperties DEF BoxSound
  <2> HIDE DEF sent, started
  <2>3. Len(started) <= MaxExecutions /\ Len(b.executions) <= Len(started)
    BY <1>4, <1>8, <2>2 DEF GapAssumption
  <2> QED
    BY <1>3, <1>8, <2>2, <2>3 DEF BoxSound
<1> QED
  BY <1>5, <1>6, <1>7, <1>8

LEMMA DispatchAllSound ==
  ASSUME GapAssumption, RunSound, NEW b, BoxSound(b), NEW ids \in Seq(FeedbackIds), NEW rs,
         NEW c, c = DispatchAll(b, ids, rs)
  PROVE  /\ BoxSound(c)
         /\ c.fed = b.fed \union {ids[i].gap : i \in 1..Len(ids)}
         /\ c.dispatched \subseteq b.dispatched \union {ids[i] : i \in 1..Len(ids)}
         /\ Len(b.executions) <= Len(c.executions)
<1> DEFINE K == CHOOSE after : Runs(after, b, ids, rs)
           n == Len(ids)
           P(m) == /\ BoxSound(K[m]) /\ K[m].fed = b.fed \union {ids[i].gap : i \in 1..m}
                   /\ K[m].dispatched \subseteq b.dispatched \union {ids[i] : i \in 1..m}
                   /\ Len(b.executions) <= Len(K[m].executions)
           T == {m \in Nat : m <= n => P(m)}
<1>1. n \in Nat
  BY LenProperties
<1>2. Runs(K, b, ids, rs)
  BY RunsExist
<1>3. c = K[n]
  BY DEF DispatchAll, Runs
<1> HIDE DEF K
<1>4. 0 \in T
  <2>1. K[0] = b
    BY <1>1, <1>2 DEF Runs
  <2>2. Len(b.executions) \in Nat
    BY LenProperties DEF BoxSound
  <2>3. {ids[i] : i \in 1..0} = {} /\ {ids[i].gap : i \in 1..0} = {}
    OBVIOUS
  <2> QED
    BY <2>1, <2>2, <2>3
<1>5. ASSUME NEW m \in Nat, m \in T PROVE m + 1 \in T
  <2>1. CASE m + 1 <= n
    <3>1. m + 1 \in 0..n /\ m + 1 # 0 /\ (m + 1) - 1 = m /\ m + 1 \in 1..n
      BY <1>1, <2>1
    <3>2. K[m + 1] = Dispatched(K[m], ids[m + 1], rs[ids[m + 1].gap])
      BY <1>2, <3>1 DEF Runs
    <3>3. ids[m + 1] \in FeedbackIds
      BY <3>1, ElementOfSeq
    <3>4. P(m)
      BY <1>1, <1>5, <2>1
    <3>5. /\ BoxSound(K[m + 1]) /\ K[m + 1].fed = K[m].fed \union {ids[m + 1].gap}
          /\ K[m + 1].dispatched \subseteq K[m].dispatched \union {ids[m + 1]}
          /\ Len(K[m].executions) <= Len(K[m + 1].executions)
      BY <3>2, <3>3, <3>4, DispatchedSound
    <3>6. 1..(m + 1) = 1..m \union {m + 1}
      OBVIOUS
    <3>7. Len(b.executions) \in Nat /\ Len(K[m].executions) \in Nat /\ Len(K[m + 1].executions) \in Nat
      BY <3>4, <3>5, LenProperties DEF BoxSound
    <3>8. /\ {ids[i] : i \in 1..(m + 1)} = {ids[i] : i \in 1..m} \union {ids[m + 1]}
          /\ {ids[i].gap : i \in 1..(m + 1)} = {ids[i].gap : i \in 1..m} \union {ids[m + 1].gap}
      BY <3>6
    <3>9. P(m + 1)
      BY <3>4, <3>5, <3>7, <3>8
    <3> QED
      BY <3>9
  <2>2. CASE ~(m + 1 <= n)
    BY <2>2
  <2> QED
    BY <2>1, <2>2
<1>6. Nat \subseteq T
  <2> HIDE DEF T
  <2> QED
    BY <1>4, <1>5, NatInduct
<1>7. P(n)
  BY <1>1, <1>6
<1> QED
  BY <1>3, <1>7

(* The rows a completeness pass looks at are requirements.                 *)
OpenTyped(rs) ==
    \A d \in Dimensions : rs[d].status \in {"open", "partial"} => rs[d] \in Row

(* What a completeness pass adds: every open gap not told of before, once. *)
Tells(ids, rs, told) ==
    /\ ids \in Seq(FeedbackIds)
    /\ \A d \in Dimensions : rs[d].status \in {"open", "partial"} /\ d \notin told
          => d \in {ids[i].gap : i \in 1..Len(ids)}
    /\ \A i \in 1..Len(ids) : ids[i].gap \notin told
    /\ OncePerGap({ids[i] : i \in 1..Len(ids)})

(* A batch of feedback that names each gap once and no gap told of before  *)
(* keeps the completeness feedback of every gap unique.                    *)
LEMMA CompletenessSound ==
  ASSUME GapAssumption, NEW rs, NEW told, OpenTyped(rs),
         NEW ids, ids = CompletenessFeedback(rs, told)
  PROVE  Tells(ids, rs, told)
<1> DEFINE silent == {d \in Dimensions : rs[d].status \in {"open", "partial"} /\ d \notin told}
           F(d) == Feedback("completeness", d, rs[d].version, derive_feedback_reason(rs[d]))
           S == {F(d) : d \in silent}
<1>1. ids = SetToSeq(S)
  BY DEF CompletenessFeedback
<1>2. IsFiniteSet(silent)
  BY FS_Subset DEF GapAssumption
<1>3. IsFiniteSet(S)
  <2> HIDE DEF silent
  <2> DEFINE f == [d \in silent |-> F(d)]
  <2> HIDE DEF F
  <2>1. f \in Surjection(silent, S)
    BY DEF Surjection
  <2> QED
    BY <1>2, <2>1, FS_Surjection
<1>4. ASSUME NEW d \in silent PROVE F(d) \in FeedbackIds /\ F(d).gap = d
  <2>1. rs[d] \in Row
    BY <1>4 DEF OpenTyped
  <2>2. rs[d].version \in Nat
    BY <2>1 DEF Row
  <2>3. derive_feedback_reason(rs[d]) \in FeedbackReasons
    BY DEF derive_feedback_reason, FeedbackReasons
  <2> DEFINE why == derive_feedback_reason(rs[d])
  <2> HIDE DEF why
  <2>4. why \in FeedbackReasons
    BY <2>3 DEF why
  <2>5. F(d) = [kind |-> "completeness", gap |-> d, version |-> rs[d].version, reason |-> why]
    BY DEF Feedback, why
  <2> QED
    BY <1>4, <2>2, <2>4, <2>5 DEF FeedbackIds
<1>5. /\ ids \in Seq(S) /\ Len(ids) \in Nat
      /\ \A e \in S : \E i \in 1..Len(ids) : ids[i] = e
  <2> HIDE DEF S
  <2> QED
    BY <1>1, <1>3, SetToSeqLists
<1>6. ids \in Seq(FeedbackIds)
  <2>1. S \subseteq FeedbackIds
    BY <1>4
  <2> QED
    BY <1>5, <2>1
<1>7. \A i \in 1..Len(ids) : ids[i] \in S
  BY <1>5, ElementOfSeq
<1> HIDE DEF F
<1>8. \A i \in 1..Len(ids) : \E d \in silent : ids[i] = F(d) /\ ids[i].gap = d
  BY <1>4, <1>7
<1>9. \A d \in silent : d \in {ids[i].gap : i \in 1..Len(ids)}
  BY <1>4, <1>5
<1>10. OncePerGap({ids[i] : i \in 1..Len(ids)})
  BY <1>8 DEF OncePerGap
<1> QED
  BY <1>6, <1>8, <1>9, <1>10 DEF Tells

------------------------------------------------------------------------------
(* The best evidence of a claim.                                           *)
IsBest(g, c, i) ==
    /\ i \in AcceptedOf(g, c)
    /\ \A j \in AcceptedOf(g, c) \ {i} :
          \/ g.evidence[i].score > g.evidence[j].score
          \/ g.evidence[i].score = g.evidence[j].score /\ i < j

LEMMA AcceptedTyped ==
  ASSUME NEW g, g.evidence \in Seq(Item), NEW c
  PROVE  /\ AcceptedOf(g, c) \subseteq Accepted(g) /\ Accepted(g) \subseteq DOMAIN g.evidence
         /\ DOMAIN g.evidence \subseteq Nat
         /\ \A i \in DOMAIN g.evidence : g.evidence[i] \in Item
<1>1. DOMAIN g.evidence = 1..Len(g.evidence) /\ Len(g.evidence) \in Nat
  BY LenProperties
<1>2. \A i \in 1..Len(g.evidence) : g.evidence[i] \in Item
  BY ElementOfSeq
<1> QED
  BY <1>1, <1>2 DEF AcceptedOf, Accepted

LEMMA BestIsBest ==
  ASSUME NEW g, g.evidence \in Seq(Item), NEW c, AcceptedOf(g, c) # {}
  PROVE  IsBest(g, c, Best(g, c))
<1> DEFINE A == AcceptedOf(g, c)
           Sc(i) == g.evidence[i].score
<1>1. A \subseteq Nat /\ \A i \in A : Sc(i) \in {1, 2}
  BY AcceptedTyped DEF Item, Scores
<1>2. \E i \in A : \A j \in A \ {i} : Sc(i) > Sc(j) \/ (Sc(i) = Sc(j) /\ i < j)
  <2> HIDE DEF A, Sc
  <2>1. A # {}
    BY DEF A
  <2>2. CASE \E i \in A : Sc(i) = 2
    <3>1. {i \in A : Sc(i) = 2} # {} /\ {i \in A : Sc(i) = 2} \subseteq Nat
      BY <1>1, <2>2
    <3>2. PICK x \in {i \in A : Sc(i) = 2} : \A y \in {i \in A : Sc(i) = 2} : x <= y
      BY <3>1, NatLeast
    <3> QED
      BY <1>1, <3>2
  <2>3. CASE \A i \in A : Sc(i) # 2
    <3>1. PICK x \in A : \A y \in A : x <= y
      BY <1>1, <2>1, NatLeast
    <3> QED
      BY <1>1, <2>3, <3>1
  <2> QED
    BY <2>2, <2>3
<1>3. \E i \in AcceptedOf(g, c) : \A j \in AcceptedOf(g, c) \ {i} :
        \/ g.evidence[i].score > g.evidence[j].score
        \/ g.evidence[i].score = g.evidence[j].score /\ i < j
  BY <1>2
<1> QED
  BY <1>3 DEF Best, IsBest

LEMMA BestUnique ==
  ASSUME NEW g, g.evidence \in Seq(Item), NEW c, NEW i, NEW j, IsBest(g, c, i), IsBest(g, c, j)
  PROVE  i = j
<1> SUFFICES ASSUME i # j PROVE FALSE
  OBVIOUS
<1>1. i \in Nat /\ j \in Nat /\ g.evidence[i].score \in {1, 2} /\ g.evidence[j].score \in {1, 2}
  BY AcceptedTyped DEF IsBest, Item, Scores
<1>2. /\ g.evidence[i].score > g.evidence[j].score
         \/ (g.evidence[i].score = g.evidence[j].score /\ i < j)
      /\ g.evidence[j].score > g.evidence[i].score
         \/ (g.evidence[j].score = g.evidence[i].score /\ j < i)
  BY DEF IsBest
<1> QED
  BY <1>1, <1>2

(* Two graphs with the same accepted rows of a claim have the same best    *)
(* one.                                                                    *)
SameAccepted(g, h, c) ==
    /\ AcceptedOf(g, c) = AcceptedOf(h, c)
    /\ \A i \in AcceptedOf(g, c) : g.evidence[i] = h.evidence[i]

LEMMA BestAgrees ==
  ASSUME NEW g, g.evidence \in Seq(Item), NEW h, h.evidence \in Seq(Item), NEW c,
         SameAccepted(g, h, c), AcceptedOf(g, c) # {}
  PROVE  Best(g, c) = Best(h, c) /\ g.evidence[Best(g, c)] = h.evidence[Best(h, c)]
<1>1. IsBest(g, c, Best(g, c)) /\ IsBest(h, c, Best(h, c))
  BY BestIsBest DEF SameAccepted
<1>2. IsBest(h, c, Best(g, c))
  BY <1>1 DEF IsBest, SameAccepted
<1>3. Best(g, c) = Best(h, c)
  BY <1>1, <1>2, BestUnique
<1> QED
  BY <1>1, <1>3 DEF IsBest, SameAccepted

LEMMA ConflictAgrees ==
  ASSUME NEW g, g.evidence \in Seq(Item), NEW h, h.evidence \in Seq(Item), NEW p,
         \A c \in p : SameAccepted(g, h, c), InConflict(g, p)
  PROVE  InConflict(h, p) /\ ConflictOf(g, p) = ConflictOf(h, p)
<1>1. \A c \in p : AcceptedOf(g, c) # {} /\ AcceptedOf(h, c) # {}
  BY DEF InConflict, SameAccepted
<1>2. \A c \in p : Best(g, c) = Best(h, c) /\ g.evidence[Best(g, c)] = h.evidence[Best(h, c)]
  BY <1>1, BestAgrees
<1>3. {g.evidence[Best(g, c)].owner : c \in p} = {h.evidence[Best(h, c)].owner : c \in p}
  BY <1>2
<1>4. ConflictOf(g, p) = ConflictOf(h, p)
  BY <1>2 DEF ConflictOf
<1> QED
  BY <1>1, <1>3, <1>4 DEF InConflict

------------------------------------------------------------------------------
(* A graph with evidence appended, of the claims touched.                  *)
Grown(g, h, touched) ==
    /\ g.evidence \in Seq(Item) /\ h.evidence \in Seq(Item)
    /\ \A i \in DOMAIN g.evidence : i \in DOMAIN h.evidence /\ h.evidence[i] = g.evidence[i]
    /\ \A i \in DOMAIN h.evidence : i \notin DOMAIN g.evidence => h.evidence[i].claim \in touched

LEMMA GrownAccepted ==
  ASSUME NEW g, NEW h, NEW touched, Grown(g, h, touched)
  PROVE  /\ \A c : AcceptedOf(g, c) \subseteq AcceptedOf(h, c)
         /\ \A c : c \notin touched => SameAccepted(g, h, c)
         /\ \A d : EvidenceIn(g, d) \subseteq EvidenceIn(h, d)
         /\ \A d : OwnersIn(g, d) \subseteq OwnersIn(h, d)
         /\ Known(h) \subseteq Known(g) \union touched
<1>1. \A c : AcceptedOf(g, c) \subseteq AcceptedOf(h, c)
  BY DEF Grown, AcceptedOf, Accepted
<1>2. ASSUME NEW c, c \notin touched PROVE SameAccepted(g, h, c)
  BY <1>2 DEF Grown, AcceptedOf, Accepted, SameAccepted
<1>3. \A d : EvidenceIn(g, d) \subseteq EvidenceIn(h, d)
  BY DEF Grown, EvidenceIn, Accepted
<1>4. \A d : OwnersIn(g, d) \subseteq OwnersIn(h, d)
  BY <1>3 DEF Grown, OwnersIn, EvidenceIn, Accepted
<1>5. Known(h) \subseteq Known(g) \union touched
  BY DEF Grown, Known
<1> QED
  BY <1>1, <1>2, <1>3, <1>4, <1>5

LEMMA FactsFinite ==
  ASSUME NEW g, g.evidence \in Seq(Item), NEW d
  PROVE  /\ IsFiniteSet(EvidenceIn(g, d)) /\ IsFiniteSet(OwnersIn(g, d))
         /\ Cardinality(EvidenceIn(g, d)) \in Nat /\ Cardinality(OwnersIn(g, d)) \in Nat
         /\ Cardinality(OwnersIn(g, d)) <= Cardinality(EvidenceIn(g, d))
<1>1. DOMAIN g.evidence = 1..Len(g.evidence) /\ Len(g.evidence) \in Nat
  BY LenProperties
<1> DEFINE n == Len(g.evidence)
<1>2. IsFiniteSet(1..n)
  <2> HIDE DEF n
  <2> QED
    BY <1>1, FS_Interval DEF n
<1>3. IsFiniteSet(EvidenceIn(g, d))
  BY <1>1, <1>2, FS_Subset DEF EvidenceIn, Accepted
<1> DEFINE f == [i \in EvidenceIn(g, d) |-> g.evidence[i].owner]
<1>4. f \in Surjection(EvidenceIn(g, d), OwnersIn(g, d))
  BY DEF Surjection, OwnersIn
<1>5. IsFiniteSet(OwnersIn(g, d)) /\ Cardinality(OwnersIn(g, d)) <= Cardinality(EvidenceIn(g, d))
  BY <1>3, <1>4, FS_Surjection
<1> QED
  BY <1>3, <1>5, FS_CardinalityType

LEMMA FactsGrow ==
  ASSUME NEW g, NEW h, NEW touched, Grown(g, h, touched), NEW d
  PROVE  /\ Cardinality(EvidenceIn(g, d)) <= Cardinality(EvidenceIn(h, d))
         /\ Cardinality(OwnersIn(g, d)) <= Cardinality(OwnersIn(h, d))
<1>1. IsFiniteSet(EvidenceIn(h, d)) /\ IsFiniteSet(OwnersIn(h, d))
  BY FactsFinite DEF Grown
<1>2. EvidenceIn(g, d) \subseteq EvidenceIn(h, d) /\ OwnersIn(g, d) \subseteq OwnersIn(h, d)
  BY GrownAccepted
<1> QED
  BY <1>1, <1>2, FS_Subset

(* What a refresh of the claims touched does to the graph mid, which is g  *)
(* with its evidence appended.                                             *)
RefreshOf(g, mid, h, touched) ==
    /\ h.evidence = mid.evidence
    /\ \A p \in Contradictions : InConflict(mid, p) /\ p \cap touched # {} =>
          ConflictOf(mid, p) \in h.open /\ \A c \in p : h.status[c] = "disputed"
    /\ \A p \in Contradictions : InConflict(mid, p) /\ p \cap touched = {} =>
          (ConflictOf(mid, p) \in g.open => ConflictOf(mid, p) \in h.open)
    /\ \A c \in Claims : c \notin touched => h.status[c] \in {g.status[c], "disputed"}

(* A refresh of the claims touched keeps the disclosure: the other claims  *)
(* kept their best evidence, so their conflicts were disclosed before.     *)
LEMMA DisclosureKept ==
  ASSUME GraphAssumption, NEW g, Disclosed(g), NEW mid, NEW h, NEW touched,
         Grown(g, mid, touched), RefreshOf(g, mid, h, touched)
  PROVE  Disclosed(h)
<1>1. g.evidence \in Seq(Item) /\ mid.evidence \in Seq(Item) /\ h.evidence \in Seq(Item)
  BY DEF Grown, RefreshOf
<1> SUFFICES ASSUME NEW p \in Contradictions, InConflict(h, p)
             PROVE  ConflictOf(h, p) \in h.open /\ \A c \in p : h.status[c] = "disputed"
  BY DEF Disclosed
<1>2. \A c \in p : SameAccepted(h, mid, c)
  BY DEF SameAccepted, AcceptedOf, Accepted, RefreshOf
<1>3. InConflict(mid, p) /\ ConflictOf(h, p) = ConflictOf(mid, p)
  BY <1>1, <1>2, ConflictAgrees
<1>4. CASE p \cap touched = {}
  <2>1. \A c \in p : SameAccepted(g, mid, c)
    BY <1>4, GrownAccepted
  <2>2. \A c \in p : SameAccepted(mid, g, c)
    BY <2>1 DEF SameAccepted
  <2>3. InConflict(g, p) /\ ConflictOf(mid, p) = ConflictOf(g, p)
    BY <1>1, <1>3, <2>2, ConflictAgrees
  <2>4. ConflictOf(g, p) \in g.open /\ \A c \in p : g.status[c] = "disputed"
    BY <2>3 DEF Disclosed
  <2>5. p \subseteq Claims
    BY DEF GraphAssumption
  <2> QED
    BY <1>3, <1>4, <2>3, <2>4, <2>5 DEF RefreshOf
<1> QED
  BY <1>3, <1>4 DEF RefreshOf

(* refresh_question_relations after an insert looks only at the claims     *)
(* touched; the others keep their best evidence, and so their conflicts.   *)
LEMMA RefreshSound ==
  ASSUME GraphAssumption, NEW g, GraphSound(g),
         NEW fresh, fresh \subseteq Item, IsFiniteSet(fresh),
         NEW grown, grown = [g EXCEPT !.evidence = @ \o SetToSeq(fresh)],
         NEW touched, touched = {e.claim : e \in fresh},
         NEW h, h = refresh_question_relations(grown, touched)
  PROVE  GraphSound(h) /\ Grown(g, h, touched)
<1>1. /\ grown.evidence = g.evidence \o SetToSeq(fresh) /\ grown.status = g.status
      /\ grown.open = g.open /\ grown.dismissed = g.dismissed
      /\ grown \in [evidence : {grown.evidence}, status : [Claims -> ClaimStatuses],
                    open : {grown.open}, dismissed : {grown.dismissed}]
  BY DEF GraphSound
<1>2. touched \subseteq Claims /\ g.evidence \in Seq(Item)
  BY DEF Item, GraphSound
<1>3. Grown(g, grown, touched)
  <2> DEFINE s == grown.evidence
  <2>1. /\ s \in Seq(Item)
        /\ \A i \in DOMAIN g.evidence : i \in DOMAIN s /\ s[i] = g.evidence[i]
        /\ \A i \in DOMAIN s : i \notin DOMAIN g.evidence => s[i] \in fresh
    BY <1>1, <1>2, GrownRows
  <2> QED
    BY <1>2, <2>1 DEF Grown
<1> DEFINE desired == {ConflictOf(grown, p) : p \in ConflictingPairs(grown, touched)}
           disputed == DisputedClaims(grown, touched)
           examined == DismissableIncremental(grown, touched)
           dropped == examined \ desired
           status == [c \in Claims |->
                         IF c \in disputed THEN "disputed"
                         ELSE IF c \in touched THEN derive_claim_status(grown, c)
                         ELSE g.status[c]]
<1>4. h = [grown EXCEPT !.open = (g.open \ dropped) \union desired,
                        !.dismissed = (g.dismissed \ desired) \union dropped,
                        !.status = status]
  BY <1>1 DEF refresh_question_relations, Refreshed
<1>5. \A c \in touched : derive_claim_status(grown, c) \in ClaimStatuses \ {"none"}
                         /\ (derive_claim_status(grown, c) \in {"partial", "supported"}
                                => AcceptedOf(grown, c) # {})
  BY DEF derive_claim_status, ClaimStatuses
<1>6. /\ status \in [Claims -> ClaimStatuses]
      /\ \A c \in Claims : status[c] = IF c \in disputed THEN "disputed"
                                       ELSE IF c \in touched THEN derive_claim_status(grown, c)
                                       ELSE g.status[c]
  BY <1>5 DEF ClaimStatuses, GraphSound
<1>7. examined \subseteq g.open
  BY <1>1 DEF DismissableIncremental
<1>8. \A p \in ConflictingPairs(grown, touched) : p \in Contradictions /\ InConflict(grown, p)
  BY DEF ConflictingPairs, ContradictoryPairs
<1>9. ASSUME NEW c, AcceptedOf(grown, c) # {}
      PROVE  Best(grown, c) \in DOMAIN grown.evidence /\ grown.evidence[Best(grown, c)].claim = c
  <2>1. Best(grown, c) \in AcceptedOf(grown, c)
    BY <1>3, <1>9, BestIsBest DEF Grown, IsBest
  <2> QED
    BY <2>1 DEF AcceptedOf, Accepted
<1>10. \A k \in desired : k \subseteq DOMAIN grown.evidence
  <2> SUFFICES ASSUME NEW k \in desired, NEW i \in k PROVE i \in DOMAIN grown.evidence
    BY Zenon
  <2>0. PICK p \in ConflictingPairs(grown, touched) : k = ConflictOf(grown, p)
    BY Zenon
  <2>1. PICK c \in p : i = Best(grown, c)
    BY <2>0, Zenon DEF ConflictOf
  <2>2. AcceptedOf(grown, c) # {}
    BY <1>8 DEF InConflict
  <2> QED
    BY <1>9, <2>1, <2>2
<1>11. ASSUME NEW p \in Contradictions, InConflict(grown, p), p \cap touched # {}
       PROVE  ConflictOf(grown, p) \in desired /\ p \subseteq disputed
  BY <1>11 DEF ConflictingPairs, ContradictoryPairs, DisputedClaims
<1>12. ASSUME NEW p \in Contradictions, InConflict(grown, p), p \cap touched = {}
       PROVE  ConflictOf(grown, p) \notin examined
  <2> SUFFICES ASSUME NEW c \in touched, AcceptedOf(grown, c) # {},
                      Best(grown, c) \in ConflictOf(grown, p)
               PROVE  FALSE
    BY DEF DismissableIncremental
  <2>1. PICK e \in p : Best(grown, c) = Best(grown, e)
    BY DEF ConflictOf
  <2>2. AcceptedOf(grown, e) # {}
    BY <1>12 DEF InConflict
  <2>3. c = e
    BY <1>9, <2>1, <2>2
  <2> QED
    BY <1>12, <2>3
<1> HIDE DEF desired, disputed, examined, status
<1>13. /\ h.evidence = grown.evidence /\ h.status = status
       /\ h.open = (g.open \ dropped) \union desired
       /\ h.dismissed = (g.dismissed \ desired) \union dropped
       /\ h \in [evidence : Seq(Item), status : [Claims -> ClaimStatuses],
                 open : {h.open}, dismissed : {h.dismissed}]
  BY <1>1, <1>3, <1>4, <1>6 DEF Grown
<1>14. Grown(g, h, touched)
  BY <1>3, <1>13 DEF Grown
<1>15. \A c : AcceptedOf(h, c) = AcceptedOf(grown, c)
  BY <1>13 DEF AcceptedOf, Accepted
<1>16. h.open \cap h.dismissed = {}
  BY <1>7, <1>13 DEF GraphSound
<1>17. \A k \in h.open \union h.dismissed : k \subseteq DOMAIN h.evidence
  <2>1. \A k \in g.open \union g.dismissed : k \subseteq DOMAIN grown.evidence
    BY <1>3 DEF GraphSound, Grown
  <2> QED
    BY <1>7, <1>10, <1>13, <2>1
<1>18. StatusBacked(h)
  <2> SUFFICES ASSUME NEW c \in Claims
               PROVE  /\ c \in Known(h) => status[c] # "none"
                      /\ status[c] \in {"partial", "supported"} => AcceptedOf(h, c) # {}
    BY <1>13 DEF StatusBacked
  <2>1. CASE c \in disputed
    BY <1>6, <2>1
  <2>2. CASE c \notin disputed /\ c \in touched
    BY <1>5, <1>6, <1>15, <2>2
  <2>3. CASE c \notin disputed /\ c \notin touched
    <3>1. status[c] = g.status[c]
      BY <1>6, <2>3
    <3>2. AcceptedOf(g, c) \subseteq AcceptedOf(h, c) /\ (c \in Known(h) => c \in Known(g))
      BY <1>14, <2>3, GrownAccepted
    <3> QED
      BY <3>1, <3>2 DEF GraphSound, StatusBacked
  <2> QED
    BY <2>1, <2>2, <2>3
<1>19. Disclosed(h)
  <2>1. \A p \in Contradictions : InConflict(grown, p) /\ p \cap touched # {} =>
           ConflictOf(grown, p) \in h.open /\ \A c \in p : h.status[c] = "disputed"
    <3> SUFFICES ASSUME NEW p \in Contradictions, InConflict(grown, p), p \cap touched # {}
                 PROVE  ConflictOf(grown, p) \in h.open /\ \A c \in p : h.status[c] = "disputed"
      BY Zenon
    <3>1. ConflictOf(grown, p) \in desired /\ p \subseteq disputed /\ p \subseteq Claims
      BY <1>11 DEF GraphAssumption
    <3> QED
      BY <1>6, <1>13, <3>1
  <2>2. \A p \in Contradictions : InConflict(grown, p) /\ p \cap touched = {} =>
           (ConflictOf(grown, p) \in g.open => ConflictOf(grown, p) \in h.open)
    BY <1>12, <1>13
  <2>3. \A c \in Claims : c \notin touched => h.status[c] \in {g.status[c], "disputed"}
    BY <1>6, <1>13
  <2>4. Disclosed(g) /\ h.evidence = grown.evidence
    BY <1>13 DEF GraphSound
  <2>5. RefreshOf(g, grown, h, touched)
    BY <2>1, <2>2, <2>3, <2>4, Zenon DEF RefreshOf
  <2> QED
    BY <1>3, <2>4, <2>5, DisclosureKept, Zenon
<1> QED
  BY <1>13, <1>14, <1>16, <1>17, <1>18, <1>19 DEF GraphSound

(* record_page's insert. *)
LEMMA InsertSound ==
  ASSUME GraphAssumption, NEW g, GraphSound(g), NEW items, items \subseteq Item, IsFiniteSet(items),
         NEW fresh, fresh = NewItems(g, items), NEW h, h = InsertEvidence(g, items)
  PROVE  /\ GraphSound(h) /\ fresh \subseteq Item /\ IsFiniteSet(fresh)
         /\ Grown(g, h, {e.claim : e \in fresh})
         /\ fresh = {} => h = g
<1>1. fresh \subseteq items
  BY DEF NewItems
<1>2. fresh \subseteq Item /\ IsFiniteSet(fresh)
  BY <1>1, FS_Subset
<1>3. CASE fresh = {}
  <2>1. h = g
    BY <1>3 DEF InsertEvidence
  <2>2. Grown(g, g, {e.claim : e \in fresh})
    BY DEF Grown, GraphSound
  <2> QED
    BY <1>2, <2>1, <2>2
<1>4. CASE fresh # {}
  <2> DEFINE grown == [g EXCEPT !.evidence = @ \o SetToSeq(fresh)]
             touched == {e.claim : e \in fresh}
  <2>1. h = refresh_question_relations(grown, touched)
    BY <1>4 DEF InsertEvidence
  <2> HIDE DEF touched
  <2>2. touched = {e.claim : e \in fresh}
    BY DEF touched
  <2>3. GraphSound(h) /\ Grown(g, h, touched)
    BY <1>2, <2>1, <2>2, RefreshSound
  <2> QED
    BY <1>2, <1>4, <2>2, <2>3
<1> QED
  BY <1>3, <1>4
------------------------------------------------------------------------------
(* The rules of closure.                                                   *)

LEMMA NoRowIsNone == NoRow \notin Row /\ NoRow.status = "absent"
<1>1. ASSUME NEW r \in Row PROVE r # NoRow
  <2>1. r.status \in ClosureStatuses
    BY DEF Row
  <2> QED
    BY <2>1 DEF ClosureStatuses, NoRow
<1> QED
  BY <1>1 DEF NoRow

(* ClosureEvaluation.evaluate closes a requirement exactly when its        *)
(* sources suffice: quality is never verified on these paths.              *)
LEMMA EvaluationSound ==
  ASSUME NEW row, row.type \in RequirementTypes \ {"dimension_coverage"},
         row.type \in SourceCounted => row.required = 2, NEW before, NEW after, after.owners \in Nat,
         row.type = "evidence_quality" => after.verification # "verified",
         NEW raw, raw = ClosureEvaluation(row, before, after)
  PROVE  /\ raw.status \in ClosureStatuses /\ raw.reason \in RowReasons
         /\ raw.status = "closed" <=> row.type \in SourceCounted /\ after.owners >= 2
<1>1. requirement_is_satisfied(row, after) <=> row.type \in SourceCounted /\ after.owners >= 2
  <2>1. CASE row.type \in SourceCounted
    <3>1. row.type # "dimension_coverage" /\ row.type # "evidence_quality"
      BY <2>1 DEF SourceCounted
    <3>2. requirement_is_satisfied(row, after) <=> after.owners >= row.required
      BY <2>1, <3>1 DEF requirement_is_satisfied
    <3> QED
      BY <2>1, <3>2
  <2>2. CASE row.type = "evidence_quality"
    <3>1. row.type \notin SourceCounted
      BY <2>2 DEF SourceCounted
    <3> QED
      BY <2>2, <3>1 DEF requirement_is_satisfied
  <2> QED
    BY <2>1, <2>2 DEF RequirementTypes, SourceCounted
<1> HIDE DEF requirement_is_satisfied
<1>2. \/ requirement_is_satisfied(row, after)
         /\ raw = [status |-> "closed", reason |-> "requirement_satisfied"]
      \/ ~requirement_is_satisfied(row, after)
         /\ raw \in {[status |-> "partial", reason |-> "progress_without_closure"],
                     [status |-> "open", reason |-> "requirement_not_satisfied"]}
  BY DEF ClosureEvaluation
<1> QED
  BY <1>1, <1>2 DEF ClosureStatuses, RowReasons

LEMMA TransitionReasonSound ==
  ASSUME NEW reasons, NEW fallback \in RowReasons
  PROVE  TransitionReason(reasons, fallback) \in RowReasons
BY DEF TransitionReason, RowReasons

(* GapRequirement.apply_closure_transition *)
LEMMA TransitionSound ==
  ASSUME NEW row, RequirementSound(row), NEW status \in ClosureStatuses, NEW reason,
         status # row.status => reason \in RowReasons,
         status = "closed" => row.type \in SourceCounted,
         NEW r, r = apply_closure_transition(row, status, reason)
  PROVE  /\ RequirementSound(r) /\ r.count = row.count /\ r.owners = row.owners
         /\ r.status = status
<1>1. CASE status = row.status
  BY <1>1 DEF apply_closure_transition
<1>2. CASE status # row.status
  <2>1. r = [row EXCEPT !.status = status, !.reason = reason, !.version = @ + 1]
    BY <1>2 DEF apply_closure_transition
  <2>2. row \in Row /\ row.version + 1 \in Nat
    BY DEF RequirementSound, Row
  <2>3. r \in Row
    BY <1>2, <2>1, <2>2 DEF Row
  <2>4. /\ r.type = row.type /\ r.required = row.required /\ r.verification = row.verification
        /\ r.count = row.count /\ r.owners = row.owners /\ r.status = status
    BY <2>1, <2>2 DEF Row
  <2> QED
    BY <2>3, <2>4 DEF RequirementSound, SourceCounted
<1> QED
  BY <1>1, <1>2

(* ClosureEvaluator.evaluate keeps a requirement sound, and closes it only *)
(* when two owners stand behind it.                                        *)
LEMMA EvaluatorSound ==
  ASSUME NEW row, RequirementSound(row), row.status # "closed", NEW batch, IsFiniteSet(batch),
         NEW owners \in Nat, NEW v, v = ClosureEvaluator(row, batch, owners)
  PROVE  /\ RequirementSound(v.row) /\ v.row.count = row.count /\ v.row.owners = row.owners
         /\ v.row.status = "closed" => owners >= 2
<1> DEFINE before == SnapshotOf(row)
           useful == Cardinality({e \in batch : AlignmentStatus(row, e.accepted, owners) # "not_aligned"})
           after == AfterSnapshot(row, before, useful, owners)
           raw == ClosureEvaluation(row, before, after)
           reasons == {RejectionReason(row, e.accepted, owners) : e \in batch}
           reason == TransitionReason(reasons, raw.reason)
           kept == rank(raw.status) < rank(row.status)
           verdict == IF kept THEN "existing_closure_state_preserved" ELSE reason
           status == IF kept THEN row.status ELSE raw.status
<1>1. v.row = apply_closure_transition(row, status, verdict)
  BY DEF ClosureEvaluator
<1>2. /\ row.type \in RequirementTypes \ {"dimension_coverage"}
      /\ row.type \in SourceCounted => row.required = 2
      /\ row.type = "evidence_quality" => row.verification = "required"
      /\ row.status \in ClosureStatuses
  BY DEF RequirementSound, Row
<1>3. after.owners = owners
  BY DEF AfterSnapshot
<1>4. row.type = "evidence_quality" => after.verification # "verified"
  BY <1>2 DEF AfterSnapshot, SnapshotOf
<1> HIDE DEF after, before, reasons
<1>5. /\ raw.status \in ClosureStatuses /\ raw.reason \in RowReasons
      /\ raw.status = "closed" <=> row.type \in SourceCounted /\ owners >= 2
  BY <1>2, <1>3, <1>4, EvaluationSound
<1> HIDE DEF raw
<1>6. reason \in RowReasons
  BY <1>5, TransitionReasonSound
<1> HIDE DEF reason, kept
<1>7. status \in ClosureStatuses /\ (status = "closed" => raw.status = "closed")
  BY <1>2, <1>5
<1>8. status # row.status => verdict \in RowReasons
  BY <1>6
<1>9. status = "closed" => row.type \in SourceCounted /\ owners >= 2
  BY <1>5, <1>7
<1> HIDE DEF status, verdict
<1> QED
  BY <1>1, <1>7, <1>8, <1>9, TransitionSound

(* GapRequirementRepository.upsert_many: what is stored agrees with the    *)
(* new requirement in everything but the version.                          *)
LEMMA UpsertSound ==
  ASSUME NEW old, old # NoRow => RequirementSound(old), NEW new, RequirementSound(new),
         NEW r, r = upsert(old, new)
  PROVE  /\ RequirementSound(r) /\ r.count = new.count /\ r.owners = new.owners
         /\ r.status = new.status
<1>1. CASE old = NoRow
  BY <1>1 DEF upsert
<1>2. CASE old # NoRow /\ Changed(old, new)
  <2> DEFINE version == Larger(new.version, old.version + 1)
  <2>1. r = [new EXCEPT !.version = version]
    BY <1>2 DEF upsert
  <2>2. new \in Row /\ old \in Row
    BY <1>2 DEF RequirementSound
  <2>3. version \in Nat
    BY <2>2 DEF Larger, Row
  <2> HIDE DEF version
  <2>4. r \in Row
    BY <2>1, <2>2, <2>3 DEF Row
  <2>5. /\ r.type = new.type /\ r.required = new.required /\ r.verification = new.verification
        /\ r.count = new.count /\ r.owners = new.owners /\ r.status = new.status
    BY <2>1, <2>2 DEF Row
  <2> QED
    BY <2>4, <2>5 DEF RequirementSound
<1>3. CASE old # NoRow /\ ~Changed(old, new)
  <2>1. r = old /\ [old EXCEPT !.version = 0] = [new EXCEPT !.version = 0]
    BY <1>3 DEF upsert, Changed
  <2>2. new \in Row /\ old \in Row
    BY <1>3 DEF RequirementSound
  <2>3. /\ [old EXCEPT !.version = 0].count = old.count /\ [new EXCEPT !.version = 0].count = new.count
        /\ [old EXCEPT !.version = 0].owners = old.owners /\ [new EXCEPT !.version = 0].owners = new.owners
        /\ [old EXCEPT !.version = 0].status = old.status /\ [new EXCEPT !.version = 0].status = new.status
    BY <2>2 DEF Row
  <2>4. old.count = new.count /\ old.owners = new.owners /\ old.status = new.status
    BY <2>1, <2>3
  <2> QED
    BY <1>3, <2>1, <2>4
<1> QED
  BY <1>1, <1>2, <1>3

(* What finish_iteration asks of a dimension: a claim that is not resolved, *)
(* like any accepted evidence, makes it ask for two owners.                 *)
LEMMA RequiredSound ==
  ASSUME GraphAssumption, NEW g, GraphSound(g), NEW d \in Dimensions
  PROVE  /\ RequiredSources(g, d) \in {1, 2}
         /\ EvidenceIn(g, d) # {} => RequiredSources(g, d) = 2
         /\ HasUnresolvedClaim(g, d) => RequiredSources(g, d) = 2
<1>1. g.evidence \in Seq(Item) /\ g.status \in [Claims -> ClaimStatuses] /\ StatusBacked(g)
  BY DEF GraphSound
<1>2. \A i \in DOMAIN g.evidence : g.evidence[i] \in Item
  BY <1>1, AcceptedTyped
<1>3. Known(g) \subseteq Claims
  BY <1>2 DEF Known, Item
<1>4. ASSUME NEW c \in Known(g), DimensionOf[c] = d, HighRisk(g, c) PROVE RequiredSources(g, d) = 2
  BY <1>4 DEF RequiredSources
<1>5. ASSUME EvidenceIn(g, d) # {} PROVE RequiredSources(g, d) = 2
  <2>1. PICK i \in Accepted(g) : DimensionOf[g.evidence[i].claim] = d
    BY <1>5 DEF EvidenceIn
  <2> DEFINE c == g.evidence[i].claim
  <2>2. c \in Known(g) /\ i \in AcceptedOf(g, c)
    BY DEF Known, AcceptedOf, Accepted
  <2>3. HighRisk(g, c)
    BY <2>2 DEF HighRisk
  <2> HIDE DEF c
  <2> QED
    BY <1>4, <2>1, <2>2, <2>3 DEF c
<1>6. ASSUME HasUnresolvedClaim(g, d) PROVE RequiredSources(g, d) = 2
  <2>1. PICK c \in Known(g) : DimensionOf[c] = d /\ UnresolvedClaim(g, c)
    BY <1>6 DEF HasUnresolvedClaim
  <2>2. c \in Claims /\ g.status[c] \in ClaimStatuses /\ g.status[c] # "rejected"
    BY <1>1, <1>3, <2>1 DEF UnresolvedClaim
  <2>3. g.status[c] \in {"partial", "supported", "disputed"}
    BY <1>1, <2>2 DEF StatusBacked, ClaimStatuses
  <2>4. HighRisk(g, c)
    BY <1>1, <2>2, <2>3 DEF StatusBacked, HighRisk
  <2> QED
    BY <1>4, <2>1, <2>4
<1>7. RequiredSources(g, d) \in {1, 2}
  BY DEF RequiredSources
<1> QED
  BY <1>5, <1>6, <1>7

(* A projected requirement tells the facts, and is closed exactly when two *)
(* owners stand behind it.                                                 *)
LEMMA ProjectedSound ==
  ASSUME GraphAssumption, GraphSound(graph), NEW d \in Dimensions, NEW r, r = Projected(d)
  PROVE  /\ RequirementSound(r)
         /\ r.count = Cardinality(EvidenceIn(graph, d)) /\ r.owners = Cardinality(OwnersIn(graph, d))
         /\ r.status = "closed" <=> Cardinality(OwnersIn(graph, d)) >= 2
<1> DEFINE count == Cardinality(EvidenceIn(graph, d))
           owners == Cardinality(OwnersIn(graph, d))
           type == ProjectedType(d)
           required == RequiredSources(graph, d)
           coverage == ProjectedCoverage(d)
           verification == IF ~HasUnresolvedClaim(graph, d) /\ coverage = 2
                           THEN "verified" ELSE "required"
           open == [type |-> type, required |-> required, count |-> count, owners |-> owners,
                    coverage |-> coverage, verification |-> verification,
                    status |-> "open", reason |-> "evaluator_projection", version |-> 1]
           raw == ClosureEvaluation(open, NoSnapshot, SnapshotOf(open))
<1>1. r = [open EXCEPT !.status = raw.status]
  BY DEF Projected, CountsOf
<1>2. graph.evidence \in Seq(Item)
  BY DEF GraphSound
<1>3. count \in Nat /\ owners \in Nat /\ owners <= count /\ (count = 0 <=> EvidenceIn(graph, d) = {})
  BY <1>2, FactsFinite, FS_EmptySet
<1>4. /\ required \in {1, 2} /\ (EvidenceIn(graph, d) # {} => required = 2)
      /\ (HasUnresolvedClaim(graph, d) => required = 2)
  BY RequiredSound
<1>5. coverage \in 0..2 /\ (count = 0 => coverage = 0)
  BY DEF ProjectedCoverage, CountsOf
<1>6. /\ type \in RequirementTypes \ {"dimension_coverage"}
      /\ type \in SourceCounted <=> required = 2
      /\ type = "evidence_quality" <=> required # 2
  BY <1>4 DEF ProjectedType, RequirementTypes, SourceCounted
<1> HIDE DEF count, owners, type, required, coverage
<1>7. verification \in {"required", "verified"} /\ (type = "evidence_quality" => verification = "required")
  BY <1>3, <1>4, <1>5, <1>6
<1> HIDE DEF verification
<1>8. /\ open.type = type /\ open.required = required /\ open.count = count /\ open.owners = owners
      /\ open.verification = verification /\ open.status = "open"
      /\ SnapshotOf(open).owners = owners /\ SnapshotOf(open).verification = verification
  BY DEF SnapshotOf
<1>9. open \in Row
  BY <1>3, <1>4, <1>5, <1>6, <1>7 DEF Row, Verifications, ClosureStatuses, RowReasons
<1> HIDE DEF open
<1>10. /\ raw.status \in ClosureStatuses
       /\ raw.status = "closed" <=> type \in SourceCounted /\ owners >= 2
  BY <1>3, <1>6, <1>7, <1>8, EvaluationSound
<1> HIDE DEF raw
<1>11. r \in Row
  BY <1>1, <1>9, <1>10 DEF Row
<1>12. /\ r.type = type /\ r.required = required /\ r.count = count /\ r.owners = owners
       /\ r.verification = verification /\ r.status = raw.status
  BY <1>1, <1>8, <1>9 DEF Row
<1>13. owners >= 2 => type \in SourceCounted
  BY <1>3, <1>4, <1>6
<1>14. RequirementSound(r)
  BY <1>6, <1>7, <1>10, <1>11, <1>12 DEF RequirementSound, SourceCounted
<1> QED
  BY <1>10, <1>12, <1>13, <1>14 DEF count, owners

(* finish_iteration's rows. *)
LEMMA ProjectionSound ==
  ASSUME GraphAssumption, GraphSound(graph), RowsSound(graph, rows)
  PROVE  RowsSound(graph, Projection) /\ ClosedRows(rows) \subseteq ClosedRows(Projection)
<1>1. ASSUME NEW d \in Dimensions
      PROVE  /\ RequirementSound(Projection[d]) /\ RowBacked(graph, d, Projection[d])
             /\ rows[d].status = "closed" => Projection[d].status = "closed"
  <2> DEFINE new == Projected(d)
             r == upsert(rows[d], new)
  <2>1. /\ RequirementSound(new)
        /\ new.count = Cardinality(EvidenceIn(graph, d)) /\ new.owners = Cardinality(OwnersIn(graph, d))
        /\ new.status = "closed" <=> Cardinality(OwnersIn(graph, d)) >= 2
    BY ProjectedSound
  <2>2. Projection[d] = r
    BY DEF Projection
  <2>3. rows[d] # NoRow => RequirementSound(rows[d]) /\ RowBacked(graph, d, rows[d])
    BY DEF RowsSound
  <2> HIDE DEF new
  <2>4. RequirementSound(r) /\ r.count = new.count /\ r.owners = new.owners /\ r.status = new.status
    BY <2>1, <2>3, UpsertSound
  <2> HIDE DEF r
  <2>5. Cardinality(EvidenceIn(graph, d)) \in Nat /\ Cardinality(OwnersIn(graph, d)) \in Nat
    BY FactsFinite DEF GraphSound
  <2>6. RowBacked(graph, d, r)
    BY <2>1, <2>4, <2>5 DEF RowBacked
  <2>7. rows[d].status = "closed" => rows[d] # NoRow
    BY NoRowIsNone
  <2>8. rows[d].status = "closed" => r.status = "closed"
    BY <2>1, <2>3, <2>4, <2>7 DEF RowBacked
  <2> QED
    BY <2>2, <2>4, <2>6, <2>8
<1>2. Projection \in [Dimensions -> Row \union {NoRow}]
  <2>1. DOMAIN Projection = Dimensions /\ Projection = [d \in Dimensions |-> Projection[d]]
    BY DEF Projection
  <2> QED
    BY <1>1, <2>1 DEF RequirementSound
<1> QED
  BY <1>1, <1>2 DEF RowsSound, ClosedRows

------------------------------------------------------------------------------
(* record_page.                                                            *)

LEMMA WithFallbacksSound ==
  ASSUME NEW g, NEW h, NEW touched, Grown(g, h, touched), RowsSound(g, rows), NEW d \in Dimensions
  PROVE  /\ RequirementSound(WithFallbacks[d]) /\ RowBacked(h, d, WithFallbacks[d])
         /\ rows[d].status = "closed" => WithFallbacks[d].status = "closed"
<1>1. /\ Cardinality(EvidenceIn(g, d)) \in Nat /\ Cardinality(OwnersIn(g, d)) \in Nat
      /\ Cardinality(EvidenceIn(h, d)) \in Nat /\ Cardinality(OwnersIn(h, d)) \in Nat
      /\ Cardinality(EvidenceIn(g, d)) <= Cardinality(EvidenceIn(h, d))
      /\ Cardinality(OwnersIn(g, d)) <= Cardinality(OwnersIn(h, d))
  BY FactsFinite, FactsGrow DEF Grown
<1>2. CASE rows[d] = NoRow
  <2>1. WithFallbacks[d] = FallbackRow(d)
    BY <1>2 DEF WithFallbacks
  <2>2. RequirementSound(FallbackRow(d))
    BY DEF FallbackRow, RequirementSound, Row, RequirementTypes, SourceCounted, Verifications,
           ClosureStatuses, RowReasons
  <2>3. FallbackRow(d).count = 0 /\ FallbackRow(d).owners = 0 /\ FallbackRow(d).status = "open"
    BY DEF FallbackRow
  <2>4. RowBacked(h, d, FallbackRow(d))
    BY <1>1, <2>3 DEF RowBacked
  <2> QED
    BY <1>2, <2>1, <2>2, <2>4, NoRowIsNone
<1>3. CASE rows[d] # NoRow
  <2>1. WithFallbacks[d] = rows[d]
    BY <1>3 DEF WithFallbacks
  <2>2. RequirementSound(rows[d]) /\ RowBacked(g, d, rows[d])
    BY <1>3 DEF RowsSound
  <2>3. rows[d].count \in Nat /\ rows[d].owners \in Nat
    BY <2>2 DEF RequirementSound, Row
  <2>4. RowBacked(h, d, rows[d])
    BY <1>1, <2>2, <2>3 DEF RowBacked
  <2> QED
    BY <2>1, <2>2, <2>4
<1> QED
  BY <1>2, <1>3

LEMMA BaseRowSound ==
  ASSUME NEW row, RequirementSound(row), NEW before, before.count \in Nat, before.owners \in Nat,
         NEW r, r = BaseRow(row, before)
  PROVE  RequirementSound(r) /\ r.status = row.status
<1> DEFINE version == IF row.count # before.count \/ row.owners # before.owners
                      THEN row.version + 1 ELSE row.version
<1>1. r = [row EXCEPT !.count = before.count, !.owners = before.owners, !.version = version]
  BY DEF BaseRow
<1>2. row \in Row
  BY DEF RequirementSound
<1>3. version \in Nat
  BY <1>2 DEF Row
<1> HIDE DEF version
<1>4. r \in Row
  BY <1>1, <1>2, <1>3 DEF Row
<1>5. /\ r.type = row.type /\ r.required = row.required /\ r.verification = row.verification
      /\ r.status = row.status
  BY <1>1, <1>2 DEF Row
<1> QED
  BY <1>4, <1>5 DEF RequirementSound

(* The row a batch leaves: its counts are those of the graph with it.      *)
LEMMA EvaluatedSound ==
  ASSUME NEW d \in Dimensions, RequirementSound(WithFallbacks[d]), WithFallbacks[d].status # "closed",
         GraphSound(graph), NEW fresh, IsFiniteSet(fresh), NEW after, GraphSound(after),
         NEW x, x = Evaluated(d, fresh, after)
  PROVE  /\ RequirementSound(x.verdict.row) /\ RequirementSound(x.row) /\ RowBacked(after, d, x.row)
<1> DEFINE old == WithFallbacks[d]
           facts == CountsOf(after, d)
           before == CountsOf(graph, d)
           base == BaseRow(old, before)
           batch == {e \in fresh : DimensionOf[e.claim] = d}
           verdict == ClosureEvaluator(base, batch, facts.owners)
           new == [verdict.row EXCEPT !.count = facts.count, !.owners = facts.owners]
<1>1. x.verdict = verdict /\ x.row = upsert(old, new)
  BY DEF Evaluated
<1>2. before.count \in Nat /\ before.owners \in Nat
  BY FactsFinite DEF CountsOf, GraphSound
<1>3. /\ facts.count \in Nat /\ facts.owners \in Nat
      /\ facts.count = Cardinality(EvidenceIn(after, d)) /\ facts.owners = Cardinality(OwnersIn(after, d))
  BY FactsFinite DEF CountsOf, GraphSound
<1>4. IsFiniteSet(batch)
  BY FS_Subset
<1> HIDE DEF facts, before, batch, old
<1>5. RequirementSound(old) /\ old.status # "closed"
  BY DEF old
<1>6. RequirementSound(base) /\ base.status # "closed"
  BY <1>2, <1>5, BaseRowSound
<1> HIDE DEF base
<1>7. RequirementSound(verdict.row) /\ (verdict.row.status = "closed" => facts.owners >= 2)
  BY <1>3, <1>4, <1>6, EvaluatorSound
<1> HIDE DEF verdict
<1>8. verdict.row \in Row
  BY <1>7 DEF RequirementSound
<1>9. new \in Row
  BY <1>3, <1>8 DEF Row
<1>10. /\ new.type = verdict.row.type /\ new.required = verdict.row.required
       /\ new.verification = verdict.row.verification /\ new.status = verdict.row.status
       /\ new.count = facts.count /\ new.owners = facts.owners
  BY <1>8 DEF Row
<1> HIDE DEF new
<1>11. RequirementSound(new)
  BY <1>7, <1>9, <1>10 DEF RequirementSound
<1>12. /\ RequirementSound(x.row) /\ x.row.count = new.count /\ x.row.owners = new.owners
       /\ x.row.status = new.status
  BY <1>1, <1>5, <1>11, UpsertSound
<1>13. RowBacked(after, d, x.row)
  BY <1>3, <1>7, <1>10, <1>12 DEF RowBacked
<1> QED
  BY <1>1, <1>7, <1>12, <1>13

UnmetOf(results, open) == SetToSeq({EvaluationFeedback(results, d) : d \in open})

(* Feedback on evaluated requirements is never of the completeness kind.   *)
LEMMA UnmetSound ==
  ASSUME NEW dims, dims \subseteq Dimensions, IsFiniteSet(Dimensions), NEW results,
         NEW open, open \subseteq dims, \A d \in open : RequirementSound(results[d].verdict.row),
         NEW ids, ids = UnmetOf(results, open)
  PROVE  /\ ids \in Seq(FeedbackIds)
         /\ \A i \in 1..Len(ids) : ids[i].kind = "closure"
<1> DEFINE F(d) == EvaluationFeedback(results, d)
           S == {F(d) : d \in open}
<1>1. ASSUME NEW d \in open PROVE F(d) \in FeedbackIds /\ F(d).kind = "closure"
  <2> DEFINE why == FeedbackReason(results[d].verdict.reason, results[d].verdict.useful)
             version == results[d].verdict.row.version
  <2>1. version \in Nat
    BY DEF RequirementSound, Row
  <2>2. why \in FeedbackReasons
    BY DEF FeedbackReason, FeedbackReasons
  <2>3. F(d) = [kind |-> "closure", gap |-> d, version |-> version, reason |-> why]
    BY DEF EvaluationFeedback, Feedback
  <2> HIDE DEF why, version, F
  <2> QED
    BY <2>1, <2>2, <2>3 DEF FeedbackIds
<1>2. IsFiniteSet(open)
  BY FS_Subset
<1> HIDE DEF F
<1>3. IsFiniteSet(S)
  <2> DEFINE f == [d \in open |-> F(d)]
  <2>1. f \in Surjection(open, S)
    BY DEF Surjection
  <2> QED
    BY <1>2, <2>1, FS_Surjection
<1>4. ids = SetToSeq(S)
  BY DEF F, UnmetOf
<1>5. S \subseteq FeedbackIds /\ \A f \in S : f.kind = "closure"
  BY <1>1
<1> HIDE DEF S
<1>6. ids \in Seq(S)
  BY <1>3, <1>4, SetToSeqLists
<1>7. \A i \in 1..Len(ids) : ids[i] \in S
  BY <1>6, ElementOfSeq
<1> QED
  BY <1>5, <1>6, <1>7

(* A completeness pass leaves no open requirement untold and tells none of *)
(* them twice.                                                             *)
LEMMA PassSound ==
  ASSUME GapAssumption, RunSound, NEW b, BoxSound(b), OncePerGap(b.dispatched),
         NEW g, NEW rs, RowsSound(g, rs), NEW c, c = DispatchAll(b, CompletenessFeedback(rs, b.fed), rs)
  PROVE  /\ BoxSound(c) /\ OncePerGap(c.dispatched) /\ Len(b.executions) <= Len(c.executions)
         /\ \A d \in Dimensions : rs[d].status \in {"open", "partial"} => d \in c.fed
<1> DEFINE told == b.fed
           ids == CompletenessFeedback(rs, told)
<1>1. OpenTyped(rs)
  BY NoRowIsNone DEF OpenTyped, RowsSound, RequirementSound
<1>0. ids = CompletenessFeedback(rs, told)
  OBVIOUS
<1> HIDE DEF told, ids
<1>2. /\ ids \in Seq(FeedbackIds)
      /\ \A d \in Dimensions : rs[d].status \in {"open", "partial"} /\ d \notin told
            => d \in {ids[i].gap : i \in 1..Len(ids)}
      /\ \A i \in 1..Len(ids) : ids[i].gap \notin told
      /\ OncePerGap({ids[i] : i \in 1..Len(ids)})
  <2>1. Tells(ids, rs, told)
    BY <1>0, <1>1, CompletenessSound, Zenon
  <2> QED
    BY <2>1, Zenon DEF Tells
<1>3. c = DispatchAll(b, ids, rs)
  BY DEF told, ids
<1>4. /\ BoxSound(c)
      /\ c.fed = b.fed \union {ids[i].gap : i \in 1..Len(ids)}
      /\ c.dispatched \subseteq b.dispatched \union {ids[i] : i \in 1..Len(ids)}
      /\ Len(b.executions) <= Len(c.executions)
  BY <1>2, <1>3, DispatchAllSound
<1>5. \A f \in b.dispatched : f.gap \in told
  BY DEF told, BoxSound
<1>6. OncePerGap(c.dispatched)
  <2> SUFFICES ASSUME NEW f \in c.dispatched, NEW k \in c.dispatched,
                      f.kind = "completeness", k.kind = "completeness", f.gap = k.gap
               PROVE  f = k
    BY DEF OncePerGap
  <2>1. CASE f \in b.dispatched
    <3>1. k \in b.dispatched
      BY <1>2, <1>4, <1>5, <2>1
    <3> QED
      BY <2>1, <3>1 DEF OncePerGap
  <2>2. CASE f \notin b.dispatched
    <3>1. k \notin b.dispatched
      BY <1>2, <1>4, <1>5, <2>2
    <3> QED
      BY <1>2, <1>4, <2>2, <3>1 DEF OncePerGap
  <2> QED
    BY <2>1, <2>2
<1> QED
  BY <1>2, <1>4, <1>6 DEF told

(* A page: the rows it leaves.                                             *)
LEMMA LeftSound ==
  ASSUME GraphSound(graph), RowsSound(graph, rows), NEW fresh, IsFiniteSet(fresh),
         NEW after, GraphSound(after), NEW touched, Grown(graph, after, touched),
         NEW dims, dims = Touched(fresh),
         NEW results, results = [d \in dims |-> Evaluated(d, fresh, after)],
         NEW left, left = [d \in Dimensions |-> IF d \in dims THEN results[d].row ELSE WithFallbacks[d]]
  PROVE  /\ RowsSound(after, left) /\ ClosedRows(rows) \subseteq ClosedRows(left)
         /\ dims \subseteq Dimensions /\ \A d \in dims : RequirementSound(results[d].verdict.row)
<1>1. \A d \in Dimensions : /\ RequirementSound(WithFallbacks[d]) /\ RowBacked(after, d, WithFallbacks[d])
                            /\ rows[d].status = "closed" => WithFallbacks[d].status = "closed"
  BY WithFallbacksSound
<1>2. dims \subseteq Dimensions /\ \A d \in dims : WithFallbacks[d].status # "closed"
  BY DEF Touched
<1>3. ASSUME NEW d \in dims
      PROVE  /\ RequirementSound(results[d].verdict.row) /\ RequirementSound(results[d].row)
             /\ RowBacked(after, d, results[d].row)
  <2> DEFINE x == results[d]
  <2>1. x = Evaluated(d, fresh, after)
    OBVIOUS
  <2>2. d \in Dimensions /\ RequirementSound(WithFallbacks[d]) /\ WithFallbacks[d].status # "closed"
    BY <1>1, <1>2
  <2> HIDE DEF x
  <2>3. RequirementSound(x.verdict.row) /\ RequirementSound(x.row) /\ RowBacked(after, d, x.row)
    BY <2>1, <2>2, EvaluatedSound
  <2> QED
    BY <2>3 DEF x
<1>4. ASSUME NEW d \in Dimensions
      PROVE  RequirementSound(left[d]) /\ RowBacked(after, d, left[d])
  <2>1. CASE d \in dims
    <3>1. left[d] = results[d].row
      BY <2>1
    <3> QED
      BY <1>3, <2>1, <3>1
  <2>2. CASE d \notin dims
    <3>1. left[d] = WithFallbacks[d]
      BY <2>2
    <3> QED
      BY <1>1, <3>1
  <2> QED
    BY <2>1, <2>2
<1>5. \A d \in Dimensions : left[d] \in Row
  BY <1>4 DEF RequirementSound
<1>6. left \in [Dimensions -> Row \union {NoRow}]
  <2>1. left = [d \in Dimensions |-> left[d]]
    OBVIOUS
  <2> QED
    BY <1>5, <2>1
<1>7. ASSUME NEW d \in Dimensions, rows[d].status = "closed" PROVE left[d].status = "closed"
  <2>1. d \notin dims
    BY <1>1, <1>2, <1>7
  <2>2. left[d] = WithFallbacks[d]
    BY <2>1
  <2> QED
    BY <1>1, <1>7, <2>2
<1> HIDE DEF RowsSound
<1>8. RowsSound(after, left)
  BY <1>4, <1>6 DEF RowsSound
<1> QED
  BY <1>2, <1>3, <1>7, <1>8 DEF ClosedRows

LEMMA PagesAreItems ==
  ASSUME GapAssumption, NEW items \in Pages
  PROVE  items \subseteq Item /\ IsFiniteSet(items)
<1>1. PICK e \in Findings, f \in Findings : items = {e, f}
  BY DEF Pages
<1>2. IsFiniteSet({e, f})
  <2>1. IsFiniteSet({e}) /\ IsFiniteSet({f})
    BY FS_Singleton
  <2>2. {e, f} = {e} \union {f}
    OBVIOUS
  <2> QED
    BY <2>1, <2>2, FS_Union
<1> QED
  BY <1>1, <1>2 DEF GapAssumption

(* A record equal to the box of the next state. *)
LEMMA UnboxSound ==
  ASSUME NEW b, BoxSound(b), Unbox(b)
  PROVE  Box' = b
BY DEF Unbox, Box, BoxSound

LEMMA RecordPageKeeps ==
  ASSUME GapAssumption, GraphAssumption, GapInv, RecordPage
  PROVE  GapInv' /\ ClosedRows(rows) \subseteq ClosedRows(rows')
<1>1. PICK items \in Pages :
        LET fresh == NewItems(graph, items)
            after == InsertEvidence(graph, items)
            dims == Touched(fresh)
            results == [d \in dims |-> Evaluated(d, fresh, after)]
            left == [d \in Dimensions |-> IF d \in dims THEN results[d].row ELSE WithFallbacks[d]]
            seen == [d \in Dimensions |-> IF d \in dims THEN results[d].verdict.row ELSE left[d]]
            unmet == SetToSeq({EvaluationFeedback(results, d) : d \in dims \ ClosedRows(left)})
            b1 == DispatchAll(Box, unmet, seen)
            b2 == DispatchAll(b1, CompletenessFeedback(left, b1.fed), left)
        IN  /\ run.phase = "research" /\ run.pages < MaxPages
            /\ run' = [run EXCEPT !.pages = @ + 1]
            /\ graph' = after
            /\ IF fresh = {} THEN UNCHANGED <<rows, feedback>>
               ELSE rows' = left /\ Unbox(b2)
            /\ UNCHANGED consumed
  BY Zenon DEF RecordPage
<1> DEFINE fresh == NewItems(graph, items)
           after == InsertEvidence(graph, items)
           dims == Touched(fresh)
           results == [d \in dims |-> Evaluated(d, fresh, after)]
           left == [d \in Dimensions |-> IF d \in dims THEN results[d].row ELSE WithFallbacks[d]]
           seen == [d \in Dimensions |-> IF d \in dims THEN results[d].verdict.row ELSE left[d]]
           unmet == SetToSeq({EvaluationFeedback(results, d) : d \in dims \ ClosedRows(left)})
           b1 == DispatchAll(Box, unmet, seen)
           b2 == DispatchAll(b1, CompletenessFeedback(left, b1.fed), left)
<1>2. /\ run.phase = "research" /\ run.pages < MaxPages /\ run' = [run EXCEPT !.pages = @ + 1]
      /\ graph' = after /\ consumed' = consumed
      /\ fresh = {} => UNCHANGED <<rows, feedback>>
      /\ fresh # {} => rows' = left /\ Unbox(b2)
  BY <1>1
<1>3. /\ GraphSound(graph) /\ RowsSound(graph, rows) /\ BoxSound(Box) /\ OncePerGap(dispatched)
      /\ consumed \in 0..Len(executions) /\ RunSound
  BY DEF GapInv
<1>4. /\ GraphSound(after) /\ fresh \subseteq Item /\ IsFiniteSet(fresh)
      /\ Grown(graph, after, {e.claim : e \in fresh})
      /\ fresh = {} => after = graph
  <2>1. items \subseteq Item /\ IsFiniteSet(items)
    BY PagesAreItems
  <2> HIDE DEF fresh, after
  <2>2. fresh = NewItems(graph, items) /\ after = InsertEvidence(graph, items)
    BY DEF fresh, after
  <2> QED
    BY <1>3, <2>1, <2>2, InsertSound
<1> HIDE DEF fresh, after
<1>5. RunSound' /\ NoSilentLeftover'
  <2>1. run'.phase = "research" /\ RunSound'
    BY <1>2, <1>3 DEF RunSound, GapAssumption
  <2> QED
    BY <2>1 DEF NoSilentLeftover
<1>6. CASE fresh = {}
  <2>1. graph' = graph /\ rows' = rows /\ Box' = Box /\ dispatched' = dispatched /\ executions' = executions
    BY <1>2, <1>4, <1>6 DEF feedback, Box
  <2> QED
    BY <1>2, <1>3, <1>5, <2>1 DEF GapInv, GraphSound, StatusBacked, Disclosed, RowsSound, RowBacked, BoxSound, OncePerGap, ClosedRows
<1>7. CASE fresh # {}
  <2> DEFINE touched == {e.claim : e \in fresh}
  <2> HIDE DEF touched
  <2>1. Grown(graph, after, touched)
    BY <1>4 DEF touched
  <2> HIDE DEF dims
  <2>2. dims = Touched(fresh)
    BY DEF dims
  <2>3. /\ RowsSound(after, left) /\ ClosedRows(rows) \subseteq ClosedRows(left)
        /\ dims \subseteq Dimensions /\ \A d \in dims : RequirementSound(results[d].verdict.row)
    <3> HIDE DEF left, results
    <3>1. /\ results = [d \in dims |-> Evaluated(d, fresh, after)]
          /\ left = [d \in Dimensions |-> IF d \in dims THEN results[d].row ELSE WithFallbacks[d]]
      BY DEF left, results
    <3> QED
      BY <1>3, <1>4, <2>1, <2>2, <3>1, LeftSound
  <2> HIDE DEF left, results
  <2>4. /\ unmet \in Seq(FeedbackIds) /\ \A i \in 1..Len(unmet) : unmet[i].kind = "closure"
    <3> DEFINE open == dims \ ClosedRows(left)
    <3>1. /\ open \subseteq dims /\ dims \subseteq Dimensions /\ IsFiniteSet(Dimensions)
          /\ \A d \in open : RequirementSound(results[d].verdict.row)
      BY <2>3 DEF GapAssumption
    <3>2. unmet = UnmetOf(results, open)
      BY DEF UnmetOf
    <3> HIDE DEF open, unmet
    <3> QED
      BY <3>1, <3>2, UnmetSound
  <2> HIDE DEF unmet, seen
  <2>5. /\ BoxSound(b1) /\ b1.dispatched \subseteq dispatched \union {unmet[i] : i \in 1..Len(unmet)}
        /\ Len(executions) <= Len(b1.executions)
    <3>1. Box.dispatched = dispatched /\ Box.executions = executions
      BY DEF Box
    <3>2. /\ BoxSound(b1) /\ b1.dispatched \subseteq Box.dispatched \union {unmet[i] : i \in 1..Len(unmet)}
          /\ Len(Box.executions) <= Len(b1.executions)
      BY <1>3, <2>4, DispatchAllSound
    <3> QED
      BY <3>1, <3>2
  <2> HIDE DEF b1
  <2>6. OncePerGap(b1.dispatched)
    BY <1>3, <2>4, <2>5 DEF OncePerGap
  <2>7. BoxSound(b2) /\ OncePerGap(b2.dispatched) /\ Len(b1.executions) <= Len(b2.executions)
    BY <1>3, <2>3, <2>5, <2>6, PassSound
  <2> HIDE DEF b2
  <2>8. Box' = b2 /\ rows' = left
    BY <1>2, <1>7, <2>7, UnboxSound
  <2>9. GraphSound(graph)' /\ RowsSound(graph, rows)'
    BY <1>2, <1>4, <2>3, <2>8 DEF GraphSound, StatusBacked, Disclosed, RowsSound, RowBacked
  <2>10. dispatched' = b2.dispatched /\ executions' = b2.executions
    BY <1>2, <1>7 DEF Unbox
  <2>11. OncePerGap(dispatched)' /\ BoxSound(Box)'
    BY <2>7, <2>8, <2>10 DEF OncePerGap, BoxSound
  <2>12. (consumed \in 0..Len(executions))'
    <3>1. Len(executions) \in Nat /\ Len(b1.executions) \in Nat /\ Len(b2.executions) \in Nat
      BY <1>3, <2>5, <2>7, LenProperties DEF BoxSound, Box
    <3> QED
      BY <1>2, <1>3, <2>5, <2>7, <2>10, <3>1
  <2> QED
    BY <1>5, <2>3, <2>8, <2>9, <2>11, <2>12 DEF GapInv, ClosedRows
<1> QED
  BY <1>6, <1>7

------------------------------------------------------------------------------
(* The other actions.                                                      *)

LEMMA InitSound ==
  ASSUME GapAssumption, GraphAssumption, Init
  PROVE  GapInv
<1>1. graph = EmptyGraph /\ graph.evidence = <<>> /\ DOMAIN graph.evidence = {}
  BY DEF Init, EmptyGraph
<1>2. \A c : AcceptedOf(graph, c) = {}
  BY <1>1 DEF AcceptedOf, Accepted
<1>3. Known(graph) = {}
  BY <1>1 DEF Known
<1>4. \A p \in Contradictions : ~InConflict(graph, p)
  <2> SUFFICES ASSUME NEW p \in Contradictions, InConflict(graph, p) PROVE FALSE
    OBVIOUS
  <2>1. p = {}
    BY <1>2 DEF InConflict
  <2>2. Cardinality(p) = 0 /\ Cardinality(p) = 2
    BY <2>1, FS_EmptySet DEF GraphAssumption
  <2> QED
    BY <2>2
<1>5. StatusBacked(graph) /\ Disclosed(graph)
  <2>1. \A c \in Claims : graph.status[c] = "none"
    BY <1>1 DEF EmptyGraph
  <2> QED
    BY <1>3, <1>4, <2>1 DEF StatusBacked, Disclosed
<1>6. GraphSound(graph)
  <2>1. graph.evidence \in Seq(Item)
    BY <1>1, EmptySeq
  <2>2. graph.open = {} /\ graph.dismissed = {} /\ graph.status = [c \in Claims |-> "none"]
    BY <1>1 DEF EmptyGraph
  <2>3. [c \in Claims |-> "none"] \in [Claims -> ClaimStatuses]
    BY DEF ClaimStatuses
  <2>4. graph = [evidence |-> graph.evidence, status |-> graph.status, open |-> graph.open,
                 dismissed |-> graph.dismissed]
    BY <1>1 DEF EmptyGraph
  <2>5. graph \in [evidence : Seq(Item), status : [Claims -> ClaimStatuses],
                   open : {graph.open}, dismissed : {graph.dismissed}]
    BY <2>1, <2>2, <2>3, <2>4
  <2> QED
    BY <1>5, <2>2, <2>5 DEF GraphSound
<1>7. RowsSound(graph, rows)
  BY DEF Init, RowsSound
<1>8. executions = <<>> /\ Len(executions) = 0 /\ executions \in Seq(Executions)
  BY EmptySeq DEF Init
<1>9. BoxSound(Box)
  <2>1. Box = [fed |-> {}, dispatched |-> {}, executions |-> executions, refused |-> 0]
    BY DEF Init, Box
  <2> QED
    BY <1>8, <2>1 DEF BoxSound, GapAssumption
<1>10. OncePerGap(dispatched) /\ consumed \in 0..Len(executions)
  BY <1>8 DEF Init, OncePerGap
<1>11. RunSound /\ NoSilentLeftover
  BY DEF Init, RunSound, NoSilentLeftover, GapAssumption
<1> QED
  BY <1>6, <1>7, <1>9, <1>10, <1>11 DEF GapInv

(* A step that leaves the graph, the rows and the feedback alone.          *)
LEMMA RunStepKeeps ==
  ASSUME GapInv, UNCHANGED <<graphVars, feedback>>, (consumed \in 0..Len(executions))',
         RunSound', run'.phase # "writing"
  PROVE  GapInv' /\ ClosedRows(rows) \subseteq ClosedRows(rows')
<1>1. graph' = graph /\ rows' = rows /\ fed' = fed /\ dispatched' = dispatched
      /\ executions' = executions /\ refused' = refused /\ Box' = Box
  BY DEF graphVars, feedback, Box
<1>2. GraphSound(graph)' /\ RowsSound(graph, rows)'
  BY <1>1 DEF GapInv, GraphSound, StatusBacked, Disclosed, RowsSound, RowBacked
<1>3. BoxSound(Box)' /\ OncePerGap(dispatched)'
  BY <1>1 DEF GapInv, BoxSound, OncePerGap
<1>4. NoSilentLeftover'
  BY DEF NoSilentLeftover
<1> QED
  BY <1>1, <1>2, <1>3, <1>4 DEF GapInv, ClosedRows

LEMMA GiveUpQuestionKeeps ==
  ASSUME GapAssumption, GapInv, GiveUpQuestion
  PROVE  GapInv' /\ ClosedRows(rows) \subseteq ClosedRows(rows')
<1>0. run.iterations + 1 \in 0..MaxIterations
  BY DEF GapInv, RunSound, GiveUpQuestion, GapAssumption
<1>1. RunSound' /\ run'.phase # "writing"
  <2>1. run' = [run EXCEPT !.phase = "schedule", !.iterations = run.iterations + 1] /\ RunSound
    BY DEF GiveUpQuestion, GapInv
  <2> QED
    BY <1>0, <2>1 DEF RunSound
<1>2. (consumed \in 0..Len(executions))' /\ UNCHANGED <<graphVars, feedback>>
  BY DEF GapInv, GiveUpQuestion, feedback
<1> QED
  BY <1>1, <1>2, RunStepKeeps

LEMMA TakeFeedbackKeeps ==
  ASSUME GapAssumption, GapInv, TakeFeedback
  PROVE  GapInv' /\ ClosedRows(rows) \subseteq ClosedRows(rows')
<1>1. RunSound' /\ run'.phase # "writing"
  BY DEF GapInv, RunSound, TakeFeedback, GapAssumption
<1>2. UNCHANGED <<graphVars, feedback>> /\ executions' = executions /\ Len(executions) \in Nat
  BY LenProperties DEF GapInv, TakeFeedback, feedback, BoxSound, Box
<1>3. (consumed \in 0..Len(executions))'
  BY <1>2 DEF GapInv, TakeFeedback, PendingFeedback
<1> QED
  BY <1>1, <1>2, <1>3, RunStepKeeps

LEMMA PrepareTargetKeeps ==
  ASSUME GapAssumption, GapInv, PrepareTarget
  PROVE  GapInv' /\ ClosedRows(rows) \subseteq ClosedRows(rows')
<1>1. RunSound' /\ run'.phase # "writing"
  BY DEF GapInv, RunSound, PrepareTarget, GapAssumption
<1>2. (consumed \in 0..Len(executions))' /\ UNCHANGED <<graphVars, feedback>>
  BY DEF GapInv, PrepareTarget, feedback
<1> QED
  BY <1>1, <1>2, RunStepKeeps

LEMMA CrashKeeps ==
  ASSUME GapAssumption, GapInv, Crash
  PROVE  GapInv' /\ ClosedRows(rows) \subseteq ClosedRows(rows')
<1>0. run.crashes + 1 \in 0..MaxCrashes
  BY DEF GapInv, RunSound, Crash, GapAssumption
<1>1. RunSound' /\ run'.phase # "writing"
  <2>1. run' = [run EXCEPT !.phase = "schedule", !.crashes = run.crashes + 1] /\ RunSound
    BY DEF Crash, GapInv
  <2> QED
    BY <1>0, <2>1 DEF RunSound
<1>2. (consumed \in 0..Len(executions))' /\ UNCHANGED <<graphVars, feedback>>
  BY DEF GapInv, Crash, feedback
<1> QED
  BY <1>1, <1>2, RunStepKeeps

LEMMA StutterKeeps ==
  ASSUME GapInv, UNCHANGED vars
  PROVE  GapInv' /\ ClosedRows(rows) \subseteq ClosedRows(rows')
<1>1. graph' = graph /\ rows' = rows /\ fed' = fed /\ dispatched' = dispatched
      /\ executions' = executions /\ refused' = refused /\ Box' = Box
      /\ consumed' = consumed /\ run' = run
  BY DEF vars, Box
<1>2. GraphSound(graph)' /\ RowsSound(graph, rows)'
  BY <1>1 DEF GapInv, GraphSound, StatusBacked, Disclosed, RowsSound, RowBacked
<1>3. BoxSound(Box)' /\ OncePerGap(dispatched)'
  BY <1>1 DEF GapInv, BoxSound, OncePerGap
<1>4. NoSilentLeftover' /\ RunSound' /\ (consumed \in 0..Len(executions))'
  BY <1>1 DEF GapInv, NoSilentLeftover, RunSound
<1> QED
  BY <1>1, <1>2, <1>3, <1>4 DEF GapInv, ClosedRows

LEMMA SaveReplanKeeps ==
  ASSUME GapAssumption, GapInv, SaveReplan
  PROVE  GapInv' /\ run'.plan # run.plan
<1>0. run.plan + 1 \in 1..(MaxReplans + 1) /\ run.plan + 1 # run.plan
  BY DEF GapInv, RunSound, SaveReplan, GapAssumption
<1>1. RunSound' /\ run'.phase = "schedule" /\ run'.plan # run.plan
  <2>1. run' = [run EXCEPT !.phase = "schedule", !.plan = run.plan + 1] /\ RunSound
    BY DEF SaveReplan, GapInv
  <2> QED
    BY <1>0, <2>1 DEF RunSound
<1>2. graph' = graph /\ rows' = [d \in Dimensions |-> NoRow] /\ executions' = executions
      /\ consumed' = consumed /\ refused' = refused /\ fed' = {} /\ dispatched' = {}
  BY DEF SaveReplan
<1>3. GraphSound(graph)'
  BY <1>2 DEF GapInv, GraphSound, StatusBacked, Disclosed
<1>4. RowsSound(graph, rows)'
  BY <1>2 DEF RowsSound
<1>5. Box' = [fed |-> {}, dispatched |-> {}, executions |-> executions, refused |-> refused]
  BY <1>2 DEF Box
<1>6. executions \in Seq(Executions) /\ refused \in Nat /\ Len(executions) <= MaxExecutions
  BY DEF GapInv, BoxSound, Box
<1>7. BoxSound(Box)'
  BY <1>5, <1>6 DEF BoxSound
<1>8. OncePerGap(dispatched)' /\ NoSilentLeftover' /\ (consumed \in 0..Len(executions))'
  BY <1>1, <1>2 DEF OncePerGap, NoSilentLeftover, GapInv
<1> QED
  BY <1>1, <1>3, <1>4, <1>7, <1>8 DEF GapInv

(* Writing starts with the rows rs: the finalizer tells what nobody told.  *)
LEMMA EnterWritingKeeps ==
  ASSUME GapAssumption, GapInv, NEW rs, RowsSound(graph, rs), rows' = rs, graph' = graph,
         consumed' = consumed, NEW stop \in StopReasons, EnterWriting(rs, stop)
  PROVE  GapInv'
<1> DEFINE ids == FinalFeedback(rs, stop)
           b == DispatchAll(Box, ids, rs)
<1>1. /\ GraphSound(graph) /\ BoxSound(Box) /\ OncePerGap(dispatched)
      /\ consumed \in 0..Len(executions) /\ RunSound
  BY DEF GapInv
<1>2. /\ Box.fed = fed /\ Box.dispatched = dispatched /\ Box.executions = executions
  BY DEF Box
<1>3. run' = [run EXCEPT !.phase = "writing", !.stop = stop] /\ Unbox(b)
  BY DEF EnterWriting
<1>4. RunSound' /\ run'.phase = "writing" /\ run'.stop = stop
  BY <1>1, <1>3 DEF RunSound
<1>5. /\ BoxSound(b) /\ OncePerGap(b.dispatched) /\ Len(executions) <= Len(b.executions)
      /\ \/ is_terminal_run_stop_reason(stop)
         \/ \A d \in Dimensions : rs[d].status \in {"open", "partial"} => d \in b.fed
  <2>1. CASE is_terminal_run_stop_reason(stop)
    <3>1. ids = <<>> /\ ids \in Seq(FeedbackIds) /\ Len(ids) = 0
      BY <2>1, EmptySeq DEF FinalFeedback
    <3> HIDE DEF ids
    <3>2. /\ BoxSound(b) /\ b.dispatched \subseteq Box.dispatched \union {ids[i] : i \in 1..Len(ids)}
          /\ Len(Box.executions) <= Len(b.executions)
      <4>1. b = DispatchAll(Box, ids, rs)
        OBVIOUS
      <4>2. ids \in Seq(FeedbackIds)
        BY <3>1
      <4> HIDE DEF b
      <4> QED
        BY <1>1, <4>1, <4>2, DispatchAllSound
    <3>3. {ids[i] : i \in 1..Len(ids)} = {}
      BY <3>1
    <3>4. b.dispatched \subseteq dispatched
      BY <1>2, <3>2, <3>3
    <3>5. OncePerGap(b.dispatched)
      BY <1>1, <3>4 DEF OncePerGap
    <3> QED
      BY <1>2, <2>1, <3>2, <3>5
  <2>2. CASE ~is_terminal_run_stop_reason(stop)
    <3>1. ids = CompletenessFeedback(rs, Box.fed)
      BY <1>2, <2>2 DEF FinalFeedback
    <3>2. b = DispatchAll(Box, CompletenessFeedback(rs, Box.fed), rs)
      BY <3>1
    <3>3. OncePerGap(Box.dispatched)
      BY <1>1, <1>2
    <3> HIDE DEF b
    <3>4. /\ BoxSound(b) /\ OncePerGap(b.dispatched) /\ Len(Box.executions) <= Len(b.executions)
          /\ \A d \in Dimensions : rs[d].status \in {"open", "partial"} => d \in b.fed
      BY <1>1, <3>2, <3>3, PassSound
    <3> QED
      BY <1>2, <3>4
  <2> QED
    BY <2>1, <2>2
<1> HIDE DEF b
<1>6. Box' = b
  BY <1>3, <1>5, UnboxSound
<1>7. fed' = b.fed /\ dispatched' = b.dispatched /\ executions' = b.executions
  BY <1>3 DEF Unbox
<1>8. BoxSound(Box)' /\ OncePerGap(dispatched)'
  BY <1>5, <1>6, <1>7 DEF BoxSound, OncePerGap
<1>9. NoSilentLeftover'
  BY <1>4, <1>5, <1>7 DEF NoSilentLeftover, is_terminal_run_stop_reason
<1>10. (consumed \in 0..Len(executions))'
  <2>1. Len(executions) \in Nat /\ Len(b.executions) \in Nat
    BY <1>1, <1>2, <1>5, LenProperties DEF BoxSound
  <2> QED
    BY <1>1, <1>5, <1>7, <2>1
<1>11. GraphSound(graph)' /\ RowsSound(graph, rows)'
  BY <1>1 DEF GraphSound, StatusBacked, Disclosed, RowsSound, RowBacked
<1> QED
  BY <1>4, <1>8, <1>9, <1>10, <1>11 DEF GapInv

LEMMA StopAtScheduleKeeps ==
  ASSUME GapAssumption, GapInv, StopAtSchedule
  PROVE  GapInv' /\ ClosedRows(rows) \subseteq ClosedRows(rows')
<1>1. PICK stop \in StopReasons : EnterWriting(rows, stop)
  BY DEF StopAtSchedule
<1>2. graph' = graph /\ rows' = rows /\ consumed' = consumed
  BY DEF StopAtSchedule, graphVars
<1>3. RowsSound(graph, rows)
  BY DEF GapInv
<1>4. GapInv'
  BY <1>1, <1>2, <1>3, EnterWritingKeeps
<1> QED
  BY <1>2, <1>4 DEF ClosedRows

LEMMA FinishIterationKeeps ==
  ASSUME GapAssumption, GraphAssumption, GapInv, FinishIteration
  PROVE  GapInv' /\ ClosedRows(rows) \subseteq ClosedRows(rows')
<1>1. RowsSound(graph, Projection) /\ ClosedRows(rows) \subseteq ClosedRows(Projection)
  BY ProjectionSound DEF GapInv
<1>2. /\ run.phase = "research" /\ run.iterations < MaxIterations /\ rows' = Projection
      /\ graph' = graph /\ consumed' = consumed
      /\ Continue \/ AskReplan \/ \E stop \in StopReasons : EnterWriting(Projection, stop)
  BY DEF FinishIteration
<1>3. ClosedRows(rows') = ClosedRows(Projection)
  BY <1>2
<1>4. CASE Continue \/ AskReplan
  <2>1. RunSound' /\ run'.phase # "writing"
    <3>1. run.iterations + 1 \in 0..MaxIterations /\ RunSound
      BY <1>2 DEF GapInv, RunSound, GapAssumption
    <3>2. CASE Continue
      <4>1. run' = [run EXCEPT !.phase = "schedule", !.iterations = run.iterations + 1]
        BY <3>2 DEF Continue
      <4> QED
        BY <3>1, <4>1 DEF RunSound
    <3>3. CASE AskReplan
      <4>1. run' = [run EXCEPT !.phase = "replan", !.iterations = run.iterations + 1]
            /\ run.plan <= MaxReplans
        BY <3>3 DEF AskReplan
      <4> QED
        BY <3>1, <4>1 DEF RunSound
    <3> QED
      BY <1>4, <3>2, <3>3
  <2>2. UNCHANGED feedback
    BY <1>4 DEF Continue, AskReplan
  <2>3. Box' = Box /\ dispatched' = dispatched /\ executions' = executions
    BY <2>2 DEF feedback, Box
  <2>4. GraphSound(graph)' /\ RowsSound(graph, rows)'
    BY <1>1, <1>2 DEF GapInv, GraphSound, StatusBacked, Disclosed, RowsSound, RowBacked
  <2>5. BoxSound(Box)' /\ OncePerGap(dispatched)' /\ (consumed \in 0..Len(executions))'
    BY <1>2, <2>3 DEF GapInv, BoxSound, OncePerGap
  <2>6. NoSilentLeftover'
    BY <2>1 DEF NoSilentLeftover
  <2> QED
    BY <1>1, <1>3, <2>1, <2>4, <2>5, <2>6 DEF GapInv
<1>5. CASE \E stop \in StopReasons : EnterWriting(Projection, stop)
  <2>1. PICK stop \in StopReasons : EnterWriting(Projection, stop)
    BY <1>5
  <2>2. GapInv'
    BY <1>1, <1>2, <2>1, EnterWritingKeeps
  <2> QED
    BY <1>1, <1>3, <2>2
<1> QED
  BY <1>2, <1>4, <1>5

------------------------------------------------------------------------------
(* The theorems.                                                           *)

LEMMA StepKeeps ==
  ASSUME GapAssumption, GraphAssumption, GapInv, [Next]_vars
  PROVE  GapInv' /\ (run'.plan = run.plan => ClosedRows(rows) \subseteq ClosedRows(rows'))
<1>1. CASE RecordPage
  BY <1>1, RecordPageKeeps
<1>2. CASE FinishIteration
  BY <1>2, FinishIterationKeeps
<1>3. CASE GiveUpQuestion
  BY <1>3, GiveUpQuestionKeeps
<1>4. CASE SaveReplan
  BY <1>4, SaveReplanKeeps
<1>5. CASE StopAtSchedule
  BY <1>5, StopAtScheduleKeeps
<1>6. CASE TakeFeedback
  BY <1>6, TakeFeedbackKeeps
<1>7. CASE PrepareTarget
  BY <1>7, PrepareTargetKeeps
<1>8. CASE Crash
  BY <1>8, CrashKeeps
<1>9. CASE Writing \/ UNCHANGED vars
  BY <1>9, StutterKeeps DEF Writing
<1> QED
  BY <1>1, <1>2, <1>3, <1>4, <1>5, <1>6, <1>7, <1>8, <1>9 DEF Next

(* In every reachable state the graph is sound, every row is backed by it, *)
(* completeness feedback is unique per gap, and nothing is left silent.    *)
THEOREM GapInvariant == Spec => []GapInv
<1>1. Init => GapInv
  BY InitSound, GapAssumption, GraphAssumption
<1>2. GapInv /\ [Next]_vars => GapInv'
  BY StepKeeps, GapAssumption, GraphAssumption
<1> QED
  BY <1>1, <1>2, PTL DEF Spec

(* Whichever of record_page and finish_iteration wrote it last, no row of  *)
(* a gap claims more than the evidence behind it, and a closed one has     *)
(* accepted evidence of two owners (_align_and_evaluate_evidence,          *)
(* project_gap_requirements).                                              *)
THEOREM RowsTruthful == Spec => []RowsTellTheFacts
<1>1. GapInv => RowsTellTheFacts
  <2> SUFFICES ASSUME GapInv PROVE RowsTellTheFacts
    OBVIOUS
  <2>1. TypeOK
    <3>1. /\ graph.evidence \in Seq(Item) /\ graph.status \in [Claims -> ClaimStatuses]
          /\ graph.open \cap graph.dismissed = {}
          /\ \A k \in graph.open \union graph.dismissed : k \subseteq DOMAIN graph.evidence
      BY DEF GapInv, GraphSound
    <3>2. rows \in [Dimensions -> Row \union {NoRow}]
      BY DEF GapInv, RowsSound
    <3>3. /\ fed \subseteq Dimensions /\ dispatched \subseteq FeedbackIds
          /\ executions \in Seq(Executions) /\ refused \in Nat /\ Len(executions) <= MaxExecutions
      BY DEF GapInv, BoxSound, Box
    <3> QED
      BY <3>1, <3>2, <3>3 DEF TypeOK, Executions, GapInv, RunSound
  <2>2. ClosedHasSources
    BY NoRowIsNone DEF GapInv, RowsSound, RowBacked, ClosedHasSources, ClosedRows
  <2>3. RowsNeverOverstate
    BY DEF GapInv, RowsSound, RowBacked, RowsNeverOverstate
  <2> QED
    BY <2>1, <2>2, <2>3 DEF RowsTellTheFacts
<1> QED
  BY <1>1, GapInvariant, PTL

(* Every requirement left open when writing starts is explained, and the   *)
(* completeness passes and the finalizer together tell no gap twice,       *)
(* although versions and ids change between them                           *)
(* (run_closure_feedback_completeness_pass, finalize_run_closure_feedback).*)
THEOREM LeftoversExplained == Spec => []LeftoversExplainedOnce
<1>1. GapInv => LeftoversExplainedOnce
  BY DEF GapInv, LeftoversExplainedOnce, OncePerGap, BackfilledOnce
<1> QED
  BY <1>1, GapInvariant, PTL

(* Contradictory claims with best evidence of different owners are         *)
(* disclosed and disputed, although a page refreshes only the claims it    *)
(* states (refresh_question_relations).                                    *)
THEOREM ContradictionsDisclosed == Spec => []ContradictionDisclosed
<1>1. GapInv => ContradictionDisclosed
  BY DEF GapInv, GraphSound, Disclosed, ContradictionDisclosed
<1> QED
  BY <1>1, GapInvariant, PTL

(* A closed requirement stays closed as long as its plan is in force: the  *)
(* projection that rewrites every row closes it again                      *)
(* (GapRequirementRepository.upsert_many, project_gap_requirements).       *)
THEOREM ClosedForGood == Spec => ClosedStaysClosed
<1>1. GapInv /\ [Next]_vars => [run'.plan = run.plan => ClosedRows(rows) \subseteq ClosedRows(rows')]_vars
  BY StepKeeps, GapAssumption, GraphAssumption
<1> QED
  BY <1>1, GapInvariant, PTL DEF Spec, ClosedStaysClosed
==============================================================================
