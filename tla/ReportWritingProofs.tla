------------------------- MODULE ReportWritingProofs -------------------------
(***************************************************************************)
(* Proofs about ReportWriting for any number of executions, any evidence   *)
(* and any drafts: the follower of the events gets the log, a run is       *)
(* completed exactly with its report, a draft is used for the evidence it  *)
(* was made from, prompts fit their window and every stored report is      *)
(* verified and complete.  First what the operators compute that select    *)
(* evidence, choose a prompt and assemble a report, then the invariant.    *)
(***************************************************************************)
EXTENDS ReportWriting, FiniteSetTheorems, FunctionTheorems, SequenceTheorems,
        WellFoundedInduction, NaturalsInduction, TLAPS

-----------------------------------------------------------------------------
(* Lists made of sets.                                                     *)

(* A non-empty set of natural numbers has a least element.                 *)
LEMMA NatLeast ==
  ASSUME NEW T, T \subseteq Nat, T # {}
  PROVE  \E x \in T : \A y \in T : x <= y
<1>1. PICK x \in T : \A y \in T : ~ (<<y, x>> \in OpToRel(<, Nat))
  BY NatLessThanWellFounded, WFMin, Zenon
<1>2. \A y \in T : ~(y < x)
  BY <1>1, Zenon DEF OpToRel
<1> QED
  BY <1>2

LEMMA NatInduct ==
  ASSUME NEW T, 0 \in T, \A n \in Nat : n \in T => n + 1 \in T
  PROVE  Nat \subseteq T
<1> SUFFICES ASSUME Nat \ T # {} PROVE FALSE
  OBVIOUS
<1>1. PICK x \in Nat \ T : \A y \in Nat \ T : x <= y
  BY NatLeast
<1>2. x # 0 /\ x - 1 \in Nat /\ x - 1 \in T
  BY <1>1
<1> QED
  BY <1>2

(* A function on 1..n is a list of length n.                               *)
LEMMA FunctionIsList ==
  ASSUME NEW X, NEW n \in Nat, NEW s \in [1..n -> X]
  PROVE  s \in Seq(X) /\ Len(s) = n /\ DOMAIN s = 1..n
<1>1. s \in Seq(X) /\ DOMAIN s = 1..n
  OBVIOUS
<1>2. Len(s) \in Nat /\ DOMAIN s = 1..Len(s)
  BY <1>1, LenProperties
<1> QED
  BY <1>1, <1>2

LEMMA Interval ==
  ASSUME NEW n \in Nat
  PROVE  IsFiniteSet(1..n) /\ Cardinality(1..n) = n
<1>1. IsFiniteSet(1..n) /\ Cardinality(1..n) = IF 1 > n THEN 0 ELSE n - 1 + 1
  BY FS_Interval
<1> QED
  BY <1>1

StrictOrder(S, R) ==
  /\ \A e \in S : <<e, e>> \notin R
  /\ \A e, f \in S : e # f => <<e, f>> \in R \/ <<f, e>> \in R
  /\ \A e, f, g \in S : <<e, f>> \in R /\ <<f, g>> \in R => <<e, g>> \in R

(* Counting the elements before it gives every element its own place.      *)
LEMMA ListedAll ==
  ASSUME NEW S, IsFiniteSet(S), NEW R, StrictOrder(S, R), NEW l, l = Listed(S, R)
  PROVE  l \in Seq(S) /\ Len(l) = Cardinality(S) /\ DOMAIN l = 1..Cardinality(S) /\ Range(l) = S
<1> DEFINE n == Cardinality(S)
           Below(e) == {f \in S : <<f, e>> \in R}
           B == [e \in S |-> Cardinality(Below(e)) + 1]
<1>1. n \in Nat
  BY FS_CardinalityType
<1>2. ASSUME NEW e \in S
      PROVE  IsFiniteSet(Below(e)) /\ Cardinality(Below(e)) \in Nat /\ Cardinality(Below(e)) < n
  <2>1. IsFiniteSet(S \ {e}) /\ Cardinality(S \ {e}) = n - 1
    BY FS_RemoveElement
  <2>2. Below(e) \in SUBSET (S \ {e})
    BY DEF StrictOrder
  <2>3. IsFiniteSet(Below(e)) /\ Cardinality(Below(e)) <= Cardinality(S \ {e})
    <3> HIDE DEF Below
    <3> QED
      BY <2>1, <2>2, FS_Subset
  <2>4. Cardinality(Below(e)) \in Nat
    BY <2>3, FS_CardinalityType
  <2> HIDE DEF Below, n
  <2> QED
    BY <1>1, <2>1, <2>3, <2>4
<1>3. ASSUME NEW e \in S, NEW f \in S, <<e, f>> \in R
      PROVE  Cardinality(Below(e)) < Cardinality(Below(f))
  <2>1. e \in Below(f) /\ Below(e) \in SUBSET (Below(f) \ {e})
    BY <1>3 DEF StrictOrder
  <2>2. IsFiniteSet(Below(f)) /\ Cardinality(Below(f)) \in Nat /\ Cardinality(Below(e)) \in Nat
    BY <1>2
  <2> HIDE DEF Below
  <2>3. IsFiniteSet(Below(f) \ {e}) /\ Cardinality(Below(f) \ {e}) = Cardinality(Below(f)) - 1
    BY <2>1, <2>2, FS_RemoveElement
  <2>4. Cardinality(Below(e)) <= Cardinality(Below(f) \ {e})
    BY <2>1, <2>3, FS_Subset
  <2> QED
    BY <2>2, <2>3, <2>4
<1> HIDE DEF n, Below
<1>4. B \in [S -> 1..n]
  BY <1>1, <1>2
<1>5. ASSUME NEW e \in S, NEW f \in S, B[e] = B[f] PROVE e = f
  <2>1. Cardinality(Below(e)) \in Nat /\ Cardinality(Below(f)) \in Nat
    BY <1>2
  <2>2. Cardinality(Below(e)) = Cardinality(Below(f))
    BY <1>5, <2>1
  <2>3. ~(<<e, f>> \in R) /\ ~(<<f, e>> \in R)
    BY <1>3, <2>1, <2>2
  <2> QED
    BY <2>3 DEF StrictOrder
<1>6. B \in Injection(S, 1..n)
  BY <1>4, <1>5 DEF Injection, IsInjective
<1>7. IsFiniteSet(1..n) /\ Cardinality(1..n) = n
  BY <1>1, Interval
<1>8. B \in Surjection(S, 1..n)
  BY <1>6, <1>7, FS_Injection DEF n
<1>9. l = [k \in 1..n |-> CHOOSE e \in S : Cardinality(Below(e)) = k - 1]
  BY DEF Listed, n, Below
<1>10. ASSUME NEW k \in 1..n PROVE l[k] \in S /\ B[l[k]] = k
  <2>1. PICK e \in S : B[e] = k
    BY <1>8 DEF Surjection
  <2>2. Cardinality(Below(e)) = k - 1
    BY <1>1, <1>2, <2>1
  <2>3. l[k] = CHOOSE x \in S : Cardinality(Below(x)) = k - 1
    BY <1>9
  <2>4. l[k] \in S /\ Cardinality(Below(l[k])) = k - 1
    BY <2>2, <2>3
  <2> QED
    BY <1>1, <2>4
<1>11. l \in [1..n -> S]
  BY <1>9, <1>10
<1>12. l \in Seq(S) /\ Len(l) = n /\ DOMAIN l = 1..n
  BY <1>1, <1>11, FunctionIsList
<1>13. ASSUME NEW e \in S PROVE e \in Range(l)
  <2>1. B[e] \in 1..n
    BY <1>4
  <2>2. l[B[e]] \in S /\ B[l[B[e]]] = B[e]
    BY <1>10, <2>1
  <2>3. l[B[e]] = e
    BY <1>5, <2>2
  <2> QED
    BY <1>12, <2>1, <2>3 DEF Range
<1>14. Range(l) \subseteq S
  BY <1>10, <1>12 DEF Range
<1> QED
  BY <1>12, <1>13, <1>14 DEF n

LEMMA AscendingAll ==
  ASSUME NEW I, IsFiniteSet(I), I \subseteq Int, NEW l, l = Ascending(I)
  PROVE  l \in Seq(I) /\ Len(l) = Cardinality(I) /\ DOMAIN l = 1..Cardinality(I) /\ Range(l) = I
<1> DEFINE R == {p \in I \X I : p[1] < p[2]}
<1>1. \A e, f \in I : <<e, f>> \in R <=> e < f
  OBVIOUS
<1>2. l = Listed(I, R)
  BY DEF Ascending
<1> HIDE DEF R
<1>3. StrictOrder(I, R)
  BY <1>1 DEF StrictOrder
<1> QED
  BY <1>2, <1>3, ListedAll

(* The part of a list at some of its places.                               *)
LEMMA KeptAll ==
  ASSUME NEW X, NEW s \in Seq(X), NEW I, I \subseteq DOMAIN s, NEW k, k = Kept(s, I)
  PROVE  /\ k \in Seq(X) /\ Len(k) = Cardinality(I) /\ Cardinality(I) \in Nat
         /\ Cardinality(I) <= Len(s) /\ DOMAIN k = 1..Cardinality(I)
         /\ \A j \in DOMAIN k : \E i \in I : k[j] = s[i]
         /\ \A i \in I : \E j \in DOMAIN k : k[j] = s[i]
<1> DEFINE n == Cardinality(I)
           a == Ascending(I)
<1>1. Len(s) \in Nat /\ DOMAIN s = 1..Len(s) /\ \A i \in DOMAIN s : s[i] \in X
  BY LenProperties, ElementOfSeq
<1>2. IsFiniteSet(1..Len(s)) /\ Cardinality(1..Len(s)) = Len(s)
  BY <1>1, Interval
<1>3. I \in SUBSET (1..Len(s)) /\ I \subseteq Int
  BY <1>1
<1>4. IsFiniteSet(I) /\ n <= Len(s)
  BY <1>2, <1>3, FS_Subset
<1>5. n \in Nat
  BY <1>4, FS_CardinalityType
<1>6. DOMAIN a = 1..n /\ Range(a) = I
  BY <1>3, <1>4, AscendingAll
<1>7. k = [j \in 1..n |-> s[a[j]]]
  BY DEF Kept
<1> HIDE DEF n, a
<1>8. \A j \in 1..n : a[j] \in I
  BY <1>6 DEF Range
<1>9. k \in [1..n -> X]
  BY <1>1, <1>7, <1>8
<1>10. k \in Seq(X) /\ Len(k) = n /\ DOMAIN k = 1..n
  BY <1>5, <1>9, FunctionIsList
<1>11. \A j \in DOMAIN k : \E i \in I : k[j] = s[i]
  BY <1>7, <1>8, <1>10
<1>12. \A i \in I : \E j \in DOMAIN k : k[j] = s[i]
  <2> TAKE i \in I
  <2>1. PICK j \in 1..n : a[j] = i
    BY <1>6 DEF Range
  <2> QED
    BY <1>7, <1>10, <2>1
<1> QED
  BY <1>4, <1>5, <1>10, <1>11, <1>12 DEF n

(* A list without its repetitions has the same elements.                   *)
LEMMA DistinctAll ==
  ASSUME NEW X, NEW s \in Seq(X), NEW d, d = Distinct(s)
  PROVE  d \in Seq(X) /\ Range(d) = Range(s)
<1> DEFINE I == {i \in DOMAIN s : \A j \in 1..(i - 1) : s[j] # s[i]}
<1>1. d = Kept(s, I) /\ I \subseteq DOMAIN s
  BY DEF Distinct
<1>2. DOMAIN s = 1..Len(s) /\ Len(s) \in Nat
  BY LenProperties
<1>3. /\ d \in Seq(X)
      /\ \A j \in DOMAIN d : \E i \in I : d[j] = s[i]
      /\ \A i \in I : \E j \in DOMAIN d : d[j] = s[i]
  <2> HIDE DEF I
  <2> QED
    BY <1>1, KeptAll
<1>4. ASSUME NEW x \in DOMAIN s PROVE \E i \in I : s[i] = s[x]
  <2> DEFINE T == {i \in DOMAIN s : s[i] = s[x]}
  <2>1. T \subseteq Nat /\ T # {}
    BY <1>2
  <2>2. PICK i \in T : \A y \in T : i <= y
    <3> HIDE DEF T
    <3> QED
      BY <2>1, NatLeast
  <2>3. \A j \in 1..(i - 1) : s[j] # s[i]
    <3> SUFFICES ASSUME NEW j \in 1..(i - 1), s[j] = s[i] PROVE FALSE
      OBVIOUS
    <3>1. j \in DOMAIN s /\ j < i
      BY <1>2, <2>1, <2>2
    <3> QED
      BY <2>2, <3>1
  <2> QED
    BY <2>2, <2>3
<1> HIDE DEF I
<1>5. Range(d) \subseteq Range(s)
  BY <1>1, <1>3 DEF Range
<1>6. Range(s) \subseteq Range(d)
  BY <1>3, <1>4 DEF Range
<1> QED
  BY <1>3, <1>5, <1>6

-----------------------------------------------------------------------------
(* Functions defined by recursion on their argument, here of the form      *)
(* k[i] = G[i][k[i - 1]], exist, and what every step keeps they have.      *)
Chain(k, lo, n, b, G) == k = [i \in lo..n |-> IF i = lo THEN b ELSE G[i][k[i - 1]]]

LEMMA ChainExists ==
  ASSUME NEW lo \in Nat, NEW n \in Nat, NEW b, NEW G
  PROVE  \E k : Chain(k, lo, n, b, G)
<1> DEFINE Again(k) == [i \in lo..n |-> IF i = lo THEN b ELSE G[i][k[i - 1]]]
           Upto(k, m) == \A i \in lo..n : i <= m => k[i] = Again(k)[i]
           T == {m \in Nat : \E k : Upto(k, m)}
<1>1. ASSUME NEW k, NEW m \in Nat, Upto(k, m) PROVE Upto(Again(k), m + 1)
  <2> SUFFICES ASSUME NEW i \in lo..n, i <= m + 1 PROVE Again(k)[i] = Again(Again(k))[i]
    OBVIOUS
  <2>1. CASE i = lo
    BY <2>1
  <2>2. CASE i # lo
    <3>1. i - 1 \in lo..n /\ i - 1 <= m
      BY <2>2
    <3>2. k[i - 1] = Again(k)[i - 1]
      BY <1>1, <3>1
    <3> QED
      BY <2>2, <3>2
  <2> QED
    BY <2>1, <2>2
<1>2. 0 \in T
  <2> DEFINE k == [i \in lo..n |-> b]
  <2>1. Upto(k, 0)
    OBVIOUS
  <2> QED
    BY <2>1
<1>3. ASSUME NEW m \in Nat, m \in T PROVE m + 1 \in T
  <2>1. PICK k : Upto(k, m)
    BY <1>3
  <2>2. Upto(Again(k), m + 1)
    BY <1>1, <2>1
  <2> HIDE DEF Again, Upto
  <2> QED
    BY <2>2
<1>4. n \in T
  <2> HIDE DEF T
  <2> QED
    BY <1>2, <1>3, NatInduct
<1>5. PICK k : Upto(k, n)
  BY <1>4
<1>6. Upto(Again(k), n + 1)
  BY <1>1, <1>5
<1>7. Again(k) = Again(Again(k))
  <2>1. \A i \in lo..n : Again(k)[i] = Again(Again(k))[i]
    BY <1>6
  <2> QED
    BY <2>1
<1> QED
  BY <1>7 DEF Chain

LEMMA ChainTyped ==
  ASSUME NEW lo \in Nat, NEW n \in Nat, NEW X, NEW f, f[lo] \in X[lo],
         \A i \in lo..n : i # lo /\ f[i - 1] \in X[i - 1] => f[i] \in X[i]
  PROVE  \A i \in lo..n : f[i] \in X[i]
<1> DEFINE T == {m \in Nat : lo + m <= n => f[lo + m] \in X[lo + m]}
<1>1. 0 \in T
  OBVIOUS
<1>2. ASSUME NEW m \in Nat, m \in T PROVE m + 1 \in T
  <2> SUFFICES ASSUME lo + (m + 1) <= n PROVE f[lo + (m + 1)] \in X[lo + (m + 1)]
    OBVIOUS
  <2> DEFINE i == lo + (m + 1)
  <2>1. i \in lo..n /\ i # lo /\ i - 1 = lo + m /\ lo + m <= n
    OBVIOUS
  <2>2. f[i - 1] \in X[i - 1]
    BY <1>2, <2>1
  <2> HIDE DEF i
  <2>3. f[i] \in X[i]
    BY <2>1, <2>2
  <2> QED
    BY <2>3 DEF i
<1>3. Nat \subseteq T
  <2> HIDE DEF T
  <2> QED
    BY <1>1, <1>2, NatInduct
<1> SUFFICES ASSUME NEW i \in lo..n PROVE f[i] \in X[i]
  OBVIOUS
<1>4. i - lo \in Nat /\ lo + (i - lo) = i
  OBVIOUS
<1>5. i - lo \in T
  BY <1>3, <1>4
<1> QED
  BY <1>4, <1>5

(* A list of lists, joined, has the elements of all of them.               *)
Flattening(f, seqs) ==
  f = [i \in 1..Len(seqs) |-> IF i = 1 THEN seqs[i] ELSE f[i - 1] \o seqs[i]]

LEMMA FlattenAll ==
  ASSUME NEW X, NEW seqs \in Seq(Seq(X)), NEW s, s = FlattenSeq(seqs)
  PROVE  s \in Seq(X) /\ Range(s) = UNION {Range(seqs[i]) : i \in DOMAIN seqs}
<1> DEFINE n == Len(seqs)
           Parts(i) == {s1 \in Seq(X) : Range(s1) = UNION {Range(seqs[j]) : j \in 1..i}}
           P == [i \in 1..n |-> Parts(i)]
<1>1. n \in Nat /\ DOMAIN seqs = 1..n /\ \A i \in 1..n : seqs[i] \in Seq(X)
  BY LenProperties, ElementOfSeq
<1>2. CASE n = 0
  <2>1. seqs = <<>> /\ s = <<>>
    BY <1>2, EmptySeq DEF FlattenSeq
  <2>2. s \in Seq(X) /\ DOMAIN s = {} /\ DOMAIN seqs = {}
    <3>1. DOMAIN seqs = {}
      BY <1>1, <1>2
    <3>2. s \in Seq(X)
      BY <2>1, EmptySeq
    <3> QED
      BY <2>1, <3>1, <3>2
  <2>3. Range(s) = {}
    BY <2>2 DEF Range
  <2> QED
    BY <2>2, <2>3
<1>3. CASE n # 0
  <2>1. ASSUME NEW i \in 1..n, i # 1, NEW t \in Parts(i - 1) PROVE t \o seqs[i] \in Parts(i)
    <3>1. t \in Seq(X) /\ seqs[i] \in Seq(X) /\ Range(t) = UNION {Range(seqs[j]) : j \in 1..(i - 1)}
      BY <1>1, <2>1
    <3>2. t \o seqs[i] \in Seq(X) /\ Range(t \o seqs[i]) = Range(t) \cup Range(seqs[i])
      BY <3>1, ConcatProperties, RangeConcatenation
    <3>3. 1..i = 1..(i - 1) \cup {i}
      BY <2>1
    <3>4. UNION {Range(seqs[j]) : j \in 1..i}
            = (UNION {Range(seqs[j]) : j \in 1..(i - 1)}) \cup Range(seqs[i])
      BY <3>3
    <3> QED
      BY <3>1, <3>2, <3>4
  <2>2. seqs[1] \in Parts(1)
    <3>1. 1 \in 1..n /\ 1..1 = {1}
      BY <1>1, <1>3
    <3>2. UNION {Range(seqs[j]) : j \in 1..1} = Range(seqs[1])
      BY <3>1
    <3> QED
      BY <1>1, <3>1, <3>2
  <2> HIDE DEF Parts, n
  <2>3. \E f : Flattening(f, seqs)
    <3> DEFINE G == [i \in 1..n |-> [t \in Parts(i - 1) |-> t \o seqs[i]]]
    <3> HIDE DEF G
    <3>0. PICK k : Chain(k, 1, n, seqs[1], G)
      BY <1>1, ChainExists
    <3>1. k = [i \in 1..n |-> IF i = 1 THEN seqs[1] ELSE G[i][k[i - 1]]]
      BY <3>0 DEF Chain
    <3>2. k[1] \in P[1]
      BY <1>1, <1>3, <2>2, <3>1
    <3>3. ASSUME NEW i \in 1..n, i # 1, k[i - 1] \in P[i - 1]
          PROVE  k[i] = k[i - 1] \o seqs[i] /\ k[i] \in P[i]
      <4>1. i - 1 \in 1..n
        BY <1>1, <3>3
      <4>2. k[i - 1] \in Parts(i - 1)
        BY <3>3, <4>1
      <4>3. k[i] = G[i][k[i - 1]]
        BY <3>1, <3>3
      <4>4. G[i][k[i - 1]] = k[i - 1] \o seqs[i]
        BY <4>2 DEF G
      <4>5. k[i - 1] \o seqs[i] \in Parts(i)
        BY <2>1, <3>3, <4>2
      <4> QED
        BY <4>3, <4>4, <4>5
    <3> HIDE DEF P
    <3>4. \A i \in 1..n : k[i] \in P[i]
      BY <1>1, <3>2, <3>3, ChainTyped
    <3>5. ASSUME NEW i \in 1..n, i # 1 PROVE k[i] = k[i - 1] \o seqs[i]
      <4>1. i - 1 \in 1..n
        BY <1>1, <3>5
      <4> QED
        BY <3>3, <3>4, <3>5, <4>1
    <3>6. k = [i \in 1..n |-> IF i = 1 THEN seqs[i] ELSE k[i - 1] \o seqs[i]]
      BY <3>1, <3>5
    <3> QED
      BY <3>6 DEF Flattening, n
  <2> DEFINE f == CHOOSE g : Flattening(g, seqs)
  <2>4. Flattening(f, seqs)
    BY <2>3
  <2>5. s = f[n]
    BY <1>3 DEF FlattenSeq, Flattening, n
  <2> HIDE DEF f
  <2>6. f = [i \in 1..n |-> IF i = 1 THEN seqs[i] ELSE f[i - 1] \o seqs[i]]
    BY <2>4 DEF Flattening, n
  <2>7. f[1] \in P[1]
    BY <1>1, <1>3, <2>2, <2>6
  <2>8. ASSUME NEW i \in 1..n, i # 1, f[i - 1] \in P[i - 1] PROVE f[i] \in P[i]
    <3>1. i - 1 \in 1..n
      BY <1>1, <2>8
    <3>2. f[i - 1] \in Parts(i - 1)
      BY <2>8, <3>1
    <3>3. f[i] = f[i - 1] \o seqs[i]
      BY <2>6, <2>8
    <3> QED
      BY <2>1, <2>8, <3>2, <3>3
  <2>9. f[n] \in P[n]
    <3> HIDE DEF P
    <3>1. \A i \in 1..n : f[i] \in P[i]
      BY <1>1, <2>7, <2>8, ChainTyped
    <3> QED
      BY <1>1, <1>3, <3>1
  <2>10. s \in Parts(n)
    BY <1>1, <1>3, <2>5, <2>9
  <2> QED
    BY <1>1, <2>10 DEF Parts
<1> QED
  BY <1>2, <1>3

-----------------------------------------------------------------------------
(* Selection and assembly.                                                 *)

LEMMA ByScoreAll ==
  ASSUME NEW S, S \subseteq DOMAIN Card, NEW l, l = ByScore(S)
  PROVE  /\ l \in Seq(S) /\ Range(l) = S /\ Len(l) \in Nat /\ DOMAIN l = 1..Len(l)
         /\ S # {} => l # <<>> /\ l[1] \in S
<1> DEFINE R == {p \in S \X S : Before(p[1], p[2])}
<1>1. \A e, f \in S : <<e, f>> \in R <=> Before(e, f)
  OBVIOUS
<1>2. l = Listed(S, R)
  BY DEF ByScore
<1> HIDE DEF R
<1>3. \A e \in S : Card[e].score \in Nat /\ Card[e].row \in Nat
  BY AssemblyConstants
<1>4. \A e, f \in S : e # f => Card[e].row # Card[f].row
  BY AssemblyConstants
<1>5. StrictOrder(S, R)
  <2>1. \A e \in S : <<e, e>> \notin R
    BY <1>1, <1>3 DEF Before
  <2>2. \A e, f \in S : e # f => <<e, f>> \in R \/ <<f, e>> \in R
    BY <1>1, <1>3, <1>4 DEF Before
  <2>3. \A e, f, g \in S : <<e, f>> \in R /\ <<f, g>> \in R => <<e, g>> \in R
    BY <1>1, <1>3 DEF Before
  <2> QED
    BY <2>1, <2>2, <2>3 DEF StrictOrder
<1>6. IsFiniteSet(S)
  BY FS_Subset, AssemblyConstants
<1>7. l \in Seq(S) /\ Range(l) = S
  BY <1>2, <1>5, <1>6, ListedAll
<1>8. Len(l) \in Nat /\ DOMAIN l = 1..Len(l)
  BY <1>7, LenProperties
<1>9. ASSUME S # {} PROVE l # <<>> /\ l[1] \in S
  <2>1. PICK e \in S : TRUE
    BY <1>9
  <2>2. PICK i \in DOMAIN l : l[i] = e
    BY <1>7, <2>1 DEF Range
  <2>3. 1 \in DOMAIN l
    BY <1>8, <2>2
  <2>4. l[1] \in S
    BY <1>7, <2>3 DEF Range
  <2> QED
    BY <2>3, <2>4
<1> QED
  BY <1>7, <1>8, <1>9

Covers(selected, S) ==
  \A e \in S : \E i \in DOMAIN selected : Card[selected[i]].question = Card[e].question

(* Every question with evidence has a card, and no more than the writer    *)
(* takes are selected.                                                     *)
LEMMA SelectSound ==
  ASSUME NEW S, S \subseteq DOMAIN Card, NEW sel, sel = SelectWriterEvidence(S)
  PROVE  sel \in Seq(S) /\ Len(sel) <= MaxWriterEvidence /\ Covers(sel, S)
<1> DEFINE I == {i \in DOMAIN Questions : CardsOf(S, Questions[i]) # {}}
           asked == Kept(Questions, I)
           first == [i \in DOMAIN asked |-> ByScore(CardsOf(S, asked[i]))[1]]
           rest == ByScore(S \ Range(first))
           all == first \o rest
           m == IF Len(all) < MaxWriterEvidence THEN Len(all) ELSE MaxWriterEvidence
<1>0. sel = SubSeq(all, 1, m)
  BY DEF SelectWriterEvidence
<1>1. /\ MaxWriterEvidence \in Nat /\ Questions \in Seq(STRING) /\ Len(Questions) \in Nat
      /\ Len(Questions) <= MaxWriterEvidence /\ I \subseteq DOMAIN Questions
  BY AssemblyConstants, LenProperties
<1>2. \A i \in I : CardsOf(S, Questions[i]) # {}
  OBVIOUS
<1>3. \A e \in S : \E i \in I : Questions[i] = Card[e].question
  <2> TAKE e \in S
  <2>1. Card[e].question \in Range(Questions)
    BY AssemblyConstants
  <2>2. PICK i \in DOMAIN Questions : Questions[i] = Card[e].question
    BY <2>1 DEF Range
  <2>3. e \in CardsOf(S, Questions[i])
    BY <2>2 DEF CardsOf
  <2> QED
    BY <2>2, <2>3
<1> HIDE DEF I
<1> DEFINE n == Cardinality(I)
<1>4. /\ n \in Nat /\ n <= Len(Questions) /\ DOMAIN asked = 1..n
      /\ \A j \in DOMAIN asked : \E i \in I : asked[j] = Questions[i]
      /\ \A i \in I : \E j \in DOMAIN asked : asked[j] = Questions[i]
  BY <1>1, KeptAll
<1> HIDE DEF asked, n
<1>5. ASSUME NEW j \in 1..n PROVE first[j] \in CardsOf(S, asked[j])
  <2> DEFINE C == CardsOf(S, asked[j])
  <2>1. C # {} /\ C \subseteq DOMAIN Card
    BY <1>2, <1>4 DEF CardsOf
  <2> HIDE DEF C
  <2>2. ByScore(C)[1] \in C
    BY <2>1, ByScoreAll
  <2>3. first[j] = ByScore(C)[1]
    BY <1>4 DEF C
  <2> QED
    BY <2>2, <2>3 DEF C
<1>6. first \in [1..n -> S] /\ \A j \in 1..n : Card[first[j]].question = asked[j]
  <2>1. DOMAIN first = 1..n
    BY <1>4
  <2> HIDE DEF first
  <2>2. \A j \in 1..n : first[j] \in S /\ Card[first[j]].question = asked[j]
    BY <1>5 DEF CardsOf
  <2>3. first = [j \in DOMAIN first |-> first[j]]
    BY DEF first
  <2> QED
    BY <2>1, <2>2, <2>3
<1> HIDE DEF first
<1>7. first \in Seq(S) /\ Len(first) = n
  BY <1>4, <1>6, FunctionIsList
<1>8. rest \in Seq(S)
  <2>1. S \ Range(first) \subseteq DOMAIN Card
    OBVIOUS
  <2>2. rest \in Seq(S \ Range(first))
    BY <2>1, ByScoreAll
  <2> QED
    BY <2>2, SeqMonotonic
<1> HIDE DEF rest
<1>9. /\ all \in Seq(S) /\ Len(rest) \in Nat /\ Len(all) = n + Len(rest)
      /\ \A j \in 1..n : all[j] = first[j]
  <2>1. /\ all \in Seq(S) /\ Len(all) = Len(first) + Len(rest)
        /\ \A j \in 1..(Len(first) + Len(rest)) :
              all[j] = IF j <= Len(first) THEN first[j] ELSE rest[j - Len(first)]
    BY <1>7, <1>8, ConcatProperties
  <2>2. Len(rest) \in Nat
    BY <1>8, LenProperties
  <2> HIDE DEF all
  <2>3. \A j \in 1..n : j \in 1..(Len(first) + Len(rest)) /\ j <= Len(first)
    BY <1>4, <1>7, <2>2
  <2> QED
    BY <1>7, <2>1, <2>2, <2>3
<1> HIDE DEF all
<1>10. m \in Nat /\ n <= m /\ m <= Len(all) /\ m <= MaxWriterEvidence
  BY <1>1, <1>4, <1>9
<1> HIDE DEF m
<1>11. sel \in Seq(S) /\ Len(sel) = m /\ \A j \in 1..m : sel[j] = all[j]
  BY <1>0, <1>9, <1>10, SubSeqProperties
<1>12. DOMAIN sel = 1..m
  BY <1>11, LenProperties
<1>13. ASSUME NEW e \in S PROVE \E i \in DOMAIN sel : Card[sel[i]].question = Card[e].question
  <2>1. PICK i \in I : Questions[i] = Card[e].question
    BY <1>3
  <2>2. PICK j \in DOMAIN asked : asked[j] = Questions[i]
    BY <1>4
  <2>3. j \in 1..n /\ j \in 1..m
    BY <1>4, <1>10, <2>2
  <2>4. sel[j] = first[j]
    BY <1>9, <1>11, <2>3
  <2> QED
    BY <1>6, <1>12, <2>1, <2>2, <2>3, <2>4
<1> QED
  BY <1>10, <1>11, <1>13 DEF Covers

(* The lines of a report cite at least one card, and only selected ones;   *)
(* the numbers the model wrote itself are gone.                            *)
Lines(selected) == {l \in [cards : Seq(Range(selected)), own : {{}}] : l.cards # <<>>}

LEMMA CitedSound ==
  ASSUME NEW X, NEW selected \in Seq(X), NEW par \in Paragraph
  PROVE  /\ CitedCards(par, selected) \in Seq(Range(selected))
         /\ (\E i \in DOMAIN par.ids : par.ids[i] \in Range(selected))
               => CitedCards(par, selected) # <<>>
<1> DEFINE I == {i \in DOMAIN par.ids : par.ids[i] \in Range(selected)}
           k == Kept(par.ids, I)
<1>1. par.ids \in Seq(STRING) /\ I \subseteq DOMAIN par.ids
  BY DEF Paragraph
<1>2. \A i \in I : par.ids[i] \in Range(selected)
  OBVIOUS
<1>3. CitedCards(par, selected) = Distinct(k)
  BY DEF CitedCards
<1>4. (\E i \in DOMAIN par.ids : par.ids[i] \in Range(selected)) => I # {}
  OBVIOUS
<1> HIDE DEF I
<1>5. /\ k \in Seq(STRING) /\ Len(k) \in Nat /\ DOMAIN k = 1..Len(k)
      /\ \A j \in DOMAIN k : \E i \in I : k[j] = par.ids[i]
      /\ \A i \in I : \E j \in DOMAIN k : k[j] = par.ids[i]
  BY <1>1, KeptAll
<1> HIDE DEF k
<1>6. \A j \in DOMAIN k : k[j] \in Range(selected)
  BY <1>2, <1>5
<1>7. k \in Seq(Range(selected))
  <2>1. k \in [1..Len(k) -> Range(selected)]
    BY <1>5, <1>6
  <2> QED
    BY <1>5, <2>1, FunctionIsList
<1>8. Distinct(k) \in Seq(Range(selected)) /\ Range(Distinct(k)) = Range(k)
  BY <1>7, DistinctAll
<1>9. I # {} => Distinct(k) # <<>>
  <2> SUFFICES ASSUME I # {}, Distinct(k) = <<>> PROVE FALSE
    OBVIOUS
  <2>1. Range(Distinct(k)) = {}
    BY DEF Range
  <2>2. \E j \in DOMAIN k : TRUE
    BY <1>5
  <2> QED
    BY <1>8, <2>1, <2>2 DEF Range
<1> QED
  BY <1>3, <1>4, <1>8, <1>9

LEMMA RenderSound ==
  ASSUME NEW X, NEW selected \in Seq(X), NEW pars \in Seq(Paragraph), NEW r,
         r = RenderMany(pars, selected)
  PROVE  /\ r \in Seq(Lines(selected))
         /\ (\E i \in DOMAIN pars : Renders(pars[i], selected)) => r # <<>>
<1> DEFINE I == {i \in DOMAIN pars : Renders(pars[i], selected)}
           k == Kept(pars, I)
<1>1. r = [j \in DOMAIN k |-> Rendered(k[j], selected)]
  BY DEF RenderMany
<1>2. I \subseteq DOMAIN pars /\ \A i \in I : Renders(pars[i], selected)
  OBVIOUS
<1>3. (\E i \in DOMAIN pars : Renders(pars[i], selected)) => I # {}
  OBVIOUS
<1> HIDE DEF I
<1>4. /\ k \in Seq(Paragraph) /\ Len(k) \in Nat /\ DOMAIN k = 1..Len(k)
      /\ \A j \in DOMAIN k : \E i \in I : k[j] = pars[i]
      /\ \A i \in I : \E j \in DOMAIN k : k[j] = pars[i]
  BY <1>2, KeptAll
<1> HIDE DEF k
<1>5. ASSUME NEW j \in DOMAIN k PROVE Rendered(k[j], selected) \in Lines(selected)
  <2>1. k[j] \in Paragraph /\ Renders(k[j], selected)
    BY <1>2, <1>4, ElementOfSeq
  <2>2. CitedCards(k[j], selected) \in Seq(Range(selected)) /\ CitedCards(k[j], selected) # <<>>
    BY <2>1, CitedSound DEF Renders
  <2> QED
    BY <2>2 DEF Rendered, CleanParagraph, Lines
<1>6. r \in [1..Len(k) -> Lines(selected)]
  BY <1>1, <1>4, <1>5
<1>7. r \in Seq(Lines(selected)) /\ DOMAIN r = 1..Len(k)
  BY <1>4, <1>6, FunctionIsList
<1>8. ASSUME I # {}, r = <<>> PROVE FALSE
  <2>1. DOMAIN r = {}
    BY <1>8
  <2> QED
    BY <1>4, <1>7, <1>8, <2>1
<1> QED
  BY <1>3, <1>7, <1>8

(* A template of selected cards is never empty.                            *)
LEMMA CardLinesSound ==
  ASSUME NEW selected \in Seq(DOMAIN Card), NEW cards \in Seq(Range(selected)),
         NEW r, r = CardLines(cards, selected)
  PROVE  r \in Seq(Lines(selected)) /\ (cards # <<>> => r # <<>>)
<1> DEFINE m == IF Len(cards) < 3 THEN Len(cards) ELSE 3
           P(i) == [ids |-> <<cards[i]>>, text |-> TRUE, own |-> {}]
           pars == [i \in 1..m |-> P(i)]
<1>0. Range(selected) \subseteq STRING
  <2>1. Range(selected) \subseteq DOMAIN Card
    BY RangeOfSeq
  <2> QED
    BY <2>1, AssemblyConstants
<1>1. /\ Len(cards) \in Nat /\ m \in Nat /\ m <= Len(cards) /\ (cards # <<>> => 1 \in 1..m)
      /\ \A i \in 1..Len(cards) : cards[i] \in Range(selected)
  BY LenProperties, ElementOfSeq, EmptySeq
<1> HIDE DEF m
<1>2. ASSUME NEW i \in 1..m PROVE P(i) \in Paragraph /\ Renders(P(i), selected)
  <2>0. i \in 1..Len(cards)
    BY <1>1
  <2>1. cards[i] \in Range(selected)
    BY <1>1, <2>0
  <2>2. <<cards[i]>> \in Seq(STRING)
    BY <1>0, <2>1
  <2>3. P(i) \in Paragraph
    BY <2>2 DEF Paragraph
  <2>4. P(i).ids = <<cards[i]>> /\ P(i).text
    OBVIOUS
  <2> HIDE DEF P
  <2>5. \E j \in DOMAIN P(i).ids : P(i).ids[j] \in Range(selected)
    BY <2>1, <2>4
  <2>6. CitedCards(P(i), selected) # <<>>
    BY <2>3, <2>5, CitedSound
  <2> QED
    BY <2>3, <2>4, <2>6 DEF Renders
<1> HIDE DEF P
<1>3. pars \in [1..m -> Paragraph]
  BY <1>2
<1>4. r = RenderMany(pars, selected)
  BY DEF CardLines, P, m
<1>5. \A i \in 1..m : Renders(pars[i], selected)
  BY <1>2
<1> HIDE DEF pars
<1>6. pars \in Seq(Paragraph) /\ DOMAIN pars = 1..m
  BY <1>1, <1>3, FunctionIsList
<1>7. r \in Seq(Lines(selected))
  BY <1>4, <1>6, RenderSound
<1>8. ASSUME cards # <<>> PROVE r # <<>>
  <2>1. \E i \in DOMAIN pars : Renders(pars[i], selected)
    BY <1>1, <1>5, <1>6, <1>8
  <2> QED
    BY <1>4, <1>6, <2>1, RenderSound
<1> QED
  BY <1>7, <1>8

(* A non-empty finite set of numbers has a greatest.                       *)
LEMMA MaxOf ==
  ASSUME NEW S, IsFiniteSet(S), S \subseteq Int, S # {}
  PROVE  Max(S) \in S /\ \A y \in S : Max(S) >= y
<1>1. \E x \in S : \A y \in S : x >= y
  <2> DEFINE T == {k \in Nat : \E A \in SUBSET S : IsFiniteSet(A) /\ Cardinality(A) = k /\ A # {}
                                    /\ ~ \E x \in A : \A y \in A : x >= y}
  <2>1. CASE T = {}
    <3>1. Cardinality(S) \in Nat /\ Cardinality(S) \notin T
      BY <2>1, FS_CardinalityType
    <3> QED
      BY <3>1
  <2>2. CASE T # {}
    <3>1. PICK k \in T : \A j \in T : k <= j
      <4>1. T \subseteq Nat
        OBVIOUS
      <4> HIDE DEF T
      <4> QED
        BY <2>2, <4>1, NatLeast
    <3>2. PICK A \in SUBSET S : IsFiniteSet(A) /\ Cardinality(A) = k /\ A # {}
                                    /\ ~ \E x \in A : \A y \in A : x >= y
      BY <3>1
    <3>3. PICK a \in A : TRUE
      BY <3>2
    <3> DEFINE B == A \ {a}
    <3>4. IsFiniteSet(B) /\ Cardinality(B) = k - 1 /\ B \in SUBSET S /\ k \in Nat
      BY <3>1, <3>2, <3>3, FS_RemoveElement
    <3>5. CASE B = {}
      BY <3>2, <3>3, <3>5
    <3>6. CASE B # {}
      <4>1. k - 1 \in Nat
        BY <3>2, <3>3, <3>4, FS_CardinalityType
      <4>2. k - 1 \notin T
        BY <3>1, <4>1
      <4>3. \E x \in B : \A y \in B : x >= y
        <5> HIDE DEF B
        <5> QED
          BY <3>4, <3>6, <4>1, <4>2
      <4>4. PICK x \in B : \A y \in B : x >= y
        BY <4>3
      <4>5. x \in Int /\ a \in Int /\ \A y \in A : y \in Int
        BY <3>3, <4>4
      <4>6. CASE a >= x
        BY <3>2, <3>3, <4>4, <4>5, <4>6
      <4>7. CASE x >= a
        BY <3>2, <3>3, <4>4, <4>5, <4>7
      <4> QED
        BY <4>5, <4>6, <4>7
    <3> QED
      BY <3>5, <3>6
  <2> QED
    BY <2>1, <2>2
<1> QED
  BY <1>1 DEF Max

(* The paragraphs a draft has for a question.                              *)
LEMMA DraftedSound ==
  ASSUME NEW draft \in Draft, NEW q
  PROVE  DraftedFor(draft, q) \in Seq(Paragraph)
<1> DEFINE own == {i \in DOMAIN draft.sections : draft.sections[i].question = q}
           Section == [question : STRING, paragraphs : Seq(Paragraph)]
<1>1. draft.sections \in Seq(Section)
  BY DEF Draft
<1>2. DraftedFor(draft, q) = IF own = {} THEN <<>> ELSE draft.sections[Max(own)].paragraphs
  BY DEF DraftedFor
<1>3. Len(draft.sections) \in Nat /\ DOMAIN draft.sections = 1..Len(draft.sections)
  BY <1>1, LenProperties
<1>4. IsFiniteSet(own) /\ own \subseteq Int
  <2>1. IsFiniteSet(1..Len(draft.sections)) /\ own \subseteq 1..Len(draft.sections)
    BY <1>3, Interval
  <2> QED
    BY <2>1, FS_Subset
<1>5. own \subseteq DOMAIN draft.sections
  OBVIOUS
<1> HIDE DEF own
<1>6. CASE own = {}
  BY <1>2, <1>6, EmptySeq
<1>7. CASE own # {}
  <2>1. Max(own) \in own
    BY <1>4, <1>7, MaxOf
  <2>2. draft.sections[Max(own)] \in Section
    <3> HIDE DEF Section
    <3> QED
      BY <1>1, <1>3, <1>5, <2>1, ElementOfSeq
  <2> QED
    BY <1>2, <1>7, <2>2
<1> QED
  BY <1>6, <1>7

LEMMA SummarySound ==
  ASSUME NEW draft \in Draft, NEW selected \in Seq(DOMAIN Card), selected # <<>>,
         NEW r, r = SummaryLines(draft, selected)
  PROVE  r \in Seq(Lines(selected)) /\ r # <<>>
<1> DEFINE d == RenderMany(draft.summary, selected)
           cards == ByScore(Range(selected))
           t == CardLines(cards, selected)
<1>1. r = IF d = <<>> THEN t ELSE d
  BY DEF SummaryLines, OrElse
<1>2. d \in Seq(Lines(selected))
  <2>1. draft.summary \in Seq(Paragraph)
    BY DEF Draft
  <2> QED
    BY <2>1, RenderSound
<1>3. Range(selected) \subseteq DOMAIN Card /\ Range(selected) # {}
  <2>1. Range(selected) \subseteq DOMAIN Card
    BY RangeOfSeq
  <2>2. Len(selected) \in Nat /\ Len(selected) # 0 /\ DOMAIN selected = 1..Len(selected)
    BY LenProperties, EmptySeq
  <2>3. 1 \in DOMAIN selected
    BY <2>2
  <2> QED
    BY <2>1, <2>3 DEF Range
<1>4. cards \in Seq(Range(selected)) /\ cards # <<>>
  BY <1>3, ByScoreAll
<1> HIDE DEF cards
<1>5. t \in Seq(Lines(selected)) /\ t # <<>>
  BY <1>4, CardLinesSound
<1> QED
  BY <1>1, <1>2, <1>5

(* A question that has a selected card has a section.                      *)
LEMMA SectionSound ==
  ASSUME NEW draft \in Draft, NEW selected \in Seq(DOMAIN Card), NEW q,
         NEW r, r = SectionLines(draft, selected, q)
  PROVE  /\ r \in Seq(Lines(selected))
         /\ (\E i \in DOMAIN selected : Card[selected[i]].question = q) => r # <<>>
<1> DEFINE d == RenderMany(DraftedFor(draft, q), selected)
           I == {i \in DOMAIN selected : Card[selected[i]].question = q}
           cards == Kept(selected, I)
           t == CardLines(cards, selected)
<1>1. r = IF d = <<>> THEN t ELSE d
  BY DEF SectionLines, OrElse
<1>2. d \in Seq(Lines(selected))
  BY DraftedSound, RenderSound
<1>3. I \subseteq DOMAIN selected
  OBVIOUS
<1>4. (\E i \in DOMAIN selected : Card[selected[i]].question = q) => I # {}
  OBVIOUS
<1> HIDE DEF I, d
<1>5. selected \in Seq(Range(selected))
  BY SeqOfRange
<1>6. /\ cards \in Seq(Range(selected)) /\ Len(cards) \in Nat /\ DOMAIN cards = 1..Len(cards)
      /\ \A i \in I : \E j \in DOMAIN cards : cards[j] = selected[i]
  BY <1>3, <1>5, KeptAll
<1> HIDE DEF cards
<1>7. ASSUME I # {} PROVE cards # <<>>
  <2>1. PICK i \in I : TRUE
    BY <1>7
  <2>2. PICK j \in DOMAIN cards : cards[j] = selected[i]
    BY <1>6
  <2> QED
    BY <2>2
<1>8. t \in Seq(Lines(selected)) /\ (cards # <<>> => t # <<>>)
  BY <1>6, CardLinesSound
<1> HIDE DEF t
<1> QED
  BY <1>1, <1>2, <1>4, <1>7, <1>8

(* Whatever the draft, the report cites selected cards only, passes its    *)
(* verification and has a section for every question with a card.          *)
AssembledWell(report, selected) ==
  /\ report.verified /\ Range(report.citations) \subseteq Range(selected)
  /\ \A i \in DOMAIN selected : Card[selected[i]].question \in report.sections

LEMMA AssembleSound ==
  ASSUME NEW draft \in Draft, NEW selected \in Seq(DOMAIN Card), selected # <<>>
  PROVE  AssembledWell(AssembleReport(draft, selected), selected)
<1> DEFINE section(q) == SectionLines(draft, selected, q)
           parts == [i \in DOMAIN Questions |-> section(Questions[i])]
           tail == FlattenSeq(parts)
           head == SummaryLines(draft, selected)
           lines == head \o tail
           cited == [i \in DOMAIN lines |-> lines[i].cards]
           joined == FlattenSeq(cited)
           registry == Distinct(joined)
           L == Lines(selected)
<1>1. AssembleReport(draft, selected)
        = [citations |-> registry, sections  |-> {q \in Range(Questions) : section(q) # <<>>},
           verified  |-> CitationIntegrity(lines, registry)]
  BY DEF AssembleReport
<1>2. head \in Seq(L) /\ head # <<>>
  BY SummarySound
<1>3. parts \in Seq(Seq(L))
  <2>1. Len(Questions) \in Nat /\ DOMAIN Questions = 1..Len(Questions)
    BY AssemblyConstants, LenProperties
  <2>2. \A q : section(q) \in Seq(L)
    BY SectionSound
  <2> HIDE DEF section
  <2>3. parts \in [1..Len(Questions) -> Seq(L)]
    BY <2>1, <2>2
  <2> HIDE DEF parts
  <2> QED
    BY <2>1, <2>3, FunctionIsList
<1>4. \A i \in DOMAIN selected :
        Card[selected[i]].question \in {q \in Range(Questions) : section(q) # <<>>}
  <2> TAKE i \in DOMAIN selected
  <2>1. section(Card[selected[i]].question) # <<>>
    BY SectionSound
  <2>2. selected[i] \in DOMAIN Card
    BY ElementOfSeq, LenProperties
  <2>3. Card[selected[i]].question \in Range(Questions)
    BY <2>2, AssemblyConstants
  <2> QED
    BY <2>1, <2>3
<1> HIDE DEF parts, head, section
<1>5. tail \in Seq(L)
  BY <1>3, FlattenAll
<1> HIDE DEF tail
<1>6. lines \in Seq(L) /\ lines # <<>> /\ Len(lines) \in Nat /\ DOMAIN lines = 1..Len(lines)
  <2>1. lines \in Seq(L) /\ Len(lines) = Len(head) + Len(tail)
    BY <1>2, <1>5, ConcatProperties
  <2>2. Len(head) \in Nat /\ Len(tail) \in Nat /\ Len(head) # 0
    BY <1>2, <1>5, LenProperties, EmptySeq
  <2> HIDE DEF lines
  <2>3. Len(lines) # 0 /\ lines # <<>>
    BY <2>1, <2>2, EmptySeq
  <2> QED
    BY <2>1, <2>3, LenProperties
<1> HIDE DEF lines
<1>7. \A i \in DOMAIN lines : lines[i] \in L
  <2> HIDE DEF L
  <2> QED
    BY <1>6, ElementOfSeq
<1>8. \A i \in DOMAIN lines : /\ lines[i].cards \in Seq(Range(selected))
                              /\ lines[i].cards # <<>> /\ lines[i].own = {}
  BY <1>7 DEF Lines
<1>9. cited \in [1..Len(lines) -> Seq(Range(selected))]
  BY <1>6, <1>8
<1>10. \A i \in DOMAIN lines : cited[i] = lines[i].cards
  OBVIOUS
<1> HIDE DEF cited
<1>11. cited \in Seq(Seq(Range(selected))) /\ DOMAIN cited = DOMAIN lines
  BY <1>6, <1>9, FunctionIsList
<1>12. joined \in Seq(Range(selected)) /\ Range(joined) = UNION {Range(cited[i]) : i \in DOMAIN cited}
  BY <1>11, FlattenAll
<1> HIDE DEF joined
<1>13. registry \in Seq(Range(selected)) /\ Range(registry) = Range(joined)
  BY <1>12, DistinctAll
<1> HIDE DEF registry
<1>14. Range(registry) \subseteq Range(selected)
  BY <1>13, RangeOfSeq
<1>15. ASSUME NEW i \in DOMAIN lines, NEW m, m = Markers(lines[i], registry)
       PROVE  m # {} /\ m \subseteq DOMAIN registry
  <2>1. m = {k \in DOMAIN registry : registry[k] \in Range(lines[i].cards)}
    BY <1>8, <1>15 DEF Markers
  <2>2. 1 \in DOMAIN lines[i].cards
    <3>1. Len(lines[i].cards) \in Nat /\ Len(lines[i].cards) # 0
          /\ DOMAIN lines[i].cards = 1..Len(lines[i].cards)
      BY <1>8, LenProperties, EmptySeq
    <3> QED
      BY <3>1
  <2>3. lines[i].cards[1] \in Range(lines[i].cards)
    BY <2>2 DEF Range
  <2>4. lines[i].cards[1] \in Range(registry)
    BY <1>10, <1>11, <1>12, <1>13, <2>3
  <2>5. PICK k \in DOMAIN registry : registry[k] = lines[i].cards[1]
    BY <2>4 DEF Range
  <2> QED
    BY <2>1, <2>3, <2>5
<1>16. CitationIntegrity(lines, registry)
  BY <1>6, <1>15 DEF CitationIntegrity
<1> QED
  BY <1>1, <1>4, <1>14, <1>16 DEF AssembledWell

-----------------------------------------------------------------------------
(* The prompt.                                                             *)

LEMMA ImageFinite ==
  ASSUME NEW S, IsFiniteSet(S), NEW f, DOMAIN f = S
  PROVE  IsFiniteSet({f[x] : x \in S})
<1> DEFINE T == {f[x] : x \in S}
           g == [x \in S |-> f[x]]
<1>1. g \in Surjection(S, T)
  BY DEF Surjection
<1> HIDE DEF T, g
<1>2. IsFiniteSet(T)
  BY <1>1, FS_Surjection
<1> QED
  BY <1>2 DEF T

LEMMA GreatestBy ==
  ASSUME NEW S, IsFiniteSet(S), S # {}, NEW f \in [S -> Int]
  PROVE  \E x \in S : \A y \in S : f[x] >= f[y]
<1> DEFINE T == {f[x] : x \in S}
<1>1. IsFiniteSet(T) /\ T \subseteq Int /\ T # {}
  BY ImageFinite
<1>2. \A x \in S : f[x] \in T
  OBVIOUS
<1>3. \A t \in T : \E x \in S : f[x] = t
  OBVIOUS
<1> HIDE DEF T
<1>4. Max(T) \in T /\ \A y \in T : Max(T) >= y
  BY <1>1, MaxOf
<1> QED
  BY <1>2, <1>3, <1>4

(* What a selection needs of its candidates.                               *)
Measured(cands) ==
  /\ Len(cands) \in Nat /\ DOMAIN cands = 1..Len(cands)
  /\ \A i \in DOMAIN cands :
       cands[i].tokens \in Nat /\ cands[i].rank \in Int /\ IsFiniteSet(cands[i].features)

LEMMA SimilarityType ==
  ASSUME NEW a, NEW b, IsFiniteSet(a.features), IsFiniteSet(b.features)
  PROVE  Similarity(a, b) \in Int
<1> DEFINE A == a.features
           B == b.features
<1>1. Cardinality(A \cap B) \in Nat
  <2>1. IsFiniteSet(A \cap B)
    BY FS_Intersection
  <2> QED
    BY <2>1, FS_CardinalityType
<1>2. ASSUME A # {} PROVE Cardinality(A \cup B) \in Nat \ {0}
  <2>1. IsFiniteSet(A \cup B)
    BY FS_Union
  <2>2. Cardinality(A \cup B) \in Nat
    BY <2>1, FS_CardinalityType
  <2>3. A \cup B # {}
    BY <1>2
  <2>4. Cardinality(A \cup B) # 0
    BY <2>1, <2>3, FS_EmptySet
  <2> QED
    BY <2>2, <2>4
<1>3. CASE A = {} \/ B = {}
  BY <1>3 DEF Similarity
<1>4. CASE A # {} /\ B # {}
  <2> DEFINE c == Cardinality(A \cap B)
             u == Cardinality(A \cup B)
  <2>1. Similarity(a, b) = (100 * c) \div u
    BY <1>4 DEF Similarity
  <2>2. c \in Nat /\ u \in Nat /\ u > 0
    BY <1>1, <1>2, <1>4
  <2> HIDE DEF c, u
  <2> QED
    BY <2>1, <2>2
<1> QED
  BY <1>3, <1>4

LEMMA NearestType ==
  ASSUME NEW cands, Measured(cands), NEW i \in DOMAIN cands, NEW chosen \in Seq(DOMAIN cands)
  PROVE  Nearest(cands, i, chosen) \in Int
<1> DEFINE J == Range(chosen)
           f == [j \in J |-> Similarity(cands[i], cands[j])]
           S == {f[j] : j \in J}
<1>1. J \subseteq DOMAIN cands
  BY RangeOfSeq
<1>2. IsFiniteSet(J)
  <2>1. IsFiniteSet(DOMAIN cands)
    BY Interval DEF Measured
  <2> QED
    BY <1>1, <2>1, FS_Subset
<1>3. \A j \in J : f[j] \in Int
  BY <1>1, SimilarityType DEF Measured
<1>4. Nearest(cands, i, chosen) = Max({0} \cup S)
  <2>1. S = {Similarity(cands[i], cands[j]) : j \in J}
    OBVIOUS
  <2> QED
    BY <2>1 DEF Nearest
<1>5. DOMAIN f = J
  OBVIOUS
<1> HIDE DEF f, J
<1>6. IsFiniteSet(S) /\ S \subseteq Int
  BY <1>2, <1>3, <1>5, ImageFinite
<1> HIDE DEF S
<1>7. IsFiniteSet({0} \cup S) /\ {0} \cup S \subseteq Int
  <2>1. IsFiniteSet({0})
    BY FS_Singleton
  <2>2. IsFiniteSet({0} \cup S)
    BY <1>6, <2>1, FS_Union
  <2> QED
    BY <1>6, <2>2
<1>8. Max({0} \cup S) \in {0} \cup S
  BY <1>7, MaxOf
<1> QED
  BY <1>4, <1>7, <1>8

(* The candidate of the greatest score is one of those that are left.      *)
LEMMA BestIsEligible ==
  ASSUME NEW cands, Measured(cands), NEW policy, policy.lambda \in Int,
         NEW eligible, eligible \subseteq DOMAIN cands, eligible # {},
         NEW chosen \in Seq(DOMAIN cands)
  PROVE  BestCandidate(cands, policy, eligible, chosen) \in eligible
<1> DEFINE mmr == [i \in eligible |-> MmrScore(cands, policy, i, chosen)]
           E1 == {i \in eligible : \A j \in eligible : mmr[i] >= mmr[j]}
           rank == [i \in E1 |-> cands[i].rank]
           E2 == {i \in E1 : \A j \in E1 : rank[i] >= rank[j]}
<1>1. IsFiniteSet(eligible) /\ eligible \subseteq Nat
  <2>1. IsFiniteSet(DOMAIN cands) /\ DOMAIN cands \subseteq Nat
    BY Interval DEF Measured
  <2> QED
    BY <2>1, FS_Subset
<1>2. mmr \in [eligible -> Int]
  <2>1. ASSUME NEW i \in eligible PROVE MmrScore(cands, policy, i, chosen) \in Int
    <3>1. Nearest(cands, i, chosen) \in Int /\ cands[i].rank \in Int
      BY NearestType DEF Measured
    <3> DEFINE k == Nearest(cands, i, chosen)
    <3> HIDE DEF k
    <3>2. policy.lambda * cands[i].rank \in Int /\ (100 - policy.lambda) * k \in Int
      BY <3>1 DEF k
    <3> QED
      BY <3>2 DEF MmrScore, k
  <2> QED
    BY <2>1
<1>3. \A i \in eligible : mmr[i] = MmrScore(cands, policy, i, chosen)
  OBVIOUS
<1> HIDE DEF mmr
<1>4. E1 # {} /\ E1 \subseteq eligible
  BY <1>1, <1>2, GreatestBy
<1>5. \A i \in E1, j \in eligible : mmr[i] >= mmr[j]
  OBVIOUS
<1>6. \A i \in eligible : (\A j \in eligible : mmr[i] >= mmr[j]) => i \in E1
  OBVIOUS
<1> HIDE DEF E1
<1>7. IsFiniteSet(E1)
  BY <1>1, <1>4, FS_Subset
<1>8. rank \in [E1 -> Int] /\ \A i \in E1 : rank[i] = cands[i].rank
  BY <1>4 DEF Measured
<1> HIDE DEF rank
<1>9. E2 # {} /\ E2 \subseteq E1
  BY <1>4, <1>7, <1>8, GreatestBy
<1>10. \A i \in E2, j \in E1 : rank[i] >= rank[j]
  OBVIOUS
<1>11. \A i \in E1 : (\A j \in E1 : rank[i] >= rank[j]) => i \in E2
  OBVIOUS
<1> HIDE DEF E2
<1>12. PICK i \in E2 : \A j \in E2 : i <= j
  BY <1>1, <1>4, <1>9, NatLeast
<1>13. i \in eligible /\ i \in E1 /\ i \in Nat
  BY <1>1, <1>4, <1>9
<1>14. ASSUME NEW j \in eligible \ {i}
       PROVE  \/ mmr[i] > mmr[j]
              \/ mmr[i] = mmr[j] /\ cands[i].rank > cands[j].rank
              \/ mmr[i] = mmr[j] /\ cands[i].rank = cands[j].rank /\ i < j
  <2>1. mmr[i] \in Int /\ mmr[j] \in Int /\ mmr[i] >= mmr[j] /\ j \in Nat
    BY <1>1, <1>2, <1>5, <1>13
  <2>2. CASE j \notin E1
    <3>1. mmr[i] # mmr[j]
      <4> SUFFICES ASSUME mmr[i] = mmr[j] PROVE FALSE
        OBVIOUS
      <4>1. \A k \in eligible : mmr[j] >= mmr[k]
        BY <1>5, <1>13
      <4> QED
        BY <1>6, <2>2, <4>1
    <3> QED
      BY <2>1, <3>1
  <2>3. CASE j \in E1
    <3>1. mmr[i] = mmr[j]
      BY <1>5, <1>13, <2>1, <2>3
    <3>2. rank[i] \in Int /\ rank[j] \in Int /\ rank[i] >= rank[j]
      BY <1>8, <1>10, <1>13, <2>3
    <3>3. CASE j \notin E2
      <4>1. rank[i] # rank[j]
        <5> SUFFICES ASSUME rank[i] = rank[j] PROVE FALSE
          OBVIOUS
        <5>1. \A k \in E1 : rank[j] >= rank[k]
          BY <1>10
        <5> QED
          BY <1>11, <2>3, <3>3, <5>1
      <4>2. rank[i] > rank[j]
        BY <3>2, <4>1
      <4> QED
        BY <1>8, <1>13, <2>3, <3>1, <4>2
    <3>4. CASE j \in E2
      <4>1. rank[j] >= rank[i]
        BY <1>10, <1>13, <3>4
      <4>2. rank[i] = rank[j]
        BY <3>2, <4>1
      <4>3. i < j
        BY <1>12, <1>13, <2>1, <3>4
      <4> QED
        BY <1>8, <1>13, <2>3, <3>1, <4>2, <4>3
    <3> QED
      BY <3>3, <3>4
  <2> QED
    BY <2>2, <2>3
<1> QED
  BY <1>3, <1>13, <1>14 DEF BestCandidate

-----------------------------------------------------------------------------
(* A function that recursion over 0..n defines by a step that stays in X.  *)
LEMMA Recursion ==
  ASSUME NEW n \in Nat, NEW X, NEW b \in X, NEW G, \A i \in 1..n : G[i] \in [X -> X]
  PROVE  /\ \E k : Chain(k, 0, n, b, G)
         /\ \A k : Chain(k, 0, n, b, G) => \A i \in 0..n : k[i] \in X
<1>1. \E k : Chain(k, 0, n, b, G)
  BY ChainExists
<1>2. ASSUME NEW k, Chain(k, 0, n, b, G) PROVE \A i \in 0..n : k[i] \in X
  <2> DEFINE XX == [i \in 0..n |-> X]
  <2>1. k = [i \in 0..n |-> IF i = 0 THEN b ELSE G[i][k[i - 1]]]
    BY <1>2 DEF Chain
  <2>2. k[0] \in XX[0]
    BY <2>1
  <2>3. ASSUME NEW i \in 0..n, i # 0, k[i - 1] \in XX[i - 1] PROVE k[i] \in XX[i]
    <3>1. i \in 1..n /\ i - 1 \in 0..n
      BY <2>3
    <3>2. k[i] = G[i][k[i - 1]] /\ k[i - 1] \in X
      BY <2>1, <2>3, <3>1
    <3> QED
      BY <3>1, <3>2
  <2>4. \A i \in 0..n : XX[i] = X
    OBVIOUS
  <2> HIDE DEF XX
  <2>5. \A i \in 0..n : k[i] \in XX[i]
    BY <2>2, <2>3, ChainTyped
  <2> QED
    BY <2>4, <2>5
<1> QED
  BY <1>1, <1>2

(* The states of mmr_order.                                                *)
MmrStates(D) == [eligible : SUBSET D, order : Seq(D)]

LEMMA MmrStepType ==
  ASSUME NEW cands, Measured(cands), NEW policy, policy.lambda \in Int,
         NEW st \in MmrStates(DOMAIN cands)
  PROVE  MmrStep(cands, policy, st) \in MmrStates(DOMAIN cands)
<1> DEFINE best == BestCandidate(cands, policy, st.eligible, st.order)
           twin == st.order # <<>> /\ Nearest(cands, best, st.order) >= policy.redundancy
           order == IF twin THEN st.order ELSE Append(st.order, best)
<1>1. MmrStep(cands, policy, st)
        = IF st.eligible = {} THEN st ELSE [eligible |-> st.eligible \ {best}, order |-> order]
  BY DEF MmrStep
<1>2. st.eligible \subseteq DOMAIN cands /\ st.order \in Seq(DOMAIN cands)
  BY DEF MmrStates
<1>3. CASE st.eligible = {}
  BY <1>1, <1>3
<1>4. CASE st.eligible # {}
  <2>1. best \in DOMAIN cands
    BY <1>2, <1>4, BestIsEligible
  <2> HIDE DEF best
  <2>2. Append(st.order, best) \in Seq(DOMAIN cands)
    BY <1>2, <2>1, AppendProperties
  <2>3. order \in Seq(DOMAIN cands) /\ st.eligible \ {best} \in SUBSET DOMAIN cands
    BY <1>2, <2>2
  <2> HIDE DEF order
  <2> QED
    BY <1>1, <1>4, <2>3 DEF MmrStates
<1> QED
  BY <1>3, <1>4

MmrAfter(f, cands, policy, n, b) ==
  f = [i \in 0..n |-> IF i = 0 THEN b ELSE MmrStep(cands, policy, f[i - 1])]

(* The order of the candidates names candidates.                           *)
LEMMA MmrOrderType ==
  ASSUME NEW cands, Measured(cands), NEW policy, policy.lambda \in Int
  PROVE  MmrOrder(cands, policy) \in Seq(DOMAIN cands)
<1> DEFINE D == DOMAIN cands
           eligible == (D \ Protected(cands)) \ OverLimit(cands, policy)
           n == Cardinality(eligible)
           b == [eligible |-> eligible, order |-> <<>>]
           X == MmrStates(D)
           G == [i \in 1..n |-> [st \in X |-> MmrStep(cands, policy, st)]]
           f == CHOOSE g : MmrAfter(g, cands, policy, n, b)
<1>1. IsFiniteSet(D) /\ D \subseteq Int
  BY Interval DEF Measured
<1>2. n \in Nat
  <2>1. IsFiniteSet(eligible)
    BY <1>1, FS_Subset
  <2> QED
    BY <2>1, FS_CardinalityType
<1>3. b \in X
  BY EmptySeq DEF MmrStates
<1>4. MmrOrder(cands, policy) = Ascending(Protected(cands)) \o f[n].order
  BY DEF MmrOrder, MmrAfter
<1> HIDE DEF n, b, X, eligible
<1>5. \A i \in 1..n : G[i] \in [X -> X]
  <2>1. \A st \in X : MmrStep(cands, policy, st) \in X
    BY MmrStepType DEF X
  <2> QED
    BY <2>1
<1>6. \A i \in 1..n : \A st \in X : G[i][st] = MmrStep(cands, policy, st)
  OBVIOUS
<1> HIDE DEF G
<1>7. \A k : Chain(k, 0, n, b, G) => \A i \in 0..n : k[i] \in X
  BY <1>2, <1>3, <1>5, Recursion
<1>8. \E k : Chain(k, 0, n, b, G)
  BY <1>2, <1>3, <1>5, Recursion
<1>9. \E k : MmrAfter(k, cands, policy, n, b)
  <2>1. PICK k : Chain(k, 0, n, b, G)
    BY <1>8
  <2>2. k = [i \in 0..n |-> IF i = 0 THEN b ELSE G[i][k[i - 1]]]
    BY <2>1 DEF Chain
  <2>3. \A i \in 0..n : k[i] \in X
    BY <1>7, <2>1
  <2>4. \A i \in 0..n : i # 0 => G[i][k[i - 1]] = MmrStep(cands, policy, k[i - 1])
    <3> SUFFICES ASSUME NEW i \in 0..n, i # 0
                 PROVE  G[i][k[i - 1]] = MmrStep(cands, policy, k[i - 1])
      OBVIOUS
    <3>1. i \in 1..n /\ i - 1 \in 0..n
      BY <1>2
    <3> QED
      BY <1>6, <2>3, <3>1
  <2>5. k = [i \in 0..n |-> IF i = 0 THEN b ELSE MmrStep(cands, policy, k[i - 1])]
    BY <2>2, <2>4
  <2> QED
    BY <2>5 DEF MmrAfter
<1>10. MmrAfter(f, cands, policy, n, b)
  BY <1>9
<1> HIDE DEF f
<1>11. \A i \in 0..n : f[i] \in X
  <2> DEFINE XX == [i \in 0..n |-> X]
  <2>1. f = [i \in 0..n |-> IF i = 0 THEN b ELSE MmrStep(cands, policy, f[i - 1])]
    BY <1>10 DEF MmrAfter
  <2>2. f[0] \in XX[0]
    BY <1>2, <1>3, <2>1
  <2>3. ASSUME NEW i \in 0..n, i # 0, f[i - 1] \in XX[i - 1] PROVE f[i] \in XX[i]
    <3>1. i - 1 \in 0..n
      BY <1>2, <2>3
    <3>2. f[i] = MmrStep(cands, policy, f[i - 1]) /\ f[i - 1] \in X
      BY <2>1, <2>3, <3>1
    <3> QED
      BY <3>2, MmrStepType DEF X
  <2>4. \A i \in 0..n : XX[i] = X
    OBVIOUS
  <2> HIDE DEF XX
  <2>5. \A i \in 0..n : f[i] \in XX[i]
    BY <1>2, <2>2, <2>3, ChainTyped
  <2> QED
    BY <2>4, <2>5
<1>12. f[n].order \in Seq(D)
  <2>1. f[n] \in X
    BY <1>2, <1>11
  <2> QED
    BY <2>1 DEF X, MmrStates
<1>13. Ascending(Protected(cands)) \in Seq(D)
  <2>1. Protected(cands) \subseteq D
    BY DEF Protected
  <2>2. IsFiniteSet(Protected(cands)) /\ Protected(cands) \subseteq Int
    BY <1>1, <2>1, FS_Subset
  <2>3. Ascending(Protected(cands)) \in Seq(Protected(cands))
    BY <2>2, AscendingAll
  <2> QED
    BY <2>1, <2>3, SeqMonotonic
<1> QED
  BY <1>4, <1>12, <1>13, ConcatProperties

TakenAfter(f, cands, budget, order) ==
  f = [i \in 0..Len(order) |->
         IF i = 0 THEN [chosen |-> {}, used |-> 0]
         ELSE Taken(cands, budget, f[i - 1], order[i])]

(* What is taken never comes to more than the budget.                      *)
LEMMA SelectionFits ==
  ASSUME NEW cands, Measured(cands), NEW policy, policy.lambda \in Int, NEW budget \in Nat
  PROVE  /\ ContextSelection(cands, policy, budget).used \in Nat
         /\ ContextSelection(cands, policy, budget).used <= budget
<1> DEFINE D == DOMAIN cands
           order == MmrOrder(cands, policy)
           n == Len(order)
           b == [chosen |-> {}, used |-> 0]
           X == [chosen : SUBSET D, used : 0..budget]
           G == [i \in 1..n |-> [st \in X |-> Taken(cands, budget, st, order[i])]]
           f == CHOOSE g : TakenAfter(g, cands, budget, order)
<1>1. ContextSelection(cands, policy, budget) = f[n]
  BY DEF ContextSelection, TakenAfter
<1>2. order \in Seq(D)
  BY MmrOrderType
<1>3. n \in Nat /\ \A i \in 1..n : order[i] \in D
  <2> HIDE DEF order
  <2> QED
    BY <1>2, LenProperties, ElementOfSeq
<1>4. b \in X
  OBVIOUS
<1> HIDE DEF order, n
<1>5. ASSUME NEW i \in 1..n, NEW st \in X PROVE Taken(cands, budget, st, order[i]) \in X
  <2>1. order[i] \in D /\ cands[order[i]].tokens \in Nat
    BY <1>3 DEF Measured
  <2> DEFINE t == cands[order[i]].tokens
  <2>2. st.used \in 0..budget /\ st.chosen \in SUBSET D /\ st \in X
    OBVIOUS
  <2>3. CASE st.used + t <= budget
    <3>1. /\ Taken(cands, budget, st, order[i])
               = [chosen |-> st.chosen \cup {order[i]}, used |-> st.used + t]
      BY <2>3 DEF Taken, FitsBudget
    <3>2. st.used + t \in 0..budget /\ st.chosen \cup {order[i]} \in SUBSET D
      BY <2>1, <2>2, <2>3
    <3> QED
      BY <3>1, <3>2
  <2>4. CASE ~(st.used + t <= budget)
    BY <2>4 DEF Taken, FitsBudget
  <2> QED
    BY <2>3, <2>4
<1> HIDE DEF X, b
<1>6. \A i \in 1..n : G[i] \in [X -> X]
  BY <1>5
<1>7. \A i \in 1..n : \A st \in X : G[i][st] = Taken(cands, budget, st, order[i])
  OBVIOUS
<1> HIDE DEF G
<1>8. \A k : Chain(k, 0, n, b, G) => \A i \in 0..n : k[i] \in X
  BY <1>3, <1>4, <1>6, Recursion
<1>9. \E k : Chain(k, 0, n, b, G)
  BY <1>3, <1>4, <1>6, Recursion
<1>10. \E k : TakenAfter(k, cands, budget, order)
  <2>1. PICK k : Chain(k, 0, n, b, G)
    BY <1>9
  <2>2. k = [i \in 0..n |-> IF i = 0 THEN b ELSE G[i][k[i - 1]]]
    BY <2>1 DEF Chain
  <2>3. \A i \in 0..n : k[i] \in X
    BY <1>8, <2>1
  <2>4. \A i \in 0..n : i # 0 => G[i][k[i - 1]] = Taken(cands, budget, k[i - 1], order[i])
    <3> SUFFICES ASSUME NEW i \in 0..n, i # 0
                 PROVE  G[i][k[i - 1]] = Taken(cands, budget, k[i - 1], order[i])
      OBVIOUS
    <3>1. i \in 1..n /\ i - 1 \in 0..n
      BY <1>3
    <3> QED
      BY <1>7, <2>3, <3>1
  <2>5. k = [i \in 0..n |-> IF i = 0 THEN b ELSE Taken(cands, budget, k[i - 1], order[i])]
    BY <2>2, <2>4
  <2> QED
    BY <2>5 DEF TakenAfter, n, b
<1>11. TakenAfter(f, cands, budget, order)
  BY <1>10
<1> HIDE DEF f
<1>12. \A i \in 0..n : f[i] \in X
  <2> DEFINE XX == [i \in 0..n |-> X]
  <2>1. f = [i \in 0..n |-> IF i = 0 THEN b ELSE Taken(cands, budget, f[i - 1], order[i])]
    BY <1>11 DEF TakenAfter, n, b
  <2>2. f[0] \in XX[0]
    BY <1>3, <1>4, <2>1
  <2>3. ASSUME NEW i \in 0..n, i # 0, f[i - 1] \in XX[i - 1] PROVE f[i] \in XX[i]
    <3>1. i - 1 \in 0..n /\ i \in 1..n
      BY <1>3, <2>3
    <3>2. f[i] = Taken(cands, budget, f[i - 1], order[i]) /\ f[i - 1] \in X
      BY <2>1, <2>3, <3>1
    <3> QED
      BY <1>5, <3>1, <3>2
  <2>4. \A i \in 0..n : XX[i] = X
    OBVIOUS
  <2> HIDE DEF XX
  <2>5. \A i \in 0..n : f[i] \in XX[i]
    BY <1>3, <2>2, <2>3, ChainTyped
  <2> QED
    BY <2>4, <2>5
<1>13. f[n] \in X
  BY <1>3, <1>12
<1> QED
  BY <1>1, <1>13 DEF X

LEMMA CandidatesMeasured ==
  ASSUME NEW selected \in Seq(DOMAIN Card)
  PROVE  Measured(WriterCandidates(selected))
<1> DEFINE F == {{}} \cup {Card[e].features : e \in DOMAIN Card}
           X == {c \in [type : {"instruction", "evidence_card"}, tokens : Nat, rank : Int,
                        protected : BOOLEAN, features : F] : IsFiniteSet(c.features)}
           a == [type |-> "instruction", tokens |-> ProtectedTokens, rank |-> 100,
                 protected |-> TRUE, features |-> {}]
           C(i) == [type |-> "evidence_card", tokens |-> Card[selected[i]].tokens,
                    rank |-> Card[selected[i]].score, protected |-> FALSE,
                    features |-> Card[selected[i]].features]
           s == [i \in DOMAIN selected |-> C(i)]
<1>1. WriterCandidates(selected) = <<a>> \o s
  BY DEF WriterCandidates
<1>0. {} \in F /\ \A e \in DOMAIN Card : Card[e].features \in F
  OBVIOUS
<1> HIDE DEF F
<1>2. a \in X
  <2>1. IsFiniteSet({})
    BY FS_EmptySet
  <2>2. ProtectedTokens \in Nat /\ {} \in F
    BY <1>0, WriterConstants
  <2>3. a \in [type : {"instruction", "evidence_card"}, tokens : Nat, rank : Int,
                protected : BOOLEAN, features : F]
    BY <2>2
  <2>4. a.features = {}
    OBVIOUS
  <2> HIDE DEF a
  <2>5. IsFiniteSet(a.features)
    BY <2>1, <2>4, Zenon
  <2> QED
    BY <2>3, <2>5
<1>3. Len(selected) \in Nat /\ DOMAIN selected = 1..Len(selected)
      /\ \A i \in DOMAIN selected : selected[i] \in DOMAIN Card
  BY LenProperties, ElementOfSeq
<1>4. ASSUME NEW i \in DOMAIN selected PROVE C(i) \in X
  <2>1. selected[i] \in DOMAIN Card
    BY <1>3
  <2>2. /\ Card[selected[i]].tokens \in Nat /\ Card[selected[i]].score \in Nat
        /\ IsFiniteSet(Card[selected[i]].features)
    BY <2>1, WriterConstants, AssemblyConstants
  <2> QED
    BY <1>0, <2>1, <2>2
<1> HIDE DEF C, a
<1>5. s \in [1..Len(selected) -> X]
  BY <1>3, <1>4
<1>6. \A c \in X : c.tokens \in Nat /\ c.rank \in Int /\ IsFiniteSet(c.features)
  OBVIOUS
<1> HIDE DEF s, X
<1>7. s \in Seq(X)
  BY <1>3, <1>5, FunctionIsList
<1>8. <<a>> \in Seq(X)
  BY <1>2
<1> DEFINE l == <<a>> \o s
<1>9. l \in Seq(X)
  BY <1>7, <1>8, ConcatProperties
<1> HIDE DEF l
<1>10. Len(l) \in Nat /\ DOMAIN l = 1..Len(l) /\ \A i \in DOMAIN l : l[i] \in X
  BY <1>9, LenProperties, ElementOfSeq
<1>11. Measured(l)
  BY <1>6, <1>10 DEF Measured
<1> QED
  BY <1>1, <1>11 DEF l

PromptOk(p) ==
  p[1] > 0 => p[1] + WriterOutputReserve + Larger(512, p[2] \div 10) <= p[2]

(* The budget leaves room for the reply and the safety margin.             *)
LEMMA BudgetLeavesRoom ==
  ASSUME NEW win \in Nat
  PROVE  /\ InputBudget(win) \in Nat /\ WriterOutputReserve \in Nat
         /\ InputBudget(win) # 0 =>
              InputBudget(win) + WriterOutputReserve + Larger(512, win \div 10) <= win
<1> DEFINE r == WriterOutputReserve
           cap == Larger(512, WriterLimit - r - 512)
           safety == Larger(512, (win + 9) \div 10)
           budget == Smaller(Smaller(win - r - safety, (win * 7) \div 10), cap)
<1>1. r \in Nat
  <2>1. WriterLimit \div 3 \in Nat
    BY WriterConstants
  <2> QED
    BY <2>1 DEF WriterOutputReserve, Smaller, Larger
<1>2. InputBudget(win) = IF win < 1024 \/ budget < 512 THEN 0 ELSE budget
  BY <1>1 DEF InputBudget, AllocateBudget, Smaller, MIN_INPUT_BUDGET
<1> HIDE DEF r
<1>3. cap \in Int
  BY <1>1, WriterConstants DEF Larger
<1>4. /\ (win + 9) \div 10 \in Nat /\ win \div 10 \in Nat /\ win \div 10 <= (win + 9) \div 10
      /\ (win * 7) \div 10 \in Nat
  OBVIOUS
<1>5. safety \in Nat /\ Larger(512, win \div 10) \in Nat /\ Larger(512, win \div 10) <= safety
  BY <1>4 DEF Larger
<1> HIDE DEF cap, safety
<1>6. budget \in Int /\ budget <= win - r - safety
  BY <1>1, <1>3, <1>4, <1>5 DEF Smaller
<1> HIDE DEF budget
<1>7. CASE win < 1024 \/ budget < 512
  BY <1>1, <1>2, <1>7 DEF r
<1>8. CASE ~(win < 1024 \/ budget < 512)
  <2>1. InputBudget(win) = budget /\ budget \in Nat
    BY <1>2, <1>6, <1>8
  <2> QED
    BY <1>1, <1>5, <1>6, <2>1 DEF r
<1> QED
  BY <1>7, <1>8

LEMMA PromptFits ==
  ASSUME NEW selected \in Seq(DOMAIN Card), NEW win \in Nat,
         NEW budget, budget = InputBudget(win), budget # 0,
         NEW used, used = ContextSelection(WriterCandidates(selected), WriterPolicy, budget).used
  PROVE  PromptOk(<<used, win>>)
<1>1. WriterPolicy.lambda \in Int
  BY DEF WriterPolicy
<1>2. budget \in Nat /\ WriterOutputReserve \in Nat
      /\ budget + WriterOutputReserve + Larger(512, win \div 10) <= win
  BY BudgetLeavesRoom
<1>3. used \in Nat /\ used <= budget
  BY <1>1, <1>2, CandidatesMeasured, SelectionFits
<1>4. Larger(512, win \div 10) \in Nat
  <2>1. win \div 10 \in Nat
    OBVIOUS
  <2> QED
    BY <2>1 DEF Larger
<1>5. used + WriterOutputReserve + Larger(512, win \div 10) <= win
  BY <1>2, <1>3, <1>4
<1> QED
  BY <1>5 DEF PromptOk

-----------------------------------------------------------------------------
(* The event stream.                                                       *)

(* What the follower has is the log up to its cursor, and the batch of an  *)
(* open stream goes on from there.                                         *)
Followers ==
  [at : {"closed", "listing", "sending"}, cursor : Nat, batch : Seq(Nat), empty : BOOLEAN]

StreamInv ==
  /\ StreamTypeOK
  /\ follower \in Followers
  /\ received \in Seq(Nat) /\ Len(received) <= published
  /\ \A i \in 1..Len(received) : received[i] = i
  /\ follower.at # "closed" => follower.cursor = Len(received)
  /\ Len(received) + Len(follower.batch) <= published \/ follower.at # "sending"
  /\ follower.at = "sending" =>
       \A i \in 1..Len(follower.batch) : follower.batch[i] = Len(received) + i

Log == [i \in 1..published |-> i]

LEMMA LogIsSeq ==
  ASSUME published \in Nat
  PROVE  Log \in Seq(Nat) /\ Len(Log) = published /\ \A i \in 1..published : Log[i] = i
<1>1. Log \in [1..published -> Nat]
  BY DEF Log
<1>2. Log \in Seq(Nat) /\ Len(Log) = published
  BY <1>1, SeqDef
<1> QED
  BY <1>2 DEF Log

(* The log of a commit of n events.                                        *)
LEMMA CommitPublishes ==
  ASSUME StreamInv, NEW st \in Statuses, NEW n \in Nat, Commit(st, n)
  PROVE  StreamInv' /\ [Delivery!Publish \/ Delivery!Deliver]_<<Log, received>>
<1>1. /\ published \in 0..MaxEvents /\ published' = published + n
      /\ published' <= MaxEvents /\ status' = st
      /\ UNCHANGED <<follower, received, drops>>
  BY DEF Commit, AppendEvents, StreamInv, StreamTypeOK
<1>2. published' \in Nat /\ published' \in 0..MaxEvents
  BY <1>1, StreamBounds
<1>3. StreamInv'
  <2>1. StreamTypeOK'
    BY <1>1, <1>2 DEF StreamInv, StreamTypeOK
  <2>2. Len(received) \in Nat /\ Len(follower.batch) \in Nat
    BY LenProperties DEF StreamInv, Followers
  <2>3. \/ Len(received) + Len(follower.batch) <= published'
        \/ follower.at # "sending"
    BY <1>1, <1>2, <2>2 DEF StreamInv
  <2>4. Len(received) <= published'
    BY <1>1, <1>2, <2>2 DEF StreamInv
  <2> QED
    BY <1>1, <2>1, <2>3, <2>4 DEF StreamInv
<1>4. CASE n = 0
  <2>1. published' = published
    BY <1>1, <1>4
  <2> QED
    BY <1>1, <1>3, <2>1 DEF Log
<1>5. CASE n # 0
  <2>1. /\ Len(Log) = published /\ Len(Log') = published'
    BY <1>1, <1>2, LogIsSeq DEF Log
  <2>2. Len(Log') > Len(Log)
    BY <1>1, <1>2, <1>5, <2>1
  <2>3. Log' = [i \in 1..Len(Log') |-> i]
    BY <2>1 DEF Log
  <2> QED
    BY <1>1, <1>3, <2>2, <2>3 DEF Delivery!Publish, Log
<1> QED
  BY <1>3, <1>4, <1>5

LEMMA ListKeepsStream ==
  ASSUME StreamInv, StreamList
  PROVE  StreamInv'
<1> DEFINE c == follower.cursor
           n == IF published - c < PageLimit THEN published - c ELSE PageLimit
           batch == ListEvents(c)
<1>1. /\ c = Len(received) /\ c \in Nat /\ published \in Nat /\ c <= published
      /\ follower \in Followers /\ follower.at = "listing"
  BY StreamBounds, LenProperties DEF StreamList, StreamInv, StreamTypeOK, Followers
<1>2. n \in Nat /\ c + n <= published
  BY <1>1, StreamBounds
<1>3. batch = [i \in 1..n |-> c + i]
  BY DEF ListEvents
<1>4. follower' = [follower EXCEPT !.at = "sending", !.batch = batch, !.empty = (batch = <<>>)]
      /\ UNCHANGED <<status, published, received, drops>>
  BY DEF StreamList
<1> HIDE DEF n, batch
<1>5. batch \in Seq(Nat) /\ Len(batch) = n /\ \A i \in 1..n : batch[i] = c + i
  <2>1. batch \in [1..n -> Nat]
    BY <1>1, <1>2, <1>3
  <2> QED
    BY <1>2, <1>3, <2>1, SeqDef
<1>6. /\ follower' \in Followers /\ follower'.at = "sending"
      /\ follower'.cursor = c /\ follower'.batch = batch
  BY <1>1, <1>4, <1>5 DEF Followers
<1>7. StreamTypeOK'
  BY <1>4, <1>6 DEF StreamInv, StreamTypeOK
<1> QED
  BY <1>1, <1>2, <1>4, <1>5, <1>6, <1>7 DEF StreamInv

LEMMA SendDelivers ==
  ASSUME StreamInv, StreamSend
  PROVE  StreamInv' /\ Delivery!Deliver
<1> DEFINE b == follower.batch
           k == Len(received)
<1>1. /\ follower \in Followers /\ follower.at = "sending" /\ b \in Seq(Nat) /\ b # <<>>
      /\ received \in Seq(Nat) /\ k \in Nat /\ Len(b) \in Nat
      /\ published \in 0..MaxEvents /\ published \in Nat
      /\ follower.cursor = k /\ k + Len(b) <= published
      /\ \A i \in 1..k : received[i] = i
      /\ \A i \in 1..Len(b) : b[i] = k + i
  BY LenProperties DEF StreamSend, StreamInv, StreamTypeOK, Followers
<1>2. /\ Head(b) = b[1] /\ 1 \in 1..Len(b) /\ Len(b) # 0
      /\ Tail(b) \in Seq(Nat) /\ Len(Tail(b)) = Len(b) - 1
      /\ \A i \in 1..Len(Tail(b)) : Tail(b)[i] = b[i + 1]
  BY <1>1, HeadTailProperties, EmptySeq, LenProperties
<1>3. Head(b) = k + 1
  BY <1>1, <1>2
<1>4. /\ follower' = [follower EXCEPT !.cursor = k + 1, !.batch = Tail(b)]
      /\ received' = Append(received, k + 1)
      /\ UNCHANGED <<status, published, drops>>
  BY <1>3 DEF StreamSend
<1>5. /\ Append(received, k + 1) \in Seq(Nat) /\ Len(Append(received, k + 1)) = k + 1
      /\ \A i \in 1..k : Append(received, k + 1)[i] = received[i]
      /\ Append(received, k + 1)[k + 1] = k + 1
  BY <1>1, AppendProperties
<1> DEFINE t == Tail(b)
<1>6. /\ follower' \in Followers /\ follower'.at = "sending"
      /\ follower'.cursor = k + 1 /\ follower'.batch = t
  <2>1. t \in Seq(Nat) /\ k + 1 \in Nat
    BY <1>1, <1>2
  <2> HIDE DEF t, k
  <2> QED
    BY <1>1, <1>4, <2>1 DEF Followers, t
<1>7. /\ t \in Seq(Nat) /\ Len(t) = Len(b) - 1
      /\ \A i \in 1..Len(t) : t[i] = (k + 1) + i
  <2>1. \A i \in 1..Len(t) : i + 1 \in 1..Len(b) /\ t[i] = b[i + 1]
    BY <1>1, <1>2
  <2>2. \A i \in 1..Len(t) : t[i] = k + (i + 1) /\ i \in Nat
    BY <1>1, <2>1
  <2> QED
    BY <1>1, <1>2, <2>2
<1>8. /\ received' \in Seq(Nat) /\ Len(received') = k + 1
      /\ \A i \in 1..(k + 1) : received'[i] = i
  BY <1>1, <1>4, <1>5
<1> HIDE DEF t, b, k
<1>9. StreamTypeOK'
  BY <1>4, <1>6 DEF StreamInv, StreamTypeOK
<1>10. Len(b) >= 1 /\ (k + 1) + Len(t) <= published' /\ k + 1 <= published'
  BY <1>1, <1>2, <1>4, <1>7
<1>11. StreamInv'
  BY <1>6, <1>7, <1>8, <1>9, <1>10 DEF StreamInv
<1>12. Delivery!Deliver
  <2>1. Len(Log) = published /\ Log[k + 1] = k + 1
    BY <1>1, <1>4, <1>10, LogIsSeq
  <2>2. /\ Len(received) < Len(Log)
        /\ received' = Append(received, Log[Len(received) + 1])
        /\ Log' = Log
    BY <1>1, <1>4, <1>10, <2>1 DEF k, Log
  <2> QED
    BY <2>2 DEF Delivery!Deliver, Log
<1> QED
  BY <1>11, <1>12

LEMMA ReadKeepsStream ==
  ASSUME StreamInv, ReadStep
  PROVE  StreamInv' /\ [Delivery!Publish \/ Delivery!Deliver]_<<Log, received>>
<1>0. Closed \in Followers /\ Closed.at = "closed"
  BY EmptySeq DEF Closed, Followers
<1>1. CASE Connect
  <2>1. LastEventId = Len(received) /\ Len(received) \in Nat
    <3>1. received \in Seq(Nat) /\ Len(received) \in Nat
      BY LenProperties DEF StreamInv
    <3>2. received # <<>> => Len(received) \in 1..Len(received)
      BY <3>1, EmptySeq
    <3>3. received = <<>> => Len(received) = 0
      BY EmptySeq
    <3> QED
      BY <3>1, <3>2, <3>3 DEF LastEventId, Last, StreamInv
  <2>2. /\ follower' \in Followers /\ follower'.at = "listing"
        /\ follower'.cursor = Len(received)
        /\ UNCHANGED <<status, published, received, drops>>
    <3>1. [Closed EXCEPT !.at = "listing", !.cursor = Len(received)] \in Followers
      BY <1>0, <2>1 DEF Followers
    <3> QED
      BY <1>1, <2>1, <3>1 DEF Connect, Followers
  <2>3. StreamTypeOK'
    BY <2>2 DEF StreamInv, StreamTypeOK
  <2> QED
    BY <2>2, <2>3 DEF StreamInv, Log
<1>2. CASE StreamList
  <2>1. UNCHANGED <<published, received>>
    BY <1>2 DEF StreamList
  <2> QED
    BY <1>2, <2>1, ListKeepsStream DEF Log
<1>3. CASE StreamSend
  BY <1>3, SendDelivers
<1>4. CASE StreamCheck
  <2>1. /\ follower \in Followers /\ follower.at = "sending"
        /\ UNCHANGED <<status, published, received, drops>>
        /\ follower' \in {Closed, [follower EXCEPT !.at = "listing"]}
    BY <1>4 DEF StreamCheck, StreamInv
  <2>2. /\ follower' \in Followers /\ follower'.at \in {"closed", "listing"}
        /\ follower'.at # "closed" => follower'.cursor = follower.cursor
    BY <1>0, <2>1 DEF Followers
  <2>3. StreamTypeOK'
    BY <2>1, <2>2 DEF StreamInv, StreamTypeOK
  <2> QED
    BY <2>1, <2>2, <2>3 DEF StreamInv, Log
<1>5. CASE StreamDrop
  <2>1. /\ follower' = Closed /\ drops' = drops + 1 /\ drops < MaxDrops
        /\ UNCHANGED <<status, published, received>>
    BY <1>5 DEF StreamDrop
  <2>2. StreamTypeOK'
    BY <1>0, <2>1, StreamBounds DEF StreamInv, StreamTypeOK
  <2> QED
    BY <1>0, <2>1, <2>2 DEF StreamInv, Log
<1> QED
  BY <1>1, <1>2, <1>3, <1>4, <1>5 DEF ReadStep

-----------------------------------------------------------------------------
(* The writer.                                                             *)

Modes == {"deterministic_fallback", "cache", "model"}
Settled == {"none", "committed", "released", "uncertain"}
CallResults == {"none", "context", "draft", "reported", "unreported", "escaped"}
Stages == LeaseChecks \cup {"off", "cache", "generate", "put"}

(* What an execution has, by the stage of write() it is at: it reserved    *)
(* nothing before the call, settled what it reserved before it saves, and  *)
(* has a draft of the model only with its tokens committed.                *)
WriterOk(w) ==
  /\ w.at \in Stages /\ w.mode \in Modes /\ w.call \in CallResults
  /\ w.resv \in Settled \cup {"reserved"}
  /\ w.at \in {"cache", "reserve"} => w.resv = "none"
  /\ w.at \in {"put", "save"} => w.resv \in Settled
  /\ w.at \notin {"put", "save"} => w.mode = "deterministic_fallback"
  /\ w.mode # "deterministic_fallback" => w.draftFor = w.selected
  /\ w.mode = "model" => w.resv = "committed"

(* What an execution works on: a draft of the model or none, no more cards *)
(* than the writer takes, a prompt that fits.                              *)
WorksWell(w) ==
  /\ w.draft \in Draft /\ PromptOk(w.prompt)
  /\ w.selected \in Seq(DOMAIN Card) /\ Len(w.selected) <= MaxWriterEvidence

CacheOk == \A c \in draftCache : c.draft \in Draft

(* The evidence an execution that still holds the lease selected is that   *)
(* of the accepted evidence: research has not gone on since.               *)
Selects(S, selected) == S # {} /\ selected = SelectWriterEvidence(S)

SelectionCurrent ==
  \A x \in Executions :
    HoldsLease(x) /\ writer[x].at \notin {"off", "load", "empty"} =>
      Selects(accepted, writer[x].selected)

WriterFields ==
  {"at", "selected", "affordable", "draft", "draftFor", "mode", "call", "resv", "prompt"}

Writers ==
  /\ DOMAIN writer = Executions
  /\ \A x \in Executions :
       DOMAIN writer[x] = WriterFields /\ WriterOk(writer[x]) /\ WorksWell(writer[x])

ReportOk(r) ==
  /\ r.mode # "deterministic_fallback" =>
       /\ r.draftFor = r.selected
       /\ r.selected = SelectWriterEvidence(r.evidence)
  /\ r.resv # "reserved"
  /\ r.mode = "model" => r.resv = "committed"
  /\ r.verified /\ Range(r.citations) \subseteq r.evidence
  /\ \A e \in r.evidence : Card[e].question \in r.sections

(* The report is there from the commit that completes the run on.          *)
ReportsInv ==
  \/ reports = <<>> /\ status # "completed"
  \/ status = "completed" /\ \E r : reports = <<r>> /\ ReportOk(r)

Inv ==
  /\ StreamInv
  /\ accepted \subseteq DOMAIN Card /\ owner \in Executions \cup {"none"}
  /\ Writers /\ CacheOk /\ SelectionCurrent /\ ReportsInv

(* A step of one execution that keeps the run as it is.                    *)
LEMMA StepKeepsRun ==
  ASSUME Inv, NEW x \in Executions, NEW w, Set(x, w),
         DOMAIN w = WriterFields, WriterOk(w), WorksWell(w), CacheOk',
         UNCHANGED <<streamVars, accepted, owner, reports>>,
         HoldsLease(x) /\ w.at \notin {"off", "load", "empty"} =>
           Selects(accepted, w.selected)
  PROVE  Inv'
<1>1. /\ DOMAIN writer = Executions /\ writer' = [writer EXCEPT ![x] = w]
      /\ UNCHANGED <<status, published, follower, received, drops, accepted, owner, reports>>
  BY DEF Inv, Writers, Set, streamVars
<1>2. writer'[x] = w /\ \A y \in Executions : y # x => writer'[y] = writer[y]
  BY <1>1
<1>3. Writers'
  BY <1>1, <1>2 DEF Inv, Writers
<1>4. SelectionCurrent'
  BY <1>1, <1>2 DEF Inv, SelectionCurrent, HoldsLease
<1>5. StreamInv'
  BY <1>1 DEF Inv, StreamInv, StreamTypeOK
<1>6. ReportsInv'
  BY <1>1 DEF Inv, ReportsInv
<1> QED
  BY <1>1, <1>3, <1>4, <1>5, <1>6 DEF Inv

(* A commit that ends the execution's hold of the run.                     *)
LEMMA CommitKeepsInv ==
  ASSUME Inv, NEW st \in Statuses \ {"running"}, NEW n \in Nat, Commit(st, n),
         UNCHANGED accepted, owner' \in Executions \cup {"none"},
         Writers', CacheOk', ReportsInv'
  PROVE  Inv' /\ [Delivery!Publish \/ Delivery!Deliver]_<<Log, received>>
<1>1. StreamInv' /\ [Delivery!Publish \/ Delivery!Deliver]_<<Log, received>>
  BY CommitPublishes DEF Inv
<1>2. SelectionCurrent'
  BY DEF SelectionCurrent, HoldsLease, Commit, AppendEvents
<1> QED
  BY <1>1, <1>2 DEF Inv

LEMMA NoDraftIsDraft == NoDraft \in Draft
<1>1. <<>> \in Seq(Paragraph) /\ <<>> \in Seq([question : STRING, paragraphs : Seq(Paragraph)])
  BY EmptySeq
<1> QED
  BY <1>1 DEF NoDraft, Draft

LEMMA OffIsOk ==
  /\ DOMAIN Off = WriterFields /\ WriterOk(Off) /\ WorksWell(Off) /\ Off.at = "off"
  /\ \A st \in {"load", "empty"} :
       LET w == [Off EXCEPT !.at = st] IN
       DOMAIN w = WriterFields /\ WriterOk(w) /\ WorksWell(w) /\ w.at = st
<1>1. /\ DOMAIN Off = WriterFields /\ WriterOk(Off) /\ Off.at = "off"
      /\ \A st \in {"load", "empty"} :
           LET w == [Off EXCEPT !.at = st] IN
           DOMAIN w = WriterFields /\ WriterOk(w) /\ w.at = st
  BY DEF Off, WriterFields, WriterOk, Stages, LeaseChecks, Modes, Settled, CallResults
<1>2. \A st : LET w == [Off EXCEPT !.at = st] IN
               /\ w.draft = Off.draft /\ w.prompt = Off.prompt /\ w.selected = Off.selected
  BY DEF Off
<1>3. Off.draft = NoDraft /\ Off.selected = <<>> /\ Off.prompt = <<0, 0>>
  BY DEF Off
<1>4. PromptOk(<<0, 0>>)
  BY DEF PromptOk
<1>5. <<>> \in Seq(DOMAIN Card) /\ Len(<<>>) <= MaxWriterEvidence
  BY EmptySeq, AssemblyConstants
<1>6. WorksWell(Off)
  BY <1>3, <1>4, <1>5, NoDraftIsDraft DEF WorksWell
<1>7. \A st : WorksWell([Off EXCEPT !.at = st])
  BY <1>2, <1>6 DEF WorksWell
<1> QED
  BY <1>1, <1>6, <1>7

LEMMA SelectionOf ==
  ASSUME Inv, NEW x \in Executions
  PROVE  /\ DOMAIN writer[x] = WriterFields /\ WriterOk(writer[x]) /\ WorksWell(writer[x])
         /\ HoldsLease(x) /\ writer[x].at \notin {"off", "load", "empty"} =>
              Selects(accepted, writer[x].selected)
BY DEF Inv, Writers, SelectionCurrent

(* A stage that goes on with what the execution selected.                  *)
LEMMA StageKeeps ==
  ASSUME Inv, NEW x \in Executions, writer[x].at \notin {"off", "load", "empty"},
         NEW w, Set(x, w), DOMAIN w = WriterFields, WriterOk(w),
         w.selected = writer[x].selected, w.draft \in Draft, PromptOk(w.prompt), CacheOk',
         UNCHANGED <<streamVars, accepted, owner, reports>>
  PROVE  Inv'
<1>1. WorksWell(w)
  BY SelectionOf DEF WorksWell
<1>2. HoldsLease(x) => Selects(accepted, w.selected)
  BY SelectionOf
<1> QED
  BY <1>1, <1>2, StepKeepsRun

(* The stages of write() that touch nothing but the execution itself.      *)
LEMMA LoadKeeps ==
  ASSUME Inv, NEW x \in Executions, NEW b \in BOOLEAN, LoadForWriting(x, b)
  PROVE  Inv'
<1> DEFINE w == [Off EXCEPT !.at = "cache", !.affordable = b,
                            !.selected = SelectWriterEvidence(accepted)]
<1>1. /\ DOMAIN w = WriterFields /\ WriterOk(w)
      /\ w.selected = SelectWriterEvidence(accepted)
      /\ w.draft = Off.draft /\ w.prompt = Off.prompt
  BY DEF Off, WriterFields, WriterOk, Stages, LeaseChecks, Modes, Settled, CallResults
<1>2. /\ (Set(x, w) /\ accepted # {}) \/ Set(x, [Off EXCEPT !.at = "empty"])
      /\ UNCHANGED <<streamVars, accepted, owner, reports>> /\ CacheOk'
  BY DEF LoadForWriting, Inv, CacheOk
<1> HIDE DEF w
<1>3. WorksWell(w)
  <2> DEFINE sel == SelectWriterEvidence(accepted)
  <2>1. accepted \subseteq DOMAIN Card
    BY DEF Inv
  <2>2. sel \in Seq(accepted) /\ Len(sel) <= MaxWriterEvidence
    BY <2>1, SelectSound
  <2> HIDE DEF sel
  <2>3. sel \in Seq(DOMAIN Card)
    BY <2>1, <2>2, SeqMonotonic
  <2>4. w.selected = sel
    BY <1>1 DEF sel
  <2> QED
    BY <1>1, <2>2, <2>3, <2>4, OffIsOk DEF WorksWell
<1>4. CASE Set(x, w) /\ accepted # {}
  BY <1>1, <1>2, <1>3, <1>4, StepKeepsRun DEF Selects
<1>5. CASE Set(x, [Off EXCEPT !.at = "empty"])
  BY <1>2, <1>5, OffIsOk, StepKeepsRun
<1> QED
  BY <1>2, <1>4, <1>5

LEMMA CacheKeeps ==
  ASSUME Inv, NEW x \in Executions, ReadDraftCache(x)
  PROVE  Inv'
<1> DEFINE hits == {c \in draftCache : SameContext(x, c)
                                       /\ ~DraftRejected(c.draft, writer[x].selected)}
           hit == CHOOSE c \in hits : TRUE
           next == IF hits = {} /\ writer[x].affordable THEN "reserve" ELSE "save"
           miss == [writer[x] EXCEPT !.at = next, !.affordable = FALSE]
           found == [writer[x] EXCEPT !.at = next, !.affordable = FALSE, !.draft = hit.draft,
                                      !.draftFor = hit.context, !.mode = "cache"]
<1>1. /\ writer[x].at = "cache" /\ Set(x, IF hits = {} THEN miss ELSE found)
      /\ UNCHANGED <<streamVars, accepted, owner, reports>> /\ CacheOk'
  BY DEF ReadDraftCache, Inv, CacheOk
<1>2. hits # {} => hit.context = writer[x].selected /\ hit.draft \in Draft
  BY DEF SameContext, Inv, CacheOk
<1>3. next \in {"reserve", "save"} /\ (hits # {} => next = "save")
  OBVIOUS
<1> HIDE DEF hits, hit, next
<1>4. /\ DOMAIN miss = WriterFields /\ WriterOk(miss) /\ miss.selected = writer[x].selected
      /\ miss.draft = writer[x].draft /\ miss.prompt = writer[x].prompt
  BY <1>1, <1>3, SelectionOf
     DEF WriterFields, WriterOk, Stages, LeaseChecks, Modes, Settled, CallResults
<1>5. hits # {} => /\ DOMAIN found = WriterFields /\ WriterOk(found)
                   /\ found.selected = writer[x].selected
                   /\ found.draft = hit.draft /\ found.prompt = writer[x].prompt
  BY <1>1, <1>2, <1>3, SelectionOf
     DEF WriterFields, WriterOk, Stages, LeaseChecks, Modes, Settled, CallResults
<1> HIDE DEF miss, found
<1>6. writer[x].draft \in Draft /\ PromptOk(writer[x].prompt)
  BY SelectionOf DEF WorksWell
<1>7. CASE hits = {}
  BY <1>1, <1>4, <1>6, <1>7, StageKeeps
<1>8. CASE hits # {}
  BY <1>1, <1>2, <1>5, <1>6, <1>8, StageKeeps
<1> QED
  BY <1>7, <1>8

LEMMA ReserveKeeps ==
  ASSUME Inv, NEW x \in Executions, NEW b \in BOOLEAN, Reserve(x, b)
  PROVE  Inv'
<1> DEFINE given == [writer[x] EXCEPT !.at = "generate", !.resv = "reserved"]
           denied == [writer[x] EXCEPT !.at = "save"]
<1>1. /\ writer[x].at = "reserve"
      /\ Set(x, given) \/ Set(x, denied)
      /\ UNCHANGED <<streamVars, accepted, owner, reports>> /\ CacheOk'
  BY DEF Reserve, Inv, CacheOk
<1>2. /\ DOMAIN given = WriterFields /\ WriterOk(given) /\ given.selected = writer[x].selected
      /\ given.draft = writer[x].draft /\ given.prompt = writer[x].prompt
  BY <1>1, SelectionOf
     DEF WriterFields, WriterOk, Stages, LeaseChecks, Modes, Settled, CallResults
<1>3. /\ DOMAIN denied = WriterFields /\ WriterOk(denied) /\ denied.selected = writer[x].selected
      /\ denied.draft = writer[x].draft /\ denied.prompt = writer[x].prompt
  BY <1>1, SelectionOf
     DEF WriterFields, WriterOk, Stages, LeaseChecks, Modes, Settled, CallResults
<1> HIDE DEF given, denied
<1>4. writer[x].draft \in Draft /\ PromptOk(writer[x].prompt)
  BY SelectionOf DEF WorksWell
<1>5. CASE Set(x, given)
  BY <1>1, <1>2, <1>4, <1>5, StageKeeps
<1>6. CASE Set(x, denied)
  BY <1>1, <1>3, <1>4, <1>6, StageKeeps
<1> QED
  BY <1>1, <1>5, <1>6

LEMMA GenerateKeeps ==
  ASSUME Inv, NEW x \in Executions, NEW win \in Windows, NEW o \in CallOutcomes,
         NEW d \in Drafts, Generate(x, win, o, d)
  PROVE  Inv'
<1>1. o \in {"draft", "escaped", "reported", "unreported"}
  BY DEF CallOutcomes
<1>2. /\ writer[x].at = "generate"
      /\ UNCHANGED <<streamVars, accepted, owner, reports>> /\ CacheOk'
  BY DEF Generate, Inv, CacheOk
<1> DEFINE cands == WriterCandidates(writer[x].selected)
           budget == InputBudget(win)
           context == ContextSelection(cands, WriterPolicy, budget)
           used == context.used
           draft == IF o = "draft" THEN d ELSE NoDraft
           stop == [writer[x] EXCEPT !.at = "settle", !.call = "context"]
           call == [writer[x] EXCEPT
                      !.at = IF o = "escaped" THEN "escape" ELSE "settle",
                      !.call = o, !.draft = draft, !.prompt = <<used, win>>]
<1>3. Set(x, stop) \/ (Set(x, call) /\ budget # 0)
  BY DEF Generate, ContextInsufficient
<1>4. writer[x].draft \in Draft /\ PromptOk(writer[x].prompt) /\ draft \in Draft
  BY SelectionOf, NoDraftIsDraft, WriterConstants DEF WorksWell
<1>5. budget # 0 => PromptOk(<<used, win>>)
  <2>1. writer[x].selected \in Seq(DOMAIN Card) /\ win \in Nat
    BY SelectionOf, WriterConstants DEF WorksWell
  <2> QED
    BY <2>1, PromptFits
<1> HIDE DEF cands, budget, context, used, draft
<1>6. /\ DOMAIN stop = WriterFields /\ WriterOk(stop) /\ stop.selected = writer[x].selected
      /\ stop.draft = writer[x].draft /\ stop.prompt = writer[x].prompt
  BY <1>2, SelectionOf
     DEF WriterFields, WriterOk, Stages, LeaseChecks, Modes, Settled, CallResults
<1>7. /\ DOMAIN call = WriterFields /\ WriterOk(call) /\ call.selected = writer[x].selected
      /\ call.draft = draft /\ call.prompt = <<used, win>>
  BY <1>1, <1>2, SelectionOf
     DEF WriterFields, WriterOk, Stages, LeaseChecks, Modes, Settled, CallResults
<1> HIDE DEF stop, call
<1>8. CASE Set(x, stop)
  BY <1>2, <1>4, <1>6, <1>8, StageKeeps
<1>9. CASE Set(x, call) /\ budget # 0
  BY <1>2, <1>4, <1>5, <1>7, <1>9, StageKeeps
<1> QED
  BY <1>3, <1>8, <1>9

LEMMA SettleKeeps ==
  ASSUME Inv, NEW x \in Executions, Settle(x)
  PROVE  Inv'
<1> DEFINE kept == writer[x].call = "draft"
                   /\ ~DraftRejected(writer[x].draft, writer[x].selected)
           w == [writer[x] EXCEPT !.resv = Settlement(writer[x].call),
                  !.call = "none", !.prompt = <<0, 0>>,
                  !.at = IF kept THEN "put" ELSE "save",
                  !.draft = IF kept THEN @ ELSE NoDraft,
                  !.draftFor = IF kept THEN writer[x].selected ELSE <<>>,
                  !.mode = IF kept THEN "model" ELSE @]
<1>1. /\ writer[x].at = "settle" /\ Set(x, w)
      /\ UNCHANGED <<streamVars, accepted, owner, reports>> /\ CacheOk'
  BY DEF Settle, Inv, CacheOk
<1>2. /\ Settlement(writer[x].call) \in {"committed", "released", "uncertain"}
      /\ kept => Settlement(writer[x].call) = "committed"
  BY DEF Settlement
<1>3. kept \in BOOLEAN
  OBVIOUS
<1> HIDE DEF kept
<1>4. /\ DOMAIN w = WriterFields /\ WriterOk(w) /\ w.selected = writer[x].selected
      /\ w.draft \in {writer[x].draft, NoDraft} /\ w.prompt = <<0, 0>>
  BY <1>1, <1>2, <1>3, SelectionOf
     DEF WriterFields, WriterOk, Stages, LeaseChecks, Modes, Settled, CallResults
<1> HIDE DEF w
<1>5. w.draft \in Draft
  BY <1>4, SelectionOf, NoDraftIsDraft DEF WorksWell
<1>6. PromptOk(w.prompt)
  BY <1>4 DEF PromptOk
<1> QED
  BY <1>1, <1>4, <1>5, <1>6, StageKeeps

LEMMA PutKeeps ==
  ASSUME Inv, NEW x \in Executions, PutDraft(x)
  PROVE  Inv'
<1> DEFINE w == [writer[x] EXCEPT !.at = "save"]
<1>1. /\ writer[x].at = "put" /\ Set(x, w)
      /\ UNCHANGED <<streamVars, accepted, owner, reports>>
      /\ draftCache' \subseteq
           draftCache \cup {[context |-> writer[x].selected, draft |-> writer[x].draft]}
  BY DEF PutDraft
<1>2. /\ DOMAIN w = WriterFields /\ WriterOk(w) /\ w.selected = writer[x].selected
      /\ w.draft = writer[x].draft /\ w.prompt = writer[x].prompt
  BY <1>1, SelectionOf
     DEF WriterFields, WriterOk, Stages, LeaseChecks, Modes, Settled, CallResults
<1> HIDE DEF w
<1>3. writer[x].draft \in Draft /\ PromptOk(writer[x].prompt)
  BY SelectionOf DEF WorksWell
<1>4. CacheOk'
  BY <1>1, <1>3 DEF CacheOk, Inv
<1> QED
  BY <1>1, <1>2, <1>3, <1>4, StageKeeps

LEMMA LoseKeeps ==
  ASSUME Inv, NEW x \in Executions, LoseLease(x)
  PROVE  Inv'
BY OffIsOk, StepKeepsRun DEF LoseLease, Inv, CacheOk

-----------------------------------------------------------------------------
(* The commits.                                                            *)

LEMMA OwnerLeaves ==
  ASSUME Inv, NEW x \in Executions, Set(x, Off)
  PROVE  Writers'
<1>1. writer' = [writer EXCEPT ![x] = Off] /\ DOMAIN writer = Executions
  BY DEF Set, Inv, Writers
<1>2. \A y \in Executions : writer'[y] = Off \/ writer'[y] = writer[y]
  BY <1>1
<1> QED
  BY <1>1, <1>2, OffIsOk DEF Inv, Writers

(* A status that is neither reached from nor equal to completed.           *)
LEMMA NoReportYet ==
  ASSUME Inv, status # "completed", status' # "completed", UNCHANGED reports
  PROVE  ReportsInv'
BY DEF Inv, ReportsInv

LEMMA BeginKeeps ==
  ASSUME Inv, NEW x \in Executions, NEW found \in Findings, BeginWriting(x, found)
  PROVE  Inv' /\ [Delivery!Publish \/ Delivery!Deliver]_<<Log, received>>
<1> DEFINE w == [Off EXCEPT !.at = "load"]
<1>1. /\ status = "queued" /\ Commit("running", 1) /\ owner' = x /\ status' = "running"
      /\ accepted' = accepted \cup found /\ UNCHANGED <<draftCache, reports>>
      /\ writer' = [writer EXCEPT ![x] = w] /\ DOMAIN writer = Executions
  BY DEF BeginWriting, Commit, AppendEvents, Set, Inv, Writers
<1>2. DOMAIN w = WriterFields /\ WriterOk(w) /\ WorksWell(w) /\ w.at = "load"
  BY OffIsOk
<1> HIDE DEF w
<1>3. StreamInv' /\ [Delivery!Publish \/ Delivery!Deliver]_<<Log, received>>
  BY <1>1, CommitPublishes DEF Inv, Statuses
<1>4. writer'[x] = w /\ \A y \in Executions : y # x => writer'[y] = writer[y]
  BY <1>1
<1>5. Writers'
  BY <1>1, <1>2, <1>4 DEF Inv, Writers
<1>6. SelectionCurrent'
  BY <1>1, <1>2, <1>4 DEF SelectionCurrent, HoldsLease
<1>7. ReportsInv'
  BY <1>1, NoReportYet
<1>8. accepted' \subseteq DOMAIN Card /\ CacheOk'
  BY <1>1, WriterConstants DEF Inv, CacheOk
<1> QED
  BY <1>1, <1>3, <1>5, <1>6, <1>7, <1>8 DEF Inv

(* The commits that leave the reports alone: pause, takeover, cancel,      *)
(* resume and the two failures.                                            *)
LEMMA OtherCommitKeeps ==
  ASSUME Inv, NEW st \in Statuses \ {"running", "completed"}, Commit(st, 1),
         status # "completed", owner' = "none", UNCHANGED <<accepted, draftCache, reports>>,
         Writers'
  PROVE  Inv' /\ [Delivery!Publish \/ Delivery!Deliver]_<<Log, received>>
<1>1. status' # "completed"
  BY DEF Commit, AppendEvents
<1>2. ReportsInv'
  BY <1>1, NoReportYet
<1>3. CacheOk'
  BY DEF Inv, CacheOk
<1> QED
  BY <1>2, <1>3, CommitKeepsInv

(* What is saved was put together from the evidence that is accepted.      *)
LEMMA SavedIsSound ==
  ASSUME Inv, NEW x \in Executions, HoldsLease(x), writer[x].at = "save"
  PROVE  /\ ReportOf(x).verified /\ Range(ReportOf(x).citations) \subseteq accepted
         /\ \A e \in accepted : Card[e].question \in ReportOf(x).sections
<1> DEFINE sel == writer[x].selected
           report == AssembleReport(writer[x].draft, sel)
<1>1. /\ Selects(accepted, sel) /\ writer[x].draft \in Draft /\ sel \in Seq(DOMAIN Card)
      /\ accepted \subseteq DOMAIN Card
  BY SelectionOf DEF WorksWell, Inv
<1>2. /\ ReportOf(x).verified = report.verified /\ ReportOf(x).citations = report.citations
      /\ ReportOf(x).sections = report.sections
  BY DEF ReportOf
<1> HIDE DEF sel
<1>3. sel \in Seq(accepted) /\ Covers(sel, accepted)
  <2>1. sel = SelectWriterEvidence(accepted)
    BY <1>1 DEF Selects
  <2> QED
    BY <1>1, <2>1, SelectSound
<1>4. sel # <<>>
  BY <1>1, <1>3 DEF Selects, Covers
<1>5. AssembledWell(report, sel)
  BY <1>1, <1>4, AssembleSound
<1>6. Range(sel) \subseteq accepted
  BY <1>3, RangeOfSeq
<1> HIDE DEF report
<1>7. report.verified /\ Range(report.citations) \subseteq accepted
  BY <1>5, <1>6 DEF AssembledWell
<1>8. \A e \in accepted : Card[e].question \in report.sections
  BY <1>3, <1>5 DEF AssembledWell, Covers
<1> QED
  BY <1>2, <1>7, <1>8

LEMMA SaveKeeps ==
  ASSUME Inv, NEW x \in Executions, Save(x)
  PROVE  Inv' /\ [Delivery!Publish \/ Delivery!Deliver]_<<Log, received>>
<1>1. /\ writer[x].at = "save" /\ HoldsLease(x) /\ status = "running"
      /\ reports' = Append(reports, ReportOf(x)) /\ owner' = "none"
      /\ Commit("completed", SaveEvents) /\ status' = "completed"
      /\ Set(x, Off) /\ UNCHANGED accepted /\ CacheOk'
  BY DEF Save, HoldsLease, Commit, AppendEvents, Inv, CacheOk
<1>2. reports' = <<ReportOf(x)>>
  <2>1. reports = <<>>
    BY <1>1 DEF Inv, ReportsInv
  <2> QED
    BY <1>1, <2>1
<1>3. ReportOk(ReportOf(x))
  <2>1. /\ WriterOk(writer[x]) /\ writer[x].selected = SelectWriterEvidence(accepted)
    BY <1>1, SelectionOf DEF Selects
  <2>2. /\ ReportOf(x).mode = writer[x].mode /\ ReportOf(x).selected = writer[x].selected
        /\ ReportOf(x).draftFor = writer[x].draftFor /\ ReportOf(x).resv = writer[x].resv
        /\ ReportOf(x).evidence = accepted
    BY DEF ReportOf
  <2>3. /\ ReportOf(x).verified /\ Range(ReportOf(x).citations) \subseteq accepted
        /\ \A e \in accepted : Card[e].question \in ReportOf(x).sections
    BY <1>1, SavedIsSound
  <2> QED
    BY <1>1, <2>1, <2>2, <2>3 DEF ReportOk, WriterOk, Settled
<1>4. ReportsInv'
  <2>1. ReportOk(ReportOf(x)) /\ \A r : ReportOk(r) => ReportOk(r)'
    BY <1>3 DEF ReportOk
  <2> QED
    BY <1>1, <1>2, <1>3 DEF ReportsInv, ReportOk
<1>5. Writers'
  BY <1>1, OwnerLeaves
<1> QED
  BY <1>1, <1>4, <1>5, WriterConstants, CommitKeepsInv DEF Statuses, TERMINAL_RUN_STATUSES

-----------------------------------------------------------------------------
LEMMA InitInv == Init => Inv /\ Delivery!Init
<1> SUFFICES ASSUME Init PROVE Inv /\ Delivery!Init
  OBVIOUS
<1>1. /\ status = "none" /\ published = 0 /\ follower = Closed /\ received = <<>> /\ drops = 0
      /\ accepted = {} /\ owner = "none" /\ draftCache = {} /\ reports = <<>>
      /\ writer = [x \in Executions |-> Off]
  BY DEF Init, StreamInit
<1>2. /\ received \in Seq(Nat) /\ Len(received) = 0
      /\ Closed \in Followers /\ Closed.at = "closed"
  BY <1>1, EmptySeq DEF Closed, Followers
<1>3. StreamInv
  <2>1. StreamTypeOK
    BY <1>1, <1>2, StreamBounds DEF StreamTypeOK, Statuses
  <2> QED
    BY <1>1, <1>2, <2>1 DEF StreamInv
<1>4. Writers /\ CacheOk /\ SelectionCurrent /\ ReportsInv
  BY <1>1, OffIsOk DEF Writers, CacheOk, SelectionCurrent, HoldsLease, ReportsInv
<1>5. Delivery!Init
  <2>1. Log \in Seq(Nat) /\ Len(Log) = 0
    BY <1>1, LogIsSeq
  <2>2. Log = <<>>
    BY <2>1, EmptySeq
  <2> QED
    BY <1>1, <2>2 DEF Delivery!Init, Log
<1> QED
  BY <1>1, <1>3, <1>4, <1>5 DEF Inv

LEMMA StepInv ==
  Inv /\ [Next]_vars => Inv' /\ [Delivery!Publish \/ Delivery!Deliver]_<<Log, received>>
<1> SUFFICES ASSUME Inv, [Next]_vars
             PROVE  Inv' /\ [Delivery!Publish \/ Delivery!Deliver]_<<Log, received>>
  OBVIOUS
<1>1. ASSUME UNCHANGED streamVars
      PROVE  [Delivery!Publish \/ Delivery!Deliver]_<<Log, received>>
  BY <1>1 DEF streamVars, Log
<1>2. CASE UNCHANGED vars
  <2>1. Inv'
    BY <1>2 DEF vars, streamVars, writeVars, Inv, StreamInv, StreamTypeOK, Writers,
                CacheOk, SelectionCurrent, HoldsLease, ReportsInv
  <2> QED
    BY <1>1, <1>2, <2>1 DEF vars
<1>3. CASE ReadStep /\ UNCHANGED writeVars
  <2>1. StreamInv' /\ [Delivery!Publish \/ Delivery!Deliver]_<<Log, received>>
    BY <1>3, ReadKeepsStream DEF Inv
  <2>2. UNCHANGED <<status, accepted, owner, writer, draftCache, reports>>
    BY <1>3 DEF ReadStep, Connect, StreamList, StreamSend, StreamCheck, StreamDrop, writeVars
  <2> QED
    BY <2>1, <2>2 DEF Inv, Writers, CacheOk, SelectionCurrent, HoldsLease, ReportsInv
<1>4. CASE CreateRun
  <2>1. Writers'
    BY <1>4 DEF CreateRun, writeVars, Inv, Writers
  <2>2. SelectionCurrent' /\ ReportsInv'
    BY <1>4 DEF CreateRun, Commit, AppendEvents, writeVars, Inv, SelectionCurrent, HoldsLease,
                ReportsInv
  <2>3. StreamInv' /\ [Delivery!Publish \/ Delivery!Deliver]_<<Log, received>>
    BY <1>4, CommitPublishes DEF CreateRun, Inv, Statuses
  <2> QED
    BY <1>4, <2>1, <2>2, <2>3 DEF CreateRun, writeVars, Inv, CacheOk
<1>5. ASSUME NEW x \in Executions, NEW found \in Findings, BeginWriting(x, found)
      PROVE  Inv' /\ [Delivery!Publish \/ Delivery!Deliver]_<<Log, received>>
  BY <1>5, BeginKeeps
<1>6. ASSUME NEW new \in Statuses, Revoke(new)
      PROVE  Inv' /\ [Delivery!Publish \/ Delivery!Deliver]_<<Log, received>>
  <2>1. Writers'
    BY <1>6 DEF Revoke, Inv, Writers
  <2> QED
    BY <1>6, <2>1, OtherCommitKeeps DEF Revoke
<1>7. CASE UserRequest
  <2>1. /\ Writers' /\ status # "completed"
        /\ owner' = "none" /\ UNCHANGED <<accepted, draftCache, reports>>
        /\ Commit("cancelled", 1) \/ Commit("queued", 1)
    BY <1>7 DEF UserRequest, CancelRun, ResumeRun, Inv, Writers
  <2> QED
    BY <2>1, OtherCommitKeeps DEF Statuses, TERMINAL_RUN_STATUSES
<1>8. ASSUME NEW x \in Executions, Step(x)
      PROVE  Inv' /\ [Delivery!Publish \/ Delivery!Deliver]_<<Log, received>>
  <2>1. CASE LoseLease(x)
    BY <1>1, <2>1, LoseKeeps DEF LoseLease
  <2>2. ASSUME NEW b \in BOOLEAN, LoadForWriting(x, b) PROVE Inv' /\ UNCHANGED streamVars
    BY <2>2, LoadKeeps DEF LoadForWriting
  <2>3. ASSUME NEW b \in BOOLEAN, Reserve(x, b) PROVE Inv' /\ UNCHANGED streamVars
    BY <2>3, ReserveKeeps DEF Reserve
  <2>4. CASE FailNoEvidence(x) \/ FailExecution(x)
    <3>1. /\ HoldsLease(x) /\ Commit("failed", 1) /\ owner' = "none" /\ Set(x, Off)
          /\ UNCHANGED <<accepted, draftCache, reports>>
      BY <2>4 DEF FailNoEvidence, FailExecution
    <3>2. status # "completed"
      BY <3>1 DEF HoldsLease
    <3> QED
      BY <3>1, <3>2, OwnerLeaves, OtherCommitKeeps DEF Statuses, TERMINAL_RUN_STATUSES
  <2>5. CASE ReadDraftCache(x)
    BY <1>1, <2>5, CacheKeeps DEF ReadDraftCache
  <2>6. ASSUME NEW w \in Windows, NEW o \in CallOutcomes, NEW d \in Drafts,
               Generate(x, w, o, d)
        PROVE  Inv' /\ UNCHANGED streamVars
    BY <2>6, GenerateKeeps DEF Generate
  <2>7. CASE Settle(x)
    BY <1>1, <2>7, SettleKeeps DEF Settle
  <2>8. CASE PutDraft(x)
    BY <1>1, <2>8, PutKeeps DEF PutDraft
  <2>9. CASE Save(x)
    BY <2>9, SaveKeeps
  <2> QED
    BY <1>1, <1>8, <2>1, <2>2, <2>3, <2>4, <2>5, <2>6, <2>7, <2>8, <2>9 DEF Step
<1> QED
  BY <1>2, <1>3, <1>4, <1>5, <1>6, <1>7, <1>8 DEF Next

(* The invariant holds in every reachable state.                           *)
THEOREM WritingInvariant == Spec => []Inv
BY InitInv, StepInv, PTL DEF Spec

(* Whatever commits, drops and reconnections happen between the events of   *)
(* a run, over all its connections the follower receives the log of the run *)
(* itself: EventStream implements EventDelivery (stream_events,             *)
(* list_events).                                                            *)
THEOREM StreamDeliversTheLog == Spec => StreamImplementsDelivery
<1>1. Spec => Delivery!Init
  BY InitInv DEF Spec
<1>2. Inv /\ [Next]_vars => [Delivery!Publish \/ Delivery!Deliver]_<<Log, received>>
  BY StepInv
<1>3. Spec => [][Delivery!Publish \/ Delivery!Deliver]_<<Log, received>>
  BY <1>2, WritingInvariant, PTL DEF Spec
<1> QED
  BY <1>1, <1>3, PTL DEF StreamImplementsDelivery, Delivery!Spec, Log

(* However many executions write at once, of which all but one were         *)
(* revoked, a run has one report at most, and it has one exactly when it is *)
(* completed (save).                                                        *)
THEOREM CompletedWithReport == Spec => []CompletedExactlyWithReport
<1>1. Inv => CompletedExactlyWithReport
  <2> SUFFICES ASSUME Inv PROVE CompletedExactlyWithReport
    OBVIOUS
  <2>1. CASE reports = <<>> /\ status # "completed"
    BY <2>1 DEF CompletedExactlyWithReport
  <2>2. CASE status = "completed" /\ \E r : reports = <<r>>
    <3>1. Len(reports) = 1 /\ reports # <<>>
      BY <2>2
    <3> QED
      BY <2>2, <3>1 DEF CompletedExactlyWithReport
  <2> QED
    BY <2>1, <2>2 DEF Inv, ReportsInv
<1> QED
  BY <1>1, WritingInvariant, PTL

(* A draft of the model or the cache is used for the evidence it was made   *)
(* from, which is the evidence of the report, and its tokens are accounted  *)
(* for when the report is stored (write, _draft_context_hash).              *)
THEOREM DraftsStaySound == Spec => []DraftsSound
<1>1. Inv => DraftsSound
  <2> SUFFICES ASSUME Inv PROVE DraftsSound
    OBVIOUS
  <2>1. TypeOK
    BY DEF Inv, StreamInv, TypeOK, Writers, WriterOk, Stages, Settled
  <2>2. \A i \in DOMAIN reports : ReportOk(reports[i])
    BY DEF Inv, ReportsInv
  <2>3. DraftFitsEvidence /\ SavedReportIsPaidFor
    BY <2>2 DEF ReportOk, DraftFitsEvidence, SavedReportIsPaidFor
  <2> QED
    BY <2>1, <2>3 DEF DraftsSound
<1> QED
  BY <1>1, WritingInvariant, PTL
(* Whatever was accepted, however the executions interleave and whatever    *)
(* the model drafts, cites or numbers: prompts fit their window, and every  *)
(* stored report passes its citation check, cites accepted evidence only    *)
(* and answers every question that has any (_generate_draft,                *)
(* select_writer_evidence, assemble_report, verify_citation_integrity).     *)
THEOREM ReportsStaySound == Spec => []ReportsSound
<1>1. Inv => ReportsSound
  <2> SUFFICES ASSUME Inv PROVE ReportsSound
    OBVIOUS
  <2>1. PromptFitsWindow
    BY DEF Inv, Writers, WorksWell, PromptOk, PromptFitsWindow
  <2>2. \A i \in DOMAIN reports : ReportOk(reports[i])
    BY DEF Inv, ReportsInv
  <2>3. StoredReportsVerify /\ AnsweredQuestionsAppear
    BY <2>2 DEF ReportOk, StoredReportsVerify, AnsweredQuestionsAppear
  <2> QED
    BY <2>1, <2>3 DEF ReportsSound
<1> QED
  BY <1>1, WritingInvariant, PTL
==============================================================================
