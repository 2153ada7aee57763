---------------------- MODULE ModelBudgetLedgerProofs ----------------------
(***************************************************************************)
(* Proofs about ModelBudgetLedger for any number of executions, attempts   *)
(* and questions and any split of the budget: the types, that the tokens   *)
(* an answer reported are charged by every exit but the planner's refunds, *)
(* and that the pools, the reserves, the question limit and the snapshot   *)
(* hold as sums over the rows.                                             *)
(***************************************************************************)
EXTENDS ModelBudgetLedger, Integers, FiniteSets, Functions, FiniteSetTheorems,
        WellFoundedInduction, TLAPS

-----------------------------------------------------------------------------
(* Sums over a finite set                                                  *)

(* SumFunctionOnSet(f, S) of the community module Functions adds f[x] for  *)
(* every x in S, one chosen element at a time.  The order does not matter, *)
(* so that a sum can be taken apart at any element, compared with another  *)
(* one point by point, and follows a change of f at one point.             *)

(* Induction over the natural numbers, from their being well-founded. *)
LEMMA NatLeast ==
  ASSUME NEW T, T \subseteq Nat, T # {}
  PROVE  \E x \in T : \A y \in T : x <= y
<1>1. PICK x \in T : \A y \in T : ~ (<<y, x>> \in OpToRel(<, Nat))
  BY NatLessThanWellFounded, WFMin, Zenon
<1>2. \A y \in T : ~(y < x)
  BY <1>1, Zenon DEF OpToRel
<1> QED
  BY <1>2

LEMMA NatInduct ==
  ASSUME NEW T, 0 \in T, \A n \in Nat : n \in T => n + 1 \in T
  PROVE  Nat \subseteq T
<1> SUFFICES ASSUME Nat \ T # {} PROVE FALSE
  OBVIOUS
<1>1. PICK x \in Nat \ T : \A y \in Nat \ T : x <= y
  BY NatLeast
<1>2. x # 0 /\ x - 1 \in Nat /\ x - 1 \in T
  BY <1>1
<1> QED
  BY <1>2

(* The element the fold takes first, and the equation of the fold. *)
First(s) == CHOOSE x \in s : TRUE

Adds(g, f, S) ==
  g = [s \in SUBSET S |-> IF s = {} THEN 0 ELSE f[First(s)] + g[s \ {First(s)}]]

LEMMA SumIsFold ==
  ASSUME NEW f, NEW S
  PROVE  SumFunctionOnSet(f, S) = (CHOOSE g : Adds(g, f, S))[S]
BY DEF SumFunctionOnSet, FoldFunctionOnSet, MapThenFoldSet, Adds, First

(* A property of the subsets of a finite set that every one of them gets   *)
(* from those with one element less.                                       *)
LEMMA SubsetInduct ==
  ASSUME NEW D, IsFiniteSet(D), NEW U,
         \A s \in SUBSET D : (\A x \in s : s \ {x} \in U) => s \in U
  PROVE  SUBSET D \subseteq U
<1> DEFINE T == {n \in Nat : \A s \in SUBSET D : Cardinality(s) = n => s \in U}
<1>1. \A s \in SUBSET D : IsFiniteSet(s) /\ Cardinality(s) \in Nat
  BY FS_Subset, FS_CardinalityType
<1>2. 0 \in T
  BY <1>1, FS_EmptySet
<1>3. ASSUME NEW n \in Nat, n \in T PROVE n + 1 \in T
  <2>1. ASSUME NEW s \in SUBSET D, Cardinality(s) = n + 1 PROVE s \in U
    <3>1. ASSUME NEW x \in s PROVE s \ {x} \in U
      <4>1. Cardinality(s \ {x}) = n
        BY <1>1, <2>1, FS_RemoveElement
      <4> QED
        BY <1>3, <4>1
    <3> QED
      BY <3>1
  <2> QED
    BY <2>1
<1>4. Nat \subseteq T
  <2> HIDE DEF T
  <2> QED
    BY <1>2, <1>3, NatInduct
<1> QED
  BY <1>1, <1>4

Integral(f, S) == \A x \in S : f[x] \in Int

(* The fold has a solution, *)
LEMMA FoldExists ==
  ASSUME NEW S, IsFiniteSet(S), NEW f, Integral(f, S)
  PROVE  \E g : Adds(g, f, S)
<1> DEFINE Step(g) ==
             [s \in SUBSET S |-> IF s = {} THEN 0 ELSE f[First(s)] + g[s \ {First(s)}]]
           T == {n \in Nat : \E g \in [SUBSET S -> Int] :
                   \A s \in SUBSET S : Cardinality(s) <= n => g[s] = Step(g)[s]}
<1>1. \A s \in SUBSET S : IsFiniteSet(s) /\ Cardinality(s) \in Nat
  BY FS_Subset, FS_CardinalityType
<1>2. \A s \in SUBSET S : s # {} => First(s) \in s /\ f[First(s)] \in Int
  BY DEF First, Integral
<1>3. ASSUME NEW g \in [SUBSET S -> Int] PROVE Step(g) \in [SUBSET S -> Int]
  <2>1. ASSUME NEW s \in SUBSET S PROVE Step(g)[s] \in Int
    <3>1. s \ {First(s)} \in SUBSET S
      OBVIOUS
    <3> QED
      BY <1>2, <3>1
  <2> QED
    BY <2>1
<1>4. 0 \in T
  <2> DEFINE g == [s \in SUBSET S |-> 0]
  <2>1. g \in [SUBSET S -> Int]
    OBVIOUS
  <2>2. \A s \in SUBSET S : Cardinality(s) <= 0 => g[s] = Step(g)[s]
    BY <1>1, FS_EmptySet
  <2> QED
    BY <2>1, <2>2
<1>5. ASSUME NEW n \in Nat, n \in T PROVE n + 1 \in T
  <2>1. PICK g \in [SUBSET S -> Int] :
          \A s \in SUBSET S : Cardinality(s) <= n => g[s] = Step(g)[s]
    BY <1>5
  <2>2. Step(g) \in [SUBSET S -> Int]
    BY <1>3
  <2>3. ASSUME NEW s \in SUBSET S, Cardinality(s) <= n + 1
        PROVE  Step(g)[s] = Step(Step(g))[s]
    <3>1. CASE s = {}
      BY <3>1
    <3>2. CASE s # {}
      <4> DEFINE t == s \ {First(s)}
      <4>1. t \in SUBSET S /\ Cardinality(t) <= n
        BY <1>1, <1>2, <2>3, <3>2, FS_RemoveElement
      <4>2. g[t] = Step(g)[t]
        BY <2>1, <4>1
      <4> QED
        BY <3>2, <4>2
    <3> QED
      BY <3>1, <3>2
  <2> HIDE DEF Step
  <2> QED
    BY <2>2, <2>3
<1>6. Cardinality(S) \in T
  <2>1. Nat \subseteq T
    <3> HIDE DEF T
    <3> QED
      BY <1>4, <1>5, NatInduct
  <2> QED
    BY <1>1, <2>1
<1>7. PICK g \in [SUBSET S -> Int] :
        \A s \in SUBSET S : Cardinality(s) <= Cardinality(S) => g[s] = Step(g)[s]
  BY <1>6
<1>8. \A s \in SUBSET S : Cardinality(s) <= Cardinality(S)
  BY FS_Subset
<1>9. g = Step(g)
  BY <1>7, <1>8
<1> QED
  BY <1>9 DEF Adds

(* on each set only one, whatever larger set it is a solution for, *)
LEMMA FoldUnique ==
  ASSUME NEW S, IsFiniteSet(S), NEW D, S \subseteq D, NEW f, NEW h, Integral(f, S),
         \A x \in S : f[x] = h[x],
         NEW g, Adds(g, f, S), NEW k, Adds(k, h, D)
  PROVE  \A s \in SUBSET S : g[s] = k[s] /\ g[s] \in Int
<1> DEFINE U == {s \in SUBSET S : g[s] = k[s] /\ g[s] \in Int}
<1>1. ASSUME NEW s \in SUBSET S, \A x \in s : s \ {x} \in U PROVE s \in U
  <2>1. /\ g[s] = IF s = {} THEN 0 ELSE f[First(s)] + g[s \ {First(s)}]
        /\ k[s] = IF s = {} THEN 0 ELSE h[First(s)] + k[s \ {First(s)}]
    <3>1. s \in SUBSET D
      OBVIOUS
    <3> QED
      BY <3>1 DEF Adds
  <2>2. CASE s = {}
    BY <2>1, <2>2
  <2>3. CASE s # {}
    <3>1. First(s) \in s
      BY <2>3 DEF First
    <3>2. s \ {First(s)} \in U /\ f[First(s)] = h[First(s)] /\ f[First(s)] \in Int
      BY <1>1, <3>1 DEF Integral
    <3> QED
      BY <2>1, <2>3, <3>2
  <2> QED
    BY <2>2, <2>3
<1>2. SUBSET S \subseteq U
  <2> HIDE DEF U
  <2> QED
    BY <1>1, SubsetInduct
<1> QED
  BY <1>2

(* and any element may be taken first. *)
LEMMA FoldTakesAny ==
  ASSUME NEW S, IsFiniteSet(S), NEW f, Integral(f, S), NEW g, Adds(g, f, S)
  PROVE  \A s \in SUBSET S : \A x \in s : g[s] = f[x] + g[s \ {x}]
<1> DEFINE U == {s \in SUBSET S : \A x \in s : g[s] = f[x] + g[s \ {x}]}
<1>1. \A s \in SUBSET S : g[s] \in Int
  BY FoldUnique
<1>2. ASSUME NEW s \in SUBSET S, \A x \in s : s \ {x} \in U PROVE s \in U
  <2>1. ASSUME NEW x \in s PROVE g[s] = f[x] + g[s \ {x}]
    <3> DEFINE y == First(s)
    <3>1. y \in s /\ g[s] = f[y] + g[s \ {y}]
      BY DEF First, Adds
    <3>2. CASE x = y
      BY <3>1, <3>2
    <3>3. CASE x # y
      <4>1. x \in s \ {y} /\ y \in s \ {x} /\ s \ {x} \in U /\ s \ {y} \in U
        BY <1>2, <3>1, <3>3
      <4> DEFINE w == (s \ {x}) \ {y}
      <4>2. (s \ {y}) \ {x} = w /\ w \in SUBSET S
        OBVIOUS
      <4>3. g[s \ {y}] = f[x] + g[w] /\ g[s \ {x}] = f[y] + g[w]
        BY <4>1, <4>2
      <4>4. f[x] \in Int /\ f[y] \in Int /\ g[w] \in Int
        BY <1>1, <3>1, <4>2 DEF Integral
      <4> HIDE DEF y, w
      <4> QED
        BY <3>1, <4>3, <4>4
    <3> QED
      BY <3>2, <3>3
  <2> QED
    BY <2>1
<1>3. SUBSET S \subseteq U
  <2> HIDE DEF U
  <2> QED
    BY <1>2, SubsetInduct
<1> QED
  BY <1>3

-----------------------------------------------------------------------------
(* What a reader needs to know of sums.                                    *)

LEMMA SumIsAFold ==
  ASSUME NEW S, IsFiniteSet(S), NEW f, Integral(f, S)
  PROVE  \E g : Adds(g, f, S) /\ SumFunctionOnSet(f, S) = g[S]
BY FoldExists, SumIsFold

(* Functions that agree on a set have one sum over it. *)
LEMMA SumAgree ==
  ASSUME NEW S, IsFiniteSet(S), NEW f, NEW h, Integral(f, S), \A x \in S : f[x] = h[x]
  PROVE  SumFunctionOnSet(f, S) = SumFunctionOnSet(h, S)
<1>1. Integral(h, S)
  BY DEF Integral
<1>2. PICK g : Adds(g, f, S) /\ SumFunctionOnSet(f, S) = g[S]
  BY SumIsAFold
<1>3. PICK k : Adds(k, h, S) /\ SumFunctionOnSet(h, S) = k[S]
  BY <1>1, SumIsAFold
<1>4. S \in SUBSET S
  OBVIOUS
<1> QED
  BY <1>2, <1>3, <1>4, FoldUnique

LEMMA SumOfNothing ==
  ASSUME NEW f
  PROVE  SumFunctionOnSet(f, {}) = 0
<1>1. IsFiniteSet({}) /\ Integral(f, {})
  BY FS_EmptySet DEF Integral
<1>2. PICK g : Adds(g, f, {}) /\ SumFunctionOnSet(f, {}) = g[{}]
  BY <1>1, SumIsAFold
<1> QED
  BY <1>2 DEF Adds

(* One element taken out. *)
LEMMA SumTakeOut ==
  ASSUME NEW S, IsFiniteSet(S), NEW f, Integral(f, S)
  PROVE  /\ SumFunctionOnSet(f, S) \in Int
         /\ \A x \in S : SumFunctionOnSet(f, S) = f[x] + SumFunctionOnSet(f, S \ {x})
<1>1. PICK g : Adds(g, f, S) /\ SumFunctionOnSet(f, S) = g[S]
  BY SumIsAFold
<1>2. SumFunctionOnSet(f, S) \in Int
  BY <1>1, FoldUnique
<1>3. ASSUME NEW x \in S
      PROVE  SumFunctionOnSet(f, S) = f[x] + SumFunctionOnSet(f, S \ {x})
  <2> DEFINE R == S \ {x}
  <2>1. IsFiniteSet(R) /\ Integral(f, R) /\ R \subseteq S /\ R \in SUBSET R
    BY FS_Subset DEF Integral
  <2>2. PICK k : Adds(k, f, R) /\ SumFunctionOnSet(f, R) = k[R]
    BY <2>1, SumIsAFold
  <2>3. k[R] = g[R]
    <3> HIDE DEF R
    <3> QED
      BY <1>1, <2>1, <2>2, FoldUnique
  <2>4. g[S] = f[x] + g[R]
    BY <1>1, FoldTakesAny
  <2> QED
    BY <1>1, <2>2, <2>3, <2>4
<1> QED
  BY <1>2, <1>3

(* A sum is at most another one when its terms are. *)
LEMMA SumLeq ==
  ASSUME NEW S, IsFiniteSet(S), NEW f, NEW h, Integral(f, S), Integral(h, S),
         \A x \in S : f[x] <= h[x]
  PROVE  SumFunctionOnSet(f, S) <= SumFunctionOnSet(h, S)
<1> DEFINE U == {s \in SUBSET S : SumFunctionOnSet(f, s) <= SumFunctionOnSet(h, s)}
<1>1. ASSUME NEW s \in SUBSET S, \A x \in s : s \ {x} \in U PROVE s \in U
  <2>1. CASE s = {}
    BY <2>1, SumOfNothing
  <2>2. CASE s # {}
    <3>1. PICK x \in s : TRUE
      BY <2>2
    <3>2. \A r \in SUBSET S : IsFiniteSet(r) /\ Integral(f, r) /\ Integral(h, r)
      BY FS_Subset DEF Integral
    <3>3. s \ {x} \in SUBSET S
      OBVIOUS
    <3>4. /\ SumFunctionOnSet(f, s) = f[x] + SumFunctionOnSet(f, s \ {x})
          /\ SumFunctionOnSet(h, s) = h[x] + SumFunctionOnSet(h, s \ {x})
          /\ SumFunctionOnSet(f, s \ {x}) \in Int /\ SumFunctionOnSet(h, s \ {x}) \in Int
      BY <3>2, <3>3, SumTakeOut
    <3>5. f[x] \in Int /\ h[x] \in Int /\ f[x] <= h[x]
      BY DEF Integral
    <3>6. SumFunctionOnSet(f, s \ {x}) <= SumFunctionOnSet(h, s \ {x})
      BY <1>1
    <3> QED
      BY <3>4, <3>5, <3>6
  <2> QED
    BY <2>1, <2>2
<1>2. SUBSET S \subseteq U
  <2> HIDE DEF U
  <2> QED
    BY <1>1, SubsetInduct
<1> QED
  BY <1>2

(* The sum of two sums. *)
LEMMA SumPlus ==
  ASSUME NEW S, IsFiniteSet(S), NEW f, NEW h, NEW k, Integral(f, S), Integral(h, S),
         \A x \in S : k[x] = f[x] + h[x]
  PROVE  SumFunctionOnSet(k, S) = SumFunctionOnSet(f, S) + SumFunctionOnSet(h, S)
<1> DEFINE U == {s \in SUBSET S :
                   SumFunctionOnSet(k, s) = SumFunctionOnSet(f, s) + SumFunctionOnSet(h, s)}
<1>1. ASSUME NEW s \in SUBSET S, \A x \in s : s \ {x} \in U PROVE s \in U
  <2>1. CASE s = {}
    BY <2>1, SumOfNothing
  <2>2. CASE s # {}
    <3>1. PICK x \in s : TRUE
      BY <2>2
    <3>2. \A r \in SUBSET S : IsFiniteSet(r) /\ Integral(f, r) /\ Integral(h, r) /\ Integral(k, r)
      BY FS_Subset DEF Integral
    <3>3. s \ {x} \in SUBSET S
      OBVIOUS
    <3>4. /\ SumFunctionOnSet(f, s) = f[x] + SumFunctionOnSet(f, s \ {x})
          /\ SumFunctionOnSet(h, s) = h[x] + SumFunctionOnSet(h, s \ {x})
          /\ SumFunctionOnSet(k, s) = k[x] + SumFunctionOnSet(k, s \ {x})
          /\ SumFunctionOnSet(f, s \ {x}) \in Int /\ SumFunctionOnSet(h, s \ {x}) \in Int
      BY <3>2, <3>3, SumTakeOut
    <3>5. f[x] \in Int /\ h[x] \in Int /\ k[x] = f[x] + h[x]
      BY DEF Integral
    <3>6. SumFunctionOnSet(k, s \ {x})
            = SumFunctionOnSet(f, s \ {x}) + SumFunctionOnSet(h, s \ {x})
      BY <1>1
    <3> QED
      BY <3>4, <3>5, <3>6
  <2> QED
    BY <2>1, <2>2
<1>2. SUBSET S \subseteq U
  <2> HIDE DEF U
  <2> QED
    BY <1>1, SubsetInduct
<1> QED
  BY <1>2

(* A sum over part of a set, as one over the set with zeros. *)
LEMMA SumOfPart ==
  ASSUME NEW D, IsFiniteSet(D), NEW S, S \subseteq D, NEW f, Integral(f, S), NEW h,
         \A x \in D : h[x] = IF x \in S THEN f[x] ELSE 0
  PROVE  SumFunctionOnSet(f, S) = SumFunctionOnSet(h, D)
<1> DEFINE U == {s \in SUBSET D : SumFunctionOnSet(f, s \cap S) = SumFunctionOnSet(h, s)}
<1>1. ASSUME NEW s \in SUBSET D, \A x \in s : s \ {x} \in U PROVE s \in U
  <2>1. CASE s = {}
    <3>1. s \cap S = {}
      BY <2>1
    <3> QED
      BY <2>1, <3>1, SumOfNothing
  <2>2. CASE s # {}
    <3>1. PICK x \in s : TRUE
      BY <2>2
    <3>2. \A r \in SUBSET D : IsFiniteSet(r) /\ Integral(f, r \cap S) /\ Integral(h, r)
                              /\ IsFiniteSet(r \cap S)
      <4>1. \A r \in SUBSET D : r \cap S \in SUBSET D
        OBVIOUS
      <4> QED
        BY <4>1, FS_Subset DEF Integral
    <3>3. SumFunctionOnSet(h, s) = h[x] + SumFunctionOnSet(h, s \ {x})
      BY <3>2, SumTakeOut
    <3>4. SumFunctionOnSet(f, (s \ {x}) \cap S) = SumFunctionOnSet(h, s \ {x})
      BY <1>1
    <3>5. s \ {x} \in SUBSET D
      OBVIOUS
    <3>6. SumFunctionOnSet(h, s \ {x}) \in Int
      BY <3>2, <3>5, SumTakeOut
    <3>7. CASE x \in S
      <4>1. (s \cap S) \ {x} = (s \ {x}) \cap S /\ x \in s \cap S
        BY <3>7
      <4>2. SumFunctionOnSet(f, s \cap S) = f[x] + SumFunctionOnSet(f, (s \cap S) \ {x})
        BY <3>2, <4>1, SumTakeOut
      <4> QED
        BY <3>3, <3>4, <3>7, <4>1, <4>2
    <3>8. CASE x \notin S
      <4>1. s \cap S = (s \ {x}) \cap S
        BY <3>8
      <4> QED
        BY <3>3, <3>4, <3>6, <3>8, <4>1
    <3> QED
      BY <3>7, <3>8
  <2> QED
    BY <2>1, <2>2
<1>2. SUBSET D \subseteq U
  <2> HIDE DEF U
  <2> QED
    BY <1>1, SubsetInduct
<1>3. D \cap S = S
  OBVIOUS
<1> QED
  BY <1>2, <1>3

(* A function changed at one point. *)
LEMMA SumChange ==
  ASSUME NEW S, IsFiniteSet(S), NEW f, NEW h, Integral(f, S), Integral(h, S), NEW x \in S,
         \A y \in S : y # x => h[y] = f[y]
  PROVE  SumFunctionOnSet(h, S) = SumFunctionOnSet(f, S) + h[x] - f[x]
<1> DEFINE R == S \ {x}
<1>1. IsFiniteSet(R) /\ Integral(f, R) /\ \A y \in R : f[y] = h[y]
  BY FS_Subset DEF Integral
<1>2. SumFunctionOnSet(f, R) = SumFunctionOnSet(h, R) /\ SumFunctionOnSet(f, R) \in Int
  <2> HIDE DEF R
  <2> QED
    BY <1>1, SumAgree, SumTakeOut
<1>3. /\ SumFunctionOnSet(f, S) = f[x] + SumFunctionOnSet(f, R)
      /\ SumFunctionOnSet(h, S) = h[x] + SumFunctionOnSet(h, R)
  BY SumTakeOut
<1>4. f[x] \in Int /\ h[x] \in Int
  BY DEF Integral
<1> HIDE DEF R
<1> QED
  BY <1>2, <1>3, <1>4

LEMMA SumOfZeros ==
  ASSUME NEW S, IsFiniteSet(S), NEW f, \A x \in S : f[x] = 0
  PROVE  SumFunctionOnSet(f, S) = 0
<1>1. Integral(f, S)
  BY DEF Integral
<1>2. SumFunctionOnSet(f, S) = SumFunctionOnSet(f, S) + SumFunctionOnSet(f, S)
  BY <1>1, SumPlus
<1> DEFINE n == SumFunctionOnSet(f, S)
<1>3. n \in Int
  BY <1>1, SumTakeOut
<1>4. n = n + n
  BY <1>2
<1> HIDE DEF n
<1>5. n = 0
  BY <1>3, <1>4
<1> QED
  BY <1>5 DEF n

(* A sum of natural numbers is one, and at least each of its terms. *)
LEMMA SumOfNaturals ==
  ASSUME NEW S, IsFiniteSet(S), NEW f, \A x \in S : f[x] \in Nat
  PROVE  /\ SumFunctionOnSet(f, S) \in Nat
         /\ \A x \in S : f[x] <= SumFunctionOnSet(f, S)
<1> DEFINE zero == [x \in S |-> 0]
<1>1. Integral(f, S) /\ Integral(zero, S) /\ \A x \in S : zero[x] = 0 /\ zero[x] <= f[x]
  BY DEF Integral
<1> HIDE DEF zero
<1>2. \A R \in SUBSET S : SumFunctionOnSet(f, R) \in Nat
  <2>1. ASSUME NEW R \in SUBSET S PROVE SumFunctionOnSet(f, R) \in Nat
    <3>1. IsFiniteSet(R) /\ Integral(f, R) /\ Integral(zero, R)
      BY <1>1, FS_Subset DEF Integral
    <3>2. SumFunctionOnSet(zero, R) = 0
      BY <1>1, <3>1, SumOfZeros
    <3>3. SumFunctionOnSet(zero, R) <= SumFunctionOnSet(f, R)
      BY <1>1, <3>1, SumLeq
    <3>4. SumFunctionOnSet(f, R) \in Int
      BY <3>1, SumTakeOut
    <3> QED
      BY <3>2, <3>3, <3>4
  <2> QED
    BY <2>1
<1>3. ASSUME NEW x \in S PROVE f[x] <= SumFunctionOnSet(f, S)
  <2>1. SumFunctionOnSet(f, S) = f[x] + SumFunctionOnSet(f, S \ {x})
    BY <1>1, SumTakeOut
  <2>2. SumFunctionOnSet(f, S \ {x}) \in Nat
    BY <1>2
  <2> QED
    BY <2>1, <2>2
<1> QED
  BY <1>2, <1>3

-----------------------------------------------------------------------------
(* The types and the bill *)

(* Where an execution works on a row, and where it has neither row nor     *)
(* question to carry on.                                                   *)
Working == {"planning", "compact", "setup", "cleanup"} \cup Extracting \cup Writing

Quiet == Places \ (Working \cup {"reserve"})

ContextType == [pc : Places, attempt : Attempts \cup {NoAttempt},
                question : Questions \cup {NoQuestion},
                call : Nat, used : Nat, known : BOOLEAN, result : Results]

(* An execution about to reserve an extraction has a question. *)
Contexts == {x \in ContextType : x.pc = "reserve" => x.question \in Questions}

Bills == [reported : Nat, heard : {"uncalled", "silent", "answered"}]

(* One row and what its calls reported. *)
RowOK(r, b) ==
  /\ r.status # "settled" => r.actual = 0
  /\ r.status = "none" => b = NoBill
  /\ r.status = "settled" => r.actual = b.reported /\ b.heard # "silent"
  /\ r.status \in {"reserved", "uncertain"} =>
       b.reported <= r.reserved + (IF r.node \in Repeaters THEN r.reserved ELSE 0)
  /\ r.status = "released" =>
       IF r.node = "planner" THEN b.reported <= r.reserved ELSE b = NoBill

(* The model node a place belongs to. *)
NodeOf(pc) == IF pc \in {"planning", "compact"} THEN "planner"
              ELSE IF pc \in Writing THEN "report_writer" ELSE "evidence_extractor"

(* Before a second call of the planner or the writer one call's tokens are *)
(* reported at most; an extraction's calls share one reservation.          *)
OneCall(x) == \/ x.pc \in {"planning", "writing"} \cup Extracting
              \/ x.pc \in {"compact", "regenerating"} /\ x.result = "none"

(* An execution that works on a call, and the row of its attempt: it knows *)
(* what was reported, and that something was.                              *)
LinkOK(x, r, b) ==
  /\ r.status # "none"
  /\ r.node = NodeOf(x.pc)
  /\ x.pc # "cleanup" =>
       /\ r.status = "reserved" /\ x.used = b.reported
       /\ x.known => \/ b.heard = "answered"
                     \/ b.heard = "uncalled" /\ x.pc = "last" /\ x.result = "ok"
       /\ x.result \in {"ok", "usage"} => x.known
  /\ x.pc = "setup" => b = NoBill /\ x.result = "none" /\ ~x.known
  /\ x.pc \in {"planning", "writing"} /\ x.result = "none" => b = NoBill
  /\ OneCall(x) => b.reported <= r.reserved

Types ==
  /\ rows \in [Attempts -> Rows]
  /\ usage \in [planner : Nat, evidence : Nat, writer : Nat]
  /\ frozen \subseteq Questions
  /\ planned \in BOOLEAN /\ done \in BOOLEAN
  /\ exec \in [Executions -> Contexts]
  /\ bill \in [Attempts -> Bills]

Linked ==
  \A e \in Executions : exec[e].pc \in Working =>
    /\ exec[e].attempt \in Attempts
    /\ LinkOK(exec[e], rows[exec[e].attempt], bill[exec[e].attempt])

(* Attempt ids are fresh, so no two executions work on one row. *)
Exclusive ==
  \A e \in Executions : \A f \in Executions :
    e # f /\ exec[e].pc \in Working /\ exec[f].pc \in Working =>
      exec[e].attempt # exec[f].attempt

IInv ==
  /\ Types
  /\ \A a \in Attempts : RowOK(rows[a], bill[a])
  /\ Linked
  /\ Exclusive

Rest == /\ usage \in [planner : Nat, evidence : Nat, writer : Nat]
        /\ frozen \subseteq Questions
        /\ planned \in BOOLEAN /\ done \in BOOLEAN

(* A step of one execution that touches no row keeps the invariant when it *)
(* leaves its attempt alone or stops working.                              *)
LEMMA QuietStep ==
  ASSUME IInv, NEW e \in Executions,
         UNCHANGED <<rows, bill>>, Rest',
         NEW x \in Contexts, exec' = [exec EXCEPT ![e] = x],
         x.pc \in Working =>
           /\ exec[e].pc \in Working /\ x.attempt = exec[e].attempt
           /\ LinkOK(x, rows[x.attempt], bill[x.attempt])
  PROVE  IInv'
<1>1. Types'
  BY DEF IInv, Types, Rest
<1>2. exec'[e] = x /\ \A f \in Executions : f # e => exec'[f] = exec[f]
  BY DEF IInv, Types
<1>3. \A a \in Attempts : RowOK(rows'[a], bill'[a])
  BY DEF IInv
<1>4. Linked'
  BY <1>2 DEF IInv, Linked
<1>5. Exclusive'
  BY <1>2 DEF IInv, Exclusive
<1> QED
  BY <1>1, <1>3, <1>4, <1>5 DEF IInv

(* A step of one execution on the row of one attempt that nobody else      *)
(* works on.                                                               *)
LEMMA RowStep ==
  ASSUME IInv, NEW e \in Executions, NEW a \in Attempts, Rest',
         NEW r \in Rows, rows' = [rows EXCEPT ![a] = r],
         NEW b \in Bills, bill' = [bill EXCEPT ![a] = b],
         NEW x \in Contexts, exec' = [exec EXCEPT ![e] = x],
         \A f \in Executions : f # e /\ exec[f].pc \in Working => exec[f].attempt # a,
         RowOK(r, b),
         x.pc \in Working => x.attempt = a /\ LinkOK(x, r, b)
  PROVE  IInv'
<1>1. Types'
  BY DEF IInv, Types, Rest
<1>2. exec'[e] = x /\ \A f \in Executions : f # e => exec'[f] = exec[f]
  BY DEF IInv, Types
<1>3. /\ rows'[a] = r /\ bill'[a] = b
      /\ \A c \in Attempts : c # a => rows'[c] = rows[c] /\ bill'[c] = bill[c]
  BY DEF IInv, Types
<1>4. \A c \in Attempts : RowOK(rows'[c], bill'[c])
  BY <1>3 DEF IInv
<1>5. Linked'
  BY <1>2, <1>3 DEF IInv, Linked
<1>6. Exclusive'
  BY <1>2 DEF IInv, Exclusive
<1> QED
  BY <1>1, <1>4, <1>5, <1>6 DEF IInv

(* The same when nothing is billed. *)
LEMMA UnbilledStep ==
  ASSUME IInv, NEW e \in Executions, NEW a \in Attempts, Rest', UNCHANGED bill,
         NEW r \in Rows, rows' = [rows EXCEPT ![a] = r],
         NEW x \in Contexts, exec' = [exec EXCEPT ![e] = x],
         \A f \in Executions : f # e /\ exec[f].pc \in Working => exec[f].attempt # a,
         RowOK(r, bill[a]),
         x.pc \in Working => x.attempt = a /\ LinkOK(x, r, bill[a])
  PROVE  IInv'
<1>1. Types'
  BY DEF IInv, Types, Rest
<1>2. exec'[e] = x /\ \A f \in Executions : f # e => exec'[f] = exec[f]
  BY DEF IInv, Types
<1>3. rows'[a] = r /\ \A c \in Attempts : c # a => rows'[c] = rows[c]
  BY DEF IInv, Types
<1>4. \A c \in Attempts : RowOK(rows'[c], bill'[c])
  BY <1>3 DEF IInv
<1>5. Linked'
  BY <1>2, <1>3 DEF IInv, Linked
<1>6. Exclusive'
  BY <1>2 DEF IInv, Exclusive
<1> QED
  BY <1>1, <1>4, <1>5, <1>6 DEF IInv

(* An execution that stops working: the same, with Goto. *)
LEMMA GotoContext ==
  ASSUME NEW pc \in Quiet
  PROVE  /\ [Resting EXCEPT !.pc = pc] \in Contexts
         /\ [Resting EXCEPT !.pc = pc].pc = pc
BY DEF Resting, Contexts, ContextType, Quiet, Results

LEMMA QuietGoto ==
  ASSUME IInv, NEW e \in Executions, UNCHANGED <<rows, bill>>, Rest',
         NEW pc \in Quiet, Goto(e, pc)
  PROVE  IInv'
<1>1. exec' = [exec EXCEPT ![e] = [Resting EXCEPT !.pc = pc]]
  BY DEF Goto
<1> QED
  BY <1>1, GotoContext, QuietStep DEF Quiet

(* What each of the ledger's transactions makes of a row. *)
LEMMA SettleRow ==
  ASSUME Types, NEW a \in Attempts, NEW t \in Nat, settle_reservation(a, t)
  PROVE  \E r \in Rows :
           /\ rows' = [rows EXCEPT ![a] = r]
           /\ \/ r = rows[a] /\ r.status \in {"settled", "released"}
              \/ r.status = "settled" /\ r.actual = t /\ r.node = rows[a].node
<1>1. rows[a] \in Rows /\ rows = [rows EXCEPT ![a] = rows[a]]
  BY DEF Types
<1>2. CASE rows[a].status \in {"settled", "released"}
  BY <1>1, <1>2 DEF settle_reservation
<1>3. CASE rows[a].status \notin {"settled", "released"}
  <2> DEFINE r == [rows[a] EXCEPT !.status = "settled", !.actual = t]
  <2>1. r \in Rows /\ r.status = "settled" /\ r.actual = t /\ r.node = rows[a].node
    BY <1>1 DEF Rows
  <2>2. rows' = [rows EXCEPT ![a] = r]
    BY <1>3 DEF settle_reservation
  <2> QED
    BY <2>1, <2>2
<1> QED
  BY <1>2, <1>3

LEMMA UncertainRow ==
  ASSUME Types, NEW a \in Attempts, mark_uncertain(a)
  PROVE  \E r \in Rows :
           /\ rows' = [rows EXCEPT ![a] = r]
           /\ \/ r = rows[a] /\ r.status # "reserved"
              \/ /\ rows[a].status = "reserved" /\ r.status = "uncertain"
                 /\ r.actual = rows[a].actual /\ r.node = rows[a].node
                 /\ r.reserved = rows[a].reserved
<1>1. rows[a] \in Rows /\ rows = [rows EXCEPT ![a] = rows[a]]
  BY DEF Types
<1>2. CASE rows[a].status # "reserved"
  BY <1>1, <1>2 DEF mark_uncertain
<1>3. CASE rows[a].status = "reserved"
  <2> DEFINE r == [rows[a] EXCEPT !.status = "uncertain"]
  <2>1. /\ r \in Rows /\ r.status = "uncertain" /\ r.actual = rows[a].actual
        /\ r.node = rows[a].node /\ r.reserved = rows[a].reserved
    BY <1>1 DEF Rows
  <2>2. rows' = [rows EXCEPT ![a] = r]
    BY <1>3 DEF mark_uncertain
  <2> QED
    BY <1>3, <2>1, <2>2
<1> QED
  BY <1>2, <1>3

LEMMA ReleaseRow ==
  ASSUME Types, NEW a \in Attempts, release_reservation(a)
  PROVE  \E r \in Rows :
           /\ rows' = [rows EXCEPT ![a] = r]
           /\ \/ r = rows[a] /\ r.status # "reserved"
              \/ /\ rows[a].status = "reserved" /\ r.status = "released"
                 /\ r.actual = rows[a].actual /\ r.node = rows[a].node
                 /\ r.reserved = rows[a].reserved
<1>1. rows[a] \in Rows /\ rows = [rows EXCEPT ![a] = rows[a]]
  BY DEF Types
<1>2. CASE rows[a].status # "reserved"
  BY <1>1, <1>2 DEF release_reservation
<1>3. CASE rows[a].status = "reserved"
  <2> DEFINE r == [rows[a] EXCEPT !.status = "released"]
  <2>1. /\ r \in Rows /\ r.status = "released" /\ r.actual = rows[a].actual
        /\ r.node = rows[a].node /\ r.reserved = rows[a].reserved
    BY <1>1 DEF Rows
  <2>2. rows' = [rows EXCEPT ![a] = r]
    BY <1>3 DEF release_reservation
  <2> QED
    BY <1>3, <2>1, <2>2
<1> QED
  BY <1>2, <1>3

(* An execution closes its row as the code does: it settles when a usage   *)
(* was reported, refunds what was not called (or the planner's first       *)
(* call), and keeps the reservation in every other case.                   *)
Closes(e) ==
  LET x == exec[e] IN
  \/ settle_reservation(x.attempt, x.used) /\ x.known /\ x.pc # "cleanup"
  \/ mark_uncertain(x.attempt)
  \/ /\ release_reservation(x.attempt)
     /\ \/ x.pc \in {"planning", "setup"}
        \/ x.pc = "writing" /\ x.result = "none"

LEMMA CloseStep ==
  ASSUME IInv, NEW e \in Executions, exec[e].pc \in Working, Closes(e),
         UNCHANGED bill, Rest',
         NEW x \in Contexts, exec' = [exec EXCEPT ![e] = x],
         \/ x.pc \notin Working
         \/ /\ x.pc = "cleanup" /\ x.attempt = exec[e].attempt
            /\ exec[e].pc \in Extracting
  PROVE  IInv'
<1> DEFINE a == exec[e].attempt
<1>1. /\ a \in Attempts /\ LinkOK(exec[e], rows[a], bill[a]) /\ RowOK(rows[a], bill[a])
      /\ rows[a] \in Rows /\ bill[a] \in Bills /\ exec[e].used \in Nat
      /\ exec[e] \in Contexts
  BY DEF IInv, Types, Linked, Contexts, ContextType
<1>2. PICK r \in Rows :
        /\ rows' = [rows EXCEPT ![a] = r]
        /\ RowOK(r, bill[a]) /\ r.node = rows[a].node /\ r.status # "none"
  <2>1. CASE settle_reservation(a, exec[e].used) /\ exec[e].known /\ exec[e].pc # "cleanup"
    <3>1. PICK r \in Rows :
            /\ rows' = [rows EXCEPT ![a] = r]
            /\ \/ r = rows[a] /\ r.status \in {"settled", "released"}
               \/ r.status = "settled" /\ r.actual = exec[e].used /\ r.node = rows[a].node
      BY <1>1, <2>1, SettleRow DEF IInv
    <3>2. exec[e].used = bill[a].reported /\ bill[a].heard # "silent"
      BY <1>1, <2>1 DEF LinkOK
    <3>3. RowOK(r, bill[a])
      <4>1. CASE r = rows[a]
        BY <1>1, <4>1
      <4>2. CASE r # rows[a]
        <5>1. r.status = "settled" /\ r.actual = bill[a].reported
          BY <3>1, <3>2, <4>2
        <5> QED
          BY <3>2, <5>1 DEF RowOK
      <4> QED
        BY <4>1, <4>2
    <3>4. r.node = rows[a].node /\ r.status # "none"
      BY <3>1
    <3> QED
      BY <3>1, <3>3, <3>4
  <2>2. CASE mark_uncertain(a)
    <3>1. PICK r \in Rows :
            /\ rows' = [rows EXCEPT ![a] = r]
            /\ \/ r = rows[a] /\ r.status # "reserved"
               \/ /\ rows[a].status = "reserved" /\ r.status = "uncertain"
                  /\ r.actual = rows[a].actual /\ r.node = rows[a].node
                  /\ r.reserved = rows[a].reserved
      BY <1>1, <2>2, UncertainRow DEF IInv
    <3> QED
      BY <1>1, <3>1 DEF RowOK, LinkOK
  <2>3. CASE release_reservation(a)
             /\ (\/ exec[e].pc \in {"planning", "setup"}
                 \/ exec[e].pc = "writing" /\ exec[e].result = "none")
    <3>1. PICK r \in Rows :
            /\ rows' = [rows EXCEPT ![a] = r]
            /\ \/ r = rows[a] /\ r.status # "reserved"
               \/ /\ rows[a].status = "reserved" /\ r.status = "released"
                  /\ r.actual = rows[a].actual /\ r.node = rows[a].node
                  /\ r.reserved = rows[a].reserved
      BY <1>1, <2>3, ReleaseRow DEF IInv
    <3>2. \/ rows[a].node = "planner" /\ bill[a].reported <= rows[a].reserved
          \/ rows[a].node # "planner" /\ bill[a] = NoBill
      BY <1>1, <2>3 DEF LinkOK, NodeOf, OneCall, Writing
    <3>3. RowOK(r, bill[a])
      <4>1. CASE r = rows[a]
        BY <1>1, <4>1
      <4>2. CASE r # rows[a]
        <5>1. r.status = "released" /\ r.actual = 0
          BY <1>1, <3>1, <4>2 DEF RowOK
        <5>2. IF r.node = "planner" THEN bill[a].reported <= r.reserved ELSE bill[a] = NoBill
          BY <3>1, <3>2, <4>2
        <5> QED
          BY <5>1, <5>2 DEF RowOK
      <4> QED
        BY <4>1, <4>2
    <3>4. r.node = rows[a].node /\ r.status # "none"
      BY <1>1, <3>1 DEF LinkOK
    <3> QED
      BY <3>1, <3>3, <3>4
  <2> QED
    BY <2>1, <2>2, <2>3 DEF Closes
<1>4. \A f \in Executions : f # e /\ exec[f].pc \in Working => exec[f].attempt # a
  BY DEF IInv, Exclusive
<1>5. x.pc \in Working => x.attempt = a /\ LinkOK(x, r, bill[a])
  <2>1. CASE x.pc = "cleanup" /\ x.attempt = exec[e].attempt /\ exec[e].pc \in Extracting
    <3>1. rows[a].node = "evidence_extractor"
      BY <1>1, <2>1 DEF LinkOK, NodeOf, Extracting, Writing
    <3> QED
      BY <1>2, <2>1, <3>1 DEF LinkOK, NodeOf, OneCall, Extracting, Writing
  <2> QED
    BY <2>1
<1> HIDE DEF a
<1> QED
  BY <1>1, <1>2, <1>4, <1>5, UnbilledStep

(* A reservation: a fresh row and an execution that holds it. *)
LEMMA ReserveStep ==
  ASSUME IInv, NEW e \in Executions, NEW a \in Attempts, Fresh(a),
         NEW node \in Nodes, NEW q \in Questions \cup {NoQuestion}, NEW n \in Nat,
         NEW pc \in {"planning", "setup", "writing"},
         node = NodeOf(pc),
         Insert(a, node, q, n), Hold(e, a, 0, pc),
         UNCHANGED <<usage, frozen, planned, done, bill>>
  PROVE  IInv'
<1> DEFINE r == [status |-> "reserved", node |-> node, question |-> q,
                 reserved |-> n, actual |-> 0, lapsed |-> FALSE]
           x == [Resting EXCEPT !.pc = pc, !.attempt = a, !.used = 0]
<1>1. r \in Rows /\ r.status = "reserved" /\ r.node = node /\ r.reserved = n /\ r.actual = 0
  BY DEF Rows
<1>2. /\ x \in Contexts /\ x.pc = pc /\ x.attempt = a /\ x.used = 0
      /\ x.known = FALSE /\ x.result = "none"
  <2>1. pc \in Places \ {"reserve"} /\ a \in Attempts \cup {NoAttempt}
    BY DEF Places, Writing
  <2> QED
    BY <2>1 DEF Resting, Contexts, ContextType, Results
<1>3. bill[a] = NoBill /\ bill' = [bill EXCEPT ![a] = NoBill] /\ NoBill \in Bills
      /\ NoBill.reported = 0
  BY DEF IInv, Types, RowOK, Fresh, NoBill, Bills
<1>4. \A f \in Executions : f # e /\ exec[f].pc \in Working => exec[f].attempt # a
  BY DEF IInv, Linked, LinkOK, Fresh
<1>7. rows' = [rows EXCEPT ![a] = r] /\ exec' = [exec EXCEPT ![e] = x]
  BY DEF Insert, Hold
<1> HIDE DEF r, x
<1>5. RowOK(r, NoBill)
  BY <1>1, <1>3 DEF RowOK
<1>6. LinkOK(x, r, NoBill)
  BY <1>1, <1>2, <1>3 DEF LinkOK
<1>8. Rest'
  BY DEF IInv, Types, Rest
<1> QED
  BY <1>1, <1>2, <1>3, <1>4, <1>5, <1>6, <1>7, <1>8, RowStep

(* A call of the execution: what the row's link becomes. *)
LEMMA CalledStep ==
  ASSUME IInv, NEW e \in Executions, NEW a \in Attempts, a = exec[e].attempt,
         exec[e].pc \in Working, UNCHANGED <<rows, usage, frozen, planned, done>>,
         NEW c \in Bills, bill' = [bill EXCEPT ![a] = c],
         NEW x \in Contexts, exec' = [exec EXCEPT ![e] = x],
         RowOK(rows[a], c), x.attempt = a, LinkOK(x, rows[a], c)
  PROVE  IInv'
<1>1. rows[a] \in Rows /\ rows' = [rows EXCEPT ![a] = rows[a]]
  BY DEF IInv, Types
<1>2. \A f \in Executions : f # e /\ exec[f].pc \in Working => exec[f].attempt # a
  BY DEF IInv, Exclusive
<1>3. Rest'
  BY DEF IInv, Types, Rest
<1> DEFINE r == rows[a]
<1>4. r \in Rows /\ rows' = [rows EXCEPT ![a] = r] /\ RowOK(r, c)
      /\ (x.pc \in Working => x.attempt = a /\ LinkOK(x, r, c))
  BY <1>1
<1> HIDE DEF r
<1> QED
  BY <1>2, <1>3, <1>4, RowStep

(* The provider's answer is within what the request was sized to; silence  *)
(* tells nobody anything.                                                  *)
LEMMA CallStep ==
  ASSUME IInv, NEW e \in Executions, CallModel(e)
  PROVE  IInv'
<1> DEFINE a == exec[e].attempt
           r == rows[a]
           b == bill[a]
<1>1. /\ exec[e].pc \in {"planning", "compact"} \cup Extracting \cup Writing
      /\ exec[e].pc \in Working /\ exec[e].pc \notin {"setup", "cleanup"}
      /\ exec[e].result = "none"
      /\ UNCHANGED <<rows, usage, frozen, planned, done>>
  BY DEF CallModel, Working, Extracting, Writing
<1>2. /\ a \in Attempts /\ LinkOK(exec[e], r, b) /\ RowOK(r, b)
      /\ r \in Rows /\ b \in Bills /\ exec[e] \in Contexts
  BY <1>1 DEF IInv, Types, Linked
<1>3. r.reserved \in Nat /\ exec[e].used \in Nat /\ b.reported \in Nat
  BY <1>2 DEF Rows, Contexts, ContextType, Bills
<1>4. /\ r.status = "reserved" /\ r.node = NodeOf(exec[e].pc)
      /\ exec[e].used = b.reported /\ b.reported <= r.reserved
      /\ exec[e].pc \in {"planning", "writing"} => b = NoBill
      /\ exec[e].known => b.heard = "answered"
  BY <1>1, <1>2 DEF LinkOK, OneCall, Extracting, Writing
<1>5. CASE \E result \in {"ok", "usage"}, tokens \in 0 .. CallCap(e) :
             /\ exec' = [exec EXCEPT ![e] = [exec[e] EXCEPT !.result = result, !.known = TRUE,
                                                            !.used = @ + tokens]]
             /\ bill' = [bill EXCEPT ![a].reported = @ + tokens, ![a].heard = "answered"]
  <2>1. PICK result \in {"ok", "usage"}, tokens \in 0 .. CallCap(e) :
             /\ exec' = [exec EXCEPT ![e] = [exec[e] EXCEPT !.result = result, !.known = TRUE,
                                                            !.used = @ + tokens]]
             /\ bill' = [bill EXCEPT ![a].reported = @ + tokens, ![a].heard = "answered"]
    BY <1>5
  <2>2. CallCap(e) = r.reserved - (IF exec[e].pc \in Extracting THEN exec[e].used ELSE 0)
    BY DEF CallCap
  <2>3. /\ tokens \in Nat
        /\ exec[e].pc \in {"planning", "writing"} \cup Extracting =>
             b.reported + tokens <= r.reserved
        /\ b.reported + tokens <= r.reserved + r.reserved
    <3>1. NoBill.reported = 0
      BY DEF NoBill
    <3> HIDE DEF r, b
    <3> QED
      BY <1>3, <1>4, <2>1, <2>2, <3>1
  <2> DEFINE u == exec[e].used + tokens
             v == b.reported + tokens
             x == [exec[e] EXCEPT !.result = result, !.known = TRUE, !.used = u]
             c == [b EXCEPT !.reported = v, !.heard = "answered"]
  <2>4. u \in Nat /\ v \in Nat /\ u = v
    BY <1>3, <1>4, <2>3
  <2>5. exec' = [exec EXCEPT ![e] = x] /\ bill' = [bill EXCEPT ![a] = c]
    <3>1. exec' = [exec EXCEPT ![e] = x]
      BY <2>1
    <3>2. bill' = [bill EXCEPT ![a] = c]
      BY <1>2, <2>1 DEF IInv, Types, Bills
    <3> QED
      BY <3>1, <3>2
  <2> HIDE DEF u, v
  <2>6. /\ x \in Contexts /\ x.pc = exec[e].pc /\ x.attempt = a /\ x.result = result
        /\ x.known = TRUE /\ x.used = u
    BY <1>2, <2>1, <2>4 DEF Contexts, ContextType, Results
  <2>7. c \in Bills /\ c.reported = v /\ c.heard = "answered"
    BY <1>2, <2>4 DEF Bills
  <2> HIDE DEF x, c
  <2>8. RowOK(r, c)
    <3>1. r.node \notin Repeaters => v <= r.reserved
      BY <1>1, <1>4, <2>3 DEF NodeOf, Repeaters, v, Extracting, Writing
    <3>2. v <= r.reserved + r.reserved
      BY <2>3 DEF v
    <3>3. r.actual = 0
      BY <1>2, <1>4 DEF RowOK
    <3> HIDE DEF r
    <3> QED
      BY <1>3, <1>4, <2>4, <2>7, <3>1, <3>2, <3>3 DEF RowOK
  <2>9. LinkOK(x, r, c)
    <3>1. exec[e].pc \in {"planning", "writing"} \cup Extracting => v <= r.reserved
      BY <2>3 DEF v
    <3> HIDE DEF r
    <3> QED
      BY <1>1, <1>4, <2>1, <2>4, <2>6, <2>7, <3>1 DEF LinkOK, OneCall
  <2> HIDE DEF a, b
  <2> QED
    BY <1>1, <1>2, <2>5, <2>6, <2>7, <2>8, <2>9, CalledStep DEF a
<1>6. CASE \E result \in {"unknown", "fatal"} :
             /\ exec' = [exec EXCEPT ![e].result = result]
             /\ bill' = [bill EXCEPT ![a].heard = IF @ = "uncalled" THEN "silent" ELSE @]
  <2>1. PICK result \in {"unknown", "fatal"} :
             /\ exec' = [exec EXCEPT ![e].result = result]
             /\ bill' = [bill EXCEPT ![a].heard = IF @ = "uncalled" THEN "silent" ELSE @]
    BY <1>6
  <2> DEFINE h == IF b.heard = "uncalled" THEN "silent" ELSE b.heard
             x == [exec[e] EXCEPT !.result = result]
             c == [b EXCEPT !.heard = h]
  <2>2. h \in {"silent", "answered"} /\ (b.heard = "answered" => h = "answered")
    BY <1>2 DEF Bills
  <2>3. exec' = [exec EXCEPT ![e] = x] /\ bill' = [bill EXCEPT ![a] = c]
    BY <1>2, <2>1 DEF IInv, Types, Contexts, ContextType, Bills
  <2> HIDE DEF h
  <2>4. /\ x \in Contexts /\ x.pc = exec[e].pc /\ x.attempt = a /\ x.result = result
        /\ x.known = exec[e].known /\ x.used = exec[e].used
    BY <1>2, <2>1 DEF Contexts, ContextType, Results
  <2>5. c \in Bills /\ c.reported = b.reported /\ c.heard = h
    BY <1>2, <2>2 DEF Bills
  <2> HIDE DEF x, c
  <2>6. RowOK(r, c)
    BY <1>2, <1>4, <2>5 DEF RowOK
  <2>7. LinkOK(x, r, c)
    BY <1>1, <1>2, <1>4, <2>1, <2>2, <2>4, <2>5 DEF LinkOK, OneCall
  <2> HIDE DEF a, b
  <2> QED
    BY <1>1, <1>2, <2>3, <2>4, <2>5, <2>6, <2>7, CalledStep DEF a
<1> QED
  BY <1>5, <1>6 DEF CallModel

(* A lease runs out: no link reads it. *)
LEMMA LapseStep ==
  ASSUME IInv, NEW a \in Attempts, Lapse(a)
  PROVE  IInv'
<1> DEFINE r == [rows[a] EXCEPT !.lapsed = TRUE]
<1>1. /\ r \in Rows /\ r.status = rows[a].status /\ r.node = rows[a].node
      /\ r.reserved = rows[a].reserved /\ r.actual = rows[a].actual
  BY DEF IInv, Types, Rows
<1>2. rows' = [rows EXCEPT ![a] = r]
  BY DEF Lapse
<1>3. /\ rows'[a] = r /\ \A c \in Attempts : c # a => rows'[c] = rows[c]
  BY <1>2 DEF IInv, Types
<1> HIDE DEF r
<1>4. Types'
  BY <1>1, <1>2 DEF IInv, Types, Lapse
<1>5. \A c \in Attempts : RowOK(rows'[c], bill'[c])
  <2>1. RowOK(r, bill[a])
    BY <1>1 DEF IInv, RowOK
  <2> QED
    BY <1>3, <2>1 DEF IInv, Lapse
<1>6. Linked'
  <2>1. ASSUME NEW e \in Executions, exec[e].pc \in Working
        PROVE  /\ exec[e].attempt \in Attempts
               /\ LinkOK(exec[e], rows'[exec[e].attempt], bill[exec[e].attempt])
    BY <1>1, <1>3, <2>1 DEF IInv, Linked, LinkOK
  <2> QED
    BY <2>1 DEF Linked, Lapse
<1>7. Exclusive'
  BY DEF IInv, Exclusive, Lapse
<1> QED
  BY <1>4, <1>5, <1>6, <1>7 DEF IInv

(* Steps that only move an execution on. *)
LEMMA Moves ==
  ASSUME IInv, NEW e \in Executions,
         \/ Start(e) \/ Lose(e) \/ RefusePlanner(e) \/ SavePlan(e)
         \/ RefuseEvidence(e) \/ ExtractionRaises(e)
         \/ StartWriting(e) \/ SkipWriter(e) \/ SaveReport(e)
  PROVE  IInv'
<1>1. UNCHANGED <<rows, bill>>
  BY DEF Start, Lose, RefusePlanner, SavePlan, RefuseEvidence, ExtractionRaises,
         StartWriting, SkipWriter, SaveReport
<1>2. /\ exec[e].used \in Nat
      /\ exec[e].question \in Questions \cup {NoQuestion}
  BY DEF IInv, Types, Contexts, ContextType
<1>3. Rest'
  <2>1. CASE SavePlan(e)
    BY <1>2, <2>1 DEF SavePlan, IInv, Types, Rest
  <2>2. CASE SaveReport(e)
    BY <1>2, <2>2 DEF SaveReport, IInv, Types, Rest
  <2>3. CASE RefuseEvidence(e)
    <3>1. exec[e].question \in Questions
      BY <2>3 DEF RefuseEvidence, At, IInv, Types, Contexts
    <3> QED
      BY <2>3, <3>1 DEF RefuseEvidence, IInv, Types, Rest
  <2>4. CASE \/ Start(e) \/ Lose(e) \/ RefusePlanner(e) \/ ExtractionRaises(e)
             \/ StartWriting(e) \/ SkipWriter(e)
    BY <2>4 DEF Start, Lose, RefusePlanner, ExtractionRaises, StartWriting, SkipWriter,
                IInv, Types, Rest
  <2> QED
    BY <2>1, <2>2, <2>3, <2>4
<1>4. \E pc \in Quiet : Goto(e, pc)
  BY DEF Start, Lose, RefusePlanner, SavePlan, RefuseEvidence, ExtractionRaises,
         StartWriting, SkipWriter, SaveReport, Quiet, Places, Working, Extracting, Writing
<1> QED
  BY <1>1, <1>3, <1>4, QuietGoto

(* Steps that close a row. *)
LEMMA Closings ==
  ASSUME IInv, NEW e \in Executions, exec[e].pc \in Working, Closes(e),
         UNCHANGED bill, Rest',
         \/ \E pc \in Quiet : Goto(e, pc)
         \/ exec' = [exec EXCEPT ![e].pc = "save_plan"]
         \/ exec[e].pc \in Extracting /\ Hold(e, exec[e].attempt, 0, "cleanup")
         \/ \E n \in Nat : Hold(e, exec[e].attempt, n, "save_report")
  PROVE  IInv'
<1>1. exec[e] \in Contexts /\ exec[e].attempt \in Attempts \cup {NoAttempt}
  BY DEF IInv, Types, Contexts, ContextType
<1>2. CASE \E pc \in Quiet : Goto(e, pc)
  <2>1. PICK pc \in Quiet : exec' = [exec EXCEPT ![e] = [Resting EXCEPT !.pc = pc]]
    BY <1>2 DEF Goto
  <2> QED
    BY <2>1, GotoContext, CloseStep DEF Quiet
<1>3. CASE exec' = [exec EXCEPT ![e].pc = "save_plan"]
  <2> DEFINE x == [exec[e] EXCEPT !.pc = "save_plan"]
  <2>1. x \in Contexts /\ x.pc = "save_plan" /\ exec' = [exec EXCEPT ![e] = x]
    BY <1>1, <1>3 DEF Contexts, ContextType, Places
  <2> HIDE DEF x
  <2> QED
    BY <2>1, CloseStep DEF Working, Extracting, Writing
<1>4. CASE exec[e].pc \in Extracting /\ Hold(e, exec[e].attempt, 0, "cleanup")
  <2> DEFINE x == [Resting EXCEPT !.pc = "cleanup", !.attempt = exec[e].attempt, !.used = 0]
  <2>1. exec' = [exec EXCEPT ![e] = x]
    BY <1>4 DEF Hold
  <2>2. x \in Contexts /\ x.pc = "cleanup" /\ x.attempt = exec[e].attempt
    <3>1. "cleanup" \in Places \ {"reserve"}
      BY DEF Places
    <3> QED
      BY <1>1, <3>1 DEF Resting, Contexts, ContextType, Results
  <2> HIDE DEF x
  <2> QED
    BY <1>4, <2>1, <2>2, CloseStep
<1>5. CASE \E n \in Nat : Hold(e, exec[e].attempt, n, "save_report")
  <2>0. PICK n \in Nat : Hold(e, exec[e].attempt, n, "save_report")
    BY <1>5
  <2> DEFINE x == [Resting EXCEPT !.pc = "save_report", !.attempt = exec[e].attempt, !.used = n]
  <2>1. exec' = [exec EXCEPT ![e] = x]
    BY <2>0 DEF Hold
  <2>2. x \in Contexts /\ x.pc = "save_report"
    <3>1. "save_report" \in Places \ {"reserve"}
      BY DEF Places
    <3> QED
      BY <1>1, <3>1 DEF Resting, Contexts, ContextType, Results
  <2> HIDE DEF x
  <2> QED
    BY <2>1, <2>2, CloseStep DEF Working, Extracting, Writing
<1> QED
  BY <1>2, <1>3, <1>4, <1>5

(* Where an execution calls a second time, and from where. *)
Again(from, to) ==
  \/ from = "planning" /\ to = "compact"
  \/ from = "extracting" /\ to \in {"retrying", "last"}
  \/ from = "retrying" /\ to = "last"
  \/ from = "writing" /\ to = "regenerating"

(* A working execution goes on with its row untouched. *)
LEMMA Advances ==
  ASSUME IInv, NEW e \in Executions, UNCHANGED <<rows, bill>>, Rest',
         \/ exec[e].pc = "setup" /\ exec' = [exec EXCEPT ![e].pc = "extracting"]
         \/ /\ exec[e].pc = "setup"
            /\ exec' = [exec EXCEPT ![e].pc = "last", ![e].known = TRUE, ![e].result = "ok"]
         \/ \E pc \in Places :
              /\ Again(exec[e].pc, pc)
              /\ exec' = [exec EXCEPT ![e].pc = pc, ![e].result = "none"]
         \/ exec[e].pc \in Extracting /\ Hold(e, exec[e].attempt, 0, "cleanup")
  PROVE  IInv'
<1>1. exec[e].pc \in Working /\ exec[e] \in Contexts /\ exec[e].attempt \in Attempts \cup {NoAttempt}
  BY DEF IInv, Types, Working, Again, Extracting, Writing, Contexts, ContextType
<1>2. LinkOK(exec[e], rows[exec[e].attempt], bill[exec[e].attempt])
  BY <1>1 DEF IInv, Linked
<1>3. CASE exec[e].pc = "setup" /\ exec' = [exec EXCEPT ![e].pc = "extracting"]
  <2> DEFINE x == [exec[e] EXCEPT !.pc = "extracting"]
  <2>1. /\ x \in Contexts /\ x.pc = "extracting" /\ x.attempt = exec[e].attempt
        /\ x.result = exec[e].result /\ x.used = exec[e].used /\ x.known = exec[e].known
        /\ exec' = [exec EXCEPT ![e] = x]
    BY <1>1, <1>3 DEF Contexts, ContextType, Places, Extracting
  <2> HIDE DEF x
  <2>2. LinkOK(x, rows[x.attempt], bill[x.attempt])
    <3> DEFINE r == rows[exec[e].attempt]
               b == bill[exec[e].attempt]
    <3>1. r.reserved \in Nat
      BY <1>1 DEF IInv, Types, Linked, Rows
    <3> HIDE DEF r, b
    <3>2. LinkOK(exec[e], r, b) => LinkOK(x, r, b)
      BY <1>3, <2>1, <3>1 DEF LinkOK, NodeOf, OneCall, NoBill, Extracting, Writing
    <3> QED
      BY <1>2, <2>1, <3>2 DEF r, b
  <2> QED
    BY <1>1, <2>1, <2>2, QuietStep
<1>4. CASE /\ exec[e].pc = "setup"
           /\ exec' = [exec EXCEPT ![e].pc = "last", ![e].known = TRUE, ![e].result = "ok"]
  <2> DEFINE x == [exec[e] EXCEPT !.pc = "last", !.known = TRUE, !.result = "ok"]
  <2>1. /\ x \in Contexts /\ x.pc = "last" /\ x.attempt = exec[e].attempt
        /\ x.result = "ok" /\ x.used = exec[e].used /\ x.known = TRUE
        /\ exec' = [exec EXCEPT ![e] = x]
    BY <1>1, <1>4 DEF Contexts, ContextType, Places, Extracting, Results
  <2> HIDE DEF x
  <2>2. LinkOK(x, rows[x.attempt], bill[x.attempt])
    <3> DEFINE r == rows[exec[e].attempt]
               b == bill[exec[e].attempt]
    <3>1. r.reserved \in Nat
      BY <1>1 DEF IInv, Types, Linked, Rows
    <3> HIDE DEF r, b
    <3>2. LinkOK(exec[e], r, b) => LinkOK(x, r, b)
      BY <1>4, <2>1, <3>1 DEF LinkOK, NodeOf, OneCall, NoBill, Extracting, Writing
    <3> QED
      BY <1>2, <2>1, <3>2 DEF r, b
  <2> QED
    BY <1>1, <2>1, <2>2, QuietStep
<1>5. CASE \E pc \in Places : /\ Again(exec[e].pc, pc)
                              /\ exec' = [exec EXCEPT ![e].pc = pc, ![e].result = "none"]
  <2>0. PICK pc \in Places : /\ Again(exec[e].pc, pc)
                             /\ exec' = [exec EXCEPT ![e].pc = pc, ![e].result = "none"]
    BY <1>5
  <2> DEFINE x == [exec[e] EXCEPT !.pc = pc, !.result = "none"]
  <2>1. /\ x \in Contexts /\ x.pc = pc /\ x.attempt = exec[e].attempt
        /\ x.result = "none" /\ x.used = exec[e].used /\ x.known = exec[e].known
        /\ exec' = [exec EXCEPT ![e] = x]
    <3>1. pc # "reserve"
      BY <2>0 DEF Again
    <3> QED
      BY <1>1, <2>0, <3>1 DEF Contexts, ContextType, Results
  <2> HIDE DEF x
  <2>2. LinkOK(x, rows[x.attempt], bill[x.attempt])
    <3> DEFINE r == rows[exec[e].attempt]
               b == bill[exec[e].attempt]
    <3> HIDE DEF r, b
    <3>2. LinkOK(exec[e], r, b) => LinkOK(x, r, b)
      BY <2>0, <2>1 DEF Again, LinkOK, NodeOf, OneCall, Extracting, Writing
    <3> QED
      BY <1>2, <2>1, <3>2 DEF r, b
  <2> QED
    BY <1>1, <2>1, <2>2, QuietStep
<1>6. CASE exec[e].pc \in Extracting /\ Hold(e, exec[e].attempt, 0, "cleanup")
  <2> DEFINE x == [Resting EXCEPT !.pc = "cleanup", !.attempt = exec[e].attempt, !.used = 0]
  <2>0. exec' = [exec EXCEPT ![e] = x]
    BY <1>6 DEF Hold
  <2>1. x \in Contexts /\ x.pc = "cleanup" /\ x.attempt = exec[e].attempt
    <3>1. "cleanup" \in Places \ {"reserve"}
      BY DEF Places
    <3> QED
      BY <1>1, <3>1 DEF Resting, Contexts, ContextType, Results
  <2> HIDE DEF x
  <2>2. LinkOK(x, rows[x.attempt], bill[x.attempt])
    BY <1>2, <1>6, <2>1 DEF LinkOK, NodeOf, OneCall, Extracting, Writing
  <2> QED
    BY <1>1, <2>0, <2>1, <2>2, QuietStep
<1> QED
  BY <1>3, <1>4, <1>5, <1>6

LEMMA InvInit == Init => IInv
<1> SUFFICES ASSUME Init PROVE IInv
  OBVIOUS
<1>1. NoRow \in Rows /\ NoRow.status = "none" /\ NoRow.actual = 0
  BY DEF NoRow, Rows, Nodes
<1>2. Resting \in Contexts /\ Resting.pc \notin Working
  BY DEF Resting, Contexts, ContextType, Places, Results, Working, Extracting, Writing
<1>3. Types
  BY <1>1, <1>2 DEF Init, Types, NoBill, Bills
<1>4. \A a \in Attempts : RowOK(rows[a], bill[a])
  BY <1>1 DEF Init, RowOK
<1>5. Linked /\ Exclusive
  BY <1>2 DEF Init, Linked, Exclusive
<1> QED
  BY <1>3, <1>4, <1>5 DEF IInv

LEMMA PlanStep ==
  ASSUME IInv, NEW e \in Executions, Plan(e)
  PROVE  IInv'
<1>1. CASE ReservePlanner(e)
  <2>1. PICK a \in Attempts : /\ Fresh(a) /\ Insert(a, "planner", NoQuestion, PlannerCall)
                              /\ Hold(e, a, 0, "planning")
    BY <1>1 DEF ReservePlanner
  <2>2. UNCHANGED <<usage, frozen, planned, done, bill>> /\ PlannerCall \in Nat
    BY <1>1, CallAssumption DEF ReservePlanner
  <2> QED
    BY <2>1, <2>2, ReserveStep DEF Nodes, NodeOf, Writing
<1>2. CASE RefusePlanner(e) \/ SavePlan(e)
  BY <1>2, Moves
<1>3. CASE SettlePlanner(e) \/ ReleasePlanner(e) \/ SettleCompact(e) \/ CompactFails(e)
  <2>1. exec[e].pc \in {"planning", "compact"} /\ exec[e].pc \in Working
    BY <1>3 DEF SettlePlanner, ReleasePlanner, SettleCompact, CompactFails, Ended, Working
  <2>0. exec[e].result = "ok" => exec[e].known
    BY <2>1 DEF IInv, Linked, LinkOK
  <2>4. Closes(e)
    BY <1>3, <2>0 DEF SettlePlanner, ReleasePlanner, SettleCompact, CompactFails, Ended, Closes
  <2>2. UNCHANGED bill /\ Rest'
    BY <1>3 DEF SettlePlanner, ReleasePlanner, SettleCompact, CompactFails, IInv, Types, Rest
  <2>3. \/ \E pc \in Quiet : Goto(e, pc)
        \/ exec' = [exec EXCEPT ![e].pc = "save_plan"]
    BY <1>3 DEF SettlePlanner, ReleasePlanner, SettleCompact, CompactFails, Quiet, Places, Working,
                Extracting, Writing
  <2> QED
    BY <2>1, <2>2, <2>3, <2>4, Closings
<1>4. CASE BuildCompactRequest(e)
  <2>1. exec[e].pc = "planning" /\ UNCHANGED bill /\ Rest'
    BY <1>4 DEF BuildCompactRequest, Ended, IInv, Types, Rest
  <2>2. CASE /\ exec' = [exec EXCEPT ![e].pc = "compact", ![e].result = "none"]
             /\ UNCHANGED rows
    BY <2>1, <2>2, Advances DEF Again, Places
  <2>3. CASE release_reservation(exec[e].attempt) /\ Goto(e, "idle")
    BY <2>1, <2>3, Closings DEF Closes, Working, Quiet, Places, Extracting, Writing
  <2> QED
    BY <1>4, <2>2, <2>3 DEF BuildCompactRequest
<1> QED
  BY <1>1, <1>2, <1>3, <1>4 DEF Plan

LEMMA ExtractStep ==
  ASSUME IInv, NEW e \in Executions, Extract(e)
  PROVE  IInv'
<1>1. CASE EvidenceModelBudget(e)
  <2>1. PICK q \in Questions, call \in MinCall .. MaxCall :
          exec' = [exec EXCEPT ![e].pc = "reserve", ![e].question = q, ![e].call = call]
    BY <1>1 DEF EvidenceModelBudget
  <2> DEFINE x == [exec[e] EXCEPT !.pc = "reserve", !.question = q, !.call = call]
  <2>2. call \in Nat
    BY CallAssumption
  <2>3. x \in Contexts /\ x.pc = "reserve" /\ exec' = [exec EXCEPT ![e] = x]
    BY <2>1, <2>2 DEF IInv, Types, Contexts, ContextType, Places
  <2>4. UNCHANGED <<rows, bill>> /\ Rest'
    BY <1>1 DEF EvidenceModelBudget, IInv, Types, Rest
  <2> HIDE DEF x
  <2> QED
    BY <2>3, <2>4, QuietStep DEF Working, Extracting, Writing
<1>2. CASE ReserveEvidence(e)
  <2>1. PICK a \in Attempts :
          /\ Fresh(a) /\ Insert(a, "evidence_extractor", exec[e].question, exec[e].call)
          /\ Hold(e, a, 0, "setup")
    BY <1>2 DEF ReserveEvidence
  <2>2. /\ UNCHANGED <<usage, frozen, planned, done, bill>>
        /\ exec[e].call \in Nat /\ exec[e].question \in Questions \cup {NoQuestion}
    BY <1>2 DEF ReserveEvidence, IInv, Types, Contexts, ContextType
  <2> QED
    BY <2>1, <2>2, ReserveStep DEF Nodes, NodeOf, Writing
<1>3. CASE RefuseEvidence(e) \/ ExtractionRaises(e)
  BY <1>3, Moves
<1>4. CASE SetUp(e)
  <2>1. exec[e].pc = "setup" /\ UNCHANGED bill /\ Rest'
    BY <1>4 DEF SetUp, At, IInv, Types, Rest
  <2>2. CASE /\ \/ exec' = [exec EXCEPT ![e].pc = "extracting"]
                \/ exec' = [exec EXCEPT ![e].pc = "last", ![e].known = TRUE, ![e].result = "ok"]
             /\ UNCHANGED rows
    BY <2>1, <2>2, Advances
  <2>3. CASE release_reservation(exec[e].attempt) /\ Goto(e, "idle")
    BY <2>1, <2>3, Closings DEF Closes, Working, Quiet, Places, Extracting, Writing
  <2> QED
    BY <1>4, <2>2, <2>3 DEF SetUp
<1>5. CASE RecordExtraction(e)
  <2>1. exec[e].pc \in Extracting /\ exec[e].pc \in Working /\ exec[e].pc # "cleanup"
        /\ UNCHANGED <<bill, frozen, planned, done>>
    BY <1>5 DEF RecordExtraction, Ended, Working, Extracting
  <2>2. CASE /\ Hold(e, exec[e].attempt, 0, "cleanup")
             /\ UNCHANGED <<rows, usage>>
    <3>1. Rest'
      BY <2>1, <2>2 DEF IInv, Types, Rest
    <3> QED
      BY <2>1, <2>2, <3>1, Advances
  <2>3. CASE Record(e) /\ (\/ \E pc \in Quiet : Goto(e, pc)
                           \/ Hold(e, exec[e].attempt, 0, "cleanup"))
    <3>1. Closes(e)
      BY <2>1, <2>3 DEF Record, Closes
    <3>2. exec[e].used \in Nat
      BY DEF IInv, Types, Contexts, ContextType
    <3>3. Rest'
      BY <2>1, <2>3, <3>2 DEF Record, IInv, Types, Rest
    <3> QED
      BY <2>1, <2>3, <3>1, <3>3, Closings
  <2>4. "research" \in Quiet /\ "idle" \in Quiet
    BY DEF Quiet, Places, Working, Extracting, Writing
  <2> QED
    BY <1>5, <2>2, <2>3, <2>4 DEF RecordExtraction
<1>6. CASE CleanUp(e)
  <2>1. exec[e].pc = "cleanup" /\ UNCHANGED bill /\ Rest' /\ Goto(e, "idle") /\ Closes(e)
    BY <1>6 DEF CleanUp, At, IInv, Types, Rest, Closes
  <2> QED
    BY <2>1, Closings DEF Working, Quiet, Places, Extracting, Writing
<1>7. CASE RetryExtraction(e)
  <2>1. UNCHANGED <<rows, bill>> /\ Rest'
    BY <1>7 DEF RetryExtraction, IInv, Types, Rest
  <2>2. \E pc \in Places : /\ Again(exec[e].pc, pc)
                          /\ exec' = [exec EXCEPT ![e].pc = pc, ![e].result = "none"]
    BY <1>7 DEF RetryExtraction, Again, Places, Extracting
  <2> QED
    BY <2>1, <2>2, Advances
<1> QED
  BY <1>1, <1>2, <1>3, <1>4, <1>5, <1>6, <1>7 DEF Extract

LEMMA WriteStep ==
  ASSUME IInv, NEW e \in Executions, Write(e)
  PROVE  IInv'
<1>1. CASE ReserveWriter(e)
  <2>1. PICK a \in Attempts : /\ Fresh(a) /\ Insert(a, "report_writer", NoQuestion, WriterTokens)
                              /\ Hold(e, a, 0, "writing")
    BY <1>1 DEF ReserveWriter
  <2>2. UNCHANGED <<usage, frozen, planned, done, bill>> /\ WriterTokens \in Nat
    BY <1>1, PoolAssumption DEF ReserveWriter
  <2> QED
    BY <2>1, <2>2, ReserveStep DEF Nodes, NodeOf, Writing
<1>2. CASE StartWriting(e) \/ SkipWriter(e) \/ SaveReport(e)
  BY <1>2, Moves
<1>3. CASE ReleaseWriter(e)
  <2>1. /\ exec[e].pc = "writing" /\ UNCHANGED bill /\ Rest'
        /\ Goto(e, "save_report") /\ Closes(e)
    BY <1>3 DEF ReleaseWriter, Ended, IInv, Types, Rest, Closes
  <2> QED
    BY <2>1, Closings DEF Working, Quiet, Places, Extracting, Writing
<1>4. CASE CloseWriter(e)
  <2>1. /\ exec[e].pc \in Working /\ exec[e].pc # "cleanup" /\ UNCHANGED bill /\ Rest'
    BY <1>4 DEF CloseWriter, Ended, IInv, Types, Rest, Working, Writing
  <2>2. exec[e].result \in {"ok", "usage"} => exec[e].known
    BY <2>1 DEF IInv, Linked, LinkOK
  <2>3. Closes(e)
    BY <1>4, <2>1, <2>2 DEF CloseWriter, Closes
  <2>4. exec[e].used \in Nat
    BY DEF IInv, Types, Contexts, ContextType
  <2>5. \E n \in Nat : Hold(e, exec[e].attempt, n, "save_report")
    BY <1>4, <2>4 DEF CloseWriter
  <2> QED
    BY <2>1, <2>3, <2>5, Closings
<1>5. CASE Regenerate(e)
  <2>1. UNCHANGED <<rows, bill>> /\ Rest'
    BY <1>5 DEF Regenerate, IInv, Types, Rest
  <2>2. \E pc \in Places : /\ Again(exec[e].pc, pc)
                          /\ exec' = [exec EXCEPT ![e].pc = pc, ![e].result = "none"]
    BY <1>5 DEF Regenerate, Ended, Again, Places, Writing
  <2> QED
    BY <2>1, <2>2, Advances
<1> QED
  BY <1>1, <1>2, <1>3, <1>4, <1>5 DEF Write

LEMMA InvStep == IInv /\ [Next]_vars => IInv'
<1> SUFFICES ASSUME IInv, [Next]_vars PROVE IInv'
  OBVIOUS
<1>1. CASE UNCHANGED vars
  BY <1>1 DEF vars, IInv, Types, Linked, Exclusive
<1>2. ASSUME NEW e \in Executions,
             Start(e) \/ Lose(e) \/ CallModel(e) \/ Plan(e) \/ Extract(e) \/ Write(e)
      PROVE  IInv'
  BY <1>2, Moves, CallStep, PlanStep, ExtractStep, WriteStep
<1>3. ASSUME NEW a \in Attempts, Lapse(a) PROVE IInv'
  BY <1>3, LapseStep
<1> QED
  BY <1>1, <1>2, <1>3 DEF Next

LEMMA InvAlways == Spec => []IInv
BY InvInit, InvStep, PTL DEF Spec

(* Every reachable state is well typed: a row is written before the        *)
(* provider is asked, and only settled rows have an actual total.          *)
THEOREM LedgerTyped == Spec => []TypeOK
<1>1. IInv => TypeOK
  <2> SUFFICES ASSUME IInv PROVE TypeOK
    OBVIOUS
  <2>1. exec \in [Executions -> ContextType]
    BY DEF IInv, Types, Contexts
  <2>2. \A a \in Attempts : /\ rows[a].status # "settled" => rows[a].actual = 0
                            /\ rows[a].status = "none" => bill[a] = NoBill
    BY DEF IInv, RowOK
  <2>3. \A e \in Executions : exec[e].pc \in Working =>
          exec[e].attempt \in Attempts /\ rows[exec[e].attempt].status # "none"
    BY DEF IInv, Linked, LinkOK
  <2> QED
    BY <2>1, <2>2, <2>3 DEF IInv, Types, TypeOK, ContextType, Bills, Working
<1> QED
  BY <1>1, InvAlways, PTL

(* However an attempt ends, and whichever of its calls answered, was lost  *)
(* or was repeated, the tokens its answers reported are what its row is    *)
(* settled with, or are covered by what the row still holds; only the      *)
(* planner is refunded for a call that was made.                           *)
THEOREM ReportsAreCharged == Spec => []ReportedTokensCharged
<1>1. IInv => ReportedTokensCharged
  BY DEF IInv, RowOK, ReportedTokensCharged
<1> QED
  BY <1>1, InvAlways, PTL
-----------------------------------------------------------------------------
(* The limits.  What a row adds to each of the sums; a row that lapsed no  *)
(* longer counts for its pool, and a settled one at most what it reserved. *)

Live(r) == r.status = "settled" \/ Holds(r)

Solid(r, node) ==
  IF r.node = node /\ ~r.lapsed /\ Live(r)
    THEN IF r.status = "settled" /\ r.actual < r.reserved THEN r.actual ELSE r.reserved
    ELSE 0

Spent(r, q) ==
  IF r.question = q /\ r.status \in {"reserved", "uncertain", "settled"} THEN Charge(r) ELSE 0

Extracted(r) ==
  IF r.node = "evidence_extractor" /\ r.status # "none" THEN r.actual ELSE 0

SolidSum(node) == SumFunctionOnSet([a \in Attempts |-> Solid(rows[a], node)], Attempts)
SpentSum(q)    == SumFunctionOnSet([a \in Attempts |-> Spent(rows[a], q)], Attempts)
ExtractedSum   == SumFunctionOnSet([a \in Attempts |-> Extracted(rows[a])], Attempts)

(* An extraction is settled within its reservation, and only extractions   *)
(* have a question.                                                        *)
KindOK(r) ==
  /\ r.node = "evidence_extractor" /\ r.status = "settled" => r.actual <= r.reserved
  /\ r.status # "none" /\ r.node # "evidence_extractor" => r.question = NoQuestion

(* A counter that is replaced holds what some row was settled with. *)
Paid(n, node) ==
  n = 0 \/ \E a \in Attempts :
             rows[a].status = "settled" /\ rows[a].node = node /\ rows[a].actual = n

Limits ==
  /\ \A node \in Nodes : SolidSum(node) <= model_token_pool_limits(node)
  /\ Target > 0 => \A q \in Questions : SpentSum(q) <= 2 * Target
  /\ usage.evidence = ExtractedSum

Saved ==
  /\ Paid(usage.planner, "planner") /\ Paid(usage.writer, "report_writer")
  /\ \A e \in Executions :
       /\ exec[e].pc = "save_plan" => Paid(exec[e].used, "planner")
       /\ exec[e].pc = "save_report" => Paid(exec[e].used, "report_writer")

LimitsInv == Limits /\ (\A a \in Attempts : KindOK(rows[a])) /\ Saved

LEMMA Weights ==
  ASSUME NEW r \in Rows
  PROVE  /\ \A node \in Nodes : Solid(r, node) \in Nat
         /\ \A q \in Questions : Spent(r, q) \in Nat
         /\ Extracted(r) \in Nat
BY DEF Rows, Solid, Spent, Extracted, Charge

LEMMA SumsAreIntegers ==
  ASSUME Types
  PROVE  /\ \A node \in Nodes : SolidSum(node) \in Int
         /\ \A q \in Questions : SpentSum(q) \in Int
         /\ ExtractedSum \in Int
<1>1. \A a \in Attempts : rows[a] \in Rows
  BY DEF Types
<1>2. ASSUME NEW node \in Nodes PROVE SolidSum(node) \in Int
  <2>1. Integral([a \in Attempts |-> Solid(rows[a], node)], Attempts)
    BY <1>1, Weights DEF Integral
  <2> QED
    BY <2>1, SumTakeOut, NamesAssumption DEF SolidSum
<1>3. ASSUME NEW q \in Questions PROVE SpentSum(q) \in Int
  <2>1. Integral([a \in Attempts |-> Spent(rows[a], q)], Attempts)
    BY <1>1, Weights DEF Integral
  <2> QED
    BY <2>1, SumTakeOut, NamesAssumption DEF SpentSum
<1>4. ExtractedSum \in Int
  <2>1. Integral([a \in Attempts |-> Extracted(rows[a])], Attempts)
    BY <1>1, Weights DEF Integral
  <2> QED
    BY <2>1, SumTakeOut, NamesAssumption DEF ExtractedSum
<1> QED
  BY <1>2, <1>3, <1>4

(* One row changes: the sums follow it. *)
LEMMA SumsFollow ==
  ASSUME Types, NEW a \in Attempts, NEW r \in Rows, rows' = [rows EXCEPT ![a] = r]
  PROVE  /\ \A node \in Nodes :
              SolidSum(node)' = SolidSum(node) + Solid(r, node) - Solid(rows[a], node)
         /\ \A q \in Questions :
              SpentSum(q)' = SpentSum(q) + Spent(r, q) - Spent(rows[a], q)
         /\ ExtractedSum' = ExtractedSum + Extracted(r) - Extracted(rows[a])
<1>1. /\ \A c \in Attempts : rows[c] \in Rows /\ rows'[c] \in Rows
      /\ rows'[a] = r
      /\ \A c \in Attempts : c # a => rows'[c] = rows[c]
  BY DEF Types
<1>2. IsFiniteSet(Attempts)
  BY NamesAssumption
<1>3. ASSUME NEW node \in Nodes
      PROVE  SolidSum(node)' = SolidSum(node) + Solid(r, node) - Solid(rows[a], node)
  <2> DEFINE f == [c \in Attempts |-> Solid(rows[c], node)]
             h == [c \in Attempts |-> Solid(rows'[c], node)]
  <2>1. Integral(f, Attempts) /\ Integral(h, Attempts)
    BY <1>1, Weights DEF Integral
  <2>2. \A c \in Attempts : c # a => h[c] = f[c]
    BY <1>1
  <2>3. SumFunctionOnSet(h, Attempts) = SumFunctionOnSet(f, Attempts) + h[a] - f[a]
    <3> HIDE DEF f, h
    <3> QED
      BY <1>2, <2>1, <2>2, SumChange
  <2>4. h[a] = Solid(r, node) /\ f[a] = Solid(rows[a], node)
    BY <1>1
  <2>5. SolidSum(node)' = SumFunctionOnSet(h, Attempts)
    BY DEF SolidSum
  <2>6. SolidSum(node) = SumFunctionOnSet(f, Attempts)
    BY DEF SolidSum
  <2> HIDE DEF f, h
  <2> QED
    BY <2>3, <2>4, <2>5, <2>6
<1>4. ASSUME NEW q \in Questions
      PROVE  SpentSum(q)' = SpentSum(q) + Spent(r, q) - Spent(rows[a], q)
  <2> DEFINE f == [c \in Attempts |-> Spent(rows[c], q)]
             h == [c \in Attempts |-> Spent(rows'[c], q)]
  <2>1. Integral(f, Attempts) /\ Integral(h, Attempts)
    BY <1>1, Weights DEF Integral
  <2>2. \A c \in Attempts : c # a => h[c] = f[c]
    BY <1>1
  <2>3. SumFunctionOnSet(h, Attempts) = SumFunctionOnSet(f, Attempts) + h[a] - f[a]
    <3> HIDE DEF f, h
    <3> QED
      BY <1>2, <2>1, <2>2, SumChange
  <2>4. h[a] = Spent(r, q) /\ f[a] = Spent(rows[a], q)
    BY <1>1
  <2>5. SpentSum(q)' = SumFunctionOnSet(h, Attempts)
    BY DEF SpentSum
  <2>6. SpentSum(q) = SumFunctionOnSet(f, Attempts)
    BY DEF SpentSum
  <2> HIDE DEF f, h
  <2> QED
    BY <2>3, <2>4, <2>5, <2>6
<1>5. ExtractedSum' = ExtractedSum + Extracted(r) - Extracted(rows[a])
  <2> DEFINE f == [c \in Attempts |-> Extracted(rows[c])]
             h == [c \in Attempts |-> Extracted(rows'[c])]
  <2>1. Integral(f, Attempts) /\ Integral(h, Attempts)
    BY <1>1, Weights DEF Integral
  <2>2. \A c \in Attempts : c # a => h[c] = f[c]
    BY <1>1
  <2>3. SumFunctionOnSet(h, Attempts) = SumFunctionOnSet(f, Attempts) + h[a] - f[a]
    <3> HIDE DEF f, h
    <3> QED
      BY <1>2, <2>1, <2>2, SumChange
  <2>4. h[a] = Extracted(r) /\ f[a] = Extracted(rows[a])
    BY <1>1
  <2>5. ExtractedSum' = SumFunctionOnSet(h, Attempts)
    BY DEF ExtractedSum
  <2>6. ExtractedSum = SumFunctionOnSet(f, Attempts)
    BY DEF ExtractedSum
  <2> HIDE DEF f, h
  <2> QED
    BY <2>3, <2>4, <2>5, <2>6
<1> QED
  BY <1>3, <1>4, <1>5
(* A step on one row, that adds to no pool more than it may. *)
LEMMA LimitsStep ==
  ASSUME IInv, LimitsInv, usage' \in [planner : Nat, evidence : Nat, writer : Nat],
         NEW a \in Attempts, NEW r \in Rows, rows' = [rows EXCEPT ![a] = r],
         KindOK(r), rows[a].status = "settled" => r = rows[a],
         \A node \in Nodes :
           \/ Solid(r, node) <= Solid(rows[a], node)
           \/ SolidSum(node) + Solid(r, node) - Solid(rows[a], node)
                <= model_token_pool_limits(node),
         \A q \in Questions :
           \/ Spent(r, q) <= Spent(rows[a], q)
           \/ SpentSum(q) + Spent(r, q) - Spent(rows[a], q) <= 2 * Target
           \/ ~(Target > 0),
         usage'.evidence - usage.evidence = Extracted(r) - Extracted(rows[a])
  PROVE  /\ Limits' /\ \A c \in Attempts : KindOK(rows'[c])
         /\ \A n \in Nat, node \in Nodes : Paid(n, node) => Paid(n, node)'
<1>1. Types /\ rows[a] \in Rows
  BY DEF IInv, Types
<1>2. /\ rows'[a] = r
      /\ \A c \in Attempts : c # a => rows'[c] = rows[c]
  BY <1>1 DEF Types
<1>3. \A node \in Nodes : SolidSum(node)' <= model_token_pool_limits(node)
  <2>1. ASSUME NEW node \in Nodes
        PROVE  SolidSum(node)' <= model_token_pool_limits(node)
    <3>1. SolidSum(node)' = SolidSum(node) + Solid(r, node) - Solid(rows[a], node)
      BY <1>1, SumsFollow
    <3>2. SolidSum(node) \in Int /\ Solid(r, node) \in Nat /\ Solid(rows[a], node) \in Nat
      BY <1>1, SumsAreIntegers, Weights
    <3>3. /\ SolidSum(node) <= model_token_pool_limits(node)
          /\ model_token_pool_limits(node) \in Nat
      BY PoolAssumption DEF LimitsInv, Limits, model_token_pool_limits, Nodes
    <3> QED
      BY <3>1, <3>2, <3>3
  <2> QED
    BY <2>1
<1>4. Target > 0 => \A q \in Questions : SpentSum(q)' <= 2 * Target
  <2>1. ASSUME NEW q \in Questions, Target > 0
        PROVE  SpentSum(q)' <= 2 * Target
    <3>1. SpentSum(q)' = SpentSum(q) + Spent(r, q) - Spent(rows[a], q)
      BY <1>1, SumsFollow
    <3>2. SpentSum(q) \in Int /\ Spent(r, q) \in Nat /\ Spent(rows[a], q) \in Nat
      BY <1>1, SumsAreIntegers, Weights
    <3>3. SpentSum(q) <= 2 * Target /\ Target \in Nat
      BY <2>1, PoolAssumption DEF LimitsInv, Limits
    <3> QED
      BY <2>1, <3>1, <3>2, <3>3
  <2> QED
    BY <2>1
<1>5. usage'.evidence = ExtractedSum'
  <2>1. ExtractedSum' = ExtractedSum + Extracted(r) - Extracted(rows[a])
    BY <1>1, SumsFollow
  <2>2. ExtractedSum \in Int /\ Extracted(r) \in Nat /\ Extracted(rows[a]) \in Nat
    BY <1>1, SumsAreIntegers, Weights
  <2>3. usage.evidence = ExtractedSum /\ usage'.evidence \in Nat
    BY DEF LimitsInv, Limits
  <2> QED
    BY <2>1, <2>2, <2>3
<1>6. \A c \in Attempts : KindOK(rows'[c])
  BY <1>2 DEF LimitsInv
<1>7. \A n \in Nat, node \in Nodes : Paid(n, node) => Paid(n, node)'
  BY <1>2 DEF Paid
<1> QED
  BY <1>3, <1>4, <1>5, <1>6, <1>7 DEF Limits

(* What a step of the ledger does to a row that is reserved or closed. *)
Moved(old, new) ==
  \/ new = old
  \/ /\ old.status = "reserved" /\ new.actual = old.actual
     /\ new.node = old.node /\ new.question = old.question /\ new.reserved = old.reserved
     /\ \/ new.status \in {"uncertain", "released"} /\ new.lapsed = old.lapsed
        \/ new.status = "reserved" /\ new.lapsed

Settled(old, new, n) ==
  /\ old.status = "reserved" /\ new.status = "settled" /\ new.actual = n
  /\ new.node = old.node /\ new.question = old.question /\ new.reserved = old.reserved
  /\ new.lapsed = old.lapsed

LEMMA MovedWeights ==
  ASSUME NEW old \in Rows, NEW new \in Rows, Moved(old, new), KindOK(old)
  PROVE  /\ KindOK(new) /\ Extracted(new) = Extracted(old)
         /\ old.status = "settled" => new = old
         /\ \A node \in Nodes : Solid(new, node) <= Solid(old, node)
         /\ \A q \in Questions : Spent(new, q) <= Spent(old, q)
<1>1. CASE new = old
  BY <1>1, Weights
<1>2. CASE new # old
  BY <1>2 DEF Moved, KindOK, Solid, Spent, Extracted, Live, Holds, Charge, Rows
<1> QED
  BY <1>1, <1>2

LEMMA SettledWeights ==
  ASSUME NEW old \in Rows, NEW new \in Rows, NEW n \in Nat, Settled(old, new, n),
         KindOK(old), old.actual = 0, old.node = "evidence_extractor" => n <= old.reserved
  PROVE  /\ KindOK(new)
         /\ Extracted(new) - Extracted(old) = IF old.node = "evidence_extractor" THEN n ELSE 0
         /\ \A node \in Nodes : Solid(new, node) <= Solid(old, node)
         /\ \A q \in Questions : Spent(new, q) <= Spent(old, q)
<1>1. KindOK(new)
  BY DEF Settled, KindOK, Rows
<1>2. Extracted(new) - Extracted(old) = IF old.node = "evidence_extractor" THEN n ELSE 0
  BY DEF Settled, Extracted, Rows
<1>3. \A node \in Nodes : Solid(new, node) <= Solid(old, node)
  BY DEF Settled, Solid, Live, Holds, Rows
<1>4. ASSUME NEW q \in Questions PROVE Spent(new, q) <= Spent(old, q)
  <2>1. CASE old.question # q
    BY <2>1 DEF Settled, Spent
  <2>2. CASE old.question = q
    <3>1. old.node = "evidence_extractor"
      BY <2>2, NamesAssumption DEF KindOK, Settled, NoQuestion
    <3> QED
      BY <3>1 DEF Settled, Spent, Charge, Rows
  <2> QED
    BY <2>1, <2>2
<1> QED
  BY <1>1, <1>2, <1>3, <1>4

(* Where the counters that are replaced come from. *)
SavedBy(e) ==
  /\ exec[e].pc = "save_plan" => Paid(exec[e].used, "planner")
  /\ exec[e].pc = "save_report" => Paid(exec[e].used, "report_writer")

LEMMA SavedStep ==
  ASSUME LimitsInv, Types, Types',
         \A n \in Nat, node \in Nodes : Paid(n, node) => Paid(n, node)',
         NEW e, \A f \in Executions : f # e => exec'[f] = exec[f],
         e \in Executions => SavedBy(e)',
         usage'.planner = usage.planner \/ Paid(usage.planner, "planner")',
         usage'.writer = usage.writer \/ Paid(usage.writer, "report_writer")'
  PROVE  Saved'
<1>1. \A f \in Executions : exec[f].used \in Nat
  BY DEF Types, Contexts, ContextType
<1>2. usage.planner \in Nat /\ usage.writer \in Nat
  BY DEF Types
<1>3. Paid(usage.planner, "planner")'
  <2>1. Paid(usage.planner, "planner")
    BY DEF LimitsInv, Saved
  <2> QED
    BY <1>2, <2>1 DEF Nodes, Paid
<1>4. Paid(usage.writer, "report_writer")'
  <2>1. Paid(usage.writer, "report_writer")
    BY DEF LimitsInv, Saved
  <2> QED
    BY <1>2, <2>1 DEF Nodes, Paid
<1>5. ASSUME NEW f \in Executions PROVE SavedBy(f)'
  <2>1. CASE f = e
    BY <2>1
  <2>2. CASE f # e
    <3>1. SavedBy(f)
      BY DEF LimitsInv, Saved, SavedBy
    <3>2. exec'[f] = exec[f] /\ exec[f].used \in Nat
      BY <1>1, <2>2
    <3> DEFINE n == exec[f].used
    <3>3. \A node \in Nodes : Paid(n, node) => Paid(exec[f].used, node)'
      <4>1. n \in Nat
        BY <3>2
      <4>2. \A node \in Nodes : Paid(n, node) =>
              n = 0 \/ \E a \in Attempts : rows'[a].status = "settled" /\ rows'[a].node = node
                                           /\ rows'[a].actual = n
        BY <4>1 DEF Paid
      <4> QED
        BY <3>2, <4>2 DEF Paid
    <3> QED
      BY <3>1, <3>2, <3>3 DEF Nodes, SavedBy
  <2> QED
    BY <2>1, <2>2
<1> QED
  BY <1>3, <1>4, <1>5 DEF Saved, SavedBy

(* The step of an execution e, of which only the rows are left to say.     *)
StepOf(e) ==
  /\ \A f \in Executions : f # e => exec'[f] = exec[f]
  /\ usage'.planner = usage.planner \/ Paid(usage.planner, "planner")'
  /\ usage'.writer = usage.writer \/ Paid(usage.writer, "report_writer")'

LEMMA RowsKept ==
  ASSUME IInv, IInv', LimitsInv, UNCHANGED rows, usage'.evidence = usage.evidence,
         NEW e, StepOf(e), e \in Executions => SavedBy(e)'
  PROVE  LimitsInv'
<1>1. \A n \in Nat, node \in Nodes : Paid(n, node) => Paid(n, node)'
  BY DEF Paid
<1>2. Saved'
  BY <1>1, SavedStep DEF StepOf, IInv
<1>3. Limits'
  <2>1. /\ \A node \in Nodes : SolidSum(node)' = SolidSum(node)
        /\ \A q \in Questions : SpentSum(q)' = SpentSum(q)
        /\ ExtractedSum' = ExtractedSum
    BY DEF SolidSum, SpentSum, ExtractedSum
  <2> QED
    BY <2>1 DEF LimitsInv, Limits
<1> QED
  BY <1>2, <1>3 DEF LimitsInv

LEMMA RowMoved ==
  ASSUME IInv, IInv', LimitsInv, NEW a \in Attempts, NEW r \in Rows,
         rows' = [rows EXCEPT ![a] = r], Moved(rows[a], r), usage'.evidence = usage.evidence,
         NEW e, StepOf(e), e \in Executions => SavedBy(e)'
  PROVE  LimitsInv'
<1>1. rows[a] \in Rows /\ KindOK(rows[a])
  BY DEF IInv, Types, LimitsInv
<1>2. /\ KindOK(r) /\ Extracted(r) = Extracted(rows[a]) /\ Extracted(r) \in Nat
      /\ rows[a].status = "settled" => r = rows[a]
      /\ \A node \in Nodes : Solid(r, node) <= Solid(rows[a], node)
      /\ \A q \in Questions : Spent(r, q) <= Spent(rows[a], q)
  BY <1>1, MovedWeights, Weights
<1>3. /\ usage' \in [planner : Nat, evidence : Nat, writer : Nat]
      /\ usage'.evidence - usage.evidence = Extracted(r) - Extracted(rows[a])
  BY <1>2 DEF IInv, Types
<1>4. /\ Limits' /\ \A c \in Attempts : KindOK(rows'[c])
      /\ \A n \in Nat, node \in Nodes : Paid(n, node) => Paid(n, node)'
  BY <1>2, <1>3, LimitsStep
<1>5. Saved'
  BY <1>4, SavedStep DEF StepOf, IInv
<1> QED
  BY <1>4, <1>5 DEF LimitsInv

LEMMA RowSettled ==
  ASSUME IInv, IInv', LimitsInv, NEW a \in Attempts, NEW r \in Rows, NEW n \in Nat,
         rows' = [rows EXCEPT ![a] = r], Settled(rows[a], r, n),
         rows[a].node = "evidence_extractor" => n <= rows[a].reserved,
         usage'.evidence =
           usage.evidence + IF rows[a].node = "evidence_extractor" THEN n ELSE 0,
         NEW e, StepOf(e), e \in Executions => SavedBy(e)'
  PROVE  LimitsInv'
<1>1. rows[a] \in Rows /\ KindOK(rows[a]) /\ rows[a].actual = 0 /\ rows[a].status # "settled"
  BY DEF IInv, Types, LimitsInv, RowOK, Settled
<1>2. /\ KindOK(r)
      /\ Extracted(r) - Extracted(rows[a])
           = IF rows[a].node = "evidence_extractor" THEN n ELSE 0
      /\ \A node \in Nodes : Solid(r, node) <= Solid(rows[a], node)
      /\ \A q \in Questions : Spent(r, q) <= Spent(rows[a], q)
  BY <1>1, SettledWeights
<1>3. /\ usage' \in [planner : Nat, evidence : Nat, writer : Nat]
      /\ usage'.evidence - usage.evidence = Extracted(r) - Extracted(rows[a])
  BY <1>2 DEF IInv, Types
<1>4. /\ Limits' /\ \A c \in Attempts : KindOK(rows'[c])
      /\ \A m \in Nat, node \in Nodes : Paid(m, node) => Paid(m, node)'
  BY <1>1, <1>2, <1>3, LimitsStep
<1>5. Saved'
  BY <1>4, SavedStep DEF StepOf, IInv
<1> QED
  BY <1>4, <1>5 DEF LimitsInv
(* The sums over part of the rows, as sums over all of them. *)
Committed(r, node) == IF r.node = node /\ Live(r) THEN Charge(r) ELSE 0

LEMMA ChargesAreNatural ==
  ASSUME Types
  PROVE  /\ IsFiniteSet(Attempts)
         /\ \A a \in Attempts : rows[a] \in Rows /\ Charges[a] = Charge(rows[a])
         /\ \A a \in Attempts : Charges[a] \in Nat
BY NamesAssumption DEF Types, Charges, Charge, Rows

LEMMA PoolIsSum ==
  ASSUME Types, NEW node \in Nodes
  PROVE  /\ model_pool_committed(node)
              = SumFunctionOnSet([a \in Attempts |-> Committed(rows[a], node)], Attempts)
         /\ model_pool_committed(node) \in Int
         /\ SolidSum(node) <= model_pool_committed(node)
<1> DEFINE S == {a \in Attempts : /\ rows[a].node = node
                                  /\ rows[a].status = "settled" \/ Holds(rows[a])}
           h == [a \in Attempts |-> Committed(rows[a], node)]
           f == [a \in Attempts |-> Solid(rows[a], node)]
<1>1. Integral(Charges, S)
  BY ChargesAreNatural DEF Integral
<1>2. \A a \in Attempts : h[a] = IF a \in S THEN Charges[a] ELSE 0
  BY ChargesAreNatural DEF Committed, Live
<1>3. model_pool_committed(node) = SumFunctionOnSet(Charges, S)
  BY DEF model_pool_committed
<1>4. S \subseteq Attempts
  OBVIOUS
<1>5. SumFunctionOnSet(Charges, S) = SumFunctionOnSet(h, Attempts)
  <2> HIDE DEF S, h
  <2> QED
    BY <1>1, <1>2, <1>4, SumOfPart, NamesAssumption
<1>6. Integral(h, Attempts) /\ Integral(f, Attempts)
  <2>1. \A a \in Attempts : h[a] \in Int
    BY ChargesAreNatural, <1>2
  <2>2. \A a \in Attempts : f[a] \in Int
    BY ChargesAreNatural, Weights
  <2> QED
    BY <2>1, <2>2 DEF Integral
<1>7. \A a \in Attempts : f[a] <= h[a]
  <2>1. ASSUME NEW r \in Rows PROVE Solid(r, node) <= Committed(r, node)
    BY DEF Rows, Solid, Committed, Charge
  <2> QED
    BY <2>1, ChargesAreNatural
<1>8. SumFunctionOnSet(f, Attempts) <= SumFunctionOnSet(h, Attempts)
  <2> HIDE DEF f, h
  <2> QED
    BY <1>6, <1>7, SumLeq, NamesAssumption
<1>9. SumFunctionOnSet(h, Attempts) \in Int
  <2> HIDE DEF h
  <2> QED
    BY <1>6, SumTakeOut, NamesAssumption
<1> QED
  BY <1>3, <1>5, <1>8, <1>9 DEF SolidSum

LEMMA SpendIsSum ==
  ASSUME Types, NEW q \in Questions
  PROVE  QuestionSpend(q) = SpentSum(q)
<1> DEFINE S == {a \in Attempts : /\ rows[a].question = q
                                  /\ rows[a].status \in {"reserved", "uncertain", "settled"}}
           h == [a \in Attempts |-> Spent(rows[a], q)]
<1>1. Integral(Charges, S) /\ S \subseteq Attempts
  BY ChargesAreNatural DEF Integral
<1>2. \A a \in Attempts : h[a] = IF a \in S THEN Charges[a] ELSE 0
  BY ChargesAreNatural DEF Spent
<1>3. QuestionSpend(q) = SumFunctionOnSet(Charges, S)
  BY DEF QuestionSpend
<1>4. SumFunctionOnSet(Charges, S) = SumFunctionOnSet(h, Attempts)
  <2> HIDE DEF S, h
  <2> QED
    BY <1>1, <1>2, SumOfPart, NamesAssumption
<1> QED
  BY <1>3, <1>4 DEF SpentSum

(* The reservation that the run, its pool and its question allow. *)
LEMMA BorrowWithinCap ==
  ASSUME NEW q \in Questions, NEW n \in Nat, NEW s \in BorrowStates,
         QuestionSpend(q) \in Int, QuestionDecision(q, n, s) = "allowed", Target > 0
  PROVE  QuestionSpend(q) + n <= 2 * Target
<1> DEFINE projected == QuestionSpend(q) + n
<1>1. MaxTokens > 0 /\ Target \in Nat
  BY PoolAssumption
<1>2. CASE projected <= Target
  BY <1>1, <1>2
<1>3. CASE projected > Target
  <2>1. decide_question_borrow(s, projected) = "allowed"
    BY <1>1, <1>3 DEF QuestionDecision
  <2>2. (Target * 3) \div 2 <= 2 * Target
    BY <1>1
  <2>3. ASSUME s.exception => projected > Target * 2,
               ~s.exception => projected > (Target * 3) \div 2
        PROVE  FALSE
    <3>1. ~(projected <= Target)
      BY <1>1, <1>3
    <3>2. s.exception \in BOOLEAN
      BY DEF BorrowStates
    <3> HIDE DEF projected
    <3>3. CASE s.exception
      BY <2>1, <2>3, <3>1, <3>3 DEF decide_question_borrow
    <3>4. CASE ~s.exception
      BY <2>1, <2>3, <3>1, <3>4 DEF decide_question_borrow
    <3> QED
      BY <3>3, <3>4
  <2>4. (Target * 3) \div 2 \in Int
    BY <1>1
  <2> QED
    BY <1>1, <2>2, <2>3, <2>4
<1> QED
  BY <1>1, <1>2, <1>3

LEMMA RowInserted ==
  ASSUME IInv, IInv', LimitsInv, NEW a \in Attempts, Fresh(a),
         NEW node \in Nodes, NEW q \in Questions \cup {NoQuestion}, NEW n \in Nat,
         Insert(a, node, q, n), Affordable(node, n),
         node # "evidence_extractor" => q = NoQuestion,
         q \in Questions /\ Target > 0 => QuestionSpend(q) + n <= 2 * Target,
         usage'.evidence = usage.evidence,
         NEW e, StepOf(e), e \in Executions => SavedBy(e)'
  PROVE  LimitsInv'
<1> DEFINE r == [status |-> "reserved", node |-> node, question |-> q,
                 reserved |-> n, actual |-> 0, lapsed |-> FALSE]
<1>1. /\ r \in Rows /\ rows' = [rows EXCEPT ![a] = r]
      /\ KindOK(r) /\ Extracted(r) = 0
      /\ \A m \in Nodes : Solid(r, m) = IF m = node THEN n ELSE 0
      /\ \A p \in Questions : Spent(r, p) = IF p = q THEN n ELSE 0
  BY DEF Rows, Insert, KindOK, Extracted, Solid, Live, Holds, Spent, Charge
<1>2. /\ rows[a].status = "none" /\ rows[a].actual = 0 /\ Types
      /\ Extracted(rows[a]) = 0
      /\ \A m \in Nodes : Solid(rows[a], m) = 0
      /\ \A p \in Questions : Spent(rows[a], p) = 0
  BY DEF IInv, RowOK, Fresh, Extracted, Solid, Live, Holds, Spent
<1> HIDE DEF r
<1>3. ASSUME NEW m \in Nodes
      PROVE  \/ Solid(r, m) <= Solid(rows[a], m)
             \/ SolidSum(m) + Solid(r, m) - Solid(rows[a], m) <= model_token_pool_limits(m)
  <2>1. CASE m # node
    BY <1>1, <1>2, <2>1
  <2>2. CASE m = node
    <3>1. model_token_pool_limits(m) \in Nat \ {0} /\ MaxTokens > 0
      BY PoolAssumption DEF model_token_pool_limits, Nodes
    <3>2. model_pool_committed(m) + n <= model_token_pool_limits(m)
      BY <2>2, <3>1 DEF Affordable
    <3>3. /\ SolidSum(m) <= model_pool_committed(m)
          /\ SolidSum(m) \in Int /\ model_pool_committed(m) \in Int
      BY <1>2, PoolIsSum, SumsAreIntegers
    <3> QED
      BY <1>1, <1>2, <2>2, <3>1, <3>2, <3>3
  <2> QED
    BY <2>1, <2>2
<1>4. ASSUME NEW p \in Questions
      PROVE  \/ Spent(r, p) <= Spent(rows[a], p)
             \/ SpentSum(p) + Spent(r, p) - Spent(rows[a], p) <= 2 * Target
             \/ ~(Target > 0)
  <2>1. CASE p # q
    BY <1>1, <1>2, <2>1
  <2>2. CASE p = q
    <3>1. SpentSum(p) = QuestionSpend(p) /\ SpentSum(p) \in Int
      BY <1>2, SpendIsSum, SumsAreIntegers
    <3> QED
      BY <1>1, <1>2, <2>2, <3>1
  <2> QED
    BY <2>1, <2>2
<1>5. /\ usage' \in [planner : Nat, evidence : Nat, writer : Nat]
      /\ usage'.evidence - usage.evidence = Extracted(r) - Extracted(rows[a])
  BY <1>1, <1>2 DEF IInv, Types
<1>6. /\ Limits' /\ \A c \in Attempts : KindOK(rows'[c])
      /\ \A m \in Nat, k \in Nodes : Paid(m, k) => Paid(m, k)'
  BY <1>1, <1>2, <1>3, <1>4, <1>5, LimitsStep
<1>7. Saved'
  BY <1>6, SavedStep DEF StepOf, IInv
<1> QED
  BY <1>6, <1>7 DEF LimitsInv
(* The transactions on a row as these steps. *)
LEMMA UncertainMoves ==
  ASSUME Types, NEW a \in Attempts, mark_uncertain(a)
  PROVE  \E r \in Rows : rows' = [rows EXCEPT ![a] = r] /\ Moved(rows[a], r)
<1>1. rows[a] \in Rows /\ rows = [rows EXCEPT ![a] = rows[a]]
  BY DEF Types
<1>2. CASE rows[a].status # "reserved"
  BY <1>1, <1>2 DEF mark_uncertain, Moved
<1>3. CASE rows[a].status = "reserved"
  <2> DEFINE r == [rows[a] EXCEPT !.status = "uncertain"]
  <2>1. r \in Rows /\ Moved(rows[a], r)
    BY <1>1, <1>3 DEF Rows, Moved
  <2>2. rows' = [rows EXCEPT ![a] = r]
    BY <1>3 DEF mark_uncertain
  <2> QED
    BY <2>1, <2>2
<1> QED
  BY <1>2, <1>3

LEMMA ReleaseMoves ==
  ASSUME Types, NEW a \in Attempts, release_reservation(a)
  PROVE  \E r \in Rows : rows' = [rows EXCEPT ![a] = r] /\ Moved(rows[a], r)
<1>1. rows[a] \in Rows /\ rows = [rows EXCEPT ![a] = rows[a]]
  BY DEF Types
<1>2. CASE rows[a].status # "reserved"
  BY <1>1, <1>2 DEF release_reservation, Moved
<1>3. CASE rows[a].status = "reserved"
  <2> DEFINE r == [rows[a] EXCEPT !.status = "released"]
  <2>1. r \in Rows /\ Moved(rows[a], r)
    BY <1>1, <1>3 DEF Rows, Moved
  <2>2. rows' = [rows EXCEPT ![a] = r]
    BY <1>3 DEF release_reservation
  <2> QED
    BY <2>1, <2>2
<1> QED
  BY <1>2, <1>3

LEMMA SettleSettles ==
  ASSUME Types, NEW a \in Attempts, rows[a].status = "reserved", NEW n \in Nat,
         settle_reservation(a, n)
  PROVE  \E r \in Rows : rows' = [rows EXCEPT ![a] = r] /\ Settled(rows[a], r, n)
                         /\ rows'[a] = r
<1>1. rows[a] \in Rows
  BY DEF Types
<1> DEFINE r == [rows[a] EXCEPT !.status = "settled", !.actual = n]
<1>2. r \in Rows /\ Settled(rows[a], r, n)
  BY <1>1 DEF Rows, Settled
<1>3. rows' = [rows EXCEPT ![a] = r]
  BY DEF settle_reservation
<1>4. rows'[a] = r
  BY <1>3 DEF Types
<1> QED
  BY <1>2, <1>3, <1>4

(* An execution at work, and what a reported usage is bounded by. *)
LEMMA WorkingOn ==
  ASSUME IInv, NEW e \in Executions, exec[e].pc \in Working
  PROVE  /\ exec[e].attempt \in Attempts /\ exec[e].used \in Nat
         /\ rows[exec[e].attempt].node = NodeOf(exec[e].pc)
         /\ exec[e].pc # "cleanup" => rows[exec[e].attempt].status = "reserved"
         /\ exec[e].pc \in Extracting => exec[e].used <= rows[exec[e].attempt].reserved
<1> DEFINE a == exec[e].attempt
<1>1. a \in Attempts /\ LinkOK(exec[e], rows[a], bill[a])
  BY DEF IInv, Linked
<1>2. exec[e].used \in Nat
  BY DEF IInv, Types, Contexts, ContextType
<1> HIDE DEF a
<1>3. exec[e].pc \in Extracting => exec[e].used <= rows[a].reserved
  BY <1>1 DEF LinkOK, OneCall, Extracting
<1> QED
  BY <1>1, <1>2, <1>3 DEF LinkOK, a

(* Wherever it goes, an execution that starts afresh has nothing to save.  *)
LEMMA GotoSavesNothing ==
  ASSUME Types, NEW e \in Executions, NEW pc, Goto(e, pc), usage' = usage
  PROVE  StepOf(e) /\ SavedBy(e)'
<1>1. /\ exec'[e] = [Resting EXCEPT !.pc = pc]
      /\ \A f \in Executions : f # e => exec'[f] = exec[f]
  BY DEF Types, Goto
<1>2. exec'[e].used = 0
  BY <1>1 DEF Resting
<1> QED
  BY <1>1, <1>2 DEF StepOf, SavedBy, Paid

(* An execution that goes on to a place where nothing is saved. *)
LEMMA GoesOn ==
  ASSUME NEW e \in Executions, usage' = usage,
         \A f \in Executions : f # e => exec'[f] = exec[f],
         exec'[e].pc \notin {"save_plan", "save_report"}
  PROVE  StepOf(e) /\ SavedBy(e)'
BY DEF StepOf, SavedBy

LEMMA MovingSteps ==
  ASSUME IInv, IInv', LimitsInv, NEW e \in Executions, exec[e].pc \in Working,
         \/ mark_uncertain(exec[e].attempt)
         \/ release_reservation(exec[e].attempt),
         usage' = usage, StepOf(e), SavedBy(e)'
  PROVE  LimitsInv'
<1> DEFINE a == exec[e].attempt
<1>1. a \in Attempts /\ Types
  BY WorkingOn DEF IInv
<1>2. PICK r \in Rows : rows' = [rows EXCEPT ![a] = r] /\ Moved(rows[a], r)
  BY <1>1, UncertainMoves, ReleaseMoves
<1> QED
  BY <1>1, <1>2, RowMoved

LEMMA PlanLimits ==
  ASSUME IInv, IInv', LimitsInv, NEW e \in Executions, Plan(e)
  PROVE  LimitsInv'
<1>0. exec \in [Executions -> Contexts] /\ Types
  BY DEF IInv, Types
<1>1. CASE ReservePlanner(e)
  <2>1. PICK a \in Attempts : /\ Fresh(a) /\ Insert(a, "planner", NoQuestion, PlannerCall)
                              /\ Hold(e, a, 0, "planning")
    BY <1>1 DEF ReservePlanner
  <2>2. /\ usage' = usage /\ Affordable("planner", PlannerCall) /\ PlannerCall \in Nat
        /\ "planner" \in Nodes /\ NoQuestion \notin Questions
    BY <1>1, CallAssumption, NamesAssumption DEF ReservePlanner, Nodes, NoQuestion
  <2>3. StepOf(e) /\ SavedBy(e)'
    <3>1. exec'[e].pc = "planning" /\ \A f \in Executions : f # e => exec'[f] = exec[f]
      BY <1>0, <2>1 DEF Hold, Resting
    <3> QED
      BY <2>2, <3>1, GoesOn
  <2> QED
    BY <2>1, <2>2, <2>3, RowInserted
<1>2. CASE RefusePlanner(e)
  <2>1. UNCHANGED rows /\ usage' = usage /\ Goto(e, "refused")
    BY <1>2 DEF RefusePlanner
  <2> QED
    BY <1>0, <2>1, GotoSavesNothing, RowsKept
<1>3. CASE SettlePlanner(e) \/ SettleCompact(e)
  <2> DEFINE a == exec[e].attempt
             n == exec[e].used
  <2>1. /\ exec[e].pc \in {"planning", "compact"} /\ settle_reservation(a, n) /\ usage' = usage
    BY <1>3 DEF SettlePlanner, SettleCompact, Ended
  <2>2. /\ a \in Attempts /\ n \in Nat /\ rows[a].node = "planner"
        /\ rows[a].status = "reserved"
    BY <2>1, WorkingOn DEF Working, NodeOf, Extracting, Writing
  <2>3. PICK r \in Rows : rows' = [rows EXCEPT ![a] = r] /\ Settled(rows[a], r, n)
                          /\ rows'[a] = r
    BY <1>0, <2>1, <2>2, SettleSettles
  <2>4. \/ exec' = [exec EXCEPT ![e].pc = "save_plan"]
        \/ Goto(e, "idle")
    BY <1>3 DEF SettlePlanner, SettleCompact
  <2>5. StepOf(e) /\ SavedBy(e)'
    <3>1. CASE Goto(e, "idle")
      BY <1>0, <2>1, <3>1, GotoSavesNothing
    <3>2. CASE exec' = [exec EXCEPT ![e].pc = "save_plan"]
      <4>1. /\ exec'[e].pc = "save_plan" /\ exec'[e].used = n
            /\ \A f \in Executions : f # e => exec'[f] = exec[f]
        BY <1>0, <3>2 DEF Contexts, ContextType
      <4>2. rows'[a].status = "settled" /\ rows'[a].node = "planner" /\ rows'[a].actual = n
        BY <2>2, <2>3 DEF Settled
      <4>3. Paid(exec[e].used, "planner")'
        BY <2>2, <4>1, <4>2 DEF Paid
      <4> QED
        BY <2>1, <4>1, <4>3 DEF StepOf, SavedBy
    <3> QED
      BY <2>4, <3>1, <3>2
  <2>6. usage'.evidence = usage.evidence + IF rows[a].node = "evidence_extractor" THEN n ELSE 0
    BY <1>0, <2>1, <2>2 DEF Types
  <2> HIDE DEF a, n
  <2> QED
    BY <2>2, <2>3, <2>5, <2>6, RowSettled
<1>4. CASE BuildCompactRequest(e)
  <2>1. exec[e].pc \in Working /\ usage' = usage
    BY <1>4 DEF BuildCompactRequest, Ended, Working, Writing
  <2>2. CASE exec' = [exec EXCEPT ![e].pc = "compact", ![e].result = "none"] /\ UNCHANGED rows
    <3>1. exec'[e].pc = "compact" /\ \A f \in Executions : f # e => exec'[f] = exec[f]
      BY <1>0, <2>2 DEF Contexts, ContextType
    <3>2. StepOf(e) /\ SavedBy(e)'
      BY <2>1, <3>1, GoesOn
    <3> QED
      BY <2>1, <2>2, <3>2, RowsKept
  <2>3. CASE release_reservation(exec[e].attempt) /\ Goto(e, "idle")
    BY <1>0, <2>1, <2>3, GotoSavesNothing, MovingSteps
  <2> QED
    BY <1>4, <2>2, <2>3 DEF BuildCompactRequest
<1>5. CASE ReleasePlanner(e) \/ CompactFails(e)
  <2>1. /\ exec[e].pc \in Working /\ usage' = usage
        /\ mark_uncertain(exec[e].attempt) \/ release_reservation(exec[e].attempt)
    BY <1>5 DEF ReleasePlanner, CompactFails, Ended, Working, Writing
  <2>2. PICK pc \in {"retry_plan", "idle"} : Goto(e, pc)
    BY <1>5 DEF ReleasePlanner, CompactFails
  <2> QED
    BY <1>0, <2>1, <2>2, GotoSavesNothing, MovingSteps
<1>6. CASE SavePlan(e)
  <2>1. /\ exec[e].pc = "save_plan" /\ UNCHANGED rows /\ Goto(e, "research")
        /\ usage' = [usage EXCEPT !.planner = exec[e].used]
    BY <1>6 DEF SavePlan, At
  <2>2. Paid(exec[e].used, "planner")
    BY <2>1 DEF LimitsInv, Saved
  <2>3. /\ usage'.planner = exec[e].used /\ usage'.evidence = usage.evidence
        /\ usage'.writer = usage.writer
    BY <1>0, <2>1 DEF Types
  <2>4. Paid(usage.planner, "planner")'
    BY <2>1, <2>2, <2>3 DEF Paid
  <2>5. /\ exec'[e] = [Resting EXCEPT !.pc = "research"]
        /\ \A f \in Executions : f # e => exec'[f] = exec[f]
    BY <1>0, <2>1 DEF Goto
  <2>6. StepOf(e) /\ SavedBy(e)'
    BY <2>3, <2>4, <2>5 DEF StepOf, SavedBy, Resting
  <2> QED
    BY <2>1, <2>3, <2>6, RowsKept
<1> QED
  BY <1>1, <1>2, <1>3, <1>4, <1>5, <1>6 DEF Plan
LEMMA ExtractLimits ==
  ASSUME IInv, IInv', LimitsInv, NEW e \in Executions, Extract(e)
  PROVE  LimitsInv'
<1>0. exec \in [Executions -> Contexts] /\ Types
  BY DEF IInv, Types
<1>1. CASE EvidenceModelBudget(e)
  <2>1. UNCHANGED rows /\ usage' = usage
    BY <1>1 DEF EvidenceModelBudget
  <2>2. PICK q \in Questions, call \in MinCall .. MaxCall :
          exec' = [exec EXCEPT ![e].pc = "reserve", ![e].question = q, ![e].call = call]
    BY <1>1 DEF EvidenceModelBudget
  <2>3. exec'[e].pc = "reserve" /\ \A f \in Executions : f # e => exec'[f] = exec[f]
    BY <1>0, <2>2 DEF Contexts, ContextType
  <2> QED
    BY <2>1, <2>3, GoesOn, RowsKept
<1>2. CASE ReserveEvidence(e)
  <2> DEFINE q == exec[e].question
             n == exec[e].call
  <2>1. PICK a \in Attempts :
          /\ Fresh(a) /\ Insert(a, "evidence_extractor", q, n) /\ Hold(e, a, 0, "setup")
    BY <1>2 DEF ReserveEvidence
  <2>2. /\ usage' = usage /\ Affordable("evidence_extractor", n)
        /\ n \in Nat /\ q \in Questions /\ "evidence_extractor" \in Nodes
    BY <1>0, <1>2 DEF ReserveEvidence, At, Nodes, Contexts, ContextType
  <2>3. PICK s \in BorrowStates : QuestionDecision(q, n, s) = "allowed"
    BY <1>2 DEF ReserveEvidence
  <2>4. StepOf(e) /\ SavedBy(e)'
    <3>1. exec'[e].pc = "setup" /\ \A f \in Executions : f # e => exec'[f] = exec[f]
      BY <1>0, <2>1 DEF Hold, Resting
    <3> QED
      BY <2>2, <3>1, GoesOn
  <2> HIDE DEF q, n
  <2>5. QuestionSpend(q) \in Int
    BY <1>0, <2>2, SpendIsSum, SumsAreIntegers
  <2>6. Target > 0 => QuestionSpend(q) + n <= 2 * Target
    BY <2>2, <2>3, <2>5, BorrowWithinCap
  <2> QED
    BY <2>1, <2>2, <2>4, <2>6, RowInserted
<1>3. CASE RefuseEvidence(e) \/ ExtractionRaises(e)
  <2>1. /\ UNCHANGED rows /\ usage' = usage
        /\ \E pc \in {"research", "idle"} : Goto(e, pc)
    BY <1>3 DEF RefuseEvidence, ExtractionRaises
  <2> QED
    BY <1>0, <2>1, GotoSavesNothing, RowsKept
<1>4. CASE SetUp(e)
  <2>1. exec[e].pc \in Working /\ usage' = usage
    BY <1>4 DEF SetUp, At, Working
  <2>2. CASE /\ \/ exec' = [exec EXCEPT ![e].pc = "extracting"]
                \/ exec' = [exec EXCEPT ![e].pc = "last", ![e].known = TRUE, ![e].result = "ok"]
             /\ UNCHANGED rows
    <3>1. /\ exec'[e].pc \in {"extracting", "last"}
          /\ \A f \in Executions : f # e => exec'[f] = exec[f]
      BY <1>0, <2>2 DEF Contexts, ContextType
    <3> QED
      BY <2>1, <2>2, <3>1, GoesOn, RowsKept
  <2>3. CASE release_reservation(exec[e].attempt) /\ Goto(e, "idle")
    BY <1>0, <2>1, <2>3, GotoSavesNothing, MovingSteps
  <2> QED
    BY <1>4, <2>2, <2>3 DEF SetUp
<1>5. CASE RecordExtraction(e)
  <2> DEFINE a == exec[e].attempt
             n == exec[e].used
  <2>1. exec[e].pc \in Extracting /\ exec[e].pc \in Working /\ exec[e].pc # "cleanup"
    BY <1>5 DEF RecordExtraction, Ended, Working, Extracting
  <2>2. /\ exec'[e].pc \in {"research", "cleanup", "idle"}
        /\ \A f \in Executions : f # e => exec'[f] = exec[f]
    <3>1. \/ \E pc \in {"research", "idle"} : Goto(e, pc)
          \/ Hold(e, a, 0, "cleanup")
      BY <1>5 DEF RecordExtraction
    <3>2. CASE \E pc \in {"research", "idle"} : Goto(e, pc)
      BY <1>0, <3>2 DEF Goto, Resting
    <3>3. CASE Hold(e, a, 0, "cleanup")
      BY <1>0, <3>3 DEF Hold, Resting
    <3> QED
      BY <3>1, <3>2, <3>3
  <2>3. CASE UNCHANGED <<rows, usage>>
    BY <2>2, <2>3, GoesOn, RowsKept
  <2>4. CASE /\ settle_reservation(a, n)
             /\ usage' = [usage EXCEPT !.evidence = @ + n]
    <3>1. /\ settle_reservation(a, n)
          /\ usage' = [usage EXCEPT !.evidence = usage.evidence + n]
      BY <1>0, <2>4 DEF Types
    <3>2. /\ a \in Attempts /\ n \in Nat /\ rows[a].node = "evidence_extractor"
          /\ rows[a].status = "reserved" /\ n <= rows[a].reserved
      BY <2>1, WorkingOn DEF NodeOf, Extracting, Writing
    <3>3. PICK r \in Rows : rows' = [rows EXCEPT ![a] = r] /\ Settled(rows[a], r, n)
      BY <1>0, <3>1, <3>2, SettleSettles
    <3>4. /\ usage'.evidence = usage.evidence + n /\ usage'.planner = usage.planner
          /\ usage'.writer = usage.writer
      BY <1>0, <3>1 DEF Types
    <3>5. StepOf(e) /\ SavedBy(e)'
      BY <2>2, <3>4 DEF StepOf, SavedBy
    <3>6. usage'.evidence =
            usage.evidence + IF rows[a].node = "evidence_extractor" THEN n ELSE 0
      BY <3>2, <3>4
    <3> HIDE DEF a, n
    <3> QED
      BY <3>2, <3>3, <3>5, <3>6, RowSettled
  <2>5. CASE mark_uncertain(a) /\ UNCHANGED usage
    <3>2. StepOf(e) /\ SavedBy(e)'
      BY <2>2, <2>5, GoesOn
    <3> QED
      BY <2>1, <2>5, <3>2, MovingSteps
  <2> QED
    BY <1>5, <2>3, <2>4, <2>5 DEF RecordExtraction, Record
<1>6. CASE CleanUp(e)
  <2>1. /\ exec[e].pc \in Working /\ usage' = usage
        /\ mark_uncertain(exec[e].attempt) /\ Goto(e, "idle")
    BY <1>6 DEF CleanUp, At, Working
  <2> QED
    BY <1>0, <2>1, GotoSavesNothing, MovingSteps
<1>7. CASE RetryExtraction(e)
  <2>1. UNCHANGED rows /\ usage' = usage
    BY <1>7 DEF RetryExtraction
  <2>2. /\ exec'[e].pc \in {"retrying", "last"}
        /\ \A f \in Executions : f # e => exec'[f] = exec[f]
    BY <1>0, <1>7 DEF RetryExtraction, Contexts, ContextType
  <2> QED
    BY <2>1, <2>2, GoesOn, RowsKept
<1> QED
  BY <1>1, <1>2, <1>3, <1>4, <1>5, <1>6, <1>7 DEF Extract

LEMMA WriteLimits ==
  ASSUME IInv, IInv', LimitsInv, NEW e \in Executions, Write(e)
  PROVE  LimitsInv'
<1>0. exec \in [Executions -> Contexts] /\ Types
  BY DEF IInv, Types
<1>1. CASE ReserveWriter(e)
  <2>1. PICK a \in Attempts : /\ Fresh(a) /\ Insert(a, "report_writer", NoQuestion, WriterTokens)
                              /\ Hold(e, a, 0, "writing")
    BY <1>1 DEF ReserveWriter
  <2>2. /\ usage' = usage /\ Affordable("report_writer", WriterTokens) /\ WriterTokens \in Nat
        /\ "report_writer" \in Nodes /\ NoQuestion \notin Questions
    BY <1>1, PoolAssumption, NamesAssumption DEF ReserveWriter, Nodes, NoQuestion
  <2>3. StepOf(e) /\ SavedBy(e)'
    <3>1. exec'[e].pc = "writing" /\ \A f \in Executions : f # e => exec'[f] = exec[f]
      BY <1>0, <2>1 DEF Hold, Resting
    <3> QED
      BY <2>2, <3>1, GoesOn
  <2> QED
    BY <2>1, <2>2, <2>3, RowInserted
<1>2. CASE StartWriting(e) \/ SkipWriter(e)
  <2>1. /\ UNCHANGED rows /\ usage' = usage
        /\ \E pc \in {"write", "save_report"} : Goto(e, pc)
    BY <1>2 DEF StartWriting, SkipWriter
  <2> QED
    BY <1>0, <2>1, GotoSavesNothing, RowsKept
<1>3. CASE ReleaseWriter(e)
  <2>1. /\ exec[e].pc \in Working /\ usage' = usage
        /\ release_reservation(exec[e].attempt) /\ Goto(e, "save_report")
    BY <1>3 DEF ReleaseWriter, Ended, Working, Writing
  <2> QED
    BY <1>0, <2>1, GotoSavesNothing, MovingSteps
<1>4. CASE CloseWriter(e)
  <2> DEFINE a == exec[e].attempt
             n == exec[e].used
  <2>1. exec[e].pc \in Writing /\ exec[e].pc \in Working /\ usage' = usage
    BY <1>4 DEF CloseWriter, Ended, Working
  <2>2. /\ a \in Attempts /\ n \in Nat /\ rows[a].node = "report_writer"
        /\ rows[a].status = "reserved"
    BY <2>1, WorkingOn DEF Working, NodeOf, Writing
  <2>3. PICK m \in {0, n} : Hold(e, a, m, "save_report") /\ (m # 0 => settle_reservation(a, n))
    BY <1>4 DEF CloseWriter
  <2>4. /\ exec'[e].pc = "save_report" /\ exec'[e].used = m
        /\ \A f \in Executions : f # e => exec'[f] = exec[f]
    BY <1>0, <2>3 DEF Hold, Resting
  <2>5. CASE settle_reservation(a, n)
    <3>2. PICK r \in Rows : rows' = [rows EXCEPT ![a] = r] /\ Settled(rows[a], r, n)
                            /\ rows'[a] = r
      BY <1>0, <2>2, <2>5, SettleSettles
    <3>3. rows'[a].status = "settled" /\ rows'[a].node = "report_writer" /\ rows'[a].actual = n
      BY <2>2, <3>2 DEF Settled
    <3>4. Paid(exec[e].used, "report_writer")'
      BY <2>2, <2>3, <2>4, <3>3 DEF Paid
    <3>5. StepOf(e) /\ SavedBy(e)'
      BY <2>1, <2>4, <3>4 DEF StepOf, SavedBy
    <3>6. usage'.evidence =
            usage.evidence + IF rows[a].node = "evidence_extractor" THEN n ELSE 0
      BY <1>0, <2>1, <2>2 DEF Types
    <3>7. rows[a].node = "evidence_extractor" => n <= rows[a].reserved
      BY <2>2
    <3> HIDE DEF a, n
    <3> QED
      BY <2>2, <3>2, <3>5, <3>6, <3>7, RowSettled
  <2>6. CASE ~settle_reservation(a, n)
    <3>1. mark_uncertain(a) /\ m = 0
      BY <1>4, <2>3, <2>6 DEF CloseWriter
    <3>3. StepOf(e) /\ SavedBy(e)'
      BY <2>1, <2>4, <3>1 DEF StepOf, SavedBy, Paid
    <3> QED
      BY <2>1, <3>1, <3>3, MovingSteps
  <2> QED
    BY <2>5, <2>6
<1>5. CASE SaveReport(e)
  <2>1. /\ exec[e].pc = "save_report" /\ UNCHANGED rows /\ Goto(e, "idle")
        /\ usage' = [usage EXCEPT !.writer = exec[e].used]
    BY <1>5 DEF SaveReport, At
  <2>2. Paid(exec[e].used, "report_writer")
    BY <2>1 DEF LimitsInv, Saved
  <2>3. /\ usage'.writer = exec[e].used /\ usage'.evidence = usage.evidence
        /\ usage'.planner = usage.planner
    BY <1>0, <2>1 DEF Types
  <2>4. Paid(usage.writer, "report_writer")'
    BY <2>1, <2>2, <2>3 DEF Paid
  <2>5. /\ exec'[e] = [Resting EXCEPT !.pc = "idle"]
        /\ \A f \in Executions : f # e => exec'[f] = exec[f]
    BY <1>0, <2>1 DEF Goto
  <2>6. StepOf(e) /\ SavedBy(e)'
    BY <2>3, <2>4, <2>5 DEF StepOf, SavedBy, Resting
  <2> QED
    BY <2>1, <2>3, <2>6, RowsKept
<1>6. CASE Regenerate(e)
  <2>1. UNCHANGED rows /\ usage' = usage
    BY <1>6 DEF Regenerate
  <2>2. /\ exec'[e].pc = "regenerating"
        /\ \A f \in Executions : f # e => exec'[f] = exec[f]
    BY <1>0, <1>6 DEF Regenerate, Contexts, ContextType
  <2> QED
    BY <2>1, <2>2, GoesOn, RowsKept
<1> QED
  BY <1>1, <1>2, <1>3, <1>4, <1>5, <1>6 DEF Write

LEMMA LimitsStepAlways == IInv /\ LimitsInv /\ [Next]_vars => LimitsInv'
<1> SUFFICES ASSUME IInv, LimitsInv, [Next]_vars PROVE LimitsInv'
  OBVIOUS
<1>0. IInv' /\ Types /\ exec \in [Executions -> Contexts]
  BY InvStep DEF IInv, Types
<1>1. CASE UNCHANGED vars
  <2>1. StepOf("none") /\ UNCHANGED rows /\ usage'.evidence = usage.evidence
    BY <1>1 DEF vars, StepOf
  <2>2. "none" \in Executions => SavedBy("none")'
    BY <1>1 DEF vars, LimitsInv, Saved, SavedBy, Paid
  <2> QED
    BY <1>0, <2>1, <2>2, RowsKept
<1>2. ASSUME NEW a \in Attempts, Lapse(a) PROVE LimitsInv'
  <2>1. rows[a].status = "reserved" /\ UNCHANGED <<usage, exec>> /\ rows[a] \in Rows
    BY <1>0, <1>2 DEF Lapse, Types
  <2> DEFINE r == [rows[a] EXCEPT !.lapsed = TRUE]
  <2>2. r \in Rows /\ Moved(rows[a], r) /\ r.status # "settled" /\ rows' = [rows EXCEPT ![a] = r]
    BY <1>2, <2>1 DEF Lapse, Rows, Moved
  <2> HIDE DEF r
  <2>3. StepOf("none")
    BY <2>1 DEF StepOf
  <2>4. \A b \in Attempts : rows[b].status = "settled" => rows'[b] = rows[b]
    BY <1>0, <2>1, <2>2 DEF Types
  <2>5. "none" \in Executions => SavedBy("none")'
    BY <2>1, <2>4 DEF LimitsInv, Saved, SavedBy, Paid
  <2> QED
    BY <1>0, <2>1, <2>2, <2>3, <2>5, RowMoved
<1>3. ASSUME NEW e \in Executions, Start(e) \/ Lose(e) PROVE LimitsInv'
  <2>1. /\ UNCHANGED rows /\ usage' = usage
        /\ \E pc \in {"research", "plan", "idle"} : Goto(e, pc)
    BY <1>3 DEF Start, Lose
  <2> QED
    BY <1>0, <2>1, GotoSavesNothing, RowsKept
<1>4. ASSUME NEW e \in Executions, CallModel(e) PROVE LimitsInv'
  <2>1. /\ UNCHANGED rows /\ usage' = usage
        /\ exec[e].pc \notin {"save_plan", "save_report"}
    BY <1>4 DEF CallModel, Extracting, Writing
  <2>2. exec'[e].pc = exec[e].pc /\ \A f \in Executions : f # e => exec'[f] = exec[f]
    <3>0. exec[e] \in ContextType
      BY <1>0 DEF Contexts
    <3>1. CASE \E result : exec' = [exec EXCEPT ![e].result = result]
      BY <1>0, <3>0, <3>1 DEF ContextType
    <3>3. \/ \E result \in {"unknown", "fatal"} : exec' = [exec EXCEPT ![e].result = result]
          \/ \E result \in {"ok", "usage"}, tokens \in 0 .. CallCap(e) :
               exec' = [exec EXCEPT ![e] = [exec[e] EXCEPT !.result = result, !.known = TRUE,
                                                           !.used = @ + tokens]]
      BY <1>4, Zenon DEF CallModel
    <3>4. ASSUME NEW result, NEW tokens,
                 exec' = [exec EXCEPT ![e] = [exec[e] EXCEPT !.result = result, !.known = TRUE,
                                                             !.used = @ + tokens]]
          PROVE  exec'[e].pc = exec[e].pc /\ \A f \in Executions : f # e => exec'[f] = exec[f]
      BY <1>0, <3>0, <3>4 DEF ContextType
    <3> QED
      BY <3>1, <3>3, <3>4
  <2> QED
    BY <1>0, <2>1, <2>2, GoesOn, RowsKept
<1> QED
  BY <1>0, <1>1, <1>2, <1>3, <1>4, PlanLimits, ExtractLimits, WriteLimits DEF Next
LEMMA LimitsInit == Init => LimitsInv
<1> SUFFICES ASSUME Init PROVE LimitsInv
  OBVIOUS
<1>1. /\ \A a \in Attempts : rows[a] = NoRow
      /\ \A e \in Executions : exec[e] = Resting
      /\ usage.planner = 0 /\ usage.evidence = 0 /\ usage.writer = 0
  BY DEF Init
<1>2. ASSUME NEW node \in Nodes PROVE SolidSum(node) = 0
  <2>1. \A a \in Attempts : [b \in Attempts |-> Solid(rows[b], node)][a] = 0
    BY <1>1 DEF NoRow, Solid, Live, Holds
  <2> QED
    BY <2>1, SumOfZeros, NamesAssumption DEF SolidSum
<1>3. ASSUME NEW q \in Questions PROVE SpentSum(q) = 0
  <2>1. \A a \in Attempts : [b \in Attempts |-> Spent(rows[b], q)][a] = 0
    BY <1>1 DEF NoRow, Spent
  <2> QED
    BY <2>1, SumOfZeros, NamesAssumption DEF SpentSum
<1>4. ExtractedSum = 0
  <2>1. \A a \in Attempts : [b \in Attempts |-> Extracted(rows[b])][a] = 0
    BY <1>1 DEF NoRow, Extracted
  <2> QED
    BY <2>1, SumOfZeros, NamesAssumption DEF ExtractedSum
<1>5. \A node \in Nodes : 0 <= model_token_pool_limits(node)
  BY PoolAssumption DEF model_token_pool_limits, Nodes
<1>6. Limits
  BY <1>1, <1>2, <1>3, <1>4, <1>5, PoolAssumption DEF Limits
<1>7. Saved
  BY <1>1 DEF Saved, Paid, Resting
<1>8. \A a \in Attempts : KindOK(rows[a])
  BY <1>1 DEF KindOK, NoRow
<1> QED
  BY <1>6, <1>7, <1>8 DEF LimitsInv

-----------------------------------------------------------------------------
(* What the invariant says of the sums of the properties.                  *)

Over(r)  == IF r.actual > r.reserved THEN r.actual - r.reserved ELSE 0
OverOf(r, node)   == IF r.node = node /\ r.status # "none" THEN Over(r) ELSE 0
LapsedOf(r, node) == IF r.node = node /\ r.status # "none" /\ r.lapsed THEN r.reserved ELSE 0

LEMMA RowTerms ==
  ASSUME NEW r \in Rows, NEW node \in Nodes
  PROVE  /\ Over(r) \in Nat /\ OverOf(r, node) \in Nat /\ LapsedOf(r, node) \in Nat
         /\ Committed(r, node) \in Nat /\ Solid(r, node) \in Nat
         /\ Committed(r, node) <= Solid(r, node) + OverOf(r, node) + LapsedOf(r, node)
BY DEF Rows, Over, OverOf, LapsedOf, Committed, Charge, Solid, Live, Holds

LEMMA ExcessIsSum ==
  ASSUME Types, NEW node \in Nodes
  PROVE  Excess(OfNode(node))
           = SumFunctionOnSet([a \in Attempts |-> OverOf(rows[a], node)], Attempts)
<1> DEFINE f == [a \in Attempts |-> IF rows[a].actual > rows[a].reserved
                                      THEN rows[a].actual - rows[a].reserved ELSE 0]
           h == [a \in Attempts |-> OverOf(rows[a], node)]
           S == OfNode(node)
<1>1. S \subseteq Attempts /\ \A a \in Attempts : a \in S <=> rows[a].node = node
                                                               /\ rows[a].status # "none"
  BY DEF OfNode
<1>2. \A a \in Attempts : f[a] = Over(rows[a]) /\ rows[a] \in Rows
  BY DEF Over, Types
<1>3. Integral(f, S)
  BY <1>1, <1>2, RowTerms DEF Integral
<1>4. \A a \in Attempts : h[a] = IF a \in S THEN f[a] ELSE 0
  BY <1>1, <1>2 DEF OverOf
<1>5. Excess(S) = SumFunctionOnSet(f, S)
  BY DEF Excess
<1> HIDE DEF f, h, S
<1>6. SumFunctionOnSet(f, S) = SumFunctionOnSet(h, Attempts)
  BY <1>1, <1>3, <1>4, SumOfPart, NamesAssumption
<1> QED
  BY <1>5, <1>6 DEF h, S

LEMMA LapsedIsSum ==
  ASSUME Types, NEW node \in Nodes
  PROVE  LapsedTotal(OfNode(node))
           = SumFunctionOnSet([a \in Attempts |-> LapsedOf(rows[a], node)], Attempts)
<1> DEFINE f == [a \in Attempts |-> rows[a].reserved]
           h == [a \in Attempts |-> LapsedOf(rows[a], node)]
           S == {a \in OfNode(node) : rows[a].lapsed}
<1>1. S \subseteq Attempts /\ \A a \in Attempts : a \in S <=> rows[a].node = node
                                             /\ rows[a].status # "none" /\ rows[a].lapsed
  BY DEF OfNode
<1>2. \A a \in Attempts : f[a] = rows[a].reserved /\ f[a] \in Int
  BY DEF Types, Rows
<1>3. Integral(f, S)
  BY <1>1, <1>2 DEF Integral
<1>4. \A a \in Attempts : h[a] = IF a \in S THEN f[a] ELSE 0
  BY <1>1, <1>2 DEF LapsedOf
<1>5. LapsedTotal(OfNode(node)) = SumFunctionOnSet(f, S)
  BY DEF LapsedTotal
<1> HIDE DEF f, h, S
<1>6. SumFunctionOnSet(f, S) = SumFunctionOnSet(h, Attempts)
  BY <1>1, <1>3, <1>4, SumOfPart, NamesAssumption
<1> QED
  BY <1>5, <1>6 DEF h

LEMMA PoolBound ==
  ASSUME Types, LimitsInv, NEW node \in Nodes
  PROVE  /\ model_pool_committed(node)
              <= model_token_pool_limits(node) + Excess(OfNode(node)) + LapsedTotal(OfNode(node))
         /\ Excess(OfNode(node)) \in Nat /\ LapsedTotal(OfNode(node)) \in Nat
<1> DEFINE c == [a \in Attempts |-> Committed(rows[a], node)]
           f == [a \in Attempts |-> Solid(rows[a], node)]
           o == [a \in Attempts |-> OverOf(rows[a], node)]
           l == [a \in Attempts |-> LapsedOf(rows[a], node)]
           ol == [a \in Attempts |-> o[a] + l[a]]
           k == [a \in Attempts |-> f[a] + ol[a]]
<1>1. \A a \in Attempts : /\ c[a] \in Nat /\ f[a] \in Nat /\ o[a] \in Nat /\ l[a] \in Nat
                          /\ c[a] <= f[a] + o[a] + l[a]
  BY RowTerms DEF Types
<1>2. \A a \in Attempts : /\ ol[a] = o[a] + l[a] /\ k[a] = f[a] + ol[a]
                          /\ ol[a] \in Nat /\ k[a] \in Nat /\ c[a] <= k[a]
  BY <1>1
<1>3. /\ model_pool_committed(node) = SumFunctionOnSet(c, Attempts)
      /\ Excess(OfNode(node)) = SumFunctionOnSet(o, Attempts)
      /\ LapsedTotal(OfNode(node)) = SumFunctionOnSet(l, Attempts)
      /\ SolidSum(node) = SumFunctionOnSet(f, Attempts)
  BY PoolIsSum, ExcessIsSum, LapsedIsSum DEF SolidSum
<1> HIDE DEF c, f, o, l, ol, k
<1>4. /\ Integral(c, Attempts) /\ Integral(f, Attempts) /\ Integral(o, Attempts)
      /\ Integral(l, Attempts) /\ Integral(ol, Attempts) /\ Integral(k, Attempts)
  BY <1>1, <1>2 DEF Integral
<1>5. SumFunctionOnSet(ol, Attempts)
        = SumFunctionOnSet(o, Attempts) + SumFunctionOnSet(l, Attempts)
  BY <1>2, <1>4, SumPlus, NamesAssumption
<1>6. SumFunctionOnSet(k, Attempts)
        = SumFunctionOnSet(f, Attempts) + SumFunctionOnSet(ol, Attempts)
  BY <1>2, <1>4, SumPlus, NamesAssumption
<1>7. SumFunctionOnSet(c, Attempts) <= SumFunctionOnSet(k, Attempts)
  BY <1>2, <1>4, SumLeq, NamesAssumption
<1>8. /\ SumFunctionOnSet(c, Attempts) \in Nat /\ SumFunctionOnSet(f, Attempts) \in Nat
      /\ SumFunctionOnSet(o, Attempts) \in Nat /\ SumFunctionOnSet(l, Attempts) \in Nat
  BY <1>1, SumOfNaturals, NamesAssumption
<1>9. /\ SolidSum(node) <= model_token_pool_limits(node)
      /\ model_token_pool_limits(node) \in Nat
  BY PoolAssumption DEF LimitsInv, Limits, model_token_pool_limits, Nodes
<1> QED
  BY <1>3, <1>5, <1>6, <1>7, <1>8, <1>9

(* An extraction's further calls stay within its reservation. *)
LEMMA NoExcessElsewhere ==
  ASSUME IInv, LimitsInv, NEW node \in Nodes, node = "evidence_extractor"
  PROVE  Excess(OfNode(node)) = 0
<1> DEFINE o == [a \in Attempts |-> OverOf(rows[a], node)]
<1>1. ASSUME NEW a \in Attempts PROVE o[a] = 0
  <2>1. rows[a] \in Rows /\ KindOK(rows[a]) /\ RowOK(rows[a], bill[a])
    BY DEF IInv, Types, LimitsInv
  <2>2. OverOf(rows[a], node) = 0
    BY <2>1 DEF OverOf, Over, KindOK, RowOK, Rows
  <2> QED
    BY <2>2
<1>2. Excess(OfNode(node)) = SumFunctionOnSet(o, Attempts)
  BY ExcessIsSum DEF IInv
<1> HIDE DEF o
<1> QED
  BY <1>1, <1>2, SumOfZeros, NamesAssumption

(* What is spent and held is committed in the three pools. *)
Settles(r, node) == IF r.node = node /\ r.status = "settled" THEN r.actual ELSE 0

Held(r) == IF Holds(r) THEN r.reserved ELSE 0

LEMMA SpentIsCommitted ==
  ASSUME IInv, LimitsInv
  PROVE  /\ model_tokens + outstanding_reservation_total
              <= model_pool_committed("planner") + model_pool_committed("evidence_extractor")
                   + model_pool_committed("report_writer")
         /\ model_tokens \in Nat /\ outstanding_reservation_total \in Nat
         /\ \A node \in Nodes : model_pool_committed(node) \in Nat
<1> DEFINE c(n) == [a \in Attempts |-> Committed(rows[a], n)]
           cp == c("planner")
           ce == c("evidence_extractor")
           cw == c("report_writer")
           p == [a \in Attempts |-> Settles(rows[a], "planner")]
           x == [a \in Attempts |-> Extracted(rows[a])]
           w == [a \in Attempts |-> Settles(rows[a], "report_writer")]
           d == [a \in Attempts |-> Held(rows[a])]
           pw == [a \in Attempts |-> p[a] + w[a]]
           xd == [a \in Attempts |-> x[a] + d[a]]
           ew == [a \in Attempts |-> ce[a] + cw[a]]
           t == [a \in Attempts |-> pw[a] + xd[a]]
<1>0. Types /\ IsFiniteSet(Attempts)
  BY NamesAssumption DEF IInv
<1>1. ASSUME NEW a \in Attempts
      PROVE  /\ cp[a] \in Nat /\ ce[a] \in Nat /\ cw[a] \in Nat
             /\ p[a] \in Nat /\ x[a] \in Nat /\ w[a] \in Nat /\ d[a] \in Nat
             /\ p[a] + w[a] + (x[a] + d[a]) = cp[a] + (ce[a] + cw[a])
  <2>1. rows[a] \in Rows /\ RowOK(rows[a], bill[a])
    BY DEF IInv, Types
  <2>2. ASSUME NEW r \in Rows, r.status # "settled" => r.actual = 0
        PROVE  /\ Settles(r, "planner") \in Nat /\ Settles(r, "report_writer") \in Nat
               /\ Extracted(r) \in Nat /\ Held(r) \in Nat
               /\ \A n \in Nodes : Committed(r, n) \in Nat
               /\ Settles(r, "planner") + Settles(r, "report_writer") + (Extracted(r) + Held(r))
                    = Committed(r, "planner")
                        + (Committed(r, "evidence_extractor") + Committed(r, "report_writer"))
    BY <2>2 DEF Rows, Nodes, Settles, Extracted, Held, Committed, Charge, Live, Holds
  <2>3. rows[a].status # "settled" => rows[a].actual = 0
    BY <2>1 DEF RowOK
  <2> QED
    BY <2>1, <2>2, <2>3 DEF Nodes
<1>2. \A a \in Attempts : /\ pw[a] = p[a] + w[a] /\ xd[a] = x[a] + d[a] /\ t[a] = pw[a] + xd[a]
                          /\ ew[a] = ce[a] + cw[a] /\ t[a] = cp[a] + ew[a]
                          /\ pw[a] \in Nat /\ xd[a] \in Nat /\ ew[a] \in Nat /\ t[a] \in Nat
  BY <1>1
<1>3. /\ model_pool_committed("planner") = SumFunctionOnSet(cp, Attempts)
      /\ model_pool_committed("evidence_extractor") = SumFunctionOnSet(ce, Attempts)
      /\ model_pool_committed("report_writer") = SumFunctionOnSet(cw, Attempts)
  BY <1>0, PoolIsSum DEF Nodes
<1>4. usage.evidence = SumFunctionOnSet(x, Attempts)
  BY DEF LimitsInv, Limits, ExtractedSum
<1>5. outstanding_reservation_total = SumFunctionOnSet(d, Attempts)
  <2> DEFINE f == [a \in Attempts |-> rows[a].reserved]
             S == {a \in Attempts : Holds(rows[a])}
  <2>1. Integral(f, S) /\ S \subseteq Attempts
    BY <1>0 DEF Integral, Types, Rows
  <2>2. \A a \in Attempts : d[a] = IF a \in S THEN f[a] ELSE 0
    BY DEF Held
  <2>3. outstanding_reservation_total = SumFunctionOnSet(f, S)
    BY DEF outstanding_reservation_total
  <2> HIDE DEF f, S, d
  <2> QED
    BY <1>0, <2>1, <2>2, <2>3, SumOfPart
<1>6. usage.planner = 0 \/ \E a \in Attempts : p[a] = usage.planner
  BY DEF LimitsInv, Saved, Paid, Settles
<1>7. usage.writer = 0 \/ \E a \in Attempts : w[a] = usage.writer
  BY DEF LimitsInv, Saved, Paid, Settles
<1> HIDE DEF cp, ce, cw, p, x, w, d, pw, xd, ew, t
<1>8. /\ Integral(cp, Attempts) /\ Integral(ce, Attempts) /\ Integral(cw, Attempts)
      /\ Integral(p, Attempts) /\ Integral(x, Attempts) /\ Integral(w, Attempts)
      /\ Integral(d, Attempts) /\ Integral(pw, Attempts) /\ Integral(xd, Attempts)
      /\ Integral(ew, Attempts)
  BY <1>1, <1>2 DEF Integral
<1> DEFINE Total(f) == SumFunctionOnSet(f, Attempts)
<1>9. Total(pw) = Total(p) + Total(w) /\ Total(xd) = Total(x) + Total(d)
  BY <1>0, <1>2, <1>8, SumPlus
<1>10. Total(ew) = Total(ce) + Total(cw) /\ Total(t) = Total(pw) + Total(xd)
  BY <1>0, <1>2, <1>8, SumPlus
<1>11. Total(t) = Total(cp) + Total(ew)
  BY <1>0, <1>2, <1>8, SumPlus
<1>12. /\ Total(cp) \in Nat /\ Total(ce) \in Nat /\ Total(cw) \in Nat /\ Total(p) \in Nat
       /\ Total(x) \in Nat /\ Total(w) \in Nat /\ Total(d) \in Nat
  BY <1>0, <1>1, SumOfNaturals
<1>13. usage.planner <= Total(p) /\ usage.writer <= Total(w)
  BY <1>0, <1>1, <1>6, <1>7, <1>12, SumOfNaturals
<1>14. usage.planner \in Nat /\ usage.writer \in Nat
  BY <1>0 DEF Types
<1>15. \A node \in Nodes : model_pool_committed(node) \in Nat
  BY <1>3, <1>12 DEF Nodes
<1> HIDE DEF Total
<1>16. /\ model_tokens = usage.planner + Total(x) + usage.writer
       /\ outstanding_reservation_total = Total(d)
       /\ model_pool_committed("planner") = Total(cp)
       /\ model_pool_committed("evidence_extractor") = Total(ce)
       /\ model_pool_committed("report_writer") = Total(cw)
  BY <1>3, <1>4, <1>5 DEF model_tokens, Total
<1> QED
  BY <1>9, <1>10, <1>11, <1>12, <1>13, <1>14, <1>15, <1>16

LEMMA LapsedInAll ==
  ASSUME Types
  PROVE  LapsedTotal(OfNode("planner")) + LapsedTotal(OfNode("evidence_extractor"))
           + LapsedTotal(OfNode("report_writer")) <= LapsedTotal(Attempts)
<1> DEFINE l(n) == [a \in Attempts |-> LapsedOf(rows[a], n)]
           lp == l("planner")
           le == l("evidence_extractor")
           lw == l("report_writer")
           ew == [a \in Attempts |-> le[a] + lw[a]]
           t == [a \in Attempts |-> lp[a] + ew[a]]
           f == [a \in Attempts |-> rows[a].reserved]
           S == {a \in Attempts : rows[a].lapsed}
           g == [a \in Attempts |-> IF a \in S THEN f[a] ELSE 0]
<1>1. ASSUME NEW a \in Attempts
      PROVE  /\ lp[a] \in Nat /\ le[a] \in Nat /\ lw[a] \in Nat
             /\ f[a] \in Nat /\ g[a] \in Nat
             /\ lp[a] + (le[a] + lw[a]) <= g[a]
  <2>1. rows[a] \in Rows
    BY DEF Types
  <2>2. ASSUME NEW r \in Rows
        PROVE  /\ LapsedOf(r, "planner") \in Nat /\ LapsedOf(r, "evidence_extractor") \in Nat
               /\ LapsedOf(r, "report_writer") \in Nat
               /\ LapsedOf(r, "planner")
                    + (LapsedOf(r, "evidence_extractor") + LapsedOf(r, "report_writer"))
                    <= IF r.lapsed THEN r.reserved ELSE 0
    BY DEF Rows, LapsedOf
  <2> QED
    BY <2>1, <2>2 DEF Rows
<1>2. \A a \in Attempts : /\ ew[a] = le[a] + lw[a] /\ t[a] = lp[a] + ew[a]
                          /\ ew[a] \in Nat /\ t[a] \in Nat /\ t[a] <= g[a]
                          /\ g[a] = IF a \in S THEN f[a] ELSE 0
  BY <1>1
<1>3. /\ LapsedTotal(OfNode("planner")) = SumFunctionOnSet(lp, Attempts)
      /\ LapsedTotal(OfNode("evidence_extractor")) = SumFunctionOnSet(le, Attempts)
      /\ LapsedTotal(OfNode("report_writer")) = SumFunctionOnSet(lw, Attempts)
  BY LapsedIsSum DEF Nodes
<1>4. LapsedTotal(Attempts) = SumFunctionOnSet(f, S) /\ S \subseteq Attempts
  BY DEF LapsedTotal
<1> HIDE DEF lp, le, lw, ew, t, f, S, g
<1>5. IsFiniteSet(Attempts)
  BY NamesAssumption
<1>6. /\ Integral(lp, Attempts) /\ Integral(le, Attempts) /\ Integral(lw, Attempts)
      /\ Integral(ew, Attempts) /\ Integral(t, Attempts) /\ Integral(g, Attempts)
      /\ Integral(f, S)
  BY <1>1, <1>2, <1>4 DEF Integral
<1>7. SumFunctionOnSet(f, S) = SumFunctionOnSet(g, Attempts)
  BY <1>2, <1>4, <1>5, <1>6, SumOfPart
<1>8. SumFunctionOnSet(t, Attempts) <= SumFunctionOnSet(g, Attempts)
  BY <1>2, <1>5, <1>6, SumLeq
<1>9. SumFunctionOnSet(t, Attempts)
        = SumFunctionOnSet(lp, Attempts) + SumFunctionOnSet(ew, Attempts)
  BY <1>2, <1>5, <1>6, SumPlus
<1>10. SumFunctionOnSet(ew, Attempts)
         = SumFunctionOnSet(le, Attempts) + SumFunctionOnSet(lw, Attempts)
  BY <1>2, <1>5, <1>6, SumPlus
<1>11. /\ SumFunctionOnSet(lp, Attempts) \in Nat /\ SumFunctionOnSet(le, Attempts) \in Nat
       /\ SumFunctionOnSet(lw, Attempts) \in Nat
  BY <1>1, <1>5, SumOfNaturals
<1> QED
  BY <1>3, <1>4, <1>7, <1>8, <1>9, <1>10, <1>11

LEMMA LimitsInvIsSound == IInv /\ LimitsInv => LedgerSound
<1> SUFFICES ASSUME IInv, LimitsInv PROVE LedgerSound
  OBVIOUS
<1>0. Types
  BY DEF IInv
<1>1. ReservesProtected
  <2> DEFINE P == model_pool_committed("planner")
             E == model_pool_committed("evidence_extractor")
             W == model_pool_committed("report_writer")
             LP == LapsedTotal(OfNode("planner"))
             LE == LapsedTotal(OfNode("evidence_extractor"))
             LW == LapsedTotal(OfNode("report_writer"))
             X == Excess(OfNode("planner"))
             Y == Excess(OfNode("report_writer"))
  <2>1. /\ model_tokens + outstanding_reservation_total <= P + E + W
        /\ model_tokens \in Nat /\ outstanding_reservation_total \in Nat
        /\ P \in Nat /\ E \in Nat /\ W \in Nat
    BY SpentIsCommitted DEF Nodes
  <2>2. P <= PlannerTokens + X + LP /\ X \in Nat /\ LP \in Nat
    BY <1>0, PoolBound DEF Nodes, model_token_pool_limits
  <2>3. E <= ResearchTokens + LE /\ LE \in Nat
    <3>1. E <= ResearchTokens + Excess(OfNode("evidence_extractor")) + LE /\ LE \in Nat
      BY <1>0, PoolBound DEF Nodes, model_token_pool_limits
    <3>2. Excess(OfNode("evidence_extractor")) = 0
      BY NoExcessElsewhere DEF Nodes
    <3> QED
      BY <3>1, <3>2, PoolAssumption
  <2>4. W <= WriterTokens + Y + LW /\ Y \in Nat /\ LW \in Nat
    BY <1>0, PoolBound DEF Nodes, model_token_pool_limits
  <2>5. OfNode("report_writer") = {} => W = 0
    <3> DEFINE c == [a \in Attempts |-> Committed(rows[a], "report_writer")]
    <3>1. ASSUME OfNode("report_writer") = {}, NEW a \in Attempts PROVE c[a] = 0
      BY <3>1 DEF OfNode, Committed, Live, Holds
    <3>2. W = SumFunctionOnSet(c, Attempts)
      BY <1>0, PoolIsSum DEF Nodes
    <3> HIDE DEF c, W
    <3> QED
      BY <3>1, <3>2, SumOfZeros, NamesAssumption
  <2>6. LP + LE + LW <= LapsedTotal(Attempts)
    BY <1>0, LapsedInAll
  <2>7. LapsedTotal(Attempts) \in Int
    <3> DEFINE f == [a \in Attempts |-> rows[a].reserved]
               S == {a \in Attempts : rows[a].lapsed}
    <3>1. IsFiniteSet(S) /\ Integral(f, S)
      BY <1>0, NamesAssumption, FS_Subset DEF Integral, Types, Rows
    <3> HIDE DEF f, S
    <3>2. SumFunctionOnSet(f, S) \in Int
      BY <3>1, SumTakeOut
    <3> QED
      BY <3>2 DEF LapsedTotal, f, S
  <2> HIDE DEF P, E, W, LP, LE, LW, X, Y
  <2>8. model_tokens + outstanding_reservation_total + ReserveTokens
          + (IF OfNode("report_writer") = {} THEN WriterTokens ELSE 0)
        <= MaxTokens + X + Y + LapsedTotal(Attempts)
    BY <2>1, <2>2, <2>3, <2>4, <2>5, <2>6, <2>7, PoolAssumption
  <2> QED
    BY <2>8 DEF ReservesProtected, X, Y
<1>2. PoolsWithinLimits
  <2>1. ASSUME NEW node \in Nodes
        PROVE  model_pool_committed(node)
                 <= model_token_pool_limits(node) + LapsedTotal(OfNode(node))
                      + (IF node \in Repeaters THEN Excess(OfNode(node)) ELSE 0)
    <3>1. /\ model_pool_committed(node)
               <= model_token_pool_limits(node) + Excess(OfNode(node))
                    + LapsedTotal(OfNode(node))
          /\ Excess(OfNode(node)) \in Nat /\ LapsedTotal(OfNode(node)) \in Nat
          /\ model_pool_committed(node) \in Int
      BY <1>0, PoolBound, PoolIsSum
    <3>2. model_token_pool_limits(node) \in Nat
      BY PoolAssumption DEF model_token_pool_limits, Nodes
    <3>3. node \notin Repeaters => Excess(OfNode(node)) = 0
      BY NoExcessElsewhere DEF Nodes, Repeaters
    <3> QED
      BY <3>1, <3>2, <3>3
  <2> QED
    BY <2>1 DEF PoolsWithinLimits
<1>3. QuestionsWithinRecoveryCap
  BY <1>0, SpendIsSum DEF LimitsInv, Limits, QuestionsWithinRecoveryCap
<1>4. EvidenceLedgerAgrees
  <2> DEFINE f == [a \in Attempts |-> rows[a].actual]
             h == [a \in Attempts |-> Extracted(rows[a])]
             S == OfNode("evidence_extractor")
  <2>1. S \subseteq Attempts /\ Integral(f, S)
    BY <1>0 DEF OfNode, Integral, Types, Rows
  <2>2. \A a \in Attempts : h[a] = IF a \in S THEN f[a] ELSE 0
    BY DEF Extracted, OfNode
  <2>3. usage.evidence = SumFunctionOnSet(h, Attempts)
    BY DEF LimitsInv, Limits, ExtractedSum
  <2> HIDE DEF f, h, S
  <2>4. SumFunctionOnSet(f, S) = SumFunctionOnSet(h, Attempts)
    BY <2>1, <2>2, SumOfPart, NamesAssumption
  <2> QED
    BY <2>3, <2>4 DEF EvidenceLedgerAgrees, f, S
<1> QED
  BY <1>1, <1>2, <1>3, <1>4 DEF LedgerSound

(* However reservations, settlements, losses and lapses interleave, the    *)
(* reserves and pools are protected up to lapsed rows and a second call of *)
(* the planner or of the writer; an extraction's retries, repairs and      *)
(* rescues do not get past them, no question spends more than twice its    *)
(* target, and the evidence counter is the sum of its rows.                *)
THEOREM LedgerStaysSound == Spec => []LedgerSound
<1>1. Init => IInv /\ LimitsInv
  BY InvInit, LimitsInit
<1>2. IInv /\ LimitsInv /\ [Next]_vars => (IInv /\ LimitsInv)'
  BY InvStep, LimitsStepAlways
<1> QED
  BY <1>1, <1>2, LimitsInvIsSound, PTL DEF Spec
=============================================================================
