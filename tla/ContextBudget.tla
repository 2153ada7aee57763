--------------------------- MODULE ContextBudget ---------------------------
(* The context manager's selection for one model call: a token budget cut    *)
(* from the provider's window, candidates in order of marginal relevance,    *)
(* and the longest choice that fits.  A candidate carries its type, its      *)
(* estimated tokens, its rank in hundredths, whether it is protected and the *)
(* features its text is compared by.  Compression, which the report writer's *)
(* policy allows for no candidate it passes, is left out.                    *)
EXTENDS Integers, Sequences, FiniteSets, FiniteSetsExt, SequencesExt, Listings

MIN_INPUT_BUDGET == 512

Smaller(a, b) == IF a <= b THEN a ELSE b
Larger(a, b) == IF a >= b THEN a ELSE b

(* allocate_budget; 0 where it raises ContextBudgetInsufficientError.        *)
AllocateBudget(window, requested, providerMax, cap) ==
  LET reserve   == Smaller(requested, providerMax)
      safety    == Larger(512, (window + 9) \div 10)
      budget    == Smaller(Smaller(window - reserve - safety, (window * 7) \div 10), cap)
  IN IF window < 1024 \/ budget < MIN_INPUT_BUDGET THEN 0 ELSE budget

(* similarity: the Jaccard index of the features, in hundredths.             *)
Similarity(a, b) ==
  IF a.features = {} \/ b.features = {} THEN 0
  ELSE (100 * Cardinality(a.features \intersect b.features))
         \div Cardinality(a.features \union b.features)

Nearest(cands, i, chosen) ==
  Max({0} \union {Similarity(cands[i], cands[j]) : j \in Range(chosen)})

(* The candidates of a type beyond its limit, counted in the given order.    *)
OverLimit(cands, policy) ==
  {i \in DOMAIN cands :
     /\ ~cands[i].protected /\ cands[i].type \in DOMAIN policy.limits
     /\ Cardinality({j \in 1..(i - 1) : ~cands[j].protected
                       /\ cands[j].type = cands[i].type}) >= policy.limits[cands[i].type]}

MmrScore(cands, policy, i, chosen) ==
  policy.lambda * cands[i].rank - (100 - policy.lambda) * Nearest(cands, i, chosen)

(* max(eligible, key=(mmr, rank_score, -index))                              *)
BestCandidate(cands, policy, eligible, chosen) ==
  LET mmr(i) == MmrScore(cands, policy, i, chosen)
  IN CHOOSE i \in eligible : \A j \in eligible \ {i} :
       \/ mmr(i) > mmr(j)
       \/ mmr(i) = mmr(j) /\ cands[i].rank > cands[j].rank
       \/ mmr(i) = mmr(j) /\ cands[i].rank = cands[j].rank /\ i < j

(* mmr_order of the unprotected: near duplicates of a choice are pruned.     *)
MmrStep(cands, policy, st) ==
  LET best == BestCandidate(cands, policy, st.eligible, st.order)
      twin == st.order # <<>> /\ Nearest(cands, best, st.order) >= policy.redundancy
  IN IF st.eligible = {} THEN st
     ELSE [eligible |-> st.eligible \ {best},
           order |-> IF twin THEN st.order ELSE Append(st.order, best)]

Protected(cands) == {i \in DOMAIN cands : cands[i].protected}

MmrOrder(cands, policy) ==
  LET eligible == (DOMAIN cands \ Protected(cands)) \ OverLimit(cands, policy)
      after[n \in 0..Cardinality(eligible)] ==
        IF n = 0 THEN [eligible |-> eligible, order |-> <<>>]
        ELSE MmrStep(cands, policy, after[n - 1])
  IN Ascending(Protected(cands)) \o after[Cardinality(eligible)].order

TokensOf(cands, S) == FoldSet(LAMBDA i, n : n + cands[i].tokens, 0, S)

(* build: protected candidates first, then whatever still fits, in order.    *)
FitsBudget(used, tokens, budget) == used + tokens <= budget

Taken(cands, budget, st, i) ==
  IF FitsBudget(st.used, cands[i].tokens, budget)
  THEN [chosen |-> st.chosen \union {i}, used |-> st.used + cands[i].tokens]
  ELSE st

ContextSelection(cands, policy, budget) ==
  LET order == MmrOrder(cands, policy)
      after[n \in 0..Len(order)] ==
        IF n = 0 THEN [chosen |-> {}, used |-> 0]
        ELSE Taken(cands, budget, after[n - 1], order[n])
  IN after[Len(order)]

(* The cases in which build raises before it selects.                        *)
ContextInsufficient(cands, budget) ==
  budget = 0 \/ TokensOf(cands, Protected(cands)) > budget
=============================================================================
