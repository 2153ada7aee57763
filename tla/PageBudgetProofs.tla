-------------------------- MODULE PageBudgetProofs --------------------------
(***************************************************************************)
(* Proofs about PageBudget, for all limits.                                *)
(***************************************************************************)
EXTENDS PageBudget, Integers, FiniteSets, Functions, FiniteSetTheorems,
        WellFoundedInduction, TLAPS

-----------------------------------------------------------------------------
(* The inductive invariant *)

(* an attempt is between its reservation and its last release *)
InAttempt == exec.pc \in {"prefetch", "loop", "page", "slot", "exit", "failing"}
NoReservation == exec.pc \in {"off", "idle", "target", "results"}

(* outside an attempt its fields are zero; inside one, the results to be   *)
(* prefetched and those prefetched are among the ones not looked at yet    *)
ResultsCounted ==
  /\ NoReservation => exec.left = 0 /\ exec.prefetched = 0 /\ exec.batch = 0
                      /\ exec.granted = 0 /\ exec.settled = 0
  /\ exec.prefetched + exec.batch <= exec.left
  /\ exec.batch > 0 => exec.pc \in {"prefetch", "raised"}

(* what may still be fetched is part of the overrun already *)
OverrunCovered ==
  /\ usage.fetched + exec.left < MaxPages + MaxPageAttempts + exec.prefetched
  /\ usage.attempts + exec.left < MaxFetchAttempts + MaxPageAttempts + exec.prefetched

(* an extraction in flight holds a slot *)
SlotHeld ==
  /\ exec.pc = "slot" => usage.slots > 0
  /\ exec.pc = "slot" => usage.slots <= lost.slots + 1
  /\ exec.pc \notin {"slot", "raised"} => usage.slots <= lost.slots

(* the attempt owns the slots it has not used, and reserved only those on  *)
(* top of the ones earlier executions lost                                 *)
AttemptOwnsUnused ==
  /\ NoReservation => usage.reserved <= lost.pages
  /\ InAttempt => Owned >= Unused /\ usage.reserved <= lost.pages + Unused

IInv ==
  /\ TypeOK
  /\ ResultsCounted
  /\ OverrunCovered
  /\ SlotHeld
  /\ AttemptOwnsUnused
  /\ ExtractionWithinBudget

-----------------------------------------------------------------------------
(* Helpers *)

(* AtMost and Monus stay within the naturals; Monus is the larger of the   *)
(* difference and zero.                                                    *)
LEMMA Arithmetic ==
  ASSUME NEW a \in Nat, NEW b \in Nat
  PROVE  /\ AtMost(a, b) \in Nat /\ AtMost(a, b) <= a /\ AtMost(a, b) <= b
         /\ AtMost(a, b) = a \/ AtMost(a, b) = b
         /\ Monus(a, b) \in Nat /\ Monus(a, b) <= a
         /\ a >= b => Monus(a, b) = a - b
         /\ a <= b => Monus(a, b) = 0
  BY DEF AtMost, Monus

LEMMA OwnedType ==
  ASSUME TypeOK
  PROVE  /\ Owned \in Nat
         /\ DOMAIN owners = {} => Owned = 0
         /\ exec.key \in Nat
  BY DEF TypeOK, Owned, Execution

(* Writing the worker's entry keeps the map well typed, and the entry reads *)
(* back what was written.                                                   *)
LEMMA SetOwnedFacts ==
  ASSUME TypeOK, NEW n \in Nat, SetOwned(n), exec'.key = exec.key
  PROVE  /\ DOMAIN owners' \subseteq Nat
         /\ owners' \in [DOMAIN owners' -> Nat \ {0}]
         /\ Owned' = n
<1> DEFINE D == (DOMAIN owners \cup {exec.key}) \ (IF n = 0 THEN {exec.key} ELSE {})
<1>1. owners' = [k \in D |-> IF k = exec.key THEN n ELSE owners[k]]
  BY DEF SetOwned
<1>2. DOMAIN owners' = D
  BY <1>1
<1>3. exec.key \in Nat /\ DOMAIN owners \subseteq Nat
  BY OwnedType DEF TypeOK
<1>4. D \subseteq Nat
  BY <1>3
<1>5. ASSUME NEW k \in D PROVE (IF k = exec.key THEN n ELSE owners[k]) \in Nat \ {0}
  <2>1. CASE k = exec.key
    BY <2>1, <1>5
  <2>2. CASE k # exec.key
    BY <2>2 DEF TypeOK
  <2> QED
    BY <2>1, <2>2
<1>6. owners' \in [D -> Nat \ {0}]
  BY <1>1, <1>5
<1>7. Owned' = n
  <2>1. CASE n = 0
    BY <2>1, <1>2 DEF Owned
  <2>2. CASE n # 0
    BY <2>2, <1>1, <1>2 DEF Owned
  <2> QED
    BY <2>1, <2>2
<1> QED
  BY <1>2, <1>4, <1>6, <1>7

Counts == [attempts: {0, 1}, fetched: {0, 1}]

(* What settling one fetch does to the reservation. *)
LEMMA SettleFacts ==
  ASSUME TypeOK, NEW counts \in Counts, Settle(counts), exec'.key = exec.key
  PROVE  /\ DOMAIN owners' \subseteq Nat
         /\ owners' \in [DOMAIN owners' -> Nat \ {0}]
         /\ usage' \in Usage
         /\ usage'.attempts = usage.attempts + counts.attempts
         /\ usage'.fetched = usage.fetched + counts.fetched
         /\ usage'.slots = usage.slots /\ usage'.extracted = usage.extracted
         /\ usage'.calls = usage.calls
         /\ usage'.reserved <= usage.reserved
         /\ Owned = 0 => Owned' = 0
         /\ Owned > 0 => /\ Owned' = Owned - 1
                         /\ usage.reserved > 0 => usage'.reserved = usage.reserved - 1
<1>1. Owned \in Nat /\ (DOMAIN owners = {} => Owned = 0)
  BY OwnedType
<1>2. ToSettle \in {0, 1} /\ (Owned > 0 => ToSettle = 1)
  BY <1>1 DEF ToSettle, AtMost
<1>3. usage \in Usage /\ usage.reserved \in Nat
  BY DEF TypeOK, Usage
<1>4. Monus(usage.reserved, ToSettle) \in Nat /\ Monus(usage.reserved, ToSettle) <= usage.reserved
      /\ (ToSettle = 1 /\ usage.reserved > 0
           => Monus(usage.reserved, ToSettle) = usage.reserved - 1)
  BY <1>2, <1>3 DEF Monus
<1>5. usage' = [usage EXCEPT !.reserved = Monus(usage.reserved, ToSettle),
                            !.attempts = usage.attempts + counts.attempts,
                            !.fetched = usage.fetched + counts.fetched]
  BY DEF Settle
<1>a. usage.attempts + counts.attempts \in Nat /\ usage.fetched + counts.fetched \in Nat
  BY <1>3 DEF Counts, Usage
<1>6. /\ usage' \in Usage
      /\ usage'.reserved = Monus(usage.reserved, ToSettle)
      /\ usage'.attempts = usage.attempts + counts.attempts
      /\ usage'.fetched = usage.fetched + counts.fetched
      /\ usage'.slots = usage.slots /\ usage'.extracted = usage.extracted
      /\ usage'.calls = usage.calls
  BY <1>3, <1>4, <1>5, <1>a DEF Usage
<1>7. CASE DOMAIN owners = {}
  <2>1. owners' = owners
    BY <1>7 DEF Settle
  <2>2. Owned = 0 /\ Owned' = 0
    BY <1>7, <2>1 DEF Owned
  <2> QED
    BY <1>4, <1>6, <2>1, <2>2 DEF TypeOK
<1>8. CASE DOMAIN owners # {}
  <2>1. SetOwned(Owned - ToSettle)
    BY <1>8 DEF Settle
  <2>2. Owned - ToSettle \in Nat
    BY <1>1, <1>2, <1>8 DEF ToSettle, AtMost
  <2>3. /\ DOMAIN owners' \subseteq Nat
        /\ owners' \in [DOMAIN owners' -> Nat \ {0}]
        /\ Owned' = Owned - ToSettle
    BY <2>1, <2>2, SetOwnedFacts
  <2>4. Owned = 0 => ToSettle = 0
    BY <1>8 DEF ToSettle, AtMost
  <2> QED
    BY <1>1, <1>2, <1>4, <1>6, <2>3, <2>4
<1> QED
  BY <1>7, <1>8

(* What releasing slots does: an amount the worker owns goes back in full. *)
LEMMA ReleaseFacts ==
  ASSUME TypeOK, NEW count \in Nat, NEW slots \in Nat, Release(count, slots),
         exec'.key = exec.key
  PROVE  /\ DOMAIN owners' \subseteq Nat
         /\ owners' \in [DOMAIN owners' -> Nat \ {0}]
         /\ usage' \in Usage
         /\ usage'.attempts = usage.attempts /\ usage'.fetched = usage.fetched
         /\ usage'.slots = slots /\ usage'.extracted = usage.extracted
         /\ usage'.calls = usage.calls
         /\ usage'.reserved <= usage.reserved
         /\ Owned >= count => usage'.reserved = Monus(usage.reserved, count)
<1>1. Owned \in Nat /\ (DOMAIN owners = {} => Owned = 0)
  BY OwnedType
<1>2. usage \in Usage /\ usage.reserved \in Nat
  BY DEF TypeOK, Usage
<1>3. ToRelease(count) \in Nat
      /\ (DOMAIN owners # {} => ToRelease(count) <= Owned)
      /\ (DOMAIN owners # {} /\ Owned >= count => ToRelease(count) = count)
      /\ (count = 0 => ToRelease(count) = 0)
  BY <1>1, <1>2 DEF ToRelease, AtMost
<1>4. Monus(usage.reserved, ToRelease(count)) \in Nat
      /\ Monus(usage.reserved, ToRelease(count)) <= usage.reserved
  BY <1>2, <1>3, Arithmetic
<1>5. usage' = [usage EXCEPT !.reserved = Monus(usage.reserved, ToRelease(count)),
                            !.slots = slots]
  BY DEF Release
<1>6. /\ usage' \in Usage
      /\ usage'.reserved = Monus(usage.reserved, ToRelease(count))
      /\ usage'.attempts = usage.attempts /\ usage'.fetched = usage.fetched
      /\ usage'.slots = slots /\ usage'.extracted = usage.extracted
      /\ usage'.calls = usage.calls
  BY <1>2, <1>4, <1>5 DEF Usage
<1>7. Owned >= count => ToRelease(count) = count
  <2>1. CASE DOMAIN owners = {}
    BY <2>1, <1>1, <1>3
  <2>2. CASE DOMAIN owners # {}
    BY <2>2, <1>3
  <2> QED
    BY <2>1, <2>2
<1>8. CASE DOMAIN owners = {} \/ count = 0
  <2>1. owners' = owners
    BY <1>8 DEF Release
  <2> QED
    BY <2>1, <1>4, <1>6, <1>7 DEF TypeOK
<1>9. CASE ~(DOMAIN owners = {} \/ count = 0)
  <2>1. SetOwned(Owned - ToRelease(count))
    BY <1>9 DEF Release
  <2>a. ToRelease(count) <= Owned
    BY <1>3, <1>9
  <2>2. Owned - ToRelease(count) \in Nat
    BY <1>1, <1>3, <2>a
  <2>3. DOMAIN owners' \subseteq Nat /\ owners' \in [DOMAIN owners' -> Nat \ {0}]
    BY <2>1, <2>2, SetOwnedFacts
  <2> QED
    BY <2>3, <1>4, <1>6, <1>7
<1> QED
  BY <1>8, <1>9

-----------------------------------------------------------------------------
(* Every step preserves the invariant *)

LEMMA InitInv == Init => IInv
  BY LimitsAssumption DEF Init, IInv, TypeOK, Usage, Execution, NoAttempt, Pcs,
     ResultsCounted, OverrunCovered, SlotHeld, AttemptOwnsUnused, InAttempt,
     NoReservation, Owned, ExtractionWithinBudget

(* Steps that only move the attempt on, or end it, and leave usage alone. *)
LEMMA NoAttemptType ==
  ASSUME NEW pc \in Pcs, NEW key \in Nat
  PROVE  /\ NoAttempt(pc, key) \in Execution
         /\ NoAttempt(pc, key).pc = pc /\ NoAttempt(pc, key).key = key
         /\ NoAttempt(pc, key).left = 0 /\ NoAttempt(pc, key).prefetched = 0
         /\ NoAttempt(pc, key).batch = 0 /\ NoAttempt(pc, key).granted = 0
         /\ NoAttempt(pc, key).settled = 0
  BY DEF NoAttempt, Execution

LEMMA AcquireInv == ASSUME IInv, NEW key \in 1..MaxExecutions, Acquire(key) PROVE IInv'
<1>1. "idle" \in Pcs /\ key \in Nat
  BY DEF Pcs
<1>2. exec' = NoAttempt("idle", key)
  BY DEF Acquire
<1>3. exec' \in Execution /\ exec'.pc = "idle" /\ exec'.left = 0 /\ exec'.prefetched = 0
      /\ exec'.batch = 0 /\ exec'.granted = 0 /\ exec'.settled = 0
  BY <1>1, <1>2, NoAttemptType
<1>4. exec.pc = "off" /\ UNCHANGED <<usage, owners, lost>> /\ executions' = executions + 1
  BY DEF Acquire
<1>5. exec.left = 0 /\ exec.prefetched = 0
  BY <1>4 DEF IInv, ResultsCounted, NoReservation
<1>6. TypeOK'
  BY <1>3, <1>4 DEF IInv, TypeOK
<1>7. ResultsCounted' /\ SlotHeld' /\ AttemptOwnsUnused' /\ ExtractionWithinBudget'
  BY <1>3, <1>4 DEF IInv, ResultsCounted, SlotHeld, AttemptOwnsUnused, NoReservation,
     InAttempt, ExtractionWithinBudget
<1>8. OverrunCovered'
  BY <1>3, <1>4, <1>5 DEF IInv, OverrunCovered
<1> QED
  BY <1>6, <1>7, <1>8 DEF IInv

(* the numbers the provers need to know are natural *)
LEMMA Numbers ==
  ASSUME TypeOK
  PROVE  /\ exec.left \in Nat /\ exec.prefetched \in Nat /\ exec.batch \in Nat
         /\ exec.granted \in Nat /\ exec.settled \in Nat /\ exec.key \in Nat
         /\ exec.others \in Nat /\ exec.read \in Nat /\ exec.limit \in Nat
         /\ usage.fetched \in Nat /\ usage.attempts \in Nat /\ usage.reserved \in Nat
         /\ usage.slots \in Nat /\ usage.extracted \in Nat /\ usage.calls \in Nat
         /\ usage.actions \in Nat /\ usage.searches \in Nat /\ usage.found \in Nat
         /\ usage.feedback \in Nat /\ usage.consumed \in Nat
         /\ lost.pages \in Nat /\ lost.slots \in Nat
         /\ Unused \in Nat
<1>1. exec.granted \in Nat /\ exec.settled \in Nat
  BY DEF TypeOK, Execution
<1>2. Unused \in Nat
  BY <1>1, Arithmetic DEF Unused
<1> QED
  BY <1>2 DEF TypeOK, Execution, Usage

(* An attempt that ends leaves nothing to fetch: what was covered is past. *)
LEMMA EndOverrun ==
  ASSUME IInv, exec'.left = 0, exec'.prefetched = 0,
         usage'.fetched = usage.fetched, usage'.attempts = usage.attempts
  PROVE  OverrunCovered'
<1>1. exec.prefetched + exec.batch <= exec.left
  BY DEF IInv, ResultsCounted
<1>2. usage.fetched + exec.left < MaxPages + MaxPageAttempts + exec.prefetched
      /\ usage.attempts + exec.left < MaxFetchAttempts + MaxPageAttempts + exec.prefetched
  BY DEF IInv, OverrunCovered
<1>3. usage.fetched < MaxPages + MaxPageAttempts
      /\ usage.attempts < MaxFetchAttempts + MaxPageAttempts
  BY <1>1, <1>2, Numbers, LimitsAssumption DEF IInv
<1> QED
  BY <1>3, Numbers, LimitsAssumption DEF IInv, OverrunCovered

LEMMA CutOffInv == ASSUME IInv, CutOff PROVE IInv'
<1>1. exec' = NoAttempt("off", exec.key) /\ "off" \in Pcs /\ exec.key \in Nat
  BY Numbers DEF CutOff, IInv, Pcs
<1>2. exec' \in Execution /\ exec'.pc = "off" /\ exec'.left = 0 /\ exec'.prefetched = 0
      /\ exec'.batch = 0 /\ exec'.granted = 0 /\ exec'.settled = 0
  BY <1>1, NoAttemptType
<1>3. UNCHANGED <<usage, owners, executions>>
      /\ lost' = [pages |-> usage.reserved, slots |-> usage.slots]
  BY DEF CutOff
<1>4. TypeOK'
  BY <1>2, <1>3, Numbers DEF IInv, TypeOK
<1>5. ResultsCounted' /\ SlotHeld' /\ AttemptOwnsUnused' /\ ExtractionWithinBudget'
  BY <1>2, <1>3, Numbers DEF IInv, ResultsCounted, SlotHeld, AttemptOwnsUnused,
     NoReservation, InAttempt, ExtractionWithinBudget
<1>6. OverrunCovered'
  BY <1>2, <1>3, EndOverrun
<1> QED
  BY <1>4, <1>5, <1>6 DEF IInv

LEMMA EndExecutionInv == ASSUME IInv, EndExecution PROVE IInv'
<1>1. exec' = NoAttempt("off", exec.key) /\ "off" \in Pcs /\ exec.key \in Nat
  BY Numbers DEF EndExecution, IInv, Pcs
<1>2. exec' \in Execution /\ exec'.pc = "off" /\ exec'.left = 0 /\ exec'.prefetched = 0
      /\ exec'.batch = 0 /\ exec'.granted = 0 /\ exec'.settled = 0
  BY <1>1, NoAttemptType
<1>3. UNCHANGED <<owners, executions>>
      /\ lost' = [pages |-> 0, slots |-> usage.slots]
      /\ usage' = [usage EXCEPT !.reserved = 0]
  BY DEF EndExecution
<1>4. usage \in Usage
  BY DEF IInv, TypeOK
<1>5. /\ usage' \in Usage /\ usage'.reserved = 0 /\ usage'.slots = usage.slots
      /\ usage'.fetched = usage.fetched /\ usage'.attempts = usage.attempts
      /\ usage'.extracted = usage.extracted /\ usage'.calls = usage.calls
  BY <1>3, <1>4 DEF Usage
<1>6. TypeOK'
  BY <1>2, <1>3, <1>5, Numbers DEF IInv, TypeOK
<1>7. ResultsCounted' /\ SlotHeld' /\ AttemptOwnsUnused' /\ ExtractionWithinBudget'
  BY <1>2, <1>3, <1>5, Numbers DEF IInv, ResultsCounted, SlotHeld, AttemptOwnsUnused,
     NoReservation, InAttempt, ExtractionWithinBudget
<1>8. OverrunCovered'
  BY <1>2, <1>5, EndOverrun
<1> QED
  BY <1>6, <1>7, <1>8 DEF IInv

LEMMA RaiseInv == ASSUME IInv, Raise \/ RaiseModelError PROVE IInv'
<1>1. exec' = [exec EXCEPT !.pc = "raised"] /\ UNCHANGED <<usage, owners, executions, lost>>
  BY DEF Raise, RaiseModelError
<1>2. /\ exec' \in Execution /\ exec'.pc = "raised" /\ exec'.left = exec.left
      /\ exec'.prefetched = exec.prefetched /\ exec'.batch = exec.batch
  BY <1>1 DEF IInv, TypeOK, Execution, Pcs
<1>3. TypeOK'
  BY <1>1, <1>2 DEF IInv, TypeOK
<1>4. ResultsCounted' /\ SlotHeld' /\ AttemptOwnsUnused' /\ ExtractionWithinBudget'
      /\ OverrunCovered'
  BY <1>1, <1>2 DEF IInv, ResultsCounted, SlotHeld, AttemptOwnsUnused, OverrunCovered,
     NoReservation, InAttempt, ExtractionWithinBudget
<1> QED
  BY <1>3, <1>4 DEF IInv

(* Steps before the reservation change only the counters of actions and    *)
(* searches, and stay outside the attempt.                                 *)
LEMMA BeforeReservationInv ==
  ASSUME IInv, NoReservation, usage' \in Usage, exec' \in Execution,
         exec'.pc \in {"idle", "target", "results"},
         exec'.left = 0, exec'.prefetched = 0, exec'.batch = 0,
         exec'.granted = 0, exec'.settled = 0,
         usage'.reserved = usage.reserved, usage'.slots = usage.slots,
         usage'.fetched = usage.fetched, usage'.attempts = usage.attempts,
         usage'.extracted = usage.extracted, usage'.calls = usage.calls,
         UNCHANGED <<owners, executions, lost>>
  PROVE  IInv'
<1>1. TypeOK'
  BY DEF IInv, TypeOK
<1>2. ResultsCounted' /\ SlotHeld' /\ AttemptOwnsUnused' /\ ExtractionWithinBudget'
  BY DEF IInv, ResultsCounted, SlotHeld, AttemptOwnsUnused, NoReservation, InAttempt,
     ExtractionWithinBudget
<1>3. OverrunCovered'
  BY EndOverrun
<1> QED
  BY <1>1, <1>2, <1>3 DEF IInv

LEMMA PrepareTargetInv ==
  ASSUME IInv, NEW fresh \in BOOLEAN, PrepareTarget(fresh) PROVE IInv'
<1>1. exec.pc = "idle" /\ exec' = [exec EXCEPT !.pc = "target", !.fresh = fresh]
      /\ usage' = [usage EXCEPT !.actions = usage.actions + 1]
      /\ UNCHANGED <<owners, executions, lost>>
  BY DEF PrepareTarget
<1>2. NoReservation /\ exec.left = 0 /\ exec.prefetched = 0 /\ exec.batch = 0
      /\ exec.granted = 0 /\ exec.settled = 0
  BY <1>1 DEF IInv, ResultsCounted, NoReservation
<1>3. exec' \in Execution /\ exec'.pc = "target" /\ exec'.left = 0 /\ exec'.prefetched = 0
      /\ exec'.batch = 0 /\ exec'.granted = 0 /\ exec'.settled = 0
  BY <1>1, <1>2 DEF IInv, TypeOK, Execution, Pcs
<1>4. /\ usage' \in Usage /\ usage'.reserved = usage.reserved /\ usage'.slots = usage.slots
      /\ usage'.fetched = usage.fetched /\ usage'.attempts = usage.attempts
      /\ usage'.extracted = usage.extracted /\ usage'.calls = usage.calls
  BY <1>1 DEF IInv, TypeOK, Usage
<1> QED
  BY <1>1, <1>2, <1>3, <1>4, BeforeReservationInv

LEMMA PrepareFeedbackInv == ASSUME IInv, PrepareFeedbackTarget PROVE IInv'
<1>1. exec.pc = "idle" /\ exec' = [exec EXCEPT !.pc = "target", !.fresh = TRUE]
      /\ usage' = [usage EXCEPT !.consumed = usage.consumed + 1]
      /\ UNCHANGED <<owners, executions, lost>>
  BY DEF PrepareFeedbackTarget
<1>2. NoReservation /\ exec.left = 0 /\ exec.prefetched = 0 /\ exec.batch = 0
      /\ exec.granted = 0 /\ exec.settled = 0
  BY <1>1 DEF IInv, ResultsCounted, NoReservation
<1>3. exec' \in Execution /\ exec'.pc = "target" /\ exec'.left = 0 /\ exec'.prefetched = 0
      /\ exec'.batch = 0 /\ exec'.granted = 0 /\ exec'.settled = 0
  BY <1>1, <1>2 DEF IInv, TypeOK, Execution, Pcs
<1>4. /\ usage' \in Usage /\ usage'.reserved = usage.reserved /\ usage'.slots = usage.slots
      /\ usage'.fetched = usage.fetched /\ usage'.attempts = usage.attempts
      /\ usage'.extracted = usage.extracted /\ usage'.calls = usage.calls
  BY <1>1 DEF IInv, TypeOK, Usage
<1> QED
  BY <1>1, <1>2, <1>3, <1>4, BeforeReservationInv

LEMMA SearchInv ==
  ASSUME IInv, NEW hits \in 0..1,
         RecordSearchResults(hits) \/ RecordToolFailure \/ AbandonAttempt
  PROVE  IInv'
<1>1. exec.pc \in {"target", "results"} /\ UNCHANGED <<owners, executions, lost>>
      /\ (CountSearch(hits) \/ CountSearch(0) \/ UNCHANGED usage)
      /\ (exec' = [exec EXCEPT !.pc = "results"] \/ exec' = NoAttempt("idle", exec.key))
  BY DEF RecordSearchResults, RecordToolFailure, AbandonAttempt
<1>2. NoReservation /\ exec.left = 0 /\ exec.prefetched = 0 /\ exec.batch = 0
      /\ exec.granted = 0 /\ exec.settled = 0
  BY <1>1 DEF IInv, ResultsCounted, NoReservation
<1>3. exec' \in Execution /\ exec'.pc \in {"idle", "results"} /\ exec'.left = 0 /\ exec'.prefetched = 0
      /\ exec'.batch = 0 /\ exec'.granted = 0 /\ exec'.settled = 0
  <2>1. CASE exec' = [exec EXCEPT !.pc = "results"]
    BY <2>1, <1>2 DEF IInv, TypeOK, Execution, Pcs
  <2>2. CASE exec' = NoAttempt("idle", exec.key)
    <3>1. "idle" \in Pcs /\ exec.key \in Nat
      BY Numbers DEF IInv, Pcs
    <3> QED
      BY <2>2, <3>1, NoAttemptType
  <2> QED
    BY <1>1, <2>1, <2>2
<1>4. /\ usage' \in Usage /\ usage'.reserved = usage.reserved /\ usage'.slots = usage.slots
      /\ usage'.fetched = usage.fetched /\ usage'.attempts = usage.attempts
      /\ usage'.extracted = usage.extracted /\ usage'.calls = usage.calls
  <2>1. CASE UNCHANGED usage
    BY <2>1 DEF IInv, TypeOK
  <2>2. ASSUME NEW n \in Nat, CountSearch(n)
        PROVE  /\ usage' \in Usage /\ usage'.reserved = usage.reserved /\ usage'.slots = usage.slots
               /\ usage'.fetched = usage.fetched /\ usage'.attempts = usage.attempts
               /\ usage'.extracted = usage.extracted /\ usage'.calls = usage.calls
    <3>1. usage \in Usage /\ usage.searches + 1 \in Nat /\ usage.found + n \in Nat
      BY Numbers DEF IInv, TypeOK
    <3>2. CASE exec.fresh
      BY <2>2, <3>1, <3>2 DEF Usage, CountSearch
    <3>3. CASE ~exec.fresh
      BY <2>2, <3>1, <3>3 DEF Usage, CountSearch
    <3> QED
      BY <3>2, <3>3
  <2>3. hits \in Nat /\ 0 \in Nat
    OBVIOUS
  <2> QED
    BY <1>1, <2>1, <2>2, <2>3
<1> QED
  BY <1>1, <1>2, <1>3, <1>4, BeforeReservationInv

(* A grant fits below both page limits. *)
LEMMA GrantFacts ==
  ASSUME TypeOK, NEW requested \in Nat
  PROVE  /\ Grant(requested) \in Nat
         /\ Grant(requested) > 0 => /\ usage.fetched < MaxPages
                                    /\ usage.attempts < MaxFetchAttempts
<1> DEFINE remaining == Monus(MaxPages, usage.fetched + usage.reserved)
           kept == IF exec.fresh THEN Monus(MaxSearches, usage.searches) ELSE 0
           tries == Monus(MaxFetchAttempts, usage.attempts + usage.reserved)
           capacity == Monus(remaining, kept)
<1>1. usage.fetched \in Nat /\ usage.reserved \in Nat /\ usage.attempts \in Nat
      /\ usage.searches \in Nat /\ MaxPages \in Nat /\ MaxSearches \in Nat
      /\ MaxFetchAttempts \in Nat
  BY Numbers, LimitsAssumption
<1>2. remaining \in Nat /\ (remaining > 0 => usage.fetched < MaxPages)
  BY <1>1 DEF Monus
<1>3. tries \in Nat /\ (tries > 0 => usage.attempts < MaxFetchAttempts)
  BY <1>1 DEF Monus
<1>4. kept \in Nat
  BY <1>1 DEF Monus
<1> HIDE DEF remaining, kept, tries
<1>5. capacity \in Nat /\ capacity <= remaining
  BY <1>2, <1>4 DEF Monus
<1> HIDE DEF capacity
<1>6. AtMost(capacity, tries) \in Nat /\ AtMost(capacity, tries) <= capacity
      /\ AtMost(capacity, tries) <= tries
  BY <1>3, <1>5, Arithmetic
<1>7. Grant(requested) = AtMost(requested, AtMost(capacity, tries))
  BY DEF Grant, capacity, remaining, kept, tries
<1>8. Grant(requested) \in Nat /\ Grant(requested) <= AtMost(capacity, tries)
  BY <1>6, <1>7, Arithmetic
<1> QED
  BY <1>2, <1>3, <1>5, <1>6, <1>8

LEMMA ReserveInv ==
  ASSUME IInv, NEW requested \in Nat, NEW results \in 0..MaxPageAttempts,
         NEW batch \in Nat, ReservePageSlots(requested, results, batch)
  PROVE  IInv'
<1> DEFINE granted == Grant(requested)
           limit == AtMost(granted, requested)
           first == AtMost(limit, results)
<1>1. TypeOK /\ exec.pc = "results"
  BY DEF IInv, ReservePageSlots
<1>2. exec.left = 0 /\ exec.prefetched = 0 /\ exec.batch = 0 /\ exec.granted = 0
      /\ exec.settled = 0 /\ usage.reserved <= lost.pages
  BY <1>1 DEF IInv, ResultsCounted, AttemptOwnsUnused, NoReservation
<1>3. granted \in Nat /\ granted > 0 /\ usage.fetched < MaxPages
      /\ usage.attempts < MaxFetchAttempts
  BY <1>1, GrantFacts DEF ReservePageSlots
<1>4. limit \in Nat /\ results \in Nat /\ results <= MaxPageAttempts
  BY <1>3, Arithmetic, LimitsAssumption
<1>5. first \in Nat /\ first <= results /\ batch <= first
  BY <1>4, Arithmetic DEF ReservePageSlots
<1>6. /\ SetOwned(Owned + granted)
      /\ usage' = [usage EXCEPT !.reserved = usage.reserved + granted]
      /\ exec' = [exec EXCEPT !.pc = "prefetch", !.granted = granted,
                    !.limit = limit, !.batch = batch, !.left = results,
                    !.others = first - batch]
      /\ UNCHANGED <<executions, lost>>
  BY DEF ReservePageSlots
<1> HIDE DEF granted, limit, first
<1>7. first - batch \in Nat
  BY <1>5
<1>8. exec \in Execution /\ usage \in Usage
  BY <1>1 DEF TypeOK
<1>9. /\ exec' \in Execution /\ exec'.pc = "prefetch" /\ exec'.granted = granted
      /\ exec'.left = results /\ exec'.batch = batch /\ exec'.prefetched = 0
      /\ exec'.settled = 0 /\ exec'.key = exec.key
  BY <1>2, <1>3, <1>4, <1>6, <1>7, <1>8 DEF Execution, Pcs
<1>10. usage.reserved + granted \in Nat
  BY <1>1, <1>3, Numbers
<1>11. /\ usage' \in Usage /\ usage'.reserved = usage.reserved + granted
       /\ usage'.fetched = usage.fetched /\ usage'.attempts = usage.attempts
       /\ usage'.slots = usage.slots /\ usage'.extracted = usage.extracted
       /\ usage'.calls = usage.calls
  BY <1>6, <1>8, <1>10 DEF Usage
<1>12. Owned + granted \in Nat /\ Owned \in Nat
  BY <1>1, <1>3, OwnedType
<1>13. /\ DOMAIN owners' \subseteq Nat /\ owners' \in [DOMAIN owners' -> Nat \ {0}]
       /\ Owned' = Owned + granted
  BY <1>1, <1>6, <1>9, <1>12, SetOwnedFacts
<1>14. Unused' = granted
  BY <1>3, <1>9 DEF Unused, Monus
<1>15. TypeOK'
  BY <1>1, <1>6, <1>9, <1>11, <1>13 DEF TypeOK
<1>16. ResultsCounted'
  BY <1>5, <1>9 DEF ResultsCounted, NoReservation
<1>17. OverrunCovered'
  BY <1>1, <1>3, <1>4, <1>9, <1>11, Numbers, LimitsAssumption DEF OverrunCovered
<1>18. SlotHeld' /\ ExtractionWithinBudget'
  BY <1>1, <1>6, <1>9, <1>11 DEF IInv, SlotHeld, ExtractionWithinBudget
<1>19. AttemptOwnsUnused'
  <2>1. Owned' >= Unused'
    BY <1>3, <1>12, <1>13, <1>14
  <2>2. usage'.reserved <= lost'.pages + Unused'
    BY <1>1, <1>2, <1>3, <1>6, <1>11, <1>14, Numbers
  <2> QED
    BY <2>1, <2>2, <1>9 DEF AttemptOwnsUnused, NoReservation, InAttempt
<1> QED
  BY <1>15, <1>16, <1>17, <1>18, <1>19 DEF IInv

(* Moving on within the attempt without touching the row: a result that is *)
(* passed over only lowers what may still be fetched.                      *)
LEMMA MoveInv ==
  ASSUME IInv, InAttempt, exec.pc # "slot", exec' \in Execution,
         exec'.pc \in {"loop", "page", "exit"}, exec'.key = exec.key,
         exec'.granted = exec.granted, exec'.settled = exec.settled,
         exec'.prefetched <= exec'.left, exec'.batch = 0,
         exec'.left + exec.prefetched <= exec.left + exec'.prefetched,
         UNCHANGED <<usage, owners, executions, lost>>
  PROVE  IInv'
<1>1. TypeOK'
  BY DEF IInv, TypeOK
<1>a. exec'.prefetched \in Nat
  BY DEF Execution
<1>2. ResultsCounted' /\ SlotHeld' /\ ExtractionWithinBudget'
  BY <1>a DEF IInv, ResultsCounted, SlotHeld, ExtractionWithinBudget, NoReservation, InAttempt
<1>3. OverrunCovered'
  <2>1. exec'.left \in Nat /\ exec'.prefetched \in Nat
    BY DEF Execution
  <2>2. usage.fetched + exec.left < MaxPages + MaxPageAttempts + exec.prefetched
        /\ usage.attempts + exec.left < MaxFetchAttempts + MaxPageAttempts + exec.prefetched
    BY DEF IInv, OverrunCovered
  <2> QED
    BY <2>1, <2>2, Numbers, LimitsAssumption DEF IInv, OverrunCovered
<1>4. Owned' = Owned /\ Unused' = Unused
  BY DEF Owned, Unused
<1>5. AttemptOwnsUnused'
  BY <1>4 DEF IInv, AttemptOwnsUnused, NoReservation, InAttempt
<1> QED
  BY <1>1, <1>2, <1>3, <1>5 DEF IInv

LEMMA MovesInv ==
  ASSUME IInv,
         EnterLoop \/ TakePrefetched \/ SkipProcessedPage \/ RejectInTriage
           \/ ExtractionRefused
  PROVE  IInv'
<1>0. exec \in Execution /\ exec.prefetched <= exec.left /\ exec.batch = 0
      /\ exec.left \in Nat /\ exec.prefetched \in Nat
  <2>1. exec.pc \in {"loop", "page"} \/ exec.batch = 0
    BY DEF EnterLoop, TakePrefetched, MoreResults, SkipProcessedPage, RejectInTriage,
       ExtractionRefused
  <2> QED
    BY <2>1, Numbers DEF IInv, TypeOK, ResultsCounted
<1>1. CASE EnterLoop
  BY <1>0, <1>1, MoveInv DEF EnterLoop, InAttempt, Execution, Pcs
<1>2. CASE TakePrefetched
  <2>1. exec.pc = "loop" /\ exec.prefetched > 0 /\ exec.left > 0
        /\ exec' = [exec EXCEPT !.pc = "page", !.prefetched = exec.prefetched - 1,
                                !.left = exec.left - 1]
        /\ UNCHANGED <<usage, owners, executions, lost>>
    BY <1>2 DEF TakePrefetched, MoreResults
  <2>2. exec.prefetched - 1 \in Nat /\ exec.left - 1 \in Nat
    BY <1>0, <2>1
  <2>3. /\ exec' \in Execution /\ exec'.pc = "page" /\ exec'.key = exec.key
        /\ exec'.granted = exec.granted /\ exec'.settled = exec.settled
        /\ exec'.prefetched = exec.prefetched - 1 /\ exec'.left = exec.left - 1
        /\ exec'.batch = exec.batch
    BY <1>0, <2>1, <2>2 DEF Execution, Pcs
  <2> QED
    BY <1>0, <2>1, <2>3, MoveInv DEF InAttempt
<1>3. CASE SkipProcessedPage
  BY <1>0, <1>3, MoveInv DEF SkipProcessedPage, InAttempt, Execution, Pcs
<1>4. CASE RejectInTriage
  <2>1. exec.pc = "page" /\ UNCHANGED <<usage, owners, executions, lost>>
        /\ exec' = [exec EXCEPT !.pc = "loop", !.read = exec.read + 1]
    BY <1>4 DEF RejectInTriage
  <2>2. exec.read + 1 \in Nat
    BY Numbers DEF IInv
  <2>3. /\ exec' \in Execution /\ exec'.pc = "loop" /\ exec'.key = exec.key
        /\ exec'.granted = exec.granted /\ exec'.settled = exec.settled
        /\ exec'.prefetched = exec.prefetched /\ exec'.left = exec.left
        /\ exec'.batch = exec.batch
    BY <1>0, <2>1, <2>2 DEF Execution, Pcs
  <2> QED
    BY <1>0, <2>1, <2>3, MoveInv DEF InAttempt
<1>5. CASE ExtractionRefused
  <2>1. exec.pc = "page" /\ UNCHANGED <<usage, owners, executions, lost>>
        /\ exec' = [exec EXCEPT !.pc = "exit", !.read = exec.read + 1]
    BY <1>5 DEF ExtractionRefused
  <2>2. exec.read + 1 \in Nat
    BY Numbers DEF IInv
  <2>3. /\ exec' \in Execution /\ exec'.pc = "exit" /\ exec'.key = exec.key
        /\ exec'.granted = exec.granted /\ exec'.settled = exec.settled
        /\ exec'.prefetched = exec.prefetched /\ exec'.left = exec.left
        /\ exec'.batch = exec.batch
    BY <1>0, <2>1, <2>2 DEF Execution, Pcs
  <2> QED
    BY <1>0, <2>1, <2>3, MoveInv DEF InAttempt
<1> QED
  BY <1>1, <1>2, <1>3, <1>4, <1>5

(* Recording a fetch, whatever it counts: one slot of the attempt is used  *)
(* up if one is left, and one result less may still be fetched.            *)
LEMMA SettleInv ==
  ASSUME IInv, InAttempt, exec.pc # "slot", NEW counts \in Counts, Settle(counts),
         exec' \in Execution, exec'.pc \in {"prefetch", "loop", "page"},
         exec'.key = exec.key, exec'.granted = exec.granted,
         exec'.settled = exec.settled + 1,
         exec'.prefetched + exec'.batch <= exec'.left,
         exec'.batch > 0 => exec'.pc = "prefetch",
         exec'.left + exec.prefetched + 1 <= exec.left + exec'.prefetched,
         UNCHANGED <<executions, lost>>
  PROVE  IInv'
<1>1. TypeOK
  BY DEF IInv
<1>2. /\ DOMAIN owners' \subseteq Nat
      /\ owners' \in [DOMAIN owners' -> Nat \ {0}]
      /\ usage' \in Usage
      /\ usage'.attempts = usage.attempts + counts.attempts
      /\ usage'.fetched = usage.fetched + counts.fetched
      /\ usage'.slots = usage.slots /\ usage'.extracted = usage.extracted
      /\ usage'.calls = usage.calls
      /\ usage'.reserved <= usage.reserved
      /\ Owned = 0 => Owned' = 0
      /\ Owned > 0 => /\ Owned' = Owned - 1
                      /\ usage.reserved > 0 => usage'.reserved = usage.reserved - 1
  BY <1>1, SettleFacts
<1>3. TypeOK'
  BY <1>1, <1>2 DEF TypeOK
<1>4. ResultsCounted' /\ SlotHeld' /\ ExtractionWithinBudget'
  BY <1>2 DEF IInv, ResultsCounted, SlotHeld, ExtractionWithinBudget, NoReservation,
     InAttempt
<1>5. OverrunCovered'
  <2>1. exec'.left \in Nat /\ exec'.prefetched \in Nat
    BY DEF Execution
  <2>2. usage.fetched + exec.left < MaxPages + MaxPageAttempts + exec.prefetched
        /\ usage.attempts + exec.left < MaxFetchAttempts + MaxPageAttempts + exec.prefetched
    BY DEF IInv, OverrunCovered
  <2>3. counts.fetched \in {0, 1} /\ counts.attempts \in {0, 1}
    BY DEF Counts
  <2> QED
    BY <1>1, <1>2, <2>1, <2>2, <2>3, Numbers, LimitsAssumption DEF OverrunCovered
<1>6. AttemptOwnsUnused'
  <2>1. Owned \in Nat /\ Unused \in Nat /\ usage.reserved \in Nat /\ lost.pages \in Nat
        /\ exec.granted \in Nat /\ exec.settled \in Nat /\ usage'.reserved \in Nat
    BY <1>1, <1>2, Numbers, OwnedType DEF Usage
  <2>2. Owned >= Unused /\ usage.reserved <= lost.pages + Unused
    BY DEF IInv, AttemptOwnsUnused
  <2>3. CASE Unused = 0
    <3>1. Unused' = 0
      BY <2>1, <2>3 DEF Unused, Monus
    <3>2. Owned' >= 0
      BY <1>2, <2>1
    <3>3. usage'.reserved <= lost'.pages + Unused'
      BY <1>2, <2>1, <2>2, <2>3, <3>1
    <3> QED
      BY <3>1, <3>2, <3>3 DEF AttemptOwnsUnused, NoReservation, InAttempt
  <2>4. CASE Unused > 0
    <3>1. Unused' = Unused - 1
      BY <2>1, <2>4 DEF Unused, Monus
    <3>2. Owned' = Owned - 1
          /\ (usage.reserved > 0 => usage'.reserved = usage.reserved - 1)
      BY <1>2, <2>1, <2>2, <2>4
    <3>3. Owned' >= Unused'
      BY <2>1, <2>2, <3>1, <3>2
    <3>4. usage'.reserved <= lost'.pages + Unused'
      BY <1>2, <2>1, <2>2, <2>4, <3>1, <3>2
    <3> QED
      BY <3>3, <3>4 DEF AttemptOwnsUnused, NoReservation, InAttempt
  <2> QED
    BY <2>1, <2>3, <2>4
<1> QED
  BY <1>3, <1>4, <1>5, <1>6 DEF IInv

LEMMA FetchInv ==
  ASSUME IInv,
         \/ \E ok \in BOOLEAN : RecordPrefetch(ok)
         \/ \E counts \in {FetchOk, Reuse} : RecordPageFetched(counts)
         \/ RecordPageFailure
  PROVE  IInv'
<1>0. exec \in Execution /\ exec.prefetched + exec.batch <= exec.left
      /\ exec.left \in Nat /\ exec.prefetched \in Nat /\ exec.batch \in Nat
      /\ exec.settled \in Nat /\ exec.others \in Nat
  BY Numbers DEF IInv, TypeOK, ResultsCounted
<1>1. FetchOk \in Counts /\ FetchFailed \in Counts /\ Reuse \in Counts
  BY DEF FetchOk, FetchFailed, Reuse, Counts
<1>2. exec.settled + 1 \in Nat /\ Monus(exec.others, 1) \in Nat
  BY <1>0 DEF Monus
<1>3. ASSUME NEW ok \in BOOLEAN, RecordPrefetch(ok) PROVE IInv'
  <2>1. exec.pc = "prefetch" /\ exec.batch > 0 /\ UNCHANGED <<executions, lost>>
    BY <1>3 DEF RecordPrefetch
  <2>2. CASE ok
    <3>1. exec' = [exec EXCEPT !.batch = exec.batch - 1, !.settled = exec.settled + 1,
                     !.prefetched = exec.prefetched + 1, !.left = exec.left]
          /\ Settle(FetchOk)
      BY <1>3, <2>2 DEF RecordPrefetch
    <3>2. exec.batch - 1 \in Nat /\ exec.prefetched + 1 \in Nat
      BY <1>0, <2>1
    <3>3. /\ exec' \in Execution /\ exec'.pc = "prefetch" /\ exec'.key = exec.key
          /\ exec'.granted = exec.granted /\ exec'.settled = exec.settled + 1
          /\ exec'.prefetched = exec.prefetched + 1 /\ exec'.left = exec.left
          /\ exec'.batch = exec.batch - 1
      BY <1>0, <1>2, <2>1, <3>1, <3>2 DEF Execution
    <3>4. exec'.prefetched + exec'.batch <= exec'.left
          /\ exec'.left + exec.prefetched + 1 <= exec.left + exec'.prefetched
      BY <1>0, <3>3
    <3> QED
      BY <1>1, <2>1, <3>1, <3>3, <3>4, SettleInv DEF InAttempt
  <2>3. CASE ~ok
    <3>1. exec' = [exec EXCEPT !.batch = exec.batch - 1, !.settled = exec.settled + 1,
                     !.prefetched = exec.prefetched, !.left = exec.left - 1]
          /\ Settle(FetchFailed)
      BY <1>3, <2>3 DEF RecordPrefetch
    <3>2. exec.batch - 1 \in Nat /\ exec.left - 1 \in Nat
      BY <1>0, <2>1
    <3>3. /\ exec' \in Execution /\ exec'.pc = "prefetch" /\ exec'.key = exec.key
          /\ exec'.granted = exec.granted /\ exec'.settled = exec.settled + 1
          /\ exec'.prefetched = exec.prefetched /\ exec'.left = exec.left - 1
          /\ exec'.batch = exec.batch - 1
      BY <1>0, <1>2, <2>1, <3>1, <3>2 DEF Execution
    <3>4. exec'.prefetched + exec'.batch <= exec'.left
          /\ exec'.left + exec.prefetched + 1 <= exec.left + exec'.prefetched
      BY <1>0, <3>3
    <3> QED
      BY <1>1, <2>1, <3>1, <3>3, <3>4, SettleInv DEF InAttempt
  <2> QED
    BY <2>2, <2>3
<1>4. ASSUME NextUnread, NEW counts \in Counts, Settle(counts), NEW pc \in {"loop", "page"},
             exec' = [exec EXCEPT !.pc = pc, !.settled = exec.settled + 1,
                        !.left = exec.left - 1, !.others = Monus(exec.others, 1)],
             UNCHANGED <<executions, lost>>
      PROVE  IInv'
  <2>1. exec.pc = "loop" /\ exec.left > 0 /\ exec.left > exec.prefetched
    BY <1>4 DEF NextUnread, MoreResults
  <2>2. exec.left - 1 \in Nat
    BY <1>0, <2>1
  <2>3. /\ exec' \in Execution /\ exec'.pc = pc /\ exec'.key = exec.key
        /\ exec'.granted = exec.granted /\ exec'.settled = exec.settled + 1
        /\ exec'.prefetched = exec.prefetched /\ exec'.left = exec.left - 1
        /\ exec'.batch = exec.batch
    BY <1>0, <1>2, <1>4, <2>2 DEF Execution, Pcs
  <2>4. exec.batch = 0
    BY <1>0, <2>1 DEF IInv, ResultsCounted
  <2>5. exec'.prefetched + exec'.batch <= exec'.left
        /\ exec'.left + exec.prefetched + 1 <= exec.left + exec'.prefetched
    BY <1>0, <2>1, <2>3, <2>4
  <2> QED
    BY <1>4, <2>1, <2>3, <2>4, <2>5, SettleInv DEF InAttempt
<1>5. ASSUME NEW counts \in {FetchOk, Reuse}, RecordPageFetched(counts) PROVE IInv'
  <2>1. NextUnread /\ Settle(counts) /\ UNCHANGED <<executions, lost>>
        /\ exec' = [exec EXCEPT !.pc = "page", !.settled = exec.settled + 1,
                        !.left = exec.left - 1, !.others = Monus(exec.others, 1)]
    BY <1>5 DEF RecordPageFetched
  <2>2. counts \in Counts
    BY <1>1
  <2> QED
    BY <1>4, <2>1, <2>2
<1>6. CASE RecordPageFailure
  <2>1. NextUnread /\ Settle(FetchFailed) /\ UNCHANGED <<executions, lost>>
        /\ exec.pc = "loop"
        /\ exec' = [exec EXCEPT !.settled = exec.settled + 1,
                        !.left = exec.left - 1, !.others = Monus(exec.others, 1)]
    BY <1>6 DEF RecordPageFailure, NextUnread, MoreResults
  <2>2. exec' = [exec EXCEPT !.pc = "loop", !.settled = exec.settled + 1,
                        !.left = exec.left - 1, !.others = Monus(exec.others, 1)]
    BY <1>0, <2>1 DEF Execution
  <2> QED
    BY <1>1, <1>4, <2>1, <2>2
<1> QED
  BY <1>3, <1>5, <1>6

(* Steps that only change the extraction counters within the attempt. *)
LEMMA ExtractionStepInv ==
  ASSUME IInv, InAttempt, exec.pc \in {"page", "slot"}, exec' \in Execution,
         exec'.pc \in {"loop", "slot", "exit", "failing"},
         exec'.key = exec.key, exec'.left = exec.left,
         exec'.prefetched = exec.prefetched, exec'.batch = exec.batch,
         exec'.granted = exec.granted, exec'.settled = exec.settled,
         usage' \in Usage, usage'.fetched = usage.fetched,
         usage'.attempts = usage.attempts, usage'.reserved = usage.reserved,
         UNCHANGED <<owners, executions, lost>>, SlotHeld', ExtractionWithinBudget'
  PROVE  IInv'
<1>1. TypeOK'
  BY DEF IInv, TypeOK
<1>2. exec.batch = 0
  BY Numbers DEF IInv, ResultsCounted
<1>3. ResultsCounted' /\ OverrunCovered'
  BY <1>2, Numbers DEF IInv, ResultsCounted, OverrunCovered, NoReservation
<1>4. Owned' = Owned /\ Unused' = Unused
  BY DEF Owned, Unused
<1>5. AttemptOwnsUnused'
  BY <1>4 DEF IInv, AttemptOwnsUnused, NoReservation, InAttempt
<1> QED
  BY <1>1, <1>3, <1>5 DEF IInv

LEMMA ReserveExtractionInv == ASSUME IInv, ReserveExtractionSlot PROVE IInv'
<1>1. exec.pc = "page" /\ ExtractionAllowed /\ UNCHANGED <<owners, executions, lost>>
      /\ usage' = [usage EXCEPT !.slots = usage.slots + 1]
      /\ exec' = [exec EXCEPT !.pc = "slot", !.read = exec.read + 1]
  BY DEF ReserveExtractionSlot
<1>2. exec \in Execution /\ usage \in Usage /\ exec.read + 1 \in Nat
      /\ usage.slots + 1 \in Nat /\ usage.slots \in Nat /\ lost.slots \in Nat
      /\ usage.extracted \in Nat /\ usage.calls \in Nat
  BY Numbers DEF IInv, TypeOK
<1>3. /\ exec' \in Execution /\ exec'.pc = "slot"
      /\ exec'.key = exec.key /\ exec'.left = exec.left
      /\ exec'.prefetched = exec.prefetched /\ exec'.batch = exec.batch
      /\ exec'.granted = exec.granted /\ exec'.settled = exec.settled
  BY <1>1, <1>2 DEF Execution, Pcs
<1>4. /\ usage' \in Usage /\ usage'.slots = usage.slots + 1
      /\ usage'.fetched = usage.fetched /\ usage'.attempts = usage.attempts
      /\ usage'.extracted = usage.extracted /\ usage'.calls = usage.calls
      /\ usage'.reserved = usage.reserved
  BY <1>1, <1>2 DEF Usage
<1>5. SlotHeld'
  <2>1. usage.slots <= lost.slots
    BY <1>1 DEF IInv, SlotHeld
  <2> QED
    BY <1>1, <1>2, <1>3, <1>4, <2>1 DEF SlotHeld
<1>6. ExtractionWithinBudget'
  BY <1>1, <1>2, <1>4, LimitsAssumption DEF ExtractionAllowed, ExtractionWithinBudget
<1> QED
  BY <1>1, <1>3, <1>4, <1>5, <1>6, ExtractionStepInv DEF InAttempt

LEMMA ReleaseExtractionInv == ASSUME IInv, ReleaseExtractionSlot PROVE IInv'
<1>1. exec.pc = "slot" /\ UNCHANGED <<owners, executions, lost>>
      /\ usage' = [usage EXCEPT !.slots = Monus(usage.slots, 1)]
      /\ exec' = [exec EXCEPT !.pc = "exit"]
  BY DEF ReleaseExtractionSlot
<1>2. exec \in Execution /\ usage \in Usage /\ usage.slots \in Nat /\ lost.slots \in Nat
      /\ usage.extracted \in Nat /\ usage.calls \in Nat
  BY Numbers DEF IInv, TypeOK
<1>3. usage.slots > 0 /\ usage.slots <= lost.slots + 1
  BY <1>1 DEF IInv, SlotHeld
<1>4. Monus(usage.slots, 1) = usage.slots - 1 /\ usage.slots - 1 \in Nat
  BY <1>2, <1>3 DEF Monus
<1>5. /\ exec' \in Execution /\ exec'.pc = "exit"
      /\ exec'.key = exec.key /\ exec'.left = exec.left
      /\ exec'.prefetched = exec.prefetched /\ exec'.batch = exec.batch
      /\ exec'.granted = exec.granted /\ exec'.settled = exec.settled
  BY <1>1, <1>2 DEF Execution, Pcs
<1>6. /\ usage' \in Usage /\ usage'.slots = usage.slots - 1
      /\ usage'.fetched = usage.fetched /\ usage'.attempts = usage.attempts
      /\ usage'.extracted = usage.extracted /\ usage'.calls = usage.calls
      /\ usage'.reserved = usage.reserved
  BY <1>1, <1>2, <1>4 DEF Usage
<1>7. SlotHeld'
  BY <1>1, <1>2, <1>3, <1>5, <1>6 DEF SlotHeld
<1>8. ExtractionWithinBudget'
  BY <1>2, <1>6, LimitsAssumption DEF IInv, ExtractionWithinBudget
<1> QED
  BY <1>1, <1>5, <1>6, <1>7, <1>8, ExtractionStepInv DEF InAttempt

LEMMA RecordPageInv ==
  ASSUME IInv, NEW cacheHit \in BOOLEAN, NEW next \in {"loop", "exit", "failing"},
         NEW more \in 0..MaxFeedback, RecordPage(cacheHit, next, more)
  PROVE  IInv'
<1> DEFINE calls == IF cacheHit THEN usage.calls ELSE usage.calls + 1
           started == FeedbackStarted(more)
<1>1. exec.pc = "slot" /\ UNCHANGED <<owners, executions, lost>>
      /\ usage' = [usage EXCEPT !.extracted = usage.extracted + 1, !.calls = calls,
                                !.slots = Monus(usage.slots, 1),
                                !.feedback = started]
      /\ exec' = [exec EXCEPT !.pc = next]
  BY DEF RecordPage
<1>2. exec \in Execution /\ usage \in Usage /\ usage.slots \in Nat /\ lost.slots \in Nat
      /\ usage.extracted \in Nat /\ usage.calls \in Nat
  BY Numbers DEF IInv, TypeOK
<1>3. usage.slots > 0 /\ usage.slots <= lost.slots + 1
  BY <1>1 DEF IInv, SlotHeld
<1>4. Monus(usage.slots, 1) = usage.slots - 1 /\ usage.slots - 1 \in Nat
  BY <1>2, <1>3 DEF Monus
<1>5. calls \in Nat /\ calls <= usage.calls + 1 /\ usage.extracted + 1 \in Nat
  BY <1>2
<1>5a. started \in Nat
  <2>1. usage.feedback + more \in Nat /\ MaxFeedback \in Nat
    BY Numbers, LimitsAssumption DEF IInv
  <2> QED
    BY <2>1, Arithmetic DEF FeedbackStarted
<1> HIDE DEF calls, started
<1>6. /\ exec' \in Execution /\ exec'.pc = next
      /\ exec'.key = exec.key /\ exec'.left = exec.left
      /\ exec'.prefetched = exec.prefetched /\ exec'.batch = exec.batch
      /\ exec'.granted = exec.granted /\ exec'.settled = exec.settled
  BY <1>1, <1>2 DEF Execution, Pcs
<1>7. /\ usage' \in Usage /\ usage'.slots = usage.slots - 1
      /\ usage'.fetched = usage.fetched /\ usage'.attempts = usage.attempts
      /\ usage'.extracted = usage.extracted + 1 /\ usage'.calls = calls
      /\ usage'.reserved = usage.reserved
  BY <1>1, <1>2, <1>4, <1>5, <1>5a DEF Usage
<1>8. SlotHeld'
  BY <1>1, <1>2, <1>3, <1>6, <1>7 DEF SlotHeld
<1>9. ExtractionWithinBudget'
  BY <1>2, <1>5, <1>7, LimitsAssumption DEF IInv, ExtractionWithinBudget
<1> QED
  BY <1>1, <1>6, <1>7, <1>8, <1>9, ExtractionStepInv DEF InAttempt

(* The releases at the end of an attempt. *)
LEMMA CleanupInv == ASSUME IInv, CleanupAttempt PROVE IInv'
<1>1. exec.pc = "slot" /\ Release(exec.granted, Monus(usage.slots, 1))
      /\ exec' = [exec EXCEPT !.pc = "raised"] /\ UNCHANGED <<executions, lost>>
  BY DEF CleanupAttempt
<1>2. TypeOK /\ exec \in Execution /\ exec.granted \in Nat /\ usage.slots \in Nat
      /\ usage.extracted \in Nat /\ usage.calls \in Nat
  BY Numbers DEF IInv, TypeOK
<1>3. Monus(usage.slots, 1) \in Nat /\ Monus(usage.slots, 1) <= usage.slots
  BY <1>2, Arithmetic
<1>4. /\ exec' \in Execution /\ exec'.pc = "raised"
      /\ exec'.key = exec.key /\ exec'.left = exec.left
      /\ exec'.prefetched = exec.prefetched /\ exec'.batch = exec.batch
      /\ exec'.granted = exec.granted /\ exec'.settled = exec.settled
  BY <1>1, <1>2 DEF Execution, Pcs
<1>5. /\ DOMAIN owners' \subseteq Nat
      /\ owners' \in [DOMAIN owners' -> Nat \ {0}]
      /\ usage' \in Usage
      /\ usage'.attempts = usage.attempts /\ usage'.fetched = usage.fetched
      /\ usage'.slots = Monus(usage.slots, 1) /\ usage'.extracted = usage.extracted
      /\ usage'.calls = usage.calls
  BY <1>1, <1>2, <1>3, <1>4, ReleaseFacts
<1>6. TypeOK'
  BY <1>1, <1>2, <1>4, <1>5 DEF TypeOK
<1>7. ResultsCounted' /\ OverrunCovered' /\ SlotHeld' /\ AttemptOwnsUnused'
  BY <1>4, <1>5 DEF IInv, ResultsCounted, OverrunCovered, SlotHeld, AttemptOwnsUnused,
     NoReservation, InAttempt
<1>8. ExtractionWithinBudget'
  BY <1>2, <1>3, <1>5, LimitsAssumption DEF IInv, ExtractionWithinBudget
<1> QED
  BY <1>6, <1>7, <1>8 DEF IInv

LEMMA ReleasePageSlotsInv == ASSUME IInv, ReleasePageSlots PROVE IInv'
<1>1. exec.pc \in {"loop", "exit", "failing"} /\ Release(Unused, usage.slots)
      /\ UNCHANGED <<executions, lost>>
      /\ (exec' = [exec EXCEPT !.pc = "raised"] \/ exec' = NoAttempt("idle", exec.key))
  BY DEF ReleasePageSlots
<1>2. TypeOK /\ exec \in Execution /\ Unused \in Nat /\ usage.slots \in Nat
      /\ usage.reserved \in Nat /\ lost.pages \in Nat /\ exec.key \in Nat
  BY Numbers DEF IInv, TypeOK
<1>3. /\ exec' \in Execution /\ exec'.key = exec.key /\ exec'.pc \in {"idle", "raised"}
      /\ exec'.pc = "raised" => /\ exec'.left = exec.left
                                /\ exec'.prefetched = exec.prefetched
                                /\ exec'.batch = exec.batch
      /\ exec'.pc = "idle" => /\ exec'.left = 0 /\ exec'.prefetched = 0 /\ exec'.batch = 0
                              /\ exec'.granted = 0 /\ exec'.settled = 0
  <2>1. CASE exec' = [exec EXCEPT !.pc = "raised"]
    BY <2>1, <1>2 DEF Execution, Pcs
  <2>2. CASE exec' = NoAttempt("idle", exec.key)
    <3>1. "idle" \in Pcs
      BY DEF Pcs
    <3> QED
      BY <2>2, <3>1, <1>2, NoAttemptType
  <2> QED
    BY <1>1, <2>1, <2>2
<1>4. /\ DOMAIN owners' \subseteq Nat
      /\ owners' \in [DOMAIN owners' -> Nat \ {0}]
      /\ usage' \in Usage
      /\ usage'.attempts = usage.attempts /\ usage'.fetched = usage.fetched
      /\ usage'.slots = usage.slots /\ usage'.extracted = usage.extracted
      /\ usage'.calls = usage.calls
      /\ Owned >= Unused => usage'.reserved = Monus(usage.reserved, Unused)
  BY <1>1, <1>2, <1>3, ReleaseFacts
<1>5. Owned >= Unused /\ usage.reserved <= lost.pages + Unused
  BY <1>1 DEF IInv, AttemptOwnsUnused, InAttempt
<1>6. usage'.reserved <= lost'.pages
  BY <1>1, <1>2, <1>4, <1>5 DEF Monus
<1>7. TypeOK'
  BY <1>1, <1>2, <1>3, <1>4 DEF TypeOK
<1>8. SlotHeld' /\ AttemptOwnsUnused' /\ ExtractionWithinBudget'
  BY <1>1, <1>3, <1>4, <1>6 DEF IInv, SlotHeld, AttemptOwnsUnused, NoReservation,
     InAttempt, ExtractionWithinBudget
<1>9. ResultsCounted'
  BY <1>3 DEF IInv, ResultsCounted, NoReservation
<1>10. OverrunCovered'
  <2>1. CASE exec'.pc = "idle"
    BY <1>3, <1>4, <2>1, EndOverrun
  <2>2. CASE exec'.pc = "raised"
    BY <1>3, <1>4, <2>2 DEF IInv, OverrunCovered
  <2> QED
    BY <1>3, <2>1, <2>2
<1> QED
  BY <1>7, <1>8, <1>9, <1>10 DEF IInv

(* IInv is inductive. *)
LEMMA NextInv == IInv /\ [Next]_vars => IInv'
<1> SUFFICES ASSUME IInv, [Next]_vars PROVE IInv'
  OBVIOUS
<1>1. CASE UNCHANGED vars
  BY <1>1 DEF vars, IInv, TypeOK, ResultsCounted, OverrunCovered, SlotHeld,
     AttemptOwnsUnused, ExtractionWithinBudget, InAttempt, NoReservation, Owned, Unused
<1>2. ASSUME NEW key \in 1..MaxExecutions, Acquire(key) PROVE IInv'
  BY <1>2, AcquireInv
<1>3. CASE CutOff \/ EndExecution
  BY <1>3, CutOffInv, EndExecutionInv
<1>4. CASE Raise \/ RaiseModelError
  BY <1>4, RaiseInv
<1>5. ASSUME NEW fresh \in BOOLEAN, PrepareTarget(fresh) PROVE IInv'
  BY <1>5, PrepareTargetInv
<1>5a. CASE PrepareFeedbackTarget
  BY <1>5a, PrepareFeedbackInv
<1>6. ASSUME NEW hits \in 0..1,
             RecordSearchResults(hits) \/ RecordToolFailure \/ AbandonAttempt
      PROVE  IInv'
  BY <1>6, SearchInv
<1>7. ASSUME NEW requested \in {1, MaxPagesRead}, NEW results \in 0..MaxPageAttempts,
             NEW batch \in 0..MaxPagesRead, ReservePageSlots(requested, results, batch)
      PROVE  IInv'
  <2>1. requested \in Nat /\ batch \in Nat
    BY LimitsAssumption
  <2> QED
    BY <1>7, <2>1, ReserveInv
<1>8. CASE \/ \E ok \in BOOLEAN : RecordPrefetch(ok)
           \/ \E counts \in {FetchOk, Reuse} : RecordPageFetched(counts)
           \/ RecordPageFailure
  BY <1>8, FetchInv
<1>9. CASE EnterLoop \/ TakePrefetched \/ SkipProcessedPage \/ RejectInTriage
             \/ ExtractionRefused
  BY <1>9, MovesInv
<1>10. CASE ReserveExtractionSlot \/ ReleaseExtractionSlot
  BY <1>10, ReserveExtractionInv, ReleaseExtractionInv
<1>11. ASSUME NEW cacheHit \in BOOLEAN, NEW next \in {"loop", "exit", "failing"},
              NEW more \in 0..MaxFeedback, RecordPage(cacheHit, next, more)
       PROVE  IInv'
  BY <1>11, RecordPageInv
<1>12. CASE CleanupAttempt \/ ReleasePageSlots
  BY <1>12, CleanupInv, ReleasePageSlotsInv
<1> QED
  BY <1>1, <1>2, <1>3, <1>4, <1>5, <1>5a, <1>6, <1>7, <1>8, <1>9, <1>10, <1>11,
     <1>12 DEF Next

-----------------------------------------------------------------------------
(* Searches: a second invariant, on top of TypeOK *)

(* every search past the budget, made or about to be made, is one of the   *)
(* feedback queries taken up                                               *)
AboutToSearch == exec.pc = "target" /\ exec.fresh
SearchesCounted ==
  /\ usage.consumed <= usage.feedback /\ usage.feedback <= MaxFeedback
  /\ usage.searches <= MaxSearches + usage.consumed
  /\ AboutToSearch => usage.searches + 1 <= MaxSearches + usage.consumed

(* Steps that neither search nor prepare a target keep the count. *)
LEMMA QuietSearches ==
  ASSUME SearchesCounted, exec'.pc # "target", usage'.searches = usage.searches,
         usage'.feedback = usage.feedback, usage'.consumed = usage.consumed
  PROVE  SearchesCounted'
  BY DEF SearchesCounted, AboutToSearch

LEMMA SettleQuiet ==
  ASSUME TypeOK, NEW counts, Settle(counts)
  PROVE  usage'.searches = usage.searches /\ usage'.feedback = usage.feedback
         /\ usage'.consumed = usage.consumed
  BY DEF TypeOK, Usage, Settle

LEMMA ReleaseQuiet ==
  ASSUME TypeOK, NEW count, NEW slots, Release(count, slots)
  PROVE  usage'.searches = usage.searches /\ usage'.feedback = usage.feedback
         /\ usage'.consumed = usage.consumed
  BY DEF TypeOK, Usage, Release

LEMMA SearchesNext ==
  ASSUME TypeOK, SearchesCounted, [Next]_vars PROVE SearchesCounted'
<1>0. usage \in Usage /\ exec \in Execution
  BY DEF TypeOK
<1>1. CASE UNCHANGED vars
  BY <1>1 DEF vars, SearchesCounted, AboutToSearch
<1>2. CASE (\E key \in 1..MaxExecutions : Acquire(key)) \/ CutOff \/ EndExecution \/ Raise
           \/ RaiseModelError \/ AbandonAttempt
  BY <1>0, <1>2, QuietSearches DEF Acquire, CutOff, EndExecution, Raise, RaiseModelError,
     AbandonAttempt, NoAttempt, Usage, Execution
<1>3. ASSUME NEW fresh \in BOOLEAN, PrepareTarget(fresh) PROVE SearchesCounted'
  <2>1. usage'.searches = usage.searches /\ usage'.feedback = usage.feedback
        /\ usage'.consumed = usage.consumed
    BY <1>0, <1>3 DEF PrepareTarget, Usage
  <2>2. exec'.fresh = fresh
    BY <1>0, <1>3 DEF PrepareTarget, Execution
  <2>3. CASE fresh
    <3>1. usage.searches < MaxSearches
      BY <1>3, <2>3, Numbers, LimitsAssumption DEF PrepareTarget, ExhaustionReason
    <3> QED
      BY <2>1, <3>1, Numbers, LimitsAssumption DEF SearchesCounted, AboutToSearch
  <2>4. CASE ~fresh
    BY <2>1, <2>2, <2>4 DEF SearchesCounted, AboutToSearch
  <2> QED
    BY <2>3, <2>4
<1>4. CASE PrepareFeedbackTarget
  <2>1. usage'.searches = usage.searches /\ usage'.feedback = usage.feedback
        /\ usage'.consumed = usage.consumed + 1 /\ usage.consumed < usage.feedback
    BY <1>0, <1>4 DEF PrepareFeedbackTarget, Usage
  <2> QED
    BY <2>1, Numbers, LimitsAssumption DEF SearchesCounted
<1>5. ASSUME NEW hits \in 0..1, RecordSearchResults(hits) \/ RecordToolFailure
      PROVE  SearchesCounted'
  <2>1. exec.pc = "target" /\ exec'.pc # "target"
    BY <1>0, <1>5 DEF RecordSearchResults, RecordToolFailure, NoAttempt, Execution
  <2>2. /\ usage'.searches = IF exec.fresh THEN usage.searches + 1 ELSE usage.searches
        /\ usage'.feedback = usage.feedback /\ usage'.consumed = usage.consumed
    BY <1>0, <1>5 DEF RecordSearchResults, RecordToolFailure, CountSearch, Usage
  <2>3. CASE exec.fresh
    BY <2>1, <2>2, <2>3 DEF SearchesCounted, AboutToSearch
  <2>4. CASE ~exec.fresh
    BY <2>1, <2>2, <2>4 DEF SearchesCounted, AboutToSearch
  <2> QED
    BY <2>3, <2>4
<1>6. CASE \E requested \in {1, MaxPagesRead}, results \in 0..MaxPageAttempts,
              batch \in 0..MaxPagesRead : ReservePageSlots(requested, results, batch)
  BY <1>0, <1>6, QuietSearches DEF ReservePageSlots, Usage, Execution
<1>7. ASSUME \/ \E ok \in BOOLEAN : RecordPrefetch(ok)
             \/ \E counts \in {FetchOk, Reuse} : RecordPageFetched(counts)
             \/ RecordPageFailure
      PROVE  SearchesCounted'
  <2>1. \E counts : Settle(counts)
    BY <1>7 DEF RecordPrefetch, RecordPageFetched, RecordPageFailure
  <2>2. exec'.pc # "target"
    BY <1>0, <1>7 DEF RecordPrefetch, RecordPageFetched, RecordPageFailure, NextUnread,
       MoreResults, Execution
  <2> QED
    BY <2>1, <2>2, SettleQuiet, QuietSearches
<1>8. CASE EnterLoop \/ TakePrefetched \/ SkipProcessedPage \/ RejectInTriage
           \/ ExtractionRefused \/ ReserveExtractionSlot \/ ReleaseExtractionSlot
  BY <1>0, <1>8, QuietSearches DEF EnterLoop, TakePrefetched, SkipProcessedPage,
     RejectInTriage, ExtractionRefused, ReserveExtractionSlot, ReleaseExtractionSlot,
     MoreResults, Usage, Execution
<1>9. ASSUME NEW cacheHit \in BOOLEAN, NEW next \in {"loop", "exit", "failing"},
             NEW more \in 0..MaxFeedback, RecordPage(cacheHit, next, more)
      PROVE  SearchesCounted'
  <2>1. /\ usage'.searches = usage.searches /\ usage'.consumed = usage.consumed
        /\ usage'.feedback = FeedbackStarted(more)
    BY <1>0, <1>9 DEF RecordPage, Usage
  <2>2. exec'.pc # "target"
    BY <1>0, <1>9 DEF RecordPage, Execution
  <2>3. usage.feedback <= FeedbackStarted(more) /\ FeedbackStarted(more) <= MaxFeedback
        /\ FeedbackStarted(more) \in Nat
    BY Numbers, LimitsAssumption DEF FeedbackStarted, AtMost, SearchesCounted
  <2> QED
    BY <2>1, <2>2, <2>3, Numbers DEF SearchesCounted, AboutToSearch
<1>10. CASE CleanupAttempt \/ ReleasePageSlots
  <2>1. \E count, slots : Release(count, slots)
    BY <1>10 DEF CleanupAttempt, ReleasePageSlots
  <2>2. exec'.pc # "target"
    BY <1>0, <1>10 DEF CleanupAttempt, ReleasePageSlots, NoAttempt, Execution
  <2> QED
    BY <2>1, <2>2, ReleaseQuiet, QuietSearches
<1> QED
  BY <1>1, <1>2, <1>3, <1>4, <1>5, <1>6, <1>7, <1>8, <1>9, <1>10 DEF Next

-----------------------------------------------------------------------------
(* The theorems *)

(* The inductive invariant holds in every reachable state. *)
THEOREM PageInvariance == Spec => []IInv
  BY InitInv, NextInv, PTL DEF Spec

(* Counters never go negative and the owner map keeps no empty entry,      *)
(* whatever the order of reservations, releases and cut-offs.              *)
THEOREM PageTypeCorrect == Spec => []TypeOK
<1>1. IInv => TypeOK
  BY DEF IInv
<1> QED
  BY <1>1, PageInvariance, PTL

(* Whatever the limits, extractions stay within max_pages_extracted and    *)
(* max_extraction_calls, those in flight or lost in a crash included.      *)
THEOREM ExtractionBudgetHolds == Spec => []ExtractionWithinBudget
<1>1. IInv => ExtractionWithinBudget
  BY DEF IInv
<1> QED
  BY <1>1, PageInvariance, PTL

(* Every exit of an attempt gives its unused slots back: between attempts  *)
(* only the slots of executions that were cut off are reserved.            *)
THEOREM AttemptsGiveBack == Spec => []SlotsGivenBack
<1>1. IInv => SlotsGivenBack
  BY DEF IInv, AttemptOwnsUnused, SlotHeld, SlotsGivenBack, NoReservation
<1> QED
  BY <1>1, PageInvariance, PTL

(* The page limits are overrun by less than _MAX_PAGE_ATTEMPTS fetches.    *)
THEOREM OverrunLimit == Spec => []OverrunBounded
<1>1. IInv => OverrunBounded
  <2> SUFFICES ASSUME IInv PROVE OverrunBounded
    OBVIOUS
  <2>1. exec.prefetched + exec.batch <= exec.left
    BY DEF IInv, ResultsCounted
  <2>2. usage.fetched + exec.left < MaxPages + MaxPageAttempts + exec.prefetched
        /\ usage.attempts + exec.left < MaxFetchAttempts + MaxPageAttempts + exec.prefetched
    BY DEF IInv, OverrunCovered
  <2> QED
    BY <2>1, <2>2, Numbers, LimitsAssumption DEF IInv, OverrunBounded
<1> QED
  BY <1>1, PageInvariance, PTL

(* Searches pass max_searches by at most the feedback queries of the run.  *)
THEOREM SearchLimit == Spec => []SearchesBounded
<1>1. Init => SearchesCounted
  BY LimitsAssumption DEF Init, SearchesCounted, AboutToSearch, NoAttempt
<1>2. TypeOK /\ SearchesCounted /\ [Next]_vars => SearchesCounted'
  BY SearchesNext
<1>3. TypeOK /\ SearchesCounted => SearchesBounded
  BY Numbers, LimitsAssumption DEF SearchesCounted, SearchesBounded
<1> QED
  BY <1>1, <1>2, <1>3, PageTypeCorrect, PTL DEF Spec

-----------------------------------------------------------------------------
(* Sums over a finite set                                                  *)

(* SumFunctionOnSet(f, S) of the community module Functions adds f[x] for  *)
(* every x in S, one chosen element at a time.  The order does not matter, *)
(* so that a sum can be taken apart at any element.                        *)

(* Induction over the natural numbers, from their being well-founded. *)
LEMMA NatLeast ==
  ASSUME NEW T, T \subseteq Nat, T # {}
  PROVE  \E x \in T : \A y \in T : x <= y
<1>1. PICK x \in T : \A y \in T : ~ (<<y, x>> \in OpToRel(<, Nat))
  BY NatLessThanWellFounded, WFMin, Zenon
<1>2. \A y \in T : ~(y < x)
  BY <1>1, Zenon DEF OpToRel
<1> QED
  BY <1>2

LEMMA NatInduct ==
  ASSUME NEW T, 0 \in T, \A n \in Nat : n \in T => n + 1 \in T
  PROVE  Nat \subseteq T
<1> SUFFICES ASSUME Nat \ T # {} PROVE FALSE
  OBVIOUS
<1>1. PICK x \in Nat \ T : \A y \in Nat \ T : x <= y
  BY NatLeast
<1>2. x # 0 /\ x - 1 \in Nat /\ x - 1 \in T
  BY <1>1
<1> QED
  BY <1>2

(* The element the fold takes first, and the equation of the fold. *)
First(s) == CHOOSE x \in s : TRUE

Adds(g, f, S) ==
  g = [s \in SUBSET S |-> IF s = {} THEN 0 ELSE f[First(s)] + g[s \ {First(s)}]]

LEMMA SumIsFold ==
  ASSUME NEW f, NEW S
  PROVE  SumFunctionOnSet(f, S) = (CHOOSE g : Adds(g, f, S))[S]
BY DEF SumFunctionOnSet, FoldFunctionOnSet, MapThenFoldSet, Adds, First

(* A property of the subsets of a finite set that every one of them gets   *)
(* from those with one element less.                                       *)
LEMMA SubsetInduct ==
  ASSUME NEW D, IsFiniteSet(D), NEW U,
         \A s \in SUBSET D : (\A x \in s : s \ {x} \in U) => s \in U
  PROVE  SUBSET D \subseteq U
<1> DEFINE T == {n \in Nat : \A s \in SUBSET D : Cardinality(s) = n => s \in U}
<1>1. \A s \in SUBSET D : IsFiniteSet(s) /\ Cardinality(s) \in Nat
  BY FS_Subset, FS_CardinalityType
<1>2. 0 \in T
  BY <1>1, FS_EmptySet
<1>3. ASSUME NEW n \in Nat, n \in T PROVE n + 1 \in T
  <2>1. ASSUME NEW s \in SUBSET D, Cardinality(s) = n + 1 PROVE s \in U
    <3>1. ASSUME NEW x \in s PROVE s \ {x} \in U
      <4>1. Cardinality(s \ {x}) = n
        BY <1>1, <2>1, FS_RemoveElement
      <4> QED
        BY <1>3, <4>1
    <3> QED
      BY <3>1
  <2> QED
    BY <2>1
<1>4. Nat \subseteq T
  <2> HIDE DEF T
  <2> QED
    BY <1>2, <1>3, NatInduct
<1> QED
  BY <1>1, <1>4

Integral(f, S) == \A x \in S : f[x] \in Int

(* The fold has a solution, *)
LEMMA FoldExists ==
  ASSUME NEW S, IsFiniteSet(S), NEW f, Integral(f, S)
  PROVE  \E g : Adds(g, f, S)
<1> DEFINE Step(g) ==
             [s \in SUBSET S |-> IF s = {} THEN 0 ELSE f[First(s)] + g[s \ {First(s)}]]
           T == {n \in Nat : \E g \in [SUBSET S -> Int] :
                   \A s \in SUBSET S : Cardinality(s) <= n => g[s] = Step(g)[s]}
<1>1. \A s \in SUBSET S : IsFiniteSet(s) /\ Cardinality(s) \in Nat
  BY FS_Subset, FS_CardinalityType
<1>2. \A s \in SUBSET S : s # {} => First(s) \in s /\ f[First(s)] \in Int
  BY DEF First, Integral
<1>3. ASSUME NEW g \in [SUBSET S -> Int] PROVE Step(g) \in [SUBSET S -> Int]
  <2>1. ASSUME NEW s \in SUBSET S PROVE Step(g)[s] \in Int
    <3>1. s \ {First(s)} \in SUBSET S
      OBVIOUS
    <3> QED
      BY <1>2, <3>1
  <2> QED
    BY <2>1
<1>4. 0 \in T
  <2> DEFINE g == [s \in SUBSET S |-> 0]
  <2>1. g \in [SUBSET S -> Int]
    OBVIOUS
  <2>2. \A s \in SUBSET S : Cardinality(s) <= 0 => g[s] = Step(g)[s]
    BY <1>1, FS_EmptySet
  <2> QED
    BY <2>1, <2>2
<1>5. ASSUME NEW n \in Nat, n \in T PROVE n + 1 \in T
  <2>1. PICK g \in [SUBSET S -> Int] :
          \A s \in SUBSET S : Cardinality(s) <= n => g[s] = Step(g)[s]
    BY <1>5
  <2>2. Step(g) \in [SUBSET S -> Int]
    BY <1>3
  <2>3. ASSUME NEW s \in SUBSET S, Cardinality(s) <= n + 1
        PROVE  Step(g)[s] = Step(Step(g))[s]
    <3>1. CASE s = {}
      BY <3>1
    <3>2. CASE s # {}
      <4> DEFINE t == s \ {First(s)}
      <4>1. t \in SUBSET S /\ Cardinality(t) <= n
        BY <1>1, <1>2, <2>3, <3>2, FS_RemoveElement
      <4>2. g[t] = Step(g)[t]
        BY <2>1, <4>1
      <4> QED
        BY <3>2, <4>2
    <3> QED
      BY <3>1, <3>2
  <2> HIDE DEF Step
  <2> QED
    BY <2>2, <2>3
<1>6. Cardinality(S) \in T
  <2>1. Nat \subseteq T
    <3> HIDE DEF T
    <3> QED
      BY <1>4, <1>5, NatInduct
  <2> QED
    BY <1>1, <2>1
<1>7. PICK g \in [SUBSET S -> Int] :
        \A s \in SUBSET S : Cardinality(s) <= Cardinality(S) => g[s] = Step(g)[s]
  BY <1>6
<1>8. \A s \in SUBSET S : Cardinality(s) <= Cardinality(S)
  BY FS_Subset
<1>9. g = Step(g)
  BY <1>7, <1>8
<1> QED
  BY <1>9 DEF Adds

(* on each set only one, whatever larger set it is a solution for, *)
LEMMA FoldUnique ==
  ASSUME NEW S, IsFiniteSet(S), NEW D, S \subseteq D, NEW f, NEW h, Integral(f, S),
         \A x \in S : f[x] = h[x],
         NEW g, Adds(g, f, S), NEW k, Adds(k, h, D)
  PROVE  \A s \in SUBSET S : g[s] = k[s] /\ g[s] \in Int
<1> DEFINE U == {s \in SUBSET S : g[s] = k[s] /\ g[s] \in Int}
<1>1. ASSUME NEW s \in SUBSET S, \A x \in s : s \ {x} \in U PROVE s \in U
  <2>1. /\ g[s] = IF s = {} THEN 0 ELSE f[First(s)] + g[s \ {First(s)}]
        /\ k[s] = IF s = {} THEN 0 ELSE h[First(s)] + k[s \ {First(s)}]
    <3>1. s \in SUBSET D
      OBVIOUS
    <3> QED
      BY <3>1 DEF Adds
  <2>2. CASE s = {}
    BY <2>1, <2>2
  <2>3. CASE s # {}
    <3>1. First(s) \in s
      BY <2>3 DEF First
    <3>2. s \ {First(s)} \in U /\ f[First(s)] = h[First(s)] /\ f[First(s)] \in Int
      BY <1>1, <3>1 DEF Integral
    <3> QED
      BY <2>1, <2>3, <3>2
  <2> QED
    BY <2>2, <2>3
<1>2. SUBSET S \subseteq U
  <2> HIDE DEF U
  <2> QED
    BY <1>1, SubsetInduct
<1> QED
  BY <1>2

(* and any element may be taken first. *)
LEMMA FoldTakesAny ==
  ASSUME NEW S, IsFiniteSet(S), NEW f, Integral(f, S), NEW g, Adds(g, f, S)
  PROVE  \A s \in SUBSET S : \A x \in s : g[s] = f[x] + g[s \ {x}]
<1> DEFINE U == {s \in SUBSET S : \A x \in s : g[s] = f[x] + g[s \ {x}]}
<1>1. \A s \in SUBSET S : g[s] \in Int
  BY FoldUnique
<1>2. ASSUME NEW s \in SUBSET S, \A x \in s : s \ {x} \in U PROVE s \in U
  <2>1. ASSUME NEW x \in s PROVE g[s] = f[x] + g[s \ {x}]
    <3> DEFINE y == First(s)
    <3>1. y \in s /\ g[s] = f[y] + g[s \ {y}]
      BY DEF First, Adds
    <3>2. CASE x = y
      BY <3>1, <3>2
    <3>3. CASE x # y
      <4>1. x \in s \ {y} /\ y \in s \ {x} /\ s \ {x} \in U /\ s \ {y} \in U
        BY <1>2, <3>1, <3>3
      <4> DEFINE w == (s \ {x}) \ {y}
      <4>2. (s \ {y}) \ {x} = w /\ w \in SUBSET S
        OBVIOUS
      <4>3. g[s \ {y}] = f[x] + g[w] /\ g[s \ {x}] = f[y] + g[w]
        BY <4>1, <4>2
      <4>4. f[x] \in Int /\ f[y] \in Int /\ g[w] \in Int
        BY <1>1, <3>1, <4>2 DEF Integral
      <4> HIDE DEF y, w
      <4> QED
        BY <3>1, <4>3, <4>4
    <3> QED
      BY <3>2, <3>3
  <2> QED
    BY <2>1
<1>3. SUBSET S \subseteq U
  <2> HIDE DEF U
  <2> QED
    BY <1>2, SubsetInduct
<1> QED
  BY <1>3

-----------------------------------------------------------------------------
(* What a reader needs to know of sums.                                    *)

LEMMA SumIsAFold ==
  ASSUME NEW S, IsFiniteSet(S), NEW f, Integral(f, S)
  PROVE  \E g : Adds(g, f, S) /\ SumFunctionOnSet(f, S) = g[S]
BY FoldExists, SumIsFold

(* Functions that agree on a set have one sum over it. *)
LEMMA SumAgree ==
  ASSUME NEW S, IsFiniteSet(S), NEW f, NEW h, Integral(f, S), \A x \in S : f[x] = h[x]
  PROVE  SumFunctionOnSet(f, S) = SumFunctionOnSet(h, S)
<1>1. Integral(h, S)
  BY DEF Integral
<1>2. PICK g : Adds(g, f, S) /\ SumFunctionOnSet(f, S) = g[S]
  BY SumIsAFold
<1>3. PICK k : Adds(k, h, S) /\ SumFunctionOnSet(h, S) = k[S]
  BY <1>1, SumIsAFold
<1>4. S \in SUBSET S
  OBVIOUS
<1> QED
  BY <1>2, <1>3, <1>4, FoldUnique

LEMMA SumOfNothing ==
  ASSUME NEW f
  PROVE  SumFunctionOnSet(f, {}) = 0
<1>1. IsFiniteSet({}) /\ Integral(f, {})
  BY FS_EmptySet DEF Integral
<1>2. PICK g : Adds(g, f, {}) /\ SumFunctionOnSet(f, {}) = g[{}]
  BY <1>1, SumIsAFold
<1> QED
  BY <1>2 DEF Adds

(* One element taken out. *)
LEMMA SumTakeOut ==
  ASSUME NEW S, IsFiniteSet(S), NEW f, Integral(f, S)
  PROVE  /\ SumFunctionOnSet(f, S) \in Int
         /\ \A x \in S : SumFunctionOnSet(f, S) = f[x] + SumFunctionOnSet(f, S \ {x})
<1>1. PICK g : Adds(g, f, S) /\ SumFunctionOnSet(f, S) = g[S]
  BY SumIsAFold
<1>2. SumFunctionOnSet(f, S) \in Int
  BY <1>1, FoldUnique
<1>3. ASSUME NEW x \in S
      PROVE  SumFunctionOnSet(f, S) = f[x] + SumFunctionOnSet(f, S \ {x})
  <2> DEFINE R == S \ {x}
  <2>1. IsFiniteSet(R) /\ Integral(f, R) /\ R \subseteq S /\ R \in SUBSET R
    BY FS_Subset DEF Integral
  <2>2. PICK k : Adds(k, f, R) /\ SumFunctionOnSet(f, R) = k[R]
    BY <2>1, SumIsAFold
  <2>3. k[R] = g[R]
    <3> HIDE DEF R
    <3> QED
      BY <1>1, <2>1, <2>2, FoldUnique
  <2>4. g[S] = f[x] + g[R]
    BY <1>1, FoldTakesAny
  <2> QED
    BY <1>1, <2>2, <2>3, <2>4
<1> QED
  BY <1>2, <1>3

(* A sum of natural numbers is one. *)
LEMMA SumOfNaturals ==
  ASSUME NEW S, IsFiniteSet(S), NEW f, \A x \in S : f[x] \in Nat
  PROVE  SumFunctionOnSet(f, S) \in Nat
<1> DEFINE U == {s \in SUBSET S : SumFunctionOnSet(f, s) \in Nat}
<1>1. ASSUME NEW s \in SUBSET S, \A x \in s : s \ {x} \in U PROVE s \in U
  <2>1. CASE s = {}
    BY <2>1, SumOfNothing
  <2>2. CASE s # {}
    <3>1. PICK x \in s : TRUE
      BY <2>2
    <3>2. IsFiniteSet(s) /\ Integral(f, s)
      BY FS_Subset DEF Integral
    <3>3. SumFunctionOnSet(f, s) = f[x] + SumFunctionOnSet(f, s \ {x})
      BY <3>2, SumTakeOut
    <3>4. f[x] \in Nat /\ SumFunctionOnSet(f, s \ {x}) \in Nat
      BY <1>1
    <3> QED
      BY <3>3, <3>4
  <2> QED
    BY <2>1, <2>2
<1>2. SUBSET S \subseteq U
  <2> HIDE DEF U
  <2> QED
    BY <1>1, SubsetInduct
<1> QED
  BY <1>2

-----------------------------------------------------------------------------
(* The owners of the reserved slots *)

(* the map is finite, so that its entries have a sum *)
OwnersCounted == IsFiniteSet(DOMAIN owners) /\ ReservedSlotsHaveOwners

(* Writing the worker's entry changes the sum by just that entry. *)
LEMMA SumSetOwned ==
  ASSUME TypeOK, IsFiniteSet(DOMAIN owners), NEW n \in Nat, SetOwned(n)
  PROVE  /\ IsFiniteSet(DOMAIN owners')
         /\ SumFunction(owners) \in Nat /\ Owned <= SumFunction(owners)
         /\ SumFunction(owners') = SumFunction(owners) + n - Owned
<1> DEFINE D == DOMAIN owners  E == DOMAIN owners'  R == D \ {exec.key}
<1>1. \A k \in D : owners[k] \in Nat
  BY DEF TypeOK
<1>2. E = (IF n = 0 THEN R ELSE D \cup {exec.key}) /\ E \ {exec.key} = R
  BY DEF SetOwned
<1>3. \A k \in E : owners'[k] = IF k = exec.key THEN n ELSE owners[k]
  BY DEF SetOwned
<1>4. \A k \in E : owners'[k] \in Nat
  BY <1>1, <1>2, <1>3
<1>5. IsFiniteSet(E) /\ IsFiniteSet(R)
  BY <1>2, FS_AddElement, FS_Subset
<1>6. Integral(owners, D) /\ Integral(owners, R) /\ Integral(owners', E)
  BY <1>1, <1>4 DEF Integral
<1>7. \A k \in R : owners[k] = owners'[k] /\ owners[k] \in Nat
  BY <1>1, <1>2, <1>3
<1>8. Owned = IF exec.key \in D THEN owners[exec.key] ELSE 0
  BY DEF Owned
<1>9. exec.key \in E <=> n # 0
  BY <1>2, <1>8 DEF SetOwned
<1>10. exec.key \notin D => R = D
  OBVIOUS
<1> HIDE DEF D, E, R
<1>11. /\ SumFunctionOnSet(owners, R) = SumFunctionOnSet(owners', R)
       /\ SumFunctionOnSet(owners, R) \in Nat
  BY <1>5, <1>6, <1>7, SumAgree, SumOfNaturals
<1>12. SumFunctionOnSet(owners, D) = Owned + SumFunctionOnSet(owners, R)
  <2>1. CASE exec.key \in D
    BY <1>6, <1>8, <2>1, SumTakeOut DEF D, R
  <2>2. CASE exec.key \notin D
    BY <1>8, <1>10, <1>11, <2>2
  <2> QED
    BY <2>1, <2>2
<1>13. SumFunctionOnSet(owners', E) = n + SumFunctionOnSet(owners', R)
  <2>1. CASE n # 0
    <3>1. exec.key \in E /\ owners'[exec.key] = n
      BY <1>3, <1>9, <2>1
    <3>2. SumFunctionOnSet(owners', E)
            = owners'[exec.key] + SumFunctionOnSet(owners', E \ {exec.key})
      BY <1>5, <1>6, <3>1, SumTakeOut
    <3> QED
      BY <1>2, <3>1, <3>2
  <2>2. CASE n = 0
    BY <1>2, <1>11, <2>2
  <2> QED
    BY <2>1, <2>2
<1>14. Owned \in Nat
  BY OwnedType
<1>15. SumFunction(owners) = SumFunctionOnSet(owners, D)
       /\ SumFunction(owners') = SumFunctionOnSet(owners', E)
  BY DEF SumFunction, D, E
<1> QED
  BY <1>5, <1>11, <1>12, <1>13, <1>14, <1>15 DEF D, E

(* Taking n slots off the counter, floored at zero, and off the worker's   *)
(* entry keeps every reserved slot owned; an empty map owns nothing, and   *)
(* then nothing is reserved.                                               *)
LEMMA GiveBackCounted ==
  ASSUME TypeOK, OwnersCounted, NEW n \in Nat,
         usage'.reserved = Monus(usage.reserved, n),
         \/ UNCHANGED owners
         \/ n <= Owned /\ SetOwned(Owned - n)
  PROVE  OwnersCounted'
<1>1. usage.reserved \in Nat /\ Owned \in Nat
  BY Numbers, OwnedType
<1>2. usage.reserved <= SumFunction(owners) /\ IsFiniteSet(DOMAIN owners)
  BY DEF OwnersCounted, ReservedSlotsHaveOwners
<1>3. SumFunction(owners) \in Nat
  BY <1>2, SumOfNaturals DEF SumFunction, TypeOK
<1>4. CASE UNCHANGED owners
  <2>0. usage'.reserved \in Nat /\ usage'.reserved <= usage.reserved
    BY <1>1, Arithmetic
  <2>1. usage'.reserved <= SumFunction(owners)
    BY <1>1, <1>2, <1>3, <2>0
  <2>2. SumFunction(owners') = SumFunction(owners) /\ IsFiniteSet(DOMAIN owners')
    BY <1>2, <1>4
  <2> QED
    BY <2>1, <2>2 DEF OwnersCounted, ReservedSlotsHaveOwners
<1>5. CASE n <= Owned /\ SetOwned(Owned - n)
  <2>1. Owned - n \in Nat
    BY <1>1, <1>5
  <2>2. IsFiniteSet(DOMAIN owners')
        /\ SumFunction(owners') = SumFunction(owners) + (Owned - n) - Owned
        /\ Owned <= SumFunction(owners)
    BY <1>2, <1>5, <2>1, SumSetOwned
  <2>3. Monus(usage.reserved, n) <= SumFunction(owners) - n
    BY <1>1, <1>2, <1>3, <1>5, <2>2 DEF Monus
  <2>4. usage'.reserved <= SumFunction(owners')
    BY <1>1, <1>3, <1>5, <2>2, <2>3
  <2> QED
    BY <2>2, <2>4 DEF OwnersCounted, ReservedSlotsHaveOwners
<1> QED
  BY <1>4, <1>5

LEMMA SettleCounted ==
  ASSUME TypeOK, OwnersCounted, NEW counts, Settle(counts) PROVE OwnersCounted'
<1>1. Owned \in Nat /\ usage \in Usage
  BY OwnedType DEF TypeOK
<1>2. ToSettle \in Nat /\ (DOMAIN owners # {} => ToSettle <= Owned)
  BY <1>1 DEF ToSettle, AtMost
<1>3. usage'.reserved = Monus(usage.reserved, ToSettle)
  BY <1>1 DEF Settle, Usage
<1>4. UNCHANGED owners \/ (ToSettle <= Owned /\ SetOwned(Owned - ToSettle))
  BY <1>2 DEF Settle
<1> QED
  BY <1>2, <1>3, <1>4, GiveBackCounted

LEMMA ReleaseCounted ==
  ASSUME TypeOK, OwnersCounted, NEW count \in Nat, NEW slots, Release(count, slots)
  PROVE  OwnersCounted'
<1>1. Owned \in Nat /\ usage \in Usage /\ usage.reserved \in Nat
  BY OwnedType, Numbers DEF TypeOK
<1>2. ToRelease(count) \in Nat /\ (DOMAIN owners # {} => ToRelease(count) <= Owned)
  BY <1>1 DEF ToRelease, AtMost
<1>3. usage'.reserved = Monus(usage.reserved, ToRelease(count))
  BY <1>1 DEF Release, Usage
<1>4. UNCHANGED owners \/ (ToRelease(count) <= Owned /\ SetOwned(Owned - ToRelease(count)))
  BY <1>2 DEF Release
<1> QED
  BY <1>2, <1>3, <1>4, GiveBackCounted

(* What is granted goes to the worker's entry. *)
LEMMA ReserveCounted ==
  ASSUME TypeOK, OwnersCounted, NEW requested \in Nat, NEW results \in Nat, NEW batch \in Nat,
         ReservePageSlots(requested, results, batch)
  PROVE  OwnersCounted'
<1> DEFINE n == Grant(requested)
<1>1. Owned \in Nat /\ usage \in Usage /\ usage.reserved \in Nat
  BY OwnedType, Numbers DEF TypeOK
<1>2. n \in Nat
  BY GrantFacts
<1>3. SetOwned(Owned + n) /\ usage' = [usage EXCEPT !.reserved = usage.reserved + n]
  BY DEF ReservePageSlots
<1> HIDE DEF n
<1>4. usage'.reserved = usage.reserved + n
  BY <1>1, <1>3 DEF Usage
<1>5. usage.reserved <= SumFunction(owners) /\ IsFiniteSet(DOMAIN owners)
  BY DEF OwnersCounted, ReservedSlotsHaveOwners
<1>6. IsFiniteSet(DOMAIN owners') /\ SumFunction(owners) \in Nat
      /\ SumFunction(owners') = SumFunction(owners) + (Owned + n) - Owned
  <2>1. Owned + n \in Nat
    BY <1>1, <1>2
  <2> QED
    BY <1>3, <1>5, <2>1, SumSetOwned
<1>7. usage'.reserved <= SumFunction(owners')
  BY <1>1, <1>2, <1>4, <1>5, <1>6
<1> QED
  BY <1>6, <1>7 DEF OwnersCounted, ReservedSlotsHaveOwners

(* Everything else leaves the map alone and reserves nothing. *)
LEMMA QuietCounted ==
  ASSUME TypeOK, OwnersCounted, UNCHANGED owners, usage'.reserved \in {0, usage.reserved}
  PROVE  OwnersCounted'
<1>1. usage.reserved \in Nat
  BY Numbers
<1>2. usage'.reserved = Monus(usage.reserved, 0) \/ usage'.reserved = Monus(usage.reserved, usage.reserved)
  BY <1>1 DEF Monus
<1> QED
  BY <1>1, <1>2, GiveBackCounted

LEMMA OwnersNext == TypeOK /\ OwnersCounted /\ [Next]_vars => OwnersCounted'
<1> SUFFICES ASSUME TypeOK, OwnersCounted, [Next]_vars PROVE OwnersCounted'
  OBVIOUS
<1> USE Numbers
<1>0. usage \in Usage
  BY DEF TypeOK
<1>1. CASE \/ \E key \in 1..MaxExecutions : Acquire(key)
           \/ CutOff \/ Raise \/ RaiseModelError \/ AbandonAttempt
           \/ EnterLoop \/ TakePrefetched \/ SkipProcessedPage \/ RejectInTriage
           \/ ExtractionRefused \/ UNCHANGED vars
  <2>1. UNCHANGED <<usage, owners>>
    BY <1>1 DEF Acquire, CutOff, Raise, RaiseModelError, AbandonAttempt, EnterLoop,
       TakePrefetched, SkipProcessedPage, RejectInTriage, ExtractionRefused, vars
  <2> QED
    BY <2>1, QuietCounted
<1>2. CASE \/ EndExecution \/ PrepareFeedbackTarget
           \/ \E fresh \in BOOLEAN : PrepareTarget(fresh)
  <2>1. UNCHANGED owners /\ usage'.reserved \in {0, usage.reserved}
    BY <1>0, <1>2 DEF EndExecution, PrepareFeedbackTarget, PrepareTarget, Usage
  <2> QED
    BY <2>1, QuietCounted
<1>3. CASE (\E hits \in 0..1 : RecordSearchResults(hits)) \/ RecordToolFailure
  <2>1. UNCHANGED owners /\ usage'.reserved = usage.reserved
    BY <1>0, <1>3 DEF RecordSearchResults, RecordToolFailure, CountSearch, Usage
  <2> QED
    BY <2>1, QuietCounted
<1>4. CASE \E requested \in {1, MaxPagesRead}, results \in 0..MaxPageAttempts,
              batch \in 0..MaxPagesRead : ReservePageSlots(requested, results, batch)
  BY <1>4, ReserveCounted, LimitsAssumption
<1>5. CASE (\E ok \in BOOLEAN : RecordPrefetch(ok)) \/ RecordPageFailure
           \/ \E counts \in {FetchOk, Reuse} : RecordPageFetched(counts)
  BY <1>5, SettleCounted DEF RecordPrefetch, RecordPageFailure, RecordPageFetched
<1>6. CASE ReserveExtractionSlot \/ ReleaseExtractionSlot
  <2>1. UNCHANGED owners /\ usage'.reserved = usage.reserved
    BY <1>0, <1>6 DEF ReserveExtractionSlot, ReleaseExtractionSlot, Usage
  <2> QED
    BY <2>1, QuietCounted
<1>7. CASE \E cacheHit \in BOOLEAN, next \in {"loop", "exit", "failing"},
              more \in 0..MaxFeedback : RecordPage(cacheHit, next, more)
  <2>1. UNCHANGED owners /\ usage'.reserved = usage.reserved
    BY <1>0, <1>7 DEF RecordPage, Usage
  <2> QED
    BY <2>1, QuietCounted
<1>8. CASE CleanupAttempt
  BY <1>8, ReleaseCounted DEF CleanupAttempt
<1>9. CASE ReleasePageSlots
  BY <1>9, ReleaseCounted DEF ReleasePageSlots
<1> QED
  BY <1>1, <1>2, <1>3, <1>4, <1>5, <1>6, <1>7, <1>8, <1>9 DEF Next

(* Every reserved slot is in some worker's entry of the owner map, after   *)
(* any number of executions that were cut off, raised or taken over: an    *)
(* empty map, which settle and release take for "nobody's", means that     *)
(* nothing is reserved.                                                    *)
THEOREM SlotsAreOwned == Spec => []ReservedSlotsHaveOwners
<1>1. Init => OwnersCounted
  <2> SUFFICES ASSUME Init PROVE OwnersCounted
    OBVIOUS
  <2>1. DOMAIN owners = {} /\ usage.reserved = 0
    BY DEF Init
  <2>2. IsFiniteSet(DOMAIN owners) /\ SumFunction(owners) = 0
    BY <2>1, FS_EmptySet, SumOfNothing DEF SumFunction
  <2> QED
    BY <2>1, <2>2 DEF OwnersCounted, ReservedSlotsHaveOwners
<1>2. TypeOK /\ OwnersCounted /\ [Next]_vars => OwnersCounted'
  BY OwnersNext
<1>3. OwnersCounted => ReservedSlotsHaveOwners
  BY DEF OwnersCounted
<1> QED
  BY <1>1, <1>2, <1>3, PageTypeCorrect, PTL DEF Spec

=============================================================================
