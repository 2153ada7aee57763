------------------------------ MODULE Listings ------------------------------
(* Lists made of sets, without recursion, so that what they hold can be    *)
(* proved: a set in a given order, the places of a list in ascending order,*)
(* the part of a list at some of its places, and a list without its        *)
(* repetitions.                                                            *)
EXTENDS Integers, Sequences, FiniteSets, Functions

(* The elements of a finite set in the order before, a set of pairs.       *)
Listed(S, before) ==
  [k \in 1..Cardinality(S) |->
     CHOOSE e \in S : Cardinality({f \in S : <<f, e>> \in before}) = k - 1]

Ascending(I) == Listed(I, {p \in I \X I : p[1] < p[2]})

Kept(s, I) == [k \in 1..Cardinality(I) |-> s[Ascending(I)[k]]]

(* The elements of a list in the order in which they occur first.          *)
Distinct(s) == Kept(s, {i \in DOMAIN s : \A j \in 1..(i - 1) : s[j] # s[i]})
=============================================================================
