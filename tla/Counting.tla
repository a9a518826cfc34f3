------------------------------ MODULE Counting ------------------------------
(***************************************************************************)
(* What the proofs need to know of numbers, loops and finite sets, as one  *)
(* formula.  Counting_proofs proves it from the theorems on well-founded   *)
(* and on finite sets.  The lemmas about the components take it as a       *)
(* hypothesis, and only their theorems cite its proof: the prover carries  *)
(* every theorem in scope through every step, and there are a hundred.     *)
(***************************************************************************)
EXTENDS Integers, FiniteSets, Functions

(* A nonempty set of numbers has a least member.                           *)
LeastNumber == \A T \in SUBSET Nat : T # {} => \E x \in T : \A y \in T : x <= y

(* A loop is a recursive function: its value after n turns is made from    *)
(* the one after n - 1.                                                    *)
IsLoop(f, s, G, num) == f = [n \in 0 .. num |-> IF n = 0 THEN s ELSE G[n][f[n - 1]]]

(* What holds of the first value of a loop, and of the value after a turn  *)
(* if it held before, holds after every turn.                              *)
LoopKeeps ==
  \A num \in Nat : \A X, f :
     /\ f[0] \in X[0]
     /\ \A n \in 1 .. num : f[n - 1] \in X[n - 1] => f[n] \in X[n]
     => \A n \in 0 .. num : f[n] \in X[n]

(* A loop whose turns lead from one set of values to the next has a value  *)
(* after every turn.                                                       *)
LoopExists ==
  \A num \in Nat : \A X, s, G :
     /\ s \in X[0]
     /\ \A n \in 1 .. num : \A x \in X[n - 1] : G[n][x] \in X[n]
     => \E f : IsLoop(f, s, G, num) /\ \A n \in 0 .. num : f[n] \in X[n]
-----------------------------------------------------------------------------
(* The number of elements of an interval, of the empty set, of a part, of  *)
(* a union, of a set with one element more or less, and of sets that are   *)
(* mapped to one another.                                                  *)
CountInterval ==
  \A a, b \in Int : IsFiniteSet(a .. b) /\ Cardinality(a .. b) = IF a > b THEN 0 ELSE b - a + 1

CountEmpty ==
  /\ IsFiniteSet({}) /\ Cardinality({}) = 0
  /\ \A S : IsFiniteSet(S) => (Cardinality(S) = 0 <=> S = {})

CountType == \A S : IsFiniteSet(S) => Cardinality(S) \in Nat /\ ExistsBijection(1 .. Cardinality(S), S)

CountPart ==
  \A S : IsFiniteSet(S) => \A T \in SUBSET S : IsFiniteSet(T) /\ Cardinality(T) <= Cardinality(S)

CountUnion ==
  \A S, T : IsFiniteSet(S) /\ IsFiniteSet(T) =>
    /\ IsFiniteSet(S \cup T)
    /\ Cardinality(S \cup T) = Cardinality(S) + Cardinality(T) - Cardinality(S \cap T)

CountElement ==
  \A S, x : IsFiniteSet(S) =>
    /\ Cardinality(S \cup {x}) = IF x \in S THEN Cardinality(S) ELSE Cardinality(S) + 1
    /\ Cardinality(S \ {x}) = IF x \in S THEN Cardinality(S) - 1 ELSE Cardinality(S)

CountInjection ==
  \A S, T : \A f \in Injection(S, T) : IsFiniteSet(T) => Cardinality(S) <= Cardinality(T)

CountBijection ==
  \A S, T : IsFiniteSet(S) /\ ExistsBijection(S, T) => Cardinality(T) = Cardinality(S)

Counting ==
  /\ LeastNumber /\ LoopKeeps /\ LoopExists
  /\ CountInterval /\ CountEmpty /\ CountType /\ CountPart /\ CountUnion /\ CountElement
  /\ CountInjection /\ CountBijection
=============================================================================
