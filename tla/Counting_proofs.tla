-------------------------- MODULE Counting_proofs --------------------------
(***************************************************************************)
(* The proof of Counting.                                                  *)
(***************************************************************************)
EXTENDS Counting, FiniteSetTheorems, TLAPS

(* A nonempty set of numbers has a least member.                           *)
LEMMA LeastHolds == LeastNumber
<1> SUFFICES ASSUME NEW T \in SUBSET Nat, T # {}
             PROVE  \E x \in T : \A y \in T : x <= y
  BY DEF LeastNumber
<1>1. PICK x \in T : \A y \in T : ~(<<y, x>> \in OpToRel(<, Nat))
  BY WFMin, NatLessThanWellFounded
<1>2. \A y \in T : ~(y < x)
  BY <1>1, Zenon DEF OpToRel
<1> QED
  BY <1>2

(* The first turn after which the loop's property does not hold has one    *)
(* before it.                                                              *)
LEMMA KeepsHolds == LoopKeeps
<1> SUFFICES ASSUME NEW num \in Nat, NEW X, NEW f, f[0] \in X[0],
                    \A n \in 1 .. num : f[n - 1] \in X[n - 1] => f[n] \in X[n]
             PROVE  \A n \in 0 .. num : f[n] \in X[n]
  BY DEF LoopKeeps
<1> DEFINE T == {n \in 0 .. num : f[n] \notin X[n]}
<1>1. SUFFICES ASSUME T # {} PROVE FALSE
  OBVIOUS
<1>2. PICK n \in T : \A i \in T : n <= i
  <2>1. T \in SUBSET Nat
    OBVIOUS
  <2> HIDE DEF T
  <2> QED
    BY <1>1, <2>1, LeastHolds DEF LeastNumber
<1>3. n \in 0 .. num /\ f[n] \notin X[n] /\ n # 0
  BY <1>2
<1>4. n \in 1 .. num /\ n - 1 \in 0 .. num /\ ~(n <= n - 1)
  BY <1>3
<1>5. f[n - 1] \in X[n - 1]
  BY <1>2, <1>4
<1> QED
  BY <1>3, <1>4, <1>5

(* The least number of turns that no function is the value of.              *)
LEMMA ExistsHolds == LoopExists
<1> SUFFICES ASSUME NEW num \in Nat, NEW X, NEW s, s \in X[0], NEW G,
                    \A n \in 1 .. num : \A x \in X[n - 1] : G[n][x] \in X[n]
             PROVE  \E f : IsLoop(f, s, G, num) /\ \A n \in 0 .. num : f[n] \in X[n]
  BY DEF LoopExists
<1> DEFINE F(f, N) == [n \in 0 .. N |-> IF n = 0 THEN s ELSE G[n][f[n - 1]]]
           T == {N \in 0 .. num : ~\E f : f = F(f, N)}
<1>1. T = {}
  <2>1. SUFFICES ASSUME T # {} PROVE FALSE
    OBVIOUS
  <2>2. PICK N \in T : \A i \in T : N <= i
    <3>1. T \in SUBSET Nat
      OBVIOUS
    <3> HIDE DEF T
    <3> QED
      BY <2>1, <3>1, LeastHolds DEF LeastNumber
  <2>3. N \in 0 .. num /\ ~\E f : f = F(f, N)
    BY <2>2
  <2>4. CASE N = 0
    <3> DEFINE g == [n \in 0 .. 0 |-> s]
    <3>1. g = F(g, 0)
      OBVIOUS
    <3> QED
      BY <2>3, <2>4, <3>1
  <2>5. CASE N # 0
    <3>1. N - 1 \in 0 .. num /\ N - 1 \notin T
      BY <2>2, <2>3, <2>5
    <3>2. PICK f : f = F(f, N - 1)
      BY <3>1
    <3> DEFINE g == [n \in 0 .. N |-> IF n = N THEN G[N][f[N - 1]] ELSE f[n]]
    <3>3. \A n \in 0 .. N - 1 : f[n] = IF n = 0 THEN s ELSE G[n][f[n - 1]]
      BY <3>2
    <3>4. /\ \A n \in 0 .. N - 1 : n \in 0 .. N /\ n # N
          /\ \A n \in 0 .. N : n # N => n \in 0 .. N - 1
          /\ \A n \in 0 .. N : n # 0 => n - 1 \in 0 .. N - 1
          /\ N \in 0 .. N
      BY <2>3
    <3>5. g[N] = G[N][f[N - 1]] /\ \A n \in 0 .. N - 1 : g[n] = f[n]
      BY <3>4
    <3>6. g = [n \in 0 .. N |-> g[n]]
      OBVIOUS
    <3> HIDE DEF g
    <3>7. ASSUME NEW n \in 0 .. N
          PROVE  g[n] = IF n = 0 THEN s ELSE G[n][g[n - 1]]
      <4>1. CASE n = N
        BY <2>5, <3>4, <3>5, <4>1
      <4>2. CASE n # N
        BY <3>3, <3>4, <3>5, <4>2
      <4> QED
        BY <4>1, <4>2
    <3>8. g = F(g, N)
      BY <3>6, <3>7
    <3> QED
      BY <2>3, <3>8
  <2> QED
    BY <2>4, <2>5
<1>2. PICK f : f = F(f, num)
  BY <1>1
<1>3. /\ f[0] = s
      /\ \A n \in 1 .. num : f[n] = G[n][f[n - 1]]
  <2>1. \A n \in 0 .. num : f[n] = IF n = 0 THEN s ELSE G[n][f[n - 1]]
    BY <1>2
  <2> QED
    BY <2>1
<1>4. \A n \in 1 .. num : f[n - 1] \in X[n - 1] => f[n] \in X[n]
  BY <1>3
<1>5. \A n \in 0 .. num : f[n] \in X[n]
  BY <1>3, <1>4, KeepsHolds DEF LoopKeeps
<1> QED
  BY <1>2, <1>5 DEF IsLoop

(* What the proofs rest on: least numbers, loops and the sizes of sets.     *)
THEOREM CountingHolds == Counting
<1>1. CountInterval
  BY FS_Interval DEF CountInterval
<1>2. CountEmpty
  BY FS_EmptySet DEF CountEmpty
<1>3. CountType
  BY FS_CardinalityType DEF CountType
<1>4. CountPart
  BY FS_Subset DEF CountPart
<1>5. CountUnion
  BY FS_Union DEF CountUnion
<1>6. CountElement
  BY FS_AddElement, FS_RemoveElement DEF CountElement
<1>7. CountInjection
  BY FS_Injection DEF CountInjection
<1>8. CountBijection
  BY FS_Bijection DEF CountBijection
<1> QED
  BY <1>1, <1>2, <1>3, <1>4, <1>5, <1>6, <1>7, <1>8, LeastHolds, KeepsHolds, ExistsHolds DEF Counting
=============================================================================
