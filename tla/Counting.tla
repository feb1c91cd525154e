------------------------------- MODULE Counting -------------------------------
(***************************************************************************)
(* Two lemmas for what the program does once for each byte of a text, or   *)
(* each pair of a body: counting up to n, and the values a loop passes     *)
(* through.                                                                *)
(***************************************************************************)
EXTENDS Integers, WellFoundedInduction, TLAPS

\* Counting up to n stays in a set it never leaves.
LEMMA CountsUp ==
  ASSUME NEW n \in Nat, NEW T, 0 \in T, \A i \in 1 .. n : i - 1 \in T => i \in T
  PROVE  \A i \in 0 .. n : i \in T
<1> DEFINE Out == {i \in 0 .. n : i \notin T}
<1>1. SUFFICES ASSUME Out # {} PROVE FALSE
  OBVIOUS
<1>2. Out \subseteq Nat
  OBVIOUS
<1>3. PICK x \in Out : \A y \in Out : ~(<<y, x>> \in OpToRel(<, Nat))
  BY <1>1, <1>2, NatLessThanWellFounded, WFMin
<1>4. x \in 1 .. n /\ x \notin T
  <2>1. x \notin T /\ x \in 0 .. n
    BY <1>3, Zenon
  <2>2. x # 0
    BY <2>1, Zenon
  <2> QED BY <2>1, <2>2
<1>5. x - 1 \in 0 .. n /\ x - 1 < x /\ x - 1 \in Nat /\ x \in Nat
  BY <1>4
<1>6. x - 1 \notin T
  BY <1>4
<1>7. x - 1 \in Out
  BY <1>5, <1>6
<1>8. <<x - 1, x>> \in OpToRel(<, Nat)
  BY <1>5 DEF OpToRel
<1> QED BY <1>3, <1>7, <1>8

\* A walk over a body: there is one for every way a pair changes what is read.
Steps(S, n, step) == n \in Nat /\ step \in [1 .. n -> [S -> S]]
IsWalk(S, n, s0, step, g) ==
  g \in [0 .. n -> S] /\ g[0] = s0 /\ \A i \in 1 .. n : g[i] = step[i][g[i - 1]]

LEMMA Walk ==
  ASSUME NEW S, NEW n, NEW s0 \in S, NEW step, Steps(S, n, step)
  PROVE  \E g : IsWalk(S, n, s0, step, g)
<1>0. n \in Nat /\ step \in [1 .. n -> [S -> S]]
  BY DEF Steps
<1> SUFFICES \E g \in [0 .. n -> S] : g[0] = s0 /\ \A i \in 1 .. n : g[i] = step[i][g[i - 1]]
  BY DEF IsWalk
<1> DEFINE Walks(m) == \E g \in [0 .. m -> S] :
                          g[0] = s0 /\ \A i \in 1 .. m : g[i] = step[i][g[i - 1]]
           T == {m \in 0 .. n : Walks(m)}
<1>1. 0 \in T
  <2>1. [i \in 0 .. 0 |-> s0] \in [0 .. 0 -> S] /\ [i \in 0 .. 0 |-> s0][0] = s0
    OBVIOUS
  <2>2. Walks(0)
    <3>1. PICK g \in [0 .. 0 -> S] : g[0] = s0
      BY <2>1
    <3>2. \A i \in 1 .. 0 : g[i] = step[i][g[i - 1]]
      OBVIOUS
    <3> QED BY <3>1, <3>2, Zenon
  <2> QED BY <1>0, <2>2
<1>2. ASSUME NEW m \in 1 .. n, m - 1 \in T PROVE m \in T
  <2>1. PICK g \in [0 .. m - 1 -> S] :
          g[0] = s0 /\ \A i \in 1 .. m - 1 : g[i] = step[i][g[i - 1]]
    BY <1>2
  <2> DEFINE h == [i \in 0 .. m |-> IF i = m THEN step[m][g[m - 1]] ELSE g[i]]
  <2>2. g[m - 1] \in S
    BY <1>0, <2>1
  <2>3. step[m][g[m - 1]] \in S
    BY <1>0, <2>2
  <2>4. h \in [0 .. m -> S]
    <3>1. ASSUME NEW i \in 0 .. m PROVE (IF i = m THEN step[m][g[m - 1]] ELSE g[i]) \in S
      <4>1. i # m => i \in 0 .. m - 1
        OBVIOUS
      <4> QED BY <2>1, <2>3, <4>1
    <3> QED BY <3>1
  <2>5. h[0] = s0
    BY <2>1
  <2>6. ASSUME NEW i \in 1 .. m PROVE h[i] = step[i][h[i - 1]]
    <3>1. h[i - 1] = g[i - 1]
      OBVIOUS
    <3>2. CASE i = m
      BY <3>1, <3>2
    <3>3. CASE i # m
      <4>1. i \in 1 .. m - 1 /\ h[i] = g[i]
        BY <3>3
      <4> QED BY <2>1, <3>1, <4>1
    <3> QED BY <3>2, <3>3
  <2>7. Walks(m)
    <3> HIDE DEF h
    <3> QED BY <2>4, <2>5, <2>6
  <2>8. m \in 0 .. n
    BY <1>0
  <2> HIDE DEF Walks
  <2> QED BY <2>7, <2>8
<1>3. \A m \in 0 .. n : m \in T
  <2> HIDE DEF T
  <2> QED BY <1>0, <1>1, <1>2, CountsUp
<1> QED BY <1>0, <1>3
=============================================================================
