----------------------------- MODULE NumberFacts -----------------------------
(***************************************************************************)
(* The least and the last of a bounded set of numbers exist.  The library's *)
(* induction takes a predicate as a parameter; here a set takes its place.  *)
(***************************************************************************)
EXTENDS FiniteSetsExt, FiniteSetTheorems, TLAPS

\* No set of numbers up to n has 0, and the successor of each of its numbers:
\* the successors would be as many as the numbers, and 0 is none of them.
LEMMA NoEndlessClimb ==
  ASSUME NEW n \in Nat, NEW T \in SUBSET (0 .. n), 0 \in T, \A m \in T : m + 1 \in T
  PROVE  FALSE
<1> DEFINE up == [m \in T |-> m + 1]
<1>1. IsFiniteSet(T)
  <2>1. IsFiniteSet(0 .. n)
    BY FS_Interval
  <2> QED BY <2>1, FS_Subset
<1>2. up \in Injection(T, T)
  BY DEF Injection, IsInjective
<1>3. up \in Surjection(T, T)
  BY <1>1, <1>2, FS_Injection
<1>4. PICK m \in T : up[m] = 0
  BY <1>3 DEF Surjection
<1> QED BY <1>4

LEMMA MinIsLeast ==
  ASSUME NEW n \in Nat, NEW S \in SUBSET (0 .. n), S # {}
  PROVE  Min(S) \in S /\ \A y \in S : Min(S) <= y
<1> DEFINE Below == {m \in 0 .. n : \A y \in S : m <= y}
<1>1. PICK m \in Below : m + 1 \notin Below
  <2>1. Below \in SUBSET (0 .. n) /\ 0 \in Below
    OBVIOUS
  <2> HIDE DEF Below
  <2> QED BY <2>1, NoEndlessClimb
<1>2. m \in S
  <2>1. m \in 0 .. n /\ \A y \in S : y \in 0 .. n /\ m <= y
    BY <1>1
  <2>2. m < n => \E y \in S : ~ (m + 1 <= y)
    BY <1>1, <2>1
  <2>3. PICK y \in S : m = n \/ ~ (m + 1 <= y)
    <3>1. m < n \/ m = n
      BY <2>1
    <3>2. PICK y \in S : TRUE
      OBVIOUS
    <3> QED BY <2>2, <3>1, <3>2
  <2>4. y = m
    BY <2>1, <2>3
  <2> QED BY <2>4
<1>3. \E x \in S : \A y \in S : x <= y
  BY <1>1, <1>2
<1> QED BY <1>3 DEF Min

LEMMA MaxIsLast ==
  ASSUME NEW n \in Nat, NEW S \in SUBSET (0 .. n), S # {}
  PROVE  Max(S) \in S /\ \A y \in S : y <= Max(S)
<1> DEFINE NotPast == {m \in 0 .. n : \E y \in S : m <= y}
<1>1. PICK m \in NotPast : m + 1 \notin NotPast
  <2>1. PICK y \in S : TRUE
    OBVIOUS
  <2>2. NotPast \in SUBSET (0 .. n) /\ 0 \in NotPast
    BY <2>1, y \in 0 .. n
  <2> HIDE DEF NotPast
  <2> QED BY <2>2, NoEndlessClimb
<1>2. \A y \in S : y <= m
  BY <1>1
<1>3. \E x \in S : \A y \in S : x >= y
  BY <1>1, <1>2
<1> QED BY <1>3 DEF Max

\* A set that has 0, and the successor of each of its numbers below n, has all
\* numbers up to n.
LEMMA UpTo ==
  ASSUME NEW n \in Nat, NEW S, 0 \in S, \A m \in 0 .. n : m \in S /\ m < n => m + 1 \in S
  PROVE  0 .. n \subseteq S
<1> SUFFICES ASSUME NEW k \in 0 .. n, k \notin S PROVE FALSE
  OBVIOUS
<1> DEFINE T == {m \in 0 .. k : m \in S}
<1>1. k \in Nat /\ T \in SUBSET (0 .. k) /\ 0 \in T
  OBVIOUS
<1>2. \A m \in T : m + 1 \in T
  OBVIOUS
<1> HIDE DEF T
<1> QED BY <1>1, <1>2, NoEndlessClimb

=============================================================================
