------------------------------ MODULE Induction ------------------------------
(***************************************************************************)
(* Induction on the naturals, in a form that quantifies over sets alone,   *)
(* and what it says of loops: a loop is a recursive function from the      *)
(* number of turns taken to what its variables then hold.                  *)
(***************************************************************************)
EXTENDS Integers, WellFoundedInduction, TLAPS

\* A set of naturals has a least one.
LEMMA LeastNatural ==
  ASSUME NEW T, T \subseteq Nat, T # {}
  PROVE  \E m \in T : \A k \in T : m <= k
<1>1. IsWellFoundedOn(OpToRel(<, Nat), Nat)
  BY NatLessThanWellFounded
<1>2. PICK m \in T : \A k \in T : ~(<<k, m>> \in OpToRel(<, Nat))
  BY <1>1, WFMin
<1>3. \A k \in T : ~(k < m)
  BY <1>2 DEF OpToRel
<1> QED BY <1>3

\* What holds at 0, and at k when it does at k - 1, holds up to n.
LEMMA InductionUpTo ==
  ASSUME NEW n \in Nat, NEW P, 0 \in P, \A k \in 1..n : k - 1 \in P => k \in P
  PROVE  \A k \in 0..n : k \in P
<1> DEFINE T == (0..n) \ P
<1>1. T = {}
  <2> SUFFICES ASSUME T # {} PROVE FALSE
    OBVIOUS
  <2> T \subseteq Nat
    OBVIOUS
  <2>1. PICK m \in T : \A k \in T : m <= k
    BY LeastNatural
  <2>2. m \in 0..n /\ m \notin P
    OBVIOUS
  <2>3. m # 0
    BY <2>2
  <2>4. m \in 1..n /\ m - 1 \in 0..n /\ ~(m <= m - 1)
    BY <2>2, <2>3
  <2>5. m - 1 \in P
    BY <2>1, <2>4
  <2> QED BY <2>2, <2>4, <2>5
<1> QED BY <1>1

\* f holds the values a loop with the body g goes through, from a on.
Runs(f, n, a, g) == f[0] = a /\ \A k \in 1..n : f[k] = g[<<f[k - 1], k>>]

\* A loop has values: the function a recursive definition is to choose exists.
LEMMA Iterates ==
  ASSUME NEW n \in Nat, NEW S, NEW a \in S, NEW g \in [S \X (1..n) -> S]
  PROVE  \E f \in [0..n -> S] : Runs(f, n, a, g)
<1> DEFINE IsRun(m, f) == \A k \in 0..m : f[k] = IF k = 0 THEN a ELSE g[<<f[k - 1], k>>]
           P == { m \in 0..n : \E f \in [0..m -> S] : IsRun(m, f) }
<1>1. 0 \in P
  <2>1. PICK f : f = [k \in 0..0 |-> a]
    OBVIOUS
  <2>2. f \in [0..0 -> S]
    BY <2>1
  <2>3. IsRun(0, f)
    BY <2>1
  <2> QED BY <2>2, <2>3
<1>2. ASSUME NEW m \in 1..n, m - 1 \in P PROVE m \in P
  <2>1. PICK f \in [0..(m - 1) -> S] : IsRun(m - 1, f)
    BY <1>2
  <2>2. PICK h : h = [k \in 0..m |-> IF k = m THEN g[<<f[m - 1], m>>] ELSE f[k]]
    OBVIOUS
  <2>3. f[m - 1] \in S /\ g[<<f[m - 1], m>>] \in S
    <3>1. m - 1 \in 0..(m - 1)
      OBVIOUS
    <3> QED BY <3>1
  <2>4. h \in [0..m -> S]
    <3>1. \A k \in 0..m : k # m => k \in 0..(m - 1)
      OBVIOUS
    <3> QED BY <2>2, <2>3, <3>1
  <2>5. ASSUME NEW k \in 0..m
        PROVE  h[k] = IF k = 0 THEN a ELSE g[<<h[k - 1], k>>]
    <3>1. CASE k = m
      <4>1. h[k] = g[<<f[m - 1], m>>] /\ m - 1 \in 0..m /\ m - 1 # m /\ k # 0
        BY <2>2, <3>1
      <4>2. h[m - 1] = f[m - 1]
        BY <2>2, <4>1
      <4> QED BY <3>1, <4>1, <4>2
    <3>2. CASE k # m
      <4>1. k \in 0..(m - 1) /\ h[k] = f[k]
        BY <2>2, <3>2
      <4>2. k # 0 => k - 1 \in 0..m /\ k - 1 # m
        BY <4>1
      <4>3. k # 0 => h[k - 1] = f[k - 1]
        BY <2>2, <4>2
      <4> QED BY <2>1, <4>1, <4>3
    <3> QED BY <3>1, <3>2
  <2>6. IsRun(m, h)
    BY <2>5
  <2> QED BY <2>4, <2>6
<1>3. n \in P
  <2> HIDE DEF P
  <2>1. \A k \in 0..n : k \in P
    BY <1>1, <1>2, InductionUpTo
  <2> QED BY <2>1
<1>4. PICK f \in [0..n -> S] : IsRun(n, f)
  BY <1>3
<1>5. f[0] = a
  <2>1. 0 \in 0..n
    OBVIOUS
  <2> QED BY <1>4, <2>1
<1>6. ASSUME NEW k \in 1..n PROVE f[k] = g[<<f[k - 1], k>>]
  BY <1>4
<1> QED BY <1>5, <1>6 DEF Runs

\* What holds of a loop's values: the first is in S, and each is if the one
\* before is.
LEMMA StaysIn ==
  ASSUME NEW n \in Nat, NEW S, NEW h, h = [k \in 0..n |-> h[k]],
         h[0] \in S, \A k \in 1..n : h[k - 1] \in S => h[k] \in S
  PROVE  h \in [0..n -> S]
<1> DEFINE P == { k \in 0..n : h[k] \in S }
<1>1. 0 \in P
  OBVIOUS
<1>2. \A k \in 1..n : k - 1 \in P => k \in P
  OBVIOUS
<1>3. \A k \in 0..n : k \in P
  <2> HIDE DEF P
  <2> QED BY <1>1, <1>2, InductionUpTo
<1>4. \A k \in 0..n : h[k] \in S
  BY <1>3
<1> QED BY <1>4
=============================================================================
