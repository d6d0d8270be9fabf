--------------------------- MODULE LeastNaturals ---------------------------
(***************************************************************************)
(* Induction as a choice of the least counterexample, and the functions    *)
(* that a recursion over the naturals defines.                             *)
(***************************************************************************)
EXTENDS Integers, FiniteSetTheorems, TLAPS

\* A nonempty set of naturals has a least element.
LEMMA LeastNatural ==
  ASSUME NEW S \in SUBSET Nat, S # {}
  PROVE  \E m \in S : \A k \in S : m <= k
<1> DEFINE R == StrictSubsetOrdering(Nat)
           T == {0..n : n \in S}
<1>1. IsWellFoundedOn(R, FiniteSubsetsOf(Nat))
  BY FS_StrictSubsetOrderingWellFounded
<1>2. T \subseteq FiniteSubsetsOf(Nat) /\ T # {}
  <2>1. ASSUME NEW n \in S
        PROVE  0..n \in SUBSET Nat /\ IsFiniteSet(0..n)
    <3>1. n \in Int /\ 0 \in Int
      OBVIOUS
    <3> QED
      BY <3>1, FS_Interval
  <2> QED
    BY <2>1 DEF FiniteSubsetsOf
<1> HIDE DEF R
<1>3. PICK x \in T : \A y \in T : ~(<<y, x>> \in R)
  BY <1>1, <1>2, WFMin
<1>4. PICK m \in S : x = 0..m
  BY <1>3
<1>5. ASSUME NEW k \in S, k < m
      PROVE  FALSE
  <2>1. 0..k \in T /\ 0..k \subseteq 0..m /\ m \in 0..m /\ m \notin 0..k
    BY <1>5
  <2>2. <<0..k, 0..m>> \in R
    BY <2>1 DEF R, StrictSubsetOrdering
  <2> QED
    BY <1>3, <1>4, <2>1, <2>2
<1> QED
  BY <1>5

\* f follows the recursion from a, by b * f[k - 1] + c[k], up to n.
Recurs(f, n, a, b, c) ==
  /\ f \in [0..n -> Int]
  /\ f[0] = a /\ \A k \in 1..n : f[k] = b * f[k - 1] + c[k]

LEMMA RecursionUpTo ==
  ASSUME NEW a \in Int, NEW b \in Int, NEW c \in [Nat -> Int], NEW n \in Nat
  PROVE  \E f : Recurs(f, n, a, b, c)
<1> DEFINE Bad == {m \in Nat : ~\E f : Recurs(f, m, a, b, c)}
<1>1. Bad = {}
  <2> SUFFICES ASSUME Bad # {} PROVE FALSE
    OBVIOUS
  <2>1. PICK m \in Bad : \A k \in Bad : m <= k
    BY LeastNatural
  <2>2. m # 0
    <3>1. Recurs([k \in 0..0 |-> a], 0, a, b, c)
      BY DEF Recurs
    <3> QED
      BY <2>1, <3>1
  <2>3. m - 1 \in Nat /\ m - 1 \notin Bad
    BY <2>1, <2>2
  <2>4. PICK f : Recurs(f, m - 1, a, b, c)
    BY <2>3
  <2> DEFINE g == [k \in 0..m |-> IF k = m THEN b * f[m - 1] + c[m] ELSE f[k]]
  <2>5. g \in [0..m -> Int] /\ \A k \in 0..(m - 1) : g[k] = f[k]
    BY <2>2, <2>3, <2>4 DEF Recurs
  <2>6. g[m] = b * f[m - 1] + c[m]
    BY <2>1
  <2> HIDE DEF g
  <2>7. ASSUME NEW k \in 1..m
        PROVE  g[k] = b * g[k - 1] + c[k]
    <3>1. CASE k = m
      <4>1. g[m - 1] = f[m - 1]
        BY <2>1, <2>3, <2>5
      <4> QED
        BY <2>6, <3>1, <4>1
    <3>2. CASE k # m
      <4>1. k \in 1..(m - 1) /\ k \in 0..(m - 1) /\ k - 1 \in 0..(m - 1)
        BY <2>1, <2>3, <3>2
      <4> QED
        BY <2>4, <2>5, <4>1 DEF Recurs
    <3> QED
      BY <3>1, <3>2
  <2>8. g[0] = a
    BY <2>3, <2>4, <2>5 DEF Recurs
  <2>9. Recurs(g, m, a, b, c)
    BY <2>5, <2>7, <2>8 DEF Recurs
  <2> QED
    BY <2>1, <2>9
<1> QED
  BY <1>1

\* Two that follow it agree as far as both go.
LEMMA RecursionAgrees ==
  ASSUME NEW a, NEW b, NEW c, NEW n \in Nat, NEW m \in Nat, n <= m,
         NEW f, Recurs(f, n, a, b, c), NEW g, Recurs(g, m, a, b, c)
  PROVE  \A k \in 0..n : f[k] = g[k]
<1> DEFINE Bad == {k \in 0..n : f[k] # g[k]}
<1> SUFFICES ASSUME Bad # {} PROVE FALSE
  OBVIOUS
<1>1. PICK k \in Bad : \A j \in Bad : k <= j
  <2>1. Bad \in SUBSET Nat
    OBVIOUS
  <2> HIDE DEF Bad
  <2> QED
    BY <2>1, LeastNatural
<1>2. k # 0
  BY <1>1 DEF Recurs
<1>3. k \in 1..n /\ k \in 1..m /\ k - 1 \in 0..n /\ k - 1 \notin Bad
  BY <1>1, <1>2
<1> QED
  BY <1>1, <1>3 DEF Recurs

\* The recursion defines a function on the naturals.
LEMMA Recursion ==
  ASSUME NEW a \in Int, NEW b \in Int, NEW c \in [Nat -> Int]
  PROVE  \E f \in [Nat -> Int] :
           f = [k \in Nat |-> IF k = 0 THEN a ELSE b * f[k - 1] + c[k]]
<1> DEFINE F(n) == CHOOSE f : Recurs(f, n, a, b, c)
           g == [n \in Nat |-> F(n)[n]]
<1>1. \A n \in Nat : Recurs(F(n), n, a, b, c)
  BY RecursionUpTo
<1> HIDE DEF F
<1>2. g \in [Nat -> Int]
  BY <1>1 DEF Recurs
<1>3. g[0] = a
  BY <1>1 DEF Recurs
<1>4. ASSUME NEW k \in Nat, k # 0
      PROVE  g[k] = b * g[k - 1] + c[k]
  <2>1. k - 1 \in Nat /\ k \in 1..k /\ k - 1 \in 0..(k - 1) /\ k - 1 <= k
    BY <1>4
  <2>2. F(k)[k] = b * F(k)[k - 1] + c[k]
    BY <1>1, <2>1 DEF Recurs
  <2>3. F(k - 1)[k - 1] = F(k)[k - 1]
    BY <1>1, <2>1, RecursionAgrees
  <2> QED
    BY <2>1, <2>2, <2>3
<1>5. g = [k \in Nat |-> IF k = 0 THEN a ELSE b * g[k - 1] + c[k]]
  BY <1>2, <1>3, <1>4
<1> QED
  BY <1>2, <1>5
=============================================================================
