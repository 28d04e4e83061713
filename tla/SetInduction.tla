---------------------------- MODULE SetInduction ----------------------------
(***************************************************************************)
(* Induction over the natural numbers, stated of sets: a proof by          *)
(* induction names the set of the numbers for which its claim holds.  The  *)
(* proofs about recursive functions (bisection, the merging of regions,    *)
(* sums over sets) rest on it.  The sums of FiniteSetsExt and arithmetic   *)
(* modulo a parameter follow, which the counters of a zone need.           *)
(***************************************************************************)
EXTENDS Integers, FiniteSets, FiniteSetsExt, FiniteSetTheorems, WellFoundedInduction, TLAPS

LEMMA LeastNatural ==
  ASSUME NEW T \in SUBSET Nat, T # {}
  PROVE  \E m \in T : \A n \in T : m <= n
<1> DEFINE R == OpToRel(<, Nat)
<1>1. IsWellFoundedOn(R, Nat) BY NatLessThanWellFounded
<1>2. \A x, y \in Nat : <<x, y>> \in R <=> x < y BY DEF OpToRel
<1> HIDE DEF R
<1>3. PICK m \in T : \A n \in T : ~ (<<n, m>> \in R) BY <1>1, WFMin
<1>4. \A n \in T : m \in Nat /\ n \in Nat /\ ~ (n < m) BY <1>2, <1>3
<1>5. \A n \in T : m <= n BY <1>4
<1>6. QED BY <1>5

LEMMA NatSetInduction ==
  ASSUME NEW S \in SUBSET Nat, 0 \in S, \A n \in S : n + 1 \in S
  PROVE  S = Nat
<1> DEFINE T == Nat \ S
<1>1. ASSUME T # {} PROVE FALSE
  <2>1. PICK m \in T : \A n \in T : m <= n BY <1>1, LeastNatural
  <2>2. m # 0 /\ m \in Nat BY <2>1
  <2>3. m - 1 \in Nat /\ m - 1 \notin T BY <2>1, <2>2
  <2>4. (m - 1) + 1 \in S BY <2>3
  <2>5. QED BY <2>1, <2>2, <2>4
<1>2. QED BY <1>1

-----------------------------------------------------------------------------
(* Sums: MapThenSumSet takes the elements out one by one, in the order     *)
(* that CHOOSE gives; the sum does not depend on it.                       *)

Chosen(s) == CHOOSE x \in s : TRUE

SumStep(f, g, s) == IF s = {} THEN 0 ELSE f[Chosen(s)] + g[s \ {Chosen(s)}]

SumIter(f, S) ==
  CHOOSE g : g = [s \in SUBSET S |-> IF s = {} THEN 0 ELSE f[Chosen(s)] + g[s \ {Chosen(s)}]]

Total(f, S) == SumIter(f, S)[S]

LEMMA SumIsTotal ==
  ASSUME NEW f, NEW S
  PROVE  MapThenSumSet(LAMBDA b : f[b], S) = Total(f, S)
BY DEF MapThenSumSet, MapThenFoldSet, Total, SumIter, Chosen

LEMMA ChosenIn ==
  ASSUME NEW s, IsFiniteSet(s), s # {}
  PROVE  /\ Chosen(s) \in s /\ IsFiniteSet(s \ {Chosen(s)})
         /\ Cardinality(s) \in Nat /\ Cardinality(s) >= 1
         /\ Cardinality(s \ {Chosen(s)}) = Cardinality(s) - 1
<1>1. Chosen(s) \in s BY DEF Chosen
<1>2. IsFiniteSet(s \ {Chosen(s)}) /\ Cardinality(s \ {Chosen(s)}) = Cardinality(s) - 1
  BY <1>1, FS_RemoveElement
<1>3. Cardinality(s) \in Nat /\ Cardinality(s \ {Chosen(s)}) \in Nat
  BY <1>2, FS_CardinalityType
<1>4. QED BY <1>1, <1>2, <1>3

LEMMA SumIterExists ==
  ASSUME NEW f, NEW S, IsFiniteSet(S)
  PROVE  \A s \in SUBSET S : SumIter(f, S)[s] = SumStep(f, SumIter(f, S), s)
<1> DEFINE Upto(g, k) == \A s \in SUBSET S : Cardinality(s) <= k => g[s] = SumStep(f, g, s)
           K == {k \in Nat : \E g : Upto(g, k)}
<1>1. \A s \in SUBSET S : IsFiniteSet(s) BY FS_Subset
<1>2. \A s \in SUBSET S : s # {} =>
        /\ s \ {Chosen(s)} \in SUBSET S
        /\ Cardinality(s) \in Nat /\ Cardinality(s) >= 1
        /\ Cardinality(s \ {Chosen(s)}) = Cardinality(s) - 1
  BY <1>1, ChosenIn
<1>3. 0 \in K
  <2>1. ASSUME NEW s \in SUBSET S, Cardinality(s) <= 0, s # {} PROVE FALSE
    <3>1. Cardinality(s) \in Nat /\ Cardinality(s) >= 1 BY <1>2, <2>1
    <3>2. QED BY <2>1, <3>1
  <2>2. Upto([s \in SUBSET S |-> 0], 0) BY <2>1 DEF SumStep
  <2>3. QED BY <2>2
<1>4. ASSUME NEW k \in K PROVE k + 1 \in K
  <2>1. PICK g : Upto(g, k) OBVIOUS
  <2> DEFINE h == [s \in SUBSET S |-> SumStep(f, g, s)]
  <2>2. \A s \in SUBSET S : h[s] = SumStep(f, g, s) OBVIOUS
  <2> HIDE DEF h
  <2>3. \A s \in SUBSET S : Cardinality(s) <= k => h[s] = g[s] BY <2>1, <2>2
  <2>4. ASSUME NEW s \in SUBSET S, Cardinality(s) <= k + 1
        PROVE  h[s] = SumStep(f, h, s)
    <3>1. CASE s = {} BY <2>2, <3>1 DEF SumStep
    <3>2. CASE s # {}
      <4> DEFINE t == s \ {Chosen(s)}
      <4>1. t \in SUBSET S /\ Cardinality(t) <= k BY <1>2, <2>4, <3>2
      <4>2. h[t] = g[t] BY <2>3, <4>1
      <4>3. QED BY <2>2, <4>2 DEF SumStep
    <3>3. QED BY <3>1, <3>2
  <2>5. Upto(h, k + 1) BY <2>4
  <2>6. QED BY <2>5
<1>5. K = Nat
  <2>1. K \in SUBSET Nat OBVIOUS
  <2> HIDE DEF K
  <2>2. QED BY <1>3, <1>4, <2>1, NatSetInduction
<1>6. Cardinality(S) \in Nat BY FS_CardinalityType
<1>7. PICK g : Upto(g, Cardinality(S)) BY <1>5, <1>6
<1>8. \A s \in SUBSET S : g[s] = SumStep(f, g, s)
  <2>1. \A s \in SUBSET S : Cardinality(s) <= Cardinality(S) BY FS_Subset
  <2>2. QED BY <1>7, <2>1
<1> DEFINE h == [s \in SUBSET S |-> g[s]]
<1>9. \A s \in SUBSET S : h[s] = g[s] OBVIOUS
<1> HIDE DEF h
<1>10. \A s \in SUBSET S : SumStep(f, h, s) = SumStep(f, g, s)
  <2>1. \A s \in SUBSET S : s \ {Chosen(s)} \in SUBSET S OBVIOUS
  <2>2. QED BY <1>9, <2>1 DEF SumStep
<1>11. h = [s \in SUBSET S |-> SumStep(f, h, s)]
  <2>1. \A s \in SUBSET S : g[s] = SumStep(f, h, s) BY <1>8, <1>10
  <2>2. QED BY <2>1 DEF h
<1>12. \E x : x = [s \in SUBSET S |-> SumStep(f, x, s)] BY <1>11
<1>13. SumIter(f, S) = [s \in SUBSET S |-> SumStep(f, SumIter(f, S), s)]
  BY <1>12 DEF SumIter, SumStep
<1>14. QED BY <1>13

(* The sum over a part of S is the same when it is a part of T.            *)
LEMMA SumIterSame ==
  ASSUME NEW f, NEW S, NEW T, IsFiniteSet(S), T \subseteq S
  PROVE  \A s \in SUBSET T : SumIter(f, S)[s] = SumIter(f, T)[s]
<1> DEFINE g == SumIter(f, S)
           h == SumIter(f, T)
           K == {k \in Nat : \A s \in SUBSET T : Cardinality(s) <= k => g[s] = h[s]}
<1>1. IsFiniteSet(T) /\ \A s \in SUBSET T : IsFiniteSet(s) /\ s \in SUBSET S BY FS_Subset
<1>2. \A s \in SUBSET T : g[s] = SumStep(f, g, s) /\ h[s] = SumStep(f, h, s)
  BY <1>1, SumIterExists
<1> HIDE DEF g, h
<1>3. \A s \in SUBSET T : s # {} =>
        /\ s \ {Chosen(s)} \in SUBSET T
        /\ Cardinality(s) \in Nat /\ Cardinality(s) >= 1
        /\ Cardinality(s \ {Chosen(s)}) = Cardinality(s) - 1
  BY <1>1, ChosenIn
<1>4. g[{}] = h[{}] BY <1>2 DEF SumStep
<1>5. 0 \in K
  <2>1. ASSUME NEW s \in SUBSET T, Cardinality(s) <= 0, s # {} PROVE FALSE
    <3>1. Cardinality(s) \in Nat /\ Cardinality(s) >= 1 BY <1>3, <2>1
    <3>2. QED BY <2>1, <3>1
  <2>2. QED BY <1>4, <2>1
<1>6. ASSUME NEW k \in K PROVE k + 1 \in K
  <2>1. ASSUME NEW s \in SUBSET T, Cardinality(s) <= k + 1, s # {} PROVE g[s] = h[s]
    <3> DEFINE t == s \ {Chosen(s)}
    <3>1. t \in SUBSET T /\ Cardinality(t) <= k BY <1>3, <2>1
    <3>2. g[t] = h[t] BY <3>1
    <3>3. QED BY <1>2, <2>1, <3>2 DEF SumStep
  <2>2. QED BY <1>4, <2>1
<1>7. K = Nat
  <2>1. K \in SUBSET Nat OBVIOUS
  <2> HIDE DEF K
  <2>2. QED BY <1>5, <1>6, <2>1, NatSetInduction
<1>8. ASSUME NEW s \in SUBSET T PROVE g[s] = h[s]
  <2>1. Cardinality(s) \in Nat BY <1>1, FS_CardinalityType
  <2>2. QED BY <1>7, <2>1
<1>9. QED BY <1>8 DEF g, h

LEMMA TotalStep ==
  ASSUME NEW f, NEW S, IsFiniteSet(S), S # {}
  PROVE  Total(f, S) = f[Chosen(S)] + Total(f, S \ {Chosen(S)})
<1> DEFINE T == S \ {Chosen(S)}
<1>1. SumIter(f, S)[S] = SumStep(f, SumIter(f, S), S) BY SumIterExists
<1>2. T \in SUBSET T /\ T \subseteq S OBVIOUS
<1>3. SumIter(f, S)[T] = SumIter(f, T)[T] BY <1>2, SumIterSame
<1>4. QED BY <1>1, <1>3 DEF Total, SumStep

LEMMA TotalEmpty == \A f : Total(f, {}) = 0
<1>1. IsFiniteSet({}) BY FS_EmptySet
<1>2. \A f : SumIter(f, {})[{}] = SumStep(f, SumIter(f, {}), {}) BY <1>1, SumIterExists
<1>3. QED BY <1>2 DEF Total, SumStep

(* A sum of numbers is any of them and the sum of the others.              *)
LEMMA TotalRemove ==
  ASSUME NEW U, IsFiniteSet(U), NEW f, \A x \in U : f[x] \in Nat
  PROVE  \A S \in SUBSET U :
           /\ Total(f, S) \in Nat
           /\ \A y \in S : Total(f, S) = f[y] + Total(f, S \ {y})
<1> DEFINE Claim(S) == /\ Total(f, S) \in Nat
                       /\ \A y \in S : Total(f, S) = f[y] + Total(f, S \ {y})
           K == {k \in Nat : \A S \in SUBSET U : Cardinality(S) <= k => Claim(S)}
<1>1. \A S \in SUBSET U : IsFiniteSet(S) BY FS_Subset
<1>2. Claim({}) BY TotalEmpty
<1>3. \A S \in SUBSET U : S # {} => Cardinality(S) \in Nat /\ Cardinality(S) >= 1
  BY <1>1, ChosenIn
<1>4. 0 \in K
  <2>1. \A S \in SUBSET U : Cardinality(S) <= 0 => S = {} BY <1>3
  <2> HIDE DEF Claim
  <2>2. QED BY <1>2, <2>1
<1>5. ASSUME NEW k \in K PROVE k + 1 \in K
  <2>1. ASSUME NEW S \in SUBSET U, Cardinality(S) <= k + 1, S # {} PROVE Claim(S)
    <3> DEFINE x == Chosen(S)
    <3>1. x \in S /\ Total(f, S) = f[x] + Total(f, S \ {x})
      BY <1>1, <2>1, ChosenIn, TotalStep
    <3> HIDE DEF x
    <3>2. \A y \in S : S \ {y} \in SUBSET U /\ Cardinality(S \ {y}) <= k
      <4>1. \A y \in S : Cardinality(S \ {y}) = Cardinality(S) - 1
        BY <1>1, FS_RemoveElement
      <4>2. QED BY <1>3, <2>1, <4>1
    <3>3. \A y \in S : Claim(S \ {y})
      <4> HIDE DEF Claim
      <4>1. QED BY <3>2
    <3>4. Total(f, S) \in Nat BY <3>1, <3>3
    <3>5. ASSUME NEW y \in S, y # x PROVE Total(f, S) = f[y] + Total(f, S \ {y})
      <4>1. Total(f, S \ {x}) = f[y] + Total(f, (S \ {x}) \ {y}) BY <3>1, <3>3, <3>5
      <4>2. Total(f, S \ {y}) = f[x] + Total(f, (S \ {y}) \ {x}) BY <3>1, <3>3, <3>5
      <4>3. (S \ {x}) \ {y} = (S \ {y}) \ {x} OBVIOUS
      <4>4. Total(f, (S \ {y}) \ {x}) \in Nat
        <5>1. (S \ {y}) \ {x} \in SUBSET U /\ Cardinality((S \ {y}) \ {x}) <= k
          <6>1. IsFiniteSet(S \ {y}) BY <1>1
          <6>2. (S \ {y}) \ {x} \subseteq S \ {y} OBVIOUS
          <6>3. Cardinality((S \ {y}) \ {x}) <= Cardinality(S \ {y})
                /\ Cardinality(S \ {y}) \in Nat
                /\ Cardinality((S \ {y}) \ {x}) \in Nat
            BY <6>1, <6>2, FS_Subset, FS_CardinalityType
          <6>4. QED BY <3>2, <6>3
        <5>2. QED BY <5>1
      <4>5. f[x] \in Nat /\ f[y] \in Nat BY <3>1
      <4>6. QED BY <3>1, <4>1, <4>2, <4>3, <4>4, <4>5
    <3>6. QED BY <3>1, <3>4, <3>5
  <2> HIDE DEF Claim
  <2>2. QED BY <1>2, <2>1
<1>6. K = Nat
  <2>1. K \in SUBSET Nat OBVIOUS
  <2> HIDE DEF K
  <2>2. QED BY <1>4, <1>5, <2>1, NatSetInduction
<1>7. ASSUME NEW S \in SUBSET U PROVE Claim(S)
  <2>1. Cardinality(S) \in Nat BY <1>1, FS_CardinalityType
  <2> HIDE DEF Claim
  <2>2. QED BY <1>6, <2>1
<1>8. QED BY <1>7

(* Equal summands, equal sums; and what bounds each bounds the sum.        *)
LEMMA TotalSame ==
  ASSUME NEW U, IsFiniteSet(U), NEW f, NEW g, \A x \in U : f[x] \in Nat /\ g[x] = f[x]
  PROVE  Total(g, U) = Total(f, U)
<1> DEFINE K == {k \in Nat : \A S \in SUBSET U : Cardinality(S) <= k => Total(g, S) = Total(f, S)}
<1>1. \A S \in SUBSET U : IsFiniteSet(S) BY FS_Subset
<1>2. \A S \in SUBSET U : S # {} => Cardinality(S) \in Nat /\ Cardinality(S) >= 1
  BY <1>1, ChosenIn
<1>3. 0 \in K
  <2>1. ASSUME NEW S \in SUBSET U, Cardinality(S) <= 0, S # {} PROVE FALSE
    <3>1. Cardinality(S) \in Nat /\ Cardinality(S) >= 1 BY <1>2, <2>1
    <3>2. QED BY <2>1, <3>1
  <2>2. QED BY <2>1, TotalEmpty
<1>4. ASSUME NEW k \in K PROVE k + 1 \in K
  <2>1. ASSUME NEW S \in SUBSET U, Cardinality(S) <= k + 1, S # {}
        PROVE  Total(g, S) = Total(f, S)
    <3> DEFINE x == Chosen(S)
    <3>1. /\ x \in S /\ Cardinality(S \ {x}) = Cardinality(S) - 1
          /\ Total(f, S) = f[x] + Total(f, S \ {x})
          /\ Total(g, S) = g[x] + Total(g, S \ {x})
      BY <1>1, <2>1, ChosenIn, TotalStep
    <3> HIDE DEF x
    <3>2. S \ {x} \in SUBSET U /\ Cardinality(S \ {x}) <= k BY <1>2, <2>1, <3>1
    <3>3. Total(g, S \ {x}) = Total(f, S \ {x}) BY <3>2
    <3>4. g[x] = f[x] BY <3>1
    <3>5. QED BY <3>1, <3>3, <3>4
  <2>2. QED BY <2>1, TotalEmpty
<1>5. K = Nat
  <2>1. K \in SUBSET Nat OBVIOUS
  <2> HIDE DEF K
  <2>2. QED BY <1>3, <1>4, <2>1, NatSetInduction
<1>6. Cardinality(U) \in Nat BY FS_CardinalityType
<1>7. QED BY <1>5, <1>6

-----------------------------------------------------------------------------
(* Arithmetic modulo M.                                                    *)

LEMMA Multiple ==
  ASSUME NEW M \in Nat \ {0}, NEW j \in Int, NEW k \in Int, j < k
  PROVE  M * j + M <= M * k
<1>1. M * (k - j) = M * k - M * j OBVIOUS
<1>2. k - j >= 1 /\ k - j \in Nat OBVIOUS
<1>3. \A n \in Nat : n >= 1 => M * n >= M OBVIOUS
<1>4. M * (k - j) >= M BY <1>2, <1>3
<1>5. M * k \in Int /\ M * j \in Int OBVIOUS
<1>6. QED BY <1>1, <1>4, <1>5

LEMMA Remainder ==
  ASSUME NEW M \in Nat \ {0}, NEW a \in Int
  PROVE  a % M \in 0..M - 1 /\ a = M * (a \div M) + (a % M) /\ a \div M \in Int
OBVIOUS

LEMMA RemainderIs ==
  ASSUME NEW M \in Nat \ {0}, NEW q \in Int, NEW r \in 0..M - 1
  PROVE  (M * q + r) % M = r
<1> DEFINE a == M * q + r
           p == a \div M
           s == a % M
<1>1. a \in Int OBVIOUS
<1> HIDE DEF a
<1>2. s \in 0..M - 1 /\ a = M * p + s /\ p \in Int BY <1>1, Remainder
<1> HIDE DEF p, s
<1>3. M * p + s = M * q + r BY <1>2 DEF a
<1>4. M * p \in Int /\ M * q \in Int BY <1>2
<1>5. CASE p < q
  <2>1. M * p + M <= M * q BY <1>2, <1>5, Multiple
  <2>2. QED BY <1>2, <1>3, <1>4, <2>1
<1>6. CASE q < p
  <2>1. M * q + M <= M * p BY <1>2, <1>6, Multiple
  <2>2. QED BY <1>2, <1>3, <1>4, <2>1
<1>7. CASE p = q BY <1>2, <1>3, <1>4, <1>7 DEF a, s
<1>8. QED BY <1>2, <1>5, <1>6, <1>7

LEMMA RemainderAdd ==
  ASSUME NEW M \in Nat \ {0}, NEW a \in Int, NEW b \in Int
  PROVE  ((a % M) + b) % M = (a + b) % M
<1> DEFINE p == a \div M
           r == a % M
           q == (r + b) \div M
           s == (r + b) % M
<1>1. r \in 0..M - 1 /\ a = M * p + r /\ p \in Int BY Remainder
<1> HIDE DEF p, r
<1>2. s \in 0..M - 1 /\ r + b = M * q + s /\ q \in Int BY <1>1, Remainder
<1> HIDE DEF q, s
<1>3. M * (p + q) = M * p + M * q BY <1>1, <1>2
<1>4. M * p \in Int /\ M * q \in Int /\ r \in Int BY <1>1, <1>2
<1>5. a + b = M * (p + q) + s BY <1>1, <1>2, <1>3, <1>4
<1>6. p + q \in Int BY <1>1, <1>2
<1>7. (M * (p + q) + s) % M = s BY <1>2, <1>6, RemainderIs
<1>8. QED BY <1>5, <1>7 DEF s, r

LEMMA RemainderSubtract ==
  ASSUME NEW M \in Nat \ {0}, NEW a \in Int, NEW b \in Int
  PROVE  (a - (b % M)) % M = (a - b) % M
<1> DEFINE p == b \div M
           r == b % M
           q == (a - b) \div M
           s == (a - b) % M
<1>1. r \in 0..M - 1 /\ b = M * p + r /\ p \in Int BY Remainder
<1>2. s \in 0..M - 1 /\ a - b = M * q + s /\ q \in Int
  <2>1. a - b \in Int OBVIOUS
  <2>2. QED BY <2>1, Remainder
<1> HIDE DEF p, r, q, s
<1>3. M * (p + q) = M * p + M * q BY <1>1, <1>2
<1>4. M * p \in Int /\ M * q \in Int /\ r \in Int BY <1>1, <1>2
<1>5. a - r = M * (p + q) + s BY <1>1, <1>2, <1>3, <1>4
<1>6. p + q \in Int BY <1>1, <1>2
<1>7. (M * (p + q) + s) % M = s BY <1>2, <1>6, RemainderIs
<1>8. QED BY <1>5, <1>7 DEF s, r
=============================================================================
