---------------------------- MODULE TotalsProofs ----------------------------
(* Facts about sums of columns, for every finite set of rows, and counting:  *)
(* sums by units (Total), and row after row (Sum).                           *)
EXTENDS Totals, FunctionTheorems, FiniteSetTheorems, WellFoundedInduction, TLAPS

\* Of the numbers in a set one is the least.
LEMMA LeastNumber ==
    ASSUME NEW T \in SUBSET Nat, T # {}
    PROVE  \E m \in T : \A n \in T : m <= n
<1> DEFINE R == {ss \in Nat \X Nat : ss[1] < ss[2]}
<1>1. IsWellFoundedOn(R, Nat)
  BY NatLessThanWellFounded DEF OpToRel
<1>2. PICK m \in T : \A n \in T : ~(<<n, m>> \in R)
  BY <1>1, WFMin
<1>3. ASSUME NEW n \in T PROVE m <= n
  <2>1. m \in Nat /\ n \in Nat
    OBVIOUS
  <2>2. CASE n < m
    <3>1. <<n, m>> \in Nat \X Nat /\ <<n, m>>[1] < <<n, m>>[2]
      BY <2>1, <2>2
    <3>2. <<n, m>> \in R
      BY <3>1
    <3> QED
      BY <3>2, <1>2
  <2> QED
    BY <2>1, <2>2
<1> QED
  BY <1>3

\* A set that holds 0 and with a number the next one holds all of them.
LEMMA Counting ==
    ASSUME NEW T, 0 \in T, \A n \in Nat : n \in T => n + 1 \in T
    PROVE  Nat \subseteq T
<1> SUFFICES ASSUME Nat \ T # {} PROVE FALSE
  OBVIOUS
<1>1. PICK m \in Nat \ T : \A n \in Nat \ T : m <= n
  BY LeastNumber
<1>2. m # 0 /\ m - 1 \in Nat /\ m - 1 \in T
  BY <1>1
<1>3. (m - 1) + 1 \in T
  BY <1>2
<1> QED
  BY <1>1, <1>3

\* What holds of the empty set, and of a set as soon as it holds of the set
\* without any one member, holds of a finite set.
LEMMA SetCounting ==
    ASSUME NEW S, IsFiniteSet(S), NEW T,
           {} \in T,
           \A R \in SUBSET S : R # {} /\ (\A x \in R : R \ {x} \in T) => R \in T
    PROVE  S \in T
<1> DEFINE U == {n \in Nat : \A R \in SUBSET S : Cardinality(R) = n => R \in T}
<1>1. 0 \in U
  <2>1. ASSUME NEW R \in SUBSET S, Cardinality(R) = 0 PROVE R \in T
    <3>1. IsFiniteSet(R)
      BY FS_Subset
    <3>2. R = {}
      BY <3>1, <2>1, FS_EmptySet
    <3> QED
      BY <3>2
  <2> QED
    BY <2>1
<1>2. ASSUME NEW n \in Nat, n \in U PROVE n + 1 \in U
  <2>1. ASSUME NEW R \in SUBSET S, Cardinality(R) = n + 1 PROVE R \in T
    <3>1. IsFiniteSet(R)
      BY FS_Subset
    <3>2. R # {}
      BY <3>1, <2>1, FS_EmptySet
    <3>3. ASSUME NEW x \in R PROVE R \ {x} \in T
      <4>1. Cardinality(R \ {x}) = Cardinality(R) - 1
        BY <3>1, FS_RemoveElement
      <4>2. Cardinality(R \ {x}) = n
        BY <4>1, <2>1
      <4>3. R \ {x} \in SUBSET S
        OBVIOUS
      <4> QED
        BY <4>2, <4>3, <1>2
    <3> QED
      BY <3>2, <3>3
  <2> QED
    BY <2>1
<1> HIDE DEF U
<1>3. Nat \subseteq U
  BY <1>1, <1>2, Counting
<1>4. Cardinality(S) \in Nat
  BY FS_CardinalityType
<1> QED
  BY <1>3, <1>4 DEF U

\* A sum is a natural number.
LEMMA TotalNat ==
    ASSUME NEW S, IsFiniteSet(S), NEW max \in Nat, NEW f \in [S -> 0 .. max]
    PROVE  IsFiniteSet(UnitsOf(f, max)) /\ Total(f, max) \in Nat
<1>1. IsFiniteSet(1 .. max)  BY FS_Interval
<1>2. IsFiniteSet(S \X (1 .. max))  BY <1>1, FS_Product
<1>3. UnitsOf(f, max) \in SUBSET (S \X (1 .. max))  BY DEF UnitsOf
<1>4. IsFiniteSet(UnitsOf(f, max))  BY <1>2, <1>3, FS_Subset
<1> QED  BY <1>4, FS_CardinalityType DEF Total

\* Adding the columns row by row adds their sums.
LEMMA TotalAdds ==
    ASSUME NEW S, IsFiniteSet(S), NEW max \in Nat,
           NEW f \in [S -> 0 .. max], NEW g \in [S -> 0 .. max], NEW h \in [S -> 0 .. max],
           \A s \in S : h[s] = f[s] + g[s]
    PROVE  Total(h, max) = Total(f, max) + Total(g, max)
<1> DEFINE Above == UnitsOf(h, max) \ UnitsOf(f, max)
           Lift == [u \in UnitsOf(g, max) |-> <<u[1], f[u[1]] + u[2]>>]
<1>1. IsFiniteSet(UnitsOf(f, max)) /\ IsFiniteSet(UnitsOf(g, max)) /\ IsFiniteSet(UnitsOf(h, max))
  BY TotalNat
<1>2. UnitsOf(f, max) \subseteq UnitsOf(h, max)  BY DEF UnitsOf
<1>3. Lift \in Bijection(UnitsOf(g, max), Above)
  <2>1. ASSUME NEW u \in UnitsOf(g, max) PROVE Lift[u] \in Above
    <3>1. u = <<u[1], u[2]>> /\ u[1] \in S /\ u[2] \in 1 .. max /\ u[2] <= g[u[1]]
      BY <2>1 DEF UnitsOf
    <3> QED  BY <3>1 DEF UnitsOf
  <2>2. Lift \in [UnitsOf(g, max) -> Above]  BY <2>1
  <2>3. ASSUME NEW u \in UnitsOf(g, max), NEW v \in UnitsOf(g, max), Lift[u] = Lift[v] PROVE u = v
    <3>1. u = <<u[1], u[2]>> /\ u[1] \in S /\ u[2] \in 1 .. max  BY DEF UnitsOf
    <3>2. v = <<v[1], v[2]>> /\ v[1] \in S /\ v[2] \in 1 .. max  BY DEF UnitsOf
    <3>3. u[1] = v[1] /\ f[u[1]] + u[2] = f[v[1]] + v[2]  BY <2>3
    <3>4. f[u[1]] \in Nat /\ u[2] \in Nat /\ v[2] \in Nat /\ f[u[1]] + u[2] = f[u[1]] + v[2]
      BY <3>1, <3>2, <3>3
    <3>5. u[2] = v[2]  BY <3>4
    <3> QED  BY <3>1, <3>2, <3>3, <3>5
  <2>4. ASSUME NEW w \in Above PROVE \E u \in UnitsOf(g, max) : Lift[u] = w
    <3>1. w = <<w[1], w[2]>> /\ w[1] \in S /\ w[2] \in 1 .. max
          /\ w[2] <= h[w[1]] /\ ~(w[2] <= f[w[1]])  BY DEF UnitsOf
    <3>2. <<w[1], w[2] - f[w[1]]>> \in UnitsOf(g, max)  BY <3>1 DEF UnitsOf
    <3>3. Lift[<<w[1], w[2] - f[w[1]]>>] = <<w[1], f[w[1]] + (w[2] - f[w[1]])>>  BY <3>2
    <3>4. f[w[1]] + (w[2] - f[w[1]]) = w[2]  BY <3>1
    <3> QED  BY <3>1, <3>2, <3>3, <3>4
  <2> HIDE DEF Lift, Above
  <2> QED  BY <2>2, <2>3, <2>4, Fun_IsBij
<1> HIDE DEF Lift
<1>4. IsFiniteSet(Above) /\ Cardinality(Above) = Cardinality(UnitsOf(g, max))
  BY <1>1, <1>3, FS_Bijection DEF ExistsBijection
<1>5. UnitsOf(h, max) = UnitsOf(f, max) \cup Above /\ UnitsOf(f, max) \cap Above = {}  BY <1>2
<1>6. Cardinality(UnitsOf(f, max) \cap Above) = 0  BY <1>5, FS_EmptySet
<1> HIDE DEF Above
<1>7. /\ Cardinality(UnitsOf(f, max)) \in Nat /\ Cardinality(Above) \in Nat
      /\ Cardinality(UnitsOf(f, max) \cup Above)
           = Cardinality(UnitsOf(f, max)) + Cardinality(Above) - Cardinality(UnitsOf(f, max) \cap Above)
  BY <1>1, <1>4, FS_Union, FS_CardinalityType
<1> QED  BY <1>4, <1>5, <1>6, <1>7 DEF Total

\* A column with a single row that is not zero sums to that row.
LEMMA TotalSingle ==
    ASSUME NEW S, IsFiniteSet(S), NEW max \in Nat, NEW s \in S, NEW n \in 0 .. max
    PROVE  Total([t \in S |-> IF t = s THEN n ELSE 0], max) = n
<1> DEFINE f == [t \in S |-> IF t = s THEN n ELSE 0]
           Row == [i \in 1 .. n |-> <<s, i>>]
<1>1. UnitsOf(f, max) = {s} \X (1 .. n)  BY DEF UnitsOf
<1>2. Row \in Bijection(1 .. n, UnitsOf(f, max))
  <2>1. Row \in [1 .. n -> UnitsOf(f, max)]  BY <1>1
  <2>2. \A i, j \in 1 .. n : Row[i] = Row[j] => i = j  OBVIOUS
  <2>3. \A u \in UnitsOf(f, max) : \E i \in 1 .. n : Row[i] = u  BY <1>1
  <2> HIDE DEF Row
  <2> QED  BY <2>1, <2>2, <2>3, Fun_IsBij
<1>3. IsFiniteSet(1 .. n) /\ Cardinality(1 .. n) = n  BY FS_Interval
<1> HIDE DEF Row
<1> QED  BY <1>2, <1>3, FS_Bijection DEF Total, ExistsBijection

\* A column of zeros sums to zero.
LEMMA TotalZero ==
    ASSUME NEW S, NEW max \in Nat
    PROVE  Total([s \in S |-> 0], max) = 0
<1>1. UnitsOf([s \in S |-> 0], max) = {}
  BY DEF UnitsOf
<1> QED
  BY <1>1, FS_EmptySet DEF Total

\* A column that is nowhere above another has no greater sum.
LEMMA TotalMonotone ==
    ASSUME NEW S, IsFiniteSet(S), NEW max \in Nat,
           NEW f \in [S -> 0 .. max], NEW g \in [S -> 0 .. max], \A s \in S : f[s] <= g[s]
    PROVE  Total(f, max) <= Total(g, max)
<1>1. UnitsOf(f, max) \subseteq UnitsOf(g, max)
  BY DEF UnitsOf
<1> QED
  BY <1>1, TotalNat, FS_Subset DEF Total

\* The columns f and g of the rows S agree, but for n more in row s of f.
RowMore(S, f, g, s, n) == \A t \in S : f[t] = g[t] + (IF t = s THEN n ELSE 0)

\* A column that says n more in one row sums to n more.
LEMMA TotalRowMore ==
    ASSUME NEW S, IsFiniteSet(S), NEW max \in Nat, NEW s \in S, NEW n \in 0 .. max,
           NEW f \in [S -> 0 .. max], NEW g \in [S -> 0 .. max],
           RowMore(S, f, g, s, n)
    PROVE  Total(f, max) = Total(g, max) + n
<1> DEFINE more == [t \in S |-> IF t = s THEN n ELSE 0]
<1>1. more \in [S -> 0 .. max] /\ Total(more, max) = n
  BY TotalSingle
<1>2. \A t \in S : f[t] = g[t] + more[t]
  BY DEF RowMore
<1> HIDE DEF more
<1>3. Total(f, max) = Total(g, max) + Total(more, max)
  BY <1>1, <1>2, TotalAdds
<1> QED
  BY <1>1, <1>3

\* Writing one row changes the sum by what changes in that row.
LEMMA TotalRowChanges ==
    ASSUME NEW S, IsFiniteSet(S), NEW max \in Nat, NEW s \in S,
           NEW f \in [S -> 0 .. max], NEW g \in [S -> 0 .. max],
           \A t \in S : t # s => f[t] = g[t]
    PROVE  /\ Total(f, max) \in Nat /\ Total(g, max) \in Nat
           /\ Total(g, max) = Total(f, max) - f[s] + g[s]
<1>1. f[s] \in 0 .. max /\ g[s] \in 0 .. max
  OBVIOUS
<1>2. Total(f, max) \in Nat /\ Total(g, max) \in Nat
  BY TotalNat
<1>3. CASE f[s] <= g[s]
  <2>1. g[s] - f[s] \in 0 .. max
    BY <1>1, <1>3
  <2>2. RowMore(S, g, f, s, g[s] - f[s])
    BY <1>1 DEF RowMore
  <2>3. Total(g, max) = Total(f, max) + (g[s] - f[s])
    BY <2>1, <2>2, TotalRowMore
  <2> QED
    BY <1>1, <1>2, <2>3
<1>4. CASE g[s] < f[s]
  <2>1. f[s] - g[s] \in 0 .. max
    BY <1>1, <1>4
  <2>2. RowMore(S, f, g, s, f[s] - g[s])
    BY <1>1 DEF RowMore
  <2>3. Total(f, max) = Total(g, max) + (f[s] - g[s])
    BY <2>1, <2>2, TotalRowMore
  <2> QED
    BY <1>1, <1>2, <2>3
<1> QED
  BY <1>1, <1>3, <1>4

-----------------------------------------------------------------------------
(* Sums row after row *)

\* sum is a running sum of f over the subsets of rows.
Runs(sum, f, rows) ==
    \A R \in SUBSET rows : sum[R] = IF R = {} THEN 0 ELSE f[Pick(R)] + sum[R \ {Pick(R)}]

LEMMA PickIn == ASSUME NEW S, S # {} PROVE Pick(S) \in S
  BY DEF Pick

LEMMA RunsAgree ==
    ASSUME NEW S, IsFiniteSet(S), NEW P, NEW Q, S \subseteq P, S \subseteq Q,
           NEW f, NEW g, \A s \in S : f[s] = g[s],
           NEW one, NEW two, Runs(one, f, P), Runs(two, g, Q)
    PROVE  one[S] = two[S]
<1> DEFINE T == {R \in SUBSET S : one[R] = two[R]}
<1>1. {} \in T
  BY DEF Runs
<1>2. ASSUME NEW R \in SUBSET S, R # {}, \A x \in R : R \ {x} \in T PROVE R \in T
  <2>1. Pick(R) \in R
    BY <1>2, PickIn
  <2>2. one[R] = f[Pick(R)] + one[R \ {Pick(R)}]
    BY <1>2 DEF Runs
  <2>3. two[R] = g[Pick(R)] + two[R \ {Pick(R)}]
    BY <1>2 DEF Runs
  <2>4. R \ {Pick(R)} \in T /\ f[Pick(R)] = g[Pick(R)]
    BY <1>2, <2>1
  <2> QED
    BY <2>2, <2>3, <2>4
<1> HIDE DEF T
<1>3. S \in T
  BY <1>1, <1>2, SetCounting
<1> QED
  BY <1>3 DEF T

\* A running sum, from one that runs for smaller sets.
Longer(sum, f, rows) ==
    [R \in SUBSET rows |-> IF R = {} THEN 0 ELSE f[Pick(R)] + sum[R \ {Pick(R)}]]

\* Running sums exist.
LEMMA RunsExist ==
    ASSUME NEW S, IsFiniteSet(S), NEW f
    PROVE  \E sum : sum = Longer(sum, f, S)
<1> USE DEF Longer
<1> DEFINE Next(sum) == Longer(sum, f, S)
           T == {n \in Nat : \E sum : \A R \in SUBSET S :
                    Cardinality(R) <= n => sum[R] = Next(sum)[R]}
<1>1. 0 \in T
  <2> DEFINE zero == [R \in SUBSET S |-> 0]
  <2>1. ASSUME NEW R \in SUBSET S, Cardinality(R) <= 0 PROVE zero[R] = Next(zero)[R]
    <3>1. IsFiniteSet(R)
      BY FS_Subset
    <3>2. Cardinality(R) \in Nat
      BY <3>1, FS_CardinalityType
    <3>3. R = {}
      BY <3>1, <3>2, <2>1, FS_EmptySet
    <3> QED
      BY <3>3
  <2> QED
    BY <2>1
<1>2. ASSUME NEW n \in Nat, n \in T PROVE n + 1 \in T
  <2>1. PICK sum : \A R \in SUBSET S : Cardinality(R) <= n => sum[R] = Next(sum)[R]
    BY <1>2
  <2>2. ASSUME NEW R \in SUBSET S, Cardinality(R) <= n + 1
        PROVE  Next(sum)[R] = Next(Next(sum))[R]
    <3>1. CASE R = {}
      BY <3>1
    <3>2. CASE R # {}
      <4>1. Pick(R) \in R /\ R \ {Pick(R)} \in SUBSET S
        BY <3>2, PickIn
      <4>2. Cardinality(R \ {Pick(R)}) <= n
        <5>1. IsFiniteSet(R)
          BY FS_Subset
        <5>2. Cardinality(R \ {Pick(R)}) = Cardinality(R) - 1 /\ Cardinality(R) \in Nat
          BY <4>1, <5>1, FS_RemoveElement, FS_CardinalityType
        <5> QED
          BY <5>2, <2>2
      <4>3. sum[R \ {Pick(R)}] = Next(sum)[R \ {Pick(R)}]
        BY <4>1, <4>2, <2>1
      <4>4. /\ Next(sum)[R] = f[Pick(R)] + sum[R \ {Pick(R)}]
            /\ Next(Next(sum))[R] = f[Pick(R)] + Next(sum)[R \ {Pick(R)}]
        BY <3>2
      <4> HIDE DEF Next
      <4> QED
        BY <4>3, <4>4
    <3> QED
      BY <3>1, <3>2
  <2>3. \E next : \A R \in SUBSET S : Cardinality(R) <= n + 1 => next[R] = Next(next)[R]
    <3> DEFINE next == Next(sum)
    <3>1. \A R \in SUBSET S : Cardinality(R) <= n + 1 => next[R] = Next(next)[R]
      BY <2>2
    <3> HIDE DEF next, Next
    <3> QED
      BY <3>1
  <2> HIDE DEF Next
  <2> QED
    BY <2>3
<1> HIDE DEF T
<1>3. Nat \subseteq T
  BY <1>1, <1>2, Counting
<1>4. Cardinality(S) \in T
  BY <1>3, FS_CardinalityType
<1>5. PICK sum : \A R \in SUBSET S : Cardinality(R) <= Cardinality(S) => sum[R] = Next(sum)[R]
  BY <1>4 DEF T
<1>6. ASSUME NEW R \in SUBSET S PROVE sum[R] = Next(sum)[R]
  BY <1>5, FS_Subset
<1> DEFINE all == [R \in SUBSET S |-> sum[R]]
<1>7. ASSUME NEW R \in SUBSET S PROVE all[R] = Next(all)[R]
  <2>1. CASE R = {}
    BY <2>1, <1>6
  <2>2. CASE R # {}
    BY <2>2, <1>6
  <2> QED
    BY <2>1, <2>2
<1>8. all = Next(all)
  BY <1>7
<1> QED
  BY <1>8

LEMMA SumRuns ==
    ASSUME NEW S, IsFiniteSet(S), NEW f
    PROVE  \E sum : Runs(sum, f, S) /\ SumOver(f, S) = sum[S]
<1> DEFINE run == CHOOSE sum : sum = Longer(sum, f, S)
<1>1. \E sum : sum = Longer(sum, f, S)
  BY RunsExist
<1>2. run = Longer(run, f, S)
  BY <1>1
<1>3. SumOver(f, S) = run[S]
  BY DEF SumOver, Longer
<1> HIDE DEF run
<1>4. Runs(run, f, S)
  BY <1>2 DEF Runs, Longer
<1> QED
  BY <1>3, <1>4

\* A sum of rows takes one of them and goes on with the rest.
LEMMA SumSteps ==
    ASSUME NEW S, IsFiniteSet(S), NEW f
    PROVE  /\ SumOver(f, {}) = 0
           /\ S # {} => SumOver(f, S) = f[Pick(S)] + SumOver(f, S \ {Pick(S)})
<1>1. PICK sum : Runs(sum, f, S) /\ SumOver(f, S) = sum[S]
  BY SumRuns
<1>2. SumOver(f, {}) = 0
  <2>1. IsFiniteSet({})
    BY FS_EmptySet
  <2>2. PICK none : Runs(none, f, {}) /\ SumOver(f, {}) = none[{}]
    BY <2>1, SumRuns
  <2> QED
    BY <2>2 DEF Runs
<1>3. ASSUME S # {} PROVE SumOver(f, S) = f[Pick(S)] + SumOver(f, S \ {Pick(S)})
  <2> DEFINE R == S \ {Pick(S)}
  <2>1. IsFiniteSet(R)
    BY FS_Subset
  <2> HIDE DEF R
  <2>2. PICK rest : Runs(rest, f, R) /\ SumOver(f, R) = rest[R]
    BY <2>1, SumRuns
  <2>3. R \subseteq R /\ R \subseteq S /\ \A s \in R : f[s] = f[s]
    BY DEF R
  <2>4. rest[R] = sum[R]
    BY <1>1, <2>1, <2>2, <2>3, RunsAgree
  <2>5. sum[S] = f[Pick(S)] + sum[R]
    BY <1>1, <1>3 DEF Runs, R
  <2> QED
    BY <1>1, <2>2, <2>4, <2>5 DEF R
<1> QED
  BY <1>2, <1>3

\* Rows that say the same sum to the same.
LEMMA SumAgrees ==
    ASSUME NEW S, IsFiniteSet(S), NEW f, NEW g, \A s \in S : f[s] = g[s]
    PROVE  SumOver(f, S) = SumOver(g, S)
<1>1. PICK one : Runs(one, f, S) /\ SumOver(f, S) = one[S]
  BY SumRuns
<1>2. PICK two : Runs(two, g, S) /\ SumOver(g, S) = two[S]
  BY SumRuns
<1>3. S \subseteq S
  OBVIOUS
<1> QED
  BY <1>1, <1>2, <1>3, RunsAgree

LEMMA SumNone == ASSUME NEW f PROVE SumOver(f, {}) = 0
<1>1. IsFiniteSet({})
  BY FS_EmptySet
<1> QED
  BY <1>1, SumSteps

\* A sum of integers is one.
LEMMA SumInt ==
    ASSUME NEW S, IsFiniteSet(S), NEW f, \A s \in S : f[s] \in Int
    PROVE  SumOver(f, S) \in Int
<1> DEFINE T == {R \in SUBSET S : SumOver(f, R) \in Int}
<1>1. {} \in T
  BY SumNone
<1>2. ASSUME NEW R \in SUBSET S, R # {}, \A x \in R : R \ {x} \in T PROVE R \in T
  <2>1. IsFiniteSet(R) /\ Pick(R) \in R
    BY <1>2, FS_Subset, PickIn
  <2>2. SumOver(f, R) = f[Pick(R)] + SumOver(f, R \ {Pick(R)})
    BY <1>2, <2>1, SumSteps
  <2>3. SumOver(f, R \ {Pick(R)}) \in Int /\ f[Pick(R)] \in Int
    BY <1>2, <2>1
  <2> QED
    BY <2>2, <2>3
<1> HIDE DEF T
<1>3. S \in T
  BY <1>1, <1>2, SetCounting
<1> QED
  BY <1>3 DEF T

\* Any row may be taken first.
LEMMA SumTakes ==
    ASSUME NEW S, IsFiniteSet(S), NEW f, \A s \in S : f[s] \in Int, NEW x \in S
    PROVE  SumOver(f, S) = f[x] + SumOver(f, S \ {x})
<1> DEFINE T == {R \in SUBSET S : \A y \in R : SumOver(f, R) = f[y] + SumOver(f, R \ {y})}
<1>1. {} \in T
  OBVIOUS
<1>2. ASSUME NEW R \in SUBSET S, R # {}, \A y \in R : R \ {y} \in T PROVE R \in T
  <2> DEFINE c == Pick(R)
  <2>1. IsFiniteSet(R) /\ c \in R
    BY <1>2, FS_Subset, PickIn
  <2>2. SumOver(f, R) = f[c] + SumOver(f, R \ {c})
    BY <1>2, <2>1, SumSteps
  <2> HIDE DEF c
  <2>3. ASSUME NEW y \in R, y # c PROVE SumOver(f, R) = f[y] + SumOver(f, R \ {y})
    <3>1. R \ {c} \in T /\ R \ {y} \in T /\ y \in R \ {c} /\ c \in R \ {y}
      BY <1>2, <2>1, <2>3
    <3>2. SumOver(f, R \ {c}) = f[y] + SumOver(f, (R \ {c}) \ {y})
      BY <3>1
    <3>3. SumOver(f, R \ {y}) = f[c] + SumOver(f, (R \ {y}) \ {c})
      BY <3>1
    <3> DEFINE Rest == (R \ {c}) \ {y}
    <3>4. (R \ {y}) \ {c} = Rest /\ IsFiniteSet(Rest) /\ Rest \subseteq S
      BY <2>1, FS_Subset
    <3> HIDE DEF Rest
    <3>5. SumOver(f, Rest) \in Int
      BY <3>4, SumInt
    <3>6. SumOver(f, R \ {c}) = f[y] + SumOver(f, Rest)
      BY <3>2 DEF Rest
    <3>7. SumOver(f, R \ {y}) = f[c] + SumOver(f, Rest)
      BY <3>3, <3>4
    <3>8. f[c] \in Int /\ f[y] \in Int
      BY <2>1
    <3> QED
      BY <2>2, <3>5, <3>6, <3>7, <3>8
  <2>4. \A y \in R : SumOver(f, R) = f[y] + SumOver(f, R \ {y})
    BY <2>2, <2>3
  <2> QED
    BY <2>4
<1> HIDE DEF T
<1>3. S \in T
  BY <1>1, <1>2, SetCounting
<1> QED
  BY <1>3 DEF T

\* Adding columns row by row adds their sums.
LEMMA SumAdds ==
    ASSUME NEW S, IsFiniteSet(S), NEW f, NEW g, NEW h,
           \A s \in S : f[s] \in Int /\ g[s] \in Int /\ h[s] = f[s] + g[s]
    PROVE  SumOver(h, S) = SumOver(f, S) + SumOver(g, S)
<1> DEFINE T == {R \in SUBSET S : SumOver(h, R) = SumOver(f, R) + SumOver(g, R)}
<1>1. {} \in T
  BY SumNone
<1>2. ASSUME NEW R \in SUBSET S, R # {}, \A y \in R : R \ {y} \in T PROVE R \in T
  <2> DEFINE c == Pick(R)
             Q == R \ {c}
  <2>1. IsFiniteSet(R) /\ c \in R /\ IsFiniteSet(Q)
    BY <1>2, FS_Subset, PickIn
  <2>2. /\ SumOver(f, R) = f[c] + SumOver(f, Q)
        /\ SumOver(g, R) = g[c] + SumOver(g, Q)
        /\ SumOver(h, R) = h[c] + SumOver(h, Q)
    BY <1>2, <2>1, SumSteps
  <2>3. SumOver(h, Q) = SumOver(f, Q) + SumOver(g, Q)
    BY <1>2, <2>1
  <2>4. Q \subseteq S
    OBVIOUS
  <2> HIDE DEF c, Q
  <2>5. SumOver(f, Q) \in Int /\ SumOver(g, Q) \in Int
    BY <2>1, <2>4, SumInt
  <2>6. f[c] \in Int /\ g[c] \in Int /\ h[c] = f[c] + g[c]
    BY <2>1
  <2> QED
    BY <2>2, <2>3, <2>5, <2>6
<1> HIDE DEF T
<1>3. S \in T
  BY <1>1, <1>2, SetCounting
<1> QED
  BY <1>3 DEF T

\* Multiplying every row multiplies the sum.
LEMMA SumScales ==
    ASSUME NEW S, IsFiniteSet(S), NEW n \in Int, NEW f, NEW g,
           \A s \in S : f[s] \in Int /\ g[s] = n * f[s]
    PROVE  SumOver(g, S) = n * SumOver(f, S)
<1> DEFINE T == {R \in SUBSET S : SumOver(g, R) = n * SumOver(f, R)}
<1>1. {} \in T
  BY SumNone
<1>2. ASSUME NEW R \in SUBSET S, R # {}, \A y \in R : R \ {y} \in T PROVE R \in T
  <2> DEFINE c == Pick(R)
             Q == R \ {c}
  <2>1. IsFiniteSet(R) /\ c \in R /\ IsFiniteSet(Q)
    BY <1>2, FS_Subset, PickIn
  <2>2. /\ SumOver(f, R) = f[c] + SumOver(f, Q)
        /\ SumOver(g, R) = g[c] + SumOver(g, Q)
    BY <1>2, <2>1, SumSteps
  <2>3. SumOver(g, Q) = n * SumOver(f, Q)
    BY <1>2, <2>1
  <2>4. Q \subseteq S
    OBVIOUS
  <2> HIDE DEF c, Q
  <2>5. SumOver(f, Q) \in Int
    BY <2>1, <2>4, SumInt
  <2>6. f[c] \in Int /\ g[c] = n * f[c]
    BY <2>1
  <2>7. ASSUME NEW i \in Int, NEW j \in Int PROVE n * (i + j) = n * i + n * j
    OBVIOUS
  <2>8. n * (f[c] + SumOver(f, Q)) = n * f[c] + n * SumOver(f, Q)
    BY <2>5, <2>6, <2>7
  <2> QED
    BY <2>2, <2>3, <2>6, <2>8
<1> HIDE DEF T
<1>3. S \in T
  BY <1>1, <1>2, SetCounting
<1> QED
  BY <1>3 DEF T

LEMMA SumZero ==
    ASSUME NEW S, IsFiniteSet(S), NEW f, \A s \in S : f[s] = 0
    PROVE  SumOver(f, S) = 0
<1>1. \A s \in S : f[s] \in Int /\ f[s] = f[s] + f[s]
  OBVIOUS
<1>2. SumOver(f, S) = SumOver(f, S) + SumOver(f, S)
  BY <1>1, SumAdds
<1>3. SumOver(f, S) \in Int
  BY <1>1, SumInt
<1>4. \A n \in Int : n = n + n => n = 0
  OBVIOUS
<1> QED
  BY <1>2, <1>3, <1>4

\* The sum of two tables is that of both.
LEMMA SumJoins ==
    ASSUME NEW S, IsFiniteSet(S), NEW f, \A s \in S : f[s] \in Int,
           NEW P \in SUBSET S
    PROVE  SumOver(f, S) = SumOver(f, P) + SumOver(f, S \ P)
<1> DEFINE T == {R \in SUBSET S : SumOver(f, R) = SumOver(f, R \cap P) + SumOver(f, R \ P)}
<1>1. {} \in T
  <2>1. {} \cap P = {} /\ {} \ P = {}
    OBVIOUS
  <2> QED
    BY <2>1, SumNone
<1>2. ASSUME NEW R \in SUBSET S, R # {}, \A y \in R : R \ {y} \in T PROVE R \in T
  <2> DEFINE c == Pick(R)
             Q == R \ {c}
  <2>1. IsFiniteSet(R) /\ c \in R /\ IsFiniteSet(Q) /\ IsFiniteSet(R \cap P) /\ IsFiniteSet(R \ P)
        /\ IsFiniteSet(Q \cap P) /\ IsFiniteSet(Q \ P)
    BY <1>2, FS_Subset, PickIn
  <2>2. SumOver(f, R) = f[c] + SumOver(f, Q)
    BY <1>2, <2>1, SumSteps
  <2>3. SumOver(f, Q) = SumOver(f, Q \cap P) + SumOver(f, Q \ P)
    BY <1>2, <2>1
  <2>4. \A B \in SUBSET S : \A y \in B : IsFiniteSet(B) => SumOver(f, B) = f[y] + SumOver(f, B \ {y})
    BY SumTakes
  <2>5. f[c] \in Int /\ SumOver(f, Q \cap P) \in Int /\ SumOver(f, Q \ P) \in Int
    <3>1. Q \cap P \subseteq S /\ Q \ P \subseteq S
      OBVIOUS
    <3> HIDE DEF Q, c
    <3>2. \A B \in SUBSET S : IsFiniteSet(B) => SumOver(f, B) \in Int
      BY SumInt
    <3> QED
      BY <2>1, <3>1, <3>2
  <2>6. CASE c \in P
    <3>1. c \in R \cap P /\ (R \cap P) \ {c} = Q \cap P /\ R \ P = Q \ P
      BY <2>1, <2>6
    <3>2. SumOver(f, R \cap P) = f[c] + SumOver(f, Q \cap P)
      BY <2>1, <2>4, <3>1
    <3>3. SumOver(f, R \ P) = SumOver(f, Q \ P)
      BY <3>1
    <3>4. SumOver(f, R) = SumOver(f, R \cap P) + SumOver(f, R \ P)
      <4> HIDE DEF c, Q
      <4> QED
        BY <2>2, <2>3, <2>5, <3>2, <3>3
    <3> QED
      BY <3>4
  <2>7. CASE c \notin P
    <3>1. c \in R \ P /\ (R \ P) \ {c} = Q \ P /\ R \cap P = Q \cap P
      BY <2>1, <2>7
    <3>2. SumOver(f, R \ P) = f[c] + SumOver(f, Q \ P)
      BY <2>1, <2>4, <3>1
    <3>3. SumOver(f, R \cap P) = SumOver(f, Q \cap P)
      BY <3>1
    <3>4. SumOver(f, R) = SumOver(f, R \cap P) + SumOver(f, R \ P)
      <4> HIDE DEF c, Q
      <4> QED
        BY <2>2, <2>3, <2>5, <3>2, <3>3
    <3> QED
      BY <3>4
  <2> QED
    BY <2>6, <2>7
<1> HIDE DEF T
<1>3. S \in T
  BY <1>1, <1>2, SetCounting
<1>4. S \cap P = P
  OBVIOUS
<1> QED
  BY <1>3, <1>4 DEF T

\* Rows of nothing do not count.
LEMMA SumSkips ==
    ASSUME NEW S, IsFiniteSet(S), NEW f, \A s \in S : f[s] \in Int,
           NEW P \in SUBSET S, \A s \in S \ P : f[s] = 0
    PROVE  SumOver(f, S) = SumOver(f, P)
<1>1. SumOver(f, S) = SumOver(f, P) + SumOver(f, S \ P)
  BY SumJoins
<1>2. IsFiniteSet(S \ P) /\ IsFiniteSet(P)
  BY FS_Subset
<1>3. SumOver(f, S \ P) = 0
  BY <1>2, SumZero
<1>4. SumOver(f, P) \in Int
  BY <1>2, SumInt
<1> QED
  BY <1>1, <1>3, <1>4

LEMMA TwoAreFinite == ASSUME NEW x, NEW y PROVE IsFiniteSet({x}) /\ IsFiniteSet({x, y})
<1>1. IsFiniteSet({x}) /\ IsFiniteSet({y})
  BY FS_Singleton
<1>2. IsFiniteSet({x} \cup {y})
  BY <1>1, FS_Union
<1>3. {x} \cup {y} = {x, y}
  OBVIOUS
<1> QED
  BY <1>1, <1>2, <1>3

\* Over two rows, and over two sets of rows apart.
LEMMA SumOfTwo ==
    ASSUME NEW x, NEW y, x # y, NEW f, f[x] \in Int, f[y] \in Int
    PROVE  SumOver(f, {x, y}) = f[x] + f[y]
<1>1. IsFiniteSet({y}) /\ IsFiniteSet({x, y})
  BY TwoAreFinite
<1>2. {x, y} \ {x} = {y} /\ {y} \ {y} = {}
  OBVIOUS
<1>3. SumOver(f, {y}) = f[y] + SumOver(f, {})
  <2>1. SumOver(f, {y}) = f[y] + SumOver(f, {y} \ {y})
    BY <1>1, SumTakes
  <2> QED
    BY <2>1, <1>2
<1>4. SumOver(f, {x, y}) = f[x] + SumOver(f, {y})
  <2>1. SumOver(f, {x, y}) = f[x] + SumOver(f, {x, y} \ {x})
    BY <1>1, SumTakes
  <2> QED
    BY <2>1, <1>2
<1> QED
  BY <1>3, <1>4, SumNone

LEMMA SumApart ==
    ASSUME NEW S, IsFiniteSet(S), NEW f, \A s \in S : f[s] \in Int,
           NEW P, NEW Q, P \cap Q = {}, P \cup Q = S
    PROVE  SumOver(f, S) = SumOver(f, P) + SumOver(f, Q)
<1>1. P \in SUBSET S /\ S \ P = Q
  OBVIOUS
<1>2. SumOver(f, S) = SumOver(f, P) + SumOver(f, S \ P)
  BY <1>1, SumJoins
<1> QED
  BY <1>1, <1>2

\* A matrix of rows S and columns A, and the same turned.
Matrix(m, turned, S, A) == \A s \in S : \A a \in A : m[s][a] \in Int /\ turned[a][s] = m[s][a]
AddsRows(sums, m, S, A) == \A s \in S : sums[s] = SumOver(m[s], A)

\* A matrix adds up to the same by rows and by columns.
LEMMA SumSwaps ==
    ASSUME NEW S, IsFiniteSet(S), NEW A, IsFiniteSet(A), NEW m, NEW turned, Matrix(m, turned, S, A),
           NEW row, AddsRows(row, m, S, A), NEW column, AddsRows(column, turned, A, S)
    PROVE  SumOver(row, S) = SumOver(column, A)
<1> USE DEF Matrix, AddsRows
<1> DEFINE Col(R) == [a \in A |-> SumOver([s \in S |-> m[s][a]], R)]
           T == {R \in SUBSET S : SumOver(row, R) = SumOver(Col(R), A)}
<1>1. {} \in T
  <2>1. ASSUME NEW a \in A PROVE Col({})[a] = 0
    BY SumNone
  <2>2. SumOver(Col({}), A) = 0
    <3> HIDE DEF Col
    <3> QED
      BY <2>1, SumZero
  <2> QED
    BY <2>2, SumNone
<1>2. ASSUME NEW R \in SUBSET S, R # {}, \A y \in R : R \ {y} \in T PROVE R \in T
  <2> DEFINE c == Pick(R)
             Q == R \ {c}
  <2>1. IsFiniteSet(R) /\ c \in R /\ IsFiniteSet(Q)
    BY <1>2, FS_Subset, PickIn
  <2>2. SumOver(row, R) = row[c] + SumOver(row, Q)
    BY <1>2, <2>1, SumSteps
  <2>3. SumOver(row, Q) = SumOver(Col(Q), A)
    BY <1>2, <2>1
  <2>4. c \in S /\ Q \subseteq S
    BY <2>1
  <2>5. ASSUME NEW a \in A
        PROVE  m[c][a] \in Int /\ Col(Q)[a] \in Int /\ Col(R)[a] = m[c][a] + Col(Q)[a]
    <3> DEFINE v == [s \in S |-> m[s][a]]
    <3>1. \A s \in S : v[s] \in Int
      OBVIOUS
    <3>2. v[c] = m[c][a]
      BY <2>4
    <3>3. Col(Q)[a] = SumOver(v, Q) /\ Col(R)[a] = SumOver(v, R)
      OBVIOUS
    <3>4. m[c][a] \in Int
      BY <2>4
    <3> HIDE DEF v, Col
    <3>5. SumOver(v, R) = v[c] + SumOver(v, Q)
      BY <1>2, <2>1, SumSteps
    <3>6. SumOver(v, Q) \in Int
      <4> HIDE DEF Q
      <4>1. \A s \in Q : v[s] \in Int
        BY <2>4, <3>1
      <4> QED
        BY <2>1, <4>1, SumInt
    <3> QED
      BY <3>2, <3>3, <3>4, <3>5, <3>6
  <2> HIDE DEF Col, Q, c
  <2>6. SumOver(Col(R), A) = SumOver(m[c], A) + SumOver(Col(Q), A)
    BY <2>5, SumAdds
  <2>7. row[c] = SumOver(m[c], A)
    BY <2>4
  <2> QED
    BY <2>2, <2>3, <2>6, <2>7
<1> HIDE DEF T, Col
<1>3. S \in T
  BY <1>1, <1>2, SetCounting
<1>4. SumOver(row, S) = SumOver(Col(S), A)
  BY <1>3 DEF T
<1>5. ASSUME NEW a \in A PROVE Col(S)[a] = column[a]
  <2> DEFINE v == [s \in S |-> m[s][a]]
             w == turned[a]
  <2>1. Col(S)[a] = SumOver(v, S) /\ column[a] = SumOver(w, S)
    BY DEF Col
  <2>2. \A s \in S : v[s] = w[s]
    OBVIOUS
  <2> HIDE DEF v, w
  <2> QED
    BY <2>1, <2>2, SumAgrees
<1>6. SumOver(Col(S), A) = SumOver(column, A)
  BY <1>5, SumAgrees
<1> QED
  BY <1>4, <1>6
=============================================================================
