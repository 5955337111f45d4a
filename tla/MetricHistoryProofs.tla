------------------------ MODULE MetricHistoryProofs ------------------------
(* Proofs about MetricHistory: its types, and that a chart shows exactly   *)
(* what was sampled.  The first part is about the sums of the charts, the  *)
(* second about the rounding of times, the last about the steps.           *)
EXTENDS MetricHistory, FiniteSetTheorems, SequenceTheorems,
        WellFoundedInduction, TLAPS

-----------------------------------------------------------------------------
(* Sums over a finite set.                                                 *)

\* A property of numbers that fails somewhere fails at a first number.
LEMMA FirstFailure ==
  ASSUME NEW n \in Nat, NEW good, ~(\A i \in 0..n : good[i])
  PROVE  \E i \in 0..n : ~good[i] /\ \A j \in 0..(i - 1) : good[j]
<1> DEFINE R == OpToRel(<, Nat)
           T == {i \in 0..n : ~good[i]}
<1>1. IsWellFoundedOn(R, Nat) BY NatLessThanWellFounded, Zenon
<1>2. \A x, y \in Nat : x < y => <<x, y>> \in R BY DEF OpToRel
<1>3. T # {} /\ T \subseteq Nat /\ T \subseteq 0..n OBVIOUS
<1> HIDE DEF R, T
<1>4. PICK m \in T : m \in T BY <1>3
<1>5. PICK i \in T : \A y \in T : ~(<<y, i>> \in R)
  BY <1>1, <1>3, <1>4, WFMin
<1>6. ASSUME NEW j \in 0..(i - 1) PROVE good[j]
  <2>1. j \in Nat /\ i \in Nat /\ j < i /\ j \in 0..n BY <1>3
  <2>2. j \notin T BY <1>2, <1>5, <2>1
  <2> QED BY <2>1, <2>2 DEF T
<1>7. i \in 0..n /\ ~good[i] BY DEF T
<1> QED BY <1>6, <1>7

\* The element of a set that a fold takes first.
Pick(s) == CHOOSE x \in s : TRUE

\* g sums F over the sets of D, each without its first element and that one.
Adds(g, D, F) ==
  g = [s \in D |-> IF s = {} THEN 0 ELSE F[Pick(s)] + g[s \ {Pick(s)}]]

\* The subsets of S that have at most k elements.
Small(S, k) == {s \in SUBSET S : Cardinality(s) <= k}

\* A subset without its first element has one element less.
LEMMA PickShrinks ==
  ASSUME NEW S, IsFiniteSet(S), NEW s \in SUBSET S
  PROVE  /\ Cardinality(s) \in Nat /\ IsFiniteSet(s)
         /\ Cardinality(s) = 0 <=> s = {}
         /\ \A x \in s : /\ s \ {x} \in SUBSET S
                         /\ Cardinality(s \ {x}) = Cardinality(s) - 1
         /\ s # {} => Pick(s) \in s
<1>1. IsFiniteSet(s) BY FS_Subset
<1>2. Cardinality(s) \in Nat BY <1>1, FS_CardinalityType
<1>3. Cardinality(s) = 0 <=> s = {} BY <1>1, FS_EmptySet
<1>4. \A x \in s : Cardinality(s \ {x}) = Cardinality(s) - 1
  BY <1>1, FS_RemoveElement
<1>5. s # {} => Pick(s) \in s BY DEF Pick
<1> QED BY <1>1, <1>2, <1>3, <1>4, <1>5

\* There is a function that sums over the subsets of a finite set.
LEMMA SumExists ==
  ASSUME NEW S, IsFiniteSet(S), NEW F
  PROVE  \E g : Adds(g, SUBSET S, F)
<1> DEFINE N == Cardinality(S)
           good == [k \in 0..N |-> \E g : Adds(g, Small(S, k), F)]
<1>1. N \in Nat BY FS_CardinalityType
<1>2. Small(S, N) = SUBSET S
  <2>1. \A s \in SUBSET S : Cardinality(s) <= N BY FS_Subset
  <2> QED BY <2>1 DEF Small
<1> HIDE DEF N
<1> SUFFICES ASSUME ~(\A k \in 0..N : good[k]) PROVE FALSE
  <2>1. N \in 0..N BY <1>1
  <2>2. good[N] BY <2>1
  <2>3. \E g : Adds(g, Small(S, N), F) BY <2>1, <2>2
  <2> QED BY <1>2, <2>3
<1>3. PICK k \in 0..N : ~good[k] /\ \A j \in 0..(k - 1) : good[j]
  <2> HIDE DEF good
  <2> QED BY <1>1, FirstFailure
<1>4. ~\E g : Adds(g, Small(S, k), F) BY <1>3
<1>5. \A s \in SUBSET S : Cardinality(s) \in Nat /\ (Cardinality(s) = 0 <=> s = {})
  BY PickShrinks
<1>6. k # 0
  <2>1. SUFFICES ASSUME k = 0 PROVE FALSE OBVIOUS
  <2> DEFINE g == [s \in Small(S, 0) |-> 0]
  <2>2. \A s \in Small(S, 0) : s = {} BY <1>5 DEF Small
  <2>3. Adds(g, Small(S, 0), F) BY <2>2 DEF Adds
  <2> QED BY <1>4, <2>1, <2>3
<1>7. k - 1 \in 0..(k - 1) /\ k - 1 \in 0..N /\ k \in Nat BY <1>1, <1>6
<1>8. good[k - 1] BY <1>3, <1>7
<1>9. \E g : Adds(g, Small(S, k - 1), F) BY <1>7, <1>8
<1>10. PICK g : Adds(g, Small(S, k - 1), F) BY <1>9
<1> DEFINE h == [s \in Small(S, k) |->
                   IF s = {} THEN 0 ELSE F[Pick(s)] + g[s \ {Pick(s)}]]
<1>11. ASSUME NEW s \in Small(S, k), s # {}
       PROVE  h[s \ {Pick(s)}] = g[s \ {Pick(s)}]
  <2> DEFINE u == s \ {Pick(s)}
  <2>1. s \in SUBSET S /\ Cardinality(s) <= k BY DEF Small
  <2>2. Pick(s) \in s /\ u \in SUBSET S /\ Cardinality(u) = Cardinality(s) - 1
    BY <1>11, <2>1, PickShrinks
  <2>3. Cardinality(s) \in Nat /\ Cardinality(u) \in Nat BY <1>5, <2>1, <2>2
  <2>4. u \in Small(S, k) /\ u \in Small(S, k - 1)
    BY <1>7, <2>1, <2>2, <2>3 DEF Small
  <2> HIDE DEF u
  <2>5. g[u] = IF u = {} THEN 0 ELSE F[Pick(u)] + g[u \ {Pick(u)}]
    BY <1>10, <2>4 DEF Adds
  <2>6. h[u] = IF u = {} THEN 0 ELSE F[Pick(u)] + g[u \ {Pick(u)}]
    BY <2>4
  <2>7. h[u] = g[u] BY <2>5, <2>6, Zenon
  <2> QED BY <2>7 DEF u
<1>12. Adds(h, Small(S, k), F)
  BY <1>11 DEF Adds
<1> QED BY <1>4, <1>12

\* Such a sum is a number, and any element may be taken out first.
LEMMA SumTakesAny ==
  ASSUME NEW S, IsFiniteSet(S), NEW F \in [S -> Nat], NEW g,
         Adds(g, SUBSET S, F)
  PROVE  \A s \in SUBSET S :
           g[s] \in Nat /\ \A y \in s : g[s] = F[y] + g[s \ {y}]
<1> DEFINE N == Cardinality(S)
           Fine(s) == g[s] \in Nat /\ \A y \in s : g[s] = F[y] + g[s \ {y}]
           good == [k \in 0..N |->
                      \A s \in SUBSET S : Cardinality(s) = k => Fine(s)]
<1>1. N \in Nat BY FS_CardinalityType
<1>2. ASSUME NEW s \in SUBSET S PROVE Cardinality(s) \in 0..N
  BY <1>1, FS_Subset, PickShrinks
<1> HIDE DEF N
<1> SUFFICES ASSUME ~(\A k \in 0..N : good[k]) PROVE FALSE
  <2>1. ASSUME NEW s \in SUBSET S PROVE Fine(s)
    <3> HIDE DEF Fine
    <3>1. Cardinality(s) \in 0..N BY <1>2
    <3>2. good[Cardinality(s)] BY <3>1
    <3> QED BY <3>1, <3>2
  <2> QED BY <2>1
<1>3. PICK k \in 0..N : ~good[k] /\ \A j \in 0..(k - 1) : good[j]
  <2> HIDE DEF good
  <2> QED BY <1>1, FirstFailure
<1>4. PICK s \in SUBSET S : Cardinality(s) = k /\ ~Fine(s)
  <2> HIDE DEF Fine
  <2> QED BY <1>3
<1>5. g[{}] = 0
  <2>1. {} \in SUBSET S OBVIOUS
  <2> QED BY <2>1 DEF Adds
<1>6. s # {} BY <1>4, <1>5
<1> DEFINE c == Pick(s)
<1>7. g[s] = F[c] + g[s \ {c}] BY <1>6 DEF Adds
<1>8. c \in s BY <1>6, PickShrinks
<1> HIDE DEF c
<1>9. k # 0 /\ k \in Nat /\ k - 1 \in 0..(k - 1) /\ k - 1 \in 0..N
  BY <1>1, <1>4, <1>6, PickShrinks
<1>10. good[k - 1] BY <1>3, <1>9
<1>11. ASSUME NEW u \in SUBSET S, Cardinality(u) = k - 1 PROVE Fine(u)
  <2> HIDE DEF Fine
  <2> QED BY <1>9, <1>10, <1>11
<1>12. ASSUME NEW y \in s PROVE Fine(s \ {y}) /\ F[y] \in Nat
  <2>1. s \ {y} \in SUBSET S /\ Cardinality(s \ {y}) = k - 1
    BY <1>4, PickShrinks
  <2> HIDE DEF Fine
  <2> QED BY <1>11, <2>1
<1>13. g[s] \in Nat BY <1>7, <1>8, <1>12
<1>14. ASSUME NEW y \in s, y # c PROVE g[s] = F[y] + g[s \ {y}]
  <2> DEFINE both == (s \ {c}) \ {y}
  <2>1. both = (s \ {y}) \ {c} OBVIOUS
  <2>2. y \in s \ {c} /\ c \in s \ {y} BY <1>8, <1>14
  <2>3. g[s \ {c}] = F[y] + g[both] BY <1>8, <1>12, <2>2
  <2>4. g[s \ {y}] = F[c] + g[both] BY <1>12, <2>1, <2>2
  <2>5. g[both] \in Nat
    <3>1. both \in SUBSET S OBVIOUS
    <3>2. Cardinality(both) = k - 2
      <4>1. s \ {c} \in SUBSET S /\ Cardinality(s \ {c}) = k - 1
        BY <1>4, <1>8, PickShrinks
      <4> QED BY <1>9, <2>2, <4>1, PickShrinks
    <3>3. Cardinality(both) \in Nat BY <3>1, PickShrinks
    <3>4. k - 2 \in 0..(k - 1) /\ k - 2 \in 0..N BY <1>1, <1>9, <3>2, <3>3
    <3>5. good[k - 2] BY <1>3, <3>4
    <3> HIDE DEF both
    <3>6. Fine(both)
      <4> HIDE DEF Fine
      <4> QED BY <3>1, <3>2, <3>4, <3>5
    <3> QED BY <3>6
  <2> HIDE DEF both
  <2> QED BY <1>7, <1>8, <1>12, <2>3, <2>4, <2>5
<1>15. Fine(s) BY <1>7, <1>13, <1>14
<1> QED BY <1>4, <1>15

\* f and g sum the same numbers, over subsets of S and of a T that includes S.
SameNumbers(S, T, f, F, g, G) ==
  /\ IsFiniteSet(T) /\ S \subseteq T
  /\ Adds(f, SUBSET S, F) /\ Adds(g, SUBSET T, G)
  /\ \A x \in S : F[x] = G[x]

\* Two such sums agree on the sets that both are defined for.
LEMMA SumsAgree ==
  ASSUME NEW S, NEW T, NEW f, NEW F, NEW g, NEW G,
         SameNumbers(S, T, f, F, g, G)
  PROVE  \A s \in SUBSET S : f[s] = g[s]
<1> USE DEF SameNumbers
<1> DEFINE N == Cardinality(T)
           good == [k \in 0..N |->
                      \A s \in SUBSET S : Cardinality(s) = k => f[s] = g[s]]
<1>1. N \in Nat BY FS_CardinalityType
<1>2. ASSUME NEW s \in SUBSET S PROVE s \in SUBSET T /\ Cardinality(s) \in 0..N
  BY <1>1, FS_Subset, PickShrinks
<1> HIDE DEF N
<1> SUFFICES ASSUME ~(\A k \in 0..N : good[k]) PROVE FALSE
  BY <1>2
<1>3. PICK k \in 0..N : ~good[k] /\ \A j \in 0..(k - 1) : good[j]
  <2> HIDE DEF good
  <2> QED BY <1>1, FirstFailure
<1>4. PICK s \in SUBSET S : Cardinality(s) = k /\ f[s] # g[s] BY <1>3
<1>5. f[s] = IF s = {} THEN 0 ELSE F[Pick(s)] + f[s \ {Pick(s)}]
  BY DEF Adds
<1>6. g[s] = IF s = {} THEN 0 ELSE G[Pick(s)] + g[s \ {Pick(s)}]
  BY <1>2 DEF Adds
<1>7. s # {} BY <1>4, <1>5, <1>6
<1> DEFINE c == Pick(s)
<1>8. c \in s /\ s \in SUBSET T BY <1>2, <1>7, PickShrinks
<1>9. /\ k # 0 /\ k \in Nat /\ s \ {c} \in SUBSET S
      /\ Cardinality(s \ {c}) = k - 1
  BY <1>4, <1>7, <1>8, PickShrinks
<1> HIDE DEF c
<1>10. k - 1 \in 0..(k - 1) /\ k - 1 \in 0..N BY <1>1, <1>9
<1>11. good[k - 1] BY <1>3, <1>10
<1>12. f[s \ {c}] = g[s \ {c}] BY <1>9, <1>10, <1>11
<1>13. F[c] = G[c] BY <1>8
<1> QED BY <1>4, <1>5, <1>6, <1>7, <1>12, <1>13 DEF c

\* What a set of samples of a metric sums up to in the minute t.
Tally(X, n, t) ==
  MapThenSumSet(LAMBDA s : s.v, {s \in X : s.name = n /\ Floor(s.at) = t})

\* What the metrics of S sum up to in the minute t.
Total(X, S, t) == MapThenSumSet(LAMBDA n : Tally(X, n, t), S)

\* A sum over no samples is zero, one over one sample is its value.
LEMMA SumOfSamples ==
  /\ MapThenSumSet(LAMBDA s : s.v, {}) = 0
  /\ \A x : x.v \in Nat => MapThenSumSet(LAMBDA s : s.v, {x}) = x.v
<1> DEFINE Y(f, S) == [s \in SUBSET S |->
                         IF s = {} THEN 0
                         ELSE (CHOOSE x \in s : TRUE).v
                                + f[s \ {CHOOSE x \in s : TRUE}]]
           iter(S) == CHOOSE f : f = Y(f, S)
<1>1. ASSUME NEW S PROVE MapThenSumSet(LAMBDA s : s.v, S) = iter(S)[S]
  BY Zenon DEF MapThenSumSet, MapThenFoldSet
<1>2. ASSUME NEW S, IsFiniteSet(S)
      PROVE  iter(S) = Y(iter(S), S)
  <2> DEFINE F == [x \in S |-> x.v]
  <2>1. PICK g : Adds(g, SUBSET S, F)
    <3> HIDE DEF F
    <3> QED BY <1>2, SumExists
  <2>2. \A s \in SUBSET S : s # {} => Pick(s) \in S BY DEF Pick
  <2>3. g = Y(g, S) BY <2>1, <2>2 DEF Adds, Pick
  <2>4. \E f : f = Y(f, S) BY <2>3, Zenon
  <2> HIDE DEF Y
  <2> QED BY <2>4
<1>3. iter({})[{}] = 0
  <2>1. iter({}) = Y(iter({}), {}) BY <1>2, FS_EmptySet
  <2> HIDE DEF iter
  <2> QED BY <2>1
<1>4. ASSUME NEW x, x.v \in Nat PROVE iter({x})[{x}] = x.v
  <2>1. iter({x}) = Y(iter({x}), {x}) BY <1>2, FS_Singleton
  <2> DEFINE f == iter({x})
  <2>2. f = Y(f, {x}) BY <2>1
  <2> HIDE DEF f
  <2>3. f[{}] = 0 BY <2>2
  <2>4. (CHOOSE y \in {x} : TRUE) = x OBVIOUS
  <2>5. {x} \ {x} = {} /\ {x} # {} OBVIOUS
  <2>6. f[{x}] = (CHOOSE y \in {x} : TRUE).v
                   + f[{x} \ {CHOOSE y \in {x} : TRUE}] BY <2>2, <2>5
  <2>7. f[{x}] = x.v BY <1>4, <2>3, <2>4, <2>5, <2>6
  <2> QED BY <2>7 DEF f
<1> HIDE DEF iter
<1>5. MapThenSumSet(LAMBDA s : s.v, {}) = 0 BY <1>1, <1>3, Zenon
<1>6. ASSUME NEW x, x.v \in Nat PROVE MapThenSumSet(LAMBDA s : s.v, {x}) = x.v
  BY <1>1, <1>4, <1>6, Zenon
<1> QED BY <1>5, <1>6, Zenon

\* A metric without a sample in the minute counts zero, one with one sample
\* counts its value.
LEMMA TallyIs ==
  ASSUME NEW X, NEW n, NEW t
  PROVE  /\ (\A s \in X : s.name = n => Floor(s.at) # t) => Tally(X, n, t) = 0
         /\ \A x \in X :
              (/\ x.name = n /\ Floor(x.at) = t /\ x.v \in Nat
               /\ \A s \in X : (s.name = n /\ Floor(s.at) = t) => s = x)
              => Tally(X, n, t) = x.v
<1> DEFINE Y == {s \in X : s.name = n /\ Floor(s.at) = t}
<1>1. Tally(X, n, t) = MapThenSumSet(LAMBDA s : s.v, Y) BY Zenon DEF Tally
<1>2. ASSUME \A s \in X : s.name = n => Floor(s.at) # t PROVE Tally(X, n, t) = 0
  <2>1. Y = {} BY <1>2
  <2> HIDE DEF Y
  <2> QED BY <1>1, <2>1, SumOfSamples, Zenon
<1>3. ASSUME NEW x \in X, x.name = n, Floor(x.at) = t, x.v \in Nat,
             \A s \in X : (s.name = n /\ Floor(s.at) = t) => s = x
      PROVE  Tally(X, n, t) = x.v
  <2>1. Y = {x} BY <1>3
  <2> HIDE DEF Y
  <2> QED BY <1>1, <1>3, <2>1, SumOfSamples, Zenon
<1> QED BY <1>2, <1>3, Zenon

\* One metric more adds what was sampled of it.
LEMMA TotalAdds ==
  ASSUME NEW X, NEW S, IsFiniteSet(S), NEW n, n \notin S, NEW t,
         \A m \in S \union {n} : Tally(X, m, t) \in Nat
  PROVE  /\ Total(X, S, t) \in Nat
         /\ Total(X, S \union {n}, t) = Tally(X, n, t) + Total(X, S, t)
<1> DEFINE Y(f, U) == [s \in SUBSET U |->
                         IF s = {} THEN 0
                         ELSE Tally(X, CHOOSE x \in s : TRUE, t)
                                + f[s \ {CHOOSE x \in s : TRUE}]]
           iter(U) == CHOOSE f : f = Y(f, U)
           F(U) == [m \in U |-> Tally(X, m, t)]
           T == S \union {n}
<1>1. ASSUME NEW U PROVE Total(X, U, t) = iter(U)[U]
  BY Zenon DEF Total, MapThenSumSet, MapThenFoldSet
<1>2. ASSUME NEW U, IsFiniteSet(U)
      PROVE  Adds(iter(U), SUBSET U, F(U))
  <2>1. PICK g : Adds(g, SUBSET U, F(U))
    <3> HIDE DEF F
    <3> QED BY <1>2, SumExists
  <2>2. \A s \in SUBSET U : s # {} => Pick(s) \in U BY DEF Pick
  <2>3. g = Y(g, U) BY <2>1, <2>2 DEF Adds, Pick
  <2>4. \E f : f = Y(f, U) BY <2>3, Zenon
  <2>5. iter(U) = Y(iter(U), U)
    <3> HIDE DEF Y
    <3> QED BY <2>4
  <2> HIDE DEF iter
  <2> QED BY <2>2, <2>5 DEF Adds, Pick
<1>3. IsFiniteSet(T) /\ S \in SUBSET T /\ T \in SUBSET T BY FS_AddElement
<1>4. F(T) \in [T -> Nat] /\ F(S) \in [S -> Nat]
  <2>1. \A U : (\A m \in U : Tally(X, m, t) \in Nat) => F(U) \in [U -> Nat]
    OBVIOUS
  <2>2. \A m \in T : Tally(X, m, t) \in Nat OBVIOUS
  <2>3. \A m \in S : Tally(X, m, t) \in Nat OBVIOUS
  <2> HIDE DEF F, T
  <2> QED BY <2>1, <2>2, <2>3
<1>5. F(T)[n] = Tally(X, n, t) /\ \A x \in S : F(S)[x] = F(T)[x]
  <2>1. \A U : \A x \in U : F(U)[x] = Tally(X, x, t) OBVIOUS
  <2>2. n \in T BY DEF T
  <2>3. \A x \in S : x \in T BY DEF T
  <2> HIDE DEF F, T
  <2> QED BY <2>1, <2>2, <2>3
<1>6. n \in T /\ T \ {n} = S OBVIOUS
<1>7. Adds(iter(T), SUBSET T, F(T)) /\ Adds(iter(S), SUBSET S, F(S))
  BY <1>2, <1>3
<1> DEFINE f == iter(S)
           g == iter(T)
           A == F(S)
           B == F(T)
<1>8. Adds(f, SUBSET S, A) /\ Adds(g, SUBSET T, B)
  BY <1>7
<1>9. A \in [S -> Nat] /\ B \in [T -> Nat] /\ \A x \in S : A[x] = B[x]
  BY <1>4, <1>5
<1>10. Total(X, T, t) = g[T] /\ Total(X, S, t) = f[S] BY <1>1, Zenon
<1>11. B[n] = Tally(X, n, t) BY <1>5
<1> HIDE DEF F, Y, iter, T, f, g, A, B
<1>12. g[T] = B[n] + g[S]
  <2>1. \A s \in SUBSET T :
          g[s] \in Nat /\ \A y \in s : g[s] = B[y] + g[s \ {y}]
    BY <1>3, <1>8, <1>9, SumTakesAny
  <2> QED BY <1>3, <1>6, <2>1
<1>13. f[S] = g[S]
  <2>1. \A s \in SUBSET S : f[s] = g[s]
    <3>1. \A x \in S : A[x] = B[x] BY <1>9
    <3>2. IsFiniteSet(T) /\ S \subseteq T BY <1>3
    <3>3. SameNumbers(S, T, f, A, g, B) BY <1>8, <3>1, <3>2 DEF SameNumbers
    <3> QED BY <3>3, SumsAgree
  <2>2. S \in SUBSET S OBVIOUS
  <2> QED BY <2>1, <2>2
<1>14. f[S] \in Nat
  <2>1. \A s \in SUBSET S : f[s] \in Nat
    BY <1>8, <1>9, SumTakesAny
  <2>2. S \in SUBSET S OBVIOUS
  <2> QED BY <2>1, <2>2
<1> QED BY <1>10, <1>11, <1>12, <1>13, <1>14 DEF T

\* No metric, no sum.
LEMMA TotalOfNone ==
  ASSUME NEW X, NEW t
  PROVE  Total(X, {}, t) = 0
<1> DEFINE Y(f) == [s \in SUBSET {} |->
                      IF s = {} THEN 0
                      ELSE Tally(X, CHOOSE x \in s : TRUE, t)
                             + f[s \ {CHOOSE x \in s : TRUE}]]
           iter == CHOOSE f : f = Y(f)
           g == [s \in {{}} |-> 0]
<1>1. Total(X, {}, t) = iter[{}]
  BY Zenon DEF Total, MapThenSumSet, MapThenFoldSet
<1>2. g = Y(g) OBVIOUS
<1>3. iter = Y(iter)
  <2> HIDE DEF Y, g
  <2> QED BY <1>2
<1> HIDE DEF iter
<1>4. iter[{}] = 0 BY <1>3
<1> QED BY <1>1, <1>4
-----------------------------------------------------------------------------
(* Times, minutes and places of the ring.                                  *)

\* The rows of a chart.
K == Duration \div Resolution

\* The rows of a ring last Duration, and there is one at least.
LEMMA HistorySizes ==
  /\ Resolution \in Nat \ {0} /\ Duration \in Nat \ {0} /\ MaxNow \in Nat \ {0}
  /\ MaxClears \in Nat /\ Duration <= MaxNow /\ IsFiniteSet(Names)
  /\ K \in Nat \ {0} /\ Duration = Resolution * K
<1>1. /\ Resolution \in Nat \ {0} /\ Duration \in Nat \ {0}
      /\ MaxNow \in Nat \ {0} /\ MaxClears \in Nat /\ IsFiniteSet(Names)
      /\ Duration % Resolution = 0 /\ Duration <= MaxNow
  BY HistoryAssumption
<1>2. K \in Nat /\ Duration = Resolution * K + (Duration % Resolution)
  BY <1>1 DEF K
<1> HIDE DEF K
<1>3. K # 0 BY <1>1, <1>2
<1> QED BY <1>1, <1>2, <1>3

\* A product of m that is less than m in size is zero.
LEMMA ShortMultiple ==
  ASSUME NEW m \in Nat \ {0}, NEW x \in Int, NEW z \in Int,
         -m < x, x < m, x = m * z
  PROVE  x = 0
<1>1. CASE z >= 1
  <2>1. m * z >= m BY <1>1
  <2> QED BY <2>1
<1>2. CASE z <= -1
  <2>1. m * z <= -m BY <1>2
  <2> QED BY <2>1
<1>3. CASE z = 0 BY <1>3
<1> QED BY <1>1, <1>2, <1>3

\* Quotient and remainder are what they are by the first division theorem.
LEMMA DivisionIs ==
  ASSUME NEW t \in Nat, NEW m \in Nat \ {0}
  PROVE  /\ t % m \in Nat /\ t % m < m
         /\ \E q \in Nat : t = m * q + (t % m)
<1> DEFINE k == t \div m
           r == t % m
<1>1. r \in 0..(m - 1) /\ k \in Nat /\ t = m * k + r OBVIOUS
<1> HIDE DEF k, r
<1>2. r \in Nat /\ r < m /\ \E q \in Nat : t = m * q + r BY <1>1
<1> QED BY <1>2 DEF r

\* A minute begins at a multiple of Resolution, at most Resolution before.
LEMMA FloorIs ==
  ASSUME NEW t \in Nat
  PROVE  /\ Floor(t) \in Nat /\ Floor(t) <= t /\ t < Floor(t) + Resolution
         /\ \E q \in Nat : Floor(t) = Resolution * q
<1> DEFINE r == t % Resolution
<1>1. Resolution \in Nat \ {0} BY HistorySizes
<1>2. Floor(t) = t - r BY DEF Floor
<1>3. r \in Nat /\ r < Resolution BY <1>1, DivisionIs
<1>4. PICK q \in Nat : t = Resolution * q + r BY <1>1, DivisionIs
<1> HIDE DEF r
<1> DEFINE x == Resolution * q
<1>5. x \in Nat BY <1>1
<1>6. t = x + r BY <1>4
<1>7. x = Resolution * q OBVIOUS
<1> HIDE DEF x
<1>8. Floor(t) = x BY <1>2, <1>3, <1>5, <1>6
<1> QED BY <1>1, <1>3, <1>5, <1>6, <1>7, <1>8

\* The minute of t is the one multiple of Resolution at or shortly before it.
LEMMA FloorUnique ==
  ASSUME NEW t \in Nat, NEW m \in Nat, NEW q \in Nat, m = Resolution * q,
         m <= t, t < m + Resolution
  PROVE  Floor(t) = m
<1>1. Resolution \in Nat \ {0} BY HistorySizes
<1>2. PICK p \in Nat : Floor(t) = Resolution * p BY FloorIs
<1>3. Floor(t) \in Nat /\ Floor(t) <= t /\ t < Floor(t) + Resolution BY FloorIs
<1> DEFINE x == Floor(t) - m
           z == p - q
<1>4. z \in Int /\ x = Resolution * z BY <1>1, <1>2
<1>5. x \in Int /\ -Resolution < x /\ x < Resolution BY <1>1, <1>3
<1> HIDE DEF x, z
<1>6. x = 0 BY <1>1, <1>4, <1>5, ShortMultiple
<1> QED BY <1>3, <1>6 DEF x

\* A time that is the start of its minute.
Row(t) == t \in Nat /\ Floor(t) = t

\* Where a minute begins, one begins.
LEMMA FloorIsRow ==
  ASSUME NEW t \in Nat
  PROVE  Row(Floor(t))
<1>1. PICK q \in Nat : Floor(t) = Resolution * q BY FloorIs
<1>2. Floor(t) \in Nat BY FloorIs
<1>3. Resolution \in Nat \ {0} BY HistorySizes
<1> DEFINE m == Floor(t)
<1>4. m \in Nat /\ m = Resolution * q BY <1>1, <1>2
<1> HIDE DEF m
<1>5. Floor(m) = m BY <1>3, <1>4, FloorUnique
<1> QED BY <1>4, <1>5 DEF Row, m

\* Rows are Resolution apart.
LEMMA RowsApart ==
  ASSUME NEW t \in Nat, NEW u \in Nat, Row(t), Row(u), t < u
  PROVE  t + Resolution <= u
<1>1. PICK p \in Nat : t = Resolution * p BY FloorIs DEF Row
<1>2. PICK q \in Nat : u = Resolution * q BY FloorIs DEF Row
<1>3. Resolution \in Nat \ {0} BY HistorySizes
<1>4. q >= p + 1
  <2>1. SUFFICES ASSUME q <= p PROVE FALSE OBVIOUS
  <2>2. Resolution * q <= Resolution * p BY <1>3, <2>1
  <2> QED BY <1>1, <1>2, <2>2
<1>5. Resolution * q >= Resolution * (p + 1) BY <1>3, <1>4
<1>6. Resolution * (p + 1) = Resolution * p + Resolution BY <1>3
<1> QED BY <1>1, <1>2, <1>3, <1>5, <1>6

\* A row that is not after t is not after the minute of t.
LEMMA RowBeforeFloor ==
  ASSUME NEW t \in Nat, NEW m \in Nat, Row(m), m <= t
  PROVE  m <= Floor(t)
<1>1. Row(Floor(t)) /\ Floor(t) \in Nat /\ t < Floor(t) + Resolution
  BY FloorIs, FloorIsRow
<1>2. SUFFICES ASSUME Floor(t) < m PROVE FALSE BY <1>1
<1>3. Resolution \in Nat BY HistorySizes
<1>4. Floor(t) + Resolution <= m BY <1>1, <1>2, RowsApart
<1> QED BY <1>1, <1>3, <1>4

\* Of two times the later is in the later minute, or in the same.
LEMMA FloorGrows ==
  ASSUME NEW t \in Nat, NEW u \in Nat, t <= u
  PROVE  Floor(t) <= Floor(u)
<1>1. Row(Floor(t)) /\ Floor(t) \in Nat /\ Floor(t) <= t BY FloorIs, FloorIsRow
<1> QED BY <1>1, RowBeforeFloor

\* Multiples of Resolution are rows, and so is what they add to a row.
LEMMA RowPlus ==
  ASSUME NEW t \in Nat, Row(t), NEW i \in Int, t + i * Resolution \in Nat
  PROVE  Row(t + i * Resolution)
<1>1. PICK q \in Nat : t = Resolution * q BY FloorIs DEF Row
<1>2. Resolution \in Nat \ {0} BY HistorySizes
<1> DEFINE m == t + i * Resolution
           k == q + i
<1>3. m = Resolution * k BY <1>1, <1>2
<1>4. m \in Nat /\ k \in Int OBVIOUS
<1> HIDE DEF m, k
<1>5. k \in Nat
  <2>1. SUFFICES ASSUME k <= -1 PROVE FALSE BY <1>4
  <2>2. Resolution * k <= -Resolution BY <1>2, <1>4, <2>1
  <2> QED BY <1>2, <1>3, <1>4, <2>2
<1>6. Floor(m) = m BY <1>2, <1>3, <1>4, <1>5, FloorUnique
<1> QED BY <1>4, <1>6 DEF Row, m

\* A Resolution later it is another minute.
LEMMA MinutePasses ==
  ASSUME NEW t \in Nat, NEW u \in Nat, t + Resolution <= u
  PROVE  Floor(t) < Floor(u)
<1>1. Resolution \in Nat \ {0} BY HistorySizes
<1>2. /\ Floor(t) \in Nat /\ Floor(t) <= t
      /\ Floor(u) \in Nat /\ u < Floor(u) + Resolution
  BY FloorIs
<1> QED BY <1>1, <1>2

\* A minute begins where the clock shows its start.
LEMMA MinuteBegins ==
  ASSUME NEW t \in Nat, Floor(t + 1) # Floor(t)
  PROVE  Floor(t + 1) = t + 1
<1>1. t + 1 \in Nat OBVIOUS
<1>2. /\ Floor(t + 1) \in Nat /\ Floor(t + 1) <= t + 1 /\ Row(Floor(t + 1))
      /\ Floor(t) \in Nat
  BY <1>1, FloorIs, FloorIsRow
<1>3. Floor(t) <= Floor(t + 1) BY <1>1, FloorGrows
<1>4. SUFFICES ASSUME Floor(t + 1) <= t PROVE FALSE BY <1>2
<1>5. Floor(t + 1) <= Floor(t) BY <1>2, <1>4, RowBeforeFloor
<1> QED BY <1>2, <1>3, <1>5

\* Every time has its place in the ring.
LEMMA IndexIs ==
  ASSUME NEW t \in Nat
  PROVE  Index(t) \in Indices
<1> DEFINE m == Floor(t)
           x == m % Duration
<1>1. m \in Nat /\ Row(m) BY FloorIs, FloorIsRow
<1>2. Index(t) = x BY DEF Index
<1>3. Duration \in Nat \ {0} /\ Duration = Resolution * K
      /\ Resolution \in Nat \ {0} /\ K \in Nat
  BY HistorySizes
<1> HIDE DEF m
<1>4. x \in Nat /\ x < Duration BY <1>1, <1>3, DivisionIs
<1>5. PICK q \in Nat : m = Duration * q + x BY <1>1, <1>3, DivisionIs
<1> DEFINE i == -(K * q)
<1>6. x = m + i * Resolution
  <2>1. Duration * q = (K * q) * Resolution BY <1>3
  <2>2. (-(K * q)) * Resolution = -((K * q) * Resolution) BY <1>3
  <2> QED BY <1>1, <1>3, <1>4, <1>5, <2>1, <2>2
<1>7. i \in Int BY <1>3
<1> HIDE DEF x, i
<1>8. Row(x) BY <1>1, <1>4, <1>6, <1>7, RowPlus
<1>9. x % Duration = x BY <1>3, <1>4
<1>10. Index(x) = x /\ x \in 0..(Duration - 1)
  BY <1>3, <1>4, <1>8, <1>9 DEF Row, Index
<1> QED BY <1>2, <1>10 DEF Indices

\* Rows less than a Duration apart have different places in the ring.
LEMMA PlacesApart ==
  ASSUME NEW t \in Nat, NEW u \in Nat, Row(t), Row(u),
         t - u < Duration, u - t < Duration, Index(t) = Index(u)
  PROVE  t = u
<1>1. Duration \in Nat \ {0} BY HistorySizes
<1>2. t % Duration = u % Duration BY DEF Index, Row
<1>3. PICK p \in Nat : t = Duration * p + (t % Duration) BY <1>1, DivisionIs
<1>4. PICK q \in Nat : u = Duration * q + (u % Duration) BY <1>1, DivisionIs
<1>5. t % Duration \in Nat BY <1>1, DivisionIs
<1> DEFINE x == t - u
           z == p - q
<1>6. x = Duration * z
  <2> DEFINE r == t % Duration
  <2>1. t = Duration * p + r /\ u = Duration * q + r /\ r \in Nat
    BY <1>2, <1>3, <1>4, <1>5
  <2> HIDE DEF r
  <2> QED BY <1>1, <2>1
<1>7. x \in Int /\ z \in Int /\ -Duration < x /\ x < Duration BY <1>1
<1> HIDE DEF x, z
<1>8. x = 0 BY <1>1, <1>6, <1>7, ShortMultiple
<1> QED BY <1>8 DEF x
-----------------------------------------------------------------------------
(* A ring shows what was sampled, for a whole Duration back.               *)

\* A bucket of a series: the minute and the sum of its samples.
Bucket == [t : Nat, v : Nat]

\* The ring shows what the samples X of the metric n sum up to, in every
\* minute of the Duration before the time m.
RingExact(ring, X, n, m) ==
  \A t \in Nat :
    (Row(t) /\ Floor(m) - Duration < t /\ t <= Floor(m)) =>
      get(ring, t) = [t |-> t, v |-> Tally(X, n, t)]

\* A time has the place of its minute.
LEMMA PlaceOfMinute ==
  ASSUME NEW t \in Nat
  PROVE  Index(Floor(t)) = Index(t)
<1>1. Row(Floor(t)) BY FloorIsRow
<1> QED BY <1>1 DEF Row, Index

\* Sets that hold the same samples of a metric's minute have the same tally.
LEMMA TallySame ==
  ASSUME NEW X, NEW Y, NEW n, NEW t,
         \A s : (s \in X /\ s.name = n /\ Floor(s.at) = t)
                  <=> (s \in Y /\ s.name = n /\ Floor(s.at) = t)
  PROVE  Tally(X, n, t) = Tally(Y, n, t)
<1>1. {s \in X : s.name = n /\ Floor(s.at) = t}
        = {s \in Y : s.name = n /\ Floor(s.at) = t}
  OBVIOUS
<1> QED BY <1>1, Zenon DEF Tally

\* A new ring shows nothing, and nothing was sampled.
LEMMA NewRingExact ==
  ASSUME NEW n, NEW m
  PROVE  RingExact(NewRing, {}, n, m)
<1> SUFFICES ASSUME NEW t \in Nat, Row(t)
             PROVE  get(NewRing, t) = [t |-> t, v |-> Tally({}, n, t)]
  BY DEF RingExact
<1>1. Tally({}, n, t) = 0 BY TallyIs
<1>2. NewRing[Index(t)] = NoBucket BY IndexIs DEF NewRing
<1> QED BY <1>1, <1>2 DEF get, NoBucket, Row

\* A minute that begins finds nothing at its place that could be taken for it.
LEMMA RingWaits ==
  ASSUME NEW ring, NEW X, NEW n, NEW m \in Nat, RingExact(ring, X, n, m),
         \A x \in Indices : ring[x].t \in Int /\ ring[x].t <= m,
         \A s \in X : s.at \in Nat /\ s.at <= m
  PROVE  RingExact(ring, X, n, m + 1)
<1>1. m + 1 \in Nat OBVIOUS
<1>2. CASE Floor(m + 1) = Floor(m) BY <1>2 DEF RingExact
<1>3. CASE Floor(m + 1) # Floor(m)
  <2>1. Floor(m + 1) = m + 1 BY <1>3, MinuteBegins
  <2>2. Floor(m) \in Nat /\ Floor(m) <= m BY FloorIs
  <2>3. Duration \in Nat BY HistorySizes
  <2> SUFFICES ASSUME NEW t \in Nat, Row(t),
                      Floor(m + 1) - Duration < t, t <= Floor(m + 1)
               PROVE  get(ring, t) = [t |-> t, v |-> Tally(X, n, t)]
    BY DEF RingExact
  <2>4. CASE t <= m
    <3>1. t <= Floor(m) BY <2>4, RowBeforeFloor
    <3>2. Floor(m) - Duration < t BY <2>1, <2>2, <2>3
    <3> QED BY <3>1, <3>2 DEF RingExact
  <2>5. CASE t = m + 1
    <3>1. ring[Index(t)].t # t BY <2>5, IndexIs
    <3>2. get(ring, t) = [t |-> t, v |-> 0] BY <3>1 DEF get, Row
    <3>3. ASSUME NEW s \in X PROVE Floor(s.at) # t
      <4>1. Floor(s.at) \in Nat /\ Floor(s.at) <= s.at BY FloorIs
      <4> QED BY <2>5, <4>1
    <3>4. Tally(X, n, t) = 0 BY <3>3, TallyIs
    <3> QED BY <3>2, <3>4
  <2> QED BY <2>1, <2>4, <2>5
<1> QED BY <1>2, <1>3

\* The first sample of a minute takes the place of a bucket a Duration old.
LEMMA RingTakes ==
  ASSUME NEW ring, NEW X, NEW n, NEW m \in Nat,
         NEW v \in Nat, RingExact(ring, X, n, m),
         ring = [x \in Indices |-> ring[x]],
         \A s \in X : s.at \in Nat /\ (s.name = n => s.at + Resolution <= m)
  PROVE  RingExact(Insert(ring, m, v),
                   X \union {[name |-> n, at |-> m, v |-> v]}, n, m)
<1> DEFINE new == [name |-> n, at |-> m, v |-> v]
           Y == X \union {new}
           ring2 == Insert(ring, m, v)
<1> SUFFICES ASSUME NEW t \in Nat, Row(t),
                    Floor(m) - Duration < t, t <= Floor(m)
             PROVE  get(ring2, t) = [t |-> t, v |-> Tally(Y, n, t)]
  BY DEF RingExact
<1>1. Floor(m) \in Nat /\ Row(Floor(m)) BY FloorIs, FloorIsRow
<1>2. Index(m) \in Indices /\ Index(t) \in Indices BY IndexIs
<1>3. new.name = n /\ new.at = m /\ new.v = v OBVIOUS
<1>4. CASE t = Floor(m)
  <2>1. Index(t) = Index(m) BY <1>4, PlaceOfMinute
  <2>2. ring2[Index(t)] = [t |-> t, v |-> v] BY <1>2, <1>4, <2>1 DEF Insert
  <2>3. get(ring2, t) = [t |-> t, v |-> v] BY <2>2 DEF get, Row
  <2>4. ASSUME NEW s \in X, s.name = n PROVE Floor(s.at) # t
    <3>1. s.at \in Nat /\ s.at + Resolution <= m BY <2>4
    <3>2. Floor(s.at) < Floor(m) BY <3>1, MinutePasses
    <3>3. Floor(s.at) \in Nat BY <3>1, FloorIs
    <3> QED BY <1>1, <1>4, <3>2, <3>3
  <2>5. \A s \in Y : (s.name = n /\ Floor(s.at) = t) => s = new BY <2>4
  <2>6. new \in Y OBVIOUS
  <2> HIDE DEF new, Y, ring2
  <2>7. Tally(Y, n, t) = v BY <1>3, <1>4, <2>5, <2>6, TallyIs
  <2> QED BY <2>3, <2>7
<1>5. CASE t # Floor(m)
  <2>1. Index(t) # Index(m)
    <3>1. SUFFICES ASSUME Index(t) = Index(Floor(m)) PROVE FALSE
      BY PlaceOfMinute
    <3>2. Duration \in Nat \ {0} BY HistorySizes
    <3>3. t - Floor(m) < Duration /\ Floor(m) - t < Duration BY <1>1, <3>2
    <3>4. t = Floor(m) BY <1>1, <3>1, <3>3, PlacesApart
    <3> QED BY <1>5, <3>4
  <2>2. ring2[Index(t)] = ring[Index(t)] BY <1>2, <2>1 DEF Insert
  <2>3. get(ring2, t) = get(ring, t) BY <2>2 DEF get
  <2>4. get(ring, t) = [t |-> t, v |-> Tally(X, n, t)] BY DEF RingExact
  <2>5. Floor(new.at) # t BY <1>3, <1>5
  <2>6. Tally(Y, n, t) = Tally(X, n, t)
    <3>1. \A s : (s \in Y /\ s.name = n /\ Floor(s.at) = t)
                   <=> (s \in X /\ s.name = n /\ Floor(s.at) = t)
      <4>1. \A s : s \in Y <=> (s \in X \/ s = new) OBVIOUS
      <4> HIDE DEF new, Y
      <4> QED BY <2>5, <4>1
    <3> HIDE DEF Y
    <3> QED BY <3>1, TallySame
  <2> QED BY <2>3, <2>4, <2>6
<1> QED BY <1>4, <1>5

\* A sample of one metric is none of another.
LEMMA RingOfOther ==
  ASSUME NEW ring, NEW X, NEW n, NEW new, new.name # n, NEW m,
         RingExact(ring, X, n, m)
  PROVE  RingExact(ring, X \union {new}, n, m)
<1>1. ASSUME NEW t PROVE Tally(X \union {new}, n, t) = Tally(X, n, t)
  <2>1. \A s : (s \in X \union {new} /\ s.name = n /\ Floor(s.at) = t)
                 <=> (s \in X /\ s.name = n /\ Floor(s.at) = t)
    OBVIOUS
  <2> QED BY <2>1, TallySame
<1> QED BY <1>1 DEF RingExact
-----------------------------------------------------------------------------
(* The rows of a chart.                                                    *)

\* The time of the i-th row of a chart read at m.
RowAt(m, i) == Floor(m) - Duration + i * Resolution

\* The rows of a chart are whole minutes, the last Duration up to now.
LEMMA RowAtIs ==
  ASSUME NEW m \in Nat, Duration <= m, NEW i \in 1..K
  PROVE  /\ RowAt(m, i) \in Nat /\ Row(RowAt(m, i))
         /\ Floor(m) - Duration < RowAt(m, i) /\ RowAt(m, i) <= Floor(m)
<1>1. /\ Resolution \in Nat \ {0} /\ Duration \in Nat \ {0} /\ K \in Nat \ {0}
      /\ Duration = Resolution * K
  BY HistorySizes
<1>2. Row(Floor(m)) /\ Floor(m) \in Nat BY FloorIs, FloorIsRow
<1>3. Floor(m) >= Duration
  <2> DEFINE d == 0 + K * Resolution
  <2>1. d = Duration BY <1>1
  <2>2. Row(0) BY <1>1 DEF Row, Floor
  <2>3. d \in Nat /\ K \in Int BY <1>1, <2>1
  <2>4. Row(d) BY <2>2, <2>3, RowPlus
  <2> HIDE DEF d
  <2> QED BY <2>1, <2>3, <2>4, RowBeforeFloor
<1> DEFINE k == i - K
           r == Floor(m) + k * Resolution
<1>4. r = RowAt(m, i)
  <2>1. k * Resolution = i * Resolution - Resolution * K BY <1>1
  <2> QED BY <1>1, <1>2, <2>1 DEF RowAt
<1>5. i * Resolution \in Nat /\ i * Resolution > 0
      /\ i * Resolution <= Resolution * K
  <2>1. i \in Nat /\ i >= 1 /\ i <= K BY <1>1
  <2>2. i * Resolution >= Resolution BY <1>1, <2>1
  <2>3. i * Resolution <= K * Resolution BY <1>1, <2>1
  <2> QED BY <1>1, <2>1, <2>2, <2>3
<1>6. RowAt(m, i) \in Nat BY <1>1, <1>2, <1>3, <1>5 DEF RowAt
<1>7. Row(r)
  <2>1. k \in Int /\ r \in Nat BY <1>1, <1>4, <1>6
  <2> HIDE DEF k
  <2> QED BY <1>2, <2>1, RowPlus
<1> HIDE DEF r
<1> QED BY <1>1, <1>2, <1>4, <1>5, <1>6, <1>7 DEF RowAt

\* A function on 1..n is a sequence.
LEMMA RowsAreSeq ==
  ASSUME NEW n \in Nat, NEW S, NEW f \in [1..n -> S]
  PROVE  f \in Seq(S) /\ Len(f) = n
OBVIOUS

\* What BucketRange hands out of a ring, row by row.
ShowsRows(b, X, n, m) ==
  /\ b \in Seq(Bucket) /\ Len(b) <= K
  /\ \A i \in 1..K :
       /\ Tally(X, n, RowAt(m, i)) \in Nat
       /\ IF i <= Len(b)
          THEN b[i] = [t |-> RowAt(m, i), v |-> Tally(X, n, RowAt(m, i))]
          ELSE Tally(X, n, RowAt(m, i)) = 0

\* A whole Duration has K rows, each with what was sampled in its minute; a
\* last row that is left out is zero.
LEMMA SeriesShowsRows ==
  ASSUME NEW ring, NEW X, NEW n, now \in Nat, Duration <= now,
         RingExact(ring, X, n, now),
         \A x \in Indices : ring[x].v \in Nat
  PROVE  ShowsRows(FromDuration(ring, Duration), X, n, now)
<1> DEFINE R == Resolution
           m == now
           start == m - Duration + R
           first == IF Floor(start) < Floor(m - Duration)
                    THEN Floor(m - Duration) ELSE Floor(start)
           N == (Floor(m) - first) \div R + 1
           all == [i \in 1..N |-> get(ring, first + (i - 1) * R)]
           b == IF all[Len(all)].v = 0 THEN SubSeq(all, 1, Len(all) - 1) ELSE all
           row(i) == [t |-> RowAt(m, i), v |-> Tally(X, n, RowAt(m, i))]
<1>1. FromDuration(ring, Duration) = b BY DEF FromDuration, BucketRange
<1>2. /\ R \in Nat \ {0} /\ Duration \in Nat \ {0} /\ K \in Nat \ {0}
      /\ Duration = R * K
  BY HistorySizes
<1>3. m \in Nat /\ start \in Nat /\ m - Duration \in Nat
      /\ m - Duration <= start /\ start = m - Duration + R
  BY <1>2
<1>4. /\ Floor(m) \in Nat /\ Floor(m) <= m /\ m < Floor(m) + R /\ Row(Floor(m))
  BY <1>3, FloorIs, FloorIsRow
<1>5. 1 \in 1..K BY <1>2
<1>6. RowAt(m, 1) \in Nat /\ Row(RowAt(m, 1))
  BY <1>3, <1>5, RowAtIs
<1>7. RowAt(m, 1) = Floor(m) - Duration + R BY <1>2, <1>4 DEF RowAt
<1> HIDE DEF m, start
<1>8. Floor(start) = RowAt(m, 1)
  <2>1. RowAt(m, 1) <= start /\ start < RowAt(m, 1) + R
    BY <1>2, <1>3, <1>4, <1>6, <1>7
  <2>2. RowAt(m, 1) <= Floor(start) BY <1>3, <1>6, <2>1, RowBeforeFloor
  <2>3. Floor(start) \in Nat /\ Floor(start) <= start /\ Row(Floor(start))
    BY <1>3, FloorIs, FloorIsRow
  <2>4. SUFFICES ASSUME RowAt(m, 1) < Floor(start) PROVE FALSE
    BY <1>6, <2>2, <2>3
  <2>5. RowAt(m, 1) + R <= Floor(start) BY <1>6, <2>3, <2>4, RowsApart
  <2> QED BY <1>2, <1>3, <1>6, <2>1, <2>3, <2>5
<1>9. first = RowAt(m, 1)
  <2>1. Floor(m - Duration) <= Floor(start) BY <1>3, FloorGrows
  <2>2. Floor(m - Duration) \in Nat /\ Floor(start) \in Nat BY <1>3, FloorIs
  <2> QED BY <1>8, <2>1, <2>2
<1>10. N = K
  <2> DEFINE k == K - 1
             x == Floor(m) - first
  <2>1. x = R * k BY <1>2, <1>4, <1>7, <1>9
  <2>2. k \in Nat BY <1>2
  <2> HIDE DEF k, x
  <2>3. x \div R = k BY <1>2, <2>1, <2>2
  <2> QED BY <1>2, <2>3 DEF k, x
<1> HIDE DEF first, N
<1>11. ASSUME NEW i \in 1..K PROVE first + (i - 1) * R = RowAt(m, i)
  <2>1. (i - 1) * R = i * R - R /\ i * R \in Int BY <1>2
  <2> QED BY <1>2, <1>4, <1>7, <1>9, <2>1 DEF RowAt
<1>12. ASSUME NEW i \in 1..K
       PROVE  get(ring, RowAt(m, i)) = row(i) /\ row(i) \in Bucket
  <2>1. /\ RowAt(m, i) \in Nat /\ Row(RowAt(m, i))
        /\ Floor(m) - Duration < RowAt(m, i) /\ RowAt(m, i) <= Floor(m)
    BY <1>3, RowAtIs DEF m
  <2>2. get(ring, RowAt(m, i)) = row(i) BY <2>1 DEF RingExact, m
  <2>3. Index(RowAt(m, i)) \in Indices BY <2>1, IndexIs
  <2>4. get(ring, RowAt(m, i)).v \in Nat BY <2>3 DEF get
  <2>5. row(i).v \in Nat /\ row(i).t \in Nat BY <2>1, <2>2, <2>4
  <2> QED BY <2>2, <2>5 DEF Bucket
<1>13. all = [i \in 1..K |-> get(ring, first + (i - 1) * R)] BY <1>10
<1> HIDE DEF all
<1>14. \A i \in 1..K : all[i] = row(i) BY <1>11, <1>12, <1>13
<1>15. all \in [1..K -> Bucket] BY <1>11, <1>12, <1>13
<1>16. all \in Seq(Bucket) /\ Len(all) = K BY <1>2, <1>15, RowsAreSeq
<1>17. \A i \in 1..K : Tally(X, n, RowAt(m, i)) \in Nat
                         /\ row(i).v = Tally(X, n, RowAt(m, i))
  BY <1>12 DEF Bucket
<1>18. CASE all[Len(all)].v = 0
  <2> DEFINE c == SubSeq(all, 1, K - 1)
  <2>1. c \in Seq(Bucket) /\ Len(c) = K - 1
        /\ \A i \in 1..(K - 1) : c[i] = all[i]
    BY <1>2, <1>16
  <2>2. K \in 1..K BY <1>2
  <2>3. all[K].v = 0 BY <1>16, <1>18
  <2>4. Tally(X, n, RowAt(m, K)) = 0 BY <1>14, <1>17, <2>2, <2>3
  <2>5. b = c BY <1>16, <1>18
  <2> HIDE DEF b, c
  <2>6. ASSUME NEW i \in 1..K
        PROVE  IF i <= Len(c) THEN c[i] = row(i)
                              ELSE Tally(X, n, RowAt(m, i)) = 0
    <3>1. CASE i <= K - 1
      <4>1. i \in 1..(K - 1) /\ i <= Len(c) BY <2>1, <3>1
      <4> QED BY <1>14, <2>1, <4>1
    <3>2. CASE i = K BY <1>2, <2>1, <2>4, <3>2
    <3> QED BY <1>2, <3>1, <3>2
  <2>7. Len(c) <= K BY <1>2, <2>1
  <2> QED BY <1>1, <1>17, <2>1, <2>5, <2>6, <2>7 DEF ShowsRows, m
<1>19. CASE all[Len(all)].v # 0
  <2>1. b = all BY <1>19
  <2> HIDE DEF b
  <2> QED BY <1>1, <1>2, <1>14, <1>16, <1>17, <2>1 DEF ShowsRows, m
<1> QED BY <1>18, <1>19

\* The rows of a chart of the metrics S.
ChartRows(total, X, S, m) ==
  \A i \in 1..K :
    IF i <= Len(total)
    THEN total[i] = [t |-> RowAt(m, i), v |-> Total(X, S, RowAt(m, i))]
    ELSE Total(X, S, RowAt(m, i)) = 0

\* A chart of no metric is empty, and nothing is missing from it.
LEMMA EmptyChart ==
  ASSUME NEW X, NEW m
  PROVE  ChartRows(<<>>, X, {}, m)
<1>1. \A i \in 1..K : Total(X, {}, RowAt(m, i)) = 0 BY TotalOfNone
<1>2. \A i \in 1..K : ~(i <= Len(<<>>)) OBVIOUS
<1> QED BY <1>1, <1>2 DEF ChartRows

\* A bucket stays one when another is added to it.
LEMMA RaisedBucket ==
  ASSUME NEW x \in Bucket, NEW y \in Bucket
  PROVE  /\ [x EXCEPT !.v = @ + y.v] = [t |-> x.t, v |-> x.v + y.v]
         /\ [t |-> x.t, v |-> x.v + y.v] \in Bucket
<1>1. x.v + y.v \in Nat /\ x.t \in Nat BY DEF Bucket
<1>2. [x EXCEPT !.v = x.v + y.v] = [t |-> x.t, v |-> x.v + y.v] BY DEF Bucket
<1> QED BY <1>1, <1>2 DEF Bucket

\* Adding sequences of buckets up gives one of the longer one's length.
LEMMA AddedIs ==
  ASSUME NEW a \in Seq(Bucket), NEW b \in Seq(Bucket)
  PROVE  /\ Added(a, b) \in Seq(Bucket)
         /\ Len(Added(a, b)) = IF Len(a) < Len(b) THEN Len(b) ELSE Len(a)
         /\ \A i \in 1..Len(Added(a, b)) :
              Added(a, b)[i] =
                IF i > Len(a) THEN b[i]
                ELSE IF i > Len(b) THEN a[i]
                ELSE [t |-> a[i].t, v |-> a[i].v + b[i].v]
<1> DEFINE n == IF Len(a) < Len(b) THEN Len(b) ELSE Len(a)
           cell(i) == IF i > Len(a) THEN b[i]
                      ELSE IF i > Len(b) THEN a[i]
                      ELSE [a[i] EXCEPT !.v = @ + b[i].v]
<1>1. n \in Nat /\ (DOMAIN a) \union (DOMAIN b) = 1..n
      /\ n = (IF Len(a) < Len(b) THEN Len(b) ELSE Len(a))
  OBVIOUS
<1>2. Added(a, b) = [i \in 1..n |-> cell(i)] BY <1>1 DEF Added
<1>3. ASSUME NEW i \in 1..n
      PROVE  /\ cell(i) = IF i > Len(a) THEN b[i]
                          ELSE IF i > Len(b) THEN a[i]
                          ELSE [t |-> a[i].t, v |-> a[i].v + b[i].v]
             /\ cell(i) \in Bucket
  <2>1. CASE i > Len(a)
    <3>1. i \in 1..Len(b) BY <1>1, <2>1
    <3> QED BY <2>1, <3>1
  <2>2. CASE i <= Len(a) /\ i > Len(b)
    <3>1. i \in 1..Len(a) BY <1>1, <2>2
    <3> QED BY <2>2, <3>1
  <2>3. CASE i <= Len(a) /\ i <= Len(b)
    <3>1. i \in 1..Len(a) /\ i \in 1..Len(b) BY <1>1, <2>3
    <3>2. a[i] \in Bucket /\ b[i] \in Bucket BY <3>1
    <3>4. [a[i] EXCEPT !.v = @ + b[i].v]
            = [t |-> a[i].t, v |-> a[i].v + b[i].v]
      BY <3>2, RaisedBucket
    <3>5. [t |-> a[i].t, v |-> a[i].v + b[i].v] \in Bucket
      BY <3>2, RaisedBucket
    <3>6. cell(i) = [a[i] EXCEPT !.v = @ + b[i].v]
      <4>1. ~(i > Len(a)) /\ ~(i > Len(b)) BY <2>3, <3>1
      <4> QED BY <4>1
    <3> HIDE DEF cell
    <3> QED BY <2>3, <3>1, <3>4, <3>5, <3>6
  <2>4. Len(a) \in Nat /\ Len(b) \in Nat OBVIOUS
  <2> HIDE DEF cell
  <2> QED BY <1>1, <2>1, <2>2, <2>3, <2>4
<1> HIDE DEF n, cell
<1>4. Added(a, b) \in [1..n -> Bucket] BY <1>2, <1>3
<1>5. Added(a, b) \in Seq(Bucket) /\ Len(Added(a, b)) = n
  BY <1>1, <1>4, RowsAreSeq
<1>6. \A i \in 1..n : Added(a, b)[i] = cell(i) BY <1>2
<1> QED BY <1>1, <1>3, <1>5, <1>6

\* Adding the rows of one more metric gives the chart with that metric.
LEMMA ChartAdds ==
  ASSUME NEW total \in Seq(Bucket), Len(total) <= K, NEW b, NEW X,
         NEW S, IsFiniteSet(S), NEW n, n \notin S, NEW m,
         ChartRows(total, X, S, m), ShowsRows(b, X, n, m),
         \A k \in S, i \in 1..K : Tally(X, k, RowAt(m, i)) \in Nat
  PROVE  ChartRows(Added(total, b), X, S \union {n}, m)
<1> DEFINE T == S \union {n}
           c == Added(total, b)
<1>1. b \in Seq(Bucket) /\ Len(b) <= K BY DEF ShowsRows
<1>2. /\ c \in Seq(Bucket)
      /\ Len(c) = IF Len(total) < Len(b) THEN Len(b) ELSE Len(total)
      /\ \A i \in 1..Len(c) :
           c[i] = IF i > Len(total) THEN b[i]
                  ELSE IF i > Len(b) THEN total[i]
                  ELSE [t |-> total[i].t, v |-> total[i].v + b[i].v]
  BY <1>1, AddedIs
<1>3. Len(total) \in Nat /\ Len(b) \in Nat /\ Len(c) \in Nat BY <1>1, <1>2
<1> SUFFICES ASSUME NEW i \in 1..K
             PROVE  IF i <= Len(c)
                    THEN c[i] = [t |-> RowAt(m, i), v |-> Total(X, T, RowAt(m, i))]
                    ELSE Total(X, T, RowAt(m, i)) = 0
  BY DEF ChartRows
<1> DEFINE t == RowAt(m, i)
           s == Total(X, S, t)
           v == Tally(X, n, t)
           u == Total(X, T, t)
<1>4. v \in Nat /\ IF i <= Len(b) THEN b[i] = [t |-> t, v |-> v] ELSE v = 0
  BY DEF ShowsRows
<1>5. IF i <= Len(total) THEN total[i] = [t |-> t, v |-> s] ELSE s = 0
  BY DEF ChartRows
<1>6. s \in Nat /\ u = v + s
  <2>1. \A k \in S \union {n} : Tally(X, k, t) \in Nat BY <1>4
  <2> HIDE DEF t
  <2> QED BY <2>1, TotalAdds
<1>7. i \in Nat /\ i >= 1 BY HistorySizes
<1> HIDE DEF c, t, s, v, u
<1>8. IF i <= Len(c) THEN c[i] = [t |-> t, v |-> u] ELSE u = 0
  <2>1. CASE i <= Len(total) /\ i <= Len(b)
    <3>1. i \in 1..Len(c) /\ i <= Len(c) BY <1>2, <1>3, <1>7, <2>1
    <3>2. c[i] = [t |-> total[i].t, v |-> total[i].v + b[i].v]
      BY <1>2, <1>3, <1>7, <2>1, <3>1
    <3>3. total[i] = [t |-> t, v |-> s] /\ b[i] = [t |-> t, v |-> v]
      BY <1>4, <1>5, <2>1
    <3>4. total[i].v + b[i].v = u BY <1>4, <1>6, <3>3
    <3> QED BY <3>1, <3>2, <3>3, <3>4
  <2>2. CASE i <= Len(total) /\ ~(i <= Len(b))
    <3>1. i \in 1..Len(c) /\ i <= Len(c) BY <1>2, <1>3, <1>7, <2>2
    <3>2. c[i] = total[i]
      <4>1. ~(i > Len(total)) /\ i > Len(b) BY <1>3, <1>7, <2>2
      <4> QED BY <1>2, <3>1, <4>1
    <3>3. u = s BY <1>4, <1>6, <2>2
    <3> QED BY <1>5, <2>2, <3>1, <3>2, <3>3
  <2>3. CASE ~(i <= Len(total)) /\ i <= Len(b)
    <3>1. i \in 1..Len(c) /\ i <= Len(c) BY <1>2, <1>3, <1>7, <2>3
    <3>2. c[i] = b[i]
      <4>1. i > Len(total) BY <1>3, <1>7, <2>3
      <4> QED BY <1>2, <3>1, <4>1
    <3>3. u = v BY <1>4, <1>5, <1>6, <2>3
    <3> QED BY <1>4, <2>3, <3>1, <3>2, <3>3
  <2>4. CASE ~(i <= Len(total)) /\ ~(i <= Len(b))
    <3>1. ~(i <= Len(c)) BY <1>2, <1>3, <1>7, <2>4
    <3>2. u = 0 BY <1>4, <1>5, <1>6, <2>4
    <3> QED BY <3>1, <3>2
  <2> QED BY <2>1, <2>2, <2>3, <2>4
<1> QED BY <1>8 DEF t, u
-----------------------------------------------------------------------------
(* The inductive invariant.                                                *)

\* The types, with what a request has added up so far.
HistoryTyped ==
  /\ now \in Duration..MaxNow /\ clears \in 0..MaxClears
  /\ sampler \in [todo : SUBSET Names, wake : 0..(MaxNow + Resolution)]
  /\ known \subseteq Names
  /\ rings \in [Names ->
                  [Indices -> [t : {-1} \union 0..MaxNow, v : 0..MaxNow]]]
  /\ request \in [open : BOOLEAN, todo : SUBSET Names, read : SUBSET Names,
                  since : 0..MaxNow, total : Seq(Bucket)]
  /\ Len(request.total) <= K
  /\ samples \subseteq [name : Names, at : 0..MaxNow, v : 0..MaxNow]

\* The lock of MetricStat: no request is served during an update.  A request
\* reads a series once.
Locked ==
  /\ ~(sampler.todo # {} /\ request.open)
  /\ request.todo \intersect request.read = {}
  /\ request.since <= now

\* A metric that waits for its sample had none for a Resolution, and while the
\* sampler sleeps none is younger than it sleeps.
Spaced ==
  \A s \in samples :
    /\ s.at <= now
    /\ s.name \in sampler.todo => s.at + Resolution <= now
    /\ sampler.todo = {} => s.at + Resolution <= sampler.wake

\* No bucket is of a later time, and each ring shows what was sampled.
RingsExact ==
  \A n \in Names :
    /\ \A x \in Indices : rings[n][x].t <= now
    /\ RingExact(rings[n], samples, n, now)

\* The rows of a request in whose minute the clock still is.
RequestExact ==
  (request.open /\ Floor(request.since) = Floor(now)) =>
    ChartRows(request.total, samples, request.read, now)

\* The inductive invariant.
HistoryInv ==
  HistoryTyped /\ Locked /\ Spaced /\ RingsExact /\ RequestExact

\* The initial states satisfy the invariant.
LEMMA HistoryStarts == HistoryInit => HistoryInv
<1> SUFFICES ASSUME HistoryInit PROVE HistoryInv OBVIOUS
<1> USE DEF HistoryInit
<1>1. /\ Resolution \in Nat \ {0} /\ Duration \in Nat \ {0} /\ MaxNow \in Nat
      /\ MaxClears \in Nat /\ Duration <= MaxNow /\ K \in Nat
  BY HistorySizes
<1>2. NewRing \in [Indices -> [t : {-1} \union 0..MaxNow, v : 0..MaxNow]]
  BY <1>1 DEF NewRing, NoBucket
<1>3. request \in [open : BOOLEAN, todo : SUBSET Names, read : SUBSET Names,
                   since : 0..MaxNow, total : Seq(Bucket)]
      /\ Len(request.total) = 0 /\ ~request.open /\ request.since = 0
      /\ request.todo = {} /\ request.read = {}
  BY <1>1 DEF NoRequest
<1>4. HistoryTyped
  <2>1. now \in Duration..MaxNow /\ clears \in 0..MaxClears BY <1>1
  <2>2. sampler \in [todo : SUBSET Names, wake : 0..(MaxNow + Resolution)]
    BY <1>1
  <2> QED BY <1>1, <1>2, <1>3, <2>1, <2>2 DEF HistoryTyped
<1>5. Locked BY <1>1, <1>3 DEF Locked
<1>6. Spaced BY DEF Spaced
<1>7. RingsExact
  <2>1. \A n \in Names : RingExact(NewRing, {}, n, now) BY NewRingExact
  <2>2. \A n \in Names, x \in Indices : rings[n][x].t <= now
    BY <1>1 DEF NewRing, NoBucket
  <2>3. samples = {} /\ \A n \in Names : rings[n] = NewRing OBVIOUS
  <2> QED BY <2>1, <2>2, <2>3 DEF RingsExact
<1>8. RequestExact BY <1>3 DEF RequestExact
<1> QED BY <1>4, <1>5, <1>6, <1>7, <1>8 DEF HistoryInv

\* What the invariant says of the numbers, once for all actions.
LEMMA HistoryNumbers ==
  ASSUME HistoryInv
  PROVE  /\ now \in Nat /\ Duration <= now /\ now <= MaxNow /\ MaxNow \in Nat
         /\ Resolution \in Nat \ {0} /\ Duration \in Nat \ {0} /\ K \in Nat \ {0}
         /\ \A s \in samples : /\ s.at \in Nat /\ s.v \in Nat /\ s.at <= now
                               /\ s.name \in Names
         /\ \A n \in Names : rings[n] = [x \in Indices |-> rings[n][x]]
         /\ \A n \in Names, x \in Indices :
              rings[n][x].t \in Int /\ rings[n][x].v \in Nat
<1>1. /\ Resolution \in Nat \ {0} /\ Duration \in Nat \ {0} /\ MaxNow \in Nat
      /\ K \in Nat \ {0}
  BY HistorySizes
<1>2. now \in Duration..MaxNow BY DEF HistoryInv, HistoryTyped
<1>3. \A s \in samples : /\ s.at \in 0..MaxNow /\ s.v \in 0..MaxNow
                         /\ s.name \in Names
  BY DEF HistoryInv, HistoryTyped
<1>4. \A s \in samples : s.at <= now BY DEF HistoryInv, Spaced
<1>5. rings \in [Names ->
                   [Indices -> [t : {-1} \union 0..MaxNow, v : 0..MaxNow]]]
  BY DEF HistoryInv, HistoryTyped
<1>6. \A n \in Names : rings[n] = [x \in Indices |-> rings[n][x]] BY <1>5
<1>7. \A n \in Names, x \in Indices :
        rings[n][x].t \in Int /\ rings[n][x].v \in Nat BY <1>1, <1>5
<1> QED BY <1>1, <1>2, <1>3, <1>4, <1>6, <1>7

\* The clock moves, maybe into another minute.
LEMMA ClockKeeps == HistoryInv /\ ClockMoves => HistoryInv'
<1> SUFFICES ASSUME HistoryInv, ClockMoves PROVE HistoryInv' OBVIOUS
<1>1. now' = now + 1 /\ now < MaxNow
      /\ UNCHANGED <<sampler, known, rings, request, clears, samples>>
  BY DEF ClockMoves
<1>2. /\ now \in Nat /\ Duration <= now /\ MaxNow \in Nat /\ Duration \in Nat
      /\ \A s \in samples : s.at \in Nat /\ s.at <= now
      /\ \A n \in Names, x \in Indices : rings[n][x].t \in Int
  BY HistoryNumbers
<1>3. HistoryTyped /\ Locked /\ Spaced /\ RingsExact /\ RequestExact
  BY DEF HistoryInv
<1>4. HistoryTyped'
  <2>1. now' \in Duration..MaxNow BY <1>1, <1>2
  <2> QED BY <1>1, <1>3, <2>1 DEF HistoryTyped
<1>5. Locked'
  <2>1. request.since \in Nat BY <1>3, HistorySizes DEF HistoryTyped
  <2> QED BY <1>1, <1>2, <1>3, <2>1 DEF Locked
<1>6. Spaced' BY <1>1, <1>2, <1>3, HistorySizes DEF Spaced
<1>7. RingsExact'
  <2> SUFFICES ASSUME NEW n \in Names
               PROVE  /\ \A x \in Indices : rings[n][x].t <= now + 1
                      /\ RingExact(rings[n], samples, n, now + 1)
    BY <1>1 DEF RingsExact
  <2>1. RingExact(rings[n], samples, n, now)
        /\ \A x \in Indices : rings[n][x].t <= now
    BY <1>3 DEF RingsExact
  <2>2. RingExact(rings[n], samples, n, now + 1) BY <1>2, <2>1, RingWaits
  <2> QED BY <1>2, <2>1, <2>2
<1>8. RequestExact'
  <2> SUFFICES ASSUME request.open, Floor(request.since) = Floor(now + 1)
               PROVE  ChartRows(request.total, samples, request.read, now + 1)
    BY <1>1 DEF RequestExact
  <2>1. request.since \in Nat /\ request.since <= now
    BY <1>3, HistorySizes DEF HistoryTyped, Locked
  <2>2. Floor(request.since) <= Floor(now) /\ Floor(now) <= Floor(now + 1)
    BY <1>2, <2>1, FloorGrows
  <2>3. Floor(now) \in Nat /\ Floor(now + 1) \in Nat BY <1>2, FloorIs
  <2>4. Floor(now) = Floor(now + 1) BY <2>2, <2>3
  <2>5. \A i : RowAt(now, i) = RowAt(now + 1, i) BY <2>4 DEF RowAt
  <2>6. ChartRows(request.total, samples, request.read, now)
    BY <1>3, <2>4 DEF RequestExact
  <2> QED BY <2>5, <2>6 DEF ChartRows
<1> QED BY <1>4, <1>5, <1>6, <1>7, <1>8 DEF HistoryInv

\* An update begins when the sampler has slept.
LEMMA UpdateKeeps == HistoryInv /\ UpdateStarts => HistoryInv'
<1> SUFFICES ASSUME HistoryInv, UpdateStarts PROVE HistoryInv' OBVIOUS
<1>1. /\ sampler.todo = {} /\ ~request.open /\ now >= sampler.wake
      /\ sampler' = [sampler EXCEPT !.todo = Names]
      /\ UNCHANGED <<now, known, rings, request, clears, samples>>
  BY DEF UpdateStarts, Updating, Reading
<1>2. HistoryTyped /\ Locked /\ Spaced /\ RingsExact /\ RequestExact
  BY DEF HistoryInv
<1>3. sampler \in [todo : SUBSET Names, wake : 0..(MaxNow + Resolution)]
  BY <1>2 DEF HistoryTyped
<1>4. sampler'.todo = Names /\ sampler'.wake = sampler.wake BY <1>1, <1>3
<1>5. sampler' \in [todo : SUBSET Names, wake : 0..(MaxNow + Resolution)]
  BY <1>1, <1>3
<1>6. HistoryTyped' BY <1>1, <1>2, <1>5 DEF HistoryTyped
<1>7. Locked' BY <1>1, <1>2 DEF Locked
<1>8. Spaced'
  <2>1. sampler.wake \in Nat /\ now \in Nat /\ Resolution \in Nat
    BY <1>3, HistorySizes, HistoryNumbers
  <2>2. \A s \in samples : /\ s.at \in Nat /\ s.at <= now
                           /\ s.at + Resolution <= sampler.wake
    BY <1>1, <1>2, HistoryNumbers DEF Spaced
  <2>3. \A s \in samples : s.at + Resolution <= now BY <1>1, <2>1, <2>2
  <2> QED BY <1>1, <1>4, <2>2, <2>3 DEF Spaced
<1>9. RingsExact' BY <1>1, <1>2 DEF RingsExact
<1>10. RequestExact' BY <1>1, <1>2 DEF RequestExact
<1> QED BY <1>6, <1>7, <1>8, <1>9, <1>10 DEF HistoryInv

\* A metric is sampled; no other had its sample of this round lost.
LEMMA SampleKeeps ==
  ASSUME HistoryInv, NEW n \in Names, Sample(n)
  PROVE  HistoryInv'
<1>1. PICK value \in {0, now} :
        /\ rings' = [rings EXCEPT ![n] = Insert(@, now, value)]
        /\ samples' = samples \union {[name |-> n, at |-> now, v |-> value]}
  BY DEF Sample
<1> DEFINE new == [name |-> n, at |-> now, v |-> value]
<1>2. /\ n \in sampler.todo /\ known' = known \union {n}
      /\ sampler' = [todo |-> sampler.todo \ {n},
                     wake |-> IF sampler.todo = {n} THEN now + Resolution
                                                    ELSE sampler.wake]
      /\ UNCHANGED <<now, request, clears>>
  BY DEF Sample
<1>3. HistoryTyped /\ Locked /\ Spaced /\ RingsExact /\ RequestExact
  BY DEF HistoryInv
<1>4. /\ now \in Nat /\ now <= MaxNow /\ MaxNow \in Nat
      /\ Resolution \in Nat \ {0} /\ value \in Nat /\ value <= now
      /\ \A s \in samples : s.at \in Nat /\ s.at <= now
      /\ \A m \in Names : rings[m] = [x \in Indices |-> rings[m][x]]
  <2>1. /\ now \in Nat /\ now <= MaxNow /\ MaxNow \in Nat
        /\ Resolution \in Nat \ {0}
        /\ \A s \in samples : s.at \in Nat /\ s.at <= now
        /\ \A m \in Names : rings[m] = [x \in Indices |-> rings[m][x]]
    BY HistoryNumbers
  <2>2. value = 0 \/ value = now OBVIOUS
  <2>3. value \in Nat /\ value <= now BY <2>1, <2>2
  <2> QED BY <2>1, <2>3, Zenon
<1>5. /\ new.name = n /\ new.at = now /\ new.v = value
      /\ new \in [name : Names, at : 0..MaxNow, v : 0..MaxNow]
  BY <1>4
<1>6. samples' = samples \union {new} BY <1>1
<1>7. /\ sampler'.todo = sampler.todo \ {n}
      /\ sampler'.wake = IF sampler.todo = {n} THEN now + Resolution
                                               ELSE sampler.wake
  BY <1>2
<1>8. rings \in [Names ->
                   [Indices -> [t : {-1} \union 0..MaxNow, v : 0..MaxNow]]]
  BY <1>3 DEF HistoryTyped
<1>9. /\ rings'[n] = Insert(rings[n], now, value)
      /\ \A m \in Names : m # n => rings'[m] = rings[m]
  BY <1>1, <1>8
<1> HIDE DEF new
<1>10. /\ Index(now) \in Indices /\ Floor(now) \in Nat /\ Floor(now) <= now
  BY <1>4, FloorIs, IndexIs
<1>11. \A x \in Indices : Insert(rings[n], now, value)[x]
                            = IF x = Index(now)
                              THEN [t |-> Floor(now), v |-> value]
                              ELSE rings[n][x]
  BY <1>8, <1>10 DEF Insert
<1>12. HistoryTyped'
  <2>1. sampler' \in [todo : SUBSET Names, wake : 0..(MaxNow + Resolution)]
    <3>1. sampler \in [todo : SUBSET Names, wake : 0..(MaxNow + Resolution)]
      BY <1>3 DEF HistoryTyped
    <3>2. now + Resolution \in 0..(MaxNow + Resolution) BY <1>4
    <3> QED BY <1>2, <3>1, <3>2
  <2>2. Insert(rings[n], now, value)
          \in [Indices -> [t : {-1} \union 0..MaxNow, v : 0..MaxNow]]
    <3>1. [t |-> Floor(now), v |-> value]
            \in [t : {-1} \union 0..MaxNow, v : 0..MaxNow]
      BY <1>4, <1>10
    <3> QED BY <1>8, <3>1 DEF Insert
  <2>3. rings' \in [Names ->
                      [Indices -> [t : {-1} \union 0..MaxNow, v : 0..MaxNow]]]
    BY <1>1, <1>8, <2>2
  <2>4. samples' \subseteq [name : Names, at : 0..MaxNow, v : 0..MaxNow]
    BY <1>3, <1>5, <1>6 DEF HistoryTyped
  <2>5. known' \subseteq Names BY <1>2, <1>3 DEF HistoryTyped
  <2> QED BY <1>2, <1>3, <2>1, <2>3, <2>4, <2>5 DEF HistoryTyped
<1>13. Locked' BY <1>2, <1>3, <1>7 DEF Locked
<1>14. Spaced'
  <2> SUFFICES ASSUME NEW s \in samples'
               PROVE  /\ s.at <= now
                      /\ s.name \in sampler'.todo => s.at + Resolution <= now
                      /\ sampler'.todo = {} => s.at + Resolution <= sampler'.wake
    BY <1>2 DEF Spaced
  <2>1. sampler'.todo = {} => sampler'.wake = now + Resolution
    BY <1>2, <1>7
  <2>2. CASE s = new BY <1>4, <1>5, <1>7, <2>1, <2>2
  <2>3. CASE s \in samples
    <3>1. /\ s.at \in Nat /\ s.at <= now
          /\ s.name \in sampler.todo => s.at + Resolution <= now
      BY <1>3, <1>4, <2>3 DEF Spaced
    <3> QED BY <1>4, <1>7, <2>1, <3>1
  <2> QED BY <1>6, <2>2, <2>3
<1>15. RingsExact'
  <2> SUFFICES ASSUME NEW m \in Names
               PROVE  /\ \A x \in Indices : rings'[m][x].t <= now
                      /\ RingExact(rings'[m], samples', m, now)
    BY <1>2 DEF RingsExact
  <2>1. RingExact(rings[m], samples, m, now)
        /\ \A x \in Indices : rings[m][x].t <= now
    BY <1>3 DEF RingsExact
  <2>2. CASE m = n
    <3>1. \A s \in samples :
            s.at \in Nat /\ (s.name = n => s.at + Resolution <= now)
      BY <1>2, <1>3, <1>4 DEF Spaced
    <3>2. rings[n] = [x \in Indices |-> rings[n][x]] BY <1>4
    <3>3. RingExact(Insert(rings[n], now, value),
                    samples \union {[name |-> n, at |-> now, v |-> value]},
                    n, now)
      BY <1>4, <2>1, <2>2, <3>1, <3>2, RingTakes
    <3>4. RingExact(rings'[m], samples', m, now)
      BY <1>1, <1>9, <2>2, <3>3
    <3>5. \A x \in Indices : rings'[m][x].t <= now
      BY <1>9, <1>10, <1>11, <2>1, <2>2
    <3> QED BY <3>4, <3>5
  <2>3. CASE m # n
    <3>1. rings'[m] = rings[m] BY <1>9, <2>3
    <3>2. RingExact(rings[m], samples \union {new}, m, now)
      BY <1>5, <2>1, <2>3, RingOfOther
    <3> QED BY <1>6, <2>1, <3>1, <3>2
  <2> QED BY <2>2, <2>3
<1>16. RequestExact'
  <2>1. ~request'.open BY <1>2, <1>3 DEF Locked
  <2> QED BY <2>1 DEF RequestExact
<1> QED BY <1>12, <1>13, <1>14, <1>15, <1>16 DEF HistoryInv

\* Clear leaves neither buckets nor samples.
LEMMA ClearKeeps == HistoryInv /\ ClearHistory => HistoryInv'
<1> SUFFICES ASSUME HistoryInv, ClearHistory PROVE HistoryInv' OBVIOUS
<1>1. /\ sampler.todo = {} /\ ~request.open /\ clears < MaxClears
      /\ clears' = clears + 1 /\ samples' = {}
      /\ rings' = [n \in Names |-> NewRing]
      /\ UNCHANGED <<now, sampler, known, request>>
  BY DEF ClearHistory, Updating, Reading
<1>2. HistoryTyped /\ Locked BY DEF HistoryInv
<1>3. now \in Nat /\ MaxNow \in Nat BY HistoryNumbers
<1>4. HistoryTyped'
  <2>1. clears' \in 0..MaxClears
    BY <1>1, <1>2, HistorySizes DEF HistoryTyped
  <2>2. NewRing \in [Indices -> [t : {-1} \union 0..MaxNow, v : 0..MaxNow]]
    BY <1>3 DEF NewRing, NoBucket
  <2>3. rings' \in [Names ->
                      [Indices -> [t : {-1} \union 0..MaxNow, v : 0..MaxNow]]]
    BY <1>1, <2>2
  <2> QED BY <1>1, <1>2, <2>1, <2>3 DEF HistoryTyped
<1>5. Locked' BY <1>1, <1>2 DEF Locked
<1>6. Spaced' BY <1>1 DEF Spaced
<1>7. RingsExact'
  <2>1. \A n \in Names : RingExact(NewRing, {}, n, now) BY NewRingExact
  <2>2. \A x \in Indices : NewRing[x].t <= now BY <1>3 DEF NewRing, NoBucket
  <2>3. \A n \in Names : rings'[n] = NewRing BY <1>1
  <2> QED BY <1>1, <2>1, <2>2, <2>3 DEF RingsExact
<1>8. RequestExact' BY <1>1 DEF RequestExact
<1> QED BY <1>4, <1>5, <1>6, <1>7, <1>8 DEF HistoryInv

\* A request begins with an empty chart.
LEMMA RequestKeeps == HistoryInv /\ RequestStarts => HistoryInv'
<1> SUFFICES ASSUME HistoryInv, RequestStarts PROVE HistoryInv' OBVIOUS
<1>1. /\ sampler.todo = {} /\ ~request.open
      /\ request' = [NoRequest EXCEPT !.open = TRUE, !.todo = known,
                                      !.since = now]
      /\ UNCHANGED <<now, sampler, known, rings, clears, samples>>
  BY DEF RequestStarts, Updating, Reading
<1>2. HistoryTyped /\ Spaced /\ RingsExact BY DEF HistoryInv
<1>3. now \in Nat /\ now <= MaxNow /\ MaxNow \in Nat /\ K \in Nat
  BY HistoryNumbers
<1>4. request' = [open |-> TRUE, todo |-> known, read |-> {}, since |-> now,
                  total |-> <<>>]
  BY <1>1 DEF NoRequest
<1>5. HistoryTyped'
  <2>1. known \subseteq Names BY <1>2 DEF HistoryTyped
  <2>2. <<>> \in Seq(Bucket) /\ Len(<<>>) <= K BY <1>3
  <2>3. request' \in [open : BOOLEAN, todo : SUBSET Names, read : SUBSET Names,
                      since : 0..MaxNow, total : Seq(Bucket)]
        /\ Len(request'.total) <= K
    BY <1>3, <1>4, <2>1, <2>2
  <2> QED BY <1>1, <1>2, <2>3 DEF HistoryTyped
<1>6. Locked'
  <2>1. sampler'.todo = {} /\ now' = now BY <1>1
  <2>2. request'.read = {} /\ request'.since = now BY <1>4
  <2>3. request'.todo \intersect request'.read = {} BY <2>2
  <2>4. request'.since <= now' BY <1>3, <2>1, <2>2
  <2> QED BY <2>1, <2>3, <2>4 DEF Locked
<1>7. Spaced' BY <1>1, <1>2 DEF Spaced
<1>8. RingsExact' BY <1>1, <1>2 DEF RingsExact
<1>9. RequestExact'
  <2>1. ChartRows(<<>>, samples, {}, now) BY EmptyChart
  <2>2. request'.total = <<>> /\ request'.read = {} BY <1>4
  <2>3. now' = now /\ samples' = samples BY <1>1
  <2> QED BY <2>1, <2>2, <2>3 DEF RequestExact
<1> QED BY <1>5, <1>6, <1>7, <1>8, <1>9 DEF HistoryInv

\* A series that is no hash rate leaves the chart as it is.
LEMMA SkippedKeeps ==
  ASSUME HistoryInv, NEW n \in Names, ReadSeries(n), n \notin Rates
  PROVE  HistoryInv'
<1>1. /\ request' = [request EXCEPT !.todo = @ \ {n}]
      /\ UNCHANGED <<now, sampler, known, rings, clears, samples>>
  BY DEF ReadSeries
<1>2. HistoryTyped /\ Locked /\ Spaced /\ RingsExact /\ RequestExact
  BY DEF HistoryInv
<1>3. request \in [open : BOOLEAN, todo : SUBSET Names, read : SUBSET Names,
                   since : 0..MaxNow, total : Seq(Bucket)]
      /\ Len(request.total) <= K
  BY <1>2 DEF HistoryTyped
<1>4. request' = [open |-> request.open, todo |-> request.todo \ {n},
                  read |-> request.read, since |-> request.since,
                  total |-> request.total]
  BY <1>1, <1>3
<1>5. HistoryTyped'
  <2>1. request' \in [open : BOOLEAN, todo : SUBSET Names, read : SUBSET Names,
                      since : 0..MaxNow, total : Seq(Bucket)]
        /\ Len(request'.total) <= K
    BY <1>3, <1>4
  <2> QED BY <1>1, <1>2, <2>1 DEF HistoryTyped
<1>6. Locked' BY <1>1, <1>2, <1>4 DEF Locked
<1>7. Spaced' BY <1>1, <1>2 DEF Spaced
<1>8. RingsExact' BY <1>1, <1>2 DEF RingsExact
<1>9. RequestExact' BY <1>1, <1>2, <1>4 DEF RequestExact
<1> QED BY <1>5, <1>6, <1>7, <1>8, <1>9 DEF HistoryInv

\* The series of a hash rate is read: its rows are added to the chart.
LEMMA SeriesKeeps ==
  ASSUME HistoryInv, NEW n \in Names, ReadSeries(n), n \in Rates
  PROVE  HistoryInv'
<1> DEFINE b == FromDuration(rings[n], Duration)
<1>1. /\ n \in request.todo
      /\ request' = [request EXCEPT
                       !.todo = @ \ {n}, !.read = @ \union {n},
                       !.total = Added(@, b)]
      /\ UNCHANGED <<now, sampler, known, rings, clears, samples>>
  BY DEF ReadSeries
<1>2. HistoryTyped /\ Locked /\ Spaced /\ RingsExact /\ RequestExact
  BY DEF HistoryInv
<1>3. now \in Nat /\ Duration <= now /\ K \in Nat
      /\ \A m \in Names, x \in Indices : rings[m][x].v \in Nat
  BY HistoryNumbers
<1>4. request \in [open : BOOLEAN, todo : SUBSET Names, read : SUBSET Names,
                   since : 0..MaxNow, total : Seq(Bucket)]
      /\ Len(request.total) <= K
  BY <1>2 DEF HistoryTyped
<1>5. ASSUME NEW m \in Names
      PROVE  ShowsRows(FromDuration(rings[m], Duration), samples, m, now)
  <2>1. RingExact(rings[m], samples, m, now) BY <1>2 DEF RingsExact
  <2>2. \A x \in Indices : rings[m][x].v \in Nat BY <1>3
  <2> QED BY <1>3, <2>1, <2>2, SeriesShowsRows
<1>6. ShowsRows(b, samples, n, now) BY <1>5
<1> HIDE DEF b
<1>7. b \in Seq(Bucket) /\ Len(b) <= K BY <1>6 DEF ShowsRows
<1>8. Added(request.total, b) \in Seq(Bucket)
      /\ Len(Added(request.total, b)) <= K
  <2>1. request.total \in Seq(Bucket) BY <1>4
  <2> QED BY <1>4, <1>7, <2>1, AddedIs
<1>9. request' = [open |-> request.open, todo |-> request.todo \ {n},
                  read |-> request.read \union {n}, since |-> request.since,
                  total |-> Added(request.total, b)]
  BY <1>1, <1>4
<1>10. HistoryTyped'
  <2>1. request' \in [open : BOOLEAN, todo : SUBSET Names, read : SUBSET Names,
                      since : 0..MaxNow, total : Seq(Bucket)]
        /\ Len(request'.total) <= K
    BY <1>4, <1>8, <1>9
  <2> QED BY <1>1, <1>2, <2>1 DEF HistoryTyped
<1>11. Locked' BY <1>1, <1>2, <1>9 DEF Locked
<1>12. Spaced' BY <1>1, <1>2 DEF Spaced
<1>13. RingsExact' BY <1>1, <1>2 DEF RingsExact
<1>14. RequestExact'
  <2> SUFFICES ASSUME request.open, Floor(request.since) = Floor(now)
               PROVE  ChartRows(Added(request.total, b), samples,
                                request.read \union {n}, now)
    BY <1>1, <1>9 DEF RequestExact
  <2>1. ChartRows(request.total, samples, request.read, now)
    BY <1>2 DEF RequestExact
  <2>2. n \notin request.read BY <1>1, <1>2 DEF Locked
  <2>3. request.read \subseteq Names /\ request.total \in Seq(Bucket) BY <1>4
  <2>4. IsFiniteSet(request.read) BY <2>3, HistorySizes, FS_Subset
  <2>5. \A k \in request.read, i \in 1..K :
          Tally(samples, k, RowAt(now, i)) \in Nat
    <3>1. \A k \in request.read : k \in Names BY <2>3
    <3> QED BY <1>5, <3>1 DEF ShowsRows
  <2> QED BY <1>4, <1>6, <2>1, <2>2, <2>3, <2>4, <2>5, ChartAdds
<1> QED BY <1>10, <1>11, <1>12, <1>13, <1>14 DEF HistoryInv

\* A request ends and leaves no chart.
LEMMA RequestEndKeeps == HistoryInv /\ RequestEnds => HistoryInv'
<1> SUFFICES ASSUME HistoryInv, RequestEnds PROVE HistoryInv' OBVIOUS
<1>1. request' = NoRequest
      /\ UNCHANGED <<now, sampler, known, rings, clears, samples>>
  BY DEF RequestEnds
<1>2. HistoryTyped /\ Locked /\ Spaced /\ RingsExact BY DEF HistoryInv
<1>3. now \in Nat /\ MaxNow \in Nat /\ K \in Nat BY HistoryNumbers
<1>4. HistoryTyped'
  <2>1. <<>> \in Seq(Bucket) /\ Len(<<>>) <= K BY <1>3
  <2>2. request' \in [open : BOOLEAN, todo : SUBSET Names, read : SUBSET Names,
                      since : 0..MaxNow, total : Seq(Bucket)]
        /\ Len(request'.total) <= K
    BY <1>1, <1>3, <2>1 DEF NoRequest
  <2> QED BY <1>1, <1>2, <2>2 DEF HistoryTyped
<1>5. Locked' BY <1>1, <1>3 DEF Locked, NoRequest
<1>6. Spaced' BY <1>1, <1>2 DEF Spaced
<1>7. RingsExact' BY <1>1, <1>2 DEF RingsExact
<1>8. RequestExact' BY <1>1 DEF RequestExact, NoRequest
<1> QED BY <1>4, <1>5, <1>6, <1>7, <1>8 DEF HistoryInv

\* Every step keeps the invariant.
LEMMA HistoryStep == HistoryInv /\ [HistoryNext]_historyVars => HistoryInv'
<1> SUFFICES ASSUME HistoryInv, [HistoryNext]_historyVars PROVE HistoryInv'
  OBVIOUS
<1>1. CASE ClockMoves BY <1>1, ClockKeeps
<1>2. CASE UpdateStarts BY <1>2, UpdateKeeps
<1>3. CASE ClearHistory BY <1>3, ClearKeeps
<1>4. CASE RequestStarts BY <1>4, RequestKeeps
<1>5. CASE RequestEnds BY <1>5, RequestEndKeeps
<1>6. ASSUME NEW n \in Names, Sample(n) PROVE HistoryInv' BY <1>6, SampleKeeps
<1>7. ASSUME NEW n \in Names, ReadSeries(n) PROVE HistoryInv'
  BY <1>7, SeriesKeeps, SkippedKeeps
<1>8. CASE UNCHANGED historyVars
  BY <1>8 DEF historyVars, HistoryInv, HistoryTyped, Locked, Spaced, RingsExact,
              RequestExact
<1> QED BY <1>1, <1>2, <1>3, <1>4, <1>5, <1>6, <1>7, <1>8 DEF HistoryNext

\* The dashboard's sampler, its rings and its requests keep the invariant.
THEOREM HistoryInvariance == HistorySpec => []HistoryInv
<1>1. HistoryInit => HistoryInv BY HistoryStarts
<1>2. HistoryInv /\ [HistoryNext]_historyVars => HistoryInv' BY HistoryStep
<1> QED BY <1>1, <1>2, PTL DEF HistorySpec

\* What the invariant says of types is the type invariant.
LEMMA HistoryTypesFollow == HistoryInv => HistoryTypeOK
<1> SUFFICES ASSUME HistoryTyped PROVE HistoryTypeOK BY DEF HistoryInv
<1>1. /\ now \in Duration..MaxNow /\ clears \in 0..MaxClears
      /\ sampler.todo \subseteq Names
      /\ sampler.wake \in 0..(MaxNow + Resolution)
      /\ known \subseteq Names
  BY DEF HistoryTyped
<1>2. /\ request.todo \subseteq Names /\ request.read \subseteq Names
      /\ Len(request.total) <= Duration \div Resolution
  BY DEF HistoryTyped, K
<1>3. \A n \in Names, x \in Indices :
        rings[n][x] \in [t : {-1} \union 0..MaxNow, v : 0..MaxNow]
  BY DEF HistoryTyped
<1> QED BY <1>1, <1>2, <1>3 DEF HistoryTypeOK

\* A chart that is finished in its minute shows exactly the samples.
LEMMA ChartFollows == HistoryInv => ChartIsExact
<1> SUFFICES ASSUME HistoryInv, request.open, Floor(request.since) = Floor(now)
             PROVE  ChartIsExact
  BY DEF ChartIsExact, Reading
<1>1. ChartRows(request.total, samples, request.read, now)
  BY DEF HistoryInv, RequestExact
<1> QED BY <1>1, Zenon DEF ChartIsExact, ChartRows, RowAt, Total, Tally, Sampled, K

\* The clock, the sampler, the rings and the requests have their types.
THEOREM HistoryTypeCorrect == HistorySpec => []HistoryTypeOK
BY HistoryInvariance, HistoryTypesFollow, PTL

\* Unless a minute begins while a request is served, each row of a chart is the
\* sum of what was sampled of the metrics in that one minute (chartData of
\* http.go over the rings of ts.go), for any number of metrics and any length
\* of the history, whatever the sampler and Clear do between the requests.
THEOREM ChartIsExactHolds == HistorySpec => []ChartIsExact
BY HistoryInvariance, ChartFollows, PTL
=============================================================================
