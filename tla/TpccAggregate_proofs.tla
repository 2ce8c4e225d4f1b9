-------------------------- MODULE TpccAggregate_proofs --------------------------
(* What the aggregator reports is the sum over all instances, and the percentiles *)
(* of its merged histograms are those of all transactions taken together: for any *)
(* number of instances, any samples, any limits of the buckets, and any order in  *)
(* which the directory lists the instances.                                       *)
EXTENDS TpccAggregate, FiniteSetTheorems, WellFoundedInduction, TLAPS

-----------------------------------------------------------------------------
(* Folds and sums.  The induction is on a smallest counterexample.             *)

\* A property of some finite subsets of S holds of one that has no smaller one.
LEMMA SmallestSet ==
    ASSUME NEW S, IsFiniteSet(S), NEW Bad \in SUBSET (SUBSET S), Bad # {}
    PROVE  \E T \in Bad : \A U \in Bad : U \subseteq T => U = T
<1>1. \A T \in SUBSET S : IsFiniteSet(T)
  BY FS_Subset
<1>2. Bad \subseteq FiniteSubsetsOf(S)
  BY <1>1 DEF FiniteSubsetsOf
<1>3. IsWellFoundedOn(StrictSubsetOrdering(S), FiniteSubsetsOf(S))
  BY FS_StrictSubsetOrderingWellFounded
<1>4. PICK T \in Bad : \A U \in Bad : ~(<<U, T>> \in StrictSubsetOrdering(S))
  BY <1>2, <1>3, WFMin
<1>5. ASSUME NEW U \in Bad, U \subseteq T, U # T PROVE FALSE
  <2>1. <<U, T>> \in (SUBSET S) \X (SUBSET S)
    OBVIOUS
  <2>2. <<U, T>>[1] = U /\ <<U, T>>[2] = T
    OBVIOUS
  <2>3. <<U, T>> \in StrictSubsetOrdering(S)
    BY <1>5, <2>1, <2>2 DEF StrictSubsetOrdering
  <2> QED
    BY <1>4, <2>3
<1> QED
  BY <1>4, <1>5

\* The same for natural numbers.
LEMMA SmallestNumber ==
    ASSUME NEW Bad \in SUBSET Nat, Bad # {}
    PROVE  \E n \in Bad : \A m \in Bad : n <= m
<1>1. PICK x \in Bad : \A y \in Bad : ~(<<y, x>> \in OpToRel(<, Nat))
  BY NatLessThanWellFounded, WFMin
<1>2. ASSUME NEW y \in Bad PROVE x <= y
  <2>1. SUFFICES ASSUME y < x PROVE FALSE
    OBVIOUS
  <2>2. <<y, x>> \in Nat \X Nat /\ <<y, x>>[1] = y /\ <<y, x>>[2] = x
    OBVIOUS
  <2>3. <<y, x>> \in OpToRel(<, Nat)
    BY <2>1, <2>2 DEF OpToRel
  <2> QED
    BY <1>1, <2>3
<1> QED
  BY <1>2

\* g[s] is base with F applied to it and the elements of s, each taken by c in turn.
IsFoldOf(g, S, V, base, F, c) ==
    /\ g = [s \in SUBSET S |-> IF s = {} THEN base ELSE F[<<c[s], g[s \ {c[s]}]>>]]
    /\ \A s \in SUBSET S : g[s] \in V

\* Recursion over the subsets of a finite set is well defined.
LEMMA FoldExists ==
    ASSUME NEW S, IsFiniteSet(S), NEW V, NEW base \in V, NEW F \in [S \X V -> V],
           NEW c, \A s \in SUBSET S : s # {} => c[s] \in s
    PROVE  \E g : IsFoldOf(g, S, V, base, F, c)
<1> DEFINE Small(n) == {s \in SUBSET S : Cardinality(s) <= n}
           Good(g, n) == \A s \in Small(n) :
                            /\ g[s] \in V
                            /\ g[s] = IF s = {} THEN base ELSE F[<<c[s], g[s \ {c[s]}]>>]
           Bad == {n \in Nat : ~\E g : Good(g, n)}
<1>0. \A s \in SUBSET S : IsFiniteSet(s) /\ Cardinality(s) \in Nat
  BY FS_Subset, FS_CardinalityType
<1>1. \A s \in SUBSET S, x \in S : x \in s =>
         s \ {x} \in SUBSET S /\ Cardinality(s \ {x}) = Cardinality(s) - 1
  BY <1>0, FS_RemoveElement
<1>2. Bad = {}
  <2>1. SUFFICES ASSUME Bad # {} PROVE FALSE
    OBVIOUS
  <2>2. PICK n \in Bad : \A m \in Bad : n <= m
    BY <2>1, SmallestNumber
  <2>3. CASE n = 0
    <3>1. PICK g : g = [s \in SUBSET S |-> base]
      OBVIOUS
    <3>2. \A s \in Small(0) : s = {}
      BY <1>0, FS_EmptySet
    <3>3. Good(g, 0)
      BY <3>1, <3>2
    <3> QED
      BY <2>2, <2>3, <3>3
  <2>4. CASE n # 0
    <3>0. n - 1 \in Nat /\ ~(n <= n - 1)
      BY <2>4
    <3>1. n - 1 \notin Bad
      <4> HIDE DEF Bad
      <4> QED
        BY <2>2, <3>0
    <3>2. PICK g : Good(g, n - 1)
      BY <3>0, <3>1
    <3>3. PICK h : h = [s \in SUBSET S |-> IF s = {} THEN base ELSE F[<<c[s], g[s \ {c[s]}]>>]]
      OBVIOUS
    <3>4. ASSUME NEW s \in Small(n - 1) PROVE h[s] = g[s]
      BY <3>2, <3>3
    <3>5. ASSUME NEW s \in Small(n), s # {}
          PROVE  s \ {c[s]} \in Small(n - 1)
      <4>1. Cardinality(s \ {c[s]}) = Cardinality(s) - 1 /\ s \ {c[s]} \in SUBSET S
        BY <1>1, <3>5
      <4>2. Cardinality(s) \in Nat /\ Cardinality(s) <= n /\ n \in Nat
        BY <1>0
      <4> QED
        BY <4>1, <4>2
    <3>6. ASSUME NEW s \in Small(n)
          PROVE  h[s] \in V /\ h[s] = IF s = {} THEN base ELSE F[<<c[s], h[s \ {c[s]}]>>]
      <4>1. CASE s = {}
        BY <4>1, <3>3
      <4>2. CASE s # {}
        <5>1. s \ {c[s]} \in Small(n - 1)
          BY <3>5, <4>2
        <5>2. h[s \ {c[s]}] = g[s \ {c[s]}] /\ g[s \ {c[s]}] \in V
          BY <3>2, <3>4, <5>1
        <5>3. h[s] = F[<<c[s], g[s \ {c[s]}]>>]
          BY <3>3, <4>2
        <5>4. <<c[s], g[s \ {c[s]}]>> \in S \X V
          BY <4>2, <5>2
        <5> QED
          BY <4>2, <5>2, <5>3, <5>4
      <4> QED
        BY <4>1, <4>2
    <3>7. Good(h, n)
      BY <3>6
    <3> QED
      BY <2>2, <3>7
  <2> QED
    BY <2>3, <2>4
<1>3. Cardinality(S) \in Nat
  BY FS_CardinalityType
<1>4. PICK g : Good(g, Cardinality(S))
  BY <1>2, <1>3
<1>5. Small(Cardinality(S)) = SUBSET S
  BY FS_Subset
<1>6. PICK h : h = [s \in SUBSET S |-> g[s]]
  OBVIOUS
<1>7. \A s \in SUBSET S : h[s] \in V /\ h[s] = IF s = {} THEN base ELSE F[<<c[s], h[s \ {c[s]}]>>]
  <2>1. ASSUME NEW s \in SUBSET S PROVE h[s] = g[s] /\ h[s \ {c[s]}] = g[s \ {c[s]}]
    BY <1>6
  <2>2. ASSUME NEW s \in SUBSET S PROVE g[s] \in V /\ g[s] = IF s = {} THEN base ELSE F[<<c[s], g[s \ {c[s]}]>>]
    BY <1>4, <1>5
  <2> QED
    BY <2>1, <2>2
<1>8. h = [s \in SUBSET S |-> IF s = {} THEN base ELSE F[<<c[s], h[s \ {c[s]}]>>]]
  BY <1>6, <1>7
<1> QED
  BY <1>7, <1>8 DEF IsFoldOf

-----------------------------------------------------------------------------
\* The element that a fold takes first.
Pick(s) == CHOOSE x \in s : TRUE

\* g holds the sums of f over the subsets of S.
IsSumOf(g, f, S) ==
    \A s \in SUBSET S :
       /\ g[s] \in Int
       /\ g[s] = IF s = {} THEN 0 ELSE f[Pick(s)] + g[s \ {Pick(s)}]

\* SumFunctionOnSet, which is defined by a fold, is such a number.
LEMMA SumIs ==
    ASSUME NEW f, NEW S
    PROVE  SumFunctionOnSet(f, S) =
             (CHOOSE g : g = [s \in SUBSET S |-> IF s = {} THEN 0
                                               ELSE f[Pick(s)] + g[s \ {Pick(s)}]])[S]
  BY DEF SumFunctionOnSet, FoldFunctionOnSet, MapThenFoldSet, Pick

\* The sum over a set and the one without the number that is taken from it.
LEMMA SumRecursion ==
    ASSUME NEW S, IsFiniteSet(S), NEW f, \A x \in S : f[x] \in Int
    PROVE  \E g : SumFunctionOnSet(f, S) = g[S] /\ IsSumOf(g, f, S)
<1>1. PICK F : F = [t \in S \X Int |-> f[t[1]] + t[2]]
  OBVIOUS
<1>2. F \in [S \X Int -> Int]
  BY <1>1
<1>3. PICK c : c = [s \in SUBSET S |-> Pick(s)]
  OBVIOUS
<1>4. \A s \in SUBSET S : c[s] = Pick(s) /\ (s # {} => c[s] \in s)
  BY <1>3 DEF Pick
<1>5. PICK g : IsFoldOf(g, S, Int, 0, F, c)
  <2>1. 0 \in Int /\ \A s \in SUBSET S : s # {} => c[s] \in s
    BY <1>4
  <2> QED
    BY <1>2, <2>1, FoldExists
<1>6. ASSUME NEW s \in SUBSET S
      PROVE  g[s] = IF s = {} THEN 0 ELSE f[Pick(s)] + g[s \ {Pick(s)}]
  <2>1. CASE s = {}
    BY <1>5, <2>1 DEF IsFoldOf
  <2>2. CASE s # {}
    <3>1. c[s] \in S /\ g[s \ {c[s]}] \in Int /\ c[s] = Pick(s)
      BY <1>4, <1>5, <2>2 DEF IsFoldOf
    <3>2. <<c[s], g[s \ {c[s]}]>> \in S \X Int
      BY <3>1
    <3>3. F[<<c[s], g[s \ {c[s]}]>>] = f[c[s]] + g[s \ {c[s]}]
      BY <1>1, <3>2
    <3>4. g[s] = F[<<c[s], g[s \ {c[s]}]>>]
      BY <1>5, <2>2 DEF IsFoldOf
    <3> QED
      BY <2>2, <3>1, <3>3, <3>4
  <2> QED
    BY <2>1, <2>2
<1>7. g = [s \in SUBSET S |-> IF s = {} THEN 0 ELSE f[Pick(s)] + g[s \ {Pick(s)}]]
  BY <1>5, <1>6 DEF IsFoldOf
<1>8. PICK h : h = CHOOSE k : k = [s \in SUBSET S |-> IF s = {} THEN 0
                                                  ELSE f[Pick(s)] + k[s \ {Pick(s)}]]
  OBVIOUS
<1>9. h = [s \in SUBSET S |-> IF s = {} THEN 0 ELSE f[Pick(s)] + h[s \ {Pick(s)}]]
  BY <1>7, <1>8
<1>10. SumFunctionOnSet(f, S) = h[S]
  BY <1>8, SumIs
<1>11. \A s \in SUBSET S : h[s] = IF s = {} THEN 0 ELSE f[Pick(s)] + h[s \ {Pick(s)}]
  BY <1>9
<1>12. \A s \in SUBSET S : h[s] \in Int
  <2>0. PICK Bad : Bad = {s \in SUBSET S : h[s] \notin Int}
    OBVIOUS
  <2>1. SUFFICES ASSUME Bad # {} PROVE FALSE
    BY <2>0
  <2>2. PICK s \in Bad : \A u \in Bad : u \subseteq s => u = s
    <3>1. Bad \in SUBSET (SUBSET S)
      BY <2>0
    <3> QED
      BY <2>1, <3>1, SmallestSet
  <2>3. s \in SUBSET S /\ h[s] \notin Int /\ s # {}
    <3>1. s \in SUBSET S /\ h[s] \notin Int
      BY <2>0
    <3>2. h[{}] = 0
      BY <1>9
    <3> QED
      BY <3>1, <3>2
  <2>4. Pick(s) \in s
    BY <2>3 DEF Pick
  <2>5. s \ {Pick(s)} \in SUBSET S /\ s \ {Pick(s)} \notin Bad
    BY <2>0, <2>2, <2>3, <2>4
  <2>6. f[Pick(s)] \in Int /\ h[s \ {Pick(s)}] \in Int
    BY <2>0, <2>3, <2>4, <2>5
  <2>7. h[s] = f[Pick(s)] + h[s \ {Pick(s)}]
    BY <1>9, <2>3
  <2> QED
    BY <2>3, <2>6, <2>7
<1> QED
  BY <1>10, <1>11, <1>12 DEF IsSumOf

\* Two such functions agree where both are defined.
LEMMA SumStep ==
    ASSUME NEW S, IsFiniteSet(S), NEW f, \A x \in S : f[x] \in Int
    PROVE  /\ SumFunctionOnSet(f, S) \in Int
           /\ SumFunctionOnSet(f, S) =
                IF S = {} THEN 0 ELSE f[Pick(S)] + SumFunctionOnSet(f, S \ {Pick(S)})
<1>0. PICK g : SumFunctionOnSet(f, S) = g[S] /\ IsSumOf(g, f, S)
  BY SumRecursion
<1>1. /\ SumFunctionOnSet(f, S) = g[S]
      /\ \A s \in SUBSET S :
            /\ g[s] \in Int
            /\ g[s] = IF s = {} THEN 0 ELSE f[Pick(s)] + g[s \ {Pick(s)}]
  BY <1>0 DEF IsSumOf
<1>2. S \in SUBSET S
  OBVIOUS
<1>3. CASE S = {}
  BY <1>1, <1>2, <1>3
<1>4. CASE S # {}
  <2>1. PICK R : R = S \ {Pick(S)}
    OBVIOUS
  <2>2. R \in SUBSET S /\ IsFiniteSet(R) /\ \A x \in R : f[x] \in Int
    BY <2>1, FS_Subset
  <2>0. PICK h : SumFunctionOnSet(f, R) = h[R] /\ IsSumOf(h, f, R)
    BY <2>2, SumRecursion
  <2>3. /\ SumFunctionOnSet(f, R) = h[R]
        /\ \A s \in SUBSET R :
              /\ h[s] \in Int
              /\ h[s] = IF s = {} THEN 0 ELSE f[Pick(s)] + h[s \ {Pick(s)}]
    BY <2>0 DEF IsSumOf
  <2>4. h[R] = g[R]
    <3>0. PICK Bad : Bad = {s \in SUBSET R : h[s] # g[s]}
      OBVIOUS
    <3>1. SUFFICES ASSUME Bad # {} PROVE FALSE
      BY <3>0
    <3>2. PICK s \in Bad : \A u \in Bad : u \subseteq s => u = s
      <4>1. Bad \in SUBSET (SUBSET R)
        BY <3>0
      <4> QED
        BY <2>2, <3>1, <4>1, SmallestSet
    <3>3. s \in SUBSET R /\ s \in SUBSET S /\ h[s] # g[s]
      BY <2>2, <3>0
    <3>4. s # {}
      BY <1>1, <2>3, <3>3
    <3>5. Pick(s) \in s
      BY <3>4 DEF Pick
    <3>6. s \ {Pick(s)} \in SUBSET R /\ s \ {Pick(s)} \notin Bad
      BY <3>2, <3>3, <3>5
    <3>7. h[s \ {Pick(s)}] = g[s \ {Pick(s)}]
      BY <3>0, <3>6
    <3> QED
      BY <1>1, <2>3, <3>3, <3>4, <3>7
  <2> QED
    BY <1>1, <1>2, <1>4, <2>1, <2>3, <2>4
<1> QED
  BY <1>3, <1>4

\* The sum of no numbers.
LEMMA SumEmpty ==
    ASSUME NEW f
    PROVE  SumFunctionOnSet(f, {}) = 0
<1>1. IsFiniteSet({}) /\ \A x \in {} : f[x] \in Int
  BY FS_EmptySet
<1> QED
  BY <1>1, SumStep

\* Any element may be taken first.
LEMMA SumTake ==
    ASSUME NEW S, IsFiniteSet(S), NEW f, \A x \in S : f[x] \in Int, NEW a \in S
    PROVE  SumFunctionOnSet(f, S) = f[a] + SumFunctionOnSet(f, S \ {a})
<1> DEFINE Sum(s) == SumFunctionOnSet(f, s)
<1>0. PICK Bad : Bad = {s \in SUBSET S : \E x \in s : Sum(s) # f[x] + Sum(s \ {x})}
  OBVIOUS
<1>1. ASSUME NEW s \in SUBSET S
      PROVE  /\ Sum(s) \in Int
             /\ s # {} => /\ Sum(s) = f[Pick(s)] + Sum(s \ {Pick(s)})
                          /\ Pick(s) \in s
             /\ \A x \in s : f[x] \in Int
  <2>1. IsFiniteSet(s) /\ \A x \in s : f[x] \in Int
    BY FS_Subset
  <2>2. s # {} => Pick(s) \in s
    BY DEF Pick
  <2> QED
    BY <2>1, <2>2, SumStep
<1>2. Bad = {}
  <2>1. SUFFICES ASSUME Bad # {} PROVE FALSE
    OBVIOUS
  <2>2. PICK s \in Bad : \A u \in Bad : u \subseteq s => u = s
    <3>1. Bad \in SUBSET (SUBSET S)
      BY <1>0
    <3> QED
      BY <2>1, <3>1, SmallestSet
  <2>3. PICK x \in s : Sum(s) # f[x] + Sum(s \ {x})
    BY <1>0, <2>2
  <2>4. s \in SUBSET S /\ s # {}
    BY <1>0, <2>2, <2>3
  <2>5. PICK y : y = Pick(s)
    OBVIOUS
  <2>6. y \in s /\ Sum(s) = f[y] + Sum(s \ {y}) /\ x # y
    BY <1>1, <2>3, <2>4, <2>5
  <2>7. PICK u : u = s \ {x}
    OBVIOUS
  <2>8. PICK v : v = s \ {y}
    OBVIOUS
  <2>9. u \ {y} = v \ {x} /\ u \in SUBSET S /\ v \in SUBSET S /\ y \in u /\ x \in v
    BY <2>4, <2>6, <2>7, <2>8
  <2>10. u \notin Bad /\ v \notin Bad
    BY <2>2, <2>6, <2>7, <2>8
  <2>11. Sum(u) = f[y] + Sum(u \ {y}) /\ Sum(v) = f[x] + Sum(v \ {x})
    BY <1>0, <2>9, <2>10
  <2>12. Sum(s) = f[y] + Sum(v) /\ Sum(s) # f[x] + Sum(u)
    BY <2>3, <2>6, <2>7, <2>8
  <2>13. v \ {x} \in SUBSET S /\ f[x] \in Int /\ f[y] \in Int
    BY <1>1, <2>4, <2>6, <2>9
  <2>14. Sum(v \ {x}) \in Int
    BY <1>1, <2>13
  <2>15. PICK w : w = Sum(v \ {x}) /\ w = Sum(u \ {y})
    BY <2>9
  <2>16. w \in Int
    BY <2>14, <2>15
  <2>17. Sum(s) = f[y] + (f[x] + w) /\ Sum(s) # f[x] + (f[y] + w)
    BY <2>11, <2>12, <2>15
  <2> QED
    BY <2>13, <2>16, <2>17
<1> QED
  BY <1>0, <1>2

\* A sum depends on the numbers added up, and on nothing else of the function.
LEMMA SumSame ==
    ASSUME NEW S, IsFiniteSet(S), NEW f, \A x \in S : f[x] \in Int,
           NEW g, \A x \in S : g[x] = f[x]
    PROVE  SumFunctionOnSet(g, S) = SumFunctionOnSet(f, S)
<1>0. PICK Bad : Bad = {s \in SUBSET S : SumFunctionOnSet(g, s) # SumFunctionOnSet(f, s)}
  OBVIOUS
<1>1. ASSUME NEW s \in SUBSET S
      PROVE  /\ IsFiniteSet(s) /\ \A x \in s : f[x] \in Int /\ g[x] \in Int /\ g[x] = f[x]
  BY FS_Subset
<1>2. SUFFICES ASSUME Bad # {} PROVE FALSE
  BY <1>0
<1>3. PICK s \in Bad : \A u \in Bad : u \subseteq s => u = s
  <2>1. Bad \in SUBSET (SUBSET S)
    BY <1>0
  <2> QED
    BY <1>2, <2>1, SmallestSet
<1>4. s \in SUBSET S /\ SumFunctionOnSet(g, s) # SumFunctionOnSet(f, s)
  BY <1>0
<1>5. s # {}
  BY <1>4, SumEmpty
<1>6. PICK x : x \in s
  BY <1>5
<1>7. SumFunctionOnSet(g, s \ {x}) = SumFunctionOnSet(f, s \ {x})
  BY <1>0, <1>3, <1>4, <1>6
<1>8. /\ SumFunctionOnSet(g, s) = g[x] + SumFunctionOnSet(g, s \ {x})
      /\ SumFunctionOnSet(f, s) = f[x] + SumFunctionOnSet(f, s \ {x})
  BY <1>1, <1>4, <1>6, SumTake
<1> QED
  BY <1>1, <1>4, <1>6, <1>7, <1>8

\* A sum with one more number.
LEMMA SumAdd ==
    ASSUME NEW S, IsFiniteSet(S), NEW f, \A x \in S : f[x] \in Int, NEW a, a \notin S,
           f[a] \in Int
    PROVE  SumFunctionOnSet(f, S \cup {a}) = f[a] + SumFunctionOnSet(f, S)
<1>1. PICK T : T = S \cup {a}
  OBVIOUS
<1>2. IsFiniteSet(T) /\ a \in T /\ \A x \in T : f[x] \in Int
  BY <1>1, FS_AddElement
<1>3. T \ {a} = S
  BY <1>1
<1> QED
  BY <1>1, <1>2, <1>3, SumTake

\* Two functions are added.
LEMMA SumOfSums ==
    ASSUME NEW S, IsFiniteSet(S), NEW f, \A x \in S : f[x] \in Int,
           NEW g, \A x \in S : g[x] \in Int,
           NEW h, \A x \in S : h[x] = f[x] + g[x]
    PROVE  SumFunctionOnSet(h, S) = SumFunctionOnSet(f, S) + SumFunctionOnSet(g, S)
<1> DEFINE Sum(e, s) == SumFunctionOnSet(e, s)
<1>0. PICK Bad : Bad = {s \in SUBSET S : Sum(h, s) # Sum(f, s) + Sum(g, s)}
  OBVIOUS
<1>1. ASSUME NEW s \in SUBSET S
      PROVE  /\ IsFiniteSet(s) /\ \A x \in s : f[x] \in Int /\ g[x] \in Int /\ h[x] \in Int
             /\ Sum(f, s) \in Int /\ Sum(g, s) \in Int
  <2>1. IsFiniteSet(s) /\ \A x \in s : f[x] \in Int /\ g[x] \in Int /\ h[x] \in Int
    BY FS_Subset
  <2> QED
    BY <2>1, SumStep
<1>2. SUFFICES ASSUME Bad # {} PROVE FALSE
  BY <1>0
<1>3. PICK s \in Bad : \A u \in Bad : u \subseteq s => u = s
  <2>1. Bad \in SUBSET (SUBSET S)
    BY <1>0
  <2> QED
    BY <1>2, <2>1, SmallestSet
<1>4. s \in SUBSET S /\ Sum(h, s) # Sum(f, s) + Sum(g, s)
  BY <1>0
<1>5. s # {}
  BY <1>4, SumEmpty
<1>6. PICK x : x \in s
  BY <1>5
<1>7. PICK u : u = s \ {x}
  OBVIOUS
<1>8. u \in SUBSET S /\ Sum(h, u) = Sum(f, u) + Sum(g, u)
  BY <1>0, <1>3, <1>4, <1>6, <1>7
<1>9. /\ Sum(h, s) = h[x] + Sum(h, u) /\ Sum(f, s) = f[x] + Sum(f, u)
      /\ Sum(g, s) = g[x] + Sum(g, u)
  BY <1>1, <1>4, <1>6, <1>7, SumTake
<1>10. f[x] \in Int /\ g[x] \in Int /\ h[x] = f[x] + g[x]
  BY <1>4, <1>6
<1>11. Sum(f, u) \in Int /\ Sum(g, u) \in Int
  BY <1>1, <1>8
<1> HIDE DEF Sum
<1> QED
  BY <1>4, <1>8, <1>9, <1>10, <1>11

\* A sum of zeros.
LEMMA SumOfZeros ==
    ASSUME NEW S, IsFiniteSet(S), NEW f, \A x \in S : f[x] = 0
    PROVE  SumFunctionOnSet(f, S) = 0
<1>0. \A x \in S : f[x] \in Int /\ f[x] = f[x] + f[x]
  OBVIOUS
<1>1. SumFunctionOnSet(f, S) = SumFunctionOnSet(f, S) + SumFunctionOnSet(f, S)
  BY <1>0, SumOfSums
<1>2. SumFunctionOnSet(f, S) \in Int
  BY <1>0, SumStep
<1>3. PICK n : n = SumFunctionOnSet(f, S)
  OBVIOUS
<1>4. n = n + n /\ n \in Int
  BY <1>1, <1>2, <1>3
<1>5. n = 0
  BY <1>4
<1> QED
  BY <1>3, <1>5

\* One of the numbers is larger by one.
LEMMA SumIncrement ==
    ASSUME NEW S, IsFiniteSet(S), NEW f, \A x \in S : f[x] \in Int,
           NEW a, NEW g, \A x \in S : g[x] = IF x = a THEN f[x] + 1 ELSE f[x]
    PROVE  SumFunctionOnSet(g, S) = SumFunctionOnSet(f, S) + (IF a \in S THEN 1 ELSE 0)
<1>0. SumFunctionOnSet(f, S) \in Int
  BY SumStep
<1>1. CASE a \notin S
  <2>1. \A x \in S : g[x] = f[x]
    BY <1>1
  <2>2. SumFunctionOnSet(g, S) = SumFunctionOnSet(f, S)
    BY <2>1, SumSame
  <2> QED
    BY <1>0, <1>1, <2>2
<1>2. CASE a \in S
  <2>1. PICK R : R = S \ {a}
    OBVIOUS
  <2>2. IsFiniteSet(R) /\ \A x \in R : f[x] \in Int /\ g[x] = f[x]
    BY <2>1, FS_Subset
  <2>3. SumFunctionOnSet(g, R) = SumFunctionOnSet(f, R) /\ SumFunctionOnSet(f, R) \in Int
    BY <2>2, SumSame, SumStep
  <2>4. \A x \in S : g[x] \in Int
    OBVIOUS
  <2>5. /\ SumFunctionOnSet(g, S) = g[a] + SumFunctionOnSet(g, R)
        /\ SumFunctionOnSet(f, S) = f[a] + SumFunctionOnSet(f, R)
    BY <1>2, <2>1, <2>4, SumTake
  <2>6. g[a] = f[a] + 1 /\ f[a] \in Int
    BY <1>2
  <2> QED
    BY <1>2, <2>3, <2>5, <2>6
<1> QED
  BY <1>1, <1>2

-----------------------------------------------------------------------------
(* Histograms.                                                                 *)

\* The buckets of a histogram, by number.
Buckets == 0 .. Len(Edges)
Histograms == [Buckets -> Nat]

\* The buckets and the limits are finitely many.
LEMMA BucketsFinite ==
    /\ Len(Edges) \in Nat /\ Len(Edges) >= 1 /\ DOMAIN Edges = 1 .. Len(Edges)
    /\ IsFiniteSet(Buckets) /\ IsFiniteSet(DOMAIN Edges)
    /\ \A b \in Buckets : 0 .. b \subseteq Buckets /\ IsFiniteSet(0 .. b)
    /\ \A i \in DOMAIN Edges : Edges[i] \in Nat
<1>1. Len(Edges) \in Nat /\ Len(Edges) >= 1 /\ DOMAIN Edges = 1 .. Len(Edges)
  BY EdgesAssumption
<1>2. 0 \in Int /\ 1 \in Int /\ Len(Edges) \in Int
  BY <1>1
<1>3. IsFiniteSet(0 .. Len(Edges)) /\ IsFiniteSet(1 .. Len(Edges))
  BY <1>2, FS_Interval
<1>4. \A b \in Buckets : 0 .. b \subseteq Buckets /\ IsFiniteSet(0 .. b)
  <2>1. ASSUME NEW b \in Buckets PROVE 0 .. b \subseteq Buckets
    BY <1>1 DEF Buckets
  <2> QED
    BY <1>3, <2>1, FS_Subset DEF Buckets
<1> QED
  BY <1>1, <1>3, <1>4, EdgesAssumption DEF Buckets

\* A larger latency is in no lower bucket.
LEMMA BucketFacts ==
    /\ \A ms : Bucket(ms) \in Buckets
    /\ \A a, b \in Nat : a <= b => Bucket(a) <= Bucket(b)
<1> DEFINE Under(ms) == {i \in DOMAIN Edges : Edges[i] <= ms}
<1>1. ASSUME NEW ms PROVE IsFiniteSet(Under(ms)) /\ Bucket(ms) \in Buckets
  <2>1. Under(ms) \in SUBSET (DOMAIN Edges) /\ IsFiniteSet(DOMAIN Edges)
    BY BucketsFinite
  <2>2. /\ IsFiniteSet(Under(ms))
        /\ Cardinality(Under(ms)) <= Cardinality(DOMAIN Edges)
    <3> HIDE DEF Under
    <3> QED
      BY <2>1, FS_Subset
  <2>3. Cardinality(Under(ms)) \in Nat
    <3> HIDE DEF Under
    <3> QED
      BY <2>2, FS_CardinalityType
  <2>4. Cardinality(DOMAIN Edges) = Len(Edges)
    <3>1. 1 \in Int /\ Len(Edges) \in Int
      BY BucketsFinite
    <3>2. Cardinality(1 .. Len(Edges)) = Len(Edges)
      BY <3>1, BucketsFinite, FS_Interval
    <3> QED
      BY <3>2, BucketsFinite
  <2>5. Bucket(ms) = Cardinality(Under(ms))
    BY DEF Bucket
  <2> HIDE DEF Under
  <2> QED
    BY <2>2, <2>3, <2>4, <2>5, BucketsFinite DEF Buckets
<1>2. ASSUME NEW a \in Nat, NEW b \in Nat, a <= b PROVE Bucket(a) <= Bucket(b)
  <2>1. Under(a) \subseteq Under(b)
    BY <1>2, BucketsFinite
  <2>2. Cardinality(Under(a)) <= Cardinality(Under(b))
    <3>1. IsFiniteSet(Under(b))
      BY <1>1
    <3> HIDE DEF Under
    <3> QED
      BY <2>1, <3>1, FS_Subset
  <2> QED
    BY <2>2 DEF Bucket
<1> QED
  BY <1>1, <1>2

\* What a histogram counts up to a bucket.
LEMMA UpToFacts ==
    ASSUME NEW hist \in Histograms
    PROVE  /\ \A b \in Buckets : UpTo(hist, b) \in Int
           /\ TotalCount(hist) = UpTo(hist, Len(Edges))
<1>1. ASSUME NEW b \in Buckets PROVE UpTo(hist, b) \in Int
  <2>1. IsFiniteSet(0 .. b) /\ \A x \in 0 .. b : hist[x] \in Int
    BY BucketsFinite DEF Histograms
  <2> QED
    BY <2>1, SumStep DEF UpTo
<1>2. DOMAIN hist = 0 .. Len(Edges)
  BY DEF Histograms, Buckets
<1>3. TotalCount(hist) = SumFunctionOnSet(hist, DOMAIN hist)
  BY DEF TotalCount, SumFunction, SumFunctionOnSet, FoldFunction
<1> QED
  BY <1>1, <1>2, <1>3 DEF UpTo

\* A new histogram counts nothing.
LEMMA EmptyCounts ==
    /\ EmptyHistogram \in Histograms
    /\ \A b \in Buckets : UpTo(EmptyHistogram, b) = 0
<1>1. EmptyHistogram \in Histograms
  BY DEF EmptyHistogram, Histograms, Buckets
<1>2. ASSUME NEW b \in Buckets PROVE UpTo(EmptyHistogram, b) = 0
  <2>1. IsFiniteSet(0 .. b) /\ \A x \in 0 .. b : EmptyHistogram[x] = 0
    BY BucketsFinite DEF EmptyHistogram, Buckets
  <2> QED
    BY <2>1, SumOfZeros DEF UpTo
<1> QED
  BY <1>1, <1>2

\* A sample is counted in its bucket and in those above it.
LEMMA AddSampleCounts ==
    ASSUME NEW hist \in Histograms, NEW ms
    PROVE  /\ AddSample(hist, ms) \in Histograms
           /\ \A b \in Buckets :
                 UpTo(AddSample(hist, ms), b) =
                   UpTo(hist, b) + (IF Bucket(ms) <= b THEN 1 ELSE 0)
<1>1. PICK c : c = Bucket(ms)
  OBVIOUS
<1>2. PICK h : h = AddSample(hist, ms)
  OBVIOUS
<1>3. c \in Buckets
  BY <1>1, BucketFacts
<1>4. h = [hist EXCEPT ![c] = hist[c] + 1]
  BY <1>1, <1>2 DEF AddSample
<1>5. h \in Histograms /\ \A x \in Buckets : h[x] = IF x = c THEN hist[x] + 1 ELSE hist[x]
  BY <1>3, <1>4 DEF Histograms
<1>6. ASSUME NEW b \in Buckets
      PROVE  UpTo(h, b) = UpTo(hist, b) + (IF c <= b THEN 1 ELSE 0)
  <2>1. /\ IsFiniteSet(0 .. b) /\ \A x \in 0 .. b : hist[x] \in Int
        /\ \A x \in 0 .. b : h[x] = IF x = c THEN hist[x] + 1 ELSE hist[x]
    BY <1>5, BucketsFinite DEF Histograms
  <2>2. UpTo(h, b) = UpTo(hist, b) + (IF c \in 0 .. b THEN 1 ELSE 0)
    BY <2>1, SumIncrement DEF UpTo
  <2>3. c \in 0 .. b <=> c <= b
    BY <1>3, BucketsFinite DEF Buckets
  <2> QED
    BY <2>2, <2>3
<1> QED
  BY <1>1, <1>2, <1>5, <1>6

\* Two histograms are added bucket by bucket.
LEMMA AddHistogramCounts ==
    ASSUME NEW hist \in Histograms, NEW other \in Histograms
    PROVE  /\ AddHistogram(hist, other) \in Histograms
           /\ \A b \in Buckets :
                 UpTo(AddHistogram(hist, other), b) = UpTo(hist, b) + UpTo(other, b)
<1>1. PICK h : h = AddHistogram(hist, other)
  OBVIOUS
<1>2. h \in Histograms /\ \A x \in Buckets : h[x] = hist[x] + other[x]
  BY <1>1 DEF AddHistogram, Histograms
<1>3. ASSUME NEW b \in Buckets PROVE UpTo(h, b) = UpTo(hist, b) + UpTo(other, b)
  <2>0. IsFiniteSet(0 .. b) /\ \A x \in 0 .. b : x \in Buckets
    BY BucketsFinite
  <2>1. /\ \A x \in 0 .. b : hist[x] \in Int /\ other[x] \in Int
        /\ \A x \in 0 .. b : h[x] = hist[x] + other[x]
    BY <1>2, <2>0 DEF Histograms
  <2> QED
    BY <2>0, <2>1, SumOfSums DEF UpTo
<1> QED
  BY <1>1, <1>2, <1>3

\* The histogram counts exactly the samples that were added to it.
SampleHistograms(d, K) ==
    CHOOSE g : g = [s \in SUBSET K |->
                      IF s = {} THEN EmptyHistogram
                      ELSE AddSample(g[s \ {Pick(s)}], d.samples[Pick(s)].ms)]

\* HistogramOf is a fold over the samples of one kind.
LEMMA HistogramIs ==
    ASSUME NEW d, NEW ks, NEW name
    PROVE  HistogramOf(d, ks, name) =
             SampleHistograms(d, OfKind(d, ks, name, TRUE))[OfKind(d, ks, name, TRUE)]
  BY DEF HistogramOf, FoldSet, MapThenFoldSet, Pick, SampleHistograms

\* hist counts the samples s, each in its bucket.
CountsSamples(hist, d, s) ==
    /\ hist \in Histograms
    /\ \A b \in Buckets :
          UpTo(hist, b) = Cardinality({k \in s : Bucket(d.samples[k].ms) <= b})

\* One more sample of the fold.
LEMMA CountsOneMore ==
    ASSUME NEW d, NEW s, IsFiniteSet(s), NEW x \in s, NEW hist,
           CountsSamples(hist, d, s \ {x})
    PROVE  CountsSamples(AddSample(hist, d.samples[x].ms), d, s)
<1>1. PICK ms : ms = d.samples[x].ms
  OBVIOUS
<1>2. hist \in Histograms
  BY DEF CountsSamples
<1>3. PICK h : h = AddSample(hist, ms)
  OBVIOUS
<1>4. /\ h \in Histograms
      /\ \A b \in Buckets : UpTo(h, b) = UpTo(hist, b) + (IF Bucket(ms) <= b THEN 1 ELSE 0)
  BY <1>2, <1>3, AddSampleCounts
<1>5. ASSUME NEW b \in Buckets
      PROVE  UpTo(h, b) = Cardinality({k \in s : Bucket(d.samples[k].ms) <= b})
  <2>1. PICK V : V = {k \in s \ {x} : Bucket(d.samples[k].ms) <= b}
    OBVIOUS
  <2>2. UpTo(hist, b) = Cardinality(V)
    BY <2>1 DEF CountsSamples
  <2>3. IsFiniteSet(V) /\ x \notin V
    BY <2>1, FS_Subset
  <2>4. PICK n : n = Cardinality(V) /\ n \in Nat
    BY <2>3, FS_CardinalityType
  <2>5. CASE Bucket(ms) <= b
    <3>1. {k \in s : Bucket(d.samples[k].ms) <= b} = V \cup {x}
      BY <1>1, <2>1, <2>5
    <3>2. Cardinality(V \cup {x}) = Cardinality(V) + 1
      BY <2>3, FS_AddElement
    <3> QED
      BY <1>4, <2>2, <2>4, <2>5, <3>1, <3>2
  <2>6. CASE ~(Bucket(ms) <= b)
    <3>1. {k \in s : Bucket(d.samples[k].ms) <= b} = V
      BY <1>1, <2>1, <2>6
    <3>2. UpTo(h, b) = n + 0
      BY <1>4, <2>2, <2>4, <2>6
    <3> QED
      BY <2>4, <3>1, <3>2
  <2> QED
    BY <2>5, <2>6
<1> QED
  BY <1>1, <1>3, <1>4, <1>5 DEF CountsSamples

\* HistogramOf counts the samples of one kind, in whatever order the fold takes them.
LEMMA HistogramCounts ==
    ASSUME NEW d, NEW ks, IsFiniteSet(ks), NEW name
    PROVE  CountsSamples(HistogramOf(d, ks, name), d, OfKind(d, ks, name, TRUE))
<1>0. PICK K : K = OfKind(d, ks, name, TRUE)
  OBVIOUS
<1>1. IsFiniteSet(K)
  BY <1>0, FS_Subset DEF OfKind
<1>2. PICK F : F = [t \in K \X Histograms |-> AddSample(t[2], d.samples[t[1]].ms)]
  OBVIOUS
<1>3. F \in [K \X Histograms -> Histograms]
  BY <1>2, AddSampleCounts
<1>4. PICK c : c = [s \in SUBSET K |-> Pick(s)]
  OBVIOUS
<1>5. \A s \in SUBSET K : c[s] = Pick(s) /\ (s # {} => c[s] \in s)
  BY <1>4 DEF Pick
<1>6. PICK g : IsFoldOf(g, K, Histograms, EmptyHistogram, F, c)
  <2>1. EmptyHistogram \in Histograms /\ \A s \in SUBSET K : s # {} => c[s] \in s
    BY <1>5, EmptyCounts
  <2> QED
    BY <1>1, <1>3, <2>1, FoldExists
<1> DEFINE Step(h, s) == IF s = {} THEN EmptyHistogram
                         ELSE AddSample(h[s \ {Pick(s)}], d.samples[Pick(s)].ms)
<1>7. ASSUME NEW s \in SUBSET K PROVE g[s] = Step(g, s)
  <2>1. CASE s = {}
    BY <1>6, <2>1 DEF IsFoldOf
  <2>2. CASE s # {}
    <3>1. c[s] \in K /\ g[s \ {c[s]}] \in Histograms /\ c[s] = Pick(s)
      BY <1>5, <1>6, <2>2 DEF IsFoldOf
    <3>2. <<c[s], g[s \ {c[s]}]>> \in K \X Histograms
      BY <3>1
    <3>3. F[<<c[s], g[s \ {c[s]}]>>] = AddSample(g[s \ {c[s]}], d.samples[c[s]].ms)
      BY <1>2, <3>2
    <3>4. g[s] = F[<<c[s], g[s \ {c[s]}]>>]
      BY <1>6, <2>2 DEF IsFoldOf
    <3> QED
      BY <2>2, <3>1, <3>3, <3>4
  <2> QED
    BY <2>1, <2>2
<1>8. g = [s \in SUBSET K |-> Step(g, s)]
  BY <1>6, <1>7 DEF IsFoldOf
<1>9. PICK h : h = SampleHistograms(d, K)
  OBVIOUS
<1>10. h = [s \in SUBSET K |-> Step(h, s)]
  BY <1>8, <1>9 DEF SampleHistograms
<1>11. HistogramOf(d, ks, name) = h[K]
  BY <1>0, <1>9, HistogramIs
<1>12. \A s \in SUBSET K : h[s] = Step(h, s)
  BY <1>10
<1>13. \A s \in SUBSET K : CountsSamples(h[s], d, s)
  <2>0. PICK Bad : Bad = {s \in SUBSET K : ~CountsSamples(h[s], d, s)}
    OBVIOUS
  <2>1. SUFFICES ASSUME Bad # {} PROVE FALSE
    BY <2>0
  <2>2. PICK s \in Bad : \A u \in Bad : u \subseteq s => u = s
    <3>1. Bad \in SUBSET (SUBSET K)
      BY <2>0
    <3> QED
      BY <1>1, <2>1, <3>1, SmallestSet
  <2>3. s \in SUBSET K /\ ~CountsSamples(h[s], d, s)
    BY <2>0
  <2>4. CASE s = {}
    <3>1. h[s] = EmptyHistogram
      BY <1>12, <2>3, <2>4
    <3>2. \A b \in Buckets : {k \in s : Bucket(d.samples[k].ms) <= b} = {}
      BY <2>4
    <3>3. \A b \in Buckets : Cardinality({k \in s : Bucket(d.samples[k].ms) <= b}) = 0
      BY <3>2, FS_EmptySet
    <3> QED
      BY <2>3, <3>1, <3>3, EmptyCounts DEF CountsSamples
  <2>5. CASE s # {}
    <3>1. PICK x : x = Pick(s) /\ x \in s
      BY <2>5 DEF Pick
    <3>2. s \ {x} \in SUBSET K /\ s \ {x} \notin Bad
      BY <2>2, <2>3, <3>1
    <3>3. CountsSamples(h[s \ {x}], d, s \ {x})
      BY <2>0, <3>2
    <3>4. h[s] = AddSample(h[s \ {x}], d.samples[x].ms)
      BY <1>12, <2>3, <2>5, <3>1
    <3>5. IsFiniteSet(s)
      BY <1>1, <2>3, FS_Subset
    <3> QED
      BY <2>3, <3>1, <3>3, <3>4, <3>5, CountsOneMore
  <2> QED
    BY <2>4, <2>5
<1> QED
  BY <1>0, <1>11, <1>13

\* The smallest number of a set is in it.
LEMMA MinFacts ==
    ASSUME NEW S \in SUBSET Nat, S # {}
    PROVE  Min(S) \in S /\ \A x \in S : Min(S) <= x
<1>1. PICK n \in S : \A m \in S : n <= m
  BY SmallestNumber
<1> QED
  BY <1>1 DEF Min

\* What is in a set and not above any other is its smallest number.
LEMMA MinIs ==
    ASSUME NEW S \in SUBSET Nat, NEW n \in S, \A m \in S : n <= m
    PROVE  Min(S) = n
<1>1. PICK k : k = Min(S)
  OBVIOUS
<1>2. k \in S /\ \A x \in S : k <= x
  BY <1>1, MinFacts
<1>3. k \in Nat /\ n \in Nat /\ k <= n /\ n <= k
  BY <1>2
<1> QED
  BY <1>1, <1>3

\* Of finitely many things one has the largest value.
LEMMA LargestExists ==
    ASSUME NEW T, IsFiniteSet(T), T # {}, NEW v, \A t \in T : v[t] \in Nat
    PROVE  \E u \in T : \A t \in T : v[t] <= v[u]
<1> DEFINE Has(s) == \E u \in s : \A t \in s : v[t] <= v[u]
<1>0. PICK Bad : Bad = {s \in SUBSET T : s # {} /\ ~Has(s)}
  OBVIOUS
<1>1. SUFFICES ASSUME Bad # {} PROVE FALSE
  BY <1>0
<1>2. PICK s \in Bad : \A u \in Bad : u \subseteq s => u = s
  <2>1. Bad \in SUBSET (SUBSET T)
    BY <1>0
  <2> QED
    BY <1>1, <2>1, SmallestSet
<1>3. s \in SUBSET T /\ s # {} /\ ~Has(s)
  BY <1>0
<1>4. PICK x : x \in s
  BY <1>3
<1>5. PICK r : r = s \ {x}
  OBVIOUS
<1>6. CASE r = {}
  <2>1. s = {x}
    BY <1>4, <1>5, <1>6
  <2>2. v[x] \in Nat
    BY <1>3, <1>4
  <2> QED
    BY <1>3, <2>1, <2>2
<1>7. CASE r # {}
  <2>1. r \in SUBSET T /\ r \notin Bad
    BY <1>2, <1>3, <1>4, <1>5
  <2>2. PICK u \in r : \A t \in r : v[t] <= v[u]
    BY <1>0, <1>7, <2>1
  <2>3. v[x] \in Nat /\ v[u] \in Nat /\ \A t \in s : v[t] \in Nat /\ (t = x \/ t \in r)
    BY <1>3, <1>4, <1>5, <2>1
  <2>4. CASE v[x] <= v[u]
    <3>1. u \in s /\ \A t \in s : v[t] <= v[u]
      BY <1>5, <2>2, <2>3, <2>4
    <3> QED
      BY <1>3, <3>1
  <2>5. CASE ~(v[x] <= v[u])
    <3>1. x \in s /\ \A t \in s : v[t] <= v[x]
      BY <1>4, <2>2, <2>3, <2>5
    <3> QED
      BY <1>3, <3>1
  <2> QED
    BY <2>4, <2>5
<1> QED
  BY <1>6, <1>7

\* The limit below the p-th percentile of some transactions.
LimitBelow(T, p) ==
    LET notAbove(ms) == {t \in T : Latency(t) <= ms}
        percentile == Min({ms \in {Latency(t) : t \in T} :
                              100 * Cardinality(notAbove(ms)) >= p * Cardinality(T)})
    IN  IF Bucket(percentile) = 0 THEN Below ELSE Edges[Bucket(percentile)]

\* The transactions up to a bucket.
InBucket(T, b) == {t \in T : Bucket(Latency(t)) <= b}

\* hist counts them.
CountsOf(hist, T) ==
    hist \in Histograms /\ \A b \in Buckets : UpTo(hist, b) = Cardinality(InBucket(T, b))

\* A percentile of the histogram is the limit below that of the transactions.
LEMMA PercentileExact ==
    ASSUME NEW hist, NEW T, IsFiniteSet(T), T # {}, \A t \in T : Latency(t) \in Nat,
           CountsOf(hist, T), NEW p \in 1 .. 100
    PROVE  Percentile(hist, p) = LimitBelow(T, p)
<1>0. /\ hist \in Histograms
      /\ \A b \in Buckets : UpTo(hist, b) = Cardinality({t \in T : Bucket(Latency(t)) <= b})
  BY DEF CountsOf, InBucket
<1> DEFINE At(ms) == {t \in T : Latency(t) <= ms}
           In(b) == {t \in T : Bucket(Latency(t)) <= b}
<1>1. PICK v : v = [t \in T |-> Latency(t)]
  OBVIOUS
<1>2. \A t \in T : v[t] = Latency(t) /\ v[t] \in Nat
  BY <1>1
<1>3. PICK N : N = Cardinality(T) /\ N \in Nat /\ N >= 1
  <2>1. Cardinality(T) \in Nat /\ Cardinality(T) # 0
    BY FS_CardinalityType, FS_EmptySet
  <2> QED
    BY <2>1
<1>4. PICK q : q = p * N
  OBVIOUS
<1>5. q \in Nat /\ q >= 1 /\ q <= 100 * N
  BY <1>3, <1>4
<1>6. \A U \in SUBSET T : IsFiniteSet(U) /\ Cardinality(U) \in Nat /\ Cardinality(U) <= N
  BY <1>3, FS_Subset, FS_CardinalityType
<1>7. ASSUME NEW U \in SUBSET T, NEW W \in SUBSET T, U \subseteq W
      PROVE  Cardinality(U) <= Cardinality(W)
  BY <1>6, <1>7, FS_Subset
<1>8. PICK Enough : Enough = {ms \in {Latency(t) : t \in T} : 100 * Cardinality(At(ms)) >= q}
  OBVIOUS
<1>9. Enough \in SUBSET Nat /\ \A t \in T : Latency(t) \in Enough <=> 100 * Cardinality(At(Latency(t))) >= q
  BY <1>8
<1>10. Enough # {}
  <2>1. PICK u \in T : \A t \in T : v[t] <= v[u]
    BY <1>2, LargestExists
  <2>2. At(Latency(u)) = T
    BY <1>2, <2>1
  <2>3. Cardinality(At(Latency(u))) = N
    BY <1>3, <2>2
  <2> HIDE DEF At
  <2> QED
    BY <1>5, <1>9, <2>3
<1>11. PICK m : m = Min(Enough)
  OBVIOUS
<1>12. m \in Enough /\ m \in Nat /\ \A x \in Enough : m <= x
  BY <1>9, <1>10, <1>11, MinFacts
<1>13. PICK tm \in T : m = Latency(tm) /\ 100 * Cardinality(At(m)) >= q
  BY <1>8, <1>12
<1>14. PICK beta : beta = Bucket(m)
  OBVIOUS
<1>15. beta \in Buckets /\ Buckets \subseteq Nat /\ DOMAIN hist = Buckets
  BY <1>0, <1>14, BucketFacts DEF Buckets, Histograms
<1>16. TotalCount(hist) = N
  <2>1. Len(Edges) \in Buckets /\ \A t \in T : Bucket(Latency(t)) <= Len(Edges)
    BY BucketFacts, BucketsFinite DEF Buckets
  <2>2. In(Len(Edges)) = T
    BY <2>1
  <2>3. UpTo(hist, Len(Edges)) = Cardinality(In(Len(Edges)))
    BY <1>0, <2>1
  <2> HIDE DEF In
  <2> QED
    BY <1>0, <1>3, <2>2, <2>3, UpToFacts
<1>17. PICK Reached : Reached = {c \in DOMAIN hist : 100 * UpTo(hist, c) >= q}
  OBVIOUS
<1>18. beta \in Reached
  <2>1. At(m) \subseteq In(beta)
    BY <1>12, <1>14, BucketFacts
  <2>2. Cardinality(At(m)) <= Cardinality(In(beta))
    <3>1. At(m) \in SUBSET T /\ In(beta) \in SUBSET T
      OBVIOUS
    <3> HIDE DEF At, In
    <3> QED
      BY <1>7, <2>1, <3>1
  <2>3. Cardinality(At(m)) \in Nat /\ Cardinality(In(beta)) \in Nat
    <3>1. At(m) \in SUBSET T /\ In(beta) \in SUBSET T
      OBVIOUS
    <3> HIDE DEF At, In
    <3> QED
      BY <1>6, <3>1
  <2>4. UpTo(hist, beta) = Cardinality(In(beta))
    BY <1>0, <1>15
  <2>5. 100 * Cardinality(At(m)) >= q
    BY <1>13
  <2> HIDE DEF At, In
  <2>6. 100 * UpTo(hist, beta) >= q
    BY <1>5, <2>2, <2>3, <2>4, <2>5
  <2> QED
    BY <1>15, <1>17, <2>6
<1>19. ASSUME NEW c \in Reached PROVE beta <= c
  <2>1. c \in Buckets /\ 100 * UpTo(hist, c) >= q
    BY <1>15, <1>17
  <2>2. 100 * Cardinality(In(c)) >= q /\ In(c) \in SUBSET T
    BY <1>0, <2>1
  <2>3. IsFiniteSet(In(c)) /\ Cardinality(In(c)) \in Nat
    <3> HIDE DEF In
    <3> QED
      BY <1>6, <2>2
  <2>4. In(c) # {}
    <3>1. ASSUME In(c) = {} PROVE Cardinality(In(c)) = 0
      <4> HIDE DEF In
      <4> QED
        BY <3>1, FS_EmptySet
    <3> HIDE DEF In
    <3> QED
      BY <1>5, <2>2, <3>1
  <2>5. \A t \in In(c) : v[t] \in Nat
    BY <1>2
  <2>6. PICK u \in In(c) : \A t \in In(c) : v[t] <= v[u]
    <3> HIDE DEF In
    <3> QED
      BY <2>3, <2>4, <2>5, LargestExists
  <2>7. u \in T /\ Bucket(Latency(u)) <= c /\ In(c) \subseteq At(Latency(u))
    BY <1>2, <2>6
  <2>8. At(Latency(u)) \in SUBSET T
    OBVIOUS
  <2>9. /\ Cardinality(In(c)) <= Cardinality(At(Latency(u)))
        /\ Cardinality(At(Latency(u))) \in Nat
    <3> HIDE DEF In, At
    <3> QED
      BY <1>6, <1>7, <2>2, <2>7, <2>8
  <2>10. 100 * Cardinality(At(Latency(u))) >= q
    <3> HIDE DEF In, At
    <3> QED
      BY <1>5, <2>2, <2>3, <2>9
  <2>11. Latency(u) \in Enough
    BY <1>9, <2>7, <2>10
  <2>12. m <= Latency(u) /\ Latency(u) \in Nat
    BY <1>12, <2>7, <2>11
  <2>13. beta <= Bucket(Latency(u))
    BY <1>12, <1>14, <2>12, BucketFacts
  <2>14. Bucket(Latency(u)) \in Nat /\ c \in Nat /\ beta \in Nat
    BY <1>15, <2>1, BucketFacts
  <2> QED
    BY <2>7, <2>13, <2>14
<1>20. Min(Reached) = beta
  <2>1. Reached \in SUBSET Nat
    BY <1>15, <1>17
  <2> QED
    BY <1>18, <1>19, <2>1, MinIs
<1>21. Percentile(hist, p) = IF beta = 0 THEN Below ELSE Edges[beta]
  BY <1>4, <1>16, <1>17, <1>20 DEF Percentile
<1>22. Min({ms \in {Latency(t) : t \in T} : 100 * Cardinality(At(ms)) >= p * Cardinality(T)}) = m
  BY <1>3, <1>4, <1>8, <1>11
<1> QED
  BY <1>14, <1>21, <1>22 DEF LimitBelow

\* SumFunction is the sum over the whole domain.
LEMMA SumFunctionIs ==
    ASSUME NEW f
    PROVE  SumFunction(f) = SumFunctionOnSet(f, DOMAIN f)
  BY DEF SumFunction, SumFunctionOnSet, FoldFunction

\* g is h with one more number, that of a.
Extends(g, h, S, a) ==
    /\ a \notin S /\ DOMAIN h = S /\ DOMAIN g = S \cup {a} /\ g[a] \in Int
    /\ \A x \in S : h[x] \in Int /\ g[x] = h[x]

\* The sum of a function with one more number.
LEMMA SumExtend ==
    ASSUME NEW S, IsFiniteSet(S), NEW a, NEW h, NEW g, Extends(g, h, S, a)
    PROVE  SumFunction(h) \in Int /\ SumFunction(g) = g[a] + SumFunction(h)
<1>0. /\ a \notin S /\ DOMAIN h = S /\ DOMAIN g = S \cup {a} /\ g[a] \in Int
      /\ \A x \in S : h[x] \in Int /\ g[x] = h[x]
  BY DEF Extends
<1>1. SumFunctionOnSet(g, S) = SumFunctionOnSet(h, S) /\ SumFunctionOnSet(h, S) \in Int
  BY <1>0, SumSame, SumStep
<1>2. \A x \in S : g[x] \in Int
  BY <1>0
<1>3. SumFunctionOnSet(g, S \cup {a}) = g[a] + SumFunctionOnSet(g, S)
  BY <1>0, <1>2, SumAdd
<1> QED
  BY <1>0, <1>1, <1>3, SumFunctionIs

-----------------------------------------------------------------------------
(* The transactions of one more instance.                                      *)

\* An instance has finitely many samples.
LEMMA MeasuredFinite ==
    ASSUME NEW d \in InstanceData, NEW name, NEW ok
    PROVE  /\ IsFiniteSet(Measured(d)) /\ Measured(d) \subseteq DOMAIN d.samples
           /\ IsFiniteSet(OfKind(d, Measured(d), name, ok))
           /\ OfKind(d, Measured(d), name, ok) \subseteq DOMAIN d.samples
           /\ Count(d, Measured(d), name, ok) \in Nat
<1>1. d.samples \in Seq(Range(d.samples))
  BY DataAssumption
<1>2. Len(d.samples) \in Nat /\ DOMAIN d.samples = 1 .. Len(d.samples)
  BY <1>1
<1>3. 1 \in Int /\ Len(d.samples) \in Int
  BY <1>2
<1>4. IsFiniteSet(DOMAIN d.samples)
  BY <1>2, <1>3, FS_Interval
<1>5. Measured(d) \subseteq DOMAIN d.samples
  BY DEF Measured, Since
<1>6. OfKind(d, Measured(d), name, ok) \subseteq Measured(d)
  BY DEF OfKind
<1>7. IsFiniteSet(Measured(d))
  BY <1>4, <1>5, FS_Subset
<1>8. IsFiniteSet(OfKind(d, Measured(d), name, ok))
  BY <1>6, <1>7, FS_Subset
<1>9. Count(d, Measured(d), name, ok) \in Nat
  BY <1>8, FS_CardinalityType DEF Count
<1> QED
  BY <1>5, <1>6, <1>7, <1>8, <1>9

\* The pairs of an instance with its samples.
LEMMA PairsFinite ==
    ASSUME NEW i, NEW K, IsFiniteSet(K)
    PROVE  IsFiniteSet({i} \X K) /\ Cardinality({i} \X K) = Cardinality(K)
<1>1. IsFiniteSet({i}) /\ Cardinality({i}) = 1
  BY FS_Singleton
<1>2. /\ IsFiniteSet({i} \X K)
      /\ Cardinality({i} \X K) = Cardinality({i}) * Cardinality(K)
  BY <1>1, FS_Product
<1>3. Cardinality(K) \in Nat
  BY FS_CardinalityType
<1> QED
  BY <1>1, <1>2, <1>3

\* Two sets without a common element.
LEMMA CardDisjoint ==
    ASSUME NEW S, IsFiniteSet(S), NEW T, IsFiniteSet(T), S \cap T = {}
    PROVE  IsFiniteSet(S \cup T) /\ Cardinality(S \cup T) = Cardinality(S) + Cardinality(T)
<1>1. /\ IsFiniteSet(S \cup T)
      /\ Cardinality(S \cup T) = Cardinality(S) + Cardinality(T) - Cardinality({})
  BY FS_Union
<1>2. Cardinality(S) \in Nat /\ Cardinality(T) \in Nat /\ Cardinality({}) = 0
  BY FS_CardinalityType, FS_EmptySet
<1> QED
  BY <1>1, <1>2

\* Whose transactions they are.
LEMMA TransactionsMembers ==
    ASSUME NEW R, NEW name, NEW ok, NEW t \in Transactions(R, name, ok)
    PROVE  /\ t[1] \in R /\ t[2] \in OfKind(dir[t[1]], Measured(dir[t[1]]), name, ok)
           /\ t = <<t[1], t[2]>>
<1>1. PICK i \in R : t \in {i} \X OfKind(dir[i], Measured(dir[i]), name, ok)
  BY DEF Transactions
<1> QED
  BY <1>1

\* The transactions of one more instance join those of the others.
LEMMA TransactionsAdd ==
    ASSUME NEW R, NEW i, NEW name, NEW ok
    PROVE  Transactions(R \cup {i}, name, ok) =
             Transactions(R, name, ok) \cup ({i} \X OfKind(dir[i], Measured(dir[i]), name, ok))
  BY DEF Transactions

\* There are finitely many of them, with their latencies.
LEMMA TransactionsFinite ==
    ASSUME dir \in [Instances -> InstanceData], NEW R \in SUBSET Instances, NEW name, NEW ok
    PROVE  /\ IsFiniteSet(Transactions(R, name, ok))
           /\ \A t \in Transactions(R, name, ok) : Latency(t) \in Nat
<1> DEFINE Of(i) == {i} \X OfKind(dir[i], Measured(dir[i]), name, ok)
           All(s) == Transactions(s, name, ok)
<1>1. \A i \in R : dir[i] \in InstanceData
  OBVIOUS
<1>2. ASSUME NEW i \in R PROVE IsFiniteSet(Of(i))
  BY <1>1, MeasuredFinite, PairsFinite
<1>3. IsFiniteSet(R)
  BY AggregateAssumption, FS_Subset
<1>4. PICK Bad : Bad = {s \in SUBSET R : ~IsFiniteSet(All(s))}
  OBVIOUS
<1>5. Bad = {}
  <2>1. SUFFICES ASSUME Bad # {} PROVE FALSE
    OBVIOUS
  <2>2. PICK s \in Bad : \A u \in Bad : u \subseteq s => u = s
    <3>1. Bad \in SUBSET (SUBSET R)
      BY <1>4
    <3> QED
      BY <1>3, <2>1, <3>1, SmallestSet
  <2>3. s \in SUBSET R /\ ~IsFiniteSet(All(s))
    BY <1>4
  <2>4. s # {}
    <3>1. All({}) = {}
      BY DEF Transactions
    <3> HIDE DEF All
    <3> QED
      BY <2>3, <3>1, FS_EmptySet
  <2>5. PICK i : i \in s
    BY <2>4
  <2>6. PICK u : u = s \ {i}
    OBVIOUS
  <2>7. u \in SUBSET R /\ IsFiniteSet(All(u)) /\ s = u \cup {i}
    BY <1>4, <2>2, <2>3, <2>5, <2>6
  <2>8. All(s) = All(u) \cup Of(i)
    BY <2>7, TransactionsAdd
  <2>9. IsFiniteSet(Of(i))
    BY <1>2, <2>3, <2>5
  <2> HIDE DEF All, Of
  <2>10. IsFiniteSet(All(u) \cup Of(i))
    BY <2>7, <2>9, FS_Union
  <2> QED
    BY <2>3, <2>8, <2>10
<1>6. ASSUME NEW t \in Transactions(R, name, ok) PROVE Latency(t) \in Nat
  <2>1. /\ t[1] \in R /\ t[2] \in DOMAIN dir[t[1]].samples
    BY <1>1, TransactionsMembers, MeasuredFinite
  <2> QED
    BY <1>1, <2>1, DataAssumption DEF Latency
<1> QED
  BY <1>4, <1>5, <1>6

\* Their number is the sum of the counts.
LEMMA CountAdd ==
    ASSUME dir \in [Instances -> InstanceData], NEW R \in SUBSET Instances,
           NEW i \in Instances, i \notin R, NEW name, NEW ok
    PROVE  /\ Cardinality(Transactions(R, name, ok)) \in Nat
           /\ Cardinality(Transactions(R \cup {i}, name, ok)) =
                Cardinality(Transactions(R, name, ok)) + Count(dir[i], Measured(dir[i]), name, ok)
<1>1. PICK d : d = dir[i] /\ d \in InstanceData
  OBVIOUS
<1>2. PICK K : K = OfKind(d, Measured(d), name, ok) /\ IsFiniteSet(K)
  BY <1>1, MeasuredFinite
<1>3. PICK T : T = Transactions(R, name, ok) /\ IsFiniteSet(T)
  BY TransactionsFinite
<1>4. Transactions(R \cup {i}, name, ok) = T \cup ({i} \X K)
  BY <1>1, <1>2, <1>3, TransactionsAdd
<1>5. \A t \in T : t[1] # i
  BY <1>3, TransactionsMembers
<1>6. PICK P : P = {i} \X K
  OBVIOUS
<1>7. IsFiniteSet(P) /\ Cardinality(P) = Cardinality(K) /\ T \cap P = {}
  BY <1>2, <1>5, <1>6, PairsFinite
<1>8. Cardinality(T \cup P) = Cardinality(T) + Cardinality(P)
  BY <1>3, <1>7, CardDisjoint
<1>9. Cardinality(T) \in Nat
  BY <1>3, FS_CardinalityType
<1> QED
  BY <1>1, <1>2, <1>3, <1>4, <1>6, <1>7, <1>8, <1>9 DEF Count

\* The same for the transactions up to a bucket.
BucketAdd(R, i, name, ok, b) ==
    Cardinality(InBucket(Transactions(R \cup {i}, name, ok), b)) =
      Cardinality(InBucket(Transactions(R, name, ok), b)) +
      Cardinality({k \in OfKind(dir[i], Measured(dir[i]), name, ok) :
                     Bucket(dir[i].samples[k].ms) <= b})

\* It holds of every bucket.
LEMMA BucketsAdd ==
    ASSUME dir \in [Instances -> InstanceData], NEW R \in SUBSET Instances,
           NEW i \in Instances, i \notin R, NEW name, NEW ok, NEW b
    PROVE  BucketAdd(R, i, name, ok, b)
<1>1. PICK d : d = dir[i] /\ d \in InstanceData
  OBVIOUS
<1>2. PICK K : K = OfKind(d, Measured(d), name, ok) /\ IsFiniteSet(K)
  BY <1>1, MeasuredFinite
<1>3. PICK T : T = Transactions(R, name, ok) /\ IsFiniteSet(T)
  BY TransactionsFinite
<1>4. Transactions(R \cup {i}, name, ok) = T \cup ({i} \X K)
  BY <1>1, <1>2, <1>3, TransactionsAdd
<1>5. \A t \in T : t[1] # i
  BY <1>3, TransactionsMembers
<1>6. PICK U : U = InBucket(T, b)
  OBVIOUS
<1>7. PICK W : W = {k \in K : Bucket(d.samples[k].ms) <= b}
  OBVIOUS
<1>8. U \subseteq T /\ W \subseteq K
  BY <1>6, <1>7 DEF InBucket
<1>9. IsFiniteSet(U) /\ IsFiniteSet(W)
  BY <1>2, <1>3, <1>8, FS_Subset
<1>10. \A k \in K : Latency(<<i, k>>) = d.samples[k].ms
  BY <1>1 DEF Latency
<1>11. InBucket(T \cup ({i} \X K), b) = U \cup ({i} \X W)
  BY <1>6, <1>7, <1>10 DEF InBucket
<1>12. PICK P : P = {i} \X W
  OBVIOUS
<1>13. IsFiniteSet(P) /\ Cardinality(P) = Cardinality(W) /\ U \cap P = {}
  BY <1>5, <1>8, <1>9, <1>12, PairsFinite
<1>14. Cardinality(U \cup P) = Cardinality(U) + Cardinality(P)
  BY <1>9, <1>13, CardDisjoint
<1>15. InBucket(Transactions(R \cup {i}, name, ok), b) = U \cup P
  BY <1>4, <1>11, <1>12
<1>16. InBucket(Transactions(R, name, ok), b) = U
  BY <1>3, <1>6
<1>17. {k \in OfKind(dir[i], Measured(dir[i]), name, ok) :
          Bucket(dir[i].samples[k].ms) <= b} = W
  BY <1>1, <1>2, <1>7
<1> QED
  BY <1>13, <1>14, <1>15, <1>16, <1>17 DEF BucketAdd

-----------------------------------------------------------------------------
(* The second loop: what has been counted is what the instances measured.      *)

\* The kinds of transactions that instances measured.
NamesIn(R) == UNION {Names(dir[i], Measured(dir[i])) : i \in R}

\* stats and hist count the transactions of the instances of R.
StatsCount(stats, R) ==
    /\ DOMAIN stats = NamesIn(R)
    /\ \A n \in DOMAIN stats :
          stats[n] = [ok |-> Cardinality(Transactions(R, n, TRUE)),
                      failed |-> Cardinality(Transactions(R, n, FALSE))]

HistCounts(hist, R) ==
    /\ \A n \in NamesIn(R) : Transactions(R, n, TRUE) # {} => n \in DOMAIN hist
    /\ \A n \in DOMAIN hist : CountsOf(hist[n], Transactions(R, n, TRUE))

\* A name that no instance has.
LEMMA NoTransactions ==
    ASSUME NEW R, NEW n, n \notin NamesIn(R), NEW ok
    PROVE  Transactions(R, n, ok) = {}
<1>1. SUFFICES ASSUME NEW t \in Transactions(R, n, ok) PROVE FALSE
  OBVIOUS
<1>2. PICK i, k : i \in R /\ k \in OfKind(dir[i], Measured(dir[i]), n, ok)
  BY TransactionsMembers
<1>3. n \in Names(dir[i], Measured(dir[i]))
  BY <1>2 DEF Names, OfKind
<1> QED
  BY <1>2, <1>3 DEF NamesIn

\* The counts of an instance are added.
MergedStats(stats, i) ==
    [n \in Names(dir[i], Measured(dir[i])) \cup DOMAIN stats |->
       [ok |-> (IF n \in DOMAIN stats THEN stats[n] ELSE [ok |-> 0, failed |-> 0]).ok
                 + Count(dir[i], Measured(dir[i]), n, TRUE),
        failed |-> (IF n \in DOMAIN stats THEN stats[n] ELSE [ok |-> 0, failed |-> 0]).failed
                 + Count(dir[i], Measured(dir[i]), n, FALSE)]]

MergedHist(hist, i, names) ==
    [n \in names \cup DOMAIN hist |->
       AddHistogram(IF n \in DOMAIN hist THEN hist[n] ELSE EmptyHistogram,
                    HistogramOf(dir[i], Measured(dir[i]), n))]

\* What was counted of R and of one more instance is what they measured together.
LEMMA StatsMerged ==
    ASSUME dir \in [Instances -> InstanceData], NEW R \in SUBSET Instances,
           NEW i \in Instances, i \notin R, NEW stats, StatsCount(stats, R)
    PROVE  StatsCount(MergedStats(stats, i), R \cup {i})
<1>1. PICK m : m = MergedStats(stats, i)
  OBVIOUS
<1>2. DOMAIN m = NamesIn(R \cup {i})
  <2>1. DOMAIN m = Names(dir[i], Measured(dir[i])) \cup NamesIn(R)
    BY <1>1 DEF MergedStats, StatsCount
  <2>2. NamesIn(R \cup {i}) = Names(dir[i], Measured(dir[i])) \cup NamesIn(R)
    BY DEF NamesIn
  <2> QED
    BY <2>1, <2>2
<1>3. ASSUME NEW n \in DOMAIN m
      PROVE  m[n] = [ok |-> Cardinality(Transactions(R \cup {i}, n, TRUE)),
                     failed |-> Cardinality(Transactions(R \cup {i}, n, FALSE))]
  <2>1. PICK a, b, x, y : /\ a = Cardinality(Transactions(R, n, TRUE))
                          /\ b = Cardinality(Transactions(R, n, FALSE))
                          /\ x = Count(dir[i], Measured(dir[i]), n, TRUE)
                          /\ y = Count(dir[i], Measured(dir[i]), n, FALSE)
    OBVIOUS
  <2>2. /\ Cardinality(Transactions(R \cup {i}, n, TRUE)) = a + x
        /\ Cardinality(Transactions(R \cup {i}, n, FALSE)) = b + y
    <3>1. \A ok : Cardinality(Transactions(R \cup {i}, n, ok)) =
                     Cardinality(Transactions(R, n, ok)) + Count(dir[i], Measured(dir[i]), n, ok)
      BY CountAdd
    <3> QED
      BY <2>1, <3>1
  <2>3. PICK s : s = IF n \in DOMAIN stats THEN stats[n] ELSE [ok |-> 0, failed |-> 0]
    OBVIOUS
  <2>4. s.ok = a /\ s.failed = b
    <3>1. CASE n \in DOMAIN stats
      <4>1. stats[n] = [ok |-> a, failed |-> b]
        BY <2>1, <3>1 DEF StatsCount
      <4> QED
        BY <2>3, <3>1, <4>1
    <3>2. CASE n \notin DOMAIN stats
      <4>1. Transactions(R, n, TRUE) = {} /\ Transactions(R, n, FALSE) = {}
        BY <3>2, NoTransactions DEF StatsCount
      <4> QED
        BY <2>1, <2>3, <3>2, <4>1, FS_EmptySet
    <3> QED
      BY <3>1, <3>2
  <2>5. m[n] = [ok |-> s.ok + x, failed |-> s.failed + y]
    BY <1>1, <2>1, <2>3 DEF MergedStats
  <2> QED
    BY <2>2, <2>4, <2>5
<1> QED
  BY <1>1, <1>2, <1>3 DEF StatsCount

\* The same of the histograms.
LEMMA HistMerged ==
    ASSUME dir \in [Instances -> InstanceData], NEW R \in SUBSET Instances,
           NEW i \in Instances, i \notin R, NEW hist, HistCounts(hist, R), NEW names,
           \A n \in Names(dir[i], Measured(dir[i])) :
              OfKind(dir[i], Measured(dir[i]), n, TRUE) # {} => n \in names
    PROVE  HistCounts(MergedHist(hist, i, names), R \cup {i})
<1>1. PICK m : m = MergedHist(hist, i, names)
  OBVIOUS
<1>2. PICK d : d = dir[i] /\ d \in InstanceData
  OBVIOUS
<1>3. DOMAIN m = names \cup DOMAIN hist
  BY <1>1 DEF MergedHist
<1>4. ASSUME NEW n \in NamesIn(R \cup {i}), Transactions(R \cup {i}, n, TRUE) # {}
      PROVE  n \in DOMAIN m
  <2>1. CASE Transactions(R, n, TRUE) # {}
    BY <1>3, <2>1, NoTransactions DEF HistCounts
  <2>2. CASE Transactions(R, n, TRUE) = {}
    <3>0. \A ok : Transactions(R \cup {i}, n, ok) =
            Transactions(R, n, ok) \cup ({i} \X OfKind(dir[i], Measured(dir[i]), n, ok))
      BY TransactionsAdd
    <3>1. OfKind(d, Measured(d), n, TRUE) # {}
      BY <1>2, <1>4, <2>2, <3>0
    <3>2. n \in Names(d, Measured(d))
      BY <3>1 DEF Names, OfKind
    <3> QED
      BY <1>2, <1>3, <3>1, <3>2
  <2> QED
    BY <2>1, <2>2
<1>5. ASSUME NEW n \in DOMAIN m
      PROVE  /\ m[n] \in Histograms
             /\ \A b \in Buckets :
                   UpTo(m[n], b) = Cardinality(InBucket(Transactions(R \cup {i}, n, TRUE), b))
  <2>1. PICK h : h = IF n \in DOMAIN hist THEN hist[n] ELSE EmptyHistogram
    OBVIOUS
  <2>2. PICK o : o = HistogramOf(d, Measured(d), n)
    OBVIOUS
  <2>3. m[n] = AddHistogram(h, o)
    BY <1>1, <1>2, <1>3, <2>1, <2>2 DEF MergedHist
  <2>4. h \in Histograms /\ \A b \in Buckets :
           UpTo(h, b) = Cardinality(InBucket(Transactions(R, n, TRUE), b))
    <3>1. CASE n \in DOMAIN hist
      BY <2>1, <3>1 DEF HistCounts, CountsOf
    <3>2. CASE n \notin DOMAIN hist
      <4>1. Transactions(R, n, TRUE) = {}
        BY <3>2, NoTransactions DEF HistCounts
      <4>2. \A b \in Buckets : InBucket(Transactions(R, n, TRUE), b) = {}
        BY <4>1 DEF InBucket
      <4> QED
        BY <2>1, <3>2, <4>2, EmptyCounts, FS_EmptySet
    <3> QED
      BY <3>1, <3>2
  <2>5. CountsSamples(o, d, OfKind(d, Measured(d), n, TRUE))
    BY <1>2, <2>2, MeasuredFinite, HistogramCounts
  <2>6. o \in Histograms
    BY <2>5 DEF CountsSamples
  <2>7. m[n] \in Histograms /\ \A b \in Buckets : UpTo(m[n], b) = UpTo(h, b) + UpTo(o, b)
    BY <2>3, <2>4, <2>6, AddHistogramCounts
  <2>8. ASSUME NEW b \in Buckets
        PROVE  UpTo(m[n], b) = Cardinality(InBucket(Transactions(R \cup {i}, n, TRUE), b))
    <3>1. UpTo(o, b) = Cardinality({k \in OfKind(d, Measured(d), n, TRUE) :
                                      Bucket(d.samples[k].ms) <= b})
      BY <2>5 DEF CountsSamples
    <3>2. \A ok : BucketAdd(R, i, n, ok, b)
      BY BucketsAdd
    <3>3. Cardinality(InBucket(Transactions(R \cup {i}, n, TRUE), b)) =
            UpTo(h, b) + Cardinality({k \in OfKind(d, Measured(d), n, TRUE) :
                                        Bucket(d.samples[k].ms) <= b})
      BY <1>2, <2>4, <3>2 DEF BucketAdd
    <3> QED
      BY <2>7, <3>1, <3>3
  <2> QED
    BY <2>7, <2>8
<1> QED
  BY <1>1, <1>4, <1>5 DEF HistCounts, CountsOf

\* The types of the aggregator.
AggFields == {"phase", "order", "results", "read", "stats", "hist", "total", "report"}

AggOK ==
    /\ DOMAIN agg = AggFields
    /\ agg.phase \in {"logs", "raw", "reported", "failed"}
    /\ agg.order \in Seq(Instances) /\ agg.read \in 0 .. Len(agg.order)
    /\ agg.results \in Seq(InstanceData)
    /\ agg.phase \in {"raw", "reported"} => agg.total.start \in Nat

\* Of the aggregator's state only what the table of results depends on counts.
LEMMA AggSame ==
    ASSUME AggOK, DOMAIN agg' = AggFields,
           agg'.phase \in {"logs", "raw", "reported", "failed"},
           agg'.order \in Seq(Instances), agg'.read \in 0 .. Len(agg'.order),
           agg'.results \in Seq(InstanceData),
           agg'.phase \in {"raw", "reported"} => agg'.total.start \in Nat
    PROVE  AggOK'
  BY DEF AggOK, AggFields

\* A failure keeps what was read.
LEMMA FailsOK ==
    ASSUME AggOK, Fails
    PROVE  AggOK'
<1>1. PICK a, b : a = agg /\ b = agg'
  OBVIOUS
<1>2. DOMAIN a = AggFields /\ b = [a EXCEPT !.phase = "failed"]
  BY <1>1 DEF AggOK, Fails
<1>3. DOMAIN b = AggFields /\ b.phase = "failed" /\ b.results = a.results
      /\ b.order = a.order /\ b.read = a.read
  BY <1>2 DEF AggFields
<1> QED
  BY <1>1, <1>3, AggSame DEF AggOK

\* The second loop keeps the totals of the first.
LEMMA MergeOK ==
    ASSUME AggOK, agg.phase = "raw", NEW d, NEW ks, NEW names, NEW done,
           agg.read < Len(agg.order), done = [agg EXCEPT !.read = agg.read + 1],
           Merge(d, ks, names, done)
    PROVE  AggOK'
<1>1. PICK a, b : a = agg /\ b = agg'
  OBVIOUS
<1>2. PICK st, hi : b = [done EXCEPT !.stats = st, !.hist = hi]
  BY <1>1 DEF Merge
<1>3. DOMAIN a = AggFields /\ done = [a EXCEPT !.read = a.read + 1]
  BY <1>1 DEF AggOK
<1>4. /\ DOMAIN done = AggFields /\ done.phase = a.phase /\ done.results = a.results
      /\ done.total = a.total /\ done.order = a.order /\ done.read = a.read + 1
  BY <1>3 DEF AggFields
<1>5. /\ DOMAIN b = AggFields /\ b.phase = done.phase /\ b.results = done.results
      /\ b.total = done.total /\ b.order = done.order /\ b.read = done.read
  BY <1>2, <1>4 DEF AggFields
<1>6. b.read \in 0 .. Len(b.order)
  BY <1>1, <1>4, <1>5 DEF AggOK
<1> QED
  BY <1>1, <1>4, <1>5, <1>6, AggSame DEF AggOK

\* Each step keeps the types, and the directories.
LEMMA AggStep ==
    ASSUME AggOK, dir \in [Instances -> InstanceData], AggNext
    PROVE  AggOK' /\ dir' = dir /\ agg.phase \in {"logs", "raw"}
<1>1. ASSUME NEW i \in Instances, ReadLog(i)
      PROVE  AggOK' /\ dir' = dir /\ agg.phase \in {"logs", "raw"}
  <2>1. PICK d : d = dir[i]
    OBVIOUS
  <2>2. d \in InstanceData /\ d.log \in {"none", "cut", "complete"}
    BY <2>1, DataAssumption
  <2>3. PICK order : order = Append(agg.order, i)
    OBVIOUS
  <2>4. PICK listed : listed = [agg EXCEPT !.order = order]
    OBVIOUS
  <2>5. /\ DOMAIN listed = AggFields /\ listed.phase = agg.phase
        /\ listed.results = agg.results /\ listed.total = agg.total
        /\ listed.order = order /\ listed.read = agg.read
    <3>1. PICK a : a = agg
      OBVIOUS
    <3>2. DOMAIN a = AggFields /\ listed = [a EXCEPT !.order = order]
      BY <2>4, <3>1 DEF AggOK
    <3>3. /\ DOMAIN listed = AggFields /\ listed.phase = a.phase
          /\ listed.results = a.results /\ listed.total = a.total
          /\ listed.order = order /\ listed.read = a.read
      BY <3>2 DEF AggFields
    <3> QED
      BY <3>1, <3>3
  <2>6. order \in Seq(Instances) /\ agg.read \in 0 .. Len(order)
    BY <2>3 DEF AggOK
  <2>7. agg.phase = "logs" /\ dir' = dir
    BY <1>1 DEF ReadLog
  <2>8. AggOK'
    <3>1. CASE d.log = "none"
      <4>1. agg' = listed
        BY <1>1, <2>1, <2>3, <2>4, <3>1 DEF ReadLog
      <4> QED
        BY <2>5, <2>7, <2>6, <4>1, AggSame DEF AggOK
    <3>2. CASE d.log = "cut"
      <4>1. Fails
        BY <1>1, <2>1, <3>2 DEF ReadLog
      <4> QED
        BY <4>1, FailsOK
    <3>3. CASE d.log = "complete"
      <4>1. PICK rs : rs = Append(listed.results, d)
        OBVIOUS
      <4>2. rs \in Seq(InstanceData)
        BY <2>2, <2>5, <4>1 DEF AggOK
      <4>3. PICK b : b = [listed EXCEPT !.results = rs]
        OBVIOUS
      <4>4. agg' = b
        BY <1>1, <2>1, <2>3, <2>4, <3>3, <4>1, <4>3 DEF ReadLog
      <4>5. DOMAIN b = AggFields /\ b.phase = listed.phase /\ b.results = rs
               /\ b.order = order /\ b.read = agg.read
        BY <2>5, <4>3 DEF AggFields
      <4> QED
        BY <2>5, <2>7, <2>6, <4>2, <4>4, <4>5, AggSame
    <3> QED
      BY <2>2, <3>1, <3>2, <3>3
  <2> QED
    BY <2>7, <2>8
<1>2. CASE SumUp
  <2>1. PICK rs : rs = agg.results
    OBVIOUS
  <2>2. agg.phase = "logs" /\ dir' = dir /\ rs \in Seq(InstanceData)
    BY <1>2, <2>1 DEF SumUp, AggOK
  <2>3. CASE Fails
    BY <2>2, <2>3, FailsOK
  <2>4. CASE rs # <<>> /\ ~Fails
    <3>1. PICK total : agg' = [agg EXCEPT !.phase = "raw", !.total = total]
                       /\ total.start = rs[1].start
      BY <1>2, <2>1, <2>4 DEF SumUp
    <3>2. rs[1] \in InstanceData
      BY <2>2, <2>4
    <3>3. total.start \in Nat
      BY <3>1, <3>2, DataAssumption
    <3>4. PICK a, b : a = agg /\ b = agg'
      OBVIOUS
    <3>5. DOMAIN a = AggFields /\ b = [a EXCEPT !.phase = "raw", !.total = total]
      BY <3>1, <3>4 DEF AggOK
    <3>6. /\ DOMAIN b = AggFields /\ b.phase = "raw" /\ b.results = a.results
          /\ b.total = total /\ b.order = a.order /\ b.read = a.read
      BY <3>5 DEF AggFields
    <3>7. AggOK'
      BY <2>1, <2>2, <3>3, <3>4, <3>6, AggSame DEF AggOK
    <3> QED
      BY <2>2, <3>7
  <2> QED
    BY <1>2, <2>1, <2>3, <2>4 DEF SumUp
<1>3. CASE ReadRaw
  <2>1. PICK d : d = dir[agg.order[agg.read + 1]]
    OBVIOUS
  <2>2. PICK done : done = [agg EXCEPT !.read = agg.read + 1]
    OBVIOUS
  <2>3. agg.phase = "raw" /\ dir' = dir /\ agg.read < Len(agg.order)
    BY <1>3 DEF ReadRaw
  <2>4. d.raw \in {"none", "json", "csv"}
    <3>1. agg.order[agg.read + 1] \in Instances
      BY <2>3 DEF AggOK
    <3> QED
      BY <2>1, <3>1, DataAssumption
  <2>5. agg' = done \/ Fails \/ \E e, ks, names : Merge(e, ks, names, done)
    BY <1>3, <2>1, <2>2, <2>4 DEF ReadRaw
  <2>6. CASE agg' = done
    <3>1. PICK a, b : a = agg /\ b = agg'
      OBVIOUS
    <3>2. DOMAIN a = AggFields /\ b = [a EXCEPT !.read = a.read + 1]
      BY <2>2, <2>6, <3>1 DEF AggOK
    <3>3. /\ DOMAIN b = AggFields /\ b.phase = a.phase /\ b.results = a.results
          /\ b.total = a.total /\ b.order = a.order /\ b.read = a.read + 1
      BY <3>2 DEF AggFields
    <3>4. b.read \in 0 .. Len(b.order)
      BY <2>3, <3>1, <3>3 DEF AggOK
    <3>5. AggOK'
      BY <3>1, <3>3, <3>4, AggSame DEF AggOK
    <3> QED
      BY <2>3, <3>5
  <2> QED
    BY <2>2, <2>3, <2>5, <2>6, FailsOK, MergeOK
<1>4. CASE Report
  <2>1. agg.phase = "raw" /\ dir' = dir
    BY <1>4 DEF Report
  <2>2. PICK report : agg' = [agg EXCEPT !.phase = "reported", !.report = report]
    BY <1>4 DEF Report
  <2>3. PICK a, b : a = agg /\ b = agg'
    OBVIOUS
  <2>4. DOMAIN a = AggFields /\ b = [a EXCEPT !.phase = "reported", !.report = report]
    BY <2>2, <2>3 DEF AggOK
  <2>5. /\ DOMAIN b = AggFields /\ b.phase = "reported" /\ b.results = a.results
        /\ b.total = a.total /\ b.order = a.order /\ b.read = a.read
    BY <2>4 DEF AggFields
  <2>6. AggOK'
    BY <2>1, <2>3, <2>5, AggSame DEF AggOK
  <2> QED
    BY <2>1, <2>6
<1> QED
  BY <1>1, <1>2, <1>3, <1>4 DEF AggNext

\* What is added up of the logs; the instances that a state has read.
Figures == {"warehouses", "tpmc"}

LogsRead(a) == {i \in Range(a.order) : dir[i].log = "complete"}
RawsRead(a) == {i \in Raws : \E k \in 1 .. a.read : a.order[k] = i}
SumOver(S, f) == SumFunction([i \in S |-> dir[i][f]])
SumOf(rs, f) == SumFunction([k \in DOMAIN rs |-> rs[k][f]])

\* The percentiles of the histograms.
ReportOf(hist) ==
    [n \in {m \in DOMAIN hist : TotalCount(hist[m]) > 0} |->
       [p \in Percentiles |-> Percentile(hist[n], p)]]

\* No instance is listed twice.
Distinct(s) == \A j, k \in 1 .. Len(s) : s[j] = s[k] => j = k

\* What was read so far is in the totals and in the counts, once.
ReadOnce(a) ==
    /\ Distinct(a.order)
    /\ \A k \in 1 .. Len(a.results) : \E i \in Instances : a.results[k] = dir[i]
    /\ \A f \in Figures : SumOf(a.results, f) = SumOver(LogsRead(a), f)

\* The totals are those of the logs.
Totalled(a) ==
    /\ Range(a.order) = Instances
    /\ a.total.warehouses = SumOver(LogsRead(a), "warehouses")
    /\ a.total.tpmc = SumOver(LogsRead(a), "tpmc")
    /\ \E i \in Instances : a.total.start = dir[i].start

Counted(a) == StatsCount(a.stats, RawsRead(a)) /\ HistCounts(a.hist, RawsRead(a))

\* The invariant of the aggregator.
TotalsOK(a) ==
    /\ ReadOnce(a)
    /\ a.phase = "logs" => a.read = 0 /\ DOMAIN a.stats = {} /\ DOMAIN a.hist = {}
    /\ a.phase \in {"raw", "reported"} => Totalled(a) /\ (Comparable => Counted(a))
    /\ a.phase = "reported" => a.read = Len(a.order) /\ a.report = ReportOf(a.hist)

\* A sum over the instances with one more.
LEMMA SumOverAdd ==
    ASSUME dir \in [Instances -> InstanceData], NEW S \in SUBSET Instances,
           NEW i \in Instances, i \notin S, NEW f \in Figures
    PROVE  SumOver(S \cup {i}, f) = dir[i][f] + SumOver(S, f) /\ SumOver(S, f) \in Int
<1>1. IsFiniteSet(S)
  BY AggregateAssumption, FS_Subset
<1>2. \A x \in Instances : dir[x][f] \in Int
  BY DataAssumption DEF Figures
<1>3. PICK h : h = [x \in S |-> dir[x][f]]
  OBVIOUS
<1>4. PICK g : g = [x \in S \cup {i} |-> dir[x][f]]
  OBVIOUS
<1>5. Extends(g, h, S, i) /\ g[i] = dir[i][f]
  BY <1>2, <1>3, <1>4 DEF Extends
<1>6. SumFunction(h) \in Int /\ SumFunction(g) = g[i] + SumFunction(h)
  BY <1>1, <1>5, SumExtend
<1> QED
  BY <1>3, <1>4, <1>5, <1>6 DEF SumOver

\* The field f of the elements of V is a number.
Numbers(V, f) == \A x \in V : x[f] \in Int

\* A list that one more result joins.
LEMMA SumAppend ==
    ASSUME NEW V, NEW s \in Seq(V), NEW e \in V, NEW f, Numbers(V, f)
    PROVE  SumOf(s, f) \in Int /\ SumOf(Append(s, e), f) = e[f] + SumOf(s, f)
<1>1. PICK t : t = Append(s, e)
  OBVIOUS
<1>2. PICK n : n = Len(s)
  OBVIOUS
<1>3. n \in Nat /\ DOMAIN s = 1 .. n /\ DOMAIN t = 1 .. (n + 1)
  BY <1>1, <1>2
<1>4. (\A k \in 1 .. n : t[k] = s[k] /\ s[k] \in V) /\ t[n + 1] = e
  BY <1>1, <1>2
<1>5. PICK h : h = [k \in DOMAIN s |-> s[k][f]]
  OBVIOUS
<1>6. PICK g : g = [k \in DOMAIN t |-> t[k][f]]
  OBVIOUS
<1>7. DOMAIN g = 1 .. n \cup {n + 1} /\ n + 1 \notin 1 .. n /\ DOMAIN h = 1 .. n
  BY <1>3, <1>5, <1>6
<1>8. /\ g[n + 1] = e[f] /\ g[n + 1] \in Int
      /\ \A x \in 1 .. n : h[x] \in Int /\ g[x] = h[x]
  BY <1>3, <1>4, <1>5, <1>6 DEF Numbers
<1>9. IsFiniteSet(1 .. n)
  <2>1. 1 \in Int /\ n \in Int
    BY <1>3
  <2> QED
    BY <2>1, FS_Interval
<1>10. Extends(g, h, 1 .. n, n + 1)
  BY <1>7, <1>8 DEF Extends
<1>11. SumFunction(h) \in Int /\ SumFunction(g) = g[n + 1] + SumFunction(h)
  BY <1>9, <1>10, SumExtend
<1> QED
  BY <1>1, <1>5, <1>6, <1>8, <1>11 DEF SumOf

\* The same of the figures of an instance.
LEMMA SumOfAppend ==
    ASSUME NEW rs \in Seq(InstanceData), NEW d \in InstanceData, NEW f \in Figures
    PROVE  SumOf(Append(rs, d), f) = d[f] + SumOf(rs, f) /\ SumOf(rs, f) \in Int
<1>1. Numbers(InstanceData, f)
  BY DataAssumption DEF Figures, Numbers
<1> QED
  BY <1>1, SumAppend

\* What the steps keep.
LEMMA ReadOnceSame ==
    ASSUME NEW a, ReadOnce(a), NEW b, b.order = a.order, b.results = a.results
    PROVE  ReadOnce(b)
  BY DEF ReadOnce, LogsRead

\* The totals stay.
LEMMA TotalledSame ==
    ASSUME NEW a, Totalled(a), NEW b, b.order = a.order, b.total = a.total
    PROVE  Totalled(b)
  BY DEF Totalled, LogsRead

\* The instance that os.listdir gives next.
LEMMA OneMoreListed ==
    ASSUME NEW S, NEW s \in Seq(S), NEW i
    PROVE  /\ Range(Append(s, i)) = Range(s) \cup {i} /\ Range(s) \subseteq S
           /\ i \notin Range(s) /\ Distinct(s) => Distinct(Append(s, i))
<1>0. PICK o : o = Append(s, i)
  OBVIOUS
<1>1. PICK n : n = Len(s)
  OBVIOUS
<1>3. /\ n \in Nat /\ DOMAIN s = 1 .. n /\ Len(o) = n + 1 /\ DOMAIN o = 1 .. (n + 1)
      /\ \A k \in 1 .. n : o[k] = s[k] /\ s[k] \in S
      /\ o[n + 1] = i
  <2>1. PICK V : V = S \cup {i}
    OBVIOUS
  <2>2. s \in Seq(V) /\ i \in V
    BY <2>1
  <2>3. /\ n \in Nat /\ DOMAIN s = 1 .. n /\ Len(o) = n + 1 /\ DOMAIN o = 1 .. (n + 1)
        /\ \A k \in 1 .. n : o[k] = s[k]
        /\ o[n + 1] = i
    BY <1>0, <1>1, <2>2
  <2> QED
    BY <1>1, <2>3
<1>4. \A k \in 1 .. (n + 1) : k \in 1 .. n \/ k = n + 1
  BY <1>3
<1>5. n + 1 \in 1 .. (n + 1) /\ \A k \in 1 .. n : k \in 1 .. (n + 1)
  BY <1>3
<1>6. Range(o) = Range(s) \cup {i}
  BY <1>3, <1>4, <1>5 DEF Range
<1>7. Range(s) \subseteq S
  BY <1>3 DEF Range
<1>8. ASSUME i \notin Range(s), Distinct(s) PROVE Distinct(o)
  <2>1. \A k \in 1 .. n : o[k] # i
    BY <1>3, <1>8 DEF Range
  <2>2. \A j, k \in 1 .. n : o[j] = o[k] => j = k
    BY <1>1, <1>3, <1>8 DEF Distinct
  <2>3. \A j, k \in 1 .. (n + 1) : o[j] = o[k] => j = k
    BY <1>3, <1>4, <2>1, <2>2
  <2> QED
    BY <1>3, <2>3 DEF Distinct
<1> QED
  BY <1>0, <1>6, <1>7, <1>8

\* The first loop: its log is read, or it has none.
LEMMA ReadLogTotals ==
    ASSUME dir \in [Instances -> InstanceData], NEW a, NEW b, NEW i \in Instances,
           DOMAIN a = AggFields, a.order \in Seq(Instances), a.results \in Seq(InstanceData),
           TotalsOK(a), a.phase = "logs", i \notin Range(a.order),
           \/ dir[i].log = "none" /\ b = [a EXCEPT !.order = Append(@, i)]
           \/ dir[i].log = "complete" /\
              b = [[a EXCEPT !.order = Append(@, i)] EXCEPT !.results = Append(@, dir[i])]
    PROVE  TotalsOK(b)
<1>0. PICK L : L = LogsRead(a)
  OBVIOUS
<1>1. /\ b.order = Append(a.order, i) /\ b.phase = "logs" /\ b.read = a.read
      /\ b.stats = a.stats /\ b.hist = a.hist
  BY DEF AggFields
<1>2. /\ Range(b.order) = Range(a.order) \cup {i} /\ L \subseteq Instances /\ i \notin L
      /\ ReadOnce(a)
      /\ Distinct(b.order)
  <2>1. ReadOnce(a)
    BY DEF TotalsOK
  <2>2. /\ Range(b.order) = Range(a.order) \cup {i} /\ Range(a.order) \subseteq Instances
        /\ Distinct(b.order)
    <3>1. PICK s : s = a.order
      OBVIOUS
    <3>2. PICK o : o = Append(s, i)
      OBVIOUS
    <3>3. s \in Seq(Instances) /\ i \notin Range(s) /\ Distinct(s)
      BY <2>1, <3>1 DEF ReadOnce
    <3>4. Range(o) = Range(s) \cup {i} /\ Range(s) \subseteq Instances /\ Distinct(o)
      BY <3>2, <3>3, OneMoreListed
    <3> QED
      BY <1>1, <3>1, <3>2, <3>4
  <2> QED
    BY <1>0, <2>1, <2>2 DEF LogsRead
<1>3. CASE dir[i].log = "none"
  <2>1. b.results = a.results
    BY <1>3 DEF AggFields
  <2>2. LogsRead(b) = L
    BY <1>0, <1>2, <1>3 DEF LogsRead
  <2>3. ReadOnce(b)
    BY <1>0, <1>2, <2>1, <2>2 DEF ReadOnce
  <2> QED
    BY <1>1, <2>3 DEF TotalsOK
<1>4. CASE dir[i].log = "complete"
  <2>1. b.results = Append(a.results, dir[i])
    BY <1>4 DEF AggFields
  <2>2. LogsRead(b) = L \cup {i}
    BY <1>0, <1>2, <1>4 DEF LogsRead
  <2>3. ASSUME NEW f \in Figures PROVE SumOf(b.results, f) = SumOver(LogsRead(b), f)
    <3>1. SumOf(b.results, f) = dir[i][f] + SumOf(a.results, f)
      BY <2>1, SumOfAppend
    <3>2. SumOver(L \cup {i}, f) = dir[i][f] + SumOver(L, f)
      BY <1>2, SumOverAdd
    <3>3. SumOf(a.results, f) = SumOver(L, f)
      BY <1>0, <1>2 DEF ReadOnce
    <3> QED
      BY <2>2, <3>1, <3>2, <3>3
  <2>4. \A k \in 1 .. Len(b.results) : \E j \in Instances : b.results[k] = dir[j]
    <3>1. /\ Len(b.results) = Len(a.results) + 1 /\ Len(a.results) \in Nat
          /\ \A k \in 1 .. Len(a.results) : b.results[k] = a.results[k]
          /\ b.results[Len(a.results) + 1] = dir[i]
      BY <2>1
    <3> QED
      BY <1>2, <3>1 DEF ReadOnce
  <2>5. ReadOnce(b)
    BY <1>2, <2>3, <2>4 DEF ReadOnce
  <2> QED
    BY <1>1, <2>5 DEF TotalsOK
<1> QED
  BY <1>3, <1>4

\* The first instance with a log is one of the directories.
LEMMA SumUpTotals ==
    ASSUME dir \in [Instances -> InstanceData], NEW a, NEW b,
           DOMAIN a = AggFields, a.results \in Seq(InstanceData), TotalsOK(a),
           a.phase = "logs", Range(a.order) = Instances, a.results # <<>>,
           b = [a EXCEPT !.phase = "raw",
                         !.total = [start |-> a.results[1].start,
                                    warehouses |-> SumOf(a.results, "warehouses"),
                                    tpmc |-> SumOf(a.results, "tpmc"),
                                    delta |-> a.results[Len(a.results)].start - a.results[1].start]]
    PROVE  TotalsOK(b)
<1>1. PICK w, t, s, e : /\ w = SumOf(a.results, "warehouses") /\ t = SumOf(a.results, "tpmc")
                        /\ s = a.results[1].start
                        /\ e = a.results[Len(a.results)].start - a.results[1].start
  OBVIOUS
<1>2. PICK total : total = [start |-> s, warehouses |-> w, tpmc |-> t, delta |-> e]
  OBVIOUS
<1>3. b = [a EXCEPT !.phase = "raw", !.total = total]
  BY <1>1, <1>2
<1>4. /\ b.order = a.order /\ b.results = a.results /\ b.phase = "raw" /\ b.total = total
      /\ b.read = a.read /\ b.stats = a.stats /\ b.hist = a.hist
  BY <1>3 DEF AggFields
<1>5. ReadOnce(a) /\ ReadOnce(b)
  BY <1>4, ReadOnceSame DEF TotalsOK
<1>6. LogsRead(b) = LogsRead(a)
  BY <1>4 DEF LogsRead
<1>7. Totalled(b)
  <2>1. \E i \in Instances : s = dir[i].start
    <3>1. Len(a.results) \in Nat /\ Len(a.results) # 0
      OBVIOUS
    <3>2. 1 \in 1 .. Len(a.results)
      BY <3>1
    <3> QED
      BY <1>1, <1>5, <3>2 DEF ReadOnce
  <2>2. w = SumOver(LogsRead(a), "warehouses") /\ t = SumOver(LogsRead(a), "tpmc")
    BY <1>1, <1>5 DEF ReadOnce, Figures
  <2>3. total.warehouses = w /\ total.tpmc = t /\ total.start = s
    BY <1>2
  <2> QED
    BY <1>4, <1>6, <2>1, <2>2, <2>3 DEF Totalled
<1>8. Counted(b)
  <2>1. b.read = 0 /\ DOMAIN b.stats = {} /\ DOMAIN b.hist = {}
    BY <1>4 DEF TotalsOK
  <2>2. RawsRead(b) = {}
    BY <2>1 DEF RawsRead
  <2>3. NamesIn({}) = {}
    BY DEF NamesIn
  <2> QED
    BY <2>1, <2>2, <2>3 DEF Counted, StatsCount, HistCounts
<1> QED
  BY <1>4, <1>5, <1>7, <1>8 DEF TotalsOK

\* The second loop at the next instance.
LEMMA RawsReadNext ==
    ASSUME NEW a, a.order \in Seq(Instances), a.read \in Nat, a.read < Len(a.order),
           ReadOnce(a), NEW b, b.order = a.order, b.read = a.read + 1,
           NEW i, i = a.order[a.read + 1]
    PROVE  /\ i \in Instances
           /\ i \notin RawsRead(a)
           /\ RawsRead(b) = IF dir[i].raw = "none" THEN RawsRead(a) ELSE RawsRead(a) \cup {i}
<1>1. PICK r : r = a.read
  OBVIOUS
<1>2. PICK o : o = a.order
  OBVIOUS
<1>3. r \in Nat /\ o \in Seq(Instances) /\ Len(o) \in Nat /\ r < Len(o) /\ i = o[r + 1]
  BY <1>1, <1>2
<1>4. /\ r + 1 \in 1 .. Len(o) /\ \A k \in 1 .. r : k \in 1 .. Len(o) /\ k # r + 1
      /\ 1 .. (r + 1) = 1 .. r \cup {r + 1}
  BY <1>3
<1>5. i \in Instances
  BY <1>3, <1>4
<1>6. \A k \in 1 .. r : o[k] # i
  BY <1>2, <1>3, <1>4 DEF ReadOnce, Distinct
<1>7. i \notin RawsRead(a)
  BY <1>1, <1>2, <1>6 DEF RawsRead
<1>8. RawsRead(b) = {j \in Raws : \E k \in 1 .. (r + 1) : o[k] = j}
  BY <1>1, <1>2 DEF RawsRead
<1>9. RawsRead(a) = {j \in Raws : \E k \in 1 .. r : o[k] = j}
  BY <1>1, <1>2 DEF RawsRead
<1>10. i \in Raws <=> dir[i].raw # "none"
  BY <1>5 DEF Raws
<1> QED
  BY <1>3, <1>4, <1>5, <1>7, <1>8, <1>9, <1>10

\* The second loop passes an instance without raw results.
LEMMA SkipRawTotals ==
    ASSUME NEW a, NEW b, DOMAIN a = AggFields, a.order \in Seq(Instances), a.read \in Nat,
           TotalsOK(a), a.phase = "raw", a.read < Len(a.order),
           dir[a.order[a.read + 1]].raw = "none", b = [a EXCEPT !.read = a.read + 1]
    PROVE  TotalsOK(b)
<1>1. /\ b.order = a.order /\ b.results = a.results /\ b.phase = "raw" /\ b.total = a.total
      /\ b.read = a.read + 1 /\ b.stats = a.stats /\ b.hist = a.hist
  BY DEF AggFields
<1>2. ReadOnce(a) /\ ReadOnce(b) /\ Totalled(b)
  BY <1>1, ReadOnceSame, TotalledSame DEF TotalsOK
<1>3. RawsRead(b) = RawsRead(a)
  BY <1>1, <1>2, RawsReadNext
<1> QED
  BY <1>1, <1>2, <1>3 DEF TotalsOK, Counted

\* The samples ks of an instance are counted, those that it measured if the instances
\* are comparable, with a histogram for each kind of transaction that succeeded.
Selects(i, ks, names) ==
    /\ Comparable => ks = Measured(dir[i])
    /\ \A n \in Names(dir[i], ks) : OfKind(dir[i], ks, n, TRUE) # {} => n \in names

Merges(a, b, i, ks, names) ==
    /\ b.order = a.order /\ b.results = a.results /\ b.phase = a.phase
    /\ b.total = a.total /\ b.read = a.read + 1
    /\ ks = Measured(dir[i]) => /\ b.stats = MergedStats(a.stats, i)
                                /\ b.hist = MergedHist(a.hist, i, names)

\* Comparable instances: what is counted is what the instance measured.
LEMMA MergeTotals ==
    ASSUME dir \in [Instances -> InstanceData], NEW a, NEW b, NEW i, NEW ks, NEW names,
           DOMAIN a = AggFields, a.order \in Seq(Instances), a.read \in Nat,
           TotalsOK(a), a.phase = "raw", a.read < Len(a.order),
           i = a.order[a.read + 1], dir[i].raw # "none",
           Selects(i, ks, names), Merges(a, b, i, ks, names)
    PROVE  TotalsOK(b)
<1>0. /\ Comparable => ks = Measured(dir[i])
      /\ \A n \in Names(dir[i], ks) : OfKind(dir[i], ks, n, TRUE) # {} => n \in names
      /\ b.order = a.order /\ b.results = a.results /\ b.phase = "raw" /\ b.total = a.total
      /\ b.read = a.read + 1
      /\ ks = Measured(dir[i]) => /\ b.stats = MergedStats(a.stats, i)
                                  /\ b.hist = MergedHist(a.hist, i, names)
  BY DEF Selects, Merges
<1>1. ReadOnce(a) /\ ReadOnce(b) /\ Totalled(b)
  BY <1>0, ReadOnceSame, TotalledSame DEF TotalsOK
<1>2. PICK R : R = RawsRead(a)
  OBVIOUS
<1>3. i \in Instances /\ i \notin R /\ RawsRead(b) = R \cup {i} /\ R \in SUBSET Instances
  <2>1. R \in SUBSET Instances
    BY <1>2 DEF RawsRead, Raws
  <2> QED
    BY <1>0, <1>1, <1>2, <2>1, RawsReadNext
<1>4. ASSUME Comparable PROVE Counted(b)
  <2>1. StatsCount(a.stats, R) /\ HistCounts(a.hist, R)
    BY <1>2, <1>4 DEF TotalsOK, Counted
  <2>2. ks = Measured(dir[i])
    BY <1>0, <1>4
  <2>3. PICK st, hi : st = a.stats /\ hi = a.hist
    OBVIOUS
  <2>4. StatsCount(MergedStats(st, i), R \cup {i})
    BY <1>3, <2>1, <2>3, StatsMerged
  <2>5. HistCounts(MergedHist(hi, i, names), R \cup {i})
    BY <1>0, <1>3, <2>1, <2>2, <2>3, HistMerged
  <2> QED
    BY <1>0, <1>3, <2>2, <2>3, <2>4, <2>5 DEF Counted
<1> QED
  BY <1>0, <1>1, <1>4 DEF TotalsOK

\* The report is made from the counts.
LEMMA ReportTotals ==
    ASSUME NEW a, NEW b, DOMAIN a = AggFields, TotalsOK(a), a.phase = "raw",
           a.read = Len(a.order),
           b = [a EXCEPT !.phase = "reported", !.report = ReportOf(a.hist)]
    PROVE  TotalsOK(b)
<1>0. PICK r : r = ReportOf(a.hist)
  OBVIOUS
<1>1. /\ b.order = a.order /\ b.results = a.results /\ b.phase = "reported"
      /\ b.total = a.total /\ b.read = a.read /\ b.stats = a.stats /\ b.hist = a.hist
      /\ b.report = r
  BY <1>0 DEF AggFields
<1>2. ReadOnce(b) /\ Totalled(b)
  BY <1>1, ReadOnceSame, TotalledSame DEF TotalsOK
<1>3. RawsRead(b) = RawsRead(a)
  BY <1>1 DEF RawsRead
<1> QED
  BY <1>0, <1>1, <1>2, <1>3 DEF TotalsOK, Counted

\* A program that has failed reports nothing.
LEMMA FailTotals ==
    ASSUME NEW a, NEW b, DOMAIN a = AggFields, TotalsOK(a),
           b = [a EXCEPT !.phase = "failed"]
    PROVE  TotalsOK(b)
<1>1. b.order = a.order /\ b.results = a.results /\ b.phase = "failed"
  BY DEF AggFields
<1>2. ReadOnce(b)
  BY <1>1, ReadOnceSame DEF TotalsOK
<1> QED
  BY <1>1, <1>2 DEF TotalsOK

\* Each step of the aggregator keeps what the totals and the counts say.
LEMMA AggTotalsStep ==
    ASSUME AggOK, dir \in [Instances -> InstanceData], TotalsOK(agg), AggNext
    PROVE  TotalsOK(agg') /\ dir' = dir
<1>0. PICK a, b : a = agg /\ b = agg'
  OBVIOUS
<1> SUFFICES TotalsOK(b) /\ dir' = dir
  BY <1>0
<1>1. /\ DOMAIN a = AggFields /\ a.order \in Seq(Instances) /\ a.results \in Seq(InstanceData)
      /\ a.read \in Nat /\ TotalsOK(a)
  BY <1>0 DEF AggOK
<1>2. ASSUME Fails PROVE TotalsOK(b)
  BY <1>0, <1>1, <1>2, FailTotals DEF Fails
<1>3. ASSUME NEW i \in Instances, ReadLog(i) PROVE TotalsOK(b) /\ dir' = dir
  <2>1. a.phase = "logs" /\ i \notin Range(a.order) /\ dir' = dir
    BY <1>0, <1>3 DEF ReadLog
  <2>2. dir[i].log \in {"none", "cut", "complete"}
    BY DataAssumption
  <2>3. CASE dir[i].log = "cut"
    BY <1>2, <1>3, <2>1, <2>3 DEF ReadLog
  <2>4. CASE dir[i].log = "none"
    <3>1. b = [a EXCEPT !.order = Append(@, i)]
      BY <1>0, <1>3, <2>4 DEF ReadLog
    <3> QED
      BY <1>1, <2>1, <2>4, <3>1, ReadLogTotals
  <2>5. CASE dir[i].log = "complete"
    <3>1. b = [[a EXCEPT !.order = Append(@, i)] EXCEPT !.results = Append(@, dir[i])]
      BY <1>0, <1>3, <2>5 DEF ReadLog
    <3> QED
      BY <1>1, <2>1, <2>5, <3>1, ReadLogTotals
  <2> QED
    BY <2>2, <2>3, <2>4, <2>5
<1>4. CASE SumUp
  <2>1. a.phase = "logs" /\ Range(a.order) = Instances /\ dir' = dir
    BY <1>0, <1>4 DEF SumUp
  <2>2. CASE Fails
    BY <1>0, <1>2, <2>1, <2>2
  <2>3. CASE a.results # <<>> /\ ~Fails
    <3>1. b = [a EXCEPT !.phase = "raw",
                        !.total = [start |-> a.results[1].start,
                                   warehouses |-> SumOf(a.results, "warehouses"),
                                   tpmc |-> SumOf(a.results, "tpmc"),
                                   delta |-> a.results[Len(a.results)].start - a.results[1].start]]
      BY <1>0, <1>4, <2>3 DEF SumUp, SumOf
    <3> QED
      BY <1>1, <2>1, <2>3, <3>1, SumUpTotals
  <2> QED
    BY <1>0, <1>4, <2>2, <2>3 DEF SumUp
<1>5. CASE ReadRaw
  <2>1. a.phase = "raw" /\ a.read < Len(a.order) /\ dir' = dir
    BY <1>0, <1>5 DEF ReadRaw
  <2>2. PICK i : i = a.order[a.read + 1]
    OBVIOUS
  <2>3. i \in Instances /\ dir[i] \in InstanceData /\ dir[i].raw \in {"none", "json", "csv"}
    <3>1. i \in Instances
      BY <1>1, <2>1, <2>2
    <3> QED
      BY <3>1, DataAssumption
  <2>4. PICK done : done = [a EXCEPT !.read = a.read + 1]
    OBVIOUS
  <2>5. ASSUME NEW ks, NEW names, Merge(dir[i], ks, names, done), dir[i].raw # "none",
               Selects(i, ks, names)
        PROVE  TotalsOK(b)
    <3>1. PICK st, hi :
             /\ b = [done EXCEPT !.stats = st, !.hist = hi]
             /\ ks = Measured(dir[i]) => /\ st = MergedStats(a.stats, i)
                                         /\ hi = MergedHist(a.hist, i, names)
      <4>1. PICK st, hi :
             /\ st = [n \in Names(dir[i], ks) \cup DOMAIN done.stats |->
                            [ok |-> StatsOf(n).ok + Count(dir[i], ks, n, TRUE),
                             failed |-> StatsOf(n).failed + Count(dir[i], ks, n, FALSE)]]
             /\ hi = [n \in names \cup DOMAIN done.hist |->
                            AddHistogram(HistOf(n), HistogramOf(dir[i], ks, n))]
        OBVIOUS
      <4>2. b = [done EXCEPT !.stats = st, !.hist = hi]
        BY <1>0, <2>5, <4>1 DEF Merge
      <4>3. done.stats = a.stats /\ done.hist = a.hist
        BY <1>1, <2>4 DEF AggFields
      <4> QED
        BY <1>0, <4>1, <4>2, <4>3 DEF MergedStats, MergedHist, StatsOf, HistOf
    <3>2. /\ DOMAIN done = AggFields /\ done.phase = a.phase /\ done.order = a.order
          /\ done.results = a.results /\ done.total = a.total /\ done.read = a.read + 1
      BY <1>1, <2>4 DEF AggFields
    <3>3. /\ b.phase = a.phase /\ b.order = a.order /\ b.results = a.results
          /\ b.total = a.total /\ b.read = a.read + 1 /\ b.stats = st /\ b.hist = hi
      BY <3>1, <3>2 DEF AggFields
    <3>4. Merges(a, b, i, ks, names)
      BY <3>1, <3>3 DEF Merges
    <3> QED
      BY <1>1, <2>1, <2>2, <2>5, <3>4, MergeTotals
  <2>6. CASE dir[i].raw = "none"
    <3>1. b = done
      BY <1>0, <1>5, <2>2, <2>4, <2>6 DEF ReadRaw
    <3> QED
      BY <1>1, <2>1, <2>2, <2>4, <2>6, <3>1, SkipRawTotals
  <2>7. CASE dir[i].raw = "json"
    <3>1. PICK ks, names : ks = Measured(dir[i]) /\ names = Names(dir[i], ks)
      OBVIOUS
    <3>2. Merge(dir[i], ks, names, done)
      BY <1>0, <1>5, <2>2, <2>4, <2>7, <3>1 DEF ReadRaw
    <3>3. Selects(i, ks, names)
      BY <3>1 DEF Selects
    <3> QED
      BY <2>1, <2>5, <2>7, <3>2, <3>3
  <2>8. CASE dir[i].raw = "csv"
    <3>1. PICK ks : ks = Since(dir[i], a.total.start)
      OBVIOUS
    <3>2. PICK names : names = {n \in Names(dir[i], ks) : Count(dir[i], ks, n, TRUE) > 0}
      OBVIOUS
    <3>3. Merge(dir[i], ks, names, done) \/ Fails
      BY <1>0, <1>5, <2>2, <2>4, <2>8, <3>1, <3>2 DEF ReadRaw
    <3>4. ASSUME Comparable PROVE ks = Measured(dir[i])
      <4>1. i \in Raws /\ dir[i].raw # "json"
        BY <2>3, <2>8 DEF Raws
      <4>2. \A m, n \in Instances : dir[m].start = dir[n].start
        BY <3>4, <4>1 DEF Comparable
      <4>3. PICK m \in Instances : a.total.start = dir[m].start
        BY <1>1, <2>1 DEF TotalsOK, Totalled
      <4> QED
        BY <2>3, <3>1, <4>2, <4>3 DEF Measured
    <3>5. \A n \in Names(dir[i], ks) : OfKind(dir[i], ks, n, TRUE) # {} => n \in names
      <4>1. IsFiniteSet(DOMAIN dir[i].samples)
        <5>1. dir[i].samples \in Seq(Range(dir[i].samples))
          BY <2>3, DataAssumption
        <5>2. Len(dir[i].samples) \in Nat /\ DOMAIN dir[i].samples = 1 .. Len(dir[i].samples)
          BY <5>1
        <5>3. 1 \in Int /\ Len(dir[i].samples) \in Int
          BY <5>2
        <5> QED
          BY <5>2, <5>3, FS_Interval
      <4>2. ASSUME NEW n \in Names(dir[i], ks), OfKind(dir[i], ks, n, TRUE) # {}
            PROVE  n \in names
        <5>1. PICK S : S = OfKind(dir[i], ks, n, TRUE)
          OBVIOUS
        <5>2. S \subseteq DOMAIN dir[i].samples
          BY <3>1, <5>1 DEF OfKind, Since
        <5>3. IsFiniteSet(S)
          BY <4>1, <5>2, FS_Subset
        <5>4. Cardinality(S) \in Nat /\ Cardinality(S) # 0
          BY <4>2, <5>1, <5>3, FS_CardinalityType, FS_EmptySet
        <5>5. Cardinality(S) > 0
          BY <5>4
        <5> QED
          BY <3>2, <5>1, <5>5 DEF Count
      <4> QED
        BY <4>2
    <3>6. Selects(i, ks, names)
      BY <3>4, <3>5 DEF Selects
    <3> QED
      BY <1>2, <2>1, <2>5, <2>8, <3>3, <3>6
  <2> QED
    BY <2>1, <2>3, <2>6, <2>7, <2>8
<1>6. CASE Report
  <2>1. a.phase = "raw" /\ a.read = Len(a.order) /\ dir' = dir
    BY <1>0, <1>6 DEF Report
  <2>2. b = [a EXCEPT !.phase = "reported", !.report = ReportOf(a.hist)]
    BY <1>0, <1>6 DEF Report, ReportOf
  <2> QED
    BY <1>1, <2>1, <2>2, ReportTotals
<1>7. TotalsOK(b) /\ dir' = dir
  BY <1>3, <1>4, <1>5, <1>6 DEF AggNext
<1> QED
  BY <1>0, <1>7

\* The directories do not change.
LEMMA SameRaws ==
    ASSUME dir' = dir
    PROVE  /\ Raws' = Raws /\ (Comparable' <=> Comparable)
           /\ \A S, f : SumOver(S, f)' = SumOver(S, f)
           /\ \A R : NamesIn(R)' = NamesIn(R)
           /\ \A R, n, ok : Transactions(R, n, ok)' = Transactions(R, n, ok)
           /\ \A T, b : InBucket(T, b)' = InBucket(T, b)
<1>1. Raws' = Raws
  BY DEF Raws
<1>2. Comparable' <=> Comparable
  BY <1>1 DEF Comparable
<1>3. \A S, f : SumOver(S, f)' = SumOver(S, f)
  BY DEF SumOver
<1>4. \A R : NamesIn(R)' = NamesIn(R)
  BY DEF NamesIn
<1>5. \A R, n, ok : Transactions(R, n, ok)' = Transactions(R, n, ok)
  BY DEF Transactions
<1>6. \A T, b : InBucket(T, b)' = InBucket(T, b)
  BY DEF InBucket, Latency
<1> QED
  BY <1>1, <1>2, <1>3, <1>4, <1>5, <1>6

\* The invariant of the next state, seen from this one.
LEMMA TotalsPrimed ==
    ASSUME dir' = dir, TotalsOK(agg')
    PROVE  TotalsOK(agg)'
<1>1. PICK b : b = agg'
  OBVIOUS
<1>2. LogsRead(agg)' = LogsRead(b)
  BY <1>1 DEF LogsRead
<1>3. RawsRead(agg)' = RawsRead(b)
  BY <1>1, SameRaws DEF RawsRead
<1>4. \A f : SumOf(agg.results, f)' = SumOf(b.results, f)
  BY <1>1 DEF SumOf
<1>5. ReadOnce(agg)' <=> ReadOnce(b)
  <2>1. \A f : SumOver(LogsRead(agg), f)' = SumOver(LogsRead(b), f)
    BY <1>2 DEF SumOver
  <2> QED
    BY <1>1, <1>4, <2>1 DEF ReadOnce
<1>6. Totalled(agg)' <=> Totalled(b)
  <2>1. \A f : SumOver(LogsRead(agg), f)' = SumOver(LogsRead(b), f)
    BY <1>2 DEF SumOver
  <2> QED
    BY <1>1, <2>1 DEF Totalled
<1>7. StatsCount(agg.stats, RawsRead(agg))' <=> StatsCount(b.stats, RawsRead(b))
  <2>1. NamesIn(RawsRead(agg))' = NamesIn(RawsRead(b))
    BY <1>3 DEF NamesIn
  <2>2. \A n, ok : Transactions(RawsRead(agg), n, ok)' = Transactions(RawsRead(b), n, ok)
    BY <1>3 DEF Transactions
  <2> QED
    BY <1>1, <2>1, <2>2 DEF StatsCount
<1>8. HistCounts(agg.hist, RawsRead(agg))' <=> HistCounts(b.hist, RawsRead(b))
  <2>1. NamesIn(RawsRead(agg))' = NamesIn(RawsRead(b))
    BY <1>3 DEF NamesIn
  <2>2. \A n, ok : Transactions(RawsRead(agg), n, ok)' = Transactions(RawsRead(b), n, ok)
    BY <1>3 DEF Transactions
  <2>3. \A n, c : InBucket(Transactions(RawsRead(agg), n, TRUE), c)' =
                    InBucket(Transactions(RawsRead(b), n, TRUE), c)
    BY <2>2 DEF InBucket, Latency
  <2>4. (\A n \in NamesIn(RawsRead(agg)) :
            Transactions(RawsRead(agg), n, TRUE) # {} => n \in DOMAIN agg.hist)'
          <=> \A n \in NamesIn(RawsRead(b)) :
                 Transactions(RawsRead(b), n, TRUE) # {} => n \in DOMAIN b.hist
    BY <1>1, <2>1, <2>2
  <2>5. \A n : CountsOf(agg.hist[n], Transactions(RawsRead(agg), n, TRUE))'
                 <=> CountsOf(b.hist[n], Transactions(RawsRead(b), n, TRUE))
    <3>1. SUFFICES ASSUME NEW n
          PROVE  CountsOf(agg.hist[n], Transactions(RawsRead(agg), n, TRUE))'
                   <=> CountsOf(b.hist[n], Transactions(RawsRead(b), n, TRUE))
      OBVIOUS
    <3>2. (agg.hist[n])' = b.hist[n]
      BY <1>1
    <3>3. \A c : InBucket(Transactions(RawsRead(agg), n, TRUE), c)' =
                    InBucket(Transactions(RawsRead(b), n, TRUE), c)
      BY <2>3
    <3> QED
      BY <3>2, <3>3 DEF CountsOf
  <2>6. (\A n \in DOMAIN agg.hist : CountsOf(agg.hist[n], Transactions(RawsRead(agg), n, TRUE)))'
          <=> \A n \in DOMAIN b.hist : CountsOf(b.hist[n], Transactions(RawsRead(b), n, TRUE))
    BY <1>1, <2>5
  <2> QED
    BY <2>4, <2>6 DEF HistCounts
<1>9. Counted(agg)' <=> Counted(b)
  BY <1>7, <1>8 DEF Counted
<1>10. Comparable' <=> Comparable
  BY SameRaws
<1> QED
  BY <1>1, <1>5, <1>6, <1>9, <1>10 DEF TotalsOK, ReportOf

\* At the beginning nothing was read.
LEMMA TotalsInit ==
    ASSUME AggInit
    PROVE  TotalsOK(agg)
<1>1. PICK a : a = agg
  OBVIOUS
<1>2. /\ a.phase = "logs" /\ a.order = <<>> /\ a.results = <<>> /\ a.read = 0
      /\ a.stats = <<>> /\ a.hist = <<>>
  BY <1>1 DEF AggInit, Fresh
<1>3. Range(a.order) = {} /\ Len(a.order) = 0 /\ Len(a.results) = 0
  BY <1>2 DEF Range
<1>4. LogsRead(a) = {}
  BY <1>3 DEF LogsRead
<1>5. ASSUME NEW f \in Figures PROVE SumOf(a.results, f) = SumOver(LogsRead(a), f)
  <2>1. PICK g : g = [k \in DOMAIN a.results |-> a.results[k][f]]
    OBVIOUS
  <2>2. PICK h : h = [i \in LogsRead(a) |-> dir[i][f]]
    OBVIOUS
  <2>3. DOMAIN g = {} /\ DOMAIN h = {}
    BY <1>2, <1>4, <2>1, <2>2
  <2>4. SumFunction(g) = SumFunctionOnSet(g, {}) /\ SumFunction(h) = SumFunctionOnSet(h, {})
    BY <2>3, SumFunctionIs
  <2>5. SumFunctionOnSet(g, {}) = 0 /\ SumFunctionOnSet(h, {}) = 0
    BY SumEmpty
  <2> QED
    BY <2>1, <2>2, <2>4, <2>5 DEF SumOf, SumOver
<1>6. ReadOnce(a)
  BY <1>3, <1>5 DEF ReadOnce, Distinct
<1>7. DOMAIN a.stats = {} /\ DOMAIN a.hist = {}
  BY <1>2
<1> QED
  BY <1>1, <1>2, <1>6, <1>7 DEF TotalsOK

\* What is reported is exact.
LEMMA TotalsAreExact ==
    ASSUME AggOK, dir \in [Instances -> InstanceData], TotalsOK(agg)
    PROVE  AggregateExact
<1>1. SUFFICES ASSUME agg.phase = "reported", Comparable
      PROVE  LET logs == {i \in Instances : dir[i].log = "complete"}
                 sum(f) == SumFunction([i \in logs |-> dir[i][f]])
                 count(n, ok) == Cardinality(Transactions(Raws, n, ok))
                 names == UNION {Names(dir[i], Measured(dir[i])) : i \in Raws}
             IN  /\ agg.total.warehouses = sum("warehouses") /\ agg.total.tpmc = sum("tpmc")
                 /\ DOMAIN agg.stats = names
                 /\ \A n \in names :
                      /\ agg.stats[n] = [ok |-> count(n, TRUE), failed |-> count(n, FALSE)]
                      /\ n \in DOMAIN agg.report <=> count(n, TRUE) > 0
                      /\ n \in DOMAIN agg.report =>
                          \A p \in Percentiles : agg.report[n][p] = TruePercentile(n, p)
  BY DEF AggregateExact
<1>2. PICK a : a = agg
  OBVIOUS
<1>3. /\ a.order \in Seq(Instances) /\ a.read = Len(a.order) /\ a.report = ReportOf(a.hist)
      /\ Totalled(a) /\ StatsCount(a.stats, RawsRead(a)) /\ HistCounts(a.hist, RawsRead(a))
  BY <1>1, <1>2 DEF AggOK, TotalsOK, Counted
<1>4. RawsRead(a) = Raws
  <2>1. \A i \in Instances : \E k \in 1 .. Len(a.order) : a.order[k] = i
    BY <1>3 DEF Totalled, Range
  <2> QED
    BY <1>3, <2>1 DEF RawsRead, Raws
<1>5. LogsRead(a) = {i \in Instances : dir[i].log = "complete"}
  BY <1>3 DEF LogsRead, Totalled
<1>6. /\ a.total.warehouses = SumFunction([i \in {j \in Instances : dir[j].log = "complete"} |->
                                              dir[i]["warehouses"]])
      /\ a.total.tpmc = SumFunction([i \in {j \in Instances : dir[j].log = "complete"} |->
                                        dir[i]["tpmc"]])
  BY <1>3, <1>5 DEF Totalled, SumOver
<1>7. /\ DOMAIN a.stats = NamesIn(Raws)
      /\ \A n \in NamesIn(Raws) :
           a.stats[n] = [ok |-> Cardinality(Transactions(Raws, n, TRUE)),
                         failed |-> Cardinality(Transactions(Raws, n, FALSE))]
  BY <1>3, <1>4 DEF StatsCount
<1>8. ASSUME NEW n \in NamesIn(Raws)
      PROVE  /\ n \in DOMAIN a.report <=> Cardinality(Transactions(Raws, n, TRUE)) > 0
             /\ n \in DOMAIN a.report =>
                  \A p \in Percentiles : a.report[n][p] = TruePercentile(n, p)
  <2>1. PICK T : T = Transactions(Raws, n, TRUE)
    OBVIOUS
  <2>2. IsFiniteSet(T) /\ \A t \in T : Latency(t) \in Nat
    <3>1. Raws \in SUBSET Instances
      BY DEF Raws
    <3>2. \A ok : /\ IsFiniteSet(Transactions(Raws, n, ok))
                  /\ \A t \in Transactions(Raws, n, ok) : Latency(t) \in Nat
      BY <3>1, TransactionsFinite
    <3> QED
      BY <2>1, <3>2
  <2>3. Cardinality(T) \in Nat /\ (Cardinality(T) > 0 <=> T # {})
    <3>1. Cardinality(T) \in Nat /\ (Cardinality(T) = 0 <=> T = {})
      BY <2>2, FS_CardinalityType, FS_EmptySet
    <3> QED
      BY <3>1
  <2>4. T # {} => n \in DOMAIN a.hist
    BY <1>3, <1>4, <2>1 DEF HistCounts
  <2>5. ASSUME n \in DOMAIN a.hist
        PROVE  /\ a.hist[n] \in Histograms
               /\ \A b \in Buckets :
                    UpTo(a.hist[n], b) = Cardinality(InBucket(T, b))
               /\ TotalCount(a.hist[n]) = Cardinality(T)
    <3>1. PICK hist : hist = a.hist[n]
      OBVIOUS
    <3>2. hist \in Histograms /\ \A b \in Buckets : UpTo(hist, b) = Cardinality(InBucket(T, b))
      BY <1>3, <1>4, <2>1, <2>5, <3>1 DEF HistCounts, CountsOf
    <3>3. TotalCount(hist) = UpTo(hist, Len(Edges))
      BY <3>2, UpToFacts
    <3>4. Len(Edges) \in Nat /\ Len(Edges) \in Buckets
      BY EdgesAssumption DEF Buckets
    <3>5. InBucket(T, Len(Edges)) = T
      <4>1. \A t \in T : Bucket(Latency(t)) <= Len(Edges)
        BY <2>2, BucketFacts DEF Buckets
      <4> QED
        BY <4>1 DEF InBucket
    <3> QED
      BY <3>1, <3>2, <3>3, <3>4, <3>5 DEF InBucket
  <2>6. DOMAIN a.report = {m \in DOMAIN a.hist : TotalCount(a.hist[m]) > 0}
    BY <1>3 DEF ReportOf
  <2>7. n \in DOMAIN a.report <=> Cardinality(T) > 0
    BY <2>3, <2>4, <2>5, <2>6
  <2>8. ASSUME n \in DOMAIN a.report, NEW p \in Percentiles
        PROVE  a.report[n][p] = TruePercentile(n, p)
    <3>1. n \in DOMAIN a.hist /\ T # {} /\ p \in 1 .. 100
      BY <2>3, <2>6, <2>7, <2>8, AggregateAssumption
    <3>2. PICK hist : hist = a.hist[n]
      OBVIOUS
    <3>3. CountsOf(hist, T)
      BY <2>5, <3>1, <3>2 DEF CountsOf
    <3>4. Percentile(hist, p) = TruePercentile(n, p)
      <4>1. Percentile(hist, p) = LimitBelow(T, p)
        BY <2>2, <3>1, <3>3, PercentileExact
      <4>2. TruePercentile(n, p) = LimitBelow(T, p)
        BY <2>1 DEF TruePercentile, LimitBelow
      <4> QED
        BY <4>1, <4>2
    <3>5. a.report[n][p] = Percentile(hist, p)
      BY <1>3, <2>6, <2>8, <3>2 DEF ReportOf
    <3> QED
      BY <3>4, <3>5
  <2> QED
    BY <2>1, <2>7, <2>8
<1> QED
  BY <1>2, <1>6, <1>7, <1>8 DEF NamesIn

=============================================================================
