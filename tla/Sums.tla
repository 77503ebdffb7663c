-------------------------------- MODULE Sums --------------------------------
(* Sums over finite sets: what the proofs about the counters need to know  *)
(* of MapThenSumSet, stated over functions.  An operator's sum is brought  *)
(* into this form by ChosenIsTotal.                                        *)
EXTENDS Integers, FiniteSets, FiniteSetsExt, FiniteSetTheorems, WellFoundedInduction, TLAPS

----------------------------------------------------------------------------
(* Induction over the subsets of a finite set, a property being the set of  *)
(* the subsets that have it.                                               *)

\* From all smaller subsets to a subset.
LEMMA StrongInduction ==
  ASSUME NEW S, IsFiniteSet(S), NEW P \in SUBSET (SUBSET S),
         \A T \in SUBSET S : (\A U \in SUBSET T : U # T => U \in P) => T \in P
  PROVE  S \in P
<1> DEFINE Bad == (SUBSET S) \ P
<1>1. SUFFICES ASSUME S \notin P PROVE FALSE
  OBVIOUS
<1>2. Bad # {} /\ Bad \subseteq FiniteSubsetsOf(S)
  <2>1. \A T \in SUBSET S : IsFiniteSet(T)
    BY FS_Subset
  <2> QED
    BY <1>1, <2>1 DEF FiniteSubsetsOf
<1>3. PICK T \in Bad : \A U \in Bad : ~(<<U, T>> \in StrictSubsetOrdering(S))
  <2>1. IsWellFoundedOn(StrictSubsetOrdering(S), FiniteSubsetsOf(S))
    BY FS_StrictSubsetOrderingWellFounded
  <2> HIDE DEF Bad
  <2> QED
    BY <1>2, <2>1, WFMin
<1>4. \A U \in SUBSET T : U # T => U \in P
  BY <1>3 DEF StrictSubsetOrdering
<1> QED
  BY <1>3, <1>4

\* From a subset to the same with one element more.
LEMMA SubsetInduction ==
  ASSUME NEW S, IsFiniteSet(S), NEW P \in SUBSET (SUBSET S),
         {} \in P,
         \A T \in P : \A x \in S \ T : T \cup {x} \in P
  PROVE  S \in P
<1>1. ASSUME NEW T \in SUBSET S, \A U \in SUBSET T : U # T => U \in P
      PROVE  T \in P
  <2>1. ASSUME NEW x \in T
        PROVE  T \in P
    <3>1. T \ {x} \in P /\ T = (T \ {x}) \cup {x} /\ x \in S \ (T \ {x})
      BY <1>1
    <3> QED
      BY <3>1
  <2> QED
    BY <2>1
<1> QED
  BY <1>1, StrongInduction

----------------------------------------------------------------------------
(* The sum of a function over a set exists, and it is what MapThenSumSet    *)
(* computes, whichever element that takes next.                            *)

\* g gives the sum of f over every subset of S, in whatever order it is taken.
SumsTo(f, g, S) ==
  /\ g \in [SUBSET S -> Int]
  /\ g[{}] = 0
  /\ \A T \in SUBSET S : \A x \in T : g[T] = f[x] + g[T \ {x}]

\* g is computed by choosing the elements one after another.
TakesOneByOne(f, g, S) ==
  g = [T \in SUBSET S |->
        IF T = {} THEN 0 ELSE LET x == CHOOSE x \in T : TRUE IN f[x] + g[T \ {x}]]

Total(f, S) == MapThenSumSet(LAMBDA x : f[x], S)

\* There is such a sum.
LEMMA SumExists ==
  ASSUME NEW S, IsFiniteSet(S), NEW f, \A x \in S : f[x] \in Int
  PROVE  \E g : SumsTo(f, g, S)
<1> DEFINE P == {T \in SUBSET S : \E g : SumsTo(f, g, T)}
<1>1. {} \in P
  <2> DEFINE g == [T \in SUBSET {} |-> 0]
  <2>1. SumsTo(f, g, {})
    BY DEF SumsTo
  <2> QED
    BY <2>1
<1>2. ASSUME NEW T \in P, NEW x \in S \ T
      PROVE  T \cup {x} \in P
  <2>1. PICK g : SumsTo(f, g, T)
    OBVIOUS
  <2> DEFINE U == T \cup {x}
             h == [V \in SUBSET U |-> IF x \in V THEN f[x] + g[V \ {x}] ELSE g[V]]
  <2>2. h \in [SUBSET U -> Int]
    <3>1. ASSUME NEW V \in SUBSET U
          PROVE  h[V] \in Int
      <4>1. V \ {x} \in SUBSET T /\ (x \notin V => V \in SUBSET T)
        OBVIOUS
      <4> QED
        BY <2>1, <4>1 DEF SumsTo
    <3> QED
      BY <3>1
  <2>3. h[{}] = 0
    BY <2>1 DEF SumsTo
  <2>4. ASSUME NEW V \in SUBSET U, NEW y \in V
        PROVE  h[V] = f[y] + h[V \ {y}]
    <3>1. V \ {x} \in SUBSET T /\ (x \notin V => V \in SUBSET T) /\ V \ {y} \in SUBSET U
      OBVIOUS
    <3>2. CASE y = x
      BY <3>1, <3>2
    <3>3. CASE y # x /\ x \in V
      <4>1. y \in V \ {x} /\ (V \ {y}) \ {x} = (V \ {x}) \ {y} /\ x \in V \ {y}
        BY <3>3
      <4>2. g[V \ {x}] = f[y] + g[(V \ {x}) \ {y}]
        BY <2>1, <3>1, <4>1 DEF SumsTo
      <4>3. h[V] = f[x] + g[V \ {x}] /\ h[V \ {y}] = f[x] + g[(V \ {x}) \ {y}]
        BY <3>1, <3>3, <4>1
      <4>4. f[x] \in Int /\ f[y] \in Int /\ g[(V \ {x}) \ {y}] \in Int
        <5>1. y \in S /\ (V \ {x}) \ {y} \in SUBSET T
          BY <3>1, <3>3
        <5> QED
          BY <2>1, <5>1 DEF SumsTo
      <4> HIDE DEF h
      <4> QED
        BY <4>2, <4>3, <4>4
    <3>4. CASE x \notin V
      BY <2>1, <3>1, <3>4 DEF SumsTo
    <3> QED
      BY <3>2, <3>3, <3>4
  <2>5. SumsTo(f, h, U)
    <3> HIDE DEF h
    <3> QED
      BY <2>2, <2>3, <2>4 DEF SumsTo
  <2> QED
    BY <2>5
<1>3. S \in P
  <2> HIDE DEF P
  <2>1. P \in SUBSET SUBSET S
    BY DEF P
  <2> QED
    BY <1>1, <1>2, <2>1, SubsetInduction
<1> QED
  BY <1>3

\* What is computed one by one is that sum.
LEMMA OneByOneSums ==
  ASSUME NEW S, IsFiniteSet(S), NEW f, NEW g, SumsTo(f, g, S)
  PROVE  /\ TakesOneByOne(f, g, S)
         /\ \A h : TakesOneByOne(f, h, S) => h[S] = g[S]
<1>1. TakesOneByOne(f, g, S)
  <2>1. ASSUME NEW T \in SUBSET S, T # {}
        PROVE  g[T] = LET x == CHOOSE x \in T : TRUE IN f[x] + g[T \ {x}]
    BY <2>1 DEF SumsTo
  <2>2. g = [T \in SUBSET S |-> g[T]]
    BY DEF SumsTo
  <2> QED
    BY <2>1, <2>2 DEF SumsTo, TakesOneByOne
<1>2. ASSUME NEW h, TakesOneByOne(f, h, S)
      PROVE  h[S] = g[S]
  <2> DEFINE P == {T \in SUBSET S : h[T] = g[T]}
  <2>1. ASSUME NEW T \in SUBSET S, \A U \in SUBSET T : U # T => U \in P
        PROVE  T \in P
    <3>1. CASE T = {}
      BY <1>2, <3>1 DEF TakesOneByOne, SumsTo
    <3>2. CASE T # {}
      <4> DEFINE y == CHOOSE y \in T : TRUE
      <4>1. y \in T
        BY <3>2
      <4>2. h[T] = f[y] + h[T \ {y}]
        BY <1>2, <3>2 DEF TakesOneByOne
      <4> HIDE DEF y
      <4>3. g[T] = f[y] + g[T \ {y}]
        BY <4>1 DEF SumsTo
      <4>4. h[T \ {y}] = g[T \ {y}]
        BY <2>1, <4>1
      <4> QED
        BY <4>2, <4>3, <4>4
    <3> QED
      BY <3>1, <3>2
  <2>2. S \in P
    <3> HIDE DEF P
    <3>1. P \in SUBSET SUBSET S
      BY DEF P
    <3> QED
      BY <2>1, <3>1, StrongInduction
  <2> QED
    BY <2>2
<1> QED
  BY <1>1, <1>2

\* So Total is.
LEMMA TotalSums ==
  ASSUME NEW S, IsFiniteSet(S), NEW f, NEW g, SumsTo(f, g, S)
  PROVE  Total(f, S) = g[S]
<1> DEFINE iter == CHOOSE h : h = [T \in SUBSET S |->
             IF T = {} THEN 0 ELSE LET x == CHOOSE x \in T : TRUE IN f[x] + h[T \ {x}]]
<1>1. Total(f, S) = iter[S]
  BY DEF Total, MapThenSumSet, MapThenFoldSet
<1>2. \E h : TakesOneByOne(f, h, S)
  BY OneByOneSums
<1>3. TakesOneByOne(f, iter, S)
  BY <1>2 DEF TakesOneByOne
<1> HIDE DEF iter
<1> QED
  BY <1>1, <1>3, OneByOneSums

\* And so is what is taken one by one by any other expression for the values of f.
LEMMA ChosenIsTotal ==
  ASSUME NEW S, IsFiniteSet(S), NEW f, \A x \in S : f[x] \in Int,
         NEW g, (\E h : TakesOneByOne(f, h, S)) => TakesOneByOne(f, g, S)
  PROVE  g[S] = Total(f, S)
  BY SumExists, OneByOneSums, TotalSums

----------------------------------------------------------------------------
(* Its properties. *)

\* One element taken out, and the type.
LEMMA TotalTake ==
  ASSUME NEW S, IsFiniteSet(S), NEW f, \A x \in S : f[x] \in Int
  PROVE  /\ Total(f, S) \in Int
         /\ Total(f, {}) = 0
         /\ \A x \in S : Total(f, S) = f[x] + Total(f, S \ {x})
<1>1. PICK g : SumsTo(f, g, S)
  BY SumExists
<1>2. ASSUME NEW T \in SUBSET S
      PROVE  Total(f, T) = g[T]
  <2> DEFINE h == [U \in SUBSET T |-> g[U]]
  <2>1. SumsTo(f, h, T)
    BY <1>1 DEF SumsTo
  <2>2. IsFiniteSet(T) /\ h[T] = g[T]
    BY FS_Subset
  <2> HIDE DEF h
  <2> QED
    BY <2>1, <2>2, TotalSums
<1>3. Total(f, {}) = g[{}] /\ Total(f, S) = g[S]
  BY <1>2
<1>4. \A x \in S : Total(f, S \ {x}) = g[S \ {x}]
  BY <1>2
<1> QED
  BY <1>1, <1>3, <1>4 DEF SumsTo

\* Only the values on S count.
LEMMA TotalSame ==
  ASSUME NEW S, IsFiniteSet(S), NEW f, NEW h,
         \A x \in S : f[x] \in Int /\ h[x] = f[x]
  PROVE  Total(h, S) = Total(f, S)
<1>1. PICK g : SumsTo(f, g, S)
  BY SumExists
<1>2. SumsTo(h, g, S)
  BY <1>1 DEF SumsTo
<1> QED
  BY <1>1, <1>2, TotalSums

\* f and h differ on S at x at most.
ChangedAt(f, h, x, S) ==
  /\ x \in S /\ h[x] \in Int
  /\ \A y \in S : f[y] \in Int
  /\ \A y \in S \ {x} : h[y] = f[y]

\* One value changed.
LEMMA TotalChange ==
  ASSUME NEW S, IsFiniteSet(S), NEW f, NEW h, NEW x, ChangedAt(f, h, x, S)
  PROVE  Total(h, S) = Total(f, S) + (h[x] - f[x]) /\ Total(f, S) \in Int
<1> USE DEF ChangedAt
<1>1. IsFiniteSet(S \ {x})
  BY FS_RemoveElement
<1>2. Total(h, S \ {x}) = Total(f, S \ {x}) /\ Total(f, S \ {x}) \in Int
  BY <1>1, TotalSame, TotalTake
<1>3. \A y \in S : h[y] \in Int
  OBVIOUS
<1>4. Total(f, S) = f[x] + Total(f, S \ {x}) /\ Total(h, S) = h[x] + Total(h, S \ {x})
  BY <1>3, TotalTake
<1> QED
  BY <1>2, <1>4

\* Sums add up.
LEMMA TotalPlus ==
  ASSUME NEW S, IsFiniteSet(S), NEW e, NEW f, NEW h,
         \A x \in S : e[x] \in Int /\ f[x] \in Int /\ h[x] = e[x] + f[x]
  PROVE  Total(h, S) = Total(e, S) + Total(f, S)
<1>1. PICK a : SumsTo(e, a, S)
  BY SumExists
<1>2. PICK b : SumsTo(f, b, S)
  BY SumExists
<1> DEFINE c == [T \in SUBSET S |-> a[T] + b[T]]
<1>3. c \in [SUBSET S -> Int] /\ c[{}] = 0
  BY <1>1, <1>2 DEF SumsTo
<1>4. ASSUME NEW T \in SUBSET S, NEW x \in T
      PROVE  c[T] = h[x] + c[T \ {x}]
  <2>1. /\ a[T] = e[x] + a[T \ {x}] /\ b[T] = f[x] + b[T \ {x}]
        /\ a[T \ {x}] \in Int /\ b[T \ {x}] \in Int
    BY <1>1, <1>2 DEF SumsTo
  <2>2. c[T] = a[T] + b[T] /\ c[T \ {x}] = a[T \ {x}] + b[T \ {x}]
    OBVIOUS
  <2>3. e[x] \in Int /\ f[x] \in Int /\ h[x] = e[x] + f[x]
    OBVIOUS
  <2> HIDE DEF c
  <2> QED
    BY <2>1, <2>2, <2>3
<1>5. SumsTo(h, c, S) /\ c[S] = a[S] + b[S]
  <2>1. c[S] = a[S] + b[S]
    OBVIOUS
  <2> HIDE DEF c
  <2> QED
    BY <1>3, <1>4, <2>1 DEF SumsTo
<1> HIDE DEF c
<1> QED
  BY <1>1, <1>2, <1>5, TotalSums

\* What is nowhere negative has no negative sum.
LEMMA TotalNat ==
  ASSUME NEW S, IsFiniteSet(S), NEW f, \A x \in S : f[x] \in Nat
  PROVE  Total(f, S) \in Nat
<1>1. PICK g : SumsTo(f, g, S)
  BY SumExists
<1> DEFINE P == {T \in SUBSET S : g[T] \in Nat}
<1>2. {} \in P
  BY <1>1 DEF SumsTo
<1>3. ASSUME NEW T \in P, NEW x \in S \ T
      PROVE  T \cup {x} \in P
  <2>1. (T \cup {x}) \ {x} = T /\ T \cup {x} \in SUBSET S
    OBVIOUS
  <2>2. g[T \cup {x}] = f[x] + g[T] /\ f[x] \in Nat /\ g[T] \in Nat
    BY <1>1, <2>1 DEF SumsTo
  <2> QED
    BY <2>1, <2>2
<1>4. S \in P
  <2> HIDE DEF P
  <2>1. P \in SUBSET SUBSET S
    BY DEF P
  <2> QED
    BY <1>2, <1>3, <2>1, SubsetInduction
<1> QED
  BY <1>1, <1>4, TotalSums

\* And the sum is nought if it is nought everywhere.
LEMMA TotalZero ==
  ASSUME NEW S, IsFiniteSet(S), NEW f, \A x \in S : f[x] = 0
  PROVE  Total(f, S) = 0
<1> DEFINE g == [T \in SUBSET S |-> 0]
<1>1. SumsTo(f, g, S)
  BY DEF SumsTo
<1> QED
  BY <1>1, TotalSums

\* Sums compare as their terms do.
LEMMA TotalMono ==
  ASSUME NEW S, IsFiniteSet(S), NEW e, NEW f,
         \A x \in S : e[x] \in Int /\ f[x] \in Int /\ e[x] <= f[x]
  PROVE  Total(e, S) <= Total(f, S)
<1> DEFINE d == [x \in S |-> f[x] - e[x]]
<1>1. Total(d, S) \in Nat
  <2>1. \A x \in S : d[x] \in Nat
    OBVIOUS
  <2> HIDE DEF d
  <2> QED
    BY <2>1, TotalNat
<1>2. Total(f, S) = Total(e, S) + Total(d, S)
  <2>1. \A x \in S : d[x] \in Int /\ f[x] = e[x] + d[x]
    OBVIOUS
  <2> HIDE DEF d
  <2> QED
    BY <2>1, TotalPlus
<1>3. Total(e, S) \in Int
  BY TotalTake
<1> HIDE DEF d
<1> QED
  BY <1>1, <1>2, <1>3

\* No term is above the sum of terms of which none is negative.
LEMMA TotalTerm ==
  ASSUME NEW S, IsFiniteSet(S), NEW f, \A x \in S : f[x] \in Nat, NEW x \in S
  PROVE  f[x] <= Total(f, S)
<1>1. IsFiniteSet(S \ {x})
  BY FS_RemoveElement
<1>2. Total(f, S \ {x}) \in Nat
  BY <1>1, TotalNat
<1>3. Total(f, S) = f[x] + Total(f, S \ {x})
  BY TotalTake
<1> QED
  BY <1>2, <1>3

\* The sum over a part is the sum over the whole of what is nought elsewhere.
LEMMA TotalPart ==
  ASSUME NEW S, IsFiniteSet(S), NEW T \in SUBSET S, NEW f, NEW h,
         \A x \in T : f[x] \in Int /\ h[x] = f[x],
         \A x \in S \ T : h[x] = 0
  PROVE  Total(f, T) = Total(h, S)
<1>1. PICK g : SumsTo(f, g, T)
  BY FS_Subset, SumExists
<1> DEFINE k == [U \in SUBSET S |-> g[U \cap T]]
<1>2. SumsTo(h, k, S)
  <2>1. k \in [SUBSET S -> Int] /\ k[{}] = 0
    BY <1>1 DEF SumsTo
  <2>2. ASSUME NEW U \in SUBSET S, NEW x \in U
        PROVE  k[U] = h[x] + k[U \ {x}]
    <3>1. k[U] = g[U \cap T] /\ k[U \ {x}] = g[(U \ {x}) \cap T]
      OBVIOUS
    <3>2. CASE x \in T
      <4>1. (U \ {x}) \cap T = (U \cap T) \ {x} /\ x \in U \cap T /\ U \cap T \in SUBSET T
        BY <3>2
      <4>2. g[U \cap T] = f[x] + g[(U \cap T) \ {x}]
        BY <1>1, <4>1 DEF SumsTo
      <4> HIDE DEF k
      <4> QED
        BY <3>1, <3>2, <4>1, <4>2
    <3>3. CASE x \notin T
      <4>1. (U \ {x}) \cap T = U \cap T /\ h[x] = 0 /\ U \cap T \in SUBSET T
        BY <3>3
      <4>2. g[U \cap T] \in Int
        BY <1>1, <4>1 DEF SumsTo
      <4>3. g[(U \ {x}) \cap T] = g[U \cap T] /\ h[x] = 0
        BY <4>1
      <4> HIDE DEF k
      <4> QED
        BY ONLY <3>1, <4>2, <4>3
    <3> QED
      BY <3>2, <3>3
  <2> HIDE DEF k
  <2> QED
    BY <2>1, <2>2 DEF SumsTo
<1>3. k[S] = g[T]
  <2>1. S \cap T = T
    OBVIOUS
  <2> QED
    BY <2>1
<1>4. Total(f, T) = g[T]
  BY <1>1, FS_Subset, TotalSums
<1> HIDE DEF k
<1> QED
  BY <1>2, <1>3, <1>4, TotalSums

\* f over R in groups: part[k] is what of f is in the group of k, by[k] its sum, and h what is
\* in some group of K.
Grouped(R, K, key, f, part, by, h) ==
  /\ \A r \in R : f[r] \in Int
  /\ \A k \in K : by[k] = Total(part[k], R)
  /\ \A k \in K, r \in R : part[k][r] = IF key[r] = k THEN f[r] ELSE 0
  /\ \A r \in R : h[r] = IF key[r] \in K THEN f[r] ELSE 0

\* What is summed group by group is summed.
LEMMA TotalByKey ==
  ASSUME NEW R, IsFiniteSet(R), NEW K, IsFiniteSet(K),
         NEW key, NEW f, NEW part, NEW by, NEW h, Grouped(R, K, key, f, part, by, h)
  PROVE  Total(by, K) = Total(h, R)
<1> USE DEF Grouped
<1> DEFINE in(L) == [r \in R |-> IF key[r] \in L THEN f[r] ELSE 0]
           g == [L \in SUBSET K |-> Total(in(L), R)]
<1>1. ASSUME NEW L PROVE \A r \in R : in(L)[r] \in Int
  OBVIOUS
<1>2. g \in [SUBSET K -> Int]
  <2>1. ASSUME NEW L \in SUBSET K PROVE Total(in(L), R) \in Int
    <3> HIDE DEF in
    <3> QED
      BY <1>1, TotalTake
  <2> QED
    BY <2>1
<1>3. g[{}] = 0
  <2>1. \A r \in R : in({})[r] = 0
    OBVIOUS
  <2>2. Total(in({}), R) = 0
    BY <2>1, TotalZero
  <2> QED
    BY <2>2
<1>4. ASSUME NEW L \in SUBSET K, NEW k \in L
      PROVE  g[L] = by[k] + g[L \ {k}]
  <2>1. \A r \in R : /\ part[k][r] \in Int /\ in(L \ {k})[r] \in Int
                     /\ in(L)[r] = part[k][r] + in(L \ {k})[r]
    OBVIOUS
  <2>2. by[k] = Total(part[k], R)
    OBVIOUS
  <2>3. Total(in(L), R) = Total(part[k], R) + Total(in(L \ {k}), R)
    <3> DEFINE p == part[k]
               e == in(L \ {k})
    <3> HIDE DEF in, p, e
    <3>1. \A r \in R : p[r] \in Int /\ e[r] \in Int /\ in(L)[r] = p[r] + e[r]
      BY <2>1 DEF p, e
    <3>2. Total(in(L), R) = Total(p, R) + Total(e, R)
      BY <3>1, TotalPlus
    <3> QED
      BY <3>2 DEF p, e
  <2> QED
    BY <2>2, <2>3
<1>5. SumsTo(by, g, K)
  <2> HIDE DEF g
  <2> QED
    BY <1>2, <1>3, <1>4 DEF SumsTo
<1>6. g[K] = Total(in(K), R)
  OBVIOUS
<1>7. Total(in(K), R) = Total(h, R)
  <2>1. \A r \in R : in(K)[r] = h[r] /\ h[r] \in Int
    OBVIOUS
  <2> HIDE DEF in
  <2> QED
    BY <2>1, TotalSame
<1> HIDE DEF g
<1> QED
  BY <1>5, <1>6, <1>7, TotalSums

\* Each of what f sums over R is charged to a key of its own in K, which bears it: no term
\* of f exceeds its key's of g, and g is negative at no key without one.
Borne(R, K, key, f, g) ==
  /\ \A r \in R : f[r] \in Int
  /\ \A k \in K : g[k] \in Int
  /\ \A r \in R : f[r] # 0 => key[r] \in K /\ f[r] <= g[key[r]]
  /\ \A q, r \in R : q # r /\ f[q] # 0 /\ f[r] # 0 => key[q] # key[r]
  /\ \A k \in K : (\A r \in R : key[r] = k => f[r] = 0) => g[k] >= 0

\* So the sum over R is borne by the sum over K.
LEMMA TotalBorne ==
  ASSUME NEW R, IsFiniteSet(R), NEW K, IsFiniteSet(K), NEW key, NEW f, NEW g,
         Borne(R, K, key, f, g)
  PROVE  Total(f, R) <= Total(g, K)
<1> USE DEF Borne
<1> DEFINE part == [k \in K |-> [r \in R |-> IF key[r] = k THEN f[r] ELSE 0]]
           by == [k \in K |-> Total(part[k], R)]
<1>1. ASSUME NEW k \in K
      PROVE  by[k] \in Int /\ by[k] <= g[k]
  <2> DEFINE p == part[k]
             z == [r \in R |-> 0]
  <2>1. \A r \in R : p[r] = IF key[r] = k THEN f[r] ELSE 0
    OBVIOUS
  <2>2. by[k] = Total(p, R)
    OBVIOUS
  <2>3. Total(z, R) = 0 /\ \A r \in R : z[r] = 0
    <3>1. \A r \in R : z[r] = 0
      OBVIOUS
    <3> HIDE DEF z
    <3> QED
      BY <3>1, TotalZero
  <2> HIDE DEF p, z
  <2>4. CASE \A r \in R : key[r] = k => f[r] = 0
    <3>1. \A r \in R : p[r] = 0
      BY <2>1, <2>4
    <3>2. Total(p, R) = 0
      BY <3>1, TotalZero
    <3> QED
      BY <2>2, <2>4, <3>2
  <2>5. ASSUME NEW r \in R, key[r] = k, f[r] # 0
        PROVE  by[k] \in Int /\ by[k] <= g[k]
    <3>1. \A q \in R \ {r} : p[q] = 0
      BY <2>1, <2>5
    <3>2. p[r] = f[r]
      BY <2>1, <2>5
    <3>3. ChangedAt(z, p, r, R)
      BY <2>3, <3>1, <3>2 DEF ChangedAt
    <3>4. Total(p, R) = Total(z, R) + (p[r] - z[r])
      BY <3>3, TotalChange
    <3>5. Total(p, R) = f[r]
      BY <2>3, <3>2, <3>4
    <3> QED
      BY <2>2, <2>5, <3>5
  <2> QED
    BY <2>4, <2>5
<1>2. Total(by, K) <= Total(g, K)
  <2> HIDE DEF by
  <2> QED
    BY <1>1, TotalMono
<1>3. Total(by, K) = Total(f, R)
  <2> DEFINE h == [r \in R |-> IF key[r] \in K THEN f[r] ELSE 0]
  <2>1. /\ \A k \in K : by[k] = Total(part[k], R)
        /\ \A k \in K, r \in R : part[k][r] = IF key[r] = k THEN f[r] ELSE 0
        /\ \A r \in R : h[r] = IF key[r] \in K THEN f[r] ELSE 0
    OBVIOUS
  <2> HIDE DEF by, part, h
  <2>2. Grouped(R, K, key, f, part, by, h)
    BY <2>1 DEF Grouped
  <2>3. Total(by, K) = Total(h, R)
    BY <2>2, TotalByKey
  <2>4. \A r \in R : f[r] \in Int /\ h[r] = f[r]
    BY <2>1
  <2>5. Total(h, R) = Total(f, R)
    BY <2>4, TotalSame
  <2> QED
    BY <2>3, <2>5
<1> QED
  BY <1>2, <1>3

\* What is borne where no key is negative stays borne without one of the terms.
LEMMA TotalSpared ==
  ASSUME NEW R, IsFiniteSet(R), NEW K, IsFiniteSet(K), NEW key, NEW f, NEW g,
         Borne(R, K, key, f, g), \A k \in K : g[k] \in Nat, NEW r \in R
  PROVE  /\ Total(f, R) - f[r] <= Total(g, K)
         /\ Total(f, R) \in Int /\ Total(g, K) \in Int /\ f[r] \in Int
<1> DEFINE h == [q \in R |-> IF q = r THEN 0 ELSE f[q]]
<1>1. h[r] = 0 /\ \A q \in R \ {r} : h[q] = f[q]
  OBVIOUS
<1>2. \A q \in R : h[q] # 0 => q # r /\ h[q] = f[q]
  OBVIOUS
<1>3. /\ \A q \in R : f[q] \in Int /\ h[q] \in Int
      /\ \A k \in K : g[k] \in Int
  BY DEF Borne
<1> HIDE DEF h
<1>4. Borne(R, K, key, h, g)
  <2>1. \A q \in R : h[q] # 0 => key[q] \in K /\ h[q] <= g[key[q]]
    BY <1>2 DEF Borne
  <2>2. \A p, q \in R : p # q /\ h[p] # 0 /\ h[q] # 0 => key[p] # key[q]
    BY <1>2 DEF Borne
  <2>3. \A k \in K : g[k] >= 0
    OBVIOUS
  <2> QED
    BY <1>3, <2>1, <2>2, <2>3 DEF Borne
<1>5. ChangedAt(f, h, r, R)
  BY <1>1, <1>3 DEF ChangedAt
<1>6. Total(h, R) = Total(f, R) + (h[r] - f[r]) /\ Total(f, R) \in Int
  BY <1>5, TotalChange
<1>7. Total(h, R) <= Total(g, K)
  BY <1>4, TotalBorne
<1>8. Total(g, K) \in Int
  BY <1>3, TotalTake
<1> QED
  BY <1>1, <1>3, <1>6, <1>7, <1>8

\* A set's cardinality is the sum of one for each of its elements.
LEMMA TotalOnes ==
  ASSUME NEW S, IsFiniteSet(S), NEW T \in SUBSET S, NEW f,
         \A x \in S : f[x] = IF x \in T THEN 1 ELSE 0
  PROVE  Cardinality(T) = Total(f, S)
<1> DEFINE g == [U \in SUBSET S |-> Cardinality(U \cap T)]
<1>1. \A U \in SUBSET S : IsFiniteSet(U \cap T)
  BY FS_Subset, FS_Intersection
<1>2. g \in [SUBSET S -> Int]
  BY <1>1, FS_CardinalityType
<1>3. g[{}] = 0
  <2>1. {} \cap T = {}
    OBVIOUS
  <2> QED
    BY <2>1, FS_EmptySet
<1>4. ASSUME NEW U \in SUBSET S, NEW x \in U
      PROVE  g[U] = f[x] + g[U \ {x}]
  <2>1. /\ Cardinality((U \cap T) \ {x}) =
             IF x \in U \cap T THEN Cardinality(U \cap T) - 1 ELSE Cardinality(U \cap T)
        /\ Cardinality(U \cap T) \in Nat
    BY <1>1, FS_RemoveElement, FS_CardinalityType
  <2>2. (U \ {x}) \cap T = (U \cap T) \ {x}
    OBVIOUS
  <2>3. g[U] = Cardinality(U \cap T) /\ g[U \ {x}] = Cardinality((U \cap T) \ {x})
    BY <2>2
  <2> HIDE DEF g
  <2> QED
    BY <2>1, <2>3
<1>5. g[S] = Cardinality(T)
  <2>1. S \cap T = T
    OBVIOUS
  <2> QED
    BY <2>1
<1> HIDE DEF g
<1>6. SumsTo(f, g, S)
  BY <1>2, <1>3, <1>4 DEF SumsTo
<1> QED
  BY <1>5, <1>6, TotalSums

\* An amount n goes to m and a term of f to its value in h, or, with n as it is, f and s
\* change by as much at a term each.
Follows(R, K, f, h, s, t, r, n, m) ==
  /\ r \in R /\ n \in Int /\ m \in Int
  /\ \A q \in R : f[q] \in Int /\ h[q] \in Int
  /\ \A q \in R \ {r} : h[q] = f[q]
  /\ \A k \in K : s[k] \in Int /\ t[k] \in Int
  /\ \/ m + h[r] = n + f[r] /\ \A k \in K : t[k] = s[k]
     \/ \E o \in K : /\ m = n /\ h[r] - t[o] = f[r] - s[o]
                     /\ \A k \in K \ {o} : t[k] = s[k]

\* Then the difference of the sums stays.
LEMMA TotalsFollow ==
  ASSUME NEW R, IsFiniteSet(R), NEW K, IsFiniteSet(K), NEW f, NEW h, NEW s, NEW t,
         NEW r, NEW n, NEW m, Follows(R, K, f, h, s, t, r, n, m),
         n + Total(f, R) = Total(s, K)
  PROVE  m + Total(h, R) = Total(t, K)
<1>1. ChangedAt(f, h, r, R) /\ f[r] \in Int /\ h[r] \in Int /\ n \in Int /\ m \in Int
  BY DEF Follows, ChangedAt
<1>2. Total(h, R) = Total(f, R) + (h[r] - f[r]) /\ Total(f, R) \in Int
  BY <1>1, TotalChange
<1>3. CASE m + h[r] = n + f[r] /\ \A k \in K : t[k] = s[k]
  <2>1. \A k \in K : s[k] \in Int /\ t[k] = s[k]
    BY <1>3 DEF Follows
  <2>2. Total(t, K) = Total(s, K)
    BY <2>1, TotalSame
  <2> QED
    BY <1>1, <1>2, <1>3, <2>2
<1>4. ASSUME NEW o \in K, m = n, h[r] - t[o] = f[r] - s[o], \A k \in K \ {o} : t[k] = s[k]
      PROVE  m + Total(h, R) = Total(t, K)
  <2>1. ChangedAt(s, t, o, K) /\ s[o] \in Int /\ t[o] \in Int
    BY <1>4 DEF Follows, ChangedAt
  <2>2. Total(t, K) = Total(s, K) + (t[o] - s[o]) /\ Total(s, K) \in Int
    BY <2>1, TotalChange
  <2> QED
    BY <1>1, <1>2, <1>4, <2>1, <2>2
<1> QED
  BY <1>3, <1>4 DEF Follows
=============================================================================
