--------------------------- MODULE Listing_proofs ---------------------------
(***************************************************************************)
(* Proofs about listings (module Listing): for any bucket, prefix, scope,  *)
(* delimiter and limit, whatever is written between two pages.             *)
(***************************************************************************)
EXTENDS Listing, FiniteSetTheorems, SequenceTheorems, WellFoundedInduction, TLAPS

----------------------------------------------------------------------------
(* Numbers. *)

LEMMA LeastOf ==
  ASSUME NEW S \in SUBSET Nat, S # {}
  PROVE  \E m \in S : \A n \in S : m <= n
<1> DEFINE Segments == {0..n : n \in S}
<1>1. Segments \subseteq FiniteSubsetsOf(Nat) /\ Segments # {}
  <2>1. \A n \in S : 0..n \in SUBSET Nat /\ IsFiniteSet(0..n)
    BY FS_Interval
  <2> QED
    BY <2>1 DEF FiniteSubsetsOf
<1>2. IsWellFoundedOn(StrictSubsetOrdering(Nat), FiniteSubsetsOf(Nat))
  BY FS_StrictSubsetOrderingWellFounded
<1> HIDE DEF Segments
<1>3. PICK T \in Segments : \A U \in Segments : ~(<<U, T>> \in StrictSubsetOrdering(Nat))
  BY <1>1, <1>2, WFMin
<1>4. PICK m \in S : T = 0..m
  BY <1>3 DEF Segments
<1>5. ASSUME NEW n \in S, n < m
      PROVE  FALSE
  <2>1. 0..n \in Segments /\ 0..n \subseteq 0..m /\ m \in 0..m /\ m \notin 0..n /\ 0..m \subseteq Nat
    BY <1>5 DEF Segments
  <2>2. <<0..n, 0..m>> \in StrictSubsetOrdering(Nat)
    BY <2>1 DEF StrictSubsetOrdering
  <2> QED
    BY <1>3, <1>4, <2>1, <2>2
<1>6. m \in S /\ \A n \in S : m <= n
  BY <1>4, <1>5 DEF Segments
<1> QED
  BY <1>6

\* A set that has 0 and with every number below N the next has all of them up to N.
LEMMA UpTo ==
  ASSUME NEW N \in Nat, NEW P, 0 \in P, \A n \in 0..(N - 1) : n \in P => n + 1 \in P
  PROVE  \A n \in 0..N : n \in P
<1> DEFINE S == {n \in 0..N : n \notin P}
<1> SUFFICES ASSUME S # {} PROVE FALSE
  OBVIOUS
<1>1. PICK m \in S : \A n \in S : m <= n
  <2>1. S \in SUBSET Nat
    OBVIOUS
  <2> QED
    BY <2>1, LeastOf
<1>2. m # 0 /\ m - 1 \in 0..(N - 1) /\ m - 1 \notin S
  BY <1>1
<1> QED
  BY <1>2

----------------------------------------------------------------------------
(* The order of keys.  A key is compared letter by letter; past its end it  *)
(* has letter 0, which is below every other.                               *)

Text == Seq(Nat)

Letter(s, i) == IF i <= Len(s) THEN s[i] + 1 ELSE 0

\* s and t part at letter i, where s has the smaller one.
Parts(s, t, i) ==
  /\ Letter(s, i) < Letter(t, i)
  /\ \A j \in 1..(i - 1) : Letter(s, j) = Letter(t, j)

LEMMA LetterTyped ==
  ASSUME NEW s \in Text, NEW i \in Nat \ {0}
  PROVE  Letter(s, i) \in Nat
<1>1. Len(s) \in Nat /\ \A j \in 1..Len(s) : s[j] \in Nat
  BY LenProperties, ElementOfSeq DEF Text
<1> QED
  BY <1>1 DEF Letter

LEMMA SameStart ==
  ASSUME NEW s \in Text, NEW t \in Text, NEW n \in Nat, n <= Len(s), n <= Len(t)
  PROVE  SubSeq(s, 1, n) = SubSeq(t, 1, n) <=> \A j \in 1..n : s[j] = t[j]
<1>1. /\ \A j \in 1..n : s[j] \in Nat
      /\ \A j \in 1..n : t[j] \in Nat
  BY LenProperties, ElementOfSeq DEF Text
<1>2. /\ SubSeq(s, 1, n) \in Seq(Nat) /\ Len(SubSeq(s, 1, n)) = n
      /\ \A j \in 1..n : SubSeq(s, 1, n)[j] = s[j]
  BY <1>1, SubSeqProperties
<1>3. /\ SubSeq(t, 1, n) \in Seq(Nat) /\ Len(SubSeq(t, 1, n)) = n
      /\ \A j \in 1..n : SubSeq(t, 1, n)[j] = t[j]
  BY <1>1, SubSeqProperties
<1>4. ASSUME \A j \in 1..n : s[j] = t[j]
      PROVE  SubSeq(s, 1, n) = SubSeq(t, 1, n)
  BY <1>2, <1>3, <1>4, SeqEqual
<1> QED
  BY <1>2, <1>3, <1>4

LEMMA StartsWithIs ==
  ASSUME NEW s \in Text, NEW p \in Text
  PROVE  StartsWith(s, p) <=> Len(p) <= Len(s) /\ \A j \in 1..Len(p) : s[j] = p[j]
<1>1. Len(s) \in Nat /\ Len(p) \in Nat /\ SubSeq(p, 1, Len(p)) = p
  BY LenProperties, SubSeqFull DEF Text
<1>2. CASE Len(p) <= Len(s)
  <2>1. SubSeq(s, 1, Len(p)) = SubSeq(p, 1, Len(p)) <=> \A j \in 1..Len(p) : s[j] = p[j]
    BY <1>1, <1>2, SameStart
  <2> QED
    BY <1>1, <1>2, <2>1 DEF StartsWith
<1>3. CASE ~(Len(p) <= Len(s))
  BY <1>3 DEF StartsWith
<1> QED
  BY <1>2, <1>3

LEMMA BeforeIs ==
  ASSUME NEW s \in Text, NEW t \in Text
  PROVE  Before(s, t) <=> \E i \in Nat \ {0} : Parts(s, t, i)
<1>1. /\ Len(s) \in Nat /\ \A j \in 1..Len(s) : s[j] \in Nat
      /\ Len(t) \in Nat /\ \A j \in 1..Len(t) : t[j] \in Nat
  BY LenProperties, ElementOfSeq DEF Text
<1>2. ASSUME StartsWith(t, s), s # t
      PROVE  \E i \in Nat \ {0} : Parts(s, t, i)
  <2>1. Len(s) <= Len(t) /\ \A j \in 1..Len(s) : t[j] = s[j]
    BY <1>2, StartsWithIs
  <2>2. Len(s) # Len(t)
    BY <1>2, <2>1, SeqEqual DEF Text
  <2>3. Parts(s, t, Len(s) + 1)
    BY <1>1, <2>1, <2>2 DEF Parts, Letter
  <2> QED
    BY <1>1, <2>3
<1>3. ASSUME NEW i \in 1..Len(s), i <= Len(t), s[i] < t[i],
             SubSeq(s, 1, i - 1) = SubSeq(t, 1, i - 1)
      PROVE  \E n \in Nat \ {0} : Parts(s, t, n)
  <2>1. \A j \in 1..(i - 1) : s[j] = t[j]
    BY <1>1, <1>3, SameStart
  <2>2. Parts(s, t, i)
    BY <1>1, <1>3, <2>1 DEF Parts, Letter
  <2> QED
    BY <2>2
<1>4. ASSUME NEW i \in Nat \ {0}, Parts(s, t, i)
      PROVE  Before(s, t)
  <2>1. i <= Len(t)
    BY <1>1, <1>4 DEF Parts, Letter
  <2>2. \A j \in 1..(i - 1) : j <= Len(s) /\ s[j] = t[j]
    <3> SUFFICES ASSUME NEW j \in 1..(i - 1) PROVE j <= Len(s) /\ s[j] = t[j]
      OBVIOUS
    <3>1. Letter(s, j) = Letter(t, j) /\ Letter(t, j) = t[j] + 1 /\ t[j] \in Nat
      BY <1>1, <1>4, <2>1 DEF Parts, Letter
    <3>2. j <= Len(s)
      BY <1>1, <3>1 DEF Letter
    <3> QED
      BY <1>1, <3>1, <3>2 DEF Letter
  <2>3. CASE i <= Len(s)
    <3>1. s[i] < t[i]
      BY <1>1, <1>4, <2>1, <2>3 DEF Parts, Letter
    <3>2. SubSeq(s, 1, i - 1) = SubSeq(t, 1, i - 1)
      BY <1>1, <2>1, <2>2, <2>3, SameStart
    <3> QED
      BY <2>1, <2>3, <3>1, <3>2 DEF Before
  <2>4. CASE ~(i <= Len(s))
    <3>1. Len(s) = i - 1
      <4>1. i - 1 <= Len(s)
        BY <1>1, <2>2
      <4> QED
        BY <1>1, <2>4, <4>1
    <3>2. Len(s) <= Len(t) /\ \A j \in 1..Len(s) : t[j] = s[j]
      BY <1>1, <2>1, <2>2, <3>1
    <3>3. StartsWith(t, s) /\ s # t
      BY <2>1, <3>1, <3>2, StartsWithIs
    <3> QED
      BY <3>3 DEF Before
  <2> QED
    BY <2>3, <2>4
<1> QED
  BY <1>2, <1>3, <1>4 DEF Before

\* The order is strict and total.
LEMMA BeforeNever ==
  ASSUME NEW s \in Text
  PROVE  ~Before(s, s)
BY BeforeIs, LetterTyped DEF Parts

LEMMA BeforeChain ==
  ASSUME NEW s \in Text, NEW t \in Text, NEW u \in Text, Before(s, t), Before(t, u)
  PROVE  Before(s, u)
<1>1. PICK i \in Nat \ {0} : Parts(s, t, i)
  BY BeforeIs
<1>2. PICK k \in Nat \ {0} : Parts(t, u, k)
  BY BeforeIs
<1>3. \A j \in Nat \ {0} : Letter(s, j) \in Nat /\ Letter(t, j) \in Nat /\ Letter(u, j) \in Nat
  BY LetterTyped
<1>4. CASE i <= k
  <2>1. Parts(s, u, i)
    BY <1>1, <1>2, <1>3, <1>4 DEF Parts
  <2> QED
    BY <2>1, BeforeIs
<1>5. CASE k < i
  <2>1. Parts(s, u, k)
    BY <1>1, <1>2, <1>3, <1>5 DEF Parts
  <2> QED
    BY <2>1, BeforeIs
<1> QED
  BY <1>4, <1>5

LEMMA BeforeTotal ==
  ASSUME NEW s \in Text, NEW t \in Text, s # t
  PROVE  Before(s, t) \/ Before(t, s)
<1> DEFINE D == {i \in Nat \ {0} : Letter(s, i) # Letter(t, i)}
<1>1. /\ Len(s) \in Nat /\ \A j \in 1..Len(s) : s[j] \in Nat
      /\ Len(t) \in Nat /\ \A j \in 1..Len(t) : t[j] \in Nat
  BY LenProperties, ElementOfSeq DEF Text
<1>2. D # {}
  <2> SUFFICES ASSUME D = {} PROVE FALSE
    OBVIOUS
  <2>1. \A i \in Nat \ {0} : Letter(s, i) = Letter(t, i)
    OBVIOUS
  <2>2. Len(s) = Len(t)
    <3>1. CASE Len(s) < Len(t)
      <4>1. Letter(t, Len(s) + 1) = t[Len(s) + 1] + 1 /\ Letter(s, Len(s) + 1) = 0
        BY <1>1, <3>1 DEF Letter
      <4> QED
        BY <1>1, <2>1, <3>1, <4>1
    <3>2. CASE Len(t) < Len(s)
      <4>1. Letter(s, Len(t) + 1) = s[Len(t) + 1] + 1 /\ Letter(t, Len(t) + 1) = 0
        BY <1>1, <3>2 DEF Letter
      <4> QED
        BY <1>1, <2>1, <3>2, <4>1
    <3> QED
      BY <1>1, <3>1, <3>2
  <2>3. \A i \in 1..Len(s) : s[i] = t[i]
    BY <1>1, <2>1, <2>2 DEF Letter
  <2> QED
    BY <2>2, <2>3, SeqEqual DEF Text
<1>3. PICK i \in D : \A j \in D : i <= j
  <2>1. D \in SUBSET Nat
    OBVIOUS
  <2> QED
    BY <1>2, <2>1, LeastOf
<1>4. \A j \in 1..(i - 1) : Letter(s, j) = Letter(t, j)
  BY <1>3
<1>5. Letter(s, i) < Letter(t, i) \/ Letter(t, i) < Letter(s, i)
  BY <1>3, LetterTyped
<1>6. Parts(s, t, i) \/ Parts(t, s, i)
  BY <1>4, <1>5 DEF Parts
<1> QED
  BY <1>6, BeforeIs

\* What list_page asks of a key beside a prefix is that it starts with it: a key from the
\* prefix up to its upper bound.
LEMMA RangeStarts ==
  ASSUME NEW k \in Text, NEW p \in Text, p # <<>>,
         k = p \/ Before(p, k), Before(k, UpperBound(p))
  PROVE  StartsWith(k, p)
<1> DEFINE n == Len(p)
           u == UpperBound(p)
<1>1. /\ n \in Nat \ {0} /\ \A j \in 1..n : p[j] \in Nat
      /\ Len(k) \in Nat /\ \A j \in 1..Len(k) : k[j] \in Nat
  BY LenProperties, ElementOfSeq, EmptySeq DEF Text
<1>2. /\ u \in Text /\ Len(u) = n
      /\ \A j \in 1..n : u[j] = IF j = n THEN p[n] + 1 ELSE p[j]
  <2>1. n \in 1..n /\ p[n] + 1 \in Nat
    BY <1>1
  <2> QED
    BY <2>1, ExceptSeq DEF UpperBound, Text
<1> HIDE DEF u
<1>3. /\ \A j \in Nat \ {0} : Letter(k, j) \in Nat /\ Letter(p, j) \in Nat
      /\ \A j \in 1..n : Letter(p, j) = p[j] + 1 /\ Letter(u, j) = u[j] + 1
      /\ \A j \in Nat \ {0} : j > n => Letter(u, j) = 0
  BY <1>1, <1>2, LetterTyped DEF Letter
<1>9. Letter(u, n) = Letter(p, n) + 1 /\ \A j \in 1..(n - 1) : Letter(u, j) = Letter(p, j)
  <2>1. n \in 1..n
    BY <1>1
  <2>2. ASSUME NEW j \in 1..(n - 1) PROVE Letter(u, j) = Letter(p, j)
    <3>1. j \in 1..n /\ j # n
      BY <1>1
    <3>2. u[j] = p[j]
      BY <1>2, <3>1
    <3> QED
      BY <1>3, <3>1, <3>2
  <2> QED
    BY <1>2, <1>3, <2>1, <2>2
<1>4. PICK i \in Nat \ {0} : Parts(k, u, i)
  BY <1>2, BeforeIs DEF u
<1>5. i <= n
  BY <1>1, <1>3, <1>4 DEF Parts
<1>6. \A j \in 1..(i - 1) : Letter(k, j) = Letter(p, j)
  BY <1>1, <1>4, <1>5, <1>9 DEF Parts
<1>7. CASE k = p
  BY <1>1, <1>7, StartsWithIs
<1>8. CASE Before(p, k)
  <2>1. PICK m \in Nat \ {0} : Parts(p, k, m)
    BY <1>8, BeforeIs
  <2>2. m >= i
    <3> SUFFICES ASSUME m < i PROVE FALSE
      OBVIOUS
    <3>1. Letter(k, m) = Letter(p, m)
      BY <1>6
    <3> QED
      BY <1>3, <2>1, <3>1 DEF Parts
  <2>3. Letter(p, i) <= Letter(k, i)
    BY <1>3, <2>1, <2>2 DEF Parts
  <2>4. i = n
    <3> SUFFICES ASSUME i < n PROVE FALSE
      BY <1>1, <1>5
    <3>1. Letter(u, i) = Letter(p, i)
      BY <1>1, <1>9
    <3> QED
      BY <1>3, <1>4, <2>3, <3>1 DEF Parts
  <2>5. Letter(k, n) = Letter(p, n)
    <3>1. Letter(u, n) = Letter(p, n) + 1
      BY <1>9
    <3> QED
      BY <1>1, <1>3, <1>4, <2>3, <2>4, <3>1 DEF Parts
  <2>6. \A j \in 1..n : Letter(k, j) = Letter(p, j)
    BY <1>1, <1>6, <2>4, <2>5
  <2>7. n <= Len(k)
    BY <1>1, <1>3, <2>5 DEF Letter
  <2>8. \A j \in 1..n : k[j] = p[j]
    BY <1>1, <2>6, <2>7 DEF Letter
  <2> QED
    BY <2>7, <2>8, StartsWithIs
<1> QED
  BY <1>7, <1>8

----------------------------------------------------------------------------
(* A finite set in order: what Ordered makes of an order, which is a set of *)
(* pairs here.                                                              *)

StrictOn(R, S) ==
  /\ \A x \in S : <<x, x>> \notin R
  /\ \A x, y, z \in S : <<x, y>> \in R /\ <<y, z>> \in R => <<x, z>> \in R
  /\ \A x, y \in S : x # y => <<x, y>> \in R \/ <<y, x>> \in R

Under(R, S, x) == {y \in S : <<y, x>> \in R}

\* A member has its own number of members under it, and every number up to how many there
\* are is a member's.
LEMMA Ranks ==
  ASSUME NEW S, IsFiniteSet(S), NEW R, StrictOn(R, S)
  PROVE  /\ Cardinality(S) \in Nat
         /\ \A x \in S : Cardinality(Under(R, S, x)) \in 0..(Cardinality(S) - 1)
         /\ \A x, y \in S :
              <<x, y>> \in R => Cardinality(Under(R, S, x)) < Cardinality(Under(R, S, y))
         /\ \A i \in 1..Cardinality(S) : \E x \in S : Cardinality(Under(R, S, x)) = i - 1
<1> DEFINE N == Cardinality(S)
           rank == [x \in S |-> Cardinality(Under(R, S, x))]
<1>1. \A x \in S : Under(R, S, x) \subseteq S /\ x \notin Under(R, S, x)
  BY DEF StrictOn, Under
<1>2. \A x \in S : IsFiniteSet(Under(R, S, x)) /\ Cardinality(Under(R, S, x)) \in Nat
  BY <1>1, FS_Subset, FS_CardinalityType
<1>3. N \in Nat
  BY FS_CardinalityType
<1>4. ASSUME NEW x \in S
      PROVE  Cardinality(Under(R, S, x)) < N
  BY <1>1, <1>2, <1>3, FS_Subset
<1>5. ASSUME NEW x \in S, NEW y \in S, <<x, y>> \in R
      PROVE  Cardinality(Under(R, S, x)) < Cardinality(Under(R, S, y))
  <2>1. x \in Under(R, S, y) /\ x \notin Under(R, S, x)
    BY <1>1, <1>5 DEF Under
  <2>2. Under(R, S, x) \subseteq Under(R, S, y)
    BY <1>5 DEF Under, StrictOn
  <2> QED
    BY <1>2, <2>1, <2>2, FS_Subset
<1>6. rank \in Injection(S, 0..(N - 1))
  <2>1. rank \in [S -> 0..(N - 1)]
    BY <1>2, <1>3, <1>4
  <2>2. \A x, y \in S : rank[x] = rank[y] => x = y
    <3> SUFFICES ASSUME NEW x \in S, NEW y \in S, rank[x] = rank[y], x # y
                 PROVE  FALSE
      OBVIOUS
    <3>1. <<x, y>> \in R \/ <<y, x>> \in R
      BY DEF StrictOn
    <3> QED
      BY <1>2, <1>5, <3>1
  <2> HIDE DEF rank
  <2> QED
    BY <2>1, <2>2 DEF Injection, IsInjective
<1>7. rank \in Surjection(S, 0..(N - 1))
  <2>1. IsFiniteSet(0..(N - 1)) /\ Cardinality(0..(N - 1)) = N
    BY <1>3, FS_Interval
  <2> HIDE DEF rank
  <2> QED
    BY <1>6, <2>1, FS_Injection
<1>8. ASSUME NEW i \in 1..N
      PROVE  \E x \in S : Cardinality(Under(R, S, x)) = i - 1
  <2>1. i - 1 \in 0..(N - 1)
    BY <1>3
  <2> QED
    BY <1>7, <2>1 DEF Surjection
<1> QED
  BY <1>2, <1>3, <1>4, <1>5, <1>8

RankedBy(R, S, s) ==
  /\ IsFiniteSet(S) /\ StrictOn(R, S)
  /\ s \in [1..Cardinality(S) -> S]
  /\ \A i \in 1..Cardinality(S) : Cardinality(Under(R, S, s[i])) = i - 1

LEMMA FunctionIsSeq ==
  ASSUME NEW S, NEW n \in Nat, NEW s \in [1..n -> S]
  PROVE  s \in Seq(S) /\ Len(s) = n
OBVIOUS

\* So a sequence by rank has every member once, in order.
LEMMA Sorted ==
  ASSUME NEW S, NEW R, NEW s, RankedBy(R, S, s)
  PROVE  /\ s \in Seq(S) /\ Len(s) = Cardinality(S)
         /\ \A i, j \in 1..Len(s) : i < j => <<s[i], s[j]>> \in R
         /\ \A x \in S : \E i \in 1..Len(s) : s[i] = x
<1> DEFINE N == Cardinality(S)
<1>0. IsFiniteSet(S) /\ StrictOn(R, S)
  BY DEF RankedBy
<1>1. \A i \in 1..N : s[i] \in S /\ Cardinality(Under(R, S, s[i])) = i - 1
  BY DEF RankedBy
<1>2. s \in Seq(S) /\ Len(s) = N
  <2>1. s \in [1..N -> S] /\ N \in Nat
    BY <1>0, Ranks DEF RankedBy
  <2> HIDE DEF N
  <2> QED
    BY <2>1, FunctionIsSeq
<1>3. ASSUME NEW i \in 1..N, NEW j \in 1..N, i < j
      PROVE  <<s[i], s[j]>> \in R
  <2>1. Cardinality(Under(R, S, s[i])) = i - 1 /\ Cardinality(Under(R, S, s[j])) = j - 1
    BY <1>1
  <2>2. s[i] # s[j] /\ <<s[j], s[i]>> \notin R
    BY <1>1, <1>3, <2>1, <1>0, Ranks
  <2> QED
    BY <1>0, <1>1, <2>2 DEF StrictOn
<1>4. ASSUME NEW x \in S
      PROVE  \E i \in 1..N : s[i] = x
  <2> DEFINE i == Cardinality(Under(R, S, x)) + 1
  <2>1. i \in 1..N
    BY <1>0, Ranks
  <2>2. s[i] = x
    <3> SUFFICES ASSUME s[i] # x PROVE FALSE
      OBVIOUS
    <3>1. <<s[i], x>> \in R \/ <<x, s[i]>> \in R
      BY <1>0, <1>1, <2>1 DEF StrictOn
    <3>2. Cardinality(Under(R, S, s[i])) = Cardinality(Under(R, S, x))
      BY <1>1, <2>1, <1>0, Ranks
    <3> QED
      BY <1>1, <2>1, <3>1, <3>2, <1>0, Ranks
  <2> QED
    BY <2>1, <2>2
<1> QED
  BY <1>2, <1>3, <1>4

InOrder(s) == \A i, j \in 1..Len(s) : i < j => Before(s[i], s[j])

LEMMA KeysOrdered ==
  ASSUME NEW S \in SUBSET KeySpace
  PROVE  /\ KeysInOrder(S) \in Seq(S) /\ InOrder(KeysInOrder(S))
         /\ \A x \in S : \E i \in 1..Len(KeysInOrder(S)) : KeysInOrder(S)[i] = x
<1> DEFINE R == {e \in S \X S : Before(e[1], e[2])}
           s == KeysInOrder(S)
<1>1. IsFiniteSet(S) /\ \A x \in S : x \in Text
  BY KeysAssumption, FS_Subset DEF Text
<1>2. \A x, y \in S : <<x, y>> \in R <=> Before(x, y)
  OBVIOUS
<1>3. \A x \in S : {y \in S : Before(y, x)} = Under(R, S, x)
  BY <1>2 DEF Under
<1>5. StrictOn(R, S)
  <2>1. \A x \in S : ~Before(x, x)
    BY <1>1, BeforeNever
  <2>2. \A x, y, z \in S : Before(x, y) /\ Before(y, z) => Before(x, z)
    BY <1>1, BeforeChain
  <2>3. \A x, y \in S : x # y => Before(x, y) \/ Before(y, x)
    BY <1>1, BeforeTotal
  <2> HIDE DEF R
  <2> QED
    BY <1>2, <2>1, <2>2, <2>3 DEF StrictOn
<1>4. s \in [1..Cardinality(S) -> S]
      /\ \A i \in 1..Cardinality(S) : Cardinality(Under(R, S, s[i])) = i - 1
  <2>1. ASSUME NEW i \in 1..Cardinality(S)
        PROVE  s[i] \in S /\ Cardinality({y \in S : Before(y, s[i])}) = i - 1
    <3>0. \E x \in S : Cardinality(Under(R, S, x)) = i - 1
      <4> HIDE DEF R, s
      <4> QED
        BY <1>1, <1>5, Ranks
    <3>1. PICK x \in S : Cardinality(Under(R, S, x)) = i - 1
      BY <3>0
    <3>2. Cardinality({y \in S : Before(y, x)}) = i - 1
      BY <1>3, <3>1
    <3> QED
      BY <3>1, <3>2 DEF KeysInOrder
  <2>2. \A i \in 1..Cardinality(S) : s[i] \in S /\ Cardinality(Under(R, S, s[i])) = i - 1
    BY <1>3, <2>1
  <2> DEFINE at(i) == CHOOSE x \in S : Cardinality({y \in S : Before(y, x)}) = i - 1
  <2>3. s = [i \in 1..Cardinality(S) |-> at(i)]
    BY DEF KeysInOrder
  <2> HIDE DEF s, at
  <2> QED
    BY <2>2, <2>3
<1> HIDE DEF R, s
<1>6. /\ s \in Seq(S)
      /\ \A i, j \in 1..Len(s) : i < j => <<s[i], s[j]>> \in R
      /\ \A x \in S : \E i \in 1..Len(s) : s[i] = x
  <2>1. RankedBy(R, S, s)
    BY <1>1, <1>4, <1>5 DEF RankedBy
  <2> QED
    BY <2>1, Sorted
<1>7. \A i \in 1..Len(s) : s[i] \in S
  BY <1>6, ElementOfSeq
<1> QED
  BY <1>2, <1>6, <1>7 DEF InOrder, s

LEMMA PlacesOrdered ==
  ASSUME NEW n \in Nat, NEW S \in SUBSET (1..n)
  PROVE  /\ Ascending(S) \in Seq(S) /\ Len(Ascending(S)) = Cardinality(S)
         /\ \A i, j \in 1..Len(Ascending(S)) : i < j => Ascending(S)[i] < Ascending(S)[j]
         /\ \A x \in S : \E i \in 1..Len(Ascending(S)) : Ascending(S)[i] = x
<1> DEFINE R == {e \in S \X S : e[1] < e[2]}
           s == Ascending(S)
<1>1. IsFiniteSet(S) /\ S \subseteq Int
  <2>1. IsFiniteSet(1..n) /\ S \subseteq 1..n
    BY FS_Interval
  <2>2. IsFiniteSet(S)
    BY <2>1, FS_Subset
  <2> QED
    BY <2>2
<1>2. \A x, y \in S : <<x, y>> \in R <=> x < y
  OBVIOUS
<1>3. \A x \in S : {y \in S : y < x} = Under(R, S, x)
  BY <1>2 DEF Under
<1>5. StrictOn(R, S)
  <2> HIDE DEF R
  <2> QED
    BY <1>1, <1>2 DEF StrictOn
<1>4. s \in [1..Cardinality(S) -> S]
      /\ \A i \in 1..Cardinality(S) : Cardinality(Under(R, S, s[i])) = i - 1
  <2>1. ASSUME NEW i \in 1..Cardinality(S)
        PROVE  s[i] \in S /\ Cardinality({y \in S : y < s[i]}) = i - 1
    <3>0. \E x \in S : Cardinality(Under(R, S, x)) = i - 1
      <4> HIDE DEF R, s
      <4> QED
        BY <1>1, <1>5, Ranks
    <3>1. PICK x \in S : Cardinality(Under(R, S, x)) = i - 1
      BY <3>0
    <3>2. Cardinality({y \in S : y < x}) = i - 1
      BY <1>3, <3>1
    <3> QED
      BY <3>1, <3>2 DEF Ascending
  <2>2. \A i \in 1..Cardinality(S) : s[i] \in S /\ Cardinality(Under(R, S, s[i])) = i - 1
    BY <1>3, <2>1
  <2> DEFINE at(i) == CHOOSE x \in S : Cardinality({y \in S : y < x}) = i - 1
  <2>3. s = [i \in 1..Cardinality(S) |-> at(i)]
    BY DEF Ascending
  <2> HIDE DEF s, at
  <2> QED
    BY <2>2, <2>3
<1> HIDE DEF R, s
<1>6. /\ s \in Seq(S) /\ Len(s) = Cardinality(S)
      /\ \A i, j \in 1..Len(s) : i < j => <<s[i], s[j]>> \in R
      /\ \A x \in S : \E i \in 1..Len(s) : s[i] = x
  <2>1. RankedBy(R, S, s)
    BY <1>1, <1>4, <1>5 DEF RankedBy
  <2> QED
    BY <2>1, Sorted
<1>7. \A i \in 1..Len(s) : s[i] \in S
  BY <1>6, ElementOfSeq
<1> QED
  BY <1>2, <1>6, <1>7 DEF s

----------------------------------------------------------------------------
(* A page's rows. *)

\* p is the rows of the next page: those in the range, in order, and when there are fewer
\* than the limit and one more, all of them.
PageOf(p, q, a) ==
  /\ p \in Seq(KeySpace) /\ InOrder(p)
  /\ \A i \in 1..Len(p) : p[i] \in rows /\ InRange(p[i], q, a)
  /\ \A k \in rows : InRange(k, q, a) =>
       \/ \E i \in 1..Len(p) : p[i] = k
       \/ Len(p) = Limit(q) + 1 /\ \A i \in 1..Len(p) : Before(p[i], k)

LEMMA LimitIs ==
  ASSUME NEW q \in Query
  PROVE  Limit(q) \in Nat \ {0}
<1>1. q.max \in Nat \cup {Nothing}
  BY AskedAssumption DEF Query
<1> QED
  BY <1>1, LimitAssumption DEF Limit, Smaller

LEMMA PageFound ==
  ASSUME rows \subseteq KeySpace, NEW q \in Query, NEW a
  PROVE  PageOf(ListPage(q, a), q, a)
<1> DEFINE S == {k \in rows : InRange(k, q, a)}
           f == Found(q, a)
           n == Smaller(Len(f), Limit(q) + 1)
           p == ListPage(q, a)
<1>1. /\ f \in Seq(S) /\ InOrder(f)
      /\ \A x \in S : \E i \in 1..Len(f) : f[i] = x
  BY KeysOrdered DEF Found
<1>2. Len(f) \in Nat /\ \A i \in 1..Len(f) : f[i] \in S /\ f[i] \in KeySpace
  BY <1>1, LenProperties, ElementOfSeq
<1>3. n \in 0..Len(f) /\ (n = Len(f) \/ n = Limit(q) + 1)
  BY <1>2, LimitIs DEF Smaller
<1>4. p = SubSeq(f, 1, n)
  BY DEF ListPage
<1> HIDE DEF f, n, p
<1>5. p \in Seq(KeySpace) /\ Len(p) = n /\ \A i \in 1..n : p[i] = f[i]
  BY <1>2, <1>3, <1>4, SubSeqProperties
<1>6. InOrder(p)
  <2> SUFFICES ASSUME NEW i \in 1..n, NEW j \in 1..n, i < j PROVE Before(f[i], f[j])
    BY <1>5 DEF InOrder
  <2>1. i \in 1..Len(f) /\ j \in 1..Len(f)
    BY <1>2, <1>3
  <2> QED
    BY <1>1, <2>1 DEF InOrder
<1>7. \A i \in 1..Len(p) : p[i] \in rows /\ InRange(p[i], q, a)
  BY <1>2, <1>3, <1>5
<1>8. ASSUME NEW k \in rows, InRange(k, q, a)
      PROVE  \/ \E i \in 1..Len(p) : p[i] = k
             \/ Len(p) = Limit(q) + 1 /\ \A i \in 1..Len(p) : Before(p[i], k)
  <2>1. PICK j \in 1..Len(f) : f[j] = k
    BY <1>1, <1>8
  <2>2. CASE j <= n
    BY <1>3, <1>5, <2>1, <2>2
  <2>3. CASE j > n
    <3>1. ASSUME NEW i \in 1..n
          PROVE  Before(f[i], f[j])
      <4>1. i \in 1..Len(f) /\ i < j
        BY <1>2, <1>3, <2>1, <2>3
      <4> QED
        BY <1>1, <2>1, <4>1 DEF InOrder
    <3> QED
      BY <1>2, <1>3, <1>5, <2>1, <2>3, <3>1
  <2> QED
    BY <1>2, <1>3, <2>1, <2>2, <2>3
<1> QED
  BY <1>5, <1>6, <1>7, <1>8 DEF PageOf, p

\* The rows a page consumes are its first ones, at least one if there is any, and all of
\* them when there are no more than the limit and none rolls up.
LEMMA ConsumedIs ==
  ASSUME NEW q \in Query, NEW p \in Seq(KeySpace)
  PROVE  LET n == Cardinality(Consumed(p, q)) IN
         /\ n \in 0..Len(p) /\ Consumed(p, q) = 1..n
         /\ Len(p) > 0 => n > 0
<1> DEFINE C == Consumed(p, q)
           N == Len(p)
           E == Entries(p, q)
<1>1. N \in Nat /\ DOMAIN p = 1..N /\ IsFiniteSet(1..N)
  BY LenProperties, FS_Interval
<1>2. C \subseteq 1..N /\ \A i \in 1..N : i \in C <=> Cardinality({j \in E : j < i}) < Limit(q)
  BY <1>1 DEF Consumed
<1>3. E \subseteq 1..N
  BY <1>1 DEF Entries
<1> HIDE DEF C, E, N
<1>4. \A i \in 1..N : IsFiniteSet({j \in E : j < i}) /\ Cardinality({j \in E : j < i}) \in Nat
  <2>1. \A i \in 1..N : {j \in E : j < i} \subseteq 1..N
    BY <1>3
  <2> QED
    BY <1>1, <2>1, FS_Subset, FS_CardinalityType
<1>5. ASSUME NEW i \in C, NEW j \in 1..N, j < i
      PROVE  j \in C
  <2>0. i \in 1..N /\ \A m \in E : m \in Int
    BY <1>2, <1>3, <1>5
  <2>1. {m \in E : m < j} \subseteq {m \in E : m < i}
    BY <1>1, <1>5, <2>0
  <2>2. Cardinality({m \in E : m < j}) <= Cardinality({m \in E : m < i})
    BY <1>4, <2>0, <2>1, FS_Subset
  <2>3. /\ Cardinality({m \in E : m < i}) < Limit(q) /\ Limit(q) \in Nat
        /\ Cardinality({m \in E : m < i}) \in Nat /\ Cardinality({m \in E : m < j}) \in Nat
    BY <1>2, <1>4, <1>5, <2>0, LimitIs
  <2>4. Cardinality({m \in E : m < j}) < Limit(q)
    BY <2>2, <2>3
  <2> QED
    BY <1>2, <2>4
<1>6. PICK n \in 0..N : C = 1..n
  <2> DEFINE Left == (1..N) \ C
  <2>1. CASE Left = {}
    <3>1. N \in 0..N
      BY <1>1
    <3>2. C \subseteq 1..N
      BY <1>2
    <3>3. C = 1..N
      BY <2>1, <3>2
    <3> QED
      BY <3>1, <3>3
  <2>2. CASE Left # {}
    <3>1. Left \in SUBSET Nat
      OBVIOUS
    <3>2. PICK m \in Left : \A j \in Left : m <= j
      BY <2>2, <3>1, LeastOf
    <3>3. C = 1..(m - 1)
      <4>1. ASSUME NEW j \in C PROVE j \in 1..(m - 1)
        BY <1>1, <1>2, <1>5, <3>2
      <4>2. ASSUME NEW j \in 1..(m - 1) PROVE j \in C
        BY <1>1, <3>2
      <4> QED
        BY <4>1, <4>2
    <3> QED
      BY <1>1, <3>2, <3>3
  <2> QED
    BY <2>1, <2>2
<1>7. Cardinality(C) = n
  BY <1>6, FS_Interval
<1>8. ASSUME N > 0
      PROVE  n > 0
  <2>1. 1 \in 1..N
    BY <1>1, <1>8
  <2>2. \A j \in E : ~(j < 1)
    BY <1>1, <1>3
  <2>3. Cardinality({j \in E : j < 1}) = 0
    <3>1. {j \in E : j < 1} = {}
      BY <2>2
    <3> QED
      BY <3>1, FS_EmptySet
  <2>4. 1 \in C
    BY <1>2, <2>1, <2>3, LimitIs
  <2> QED
    BY <1>6, <2>4
<1> QED
  BY <1>6, <1>7, <1>8 DEF C, N

----------------------------------------------------------------------------
(* A page. *)

LEMMA RowsAtIs ==
  ASSUME NEW p \in Seq(KeySpace), NEW n \in 0..Len(p), NEW S \in SUBSET (1..n)
  PROVE  /\ RowsAt(p, S) \in Seq(KeySpace)
         /\ \A i \in 1..Len(RowsAt(p, S)) : \E x \in S : RowsAt(p, S)[i] = p[x]
         /\ \A x \in S : \E i \in 1..Len(RowsAt(p, S)) : RowsAt(p, S)[i] = p[x]
         /\ InOrder(p) => InOrder(RowsAt(p, S))
<1> DEFINE at == Ascending(S)
           N == Cardinality(S)
           s == RowsAt(p, S)
<1>1. Len(p) \in Nat /\ n \in Nat /\ \A i \in 1..Len(p) : p[i] \in KeySpace
  BY LenProperties, ElementOfSeq
<1>2. /\ at \in Seq(S) /\ Len(at) = N
      /\ \A i, j \in 1..Len(at) : i < j => at[i] < at[j]
      /\ \A x \in S : \E i \in 1..Len(at) : at[i] = x
  BY <1>1, PlacesOrdered
<1>3. s = [i \in 1..N |-> p[at[i]]]
  BY DEF RowsAt
<1> HIDE DEF at, N, s
<1>4. N \in Nat /\ \A i \in 1..N : at[i] \in S /\ at[i] \in 1..Len(p) /\ at[i] \in Int
  <2>1. N \in Nat /\ \A i \in 1..N : at[i] \in S
    BY <1>2, LenProperties, ElementOfSeq
  <2>2. \A x \in S : x \in 1..Len(p) /\ x \in Int
    BY <1>1
  <2> QED
    BY <2>1, <2>2
<1>5. s \in Seq(KeySpace) /\ Len(s) = N
  <2>1. s \in [1..N -> KeySpace]
    BY <1>1, <1>3, <1>4
  <2> QED
    BY <1>4, <2>1, FunctionIsSeq
<1>6. \A i \in 1..N : s[i] = p[at[i]]
  BY <1>3
<1>7. ASSUME InOrder(p)
      PROVE  InOrder(s)
  <2> SUFFICES ASSUME NEW i \in 1..N, NEW j \in 1..N, i < j PROVE Before(s[i], s[j])
    BY <1>5 DEF InOrder
  <2>1. at[i] < at[j] /\ at[i] \in 1..Len(p) /\ at[j] \in 1..Len(p)
    BY <1>2, <1>4
  <2> QED
    BY <1>6, <1>7, <2>1 DEF InOrder
<1>8. \A i \in 1..N : \E x \in S : s[i] = p[x]
  BY <1>4, <1>6
<1>9. \A x \in S : \E i \in 1..N : s[i] = p[x]
  BY <1>2, <1>6
<1> QED
  BY <1>5, <1>7, <1>8, <1>9 DEF s

\* A group is the start of its keys up to a character after the prefix.
LEMMA GroupIs ==
  ASSUME NEW q \in Query, NEW k \in KeySpace, RollsUp(k, q)
  PROVE  /\ Group(k, q) \in Text
         /\ StartsWith(k, q.prefix) => StartsWith(Group(k, q), q.prefix)
<1> DEFINE D == DelimitersAfter(k, q)
           m == CHOOSE i \in D : \A j \in D : i <= j
<1>1. /\ k \in Text /\ q.prefix \in Text
      /\ Len(k) \in Nat /\ Len(q.prefix) \in Nat
      /\ \A i \in 1..Len(k) : k[i] \in Nat
  BY KeysAssumption, PrefixesAssumption, LenProperties, ElementOfSeq DEF Text, Query
<1>2. D \in SUBSET Nat /\ D # {} /\ D \subseteq Len(q.prefix) + 1..Len(k)
  BY <1>1 DEF DelimitersAfter, RollsUp
<1>3. m \in Len(q.prefix) + 1..Len(k)
  <2> HIDE DEF D
  <2>1. m \in D
    BY <1>2, LeastOf
  <2> QED
    BY <1>2, <2>1
<1>4. Group(k, q) = SubSeq(k, 1, m)
  BY DEF Group
<1> HIDE DEF D, m
<1>5. \A i \in 1..m : k[i] \in Nat
  BY <1>1, <1>3
<1>6. /\ SubSeq(k, 1, m) \in Seq(Nat) /\ Len(SubSeq(k, 1, m)) = m
      /\ \A i \in 1..m : SubSeq(k, 1, m)[i] = k[i]
  BY <1>1, <1>3, <1>5, SubSeqProperties
<1>7. ASSUME StartsWith(k, q.prefix)
      PROVE  StartsWith(Group(k, q), q.prefix)
  <2>1. \A j \in 1..Len(q.prefix) : k[j] = q.prefix[j]
    BY <1>1, <1>7, StartsWithIs
  <2>2. \A j \in 1..Len(q.prefix) : SubSeq(k, 1, m)[j] = q.prefix[j]
    BY <1>1, <1>3, <1>6, <2>1
  <2>3. Len(q.prefix) <= m
    BY <1>1, <1>3
  <2> QED
    BY <1>1, <1>4, <1>6, <2>2, <2>3, StartsWithIs DEF Text
<1> QED
  BY <1>4, <1>6, <1>7 DEF Text

\* The page shows a row, as a key or in its group.
ShownOn(page, k, q) ==
  IF RollsUp(k, q) THEN \E i \in 1..Len(page.groups) : page.groups[i] = Group(k, q)
                   ELSE \E i \in 1..Len(page.contents) : page.contents[i] = k

\* r is the page made of the first n rows of p.
RolledUp(r, p, q, n) ==
  /\ n \in 0..Len(p) /\ (Len(p) > 0 => n > 0)
  /\ r.truncated = (n < Len(p))
  /\ r.last = IF n = 0 THEN Nothing ELSE p[n]
  /\ r.contents \in Seq(KeySpace) /\ r.groups \in Seq(Seq(Nat))
  /\ InOrder(p) => InOrder(r.contents)
  /\ \A i \in 1..Len(r.contents) : \E x \in 1..n : r.contents[i] = p[x]
  /\ \A i \in 1..Len(r.groups) :
       \E x \in 1..n : RollsUp(p[x], q) /\ r.groups[i] = Group(p[x], q)
  /\ \A x \in 1..n : ShownOn(r, p[x], q)
  /\ q.delimiter = Nothing => n <= Limit(q)

\* A row that rolls up is in a group of the page: the first of its group is an entry.
LEMMA FirstOfGroup ==
  ASSUME NEW q \in Query, NEW p \in Seq(KeySpace), NEW n \in 0..Len(p),
         NEW x \in 1..n, RollsUp(p[x], q)
  PROVE  \E y \in 1..n \cap Rolled(p, q) \cap Entries(p, q) : Group(p[y], q) = Group(p[x], q)
<1> DEFINE Alike == {y \in 1..n : RollsUp(p[y], q) /\ Group(p[y], q) = Group(p[x], q)}
<1>1. Len(p) \in Nat /\ DOMAIN p = 1..Len(p) /\ 1..n \subseteq DOMAIN p
  BY LenProperties
<1>2. Alike \in SUBSET Nat /\ Alike # {}
  OBVIOUS
<1>3. PICK y \in Alike : \A j \in Alike : y <= j
  BY <1>2, LeastOf
<1>4. y \in 1..n /\ RollsUp(p[y], q) /\ Group(p[y], q) = Group(p[x], q)
  BY <1>3
<1>5. y \in Rolled(p, q)
  BY <1>1, <1>4 DEF Rolled
<1>6. y \in Entries(p, q)
  <2> DEFINE earlier == {j \in Rolled(p, q) : j < y}
  <2>1. ASSUME earlier # {}
        PROVE  Group(p[Max(earlier)], q) # Group(p[y], q)
    <3>1. earlier \subseteq 1..y /\ earlier \in SUBSET Nat /\ y \in Nat
      BY <1>1, <1>4 DEF Rolled
    <3>2. \E m \in earlier : \A j \in earlier : m >= j
      <4> DEFINE G == {y - j : j \in earlier}
      <4>1. G \in SUBSET Nat /\ G # {}
        BY <2>1, <3>1
      <4>2. PICK g \in G : \A j \in G : g <= j
        BY <4>1, LeastOf
      <4>3. PICK m \in earlier : g = y - m
        BY <4>2
      <4>4. \A j \in earlier : y - m <= y - j
        BY <4>2, <4>3
      <4> QED
        BY <3>1, <4>3, <4>4
    <3> DEFINE m == Max(earlier)
    <3>3. m \in earlier
      BY <3>2 DEF Max
    <3>4. m < y /\ m \in Rolled(p, q) /\ m \in 1..n /\ RollsUp(p[m], q)
      BY <1>1, <1>4, <3>3 DEF Rolled
    <3>5. m \notin Alike
      BY <1>3, <1>4, <3>4
    <3> QED
      BY <1>4, <3>4, <3>5
  <2> QED
    BY <1>1, <1>4, <2>1 DEF Entries
<1> QED
  BY <1>4, <1>5, <1>6

LEMMA RollUpIs ==
  ASSUME NEW q \in Query, NEW p \in Seq(KeySpace)
  PROVE  \E n \in Nat : RolledUp(RollUp(p, q), p, q, n)
<1> DEFINE n == Cardinality(Consumed(p, q))
           keys == 1..n \ Rolled(p, q)
           firsts == 1..n \cap Rolled(p, q) \cap Entries(p, q)
           rolled == RowsAt(p, firsts)
           r == RollUp(p, q)
<1>1. Len(p) \in Nat /\ DOMAIN p = 1..Len(p) /\ \A i \in 1..Len(p) : p[i] \in KeySpace
  BY LenProperties, ElementOfSeq
<1>2. n \in 0..Len(p) /\ Consumed(p, q) = 1..n /\ (Len(p) > 0 => n > 0)
  BY ConsumedIs
<1>3. /\ r.contents = RowsAt(p, keys)
      /\ r.groups = [i \in DOMAIN rolled |-> Group(rolled[i], q)]
      /\ r.truncated = (n < Len(p))
      /\ r.last = IF n = 0 THEN Nothing ELSE p[n]
  BY DEF RollUp, Resume
<1>4. /\ r.contents \in Seq(KeySpace)
      /\ \A i \in 1..Len(r.contents) : \E x \in keys : r.contents[i] = p[x]
      /\ \A x \in keys : \E i \in 1..Len(r.contents) : r.contents[i] = p[x]
      /\ InOrder(p) => InOrder(r.contents)
  <2>1. keys \in SUBSET (1..n)
    OBVIOUS
  <2> HIDE DEF keys, n, r
  <2> QED
    BY <1>2, <1>3, <2>1, RowsAtIs
<1>5. /\ rolled \in Seq(KeySpace)
      /\ \A i \in 1..Len(rolled) : \E x \in firsts : rolled[i] = p[x]
      /\ \A x \in firsts : \E i \in 1..Len(rolled) : rolled[i] = p[x]
  <2>1. firsts \in SUBSET (1..n)
    OBVIOUS
  <2> HIDE DEF firsts, n
  <2> QED
    BY <1>2, <2>1, RowsAtIs
<1>6. \A x \in 1..n : x \in Rolled(p, q) <=> RollsUp(p[x], q)
  BY <1>1, <1>2 DEF Rolled
<1>7. /\ Len(rolled) \in Nat /\ DOMAIN rolled = 1..Len(rolled)
      /\ \A i \in 1..Len(rolled) : rolled[i] \in KeySpace /\ RollsUp(rolled[i], q)
  BY <1>5, <1>6, LenProperties, ElementOfSeq
<1> HIDE DEF r, rolled
<1>8. /\ r.groups \in Seq(Seq(Nat)) /\ Len(r.groups) = Len(rolled)
      /\ \A i \in 1..Len(rolled) : r.groups[i] = Group(rolled[i], q)
  <2>1. \A i \in 1..Len(rolled) : Group(rolled[i], q) \in Seq(Nat)
    BY <1>7, GroupIs DEF Text
  <2>2. r.groups \in [1..Len(rolled) -> Seq(Nat)]
    BY <1>3, <1>7, <2>1
  <2> QED
    BY <1>3, <1>7, <2>2, FunctionIsSeq
<1>9. ASSUME NEW x \in 1..n
      PROVE  ShownOn(r, p[x], q)
  <2>1. CASE RollsUp(p[x], q)
    <3>1. PICK y \in firsts : Group(p[y], q) = Group(p[x], q)
      BY <1>2, <2>1, FirstOfGroup
    <3>2. PICK i \in 1..Len(rolled) : rolled[i] = p[y]
      BY <1>5, <3>1
    <3> QED
      BY <1>8, <2>1, <3>1, <3>2 DEF ShownOn
  <2>2. CASE ~RollsUp(p[x], q)
    <3>1. x \in keys
      BY <1>6, <2>2
    <3> QED
      BY <1>4, <2>2, <3>1 DEF ShownOn
  <2> QED
    BY <2>1, <2>2
<1>10. ASSUME q.delimiter = Nothing
       PROVE  n <= Limit(q)
  <2> DEFINE m == Limit(q)
  <2>1. m \in Nat
    BY LimitIs
  <2> SUFFICES ASSUME n > m PROVE FALSE
    BY <1>1, <1>2, <2>1
  <2>2. Entries(p, q) = 1..Len(p)
    BY <1>1, <1>10 DEF Entries, Rolled, RollsUp
  <2>3. m + 1 \in Consumed(p, q)
    BY <1>1, <1>2, <2>1
  <2>4. {j \in Entries(p, q) : j < m + 1} = 1..m
    BY <1>1, <1>2, <2>1, <2>2
  <2>5. Cardinality(1..m) = m
    BY <2>1, FS_Interval
  <2>6. Cardinality({j \in Entries(p, q) : j < m + 1}) < m
    BY <2>3 DEF Consumed
  <2>7. Cardinality(1..m) < m
    BY <2>4, <2>6
  <2> QED
    BY <2>1, <2>5, <2>7
<1>11. /\ \A i \in 1..Len(r.contents) : \E x \in 1..n : r.contents[i] = p[x]
       /\ \A i \in 1..Len(r.groups) :
            \E x \in 1..n : RollsUp(p[x], q) /\ r.groups[i] = Group(p[x], q)
  BY <1>4, <1>5, <1>6, <1>8
<1> HIDE DEF n, keys, firsts
<1>12. RolledUp(r, p, q, n)
  BY <1>2, <1>3, <1>4, <1>8, <1>9, <1>10, <1>11 DEF RolledUp
<1> QED
  BY <1>1, <1>2, <1>12 DEF r

----------------------------------------------------------------------------
(* The invariant of a listing.                                             *)

\* Everything the client has been shown starts with what it asked for.
UnderPrefix ==
  state # "fresh" =>
    /\ \A i \in 1..Len(listed) : StartsWith(listed[i], ask.prefix)
    /\ \A i \in 1..Len(groups) : StartsWith(groups[i], ask.prefix)

\* What the client knows: its query, once it has asked; nothing before a page; and only what
\* its scope may list.
Asked ==
  /\ state = "fresh" => ask = Nothing /\ after = Nothing
  /\ state # "fresh" => ask \in Query
  /\ state \in {"fresh", "denied"} => listed = <<>> /\ groups = <<>>
  /\ state \in {"paging", "done"} => MayList(scope, ask.prefix)

\* The next page resumes no earlier than the last key listed.
ResumesAfter ==
  state = "paging" =>
    \A i \in 1..Len(listed) : after # Nothing /\ ~Before(after, listed[i])

LInv ==
  /\ ListingTypeOK /\ Asked /\ UnderPrefix
  /\ ListedInOrder /\ ResumesAfter /\ NothingSkipped /\ FlatListingComplete

LEMMA LInitInv == LInit => LInv
BY PrefixesAssumption, MaxWritesAssumption
   DEF LInit, LInv, ListingTypeOK, Asked, UnderPrefix, ListedInOrder, ResumesAfter, NothingSkipped,
       FlatListingComplete

LEMMA AskKeeps ==
  ASSUME LInv, NEW q \in Query, Ask(q)
  PROVE  LInv'
<1>1. /\ state = "fresh" /\ ask' = q /\ after' = q.start /\ kept' = rows
      /\ state' \in {"paging", "denied"} /\ (state' = "paging" => MayList(scope, q.prefix))
      /\ UNCHANGED <<rows, scope, listed, groups, writes>>
      /\ listed = <<>> /\ groups = <<>> /\ q.start \in KeySpace \cup {Nothing}
  BY DEF Ask, LInv, Asked, Query
<1>2. ListingTypeOK'
  BY <1>1 DEF LInv, ListingTypeOK
<1>3. Asked' /\ UnderPrefix' /\ ListedInOrder' /\ ResumesAfter' /\ FlatListingComplete'
  BY <1>1 DEF Asked, UnderPrefix, ListedInOrder, ResumesAfter, FlatListingComplete
<1>4. NothingSkipped'
  <2> SUFFICES ASSUME after' # Nothing, NEW k \in Wanted', ~Before(after', k) PROVE FALSE
    BY DEF NothingSkipped
  <2>1. InRange(k, q, q.start) /\ q.start # Nothing
    BY <1>1 DEF Wanted
  <2>2. Before(q.start, k)
    BY <2>1 DEF InRange
  <2>3. after' = q.start
    BY <1>1
  <2> QED
    BY <2>2, <2>3
<1> QED
  BY <1>2, <1>3, <1>4 DEF LInv

LEMMA WriteKeeps ==
  ASSUME LInv, NEW k \in KeySpace, NEW there \in BOOLEAN, Write(k, there)
  PROVE  LInv'
<1>1. /\ state = "paging" /\ writes < MaxWrites /\ writes' = writes + 1
      /\ rows' \subseteq rows \cup {k} /\ kept' = kept \cap rows'
      /\ UNCHANGED <<scope, ask, after, state, listed, groups>>
  BY DEF Write
<1>2. ListingTypeOK'
  BY <1>1, MaxWritesAssumption DEF LInv, ListingTypeOK
<1>3. Asked' /\ UnderPrefix' /\ ListedInOrder' /\ ResumesAfter' /\ FlatListingComplete'
  BY <1>1 DEF LInv, Asked, UnderPrefix, ListedInOrder, ResumesAfter, FlatListingComplete
<1>4. Wanted' \subseteq Wanted /\ \A j : Shown(j)' <=> Shown(j)
  BY <1>1 DEF Wanted, Shown
<1>5. NothingSkipped'
  BY <1>1, <1>4 DEF LInv, NothingSkipped
<1> QED
  BY <1>2, <1>3, <1>5 DEF LInv

\* What follows a page: the client has it, and the token if there is one.
LEMMA PageIs ==
  ASSUME LInv, Page
  PROVE  /\ state = "paging" /\ ask \in Query /\ rows \subseteq KeySpace
         /\ UNCHANGED <<rows, scope, ask, kept, writes>>
         /\ \E p, r, n :
              /\ PageOf(p, ask, after) /\ n \in Nat /\ RolledUp(r, p, ask, n)
              /\ listed' = listed \o r.contents /\ groups' = groups \o r.groups
              /\ IF r.truncated THEN after' = r.last /\ state' = "paging"
                                ELSE state' = "done" /\ after' = after
<1>1. /\ state = "paging" /\ ask \in Query /\ rows \subseteq KeySpace
      /\ UNCHANGED <<rows, scope, ask, kept, writes>>
  BY DEF Page, LInv, Asked, ListingTypeOK
<1> DEFINE p == ListPage(ask, after)
           r == RollUp(p, ask)
<1>2. /\ listed' = listed \o r.contents /\ groups' = groups \o r.groups
      /\ IF r.truncated THEN after' = r.last /\ state' = "paging"
                        ELSE state' = "done" /\ after' = after
  BY <1>1 DEF Page
<1>3. PageOf(p, ask, after)
  BY <1>1, PageFound
<1> HIDE DEF p
<1>4. PICK n \in Nat : RolledUp(r, p, ask, n)
  BY <1>1, <1>3, RollUpIs DEF PageOf
<1> QED
  BY <1>1, <1>2, <1>3, <1>4

LEMMA PageKeeps ==
  ASSUME LInv, Page
  PROVE  LInv'
<1>1. /\ state = "paging" /\ ask \in Query /\ rows \subseteq KeySpace
      /\ UNCHANGED <<rows, scope, ask, kept, writes>>
  BY PageIs
<1>2. PICK p, r, n :
        /\ PageOf(p, ask, after) /\ n \in Nat /\ RolledUp(r, p, ask, n)
        /\ listed' = listed \o r.contents /\ groups' = groups \o r.groups
        /\ IF r.truncated THEN after' = r.last /\ state' = "paging"
                          ELSE state' = "done" /\ after' = after
  BY PageIs
<1>3. /\ p \in Seq(KeySpace) /\ Len(p) \in Nat /\ n \in 0..Len(p) /\ (Len(p) > 0 => n > 0)
      /\ \A x \in 1..Len(p) : p[x] \in KeySpace
      /\ \A x \in 1..n : x \in 1..Len(p)
  BY <1>2, LenProperties, ElementOfSeq DEF PageOf, RolledUp
<1>4. /\ after \in KeySpace \cup {Nothing} /\ Nothing \notin KeySpace
      /\ KeySpace \subseteq Text /\ ask.prefix \in Text
      /\ listed \in Seq(KeySpace) /\ groups \in Seq(Seq(Nat))
      /\ kept \subseteq rows
  BY <1>1, NothingAssumption, KeysAssumption, PrefixesAssumption
     DEF LInv, ListingTypeOK, Text, Query
<1>5. ASSUME NEW x \in 1..Len(p)
      PROVE  /\ StartsWith(p[x], ask.prefix)
             /\ after # Nothing => Before(after, p[x])
  <2>1. InRange(p[x], ask, after) /\ p[x] \in Text
    BY <1>2, <1>3, <1>4 DEF PageOf
  <2>2. StartsWith(p[x], ask.prefix)
    <3>1. CASE ask.prefix = <<>>
      <4>1. Len(ask.prefix) = 0 /\ Len(p[x]) \in Nat
        BY <2>1, <3>1, LenProperties DEF Text
      <4> QED
        BY <1>4, <2>1, <4>1, StartsWithIs
    <3>2. CASE ask.prefix # <<>>
      BY <1>4, <2>1, <3>2, RangeStarts DEF InRange
    <3> QED
      BY <3>1, <3>2
  <2> QED
    BY <2>1, <2>2 DEF InRange
<1>6. /\ r.contents \in Seq(KeySpace) /\ InOrder(r.contents)
      /\ \A i \in 1..Len(r.contents) : \E x \in 1..n : r.contents[i] = p[x]
      /\ r.groups \in Seq(Seq(Nat))
      /\ \A i \in 1..Len(r.groups) :
           \E x \in 1..n : RollsUp(p[x], ask) /\ r.groups[i] = Group(p[x], ask)
  BY <1>2 DEF PageOf, RolledUp
<1>7. /\ listed' \in Seq(KeySpace) /\ Len(listed') = Len(listed) + Len(r.contents)
      /\ \A i \in 1..Len(listed) + Len(r.contents) :
           listed'[i] = IF i <= Len(listed) THEN listed[i] ELSE r.contents[i - Len(listed)]
      /\ Len(listed) \in Nat /\ Len(r.contents) \in Nat
  BY <1>2, <1>4, <1>6, ConcatProperties, LenProperties
<1>8. /\ groups' \in Seq(Seq(Nat)) /\ Len(groups') = Len(groups) + Len(r.groups)
      /\ \A i \in 1..Len(groups) + Len(r.groups) :
           groups'[i] = IF i <= Len(groups) THEN groups[i] ELSE r.groups[i - Len(groups)]
      /\ Len(groups) \in Nat /\ Len(r.groups) \in Nat
  BY <1>2, <1>4, <1>6, ConcatProperties, LenProperties
<1>9. ASSUME NEW i \in 1..Len(listed')
      PROVE  \/ i \in 1..Len(listed) /\ listed'[i] = listed[i]
             \/ /\ i - Len(listed) \in 1..Len(r.contents)
                /\ listed'[i] = r.contents[i - Len(listed)]
                /\ ~(i <= Len(listed))
  BY <1>7
<1>10. ASSUME NEW i \in 1..Len(groups')
       PROVE  \/ i \in 1..Len(groups) /\ groups'[i] = groups[i]
              \/ /\ i - Len(groups) \in 1..Len(r.groups)
                 /\ groups'[i] = r.groups[i - Len(groups)]
  BY <1>8
<1>11. \A i \in 1..Len(listed) : listed[i] \in KeySpace
  BY <1>4, ElementOfSeq
\* Whatever was listed comes before every row of this page.
<1>12. ASSUME NEW i \in 1..Len(listed), NEW x \in 1..Len(p)
       PROVE  Before(listed[i], p[x])
  <2>1. after # Nothing /\ ~Before(after, listed[i]) /\ Before(after, p[x])
    BY <1>1, <1>5 DEF LInv, ResumesAfter
  <2>2. listed[i] \in Text /\ after \in Text /\ p[x] \in Text
    BY <1>3, <1>4, <1>11, <2>1
  <2>3. listed[i] = after \/ Before(listed[i], after)
    BY <2>1, <2>2, BeforeTotal
  <2> QED
    BY <2>1, <2>2, <2>3, BeforeChain
\* What was shown stays shown, and so are the rows the page consumed.
<1>13. \A k : Shown(k) => Shown(k)'
  <2>1. \A i \in 1..Len(listed) : i \in 1..Len(listed') /\ listed'[i] = listed[i]
    BY <1>7
  <2>2. \A i \in 1..Len(groups) : i \in 1..Len(groups') /\ groups'[i] = groups[i]
    BY <1>8
  <2> QED
    BY <1>1, <2>1, <2>2 DEF Shown
<1>14. ASSUME NEW x \in 1..n
       PROVE  Shown(p[x])'
  <2>1. ShownOn(r, p[x], ask)
    BY <1>2 DEF RolledUp
  <2>2. ASSUME NEW i \in 1..Len(r.contents)
        PROVE  Len(listed) + i \in 1..Len(listed') /\ listed'[Len(listed) + i] = r.contents[i]
    <3>1. /\ Len(listed) + i \in 1..Len(listed) + Len(r.contents) /\ ~(Len(listed) + i <= Len(listed))
          /\ (Len(listed) + i) - Len(listed) = i
      BY <1>7
    <3> QED
      BY <1>7, <3>1
  <2>3. ASSUME NEW i \in 1..Len(r.groups)
        PROVE  Len(groups) + i \in 1..Len(groups') /\ groups'[Len(groups) + i] = r.groups[i]
    <3>1. /\ Len(groups) + i \in 1..Len(groups) + Len(r.groups) /\ ~(Len(groups) + i <= Len(groups))
          /\ (Len(groups) + i) - Len(groups) = i
      BY <1>8
    <3> QED
      BY <1>8, <3>1
  <2> QED
    BY <1>1, <2>1, <2>2, <2>3 DEF Shown, ShownOn
\* A row that stayed is shown, or is after the rows of this page.
<1>15. ASSUME NEW k \in Wanted
       PROVE  \/ Shown(k)'
              \/ \E x \in 1..Len(p) : p[x] = k /\ ~(x <= n)
              \/ Len(p) = Limit(ask) + 1 /\ \A x \in 1..Len(p) : Before(p[x], k)
  <2>1. k \in rows /\ InRange(k, ask, ask.start)
    BY <1>4 DEF Wanted
  <2>2. CASE after # Nothing /\ ~Before(after, k)
    BY <1>1, <1>13, <2>2 DEF LInv, NothingSkipped
  <2>3. CASE ~(after # Nothing /\ ~Before(after, k))
    <3>1. InRange(k, ask, after)
      BY <2>1, <2>3 DEF InRange
    <3>2. \/ \E x \in 1..Len(p) : p[x] = k
          \/ Len(p) = Limit(ask) + 1 /\ \A x \in 1..Len(p) : Before(p[x], k)
      BY <1>2, <2>1, <3>1 DEF PageOf
    <3> QED
      BY <1>3, <1>14, <3>2
  <2> QED
    BY <2>2, <2>3
<1>16. r.truncated = (n < Len(p)) /\ r.last = (IF n = 0 THEN Nothing ELSE p[n])
  BY <1>2 DEF RolledUp
\* When there is a token it is the page's last row but none.
<1>17. ASSUME state' = "paging"
       PROVE  n \in 1..Len(p) /\ n < Len(p) /\ after' = p[n]
  <2>1. r.truncated
    BY <1>2, <1>17
  <2>2. after' = r.last
    BY <1>2, <2>1
  <2>3. n < Len(p)
    BY <1>16, <2>1
  <2>4. n \in 1..Len(p)
    BY <1>3, <2>3
  <2> QED
    BY <1>16, <2>2, <2>3, <2>4
<1>18. ListingTypeOK'
  <2>1. after' \in KeySpace \cup {Nothing} /\ state' \in {"paging", "done"}
    BY <1>2, <1>3, <1>4, <1>17
  <2> QED
    BY <1>1, <1>7, <1>8, <2>1 DEF LInv, ListingTypeOK
<1>19. Asked'
  BY <1>1, <1>2 DEF LInv, Asked
<1>20. UnderPrefix'
  <2>1. ASSUME NEW i \in 1..Len(listed')
        PROVE  StartsWith(listed'[i], ask.prefix)
    <3>1. CASE i \in 1..Len(listed) /\ listed'[i] = listed[i]
      BY <1>1, <3>1 DEF LInv, UnderPrefix
    <3>2. CASE i - Len(listed) \in 1..Len(r.contents) /\ listed'[i] = r.contents[i - Len(listed)]
      <4>1. PICK x \in 1..n : listed'[i] = p[x]
        BY <1>6, <3>2
      <4> QED
        BY <1>3, <1>5, <4>1
    <3> QED
      BY <1>9, <3>1, <3>2
  <2>2. ASSUME NEW i \in 1..Len(groups')
        PROVE  StartsWith(groups'[i], ask.prefix)
    <3>1. CASE i \in 1..Len(groups) /\ groups'[i] = groups[i]
      BY <1>1, <3>1 DEF LInv, UnderPrefix
    <3>2. CASE i - Len(groups) \in 1..Len(r.groups) /\ groups'[i] = r.groups[i - Len(groups)]
      <4>1. PICK x \in 1..n : RollsUp(p[x], ask) /\ groups'[i] = Group(p[x], ask)
        BY <1>6, <3>2
      <4>2. p[x] \in KeySpace /\ StartsWith(p[x], ask.prefix)
        BY <1>3, <1>5
      <4> QED
        BY <1>1, <4>1, <4>2, GroupIs
    <3> QED
      BY <1>10, <3>1, <3>2
  <2> QED
    BY <1>1, <2>1, <2>2 DEF UnderPrefix
<1>21. ListedInOrder'
  <2> SUFFICES ASSUME NEW i \in 1..Len(listed'), NEW j \in 1..Len(listed'), i < j
               PROVE  Before(listed'[i], listed'[j])
    BY DEF ListedInOrder
  <2>1. CASE j <= Len(listed)
    <3>1. /\ i \in 1..Len(listed) /\ listed'[i] = listed[i]
          /\ j \in 1..Len(listed) /\ listed'[j] = listed[j]
      BY <1>7, <2>1
    <3> QED
      BY <3>1 DEF LInv, ListedInOrder
  <2>2. CASE i <= Len(listed) /\ ~(j <= Len(listed))
    <3>1. i \in 1..Len(listed) /\ listed'[i] = listed[i]
      BY <1>7, <2>2
    <3>2. j - Len(listed) \in 1..Len(r.contents) /\ listed'[j] = r.contents[j - Len(listed)]
      BY <1>7, <2>2
    <3>3. PICK x \in 1..n : listed'[j] = p[x]
      BY <1>6, <3>2
    <3> QED
      BY <1>3, <1>12, <3>1, <3>3
  <2>3. CASE ~(i <= Len(listed))
    <3>1. /\ i - Len(listed) \in 1..Len(r.contents) /\ listed'[i] = r.contents[i - Len(listed)]
          /\ j - Len(listed) \in 1..Len(r.contents) /\ listed'[j] = r.contents[j - Len(listed)]
          /\ i - Len(listed) < j - Len(listed)
      BY <1>7, <2>3
    <3> QED
      BY <1>6, <3>1 DEF InOrder
  <2> QED
    BY <1>7, <2>1, <2>2, <2>3
<1>22. ResumesAfter'
  <2> SUFFICES ASSUME state' = "paging", NEW i \in 1..Len(listed')
               PROVE  after' # Nothing /\ ~Before(after', listed'[i])
    BY DEF ResumesAfter
  <2>1. n \in 1..Len(p) /\ after' = p[n] /\ p[n] \in KeySpace /\ p[n] \in Text
    BY <1>3, <1>4, <1>17
  <2>2. listed'[i] = p[n] \/ Before(listed'[i], p[n])
    <3>1. CASE i \in 1..Len(listed) /\ listed'[i] = listed[i]
      BY <1>12, <2>1, <3>1
    <3>2. CASE i - Len(listed) \in 1..Len(r.contents) /\ listed'[i] = r.contents[i - Len(listed)]
      <4>1. PICK x \in 1..n : listed'[i] = p[x]
        BY <1>6, <3>2
      <4>2. x = n \/ Before(p[x], p[n])
        BY <1>2, <1>3, <2>1 DEF PageOf, InOrder
      <4> QED
        BY <4>1, <4>2
    <3> QED
      BY <1>9, <3>1, <3>2
  <2>3. listed'[i] \in Text
    BY <1>4, <1>7, ElementOfSeq
  <2> QED
    BY <1>4, <2>1, <2>2, <2>3, BeforeNever, BeforeChain
<1>23. Wanted' = Wanted
  BY <1>1 DEF Wanted
<1>24. NothingSkipped'
  <2> SUFFICES ASSUME state' = "paging", NEW k \in Wanted, ~Before(after', k)
               PROVE  Shown(k)'
    BY <1>23 DEF NothingSkipped
  <2>1. n \in 1..Len(p) /\ after' = p[n]
    BY <1>17
  <2>2. \A x \in 1..Len(p) : ~(x <= n) => Before(p[n], p[x])
    BY <1>2, <1>3, <2>1 DEF PageOf, InOrder
  <2> QED
    BY <1>15, <2>1, <2>2
<1>25. FlatListingComplete'
  <2> SUFFICES ASSUME state' = "done", ask.delimiter = Nothing, NEW k \in Wanted
               PROVE  Shown(k)'
    BY <1>1, <1>23 DEF FlatListingComplete
  <2>1. ~(n < Len(p))
    BY <1>2, <1>16
  <2>2. n <= Limit(ask) /\ Limit(ask) \in Nat
    BY <1>1, <1>2, LimitIs DEF RolledUp
  <2> QED
    BY <1>3, <1>15, <2>1, <2>2
<1> QED
  BY <1>18, <1>19, <1>20, <1>21, <1>22, <1>24, <1>25 DEF LInv

LEMMA LInvKept ==
  ASSUME LInv, [LNext]_lvars
  PROVE  LInv'
<1>1. CASE UNCHANGED lvars
  BY <1>1 DEF lvars, LInv, ListingTypeOK, Asked, UnderPrefix, ListedInOrder, ResumesAfter,
     NothingSkipped, FlatListingComplete, Wanted, Shown
<1>2. CASE LNext
  <2>1. ASSUME NEW k \in KeySpace, Write(k, TRUE) \/ Write(k, FALSE)
        PROVE  LInv'
    BY <2>1, WriteKeeps
  <2> QED
    BY <1>1, <1>2, <2>1, AskKeeps, PageKeeps DEF LNext, Finished
<1> QED
  BY <1>1, <1>2

\* A scope that lets a prefix be listed authorises whatever begins with it, unless the prefix
\* is one of its own and does not end its segment.
LEMMA ScopeReaches ==
  ASSUME NEW ps \in SUBSET Text, NEW prefix \in Text, NEW s \in Text,
         MayList(ps, prefix), ps # {}, StartsWith(s, prefix),
         prefix \in ps => EndsInSlash(prefix)
  PROVE  ScopeAllows(ps, s)
<1>1. PICK p \in ps : PrefixAllows(p, prefix)
  BY DEF MayList
<1>2. /\ Len(p) \in Nat /\ Len(prefix) \in Nat /\ Len(s) \in Nat
      /\ Len(p) <= Len(prefix) /\ \A j \in 1..Len(p) : prefix[j] = p[j]
      /\ Len(prefix) <= Len(s) /\ \A j \in 1..Len(prefix) : s[j] = prefix[j]
  BY <1>1, StartsWithIs, LenProperties DEF PrefixAllows, Text
<1>3. StartsWith(s, p)
  <2>1. Len(p) <= Len(s) /\ \A j \in 1..Len(p) : s[j] = p[j]
    BY <1>2
  <2> QED
    BY <2>1, StartsWithIs
<1>4. CASE Len(prefix) = Len(p)
  <2>1. p = prefix
    BY <1>2, <1>4, SeqEqual DEF Text
  <2>2. PrefixAllows(p, s)
    BY <1>3, <2>1 DEF PrefixAllows
  <2> QED
    BY <2>2 DEF ScopeAllows
<1>5. CASE Len(prefix) # Len(p)
  <2>1. s[Len(p) + 1] = prefix[Len(p) + 1]
    BY <1>2, <1>5
  <2>2. PrefixAllows(p, s)
    BY <1>1, <1>3, <1>5, <2>1 DEF PrefixAllows
  <2> QED
    BY <2>2 DEF ScopeAllows
<1> QED
  BY <1>4, <1>5

\* The rows, the query, the position and what has been listed keep their types, for any
\* bucket, any query and whatever is written.
THEOREM ListingTyped == ListingSpec => []ListingTypeOK
<1>1. LInit => LInv
  BY LInitInv
<1>2. LInv /\ [LNext]_lvars => LInv'
  BY LInvKept
<1>3. LInv => ListingTypeOK
  BY DEF LInv
<1> QED
  BY <1>1, <1>2, <1>3, PTL DEF ListingSpec

\* No key is listed twice, and the keys come in order over all pages, whatever is put and
\* deleted between them.
THEOREM ListingOrdered == ListingSpec => []ListedInOrder
<1>1. LInit => LInv
  BY LInitInv
<1>2. LInv /\ [LNext]_lvars => LInv'
  BY LInvKept
<1>3. LInv => ListedInOrder
  BY DEF LInv
<1> QED
  BY <1>1, <1>2, <1>3, PTL DEF ListingSpec

\* A token never points past a key that stayed and has not been shown, alone or in its group.
THEOREM ListingSkipsNothing == ListingSpec => []NothingSkipped
<1>1. LInit => LInv
  BY LInitInv
<1>2. LInv /\ [LNext]_lvars => LInv'
  BY LInvKept
<1>3. LInv => NothingSkipped
  BY DEF LInv
<1> QED
  BY <1>1, <1>2, <1>3, PTL DEF ListingSpec

\* A listing without a delimiter is complete when it says so: the lookahead row decides it.
THEOREM FlatListingsComplete == ListingSpec => []FlatListingComplete
<1>1. LInit => LInv
  BY LInitInv
<1>2. LInv /\ [LNext]_lvars => LInv'
  BY LInvKept
<1>3. LInv => FlatListingComplete
  BY DEF LInv
<1> QED
  BY <1>1, <1>2, <1>3, PTL DEF ListingSpec

\* What a confined access key is shown is authorised by its scope, key by key and group by
\* group, whatever it asks for but a prefix of its scope that does not end in a slash: for
\* every other query, may_list's one check of the prefix is as good as one of every row.
THEOREM ListingsStayInScope == ListingSpec => []ListedWithinScope
<1>1. LInit => LInv
  BY LInitInv
<1>2. LInv /\ [LNext]_lvars => LInv'
  BY LInvKept
<1>3. LInv => ListedWithinScope
  <2> SUFFICES ASSUME LInv, state # "fresh", scope # {}, ask.prefix \in scope => EndsInSlash(ask.prefix)
               PROVE  /\ \A i \in 1..Len(listed) : ScopeAllows(scope, listed[i])
                      /\ \A i \in 1..Len(groups) : ScopeAllows(scope, groups[i])
    BY DEF ListedWithinScope, AsksMidSegment
  <2>1. CASE state = "denied"
    BY <2>1 DEF LInv, Asked
  <2>2. CASE state \in {"paging", "done"}
    <3>1. /\ MayList(scope, ask.prefix) /\ scope \in SUBSET Text /\ ask.prefix \in Text
          /\ \A i \in 1..Len(listed) : listed[i] \in Text /\ StartsWith(listed[i], ask.prefix)
          /\ \A i \in 1..Len(groups) : groups[i] \in Text /\ StartsWith(groups[i], ask.prefix)
      <4>1. ask \in Query /\ MayList(scope, ask.prefix)
        BY <2>2 DEF LInv, Asked
      <4>2. scope \in SUBSET Text /\ ask.prefix \in Text
        BY <4>1, PrefixesAssumption DEF LInv, ListingTypeOK, Query, Text
      <4>3. /\ \A i \in 1..Len(listed) : listed[i] \in KeySpace
            /\ \A i \in 1..Len(groups) : groups[i] \in Text
        BY ElementOfSeq DEF LInv, ListingTypeOK, Text
      <4>4. \A k \in KeySpace : k \in Text
        BY KeysAssumption DEF Text
      <4> QED
        BY <4>1, <4>2, <4>3, <4>4 DEF LInv, UnderPrefix
    <3> QED
      BY <3>1, ScopeReaches
  <2> QED
    BY <2>1, <2>2 DEF LInv, ListingTypeOK
<1> QED
  BY <1>1, <1>2, <1>3, PTL DEF ListingSpec

=============================================================================
