------------------------ MODULE FeatureAgentsProofs ------------------------
(***************************************************************************)
(* Theorems about FeatureAgents, for all agents, amounts, terms, records   *)
(* and bounds.                                                             *)
(***************************************************************************)
EXTENDS FeatureAgents, FiniteSetTheorems, SequenceTheorems,
        WellFoundedInduction, TLAPS

-----------------------------------------------------------------------------
(***************************************************************************)
(* Total is a fold over the positions of a sequence: it takes one position *)
(* of a set, adds what is there, and goes on with the others.              *)
(***************************************************************************)

\* A set of numbers with 0 and, with each number, the next one has them all.
\* Otherwise the intervals 1 .. k that end outside of it have a smallest one.
LEMMA AllNat ==
  ASSUME NEW T, 0 \in T, \A n \in Nat : n \in T => n + 1 \in T
  PROVE  \A n \in Nat : n \in T
<1> SUFFICES ASSUME NEW m \in Nat, m \notin T PROVE FALSE
  OBVIOUS
<1> DEFINE F == {1 .. k : k \in {j \in 0 .. m : j \notin T}}
<1>1. F \subseteq FiniteSubsetsOf(1 .. m)
  <2> SUFFICES ASSUME NEW k \in 0 .. m PROVE 1 .. k \in FiniteSubsetsOf(1 .. m)
    OBVIOUS
  <2>1. IsFiniteSet(1 .. k)
    BY FS_Interval
  <2> QED
    BY <2>1 DEF FiniteSubsetsOf
<1>2. F # {}
  OBVIOUS
<1>3. IsWellFoundedOn(StrictSubsetOrdering(1 .. m), FiniteSubsetsOf(1 .. m))
  BY FS_StrictSubsetOrderingWellFounded
<1>4. PICK U \in F : \A V \in F : <<V, U>> \notin StrictSubsetOrdering(1 .. m)
  <2> HIDE DEF F
  <2> QED
    BY <1>1, <1>2, <1>3, WFMin
<1>5. PICK k \in 0 .. m : k \notin T /\ U = 1 .. k
  BY <1>4
<1>6. k # 0 /\ k - 1 \in 0 .. m /\ k - 1 \notin T
  BY <1>5
<1>7. 1 .. k - 1 \in F
  BY <1>6
<1>8. 1 .. k - 1 \subseteq 1 .. k /\ k \in 1 .. k /\ k \notin 1 .. k - 1
  BY <1>6
<1>9. <<1 .. k - 1, U>> \in StrictSubsetOrdering(1 .. m)
  <2>1. 1 .. k - 1 \in SUBSET (1 .. m) /\ U \in SUBSET (1 .. m)
    BY <1>5
  <2>2. 1 .. k - 1 \subseteq U /\ 1 .. k - 1 # U
    BY <1>5, <1>8
  <2> HIDE DEF F
  <2> QED
    BY <2>1, <2>2 DEF StrictSubsetOrdering
<1> QED
  BY <1>4, <1>7, <1>9

\* The position that is taken first.
One(t) == CHOOSE i \in t : TRUE

\* g[t] is the total of f on each set t of positions.
IsSum(g, f) ==
  g = [t \in SUBSET DOMAIN f |->
         IF t = {} THEN 0 ELSE f[One(t)] + g[t \ {One(t)}]]

Sum(f) == CHOOSE g : IsSum(g, f)

LEMMA TotalIsSum == ASSUME NEW f PROVE Total(f) = Sum(f)[DOMAIN f]
BY DEF Total, SumFunction, SumFunctionOnSet, FoldFunctionOnSet, MapThenFoldSet,
       Sum, IsSum, One

\* Taking a position leaves a set with one fewer.
LEMMA Taken ==
  ASSUME NEW n \in Nat, NEW t, IsFiniteSet(t), Cardinality(t) <= n + 1,
         NEW i \in t
  PROVE  IsFiniteSet(t \ {i}) /\ Cardinality(t \ {i}) <= n
<1>1. /\ IsFiniteSet(t \ {i})
      /\ Cardinality(t \ {i}) = Cardinality(t) - 1
  BY FS_RemoveElement
<1>2. Cardinality(t) \in Nat
  BY FS_CardinalityType
<1> QED
  BY <1>1, <1>2

LEMMA OneIn == ASSUME NEW t, t # {} PROVE One(t) \in t
BY DEF One

\* The sets with up to n of the positions.
Small(S, n) == {t \in SUBSET S : IsFiniteSet(t) /\ Cardinality(t) <= n}

LEMMA SmallFacts ==
  ASSUME NEW S, IsFiniteSet(S)
  PROVE  /\ Small(S, 0) = {{}}
         /\ \A n \in Nat : \A t \in Small(S, n + 1) :
              \A i \in t : t \ {i} \in Small(S, n)
         /\ \A n \in Nat : Small(S, n) \subseteq Small(S, n + 1)
         /\ \E n \in Nat : SUBSET S = Small(S, n)
<1>1. Small(S, 0) = {{}}
  <2>1. ASSUME NEW t \in Small(S, 0) PROVE t = {}
    <3>1. IsFiniteSet(t) /\ Cardinality(t) <= 0 /\ Cardinality(t) \in Nat
      BY FS_CardinalityType DEF Small
    <3> QED
      BY <3>1, FS_EmptySet
  <2>2. {} \in Small(S, 0)
    BY FS_EmptySet DEF Small
  <2> QED
    BY <2>1, <2>2
<1>2. ASSUME NEW n \in Nat, NEW t \in Small(S, n + 1), NEW i \in t
      PROVE  t \ {i} \in Small(S, n)
  BY Taken DEF Small
<1>3. ASSUME NEW n \in Nat, NEW t \in Small(S, n) PROVE t \in Small(S, n + 1)
  <2>1. Cardinality(t) \in Nat
    BY FS_CardinalityType DEF Small
  <2> QED
    BY <2>1 DEF Small
<1>4. Cardinality(S) \in Nat /\ SUBSET S = Small(S, Cardinality(S))
  <2>1. Cardinality(S) \in Nat
    BY FS_CardinalityType
  <2>2. ASSUME NEW t \in SUBSET S PROVE t \in Small(S, Cardinality(S))
    BY FS_Subset DEF Small
  <2> QED
    BY <2>1, <2>2 DEF Small
<1> QED
  BY <1>1, <1>2, <1>3, <1>4

\* The same, of sets with up to n positions.
IsSumUpTo(g, f, n) ==
  g = [t \in Small(DOMAIN f, n) |->
         IF t = {} THEN 0 ELSE f[One(t)] + g[t \ {One(t)}]]

\* There is such a function: it is extended by one position at a time.
LEMMA SumExists ==
  ASSUME NEW f, IsFiniteSet(DOMAIN f)
  PROVE  IsSum(Sum(f), f)
<1> DEFINE S == DOMAIN f
           T == {n \in Nat : \E g : IsSumUpTo(g, f, n)}
<1>0. /\ Small(S, 0) = {{}}
      /\ \A n \in Nat : \A t \in Small(S, n + 1) : \A i \in t : t \ {i} \in Small(S, n)
      /\ \A n \in Nat : Small(S, n) \subseteq Small(S, n + 1)
      /\ \E n \in Nat : SUBSET S = Small(S, n)
  BY SmallFacts
<1>1. 0 \in T
  <2> DEFINE g == [t \in Small(S, 0) |-> 0]
  <2>1. IsSumUpTo(g, f, 0)
    BY <1>0 DEF IsSumUpTo
  <2> QED
    BY <2>1
<1>2. ASSUME NEW n \in Nat, n \in T PROVE n + 1 \in T
  <2>1. PICK g : IsSumUpTo(g, f, n)
    BY <1>2
  <2> DEFINE h == [t \in Small(S, n + 1) |->
                     IF t = {} THEN 0 ELSE f[One(t)] + g[t \ {One(t)}]]
  <2>2. \A t \in Small(S, n) : h[t] = g[t]
    BY <1>0, <2>1 DEF IsSumUpTo
  <2>3. ASSUME NEW t \in Small(S, n + 1), t # {}
        PROVE  h[t \ {One(t)}] = g[t \ {One(t)}]
    BY <1>0, <2>2, <2>3, OneIn
  <2>4. IsSumUpTo(h, f, n + 1)
    BY <2>3 DEF IsSumUpTo
  <2> QED
    BY <2>4
<1>3. PICK n \in Nat : SUBSET S = Small(S, n)
  BY <1>0
<1>4. n \in T
  <2> HIDE DEF T
  <2> QED
    BY <1>1, <1>2, AllNat
<1>5. PICK g : IsSum(g, f)
  BY <1>3, <1>4 DEF IsSumUpTo, IsSum
<1> QED
  BY <1>5 DEF Sum

LEMMA SumStep ==
  ASSUME NEW f, IsFiniteSet(DOMAIN f)
  PROVE  /\ Sum(f)[{}] = 0
         /\ \A t \in SUBSET DOMAIN f :
              t # {} => /\ One(t) \in t
                        /\ Sum(f)[t] = f[One(t)] + Sum(f)[t \ {One(t)}]
<1>1. IsSum(Sum(f), f)
  BY SumExists
<1> DEFINE g == Sum(f)
<1> HIDE DEF g
<1>2. g = [t \in SUBSET DOMAIN f |->
             IF t = {} THEN 0 ELSE f[One(t)] + g[t \ {One(t)}]]
  BY <1>1 DEF IsSum, g
<1>3. g[{}] = 0
  BY <1>2
<1>4. ASSUME NEW t \in SUBSET DOMAIN f, t # {}
      PROVE  g[t] = f[One(t)] + g[t \ {One(t)}]
  BY <1>2, <1>4
<1> QED
  BY <1>3, <1>4, OneIn DEF g

\* The total of naturals is a natural, and of integers an integer.
LEMMA SumClosed ==
  ASSUME NEW f, IsFiniteSet(DOMAIN f), NEW N, N = Nat \/ N = Int,
         \A i \in DOMAIN f : f[i] \in N
  PROVE  \A t \in SUBSET DOMAIN f : Sum(f)[t] \in N
<1> DEFINE S == DOMAIN f
           T == {n \in Nat : \A t \in Small(S, n) : Sum(f)[t] \in N}
<1>0. /\ Small(S, 0) = {{}}
      /\ \A n \in Nat : \A t \in Small(S, n + 1) : \A i \in t : t \ {i} \in Small(S, n)
      /\ \E n \in Nat : SUBSET S = Small(S, n)
  BY SmallFacts
<1>1. 0 \in T
  <2>1. Sum(f)[{}] = 0
    BY SumStep
  <2>2. ASSUME NEW t \in Small(S, 0) PROVE Sum(f)[t] \in N
    <3>1. t = {}
      BY <1>0
    <3> QED
      BY <2>1, <3>1
  <2> QED
    BY <2>2
<1>2. ASSUME NEW n \in Nat, n \in T PROVE n + 1 \in T
  <2>1. ASSUME NEW t \in Small(S, n + 1) PROVE Sum(f)[t] \in N
    <3>1. CASE t = {}
      BY <3>1, SumStep
    <3>2. CASE t # {}
      <4>1. /\ One(t) \in t /\ t \in SUBSET S
            /\ Sum(f)[t] = f[One(t)] + Sum(f)[t \ {One(t)}]
        BY <3>2, SumStep DEF Small
      <4>2. f[One(t)] \in N /\ Sum(f)[t \ {One(t)}] \in N
        BY <1>0, <1>2, <4>1
      <4> QED
        BY <4>1, <4>2
    <3> QED
      BY <3>1, <3>2
  <2> QED
    BY <2>1
<1>3. PICK n \in Nat : SUBSET S = Small(S, n)
  BY <1>0
<1>4. n \in T
  <2> HIDE DEF T
  <2> QED
    BY <1>1, <1>2, AllNat
<1> QED
  BY <1>3, <1>4

LEMMA SumType ==
  ASSUME NEW f, IsFiniteSet(DOMAIN f), \A i \in DOMAIN f : f[i] \in Nat
  PROVE  \A t \in SUBSET DOMAIN f : Sum(f)[t] \in Nat
BY SumClosed

LEMMA SumInteger ==
  ASSUME NEW f, IsFiniteSet(DOMAIN f), \A i \in DOMAIN f : f[i] \in Int
  PROVE  \A t \in SUBSET DOMAIN f : Sum(f)[t] \in Int
BY SumClosed

\* Any position may be taken first.
LEMMA SumTake ==
  ASSUME NEW f, IsFiniteSet(DOMAIN f), \A i \in DOMAIN f : f[i] \in Int
  PROVE  \A t \in SUBSET DOMAIN f : \A i \in t :
           Sum(f)[t] = f[i] + Sum(f)[t \ {i}]
<1> DEFINE S == DOMAIN f
           P(t) == \A i \in t : Sum(f)[t] = f[i] + Sum(f)[t \ {i}]
           T == {n \in Nat : \A t \in Small(S, n) : P(t)}
<1>0. /\ Small(S, 0) = {{}}
      /\ \A n \in Nat : \A t \in Small(S, n + 1) : \A i \in t : t \ {i} \in Small(S, n)
      /\ \E n \in Nat : SUBSET S = Small(S, n)
  BY SmallFacts
<1>1. 0 \in T
  BY <1>0
<1>2. ASSUME NEW n \in Nat, n \in T PROVE n + 1 \in T
  <2>1. ASSUME NEW t \in Small(S, n + 1), NEW i \in t
        PROVE  Sum(f)[t] = f[i] + Sum(f)[t \ {i}]
    <3> DEFINE j == One(t)
               u == t \ {i, j}
    <3>1. /\ j \in t /\ t \in SUBSET S
          /\ Sum(f)[t] = f[j] + Sum(f)[t \ {j}]
      BY SumStep DEF Small
    <3>2. CASE i = j
      BY <3>1, <3>2
    <3>3. CASE i # j
      <4> HIDE DEF j
      <4>1. t \ {j} \in Small(S, n) /\ t \ {i} \in Small(S, n)
        BY <1>0, <3>1
      <4>2. (t \ {j}) \ {i} = u /\ (t \ {i}) \ {j} = u /\ u \in SUBSET S
        BY <3>1
      <4>3. Sum(f)[t \ {j}] = f[i] + Sum(f)[u]
        BY <1>2, <3>3, <4>1, <4>2
      <4>4. Sum(f)[t \ {i}] = f[j] + Sum(f)[u]
        BY <1>2, <3>1, <3>3, <4>1, <4>2
      <4>5. f[i] \in Int /\ f[j] \in Int /\ Sum(f)[u] \in Int
        BY <3>1, <4>2, SumInteger
      <4> QED
        BY <3>1, <4>3, <4>4, <4>5
    <3> QED
      BY <3>2, <3>3
  <2> QED
    BY <2>1
<1>3. PICK n \in Nat : SUBSET S = Small(S, n)
  BY <1>0
<1>4. n \in T
  <2> HIDE DEF T
  <2> QED
    BY <1>1, <1>2, AllNat
<1> QED
  BY <1>3, <1>4

\* The total on a set depends on the values in it only.
LEMMA SumSame ==
  ASSUME NEW f, IsFiniteSet(DOMAIN f), NEW g, IsFiniteSet(DOMAIN g),
         NEW S, S \subseteq DOMAIN f, S \subseteq DOMAIN g,
         \A i \in S : f[i] = g[i]
  PROVE  Sum(f)[S] = Sum(g)[S]
<1> DEFINE T == {n \in Nat : \A t \in Small(S, n) : Sum(f)[t] = Sum(g)[t]}
<1>0. /\ Small(S, 0) = {{}}
      /\ \A n \in Nat : \A t \in Small(S, n + 1) : \A i \in t : t \ {i} \in Small(S, n)
      /\ \E n \in Nat : SUBSET S = Small(S, n)
  BY SmallFacts, FS_Subset
<1>1. 0 \in T
  BY <1>0, SumStep
<1>2. ASSUME NEW n \in Nat, n \in T PROVE n + 1 \in T
  <2>1. ASSUME NEW t \in Small(S, n + 1) PROVE Sum(f)[t] = Sum(g)[t]
    <3>1. CASE t = {}
      BY <3>1, SumStep
    <3>2. CASE t # {}
      <4>0. t \in SUBSET S
        BY DEF Small
      <4>1. /\ One(t) \in t
            /\ Sum(f)[t] = f[One(t)] + Sum(f)[t \ {One(t)}]
            /\ Sum(g)[t] = g[One(t)] + Sum(g)[t \ {One(t)}]
        BY <3>2, <4>0, SumStep
      <4>2. Sum(f)[t \ {One(t)}] = Sum(g)[t \ {One(t)}]
        BY <1>0, <1>2, <4>1
      <4> QED
        BY <4>0, <4>1, <4>2
    <3> QED
      BY <3>1, <3>2
  <2> QED
    BY <2>1
<1>3. PICK n \in Nat : SUBSET S = Small(S, n)
  BY <1>0
<1>4. n \in T
  <2> HIDE DEF T
  <2> QED
    BY <1>1, <1>2, AllNat
<1>5. S \in Small(S, n)
  BY <1>3
<1> QED
  BY <1>4, <1>5

\* The total of a sequence of numbers, and of one that is longer by one.
LEMMA Totals ==
  /\ Total(<<>>) = 0
  /\ \A s \in Seq(Int) : Total(s) \in Int
  /\ \A s \in Seq(Int), x \in Int : Total(Append(s, x)) = Total(s) + x
<1>1. ASSUME NEW s \in Seq(Int)
      PROVE  IsFiniteSet(DOMAIN s) /\ \A i \in DOMAIN s : s[i] \in Int
  <2>1. DOMAIN s = 1 .. Len(s) /\ Len(s) \in Nat
    OBVIOUS
  <2>2. IsFiniteSet(DOMAIN s)
    BY <2>1, FS_Interval
  <2>3. \A i \in DOMAIN s : s[i] \in Int
    BY <2>1, ElementOfSeq
  <2> QED
    BY <2>2, <2>3
<1>2. Total(<<>>) = 0
  <2>1. DOMAIN <<>> = {}
    OBVIOUS
  <2>2. IsFiniteSet(DOMAIN <<>>)
    BY <2>1, FS_EmptySet
  <2> QED
    BY <2>1, <2>2, SumStep, TotalIsSum
<1>3. ASSUME NEW s \in Seq(Int) PROVE Total(s) \in Int
  BY <1>1, SumInteger, TotalIsSum
<1>4. ASSUME NEW s \in Seq(Int), NEW x \in Int
      PROVE  Total(Append(s, x)) = Total(s) + x
  <2> DEFINE r == Append(s, x)
             m == Len(s) + 1
  <2>1. /\ r \in Seq(Int) /\ r[m] = x /\ m \in DOMAIN r
        /\ DOMAIN r \ {m} = DOMAIN s /\ DOMAIN s \subseteq DOMAIN r
        /\ \A i \in DOMAIN s : r[i] = s[i]
    <3>1. /\ Len(s) \in Nat /\ DOMAIN s = 1 .. Len(s)
          /\ r \in Seq(Int) /\ DOMAIN r = 1 .. m /\ r[m] = x
      OBVIOUS
    <3>2. \A i \in DOMAIN s : r[i] = s[i]
      OBVIOUS
    <3> HIDE DEF r
    <3> QED
      BY <3>1, <3>2
  <2> HIDE DEF r, m
  <2>a. IsFiniteSet(DOMAIN r) /\ \A i \in DOMAIN r : r[i] \in Int
    BY <1>1, <2>1
  <2>2. Sum(r)[DOMAIN r] = x + Sum(r)[DOMAIN s]
    <3>1. \A t \in SUBSET DOMAIN r : \A i \in t :
             Sum(r)[t] = r[i] + Sum(r)[t \ {i}]
      BY <2>a, SumTake
    <3> QED
      BY <2>1, <3>1
  <2>3. Sum(r)[DOMAIN s] = Sum(s)[DOMAIN s]
    BY <1>1, <2>1, SumSame
  <2>4. Total(r) = x + Total(s)
    BY <2>2, <2>3, TotalIsSum
  <2> QED
    BY <1>3, <2>4 DEF r
<1> QED
  BY <1>2, <1>3, <1>4

\* The total of two sequences, one after the other: b is added from its front,
\* a number at a time.
LEMMA TotalConcat ==
  ASSUME NEW a \in Seq(Int), NEW b \in Seq(Int)
  PROVE  Total(a \o b) = Total(a) + Total(b)
<1> DEFINE Upto(n) == SubSeq(b, 1, n)
           T == {n \in Nat : n <= Len(b)
                   => Total(a \o Upto(n)) = Total(a) + Total(Upto(n))}
<1>0. Len(b) \in Nat /\ Upto(Len(b)) = b /\ Upto(0) = <<>>
  OBVIOUS
<1>1. 0 \in T
  <2>1. a \o Upto(0) = a
    BY <1>0
  <2>2. Total(Upto(0)) = 0 /\ Total(a) \in Int
    BY <1>0, Totals
  <2> DEFINE c == a \o Upto(0)
  <2> HIDE DEF Upto, c
  <2>3. Total(c) = Total(a)
    BY <2>1, Zenon DEF c
  <2>4. Total(a) = Total(a) + Total(Upto(0))
    BY <2>2
  <2>5. Total(c) = Total(a) + Total(Upto(0))
    BY <2>3, <2>4, Zenon
  <2> QED
    BY <2>5 DEF c
<1>2. ASSUME NEW n \in Nat, n \in T PROVE n + 1 \in T
  <2> SUFFICES ASSUME n + 1 <= Len(b)
               PROVE  Total(a \o Upto(n + 1)) = Total(a) + Total(Upto(n + 1))
    OBVIOUS
  <2> DEFINE p == Upto(n)
             x == b[n + 1]
  <2>1. n <= Len(b) /\ n + 1 \in 1 .. Len(b)
    BY <1>0
  <2>2. p \in Seq(Int) /\ x \in Int
    BY <2>1, ElementOfSeq
  <2>3. Upto(n + 1) = Append(p, x)
    BY <2>1
  <2>4. Total(a \o p) = Total(a) + Total(p)
    BY <1>2, <2>1
  <2> DEFINE q == Append(p, x)
             c == a \o p
  <2> HIDE DEF p, x, Upto
  <2>5. a \o q = Append(c, x) /\ c \in Seq(Int)
    BY <2>2
  <2>6. Total(Append(c, x)) = Total(c) + x
    BY <2>2, <2>5, Totals
  <2>7. Total(q) = Total(p) + x
    BY <2>2, Totals
  <2>8. Total(a) \in Int /\ Total(p) \in Int
    BY <2>2, Totals
  <2>9. Total(a \o q) = Total(c) + x
    BY <2>5, <2>6
  <2> HIDE DEF q
  <2>10. Total(a \o q) = Total(a) + Total(q)
    BY <2>2, <2>4, <2>7, <2>8, <2>9
  <2> QED
    BY <2>3, <2>10 DEF q
<1>3. Len(b) \in T
  <2> HIDE DEF T
  <2> QED
    BY <1>0, <1>1, <1>2, AllNat
<1> HIDE DEF Upto
<1> QED
  BY <1>0, <1>3

\* g[i] is the first i sequences of t, one after the other.
IsFlat(g, t, n) ==
  g = [i \in 1 .. n |-> IF i = 1 THEN t[i] ELSE g[i - 1] \o t[i]]

LEMMA FlatExists ==
  ASSUME NEW t, NEW n \in Nat
  PROVE  \E g : IsFlat(g, t, n)
<1> DEFINE T == {m \in Nat : \E g : IsFlat(g, t, m)}
<1>1. 0 \in T
  <2> DEFINE g == [i \in 1 .. 0 |-> t[i]]
  <2>1. IsFlat(g, t, 0)
    BY DEF IsFlat
  <2> QED
    BY <2>1
<1>2. ASSUME NEW m \in Nat, m \in T PROVE m + 1 \in T
  <2>1. PICK g : IsFlat(g, t, m)
    BY <1>2
  <2> DEFINE h == [i \in 1 .. m + 1 |-> IF i = 1 THEN t[i] ELSE g[i - 1] \o t[i]]
  <2>2. ASSUME NEW i \in 1 .. m PROVE h[i] = g[i]
    <3>1. g[i] = IF i = 1 THEN t[i] ELSE g[i - 1] \o t[i]
      BY <2>1 DEF IsFlat
    <3>2. i \in 1 .. m + 1
      OBVIOUS
    <3> QED
      BY <3>1, <3>2
  <2>3. ASSUME NEW i \in 1 .. m + 1, i # 1 PROVE h[i - 1] = g[i - 1]
    <3>1. i - 1 \in 1 .. m
      BY <2>3
    <3> HIDE DEF h
    <3> QED
      BY <2>2, <3>1
  <2>4. IsFlat(h, t, m + 1)
    BY <2>3 DEF IsFlat
  <2> QED
    BY <2>4
<1> HIDE DEF T
<1>3. n \in T
  BY <1>1, <1>2, AllNat
<1> QED
  BY <1>3 DEF T

\* What it is on the first sequences depends on those only.
Agree(f, g, n) == \A i \in 1 .. n : f[i] = g[i]

LEMMA FlatSame ==
  ASSUME NEW t, NEW r, NEW n \in Nat, NEW m \in Nat, n <= m,
         Agree(t, r, n), NEW g, IsFlat(g, t, n), NEW h, IsFlat(h, r, m)
  PROVE  Agree(g, h, n)
<1> DEFINE T == {i \in Nat : i \in 1 .. n => g[i] = h[i]}
<1>1. 0 \in T
  OBVIOUS
<1>2. ASSUME NEW i \in Nat, i \in T PROVE i + 1 \in T
  <2> SUFFICES ASSUME i + 1 \in 1 .. n PROVE g[i + 1] = h[i + 1]
    OBVIOUS
  <2> DEFINE j == i + 1
  <2>1. j \in 1 .. n /\ j \in 1 .. m /\ t[j] = r[j] /\ j - 1 = i
    BY DEF Agree
  <2> HIDE DEF j
  <2>2. /\ g[j] = IF j = 1 THEN t[j] ELSE g[j - 1] \o t[j]
        /\ h[j] = IF j = 1 THEN r[j] ELSE h[j - 1] \o r[j]
    BY <2>1 DEF IsFlat
  <2>3. j # 1 => g[i] = h[i]
    BY <1>2, <2>1
  <2> QED
    BY <2>1, <2>2, <2>3 DEF j
<1> HIDE DEF T
<1>3. \A i \in Nat : i \in T
  BY <1>1, <1>2, AllNat
<1> QED
  BY <1>3 DEF T, Agree

\* Flattening, of no sequence and of one more.
LEMMA Flattened ==
  /\ FlattenSeq(<<>>) = <<>>
  /\ \A t \in Seq(Seq(Int)), x \in Seq(Int) :
       FlattenSeq(t) \in Seq(Int)
         => FlattenSeq(Append(t, x)) = FlattenSeq(t) \o x
<1> DEFINE Flat(t) == CHOOSE g : IsFlat(g, t, Len(t))
<1>1. FlattenSeq(<<>>) = <<>>
  BY DEF FlattenSeq
<1>2. ASSUME NEW t \in Seq(Seq(Int)), Len(t) # 0
      PROVE  IsFlat(Flat(t), t, Len(t)) /\ FlattenSeq(t) = Flat(t)[Len(t)]
  <2>1. Len(t) \in Nat
    OBVIOUS
  <2>2. IsFlat(Flat(t), t, Len(t))
    BY <2>1, FlatExists
  <2>3. FlattenSeq(t) = Flat(t)[Len(t)]
    BY <1>2 DEF FlattenSeq, IsFlat
  <2> QED
    BY <2>2, <2>3
<1>3. ASSUME NEW t \in Seq(Seq(Int)), NEW x \in Seq(Int),
             FlattenSeq(t) \in Seq(Int)
      PROVE  FlattenSeq(Append(t, x)) = FlattenSeq(t) \o x
  <2> DEFINE n == Len(t)
             r == Append(t, x)
  <2>1. /\ n \in Nat /\ r \in Seq(Seq(Int)) /\ Len(r) = n + 1
        /\ r[n + 1] = x /\ \A i \in 1 .. n : t[i] = r[i]
    OBVIOUS
  <2> HIDE DEF r, Flat
  <2>2. IsFlat(Flat(r), r, n + 1) /\ FlattenSeq(r) = Flat(r)[n + 1]
    BY <1>2, <2>1
  <2>3. Flat(r)[n + 1] = IF n = 0 THEN x ELSE Flat(r)[n] \o x
    <3> DEFINE m == n + 1
    <3>1. m \in 1 .. m /\ r[m] = x /\ m - 1 = n /\ (m = 1 <=> n = 0)
      BY <2>1
    <3> HIDE DEF m
    <3>2. IsFlat(Flat(r), r, m)
      BY <2>2 DEF m
    <3>3. Flat(r)[m] = IF m = 1 THEN r[m] ELSE Flat(r)[m - 1] \o r[m]
      BY <3>1, <3>2 DEF IsFlat
    <3> QED
      BY <3>1, <3>3 DEF m
  <2>4. CASE n = 0
    <3>1. t = <<>>
      BY <2>4
    <3>2. FlattenSeq(t) \o x = x
      BY <1>1, <3>1
    <3> QED
      BY <2>2, <2>3, <2>4, <3>2 DEF r
  <2>5. CASE n # 0
    <3>1. IsFlat(Flat(t), t, n) /\ FlattenSeq(t) = Flat(t)[n]
      BY <1>2, <2>5
    <3>2. n <= n + 1 /\ n + 1 \in Nat /\ n \in 1 .. n
      BY <2>1, <2>5
    <3>3. \A i \in 1 .. n : Flat(t)[i] = Flat(r)[i]
      <4> DEFINE m == n + 1
                 g == Flat(t)
                 h == Flat(r)
      <4>1. IsFlat(g, t, n) /\ IsFlat(h, r, m)
        BY <2>2, <3>1
      <4>2. n \in Nat /\ m \in Nat /\ n <= m
        BY <2>1, <3>2
      <4>3. Agree(t, r, n)
        BY <2>1 DEF Agree
      <4> HIDE DEF m, g, h, n
      <4>4. Agree(g, h, n)
        BY <4>1, <4>2, <4>3, FlatSame
      <4> QED
        BY <4>4 DEF g, h, Agree
    <3>4. Flat(t)[n] = Flat(r)[n]
      BY <3>2, <3>3
    <3> QED
      BY <2>2, <2>3, <2>5, <3>1, <3>4 DEF r
  <2> QED
    BY <2>4, <2>5
<1> QED
  BY <1>1, <1>3

-----------------------------------------------------------------------------
(***************************************************************************)
(* Types                                                                   *)
(***************************************************************************)

\* The calls that were answered, of each list.
Answered == [bids : Seq(Bid), votes : Seq(Vote), tasks : Seq(Task),
             steps : Seq(KycSteps), decisions : Seq(Decision),
             tenants : Seq(Records)]

ToldType == told \in Answered

LEMMA Quotient ==
  ASSUME NEW a \in Nat, NEW b \in Nat \ {0}
  PROVE  a \div b \in Nat
OBVIOUS

LEMMA RoundedType ==
  ASSUME NEW total \in Nat, NEW count \in Nat \ {0}
  PROVE  Rounded(total, count) \in Nat
BY Quotient DEF Rounded

\* Nearest is within half of the unit.
LEMMA NearestIs ==
  ASSUME NEW total \in Int, NEW count \in Nat \ {0},
         NEW m \in Nearest(total, count)
  PROVE  /\ m \in Int
         /\ 2 * (m * count - total) <= count
         /\ 2 * (total - m * count) <= count
<1>1. total \div count \in Int
  OBVIOUS
<1> QED
  BY <1>1 DEF Nearest

LEMMA NearestNat ==
  ASSUME NEW total \in Nat, NEW count \in Nat \ {0},
         NEW m \in Nearest(total, count)
  PROVE  m \in Nat
BY Quotient DEF Nearest

\* The figures of a tenant: the total is off by half a cent at most.
Figure == [n : Nat, total : Int, average : Int]

LEMMA ProcessedType ==
  ASSUME NEW records \in Records, NEW x \in Processed(records)
  PROVE  /\ x \in Figure
         /\ x.n = Len(records) /\ x.n \in Nat \ {0}
         /\ records \in Seq(Int) /\ Total(records) \in Int
         /\ Within(2 * Cent * x.total, 2 * Total(records), Cent)
<1>1. records \in Seq(Int) /\ records # <<>>
  BY FeatureAssumption
<1>2. Len(records) \in Nat \ {0} /\ Cent \in Nat \ {0}
  BY <1>1, FeatureAssumption
<1>3. PICK all \in Int : all = Total(records)
  BY <1>1, Totals
<1>4. PICK count \in Nat \ {0} : count = Cent * Len(records)
  BY <1>2
<1>5. PICK total \in Nearest(all, Cent), average \in Nearest(all, count) :
        x = [n |-> Len(records), total |-> total, average |-> average]
  BY <1>3, <1>4 DEF Processed
<1>6. /\ total \in Int /\ average \in Int
      /\ 2 * (total * Cent - all) <= Cent /\ 2 * (all - total * Cent) <= Cent
  BY <1>2, <1>3, <1>4, <1>5, NearestIs
<1>7. 2 * Cent * total = 2 * (total * Cent) /\ total * Cent \in Int
  BY <1>2, <1>6
<1>8. Within(2 * Cent * total, 2 * all, Cent)
  BY <1>2, <1>6, <1>7 DEF Within
<1>9. x \in Figure /\ x.n = Len(records) /\ x.total = total
  BY <1>2, <1>5, <1>6 DEF Figure
<1> QED
  BY <1>1, <1>2, <1>3, <1>8, <1>9

\* A list may be replaced by another of its type.
LEMMA PutType ==
  ASSUME NEW A, NEW B, NEW C, NEW D, NEW E, NEW F,
         NEW r \in [bids : A, votes : B, tasks : C, steps : D,
                    decisions : E, tenants : F]
  PROVE  /\ r.bids \in A /\ r.votes \in B /\ r.tasks \in C
         /\ r.steps \in D /\ r.decisions \in E /\ r.tenants \in F
         /\ \A v :
              /\ v \in A => [r EXCEPT !["bids"] = v] \in
                   [bids : A, votes : B, tasks : C, steps : D,
                    decisions : E, tenants : F]
              /\ v \in B => [r EXCEPT !["votes"] = v] \in
                   [bids : A, votes : B, tasks : C, steps : D,
                    decisions : E, tenants : F]
              /\ v \in C => [r EXCEPT !["tasks"] = v] \in
                   [bids : A, votes : B, tasks : C, steps : D,
                    decisions : E, tenants : F]
              /\ v \in D => [r EXCEPT !["steps"] = v] \in
                   [bids : A, votes : B, tasks : C, steps : D,
                    decisions : E, tenants : F]
              /\ v \in E => [r EXCEPT !["decisions"] = v] \in
                   [bids : A, votes : B, tasks : C, steps : D,
                    decisions : E, tenants : F]
              /\ v \in F => [r EXCEPT !["tenants"] = v] \in
                   [bids : A, votes : B, tasks : C, steps : D,
                    decisions : E, tenants : F]
OBVIOUS

\* An item of one of the five lists that keep what was told.
Plain(list, x) ==
  \/ list = "bids" /\ x \in Bid
  \/ list = "votes" /\ x \in Vote
  \/ list = "tasks" /\ x \in Task
  \/ list = "steps" /\ x \in KycSteps
  \/ list = "decisions" /\ x \in Decision

\* What a list holds after a call, answered or not.
LEMMA KeepsType ==
  ASSUME TypeOK, ToldType,
         NEW list, NEW x, NEW item, NEW answered, Keeps(list, x, answered, item),
         \/ Plain(list, x) /\ item = x
         \/ /\ list = "tenants" /\ item \in Records
            /\ x \in Figure
  PROVE  kept' \in Lists /\ told' \in Answered
<1>1. kept \in Lists /\ told \in Answered
  BY DEF TypeOK, ToldType
<1>2. CASE ~answered
  BY <1>1, <1>2 DEF Keeps, lists
<1>3. CASE answered
  <2>1. /\ kept' = [kept EXCEPT ![list] = Append(kept[list], x)]
        /\ told' = [told EXCEPT ![list] = Append(told[list], item)]
    BY <1>3 DEF Keeps
  <2>2. CASE list = "bids"
    <3>1. /\ kept.bids \in Seq(Bid)
          /\ told.bids \in Seq(Bid)
      BY <1>1, PutType DEF Lists, Answered
    <3>2. /\ Append(kept.bids, x) \in Seq(Bid)
          /\ Append(told.bids, item) \in Seq(Bid)
      BY <2>2, <3>1 DEF Plain
    <3> QED
      BY <1>1, <2>1, <2>2, <3>2, PutType DEF Lists, Answered
  <2>3. CASE list = "votes"
    <3>1. /\ kept.votes \in Seq(Vote)
          /\ told.votes \in Seq(Vote)
      BY <1>1, PutType DEF Lists, Answered
    <3>2. /\ Append(kept.votes, x) \in Seq(Vote)
          /\ Append(told.votes, item) \in Seq(Vote)
      BY <2>3, <3>1 DEF Plain
    <3> QED
      BY <1>1, <2>1, <2>3, <3>2, PutType DEF Lists, Answered
  <2>4. CASE list = "tasks"
    <3>1. /\ kept.tasks \in Seq(Task)
          /\ told.tasks \in Seq(Task)
      BY <1>1, PutType DEF Lists, Answered
    <3>2. /\ Append(kept.tasks, x) \in Seq(Task)
          /\ Append(told.tasks, item) \in Seq(Task)
      BY <2>4, <3>1 DEF Plain
    <3> QED
      BY <1>1, <2>1, <2>4, <3>2, PutType DEF Lists, Answered
  <2>5. CASE list = "steps"
    <3>1. /\ kept.steps \in Seq(KycSteps)
          /\ told.steps \in Seq(KycSteps)
      BY <1>1, PutType DEF Lists, Answered
    <3>2. /\ Append(kept.steps, x) \in Seq(KycSteps)
          /\ Append(told.steps, item) \in Seq(KycSteps)
      BY <2>5, <3>1 DEF Plain
    <3> QED
      BY <1>1, <2>1, <2>5, <3>2, PutType DEF Lists, Answered
  <2>6. CASE list = "decisions"
    <3>1. /\ kept.decisions \in Seq(Decision)
          /\ told.decisions \in Seq(Decision)
      BY <1>1, PutType DEF Lists, Answered
    <3>2. /\ Append(kept.decisions, x) \in Seq(Decision)
          /\ Append(told.decisions, item) \in Seq(Decision)
      BY <2>6, <3>1 DEF Plain
    <3> QED
      BY <1>1, <2>1, <2>6, <3>2, PutType DEF Lists, Answered
  <2>7. CASE list = "tenants"
    <3>1. /\ kept.tenants \in Seq(Figure)
          /\ told.tenants \in Seq(Records)
      BY <1>1, PutType DEF Lists, Answered, Figure
    <3>2. /\ Append(kept.tenants, x) \in Seq(Figure)
          /\ Append(told.tenants, item) \in Seq(Records)
      BY <2>7, <3>1 DEF Plain
    <3> QED
      BY <1>1, <2>1, <2>7, <3>2, PutType DEF Lists, Answered, Figure
  <2> QED
    BY <2>2, <2>3, <2>4, <2>5, <2>6, <2>7 DEF Plain
<1> QED
  BY <1>2, <1>3

-----------------------------------------------------------------------------
(***************************************************************************)
(* The first of the lowest bids                                            *)
(***************************************************************************)

\* Bid n is the first of the lowest of the first k bids.
IsLowest(bids, n, k) ==
  /\ n \in 1 .. k
  /\ \A m \in 1 .. k : \/ bids[n].amount < bids[m].amount
                       \/ bids[n].amount = bids[m].amount /\ n <= m

LEMMA BidAmounts ==
  ASSUME NEW bids \in Seq(Bid)
  PROVE  \A i \in 1 .. Len(bids) : bids[i].amount \in Nat
<1> SUFFICES ASSUME NEW i \in 1 .. Len(bids) PROVE bids[i].amount \in Nat
  OBVIOUS
<1>1. bids[i] \in Bid
  BY ElementOfSeq
<1> QED
  BY <1>1, FeatureAssumption DEF Bid

LEMMA LowestExists ==
  ASSUME NEW bids \in Seq(Bid), NEW k \in 1 .. Len(bids)
  PROVE  \E n \in 1 .. k : IsLowest(bids, n, k)
<1> DEFINE T == {j \in Nat : j \in 1 .. Len(bids)
                               => \E n \in 1 .. j : IsLowest(bids, n, j)}
<1>0. \A i \in 1 .. Len(bids) : bids[i].amount \in Nat
  BY BidAmounts
<1>1. 0 \in T
  OBVIOUS
<1>2. ASSUME NEW i \in Nat, i \in T PROVE i + 1 \in T
  <2> SUFFICES ASSUME i + 1 \in 1 .. Len(bids)
               PROVE  \E n \in 1 .. i + 1 : IsLowest(bids, n, i + 1)
    OBVIOUS
  <2> DEFINE j == i + 1
  <2>1. /\ j \in 1 .. Len(bids) /\ Len(bids) \in Nat
        /\ \A m \in 1 .. j : m \in 1 .. i \/ m = j
        /\ \A m \in 1 .. i : m \in 1 .. j /\ m < j /\ m \in 1 .. Len(bids)
    OBVIOUS
  <2> HIDE DEF j
  <2>2. CASE i = 0
    <3>1. IsLowest(bids, j, j)
      BY <2>2 DEF j, IsLowest
    <3> QED
      BY <3>1 DEF j, IsLowest
  <2>3. CASE i # 0
    <3>1. PICK n \in 1 .. i : IsLowest(bids, n, i)
      BY <1>2, <2>1, <2>3
    <3>2. /\ bids[n].amount \in Nat /\ bids[j].amount \in Nat
          /\ \A m \in 1 .. i : bids[m].amount \in Nat
      BY <1>0, <2>1
    <3>3. CASE bids[n].amount <= bids[j].amount
      <4>1. IsLowest(bids, n, j)
        BY <2>1, <3>1, <3>2, <3>3 DEF IsLowest
      <4> QED
        BY <2>1, <4>1 DEF j
    <3>4. CASE bids[j].amount < bids[n].amount
      <4>1. \A m \in 1 .. i : bids[j].amount < bids[m].amount
        BY <3>1, <3>2, <3>4 DEF IsLowest
      <4>2. IsLowest(bids, j, j)
        BY <2>1, <4>1 DEF IsLowest
      <4> QED
        BY <4>2 DEF j, IsLowest
    <3> QED
      BY <3>2, <3>3, <3>4
  <2> QED
    BY <2>2, <2>3
<1> HIDE DEF T
<1>3. k \in T
  BY <1>1, <1>2, AllNat
<1> QED
  BY <1>3 DEF T

LEMMA LowestIs ==
  ASSUME NEW bids \in Seq(Bid), bids # <<>>
  PROVE  \E n \in 1 .. Len(bids) :
           IsLowest(bids, n, Len(bids)) /\ Lowest(bids) = bids[n]
<1> DEFINE k == Len(bids)
           P(n) == \A m \in DOMAIN bids :
                     \/ bids[n].amount < bids[m].amount
                     \/ bids[n].amount = bids[m].amount /\ n <= m
           c == CHOOSE n \in DOMAIN bids : P(n)
<1>1. DOMAIN bids = 1 .. k /\ k \in 1 .. k
  OBVIOUS
<1>2. \E n \in DOMAIN bids : P(n)
  BY <1>1, LowestExists DEF IsLowest
<1>3. c \in DOMAIN bids /\ P(c)
  <2> HIDE DEF P
  <2> QED
    BY <1>2
<1>4. IsLowest(bids, c, k)
  <2> HIDE DEF c
  <2> QED
    BY <1>1, <1>3 DEF IsLowest
<1>5. Lowest(bids) = bids[c]
  BY DEF Lowest
<1> HIDE DEF c
<1> QED
  BY <1>1, <1>3, <1>4, <1>5

-----------------------------------------------------------------------------
(***************************************************************************)
(* Type correctness                                                        *)
(***************************************************************************)

\* The actions on the lists, told apart by the list.
Telling ==
  \/ \E bid \in Bid : SubmitBid(bid)
  \/ \E vote \in Vote : CastVote(vote)
  \/ \E task \in Task : RecordTask(task)
  \/ \E step \in KycSteps : SubmitStep(step)
  \/ \E decision \in Decision : LogDecision(decision)
  \/ \E records \in Records : ProcessTenantData(records)

TellsPlain == \E list, x : \E answered \in BOOLEAN :
                Plain(list, x) /\ Keeps(list, x, answered, x)

TellsTenant == \E records \in Records, answered \in BOOLEAN :
                 \E x \in Processed(records) :
                   Keeps("tenants", x, answered, records)

LEMMA Tellings ==
  ASSUME Telling
  PROVE  /\ TellsPlain \/ TellsTenant
         /\ phase' = phase /\ calls' = calls + 1 /\ calls < MaxCalls
         /\ UNCHANGED <<winner, grants, issued, secret, escrow, clock>>
<1>1. CASE \E bid \in Bid : SubmitBid(bid)
  <2>1. PICK bid \in Bid : SubmitBid(bid)
    BY <1>1
  <2>2. PICK answered \in BOOLEAN : Keeps("bids", bid, answered, bid)
    BY <2>1 DEF SubmitBid, Tells
  <2>p. Plain("bids", bid)
    BY DEF Plain
  <2>3. TellsPlain
    BY <2>2, <2>p DEF TellsPlain
  <2> QED
    BY <2>1, <2>3 DEF SubmitBid, Tells, Calling
<1>2. CASE \E vote \in Vote : CastVote(vote)
  <2>1. PICK vote \in Vote : CastVote(vote)
    BY <1>2
  <2>2. PICK answered \in BOOLEAN : Keeps("votes", vote, answered, vote)
    BY <2>1 DEF CastVote, Tells
  <2>p. Plain("votes", vote)
    BY DEF Plain
  <2>3. TellsPlain
    BY <2>2, <2>p DEF TellsPlain
  <2> QED
    BY <2>1, <2>3 DEF CastVote, Tells, Calling
<1>3. CASE \E task \in Task : RecordTask(task)
  <2>1. PICK task \in Task : RecordTask(task)
    BY <1>3
  <2>2. PICK answered \in BOOLEAN : Keeps("tasks", task, answered, task)
    BY <2>1 DEF RecordTask, Tells
  <2>p. Plain("tasks", task)
    BY DEF Plain
  <2>3. TellsPlain
    BY <2>2, <2>p DEF TellsPlain
  <2> QED
    BY <2>1, <2>3 DEF RecordTask, Tells, Calling
<1>4. CASE \E step \in KycSteps : SubmitStep(step)
  <2>1. PICK step \in KycSteps : SubmitStep(step)
    BY <1>4
  <2>2. PICK answered \in BOOLEAN : Keeps("steps", step, answered, step)
    BY <2>1 DEF SubmitStep, Tells
  <2>p. Plain("steps", step)
    BY DEF Plain
  <2>3. TellsPlain
    BY <2>2, <2>p DEF TellsPlain
  <2> QED
    BY <2>1, <2>3 DEF SubmitStep, Tells, Calling
<1>5. CASE \E decision \in Decision : LogDecision(decision)
  <2>1. PICK decision \in Decision : LogDecision(decision)
    BY <1>5
  <2>2. PICK answered \in BOOLEAN : Keeps("decisions", decision, answered, decision)
    BY <2>1 DEF LogDecision, Tells
  <2>p. Plain("decisions", decision)
    BY DEF Plain
  <2>3. TellsPlain
    BY <2>2, <2>p DEF TellsPlain
  <2> QED
    BY <2>1, <2>3 DEF LogDecision, Tells, Calling
<1>6. CASE \E records \in Records : ProcessTenantData(records)
  BY <1>6 DEF ProcessTenantData, Tells, Calling, TellsTenant
<1> QED
  BY <1>1, <1>2, <1>3, <1>4, <1>5, <1>6 DEF Telling

LEMMA TellingType ==
  ASSUME TypeOK, ToldType, Telling
  PROVE  TypeOK' /\ ToldType'
<1>1. kept' \in Lists /\ told' \in Answered
  <2>1. CASE TellsPlain
    <3>1. PICK list, x : \E answered \in BOOLEAN :
            Plain(list, x) /\ Keeps(list, x, answered, x)
      BY <2>1 DEF TellsPlain
    <3> QED
      BY <3>1, KeepsType
  <2>2. CASE TellsTenant
    BY <2>2, KeepsType, ProcessedType DEF TellsTenant
  <2> QED
    BY <2>1, <2>2, Tellings
<1>2. told'.tenants \in Seq(Records)
  BY <1>1, PutType DEF Answered
<1>3. calls' \in 0 .. MaxCalls
  BY Tellings, FeatureAssumption DEF TypeOK
<1> QED
  BY <1>1, <1>2, <1>3, Tellings DEF TypeOK, ToldType, secret, escrow

LEMMA ResolveType ==
  ASSUME TypeOK, ToldType, Resolve
  PROVE  TypeOK' /\ ToldType'
<1>1. kept.bids \in Seq(Bid) /\ kept.bids # <<>>
  BY PutType DEF Resolve, TypeOK, Lists
<1>2. winner' \in Bid
  BY <1>1, LowestIs, ElementOfSeq DEF Resolve
<1>3. calls' \in 0 .. MaxCalls
  BY FeatureAssumption DEF Resolve, Calling, TypeOK
<1> QED
  BY <1>2, <1>3 DEF Resolve, Calling, TypeOK, ToldType, lists, secret, escrow

LEMMA GrantType ==
  ASSUME TypeOK, ToldType, NEW a \in Dids, NEW term \in Terms,
         IssueGrant(a, term)
  PROVE  TypeOK' /\ ToldType'
<1> DEFINE until == clock + term
           token == TokenOf(a, until)
<1>1. until \in Nat /\ token \in Token /\ clock \in 0 .. MaxClock
  BY FeatureAssumption DEF TypeOK, TokenOf, Token
<1>2. /\ grants' = [t \in DOMAIN grants \cup {token} |->
                      IF t = token THEN until ELSE grants[t]]
      /\ issued' = issued \cup {[token |-> token, until |-> until]}
      /\ UNCHANGED <<phase, lists, winner, secret, escrow, clock>>
      /\ calls' = calls + 1 /\ calls < MaxCalls
  BY DEF IssueGrant, Calling
<1> HIDE DEF token, until
<1>3. /\ DOMAIN grants' \subseteq Token
      /\ \A t \in DOMAIN grants' : grants'[t] \in Nat
  BY <1>1, <1>2 DEF TypeOK
<1>4. issued' \subseteq [token : Token, until : Nat]
  BY <1>1, <1>2 DEF TypeOK
<1>5. calls' \in 0 .. MaxCalls
  BY <1>2, FeatureAssumption DEF TypeOK
<1> QED
  BY <1>2, <1>3, <1>4, <1>5 DEF TypeOK, ToldType, lists, secret, escrow

LEMMA VaultType ==
  ASSUME TypeOK, ToldType,
         \/ \E allowed \in SUBSET Dids : StoreSecret(allowed)
         \/ \E d \in Dids \cup {Owner} : InvokeWithSecret(d)
  PROVE  TypeOK' /\ ToldType'
<1>1. CASE \E allowed \in SUBSET Dids : StoreSecret(allowed)
  <2>1. PICK allowed \in SUBSET Dids : StoreSecret(allowed)
    BY <1>1
  <2>2. vault' \in SUBSET Dids /\ stored' \in Seq(SUBSET Dids)
    BY <2>1 DEF StoreSecret, TypeOK
  <2>3. calls' \in 0 .. MaxCalls
    BY <2>1, FeatureAssumption DEF StoreSecret, Calling, TypeOK
  <2> QED
    BY <2>1, <2>2, <2>3 DEF StoreSecret, Calling, TypeOK, ToldType, lists, escrow
<1>2. CASE \E d \in Dids \cup {Owner} : InvokeWithSecret(d)
  <2>1. PICK d \in Dids \cup {Owner} : InvokeWithSecret(d)
    BY <1>2
  <2>2. uses' \subseteq [by : Dids \cup {Owner}, after : Nat]
    <3>1. Len(stored) \in Nat
      BY DEF TypeOK
    <3> QED
      BY <2>1, <3>1 DEF InvokeWithSecret, TypeOK
  <2>3. calls' \in 0 .. MaxCalls
    BY <2>1, FeatureAssumption DEF InvokeWithSecret, Calling, TypeOK
  <2> QED
    BY <2>1, <2>2, <2>3
       DEF InvokeWithSecret, Calling, TypeOK, ToldType, lists, escrow
<1> QED
  BY <1>1, <1>2

LEMMA LockType ==
  ASSUME TypeOK, ToldType, NEW a \in Dids, NEW amount \in Amounts,
         NEW term \in Terms, LockBond(a, amount, term)
  PROVE  TypeOK' /\ ToldType'
<1> DEFINE bond == [amount |-> amount, deadline |-> clock + term]
           lock == [agent |-> a, amount |-> amount, deadline |-> clock + term]
<1>1. bond \in Bond /\ lock \in [agent : Dids, amount : Amounts, deadline : Nat]
  BY FeatureAssumption DEF TypeOK, Bond
<1>2. /\ bonds' = Bonded(a, bond) /\ locks' = Append(locks, lock)
      /\ UNCHANGED <<phase, lists, winner, grants, issued, secret, paid, clock>>
      /\ calls' = calls + 1 /\ calls < MaxCalls
  BY DEF LockBond, Calling
<1> HIDE DEF bond, lock
<1>3. /\ DOMAIN bonds' \subseteq Dids
      /\ \A b \in DOMAIN bonds' : bonds'[b] \in Bond
  BY <1>1, <1>2 DEF TypeOK, Bonded
<1>4. locks' \in Seq([agent : Dids, amount : Amounts, deadline : Nat])
  BY <1>1, <1>2 DEF TypeOK
<1>5. calls' \in 0 .. MaxCalls
  BY <1>2, FeatureAssumption DEF TypeOK
<1> QED
  BY <1>2, <1>3, <1>4, <1>5 DEF TypeOK, ToldType, lists, secret

\* The share paid out, and half of it at most when it is late.
LEMMA PayoutBound ==
  ASSUME NEW bond \in Bond, NEW now \in Nat, NEW completed \in BOOLEAN,
         NEW quality \in Qualities
  PROVE  /\ Payout(bond, now, completed, quality) \in 0 .. 100
         /\ now > bond.deadline
              => Payout(bond, now, completed, quality) \in 0 .. 50
BY FeatureAssumption DEF Payout, Share, Bond

LEMMA Times ==
  ASSUME NEW amount \in Nat, NEW k \in Nat, NEW share \in 0 .. k
  PROVE  amount * share \in Nat /\ amount * share <= k * amount
OBVIOUS

LEMMA SettleType ==
  ASSUME TypeOK, ToldType, NEW a \in Dids, NEW completed \in BOOLEAN,
         NEW quality \in Qualities, SettleBond(a, completed, quality)
  PROVE  TypeOK' /\ ToldType'
<1> DEFINE share == Payout(bonds[a], clock, completed, quality)
           whole == bonds[a].amount * share
<1>1. bonds[a] \in Bond /\ clock \in Nat /\ Len(locks) \in Nat
  BY FeatureAssumption DEF TypeOK, SettleBond
<1>2. share \in 0 .. 100
  BY <1>1, PayoutBound
<1>3. whole \in Nat
  <2>1. bonds[a].amount \in Nat
    BY <1>1, FeatureAssumption DEF Bond
  <2> HIDE DEF share
  <2> QED
    BY <1>2, <2>1, Times
<1>4. PICK amount \in Nearest(whole, 100 * Cent) :
        paid' = paid \cup {[agent |-> a, after |-> Len(locks), at |-> clock,
                            amount |-> amount]}
  BY DEF SettleBond
<1>5. /\ UNCHANGED <<phase, lists, winner, grants, issued, secret, bonds, locks,
                     clock>>
      /\ calls' = calls + 1 /\ calls < MaxCalls
  BY DEF SettleBond, Calling
<1> DEFINE p == [agent |-> a, after |-> Len(locks), at |-> clock, amount |-> amount]
<1> HIDE DEF share, whole
<1>6. amount \in Nat
  <2>1. 100 * Cent \in Nat \ {0}
    BY FeatureAssumption
  <2> QED
    BY <1>3, <2>1, NearestNat
<1>7. p \in [agent : Dids, after : Nat, amount : Nat, at : Nat]
  BY <1>1, <1>6
<1>8. paid' = paid \cup {p}
  BY <1>4
<1> HIDE DEF p
<1>9. paid' \subseteq [agent : Dids, after : Nat, amount : Nat, at : Nat]
  BY <1>7, <1>8 DEF TypeOK
<1>10. calls' \in 0 .. MaxCalls
  BY <1>5, FeatureAssumption DEF TypeOK
<1> QED
  BY <1>5, <1>9, <1>10 DEF TypeOK, ToldType, lists, secret

LEMMA TickType ==
  ASSUME TypeOK, ToldType, Tick
  PROVE  TypeOK' /\ ToldType'
<1>1. clock' \in 0 .. MaxClock
  BY FeatureAssumption DEF Tick, TypeOK
<1> QED
  BY <1>1 DEF Tick, TypeOK, ToldType, lists, secret, escrow

LEMMA StutterType ==
  ASSUME TypeOK, ToldType, UNCHANGED vars
  PROVE  TypeOK' /\ ToldType'
BY DEF vars, lists, secret, escrow, TypeOK, ToldType

\* TypeOK, at every state.
THEOREM FeatureTypes == Spec => [](TypeOK /\ ToldType)
<1>1. Init => TypeOK /\ ToldType
  <2> SUFFICES ASSUME Init PROVE TypeOK /\ ToldType
    OBVIOUS
  <2>1. kept \in Lists /\ told \in Answered
    BY DEF Init, Nothing, Lists, Answered
  <2>2. told.tenants \in Seq(Records)
    BY <2>1, PutType DEF Answered
  <2>3. clock \in 0 .. MaxClock /\ calls \in 0 .. MaxCalls
    BY FeatureAssumption DEF Init
  <2>4. /\ DOMAIN grants = {} /\ DOMAIN bonds = {}
        /\ stored \in Seq(SUBSET Dids)
        /\ locks \in Seq([agent : Dids, amount : Amounts, deadline : Nat])
    BY DEF Init
  <2>5. /\ phase \in Phases /\ winner \in Bid \cup {None}
        /\ vault \in (SUBSET Dids) \cup {None}
        /\ issued = {} /\ uses = {} /\ paid = {}
    BY DEF Init
  <2> QED
    BY <2>1, <2>2, <2>3, <2>4, <2>5 DEF TypeOK, ToldType
<1>2. TypeOK /\ ToldType /\ [Next]_vars => TypeOK' /\ ToldType'
  <2> SUFFICES ASSUME TypeOK, ToldType, [Next]_vars PROVE TypeOK' /\ ToldType'
    OBVIOUS
  <2>1. CASE Telling
    BY <2>1, TellingType
  <2>2. CASE Resolve
    BY <2>2, ResolveType
  <2>3. CASE \E a \in Dids, term \in Terms : IssueGrant(a, term)
    BY <2>3, GrantType
  <2>4. CASE \/ \E allowed \in SUBSET Dids : StoreSecret(allowed)
             \/ \E d \in Dids \cup {Owner} : InvokeWithSecret(d)
    BY <2>4, VaultType
  <2>5. CASE \E a \in Dids, amount \in Amounts, term \in Terms :
               LockBond(a, amount, term)
    BY <2>5, LockType
  <2>6. CASE \E a \in Dids, completed \in BOOLEAN, quality \in Qualities :
               SettleBond(a, completed, quality)
    BY <2>6, SettleType
  <2>7. CASE Tick
    BY <2>7, TickType
  <2>8. CASE UNCHANGED vars
    BY <2>8, StutterType
  <2> QED
    BY <2>1, <2>2, <2>3, <2>4, <2>5, <2>6, <2>7, <2>8 DEF Next, Telling
<1> QED
  BY <1>1, <1>2, PTL DEF Spec

-----------------------------------------------------------------------------
(***************************************************************************)
(* The lists                                                               *)
(***************************************************************************)

Names == {"bids", "votes", "tasks", "steps", "decisions", "tenants"}

\* A step of the specification, in a well-typed state.
Typed == TypeOK /\ ToldType /\ [Next]_vars

LEMMA Domains ==
  ASSUME TypeOK, ToldType
  PROVE  DOMAIN kept = Names /\ DOMAIN told = Names
<1>1. ASSUME NEW A, NEW B, NEW C, NEW D, NEW E, NEW F,
             NEW r \in [bids : A, votes : B, tasks : C, steps : D,
                        decisions : E, tenants : F]
      PROVE  DOMAIN r = Names
  BY DEF Names
<1> QED
  BY <1>1 DEF TypeOK, ToldType, Lists, Answered

\* What a step may do to the lists.
LEMMA ListSteps ==
  ASSUME Typed
  PROVE  \/ UNCHANGED lists
         \/ \E list, x : /\ Plain(list, x)
                         /\ kept' = [kept EXCEPT ![list] = Append(kept[list], x)]
                         /\ told' = [told EXCEPT ![list] = Append(told[list], x)]
         \/ \E records \in Records : \E x \in Processed(records) :
              /\ kept' = [kept EXCEPT !["tenants"] = Append(kept["tenants"], x)]
              /\ told' = [told EXCEPT !["tenants"] =
                            Append(told["tenants"], records)]
<1>1. CASE Telling
  BY <1>1, Tellings DEF TellsPlain, TellsTenant, Keeps
<1>2. CASE ~Telling
  BY <1>2 DEF Typed, Next, Telling, Resolve, IssueGrant, StoreSecret,
              InvokeWithSecret, LockBond, SettleBond, Tick, vars
<1> QED
  BY <1>1, <1>2

LEMMA KeptStep == KeptAsTold /\ Typed => KeptAsTold'
<1> SUFFICES ASSUME KeptAsTold, Typed PROVE KeptAsTold'
  OBVIOUS
<1>0. /\ DOMAIN kept = Names /\ DOMAIN told = Names
      /\ kept.tenants \in Seq(Figure)
      /\ told.tenants \in Seq(Records)
  BY Domains, PutType DEF Typed, TypeOK, Lists, Figure
<1>1. CASE UNCHANGED lists
  BY <1>1 DEF lists, KeptAsTold
<1>2. ASSUME NEW list, NEW x, Plain(list, x),
             kept' = [kept EXCEPT ![list] = Append(kept[list], x)],
             told' = [told EXCEPT ![list] = Append(told[list], x)]
      PROVE  KeptAsTold'
  <2>1. list \in Names \ {"tenants"} /\ kept[list] = told[list]
    BY <1>2 DEF Plain, Names, KeptAsTold
  <2>2. ASSUME NEW l \in Names, l # list
        PROVE  kept'[l] = kept[l] /\ told'[l] = told[l]
    BY <1>0, <1>2, <2>2
  <2>3. kept'[list] = told'[list]
    BY <1>0, <1>2, <2>1
  <2>4. ASSUME NEW l \in {"bids", "votes", "tasks", "steps", "decisions"}
        PROVE  kept'[l] = told'[l]
    <3>1. l \in Names /\ kept[l] = told[l]
      BY DEF Names, KeptAsTold
    <3> QED
      BY <2>2, <2>3, <3>1
  <2>5. kept'["tenants"] = kept["tenants"] /\ told'["tenants"] = told["tenants"]
    BY <2>1, <2>2 DEF Names
  <2> QED
    BY <2>4, <2>5 DEF KeptAsTold
<1>3. ASSUME NEW records \in Records, NEW x \in Processed(records),
             kept' = [kept EXCEPT !["tenants"] = Append(kept["tenants"], x)],
             told' = [told EXCEPT !["tenants"] = Append(told["tenants"], records)]
      PROVE  KeptAsTold'
  <2>1. ASSUME NEW l \in Names, l # "tenants"
        PROVE  kept'[l] = kept[l] /\ told'[l] = told[l]
    BY <1>0, <1>3, <2>1
  <2>2. ASSUME NEW l \in {"bids", "votes", "tasks", "steps", "decisions"}
        PROVE  kept'[l] = told'[l]
    <3>1. l \in Names /\ l # "tenants" /\ kept[l] = told[l]
      BY DEF Names, KeptAsTold
    <3> QED
      BY <2>1, <3>1
  <2>3. /\ kept'["tenants"] = Append(kept["tenants"], x)
        /\ told'["tenants"] = Append(told["tenants"], records)
    BY <1>0, <1>3 DEF Names
  <2>4. Len(kept.tenants) = Len(told.tenants)
    BY DEF KeptAsTold
  <2>5. Len(kept'["tenants"]) = Len(told'["tenants"])
    BY <1>0, <1>3, <2>3, <2>4, ProcessedType
  <2> QED
    BY <2>2, <2>5 DEF KeptAsTold
<1> QED
  BY <1>1, <1>2, <1>3, ListSteps

\* KeptAsTold: the agents' lists hold what the contract answered, in order, no
\* matter which calls failed in between.
THEOREM ListsAsTold == Spec => []KeptAsTold
<1>1. Init => KeptAsTold
  BY DEF Init, Nothing, KeptAsTold
<1>2. KeptAsTold /\ (TypeOK /\ ToldType) /\ [Next]_vars => KeptAsTold'
  BY KeptStep DEF Typed
<1> QED
  BY <1>1, <1>2, FeatureTypes, PTL DEF Spec

-----------------------------------------------------------------------------
(***************************************************************************)
(* The tenants                                                             *)
(***************************************************************************)

\* The counts kept for the tenants add up to that of their records, and the
\* totals do but for half a cent of each tenant.
UnionInv ==
  LET all == FlattenSeq(told.tenants)
      k == kept.tenants IN
  /\ all \in Seq(Int)
  /\ Len(k) <= Len(all)
  /\ Total([i \in DOMAIN k |-> k[i].n]) = Len(all)
  /\ Within(2 * Cent * Total([i \in DOMAIN k |-> k[i].total]), 2 * Total(all),
            Cent * Len(k))

\* One more tenant, one more figure.
LEMMA Figures ==
  ASSUME NEW k \in Seq(Figure), NEW x \in Figure
  PROVE  LET r == Append(k, x) IN
         /\ Total([i \in DOMAIN r |-> r[i].n])
              = Total([i \in DOMAIN k |-> k[i].n]) + x.n
         /\ Total([i \in DOMAIN r |-> r[i].total])
              = Total([i \in DOMAIN k |-> k[i].total]) + x.total
         /\ Total([i \in DOMAIN k |-> k[i].total]) \in Int
<1> DEFINE r == Append(k, x)
           m == Len(k) + 1
           kn == [i \in DOMAIN k |-> k[i].n]
           rn == [i \in DOMAIN r |-> r[i].n]
           kt == [i \in DOMAIN k |-> k[i].total]
           rt == [i \in DOMAIN r |-> r[i].total]
<1>1. /\ Len(k) \in Nat /\ DOMAIN k = 1 .. Len(k) /\ DOMAIN r = 1 .. m
      /\ r[m] = x /\ \A i \in 1 .. Len(k) : r[i] = k[i]
  OBVIOUS
<1>2. \A i \in 1 .. Len(k) : k[i].n \in Int /\ k[i].total \in Int
  <2> SUFFICES ASSUME NEW i \in 1 .. Len(k)
               PROVE  k[i].n \in Int /\ k[i].total \in Int
    OBVIOUS
  <2>1. k[i] \in Figure
    BY ElementOfSeq
  <2> QED
    BY <2>1 DEF Figure
<1> HIDE DEF r
<1>3. kn \in Seq(Int) /\ Len(kn) = Len(k) /\ kt \in Seq(Int) /\ Len(kt) = Len(k)
  BY <1>1, <1>2
<1>4. rn = Append(kn, x.n)
  BY <1>1, <1>3
<1>5. rt = Append(kt, x.total)
  BY <1>1, <1>3
<1>6. x.n \in Int /\ x.total \in Int
  BY DEF Figure
<1> HIDE DEF kn, kt, rn, rt
<1>7. /\ Total(rn) = Total(kn) + x.n /\ Total(rt) = Total(kt) + x.total
      /\ Total(kt) \in Int
  BY <1>3, <1>4, <1>5, <1>6, Totals
<1> QED
  BY <1>7 DEF r, kn, kt, rn, rt

\* One more total, one more half cent.
LEMMA OneMoreTotal ==
  ASSUME NEW c \in Nat \ {0}, NEW k \in Nat,
         NEW total \in Int, NEW all \in Int, NEW x \in Int, NEW y \in Int,
         Within(2 * c * total, 2 * all, c * k), Within(2 * c * x, 2 * y, c)
  PROVE  Within(2 * c * (total + x), 2 * (all + y), c * (k + 1))
<1>1. PICK p \in Int : p = 2 * c * total
  OBVIOUS
<1>2. PICK q \in Int : q = 2 * c * x
  OBVIOUS
<1>3. PICK d \in Int : d = c * k
  OBVIOUS
<1>4. 2 * c * (total + x) = p + q /\ c * (k + 1) = d + c
  BY <1>1, <1>2, <1>3
<1>5. /\ p - 2 * all <= d /\ 2 * all - p <= d
      /\ q - 2 * y <= c /\ 2 * y - q <= c
  BY <1>1, <1>2, <1>3 DEF Within
<1>6. /\ (p + q) - 2 * (all + y) <= d + c
      /\ 2 * (all + y) - (p + q) <= d + c
  BY <1>5
<1> QED
  BY <1>4, <1>6 DEF Within

\* The average of a total that is off by half a cent for each of k tenants, who
\* have a record each at least: half a cent of that, and half of its own.
LEMMA AverageClose ==
  ASSUME NEW c \in Nat \ {0}, NEW n \in Nat \ {0}, NEW k \in 0 .. n,
         NEW total \in Int, NEW all \in Int, NEW average \in Nearest(total, n),
         Within(2 * c * total, 2 * all, c * k)
  PROVE  Within(c * n * average, all, c * n)
<1>1. /\ average \in Int
      /\ 2 * (average * n - total) <= n /\ 2 * (total - average * n) <= n
  BY NearestIs
<1>2. PICK p \in Int : p = average * n
  BY <1>1
<1>3. 2 * (p - total) <= n /\ 2 * (total - p) <= n
  BY <1>1, <1>2
<1>4. c * (2 * (p - total)) <= c * n /\ c * (2 * (total - p)) <= c * n
  <2>1. \A u \in Int : u <= n => c * u <= c * n
    OBVIOUS
  <2> QED
    BY <1>3, <2>1
<1>5. c * k <= c * n
  OBVIOUS
<1>6. PICK cp \in Int : cp = c * p
  OBVIOUS
<1>7. PICK ct \in Int : ct = c * total
  OBVIOUS
<1>8. PICK cn \in Int : cn = c * n
  OBVIOUS
<1>9. PICK ck \in Int : ck = c * k
  OBVIOUS
<1>10. /\ c * (2 * (p - total)) = 2 * cp - 2 * ct
       /\ c * (2 * (total - p)) = 2 * ct - 2 * cp
       /\ 2 * c * total = 2 * ct
  BY <1>6, <1>7
<1>11. c * n * average = cp
  BY <1>1, <1>2, <1>6
<1>12. 2 * ct - 2 * all <= ck /\ 2 * all - 2 * ct <= ck
  BY <1>9, <1>10 DEF Within
<1>13. 2 * cp - 2 * ct <= cn /\ 2 * ct - 2 * cp <= cn /\ ck <= cn
  BY <1>4, <1>5, <1>8, <1>9, <1>10
<1>14. cp - all <= cn /\ all - cp <= cn
  BY <1>12, <1>13
<1> QED
  BY <1>8, <1>11, <1>14 DEF Within

LEMMA UnionStep == UnionInv /\ Typed => UnionInv'
<1> SUFFICES ASSUME UnionInv, Typed PROVE UnionInv'
  OBVIOUS
<1>0. /\ DOMAIN kept = Names /\ DOMAIN told = Names
      /\ kept.tenants \in Seq(Figure)
      /\ told.tenants \in Seq(Records)
  BY Domains, PutType DEF Typed, TypeOK, Lists, Figure
<1>1. CASE kept'.tenants = kept.tenants /\ told'.tenants = told.tenants
  BY <1>1 DEF UnionInv
<1>2. ASSUME NEW records \in Records, NEW x \in Processed(records),
             kept'.tenants = Append(kept.tenants, x),
             told'.tenants = Append(told.tenants, records)
      PROVE  UnionInv'
  <2> DEFINE all == FlattenSeq(told.tenants)
             k == kept.tenants
             r == Append(k, x)
             more == FlattenSeq(Append(told.tenants, records))
             kn == Total([i \in DOMAIN k |-> k[i].n])
             rn == Total([i \in DOMAIN r |-> r[i].n])
             kt == Total([i \in DOMAIN k |-> k[i].total])
             rt == Total([i \in DOMAIN r |-> r[i].total])
  <2>0. /\ x \in Figure /\ x.n = Len(records) /\ x.n \in Nat \ {0}
        /\ records \in Seq(Int) /\ Total(records) \in Int
        /\ Within(2 * Cent * x.total, 2 * Total(records), Cent)
    BY ProcessedType
  <2>1. told.tenants \in Seq(Seq(Int)) /\ all \in Seq(Int)
    BY <1>0, FeatureAssumption, SeqMonotonic DEF UnionInv
  <2>2. more = all \o records
    BY <2>0, <2>1, Flattened
  <2>3. more \in Seq(Int) /\ Len(more) = Len(all) + Len(records)
    <3> HIDE DEF all, more
    <3> QED
      BY <2>0, <2>1, <2>2
  <2>4. Total(more) = Total(all) + Total(records) /\ Total(all) \in Int
    <3> HIDE DEF all, more
    <3>1. Total(all \o records) = Total(all) + Total(records)
      BY <2>0, <2>1, TotalConcat
    <3> QED
      BY <2>1, <2>2, <3>1, Totals
  <2>5. /\ rn = kn + x.n
        /\ rt = kt + x.total /\ kt \in Int
    BY <1>0, <2>0, Figures
  <2>6. /\ kn = Len(all)
        /\ Len(k) <= Len(all)
        /\ Within(2 * Cent * kt, 2 * Total(all), Cent * Len(k))
    BY DEF UnionInv
  <2>7. Len(k) \in Nat /\ Len(r) = Len(k) + 1 /\ Len(all) \in Nat
    BY <1>0, <2>1
  <2> HIDE DEF all, k, r, more, kn, rn, kt, rt
  <2>8. rn = Len(more) /\ Len(r) <= Len(more)
    BY <2>0, <2>3, <2>5, <2>6, <2>7
  <2>9. Within(2 * Cent * (kt + x.total), 2 * (Total(all) + Total(records)),
               Cent * (Len(k) + 1))
    <3>1. x.total \in Int /\ Cent \in Nat \ {0}
      BY <2>0, FeatureAssumption DEF Figure
    <3> QED
      BY <2>0, <2>4, <2>5, <2>6, <2>7, <3>1, OneMoreTotal
  <2>10. Within(2 * Cent * rt, 2 * Total(more), Cent * Len(r))
    BY <2>4, <2>5, <2>7, <2>9
  <2> QED
    BY <1>2, <2>3, <2>8, <2>10 DEF UnionInv, k, r, more, rn, rt
<1>3. CASE UNCHANGED lists
  BY <1>1, <1>3 DEF lists
<1>4. ASSUME NEW list, NEW x, Plain(list, x),
             kept' = [kept EXCEPT ![list] = Append(kept[list], x)],
             told' = [told EXCEPT ![list] = Append(told[list], x)]
      PROVE  kept'.tenants = kept.tenants /\ told'.tenants = told.tenants
  BY <1>0, <1>4 DEF Plain, Names
<1>5. ASSUME NEW records \in Records, NEW x \in Processed(records),
             kept' = [kept EXCEPT !["tenants"] = Append(kept["tenants"], x)],
             told' = [told EXCEPT !["tenants"] = Append(told["tenants"], records)]
      PROVE  UnionInv'
  <2>1. /\ kept'.tenants = Append(kept.tenants, x)
        /\ told'.tenants = Append(told.tenants, records)
    BY <1>0, <1>5 DEF Names
  <2> QED
    BY <1>2, <2>1
<1> QED
  BY <1>1, <1>3, <1>4, <1>5, ListSteps

\* AggregateClose: what the tenants' rounded figures are combined to is as
\* close to what all their records would give together, however many tenants
\* there are and however many records each of them has.
THEOREM AggregatesClose == Spec => []AggregateClose
<1>1. Init => UnionInv
  <2> SUFFICES ASSUME Init PROVE UnionInv
    OBVIOUS
  <2>1. kept.tenants = <<>> /\ told.tenants = <<>>
    BY DEF Init, Nothing
  <2>2. ASSUME NEW k, k = <<>>
        PROVE  /\ [i \in DOMAIN k |-> k[i].n] = <<>>
               /\ [i \in DOMAIN k |-> k[i].total] = <<>>
    BY <2>2
  <2>3. /\ FlattenSeq(told.tenants) = <<>>
        /\ Total([i \in DOMAIN kept.tenants |-> kept.tenants[i].n]) = 0
        /\ Total([i \in DOMAIN kept.tenants |-> kept.tenants[i].total]) = 0
    BY <2>1, <2>2, Flattened, Totals
  <2>4. Total(FlattenSeq(told.tenants)) = 0
    BY <2>3, Totals
  <2>5. <<>> \in Seq(Int) /\ Len(<<>>) = 0 /\ Len(kept.tenants) = 0
    BY <2>1
  <2>6. Within(2 * Cent * 0, 2 * 0, Cent * 0)
    BY FeatureAssumption DEF Within
  <2> QED
    BY <2>3, <2>4, <2>5, <2>6 DEF UnionInv
<1>2. UnionInv /\ (TypeOK /\ ToldType) /\ [Next]_vars => UnionInv'
  BY UnionStep DEF Typed
<1>3. UnionInv /\ TypeOK => AggregateClose
  <2> SUFFICES ASSUME UnionInv, TypeOK, kept.tenants # <<>>,
                      NEW figures \in Aggregate(kept.tenants)
               PROVE  LET all == FlattenSeq(told.tenants) IN
                      /\ figures.n = Len(all)
                      /\ Within(2 * Cent * figures.total, 2 * Total(all),
                                Cent * Len(kept.tenants))
                      /\ Within(Cent * Len(all) * figures.average, Total(all),
                                Cent * Len(all))
    BY DEF AggregateClose
  <2> DEFINE all == FlattenSeq(told.tenants)
             k == kept.tenants
             n == Total([i \in DOMAIN k |-> k[i].n])
             total == Total([i \in DOMAIN k |-> k[i].total])
  <2>1. k \in Seq(Figure)
    BY PutType DEF TypeOK, Lists, Figure
  <2>2. total \in Int
    <3>1. \A i \in 1 .. Len(k) : k[i].total \in Int
      <4> SUFFICES ASSUME NEW i \in 1 .. Len(k) PROVE k[i].total \in Int
        OBVIOUS
      <4>1. k[i] \in Figure
        BY <2>1, ElementOfSeq
      <4> QED
        BY <4>1 DEF Figure
    <3> HIDE DEF k
    <3>2. [i \in DOMAIN k |-> k[i].total] \in Seq(Int)
      BY <2>1, <3>1
    <3> QED
      BY <3>2, Totals
  <2>3. /\ all \in Seq(Int) /\ n = Len(all) /\ Len(k) <= Len(all)
        /\ Within(2 * Cent * total, 2 * Total(all), Cent * Len(k))
    BY DEF UnionInv
  <2>4. PICK average \in Nearest(total, n) :
          figures = [n |-> n, total |-> total, average |-> average]
    BY DEF Aggregate
  <2> HIDE DEF all, k, n, total
  <2>5. Len(k) \in Nat \ {0} /\ Len(all) \in Nat \ {0} /\ Total(all) \in Int
    <3>1. Len(k) \in Nat \ {0}
      BY <2>1 DEF k
    <3>2. Len(all) \in Nat /\ Total(all) \in Int
      BY <2>3, Totals
    <3> QED
      BY <2>3, <3>1, <3>2
  <2>6. Within(Cent * n * average, Total(all), Cent * n)
    <3>1. n \in Nat \ {0} /\ Len(k) \in 0 .. n /\ Cent \in Nat \ {0}
      BY <2>3, <2>5, FeatureAssumption
    <3> QED
      BY <2>2, <2>3, <2>4, <2>5, <3>1, AverageClose
  <2>7. figures.n = n /\ figures.total = total /\ figures.average = average
    BY <2>4
  <2> QED
    BY <2>3, <2>6, <2>7 DEF all, k
<1> QED
  BY <1>1, <1>2, <1>3, FeatureTypes, PTL DEF Spec

-----------------------------------------------------------------------------
(***************************************************************************)
(* The auction                                                             *)
(***************************************************************************)

\* The winner is the first of the lowest bids of some beginning of the list.
WinnerInv ==
  winner # None =>
    \E k \in 1 .. Len(kept.bids) :
      \E n \in 1 .. k : IsLowest(kept.bids, n, k) /\ winner = kept.bids[n]

\* The list of bids only grows.
LEMMA BidsGrow ==
  ASSUME Typed
  PROVE  /\ kept.bids \in Seq(Bid) /\ kept'.bids \in Seq(Bid)
         /\ Len(kept.bids) <= Len(kept'.bids)
         /\ \A i \in 1 .. Len(kept.bids) : kept'.bids[i] = kept.bids[i]
<1>0. DOMAIN kept = Names /\ kept.bids \in Seq(Bid)
  BY Domains, PutType DEF Typed, TypeOK, Lists
<1>1. CASE UNCHANGED lists
  BY <1>0, <1>1 DEF lists
<1>2. ASSUME NEW list, NEW x, Plain(list, x),
             kept' = [kept EXCEPT ![list] = Append(kept[list], x)]
      PROVE  \/ kept'.bids = kept.bids
             \/ x \in Bid /\ kept'.bids = Append(kept.bids, x)
  BY <1>0, <1>2 DEF Plain, Names
<1>3. ASSUME NEW records \in Records, NEW x \in Processed(records),
             kept' = [kept EXCEPT !["tenants"] = Append(kept["tenants"], x)]
      PROVE  kept'.bids = kept.bids
  BY <1>0, <1>3 DEF Names
<1>4. \/ kept'.bids = kept.bids
      \/ \E x \in Bid : kept'.bids = Append(kept.bids, x)
  BY <1>1, <1>2, <1>3, ListSteps DEF lists
<1> QED
  BY <1>0, <1>4

LEMMA WinnerStep == WinnerInv /\ Typed => WinnerInv'
<1> SUFFICES ASSUME WinnerInv, Typed PROVE WinnerInv'
  OBVIOUS
<1>1. CASE Resolve
  <2>1. /\ kept.bids \in Seq(Bid) /\ kept.bids # <<>> /\ kept' = kept
        /\ winner' = Lowest(kept.bids)
    BY <1>1, BidsGrow DEF Resolve, lists
  <2>2. PICK n \in 1 .. Len(kept.bids) :
          IsLowest(kept.bids, n, Len(kept.bids)) /\ winner' = kept.bids[n]
    BY <2>1, LowestIs
  <2>3. Len(kept.bids) \in 1 .. Len(kept.bids)
    BY <2>1
  <2> QED
    BY <2>1, <2>2, <2>3 DEF WinnerInv
<1>2. CASE ~Resolve
  <2>1. winner' = winner
    <3>1. CASE Telling
      BY <3>1, Tellings
    <3>2. CASE ~Telling
      BY <1>2, <3>2 DEF Typed, Next, Telling, IssueGrant, StoreSecret,
           InvokeWithSecret, LockBond, SettleBond, Tick, vars
    <3> QED
      BY <3>1, <3>2
  <2> SUFFICES ASSUME winner # None
               PROVE  \E k \in 1 .. Len(kept'.bids) : \E n \in 1 .. k :
                        IsLowest(kept'.bids, n, k) /\ winner = kept'.bids[n]
    BY <2>1 DEF WinnerInv
  <2>1a. PICK k \in 1 .. Len(kept.bids) : \E n \in 1 .. k :
          IsLowest(kept.bids, n, k) /\ winner = kept.bids[n]
    BY DEF WinnerInv
  <2>2. PICK n \in 1 .. k : IsLowest(kept.bids, n, k) /\ winner = kept.bids[n]
    BY <2>1a
  <2>3. Len(kept.bids) \in Nat /\ Len(kept'.bids) \in Nat
    BY BidsGrow
  <2>4. k \in 1 .. Len(kept'.bids)
    BY <2>3, BidsGrow
  <2>5. \A i \in 1 .. k : kept'.bids[i] = kept.bids[i]
    BY <2>3, BidsGrow
  <2>6. IsLowest(kept'.bids, n, k) /\ winner = kept'.bids[n]
    BY <2>2, <2>5 DEF IsLowest
  <2> QED
    BY <2>4, <2>6
<1> QED
  BY <1>1, <1>2

\* Resolving again, when some bids have come since.
LEMMA WinnerKept ==
  ASSUME WinnerInv, Typed, winner # None, winner' # winner
  PROVE  winner'.amount < winner.amount
<1>1. CASE Resolve
  <2> DEFINE bids == kept.bids
  <2>1. bids \in Seq(Bid) /\ bids # <<>> /\ winner' = Lowest(bids)
    BY <1>1, BidsGrow DEF Resolve
  <2>2. PICK m \in 1 .. Len(bids) : IsLowest(bids, m, Len(bids)) /\ winner' = bids[m]
    BY <2>1, LowestIs
  <2>a. PICK k \in 1 .. Len(bids) : \E n \in 1 .. k :
          IsLowest(bids, n, k) /\ winner = bids[n]
    BY DEF WinnerInv
  <2>3. PICK n \in 1 .. k : IsLowest(bids, n, k) /\ winner = bids[n]
    BY <2>a
  <2>4. Len(bids) \in Nat /\ n \in 1 .. Len(bids)
    BY <2>1
  <2>5. bids[m].amount \in Nat /\ bids[n].amount \in Nat
    BY <2>1, <2>4, BidAmounts
  <2> HIDE DEF bids
  <2>6. \/ bids[m].amount < bids[n].amount
        \/ bids[m].amount = bids[n].amount /\ m <= n
    BY <2>2, <2>4 DEF IsLowest
  <2>7. m # n
    BY <2>2, <2>3
  <2>8. CASE m <= n
    <3>1. m \in 1 .. k
      BY <2>4, <2>8
    <3>2. \/ bids[n].amount < bids[m].amount
          \/ bids[n].amount = bids[m].amount /\ n <= m
      BY <2>3, <3>1 DEF IsLowest
    <3> QED
      BY <2>2, <2>3, <2>4, <2>5, <2>6, <2>7, <2>8, <3>2
  <2>9. CASE ~(m <= n)
    BY <2>2, <2>3, <2>6, <2>9
  <2> QED
    BY <2>8, <2>9
<1>2. CASE ~Resolve
  <2>1. winner' = winner
    <3>1. CASE Telling
      BY <3>1, Tellings
    <3>2. CASE ~Telling
      BY <1>2, <3>2 DEF Typed, Next, Telling, IssueGrant, StoreSecret,
           InvokeWithSecret, LockBond, SettleBond, Tick, vars
    <3> QED
      BY <3>1, <3>2
  <2> QED
    BY <2>1
<1> QED
  BY <1>1, <1>2

\* WinnerStable: an auction that is resolved again goes to another bidder only
\* for less.
THEOREM WinnersStable == Spec => WinnerStable
<1>1. Init => WinnerInv
  BY DEF Init, WinnerInv
<1>2. WinnerInv /\ (TypeOK /\ ToldType) /\ [Next]_vars => WinnerInv'
  BY WinnerStep DEF Typed
<1>3. WinnerInv /\ (TypeOK /\ ToldType) /\ [Next]_vars
        => [winner # None /\ winner' # winner
              => winner'.amount < winner.amount]_winner
  BY WinnerKept DEF Typed
<1> QED
  BY <1>1, <1>2, <1>3, FeatureTypes, PTL DEF Spec, WinnerStable

-----------------------------------------------------------------------------
(***************************************************************************)
(* Grants, the vault and bonds                                             *)
(***************************************************************************)

\* The agent keeps of each token the expiry it was issued with, and a token
\* that is issued again has the same one.
GrantInv == \A g \in issued : /\ g.token \in DOMAIN grants
                              /\ grants[g.token] = g.until
                              /\ g.token.until = g.until

LEMMA GrantStep == GrantInv /\ Typed => GrantInv'
<1> SUFFICES ASSUME GrantInv, Typed PROVE GrantInv'
  OBVIOUS
<1>1. CASE \E a \in Dids, term \in Terms : IssueGrant(a, term)
  <2>1. PICK a \in Dids, term \in Terms : IssueGrant(a, term)
    BY <1>1
  <2> DEFINE until == clock + term
             token == TokenOf(a, until)
  <2>2. /\ grants' = [t \in DOMAIN grants \cup {token} |->
                        IF t = token THEN until ELSE grants[t]]
        /\ issued' = issued \cup {[token |-> token, until |-> until]}
    BY <2>1 DEF IssueGrant
  <2>3. token.until = until
    BY DEF TokenOf
  <2> HIDE DEF token, until
  <2>4. ASSUME NEW g \in issued
        PROVE  /\ g.token \in DOMAIN grants' /\ grants'[g.token] = g.until
               /\ g.token.until = g.until
    BY <2>2, <2>3, <2>4 DEF GrantInv
  <2> QED
    BY <2>2, <2>3, <2>4 DEF GrantInv
<1>2. CASE UNCHANGED <<grants, issued>>
  BY <1>2 DEF GrantInv
<1>3. ~(\E a \in Dids, term \in Terms : IssueGrant(a, term))
        => UNCHANGED <<grants, issued>>
  <2>1. CASE Telling
    BY <2>1, Tellings
  <2>2. CASE ~Telling
    BY <2>2 DEF Typed, Next, Telling, Resolve, StoreSecret, InvokeWithSecret,
         LockBond, SettleBond, Tick, vars
  <2> QED
    BY <2>1, <2>2
<1> QED
  BY <1>1, <1>2, <1>3

\* GrantUntilExpiry: each token is valid until its expiry and no longer.
THEOREM GrantsExpire == Spec => []GrantUntilExpiry
<1>1. Init => GrantInv
  BY DEF Init, GrantInv
<1>2. GrantInv /\ (TypeOK /\ ToldType) /\ [Next]_vars => GrantInv'
  BY GrantStep DEF Typed
<1>3. GrantInv => GrantUntilExpiry
  BY DEF GrantInv, GrantUntilExpiry, Valid
<1> QED
  BY <1>1, <1>2, <1>3, FeatureTypes, PTL DEF Spec

\* Who is allowed is the list stored last, and each use was allowed by the
\* list that was the last one then.
VaultInv ==
  /\ vault # None => stored # <<>> /\ vault = stored[Len(stored)]
  /\ \A u \in uses : /\ u.after \in 1 .. Len(stored)
                     /\ u.by = Owner \/ u.by \in stored[u.after]

LEMMA VaultStep == VaultInv /\ Typed => VaultInv'
<1> SUFFICES ASSUME VaultInv, Typed PROVE VaultInv'
  OBVIOUS
<1>0. stored \in Seq(SUBSET Dids) /\ Len(stored) \in Nat
  BY DEF Typed, TypeOK
<1>1. CASE \E allowed \in SUBSET Dids : StoreSecret(allowed)
  <2>1. PICK allowed \in SUBSET Dids : StoreSecret(allowed)
    BY <1>1
  <2> DEFINE r == Append(stored, allowed)
  <2>2. vault' = allowed /\ stored' = r /\ uses' = uses
    BY <2>1 DEF StoreSecret
  <2>3. /\ r # <<>> /\ Len(r) = Len(stored) + 1 /\ r[Len(r)] = allowed
        /\ \A i \in 1 .. Len(stored) : r[i] = stored[i]
    BY <1>0
  <2> HIDE DEF r
  <2> QED
    BY <1>0, <2>2, <2>3 DEF VaultInv
<1>2. CASE \E d \in Dids \cup {Owner} : InvokeWithSecret(d)
  <2>1. PICK d \in Dids \cup {Owner} : InvokeWithSecret(d)
    BY <1>2
  <2>2. /\ vault # None /\ d \in vault \cup {Owner}
        /\ uses' = uses \cup {[by |-> d, after |-> Len(stored)]}
        /\ UNCHANGED <<vault, stored>>
    BY <2>1 DEF InvokeWithSecret
  <2>3. Len(stored) \in 1 .. Len(stored) /\ vault = stored[Len(stored)]
    BY <1>0, <2>2 DEF VaultInv
  <2> QED
    BY <2>2, <2>3 DEF VaultInv
<1>3. CASE UNCHANGED secret
  BY <1>3 DEF secret, VaultInv
<1>4. \/ \E allowed \in SUBSET Dids : StoreSecret(allowed)
      \/ \E d \in Dids \cup {Owner} : InvokeWithSecret(d)
      \/ UNCHANGED secret
  <2>1. CASE Telling
    BY <2>1, Tellings
  <2>2. CASE ~Telling
    BY <2>2 DEF Typed, Next, Telling, Resolve, IssueGrant, LockBond, SettleBond,
         Tick, vars
  <2> QED
    BY <2>1, <2>2
<1> QED
  BY <1>1, <1>2, <1>3, <1>4

\* UsedAsStored: storing the secret again takes back what was allowed before.
THEOREM SecretsUsedAsStored == Spec => []UsedAsStored
<1>1. Init => VaultInv
  BY DEF Init, VaultInv
<1>2. VaultInv /\ (TypeOK /\ ToldType) /\ [Next]_vars => VaultInv'
  BY VaultStep DEF Typed
<1>3. VaultInv => UsedAsStored
  BY DEF VaultInv, UsedAsStored
<1> QED
  BY <1>1, <1>2, <1>3, FeatureTypes, PTL DEF Spec

\* Lock l is the last one of agent a among the first n.
LastLock(a, n, l) == /\ l \in 1 .. n
                     /\ locks[l].agent = a
                     /\ \A i \in 1 .. n : locks[i].agent = a => i <= l

\* Covered(p, l): what p paid is covered by lock l.
Covered(p, l) ==
  LET share == IF p.at > locks[l].deadline THEN 50 ELSE 100 IN
  2 * 100 * Cent * p.amount <= 2 * share * locks[l].amount + 100 * Cent

\* Each agent's bond is its last lock, and each settlement was covered by the
\* lock that was the last one then.
BondInv ==
  /\ \A a \in DOMAIN bonds :
       \E l \in 1 .. Len(locks) :
         /\ LastLock(a, Len(locks), l)
         /\ bonds[a].amount = locks[l].amount
         /\ bonds[a].deadline = locks[l].deadline
  /\ \A p \in paid :
       /\ p.after \in 0 .. Len(locks)
       /\ \E l \in 1 .. p.after : LastLock(p.agent, p.after, l) /\ Covered(p, l)

\* Locking: the new lock is the agent's last one, and nobody else's.
LEMMA LockStep ==
  ASSUME BondInv, Typed, NEW a \in Dids, NEW amount \in Amounts,
         NEW term \in Terms, LockBond(a, amount, term)
  PROVE  BondInv'
<1>0. PICK n : n = Len(locks)
  OBVIOUS
<1>a. PICK now : now = clock
  OBVIOUS
<1> DEFINE bond == [amount |-> amount, deadline |-> now + term]
           lock == [agent |-> a, amount |-> amount, deadline |-> now + term]
<1>1. bonds' = Bonded(a, bond) /\ locks' = Append(locks, lock) /\ paid' = paid
  BY <1>a DEF LockBond
<1>2. /\ n \in Nat /\ Len(locks') = n + 1 /\ locks'[n + 1] = lock
      /\ \A i \in 1 .. n : locks'[i] = locks[i]
  <2>1. locks \in Seq([agent : Dids, amount : Amounts, deadline : Nat])
    BY DEF Typed, TypeOK
  <2> HIDE DEF lock
  <2> QED
    BY <1>0, <1>1, <2>1
<1>3. /\ lock.agent = a /\ lock.amount = bond.amount
      /\ lock.deadline = bond.deadline
  OBVIOUS
<1> HIDE DEF lock, bond
<1>4. ASSUME NEW b \in DOMAIN bonds'
      PROVE  \E l \in 1 .. n + 1 :
               /\ LastLock(b, Len(locks), l)'
               /\ bonds'[b].amount = locks'[l].amount
               /\ bonds'[b].deadline = locks'[l].deadline
  <2>1. CASE b = a
    <3>1. bonds'[b] = bond
      BY <1>1, <2>1 DEF Bonded
    <3>2. n + 1 \in 1 .. n + 1 /\ \A i \in 1 .. n + 1 : i <= n + 1
      BY <1>2
    <3>3. LastLock(b, Len(locks), n + 1)'
      BY <1>2, <1>3, <2>1, <3>2 DEF LastLock
    <3> QED
      BY <1>2, <1>3, <3>1, <3>2, <3>3
  <2>2. CASE b # a
    <3>1. b \in DOMAIN bonds /\ bonds'[b] = bonds[b]
      BY <1>1, <2>2 DEF Bonded
    <3>2. PICK l \in 1 .. n : /\ LastLock(b, n, l)
                              /\ bonds[b].amount = locks[l].amount
                              /\ bonds[b].deadline = locks[l].deadline
      BY <1>0, <3>1 DEF BondInv
    <3>3. locks'[l] = locks[l] /\ l \in 1 .. n + 1
      BY <1>2
    <3>4. LastLock(b, Len(locks), l)'
      <4>1. \A i \in 1 .. n + 1 : i \in 1 .. n \/ i = n + 1
        BY <1>2
      <4>2. \A i \in 1 .. n : locks'[i].agent = b => i <= l
        BY <1>2, <3>2 DEF LastLock
      <4>3. locks'[n + 1].agent # b /\ locks'[l].agent = b
        BY <1>2, <1>3, <2>2, <3>2, <3>3 DEF LastLock
      <4> QED
        BY <1>2, <3>3, <4>1, <4>2, <4>3 DEF LastLock
    <3> QED
      BY <3>1, <3>2, <3>3, <3>4
  <2> QED
    BY <2>1, <2>2
<1>5. ASSUME NEW p \in paid
      PROVE  /\ p.after \in 0 .. n + 1
             /\ \E l \in 1 .. p.after : LastLock(p.agent, p.after, l)' /\ Covered(p, l)'
  <2>1. p.after \in 0 .. n
    BY <1>0 DEF BondInv
  <2>2. PICK l \in 1 .. p.after : LastLock(p.agent, p.after, l) /\ Covered(p, l)
    BY DEF BondInv
  <2>3. p.after \in Nat /\ \A i \in 1 .. p.after : locks'[i] = locks[i]
    BY <1>2, <2>1
  <2>4. LastLock(p.agent, p.after, l)' /\ Covered(p, l)'
    BY <2>2, <2>3 DEF LastLock, Covered
  <2> QED
    BY <1>2, <2>1, <2>4
<1> QED
  BY <1>1, <1>2, <1>4, <1>5 DEF BondInv

\* What is paid of a share of at most `most' percent, rounded to the cent.
LEMMA PaidShare ==
  ASSUME NEW amount \in Nat, NEW most \in Nat, NEW share \in 0 .. most,
         NEW cent \in Nat \ {0}, NEW m \in Nearest(amount * share, 100 * cent)
  PROVE  2 * 100 * cent * m <= 2 * most * amount + 100 * cent
<1>1. PICK whole \in Nat : whole = amount * share /\ whole <= most * amount
  BY Times
<1>2. PICK count \in Nat \ {0} : count = 100 * cent
  OBVIOUS
<1>3. m \in Int /\ 2 * (m * count - whole) <= count
  BY <1>1, <1>2, NearestIs
<1>4. PICK p \in Int : p = m * count
  BY <1>3
<1>5. 2 * 100 * cent * m = 2 * p
  BY <1>2, <1>3, <1>4
<1>6. PICK q \in Int : q = most * amount
  OBVIOUS
<1>7. 2 * most * amount = 2 * q
  BY <1>6
<1> QED
  BY <1>1, <1>2, <1>3, <1>4, <1>5, <1>6, <1>7

\* Settling: what is paid is a share of the agent's bond.
LEMMA SettleStep ==
  ASSUME BondInv, Typed, NEW a \in Dids, NEW completed \in BOOLEAN,
         NEW quality \in Qualities, SettleBond(a, completed, quality)
  PROVE  BondInv'
<1> DEFINE share == Payout(bonds[a], clock, completed, quality)
           amount == bonds[a].amount
<1>0. PICK cents \in Nearest(amount * share, 100 * Cent) :
        paid' = paid \cup {[agent |-> a, after |-> Len(locks), at |-> clock,
                            amount |-> cents]}
  BY DEF SettleBond
<1> DEFINE p == [agent |-> a, after |-> Len(locks), at |-> clock,
                 amount |-> cents]
<1>1. /\ a \in DOMAIN bonds /\ paid' = paid \cup {p}
      /\ UNCHANGED <<bonds, locks>>
  BY <1>0 DEF SettleBond
<1>2. /\ bonds[a] \in Bond /\ clock \in Nat /\ Len(locks) \in Nat
      /\ amount \in Nat /\ bonds[a].deadline \in Nat
  <2>1. bonds[a] \in Bond
    BY <1>1 DEF Typed, TypeOK
  <2>2. clock \in 0 .. MaxClock
    BY DEF Typed, TypeOK
  <2>3. locks \in Seq([agent : Dids, amount : Amounts, deadline : Nat])
    BY DEF Typed, TypeOK
  <2>4. Len(locks) \in Nat
    BY <2>3
  <2>5. amount \in Nat /\ bonds[a].deadline \in Nat
    BY <2>1, FeatureAssumption DEF Bond
  <2>6. clock \in Nat
    BY <2>2, FeatureAssumption
  <2> QED
    BY <2>1, <2>4, <2>5, <2>6
<1>3. PICK l \in 1 .. Len(locks) :
        /\ LastLock(a, Len(locks), l)
        /\ amount = locks[l].amount /\ bonds[a].deadline = locks[l].deadline
  BY <1>1 DEF BondInv
<1>4. /\ p.agent = a /\ p.after = Len(locks) /\ p.at = clock
      /\ p.amount = cents
  OBVIOUS
<1>5. share \in 0 .. 100 /\ (clock > bonds[a].deadline => share \in 0 .. 50)
  BY <1>2, PayoutBound
<1> HIDE DEF share, p
<1>6. Covered(p, l)
  <2>0. Cent \in Nat \ {0}
    BY FeatureAssumption
  <2>1. CASE clock > bonds[a].deadline
    <3>1. share \in 0 .. 50
      BY <1>5, <2>1
    <3>2. 2 * 100 * Cent * cents <= 2 * 50 * amount + 100 * Cent
      BY <1>0, <1>2, <2>0, <3>1, PaidShare
    <3> QED
      BY <1>3, <1>4, <2>1, <3>2 DEF Covered
  <2>2. CASE ~(clock > bonds[a].deadline)
    <3>1. 2 * 100 * Cent * cents <= 2 * 100 * amount + 100 * Cent
      BY <1>0, <1>2, <1>5, <2>0, PaidShare
    <3> QED
      BY <1>3, <1>4, <2>2, <3>1 DEF Covered
  <2> QED
    BY <2>1, <2>2
<1>7. /\ p.after \in 0 .. Len(locks)
      /\ \E m \in 1 .. p.after : LastLock(p.agent, p.after, m) /\ Covered(p, m)
  BY <1>2, <1>3, <1>4, <1>6
<1>8. ASSUME NEW q \in paid \cup {p}
      PROVE  /\ q.after \in 0 .. Len(locks)
             /\ \E m \in 1 .. q.after : LastLock(q.agent, q.after, m) /\ Covered(q, m)
  BY <1>7 DEF BondInv
<1>9. PICK P : P = paid \cup {p}
  OBVIOUS
<1>10. paid' = P
  BY <1>1, <1>9
<1>11. \A q \in P :
         /\ q.after \in 0 .. Len(locks)
         /\ \E m \in 1 .. q.after : LastLock(q.agent, q.after, m) /\ Covered(q, m)
  BY <1>8, <1>9
<1> QED
  BY <1>1, <1>10, <1>11 DEF BondInv, LastLock, Covered


LEMMA BondStep == BondInv /\ Typed => BondInv'
<1> SUFFICES ASSUME BondInv, Typed PROVE BondInv'
  OBVIOUS
<1>1. CASE \E a \in Dids, amount \in Amounts, term \in Terms :
             LockBond(a, amount, term)
  BY <1>1, LockStep
<1>2. CASE \E a \in Dids, completed \in BOOLEAN, quality \in Qualities :
             SettleBond(a, completed, quality)
  BY <1>2, SettleStep
<1>3. CASE UNCHANGED escrow
  BY <1>3 DEF escrow, BondInv, LastLock, Covered
<1>4. \/ \E a \in Dids, amount \in Amounts, term \in Terms :
           LockBond(a, amount, term)
      \/ \E a \in Dids, completed \in BOOLEAN, quality \in Qualities :
           SettleBond(a, completed, quality)
      \/ UNCHANGED escrow
  <2>1. CASE Telling
    BY <2>1, Tellings
  <2>2. CASE ~Telling
    BY <2>2 DEF Typed, Next, Telling, Resolve, IssueGrant, StoreSecret,
         InvokeWithSecret, Tick, vars
  <2> QED
    BY <2>1, <2>2
<1> QED
  BY <1>1, <1>2, <1>3, <1>4

\* The last lock is the one the search finds.
LEMMA LastLockFound ==
  ASSUME NEW a, NEW n \in Nat, NEW l, LastLock(a, n, l)
  PROVE  LET I == {i \in 1 .. n : locks[i].agent = a} IN I # {} /\ Max(I) = l
<1> DEFINE I == {i \in 1 .. n : locks[i].agent = a}
<1>1. l \in I /\ \A i \in I : l >= i
  BY DEF LastLock
<1>2. I \subseteq Int
  OBVIOUS
<1> HIDE DEF I
<1>4. Max(I) = l
  <2> DEFINE P(m) == \A i \in I : m >= i
             c == CHOOSE m \in I : P(m)
  <2>1. c \in I /\ P(c)
    <3>1. l \in I /\ P(l)
      BY <1>1
    <3> HIDE DEF P
    <3> QED
      BY <3>1
  <2>2. Max(I) = c
    BY DEF Max
  <2> HIDE DEF c
  <2>3. c = l
    BY <1>1, <1>2, <2>1
  <2> QED
    BY <2>2, <2>3
<1> QED
  BY <1>1, <1>4 DEF I

\* PaidFromLastLock: no settlement pays more than the bond the agent locked
\* last, and none that is late for it more than half, but for the rounding of
\* what is paid.
THEOREM SettlementsCovered == Spec => []PaidFromLastLock
<1>1. Init => BondInv
  <2> SUFFICES ASSUME Init PROVE BondInv
    OBVIOUS
  <2>1. DOMAIN bonds = {} /\ paid = {}
    BY DEF Init
  <2> QED
    BY <2>1 DEF BondInv
<1>2. BondInv /\ (TypeOK /\ ToldType) /\ [Next]_vars => BondInv'
  BY BondStep DEF Typed
<1>3. BondInv /\ TypeOK => PaidFromLastLock
  <2> SUFFICES ASSUME BondInv, TypeOK, NEW p \in paid
               PROVE  LET I == {i \in 1 .. p.after : locks[i].agent = p.agent}
                          lock == IF I # {} THEN Max(I) ELSE 0
                          share == IF p.at > locks[lock].deadline
                                   THEN 50 ELSE 100 IN
                      2 * 100 * Cent * p.amount
                        <= 2 * share * locks[lock].amount + 100 * Cent
    BY DEF PaidFromLastLock, SelectLastInSubSeq
  <2>1. PICK l \in 1 .. p.after : LastLock(p.agent, p.after, l) /\ Covered(p, l)
    BY DEF BondInv
  <2>2. p.after \in Nat
    BY DEF TypeOK
  <2> DEFINE I == {i \in 1 .. p.after : locks[i].agent = p.agent}
  <2>3. I # {} /\ Max(I) = l
    BY <2>1, <2>2, LastLockFound
  <2> HIDE DEF I
  <2>4. LET share == IF p.at > locks[l].deadline THEN 50 ELSE 100 IN
        2 * 100 * Cent * p.amount <= 2 * share * locks[l].amount + 100 * Cent
    BY <2>1 DEF Covered
  <2> QED
    BY <2>3, <2>4 DEF I
<1> QED
  BY <1>1, <1>2, <1>3, FeatureTypes, PTL DEF Spec

-----------------------------------------------------------------------------
(***************************************************************************)
(* The ranking                                                             *)
(***************************************************************************)

\* If nothing exceeds k, the total does not exceed k for each position.
LEMMA SumBound ==
  ASSUME NEW f, IsFiniteSet(DOMAIN f), NEW k \in Nat,
         \A i \in DOMAIN f : f[i] \in 0 .. k
  PROVE  \A t \in SUBSET DOMAIN f : Sum(f)[t] <= k * Cardinality(t)
<1> DEFINE S == DOMAIN f
           T == {n \in Nat : \A t \in Small(S, n) : Sum(f)[t] <= k * Cardinality(t)}
<1>0. /\ Small(S, 0) = {{}}
      /\ \A n \in Nat : \A t \in Small(S, n + 1) : \A i \in t : t \ {i} \in Small(S, n)
      /\ \E n \in Nat : SUBSET S = Small(S, n)
  BY SmallFacts
<1>1. ASSUME NEW t, t = {} PROVE Sum(f)[t] <= k * Cardinality(t)
  <2>1. Sum(f)[t] = 0 /\ Cardinality(t) = 0
    BY <1>1, SumStep, FS_EmptySet
  <2> QED
    BY <2>1
<1>2. 0 \in T
  BY <1>0, <1>1
<1>3. ASSUME NEW n \in Nat, n \in T PROVE n + 1 \in T
  <2>1. ASSUME NEW t \in Small(S, n + 1) PROVE Sum(f)[t] <= k * Cardinality(t)
    <3>1. CASE t = {}
      BY <1>1, <3>1
    <3>2. CASE t # {}
      <4>1. PICK i : i = One(t)
        OBVIOUS
      <4>2. /\ i \in t /\ t \in SUBSET S /\ IsFiniteSet(t)
            /\ Sum(f)[t] = f[i] + Sum(f)[t \ {i}]
        BY <3>2, <4>1, SumStep DEF Small
      <4>3. Sum(f)[t \ {i}] <= k * Cardinality(t \ {i})
        BY <1>0, <1>3, <4>2
      <4>4. Cardinality(t \ {i}) = Cardinality(t) - 1 /\ Cardinality(t) \in Nat
        BY <4>2, FS_RemoveElement, FS_CardinalityType
      <4>5. f[i] \in 0 .. k /\ Sum(f)[t \ {i}] \in Nat
        <5>1. t \ {i} \in SUBSET DOMAIN f /\ \A j \in DOMAIN f : f[j] \in Nat
          BY <4>2
        <5> QED
          BY <4>2, <5>1, SumType
      <4>6. ASSUME NEW x \in 0 .. k, NEW y \in Nat, NEW c \in Nat,
                   y <= k * (c - 1)
            PROVE  x + y <= k * c
        <5>1. k * (c - 1) = k * c - k /\ k * c \in Int
          OBVIOUS
        <5> QED
          BY <4>6, <5>1
      <4> QED
        BY <4>2, <4>3, <4>4, <4>5, <4>6
    <3> QED
      BY <3>1, <3>2
  <2> QED
    BY <2>1
<1>4. PICK n \in Nat : SUBSET S = Small(S, n)
  BY <1>0
<1>5. n \in T
  <2> HIDE DEF T
  <2> QED
    BY <1>2, <1>3, AllNat
<1> QED
  BY <1>4, <1>5

\* An average of weights up to 1000 does not fall when a weight of 1000 comes.
LEMMA AverageGrows ==
  ASSUME NEW total \in Nat, NEW count \in Nat \ {0}, total <= 1000 * count
  PROVE  Rounded(total, 10 * count) <= Rounded(total + 1000, 10 * (count + 1))
<1>0. ASSUME NEW x \in Nat, NEW y \in Nat \ {0}, NEW z \in Nat, z = x \div y
      PROVE  z * y <= x /\ x < (z + 1) * y
  BY <1>0
<1>1. PICK d \in Nat \ {0} : d = 2 * (10 * count)
  OBVIOUS
<1>2. PICK e \in Nat \ {0} : e = 2 * (10 * (count + 1))
  OBVIOUS
<1>3. PICK u \in Nat : u = 2 * total + 10 * count
  OBVIOUS
<1>4. PICK v \in Nat : v = 2 * (total + 1000) + 10 * (count + 1)
  OBVIOUS
<1>5. e = d + 20 /\ v = u + 2010
  BY <1>1, <1>2, <1>3, <1>4
<1>6. PICK q \in Nat : q = u \div d /\ q = Rounded(total, 10 * count)
  BY <1>1, <1>3, Quotient DEF Rounded
<1>7. PICK r \in Nat : r = v \div e /\ r = Rounded(total + 1000, 10 * (count + 1))
  BY <1>2, <1>4, Quotient DEF Rounded
<1>8. q * d <= u /\ v < (r + 1) * e
  BY <1>0, <1>6, <1>7
<1>9. u < 101 * d
  BY <1>1, <1>3
<1>10. q <= 100
  <2> SUFFICES ASSUME q >= 101 PROVE FALSE
    OBVIOUS
  <2>1. q * d >= 101 * d
    OBVIOUS
  <2> QED
    BY <1>8, <1>9, <2>1
<1>11. q < r + 1
  <2> SUFFICES ASSUME q >= r + 1 PROVE FALSE
    OBVIOUS
  <2>1. (r + 1) * e <= q * e
    OBVIOUS
  <2>2. q * e = q * d + 20 * q /\ q * d \in Nat
    BY <1>5
  <2> QED
    BY <1>5, <1>8, <1>10, <2>1, <2>2
<1> QED
  BY <1>6, <1>7, <1>11

\* The weights of an agent's tasks, and what they add up to.
Weights(a) == [n \in TasksOf(a) |-> Weight(kept.tasks[n])]

LEMMA WeightsType ==
  ASSUME TypeOK, NEW a
  PROVE  /\ IsFiniteSet(TasksOf(a))
         /\ \A n \in TasksOf(a) : Weights(a)[n] \in 0 .. 1000
         /\ DOMAIN Weights(a) = TasksOf(a)
         /\ Cardinality(TasksOf(a)) \in Nat
         /\ TasksOf(a) # {} => Cardinality(TasksOf(a)) \in Nat \ {0}
         /\ Total(Weights(a)) \in Nat
         /\ Total(Weights(a)) <= 1000 * Cardinality(TasksOf(a))
<1>1. kept.tasks \in Seq(Task)
  BY PutType DEF TypeOK, Lists
<1>2. DOMAIN kept.tasks = 1 .. Len(kept.tasks) /\ Len(kept.tasks) \in Nat
  BY <1>1
<1>3. IsFiniteSet(TasksOf(a))
  <2>1. IsFiniteSet(1 .. Len(kept.tasks))
    BY <1>2, FS_Interval
  <2>2. TasksOf(a) \in SUBSET (1 .. Len(kept.tasks))
    BY <1>2 DEF TasksOf
  <2> QED
    BY <2>1, <2>2, FS_Subset
<1>4. ASSUME NEW n \in TasksOf(a) PROVE Weight(kept.tasks[n]) \in 0 .. 1000
  <2>1. kept.tasks[n] \in Task
    BY <1>1, <1>2, ElementOfSeq DEF TasksOf
  <2>2. ASSUME NEW t \in Task PROVE Weight(t) \in 0 .. 1000
    <3>1. t.quality \in 0 .. 100
      BY FeatureAssumption DEF Task
    <3> QED
      BY <3>1 DEF Weight
  <2> QED
    BY <2>1, <2>2
<1>5. DOMAIN Weights(a) = TasksOf(a)
  BY DEF Weights
<1>6. \A n \in DOMAIN Weights(a) : Weights(a)[n] \in 0 .. 1000
  BY <1>4, <1>5 DEF Weights
<1>7. \A n \in DOMAIN Weights(a) : Weights(a)[n] \in Nat
  BY <1>6
<1>8. Cardinality(TasksOf(a)) \in Nat
  BY <1>3, FS_CardinalityType
<1>9. TasksOf(a) # {} => Cardinality(TasksOf(a)) # 0
  BY <1>3, FS_EmptySet
<1>10. Total(Weights(a)) \in Nat
  BY <1>3, <1>5, <1>7, SumType, TotalIsSum
<1>11. \A t \in SUBSET DOMAIN Weights(a) :
         Sum(Weights(a))[t] <= 1000 * Cardinality(t)
  <2>1. PICK w : w = Weights(a)
    OBVIOUS
  <2>2. IsFiniteSet(DOMAIN w) /\ \A n \in DOMAIN w : w[n] \in 0 .. 1000
    BY <1>3, <1>5, <1>6, <2>1
  <2>3. PICK k \in Nat : k = 1000
    OBVIOUS
  <2>4. IsFiniteSet(DOMAIN w) /\ \A n \in DOMAIN w : w[n] \in 0 .. k
    BY <2>2, <2>3
  <2>5. \A t \in SUBSET DOMAIN w : Sum(w)[t] <= k * Cardinality(t)
    BY <2>4, SumBound
  <2> QED
    BY <2>1, <2>3, <2>5
<1>12. Total(Weights(a)) <= 1000 * Cardinality(TasksOf(a))
  BY <1>5, <1>11, TotalIsSum
<1> QED
  BY <1>3, <1>5, <1>6, <1>8, <1>9, <1>10, <1>12

LEMMA ReputationIs ==
  ASSUME TypeOK, NEW a
  PROVE  /\ Reputation(a) = IF TasksOf(a) = {} THEN 0
                            ELSE Rounded(Total(Weights(a)),
                                         10 * Cardinality(TasksOf(a)))
         /\ Reputation(a) \in Nat
<1>1. Reputation(a) = IF TasksOf(a) = {} THEN 0
                      ELSE Rounded(Total(Weights(a)),
                                   10 * Cardinality(TasksOf(a)))
  BY DEF Reputation, Weights
<1>2. TasksOf(a) # {} => 10 * Cardinality(TasksOf(a)) \in Nat \ {0}
  BY WeightsType
<1>3. Total(Weights(a)) \in Nat
  BY WeightsType
<1> QED
  BY <1>1, <1>2, <1>3, RoundedType

\* One more task, of agent a, of full quality and in time.
Perfect(a) == kept'.tasks = Append(kept.tasks,
                [agent |-> a, quality |-> 100, on_time |-> TRUE])

LEMMA PerfectTask ==
  ASSUME TypeOK, NEW a, Perfect(a)
  PROVE  LET m == Len(kept.tasks) + 1 IN
         /\ m \notin TasksOf(a) /\ TasksOf(a)' = TasksOf(a) \cup {m}
         /\ Weights(a)'[m] = 1000
         /\ \A n \in TasksOf(a) : Weights(a)'[n] = Weights(a)[n]
         /\ \A b : b # a => TasksOf(b)' = TasksOf(b) /\ Weights(b)' = Weights(b)
<1> DEFINE m == Len(kept.tasks) + 1
           t == [agent |-> a, quality |-> 100, on_time |-> TRUE]
<1>1. PICK s \in Seq(Task) : s = kept.tasks
  BY PutType DEF TypeOK, Lists
<1>2. PICK r : r = Append(s, t)
  OBVIOUS
<1>3. PICK k \in Nat \ {0} : k = Len(s) + 1
  BY <1>1
<1>4. /\ DOMAIN s = 1 .. k - 1 /\ DOMAIN r = 1 .. k /\ r[k] = t
      /\ \A n \in 1 .. k - 1 : r[n] = s[n]
  BY <1>1, <1>2, <1>3
<1>5. kept'.tasks = r
  BY <1>1, <1>2 DEF Perfect
<1>6. t.agent = a /\ Weight(t) = 1000
  BY DEF Weight
<1> HIDE DEF t
<1>7. \A b : /\ TasksOf(b) = {n \in 1 .. k - 1 : s[n].agent = b}
             /\ TasksOf(b)' = {n \in 1 .. k : r[n].agent = b}
  BY <1>1, <1>4, <1>5 DEF TasksOf
<1>8. \A b : /\ Weights(b) = [n \in TasksOf(b) |-> Weight(s[n])]
             /\ Weights(b)' = [n \in TasksOf(b)' |-> Weight(r[n])]
  BY <1>1, <1>5 DEF Weights
<1>9. 1 .. k = (1 .. k - 1) \cup {k} /\ k \notin 1 .. k - 1
  OBVIOUS
<1>10. k \notin TasksOf(a) /\ TasksOf(a)' = TasksOf(a) \cup {k}
  BY <1>4, <1>6, <1>7, <1>9
<1>11. ASSUME NEW b, b # a PROVE TasksOf(b)' = TasksOf(b)
  <2>1. {n \in 1 .. k : r[n].agent = b} = {n \in 1 .. k - 1 : s[n].agent = b}
    BY <1>4, <1>6, <1>9, <1>11
  <2> QED
    BY <1>7, <2>1
<1>12. Weights(a)'[k] = 1000
  BY <1>4, <1>6, <1>8, <1>10
<1>13. \A b : \A n \in TasksOf(b) : Weight(r[n]) = Weight(s[n])
  BY <1>4, <1>7
<1>14. \A n \in TasksOf(a) : Weights(a)'[n] = Weights(a)[n]
  BY <1>8, <1>10, <1>13
<1>15. \A b : b # a => Weights(b)' = Weights(b)
  BY <1>8, <1>11, <1>13
<1>16. m = k
  BY <1>1, <1>3
<1> QED
  BY <1>10, <1>11, <1>12, <1>14, <1>15, <1>16

\* Nobody's reputation changes but the agent's own, which does not fall.
LEMMA Reputations ==
  ASSUME TypeOK, NEW a, Perfect(a)
  PROVE  /\ Reputation(a) <= Reputation(a)'
         /\ \A b : b # a => Reputation(b)' = Reputation(b)
<1>1. PICK m : /\ m = Len(kept.tasks) + 1
               /\ m \notin TasksOf(a) /\ TasksOf(a)' = TasksOf(a) \cup {m}
               /\ Weights(a)'[m] = 1000
               /\ \A n \in TasksOf(a) : Weights(a)'[n] = Weights(a)[n]
               /\ \A b : b # a => /\ TasksOf(b)' = TasksOf(b)
                                  /\ Weights(b)' = Weights(b)
  BY PerfectTask
<1>2. PICK S : S = TasksOf(a)
  OBVIOUS
<1>3. PICK T : T = TasksOf(a)'
  OBVIOUS
<1>4. PICK w : w = Weights(a)
  OBVIOUS
<1>5. PICK v : v = Weights(a)'
  OBVIOUS
<1>6. /\ IsFiniteSet(S) /\ DOMAIN w = S /\ \A n \in S : w[n] \in 0 .. 1000
      /\ Cardinality(S) \in Nat /\ (S # {} => Cardinality(S) \in Nat \ {0})
      /\ Total(w) \in Nat /\ Total(w) <= 1000 * Cardinality(S)
  BY <1>2, <1>4, WeightsType
<1>7. /\ T = S \cup {m} /\ m \notin S
      /\ v[m] = 1000 /\ \A n \in S : v[n] = w[n]
  BY <1>1, <1>2, <1>3, <1>4, <1>5
<1>8. DOMAIN v = T
  BY <1>3, <1>5 DEF Weights
<1>9. IsFiniteSet(T) /\ Cardinality(T) = Cardinality(S) + 1
  BY <1>6, <1>7, FS_AddElement
<1>10. Total(v) = Total(w) + 1000
  <2>1. IsFiniteSet(DOMAIN v) /\ \A n \in DOMAIN v : v[n] \in Int
    BY <1>6, <1>7, <1>8, <1>9
  <2>2. /\ T \in SUBSET DOMAIN v /\ m \in T /\ T \ {m} = S
        /\ S \subseteq DOMAIN v /\ S \subseteq DOMAIN w
    BY <1>6, <1>7, <1>8
  <2>3. Sum(v)[T] = v[m] + Sum(v)[T \ {m}]
    BY <2>1, <2>2, SumTake
  <2>4. Sum(v)[S] = Sum(w)[S]
    BY <1>6, <1>7, <2>1, <2>2, SumSame
  <2>5. Total(v) = Sum(v)[T] /\ Total(w) = Sum(w)[S]
    BY <1>6, <1>8, TotalIsSum
  <2> QED
    BY <1>6, <1>7, <2>2, <2>3, <2>4, <2>5
<1>11. /\ Reputation(a) = IF S = {} THEN 0
                          ELSE Rounded(Total(w), 10 * Cardinality(S))
       /\ Reputation(a)' = IF T = {} THEN 0
                           ELSE Rounded(Total(v), 10 * Cardinality(T))
  BY <1>2, <1>3, <1>4, <1>5 DEF Reputation, Weights
<1>12. Reputation(a) <= Reputation(a)'
  <2>1. PICK new : new = Reputation(a)'
    OBVIOUS
  <2>2. new = Rounded(Total(w) + 1000, 10 * (Cardinality(S) + 1))
    BY <1>7, <1>9, <1>10, <1>11, <2>1
  <2>3. CASE S = {}
    <3>1. 10 * (Cardinality(S) + 1) \in Nat \ {0} /\ Total(w) + 1000 \in Nat
      BY <1>6
    <3>2. new \in Nat
      BY <2>2, <3>1, RoundedType
    <3> QED
      BY <1>11, <2>1, <2>3, <3>2
  <2>4. CASE S # {}
    <3>1. Rounded(Total(w), 10 * Cardinality(S)) <= new
      BY <1>6, <2>2, <2>4, AverageGrows
    <3> QED
      BY <1>11, <2>1, <2>4, <3>1
  <2> QED
    BY <2>3, <2>4
<1>13. ASSUME NEW b, b # a PROVE Reputation(b)' = Reputation(b)
  <2>1. TasksOf(b)' = TasksOf(b) /\ Weights(b)' = Weights(b)
    BY <1>1, <1>13
  <2>2. /\ Reputation(b) = IF TasksOf(b) = {} THEN 0
                           ELSE Rounded(Total(Weights(b)),
                                        10 * Cardinality(TasksOf(b)))
        /\ Reputation(b)' = IF TasksOf(b)' = {} THEN 0
                            ELSE Rounded(Total(Weights(b)'),
                                         10 * Cardinality(TasksOf(b)'))
    BY DEF Reputation, Weights
  <2> QED
    BY <2>1, <2>2
<1> QED
  BY <1>12, <1>13

Rated == \A b \in Dids : Reputation(b) \in Nat

\* So nobody comes before the agent who did not before.
LEMMA PerfectStep ==
  ASSUME TypeOK, Rated, Rated', NEW a \in Dids, Perfect(a)
  PROVE  Position(a)' <= Position(a)
<1> DEFINE i == CHOOSE n \in DOMAIN Agents : Agents[n] = a
<1>1. i \in DOMAIN Agents /\ Agents[i] = a
  BY DEF Dids, ToSet
<1>2. PICK old : old = [b \in Dids |-> Reputation(b)]
  OBVIOUS
<1>3. PICK new : new = [b \in Dids |-> Reputation(b)']
  OBVIOUS
<1>4. /\ DOMAIN Agents = 1 .. Len(Agents) /\ Len(Agents) \in Nat
      /\ \A n \in DOMAIN Agents : Agents[n] \in Dids
  BY FeatureAssumption DEF Dids, ToSet
<1>5. \A b \in Dids : old[b] \in Nat /\ new[b] \in Nat
  BY <1>2, <1>3 DEF Rated
<1>6. old[a] <= new[a] /\ \A b \in Dids : b # a => new[b] = old[b]
  BY <1>2, <1>3, Reputations
<1> DEFINE Before(s) == {n \in DOMAIN Agents :
                           \/ s[Agents[n]] > s[Agents[i]]
                           \/ s[Agents[n]] = s[Agents[i]] /\ n < i}
<1>7. Position(a) = 1 + Cardinality(Before(old))
  BY <1>1, <1>2, <1>4 DEF Position
<1>8. Position(a)' = 1 + Cardinality(Before(new))
  BY <1>1, <1>3, <1>4 DEF Position
<1> HIDE DEF i
<1>9. Before(new) \subseteq Before(old)
  <2> SUFFICES ASSUME NEW n \in DOMAIN Agents, n \in Before(new)
               PROVE  n \in Before(old)
    OBVIOUS
  <2>1. Agents[n] \in Dids
    BY <1>4
  <2>2. CASE Agents[n] = a
    BY <1>1, <1>5, <2>2
  <2>3. CASE Agents[n] # a
    BY <1>1, <1>5, <1>6, <2>1, <2>3
  <2> QED
    BY <2>2, <2>3
<1>10. IsFiniteSet(DOMAIN Agents)
  BY <1>4, FS_Interval
<1>11. /\ IsFiniteSet(Before(old)) /\ Cardinality(Before(new)) <= Cardinality(Before(old))
       /\ Cardinality(Before(new)) \in Nat /\ Cardinality(Before(old)) \in Nat
  <2>1. Before(old) \in SUBSET DOMAIN Agents
    OBVIOUS
  <2> HIDE DEF Before
  <2>2. IsFiniteSet(Before(old))
    BY <1>10, <2>1, FS_Subset
  <2>3. /\ IsFiniteSet(Before(new))
        /\ Cardinality(Before(new)) <= Cardinality(Before(old))
    BY <1>9, <2>2, FS_Subset
  <2> QED
    BY <2>2, <2>3, FS_CardinalityType
<1> HIDE DEF Before
<1> QED
  BY <1>7, <1>8, <1>11

\* PerfectKeepsPlace: a task of full quality that is done in time does not cost
\* an agent its place in the ranking.
THEOREM PerfectKeepsItsPlace == Spec => PerfectKeepsPlace
<1>1. TypeOK /\ ToldType => Rated
  BY ReputationIs DEF Rated
<1>2. (TypeOK /\ ToldType) /\ Rated /\ Rated' /\ [Next]_vars
        => [\A a \in Dids :
              kept'.tasks = Append(kept.tasks,
                              [agent |-> a, quality |-> 100, on_time |-> TRUE])
                => Position(a)' <= Position(a)]_kept
  BY PerfectStep DEF Perfect
<1> QED
  BY <1>1, <1>2, FeatureTypes, PTL DEF Spec, PerfectKeepsPlace
=============================================================================
