---------------------------- MODULE LanguageProofs ----------------------------
(***************************************************************************)
(* The query language for any definitions, documents and filters: what     *)
(* validation accepts can be built and vectorized, the operators of a      *)
(* filter agree with each other on everything a stored document can hold,  *)
(* and dates move as far as they are moved.                                *)
(***************************************************************************)
EXTENDS QueryCases, FiniteSetTheorems, WellFoundedInduction, TLAPS

-----------------------------------------------------------------------------
(* Folds *)

LEMMA LeastExists ==
    ASSUME NEW n \in Nat, NEW B, B \subseteq 0..n, B # {}
    PROVE  \E i \in B : \A j \in B : i <= j
<1> DEFINE R == StrictSubsetOrdering(1..n)
           T == {1..i : i \in B}
<1>1. IsFiniteSet(1..n)
  BY FS_Interval
<1>2. FiniteSubsetsOf(1..n) = SUBSET (1..n)
  BY <1>1, FS_FiniteSubsetsOfFinite
<1>3. IsWellFoundedOn(R, SUBSET (1..n))
  BY <1>2, FS_StrictSubsetOrderingWellFounded
<1>4. T \subseteq SUBSET (1..n) /\ T # {}
  <2>1. \A i \in 0..n : 1..i \subseteq 1..n
    OBVIOUS
  <2>2. QED
    BY <2>1
<1> HIDE DEF R, T
<1>5. PICK x \in T : \A y \in T : ~(<<y, x>> \in R)
  BY <1>3, <1>4, WFMin
<1>6. PICK i \in B : x = 1..i
  BY DEF T
<1>7. ASSUME NEW j \in B, j < i
      PROVE  FALSE
  <2>1. i \in 1..i /\ i \notin 1..j /\ 1..j \subseteq 1..i
    BY <1>7
  <2>2. 1..j \in T /\ 1..j \in SUBSET (1..n) /\ 1..i \in SUBSET (1..n)
    BY <1>4, <1>6 DEF T
  <2>3. <<1..j, 1..i>> \in R
    BY <2>1, <2>2 DEF R, StrictSubsetOrdering
  <2>4. QED
    BY <1>5, <1>6, <2>2, <2>3
<1>8. \A j \in B : i <= j
  BY <1>7
<1>9. QED
  BY <1>8

\* The greatest of some places, which a fold takes last.
LEMMA MaxOfPlaces ==
    ASSUME NEW n \in Nat, NEW s \in SUBSET (1..n), s # {}
    PROVE  Max(s) \in s /\ \A i \in s : i <= Max(s)
<1> DEFINE above == {k \in 0..n : \A i \in s : i <= k}
<1>1. n \in above
  OBVIOUS
<1>2. PICK k \in above : \A j \in above : k <= j
  <2>1. above \subseteq 0..n /\ above # {}
    BY <1>1
  <2> HIDE DEF above
  <2> QED
    BY <2>1, LeastExists
<1>3. k \in 0..n /\ \A i \in s : i <= k
  OBVIOUS
<1>4. k \in s
  <2>1. SUFFICES ASSUME k \notin s PROVE FALSE
    OBVIOUS
  <2>2. \A i \in s : i \in 1..n /\ i <= k - 1
    BY <1>3, <2>1
  <2>5. k - 1 \in 0..n
    <3>1. PICK i \in s : TRUE
      OBVIOUS
    <3>2. i \in 1..n /\ i <= k - 1
      BY <2>2
    <3> QED
      BY <1>3, <3>2
  <2>3. k - 1 \in above
    BY <2>2, <2>5
  <2>4. ~(k <= k - 1)
    BY <1>3
  <2> HIDE DEF above
  <2> QED
    BY <1>2, <2>3, <2>4
<1>5. \E x \in s : \A y \in s : x >= y
  <2>1. \A y \in s : k >= y
    BY <1>3
  <2> QED
    BY <1>4, <2>1
<1>6. Max(s) \in s /\ \A y \in s : Max(s) >= y
  BY <1>5 DEF Max
<1>7. Max(s) \in Int /\ \A y \in s : y \in Int
  <2>1. \A y \in s : y \in Int
    OBVIOUS
  <2> QED
    BY <1>6, <2>1
<1> QED
  BY <1>6, <1>7

LEMMA PlacesUpTo ==
    ASSUME NEW i \in Nat \ {0}
    PROVE  Max(1..i) = i
<1>1. 1..i \in SUBSET (1..i) /\ 1..i # {} /\ i \in 1..i
  OBVIOUS
<1>2. Max(1..i) \in 1..i /\ i <= Max(1..i)
  BY <1>1, MaxOfPlaces
<1> QED
  BY <1>2

Steps(n, V) == [1..n -> [V -> V]]

\* The values it has of the sets of places are those of a fold of step.
FoldsTo(it, n, V, b, step) ==
    /\ it \in [SUBSET (1..n) -> V] /\ it[{}] = b
    /\ \A s \in SUBSET (1..n) : s # {} => it[s] = step[Max(s)][it[s \ {Max(s)}]]

\* What a fold that takes step[i] at its i-th place computes, of the sets of
\* places: such a function exists for the sets of the first m places, or
\* there would be a least m for which it does not.
LEMMA FoldsExist ==
    ASSUME NEW n \in Nat, NEW V, NEW b \in V, NEW step \in Steps(n, V)
    PROVE  \E it : FoldsTo(it, n, V, b, step)
<1>0. step \in [1..n -> [V -> V]]
  BY DEF Steps
<1> DEFINE Next(g, s) == IF s = {} THEN b ELSE step[Max(s)][g[s \ {Max(s)}]]
           Reach(g, m) == g \in [SUBSET (1..m) -> V] /\ \A s \in SUBSET (1..m) : g[s] = Next(g, s)
           B == {m \in 0..n : ~\E g : Reach(g, m)}
<1>1. ASSUME B # {} PROVE FALSE
  <2>1. PICK m \in B : \A j \in B : m <= j
    BY <1>1, LeastExists
  <2>2. m \in 0..n /\ m # 0
    <3> DEFINE g == [s \in SUBSET (1..0) |-> b]
    <3>1. ASSUME NEW s \in SUBSET (1..0) PROVE s = {}
      OBVIOUS
    <3>2. Reach(g, 0)
      BY <3>1
    <3> HIDE DEF Reach, g
    <3>3. \E first : Reach(first, 0)
      BY <3>2
    <3>4. m \in 0..n /\ ~\E none : Reach(none, m)
      BY <2>1
    <3> QED
      BY <3>3, <3>4
  <2>3. m - 1 \in 0..n /\ m - 1 \notin B
    <3>1. m - 1 \in 0..n /\ ~(m <= m - 1)
      BY <2>2
    <3> HIDE DEF B
    <3> QED
      BY <2>1, <3>1
  <2>4. PICK h : Reach(h, m - 1)
    BY <2>3
  <2> HIDE DEF B
  <2> DEFINE g == [s \in SUBSET (1..m) |-> Next(h, s)]
  <2>5. h \in [SUBSET (1..m - 1) -> V] /\ \A s \in SUBSET (1..m - 1) : h[s] = Next(h, s)
    <3> HIDE DEF Next
    <3> QED
      BY <2>4
  <2>6. SUBSET (1..m - 1) \subseteq SUBSET (1..m) /\ SUBSET (1..m) \subseteq SUBSET (1..n)
    <3>1. 1..m - 1 \subseteq 1..m /\ 1..m \subseteq 1..n
      BY <2>2
    <3> QED
      BY <3>1
  <2>7. ASSUME NEW s \in SUBSET (1..m), s # {}
        PROVE  Max(s) \in 1..n /\ s \ {Max(s)} \in SUBSET (1..m - 1)
    <3>1. s \in SUBSET (1..n)
      BY <2>6
    <3>2. Max(s) \in s /\ \A i \in s : i <= Max(s)
      BY <2>7, <3>1, MaxOfPlaces
    <3>3. Max(s) \in 1..m
      BY <3>2
    <3>4. ASSUME NEW i \in s \ {Max(s)} PROVE i \in 1..m - 1
      <4>1. i \in 1..m /\ i <= Max(s) /\ i # Max(s)
        BY <3>2
      <4> QED
        BY <2>2, <3>3, <4>1
    <3> QED
      BY <3>1, <3>2, <3>4
  <2>8. \A s \in SUBSET (1..m) : Next(h, s) \in V
    <3>1. ASSUME NEW s \in SUBSET (1..m), s # {} PROVE step[Max(s)][h[s \ {Max(s)}]] \in V
      <4>1. Max(s) \in 1..n /\ h[s \ {Max(s)}] \in V
        BY <2>5, <2>7, <3>1
      <4> QED
        BY <1>0, <4>1
    <3> QED
      BY <3>1
  <2>9. \A s \in SUBSET (1..m - 1) : g[s] = h[s]
    <3> HIDE DEF Next
    <3> QED
      BY <2>5, <2>6
  <2>10. \A s \in SUBSET (1..m) : Next(g, s) = Next(h, s)
    <3> HIDE DEF g
    <3> QED
      BY <2>7, <2>9
  <2>11. Reach(g, m)
    <3>1. \A s \in SUBSET (1..m) : g[s] = Next(h, s)
      OBVIOUS
    <3>2. g \in [SUBSET (1..m) -> V]
      <4> HIDE DEF Next
      <4> QED
        BY <2>8
    <3> HIDE DEF g, Next
    <3> QED
      BY <2>10, <3>1, <3>2
  <2> HIDE DEF Reach
  <2> QED
    BY <2>1, <2>11 DEF B
<1>2. \E g : Reach(g, n)
  <2> HIDE DEF Reach
  <2>1. n \in 0..n /\ B = {}
    BY <1>1
  <2> QED
    BY <2>1
<1>3. PICK g : Reach(g, n)
  BY <1>2
<1>4. g[{}] = b
  <2>1. {} \in SUBSET (1..n)
    OBVIOUS
  <2> QED
    BY <1>3, <2>1
<1>5. FoldsTo(g, n, V, b, step)
  BY <1>3, <1>4 DEF FoldsTo
<1> QED
  BY <1>5

\* What is joined after each of n sequences.
Joins(g, n, V, f) ==
    /\ g \in [0..n -> Seq(V)] /\ g[0] = <<>>
    /\ \A i \in 1..n : g[i] = g[i - 1] \o f[i]

\* Concat lays its sequences one behind the other.
LEMMA ConcatIs ==
    ASSUME NEW n \in Nat, NEW V, NEW f \in [1..n -> Seq(V)]
    PROVE  \E g : Joins(g, n, V, f) /\ Concat(f) = g[n]
<1> DEFINE Fold(it) == it = [s \in SUBSET (1..n) |-> IF s = {} THEN <<>> ELSE it[s \ {Max(s)}] \o f[Max(s)]]
           it == CHOOSE iter : Fold(iter)
<1>1. DOMAIN f = 1..n
  OBVIOUS
<1>2. Concat(f) = it[1..n]
  BY <1>1, Zenon DEF Concat, FoldLeft, MapThenFoldSet
<1>3. Fold(it)
  <2> DEFINE step == [i \in 1..n |-> [v \in Seq(V) |-> v \o f[i]]]
             W == Seq(V)
             b == <<>>
  <2>1. step \in Steps(n, W)
    BY DEF Steps
  <2>2. b \in W
    OBVIOUS
  <2>3. \A i \in 1..n, v \in Seq(V) : step[i][v] = v \o f[i]
    OBVIOUS
  <2> HIDE DEF step, W, b
  <2>4. PICK h : FoldsTo(h, n, W, b, step)
    <3> HIDE DEF it, Fold
    <3> QED
      BY <2>1, <2>2, FoldsExist
  <2>8. /\ h \in [SUBSET (1..n) -> W] /\ h[{}] = b
        /\ \A s \in SUBSET (1..n) : s # {} => h[s] = step[Max(s)][h[s \ {Max(s)}]]
    BY <2>4 DEF FoldsTo
  <2>5. ASSUME NEW s \in SUBSET (1..n), s # {} PROVE step[Max(s)][h[s \ {Max(s)}]] = h[s \ {Max(s)}] \o f[Max(s)]
    <3>1. Max(s) \in 1..n
      BY <2>5, MaxOfPlaces
    <3>2. h[s \ {Max(s)}] \in Seq(V)
      BY <2>5, <2>8 DEF W
    <3> QED
      BY <2>3, <3>1, <3>2
  <2>6. \A s \in SUBSET (1..n) : h[s] = IF s = {} THEN <<>> ELSE h[s \ {Max(s)}] \o f[Max(s)]
    BY <2>5, <2>8 DEF b
  <2>7. Fold(h)
    BY <2>6, <2>8
  <2> HIDE DEF Fold
  <2> QED
    BY <2>7
<1>4. it[{}] = <<>> /\ \A s \in SUBSET (1..n) : s # {} => it[s] = it[s \ {Max(s)}] \o f[Max(s)]
  <2> HIDE DEF it
  <2>1. it = [s \in SUBSET (1..n) |-> IF s = {} THEN <<>> ELSE it[s \ {Max(s)}] \o f[Max(s)]]
    BY <1>3
  <2> QED
    BY <2>1
<1> HIDE DEF it, Fold
<1> DEFINE g == [i \in 0..n |-> it[1..i]]
<1>5. g[0] = <<>>
  <2>1. 1..0 = {} /\ 0 \in 0..n
    OBVIOUS
  <2> QED
    BY <1>4, <2>1
<1>6. ASSUME NEW i \in 1..n PROVE g[i] = g[i - 1] \o f[i]
  <2>1. 1..i \in SUBSET (1..n) /\ 1..i # {}
    <3>1. 1..i \subseteq 1..n /\ i \in 1..i
      <4> HIDE DEF g
      <4> QED
        OBVIOUS
    <3> QED
      BY <3>1
  <2>5. i \in 0..n /\ i - 1 \in 0..n
    OBVIOUS
  <2>2. Max(1..i) = i
    BY PlacesUpTo
  <2>3. (1..i) \ {i} = 1..i - 1
    OBVIOUS
  <2>4. it[1..i] = it[1..i - 1] \o f[i]
    BY <1>4, <2>1, <2>2, <2>3
  <2> QED
    BY <2>4, <2>5
<1>7. n \in 0..n /\ g[n] = it[1..n]
  OBVIOUS
<1> HIDE DEF g
<1>8. \A i \in 0..n : g[i] \in Seq(V)
  <2> DEFINE bad == {i \in 0..n : g[i] \notin Seq(V)}
  <2>1. ASSUME bad # {} PROVE FALSE
    <3>1. PICK i \in bad : \A j \in bad : i <= j
      BY <2>1, LeastExists
    <3>2. i \in 0..n /\ g[i] \notin Seq(V)
      OBVIOUS
    <3>3. i \in 1..n
      <4>1. g[0] \in Seq(V)
        BY <1>5
      <4> QED
        BY <3>2, <4>1
    <3>4. i - 1 \in 0..n /\ ~(i <= i - 1)
      BY <3>3
    <3> HIDE DEF bad
    <3>5. i - 1 \notin bad
      BY <3>1, <3>4
    <3>6. g[i - 1] \in Seq(V)
      BY <3>4, <3>5 DEF bad
    <3>7. f[i] \in Seq(V) /\ g[i] = g[i - 1] \o f[i]
      BY <1>6, <3>3
    <3>8. g[i - 1] \o f[i] \in Seq(V)
      BY <3>6, <3>7
    <3> QED
      BY <3>2, <3>7, <3>8
  <2> QED
    BY <2>1
<1>9. g \in [0..n -> Seq(V)]
  BY <1>8 DEF g
<1>10. Joins(g, n, V, f)
  BY <1>5, <1>6, <1>9 DEF Joins
<1> QED
  BY <1>2, <1>7, <1>10

\* The values found after each of n names.
Leads(g, n, V, b, path) ==
    /\ g \in [0..n -> V] /\ g[0] = b
    /\ \A i \in 1..n : g[i] = Descend(g[i - 1], path[i])

\* What a path leads to from some values, name after name.
LEMMA DescentIs ==
    ASSUME NEW n \in Nat, NEW V, NEW b \in V, NEW path, DOMAIN path = 1..n,
           \A i \in 1..n : \A v \in V : Descend(v, path[i]) \in V
    PROVE  \E g : Leads(g, n, V, b, path) /\ FoldLeft(Descend, b, path) = g[n]
<1> DEFINE Fold(it) == it = [s \in SUBSET (1..n) |->
                               IF s = {} THEN b ELSE Descend(it[s \ {Max(s)}], path[Max(s)])]
           it == CHOOSE iter : Fold(iter)
<1>2. FoldLeft(Descend, b, path) = it[1..n]
  BY Zenon DEF FoldLeft, MapThenFoldSet
<1>3. Fold(it)
  <2> DEFINE step == [i \in 1..n |-> [v \in V |-> Descend(v, path[i])]]
  <2>1. step \in Steps(n, V)
    BY DEF Steps
  <2>3. \A i \in 1..n, v \in V : step[i][v] = Descend(v, path[i])
    OBVIOUS
  <2> HIDE DEF step
  <2>4. PICK h : FoldsTo(h, n, V, b, step)
    <3> HIDE DEF it, Fold
    <3> QED
      BY <2>1, FoldsExist
  <2>8. /\ h \in [SUBSET (1..n) -> V] /\ h[{}] = b
        /\ \A s \in SUBSET (1..n) : s # {} => h[s] = step[Max(s)][h[s \ {Max(s)}]]
    BY <2>4 DEF FoldsTo
  <2>5. ASSUME NEW s \in SUBSET (1..n), s # {}
        PROVE  step[Max(s)][h[s \ {Max(s)}]] = Descend(h[s \ {Max(s)}], path[Max(s)])
    <3>1. Max(s) \in 1..n
      BY <2>5, MaxOfPlaces
    <3>2. h[s \ {Max(s)}] \in V
      BY <2>5, <2>8
    <3> QED
      BY <2>3, <3>1, <3>2
  <2>6. \A s \in SUBSET (1..n) : h[s] = IF s = {} THEN b ELSE Descend(h[s \ {Max(s)}], path[Max(s)])
    BY <2>5, <2>8
  <2>7. Fold(h)
    BY <2>6, <2>8
  <2> HIDE DEF Fold
  <2> QED
    BY <2>7
<1>4. it[{}] = b /\ \A s \in SUBSET (1..n) : s # {} => it[s] = Descend(it[s \ {Max(s)}], path[Max(s)])
  <2> HIDE DEF it
  <2>1. it = [s \in SUBSET (1..n) |-> IF s = {} THEN b ELSE Descend(it[s \ {Max(s)}], path[Max(s)])]
    BY <1>3
  <2> QED
    BY <2>1
<1> HIDE DEF it, Fold
<1> DEFINE g == [i \in 0..n |-> it[1..i]]
<1>5. g[0] = b
  <2>1. 1..0 = {} /\ 0 \in 0..n
    OBVIOUS
  <2> QED
    BY <1>4, <2>1
<1>6. ASSUME NEW i \in 1..n PROVE g[i] = Descend(g[i - 1], path[i])
  <2>1. 1..i \in SUBSET (1..n) /\ 1..i # {}
    <3>1. 1..i \subseteq 1..n /\ i \in 1..i
      <4> HIDE DEF g
      <4> QED
        OBVIOUS
    <3> QED
      BY <3>1
  <2>5. i \in 0..n /\ i - 1 \in 0..n
    OBVIOUS
  <2>2. Max(1..i) = i
    BY PlacesUpTo
  <2>3. (1..i) \ {i} = 1..i - 1
    OBVIOUS
  <2>4. it[1..i] = Descend(it[1..i - 1], path[i])
    BY <1>4, <2>1, <2>2, <2>3
  <2> QED
    BY <2>4, <2>5
<1>7. n \in 0..n /\ g[n] = it[1..n]
  OBVIOUS
<1> HIDE DEF g
<1>8. \A i \in 0..n : g[i] \in V
  <2> DEFINE bad == {i \in 0..n : g[i] \notin V}
  <2>1. ASSUME bad # {} PROVE FALSE
    <3>1. PICK i \in bad : \A j \in bad : i <= j
      BY <2>1, LeastExists
    <3>2. i \in 0..n /\ g[i] \notin V
      OBVIOUS
    <3>3. i \in 1..n
      BY <1>5, <3>2
    <3>4. i - 1 \in 0..n /\ ~(i <= i - 1)
      BY <3>3
    <3> HIDE DEF bad
    <3>5. i - 1 \notin bad
      BY <3>1, <3>4
    <3>6. g[i - 1] \in V
      BY <3>4, <3>5 DEF bad
    <3> QED
      BY <1>6, <3>2, <3>3, <3>6
  <2> QED
    BY <2>1
<1>9. g \in [0..n -> V]
  BY <1>8 DEF g
<1>10. Leads(g, n, V, b, path)
  BY <1>5, <1>6, <1>9 DEF Leads
<1> QED
  BY <1>2, <1>7, <1>10

-----------------------------------------------------------------------------
(* Values *)

LEMMA RangeOfConcatenation ==
    ASSUME NEW V, NEW a \in Seq(V), NEW b \in Seq(V), NEW x
    PROVE  x \in ToSet(a \o b) <=> x \in ToSet(a) \/ x \in ToSet(b)
<1>1. /\ Len(a) \in Nat /\ Len(b) \in Nat /\ Len(a \o b) = Len(a) + Len(b)
      /\ DOMAIN a = 1..Len(a) /\ DOMAIN b = 1..Len(b) /\ DOMAIN (a \o b) = 1..Len(a) + Len(b)
      /\ a \o b \in Seq(V)
  OBVIOUS
<1>2. \A i \in 1..Len(a) : (a \o b)[i] = a[i]
  OBVIOUS
<1>3. \A i \in 1..Len(b) : (a \o b)[Len(a) + i] = b[i]
  OBVIOUS
<1>4. ASSUME NEW i \in DOMAIN (a \o b) PROVE (a \o b)[i] \in ToSet(a) \/ (a \o b)[i] \in ToSet(b)
  <2>1. CASE i \in 1..Len(a)
    BY <1>1, <1>2, <2>1 DEF ToSet
  <2>2. CASE i \notin 1..Len(a)
    <3>1. i - Len(a) \in 1..Len(b) /\ i = Len(a) + (i - Len(a))
      BY <1>1, <2>2
    <3>2. (a \o b)[i] = b[i - Len(a)]
      BY <1>3, <3>1
    <3> QED
      BY <1>1, <3>1, <3>2 DEF ToSet
  <2> QED
    BY <2>1, <2>2
<1>5. ASSUME NEW i \in DOMAIN a PROVE a[i] \in ToSet(a \o b)
  <2>1. i \in DOMAIN (a \o b) /\ (a \o b)[i] = a[i]
    BY <1>1, <1>2
  <2> QED
    BY <2>1 DEF ToSet
<1>6. ASSUME NEW i \in DOMAIN b PROVE b[i] \in ToSet(a \o b)
  <2>1. Len(a) + i \in DOMAIN (a \o b) /\ (a \o b)[Len(a) + i] = b[i]
    BY <1>1, <1>3
  <2> QED
    BY <2>1 DEF ToSet
<1> QED
  BY <1>4, <1>5, <1>6 DEF ToSet

\* Concat holds what its sequences hold, and nothing else.
LEMMA RangeOfConcat ==
    ASSUME NEW n \in Nat, NEW V, NEW f \in [1..n -> Seq(V)]
    PROVE  /\ Concat(f) \in Seq(V)
           /\ \A x : x \in ToSet(Concat(f)) <=> \E i \in 1..n : x \in ToSet(f[i])
<1>0. PICK g : Joins(g, n, V, f) /\ Concat(f) = g[n]
  BY ConcatIs
<1>1. /\ g \in [0..n -> Seq(V)] /\ g[0] = <<>> /\ Concat(f) = g[n]
      /\ \A i \in 1..n : g[i] = g[i - 1] \o f[i]
  BY <1>0 DEF Joins
<1> DEFINE Told(k) == \A x : x \in ToSet(g[k]) <=> \E i \in 1..k : x \in ToSet(f[i])
           bad == {k \in 0..n : ~Told(k)}
<1>2. ASSUME bad # {} PROVE FALSE
  <2>1. PICK k \in bad : \A j \in bad : k <= j
    BY <1>2, LeastExists
  <2>2. k \in 0..n /\ ~Told(k)
    OBVIOUS
  <2>3. k # 0
    <3>1. ToSet(g[0]) = {}
      BY <1>1 DEF ToSet
    <3>2. Told(0)
      BY <3>1
    <3> HIDE DEF Told
    <3> QED
      BY <2>2, <3>2
  <2>4. k \in 1..n /\ k - 1 \in 0..n /\ ~(k <= k - 1)
    BY <2>2, <2>3
  <2>5. Told(k - 1)
    <3>1. k - 1 \notin bad
      <4> HIDE DEF bad
      <4> QED
        BY <2>1, <2>4
    <3> HIDE DEF Told
    <3> QED
      BY <2>4, <3>1
  <2>6. g[k] = g[k - 1] \o f[k] /\ g[k - 1] \in Seq(V) /\ f[k] \in Seq(V)
    BY <1>1, <2>4
  <2>7. ASSUME NEW x PROVE x \in ToSet(g[k]) <=> \E i \in 1..k : x \in ToSet(f[i])
    <3>1. x \in ToSet(g[k]) <=> x \in ToSet(g[k - 1]) \/ x \in ToSet(f[k])
      BY <2>6, RangeOfConcatenation
    <3>2. x \in ToSet(g[k - 1]) <=> \E i \in 1..k - 1 : x \in ToSet(f[i])
      BY <2>5
    <3>3. \A i : i \in 1..k <=> i \in 1..k - 1 \/ i = k
      BY <2>4
    <3> QED
      BY <3>1, <3>2, <3>3
  <2> QED
    BY <2>2, <2>7
<1>3. Told(n)
  <2> HIDE DEF Told
  <2>1. n \in 0..n /\ bad = {}
    BY <1>2
  <2> QED
    BY <2>1
<1>4. g[n] \in Seq(V)
  <2>1. n \in 0..n
    OBVIOUS
  <2> QED
    BY <1>1, <2>1
<1> QED
  BY <1>1, <1>3, <1>4

\* A value is of one kind.
LEMMA KindOfLiteral ==
    ASSUME NEW v \in LiteralValues
    PROVE  \/ v \in [str : Seq(Int)] /\ DOMAIN v = {"str"} /\ v.str \in Seq(Int)
           \/ v \in [num : Int] /\ DOMAIN v = {"num"} /\ v.num \in Int
           \/ v \in [frac : Int] /\ DOMAIN v = {"frac"} /\ v.frac \in Int
           \/ v \in [bool : BOOLEAN] /\ DOMAIN v = {"bool"} /\ v.bool \in BOOLEAN
           \/ v = Null /\ DOMAIN v = {"null"}
<1>1. CASE v \in [str : Seq(Int)]
  BY <1>1
<1>2. CASE v \in [num : Int]
  BY <1>2
<1>3. CASE v \in [frac : Int]
  BY <1>3
<1>4. CASE v \in [bool : BOOLEAN]
  BY <1>4
<1>5. CASE v = Null
  BY <1>5 DEF Null
<1> QED
  BY <1>1, <1>2, <1>3, <1>4, <1>5 DEF LiteralValues

OneKind(v) ==
    \E kind \in {"str", "num", "frac", "bool", "null", "arr", "obj"} : DOMAIN v = {kind}

LEMMA LiteralHasOneKind ==
    ASSUME NEW v \in LiteralValues
    PROVE  /\ OneKind(v) /\ ~IsArr(v) /\ ~IsObj(v)
           /\ IsStr(v) => v.str \in Seq(Int)
           /\ IsNum(v) => AsF64(v) \in Int
           /\ IsBool(v) => v.bool \in BOOLEAN
<1>1. CASE DOMAIN v = {"str"} /\ v.str \in Seq(Int)
  BY <1>1 DEF OneKind, IsArr, IsObj, IsStr, IsNum, IsBool, IsKind
<1>2. CASE DOMAIN v = {"num"} /\ v.num \in Int
  <2>1. AsF64(v) \in Int
    BY <1>2 DEF AsF64, IsInt, IsKind
  <2> QED
    BY <1>2, <2>1 DEF OneKind, IsArr, IsObj, IsStr, IsNum, IsBool, IsKind
<1>3. CASE DOMAIN v = {"frac"} /\ v.frac \in Int
  <2>1. AsF64(v) \in Int
    BY <1>3 DEF AsF64, IsInt, IsKind
  <2> QED
    BY <1>3, <2>1 DEF OneKind, IsArr, IsObj, IsStr, IsNum, IsBool, IsKind
<1>4. CASE DOMAIN v = {"bool"} /\ v.bool \in BOOLEAN
  BY <1>4 DEF OneKind, IsArr, IsObj, IsStr, IsNum, IsBool, IsKind
<1>5. CASE DOMAIN v = {"null"}
  BY <1>5 DEF OneKind, IsArr, IsObj, IsStr, IsNum, IsBool, IsKind
<1> QED
  BY <1>1, <1>2, <1>3, <1>4, <1>5, KindOfLiteral

\* So is a value of a document, and what it is made of are such values.
LEMMA JsonHasOneKind ==
    ASSUME NEW v \in Json
    PROVE  /\ OneKind(v)
           /\ IsStr(v) => v.str \in Seq(Int)
           /\ IsNum(v) => AsF64(v) \in Int
           /\ IsBool(v) => v.bool \in BOOLEAN
           /\ IsArr(v) => v.arr \in Seq(Json)
           /\ IsObj(v) => \A name \in DOMAIN v.obj : v.obj[name] \in Json
<1>1. CASE v \in LiteralValues
  BY <1>1, LiteralHasOneKind
<1>2. CASE DOMAIN v = {"arr"} /\ v.arr \in Seq(Json)
  BY <1>2 DEF OneKind, IsArr, IsObj, IsStr, IsNum, IsBool, IsKind
<1>3. CASE DOMAIN v = {"obj"} /\ \A name \in DOMAIN v.obj : v.obj[name] \in Json
  BY <1>3 DEF OneKind, IsArr, IsObj, IsStr, IsNum, IsBool, IsKind
<1> QED
  BY <1>1, <1>2, <1>3, JsonAssumption

-----------------------------------------------------------------------------
(* Paths *)

LEMMA MemberIs ==
    ASSUME NEW v \in Json, NEW segment
    PROVE  /\ Member(v, segment) \in Seq(Json)
           /\ \A x : x \in ToSet(Member(v, segment)) <=>
                       IsObj(v) /\ segment \in DOMAIN v.obj /\ x = v.obj[segment]
<1>1. CASE IsObj(v) /\ segment \in DOMAIN v.obj
  <2>1. Member(v, segment) = <<v.obj[segment]>> /\ v.obj[segment] \in Json
    BY <1>1, JsonHasOneKind DEF Member
  <2>2. \A x : x \in ToSet(<<v.obj[segment]>>) <=> x = v.obj[segment]
    BY DEF ToSet
  <2> QED
    BY <1>1, <2>1, <2>2
<1>2. CASE ~(IsObj(v) /\ segment \in DOMAIN v.obj)
  BY <1>2 DEF Member, ToSet
<1> QED
  BY <1>1, <1>2

\* The elements of a value: its own for an array.
ElementsOf(v) == IF IsArr(v) THEN ToSet(v.arr) ELSE {v}

LEMMA ElementsAre ==
    ASSUME NEW values, NEW e
    PROVE  e \in Elements(values) <=> \E v \in ToSet(values) : e \in ElementsOf(v)
BY DEF Elements, ElementsOf

LEMMA ElementsAreJson ==
    ASSUME NEW values \in Seq(Json), NEW e \in Elements(values)
    PROVE  e \in Json
<1>1. PICK v \in ToSet(values) : e \in ElementsOf(v)
  BY ElementsAre
<1>2. v \in Json
  BY DEF ToSet
<1>3. CASE IsArr(v)
  <2>1. v.arr \in Seq(Json) /\ e \in ToSet(v.arr)
    BY <1>1, <1>2, <1>3, JsonHasOneKind DEF ElementsOf
  <2> QED
    BY <2>1 DEF ToSet
<1>4. CASE ~IsArr(v)
  BY <1>1, <1>2, <1>4 DEF ElementsOf
<1> QED
  BY <1>3, <1>4

\* A name leads to that member of each element that has one.
LEMMA DescendIs ==
    ASSUME NEW values \in Seq(Json), NEW segment
    PROVE  /\ Descend(values, segment) \in Seq(Json)
           /\ \A x : x \in ToSet(Descend(values, segment)) <=>
                       \E e \in Elements(values) : x \in ToSet(Member(e, segment))
<1> DEFINE Part(v) == IF IsArr(v) THEN Concat([j \in DOMAIN v.arr |-> Member(v.arr[j], segment)])
                      ELSE Member(v, segment)
           parts   == [i \in DOMAIN values |-> Part(values[i])]
           n       == Len(values)
<1>1. ASSUME NEW v \in Json
      PROVE  /\ Part(v) \in Seq(Json)
             /\ \A x : x \in ToSet(Part(v)) <=> \E e \in ElementsOf(v) : x \in ToSet(Member(e, segment))
  <2>1. CASE ~IsArr(v)
    BY <2>1, MemberIs DEF ElementsOf
  <2>2. CASE IsArr(v)
    <3> DEFINE items == [j \in DOMAIN v.arr |-> Member(v.arr[j], segment)]
               m     == Len(v.arr)
    <3>1. v.arr \in Seq(Json) /\ m \in Nat /\ DOMAIN v.arr = 1..m
      BY <2>2, JsonHasOneKind
    <3>2. \A j \in 1..m : v.arr[j] \in Json
      BY <3>1
    <3>3. items \in [1..m -> Seq(Json)] /\ \A j \in 1..m : items[j] = Member(v.arr[j], segment)
      BY <3>1, <3>2, MemberIs
    <3>4. Part(v) = Concat(items)
      BY <2>2
    <3> HIDE DEF items, m, Part
    <3>5. /\ Concat(items) \in Seq(Json)
          /\ \A x : x \in ToSet(Concat(items)) <=> \E j \in 1..m : x \in ToSet(items[j])
      BY <3>1, <3>3, RangeOfConcat
    <3>6. ElementsOf(v) = {v.arr[j] : j \in 1..m}
      BY <2>2, <3>1 DEF ElementsOf, ToSet
    <3> QED
      BY <3>3, <3>4, <3>5, <3>6
  <2> QED
    BY <2>1, <2>2
<1>2. n \in Nat /\ DOMAIN values = 1..n /\ \A i \in 1..n : values[i] \in Json
  OBVIOUS
<1>3. Descend(values, segment) = Concat(parts)
  BY DEF Descend
<1> HIDE DEF Part
<1>4. parts \in [1..n -> Seq(Json)] /\ \A i \in 1..n : parts[i] = Part(values[i])
  BY <1>1, <1>2
<1> HIDE DEF parts, n
<1>5. /\ Concat(parts) \in Seq(Json)
      /\ \A x : x \in ToSet(Concat(parts)) <=> \E i \in 1..n : x \in ToSet(parts[i])
  BY <1>2, <1>4, RangeOfConcat
<1>6. ASSUME NEW x PROVE x \in ToSet(Concat(parts)) <=>
                           \E e \in Elements(values) : x \in ToSet(Member(e, segment))
  <2>1. x \in ToSet(Concat(parts)) <=> \E i \in 1..n : x \in ToSet(Part(values[i]))
    BY <1>4, <1>5
  <2>2. \A i \in 1..n : x \in ToSet(Part(values[i])) <=>
                           \E e \in ElementsOf(values[i]) : x \in ToSet(Member(e, segment))
    BY <1>1, <1>2
  <2>3. \A e : e \in Elements(values) <=> \E i \in 1..n : e \in ElementsOf(values[i])
    BY <1>2, ElementsAre DEF ToSet
  <2> QED
    BY <2>1, <2>2, <2>3
<1> QED
  BY <1>3, <1>5, <1>6

LEMMA DescendGrows ==
    ASSUME NEW vs \in Seq(Json), NEW ws \in Seq(Json), NEW segment, ToSet(vs) \subseteq ToSet(ws)
    PROVE  ToSet(Descend(vs, segment)) \subseteq ToSet(Descend(ws, segment))
<1>1. \A e \in Elements(vs) : e \in Elements(ws)
  BY ElementsAre
<1> QED
  BY <1>1, DescendIs

\* What a path leads to from some values.
LEMMA DescentExists ==
    ASSUME NEW b \in Seq(Json), NEW S, NEW path \in Seq(S)
    PROVE  \E g : Leads(g, Len(path), Seq(Json), b, path) /\ FoldLeft(Descend, b, path) = g[Len(path)]
<1>1. Len(path) \in Nat /\ DOMAIN path = 1..Len(path)
  OBVIOUS
<1>2. \A i \in 1..Len(path) : \A v \in Seq(Json) : Descend(v, path[i]) \in Seq(Json)
  BY DescendIs
<1> DEFINE n == Len(path)
           V == Seq(Json)
<1> HIDE DEF n, V
<1>3. \E g : Leads(g, n, V, b, path) /\ FoldLeft(Descend, b, path) = g[n]
  BY <1>1, <1>2, DescentIs DEF n, V
<1> QED
  BY <1>3 DEF n, V

\* The first names lead to the same values, whatever names follow.
LEMMA SameDescent ==
    ASSUME NEW n \in Nat, NEW N \in Nat, n <= N, NEW V, NEW b, NEW p, NEW q,
           \A i \in 1..n : p[i] = q[i],
           NEW g, NEW h, Leads(g, n, V, b, p), Leads(h, N, V, b, q)
    PROVE  g[n] = h[n]
<1> DEFINE bad == {i \in 0..n : g[i] # h[i]}
<1>1. /\ g[0] = b /\ \A i \in 1..n : g[i] = Descend(g[i - 1], p[i])
      /\ h[0] = b /\ \A i \in 1..N : h[i] = Descend(h[i - 1], q[i])
  BY DEF Leads
<1>2. ASSUME bad # {} PROVE FALSE
  <2>1. PICK i \in bad : \A j \in bad : i <= j
    BY <1>2, LeastExists
  <2>2. i \in 0..n /\ g[i] # h[i]
    OBVIOUS
  <2>3. i \in 1..n /\ i \in 1..N /\ i - 1 \in 0..n /\ ~(i <= i - 1)
    BY <1>1, <2>2
  <2>4. g[i - 1] = h[i - 1]
    <3>1. i - 1 \notin bad
      <4> HIDE DEF bad
      <4> QED
        BY <2>1, <2>3
    <3> QED
      BY <2>3, <3>1
  <2> QED
    BY <1>1, <2>2, <2>3, <2>4
<1>3. n \in 0..n
  OBVIOUS
<1> QED
  BY <1>2, <1>3

\* From fewer values the same names lead to fewer values.
LEMMA FewerLeadToFewer ==
    ASSUME NEW m \in Nat \ {0}, NEW n \in Nat, NEW N \in Nat, n + m <= N, NEW a, NEW b, NEW q, NEW path,
           \A i \in 1..m : path[n + i] = q[i],
           NEW k, NEW h, Leads(k, m, Seq(Json), a, q), Leads(h, N, Seq(Json), b, path),
           ToSet(k[1]) \subseteq ToSet(h[n + 1])
    PROVE  ToSet(k[m]) \subseteq ToSet(h[n + m])
<1> DEFINE bad == {i \in 0..m : i # 0 /\ ~(ToSet(k[i]) \subseteq ToSet(h[n + i]))}
<1>1. /\ k \in [0..m -> Seq(Json)] /\ \A i \in 1..m : k[i] = Descend(k[i - 1], q[i])
      /\ h \in [0..N -> Seq(Json)] /\ \A i \in 1..N : h[i] = Descend(h[i - 1], path[i])
  BY DEF Leads
<1>2. ASSUME bad # {} PROVE FALSE
  <2>1. PICK i \in bad : \A j \in bad : i <= j
    BY <1>2, LeastExists
  <2>2. i \in 0..m /\ i # 0 /\ ~(ToSet(k[i]) \subseteq ToSet(h[n + i]))
    OBVIOUS
  <2>3. i # 1
    BY <2>2
  <2>4. /\ i \in 1..m /\ i - 1 \in 0..m /\ i - 1 # 0 /\ ~(i <= i - 1)
        /\ n + i \in 1..N /\ n + (i - 1) \in 0..N /\ (n + i) - 1 = n + (i - 1)
    BY <2>2, <2>3
  <2>5. ToSet(k[i - 1]) \subseteq ToSet(h[n + (i - 1)])
    <3>1. i - 1 \notin bad
      <4> HIDE DEF bad
      <4> QED
        BY <2>1, <2>4
    <3> QED
      BY <2>4, <3>1
  <2>6. k[i - 1] \in Seq(Json) /\ h[n + (i - 1)] \in Seq(Json)
    BY <1>1, <2>4
  <2>7. k[i] = Descend(k[i - 1], q[i]) /\ h[n + i] = Descend(h[n + (i - 1)], q[i])
    BY <1>1, <2>4
  <2>8. ToSet(Descend(k[i - 1], q[i])) \subseteq ToSet(Descend(h[n + (i - 1)], q[i]))
    BY <2>5, <2>6, DescendGrows
  <2> QED
    BY <2>2, <2>7, <2>8
<1>3. m \in 0..m /\ m # 0
  OBVIOUS
<1> QED
  BY <1>2, <1>3

LEMMA TailOfPath ==
    ASSUME NEW S, NEW p \in Seq(S), p # <<>>, NEW q \in Seq(S)
    PROVE  /\ Head(p \o q) = Head(p)
           /\ Tail(p) \in Seq(S) /\ Tail(p \o q) \in Seq(S)
           /\ Len(Tail(p \o q)) = Len(Tail(p)) + Len(q)
           /\ \A i \in 1..Len(Tail(p)) : Tail(p)[i] = Tail(p \o q)[i]
           /\ \A i \in 1..Len(q) : Tail(p \o q)[Len(Tail(p)) + i] = q[i]
<1>1. Len(p) \in Nat \ {0} /\ Len(q) \in Nat /\ p \o q \in Seq(S) /\ Len(p \o q) = Len(p) + Len(q)
  OBVIOUS
<1>2. Len(Tail(p)) = Len(p) - 1 /\ Len(Tail(p \o q)) = Len(p) + Len(q) - 1 /\ p \o q # <<>>
  BY <1>1
<1>3. \A i \in 1..Len(p) - 1 : Tail(p)[i] = p[i + 1]
  BY <1>1
<1>4. \A i \in 1..Len(p) + Len(q) - 1 : Tail(p \o q)[i] = (p \o q)[i + 1]
  BY <1>1, <1>2
<1>5. ASSUME NEW i \in 1..Len(Tail(p)) PROVE Tail(p)[i] = Tail(p \o q)[i]
  <2>1. i \in 1..Len(p) - 1 /\ i \in 1..Len(p) + Len(q) - 1 /\ i + 1 \in 1..Len(p)
    BY <1>1, <1>2
  <2>2. (p \o q)[i + 1] = p[i + 1]
    BY <1>1, <2>1
  <2> QED
    BY <1>3, <1>4, <2>1, <2>2
<1>6. ASSUME NEW i \in 1..Len(q) PROVE Tail(p \o q)[Len(Tail(p)) + i] = q[i]
  <2>1. /\ Len(Tail(p)) + i \in 1..Len(p) + Len(q) - 1
        /\ Len(Tail(p)) + i + 1 = Len(p) + i /\ Len(p) + i \in Len(p) + 1..Len(p) + Len(q)
    BY <1>1, <1>2
  <2>2. (p \o q)[Len(p) + i] = q[i]
    BY <1>1, <2>1
  <2> QED
    BY <1>4, <2>1, <2>2
<1>7. Head(p \o q) = Head(p)
  BY <1>1, <1>2
<1> QED
  BY <1>1, <1>2, <1>5, <1>6, <1>7

-----------------------------------------------------------------------------
(* Comparisons of one value *)

LEMMA HoldsIs ==
    ASSUME NEW less \in BOOLEAN, NEW equal \in BOOLEAN
    PROVE  /\ Holds("eq", less, equal) <=> equal
           /\ Holds("ne", less, equal) <=> ~equal
           /\ Holds("lt", less, equal) <=> less
           /\ Holds("le", less, equal) <=> less \/ equal
           /\ Holds("gt", less, equal) <=> ~less /\ ~equal
           /\ Holds("ge", less, equal) <=> ~less
BY DEF Holds

LEMMA HoldsTheSame ==
    ASSUME NEW op \in Ops, NEW a \in BOOLEAN, NEW b \in BOOLEAN,
           NEW c \in BOOLEAN, NEW d \in BOOLEAN, a <=> c, b <=> d
    PROVE  Holds(op, a, b) <=> Holds(op, c, d)
<1>1. op \in {"eq", "ne", "lt", "le", "gt", "ge"}
  BY DEF Ops
<1> QED
  BY <1>1, HoldsIs

LEMMA TextLessIsStrict ==
    ASSUME NEW text \in Seq(Int)
    PROVE  ~TextLess(text, text)
<1>1. SUFFICES ASSUME NEW n \in 0..Len(text) - 1, n = Len(text) \/ text[n + 1] < text[n + 1]
               PROVE  FALSE
  BY DEF TextLess
<1>2. n # Len(text) /\ n + 1 \in 1..Len(text)
  OBVIOUS
<1>3. text[n + 1] \in Int
  BY <1>2
<1> QED
  BY <1>1, <1>2, <1>3

\* A value and a literal that are compared as texts, numbers or Booleans.
Alike(value, literal) ==
    \/ IsStr(value) /\ IsStr(literal)
    \/ IsNum(value) /\ IsNum(literal)
    \/ IsBool(value) /\ IsBool(literal)

LessThan(value, literal) ==
    \/ IsStr(literal) /\ TextLess(value.str, literal.str)
    \/ IsNum(literal) /\ AsF64(value) < AsF64(literal)

EqualTo(value, literal) ==
    \/ IsStr(literal) /\ value.str = literal.str
    \/ IsNum(literal) /\ AsF64(value) = AsF64(literal)
    \/ IsBool(literal) /\ value.bool = literal.bool

LEMMA KindsExclude ==
    ASSUME NEW v, OneKind(v)
    PROVE  /\ IsStr(v)  => ~IsNum(v) /\ ~IsBool(v) /\ ~IsNull(v) /\ ~IsArr(v) /\ ~IsObj(v)
           /\ IsNum(v)  => ~IsStr(v) /\ ~IsBool(v) /\ ~IsNull(v) /\ ~IsArr(v) /\ ~IsObj(v)
           /\ IsBool(v) => ~IsStr(v) /\ ~IsNum(v) /\ ~IsNull(v) /\ ~IsArr(v) /\ ~IsObj(v)
           /\ IsNull(v) => ~IsStr(v) /\ ~IsNum(v) /\ ~IsBool(v) /\ ~IsArr(v) /\ ~IsObj(v)
           /\ IsArr(v)  => ~IsStr(v) /\ ~IsNum(v) /\ ~IsBool(v) /\ ~IsNull(v) /\ ~IsObj(v)
           /\ IsObj(v)  => ~IsStr(v) /\ ~IsNum(v) /\ ~IsBool(v) /\ ~IsNull(v) /\ ~IsArr(v)
           /\ IsInt(v)  => IsNum(v)
BY DEF OneKind, IsStr, IsNum, IsBool, IsNull, IsArr, IsObj, IsInt, IsKind

LEMMA ScalarIs ==
    ASSUME NEW v \in Json, NEW literal \in LiteralValues, Alike(v, literal), NEW op \in Ops
    PROVE  /\ CompareScalar(v, op, literal) <=>
                (IsBool(literal) => op \notin OrderingOps)
                /\ Holds(op, LessThan(v, literal), EqualTo(v, literal))
           /\ ~(LessThan(v, literal) /\ EqualTo(v, literal))
<1>1. /\ OneKind(v) /\ OneKind(literal)
      /\ IsStr(v) => v.str \in Seq(Int)
      /\ IsNum(v) => AsF64(v) \in Int
      /\ IsNum(literal) => AsF64(literal) \in Int
  BY JsonHasOneKind, LiteralHasOneKind
<1>2. CASE IsStr(v) /\ IsStr(literal)
  <2>1. ~IsNull(literal) /\ ~IsNum(literal) /\ ~IsBool(literal)
    BY <1>1, <1>2, KindsExclude
  <2>2. CompareScalar(v, op, literal) <=> Holds(op, TextLess(v.str, literal.str), v.str = literal.str)
    BY <1>2, <2>1 DEF CompareScalar
  <2>3. /\ LessThan(v, literal) <=> TextLess(v.str, literal.str)
        /\ EqualTo(v, literal) <=> v.str = literal.str
    BY <1>2, <2>1 DEF LessThan, EqualTo
  <2>4. Holds(op, TextLess(v.str, literal.str), v.str = literal.str)
          <=> Holds(op, LessThan(v, literal), EqualTo(v, literal))
    <3>1. /\ (TextLess(v.str, literal.str)) \in BOOLEAN /\ (v.str = literal.str) \in BOOLEAN
          /\ LessThan(v, literal) \in BOOLEAN /\ EqualTo(v, literal) \in BOOLEAN
      BY DEF LessThan, EqualTo, TextLess
    <3> QED
      BY <2>3, <3>1, HoldsTheSame
  <2>5. v.str = literal.str => ~TextLess(v.str, literal.str)
    BY <1>1, <1>2, TextLessIsStrict
  <2> QED
    BY <2>1, <2>2, <2>3, <2>4, <2>5
<1>3. CASE IsNum(v) /\ IsNum(literal)
  <2>1. ~IsNull(literal) /\ ~IsStr(literal) /\ ~IsBool(literal)
    BY <1>1, <1>3, KindsExclude
  <2>2. CompareScalar(v, op, literal) <=>
          Holds(op, AsF64(v) < AsF64(literal), AsF64(v) = AsF64(literal))
    BY <1>3, <2>1 DEF CompareScalar
  <2>3. /\ LessThan(v, literal) <=> AsF64(v) < AsF64(literal)
        /\ EqualTo(v, literal) <=> AsF64(v) = AsF64(literal)
    BY <1>3, <2>1 DEF LessThan, EqualTo
  <2>4. Holds(op, AsF64(v) < AsF64(literal), AsF64(v) = AsF64(literal))
          <=> Holds(op, LessThan(v, literal), EqualTo(v, literal))
    <3>1. /\ (AsF64(v) < AsF64(literal)) \in BOOLEAN /\ (AsF64(v) = AsF64(literal)) \in BOOLEAN
          /\ LessThan(v, literal) \in BOOLEAN /\ EqualTo(v, literal) \in BOOLEAN
      BY DEF LessThan, EqualTo, TextLess
    <3> QED
      BY <2>3, <3>1, HoldsTheSame
  <2>5. AsF64(v) = AsF64(literal) => ~(AsF64(v) < AsF64(literal))
    BY <1>1, <1>3
  <2> QED
    BY <2>1, <2>2, <2>3, <2>4, <2>5
<1>4. CASE IsBool(v) /\ IsBool(literal)
  <2>1. ~IsNull(literal) /\ ~IsStr(literal) /\ ~IsNum(literal)
    BY <1>1, <1>4, KindsExclude
  <2>2. CompareScalar(v, op, literal) <=> op \notin OrderingOps /\ Holds(op, FALSE, v.bool = literal.bool)
    BY <1>4, <2>1 DEF CompareScalar
  <2>3. ~LessThan(v, literal) /\ (EqualTo(v, literal) <=> v.bool = literal.bool)
    BY <1>4, <2>1 DEF LessThan, EqualTo
  <2>4. Holds(op, FALSE, v.bool = literal.bool) <=> Holds(op, LessThan(v, literal), EqualTo(v, literal))
    <3>1. /\ (FALSE) \in BOOLEAN /\ (v.bool = literal.bool) \in BOOLEAN
          /\ LessThan(v, literal) \in BOOLEAN /\ EqualTo(v, literal) \in BOOLEAN
      BY DEF LessThan, EqualTo, TextLess
    <3> QED
      BY <2>3, <3>1, HoldsTheSame
  <2> QED
    BY <1>4, <2>2, <2>3, <2>4
<1> QED
  BY <1>2, <1>3, <1>4 DEF Alike

\* Values of an ordered kind are less than, equal to or greater than a
\* literal of it.
LEMMA ScalarsPartition ==
    ASSUME NEW v \in Json, NEW literal \in LiteralValues, Alike(v, literal)
    PROVE  /\ CompareScalar(v, "ne", literal) <=> ~CompareScalar(v, "eq", literal)
           /\ ~IsBool(literal) =>
                /\ CompareScalar(v, "le", literal)
                     <=> CompareScalar(v, "lt", literal) \/ CompareScalar(v, "eq", literal)
                /\ CompareScalar(v, "ge", literal)
                     <=> CompareScalar(v, "gt", literal) \/ CompareScalar(v, "eq", literal)
                /\ CompareScalar(v, "ge", literal) <=> ~CompareScalar(v, "lt", literal)
                /\ CompareScalar(v, "gt", literal) <=> ~CompareScalar(v, "le", literal)
                /\ ~(CompareScalar(v, "lt", literal) /\ CompareScalar(v, "eq", literal))
<1> DEFINE less  == LessThan(v, literal)
           equal == EqualTo(v, literal)
<1>1. less \in BOOLEAN /\ equal \in BOOLEAN /\ ~(less /\ equal)
  <2>1. "eq" \in Ops
    BY DEF Ops
  <2> QED
    BY <2>1, ScalarIs DEF LessThan, EqualTo
<1>2. \A op \in Ops : CompareScalar(v, op, literal) <=>
        (IsBool(literal) => op \notin OrderingOps) /\ Holds(op, less, equal)
  BY ScalarIs
<1> HIDE DEF less, equal
<1>3. /\ CompareScalar(v, "eq", literal) <=> equal
      /\ CompareScalar(v, "ne", literal) <=> ~equal
  BY <1>1, <1>2, HoldsIs DEF Ops, OrderingOps
<1>4. ASSUME ~IsBool(literal)
      PROVE  /\ CompareScalar(v, "lt", literal) <=> less
             /\ CompareScalar(v, "le", literal) <=> less \/ equal
             /\ CompareScalar(v, "gt", literal) <=> ~less /\ ~equal
             /\ CompareScalar(v, "ge", literal) <=> ~less
  BY <1>1, <1>2, <1>4, HoldsIs DEF Ops
<1> QED
  BY <1>1, <1>3, <1>4

-----------------------------------------------------------------------------
(* Comparisons of the values on a path *)

\* What an array is replaced by, or the values themselves.
LEMMA FlattenedAre ==
    ASSUME NEW values \in Seq(Json)
    PROVE  /\ FlattenValues(values) \in Seq(Json)
           /\ \A item \in ToSet(FlattenValues(values)) :
                item \in Json /\ (IsArr(item) \/ item \in Elements(values))
           /\ values = <<>> => FlattenValues(values) = <<>>
           /\ Len(values) = 1 /\ ~IsArr(values[1]) =>
                ToSet(FlattenValues(values)) = {values[1]} /\ values[1] \in Json
                  /\ values[1] \in Elements(values)
<1>1. CASE Len(values) = 1 /\ IsArr(values[1])
  <2>1. values[1] \in Json /\ values # <<>> /\ values[1] \in ToSet(values)
    BY <1>1 DEF ToSet
  <2>2. values[1].arr \in Seq(Json) /\ FlattenValues(values) = values[1].arr
    BY <1>1, <2>1, JsonHasOneKind DEF FlattenValues
  <2>3. \A item \in ToSet(values[1].arr) : item \in Elements(values) /\ item \in Json
    BY <1>1, <2>1, <2>2 DEF Elements, ToSet
  <2> QED
    BY <1>1, <2>1, <2>2, <2>3
<1>2. CASE ~(Len(values) = 1 /\ IsArr(values[1]))
  <2>1. FlattenValues(values) = values
    BY <1>2 DEF FlattenValues
  <2>2. \A item \in ToSet(values) : item \in Json /\ (IsArr(item) \/ item \in Elements(values))
    BY DEF Elements, ToSet
  <2>3. ASSUME Len(values) = 1, ~IsArr(values[1])
        PROVE  ToSet(values) = {values[1]} /\ values[1] \in Json /\ values[1] \in Elements(values)
    <3>1. DOMAIN values = {1} /\ values[1] \in Json
      BY <2>3
    <3>2. ToSet(values) = {values[1]}
      BY <3>1 DEF ToSet
    <3> QED
      BY <2>2, <2>3, <3>1, <3>2
  <2> QED
    BY <1>2, <2>1, <2>2, <2>3
<1> QED
  BY <1>1, <1>2

\* Some value, or some element of the one array, satisfies a comparison.
SomeHolds(values, op, literal) ==
    \E item \in ToSet(FlattenValues(values)) : ~IsNull(item) /\ CompareScalar(item, op, literal)

LEMMA NullIs ==
    ASSUME NEW op \in Ops, NEW a \in BOOLEAN, NEW b \in BOOLEAN
    PROVE  /\ op = "eq" => (NullComparison(op, a, b) <=> (a <=> b))
           /\ op = "ne" => (NullComparison(op, a, b) <=> ~(a <=> b))
           /\ op \in OrderingOps => ~NullComparison(op, a, b)
BY DEF NullComparison, OrderingOps

LEMMA ValuesCompare ==
    ASSUME NEW values \in Seq(Json), NEW literal \in LiteralValues, ~IsNull(literal), NEW op \in Ops
    PROVE  /\ op # "ne" => (CompareFieldValues(values, op, literal) <=> SomeHolds(values, op, literal))
           /\ op = "ne" =>
                IF Len(values) = 1 /\ ~IsArr(values[1]) /\ ~IsNull(values[1])
                THEN CompareFieldValues(values, op, literal) <=> CompareScalar(values[1], op, literal)
                ELSE CompareFieldValues(values, op, literal) <=> ~SomeHolds(values, "eq", literal)
<1>0. op = "eq" \/ op = "ne" \/ op \in OrderingOps
  BY DEF Ops, OrderingOps
<1>4. /\ op = "eq" => ~NullComparison(op, TRUE, IsNull(literal))
      /\ op = "ne" => NullComparison(op, TRUE, IsNull(literal))
      /\ op \in OrderingOps => ~NullComparison(op, TRUE, IsNull(literal))
  <2>1. IsNull(literal) = FALSE
    BY DEF IsNull, IsKind
  <2>2. /\ op = "eq" => ~NullComparison(op, TRUE, FALSE)
        /\ op = "ne" => NullComparison(op, TRUE, FALSE)
        /\ op \in OrderingOps => ~NullComparison(op, TRUE, FALSE)
    BY NullIs
  <2> QED
    BY <2>1, <2>2
<1>5. Len(values) \in Nat /\ (Len(values) = 0 => values = <<>>)
  OBVIOUS
<1>1. CASE values = <<>>
  <2>1. \A o : ~SomeHolds(values, o, literal)
    <3>1. FlattenValues(values) = <<>>
      BY <1>1, FlattenedAre
    <3>2. ToSet(FlattenValues(values)) = {}
      BY <3>1 DEF ToSet
    <3> QED
      BY <3>2 DEF SomeHolds
  <2>2. CompareFieldValues(values, op, literal) <=> NullComparison(op, TRUE, IsNull(literal))
    BY <1>1 DEF CompareFieldValues
  <2>4. Len(values) # 1
    BY <1>1
  <2> QED
    BY <1>0, <1>4, <2>1, <2>2, <2>4
<1>2. CASE Len(values) = 1 /\ ~IsArr(values[1])
  <2>0. values # <<>> /\ ToSet(FlattenValues(values)) = {values[1]}
    BY <1>2, FlattenedAre
  <2>4. ~(Len(values) > 1)
    BY <1>2
  <2>1. \A o : SomeHolds(values, o, literal) <=> ~IsNull(values[1]) /\ CompareScalar(values[1], o, literal)
    BY <2>0 DEF SomeHolds
  <2>2. CASE IsNull(values[1])
    <3>1. CompareFieldValues(values, op, literal) <=> NullComparison(op, TRUE, IsNull(literal))
      BY <1>2, <2>0, <2>2, <2>4, Zenon DEF CompareFieldValues
    <3> QED
      BY <1>0, <1>4, <2>1, <2>2, <3>1
  <2>3. CASE ~IsNull(values[1])
    <3>1. CompareFieldValues(values, op, literal) <=> CompareScalar(values[1], op, literal)
      BY <1>2, <2>0, <2>3, <2>4, Zenon DEF CompareFieldValues
    <3> QED
      BY <1>2, <2>1, <2>3, <3>1
  <2> QED
    BY <2>2, <2>3
<1>3. CASE values # <<>> /\ ~(Len(values) = 1 /\ ~IsArr(values[1]))
  <2>1. Len(values) > 1 \/ IsArr(values[1])
    <3>1. Len(values) \in Nat /\ Len(values) # 0
      BY <1>3, <1>5
    <3>2. CASE Len(values) = 1
      BY <1>3, <3>2
    <3>3. CASE Len(values) # 1
      <4>1. \A n \in Nat : n # 0 /\ n # 1 => n > 1
        OBVIOUS
      <4>2. Len(values) > 1
        BY <3>1, <3>3, <4>1, Zenon
      <4> QED
        BY <4>2
    <3> QED
      BY <3>2, <3>3
  <2>2. CompareFieldValues(values, op, literal)
          <=> CompareItems(ToSet(FlattenValues(values)), op, literal)
    BY <1>3, <2>1 DEF CompareFieldValues
  <2>3. \A item : ValuesEqual(item, literal) <=> ~IsNull(item) /\ CompareScalar(item, "eq", literal)
    BY DEF ValuesEqual
  <2>6. (\E item \in ToSet(FlattenValues(values)) : ValuesEqual(item, literal))
          <=> SomeHolds(values, "eq", literal)
    BY <2>3 DEF SomeHolds
  <2>4. /\ op = "eq" => (CompareItems(ToSet(FlattenValues(values)), op, literal)
                          <=> SomeHolds(values, "eq", literal))
        /\ op = "ne" => (CompareItems(ToSet(FlattenValues(values)), op, literal)
                          <=> ~SomeHolds(values, "eq", literal))
    BY <2>6 DEF CompareItems, OrderingOps
  <2>5. op \in OrderingOps => (CompareItems(ToSet(FlattenValues(values)), op, literal)
                                <=> SomeHolds(values, op, literal))
    BY DEF CompareItems, SomeHolds, OrderingOps
  <2> QED
    BY <1>0, <1>3, <2>2, <2>4, <2>5 DEF OrderingOps
<1> QED
  BY <1>1, <1>2, <1>3

LEMMA ArraysSatisfyNothing ==
    ASSUME NEW v \in Json, IsArr(v), NEW literal, ~IsNull(literal), NEW op
    PROVE  ~CompareScalar(v, op, literal)
<1>1. ~IsStr(v) /\ ~IsNum(v) /\ ~IsBool(v)
  BY JsonHasOneKind, KindsExclude
<1> QED
  BY <1>1 DEF CompareScalar

LEMMA NullsSatisfyNothing ==
    ASSUME NEW v \in Json, IsNull(v), NEW literal, ~IsNull(literal), NEW op
    PROVE  ~CompareScalar(v, op, literal)
<1>1. ~IsStr(v) /\ ~IsNum(v) /\ ~IsBool(v)
  BY JsonHasOneKind, KindsExclude
<1> QED
  BY <1>1 DEF CompareScalar

\* An array is looked into when it is alone.
LEMMA FlatAreElements ==
    ASSUME NEW values \in Seq(Json),
           Len(values) <= 1 \/ \A value \in ToSet(values) : ~IsArr(value)
    PROVE  ToSet(FlattenValues(values)) = Elements(values)
<1>1. CASE Len(values) = 1 /\ IsArr(values[1])
  <2>1. FlattenValues(values) = values[1].arr
    BY <1>1 DEF FlattenValues
  <2>2. ToSet(values) = {values[1]}
    <3>1. DOMAIN values = {1}
      BY <1>1
    <3> QED
      BY <3>1 DEF ToSet
  <2>3. \A e : e \in Elements(values) <=> e \in ElementsOf(values[1])
    BY <2>2, ElementsAre
  <2>4. ElementsOf(values[1]) = ToSet(values[1].arr)
    BY <1>1 DEF ElementsOf
  <2> QED
    BY <2>1, <2>3, <2>4
<1>2. CASE ~(Len(values) = 1 /\ IsArr(values[1]))
  <2>1. FlattenValues(values) = values
    BY <1>2 DEF FlattenValues
  <2>2. ASSUME NEW value \in ToSet(values) PROVE ~IsArr(value)
    <3>1. PICK i \in DOMAIN values : value = values[i]
      BY DEF ToSet
    <3>2. CASE Len(values) <= 1
      <4> DEFINE N == Len(values)
      <4>1. N \in Nat /\ i \in 1..N /\ N <= 1
        BY <3>1, <3>2
      <4> HIDE DEF N
      <4>2. N = 1 /\ i = 1
        BY <4>1
      <4> QED
        BY <1>2, <3>1, <4>2 DEF N
    <3> QED
      BY <3>2
  <2>3. \A e : e \in Elements(values) <=> \E value \in ToSet(values) : e = value
    BY <2>2, ElementsAre DEF ElementsOf
  <2> QED
    BY <2>1, <2>3
<1> QED
  BY <1>1, <1>2

\* Any other operator than ne asks for one element.
LEMMA ElementsCompare ==
    ASSUME NEW values \in Seq(Json),
           Len(values) <= 1 \/ \A value \in ToSet(values) : ~IsArr(value),
           NEW literal \in LiteralValues, ~IsNull(literal), NEW op \in Ops, op # "ne"
    PROVE  CompareFieldValues(values, op, literal) <=>
             \E e \in Elements(values) : CompareScalar(e, op, literal)
<1>1. CompareFieldValues(values, op, literal) <=> SomeHolds(values, op, literal)
  BY ValuesCompare
<1>2. \A e \in Elements(values) : IsNull(e) => ~CompareScalar(e, op, literal)
  BY ElementsAreJson, NullsSatisfyNothing
<1>3. ToSet(FlattenValues(values)) = Elements(values)
  BY FlatAreElements
<1> QED
  BY <1>1, <1>2, <1>3 DEF SomeHolds

\* Values and a literal of a type are alike.
LEMMA FittingAreAlike ==
    ASSUME NEW elem, elem \notin {"Half", "GeographyPoint"},
           NEW v \in Json, KindFits(elem, v),
           NEW literal \in LiteralValues, KindFits(elem, literal)
    PROVE  Alike(v, literal)
<1>1. ~IsObj(literal)
  BY LiteralHasOneKind
<1>2. IsInt(v) => IsNum(v)
  BY DEF IsInt, IsNum
<1>3. IsInt(literal) => IsNum(literal)
  BY DEF IsInt, IsNum
<1>4. CASE elem \in {"Int8", "Int16", "Int32", "Int64"}
  BY <1>2, <1>3, <1>4 DEF KindFits, Alike
<1>5. CASE elem \in {"Single", "Double"}
  BY <1>5 DEF KindFits, Alike
<1>6. CASE elem = "Boolean"
  BY <1>6 DEF KindFits, Alike
<1>7. CASE elem = "ComplexType"
  BY <1>1, <1>7 DEF KindFits
<1>8. CASE elem \notin {"Int8", "Int16", "Int32", "Int64", "Single", "Double", "Boolean", "ComplexType"}
  BY <1>8 DEF KindFits, Alike
<1> QED
  BY <1>4, <1>5, <1>6, <1>7, <1>8

\* The operators on the values of a path whose elements are like the literal.
LEMMA ValuesPartition ==
    ASSUME NEW values \in Seq(Json), NEW literal \in LiteralValues, ~IsNull(literal),
           \A e \in Elements(values) : Alike(e, literal)
    PROVE  /\ CompareFieldValues(values, "ne", literal) <=> ~CompareFieldValues(values, "eq", literal)
           /\ ~IsBool(literal) =>
                /\ CompareFieldValues(values, "le", literal) <=>
                     CompareFieldValues(values, "lt", literal) \/ CompareFieldValues(values, "eq", literal)
                /\ CompareFieldValues(values, "ge", literal) <=>
                     CompareFieldValues(values, "gt", literal) \/ CompareFieldValues(values, "eq", literal)
                /\ Len(values) = 1 /\ ~IsArr(values[1]) =>
                     /\ CompareFieldValues(values, "ge", literal) <=> ~CompareFieldValues(values, "lt", literal)
                     /\ CompareFieldValues(values, "gt", literal) <=> ~CompareFieldValues(values, "le", literal)
                     /\ ~(CompareFieldValues(values, "lt", literal) /\ CompareFieldValues(values, "eq", literal))
<1>0. {"eq", "ne", "lt", "le", "gt", "ge"} = Ops
  BY DEF Ops
<1>1. \A op \in Ops : op # "ne" =>
        (CompareFieldValues(values, op, literal) <=> SomeHolds(values, op, literal))
  BY ValuesCompare
<1>2. ASSUME NEW item \in ToSet(FlattenValues(values))
      PROVE  item \in Json /\ (Alike(item, literal) \/ \A op : ~CompareScalar(item, op, literal))
  BY FlattenedAre, ArraysSatisfyNothing
<1>3. ASSUME Len(values) = 1, ~IsArr(values[1])
      PROVE  /\ values[1] \in Json /\ Alike(values[1], literal) /\ ~IsNull(values[1])
             /\ \A op : SomeHolds(values, op, literal) <=> CompareScalar(values[1], op, literal)
  <2>1. ToSet(FlattenValues(values)) = {values[1]} /\ values[1] \in Json /\ values[1] \in Elements(values)
    BY <1>3, FlattenedAre
  <2>2. Alike(values[1], literal)
    BY <2>1
  <2>3. ~IsNull(values[1])
    BY <2>1, <2>2, JsonHasOneKind, KindsExclude DEF Alike
  <2> QED
    BY <2>1, <2>2, <2>3 DEF SomeHolds
<1>4. CompareFieldValues(values, "ne", literal) <=> ~CompareFieldValues(values, "eq", literal)
  <2>1. CASE Len(values) = 1 /\ ~IsArr(values[1])
    <3>1. CompareFieldValues(values, "ne", literal) <=> CompareScalar(values[1], "ne", literal)
      BY <1>0, <1>3, <2>1, ValuesCompare
    <3>2. CompareFieldValues(values, "eq", literal) <=> CompareScalar(values[1], "eq", literal)
      BY <1>0, <1>1, <1>3, <2>1
    <3> QED
      BY <1>3, <2>1, <3>1, <3>2, ScalarsPartition
  <2>2. CASE ~(Len(values) = 1 /\ ~IsArr(values[1]))
    <3>1. CompareFieldValues(values, "ne", literal) <=> ~SomeHolds(values, "eq", literal)
      BY <1>0, <2>2, ValuesCompare
    <3> QED
      BY <1>0, <1>1, <3>1
  <2> QED
    BY <2>1, <2>2
<1>5. ASSUME ~IsBool(literal)
      PROVE  /\ SomeHolds(values, "le", literal) <=>
                  SomeHolds(values, "lt", literal) \/ SomeHolds(values, "eq", literal)
             /\ SomeHolds(values, "ge", literal) <=>
                  SomeHolds(values, "gt", literal) \/ SomeHolds(values, "eq", literal)
  <2>1. ASSUME NEW item \in ToSet(FlattenValues(values))
        PROVE  /\ CompareScalar(item, "le", literal)
                    <=> CompareScalar(item, "lt", literal) \/ CompareScalar(item, "eq", literal)
               /\ CompareScalar(item, "ge", literal)
                    <=> CompareScalar(item, "gt", literal) \/ CompareScalar(item, "eq", literal)
    BY <1>2, <1>5, ScalarsPartition
  <2> QED
    BY <2>1 DEF SomeHolds
<1>6. ASSUME ~IsBool(literal), Len(values) = 1, ~IsArr(values[1])
      PROVE  /\ SomeHolds(values, "ge", literal) <=> ~SomeHolds(values, "lt", literal)
             /\ SomeHolds(values, "gt", literal) <=> ~SomeHolds(values, "le", literal)
             /\ ~(SomeHolds(values, "lt", literal) /\ SomeHolds(values, "eq", literal))
  BY <1>3, <1>6, ScalarsPartition
<1> QED
  BY <1>0, <1>1, <1>4, <1>5, <1>6

-----------------------------------------------------------------------------
(* Cases *)

DefinitionMade == case.family = "definition" => case.definition \in Definitions

DocumentMade ==
    case.family = "document" =>
        /\ case.definition \in Definitions /\ ValidSchema(case.definition)
        /\ case.fields \in Documents(case.definition)

FilterMade ==
    case.family = "filter" =>
        /\ case.definition \in Definitions
        /\ case.expr \in Expressions(case.definition) /\ Allows(case.expr, case.definition)
        /\ \A name \in DOMAIN case.fields : case.fields[name] \in Json

DateMade ==
    case.family = "date" =>
        case.dt \in Moments /\ case.unit \in DateUnits /\ case.interval \in Intervals

CaseInv == DefinitionMade /\ DocumentMade /\ FilterMade /\ DateMade

\* A case is made of what is sent, of documents that were accepted and of
\* filters that are valid for their definition.
THEOREM CasesAreMade == QuerySpec => []CaseInv
<1>1. QueryInit => CaseInv
  BY DEF QueryInit, CaseInv, DefinitionMade, DocumentMade, FilterMade, DateMade
<1>2. ASSUME CaseInv, [QueryNext]_case PROVE CaseInv'
  <2>1. CASE SendDefinition
    BY <2>1 DEF SendDefinition, CaseInv, DefinitionMade, DocumentMade, FilterMade, DateMade
  <2>2. CASE SendDocument
    BY <1>2, <2>2 DEF SendDocument, CaseInv, DefinitionMade, DocumentMade, FilterMade, DateMade
  <2>3. CASE SendFilter
    <3>1. PICK expr \in Expressions(case.definition) :
            /\ Allows(expr, case.definition)
            /\ case' = [family |-> "filter", definition |-> case.definition, expr |-> expr,
                        fields |-> StoredDocument(case.definition, case.fields).fields]
      BY <2>3 DEF SendFilter
    <3>2. /\ case.definition \in Definitions /\ ValidSchema(case.definition)
          /\ case.fields \in Documents(case.definition) /\ DocumentAccepted(case.definition, case.fields)
      BY <1>2, <2>3 DEF SendFilter, CaseInv, DocumentMade
    <3>3. \A name \in DOMAIN StoredDocument(case.definition, case.fields).fields :
            StoredDocument(case.definition, case.fields).fields[name] \in Json
      BY <3>2, StoredAssumption DEF Range
    <3>4. FilterMade'
      BY <3>1, <3>2, <3>3 DEF FilterMade
    <3> QED
      BY <3>1, <3>4 DEF CaseInv, DefinitionMade, DocumentMade, DateMade
  <2>4. CASE ReadExpression
    BY <2>4 DEF ReadExpression, CaseInv, DefinitionMade, DocumentMade, FilterMade, DateMade
  <2>5. CASE ReadPhrase
    BY <2>5 DEF ReadPhrase, CaseInv, DefinitionMade, DocumentMade, FilterMade, DateMade
  <2>6. CASE MoveDate
    BY <2>6 DEF MoveDate, CaseInv, DefinitionMade, DocumentMade, FilterMade, DateMade
  <2>7. CASE Leave
    BY <2>7 DEF Leave, CaseInv, DefinitionMade, DocumentMade, FilterMade, DateMade
  <2>8. CASE UNCHANGED case
    BY <1>2, <2>8 DEF CaseInv, DefinitionMade, DocumentMade, FilterMade, DateMade
  <2> QED
    BY <1>2, <2>1, <2>2, <2>3, <2>4, <2>5, <2>6, <2>7, <2>8 DEF QueryNext
<1> QED
  BY <1>1, <1>2, PTL DEF QuerySpec

-----------------------------------------------------------------------------
(* The fields and the values a path leads to *)

LEMMA SequencesEqual ==
    ASSUME NEW S, NEW s \in Seq(S), NEW t \in Seq(S), Len(s) = Len(t), \A i \in 1..Len(s) : s[i] = t[i]
    PROVE  s = t
OBVIOUS

LEMMA PathIs ==
    ASSUME NEW path \in FieldPaths
    PROVE  path \in Seq(FieldNames) /\ path # <<>> /\ path \o <<>> = path
<1>1. PICK n \in 1..MaxDepth : path \in [1..n -> FieldNames]
  BY DEF FieldPaths
<1>2. n \in Nat \ {0}
  BY LimitsAssumption
<1>3. path \in Seq(FieldNames) /\ path # <<>>
  BY <1>1, <1>2
<1> QED
  BY <1>3

LEMMA PathsSplit ==
    ASSUME NEW S, NEW path \in Seq(S), NEW n \in 1..Len(path)
    PROVE  /\ SubSeq(path, 1, n) \in Seq(S) /\ SubSeq(path, 1, n) # <<>> /\ Len(SubSeq(path, 1, n)) = n
           /\ SubSeq(path, n + 1, Len(path)) \in Seq(S)
           /\ path = SubSeq(path, 1, n) \o SubSeq(path, n + 1, Len(path))
           /\ n = Len(path) => SubSeq(path, 1, n) = path /\ SubSeq(path, n + 1, Len(path)) = <<>>
           /\ n # Len(path) => SubSeq(path, n + 1, Len(path)) # <<>>
<1> DEFINE p == SubSeq(path, 1, n)
           q == SubSeq(path, n + 1, Len(path))
<1>1. Len(path) \in Nat /\ n \in Nat \ {0} /\ n <= Len(path)
  OBVIOUS
<1>2. p \in Seq(S) /\ Len(p) = n /\ \A i \in 1..n : p[i] = path[i]
  BY <1>1
<1>3. q \in Seq(S) /\ Len(q) = Len(path) - n /\ \A i \in 1..Len(path) - n : q[i] = path[n + i]
  BY <1>1
<1> HIDE DEF p, q
<1>4. path = p \o q
  <2>1. path \in [1..Len(path) -> S] /\ p \o q \in [1..Len(path) -> S]
    <3>1. p \o q \in Seq(S) /\ Len(p \o q) = Len(path)
      BY <1>1, <1>2, <1>3
    <3>2. \A s \in Seq(S) : s \in [1..Len(s) -> S]
      OBVIOUS
    <3> QED
      BY <3>1, <3>2
  <2> DEFINE N == Len(path)
  <2>2. ASSUME NEW i \in 1..Len(path) PROVE (p \o q)[i] = path[i]
    <3>1. CASE i <= n
      BY <1>1, <1>2, <1>3, <3>1
    <3>2. CASE ~(i <= n)
      <4>1. i - n \in 1..Len(path) - n /\ n + (i - n) = i
        BY <1>1, <3>2
      <4>2. (p \o q)[i] = q[i - n]
        BY <1>1, <1>2, <1>3, <3>2
      <4> QED
        BY <1>3, <4>1, <4>2
    <3> QED
      BY <3>1, <3>2
  <2> DEFINE r == p \o q
  <2> DEFINE places == 1..N
  <2>3. path \in [places -> S] /\ r \in [places -> S] /\ \A i \in places : r[i] = path[i]
    BY <2>1, <2>2
  <2> HIDE DEF r, N, places
  <2>4. r = path
    BY <2>3
  <2> QED
    BY <2>4 DEF r
<1>5. n = Len(path) => p = path /\ q = <<>>
  BY <1>1 DEF p, q
<1>6. n # Len(path) => q # <<>>
  <2>1. n # Len(path) => Len(q) # 0
    BY <1>1, <1>3
  <2> QED
    BY <2>1
<1>7. p # <<>>
  BY <1>1, <1>2
<1> QED
  BY <1>2, <1>3, <1>4, <1>5, <1>6, <1>7 DEF p, q

LEMMA PrefixesArePaths ==
    ASSUME NEW path \in FieldPaths, NEW n \in 1..Len(path)
    PROVE  SubSeq(path, 1, n) \in FieldPaths
<1>1. PICK N \in 1..MaxDepth : path \in [1..N -> FieldNames]
  BY DEF FieldPaths
<1>2. N \in Nat /\ MaxDepth \in Nat /\ Len(path) = N
  BY <1>1, LimitsAssumption
<1>3. n \in 1..MaxDepth
  BY <1>1, <1>2
<1>4. SubSeq(path, 1, n) \in [1..n -> FieldNames]
  <2>1. path \in Seq(FieldNames)
    BY <1>1, <1>2
  <2>2. SubSeq(path, 1, n) \in Seq(FieldNames) /\ Len(SubSeq(path, 1, n)) = n
    BY <2>1, PathsSplit
  <2>3. \A s \in Seq(FieldNames) : s \in [1..Len(s) -> FieldNames]
    OBVIOUS
  <2> QED
    BY <2>2, <2>3, Zenon
<1> QED
  BY <1>3, <1>4 DEF FieldPaths

\* What a path leads to in a document are values of it.
LEMMA ResolvedAreJson ==
    ASSUME NEW fields, \A name \in DOMAIN fields : fields[name] \in Json, NEW path \in FieldPaths
    PROVE  ResolveFieldPath(fields, path) \in Seq(Json)
<1>1. path \in Seq(FieldNames) /\ path # <<>>
  BY LimitsAssumption DEF FieldPaths
<1>2. CASE Head(path) \in DOMAIN fields
  <2>1. <<fields[Head(path)]>> \in Seq(Json) /\ Tail(path) \in Seq(FieldNames)
    BY <1>1, <1>2
  <2>2. PICK g : Leads(g, Len(Tail(path)), Seq(Json), <<fields[Head(path)]>>, Tail(path))
                   /\ FoldLeft(Descend, <<fields[Head(path)]>>, Tail(path)) = g[Len(Tail(path))]
    BY <2>1, DescentExists
  <2>3. Len(Tail(path)) \in 0..Len(Tail(path)) /\ g \in [0..Len(Tail(path)) -> Seq(Json)]
    BY <2>1, <2>2 DEF Leads
  <2>4. g[Len(Tail(path))] \in Seq(Json)
    BY <2>3
  <2>5. ResolveFieldPath(fields, path) = FoldLeft(Descend, <<fields[Head(path)]>>, Tail(path))
    BY <1>2, Zenon DEF ResolveFieldPath
  <2> QED
    BY <2>2, <2>4, <2>5
<1>3. CASE Head(path) \notin DOMAIN fields
  <2>1. ResolveFieldPath(fields, path) = <<>>
    BY <1>3, Zenon DEF ResolveFieldPath
  <2> QED
    BY <2>1
<1> QED
  BY <1>2, <1>3

\* The fields found after each of n names.
Finds(g, n, V, b, path) ==
    /\ g \in [0..n -> V] /\ g[0] = b
    /\ \A i \in 1..n : g[i] = Subfield(g[i - 1], path[i])

\* The fields found on a path, name after name.
LEMMA FindingIs ==
    ASSUME NEW n \in Nat, NEW V, NEW b \in V, NEW path, DOMAIN path = 1..n,
           \A i \in 1..n : \A v \in V : Subfield(v, path[i]) \in V
    PROVE  \E g : Finds(g, n, V, b, path) /\ FoldLeft(Subfield, b, path) = g[n]
<1> DEFINE Fold(it) == it = [s \in SUBSET (1..n) |->
                               IF s = {} THEN b ELSE Subfield(it[s \ {Max(s)}], path[Max(s)])]
           it == CHOOSE iter : Fold(iter)
<1>2. FoldLeft(Subfield, b, path) = it[1..n]
  BY Zenon DEF FoldLeft, MapThenFoldSet
<1>3. Fold(it)
  <2> DEFINE step == [i \in 1..n |-> [v \in V |-> Subfield(v, path[i])]]
  <2>1. step \in Steps(n, V)
    BY DEF Steps
  <2>3. \A i \in 1..n, v \in V : step[i][v] = Subfield(v, path[i])
    OBVIOUS
  <2> HIDE DEF step
  <2>4. PICK h : FoldsTo(h, n, V, b, step)
    <3> HIDE DEF it, Fold
    <3> QED
      BY <2>1, FoldsExist
  <2>8. /\ h \in [SUBSET (1..n) -> V] /\ h[{}] = b
        /\ \A s \in SUBSET (1..n) : s # {} => h[s] = step[Max(s)][h[s \ {Max(s)}]]
    BY <2>4 DEF FoldsTo
  <2>5. ASSUME NEW s \in SUBSET (1..n), s # {}
        PROVE  step[Max(s)][h[s \ {Max(s)}]] = Subfield(h[s \ {Max(s)}], path[Max(s)])
    <3>1. Max(s) \in 1..n
      BY <2>5, MaxOfPlaces
    <3>2. h[s \ {Max(s)}] \in V
      BY <2>5, <2>8
    <3> QED
      BY <2>3, <3>1, <3>2
  <2>6. \A s \in SUBSET (1..n) : h[s] = IF s = {} THEN b ELSE Subfield(h[s \ {Max(s)}], path[Max(s)])
    BY <2>5, <2>8
  <2>7. Fold(h)
    BY <2>6, <2>8
  <2> HIDE DEF Fold
  <2> QED
    BY <2>7
<1>4. it[{}] = b /\ \A s \in SUBSET (1..n) : s # {} => it[s] = Subfield(it[s \ {Max(s)}], path[Max(s)])
  <2> HIDE DEF it
  <2>1. it = [s \in SUBSET (1..n) |-> IF s = {} THEN b ELSE Subfield(it[s \ {Max(s)}], path[Max(s)])]
    BY <1>3
  <2> QED
    BY <2>1
<1> HIDE DEF it, Fold
<1> DEFINE g == [i \in 0..n |-> it[1..i]]
<1>5. g[0] = b
  <2>1. 1..0 = {} /\ 0 \in 0..n
    OBVIOUS
  <2> QED
    BY <1>4, <2>1
<1>6. ASSUME NEW i \in 1..n PROVE g[i] = Subfield(g[i - 1], path[i])
  <2>1. 1..i \in SUBSET (1..n) /\ 1..i # {}
    <3>1. 1..i \subseteq 1..n /\ i \in 1..i
      <4> HIDE DEF g
      <4> QED
        OBVIOUS
    <3> QED
      BY <3>1
  <2>5. i \in 0..n /\ i - 1 \in 0..n
    OBVIOUS
  <2>2. Max(1..i) = i
    BY PlacesUpTo
  <2>3. (1..i) \ {i} = 1..i - 1
    OBVIOUS
  <2>4. it[1..i] = Subfield(it[1..i - 1], path[i])
    BY <1>4, <2>1, <2>2, <2>3
  <2> QED
    BY <2>4, <2>5
<1>7. n \in 0..n /\ g[n] = it[1..n]
  OBVIOUS
<1> HIDE DEF g
<1>8. \A i \in 0..n : g[i] \in V
  <2> DEFINE bad == {i \in 0..n : g[i] \notin V}
  <2>1. ASSUME bad # {} PROVE FALSE
    <3>1. PICK i \in bad : \A j \in bad : i <= j
      BY <2>1, LeastExists
    <3>2. i \in 0..n /\ g[i] \notin V
      OBVIOUS
    <3>3. i \in 1..n
      BY <1>5, <3>2
    <3>4. i - 1 \in 0..n /\ ~(i <= i - 1)
      BY <3>3
    <3> HIDE DEF bad
    <3>5. i - 1 \notin bad
      BY <3>1, <3>4
    <3>6. g[i - 1] \in V
      BY <3>4, <3>5 DEF bad
    <3> QED
      BY <1>6, <3>2, <3>3, <3>6
  <2> QED
    BY <2>1
<1>9. g \in [0..n -> V]
  BY <1>8 DEF g
<1>10. Finds(g, n, V, b, path)
  BY <1>5, <1>6, <1>9 DEF Finds
<1> QED
  BY <1>2, <1>7, <1>10

\* The first names find the same fields, whatever names follow.
LEMMA SameFinding ==
    ASSUME NEW n \in Nat, NEW N \in Nat, n <= N, NEW V, NEW b, NEW p, NEW q,
           \A i \in 1..n : p[i] = q[i],
           NEW g, NEW h, Finds(g, n, V, b, p), Finds(h, N, V, b, q)
    PROVE  g[n] = h[n]
<1> DEFINE bad == {i \in 0..n : g[i] # h[i]}
<1>1. /\ g[0] = b /\ \A i \in 1..n : g[i] = Subfield(g[i - 1], p[i])
      /\ h[0] = b /\ \A i \in 1..N : h[i] = Subfield(h[i - 1], q[i])
  BY DEF Finds
<1>2. ASSUME bad # {} PROVE FALSE
  <2>1. PICK i \in bad : \A j \in bad : i <= j
    BY <1>2, LeastExists
  <2>2. i \in 0..n /\ g[i] # h[i]
    OBVIOUS
  <2>3. i \in 1..n /\ i \in 1..N /\ i - 1 \in 0..n /\ ~(i <= i - 1)
    BY <1>1, <2>2
  <2>4. g[i - 1] = h[i - 1]
    <3>1. i - 1 \notin bad
      <4> HIDE DEF bad
      <4> QED
        BY <2>1, <2>3
    <3> QED
      BY <2>3, <3>1
  <2> QED
    BY <1>1, <2>2, <2>3, <2>4
<1>3. n \in 0..n
  OBVIOUS
<1> QED
  BY <1>2, <1>3

LEMMA FieldNamedIs ==
    ASSUME NEW S, NEW fields \in Seq(S), NEW name
    PROVE  \/ FieldNamed(fields, name) = <<>> /\ \A f \in ToSet(fields) : f.name # name
           \/ \E f \in S : /\ f \in ToSet(fields) /\ f.name = name
                           /\ FieldNamed(fields, name) = <<f>>
<1> DEFINE I  == {i \in 1..Len(fields) : fields[i].name = name}
           at == IF I # {} THEN Min(I) ELSE 0
<1>1. FieldNamed(fields, name) = IF at = 0 THEN <<>> ELSE <<fields[at]>>
  BY Zenon DEF FieldNamed, SelectInSeq
<1>2. Len(fields) \in Nat /\ DOMAIN fields = 1..Len(fields) /\ \A i \in 1..Len(fields) : fields[i] \in S
  OBVIOUS
<1>3. CASE I = {}
  <2>1. \A f \in ToSet(fields) : f.name # name
    BY <1>2, <1>3 DEF ToSet
  <2> QED
    BY <1>1, <1>3, <2>1
<1>4. CASE I # {}
  <2>1. I \subseteq 0..Len(fields)
    BY <1>2
  <2>2. \E i \in I : \A j \in I : i <= j
    <3> HIDE DEF I
    <3> QED
      BY <1>2, <1>4, <2>1, LeastExists
  <2>3. at \in I
    <3> HIDE DEF I
    <3> QED
      BY <1>4, <2>2 DEF Min
  <2> HIDE DEF at
  <2>4. at \in 1..Len(fields) /\ at # 0 /\ fields[at].name = name
    BY <1>2, <2>3
  <2>5. fields[at] \in ToSet(fields) /\ fields[at] \in S
    BY <1>2, <2>4 DEF ToSet
  <2> QED
    BY <1>1, <2>4, <2>5
<1> QED
  BY <1>3, <1>4

LEMMA NamedField ==
    ASSUME NEW S, NEW fields \in Seq(S), NEW name
    PROVE  FieldNamed(fields, name) \in Seq(S)
<1>1. CASE FieldNamed(fields, name) = <<>>
  BY <1>1
<1>2. CASE \E f \in S : FieldNamed(fields, name) = <<f>>
  <2>1. PICK f \in S : FieldNamed(fields, name) = <<f>>
    BY <1>2
  <2> QED
    BY <2>1
<1> QED
  BY <1>1, <1>2, FieldNamedIs

\* A field is found below fields of definitions, or none is.
LEMMA SubfieldIs ==
    ASSUME NEW found \in Seq(FieldDefinitions), NEW name
    PROVE  Subfield(found, name) \in Seq(FieldDefinitions)
<1>1. CASE found = <<>>
  BY <1>1 DEF Subfield
<1>2. CASE found # <<>>
  <2>1. found[1] \in FieldDefinitions
    BY <1>2
  <2>2. found[1].subfields \in Seq(FieldDefinitions)
    BY <2>1, DefinitionsAssumption
  <2>3. Subfield(found, name) = FieldNamed(found[1].subfields, name)
    BY <1>2 DEF Subfield
  <2> QED
    BY <2>2, <2>3, NamedField
<1> QED
  BY <1>1, <1>2

LEMMA FindingExists ==
    ASSUME NEW b \in Seq(FieldDefinitions), NEW S, NEW path \in Seq(S)
    PROVE  \E g : Finds(g, Len(path), Seq(FieldDefinitions), b, path) /\ FoldLeft(Subfield, b, path) = g[Len(path)]
<1>1. Len(path) \in Nat /\ DOMAIN path = 1..Len(path)
  OBVIOUS
<1>2. \A i \in 1..Len(path) : \A v \in Seq(FieldDefinitions) : Subfield(v, path[i]) \in Seq(FieldDefinitions)
  BY SubfieldIs
<1> DEFINE n == Len(path)
           V == Seq(FieldDefinitions)
<1> HIDE DEF n, V
<1>3. \E g : Finds(g, n, V, b, path) /\ FoldLeft(Subfield, b, path) = g[n]
  BY <1>1, <1>2, FindingIs DEF n, V
<1> QED
  BY <1>3 DEF n, V

\* The first names of a path.
LEMMA FirstNames ==
    ASSUME NEW S, NEW path \in Seq(S), NEW n \in 1..Len(path)
    PROVE  LET p == SubSeq(path, 1, n) IN
           /\ p \in Seq(S) /\ p # <<>> /\ Head(p) = path[1]
           /\ Tail(p) \in Seq(S) /\ Len(Tail(p)) = n - 1 /\ n - 1 \in Nat
           /\ \A i \in 1..n - 1 : Tail(p)[i] = path[i + 1]
<1> DEFINE p == SubSeq(path, 1, n)
<1>1. Len(path) \in Nat /\ n \in Nat \ {0} /\ n <= Len(path)
  OBVIOUS
<1>2. p \in Seq(S) /\ Len(p) = n /\ \A i \in 1..n : p[i] = path[i]
  BY <1>1
<1> HIDE DEF p
<1>3. p # <<>> /\ Head(p) = path[1]
  BY <1>1, <1>2
<1>4. Tail(p) \in Seq(S) /\ Len(Tail(p)) = n - 1 /\ \A i \in 1..n - 1 : Tail(p)[i] = p[i + 1]
  BY <1>1, <1>2, <1>3
<1>5. n - 1 \in Nat /\ \A i \in 1..n - 1 : i + 1 \in 1..n
  BY <1>1
<1> QED
  BY <1>2, <1>3, <1>4, <1>5 DEF p

LEMMA FieldsOfPaths ==
    ASSUME NEW d \in Definitions, NEW S, NEW path \in Seq(S), NEW n \in 1..Len(path)
    PROVE  LET p     == SubSeq(path, 1, n)
               first == FieldNamed(d.fields, path[1]) IN
           \E g : /\ Finds(g, n - 1, Seq(FieldDefinitions), first, Tail(p))
                 /\ FieldPath(d, p) = g[n - 1]
<1> DEFINE p     == SubSeq(path, 1, n)
           first == FieldNamed(d.fields, path[1])
           V     == Seq(FieldDefinitions)
           tail  == Tail(p)
           m     == n - 1
<1>1. /\ Head(p) = path[1] /\ tail \in Seq(S) /\ Len(tail) = m /\ m \in Nat
  BY FirstNames
<1>2. first \in V
  <2>1. d.fields \in Seq(FieldDefinitions)
    BY DefinitionsAssumption
  <2> QED
    BY <2>1, NamedField
<1>3. FieldPath(d, p) = FoldLeft(Subfield, first, tail)
  BY <1>1, Zenon DEF FieldPath
<1>4. \E g : Finds(g, Len(tail), V, first, tail) /\ FoldLeft(Subfield, first, tail) = g[Len(tail)]
  <2> HIDE DEF first, tail
  <2> QED
    BY <1>1, <1>2, FindingExists
<1> HIDE DEF p, first, V, tail, m
<1> QED
  BY <1>1, <1>3, <1>4 DEF p, first, V, tail, m

\* The field at the end of a path is found among the subfields of the one before it.
LEMMA NextField ==
    ASSUME NEW d \in Definitions, NEW S, NEW path \in Seq(S)
    PROVE  /\ \A n \in 1..Len(path) : FieldPath(d, SubSeq(path, 1, n)) \in Seq(FieldDefinitions)
           /\ 1 \in 1..Len(path) => FieldPath(d, SubSeq(path, 1, 1)) = FieldNamed(d.fields, path[1])
           /\ \A n \in 1..Len(path) : n # 1 =>
                FieldPath(d, SubSeq(path, 1, n)) = Subfield(FieldPath(d, SubSeq(path, 1, n - 1)), path[n])
<1> DEFINE first   == FieldNamed(d.fields, path[1])
           V       == Seq(FieldDefinitions)
           Rest(n) == Tail(SubSeq(path, 1, n))
<1>1. ASSUME NEW n \in 1..Len(path)
      PROVE  \E g : /\ Finds(g, n - 1, V, first, Rest(n))
                   /\ FieldPath(d, SubSeq(path, 1, n)) = g[n - 1]
  BY FieldsOfPaths
<1>2. ASSUME NEW n \in 1..Len(path)
      PROVE  n - 1 \in Nat /\ \A i \in 1..n - 1 : Rest(n)[i] = path[i + 1]
  BY FirstNames
<1> HIDE DEF first, V, Rest
<1>3. \A n \in 1..Len(path) : FieldPath(d, SubSeq(path, 1, n)) \in V
  <2> TAKE n \in 1..Len(path)
  <2>1. PICK g : Finds(g, n - 1, V, first, Rest(n)) /\ FieldPath(d, SubSeq(path, 1, n)) = g[n - 1]
    BY <1>1
  <2>2. n - 1 \in 0..n - 1
    BY <1>2
  <2> QED
    BY <2>1, <2>2 DEF Finds
<1>4. 1 \in 1..Len(path) => FieldPath(d, SubSeq(path, 1, 1)) = first
  <2> HAVE 1 \in 1..Len(path)
  <2>1. PICK g : Finds(g, 1 - 1, V, first, Rest(1)) /\ FieldPath(d, SubSeq(path, 1, 1)) = g[1 - 1]
    BY <1>1
  <2> QED
    BY <2>1 DEF Finds
<1>5. ASSUME NEW n \in 1..Len(path), n # 1
      PROVE  FieldPath(d, SubSeq(path, 1, n)) = Subfield(FieldPath(d, SubSeq(path, 1, n - 1)), path[n])
  <2> DEFINE k == n - 1
             j == k - 1
  <2>0. Len(path) \in Nat /\ n \in 1..Len(path)
    OBVIOUS
  <2>1. k \in 1..Len(path) /\ j \in Nat /\ k \in Nat /\ j <= k /\ k \in 1..k /\ k + 1 = n
    BY <1>5, <2>0
  <2>2. PICK g : Finds(g, j, V, first, Rest(k)) /\ FieldPath(d, SubSeq(path, 1, k)) = g[j]
    BY <1>1, <2>1
  <2>3. PICK h : Finds(h, k, V, first, Rest(n)) /\ FieldPath(d, SubSeq(path, 1, n)) = h[k]
    BY <1>1
  <2>4. \A i \in 1..k : Rest(n)[i] = path[i + 1]
    BY <1>2
  <2>5. \A i \in 1..j : Rest(k)[i] = Rest(n)[i]
    <3>1. \A i \in 1..j : Rest(k)[i] = path[i + 1]
      BY <1>2, <2>1
    <3>2. \A i \in 1..j : i \in 1..k
      BY <2>1
    <3> QED
      BY <2>4, <3>1, <3>2
  <2> DEFINE p == Rest(k)
             q == Rest(n)
  <2>6. Finds(g, j, V, first, p) /\ Finds(h, k, V, first, q) /\ \A i \in 1..j : p[i] = q[i]
    BY <2>2, <2>3, <2>5
  <2>7. h[k] = Subfield(h[j], q[k]) /\ q[k] = path[n]
    <3>1. h[k] = Subfield(h[k - 1], q[k])
      <4> HIDE DEF k, q
      <4> QED
        BY <2>1, <2>6 DEF Finds
    <3>2. q[k] = path[k + 1]
      <4> HIDE DEF k
      <4> QED
        BY <2>1, <2>4
    <3> QED
      BY <2>1, <3>1, <3>2
  <2> HIDE DEF j, k, p, q
  <2>8. g[j] = h[j]
    BY <2>1, <2>6, SameFinding
  <2> QED
    BY <2>2, <2>3, <2>7, <2>8 DEF k
<1> QED
  BY <1>3, <1>4, <1>5 DEF V, first

LEMMA ValuesOfPaths ==
    ASSUME NEW fields, \A name \in DOMAIN fields : fields[name] \in Json,
           NEW S, NEW path \in Seq(S), NEW n \in 1..Len(path), path[1] \in DOMAIN fields
    PROVE  LET p     == SubSeq(path, 1, n)
               first == <<fields[path[1]]>> IN
           \E g : /\ Leads(g, n - 1, Seq(Json), first, Tail(p))
                 /\ ResolveFieldPath(fields, p) = g[n - 1]
<1> DEFINE p     == SubSeq(path, 1, n)
           first == <<fields[path[1]]>>
           V     == Seq(Json)
           tail  == Tail(p)
           m     == n - 1
<1>1. /\ Head(p) = path[1] /\ tail \in Seq(S) /\ Len(tail) = m /\ m \in Nat
  BY FirstNames
<1>2. first \in V
  OBVIOUS
<1>3. ResolveFieldPath(fields, p) = FoldLeft(Descend, first, tail)
  BY <1>1, Zenon DEF ResolveFieldPath
<1>4. \E g : Leads(g, Len(tail), V, first, tail) /\ FoldLeft(Descend, first, tail) = g[Len(tail)]
  <2> HIDE DEF first, tail
  <2> QED
    BY <1>1, <1>2, DescentExists
<1> HIDE DEF p, first, V, tail, m
<1> QED
  BY <1>1, <1>3, <1>4 DEF p, first, V, tail, m

\* The values at the end of a path are found in those before.
LEMMA NextValues ==
    ASSUME NEW fields, \A name \in DOMAIN fields : fields[name] \in Json,
           NEW S, NEW path \in Seq(S), path[1] \in DOMAIN fields
    PROVE  /\ \A n \in 1..Len(path) : ResolveFieldPath(fields, SubSeq(path, 1, n)) \in Seq(Json)
           /\ 1 \in 1..Len(path) => ResolveFieldPath(fields, SubSeq(path, 1, 1)) = <<fields[path[1]]>>
           /\ \A n \in 1..Len(path) : n # 1 =>
                ResolveFieldPath(fields, SubSeq(path, 1, n)) =
                  Descend(ResolveFieldPath(fields, SubSeq(path, 1, n - 1)), path[n])
<1> DEFINE first   == <<fields[path[1]]>>
           V       == Seq(Json)
           Rest(n) == Tail(SubSeq(path, 1, n))
<1>1. ASSUME NEW n \in 1..Len(path)
      PROVE  \E g : /\ Leads(g, n - 1, V, first, Rest(n))
                   /\ ResolveFieldPath(fields, SubSeq(path, 1, n)) = g[n - 1]
  BY ValuesOfPaths
<1>2. ASSUME NEW n \in 1..Len(path)
      PROVE  n - 1 \in Nat /\ \A i \in 1..n - 1 : Rest(n)[i] = path[i + 1]
  BY FirstNames
<1> HIDE DEF first, V, Rest
<1>3. \A n \in 1..Len(path) : ResolveFieldPath(fields, SubSeq(path, 1, n)) \in V
  <2> TAKE n \in 1..Len(path)
  <2>1. PICK g : Leads(g, n - 1, V, first, Rest(n)) /\ ResolveFieldPath(fields, SubSeq(path, 1, n)) = g[n - 1]
    BY <1>1
  <2>2. n - 1 \in 0..n - 1
    BY <1>2
  <2> QED
    BY <2>1, <2>2 DEF Leads
<1>4. 1 \in 1..Len(path) => ResolveFieldPath(fields, SubSeq(path, 1, 1)) = first
  <2> HAVE 1 \in 1..Len(path)
  <2>1. PICK g : Leads(g, 1 - 1, V, first, Rest(1)) /\ ResolveFieldPath(fields, SubSeq(path, 1, 1)) = g[1 - 1]
    BY <1>1
  <2> QED
    BY <2>1 DEF Leads
<1>5. ASSUME NEW n \in 1..Len(path), n # 1
      PROVE  ResolveFieldPath(fields, SubSeq(path, 1, n)) = Descend(ResolveFieldPath(fields, SubSeq(path, 1, n - 1)), path[n])
  <2> DEFINE k == n - 1
             j == k - 1
  <2>0. Len(path) \in Nat /\ n \in 1..Len(path)
    OBVIOUS
  <2>1. k \in 1..Len(path) /\ j \in Nat /\ k \in Nat /\ j <= k /\ k \in 1..k /\ k + 1 = n
    BY <1>5, <2>0
  <2>2. PICK g : Leads(g, j, V, first, Rest(k)) /\ ResolveFieldPath(fields, SubSeq(path, 1, k)) = g[j]
    BY <1>1, <2>1
  <2>3. PICK h : Leads(h, k, V, first, Rest(n)) /\ ResolveFieldPath(fields, SubSeq(path, 1, n)) = h[k]
    BY <1>1
  <2>4. \A i \in 1..k : Rest(n)[i] = path[i + 1]
    BY <1>2
  <2>5. \A i \in 1..j : Rest(k)[i] = Rest(n)[i]
    <3>1. \A i \in 1..j : Rest(k)[i] = path[i + 1]
      BY <1>2, <2>1
    <3>2. \A i \in 1..j : i \in 1..k
      BY <2>1
    <3> QED
      BY <2>4, <3>1, <3>2
  <2> DEFINE p == Rest(k)
             q == Rest(n)
  <2>6. Leads(g, j, V, first, p) /\ Leads(h, k, V, first, q) /\ \A i \in 1..j : p[i] = q[i]
    BY <2>2, <2>3, <2>5
  <2>7. h[k] = Descend(h[j], q[k]) /\ q[k] = path[n]
    <3>1. h[k] = Descend(h[k - 1], q[k])
      <4> HIDE DEF k, q
      <4> QED
        BY <2>1, <2>6 DEF Leads
    <3>2. q[k] = path[k + 1]
      <4> HIDE DEF k
      <4> QED
        BY <2>1, <2>4
    <3> QED
      BY <2>1, <3>1, <3>2
  <2> HIDE DEF j, k, p, q
  <2>8. g[j] = h[j]
    BY <2>1, <2>6, SameDescent
  <2> QED
    BY <2>2, <2>3, <2>7, <2>8 DEF k
<1> QED
  BY <1>3, <1>4, <1>5 DEF V, first

\* Every name on a path to a field finds one.
LEMMA PrefixesFound ==
    ASSUME NEW d \in Definitions, NEW S, NEW path \in Seq(S), path # <<>>, FieldPath(d, path) # <<>>,
           NEW n \in 1..Len(path)
    PROVE  /\ FieldPath(d, SubSeq(path, 1, n)) # <<>>
           /\ FieldPath(d, SubSeq(path, 1, n))[1] \in FieldDefinitions
<1> DEFINE N        == Len(path)
           Found(i) == FieldPath(d, SubSeq(path, 1, i))
           bad      == {i \in 0..N : n <= i /\ Found(i) # <<>>}
<1>1. N \in Nat \ {0} /\ n \in 1..N
  OBVIOUS
<1>2. \A i \in 1..N : Found(i) \in Seq(FieldDefinitions)
  BY NextField
<1>3. \A i \in 1..N : i # 1 => Found(i) = Subfield(Found(i - 1), path[i])
  BY NextField
<1>4. Found(N) # <<>>
  <2>1. N \in 1..Len(path)
    BY <1>1
  <2>2. SubSeq(path, 1, Len(path)) = path
    BY <1>1
  <2> QED
    BY <2>2
<1> HIDE DEF N, Found
<1>5. ASSUME Found(n) = <<>> PROVE FALSE
  <2>1. N \in bad
    BY <1>1, <1>4
  <2>2. PICK i \in bad : \A j \in bad : i <= j
    <3>1. bad \subseteq 0..N /\ bad # {} /\ N \in Nat
      BY <1>1, <2>1
    <3> HIDE DEF bad
    <3> QED
      BY <3>1, LeastExists
  <2>3. i \in 0..N /\ n <= i /\ Found(i) # <<>>
    OBVIOUS
  <2>4. i # n
    BY <1>5, <2>3
  <2>5. i \in 1..N /\ i # 1 /\ i - 1 \in 0..N /\ n <= i - 1 /\ ~(i <= i - 1)
    BY <1>1, <2>3, <2>4
  <2>6. Found(i - 1) = <<>>
    <3>1. i - 1 \notin bad
      <4> HIDE DEF bad
      <4> QED
        BY <2>2, <2>5
    <3> QED
      BY <2>5, <3>1
  <2>7. Subfield(<<>>, path[i]) = <<>>
    BY DEF Subfield
  <2> QED
    BY <1>3, <2>3, <2>5, <2>6, <2>7
<1>6. Found(n) # <<>> /\ Found(n) \in Seq(FieldDefinitions)
  BY <1>1, <1>2, <1>5
<1>7. Found(n)[1] \in FieldDefinitions
  BY <1>6
<1> QED
  BY <1>6, <1>7 DEF Found

\* The fields on a path: each is among those below the one before.
LEMMA FieldsOnPath ==
    ASSUME NEW d \in Definitions, NEW S, NEW path \in Seq(S), path # <<>>, FieldPath(d, path) # <<>>
    PROVE  /\ LET f == FieldPath(d, SubSeq(path, 1, 1))[1]
              IN  f \in ToSet(d.fields) /\ f.name = path[1] /\ FieldNamed(d.fields, path[1]) = <<f>>
           /\ \A n \in 1..Len(path) : n # 1 =>
                LET f == FieldPath(d, SubSeq(path, 1, n))[1]
                    above == FieldPath(d, SubSeq(path, 1, n - 1))[1].subfields
                IN  f \in ToSet(above) /\ FieldNamed(above, path[n]) = <<f>>
<1> DEFINE Found(i) == FieldPath(d, SubSeq(path, 1, i))
           Below(i) == FieldNamed(Found(i - 1)[1].subfields, path[i])
           N        == Len(path)
           first    == FieldNamed(d.fields, path[1])
<1>1. N \in Nat /\ 1 \in 1..N
  OBVIOUS
<1>2. \A i \in 1..N : Found(i) # <<>> /\ Found(i)[1] \in FieldDefinitions
  BY PrefixesFound
<1>3. Found(1) = first /\ \A i \in 1..N : i # 1 => Found(i) = Subfield(Found(i - 1), path[i])
  BY <1>1, NextField
<1> HIDE DEF Found, N
<1>4. /\ Found(1)[1] \in ToSet(d.fields) /\ Found(1)[1].name = path[1]
      /\ first = <<Found(1)[1]>>
  <2>1. d.fields \in Seq(FieldDefinitions) /\ first # <<>>
    BY <1>1, <1>2, <1>3, DefinitionsAssumption
  <2>2. PICK f \in FieldDefinitions : f \in ToSet(d.fields) /\ f.name = path[1] /\ first = <<f>>
    BY <2>1, FieldNamedIs
  <2> HIDE DEF first
  <2>3. Found(1)[1] = f
    BY <1>3, <2>2
  <2> QED
    BY <2>2, <2>3
<1>5. ASSUME NEW n \in 1..N, n # 1
      PROVE  Found(n)[1] \in ToSet(Found(n - 1)[1].subfields) /\ Below(n) = <<Found(n)[1]>>
  <2>1. n - 1 \in 1..N
    BY <1>1, <1>5
  <2>2. Found(n) = Below(n) /\ Found(n) # <<>>
    BY <1>2, <1>3, <1>5, <2>1 DEF Subfield
  <2> DEFINE above == Found(n - 1)[1].subfields
             found == Below(n)
  <2>3. above \in Seq(FieldDefinitions)
    BY <1>2, <2>1, DefinitionsAssumption
  <2>4. found = FieldNamed(above, path[n])
    OBVIOUS
  <2> HIDE DEF above, found
  <2>5. PICK f \in FieldDefinitions : f \in ToSet(above) /\ f.name = path[n] /\ found = <<f>>
    BY <2>2, <2>3, <2>4, FieldNamedIs DEF found
  <2>6. Found(n)[1] = f
    BY <2>2, <2>5 DEF found
  <2> QED
    BY <2>5, <2>6 DEF above, found
<1> QED
  BY <1>4, <1>5 DEF Found, N

\* The start of a sequence that others make.
LEMMA StartIs ==
    ASSUME NEW S, NEW p \in Seq(S), NEW q \in Seq(S), p # <<>>
    PROVE  Len(p) \in 1..Len(p \o q) /\ SubSeq(p \o q, 1, Len(p)) = p
<1>1. Len(p) \in Nat \ {0} /\ Len(q) \in Nat /\ p \o q \in Seq(S) /\ Len(p \o q) = Len(p) + Len(q)
  OBVIOUS
<1>2. Len(p) \in 1..Len(p \o q)
  BY <1>1
<1> DEFINE n == Len(p)
           r == SubSeq(p \o q, 1, n)
<1>3. r \in Seq(S) /\ Len(r) = n /\ \A i \in 1..n : r[i] = (p \o q)[i]
  BY <1>1
<1>4. \A i \in 1..n : (p \o q)[i] = p[i]
  BY <1>1
<1>5. r = p
  <2> HIDE DEF r
  <2> QED
    BY <1>1, <1>3, <1>4, SequencesEqual
<1> QED
  BY <1>2, <1>5

\* Every start of a path through complex fields leads to a field.
LEMMA PrefixesLead ==
    ASSUME NEW d \in Definitions, NEW path \in FieldPaths, LeadsToField(d, path), NEW n \in 1..Len(path)
    PROVE  LeadsToField(d, SubSeq(path, 1, n))
<1> DEFINE p == SubSeq(path, 1, n)
<1>1. path \in Seq(FieldNames) /\ path # <<>>
  BY PathIs
<1>2. p \in Seq(FieldNames) /\ Len(p) = n /\ \A i \in 1..n : p[i] = path[i]
  BY <1>1
<1>3. FieldPath(d, p) # <<>>
  BY <1>1, PrefixesFound DEF LeadsToField
<1>4. ASSUME NEW m \in 1..n - 1 PROVE IsComplexType(FieldPath(d, SubSeq(p, 1, m))[1])
  <2>1. Len(path) \in Nat /\ m \in 1..n /\ m \in 1..Len(path) - 1 /\ m \in 1..Len(path)
    BY <1>1
  <2> DEFINE r == SubSeq(p, 1, m)
             t == SubSeq(path, 1, m)
  <2>2. r \in Seq(FieldNames) /\ Len(r) = m /\ \A i \in 1..m : r[i] = p[i]
    <3> HIDE DEF p
    <3> QED
      BY <1>2, <2>1
  <2>3. t \in Seq(FieldNames) /\ Len(t) = m /\ \A i \in 1..m : t[i] = path[i]
    BY <1>1, <2>1
  <2>4. \A i \in 1..m : i \in 1..n
    BY <2>1
  <2>5. r = t
    <3> HIDE DEF r, t, p
    <3>1. \A i \in 1..m : r[i] = t[i]
      BY <1>2, <2>2, <2>3, <2>4
    <3> QED
      BY <2>2, <2>3, <3>1, SequencesEqual
  <2>6. IsComplexType(FieldPath(d, t)[1])
    BY <2>1 DEF LeadsToField
  <2> HIDE DEF r, t
  <2> QED
    BY <2>5, <2>6 DEF r
<1>5. \A m \in 1..Len(p) - 1 : IsComplexType(FieldPath(d, SubSeq(p, 1, m))[1])
  BY <1>2, <1>4
<1> QED
  BY <1>3, <1>5 DEF LeadsToField

\* The lists of subfields below the complex fields in some lists.
Deeper(lists) == {f.subfields : f \in {g \in UNION {ToSet(list) : list \in lists} : IsComplexType(g)}}

IsLevels(level, field) ==
    level = [n \in 1..MaxDepth |-> IF n = 1 THEN {field.subfields} ELSE Deeper(level[n - 1])]

LEMMA LevelsExist ==
    ASSUME NEW field \in FieldDefinitions
    PROVE  \E level : IsLevels(level, field)
<1> DEFINE W    == SUBSET Seq(FieldDefinitions)
           n    == MaxDepth
           b    == {}
           Next(i, v) == IF i = 1 THEN {field.subfields} ELSE Deeper(v)
           step == [i \in 1..n |-> [v \in W |-> Next(i, v)]]
<1>1. n \in Nat /\ b \in W
  BY LimitsAssumption
<1>2. ASSUME NEW v \in W PROVE Deeper(v) \in W
  <2>1. ASSUME NEW list \in v, NEW g \in ToSet(list) PROVE g.subfields \in Seq(FieldDefinitions)
    <3>1. list \in Seq(FieldDefinitions)
      OBVIOUS
    <3>2. g \in FieldDefinitions
      BY <3>1 DEF ToSet
    <3> QED
      BY <3>2, DefinitionsAssumption
  <2> QED
    BY <2>1 DEF Deeper
<1>3. {field.subfields} \in W
  BY DefinitionsAssumption
<1>4. \A i \in 1..n, v \in W : Next(i, v) \in W
  BY <1>2, <1>3
<1> HIDE DEF W, n, b, Next
<1>5. step \in Steps(n, W) /\ \A i \in 1..n, v \in W : step[i][v] = Next(i, v)
  BY <1>4 DEF Steps
<1> HIDE DEF step
<1>6. PICK h : FoldsTo(h, n, W, b, step)
  BY <1>1, <1>5, FoldsExist
<1>7. /\ h \in [SUBSET (1..n) -> W] /\ h[{}] = b
      /\ \A s \in SUBSET (1..n) : s # {} => h[s] = step[Max(s)][h[s \ {Max(s)}]]
  BY <1>6 DEF FoldsTo
<1>8. ASSUME NEW i \in 1..n PROVE h[1..i] = Next(i, h[1..i - 1])
  <2>1. 1..i \in SUBSET (1..n) /\ 1..i # {}
    <3>1. 1..i \subseteq 1..n /\ i \in 1..i
      BY <1>1
    <3> QED
      BY <3>1
  <2>2. Max(1..i) = i
    BY <1>1, PlacesUpTo
  <2>3. (1..i) \ {i} = 1..i - 1
    BY <1>1
  <2>4. h[1..i] = step[i][h[1..i - 1]]
    BY <1>7, <2>1, <2>2, <2>3
  <2>5. h[1..i - 1] \in W
    <3>1. 1..i - 1 \in SUBSET (1..n)
      BY <1>1
    <3> QED
      BY <1>7, <3>1
  <2> QED
    BY <1>5, <2>4, <2>5
<1> DEFINE level == [i \in 1..n |-> h[1..i]]
<1>9. ASSUME NEW i \in 1..n PROVE level[i] = IF i = 1 THEN {field.subfields} ELSE Deeper(level[i - 1])
  <2>1. CASE i = 1
    BY <1>8, <2>1 DEF Next
  <2>2. CASE i # 1
    <3>1. i - 1 \in 1..n
      BY <1>1, <2>2
    <3>2. level[i] = h[1..i] /\ level[i - 1] = h[1..i - 1]
      BY <3>1
    <3> HIDE DEF level
    <3> QED
      BY <1>8, <2>2, <3>2 DEF Next
  <2> QED
    BY <2>1, <2>2
<1>10. level = [i \in 1..n |-> level[i]]
  OBVIOUS
<1> HIDE DEF level
<1>11. level = [i \in 1..n |-> IF i = 1 THEN {field.subfields} ELSE Deeper(level[i - 1])]
  BY <1>9, <1>10
<1>12. IsLevels(level, field)
  BY <1>11 DEF IsLevels, n
<1> QED
  BY <1>12

LEMMA ListsBelowAre ==
    ASSUME NEW field \in FieldDefinitions
    PROVE  \E level : IsLevels(level, field) /\ ListsBelow(field) = UNION {level[n] : n \in 1..MaxDepth}
<1> DEFINE level == CHOOSE it : IsLevels(it, field)
<1>1. IsLevels(level, field)
  BY LevelsExist
<1>2. ListsBelow(field) = UNION {level[n] : n \in 1..MaxDepth}
  BY Zenon DEF ListsBelow, IsLevels, Deeper
<1> QED
  BY <1>1, <1>2

\* A field that a path through complex fields leads to in an accepted
\* definition is complex or of a supported type: validation has looked at it.
LEMMA FieldsAreSupported ==
    ASSUME NEW d \in Definitions, ValidSchema(d), NEW path \in FieldPaths, LeadsToField(d, path)
    PROVE  LET f == FieldPath(d, path)[1] IN IsComplexType(f) \/ SupportedType(f.type)
<1> DEFINE N    == Len(path)
           F(i) == FieldPath(d, SubSeq(path, 1, i))[1]
<1>1. /\ path \in Seq(FieldNames) /\ path # <<>> /\ N \in 1..MaxDepth /\ N \in Nat /\ MaxDepth \in Nat
  <2>1. PICK n \in 1..MaxDepth : path \in [1..n -> FieldNames]
    BY DEF FieldPaths
  <2> QED
    BY <2>1, PathIs, LimitsAssumption
<1>2. FieldPath(d, path) # <<>> /\ \A n \in 1..N - 1 : IsComplexType(F(n))
  BY DEF LeadsToField
<1>3. F(N) = FieldPath(d, path)[1]
  <2>1. SubSeq(path, 1, Len(path)) = path
    BY <1>1
  <2> QED
    BY <2>1
<1>4. F(1) \in ToSet(d.fields)
  BY <1>1, <1>2, FieldsOnPath
<1>5. \A n \in 1..N : n # 1 => F(n) \in ToSet(F(n - 1).subfields)
  BY <1>1, <1>2, FieldsOnPath
<1>6. 1 \in 1..N /\ F(1) \in FieldDefinitions
  BY <1>1, <1>2, PrefixesFound
<1> HIDE DEF N, F
<1>7. ValidField(F(1))
  BY <1>4 DEF ValidSchema, ToSet
<1>8. CASE N = 1
  BY <1>3, <1>7, <1>8 DEF ValidField
<1>9. CASE N # 1
  <2>1. IsComplexType(F(1)) /\ \A list \in ListsBelow(F(1)) : ValidSubfields(list)
    BY <1>1, <1>2, <1>7, <1>9 DEF ValidField
  <2>2. PICK level : IsLevels(level, F(1)) /\ ListsBelow(F(1)) = UNION {level[n] : n \in 1..MaxDepth}
    BY <1>6, ListsBelowAre
  <2>3. \A n \in 1..MaxDepth : level[n] = IF n = 1 THEN {F(1).subfields} ELSE Deeper(level[n - 1])
    <3> DEFINE level2 == [n \in 1..MaxDepth |-> IF n = 1 THEN {F(1).subfields} ELSE Deeper(level[n - 1])]
    <3>1. level = level2
      BY <2>2 DEF IsLevels
    <3>2. \A n \in 1..MaxDepth : level2[n] = IF n = 1 THEN {F(1).subfields} ELSE Deeper(level[n - 1])
      OBVIOUS
    <3> HIDE DEF level2
    <3> QED
      BY <3>1, <3>2
  <2> DEFINE bad == {n \in 0..N : n \in 1..N - 1 /\ F(n).subfields \notin level[n]}
  <2>4. ASSUME bad # {} PROVE FALSE
    <3>1. PICK n \in bad : \A j \in bad : n <= j
      <4>1. bad \subseteq 0..N
        OBVIOUS
      <4> HIDE DEF bad
      <4> QED
        BY <1>1, <2>4, <4>1, LeastExists
    <3>2. n \in 1..N - 1 /\ F(n).subfields \notin level[n]
      OBVIOUS
    <3>3. n \in 1..MaxDepth /\ n \in 1..N
      BY <1>1, <3>2
    <3>4. n # 1
      BY <2>3, <3>2, <3>3
    <3>5. n - 1 \in 1..N - 1 /\ n - 1 \in 0..N /\ ~(n <= n - 1)
      BY <1>1, <3>2, <3>4
    <3>6. F(n - 1).subfields \in level[n - 1]
      <4>1. n - 1 \notin bad
        <5> HIDE DEF bad
        <5> QED
          BY <3>1, <3>5
      <4> QED
        BY <3>5, <4>1
    <3>7. F(n) \in ToSet(F(n - 1).subfields) /\ IsComplexType(F(n))
      BY <1>2, <1>5, <3>2, <3>3, <3>4
    <3>8. F(n).subfields \in Deeper(level[n - 1])
      BY <3>6, <3>7 DEF Deeper
    <3> QED
      BY <2>3, <3>2, <3>3, <3>4, <3>8
  <2>5. F(N - 1).subfields \in ListsBelow(F(1))
    <3>1. N - 1 \in 1..N - 1 /\ N - 1 \in 0..N /\ N - 1 \in 1..MaxDepth
      BY <1>1, <1>9
    <3>2. F(N - 1).subfields \in level[N - 1]
      <4>1. N - 1 \notin bad
        <5> HIDE DEF bad
        <5> QED
          BY <2>4
      <4> QED
        BY <3>1, <4>1
    <3> QED
      BY <2>2, <3>1, <3>2
  <2>6. F(N) \in ToSet(F(N - 1).subfields)
    BY <1>1, <1>5, <1>9
  <2>7. ValidSubfields(F(N - 1).subfields)
    BY <2>1, <2>5
  <2>8. IsComplexType(F(N)) \/ SupportedType(F(N).type)
    BY <2>6, <2>7 DEF ValidSubfields
  <2> QED
    BY <1>3, <2>8
<1> QED
  BY <1>8, <1>9

\* A field accepts a value, or it is the vector of a field that may be
\* generated.
Passes(field, v) ==
    \/ CheckFieldType(field, v)
    \/ /\ IsVectorField(field)
       /\ IsNull(v) \/ (IsArr(v) /\ \A i \in DOMAIN v.arr : IsNum(v.arr[i]))

\* The values of a stored document at the top.
LEMMA StoredPass ==
    ASSUME NEW d \in Definitions, NEW sent \in Documents(d), ValidSchema(d), DocumentAccepted(d, sent),
           NEW name \in DOMAIN StoredDocument(d, sent).fields
    PROVE  LET found == FieldNamed(d.fields, name) IN
           found # <<>> /\ Passes(found[1], StoredDocument(d, sent).fields[name])
<1> DEFINE stored  == ApplyVectorizers(d, sent)
           made    == {f \in VectorFields(d) : GeneratedVector(d, f, sent) # {}}
           names   == {f.name : f \in made}
           field   == CHOOSE f \in made : f.name = name
           found   == FieldNamed(d.fields, name)
<1>1. StoredDocument(d, sent).fields = stored
  BY DEF StoredDocument
<1>2. /\ DOMAIN stored = DOMAIN sent \cup names
      /\ name \in names => stored[name] = CHOOSE v \in GeneratedVector(d, field, sent) : TRUE
      /\ name \notin names => stored[name] = sent[name]
  BY <1>1 DEF ApplyVectorizers
<1>3. stored[name] \in Json
  BY <1>1, StoredAssumption DEF Range
<1>4. d.fields \in Seq(FieldDefinitions) /\ NamesDiffer(d.fields)
  BY DefinitionsAssumption DEF ValidSchema
<1>5. CASE name \in names
  <2>1. field \in made /\ field.name = name
    BY <1>5
  <2>2. field \in ToSet(d.fields) /\ IsVectorField(field) /\ GeneratedVector(d, field, sent) # {}
    BY <2>1 DEF VectorFields
  <2> HIDE DEF field, made, names, stored
  <2>3. stored[name] \in GeneratedVector(d, field, sent)
    BY <1>2, <1>5, <2>2
  <2>4. PICK v : stored[name] = Arr([i \in DOMAIN v |-> Num(v[i])])
    BY <2>3 DEF GeneratedVector
  <2>5. IsArr(stored[name]) /\ \A i \in DOMAIN stored[name].arr : IsNum(stored[name].arr[i])
    BY <2>4 DEF Arr, Num, IsArr, IsNum, IsKind
  <2>6. found = <<field>>
    <3>1. \/ found = <<>> /\ \A f \in ToSet(d.fields) : f.name # name
          \/ \E f \in FieldDefinitions : f \in ToSet(d.fields) /\ f.name = name /\ found = <<f>>
      BY <1>4, FieldNamedIs
    <3>2. \A f, g \in ToSet(d.fields) : f.name = g.name => f = g
      BY <1>4 DEF NamesDiffer, ToSet
    <3> HIDE DEF found
    <3> QED
      BY <2>1, <2>2, <3>1, <3>2
  <2> QED
    BY <1>1, <2>2, <2>5, <2>6 DEF Passes
<1>6. CASE name \notin names
  <2>1. name \in DOMAIN sent /\ stored[name] = sent[name]
    BY <1>1, <1>2, <1>6
  <2>2. FieldAccepted(d, name, sent[name])
    BY <2>1 DEF DocumentAccepted
  <2>3. /\ found # <<>>
        /\ (IsVectorField(found[1]) /\ IsNull(sent[name])) \/ FieldTypeOk(found[1], sent[name])
    BY <2>2 DEF FieldAccepted
  <2>4. found[1] \in FieldDefinitions
    <3>1. found \in Seq(FieldDefinitions)
      BY <1>4, NamedField
    <3> HIDE DEF found
    <3> QED
      BY <2>3, <3>1
  <2>5. FieldTypeOk(found[1], stored[name]) => CheckFieldType(found[1], stored[name])
    BY <1>3, <2>4, CheckAssumption
  <2> HIDE DEF found, stored, names, made
  <2>6. Passes(found[1], stored[name])
    BY <2>1, <2>3, <2>5 DEF Passes
  <2> QED
    BY <1>1, <2>3, <2>6 DEF found
<1> QED
  BY <1>5, <1>6

LEMMA ScalarsFit ==
    ASSUME NEW v \in Json, NEW elem \in Scalars \ {"ComplexType", "Unknown"}, ScalarTypeOk(elem, v)
    PROVE  KindFits(elem, v) /\ (elem # "Half" => ~IsArr(v))
<1>1. CASE elem \in {"String", "DateTimeOffset", "Guid"}
  <2>1. IsStr(v)
    BY <1>1 DEF ScalarTypeOk
  <2> QED
    BY <1>1, <2>1, JsonHasOneKind, KindsExclude DEF KindFits
<1>2. CASE elem = "GeographyPoint"
  <2>1. IsStr(v) \/ IsObj(v)
    BY <1>2 DEF ScalarTypeOk, IsGeographyPoint
  <2> QED
    BY <1>2, <2>1, JsonHasOneKind, KindsExclude DEF KindFits
<1>3. CASE elem \in {"Int8", "Int16", "Int32", "Int64"}
  <2>0. \A low, high : IntIn(v, low, high) => IsInt(v)
    BY DEF IntIn
  <2>1. IsInt(v)
    BY <1>3, <2>0 DEF ScalarTypeOk
  <2>2. IsNum(v)
    BY <2>1 DEF IsInt, IsNum
  <2> QED
    BY <1>3, <2>1, <2>2, JsonHasOneKind, KindsExclude DEF KindFits
<1>4. CASE elem \in {"Time", "Duration", "Binary"}
  <2>1. IsStr(v)
    BY <1>4 DEF ScalarTypeOk
  <2> QED
    BY <1>4, <2>1, JsonHasOneKind, KindsExclude DEF KindFits
<1>5. CASE elem \in {"Single", "Double"}
  <2>1. IsNum(v)
    BY <1>5 DEF ScalarTypeOk
  <2> QED
    BY <1>5, <2>1, JsonHasOneKind, KindsExclude DEF KindFits
<1>6. CASE elem = "Boolean"
  <2>1. IsBool(v)
    BY <1>6 DEF ScalarTypeOk
  <2> QED
    BY <1>6, <2>1, JsonHasOneKind, KindsExclude DEF KindFits
<1>7. CASE elem = "Half"
  BY <1>7 DEF KindFits
<1> QED
  BY <1>1, <1>2, <1>3, <1>4, <1>5, <1>6, <1>7 DEF Scalars

\* What a field of a definition accepts, one level deep.
LEMMA PassingIs ==
    ASSUME NEW field \in FieldDefinitions, NEW v \in Json, Passes(field, v)
    PROVE  /\ IsComplexType(field) =>
                /\ \A e \in ElementsOf(v) : CheckComplexValue(field, e)
                /\ ~IsCollection(field) => ~IsArr(v)
           /\ ~IsComplexType(field) /\ IsVectorField(field) =>
                IsNull(v) \/ (IsArr(v) /\ \A e \in ElementsOf(v) : IsNum(e))
           /\ ~IsComplexType(field) /\ ~IsVectorField(field) /\ IsCollection(field) =>
                \A e \in ElementsOf(v) : ScalarTypeOk(field.type.elem, e)
           /\ ~IsComplexType(field) /\ ~IsVectorField(field) /\ ~IsCollection(field) =>
                ScalarTypeOk(field.type.elem, v)
<1>1. CheckFieldType(field, v) => FieldTypeOk(field, v)
  BY CheckAssumption
<1>2. IsComplexType(field) => ~IsVectorField(field)
  BY DEF IsComplexType, IsVectorField, IsVectorFieldType
<1>3. IsArr(v) => ElementsOf(v) = {v.arr[i] : i \in DOMAIN v.arr}
  BY DEF ElementsOf, ToSet
<1>4. CASE IsComplexType(field) /\ IsCollection(field)
  <2>1. IsArr(v) /\ \A i \in DOMAIN v.arr : CheckComplexValue(field, v.arr[i])
    BY <1>1, <1>2, <1>4 DEF FieldTypeOk, Passes
  <2> QED
    BY <1>3, <1>4, <2>1
<1>5. CASE IsComplexType(field) /\ ~IsCollection(field)
  <2>1. CheckComplexValue(field, v)
    BY <1>1, <1>2, <1>5 DEF FieldTypeOk, Passes
  <2>2. ~IsArr(v)
    BY <2>1, JsonHasOneKind, KindsExclude DEF CheckComplexValue
  <2> QED
    BY <1>5, <2>1, <2>2 DEF ElementsOf
<1>6. CASE ~IsComplexType(field) /\ IsVectorField(field)
  <2>1. CheckFieldType(field, v) => CheckVectorValue(field, v)
    BY <1>1, <1>6 DEF FieldTypeOk
  <2>2. CheckVectorValue(field, v) => IsArr(v) /\ \A i \in DOMAIN v.arr : IsNum(v.arr[i])
    BY DEF CheckVectorValue, IsSingle
  <2> QED
    BY <1>3, <1>6, <2>1, <2>2 DEF Passes
<1>7. CASE ~IsComplexType(field) /\ ~IsVectorField(field) /\ IsCollection(field)
  <2>1. IsArr(v) /\ \A i \in DOMAIN v.arr : ScalarTypeOk(field.type.elem, v.arr[i])
    BY <1>1, <1>7 DEF FieldTypeOk, Passes
  <2> QED
    BY <1>3, <1>7, <2>1
<1>8. CASE ~IsComplexType(field) /\ ~IsVectorField(field) /\ ~IsCollection(field)
  <2>1. ScalarTypeOk(field.type.elem, v)
    BY <1>1, <1>8 DEF FieldTypeOk, Passes
  <2> QED
    BY <1>8, <2>1
<1> QED
  BY <1>4, <1>5, <1>6, <1>7, <1>8

\* The values a validated field accepts are of its kind.
LEMMA PassingFits ==
    ASSUME NEW field \in FieldDefinitions, NEW v \in Json, Passes(field, v),
           IsComplexType(field) \/ SupportedType(field.type)
    PROVE  /\ \A e \in ElementsOf(v) :
                KindFits(field.type.elem, e) \/ (IsVectorField(field) /\ IsNull(e))
           /\ ~IsCollection(field) => ~IsArr(v)
<1>0. ASSUME NEW e \in ElementsOf(v) PROVE e \in Json
  <2>1. CASE IsArr(v)
    <3>1. v.arr \in Seq(Json) /\ e \in ToSet(v.arr)
      BY <1>0, <2>1, JsonHasOneKind DEF ElementsOf
    <3> QED
      BY <3>1 DEF ToSet
  <2>2. CASE ~IsArr(v)
    BY <1>0, <2>2 DEF ElementsOf
  <2> QED
    BY <2>1, <2>2
<1>1. CASE IsComplexType(field)
  <2>1. \A e \in ElementsOf(v) : IsObj(e)
    BY <1>1, PassingIs DEF CheckComplexValue
  <2>2. ~IsCollection(field) => ~IsArr(v)
    BY <1>1, PassingIs
  <2>3. \A e : IsObj(e) => KindFits(field.type.elem, e)
    BY <1>1 DEF KindFits, IsComplexType
  <2> QED
    BY <2>1, <2>2, <2>3
<1>2. CASE ~IsComplexType(field) /\ IsVectorField(field)
  <2>1. IsNull(v) \/ (IsArr(v) /\ \A e \in ElementsOf(v) : IsNum(e))
    BY <1>2, PassingIs
  <2>2. IsCollection(field) /\ field.type.elem \in {"Single", "Half"}
    BY <1>2 DEF IsVectorField, IsVectorFieldType, IsCollection
  <2>3. \A e : IsNum(e) => KindFits(field.type.elem, e)
    BY <2>2 DEF KindFits
  <2>4. CASE IsNull(v)
    <3>1. ElementsOf(v) = {v}
      BY <2>4, JsonHasOneKind, KindsExclude DEF ElementsOf
    <3> QED
      BY <1>2, <2>2, <2>4, <3>1
  <2>5. CASE ~IsNull(v)
    BY <2>1, <2>2, <2>3, <2>5
  <2> QED
    BY <2>4, <2>5
<1>3. CASE ~IsComplexType(field) /\ ~IsVectorField(field) /\ IsCollection(field)
  <2>1. \A e \in ElementsOf(v) : ScalarTypeOk(field.type.elem, e)
    BY <1>3, PassingIs
  <2>2. field.type.elem \in Scalars \ {"ComplexType", "Unknown"}
    BY <1>3 DEF SupportedType, IsComplexType, IsCollection, CollectionElements, Scalars
  <2>3. \A e \in ElementsOf(v) : KindFits(field.type.elem, e)
    BY <1>0, <2>1, <2>2, ScalarsFit
  <2> QED
    BY <1>3, <2>3
<1>4. CASE ~IsComplexType(field) /\ ~IsVectorField(field) /\ ~IsCollection(field)
  <2>1. ScalarTypeOk(field.type.elem, v)
    BY <1>4, PassingIs
  <2>2. field.type.elem \in Scalars \ {"ComplexType", "Unknown"} /\ field.type.elem # "Half"
    BY <1>4 DEF SupportedType, IsComplexType, IsCollection
  <2>3. KindFits(field.type.elem, v) /\ ~IsArr(v)
    BY <2>1, <2>2, ScalarsFit
  <2> QED
    BY <2>3 DEF ElementsOf
<1> QED
  BY <1>1, <1>2, <1>3, <1>4

\* One name leads from at most one value that is no array to at most one.
LEMMA DescendShort ==
    ASSUME NEW values \in Seq(Json), NEW segment, Len(values) <= 1, \A v \in ToSet(values) : ~IsArr(v)
    PROVE  Len(Descend(values, segment)) <= 1
<1> DEFINE parts == [i \in DOMAIN values |-> Member(values[i], segment)]
           n     == Len(values)
<1>1. n \in Nat /\ DOMAIN values = 1..n /\ \A i \in 1..n : values[i] \in Json /\ ~IsArr(values[i])
  BY DEF ToSet
<1>2. Descend(values, segment) = Concat(parts)
  <2>1. Descend(values, segment) =
          Concat([i \in DOMAIN values |->
                    IF IsArr(values[i])
                    THEN Concat([j \in DOMAIN values[i].arr |-> Member(values[i].arr[j], segment)])
                    ELSE Member(values[i], segment)])
    BY DEF Descend
  <2>2. [i \in DOMAIN values |->
                    IF IsArr(values[i])
                    THEN Concat([j \in DOMAIN values[i].arr |-> Member(values[i].arr[j], segment)])
                    ELSE Member(values[i], segment)] = parts
    BY <1>1
  <2> QED
    BY <2>1, <2>2
<1>3. parts \in [1..n -> Seq(Json)] /\ \A i \in 1..n : parts[i] = Member(values[i], segment)
  BY <1>1, MemberIs
<1>4. n = 0 \/ n = 1
  BY <1>1
<1> HIDE DEF parts, n
<1>5. PICK g : Joins(g, n, Json, parts) /\ Concat(parts) = g[n]
  BY <1>1, <1>3, ConcatIs
<1>6. g[0] = <<>> /\ \A i \in 1..n : g[i] = g[i - 1] \o parts[i]
  BY <1>5 DEF Joins
<1>7. CASE n = 0
  BY <1>2, <1>5, <1>6, <1>7
<1>8. CASE n = 1
  <2>0. 1 \in 1..n /\ 1 - 1 = 0
    BY <1>8
  <2>1. g[1] = g[0] \o parts[1] /\ parts[1] = Member(values[1], segment)
    BY <1>3, <1>6, <2>0
  <2>2. g[1] = Member(values[1], segment)
    <3>1. parts[1] \in Seq(Json)
      BY <1>3, <1>8
    <3> QED
      BY <1>6, <2>1, <3>1
  <2>3. Len(Member(values[1], segment)) <= 1
    BY DEF Member
  <2> QED
    BY <1>2, <1>5, <1>8, <2>2, <2>3
<1> QED
  BY <1>4, <1>7, <1>8

\* Below a complex field, a name leads from values the field accepts to
\* values the subfield of that name accepts.
LEMMA SubvaluesPass ==
    ASSUME NEW field \in FieldDefinitions, IsComplexType(field), NEW v \in Json, Passes(field, v),
           NEW name, NEW e \in ElementsOf(v), NEW x, x \in ToSet(Member(e, name)), NEW subfield,
           FieldNamed(field.subfields, name) = <<subfield>>
    PROVE  Passes(subfield, x)
<1>1. CheckComplexValue(field, e)
  BY PassingIs
<1>2. IsObj(e) /\ name \in DOMAIN e.obj /\ x = e.obj[name]
  BY DEF Member, ToSet
<1>3. CheckFieldType(FieldNamed(field.subfields, name)[1], e.obj[name])
  BY <1>1, <1>2 DEF CheckComplexValue
<1>4. CheckFieldType(subfield, x)
  BY <1>2, <1>3
<1> QED
  BY <1>4 DEF Passes

\* What a path through complex fields leads to in a stored document passes
\* its field, and is at most one value unless a collection is on the way.
LEMMA FoundPass ==
    ASSUME NEW d \in Definitions, NEW sent \in Documents(d), ValidSchema(d), DocumentAccepted(d, sent),
           NEW path \in FieldPaths, LeadsToField(d, path), NEW n \in 1..Len(path),
           path[1] \in DOMAIN StoredDocument(d, sent).fields
    PROVE  LET values == ResolveFieldPath(StoredDocument(d, sent).fields, SubSeq(path, 1, n))
               Field(i) == FieldPath(d, SubSeq(path, 1, i))[1]
           IN  /\ \A v \in ToSet(values) : Passes(Field(n), v)
               /\ (\A i \in 1..n - 1 : ~IsCollection(Field(i))) => Len(values) <= 1
<1> DEFINE N      == Len(path)
           fields == StoredDocument(d, sent).fields
           F(i)   == FieldPath(d, SubSeq(path, 1, i))[1]
           V(i)   == ResolveFieldPath(fields, SubSeq(path, 1, i))
           Good(i) == /\ \A v \in ToSet(V(i)) : Passes(F(i), v)
                      /\ (\A j \in 1..i - 1 : ~IsCollection(F(j))) => Len(V(i)) <= 1
           bad    == {i \in 0..N : i # 0 /\ ~Good(i)}
<1>1. path \in Seq(FieldNames) /\ path # <<>> /\ N \in Nat \ {0} /\ 1 \in 1..N
  BY PathIs
<1>2. FieldPath(d, path) # <<>> /\ \A i \in 1..N - 1 : IsComplexType(F(i))
  BY DEF LeadsToField
<1>3. /\ FieldNamed(d.fields, path[1]) = <<F(1)>>
      /\ \A i \in 1..N : i # 1 => FieldNamed(F(i - 1).subfields, path[i]) = <<F(i)>>
  BY <1>1, <1>2, FieldsOnPath
<1>4. \A i \in 1..N : F(i) \in FieldDefinitions
  BY <1>1, <1>2, PrefixesFound
<1>5. \A name \in DOMAIN fields : fields[name] \in Json
  BY StoredAssumption DEF Range
<1>6. /\ \A i \in 1..N : V(i) \in Seq(Json)
      /\ V(1) = <<fields[path[1]]>>
      /\ \A i \in 1..N : i # 1 => V(i) = Descend(V(i - 1), path[i])
  <2>1. path[1] \in DOMAIN fields
    OBVIOUS
  <2> HIDE DEF fields
  <2> QED
    BY <1>1, <1>5, <2>1, NextValues
<1>7. Passes(F(1), fields[path[1]])
  <2>1. LET found == FieldNamed(d.fields, path[1]) IN Passes(found[1], fields[path[1]])
    BY StoredPass
  <2> HIDE DEF fields, F
  <2> QED
    BY <1>3, <2>1
<1> HIDE DEF N, fields, F, V
<1>8. Good(1)
  <2>1. Len(V(1)) = 1 /\ ToSet(V(1)) = {fields[path[1]]}
    BY <1>6 DEF ToSet
  <2>2. \A v \in ToSet(V(1)) : Passes(F(1), v)
    BY <1>7, <2>1
  <2> DEFINE len == Len(V(1))
  <2>3. len <= 1
    <3>1. len = 1
      BY <2>1
    <3> HIDE DEF len
    <3> QED
      BY <3>1
  <2> QED
    BY <2>2, <2>3
<1>9. ASSUME NEW i \in 1..N, i # 1, Good(i - 1) PROVE Good(i)
  <2>0. i - 1 \in 1..N - 1 /\ i - 1 \in 1..N
    BY <1>1, <1>9
  <2>1. /\ IsComplexType(F(i - 1)) /\ F(i - 1) \in FieldDefinitions
        /\ V(i - 1) \in Seq(Json) /\ V(i) = Descend(V(i - 1), path[i])
        /\ FieldNamed(F(i - 1).subfields, path[i]) = <<F(i)>>
    BY <1>2, <1>3, <1>4, <1>6, <1>9, <2>0
  <2>2. \A v \in ToSet(V(i - 1)) : v \in Json /\ Passes(F(i - 1), v)
    BY <1>9, <2>1 DEF ToSet
  <2>3. ASSUME NEW x \in ToSet(V(i)) PROVE Passes(F(i), x)
    <3>1. PICK e \in Elements(V(i - 1)) : x \in ToSet(Member(e, path[i]))
      BY <2>1, DescendIs
    <3>2. PICK v \in ToSet(V(i - 1)) : e \in ElementsOf(v)
      BY ElementsAre
    <3> QED
      BY <2>1, <2>2, <3>1, <3>2, SubvaluesPass
  <2>4. ASSUME \A j \in 1..i - 1 : ~IsCollection(F(j)) PROVE Len(V(i)) <= 1
    <3>1. \A j \in 1..(i - 1) - 1 : j \in 1..i - 1
      BY <2>0
    <3>2. Len(V(i - 1)) <= 1
      BY <1>9, <2>4, <3>1
    <3>3. ~IsCollection(F(i - 1))
      <4>1. i - 1 \in 1..i - 1
        BY <2>0
      <4> QED
        BY <2>4, <4>1
    <3>4. \A v \in ToSet(V(i - 1)) : ~IsArr(v)
      BY <2>1, <2>2, <3>3, PassingIs
    <3> QED
      BY <2>1, <3>2, <3>4, DescendShort
  <2> QED
    BY <2>3, <2>4
<1> HIDE DEF Good
<1>10. ASSUME bad # {} PROVE FALSE
  <2>1. PICK i \in bad : \A j \in bad : i <= j
    <3>1. bad \subseteq 0..N /\ N \in Nat
      BY <1>1
    <3> HIDE DEF bad
    <3> QED
      BY <1>10, <3>1, LeastExists
  <2>2. i \in 0..N /\ i # 0 /\ ~Good(i)
    OBVIOUS
  <2>3. i \in 1..N /\ i # 1 /\ i - 1 \in 0..N /\ i - 1 # 0 /\ ~(i <= i - 1)
    BY <1>1, <1>8, <2>2
  <2>4. Good(i - 1)
    <3>1. i - 1 \notin bad
      <4> HIDE DEF bad
      <4> QED
        BY <2>1, <2>3
    <3> QED
      BY <2>3, <3>1
  <2> QED
    BY <1>9, <2>2, <2>3, <2>4
<1>11. Good(n)
  <2>1. n \in 0..N /\ n # 0
    BY <1>1 DEF N
  <2> QED
    BY <1>10, <2>1
<1> QED
  BY <1>11 DEF Good, F, V, fields

LEMMA StoredValuesFit ==
    ASSUME NEW d \in Definitions, NEW sent \in Documents(d), ValidSchema(d), DocumentAccepted(d, sent),
           NEW path \in FieldPaths, LeadsToField(d, path)
    PROVE  ValuesFit(d, StoredDocument(d, sent).fields, path)
<1> DEFINE N      == Len(path)
           fields == StoredDocument(d, sent).fields
           values == ResolveFieldPath(fields, path)
           field  == FieldPath(d, path)[1]
           collections == CollectionsOn(d, path)
<1>1. path \in Seq(FieldNames) /\ path # <<>> /\ N \in Nat \ {0} /\ N \in 1..N /\ SubSeq(path, 1, N) = path
  BY PathIs
<1>2. field \in FieldDefinitions /\ (IsComplexType(field) \/ SupportedType(field.type))
  <2>1. FieldPath(d, path) # <<>>
    BY DEF LeadsToField
  <2>2. FieldPath(d, SubSeq(path, 1, N))[1] \in FieldDefinitions
    BY <1>1, <2>1, PrefixesFound
  <2> QED
    BY <1>1, <2>2, FieldsAreSupported
<1>3. collections = {n \in 1..N : IsCollection(FieldPath(d, SubSeq(path, 1, n))[1])}
  BY DEF CollectionsOn
<1>4. CASE path[1] \in DOMAIN fields
  <2>1. /\ \A v \in ToSet(values) : Passes(field, v)
        /\ (\A i \in 1..N - 1 : ~IsCollection(FieldPath(d, SubSeq(path, 1, i))[1])) => Len(values) <= 1
    <3>1. LET W == ResolveFieldPath(StoredDocument(d, sent).fields, SubSeq(path, 1, N))
              Field(i) == FieldPath(d, SubSeq(path, 1, i))[1]
          IN  /\ \A v \in ToSet(W) : Passes(Field(N), v)
              /\ (\A i \in 1..N - 1 : ~IsCollection(Field(i))) => Len(W) <= 1
      BY <1>1, <1>4, FoundPass
    <3> QED
      BY <1>1, <3>1
  <2>2. values \in Seq(Json)
    <3>1. \A name \in DOMAIN fields : fields[name] \in Json
      BY StoredAssumption DEF Range
    <3> QED
      BY <3>1, ResolvedAreJson
  <2>3. collections \subseteq {N} => \A i \in 1..N - 1 : ~IsCollection(FieldPath(d, SubSeq(path, 1, i))[1])
    <3>0. N \in Nat
      BY <1>1
    <3> HIDE DEF N, collections, field, values, fields
    <3>1. \A i \in 1..N - 1 : i \in 1..N /\ i # N
      BY <3>0
    <3> QED
      BY <1>3, <3>1
  <2>4. N \notin collections => ~IsCollection(field)
    <3>1. field = FieldPath(d, SubSeq(path, 1, N))[1]
      BY <1>1
    <3> HIDE DEF N, field
    <3> QED
      BY <1>1, <1>3, <3>1
  <2> HIDE DEF N, fields, values, field, collections
  <2>5. \A v \in ToSet(values) : v \in Json
    BY <2>2 DEF ToSet
  <2>6. ASSUME NEW e \in Elements(values)
        PROVE  KindFits(field.type.elem, e) \/ (IsVectorField(field) /\ IsNull(e))
    <3>1. PICK v \in ToSet(values) : e \in ElementsOf(v)
      BY ElementsAre
    <3> QED
      BY <1>2, <2>1, <2>5, <3>1, PassingFits
  <2>7. ASSUME N \notin collections PROVE \A v \in ToSet(values) : ~IsArr(v)
    BY <1>2, <2>1, <2>4, <2>5, <2>7, PassingFits
  <2> QED
    BY <2>1, <2>3, <2>6, <2>7 DEF ValuesFit, N, fields, values, field, collections
<1>5. CASE path[1] \notin DOMAIN fields
  <2>1. values = <<>>
    <3>1. Head(path) = path[1]
      BY <1>1
    <3> QED
      BY <1>5, <3>1, Zenon DEF ResolveFieldPath
  <2>2. ToSet(<<>>) = {} /\ Len(<<>>) <= 1
    BY DEF ToSet
  <2>3. Elements(values) = {}
    BY <2>1, <2>2, ElementsAre
  <2> HIDE DEF N, fields, values, field, collections
  <2>4. ToSet(values) = {} /\ Len(values) <= 1
    BY <2>1, <2>2
  <2> QED
    BY <2>3, <2>4 DEF ValuesFit, N, fields, values, field, collections
<1> QED
  BY <1>4, <1>5

\* Filters, facets and orderings find in every stored document values of the
\* kind their path was declared with.
THEOREM StoredValuesFitTheirPathsAlways == QuerySpec => []StoredValuesFitTheirPaths
<1>1. CaseInv => StoredValuesFitTheirPaths
  <2> SUFFICES ASSUME CaseInv, Accepted,
                      NEW path \in {p \in FieldPaths : LeadsToField(Definition, p)}
               PROVE  ValuesFit(Definition, Stored, path)
    BY DEF StoredValuesFitTheirPaths
  <2>1. /\ case.definition \in Definitions /\ ValidSchema(case.definition)
        /\ case.fields \in Documents(case.definition)
        /\ DocumentAccepted(case.definition, case.fields)
    BY DEF CaseInv, DocumentMade, Accepted, Definition, Fields
  <2>2. ValuesFit(case.definition, StoredDocument(case.definition, case.fields).fields, path)
    BY <2>1, StoredValuesFit DEF Definition
  <2> QED
    BY <2>2 DEF Definition, Stored, Fields
<1> QED
  BY <1>1, CasesAreMade, PTL

\* A filter is looked at on a document whose values fit their paths.
FilterFits ==
    case.family = "filter" =>
        \A path \in {p \in FieldPaths : LeadsToField(case.definition, p)} :
          ValuesFit(case.definition, case.fields, path)

LEMMA FilteredDocumentsFit == QuerySpec => []FilterFits
<1>1. QueryInit => FilterFits
  BY DEF QueryInit, FilterFits
<1>2. ASSUME CaseInv, FilterFits, [QueryNext]_case PROVE FilterFits'
  <2>1. CASE SendFilter
    <3>1. PICK expr \in Expressions(case.definition) :
            case' = [family |-> "filter", definition |-> case.definition, expr |-> expr,
                     fields |-> StoredDocument(case.definition, case.fields).fields]
      BY <2>1 DEF SendFilter
    <3>2. /\ case.definition \in Definitions /\ ValidSchema(case.definition)
          /\ case.fields \in Documents(case.definition)
          /\ DocumentAccepted(case.definition, case.fields)
      BY <1>2, <2>1 DEF SendFilter, CaseInv, DocumentMade
    <3>3. \A path \in {p \in FieldPaths : LeadsToField(case.definition, p)} :
            ValuesFit(case.definition, StoredDocument(case.definition, case.fields).fields, path)
      BY <3>2, StoredValuesFit
    <3> QED
      BY <3>1, <3>3 DEF FilterFits
  <2>2. CASE ~SendFilter /\ QueryNext
    <3>1. case'.family # "filter"
      BY <2>2 DEF QueryNext, SendDefinition, SendDocument, ReadExpression, ReadPhrase, MoveDate, Leave
    <3> QED
      BY <3>1 DEF FilterFits
  <2>3. CASE UNCHANGED case
    BY <1>2, <2>3 DEF FilterFits
  <2> QED
    BY <1>2, <2>1, <2>2, <2>3
<1> QED
  BY <1>1, <1>2, CasesAreMade, PTL DEF QuerySpec

-----------------------------------------------------------------------------
(* Documents stored again *)

\* The vectors after each of n tokens.
Adds(g, n, V, b, text) ==
    /\ g \in [0..n -> V] /\ g[0] = b
    /\ \A i \in 1..n : g[i] = AddToken(g[i - 1], text[i])

\* A text is added to a vector token after token.
LEMMA AddingIs ==
    ASSUME NEW n \in Nat, NEW V, NEW b \in V, NEW text, DOMAIN text = 1..n,
           \A i \in 1..n : \A v \in V : AddToken(v, text[i]) \in V
    PROVE  \E g : Adds(g, n, V, b, text) /\ FoldLeft(AddToken, b, text) = g[n]
<1> DEFINE Fold(it) == it = [s \in SUBSET (1..n) |->
                               IF s = {} THEN b ELSE AddToken(it[s \ {Max(s)}], text[Max(s)])]
           it == CHOOSE iter : Fold(iter)
<1>2. FoldLeft(AddToken, b, text) = it[1..n]
  BY Zenon DEF FoldLeft, MapThenFoldSet
<1>3. Fold(it)
  <2> DEFINE step == [i \in 1..n |-> [v \in V |-> AddToken(v, text[i])]]
  <2>1. step \in Steps(n, V)
    BY DEF Steps
  <2>3. \A i \in 1..n, v \in V : step[i][v] = AddToken(v, text[i])
    OBVIOUS
  <2> HIDE DEF step
  <2>4. PICK h : FoldsTo(h, n, V, b, step)
    <3> HIDE DEF it, Fold
    <3> QED
      BY <2>1, FoldsExist
  <2>8. /\ h \in [SUBSET (1..n) -> V] /\ h[{}] = b
        /\ \A s \in SUBSET (1..n) : s # {} => h[s] = step[Max(s)][h[s \ {Max(s)}]]
    BY <2>4 DEF FoldsTo
  <2>5. ASSUME NEW s \in SUBSET (1..n), s # {}
        PROVE  step[Max(s)][h[s \ {Max(s)}]] = AddToken(h[s \ {Max(s)}], text[Max(s)])
    <3>1. Max(s) \in 1..n
      BY <2>5, MaxOfPlaces
    <3>2. h[s \ {Max(s)}] \in V
      BY <2>5, <2>8
    <3> QED
      BY <2>3, <3>1, <3>2
  <2>6. \A s \in SUBSET (1..n) : h[s] = IF s = {} THEN b ELSE AddToken(h[s \ {Max(s)}], text[Max(s)])
    BY <2>5, <2>8
  <2>7. Fold(h)
    BY <2>6, <2>8
  <2> HIDE DEF Fold
  <2> QED
    BY <2>7
<1>4. it[{}] = b /\ \A s \in SUBSET (1..n) : s # {} => it[s] = AddToken(it[s \ {Max(s)}], text[Max(s)])
  <2> HIDE DEF it
  <2>1. it = [s \in SUBSET (1..n) |-> IF s = {} THEN b ELSE AddToken(it[s \ {Max(s)}], text[Max(s)])]
    BY <1>3
  <2> QED
    BY <2>1
<1> HIDE DEF it, Fold
<1> DEFINE g == [i \in 0..n |-> it[1..i]]
<1>5. g[0] = b
  <2>1. 1..0 = {} /\ 0 \in 0..n
    OBVIOUS
  <2> QED
    BY <1>4, <2>1
<1>6. ASSUME NEW i \in 1..n PROVE g[i] = AddToken(g[i - 1], text[i])
  <2>1. 1..i \in SUBSET (1..n) /\ 1..i # {}
    <3>1. 1..i \subseteq 1..n /\ i \in 1..i
      <4> HIDE DEF g
      <4> QED
        OBVIOUS
    <3> QED
      BY <3>1
  <2>5. i \in 0..n /\ i - 1 \in 0..n
    OBVIOUS
  <2>2. Max(1..i) = i
    BY PlacesUpTo
  <2>3. (1..i) \ {i} = 1..i - 1
    OBVIOUS
  <2>4. it[1..i] = AddToken(it[1..i - 1], text[i])
    BY <1>4, <2>1, <2>2, <2>3
  <2> QED
    BY <2>4, <2>5
<1>7. n \in 0..n /\ g[n] = it[1..n]
  OBVIOUS
<1> HIDE DEF g
<1>8. \A i \in 0..n : g[i] \in V
  <2> DEFINE bad == {i \in 0..n : g[i] \notin V}
  <2>1. ASSUME bad # {} PROVE FALSE
    <3>1. PICK i \in bad : \A j \in bad : i <= j
      BY <2>1, LeastExists
    <3>2. i \in 0..n /\ g[i] \notin V
      OBVIOUS
    <3>3. i \in 1..n
      BY <1>5, <3>2
    <3>4. i - 1 \in 0..n /\ ~(i <= i - 1)
      BY <3>3
    <3> HIDE DEF bad
    <3>5. i - 1 \notin bad
      BY <3>1, <3>4
    <3>6. g[i - 1] \in V
      BY <3>4, <3>5 DEF bad
    <3> QED
      BY <1>6, <3>2, <3>3, <3>6
  <2> QED
    BY <2>1
<1>9. g \in [0..n -> V]
  BY <1>8 DEF g
<1>10. Adds(g, n, V, b, text)
  BY <1>5, <1>6, <1>9 DEF Adds
<1> QED
  BY <1>2, <1>7, <1>10
LEMMA AddingExists ==
    ASSUME NEW V, NEW b \in V, NEW text \in Seq(Int),
           \A i \in 1..Len(text) : \A v \in V : AddToken(v, text[i]) \in V
    PROVE  \E g : Adds(g, Len(text), V, b, text) /\ FoldLeft(AddToken, b, text) = g[Len(text)]
<1>1. Len(text) \in Nat /\ DOMAIN text = 1..Len(text)
  OBVIOUS
<1> DEFINE n == Len(text)
<1>2. \A i \in 1..n : \A v \in V : AddToken(v, text[i]) \in V
  OBVIOUS
<1> HIDE DEF n
<1>3. \E g : Adds(g, n, V, b, text) /\ FoldLeft(AddToken, b, text) = g[n]
  BY <1>1, <1>2, AddingIs DEF n
<1> QED
  BY <1>3 DEF n

\* A token moves each place of a vector by one at most.
LEMMA TokenAdds ==
    ASSUME NEW D \in Nat \ {0}, NEW v \in [1..D -> Int], NEW token \in Int
    PROVE  /\ AddToken(v, token) \in [1..D -> Int]
           /\ \A i \in 1..D : v[i] - 1 <= AddToken(v, token)[i] /\ AddToken(v, token)[i] <= v[i] + 1
<1>1. Len(v) = D
  OBVIOUS
<1>2. (token % D) + 1 \in 1..D
  <2>1. token % D \in 0..D - 1
    OBVIOUS
  <2> QED
    BY <2>1
<1> DEFINE p == (token % D) + 1
           s == IF (token \div D) % 2 = 0 THEN 1 ELSE -1
<1>3. AddToken(v, token) = [v EXCEPT ![p] = @ + s]
  BY <1>1 DEF AddToken
<1>4. p \in 1..D /\ (s = 1 \/ s = -1)
  BY <1>2
<1> HIDE DEF p, s
<1>5. [v EXCEPT ![p] = @ + s] \in [1..D -> Int]
  BY <1>4
<1>6. ASSUME NEW i \in 1..D
      PROVE  v[i] - 1 <= [v EXCEPT ![p] = @ + s][i] /\ [v EXCEPT ![p] = @ + s][i] <= v[i] + 1
  <2>1. [v EXCEPT ![p] = @ + s][i] = IF i = p THEN v[i] + s ELSE v[i]
    BY <1>4
  <2>2. v[i] \in Int
    OBVIOUS
  <2> QED
    BY <1>4, <2>1, <2>2
<1> QED
  BY <1>3, <1>5, <1>6

\* So the vector of a text has a number for each of its dimensions, and none
\* is beyond the number of tokens.
LEMMA VectorOfText ==
    ASSUME NEW D \in Nat \ {0}, NEW text \in Seq(Int)
    PROVE  /\ TextToVector(text, D) \in [1..D -> Int]
           /\ \A i \in 1..D : -Len(text) <= TextToVector(text, D)[i] /\ TextToVector(text, D)[i] <= Len(text)
<1> DEFINE n == Len(text)
           V == [1..D -> Int]
           b == [i \in 1..D |-> 0]
<1>1. n \in Nat /\ DOMAIN text = 1..n /\ \A i \in 1..n : text[i] \in Int
  OBVIOUS
<1>2. b \in V /\ \A k \in 1..D : b[k] = 0
  OBVIOUS
<1>3. \A i \in 1..n : \A v \in V : AddToken(v, text[i]) \in V
  <2> HIDE DEF n
  <2> QED
    BY <1>1, TokenAdds
<1>4. TextToVector(text, D) = FoldLeft(AddToken, b, text)
  BY Zenon DEF TextToVector
<1> HIDE DEF n, V, b
<1>5. PICK g : Adds(g, n, V, b, text) /\ FoldLeft(AddToken, b, text) = g[n]
  <2>1. b \in V
    BY <1>2
  <2>2. \A i \in 1..Len(text) : \A v \in V : AddToken(v, text[i]) \in V
    BY <1>3 DEF n
  <2>3. \E g : Adds(g, Len(text), V, b, text) /\ FoldLeft(AddToken, b, text) = g[Len(text)]
    BY <2>1, <2>2, AddingExists
  <2> QED
    BY <2>3 DEF n
<1>6. /\ \A i \in 0..n : g[i] \in V
      /\ g[0] = b /\ \A i \in 1..n : g[i] = AddToken(g[i - 1], text[i])
  BY <1>5 DEF Adds
<1> DEFINE Within(i) == \A k \in 1..D : -i <= g[i][k] /\ g[i][k] <= i
           bad == {i \in 0..n : ~Within(i)}
<1>7. ASSUME bad # {} PROVE FALSE
  <2>1. PICK i \in bad : \A j \in bad : i <= j
    BY <1>1, <1>7, LeastExists
  <2>2. i \in 0..n /\ ~Within(i)
    OBVIOUS
  <2>3. Within(0)
    BY <1>2, <1>6
  <2>4. i \in 1..n /\ i - 1 \in 0..n /\ ~(i <= i - 1)
    <3> HIDE DEF Within
    <3> QED
      BY <1>1, <2>2, <2>3
  <2>5. Within(i - 1)
    <3>1. i - 1 \notin bad
      <4> HIDE DEF bad
      <4> QED
        BY <2>1, <2>4
    <3> HIDE DEF Within
    <3> QED
      BY <2>4, <3>1
  <2>6. g[i - 1] \in [1..D -> Int] /\ text[i] \in Int
    BY <1>1, <1>6, <2>4 DEF V
  <2>7. ASSUME NEW k \in 1..D PROVE -i <= g[i][k] /\ g[i][k] <= i
    <3>1. g[i] = AddToken(g[i - 1], text[i])
      BY <1>6, <2>4
    <3>2. -(i - 1) <= g[i - 1][k] /\ g[i - 1][k] <= i - 1 /\ i \in Int
      BY <1>1, <2>4, <2>5
    <3> DEFINE u     == g[i - 1]
               token == text[i]
    <3>3. u \in [1..D -> Int] /\ token \in Int /\ g[i] = AddToken(u, token)
      BY <2>6, <3>1
    <3>4. -(i - 1) <= u[k] /\ u[k] <= i - 1
      BY <3>2
    <3> HIDE DEF bad, Within, u, token
    <3>5. AddToken(u, token) \in [1..D -> Int]
      BY <3>3, TokenAdds
    <3>6. \A j \in 1..D : u[j] - 1 <= AddToken(u, token)[j] /\ AddToken(u, token)[j] <= u[j] + 1
      BY <3>3, TokenAdds
    <3>7. u[k] \in Int /\ g[i][k] \in Int /\ u[k] - 1 <= g[i][k] /\ g[i][k] <= u[k] + 1
      BY <3>3, <3>5, <3>6
    <3> QED
      BY <3>2, <3>4, <3>7
  <2> QED
    BY <2>2, <2>7
<1>8. n \in 0..n
  BY <1>1
<1>9. Within(n)
  <2>1. n \notin bad
    <3> HIDE DEF bad
    <3> QED
      BY <1>7
  <2> HIDE DEF Within
  <2> QED
    BY <1>8, <2>1
<1> QED
  BY <1>4, <1>5, <1>6, <1>8, <1>9 DEF n, V

Vectorized(d, sent) == {f.name : f \in {f \in VectorFields(d) : GeneratedVector(d, f, sent) # {}}}

\* A stored document has the values that were sent, and vectors for vector
\* fields that were sent none.
LEMMA StoredFieldsAre ==
    ASSUME NEW d \in Definitions, NEW sent \in Documents(d), ValidSchema(d), DocumentAccepted(d, sent)
    PROVE  LET stored == StoredDocument(d, sent).fields IN
           /\ DOMAIN stored = DOMAIN sent \cup Vectorized(d, sent)
           /\ stored = [name \in DOMAIN stored |-> stored[name]]
           /\ \A name \in DOMAIN sent \ Vectorized(d, sent) : stored[name] = sent[name]
           /\ \A name \in Vectorized(d, sent) :
                \E f \in VectorFields(d) :
                  /\ f.name = name /\ FieldNamed(d.fields, name) = <<f>>
                  /\ Omitted(sent, name)
                  /\ stored[name] \in GeneratedVector(d, f, sent)
<1> DEFINE stored  == ApplyVectorizers(d, sent)
           made    == {f \in VectorFields(d) : GeneratedVector(d, f, sent) # {}}
           names   == {f.name : f \in made}
           field(name) == CHOOSE f \in made : f.name = name
<1>1. StoredDocument(d, sent).fields = stored /\ Vectorized(d, sent) = names
  BY DEF StoredDocument, Vectorized
<1>2. /\ DOMAIN stored = DOMAIN sent \cup names
      /\ stored = [name \in DOMAIN stored |-> stored[name]]
      /\ \A name \in DOMAIN sent \ names : stored[name] = sent[name]
      /\ \A name \in names : stored[name] = CHOOSE v \in GeneratedVector(d, field(name), sent) : TRUE
  <2>1. stored = [name \in DOMAIN sent \cup names |->
                    IF name \in names THEN CHOOSE v \in GeneratedVector(d, field(name), sent) : TRUE
                    ELSE sent[name]]
    BY Zenon DEF ApplyVectorizers
  <2> HIDE DEF stored, names, field, made
  <2> QED
    BY <2>1
<1>3. d.fields \in Seq(FieldDefinitions) /\ NamesDiffer(d.fields)
  BY DefinitionsAssumption DEF ValidSchema
<1>4. ASSUME NEW name \in names
      PROVE  \E f \in VectorFields(d) :
                  /\ f.name = name /\ FieldNamed(d.fields, name) = <<f>>
                  /\ Omitted(sent, name)
                  /\ stored[name] \in GeneratedVector(d, f, sent)
  <2> DEFINE f == field(name)
  <2>1. f \in made /\ f.name = name
    OBVIOUS
  <2>2. f \in VectorFields(d) /\ f \in ToSet(d.fields) /\ GeneratedVector(d, f, sent) # {}
    BY <2>1 DEF VectorFields
  <2>3. stored[name] = CHOOSE v \in GeneratedVector(d, f, sent) : TRUE
    BY <1>2
  <2> HIDE DEF f, field, names, made, stored
  <2>4. stored[name] \in GeneratedVector(d, f, sent)
    BY <2>2, <2>3
  <2>5. Omitted(sent, name)
    BY <2>1, <2>4 DEF GeneratedVector
  <2>6. FieldNamed(d.fields, name) = <<f>>
    <3> DEFINE found == FieldNamed(d.fields, name)
    <3>1. \/ found = <<>> /\ \A g \in ToSet(d.fields) : g.name # name
          \/ \E g \in FieldDefinitions : g \in ToSet(d.fields) /\ g.name = name /\ found = <<g>>
      BY <1>3, FieldNamedIs
    <3>2. \A g, h \in ToSet(d.fields) : g.name = h.name => g = h
      BY <1>3 DEF NamesDiffer, ToSet
    <3> HIDE DEF found
    <3>3. found = <<f>>
      BY <2>1, <2>2, <3>1, <3>2
    <3> QED
      BY <3>3 DEF found
  <2> QED
    BY <2>1, <2>2, <2>4, <2>5, <2>6
<1> HIDE DEF stored, made, names, field
<1> QED
  BY <1>1, <1>2, <1>4

\* A generated vector is one that its field accepts.
LEMMA GeneratedIs ==
    ASSUME NEW d \in Definitions, NEW sent \in Documents(d), ValidSchema(d), DocumentAccepted(d, sent),
           NEW f \in VectorFields(d), NEW v \in GeneratedVector(d, f, sent)
    PROVE  IsArr(v) /\ ~IsNull(v) /\ ~IsStr(v) /\ FieldTypeOk(f, v)
<1>0. PICK z \in ToSet(d.vectorizers) :
        \E w : /\ w = TextToVector(SourceText(d, z, sent), f.dimensions)
               /\ v = Arr([i \in DOMAIN w |-> Num(w[i])])
  BY DEF GeneratedVector
<1>1. PICK w : /\ w = TextToVector(SourceText(d, z, sent), f.dimensions)
               /\ v = Arr([i \in DOMAIN w |-> Num(w[i])])
  BY <1>0
<1>2. PICK i \in DOMAIN d.fields : f = d.fields[i] /\ IsVectorField(f)
  BY DEF VectorFields, ToSet
<1>3. f.dimensions \in Nat \ {0}
  <2>1. ValidVectorField(f) /\ AttemptsVector(f)
    BY <1>2 DEF ValidSchema, ValidField, IsVectorField, AttemptsVector, HasDimensionsProperty
  <2>2. f.dimensions \in 1..MaxDimension
    BY <2>1 DEF ValidVectorField
  <2> QED
    BY <2>2, LimitsAssumption
<1> DEFINE D    == f.dimensions
           text == SourceText(d, z, sent)
<1>4. text \in Seq(Int) /\ Len(text) <= MaxSingle /\ MaxSingle \in Nat
  BY TextsAssumption
<1> HIDE DEF text, D
<1>5. w \in [1..D -> Int] /\ \A k \in 1..D : -Len(text) <= w[k] /\ w[k] <= Len(text)
  <2>1. D \in Nat \ {0} /\ w = TextToVector(text, D)
    BY <1>1, <1>3 DEF D, text
  <2> QED
    BY <1>4, <2>1, VectorOfText
<1>6. v.arr = [k \in 1..D |-> Num(w[k])] /\ IsArr(v) /\ ~IsNull(v) /\ ~IsStr(v)
  BY <1>1, <1>5 DEF Arr, IsArr, IsNull, IsStr, IsKind
<1>7. Len(v.arr) = D /\ DOMAIN v.arr = 1..D
  BY <1>3, <1>6 DEF D
<1>8. ASSUME NEW k \in 1..D PROVE IsSingle(v.arr[k])
  <2>1. v.arr[k] = [num |-> w[k]] /\ w[k] \in Int
    BY <1>5, <1>6 DEF Num
  <2>2. IsNum(v.arr[k]) /\ AsF64(v.arr[k]) = 2 * w[k]
    BY <2>1 DEF IsNum, IsInt, IsKind, AsF64
  <2>3. Len(text) \in Nat /\ -Len(text) <= w[k] /\ w[k] <= Len(text)
    BY <1>4, <1>5
  <2>4. 2 * w[k] \in -2 * MaxSingle .. 2 * MaxSingle
    BY <1>4, <2>1, <2>3
  <2> QED
    BY <2>2, <2>4 DEF IsSingle
<1>9. CheckVectorValue(f, v)
  BY <1>6, <1>7, <1>8 DEF CheckVectorValue, D
<1>10. ~IsComplexType(f)
  BY <1>2 DEF IsVectorField, IsVectorFieldType, IsComplexType
<1>11. FieldTypeOk(f, v)
  BY <1>2, <1>9, <1>10, Zenon DEF FieldTypeOk
<1> QED
  BY <1>6, <1>11

TextAt(fields, name) == IF name \in DOMAIN fields /\ IsStr(fields[name]) THEN fields[name].str ELSE <<>>

\* Neither null nor a vector is text, so the text to vectorize is the same
\* before and after.
LEMMA SameText ==
    ASSUME NEW d \in Definitions, NEW sent \in Documents(d), ValidSchema(d), DocumentAccepted(d, sent), NEW z
    PROVE  SourceText(d, z, StoredDocument(d, sent).fields) = SourceText(d, z, sent)
<1> DEFINE stored == StoredDocument(d, sent).fields
           names  == IF z.source # <<>> THEN z.source[1]
                     ELSE [i \in DOMAIN SearchableStringFields(d) |-> SearchableStringFields(d)[i].name]
<1>1. ASSUME NEW name PROVE TextAt(stored, name) = TextAt(sent, name)
  <2>1. CASE name \in Vectorized(d, sent)
    <3>1. PICK f \in VectorFields(d) : Omitted(sent, name) /\ stored[name] \in GeneratedVector(d, f, sent)
      BY <2>1, StoredFieldsAre
    <3>2. ~IsStr(stored[name])
      BY <3>1, GeneratedIs
    <3>3. ASSUME name \in DOMAIN sent PROVE ~IsStr(sent[name])
      <4>1. sent[name] \in Json /\ IsNull(sent[name])
        BY <3>1, <3>3, StoredAssumption DEF Range, Omitted
      <4> QED
        BY <4>1, JsonHasOneKind, KindsExclude
    <3> HIDE DEF stored
    <3> QED
      BY <3>2, <3>3 DEF TextAt
  <2>2. CASE name \notin Vectorized(d, sent)
    <3>1. DOMAIN stored = DOMAIN sent \cup Vectorized(d, sent)
      BY StoredFieldsAre
    <3>2. \A n \in DOMAIN sent \ Vectorized(d, sent) : stored[n] = sent[n]
      BY StoredFieldsAre
    <3> HIDE DEF stored
    <3> QED
      BY <2>2, <3>1, <3>2 DEF TextAt
  <2> QED
    BY <2>1, <2>2
<1>2. ASSUME NEW fields
      PROVE  SourceText(d, z, fields) = Concat([i \in DOMAIN names |-> TextAt(fields, names[i])])
  BY Zenon DEF SourceText, TextAt
<1> HIDE DEF stored, names
<1>3. [i \in DOMAIN names |-> TextAt(stored, names[i])] = [i \in DOMAIN names |-> TextAt(sent, names[i])]
  BY <1>1
<1> QED
  BY <1>2, <1>3 DEF stored

\* A document is stored as one that is accepted and stays as it is.
LEMMA StoredAgain ==
    ASSUME NEW d \in Definitions, NEW sent \in Documents(d), ValidSchema(d), DocumentAccepted(d, sent)
    PROVE  LET stored == StoredDocument(d, sent).fields IN
           DocumentAccepted(d, stored) /\ StoredDocument(d, stored).fields = stored
<1> DEFINE stored == StoredDocument(d, sent).fields
           key    == KeyField(d).name
<1>1. /\ DOMAIN stored = DOMAIN sent \cup Vectorized(d, sent)
      /\ stored = [name \in DOMAIN stored |-> stored[name]]
      /\ \A name \in DOMAIN sent \ Vectorized(d, sent) : stored[name] = sent[name]
  BY StoredFieldsAre
<1>2. ASSUME NEW name \in Vectorized(d, sent)
      PROVE  \E f \in VectorFields(d) :
                  /\ f.name = name /\ FieldNamed(d.fields, name) = <<f>> /\ Omitted(sent, name)
                  /\ IsArr(stored[name]) /\ ~IsNull(stored[name]) /\ FieldTypeOk(f, stored[name])
  <2>1. PICK f \in VectorFields(d) :
          /\ f.name = name /\ FieldNamed(d.fields, name) = <<f>> /\ Omitted(sent, name)
          /\ stored[name] \in GeneratedVector(d, f, sent)
    BY <1>2, StoredFieldsAre
  <2> HIDE DEF stored
  <2>2. IsArr(stored[name]) /\ ~IsNull(stored[name]) /\ FieldTypeOk(f, stored[name])
    BY <2>1, GeneratedIs
  <2> QED
    BY <2>1, <2>2
<1>3. \A name \in DOMAIN sent : sent[name] \in Json
  BY StoredAssumption DEF Range
<1>4. \A z : SourceText(d, z, stored) = SourceText(d, z, sent)
  BY SameText
<1>5. /\ key \in DOMAIN sent /\ KeyDisplay(sent[key]) # <<>>
      /\ \A name \in DOMAIN sent : FieldAccepted(d, name, sent[name])
  BY DEF DocumentAccepted
<1> HIDE DEF stored
<1>6. key \notin Vectorized(d, sent)
  <2>1. IsStr(sent[key]) \/ IsInt(sent[key])
    BY <1>5, Zenon DEF KeyDisplay
  <2>2. ~IsNull(sent[key])
    BY <1>3, <1>5, <2>1, JsonHasOneKind, KindsExclude DEF IsInt, IsNum
  <2>3. ~Omitted(sent, key)
    BY <1>5, <2>2 DEF Omitted
  <2> HIDE DEF key
  <2> QED
    BY <1>2, <2>3
<1>7. ASSUME NEW name \in DOMAIN stored PROVE FieldAccepted(d, name, stored[name])
  <2>1. CASE name \in Vectorized(d, sent)
    <3>1. PICK f \in VectorFields(d) : FieldNamed(d.fields, name) = <<f>> /\ FieldTypeOk(f, stored[name])
      BY <1>2, <2>1
    <3> QED
      BY <3>1 DEF FieldAccepted
  <2>2. CASE name \notin Vectorized(d, sent)
    BY <1>1, <1>5, <2>2
  <2> QED
    BY <2>1, <2>2
<1>8. DocumentAccepted(d, stored)
  <2>1. key \in DOMAIN stored /\ stored[key] = sent[key]
    <3> HIDE DEF key
    <3> QED
      BY <1>1, <1>5, <1>6
  <2> QED
    BY <1>5, <1>7, <2>1 DEF DocumentAccepted
<1>9. ASSUME NEW f \in VectorFields(d) PROVE GeneratedVector(d, f, stored) = {}
  <2>1. CASE ~Omitted(stored, f.name)
    BY <2>1 DEF GeneratedVector
  <2>2. CASE Omitted(stored, f.name)
    <3>1. f.name \notin Vectorized(d, sent)
      BY <1>1, <1>2, <2>2 DEF Omitted
    <3>2. Omitted(sent, f.name)
      BY <1>1, <2>2, <3>1 DEF Omitted
    <3>3. GeneratedVector(d, f, sent) = {}
      BY <3>1 DEF Vectorized
    <3>4. GeneratedVector(d, f, stored) = GeneratedVector(d, f, sent)
      <4>1. \A z : TextToVector(SourceText(d, z, stored), f.dimensions)
                     = TextToVector(SourceText(d, z, sent), f.dimensions)
        BY <1>4
      <4> QED
        BY <2>2, <3>2, <4>1 DEF GeneratedVector
    <3> QED
      BY <3>3, <3>4
  <2> QED
    BY <2>1, <2>2
<1>10. ApplyVectorizers(d, stored) = stored
  <2> DEFINE made  == {f \in VectorFields(d) : GeneratedVector(d, f, stored) # {}}
             names == {f.name : f \in made}
             value(name) == CHOOSE v \in GeneratedVector(d, CHOOSE f \in made : f.name = name, stored) : TRUE
  <2>1. ApplyVectorizers(d, stored) = [name \in DOMAIN stored \cup names |->
                                         IF name \in names THEN value(name) ELSE stored[name]]
    BY Zenon DEF ApplyVectorizers
  <2>2. names = {}
    BY <1>9
  <2> HIDE DEF names, made, value
  <2> QED
    BY <1>1, <2>1, <2>2
<1>11. StoredDocument(d, stored).fields = stored
  BY <1>10 DEF StoredDocument
<1> QED
  BY <1>8, <1>11 DEF stored

\* Every stored document is accepted again as it is, so a merge that changes
\* nothing never fails and never changes it.
THEOREM StoredDocumentsAreAcceptedAlways == QuerySpec => []StoredDocumentsAreAccepted
<1>1. CaseInv => StoredDocumentsAreAccepted
  <2> SUFFICES ASSUME CaseInv, Accepted
               PROVE  DocumentAccepted(Definition, Stored) /\ StoredDocument(Definition, Stored).fields = Stored
    BY DEF StoredDocumentsAreAccepted
  <2>1. /\ case.definition \in Definitions /\ ValidSchema(case.definition)
        /\ case.fields \in Documents(case.definition)
        /\ DocumentAccepted(case.definition, case.fields)
    BY DEF CaseInv, DocumentMade, Accepted, Definition, Fields
  <2> QED
    BY <2>1, StoredAgain DEF Definition, Stored, Fields
<1> QED
  BY <1>1, CasesAreMade, PTL

-----------------------------------------------------------------------------
(* Definitions *)

\* Every definition that validation accepts with vector fields is one the
\* vector engine builds, whatever is sent: the two read the sections of the
\* body separately.
THEOREM AcceptedSchemasBuildAlways == QuerySpec => []AcceptedSchemasBuild
<1>1. ASSUME NEW d, ValidSchema(d), VectorFields(d) # {} PROVE VectorIndexesCreated(d)
  <2>1. ValidVectorSearch(d)
    BY <1>1 DEF ValidSchema
  <2>2. /\ Cardinality(VectorFields(d)) <= MaxVectorFields
        /\ ParsesVectorSearch(d)
        /\ \A f \in VectorFields(d) : ProfileNamed(d, f.profile) # {}
    BY <1>1, <2>1 DEF ValidVectorSearch
  <2>3. ASSUME NEW f \in VectorFields(d) PROVE f.dimensions > 0
    <3>1. PICK i \in DOMAIN d.fields : f = d.fields[i] /\ IsVectorField(f)
      BY DEF VectorFields, ToSet
    <3>2. ValidVectorField(f) /\ AttemptsVector(f)
      BY <1>1, <3>1 DEF ValidSchema, ValidField, IsVectorField, AttemptsVector, HasDimensionsProperty
    <3>3. f.dimensions \in 1..MaxDimension
      BY <3>2 DEF ValidVectorField
    <3> QED
      BY <3>3, LimitsAssumption
  <2>4. ASSUME NEW f \in VectorFields(d)
        PROVE  \E p \in ToSet(d.profiles) : p.name = f.profile /\ HasAlgorithm(d, p.algorithm)
    <3>1. PICK p \in ToSet(d.profiles) : p.name = f.profile
      BY <2>2 DEF ProfileNamed
    <3>2. HasAlgorithm(d, p.algorithm)
      BY <2>2 DEF ParsesVectorSearch, ToSet
    <3> QED
      BY <3>1, <3>2
  <2> QED
    BY <2>2, <2>3, <2>4 DEF VectorIndexesCreated
<1>2. AcceptedSchemasBuild
  BY <1>1 DEF AcceptedSchemasBuild
<1> QED
  BY <1>2, PTL

\* The vectorizer a vector field of an accepted definition resolves to is
\* there, and whatever it takes its text from is a searchable text.
THEOREM VectorizersResolveAlways == QuerySpec => []VectorizersResolve
<1>1. ASSUME NEW d, ValidSchema(d), NEW f \in VectorFields(d), NEW name \in FieldVectorizer(d, f)
      PROVE  HasVectorizer(d, name)
  <2>1. ValidVectorizers(d) /\ ValidVectorSearch(d) /\ f \in ToSet(d.fields)
    BY <1>1 DEF ValidSchema, VectorFields
  <2>2. CASE f.vectorizer # NoRef
    BY <2>1, <2>2 DEF FieldVectorizer, ValidVectorizers
  <2>3. CASE f.vectorizer = NoRef
    <3>1. PICK p \in ToSet(d.profiles) : p.vectorizer # NoRef /\ name = p.vectorizer
      BY <2>3 DEF FieldVectorizer, ProfileNamed
    <3>2. ParsesVectorSearch(d)
      BY <2>1 DEF ValidVectorSearch
    <3> QED
      BY <2>1, <3>1, <3>2 DEF ValidVectorizers
  <2> QED
    BY <2>2, <2>3
<1>2. ASSUME NEW d, ValidSchema(d), NEW name, HasVectorizer(d, name)
      PROVE  \E v \in ToSet(d.vectorizers) :
               /\ v.name = name
               /\ \A i \in DOMAIN v.source : \A j \in DOMAIN v.source[i] :
                    \E g \in ToSet(d.fields) : g.name = v.source[i][j] /\ IsSearchableString(g)
  <2>1. PICK v \in ToSet(d.vectorizers) : v.name = name
    BY <1>2 DEF HasVectorizer, ToSet
  <2>2. ValidVectorizers(d)
    BY <1>2 DEF ValidSchema
  <2>3. \A i \in DOMAIN v.source : \A j \in DOMAIN v.source[i] :
          \E g \in ToSet(d.fields) : g.name = v.source[i][j] /\ IsSearchableString(g)
    BY <2>2 DEF ValidVectorizers
  <2> QED
    BY <2>1, <2>3
<1>3. VectorizersResolve
  BY <1>1, <1>2 DEF VectorizersResolve
<1> QED
  BY <1>3, PTL

-----------------------------------------------------------------------------
(* Filters *)

\* When values are eq to a literal, null too: some item is, or there is
\* nothing and the literal is null.
LEMMA ValuesAreEqual ==
    ASSUME NEW values \in Seq(Json), NEW literal \in LiteralValues
    PROVE  CompareFieldValues(values, "eq", literal) <=>
             \/ \E item \in ToSet(FlattenValues(values)) : ValuesEqual(item, literal)
             \/ values = <<>> /\ IsNull(literal)
<1>1. CASE ~IsNull(literal)
  <2>1. CompareFieldValues(values, "eq", literal) <=> SomeHolds(values, "eq", literal)
    BY <1>1, ValuesCompare DEF Ops
  <2>2. \A item : ValuesEqual(item, literal) <=> ~IsNull(item) /\ CompareScalar(item, "eq", literal)
    BY <1>1 DEF ValuesEqual
  <2> QED
    BY <1>1, <2>1, <2>2 DEF SomeHolds
<1>2. CASE IsNull(literal)
  <2>0. /\ IsNull(literal) = TRUE
        /\ \A item : ValuesEqual(item, literal) <=> IsNull(item)
    BY <1>2 DEF ValuesEqual, IsNull, IsKind
  <2>1. CASE values = <<>>
    <3>1. CompareFieldValues(values, "eq", literal) <=> NullComparison("eq", TRUE, IsNull(literal))
      BY <2>1 DEF CompareFieldValues
    <3>2. NullComparison("eq", TRUE, TRUE)
      BY DEF NullComparison
    <3> QED
      BY <1>2, <2>0, <2>1, <3>1, <3>2
  <2>2. CASE Len(values) = 1 /\ ~IsArr(values[1])
    <3>1. values # <<>> /\ ~(Len(values) > 1) /\ ToSet(FlattenValues(values)) = {values[1]}
      BY <2>2, FlattenedAre
    <3>2. CASE IsNull(values[1])
      <4>1. CompareFieldValues(values, "eq", literal) <=> NullComparison("eq", TRUE, IsNull(literal))
        BY <2>2, <3>1, <3>2, Zenon DEF CompareFieldValues
      <4>2. NullComparison("eq", TRUE, TRUE)
        BY DEF NullComparison
      <4> QED
        BY <2>0, <3>1, <3>2, <4>1, <4>2
    <3>3. CASE ~IsNull(values[1])
      <4>1. CompareFieldValues(values, "eq", literal) <=> CompareScalar(values[1], "eq", literal)
        BY <2>2, <3>1, <3>3, Zenon DEF CompareFieldValues
      <4>2. CompareScalar(values[1], "eq", literal) <=> NullComparison("eq", FALSE, TRUE)
        <5>1. ~IsStr(literal) /\ ~IsNum(literal) /\ ~IsBool(literal)
          BY <1>2, LiteralHasOneKind, KindsExclude
        <5> QED
          BY <1>2, <5>1, Zenon DEF CompareScalar
      <4>3. ~NullComparison("eq", FALSE, TRUE)
        BY DEF NullComparison
      <4> QED
        BY <2>0, <3>1, <3>3, <4>1, <4>2, <4>3
    <3> QED
      BY <3>2, <3>3
  <2>3. CASE values # <<>> /\ ~(Len(values) = 1 /\ ~IsArr(values[1]))
    <3>1. Len(values) > 1 \/ IsArr(values[1])
      <4>1. Len(values) \in Nat /\ Len(values) # 0
        BY <2>3
      <4>2. \A n \in Nat : n # 0 /\ n # 1 => n > 1
        OBVIOUS
      <4> QED
        BY <2>3, <4>1, <4>2, Zenon
    <3>2. CompareFieldValues(values, "eq", literal)
            <=> CompareItems(ToSet(FlattenValues(values)), "eq", literal)
      BY <2>3, <3>1 DEF CompareFieldValues
    <3>3. CompareItems(ToSet(FlattenValues(values)), "eq", literal)
            <=> NullComparison("eq", \E item \in ToSet(FlattenValues(values)) : IsNull(item), TRUE)
      BY <1>2, Zenon DEF CompareItems
    <3>4. NullComparison("eq", \E item \in ToSet(FlattenValues(values)) : IsNull(item), TRUE)
            <=> \E item \in ToSet(FlattenValues(values)) : IsNull(item)
      BY DEF NullComparison
    <3> QED
      BY <2>0, <2>3, <3>2, <3>3, <3>4
  <2>4. values = <<>> \/ (Len(values) = 1 /\ ~IsArr(values[1]))
          \/ (values # <<>> /\ ~(Len(values) = 1 /\ ~IsArr(values[1])))
    OBVIOUS
  <2> QED
    BY <2>1, <2>2, <2>3, <2>4
<1> QED
  BY <1>1, <1>2

\* What a filter says is what its kind of expression says.
LEMMA LeavesSay ==
    ASSUME NEW expr, NEW fields
    PROVE  /\ expr.kind = "Compare" =>
                (LeafMatches(expr, fields)
                   <=> CompareFieldValues(ResolveFieldPath(fields, expr.field), expr.op, expr.value))
           /\ expr.kind = "In" =>
                (LeafMatches(expr, fields) <=> InList(ResolveFieldPath(fields, expr.field), expr.values))
           /\ expr.kind = "Any" =>
                (LeafMatches(expr, fields)
                   <=> \E element \in Elements(ResolveFieldPath(fields, expr.field)) :
                         ElementMatches(expr.inner, element))
           /\ expr.kind = "All" =>
                (LeafMatches(expr, fields)
                   <=> /\ ResolveFieldPath(fields, expr.field) # <<>>
                       /\ \A element \in Elements(ResolveFieldPath(fields, expr.field)) :
                            ElementMatches(expr.inner, element))
           /\ expr.kind = "IsEmpty" =>
                (LeafMatches(expr, fields)
                   <=> \A item \in ToSet(FlattenValues(ResolveFieldPath(fields, expr.field))) :
                         IsNull(item) \/ item = Str(<<>>))
           /\ expr.kind = "IsNull" =>
                (LeafMatches(expr, fields)
                   <=> \/ ResolveFieldPath(fields, expr.field) = <<>>
                       \/ \E item \in ToSet(FlattenValues(ResolveFieldPath(fields, expr.field))) : IsNull(item))
BY DEF LeafMatches

LEMMA ComparisonSays ==
    ASSUME NEW path, NEW op, NEW literal
    PROVE  Says(Comparison(path, op, literal)) <=> CompareFieldValues(ValuesOf(path), op, literal)
<1>1. LET c == Comparison(path, op, literal)
      IN  c.kind = "Compare" /\ c.field = path /\ c.op = op /\ c.value = literal
  BY DEF Comparison
<1> QED
  BY <1>1, LeavesSay DEF Says, ValuesOf

\* What is known of a filter that is looked at.
LEMMA FilterIs ==
    ASSUME CaseInv, FilterFits, case.family = "filter"
    PROVE  /\ WellMade(Expr)
           /\ Expr.kind \notin {"And", "Or", "Not"} => ValidLeaf(Expr, Definition)
           /\ \A path \in FieldPaths : ValuesOf(path) \in Seq(Json)
           /\ \A path \in FieldPaths : LeadsToField(Definition, path) =>
                ValuesFit(Definition, Fields, path)
<1>1. /\ case.definition \in Definitions
      /\ case.expr \in Expressions(case.definition) /\ Allows(case.expr, case.definition)
      /\ \A name \in DOMAIN case.fields : case.fields[name] \in Json
  BY DEF CaseInv, FilterMade
<1>2. WellMade(Expr) /\ (Expr.kind \notin {"And", "Or", "Not"} => ValidLeaf(Expr, Definition))
  BY <1>1, ExpressionsAssumption DEF Expr, Definition
<1>3. ASSUME NEW path \in FieldPaths PROVE ValuesOf(path) \in Seq(Json)
  BY <1>1, ResolvedAreJson DEF ValuesOf, Fields
<1>4. \A path \in FieldPaths : LeadsToField(Definition, path) => ValuesFit(Definition, Fields, path)
  BY DEF FilterFits, Definition, Fields
<1> QED
  BY <1>2, <1>3, <1>4

\* The shorthands of a filter say what the comparisons they stand for say.
THEOREM ShorthandsAgreeAlways == QuerySpec => []ShorthandsAgree
<1>1. ASSUME CaseInv, FilterFits, IsFilter({"In"}) PROVE IsDisjunction(Expr)
  <2>1. Expr.kind = "In" /\ case.family = "filter"
    BY <1>1 DEF IsFilter
  <2>2. Expr.field \in FieldPaths /\ Expr.values \in Seq(LiteralValues)
        /\ ValuesOf(Expr.field) \in Seq(Json)
    BY <1>1, <2>1, FilterIs DEF WellMade
  <2>3. \A v \in ToSet(Expr.values) : v \in LiteralValues
    BY <2>2 DEF ToSet
  <2>4. \A v \in ToSet(Expr.values) :
          Says(Comparison(Expr.field, "eq", v)) <=>
             \/ \E item \in ToSet(FlattenValues(ValuesOf(Expr.field))) : ValuesEqual(item, v)
             \/ ValuesOf(Expr.field) = <<>> /\ IsNull(v)
    BY <2>2, <2>3, ComparisonSays, ValuesAreEqual
  <2>5. Says(Expr) <=> InList(ValuesOf(Expr.field), Expr.values)
    BY <2>1, LeavesSay DEF Says, ValuesOf
  <2> QED
    BY <2>4, <2>5 DEF IsDisjunction, InList, InListOfPresent
<1>2. ASSUME CaseInv, FilterFits, IsFilter({"IsNull"}) PROVE IsNullTest(Expr)
  <2> DEFINE values == ValuesOf(Expr.field)
  <2>1. Expr.kind = "IsNull" /\ case.family = "filter"
    BY <1>2 DEF IsFilter
  <2>2. Expr.field \in FieldPaths /\ values \in Seq(Json) /\ ValidLeaf(Expr, Definition)
    BY <1>2, <2>1, FilterIs DEF WellMade
  <2>3. Says(Expr) <=> values = <<>> \/ \E item \in ToSet(FlattenValues(values)) : IsNull(item)
    BY <2>1, LeavesSay DEF Says, ValuesOf
  <2>4. Says(Comparison(Expr.field, "eq", Null)) <=>
          values = <<>> \/ \E item \in ToSet(FlattenValues(values)) : IsNull(item)
    <3>1. Null \in LiteralValues /\ IsNull(Null)
      BY DEF LiteralValues, Null, IsNull, IsKind
    <3>2. Says(Comparison(Expr.field, "eq", Null)) <=> CompareFieldValues(values, "eq", Null)
      BY ComparisonSays
    <3>3. \A item : ValuesEqual(item, Null) <=> IsNull(item)
      BY <3>1 DEF ValuesEqual
    <3> QED
      BY <2>2, <3>1, <3>2, <3>3, ValuesAreEqual
  <2>5. ASSUME Says(Expr), LeadsToField(Definition, Expr.field), CollectionsOn(Definition, Expr.field) = {}
        PROVE  Says([kind |-> "IsEmpty", field |-> Expr.field])
    <3>2. values = <<>> \/ (Len(values) = 1 /\ ~IsArr(values[1]))
      <4>1. ValuesFit(Definition, Fields, Expr.field)
        BY <1>2, <2>1, <2>2, <2>5, FilterIs
      <4>2. Len(values) <= 1 /\ \A value \in ToSet(values) : ~IsArr(value)
        BY <2>5, <4>1 DEF ValuesFit, ValuesOf
      <4>3. CASE Len(values) = 1
        <5>1. values[1] \in ToSet(values)
          BY <2>2, <4>3 DEF ToSet
        <5> QED
          BY <4>2, <4>3, <5>1
      <4>4. CASE Len(values) # 1
        <5>1. Len(values) = 0
          <6>1. Len(values) \in Nat
            BY <2>2
          <6> HIDE DEF values
          <6> QED
            BY <4>2, <4>4, <6>1
        <5> QED
          BY <2>2, <5>1
      <4> QED
        BY <4>3, <4>4
    <3>3. \A item \in ToSet(FlattenValues(values)) : IsNull(item)
      <4>1. CASE values = <<>>
        <5>1. FlattenValues(values) = <<>>
          BY <2>2, <4>1, FlattenedAre
        <5>2. ToSet(FlattenValues(values)) = {}
          BY <5>1 DEF ToSet
        <5> QED
          BY <5>2
      <4>2. CASE Len(values) = 1 /\ ~IsArr(values[1])
        <5>1. ToSet(FlattenValues(values)) = {values[1]} /\ values # <<>>
          BY <2>2, <4>2, FlattenedAre
        <5> QED
          BY <2>3, <2>5, <5>1
      <4> QED
        BY <3>2, <4>1, <4>2
    <3>4. LET e == [kind |-> "IsEmpty", field |-> Expr.field] IN e.kind = "IsEmpty" /\ e.field = Expr.field
      OBVIOUS
    <3> QED
      BY <3>3, <3>4, LeavesSay DEF Says, ValuesOf
  <2> QED
    BY <2>3, <2>4, <2>5 DEF IsNullTest
<1>3. CaseInv /\ FilterFits => ShorthandsAgree
  BY <1>1, <1>2 DEF ShorthandsAgree
<1> QED
  BY <1>3, CasesAreMade, FilteredDocumentsFit, PTL

\* Values a path leads to are compared with a literal of the field's type as
\* values of one kind.
LEMMA ValuesAreAlike ==
    ASSUME NEW path \in FieldPaths, NEW literal \in LiteralValues, LiteralFits(path, literal),
           ValuesOf(path) \in Seq(Json), ValuesFit(Definition, Fields, path)
    PROVE  ~IsNull(literal) /\ \A e \in Elements(ValuesOf(path)) : Alike(e, literal)
<1> DEFINE field == FieldPath(Definition, path)[1]
<1>1. /\ ~IsNull(literal) /\ ~IsVectorField(field)
      /\ field.type.elem \notin {"Half", "GeographyPoint"} /\ KindFits(field.type.elem, literal)
  BY DEF LiteralFits
<1>2. ASSUME NEW e \in Elements(ValuesOf(path)) PROVE Alike(e, literal)
  <2>1. e \in Json
    BY ElementsAreJson
  <2>2. KindFits(field.type.elem, e)
    BY <1>1 DEF ValuesFit, ValuesOf
  <2> HIDE DEF field
  <2> QED
    BY <1>1, <2>1, <2>2, FittingAreAlike
<1> QED
  BY <1>1, <1>2

\* The six operators divide the values of a field among them.
THEOREM OperatorsPartitionAlways == QuerySpec => []OperatorsPartition
<1>1. ASSUME CaseInv, FilterFits, IsFilter({"Compare"}), LiteralFits(Expr.field, Expr.value),
             NEW holding, holding = {op \in Ops : Says(Comparison(Expr.field, op, Expr.value))}
      PROVE  /\ "ne" \in holding <=> "eq" \notin holding
             /\ Expr.op \in OrderingOps =>
                  /\ "le" \in holding <=> {"lt", "eq"} \cap holding # {}
                  /\ "ge" \in holding <=> {"gt", "eq"} \cap holding # {}
                  /\ Len(ValuesOf(Expr.field)) = 1 /\ ~IsArr(ValuesOf(Expr.field)[1]) =>
                       Cardinality({"lt", "eq", "gt"} \cap holding) = 1
  <2> DEFINE values  == ValuesOf(Expr.field)
             True(op) == CompareFieldValues(values, op, Expr.value)
  <2>1. Expr.kind = "Compare" /\ case.family = "filter"
    BY <1>1 DEF IsFilter
  <2>2. /\ Expr.field \in FieldPaths /\ Expr.value \in LiteralValues
        /\ values \in Seq(Json) /\ ValidLeaf(Expr, Definition)
    BY <1>1, <2>1, FilterIs DEF WellMade
  <2>3. ValuesFit(Definition, Fields, Expr.field)
    BY <1>1, <2>1, <2>2, FilterIs DEF LiteralFits
  <2>4. ~IsNull(Expr.value) /\ \A e \in Elements(values) : Alike(e, Expr.value)
    BY <1>1, <2>2, <2>3, ValuesAreAlike
  <2>5. \A op \in Ops : op \in holding <=> True(op)
    BY <1>1, ComparisonSays
  <2>6. Expr.op \in OrderingOps => ~IsBool(Expr.value)
    BY <2>1, <2>2 DEF ValidLeaf, ValidCompare
  <2>7. /\ "eq" \in holding <=> True("eq")
        /\ "ne" \in holding <=> True("ne")
        /\ "lt" \in holding <=> True("lt")
        /\ "le" \in holding <=> True("le")
        /\ "gt" \in holding <=> True("gt")
        /\ "ge" \in holding <=> True("ge")
    BY <2>5 DEF Ops
  <2>8. /\ True("ne") <=> ~True("eq")
        /\ ~IsBool(Expr.value) =>
             /\ True("le") <=> True("lt") \/ True("eq")
             /\ True("ge") <=> True("gt") \/ True("eq")
             /\ Len(values) = 1 /\ ~IsArr(values[1]) =>
                  /\ True("ge") <=> ~True("lt")
                  /\ True("gt") <=> ~True("le")
                  /\ ~(True("lt") /\ True("eq"))
    BY <2>2, <2>4, ValuesPartition
  <2> HIDE DEF values, True
  <2>9. ASSUME Expr.op \in OrderingOps, Len(values) = 1, ~IsArr(values[1])
        PROVE  Cardinality({"lt", "eq", "gt"} \cap holding) = 1
    <3>1. \/ "lt" \in holding /\ "eq" \notin holding /\ "gt" \notin holding
          \/ "lt" \notin holding /\ "eq" \in holding /\ "gt" \notin holding
          \/ "lt" \notin holding /\ "eq" \notin holding /\ "gt" \in holding
      BY <2>6, <2>7, <2>8, <2>9
    <3>2. PICK op \in Ops : {"lt", "eq", "gt"} \cap holding = {op}
      BY <3>1 DEF Ops
    <3> QED
      BY <3>2, FS_Singleton
  <2>10. ASSUME Expr.op \in OrderingOps
         PROVE  /\ "le" \in holding <=> {"lt", "eq"} \cap holding # {}
                /\ "ge" \in holding <=> {"gt", "eq"} \cap holding # {}
    BY <2>6, <2>7, <2>8, <2>10
  <2> QED
    BY <2>7, <2>8, <2>9, <2>10 DEF values
<1>2. CaseInv /\ FilterFits => OperatorsPartition
  BY <1>1 DEF OperatorsPartition
<1> QED
  BY <1>2, CasesAreMade, FilteredDocumentsFit, PTL

\* The way to p \o q goes through what p leads to.
LEMMA DescentThrough ==
    ASSUME NEW S, NEW p \in Seq(S), p # <<>>, NEW q \in Seq(S),
           NEW fields, Head(p) \in DOMAIN fields, \A name \in DOMAIN fields : fields[name] \in Json
    PROVE  \E n \in Nat : \E b, path, h :
             /\ Leads(h, n + Len(q), Seq(Json), b, path)
             /\ \A i \in 1..Len(q) : path[n + i] = q[i]
             /\ ResolveFieldPath(fields, p) = h[n]
             /\ ResolveFieldPath(fields, p \o q) = h[n + Len(q)]
<1> DEFINE b    == <<fields[Head(p)]>>
           n    == Len(Tail(p))
           m    == Len(q)
           path == Tail(p \o q)
           V    == Seq(Json)
<1>2. /\ Head(p \o q) = Head(p) /\ Tail(p) \in Seq(S) /\ path \in Seq(S) /\ Len(path) = n + m
      /\ \A i \in 1..n : Tail(p)[i] = path[i]
      /\ \A i \in 1..m : path[n + i] = q[i]
  <2>1. Head(p \o q) = Head(p) /\ Tail(p) \in Seq(S) /\ path \in Seq(S)
    BY TailOfPath
  <2>2. Len(path) = n + m
    BY TailOfPath
  <2>3. \A i \in 1..n : Tail(p)[i] = path[i]
    BY TailOfPath
  <2>4. \A i \in 1..m : path[n + i] = q[i]
    BY TailOfPath
  <2> QED
    BY <2>1, <2>2, <2>3, <2>4
<1>3. n \in Nat /\ m \in Nat
  BY <1>2
<1>4. b \in Seq(Json)
  OBVIOUS
<1>5. /\ ResolveFieldPath(fields, p) = FoldLeft(Descend, b, Tail(p))
      /\ ResolveFieldPath(fields, p \o q) = FoldLeft(Descend, b, path)
  <2>1. ResolveFieldPath(fields, p) = FoldLeft(Descend, b, Tail(p))
    BY Zenon DEF ResolveFieldPath
  <2>2. ResolveFieldPath(fields, p \o q) = FoldLeft(Descend, <<fields[Head(p \o q)]>>, path)
    BY <1>2, Zenon DEF ResolveFieldPath
  <2> QED
    BY <1>2, <2>1, <2>2
<1> HIDE DEF b, path, n, m
<1>6. PICK g : Leads(g, n, Seq(Json), b, Tail(p)) /\ FoldLeft(Descend, b, Tail(p)) = g[n]
  BY <1>2, <1>4, DescentExists DEF n
<1>7. PICK h : Leads(h, n + m, Seq(Json), b, path) /\ FoldLeft(Descend, b, path) = h[n + m]
  <2>1. \E h : Leads(h, Len(path), Seq(Json), b, path) /\ FoldLeft(Descend, b, path) = h[Len(path)]
    BY <1>2, <1>4, DescentExists
  <2> QED
    BY <1>2, <2>1
<1>8. g[n] = h[n]
  <2> DEFINE N    == n + m
             tail == Tail(p)
  <2>1. n \in Nat /\ N \in Nat /\ n <= N
    BY <1>3
  <2>2. Leads(g, n, V, b, tail) /\ Leads(h, N, V, b, path)
    BY <1>6, <1>7
  <2>3. \A i \in 1..n : tail[i] = path[i]
    BY <1>2
  <2> HIDE DEF N, tail, V
  <2> QED
    BY <2>1, <2>2, <2>3, SameDescent
<1>9. /\ Leads(h, n + m, Seq(Json), b, path)
      /\ \A i \in 1..m : path[n + i] = q[i]
      /\ ResolveFieldPath(fields, p) = h[n]
      /\ ResolveFieldPath(fields, p \o q) = h[n + m]
  BY <1>2, <1>5, <1>6, <1>7, <1>8
<1> QED
  BY <1>3, <1>9 DEF m

\* A path that the document's fields do not have the first name of leads to
\* nothing, however it goes on.
LEMMA NothingThrough ==
    ASSUME NEW S, NEW p \in Seq(S), p # <<>>, NEW q \in Seq(S), NEW fields, Head(p) \notin DOMAIN fields
    PROVE  /\ Elements(ResolveFieldPath(fields, p)) = {}
           /\ ToSet(ResolveFieldPath(fields, p \o q)) = {}
<1>1. Head(p \o q) = Head(p)
  BY TailOfPath
<1>2. ResolveFieldPath(fields, p) = <<>> /\ ResolveFieldPath(fields, p \o q) = <<>>
  BY <1>1, Zenon DEF ResolveFieldPath
<1>3. ToSet(<<>>) = {}
  BY DEF ToSet
<1> QED
  BY <1>2, <1>3, ElementsAre

\* The values the names of q lead to from a value that is no array.
LEMMA DescentFromElement ==
    ASSUME NEW e \in Json, ~IsArr(e), NEW S, NEW q \in Seq(S), q # <<>>
    PROVE  \E k : /\ Leads(k, Len(q), Seq(Json), <<e>>, q)
                  /\ ResolveInElement(e, q) = k[Len(q)] /\ k[Len(q)] \in Seq(Json)
                  /\ \A x : x \in ToSet(k[1]) <=> x \in ToSet(Member(e, q[1]))
<1>1. <<e>> \in Seq(Json) /\ Len(q) \in Nat \ {0}
  OBVIOUS
<1>2. PICK k : Leads(k, Len(q), Seq(Json), <<e>>, q) /\ FoldLeft(Descend, <<e>>, q) = k[Len(q)]
  BY <1>1, DescentExists
<1>3. ResolveInElement(e, q) = k[Len(q)]
  BY <1>2, Zenon DEF ResolveInElement
<1>4. k[1] = Descend(<<e>>, q[1]) /\ k[Len(q)] \in Seq(Json)
  <2>1. /\ k \in [0..Len(q) -> Seq(Json)] /\ k[0] = <<e>>
        /\ \A i \in 1..Len(q) : k[i] = Descend(k[i - 1], q[i])
    BY <1>2 DEF Leads
  <2>2. 1 \in 1..Len(q) /\ 1 - 1 = 0 /\ Len(q) \in 0..Len(q)
    BY <1>1
  <2> QED
    BY <2>1, <2>2
<1>5. \A x : x \in Elements(<<e>>) <=> x = e
  <2>1. ToSet(<<e>>) = {e}
    BY DEF ToSet
  <2> QED
    BY <2>1, ElementsAre DEF ElementsOf
<1>6. \A x : x \in ToSet(k[1]) <=> x \in ToSet(Member(e, q[1]))
  <2>1. \A x : x \in ToSet(Descend(<<e>>, q[1])) <=>
                  \E s \in Elements(<<e>>) : x \in ToSet(Member(s, q[1]))
    BY <1>1, DescendIs
  <2>2. \A x : (\E s \in Elements(<<e>>) : x \in ToSet(Member(s, q[1]))) <=> x \in ToSet(Member(e, q[1]))
    BY <1>5, Zenon
  <2> QED
    BY <1>4, <2>1, <2>2
<1> QED
  BY <1>2, <1>3, <1>4, <1>6

\* What a lambda's body compares in an object that the lambda ranges over is
\* among what its whole path leads to.
LEMMA ComparedAreOnThePath ==
    ASSUME NEW S, NEW p \in Seq(S), p # <<>>, NEW q \in Seq(S), q # <<>>,
           NEW fields, \A name \in DOMAIN fields : fields[name] \in Json,
           NEW e \in Elements(ResolveFieldPath(fields, p)), ~IsArr(e)
    PROVE  /\ ResolveInElement(e, q) \in Seq(Json)
           /\ ToSet(ResolveInElement(e, q)) \subseteq ToSet(ResolveFieldPath(fields, p \o q))
<1> DEFINE m == Len(q)
<1>1. Head(p) \in DOMAIN fields
  BY NothingThrough
<1>2. m \in Nat \ {0}
  OBVIOUS
<1>3. PICK n \in Nat : \E b, path, h :
        /\ Leads(h, n + m, Seq(Json), b, path)
        /\ \A i \in 1..m : path[n + i] = q[i]
        /\ ResolveFieldPath(fields, p) = h[n]
        /\ ResolveFieldPath(fields, p \o q) = h[n + m]
  BY <1>1, DescentThrough
<1>4. PICK b, path, h :
        /\ Leads(h, n + m, Seq(Json), b, path)
        /\ \A i \in 1..m : path[n + i] = q[i]
        /\ ResolveFieldPath(fields, p) = h[n]
        /\ ResolveFieldPath(fields, p \o q) = h[n + m]
  BY <1>3
<1> HIDE DEF m
<1>5. h[n] \in Seq(Json) /\ h[n + 1] = Descend(h[n], path[n + 1])
  <2>1. /\ h \in [0..n + m -> Seq(Json)]
        /\ \A i \in 1..n + m : h[i] = Descend(h[i - 1], path[i])
    BY <1>4 DEF Leads
  <2>2. n \in 0..n + m /\ n + 1 \in 1..n + m /\ (n + 1) - 1 = n
    BY <1>2
  <2> QED
    BY <2>1, <2>2
<1>6. e \in Elements(h[n]) /\ e \in Json
  BY <1>4, <1>5, ElementsAreJson
<1>7. PICK k : /\ Leads(k, m, Seq(Json), <<e>>, q)
               /\ ResolveInElement(e, q) = k[m] /\ k[m] \in Seq(Json)
               /\ \A x : x \in ToSet(k[1]) <=> x \in ToSet(Member(e, q[1]))
  BY <1>6, DescentFromElement DEF m
<1>8. ToSet(k[1]) \subseteq ToSet(h[n + 1])
  <2>1. path[n + 1] = q[1]
    BY <1>2, <1>4
  <2> QED
    BY <1>5, <1>6, <1>7, <2>1, DescendIs
<1>9. ToSet(k[m]) \subseteq ToSet(h[n + m])
  <2>1. n + m \in Nat /\ n + m <= n + m
    BY <1>2
  <2>2. \A i \in 1..m : path[n + i] = q[i]
    BY <1>4
  <2> QED
    BY <1>2, <1>4, <1>7, <1>8, <2>1, <2>2, FewerLeadToFewer
<1> QED
  BY <1>4, <1>7, <1>9

\* And the whole path leads to nothing else, when the lambda ranges over
\* objects.
LEMMA PathGoesThroughElements ==
    ASSUME NEW S, NEW p \in Seq(S), p # <<>>, NEW q \in Seq(S), q # <<>>,
           NEW fields, \A name \in DOMAIN fields : fields[name] \in Json,
           \A e \in Elements(ResolveFieldPath(fields, p)) : ~IsArr(e),
           NEW x \in ToSet(ResolveFieldPath(fields, p \o q))
    PROVE  \E e \in Elements(ResolveFieldPath(fields, p)) : x \in ToSet(ResolveInElement(e, q))
<1> DEFINE m     == Len(q)
           over  == Elements(ResolveFieldPath(fields, p))
           From(e, k) == /\ Leads(k, m, Seq(Json), <<e>>, q)
                         /\ ResolveInElement(e, q) = k[m]
                         /\ \A y : y \in ToSet(k[1]) <=> y \in ToSet(Member(e, q[1]))
           K(e) == CHOOSE k : From(e, k)
<1>1. Head(p) \in DOMAIN fields
  BY NothingThrough
<1>2. m \in Nat \ {0}
  OBVIOUS
<1>3. PICK n \in Nat : \E b, path, h :
        /\ Leads(h, n + m, Seq(Json), b, path)
        /\ \A i \in 1..m : path[n + i] = q[i]
        /\ ResolveFieldPath(fields, p) = h[n]
        /\ ResolveFieldPath(fields, p \o q) = h[n + m]
  BY <1>1, DescentThrough
<1>4. PICK b, path, h :
        /\ Leads(h, n + m, Seq(Json), b, path)
        /\ \A i \in 1..m : path[n + i] = q[i]
        /\ ResolveFieldPath(fields, p) = h[n]
        /\ ResolveFieldPath(fields, p \o q) = h[n + m]
  BY <1>3
<1>5. /\ h \in [0..n + m -> Seq(Json)]
      /\ \A i \in 1..n + m : h[i] = Descend(h[i - 1], path[i])
  BY <1>4 DEF Leads
<1>6. h[n] \in Seq(Json) /\ over = Elements(h[n])
  <2>1. n \in 0..n + m
    BY <1>2
  <2> QED
    BY <1>4, <1>5, <2>1
<1>7. ASSUME NEW e \in over PROVE From(e, K(e))
  <2>1. e \in Json /\ ~IsArr(e)
    BY <1>6, ElementsAreJson
  <2>2. \E k : From(e, k)
    BY <2>1, DescentFromElement
  <2> HIDE DEF From
  <2> QED
    BY <2>2
<1> DEFINE Reached(i) == \A y \in ToSet(h[n + i]) : \E e \in over : y \in ToSet(K(e)[i])
           bad        == {i \in 0..m : i # 0 /\ ~Reached(i)}
<1> HIDE DEF K, over, m
<1>8. Reached(1)
  <2>1. h[n + 1] = Descend(h[n], q[1])
    <3>1. n + 1 \in 1..n + m /\ (n + 1) - 1 = n /\ 1 \in 1..m
      BY <1>2
    <3> QED
      BY <1>4, <1>5, <3>1
  <2>2. ASSUME NEW y \in ToSet(h[n + 1]) PROVE \E e \in over : y \in ToSet(K(e)[1])
    <3>1. PICK e \in over : y \in ToSet(Member(e, q[1]))
      BY <1>6, <2>1, <2>2, DescendIs
    <3> QED
      BY <1>7, <3>1
  <2> QED
    BY <2>2
<1>9. ASSUME NEW i \in 1..m, i - 1 \in 1..m, Reached(i - 1) PROVE Reached(i)
  <2>1. /\ h[n + i] = Descend(h[n + (i - 1)], q[i]) /\ h[n + (i - 1)] \in Seq(Json)
    <3>1. n + i \in 1..n + m /\ (n + i) - 1 = n + (i - 1) /\ n + (i - 1) \in 0..n + m
      BY <1>2, <1>9
    <3> QED
      BY <1>4, <1>5, <3>1
  <2>2. ASSUME NEW y \in ToSet(h[n + i]) PROVE \E e \in over : y \in ToSet(K(e)[i])
    <3>1. PICK s \in Elements(h[n + (i - 1)]) : y \in ToSet(Member(s, q[i]))
      BY <2>1, <2>2, DescendIs
    <3>2. PICK v \in ToSet(h[n + (i - 1)]) : s \in ElementsOf(v)
      BY ElementsAre
    <3>3. PICK e \in over : v \in ToSet(K(e)[i - 1])
      BY <1>9, <3>2
    <3>4. s \in Elements(K(e)[i - 1])
      BY <3>2, <3>3, ElementsAre
    <3>5. K(e)[i] = Descend(K(e)[i - 1], q[i]) /\ K(e)[i - 1] \in Seq(Json)
      <4>1. /\ K(e) \in [0..m -> Seq(Json)]
            /\ \A j \in 1..m : K(e)[j] = Descend(K(e)[j - 1], q[j])
        BY <1>7 DEF Leads
      <4>2. i - 1 \in 0..m
        BY <1>2
      <4> QED
        BY <4>1, <4>2
    <3>6. y \in ToSet(K(e)[i])
      BY <3>1, <3>4, <3>5, DescendIs
    <3> QED
      BY <3>6
  <2> QED
    BY <2>2
<1>10. ASSUME bad # {} PROVE FALSE
  <2>1. PICK i \in bad : \A j \in bad : i <= j
    <3>1. bad \subseteq 0..m
      OBVIOUS
    <3> HIDE DEF bad
    <3> QED
      BY <1>2, <1>10, <3>1, LeastExists
  <2>2. i \in 0..m /\ i # 0 /\ ~Reached(i)
    OBVIOUS
  <2> HIDE DEF Reached
  <2>3. i # 1
    BY <1>8, <2>2
  <2>4. i \in 1..m /\ i - 1 \in 1..m /\ ~(i <= i - 1) /\ i - 1 \in 0..m /\ i - 1 # 0
    BY <1>2, <2>2, <2>3
  <2>5. i - 1 \notin bad
    <3> HIDE DEF bad
    <3> QED
      BY <2>1, <2>4
  <2>6. Reached(i - 1)
    BY <2>4, <2>5
  <2> QED
    BY <1>9, <2>2, <2>4, <2>6
<1>11. Reached(m)
  <2>1. m \in 0..m /\ m # 0
    BY <1>2
  <2>2. m \notin bad
    <3> HIDE DEF bad
    <3> QED
      BY <1>10
  <2> HIDE DEF Reached
  <2> QED
    BY <2>1, <2>2
<1>12. PICK e \in over : x \in ToSet(K(e)[m])
  BY <1>4, <1>11
<1>13. x \in ToSet(ResolveInElement(e, q))
  BY <1>7, <1>12
<1> QED
  BY <1>12, <1>13 DEF over

LEMMA NegationIs ==
    /\ Negation["eq"] = "ne" /\ Negation["ne"] = "eq"
    /\ Negation["lt"] = "ge" /\ Negation["ge"] = "lt"
    /\ Negation["gt"] = "le" /\ Negation["le"] = "gt"
    /\ \A op \in Ops : Negation[op] \in Ops
    /\ \A op \in Ops : op \in OrderingOps \/ op = "eq" \/ op = "ne"
BY DEF Negation, Ops, OrderingOps

\* Of one value, an operator holds where its negation does not.
LEMMA ScalarsNegate ==
    ASSUME NEW v \in Json, NEW literal \in LiteralValues, Alike(v, literal),
           NEW op \in Ops, op \in OrderingOps => ~IsBool(literal)
    PROVE  CompareScalar(v, op, literal) <=> ~CompareScalar(v, Negation[op], literal)
<1>1. CASE op \in {"eq", "ne"}
  BY <1>1, ScalarsPartition, NegationIs
<1>2. CASE op \in OrderingOps
  <2>1. /\ CompareScalar(v, "ge", literal) <=> ~CompareScalar(v, "lt", literal)
        /\ CompareScalar(v, "gt", literal) <=> ~CompareScalar(v, "le", literal)
    BY <1>2, ScalarsPartition
  <2> QED
    BY <1>2, <2>1, NegationIs DEF OrderingOps
<1> QED
  BY <1>1, <1>2, NegationIs

\* So do eq and ne of any values, the others where there is one.
LEMMA ValuesNegate ==
    ASSUME NEW values \in Seq(Json), NEW literal \in LiteralValues, ~IsNull(literal),
           \A e \in Elements(values) : Alike(e, literal),
           NEW op \in Ops,
           op \in OrderingOps => ~IsBool(literal) /\ Len(values) = 1 /\ ~IsArr(values[1])
    PROVE  CompareFieldValues(values, op, literal) <=> ~CompareFieldValues(values, Negation[op], literal)
<1>1. CASE op \in {"eq", "ne"}
  BY <1>1, ValuesPartition, NegationIs
<1>2. CASE op \in OrderingOps
  <2>1. /\ CompareFieldValues(values, "ge", literal) <=> ~CompareFieldValues(values, "lt", literal)
        /\ CompareFieldValues(values, "gt", literal) <=> ~CompareFieldValues(values, "le", literal)
    BY <1>2, ValuesPartition
  <2> QED
    BY <1>2, <2>1, NegationIs DEF OrderingOps
<1> QED
  BY <1>1, <1>2, NegationIs

LEMMA TailIs ==
    ASSUME NEW S, NEW s \in Seq(S), s # <<>>
    PROVE  /\ Tail(s) \in Seq(S)
           /\ Len(s) = 1 => Tail(s) = <<>>
           /\ Len(s) # 1 => Len(s) > 1 /\ Tail(s) # <<>>
<1>1. Len(s) \in Nat \ {0} /\ Tail(s) \in Seq(S) /\ Len(Tail(s)) = Len(s) - 1
  OBVIOUS
<1>2. \A t \in Seq(S) : t = <<>> <=> Len(t) = 0
  OBVIOUS
<1>3. \A n \in Nat \ {0} : (n = 1 <=> n - 1 = 0) /\ (n # 1 => n > 1)
  OBVIOUS
<1>4. Tail(s) = <<>> <=> Len(s) - 1 = 0
  BY <1>1, <1>2
<1>5. Len(s) = 1 <=> Len(s) - 1 = 0
  BY <1>1, <1>3
<1>6. Len(s) # 1 => Len(s) > 1
  BY <1>1, <1>3
<1> QED
  BY <1>1, <1>4, <1>5, <1>6

LEMMA WiderSequences ==
    ASSUME NEW S, NEW W, S \subseteq W, NEW s \in Seq(S)
    PROVE  s \in Seq(W)
OBVIOUS

\* all and any with the negated operator are opposites.
THEOREM LambdasAreDualAlways == QuerySpec => []LambdasAreDual
<1>1. ASSUME CaseInv, FilterFits, IsFilter({"All"}), ValuesOf(Expr.field) # <<>>,
             LiteralFits(LambdaPath(Expr), Expr.inner.value),
             \A element \in Elements(ValuesOf(Expr.field)) : Comparable(Expr.inner, element)
      PROVE  Says(Expr) <=> ~Says(Opposite(Expr))
  <2> DEFINE values   == ValuesOf(Expr.field)
             inner    == Expr.inner
             negation == Comparison(inner.field, Negation[inner.op], inner.value)
  <2>1. Expr.kind = "All" /\ case.family = "filter"
    BY <1>1 DEF IsFilter
  <2>2. /\ Expr.field \in FieldPaths /\ LambdaPath(Expr) \in FieldPaths
        /\ inner.field \in Seq(STRING) \ {<<>>} /\ inner.op \in Ops /\ inner.value \in LiteralValues
        /\ values \in Seq(Json) /\ ValuesOf(LambdaPath(Expr)) \in Seq(Json)
        /\ ValidLambda(Expr, Definition)
    <3>1. WellMade(Expr) /\ ValidLeaf(Expr, Definition)
      BY <1>1, <2>1, FilterIs
    <3>2. ValidLambda(Expr, Definition)
      BY <2>1, <3>1 DEF ValidLeaf
    <3> QED
      BY <1>1, <2>1, <3>1, <3>2, FilterIs DEF WellMade
  <2>3. inner.kind = "Compare" /\ FieldPath(Definition, Expr.field) # <<>>
    BY <2>2 DEF ValidLambda
  <2>4. \A name \in DOMAIN Fields : Fields[name] \in Json
    BY <1>1, <2>1 DEF CaseInv, FilterMade, Fields
  <2>5. /\ negation.kind = "Compare" /\ negation.field = inner.field
        /\ negation.op = Negation[inner.op] /\ negation.value = inner.value
    BY DEF Comparison
  <2>6. ValuesFit(Definition, Fields, LambdaPath(Expr)) /\ ValuesFit(Definition, Fields, Expr.field)
    <3>1. LeadsToField(Definition, LambdaPath(Expr))
      BY <1>1 DEF LiteralFits
    <3>2. LeadsToField(Definition, Expr.field)
      <4> DEFINE S    == FieldNames \cup STRING
                 p    == Expr.field
                 q    == Tail(inner.field)
                 path == LambdaPath(Expr)
                 n    == Len(p)
      <4>1. p \in Seq(S) /\ p # <<>> /\ q \in Seq(S)
        <5>1. p \in Seq(FieldNames) /\ p # <<>> /\ q \in Seq(STRING)
          BY <2>2, PathIs, TailIs
        <5>2. FieldNames \subseteq S /\ STRING \subseteq S
          OBVIOUS
        <5> HIDE DEF S, q
        <5> QED
          BY <5>1, <5>2, WiderSequences
      <4>2. path = p \o q
        BY DEF LambdaPath
      <4>3. n \in 1..Len(path) /\ SubSeq(path, 1, n) = p
        <5> HIDE DEF S, p, q, path
        <5> QED
          BY <4>1, <4>2, StartIs
      <4>4. Definition \in Definitions
        BY <1>1, <2>1 DEF CaseInv, FilterMade, Definition
      <4>5. path \in FieldPaths /\ LeadsToField(Definition, path)
        BY <2>2, <3>1
      <4> HIDE DEF path, n
      <4>6. LeadsToField(Definition, SubSeq(path, 1, n))
        BY <4>3, <4>4, <4>5, PrefixesLead
      <4> QED
        BY <4>3, <4>6
    <3> QED
      BY <1>1, <2>1, <2>2, <3>1, <3>2, FilterIs
  <2>7. ~IsNull(inner.value) /\ \A e \in Elements(ValuesOf(LambdaPath(Expr))) : Alike(e, inner.value)
    BY <1>1, <2>2, <2>6, ValuesAreAlike
  <2>8. ASSUME NEW e \in Elements(values)
        PROVE  ElementMatches(inner, e) <=> ~ElementMatches(negation, e)
    <3>1. e \in Json
      BY <2>2, ElementsAreJson
    <3>2. CASE Len(inner.field) = 1
      <4>1. LambdaPath(Expr) = Expr.field
        <5>1. Tail(inner.field) = <<>>
          BY <2>2, <3>2, TailIs
        <5>2. Expr.field \o <<>> = Expr.field
          BY <2>2, PathIs
        <5> QED
          BY <5>1, <5>2 DEF LambdaPath
      <4>2. Alike(e, inner.value)
        BY <2>7, <4>1
      <4>3. ~IsNull(e)
        BY <3>1, <4>2, JsonHasOneKind, KindsExclude DEF Alike
      <4>4. inner.op \in OrderingOps => ~IsBool(inner.value)
        BY <1>1 DEF Comparable
      <4>5. CompareScalar(e, inner.op, inner.value) <=> ~CompareScalar(e, Negation[inner.op], inner.value)
        BY <2>2, <3>1, <4>2, <4>4, ScalarsNegate
      <4>6. ~(Len(inner.field) > 1)
        BY <3>2
      <4>7. ElementMatches(inner, e) <=> CompareScalar(e, inner.op, inner.value)
        BY <2>3, <4>3, <4>6 DEF ElementMatches
      <4>8. ElementMatches(negation, e) <=> CompareScalar(e, Negation[inner.op], inner.value)
        <5> HIDE DEF negation
        <5> QED
          BY <2>5, <4>3, <4>6 DEF ElementMatches
      <4> QED
        BY <4>5, <4>7, <4>8
    <3>3. CASE Len(inner.field) # 1
      <4> DEFINE q        == Tail(inner.field)
                 compared == ResolveInElement(e, q)
                 S        == FieldNames \cup STRING
      <4>1. Len(inner.field) > 1 /\ q # <<>> /\ q \in Seq(STRING)
        <5>1. inner.field # <<>> /\ inner.field \in Seq(STRING)
          BY <2>2
        <5> HIDE DEF inner
        <5> QED
          BY <3>3, <5>1, TailIs
      <4>2. IsObj(e)
        <5>1. IsComplexType(FieldPath(Definition, Expr.field)[1])
          BY <2>2, <3>3 DEF ValidLambda
        <5>2. \/ KindFits(FieldPath(Definition, Expr.field)[1].type.elem, e)
              \/ IsVectorField(FieldPath(Definition, Expr.field)[1])
          BY <2>6 DEF ValuesFit, ValuesOf
        <5> HIDE DEF values
        <5> QED
          BY <5>1, <5>2 DEF IsComplexType, KindFits, IsVectorField, IsVectorFieldType
      <4>3. ~IsArr(e)
        BY <3>1, <4>2, JsonHasOneKind, KindsExclude
      <4>4. Expr.field \in Seq(S) /\ Expr.field # <<>> /\ q \in Seq(S)
        <5>1. Expr.field \in Seq(FieldNames) /\ Expr.field # <<>>
          BY <2>2, PathIs
        <5>2. FieldNames \subseteq S /\ STRING \subseteq S
          OBVIOUS
        <5> HIDE DEF S, q
        <5>3. Expr.field \in Seq(S)
          BY <5>1, <5>2, WiderSequences
        <5>4. q \in Seq(S)
          BY <4>1, <5>2, WiderSequences
        <5> QED
          BY <5>1, <5>3, <5>4
      <4>5. compared \in Seq(Json) /\ ToSet(compared) \subseteq ToSet(ValuesOf(LambdaPath(Expr)))
        <5>1. e \in Elements(ResolveFieldPath(Fields, Expr.field))
          BY DEF ValuesOf
        <5>2. compared \in Seq(Json)
              /\ ToSet(compared) \subseteq ToSet(ResolveFieldPath(Fields, Expr.field \o q))
          <6> HIDE DEF S, q
          <6> QED
            BY <2>4, <4>1, <4>3, <4>4, <5>1, ComparedAreOnThePath
        <5> QED
          BY <5>2 DEF LambdaPath, ValuesOf
      <4>6. \A x \in Elements(compared) : Alike(x, inner.value)
        BY <2>7, <4>5, ElementsAre
      <4>7. inner.op \in OrderingOps =>
              ~IsBool(inner.value) /\ Len(compared) = 1 /\ ~IsArr(compared[1])
        BY <1>1, <3>3 DEF Comparable, Compared
      <4>8. CompareFieldValues(compared, inner.op, inner.value)
              <=> ~CompareFieldValues(compared, Negation[inner.op], inner.value)
        <5> HIDE DEF compared
        <5> QED
          BY <2>2, <2>7, <4>5, <4>6, <4>7, ValuesNegate
      <4>9. ElementMatches(inner, e) <=> CompareFieldValues(compared, inner.op, inner.value)
        BY <2>3, <4>1 DEF ElementMatches
      <4>10. ElementMatches(negation, e) <=> CompareFieldValues(compared, Negation[inner.op], inner.value)
        <5> HIDE DEF negation
        <5> QED
          BY <2>5, <4>1 DEF ElementMatches
      <4> QED
        BY <4>8, <4>9, <4>10
    <3> QED
      BY <3>2, <3>3
  <2>9. Says(Expr) <=> \A e \in Elements(values) : ElementMatches(inner, e)
    BY <1>1, <2>1, LeavesSay DEF Says, ValuesOf
  <2>10. Says(Opposite(Expr)) <=> \E e \in Elements(values) : ElementMatches(negation, e)
    <3>1. LET o == Opposite(Expr) IN o.kind = "Any" /\ o.field = Expr.field /\ o.inner = negation
      BY DEF Opposite
    <3> HIDE DEF negation
    <3> QED
      BY <3>1, LeavesSay DEF Says, ValuesOf
  <2> HIDE DEF values, inner, negation
  <2> QED
    BY <2>8, <2>9, <2>10
<1>2. CaseInv /\ FilterFits => LambdasAreDual
  BY <1>1 DEF LambdasAreDual
<1> QED
  BY <1>2, CasesAreMade, FilteredDocumentsFit, PTL

\* A lambda's body names its variable first.
LEMMA BodyIs ==
    ASSUME NEW x, NEW S, NEW q \in Seq(S)
    PROVE  /\ Len(<<x>> \o q) = 1 + Len(q) /\ Tail(<<x>> \o q) = q
           /\ q = <<>> => Len(<<x>> \o q) = 1
           /\ q # <<>> => Len(<<x>> \o q) > 1
<1>1. <<x>> \in Seq(S \cup {x}) /\ q \in Seq(S \cup {x})
  BY WiderSequences
<1>2. Len(<<x>> \o q) = 1 + Len(q) /\ <<x>> \o q \in Seq(S \cup {x})
  BY <1>1
<1>3. Tail(<<x>> \o q) = q
  BY <1>1, <1>2
<1>4. Len(q) \in Nat /\ (q # <<>> => Len(q) # 0) /\ (q = <<>> => Len(q) = 0)
  OBVIOUS
<1> QED
  BY <1>2, <1>3, <1>4

\* A comparison along a path with one collection on it holds when it holds of
\* any element, like the lambda over that collection where it is allowed.
THEOREM DirectPathsAreLambdasAlways == QuerySpec => []DirectPathsAreLambdas
<1>1. ASSUME CaseInv, FilterFits, IsFilter({"Compare"}), Expr.op # "ne", ~IsNull(Expr.value),
             LeadsToField(Definition, Expr.field), NEW n \in 1..Len(Expr.field),
             CollectionsOn(Definition, Expr.field) = {n}
      PROVE  /\ Says(Expr) <=> DirectPathHolds
             /\ ValidLambda(AsLambda(Expr, n), Definition) => (Says(Expr) <=> Says(AsLambda(Expr, n)))
  <2> DEFINE path   == Expr.field
             values == ValuesOf(path)
             p      == SubSeq(path, 1, n)
             q      == SubSeq(path, n + 1, Len(path))
             lambda == AsLambda(Expr, n)
             over   == ValuesOf(p)
  <2>1. Expr.kind = "Compare" /\ case.family = "filter"
    BY <1>1 DEF IsFilter
  <2>2. /\ path \in FieldPaths /\ Expr.op \in Ops /\ Expr.value \in LiteralValues
        /\ values \in Seq(Json) /\ FieldPath(Definition, path) # <<>>
    <3>1. WellMade(Expr) /\ ValidLeaf(Expr, Definition)
      BY <1>1, <2>1, FilterIs
    <3>2. FieldPath(Definition, path) # <<>>
      BY <2>1, <3>1 DEF ValidLeaf, ValidCompare, Filterable
    <3> QED
      BY <1>1, <2>1, <3>1, <3>2, FilterIs DEF WellMade
  <2>3. ValuesFit(Definition, Fields, path)
    BY <1>1, <2>1, <2>2, FilterIs
  <2>4. IF n = Len(path) THEN Len(values) <= 1 ELSE \A value \in ToSet(values) : ~IsArr(value)
    BY <1>1, <2>3 DEF ValuesFit, ValuesOf
  <2>5. \A name \in DOMAIN Fields : Fields[name] \in Json
    BY <1>1, <2>1 DEF CaseInv, FilterMade, Fields
  <2>6. /\ path \in Seq(FieldNames) /\ p \in Seq(FieldNames) /\ p # <<>>
        /\ q \in Seq(FieldNames) /\ path = p \o q
        /\ n = Len(path) => p = path /\ q = <<>>
        /\ n # Len(path) => q # <<>>
    <3>1. path \in Seq(FieldNames)
      BY <2>2, PathIs
    <3>2. p = SubSeq(path, 1, n) /\ q = SubSeq(path, n + 1, Len(path)) /\ n \in 1..Len(path)
      OBVIOUS
    <3> HIDE DEF path, p, q
    <3>3. p \in Seq(FieldNames) /\ p # <<>>
      <4>1. p \in Seq(FieldNames) /\ Len(p) = n /\ n # 0
        BY <3>1, <3>2
      <4> QED
        BY <4>1
    <3>4. q \in Seq(FieldNames) /\ path = p \o q
      BY <3>1, <3>2, PathsSplit
    <3>5. /\ n = Len(path) => p = path /\ q = <<>>
          /\ n # Len(path) => q # <<>>
      BY <3>1, <3>2, PathsSplit
    <3> QED
      BY <3>1, <3>3, <3>4, <3>5
  <2>7. p \in FieldPaths /\ over \in Seq(Json)
    <3>1. p \in FieldPaths
      BY <2>2, PrefixesArePaths
    <3> QED
      BY <1>1, <2>1, <3>1, FilterIs
  <2>8. Says(Expr) <=> \E e \in Elements(values) : CompareScalar(e, Expr.op, Expr.value)
    <3>1. Says(Expr) <=> CompareFieldValues(values, Expr.op, Expr.value)
      BY <2>1, LeavesSay DEF Says, ValuesOf
    <3>2. Len(values) <= 1 \/ \A value \in ToSet(values) : ~IsArr(value)
      BY <2>4
    <3> HIDE DEF values
    <3> QED
      BY <1>1, <2>2, <3>1, <3>2, ElementsCompare
  <2>9. DirectPathHolds <=> \E e \in Elements(values) : CompareScalar(e, Expr.op, Expr.value)
    BY DEF DirectPathHolds, SomeElementHolds
  <2>10. ASSUME ValidLambda(lambda, Definition)
         PROVE  Says(lambda) <=> \E e \in Elements(values) : CompareScalar(e, Expr.op, Expr.value)
    <3> DEFINE inner == lambda.inner
    <3>1. /\ lambda.kind = "Any" /\ lambda.field = p /\ inner.kind = "Compare"
          /\ inner.field = <<"x">> \o q /\ inner.op = Expr.op /\ inner.value = Expr.value
      BY DEF AsLambda, Comparison
    <3> HIDE DEF lambda
    <3>2. Says(lambda) <=> \E e \in Elements(over) : ElementMatches(inner, e)
      BY <3>1, LeavesSay DEF Says, ValuesOf
    <3>3. CASE n = Len(path)
      <4>1. over = values /\ Len(inner.field) = 1
        <5>1. p = path /\ q = <<>> /\ q \in Seq(FieldNames)
          BY <2>6, <3>3
        <5>2. over = values
          BY <5>1
        <5> HIDE DEF q, inner, over, values
        <5>3. Len(<<"x">> \o q) = 1
          BY <5>1, BodyIs
        <5> QED
          BY <3>1, <5>2, <5>3
      <4> HIDE DEF inner
      <4>2. ASSUME NEW e \in Elements(values)
            PROVE  ElementMatches(inner, e) <=> CompareScalar(e, Expr.op, Expr.value)
        <5>0. ~(Len(inner.field) > 1)
          BY <4>1
        <5>1. /\ IsNull(e) => (ElementMatches(inner, e)
                                <=> NullComparison(Expr.op, TRUE, IsNull(Expr.value)))
              /\ ~IsNull(e) => (ElementMatches(inner, e) <=> CompareScalar(e, Expr.op, Expr.value))
          BY <3>1, <5>0, Zenon DEF ElementMatches
        <5>2. ~NullComparison(Expr.op, TRUE, IsNull(Expr.value))
          <6>1. IsNull(Expr.value) = FALSE
            BY <1>1 DEF IsNull, IsKind
          <6>2. Expr.op = "eq" \/ Expr.op \in OrderingOps
            BY <1>1, <2>2 DEF Ops, OrderingOps
          <6> QED
            BY <2>2, <6>1, <6>2, NullIs
        <5>3. IsNull(e) => ~CompareScalar(e, Expr.op, Expr.value)
          BY <1>1, <2>2, ElementsAreJson, NullsSatisfyNothing
        <5> QED
          BY <5>1, <5>2, <5>3
      <4> QED
        BY <3>2, <4>1, <4>2
    <3>4. CASE n # Len(path)
      <4>1. Len(inner.field) > 1 /\ Tail(inner.field) = q /\ q # <<>>
        BY <2>6, <3>1, <3>4, BodyIs
      <4>2. FieldPath(Definition, p) # <<>> /\ IsComplexType(FieldPath(Definition, p)[1])
        BY <2>10, <3>1, <4>1 DEF ValidLambda
      <4>3. ValuesFit(Definition, Fields, p)
        <5>1. Definition \in Definitions
          BY <1>1, <2>1 DEF CaseInv, FilterMade, Definition
        <5>2. LeadsToField(Definition, p)
          BY <1>1, <2>2, <5>1, PrefixesLead
        <5> QED
          BY <1>1, <2>1, <2>7, <5>2, FilterIs
      <4>4. ASSUME NEW e \in Elements(over) PROVE ~IsArr(e)
        <5>1. \/ KindFits(FieldPath(Definition, p)[1].type.elem, e)
              \/ IsVectorField(FieldPath(Definition, p)[1])
          BY <4>3 DEF ValuesFit, ValuesOf
        <5> HIDE DEF p, over
        <5>2. IsObj(e)
          BY <4>2, <5>1 DEF IsComplexType, KindFits, IsVectorField, IsVectorFieldType
        <5>3. e \in Json
          BY <2>7, ElementsAreJson
        <5> QED
          BY <5>2, <5>3, JsonHasOneKind, KindsExclude
      <4>5. over = ResolveFieldPath(Fields, p) /\ values = ResolveFieldPath(Fields, p \o q)
        BY <2>6 DEF ValuesOf
      <4> HIDE DEF p, q, over, values, inner
      <4>6. ASSUME NEW e \in Elements(over)
            PROVE  /\ ResolveInElement(e, q) \in Seq(Json)
                   /\ ToSet(ResolveInElement(e, q)) \subseteq ToSet(values)
        BY <2>5, <2>6, <4>1, <4>4, <4>5, ComparedAreOnThePath
      <4>7. ASSUME NEW x \in ToSet(values)
            PROVE  \E e \in Elements(over) : x \in ToSet(ResolveInElement(e, q))
        BY <2>5, <2>6, <4>1, <4>4, <4>5, PathGoesThroughElements
      <4>8. ASSUME NEW e \in Elements(over)
            PROVE  ElementMatches(inner, e) <=>
                     \E x \in ToSet(ResolveInElement(e, q)) : CompareScalar(x, Expr.op, Expr.value)
        <5>1. ElementMatches(inner, e) <=>
                CompareFieldValues(ResolveInElement(e, q), Expr.op, Expr.value)
          BY <3>1, <4>1 DEF ElementMatches
        <5>2. \A x \in ToSet(ResolveInElement(e, q)) : ~IsArr(x)
          BY <2>4, <3>4, <4>6
        <5>3. \A x : x \in Elements(ResolveInElement(e, q)) <=> x \in ToSet(ResolveInElement(e, q))
          BY <5>2, ElementsAre DEF ElementsOf
        <5>4. CompareFieldValues(ResolveInElement(e, q), Expr.op, Expr.value) <=>
                \E x \in Elements(ResolveInElement(e, q)) : CompareScalar(x, Expr.op, Expr.value)
          BY <1>1, <2>2, <4>6, <5>2, ElementsCompare
        <5> QED
          BY <5>1, <5>3, <5>4
      <4>9. \A x : x \in Elements(values) <=> x \in ToSet(values)
        BY <2>4, <3>4, ElementsAre DEF ElementsOf
      <4> QED
        BY <3>2, <4>6, <4>7, <4>8, <4>9
    <3> QED
      BY <3>3, <3>4
  <2> QED
    BY <2>8, <2>9, <2>10
<1>2. CaseInv /\ FilterFits => DirectPathsAreLambdas
  BY <1>1 DEF DirectPathsAreLambdas
<1> QED
  BY <1>2, CasesAreMade, FilteredDocumentsFit, PTL

-----------------------------------------------------------------------------
(* Dates *)

Leap(year) == IF IsLeapYear(year) THEN 1 ELSE 0

LEMMA YearLengths ==
    ASSUME NEW y \in Int
    PROVE  /\ DaysBeforeYear(y) \in Int /\ Leap(y) \in 0..1
           /\ DaysBeforeYear(y + 1) = DaysBeforeYear(y) + 365 + Leap(y)
BY DEF DaysBeforeYear, Leap, IsLeapYear

LEMMA YearsGrow ==
    ASSUME NEW y \in Int, NEW z \in Int, y <= z
    PROVE  DaysBeforeYear(y) <= DaysBeforeYear(z)
BY DEF DaysBeforeYear

LEMMA MonthLengths ==
    ASSUME NEW y \in Int, NEW m \in 1..12
    PROVE  /\ DaysInMonth(y, m) \in 28..31
           /\ DaysBeforeMonth(y, m) \in Int
           /\ DaysBeforeMonth(y, m + 1) = DaysBeforeMonth(y, m) + DaysInMonth(y, m)
BY DEF DaysBeforeMonth, DaysBefore, DaysInMonth

LEMMA MonthsGrow ==
    ASSUME NEW y \in Int, NEW m \in 1..13, NEW n \in 1..13, m <= n
    PROVE  /\ DaysBeforeMonth(y, m) <= DaysBeforeMonth(y, n)
           /\ 0 <= DaysBeforeMonth(y, m) /\ DaysBeforeMonth(y, m) <= 365 + Leap(y)
           /\ DaysBeforeMonth(y, 1) = 0 /\ DaysBeforeMonth(y, 13) = 365 + Leap(y)
BY DEF DaysBeforeMonth, DaysBefore, Leap

\* The month of a day of a year.
LEMMA MonthOfIs ==
    ASSUME NEW y \in Int, NEW o \in 1..365 + Leap(y)
    PROVE  /\ MonthOf(y, o) \in 1..12
           /\ DaysBeforeMonth(y, MonthOf(y, o)) < o
           /\ o <= DaysBeforeMonth(y, MonthOf(y, o) + 1)
<1>1. \E m \in 1..12 : DaysBeforeMonth(y, m) < o /\ o <= DaysBeforeMonth(y, m + 1)
  BY DEF DaysBeforeMonth, DaysBefore, Leap
<1> QED
  BY <1>1 DEF MonthOf

DayNumbers == DaysBeforeYear(0) + 1 .. DaysBeforeYear(10000)

LEMMA DayNumbersAre ==
    ASSUME NEW N \in DayNumbers
    PROVE  N \in Int /\ DaysBeforeYear(0) < N /\ N <= DaysBeforeYear(10000)
<1>1. DaysBeforeYear(0) \in Int /\ DaysBeforeYear(10000) \in Int
  BY YearLengths
<1> QED
  BY <1>1 DEF DayNumbers

\* The year of a day of the years of at most four digits.
LEMMA YearOfIs ==
    ASSUME NEW N \in DayNumbers
    PROVE  /\ YearOf(N) \in 0..9999
           /\ DaysBeforeYear(YearOf(N)) < N /\ N <= DaysBeforeYear(YearOf(N) + 1)
<1>0. N \in Int /\ DaysBeforeYear(0) < N /\ N <= DaysBeforeYear(10000)
  BY DayNumbersAre
<1> DEFINE past == {y \in 0..10000 : N <= DaysBeforeYear(y)}
<1>1. past \subseteq 0..10000 /\ 10000 \in past
  BY <1>0
<1>2. PICK z \in past : \A y \in past : z <= y
  <2> DEFINE top == 10000
  <2>1. top \in Nat /\ past \subseteq 0..top /\ past # {}
    BY <1>1
  <2> HIDE DEF past, top
  <2> QED
    BY <2>1, LeastExists
<1>3. z \in 0..10000 /\ N <= DaysBeforeYear(z)
  OBVIOUS
<1>4. z # 0
  BY <1>0, <1>3, YearLengths
<1> DEFINE y == z - 1
<1>5. y \in 0..9999 /\ y + 1 = z
  BY <1>3, <1>4
<1>6. DaysBeforeYear(y) < N
  <2>1. y \notin past
    <3> HIDE DEF past
    <3> QED
      BY <1>2, <1>3, <1>5
  <2>2. y \in 0..10000 /\ DaysBeforeYear(y) \in Int
    BY <1>5, YearLengths
  <2>3. ~(N <= DaysBeforeYear(y))
    BY <2>1, <2>2
  <2> QED
    BY <1>0, <2>2, <2>3
<1> HIDE DEF y, past
<1> DEFINE early == IF N < 0 THEN N \div 365 ELSE N \div 366
           late  == IF N < 0 THEN N \div 366 ELSE N \div 365
<1>7. y \in early - 1 .. late + 1 /\ early \in Int /\ late \in Int
  <2>1. N <= DaysBeforeYear(y + 1)
    BY <1>3, <1>5
  <2>2. y \in Nat
    BY <1>5
  <2>3. CASE N < 0
    <3>1. y = 0 /\ -366 < N
      BY <1>0, <1>6, <2>2, <2>3 DEF DaysBeforeYear
    <3>2. N \div 365 \in {-2, -1} /\ N \div 366 = -1
      BY <1>0, <2>3, <3>1
    <3> QED
      BY <2>3, <3>1, <3>2
  <2>4. CASE ~(N < 0)
    <3>1. y \in N \div 366 - 1 .. N \div 365 + 1 /\ N \div 366 \in Int /\ N \div 365 \in Int
      BY <1>0, <1>6, <2>1, <2>2 DEF DaysBeforeYear
    <3> QED
      BY <2>4, <3>1
  <2> QED
    BY <2>3, <2>4
<1> HIDE DEF early, late
<1>8. \E w \in early - 1 .. late + 1 :
        DaysBeforeYear(w) < N /\ N <= DaysBeforeYear(w + 1)
  BY <1>3, <1>5, <1>6, <1>7
<1>9. /\ YearOf(N) \in early - 1 .. late + 1
      /\ DaysBeforeYear(YearOf(N)) < N /\ N <= DaysBeforeYear(YearOf(N) + 1)
  BY <1>8 DEF YearOf, early, late
<1> DEFINE w == YearOf(N)
<1>10. w \in Int
  BY <1>7, <1>9
<1> HIDE DEF w
<1>11. w >= 0
  <2>1. SUFFICES ASSUME w + 1 <= 0 PROVE FALSE
    BY <1>10
  <2>2. DaysBeforeYear(w + 1) <= DaysBeforeYear(0)
    BY <1>10, <2>1, YearsGrow
  <2>3. DaysBeforeYear(w + 1) \in Int /\ DaysBeforeYear(0) \in Int
    BY <1>10, YearLengths
  <2> QED
    BY <1>0, <1>9, <2>2, <2>3 DEF w
<1>12. w <= 9999
  <2>1. SUFFICES ASSUME 10000 <= w PROVE FALSE
    BY <1>10
  <2>2. DaysBeforeYear(10000) <= DaysBeforeYear(w)
    BY <1>10, <2>1, YearsGrow
  <2>3. DaysBeforeYear(w) \in Int /\ DaysBeforeYear(10000) \in Int
    BY <1>10, YearLengths
  <2> QED
    BY <1>0, <1>9, <2>2, <2>3 DEF w
<1>13. w \in 0..9999
  BY <1>10, <1>11, <1>12
<1> QED
  BY <1>9, <1>13 DEF w

\* The moment of a day has the number of the day.
LEMMA MomentAtIs ==
    ASSUME NEW N \in DayNumbers,
           NEW s \in 0..DaySeconds - 1,
           NEW u \in 0..SecondTicks - 1
    PROVE  /\ IsMoment(MomentAt(N, s, u))
           /\ DayNumber(MomentAt(N, s, u)) = N
           /\ MomentAt(N, s, u).second = s /\ MomentAt(N, s, u).tick = u
<1> DEFINE year == YearOf(N)
           ordinal == N - DaysBeforeYear(year)
           month == MonthOf(year, ordinal)
           day == ordinal - DaysBeforeMonth(year, month)
           moment == [year |-> year, month |-> month, day |-> day, second |-> s, tick |-> u]
<1>0. N \in Int
  BY DayNumbersAre
<1>1. MomentAt(N, s, u) = moment
  BY DEF MomentAt, OfYear, InYear, InMonth
<1>2. year \in 0..9999 /\ DaysBeforeYear(year) < N /\ N <= DaysBeforeYear(year + 1)
  BY YearOfIs
<1> HIDE DEF year
<1>3. ordinal \in 1..365 + Leap(year)
  BY <1>0, <1>2, YearLengths
<1> HIDE DEF ordinal
<1>4. month \in 1..12 /\ DaysBeforeMonth(year, month) < ordinal /\ ordinal <= DaysBeforeMonth(year, month + 1)
  BY <1>2, <1>3, MonthOfIs
<1> HIDE DEF month
<1>5. day \in 1..DaysInMonth(year, month) /\ DaysInMonth(year, month) \in 28..31 /\ DaysBeforeMonth(year, month) \in Int
  <2>1. /\ DaysInMonth(year, month) \in 28..31 /\ DaysBeforeMonth(year, month) \in Int
        /\ DaysBeforeMonth(year, month + 1) = DaysBeforeMonth(year, month) + DaysInMonth(year, month)
    <3>1. year \in Int /\ month \in 1..12
      BY <1>2, <1>4
    <3> QED
      BY <3>1, MonthLengths
  <2>2. ordinal \in Int
    BY <1>2, <1>3, YearLengths
  <2> QED
    BY <1>4, <2>1, <2>2
<1>6. IsMoment(moment)
  <2> HIDE DEF day
  <2>1. day \in 1..31 /\ day <= DaysInMonth(year, month)
    BY <1>5
  <2> QED
    BY <1>2, <1>4, <2>1 DEF IsMoment, Years
<1>7. DayNumber(moment) = N
  <2>1. DayNumber(moment) = DaysBeforeYear(year) + (DaysBeforeMonth(year, month) + day)
    BY DEF DayNumber, OrdinalDay
  <2>2. DaysBeforeYear(year) \in Int
    BY <1>2, YearLengths
  <2> QED
    BY <1>0, <1>5, <2>1, <2>2 DEF ordinal
<1> QED
  BY <1>1, <1>6, <1>7

\* A month ends before a later one begins.
LEMMA MonthsFollow ==
    ASSUME NEW y \in Int, NEW m \in 1..12, NEW z \in Int, NEW n \in 1..12,
           y < z \/ (y = z /\ m < n)
    PROVE  DaysBeforeYear(y) + DaysBeforeMonth(y, m) + DaysInMonth(y, m)
             <= DaysBeforeYear(z) + DaysBeforeMonth(z, n)
<1> DEFINE A == DaysBeforeMonth(y, m)
           E == DaysBeforeMonth(y, m + 1)
           C == DaysBeforeMonth(z, n)
           Y == DaysBeforeYear(y)
           Z == DaysBeforeYear(z)
<1>1. E = A + DaysInMonth(y, m) /\ DaysInMonth(y, m) \in Int /\ A \in Int /\ C \in Int
  <2>1. DaysInMonth(y, m) \in 28..31 /\ A \in Int /\ C \in Int /\ E = A + DaysInMonth(y, m)
    BY MonthLengths, Zenon
  <2> QED
    BY <2>1
<1>2. Y \in Int /\ Z \in Int /\ Leap(y) \in 0..1 /\ DaysBeforeYear(y + 1) = Y + 365 + Leap(y)
  BY YearLengths
<1>3. E <= 365 + Leap(y) /\ 0 <= C
  BY MonthsGrow
<1>4. Y + E <= Z + C
  <2>1. CASE y = z
    <3>1. E <= C
      BY <2>1, MonthsGrow
    <3>2. Y = Z
      BY <2>1
    <3> HIDE DEF A, E, C, Y, Z
    <3> QED
      BY <1>1, <1>2, <3>1, <3>2
  <2>2. CASE y < z
    <3>1. DaysBeforeYear(y + 1) <= Z
      BY <2>2, YearsGrow
    <3> HIDE DEF A, E, C, Y, Z
    <3> QED
      BY <1>1, <1>2, <1>3, <3>1
  <2> QED
    BY <2>1, <2>2
<1> HIDE DEF A, C, Y, Z
<1> QED
  BY <1>1, <1>2, <1>4 DEF A, C, Y, Z

\* Days are numbered in the order of their months.
LEMMA LaterMonths ==
    ASSUME NEW a, NEW b, IsMoment(a), IsMoment(b),
           a.year < b.year \/ (a.year = b.year /\ a.month < b.month)
    PROVE  DayNumber(a) < DayNumber(b)
<1> DEFINE ya == a.year
           ma == a.month
           da == a.day
           yb == b.year
           mb == b.month
           db == b.day
<1>1. /\ ya \in 0..9999 /\ ma \in 1..12 /\ da \in 1..31 /\ da <= DaysInMonth(ya, ma)
      /\ yb \in 0..9999 /\ mb \in 1..12 /\ db \in 1..31
  BY DEF IsMoment, Years
<1>2. /\ DayNumber(a) = DaysBeforeYear(ya) + (DaysBeforeMonth(ya, ma) + da)
      /\ DayNumber(b) = DaysBeforeYear(yb) + (DaysBeforeMonth(yb, mb) + db)
  BY DEF DayNumber, OrdinalDay
<1>3. ya < yb \/ (ya = yb /\ ma < mb)
  OBVIOUS
<1> HIDE DEF ya, ma, da, yb, mb, db
<1>4. /\ ya \in Int /\ ma \in 1..12 /\ da \in Int /\ da <= DaysInMonth(ya, ma)
      /\ yb \in Int /\ mb \in 1..12 /\ db \in Int /\ 1 <= db
  BY <1>1
<1>5. DaysBeforeYear(ya) + DaysBeforeMonth(ya, ma) + DaysInMonth(ya, ma)
        <= DaysBeforeYear(yb) + DaysBeforeMonth(yb, mb)
  BY <1>3, <1>4, MonthsFollow
<1>6. /\ DaysBeforeYear(ya) \in Int /\ DaysBeforeYear(yb) \in Int /\ DaysBeforeMonth(ya, ma) \in Int
      /\ DaysBeforeMonth(yb, mb) \in Int /\ DaysInMonth(ya, ma) \in Int
  <2>1. ya \in Int /\ yb \in Int
    BY <1>4
  <2>2. ma \in 1..12 /\ mb \in 1..12
    BY <1>4
  <2>3. DaysBeforeYear(ya) \in Int /\ DaysBeforeYear(yb) \in Int
    BY <2>1, YearLengths
  <2>4. DaysInMonth(ya, ma) \in 28..31 /\ DaysBeforeMonth(ya, ma) \in Int /\ DaysBeforeMonth(yb, mb) \in Int
    BY <2>1, <2>2, MonthLengths
  <2> QED
    BY <2>3, <2>4
<1> QED
  BY <1>2, <1>4, <1>5, <1>6

MonthNumbers == 1..12
SecondsOfDay == 0..DaySeconds - 1
Ticks == 0..SecondTicks - 1

LEMMA MonthsAreNumbers ==
    \A y \in Int : \A m \in MonthNumbers :
      m \in Int /\ DaysInMonth(y, m) \in Int /\ DaysBeforeMonth(y, m) \in Int
BY DEF DaysBeforeMonth, DaysBefore, DaysInMonth, MonthNumbers

MomentOf(y, m, d, s, u) == [year |-> y, month |-> m, day |-> d, second |-> s, tick |-> u]

DayOf(d, y, m) == d \in 1..31 /\ d <= DaysInMonth(y, m)

HasParts(dt, y, m, d, s, u) ==
    /\ dt = MomentOf(y, m, d, s, u)
    /\ y \in Years /\ m \in MonthNumbers /\ DayOf(d, y, m) /\ s \in SecondsOfDay /\ u \in Ticks

LEMMA PartsOfMoment ==
    ASSUME NEW dt, IsMoment(dt)
    PROVE  HasParts(dt, dt.year, dt.month, dt.day, dt.second, dt.tick)
<1>1. /\ dt \in [year : Years, month : MonthNumbers, day : 1..31, second : SecondsOfDay, tick : Ticks]
      /\ dt.day <= DaysInMonth(dt.year, dt.month)
  BY DEF IsMoment, SecondsOfDay, Ticks, MonthNumbers, Years
<1>2. dt = MomentOf(dt.year, dt.month, dt.day, dt.second, dt.tick)
  BY <1>1 DEF MomentOf
<1>3. /\ dt.year \in Years /\ dt.month \in MonthNumbers /\ dt.day \in 1..31 /\ dt.second \in SecondsOfDay
      /\ dt.tick \in Ticks
  BY <1>1
<1> QED
  BY <1>1, <1>2, <1>3 DEF HasParts, DayOf

LEMMA MomentIs ==
    ASSUME NEW y, NEW m, NEW d, NEW s, NEW u
    PROVE  /\ y \in Years /\ m \in MonthNumbers /\ DayOf(d, y, m) /\ s \in SecondsOfDay /\ u \in Ticks =>
                IsMoment(MomentOf(y, m, d, s, u))
           /\ DayNumber(MomentOf(y, m, d, s, u)) = DaysBeforeYear(y) + (DaysBeforeMonth(y, m) + d)
           /\ MomentOf(y, m, d, s, u).year = y /\ MomentOf(y, m, d, s, u).month = m
           /\ MomentOf(y, m, d, s, u).day = d /\ MomentOf(y, m, d, s, u).second = s
           /\ MomentOf(y, m, d, s, u).tick = u
<1>1. /\ MomentOf(y, m, d, s, u).year = y /\ MomentOf(y, m, d, s, u).month = m
      /\ MomentOf(y, m, d, s, u).day = d /\ MomentOf(y, m, d, s, u).second = s
      /\ MomentOf(y, m, d, s, u).tick = u
  BY DEF MomentOf
<1>2. ASSUME y \in Years, m \in MonthNumbers, DayOf(d, y, m), s \in SecondsOfDay, u \in Ticks
      PROVE  IsMoment(MomentOf(y, m, d, s, u))
  <2>1. MomentOf(y, m, d, s, u) \in [year : 0..9999, month : 1..12, day : 1..31,
                                       second : 0..DaySeconds - 1, tick : 0..SecondTicks - 1]
    BY <1>2 DEF MomentOf, Years, MonthNumbers, DayOf, SecondsOfDay, Ticks
  <2>2. d <= DaysInMonth(y, m)
    BY <1>2 DEF DayOf
  <2> QED
    BY <1>1, <2>1, <2>2 DEF IsMoment, Years
<1>3. DayNumber(MomentOf(y, m, d, s, u)) = DaysBeforeYear(y) + (DaysBeforeMonth(y, m) + d)
  BY <1>1 DEF DayNumber, OrdinalDay
<1> QED
  BY <1>1, <1>2, <1>3

LEMMA PartsAreNumbers ==
    ASSUME NEW dt, NEW y, NEW m, NEW d, NEW s, NEW u, HasParts(dt, y, m, d, s, u)
    PROVE  /\ y \in Int /\ m \in Int /\ d \in Int /\ s \in Int /\ u \in Int
           /\ DaysInMonth(y, m) \in Int /\ DayNumber(dt) \in Int
<1>1. y \in Int /\ d \in Int /\ s \in Int /\ u \in Int
  BY DEF HasParts, DayOf, SecondsOfDay, DaySeconds, Years, Ticks, SecondTicks
<1>2. m \in MonthNumbers
  BY DEF HasParts
<1>3. m \in Int /\ DaysInMonth(y, m) \in Int /\ DaysBeforeMonth(y, m) \in Int
  BY <1>1, <1>2, MonthsAreNumbers
<1>4. DaysBeforeYear(y) \in Int
  BY <1>1, YearLengths
<1>5. DayNumber(dt) = DaysBeforeYear(y) + (DaysBeforeMonth(y, m) + d)
  BY MomentIs DEF HasParts
<1> QED
  BY <1>1, <1>3, <1>4, <1>5

LEMMA MomentsAreDates ==
    ASSUME NEW dt, IsMoment(dt)
    PROVE  IsDate(NormalText(dt))
<1>1. PICK y, m, d, s, u : HasParts(dt, y, m, d, s, u)
  BY PartsOfMoment
<1> DEFINE text == <<y, m, d, s, u \div 10>>
<1>2. y \in Int /\ m \in Int /\ d \in Int /\ s \in Int /\ u \in Int /\ DaysInMonth(y, m) \in Int
  BY <1>1, PartsAreNumbers
<1>3. /\ y \in Years /\ m \in MonthNumbers /\ DayOf(d, y, m) /\ s \in SecondsOfDay /\ u \in Ticks
      /\ dt = MomentOf(y, m, d, s, u)
  BY <1>1 DEF HasParts
<1>4. u \div 10 \in 0..999
  BY <1>3 DEF Ticks, SecondTicks
<1>5. NormalText(dt) = text
  <2>1. YearSign(y) = <<>> /\ ~(y < 0)
    BY <1>3 DEF YearSign, Years
  <2>2. text \in Seq(Int) /\ \A t \in Seq(Int) : <<>> \o t = t
    BY <1>2, <1>4
  <2>3. NormalText(dt) = YearSign(y) \o <<IF y < 0 THEN -y ELSE y, m, d, s, u \div 10>>
    BY <1>3, MomentIs DEF NormalText
  <2>4. NormalText(dt) = YearSign(y) \o text
    BY <2>1, <2>3
  <2> HIDE DEF text
  <2> QED
    BY <2>1, <2>2, <2>4
<1>6. Len(text) = 5 /\ text[1] = y /\ text[2] = m /\ text[3] = d /\ text[4] = s /\ text[5] = u \div 10
  OBVIOUS
<1>7. d \in 1..DaysInMonth(y, m)
  BY <1>2, <1>3 DEF DayOf
<1> HIDE DEF text
<1>8. y # PlusSign /\ y # MinusSign
  <2>1. y \in Int /\ 0 <= y
    BY <1>3 DEF Years
  <2> QED
    BY <2>1 DEF PlusSign, MinusSign
<1>9. ~IsSigned(text) /\ Digits(text) = text /\ YearIn(text) = y
  BY <1>6, <1>8 DEF IsSigned, Digits, YearIn
<1>10. IsDate(text)
  <2>1. Len(text) \in 3..6 /\ Len(text) # 6
    BY <1>6
  <2>2. text[1] \in 0..9999
    <3>1. y \in Int /\ 0 <= y /\ y <= 9999
      BY <1>3 DEF Years
    <3> QED
      BY <1>6, <3>1
  <2>3. text[2] \in 1..12 /\ text[3] \in 1..DaysInMonth(y, text[2])
    BY <1>3, <1>6, <1>7 DEF MonthNumbers
  <2>4. text[4] \in 0..DaySeconds - 1
    BY <1>3, <1>6 DEF SecondsOfDay
  <2>5. text[5] \in 0..999
    BY <1>4, <1>6
  <2>6. AreDigits(text, y, 9999, 6)
    BY <2>1, <2>2, <2>3, <2>4, <2>5 DEF AreDigits
  <2> QED
    BY <1>9, <2>6 DEF IsDate
<1> QED
  BY <1>5, <1>10

\* The months from the first of year 0 to a month, k of them added.
MonthsTo(y, m, k) == 12 * y + m - 1 + k

LEMMA MovedMonths ==
    ASSUME NEW y \in Int, NEW m \in MonthNumbers, NEW k \in Int,
           NEW year, NEW month,
           year = MonthsTo(y, m, k) \div 12, month = 1 + (MonthsTo(y, m, k) % 12)
    PROVE  /\ year \in Int /\ month \in MonthNumbers
           /\ 12 * (year - y) + month - m = k
           /\ k > 0 => y < year \/ (y = year /\ m < month)
           /\ k < 0 => year < y \/ (year = y /\ month < m)
           /\ k = 0 => year = y /\ month = m
<1> DEFINE total == MonthsTo(y, m, k)
<1>1. total \in Int /\ total = 12 * y + m - 1 + k
  BY DEF MonthsTo, MonthNumbers
<1> HIDE DEF total
<1>2. year = total \div 12 /\ month = 1 + (total % 12)
  BY DEF total
<1>3. year \in Int /\ month \in 1..12 /\ 12 * year + (month - 1) = total
  BY <1>1, <1>2
<1>4. m \in 1..12
  BY DEF MonthNumbers
<1>5. 12 * (year - y) + month - m = k
  BY <1>1, <1>3, <1>4
<1>6. k > 0 => y < year \/ (y = year /\ m < month)
  BY <1>3, <1>4, <1>5
<1>7. k < 0 => year < y \/ (year = y /\ month < m)
  BY <1>3, <1>4, <1>5
<1>8. ASSUME k = 0 PROVE year = y /\ month = m
  <2>1. \A a \in Int, b, c \in 1..12 : 12 * a + b - c = 0 => a = 0
    OBVIOUS
  <2>5. year - y \in Int /\ 12 * (year - y) + month - m = 0
    BY <1>3, <1>5, <1>8
  <2>6. year - y = 0
    <3> DEFINE a == year - y
    <3>1. a \in Int /\ 12 * a + month - m = 0
      BY <2>5
    <3> HIDE DEF a
    <3>2. a = 0
      BY <1>3, <1>4, <2>1, <3>1
    <3> QED
      BY <3>2 DEF a
  <2>7. \A a, b \in Int : a - b = 0 => a = b
    OBVIOUS
  <2>2. year = y
    <3>1. year \in Int /\ y \in Int
      BY <1>3
    <3> QED
      BY <2>6, <2>7, <3>1, Zenon
  <2>3. 12 * (year - y) = 0
    BY <1>3, <2>2
  <2>4. month - m = 0
    BY <1>3, <1>4, <1>5, <1>8, <2>3
  <2> QED
    BY <1>3, <1>4, <2>2, <2>4
<1> QED
  BY <1>3, <1>5, <1>6, <1>7, <1>8 DEF MonthNumbers

\* A moment moved by months is that many months away.
LEMMA MonthsMove ==
    ASSUME NEW dt, IsMoment(dt), NEW k \in Int, MonthsTo(dt.year, dt.month, k) \div 12 \in Years
    PROVE  /\ IsMoment(AddMonths(dt, k))
           /\ MonthsBetween(dt, AddMonths(dt, k)) = k
           /\ Earlier(dt, AddMonths(dt, k)) <=> k > 0
<1>1. PICK y, m, d, s, u : HasParts(dt, y, m, d, s, u)
  BY PartsOfMoment
<1>2. y \in Int /\ m \in Int /\ d \in Int /\ s \in Int /\ u \in Int /\ DaysInMonth(y, m) \in Int /\ DayNumber(dt) \in Int
  BY <1>1, PartsAreNumbers
<1>3. /\ y \in Years /\ m \in MonthNumbers /\ DayOf(d, y, m) /\ s \in SecondsOfDay /\ u \in Ticks /\ dt = MomentOf(y, m, d, s, u)
      /\ dt.year = y /\ dt.month = m /\ dt.day = d /\ dt.second = s /\ dt.tick = u
  BY <1>1, MomentIs DEF HasParts
<1> DEFINE year  == MonthsTo(y, m, k) \div 12
           month == 1 + (MonthsTo(y, m, k) % 12)
           last  == DaysInMonth(year, month)
           day   == IF d > last THEN last ELSE d
           moved == AddMonths(dt, k)
<1>4. /\ year \in Int /\ month \in MonthNumbers
      /\ 12 * (year - y) + month - m = k
      /\ k > 0 => y < year \/ (y = year /\ m < month)
      /\ k < 0 => year < y \/ (year = y /\ month < m)
      /\ k = 0 => year = y /\ month = m
  BY <1>2, <1>3, MovedMonths
<1>5. moved = MomentOf(year, month, day, s, u)
  <2> DEFINE there == [dt EXCEPT !.year = year, !.month = month]
  <2>1. AddMonthsOverflowing(dt, k) = there
    BY <1>3 DEF AddMonthsOverflowing, MonthsTo
  <2>2. there = MomentOf(year, month, d, s, u)
    <3> HIDE DEF year, month
    <3>1. dt \in [year : Int, month : Int, day : Int, second : Int, tick : Int]
      BY <1>2, <1>3 DEF MomentOf
    <3>2. year \in Int /\ month \in Int
      BY <1>4, MonthsAreNumbers
    <3>3. there \in [year : Int, month : Int, day : Int, second : Int, tick : Int]
      BY <3>1, <3>2
    <3>4. /\ there.year = year /\ there.month = month /\ there.day = d /\ there.second = s
          /\ there.tick = u
      BY <1>3, <3>1
    <3> HIDE DEF there
    <3> QED
      BY <3>3, <3>4 DEF MomentOf
  <2>3. there.year = year /\ there.month = month /\ there.day = d
    <3> HIDE DEF year, month, there
    <3> QED
      BY <2>2, MomentIs
  <2>4. moved = [there EXCEPT !.day = IF there.day > DaysInMonth(there.year, there.month)
                                      THEN DaysInMonth(there.year, there.month) ELSE there.day]
    <3> HIDE DEF there
    <3> QED
      BY <2>1 DEF AddMonths
  <2> HIDE DEF there, year, month, moved
  <2>5. moved = [there EXCEPT !.day = day]
    BY <2>3, <2>4
  <2> HIDE DEF day
  <2> QED
    BY <2>2, <2>5 DEF MomentOf
<1>6. year \in Years
  BY <1>3
<1> HIDE DEF year, month, moved
<1>7. DayOf(day, year, month)
  <2>1. last \in 28..31
    <3>1. month \in 1..12
      BY <1>4 DEF MonthNumbers
    <3> HIDE DEF last
    <3> QED
      BY <1>4, <3>1, MonthLengths DEF last
  <2>2. d \in 1..31
    BY <1>3 DEF DayOf
  <2> HIDE DEF last
  <2> QED
    BY <2>1, <2>2 DEF DayOf, last
<1>8. IsMoment(moved) /\ HasParts(moved, year, month, day, s, u)
  BY <1>3, <1>4, <1>5, <1>6, <1>7, MomentIs DEF HasParts
<1>9. /\ moved.year = year /\ moved.month = month /\ moved.second = s /\ moved.tick = u
      /\ DayNumber(moved) \in Int
  <2>1. DayNumber(moved) \in Int
    BY <1>8, PartsAreNumbers
  <2> HIDE DEF day
  <2> QED
    BY <1>5, <2>1, MomentIs
<1>10. MonthsBetween(dt, moved) = k
  BY <1>3, <1>4, <1>9 DEF MonthsBetween
<1>11. ASSUME k > 0 PROVE Earlier(dt, moved)
  BY <1>3, <1>4, <1>8, <1>9, <1>11, LaterMonths DEF Earlier
<1>12. ASSUME k < 0 PROVE ~Earlier(dt, moved)
  <2>1. DayNumber(moved) < DayNumber(dt)
    BY <1>3, <1>4, <1>8, <1>9, <1>12, LaterMonths
  <2> QED
    BY <1>2, <1>9, <2>1 DEF Earlier
<1>13. ASSUME k = 0 PROVE ~Earlier(dt, moved)
  <2>1. year = y /\ month = m
    BY <1>4, <1>13
  <2>2. day = d
    BY <1>2, <1>3, <2>1 DEF DayOf
  <2>3. moved = dt
    BY <1>3, <1>5, <2>1, <2>2
  <2> QED
    BY <1>2, <1>3, <2>3 DEF Earlier
<1>14. k > 0 \/ k < 0 \/ k = 0
  OBVIOUS
<1> QED
  BY <1>8, <1>10, <1>11, <1>12, <1>13, <1>14 DEF moved

LEMMA SecondsOfDayAre == \A r \in Int : 0 <= r /\ r < DaySeconds => r \in SecondsOfDay
<1>1. DaySeconds \in Int
  BY DEF DaySeconds
<1> QED
  BY <1>1 DEF SecondsOfDay

\* A moment moved by seconds is that many seconds away.
LEMMA SecondsMove ==
    ASSUME NEW dt, IsMoment(dt), NEW k \in Int,
           DayNumber(dt) + (dt.second + k) \div DaySeconds \in DayNumbers
    PROVE  /\ IsMoment(AddSeconds(dt, k))
           /\ SecondsBetween(dt, AddSeconds(dt, k)) = k
           /\ Earlier(dt, AddSeconds(dt, k)) <=> k > 0
<1> DEFINE second == dt.second
           total  == second + k
           days   == total \div DaySeconds
           rest   == total % DaySeconds
           start  == DayNumber(dt)
           tick   == dt.tick
           moved  == AddSeconds(dt, k)
<1>1. second \in SecondsOfDay /\ start \in Int /\ tick \in Ticks
  <2>1. HasParts(dt, dt.year, dt.month, dt.day, dt.second, dt.tick)
    BY PartsOfMoment
  <2> QED
    BY <2>1, PartsAreNumbers DEF HasParts
<1>2. moved = MomentAt(start + days, rest, tick)
  BY DEF AddSeconds
<1>3. start + days \in DayNumbers
  OBVIOUS
<1> HIDE DEF second, start, tick, moved
<1>4. second \in Int /\ 0 <= second /\ second < 86400
  BY <1>1 DEF SecondsOfDay, DaySeconds
<1>5. total \in Int
  BY <1>4
<1>6. days \in Int /\ rest \in Int /\ 0 <= rest /\ rest < 86400 /\ 86400 * days + rest = total
  <2> HIDE DEF total
  <2> QED
    BY <1>5 DEF DaySeconds
<1> HIDE DEF days, rest
<1>7. rest \in 0..DaySeconds - 1
  <2>1. rest < DaySeconds
    BY <1>6 DEF DaySeconds
  <2>2. rest \in SecondsOfDay
    BY <1>6, <2>1, SecondsOfDayAre
  <2> QED
    BY <2>2 DEF SecondsOfDay
<1>8. IsMoment(moved) /\ DayNumber(moved) = start + days /\ moved.second = rest /\ moved.tick = tick
  <2>1. tick \in 0..SecondTicks - 1
    BY <1>1 DEF Ticks
  <2> QED
    BY <1>2, <1>3, <1>7, <2>1, MomentAtIs
<1>12. tick \in Int
  <2>1. \A u \in Ticks : u \in Int
    BY DEF Ticks, SecondTicks
  <2> QED
    BY <1>1, <2>1
<1>9. SecondsBetween(dt, moved) = k
  <2>1. ~(moved.tick < dt.tick) /\ ~(moved.tick > dt.tick)
    BY <1>8, <1>12 DEF tick
  <2>2. SecondsBetween(dt, moved) = 86400 * ((start + days) - start) + rest - second
    BY <1>8, <2>1 DEF SecondsBetween, WholeSeconds, start, second, DaySeconds
  <2> QED
    BY <1>1, <1>4, <1>6, <2>2
<1>10. Earlier(dt, moved) <=> start < start + days \/ (start = start + days /\ second < rest)
  <2>1. ~(dt.tick < moved.tick)
    BY <1>8, <1>12 DEF tick
  <2> QED
    BY <1>8, <2>1 DEF Earlier, start, second
<1>11. (start < start + days \/ (start = start + days /\ second < rest)) <=> k > 0
  BY <1>1, <1>4, <1>6
<1> QED
  BY <1>8, <1>9, <1>10, <1>11 DEF moved

LEMMA Quotients ==
    ASSUME NEW n \in Int
    PROVE  /\ TruncatedQuotient(604800 * n, 604800) = n
           /\ TruncatedQuotient(86400 * n, 86400) = n
           /\ TruncatedQuotient(3600 * n, 3600) = n
           /\ TruncatedQuotient(60 * n, 60) = n
           /\ TruncatedQuotient(1 * n, 1) = n
           /\ (12 * n) \div 12 = n /\ (3 * n) \div 3 = n /\ (1 * n) \div 1 = n
BY DEF TruncatedQuotient

\* datediff gives back the interval that dateadd moved a moment by, in every
\* unit and both directions.
THEOREM DateDiffUndoesDateAddAlways == QuerySpec => []DateDiffUndoesDateAdd
<1>1. ASSUME NEW dt \in Moments, NEW unit \in DateUnits, NEW n \in Intervals
      PROVE  /\ DateDiff(unit, dt, DateAdd(unit, n, dt)) = n
             /\ IsDate(NormalText(DateAdd(unit, n, dt)))
             /\ Earlier(dt, DateAdd(unit, n, dt)) <=> n > 0
  <2>1. IsMoment(dt) /\ StaysInRange(unit, n, dt) /\ n \in Int
    BY MomentsAssumption
  <2>2. CASE unit \in DOMAIN UnitMonths
    <3> DEFINE k     == UnitMonths[unit]
               moved == AddMonths(dt, k * n)
    <3>1. DateAdd(unit, n, dt) = moved /\ DateDiff(unit, dt, moved) = MonthsBetween(dt, moved) \div k
      BY <2>2 DEF DateAdd, DateDiff
    <3>2. k \in {12, 3, 1}
      BY <2>2 DEF UnitMonths
    <3>3. k * n \in Int /\ (k * n > 0 <=> n > 0) /\ (k * n) \div k = n
      <4>1. CASE k = 12
        BY <2>1, <4>1, Quotients
      <4>2. CASE k = 3
        BY <2>1, <4>2, Quotients
      <4>3. CASE k = 1
        BY <2>1, <4>3, Quotients
      <4> QED
        BY <3>2, <4>1, <4>2, <4>3
    <3>4. MonthsTo(dt.year, dt.month, k * n) \div 12 \in Years
      BY <2>1, <2>2 DEF StaysInRange, MonthsTo
    <3> HIDE DEF k
    <3>5. IsMoment(moved) /\ MonthsBetween(dt, moved) = k * n /\ (Earlier(dt, moved) <=> k * n > 0)
      BY <2>1, <3>3, <3>4, MonthsMove
    <3> HIDE DEF moved
    <3> QED
      BY <3>1, <3>3, <3>5, MomentsAreDates
  <2>3. CASE unit \notin DOMAIN UnitMonths
    <3> DEFINE k     == UnitSeconds[unit]
               moved == AddSeconds(dt, k * n)
    <3>1. DateAdd(unit, n, dt) = moved
          /\ DateDiff(unit, dt, moved) = TruncatedQuotient(SecondsBetween(dt, moved), k)
      BY <2>3 DEF DateAdd, DateDiff
    <3>2. k = 604800 \/ k = 86400 \/ k = 3600 \/ k = 60 \/ k = 1
      BY <2>3 DEF DateUnits, UnitMonths, UnitSeconds, DaySeconds
    <3>3. k * n \in Int /\ (k * n > 0 <=> n > 0) /\ TruncatedQuotient(k * n, k) = n
      <4> HIDE DEF k
      <4>1. CASE k = 604800
        BY <2>1, <4>1, Quotients
      <4>2. CASE k = 86400
        BY <2>1, <4>2, Quotients
      <4>3. CASE k = 3600
        BY <2>1, <4>3, Quotients
      <4>4. CASE k = 60
        BY <2>1, <4>4, Quotients
      <4>5. CASE k = 1
        BY <2>1, <4>5, Quotients
      <4> QED
        BY <3>2, <4>1, <4>2, <4>3, <4>4, <4>5
    <3>4. DayNumber(dt) + (dt.second + k * n) \div DaySeconds \in DayNumbers
      BY <2>1, <2>3 DEF StaysInRange, DayNumbers
    <3> HIDE DEF k
    <3>5. IsMoment(moved) /\ SecondsBetween(dt, moved) = k * n /\ (Earlier(dt, moved) <=> k * n > 0)
      BY <2>1, <3>3, <3>4, SecondsMove
    <3> HIDE DEF moved
    <3> QED
      BY <3>1, <3>3, <3>5, MomentsAreDates
  <2> QED
    BY <2>2, <2>3
<1>2. CaseInv => DateDiffUndoesDateAdd
  BY <1>1 DEF CaseInv, DateMade, DateDiffUndoesDateAdd
<1> QED
  BY <1>2, CasesAreMade, PTL

=============================================================================
