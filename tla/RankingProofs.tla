---------------------------- MODULE RankingProofs ----------------------------
(***************************************************************************)
(* Ranked results and walks over them, for any documents, requests and     *)
(* scores: every result is filtered, ordered as its sides agree, and keeps *)
(* its pages together when documents come or go.                           *)
(***************************************************************************)
EXTENDS RankedPages, PageProofs, FiniteSetTheorems, WellFoundedInduction

-----------------------------------------------------------------------------
(* Finite sets in a strict order *)

StrictOrder(S, R) ==
    /\ \A a \in S : <<a, a>> \notin R
    /\ \A a, b, c \in S : <<a, b>> \in R /\ <<b, c>> \in R => <<a, c>> \in R
    /\ \A a, b \in S : a = b \/ <<a, b>> \in R \/ <<b, a>> \in R

\* The members that come before one.
Before(S, R, x) == {y \in S : <<y, x>> \in R}

\* A sequence of the members of S, each behind those that come before it.
SortedBy(s, S, R) ==
    /\ Cardinality(S) \in Nat
    /\ s \in [1..Cardinality(S) -> S]
    /\ \A x \in S : \E i \in 1..Cardinality(S) : s[i] = x
    /\ \A i, j \in 1..Cardinality(S) : /\ <<s[i], s[j]>> \in R <=> i < j
                                       /\ s[i] = s[j] => i = j
    /\ \A i \in 1..Cardinality(S) : Cardinality(Before(S, R, s[i])) = i - 1

\* The further back a member is, the more come before it.
LEMMA BeforeGrows ==
    ASSUME NEW S, IsFiniteSet(S), NEW R, StrictOrder(S, R), NEW x \in S
    PROVE  /\ IsFiniteSet(Before(S, R, x))
           /\ Cardinality(Before(S, R, x)) \in 0..Cardinality(S) - 1
           /\ \A y \in S : <<x, y>> \in R =>
                Cardinality(Before(S, R, x)) < Cardinality(Before(S, R, y))
<1>1. \A y \in S : /\ Before(S, R, y) \subseteq S /\ y \notin Before(S, R, y)
                   /\ Before(S, R, y) \in SUBSET S
  BY DEF Before, StrictOrder
<1>2. /\ Cardinality(S) \in Nat
      /\ \A y \in S : /\ IsFiniteSet(Before(S, R, y))
                      /\ Cardinality(Before(S, R, y)) \in Nat
                      /\ Cardinality(Before(S, R, y)) <= Cardinality(S)
                      /\ Cardinality(S) = Cardinality(Before(S, R, y)) => S = Before(S, R, y)
  BY <1>1, FS_Subset, FS_CardinalityType
<1>3. Cardinality(Before(S, R, x)) # Cardinality(S)
  BY <1>1, <1>2
<1>4. ASSUME NEW y \in S, <<x, y>> \in R
      PROVE  Cardinality(Before(S, R, x)) < Cardinality(Before(S, R, y))
  <2> DEFINE A == Before(S, R, x)
             B == Before(S, R, y)
  <2>1. A \subseteq B /\ x \in B /\ x \notin A
    BY <1>1, <1>4 DEF Before, StrictOrder
  <2>2. IsFiniteSet(B) /\ Cardinality(A) \in Nat /\ Cardinality(B) \in Nat
    BY <1>2
  <2> HIDE DEF A, B
  <2>3. Cardinality(A) <= Cardinality(B) /\ Cardinality(A) # Cardinality(B)
    BY <2>1, <2>2, FS_Subset
  <2>4. Cardinality(A) < Cardinality(B)
    BY <2>2, <2>3
  <2> QED
    BY <2>4 DEF A, B
<1> QED
  BY <1>2, <1>3, <1>4

\* A finite set can be put into any strict order of it.
LEMMA OrderExists ==
    ASSUME NEW S, IsFiniteSet(S), NEW R, StrictOrder(S, R)
    PROVE  \E s \in [1..Cardinality(S) -> S] : \A i, j \in DOMAIN s : i < j => <<s[i], s[j]>> \in R
<1> DEFINE n == Cardinality(S)
           place == [x \in S |-> Cardinality(Before(S, R, x)) + 1]
<1>1. n \in Nat /\ IsFiniteSet(1..n) /\ Cardinality(1..n) = n
  BY FS_CardinalityType, FS_Interval
<1>2. /\ place \in [S -> 1..n]
      /\ \A x, y \in S : <<x, y>> \in R => place[x] < place[y]
  <2>1. \A x \in S : /\ Cardinality(Before(S, R, x)) \in 0..n - 1
                     /\ \A y \in S : <<x, y>> \in R =>
                          Cardinality(Before(S, R, x)) < Cardinality(Before(S, R, y))
    BY BeforeGrows
  <2> QED
    BY <1>1, <2>1
<1> HIDE DEF place, n
<1>3. \A x, y \in S : place[x] = place[y] => x = y
  <2> TAKE x, y \in S
  <2>1. place[x] \in Int /\ place[y] \in Int
    BY <1>1, <1>2
  <2>2. place[x] = place[y] => <<x, y>> \notin R /\ <<y, x>> \notin R
    BY <1>2, <2>1
  <2> QED
    BY <2>2 DEF StrictOrder
<1>4. place \in Surjection(S, 1..n)
  <2>1. place \in Injection(S, 1..n)
    BY <1>2, <1>3 DEF Injection, IsInjective
  <2> QED
    BY <1>1, <2>1, FS_Injection DEF n
<1> DEFINE s == [i \in 1..n |-> CHOOSE x \in S : place[x] = i]
<1>5. s \in [1..n -> S] /\ \A i \in 1..n : place[s[i]] = i
  BY <1>4 DEF Surjection
<1> HIDE DEF s
<1>6. ASSUME NEW i \in 1..n, NEW j \in 1..n, i < j PROVE <<s[i], s[j]>> \in R
  <2>1. s[i] \in S /\ s[j] \in S /\ place[s[i]] = i /\ place[s[j]] = j
    BY <1>5
  <2>2. s[i] # s[j] /\ <<s[j], s[i]>> \notin R
    BY <1>1, <1>2, <1>6, <2>1
  <2> QED
    BY <2>1, <2>2 DEF StrictOrder
<1> QED
  BY <1>5, <1>6 DEF n

\* One that is has every member in its place.
LEMMA OrderPlaces ==
    ASSUME NEW S, IsFiniteSet(S), NEW R, StrictOrder(S, R),
           NEW s \in [1..Cardinality(S) -> S],
           \A i, j \in DOMAIN s : i < j => <<s[i], s[j]>> \in R
    PROVE  SortedBy(s, S, R)
<1> DEFINE n == Cardinality(S)
<1>1. n \in Nat /\ IsFiniteSet(1..n) /\ Cardinality(1..n) = n
  BY FS_CardinalityType, FS_Interval
<1>2. s \in [1..n -> S] /\ \A i, j \in 1..n : i < j => <<s[i], s[j]>> \in R
  OBVIOUS
<1> HIDE DEF n
<1>3. \A i, j \in 1..n : (<<s[i], s[j]>> \in R <=> i < j) /\ (s[i] = s[j] => i = j)
  <2> TAKE i, j \in 1..n
  <2>0. i \in Int /\ j \in Int
    BY <1>1
  <2>1. s[i] \in S /\ s[j] \in S
    BY <1>2
  <2>6. i < j \/ i = j \/ j < i
    BY <2>0
  <2>2. i < j => <<s[i], s[j]>> \in R
    BY <1>2
  <2>3. j < i => <<s[j], s[i]>> \in R
    BY <1>2
  <2>4. ~(i < j /\ j < i) /\ (i < j => i # j)
    BY <1>1
  <2>5. \A a, b \in S : <<a, b>> \in R => <<b, a>> \notin R /\ a # b
    BY DEF StrictOrder
  <2> QED
    BY <2>1, <2>2, <2>3, <2>4, <2>5, <2>6
<1>4. \A x \in S : \E i \in 1..n : s[i] = x
  <2>1. s \in Injection(1..n, S)
    BY <1>2, <1>3 DEF Injection, IsInjective
  <2>2. s \in Surjection(1..n, S)
    BY <1>1, <2>1, FS_Injection DEF n
  <2> QED
    BY <2>2 DEF Surjection
<1>5. ASSUME NEW i \in 1..n PROVE Cardinality(Before(S, R, s[i])) = i - 1
  <2> DEFINE B == Before(S, R, s[i])
             f == [j \in 1..i - 1 |-> s[j]]
  <2>1. i - 1 \in Nat /\ 1..i - 1 \subseteq 1..n
    BY <1>1
  <2>2. \A x \in B : \E j \in 1..i - 1 : s[j] = x
    <3> TAKE x \in B
    <3>1. PICK j \in 1..n : s[j] = x
      BY <1>4 DEF Before
    <3>2. j < i
      BY <1>3, <3>1 DEF Before
    <3> QED
      BY <1>1, <3>1, <3>2
  <2>3. \A j \in 1..i - 1 : s[j] \in B
    <3> TAKE j \in 1..i - 1
    <3>1. j \in 1..n /\ j < i
      BY <1>1
    <3>2. s[j] \in S /\ <<s[j], s[i]>> \in R
      BY <1>2, <3>1
    <3> QED
      BY <3>2 DEF Before
  <2> HIDE DEF B
  <2>4. f \in Injection(1..i - 1, B) /\ f \in Surjection(1..i - 1, B)
    BY <1>3, <2>1, <2>2, <2>3 DEF Injection, Surjection, IsInjective
  <2>5. IsFiniteSet(1..i - 1) /\ Cardinality(1..i - 1) = i - 1
    BY <2>1, FS_Interval
  <2> HIDE DEF f
  <2>6. Cardinality(B) = i - 1
    BY <2>4, <2>5, FS_Surjection
  <2> QED
    BY <2>6 DEF B
<1> QED
  BY <1>1, <1>2, <1>3, <1>4, <1>5 DEF SortedBy, n

\* A finite set of numbers that is not empty has a greatest.
LEMMA GreatestExists ==
    ASSUME NEW S \in SUBSET Int, IsFiniteSet(S), S # {}
    PROVE  \E m \in S : \A x \in S : x <= m
<1> DEFINE R == {p \in S \X S : p[1] < p[2]}
           n == Cardinality(S)
<1>1. \A a, b \in S : <<a, b>> \in R <=> a < b
  OBVIOUS
<1> HIDE DEF R
<1>2. \A a \in S : a \in Int
  OBVIOUS
<1>3. StrictOrder(S, R)
  BY <1>1, <1>2 DEF StrictOrder
<1>4. PICK s \in [1..n -> S] : \A i, j \in DOMAIN s : i < j => <<s[i], s[j]>> \in R
  BY <1>3, OrderExists
<1>5. SortedBy(s, S, R)
  BY <1>3, <1>4, OrderPlaces
<1>6. n \in Nat /\ n # 0
  BY FS_CardinalityType, FS_EmptySet
<1>7. ASSUME NEW x \in S PROVE x <= s[n]
  <2>1. PICK i \in 1..n : s[i] = x
    BY <1>5 DEF SortedBy
  <2>2. n \in 1..n /\ s[n] \in S
    BY <1>4, <1>6
  <2>3. i = n \/ i < n
    BY <1>6
  <2>4. i < n => <<s[i], s[n]>> \in R
    BY <1>5, <2>2 DEF SortedBy
  <2>5. x = s[n] \/ x < s[n]
    BY <1>1, <2>1, <2>2, <2>3, <2>4
  <2>6. x \in Int /\ s[n] \in Int
    BY <1>2, <2>2
  <2> HIDE DEF n
  <2> QED
    BY <2>5, <2>6
<1>8. s[n] \in S
  BY <1>4, <1>6
<1> QED
  BY <1>7, <1>8

-----------------------------------------------------------------------------
(* Scored hits *)

IsHits(hits) ==
    /\ IsFiniteSet(hits)
    /\ \A h \in hits : h = Hit(h.key, h.score) /\ h.key \in Nat /\ h.score \in Int

OnePerKey(hits) == \A a, b \in hits : a.key = b.key => a = b

AboveIn(hits) == {p \in hits \X hits : RanksAbove(p[1], p[2])}

LEMMA AboveIsOrder ==
    ASSUME NEW hits, IsHits(hits)
    PROVE  /\ StrictOrder(hits, AboveIn(hits))
           /\ \A a, b \in hits : <<a, b>> \in AboveIn(hits) <=> RanksAbove(a, b)
<1>1. \A a, b \in hits : <<a, b>> \in AboveIn(hits) <=> RanksAbove(a, b)
  BY DEF AboveIn
<1>2. \A a \in hits : a.key \in Int /\ a.score \in Int /\ a = Hit(a.key, a.score)
  BY DEF IsHits
<1>3. \A a \in hits : ~RanksAbove(a, a)
  BY <1>2 DEF RanksAbove
<1>4. \A a, b, c \in hits : RanksAbove(a, b) /\ RanksAbove(b, c) => RanksAbove(a, c)
  BY <1>2 DEF RanksAbove
<1>5. ASSUME NEW a \in hits, NEW b \in hits
      PROVE  a = b \/ RanksAbove(a, b) \/ RanksAbove(b, a)
  <2>1. CASE a.key = b.key /\ a.score = b.score
    BY <1>2, <2>1
  <2>2. CASE ~(a.key = b.key /\ a.score = b.score)
    BY <1>2, <2>2 DEF RanksAbove
  <2> QED
    BY <2>1, <2>2
<1> QED
  BY <1>1, <1>3, <1>4, <1>5 DEF StrictOrder

LEMMA RankedIsSorted ==
    ASSUME NEW hits, IsHits(hits)
    PROVE  SortedBy(Ranked(hits), hits, AboveIn(hits))
<1>1. /\ StrictOrder(hits, AboveIn(hits)) /\ IsFiniteSet(hits)
      /\ \A a, b \in hits : <<a, b>> \in AboveIn(hits) <=> RanksAbove(a, b)
  BY AboveIsOrder DEF IsHits
<1>2. PICK s \in [1..Cardinality(hits) -> hits] :
            \A i, j \in DOMAIN s : i < j => <<s[i], s[j]>> \in AboveIn(hits)
  BY <1>1, OrderExists
<1>3. \A t \in [1..Cardinality(hits) -> hits] :
        \A i, j \in DOMAIN t : <<t[i], t[j]>> \in AboveIn(hits) <=> RanksAbove(t[i], t[j])
  BY <1>1
<1>4. \A i, j \in DOMAIN s : i < j => RanksAbove(s[i], s[j])
  BY <1>2, <1>3
<1>5. /\ Ranked(hits) \in [1..Cardinality(hits) -> hits]
      /\ \A i, j \in DOMAIN Ranked(hits) : i < j => RanksAbove(Ranked(hits)[i], Ranked(hits)[j])
  BY <1>4 DEF Ranked, Sorted
<1>6. \A i, j \in DOMAIN Ranked(hits) : i < j => <<Ranked(hits)[i], Ranked(hits)[j]>> \in AboveIn(hits)
  BY <1>3, <1>5
<1> QED
  BY <1>1, <1>5, <1>6, OrderPlaces

\* The first k are those with fewer than k above them.
LEMMA TopKIs ==
    ASSUME NEW hits, IsHits(hits), NEW k \in Nat
    PROVE  TopK(hits, k) = {h \in hits : Cardinality(Before(hits, AboveIn(hits), h)) < k}
<1> DEFINE s == Ranked(hits)
           n == Cardinality(hits)
           m == IF k < n THEN k ELSE n
           top == SubSeq(s, 1, m)
<1>1. /\ n \in Nat /\ s \in [1..n -> hits]
      /\ \A x \in hits : \E i \in 1..n : s[i] = x
      /\ \A i \in 1..n : Cardinality(Before(hits, AboveIn(hits), s[i])) = i - 1
  BY RankedIsSorted DEF SortedBy
<1>2. Len(s) = n
  BY <1>1
<1>3. TopK(hits, k) = {top[i] : i \in DOMAIN top}
  BY <1>2 DEF TopK, FirstOf, ToSet
<1> HIDE DEF s, n
<1>4. m \in Nat /\ m <= n /\ \A i \in 1..n : i - 1 < k <=> i <= m
  BY <1>1
<1> HIDE DEF m
<1>5. top = [i \in 1..m |-> s[i]]
  <2>1. m - 1 + 1 = m /\ \A i \in 1..m : 1 + i - 1 = i
    BY <1>4
  <2>2. /\ top \in Seq(hits) /\ Len(top) = IF 1 <= m THEN m - 1 + 1 ELSE 0
        /\ \A i \in 1..m - 1 + 1 : top[i] = s[1 + i - 1]
    <3>1. s \in Seq(hits) /\ Len(s) = n /\ \A i \in 1..m : s[i] \in hits
      BY <1>1, <1>4
    <3> QED
      BY <1>4, <3>1, SubSeqProperties
  <2> HIDE DEF top
  <2>3. Len(top) = m /\ \A i \in 1..m : top[i] = s[i]
    BY <1>4, <2>1, <2>2
  <2> QED
    BY <1>4, <2>2, <2>3
<1> HIDE DEF top
<1>6. \A h : h \in TopK(hits, k) <=> \E i \in 1..m : h = s[i]
  BY <1>3, <1>5
<1>7. ASSUME NEW h \in hits, NEW i \in 1..n, s[i] = h
      PROVE  i \in 1..m <=> Cardinality(Before(hits, AboveIn(hits), h)) < k
  <2>1. i \in 1..m <=> i <= m
    BY <1>1, <1>4
  <2>2. Cardinality(Before(hits, AboveIn(hits), h)) = i - 1
    BY <1>1, <1>7
  <2> QED
    BY <1>4, <2>1, <2>2
<1>8. \A i \in 1..m : i \in 1..n /\ s[i] \in hits
  BY <1>1, <1>4
<1> QED
  BY <1>1, <1>6, <1>7, <1>8

\* Of all hits of a key the best is kept, and it alone.
LEMMA BestIs ==
    ASSUME NEW hits, IsHits(hits)
    PROVE  /\ Best(hits) \subseteq hits /\ IsHits(Best(hits)) /\ OnePerKey(Best(hits))
           /\ KeysOf(Best(hits)) = KeysOf(hits)
           /\ \A h \in Best(hits), other \in hits : other.key = h.key => other.score <= h.score
<1>1. Best(hits) \subseteq hits /\ IsHits(Best(hits))
  <2>1. Best(hits) \in SUBSET hits
    BY DEF Best
  <2> QED
    BY <2>1, FS_Subset DEF IsHits
<1>2. \A h \in Best(hits), other \in hits : other.key = h.key => other.score <= h.score
  BY DEF Best
<1>3. OnePerKey(Best(hits))
  <2> SUFFICES ASSUME NEW a \in Best(hits), NEW b \in Best(hits), a.key = b.key PROVE a = b
    BY DEF OnePerKey
  <2>1. a.score <= b.score /\ b.score <= a.score
    BY <1>1, <1>2
  <2>2. a.score \in Int /\ b.score \in Int /\ a = Hit(a.key, a.score) /\ b = Hit(b.key, b.score)
    BY <1>1 DEF IsHits
  <2>3. a.score = b.score
    BY <2>1, <2>2
  <2> QED
    BY <2>2, <2>3
<1>4. ASSUME NEW h \in hits PROVE \E b \in Best(hits) : b.key = h.key
  <2> DEFINE same == {g \in hits : g.key = h.key}
             scoreOf == [g \in same |-> g.score]
             scores == {g.score : g \in same}
  <2>1. IsFiniteSet(same)
    <3>1. same \in SUBSET hits
      OBVIOUS
    <3> QED
      BY <3>1, FS_Subset DEF IsHits
  <2>2. scoreOf \in Surjection(same, scores)
    BY DEF Surjection
  <2>3. IsFiniteSet(scores)
    <3> HIDE DEF same, scoreOf, scores
    <3> QED
      BY <2>1, <2>2, FS_Surjection
  <2>4. scores \in SUBSET Int /\ scores # {}
    BY DEF IsHits
  <2>5. PICK m \in scores : \A x \in scores : x <= m
    <3> HIDE DEF scores
    <3> QED
      BY <2>3, <2>4, GreatestExists
  <2>6. PICK g \in hits : g.key = h.key /\ g.score = m
    OBVIOUS
  <2>7. \A other \in hits : other.key = g.key => other.score <= g.score
    BY <2>5, <2>6
  <2> QED
    BY <2>6, <2>7 DEF Best
<1>5. KeysOf(Best(hits)) = KeysOf(hits)
  <2>1. \A h \in hits : \E b \in Best(hits) : b.key = h.key
    BY <1>4
  <2> QED
    BY <1>1, <2>1 DEF KeysOf
<1> QED
  BY <1>1, <1>2, <1>3, <1>5

\* With one hit for each key, a ranked list has every key in one place.
LEMMA AtIs ==
    ASSUME NEW hits, IsHits(hits), OnePerKey(hits)
    PROVE  /\ \A h \in hits : /\ At(Ranked(hits), h.key) \in 1..Cardinality(hits)
                              /\ Ranked(hits)[At(Ranked(hits), h.key)] = h
           /\ \A key : key \notin KeysOf(hits) => At(Ranked(hits), key) = 0
<1> DEFINE s == Ranked(hits)
           n == Cardinality(hits)
           Places(key) == {i \in 1..Len(s) : s[i].key = key}
<1>1. /\ n \in Nat /\ s \in [1..n -> hits]
      /\ \A x \in hits : \E i \in 1..n : s[i] = x
      /\ \A i, j \in 1..n : s[i] = s[j] => i = j
  BY RankedIsSorted DEF SortedBy
<1> HIDE DEF s, n
<1>2. Len(s) = n
  BY <1>1
<1>3. \A key : At(s, key) = IF Places(key) # {} THEN Min(Places(key)) ELSE 0
  BY Zenon DEF At, SelectInSeq
<1>4. ASSUME NEW h \in hits PROVE At(s, h.key) \in 1..n /\ s[At(s, h.key)] = h
  <2>1. PICK i \in 1..n : s[i] = h
    BY <1>1
  <2>2. Places(h.key) = {i}
    <3>1. \A j \in 1..n : s[j].key = h.key => s[j] = h
      BY <1>1 DEF OnePerKey
    <3> QED
      BY <1>1, <1>2, <2>1, <3>1
  <2> HIDE DEF Places
  <2>3. Min({i}) = i
    BY <1>1 DEF Min
  <2>4. At(s, h.key) = i
    BY <1>3, <2>2, <2>3
  <2> QED
    BY <2>1, <2>4
<1>5. ASSUME NEW key, key \notin KeysOf(hits) PROVE At(s, key) = 0
  <2>1. Places(key) = {}
    BY <1>1, <1>2, <1>5 DEF KeysOf
  <2> HIDE DEF Places
  <2> QED
    BY <1>3, <2>1
<1> QED
  BY <1>4, <1>5 DEF s, n

-----------------------------------------------------------------------------
(* Sums *)

\* A set of natural numbers up to n has a least one: the sets 1..i are ordered
\* by inclusion as the numbers i are by size.
LEMMA LeastExists ==
    ASSUME NEW n \in Nat, NEW B, B \subseteq 0..n, B # {}
    PROVE  \E i \in B : \A j \in B : i <= j
<1> DEFINE R == StrictSubsetOrdering(1..n)
           T == {1..i : i \in B}
<1>1. IsFiniteSet(1..n)
  BY FS_Interval
<1>2. FiniteSubsetsOf(1..n) = SUBSET (1..n)
  BY <1>1, FS_FiniteSubsetsOfFinite
<1>3. IsWellFoundedOn(R, SUBSET (1..n))
  BY <1>2, FS_StrictSubsetOrderingWellFounded
<1>4. T \subseteq SUBSET (1..n) /\ T # {}
  <2>1. \A i \in 0..n : 1..i \subseteq 1..n
    OBVIOUS
  <2>2. QED
    BY <2>1
<1> HIDE DEF R, T
<1>5. PICK x \in T : \A y \in T : ~(<<y, x>> \in R)
  BY <1>3, <1>4, WFMin
<1>6. PICK i \in B : x = 1..i
  BY DEF T
<1>7. ASSUME NEW j \in B, j < i
      PROVE  FALSE
  <2>1. i \in 1..i /\ i \notin 1..j /\ 1..j \subseteq 1..i
    BY <1>7
  <2>2. 1..j \in T /\ 1..j \in SUBSET (1..n) /\ 1..i \in SUBSET (1..n)
    BY <1>4, <1>6 DEF T
  <2>3. <<1..j, 1..i>> \in R
    BY <2>1, <2>2 DEF R, StrictSubsetOrdering
  <2>4. QED
    BY <1>5, <1>6, <2>2, <2>3
<1>8. \A j \in B : i <= j
  BY <1>7
<1>9. QED
  BY <1>8

AnyOf(s) == CHOOSE x \in s : TRUE

\* How the sum over a set of places follows from that over one place less.
SumsOf(f, n) ==
    CHOOSE sums : sums = [s \in SUBSET (1..n) |-> IF s = {} THEN 0 ELSE f[AnyOf(s)] + sums[s \ {AnyOf(s)}]]

LEMMA SumIsOfAll ==
    ASSUME NEW n \in Nat, NEW f \in [1..n -> Int]
    PROVE  SumFunction(f) = SumsOf(f, n)[1..n]
<1>1. DOMAIN f = 1..n
  OBVIOUS
<1>2. SumFunction(f) = (CHOOSE sums : sums = [s \in SUBSET (DOMAIN f) |->
                          IF s = {} THEN 0 ELSE f[CHOOSE x \in s : TRUE] + sums[s \ {CHOOSE x \in s : TRUE}]])[DOMAIN f]
  BY Zenon DEF SumFunction, SumFunctionOnSet, FoldFunctionOnSet, MapThenFoldSet
<1> QED
  BY <1>1, <1>2 DEF SumsOf, AnyOf

\* There are such sums: they exist for the sets of up to m places, or there
\* would be a least m for which they do not.
LEMMA SumsExist ==
    ASSUME NEW n \in Nat, NEW f \in [1..n -> Int]
    PROVE  SumsOf(f, n) = [s \in SUBSET (1..n) |->
               IF s = {} THEN 0 ELSE f[AnyOf(s)] + SumsOf(f, n)[s \ {AnyOf(s)}]]
<1> DEFINE Upto(m) == {s \in SUBSET (1..n) : Cardinality(s) <= m}
           Next(g, s) == IF s = {} THEN 0 ELSE f[AnyOf(s)] + g[s \ {AnyOf(s)}]
           Reach(g, m) == g = [s \in Upto(m) |-> Next(g, s)]
           B == {m \in 0..n : ~\E g : Reach(g, m)}
<1>1. ASSUME NEW s \in SUBSET (1..n)
      PROVE  /\ IsFiniteSet(s) /\ Cardinality(s) \in Nat /\ Cardinality(s) <= n
             /\ Cardinality(s) <= 0 => s = {}
             /\ s # {} => /\ s \ {AnyOf(s)} \in SUBSET (1..n)
                          /\ Cardinality(s \ {AnyOf(s)}) = Cardinality(s) - 1
  <2>1. IsFiniteSet(1..n) /\ Cardinality(1..n) = n
    BY FS_Interval
  <2>2. IsFiniteSet(s) /\ Cardinality(s) <= n
    <3>1. IsFiniteSet(s) /\ Cardinality(s) <= Cardinality(1..n)
      BY <2>1, FS_Subset
    <3> QED
      BY <2>1, <3>1
  <2>3. Cardinality(s) \in Nat
    BY <2>2, FS_CardinalityType
  <2>4. Cardinality(s) <= 0 => s = {}
    <3>1. Cardinality(s) = 0 => s = {}
      BY <2>2, FS_EmptySet
    <3> QED
      BY <2>3, <3>1
  <2>7. s \ {AnyOf(s)} \in SUBSET (1..n)
    OBVIOUS
  <2>5. s # {} => AnyOf(s) \in s
    BY DEF AnyOf
  <2>6. s # {} => Cardinality(s \ {AnyOf(s)}) = Cardinality(s) - 1
    BY <2>2, <2>5, FS_RemoveElement
  <2> QED
    BY <2>2, <2>3, <2>4, <2>6, <2>7
<1>2. ASSUME B # {} PROVE FALSE
  <2>1. PICK m \in B : \A j \in B : m <= j
    BY <1>2, LeastExists
  <2>2. m \in 0..n /\ m # 0
    <3> DEFINE g == [s \in Upto(0) |-> 0]
    <3>1. ASSUME NEW s \in Upto(0) PROVE s = {}
      <4>1. s \in SUBSET (1..n) /\ Cardinality(s) <= 0
        OBVIOUS
      <4>2. Cardinality(s) \in Nat
        BY <1>1, <4>1
      <4> QED
        BY <1>1, <4>1, <4>2
    <3>2. Reach(g, 0)
      BY <3>1
    <3> HIDE DEF Reach, g
    <3>3. \E first : Reach(first, 0)
      BY <3>2
    <3>4. m \in 0..n /\ ~\E none : Reach(none, m)
      BY <2>1
    <3> QED
      BY <3>3, <3>4
  <2>3. m - 1 \in 0..n /\ m - 1 \notin B
    <3>1. m - 1 \in 0..n /\ ~(m <= m - 1)
      BY <2>2
    <3> HIDE DEF B
    <3> QED
      BY <2>1, <3>1
  <2>4. PICK h : Reach(h, m - 1)
    BY <2>3
  <2> HIDE DEF B
  <2> DEFINE g == [s \in Upto(m) |-> Next(h, s)]
  <2>5. \A s \in Upto(m - 1) : h[s] = Next(h, s)
    <3> HIDE DEF Next, Upto
    <3> QED
      BY <2>4
  <2>6. ASSUME NEW s \in Upto(m - 1) PROVE s \in Upto(m)
    <3>1. s \in SUBSET (1..n) /\ Cardinality(s) <= m - 1
      OBVIOUS
    <3>2. Cardinality(s) \in Nat
      BY <1>1, <3>1
    <3> QED
      BY <2>2, <3>1, <3>2
  <2>7. ASSUME NEW s \in Upto(m), s # {} PROVE s \ {AnyOf(s)} \in Upto(m - 1)
    <3>1. s \in SUBSET (1..n) /\ Cardinality(s) <= m
      OBVIOUS
    <3>2. /\ s \ {AnyOf(s)} \in SUBSET (1..n) /\ Cardinality(s) \in Nat
          /\ Cardinality(s \ {AnyOf(s)}) = Cardinality(s) - 1
      BY <1>1, <2>7, <3>1
    <3> QED
      BY <2>2, <3>1, <3>2
  <2>8. \A s \in Upto(m - 1) : g[s] = h[s]
    <3> HIDE DEF Next, Upto
    <3> QED
      BY <2>5, <2>6
  <2>9. \A s \in Upto(m) : Next(g, s) = Next(h, s)
    <3> HIDE DEF Upto, g
    <3> QED
      BY <2>7, <2>8
  <2>10. Reach(g, m)
    <3>1. g = [s \in Upto(m) |-> Next(h, s)]
      OBVIOUS
    <3> HIDE DEF g, Upto, Next
    <3> QED
      BY <2>9, <3>1
  <2> QED
    BY <2>1, <2>10 DEF B
<1>3. \E g : Reach(g, n)
  <2> HIDE DEF Reach
  <2>1. n \in 0..n /\ B = {}
    BY <1>2
  <2> QED
    BY <2>1
<1>4. Upto(n) = SUBSET (1..n)
  <2>1. \A s \in SUBSET (1..n) : Cardinality(s) <= n
    BY <1>1
  <2> QED
    BY <2>1
<1>5. \E g : g = [s \in SUBSET (1..n) |-> Next(g, s)]
  <2> HIDE DEF Upto, Next
  <2> QED
    BY <1>3, <1>4
<1> QED
  BY <1>5 DEF SumsOf

\* What is true of the empty set of places and passes from all smaller ones to
\* a set is true of every set of places.
LEMMA LeastPlaces ==
    ASSUME NEW n \in Nat, NEW bad \in SUBSET SUBSET (1..n), bad # {}
    PROVE  \E s \in bad : \A x \in s : s \ {x} \notin bad
<1> DEFINE R == StrictSubsetOrdering(1..n)
<1>1. IsWellFoundedOn(R, SUBSET (1..n))
  <2>1. IsFiniteSet(1..n)
    BY FS_Interval
  <2>2. FiniteSubsetsOf(1..n) = SUBSET (1..n)
    BY <2>1, FS_FiniteSubsetsOfFinite
  <2> QED
    BY <2>2, FS_StrictSubsetOrderingWellFounded
<1>2. PICK s \in bad : \A t \in bad : ~(<<t, s>> \in R)
  <2> HIDE DEF R
  <2> QED
    BY <1>1, WFMin
<1>3. ASSUME NEW x \in s, s \ {x} \in bad PROVE FALSE
  <2>1. s \in SUBSET (1..n) /\ s \ {x} \in SUBSET (1..n) /\ s \ {x} \subseteq s /\ s \ {x} # s
    OBVIOUS
  <2>2. <<s \ {x}, s>> \in R
    BY <2>1 DEF StrictSubsetOrdering
  <2> QED
    BY <1>2, <1>3, <2>2
<1> QED
  BY <1>3

LEMMA SumsAre ==
    ASSUME NEW n \in Nat, NEW f \in [1..n -> Int]
    PROVE  /\ SumsOf(f, n)[{}] = 0
           /\ \A s \in SUBSET (1..n) :
                /\ SumsOf(f, n)[s] \in Int
                /\ s # {} => /\ AnyOf(s) \in s
                             /\ SumsOf(f, n)[s] = f[AnyOf(s)] + SumsOf(f, n)[s \ {AnyOf(s)}]
<1> DEFINE sums == SumsOf(f, n)
<1>1. sums = [s \in SUBSET (1..n) |-> IF s = {} THEN 0 ELSE f[AnyOf(s)] + sums[s \ {AnyOf(s)}]]
  BY SumsExist
<1> HIDE DEF sums
<1>2. /\ sums[{}] = 0
      /\ \A s \in SUBSET (1..n) : s # {} => sums[s] = f[AnyOf(s)] + sums[s \ {AnyOf(s)}]
  BY <1>1
<1>3. \A s \in SUBSET (1..n) : s # {} => AnyOf(s) \in s
  BY DEF AnyOf
<1> DEFINE bad == {s \in SUBSET (1..n) : sums[s] \notin Int}
<1>4. ASSUME bad # {} PROVE FALSE
  <2>1. PICK s \in bad : \A x \in s : s \ {x} \notin bad
    BY <1>4, LeastPlaces
  <2>2. s \in SUBSET (1..n) /\ sums[s] \notin Int /\ s # {}
    <3>1. sums[{}] \in Int
      BY <1>2
    <3> QED
      BY <2>1, <3>1
  <2>3. AnyOf(s) \in s /\ s \ {AnyOf(s)} \in SUBSET (1..n)
    BY <1>3, <2>2
  <2>4. sums[s \ {AnyOf(s)}] \in Int
    BY <2>1, <2>3
  <2>5. f[AnyOf(s)] \in Int
    BY <2>2, <2>3
  <2>6. sums[s] = f[AnyOf(s)] + sums[s \ {AnyOf(s)}]
    BY <1>2, <2>2
  <2> HIDE DEF bad
  <2> QED
    BY <2>2, <2>4, <2>5, <2>6
<1> QED
  BY <1>2, <1>3, <1>4 DEF sums

LEMMA SumIsInt ==
    ASSUME NEW n \in Nat, NEW f \in [1..n -> Int]
    PROVE  SumFunction(f) \in Int
<1>1. 1..n \in SUBSET (1..n)
  OBVIOUS
<1> QED
  BY <1>1, SumIsOfAll, SumsAre

\* The sum of greater numbers is greater.
LEMMA SumGrows ==
    ASSUME NEW n \in Nat, NEW f \in [1..n -> Int], NEW g \in [1..n -> Int],
           \A i \in 1..n : f[i] <= g[i], NEW k \in 1..n, f[k] < g[k]
    PROVE  SumFunction(f) < SumFunction(g)
<1> DEFINE F == SumsOf(f, n)
           G == SumsOf(g, n)
           bad == {s \in SUBSET (1..n) : ~(F[s] <= G[s] /\ (k \in s => F[s] < G[s]))}
<1>1. /\ F[{}] = 0
      /\ \A s \in SUBSET (1..n) :
           F[s] \in Int /\ (s # {} => AnyOf(s) \in s /\ F[s] = f[AnyOf(s)] + F[s \ {AnyOf(s)}])
  BY SumsAre
<1>2. /\ G[{}] = 0
      /\ \A s \in SUBSET (1..n) :
           G[s] \in Int /\ (s # {} => AnyOf(s) \in s /\ G[s] = g[AnyOf(s)] + G[s \ {AnyOf(s)}])
  BY SumsAre
<1> HIDE DEF F, G
<1>3. ASSUME bad # {} PROVE FALSE
  <2>1. PICK s \in bad : \A x \in s : s \ {x} \notin bad
    BY <1>3, LeastPlaces
  <2>2. s \in SUBSET (1..n) /\ s # {}
    <3>1. F[{}] <= G[{}] /\ k \notin {}
      BY <1>1, <1>2
    <3> QED
      BY <2>1, <3>1
  <2> DEFINE x == AnyOf(s)
             t == s \ {x}
  <2>3. /\ x \in s /\ x \in 1..n /\ t \in SUBSET (1..n)
        /\ F[s] = f[x] + F[t] /\ G[s] = g[x] + G[t]
        /\ k \in s => k = x \/ k \in t
    BY <1>1, <1>2, <2>2
  <2>4. F[t] <= G[t] /\ (k \in t => F[t] < G[t])
    BY <2>1, <2>3
  <2>5. ~(F[s] <= G[s] /\ (k \in s => F[s] < G[s]))
    BY <2>1
  <2>6. F[t] \in Int /\ G[t] \in Int /\ f[x] \in Int /\ g[x] \in Int /\ f[x] <= g[x]
    BY <1>1, <1>2, <2>3
  <2> HIDE DEF x, t
  <2>7. k = x => f[x] < g[x]
    OBVIOUS
  <2> QED
    BY <2>3, <2>4, <2>5, <2>6, <2>7
<1>4. 1..n \in SUBSET (1..n) /\ 1..n \notin bad
  BY <1>3
<1>5. F[1..n] < G[1..n]
  BY <1>4
<1> QED
  BY <1>5, SumIsOfAll DEF F, G

-----------------------------------------------------------------------------
(* The two sides of a search *)

LEMMA ListIs ==
    ASSUME NEW s, IsList(s)
    PROVE  Len(s) \in Nat /\ DOMAIN s = 1..Len(s) /\ \A i \in 1..Len(s) : s[i] \in ToSet(s)
<1>1. s \in Seq(ToSet(s))
  BY DEF IsList
<1>2. Len(s) \in Nat /\ DOMAIN s = 1..Len(s)
  BY <1>1
<1> QED
  BY <1>2 DEF ToSet

LEMMA HeldIs ==
    ASSUME NEW held \in Holdings
    PROVE  /\ DOMAIN held \in SUBSET Keys /\ DOMAIN held \in SUBSET Nat /\ IsFiniteSet(DOMAIN held)
           /\ Cardinality(DOMAIN held) <= Cardinality(Keys)
           /\ held = [k \in DOMAIN held |-> held[k]]
           /\ \A k \in DOMAIN held : held[k] \in Contents
<1>1. PICK K \in SUBSET Keys : held \in [K -> Contents]
  BY DEF Holdings
<1>2. DOMAIN held = K /\ \A k \in K : held[k] \in Contents
  BY <1>1
<1>3. IsFiniteSet(K) /\ Cardinality(K) <= Cardinality(Keys) /\ K \subseteq Nat
  BY KeysAssumption, FS_Subset
<1> QED
  BY <1>1, <1>2, <1>3

\* Documents with a score for each are hits, one for each document.
LEMMA HitsOf ==
    ASSUME NEW K \in SUBSET Nat, IsFiniteSet(K), NEW f \in [K -> Int]
    PROVE  LET hits == {Hit(k, f[k]) : k \in K}
           IN  IsHits(hits) /\ OnePerKey(hits) /\ KeysOf(hits) = K
<1> DEFINE hits == {Hit(k, f[k]) : k \in K}
           g == [k \in K |-> Hit(k, f[k])]
<1>1. g \in Surjection(K, hits)
  BY DEF Surjection
<1>2. \A k \in K : /\ Hit(k, f[k]).key = k /\ Hit(k, f[k]).score = f[k]
                   /\ Hit(k, f[k]) = Hit(Hit(k, f[k]).key, Hit(k, f[k]).score)
                   /\ k \in Nat /\ f[k] \in Int
  BY DEF Hit
<1>3. \A h \in hits : \E k \in K : h = Hit(k, f[k])
  OBVIOUS
<1>4. \A k \in K : Hit(k, f[k]) \in hits
  OBVIOUS
<1> HIDE DEF g, hits
<1>5. IsFiniteSet(hits)
  BY <1>1, FS_Surjection
<1>6. IsHits(hits)
  BY <1>2, <1>3, <1>5 DEF IsHits
<1>7. OnePerKey(hits)
  BY <1>2, <1>3 DEF OnePerKey
<1>8. KeysOf(hits) = K
  <2>1. \A k \in K : Hit(k, f[k]) \in hits /\ Hit(k, f[k]).key = k
    BY <1>2, <1>4
  <2>2. \A h \in hits : h.key \in K
    BY <1>2, <1>3
  <2>3. \A k \in K : \E h \in hits : h.key = k
    BY <2>1
  <2> QED
    BY <2>2, <2>3 DEF KeysOf
<1> QED
  BY <1>6, <1>7, <1>8 DEF hits

\* Fewer of such hits are such hits.
LEMMA FewerHits ==
    ASSUME NEW hits, IsHits(hits), NEW some \in SUBSET hits
    PROVE  /\ IsHits(some) /\ KeysOf(some) \subseteq KeysOf(hits)
           /\ OnePerKey(hits) => OnePerKey(some)
BY FS_Subset DEF IsHits, OnePerKey, KeysOf

\* What the engine finds is among the documents, scored once each.
LEMMA EngineFinds ==
    ASSUME NEW held \in Holdings, NEW required, IsList(required), NEW excluded, NEW mode,
           \A c \in ToSet(required), fields \in Contents : Relevance(c, fields) \in Int
    PROVE  LET hits == EngineSearch(required, excluded, mode, held)
           IN  /\ IsHits(hits) /\ OnePerKey(hits)
               /\ KeysOf(hits) = {k \in DOMAIN held : EngineMatches(required, excluded, mode, held[k])}
<1> DEFINE K == {k \in DOMAIN held : EngineMatches(required, excluded, mode, held[k])}
           f == [k \in K |-> IF required = <<>> THEN 1
                             ELSE SumFunction([i \in DOMAIN required |-> Relevance(required[i], held[k])])]
<1>1. K \in SUBSET Nat /\ IsFiniteSet(K) /\ \A k \in K : held[k] \in Contents
  <2>1. K \in SUBSET DOMAIN held
    OBVIOUS
  <2> HIDE DEF K
  <2> QED
    BY <2>1, HeldIs, FS_Subset
<1>2. EngineSearch(required, excluded, mode, held) = {Hit(k, f[k]) : k \in K}
  BY DEF EngineSearch
<1>3. ASSUME NEW k \in K PROVE f[k] \in Int
  <2> DEFINE g == [i \in DOMAIN required |-> Relevance(required[i], held[k])]
  <2>1. Len(required) \in Nat /\ DOMAIN required = 1..Len(required)
    BY ListIs
  <2>2. \A i \in 1..Len(required) : required[i] \in ToSet(required)
    BY ListIs
  <2>3. \A i \in 1..Len(required) : Relevance(required[i], held[k]) \in Int
    BY <1>1, <2>2
  <2>4. g \in [1..Len(required) -> Int]
    BY <2>1, <2>3
  <2> HIDE DEF g
  <2>5. SumFunction(g) \in Int
    BY <2>1, <2>4, SumIsInt
  <2> QED
    BY <2>5 DEF g
<1>4. f \in [K -> Int]
  <2> HIDE DEF K
  <2>1. f = [k \in K |-> f[k]]
    OBVIOUS
  <2> HIDE DEF f
  <2> QED
    BY <1>3, <2>1
<1> HIDE DEF f, K
<1> QED
  BY <1>1, <1>2, <1>4, HitsOf DEF K

\* The full-text side keeps to the filter.
LEMMA TextFinds ==
    ASSUME NEW q \in Questions, NEW held \in Holdings
    PROVE  LET hits == TextHits(q, held)
           IN  /\ IsHits(hits) /\ OnePerKey(hits)
               /\ \A h \in hits : h.key \in DOMAIN held /\ Passes(q.filter, held[h.key])
<1> DEFINE all == EngineSearch(q.subject.required, q.subject.excluded, q.subject.mode, held)
           hits == TextHits(q, held)
<1>1. IsHits(all) /\ OnePerKey(all) /\ KeysOf(all) \subseteq DOMAIN held
  BY ScoresAssumption, EngineFinds DEF IsScored
<1>2. hits \subseteq all /\ \A h \in hits : Passes(q.filter, held[h.key])
  BY DEF TextHits, FullTextSide
<1> HIDE DEF all, hits
<1>3. IsHits(hits) /\ OnePerKey(hits) /\ KeysOf(hits) \subseteq KeysOf(all)
  BY <1>1, <1>2, FewerHits
<1> QED
  BY <1>1, <1>2, <1>3 DEF hits, KeysOf

\* Finitely many sets of hits are one.
LEMMA UnionOfHits ==
    ASSUME NEW n \in Nat, NEW parts, DOMAIN parts = 1..n, \A i \in 1..n : IsHits(parts[i])
    PROVE  IsHits(UNION {parts[i] : i \in 1..n})
<1> DEFINE sets == {parts[i] : i \in 1..n}
           f == [i \in 1..n |-> parts[i]]
<1>1. f \in Surjection(1..n, sets)
  BY DEF Surjection
<1>2. \A s \in sets : IsHits(s)
  OBVIOUS
<1> HIDE DEF sets, f
<1>3. IsFiniteSet(sets)
  BY <1>1, FS_Interval, FS_Surjection
<1>4. IsFiniteSet(UNION sets)
  BY <1>2, <1>3, FS_UNION DEF IsHits
<1>5. IsHits(UNION sets)
  BY <1>2, <1>4 DEF IsHits
<1> QED
  BY <1>5 DEF sets

\* The documents with a vector like the target.
Near(field, query, held, eligible) ==
    {Hit(key, Similarity(field, query.target, held[key])) :
       key \in {k \in eligible : Similarity(field, query.target, held[k]) > 0}}

\* The nearest k of them.
LEMMA NearestFind ==
    ASSUME NEW q \in Questions, NEW held \in Holdings, NEW query \in ToSet(q.vectors.queries),
           NEW field \in ToSet(query.fields), NEW eligible \in SUBSET DOMAIN held
    PROVE  LET near == Near(field, query, held, eligible)
               hits == VectorHits(field, query, held, eligible)
           IN  /\ IsHits(near) /\ OnePerKey(near) /\ KeysOf(near) \subseteq eligible
               /\ IsHits(hits) /\ KeysOf(hits) \subseteq eligible
               /\ hits = {h \in near : Cardinality(Before(near, AboveIn(near), h)) < query.k}
<1> DEFINE K == {k \in eligible : Similarity(field, query.target, held[k]) > 0}
           f == [k \in K |-> Similarity(field, query.target, held[k])]
           near == Near(field, query, held, eligible)
           hits == VectorHits(field, query, held, eligible)
<1>1. /\ query.k \in Nat
      /\ \A fields \in Contents : Similarity(field, query.target, fields) \in Int
  BY ScoresAssumption DEF IsScored
<1>2. K \in SUBSET Nat /\ IsFiniteSet(K) /\ K \subseteq eligible /\ \A k \in K : held[k] \in Contents
  <2>1. K \in SUBSET DOMAIN held /\ K \subseteq eligible
    OBVIOUS
  <2> HIDE DEF K
  <2> QED
    BY <2>1, HeldIs, FS_Subset
<1>3. near = {Hit(k, f[k]) : k \in K}
  BY DEF Near
<1>4. f \in [K -> Int]
  BY <1>1, <1>2
<1>5. hits = TopK(near, query.k)
  BY DEF VectorHits, Near
<1> HIDE DEF K, f, near, hits
<1>6. IsHits(near) /\ OnePerKey(near) /\ KeysOf(near) = K
  BY <1>2, <1>3, <1>4, HitsOf
<1>7. hits = {h \in near : Cardinality(Before(near, AboveIn(near), h)) < query.k}
  BY <1>1, <1>5, <1>6, TopKIs
<1>8. hits \in SUBSET near
  BY <1>7
<1>9. IsHits(hits) /\ KeysOf(hits) \subseteq KeysOf(near)
  BY <1>6, <1>8, FewerHits
<1> QED
  BY <1>2, <1>6, <1>7, <1>9 DEF near, hits

\* What is among the nearest of many is among the nearest of fewer.
LEMMA NearestOfFewer ==
    ASSUME NEW q \in Questions, NEW held \in Holdings, NEW query \in ToSet(q.vectors.queries),
           NEW field \in ToSet(query.fields), NEW few \in SUBSET DOMAIN held,
           NEW h \in VectorHits(field, query, held, DOMAIN held), h.key \in few
    PROVE  h \in VectorHits(field, query, held, few)
<1> DEFINE many == Near(field, query, held, DOMAIN held)
           fewer == Near(field, query, held, few)
<1>1. /\ IsHits(many) /\ h \in many
      /\ Cardinality(Before(many, AboveIn(many), h)) < query.k
      /\ IsHits(fewer)
      /\ VectorHits(field, query, held, few) =
           {g \in fewer : Cardinality(Before(fewer, AboveIn(fewer), g)) < query.k}
  BY NearestFind
<1>2. fewer \subseteq many
  BY DEF Near
<1>3. h \in fewer
  <2>1. PICK k \in DOMAIN held : /\ Similarity(field, query.target, held[k]) > 0
                                 /\ h = Hit(k, Similarity(field, query.target, held[k]))
    BY <1>1 DEF Near
  <2>2. h.key = k
    BY <2>1 DEF Hit
  <2> QED
    BY <2>1, <2>2 DEF Near
<1> HIDE DEF many, fewer
<1>4. Before(fewer, AboveIn(fewer), h) \subseteq Before(many, AboveIn(many), h)
  BY <1>2 DEF Before, AboveIn
<1>5. IsFiniteSet(Before(many, AboveIn(many), h))
  BY <1>1, AboveIsOrder, BeforeGrows DEF IsHits
<1>6. /\ Cardinality(Before(fewer, AboveIn(fewer), h)) <= Cardinality(Before(many, AboveIn(many), h))
      /\ Cardinality(Before(fewer, AboveIn(fewer), h)) \in Nat
      /\ Cardinality(Before(many, AboveIn(many), h)) \in Nat
  BY <1>4, <1>5, FS_Subset, FS_CardinalityType
<1>7. query.k \in Nat
  BY ScoresAssumption DEF IsScored
<1> QED
  BY <1>1, <1>3, <1>6, <1>7

AllNearest(query, held, eligible) ==
    UNION {VectorHits(query.fields[i], query, held, eligible) : i \in DOMAIN query.fields}

LEMMA AllNearestFind ==
    ASSUME NEW q \in Questions, NEW held \in Holdings, NEW query \in ToSet(q.vectors.queries),
           NEW eligible \in SUBSET DOMAIN held
    PROVE  /\ IsHits(AllNearest(query, held, eligible))
           /\ KeysOf(AllNearest(query, held, eligible)) \subseteq eligible
           /\ \A i \in DOMAIN query.fields : query.fields[i] \in ToSet(query.fields)
<1>1. /\ Len(query.fields) \in Nat /\ DOMAIN query.fields = 1..Len(query.fields)
      /\ \A i \in 1..Len(query.fields) : query.fields[i] \in ToSet(query.fields)
  <2>1. IsList(query.fields)
    BY ScoresAssumption DEF IsScored
  <2> QED
    BY <2>1, ListIs
<1> DEFINE n == Len(query.fields)
           parts == [i \in 1..n |-> VectorHits(query.fields[i], query, held, eligible)]
<1>2. \A i \in 1..n : IsHits(parts[i]) /\ KeysOf(parts[i]) \subseteq eligible
  BY <1>1, NearestFind
<1>3. AllNearest(query, held, eligible) = UNION {parts[i] : i \in 1..n}
  BY <1>1 DEF AllNearest
<1>4. DOMAIN parts = 1..n /\ n \in Nat
  BY <1>1
<1> HIDE DEF parts, n
<1>5. IsHits(UNION {parts[i] : i \in 1..n})
  BY <1>2, <1>4, UnionOfHits
<1>6. KeysOf(UNION {parts[i] : i \in 1..n}) \subseteq eligible
  BY <1>2 DEF KeysOf
<1> QED
  BY <1>1, <1>3, <1>5, <1>6

\* The list of a vector query keeps to the filter, with one hit for each key.
LEMMA VectorFinds ==
    ASSUME NEW q \in Questions, NEW held \in Holdings, NEW query \in ToSet(q.vectors.queries),
           NEW mode
    PROVE  LET hits == VectorList(query, mode, q.filter, held)
           IN  /\ IsHits(hits) /\ OnePerKey(hits)
               /\ \A h \in hits : h.key \in DOMAIN held /\ Passes(q.filter, held[h.key])
<1> DEFINE passing == PassingKeys(q.filter, held)
           eligible == IF mode = "preFilter" THEN passing ELSE DOMAIN held
           all == AllNearest(query, held, eligible)
           hits == VectorList(query, mode, q.filter, held)
<1>1. hits = {h \in Best(all) : h.key \in passing}
  BY DEF VectorList, NearestPassing, Nearest, AllNearest
<1>2. \A k \in passing : k \in DOMAIN held /\ Passes(q.filter, held[k])
  BY DEF PassingKeys
<1>3. eligible \in SUBSET DOMAIN held
  BY DEF PassingKeys
<1> HIDE DEF passing, eligible
<1>4. IsHits(all)
  BY <1>3, AllNearestFind
<1> HIDE DEF all, hits
<1>5. IsHits(Best(all)) /\ OnePerKey(Best(all))
  BY <1>4, BestIs
<1>6. hits \in SUBSET Best(all) /\ \A h \in hits : h.key \in passing
  BY <1>1
<1>7. IsHits(hits) /\ OnePerKey(hits)
  BY <1>5, <1>6, FewerHits
<1> QED
  BY <1>2, <1>6, <1>7 DEF hits

\* Taking the nearest of what passes misses nothing that the filter leaves of
\* the nearest.
LEMMA FilteringFirstFindsMore ==
    ASSUME NEW q \in Questions, NEW held \in Holdings, NEW query \in ToSet(q.vectors.queries)
    PROVE  KeysOf(VectorList(query, "postFilter", q.filter, held))
             \subseteq KeysOf(VectorList(query, "preFilter", q.filter, held))
<1> DEFINE passing == PassingKeys(q.filter, held)
           wide == AllNearest(query, held, DOMAIN held)
           narrow == AllNearest(query, held, passing)
<1>1. /\ VectorList(query, "postFilter", q.filter, held) = {h \in Best(wide) : h.key \in passing}
      /\ VectorList(query, "preFilter", q.filter, held) = {h \in Best(narrow) : h.key \in passing}
  BY DEF VectorList, NearestPassing, Nearest, AllNearest
<1>2. passing \in SUBSET DOMAIN held
  BY DEF PassingKeys
<1> HIDE DEF passing
<1>3. IsHits(wide) /\ IsHits(narrow)
      /\ \A i \in DOMAIN query.fields : query.fields[i] \in ToSet(query.fields)
  BY <1>2, AllNearestFind
<1>4. ASSUME NEW h \in wide, h.key \in passing PROVE h \in narrow
  <2>1. PICK i \in DOMAIN query.fields : h \in VectorHits(query.fields[i], query, held, DOMAIN held)
    BY DEF AllNearest
  <2>2. h \in VectorHits(query.fields[i], query, held, passing)
    BY <1>2, <1>3, <1>4, <2>1, NearestOfFewer
  <2> QED
    BY <2>2 DEF AllNearest
<1> HIDE DEF wide, narrow
<1>5. Best(wide) \subseteq wide /\ KeysOf(Best(narrow)) = KeysOf(narrow)
  BY <1>3, BestIs
<1>6. ASSUME NEW h \in Best(wide), h.key \in passing
      PROVE  \E g \in Best(narrow) : g.key = h.key /\ g.key \in passing
  <2>1. h \in narrow
    BY <1>4, <1>5, <1>6
  <2>2. h.key \in KeysOf(Best(narrow))
    BY <1>5, <2>1 DEF KeysOf
  <2> QED
    BY <1>6, <2>2 DEF KeysOf
<1> QED
  BY <1>1, <1>6 DEF KeysOf

-----------------------------------------------------------------------------
(* Merging the sides *)

\* Weighted lists with one hit for each key.
IsSides(lists) ==
    /\ IsList(lists)
    /\ \A i \in 1..Len(lists) : /\ lists[i].weight \in Nat \ {0}
                                /\ IsHits(lists[i].hits) /\ OnePerKey(lists[i].hits)

HitsIn(lists) == UNION {lists[i].hits : i \in DOMAIN lists}

LEMMA HitsInSides ==
    ASSUME NEW lists, IsSides(lists)
    PROVE  /\ Len(lists) \in Nat /\ DOMAIN lists = 1..Len(lists)
           /\ IsHits(HitsIn(lists))
<1>1. Len(lists) \in Nat /\ DOMAIN lists = 1..Len(lists)
  BY ListIs DEF IsSides
<1> DEFINE n == Len(lists)
           parts == [i \in 1..n |-> lists[i].hits]
<1>2. \A i \in 1..n : IsHits(parts[i])
  BY DEF IsSides
<1>3. HitsIn(lists) = UNION {parts[i] : i \in 1..n}
  BY <1>1 DEF HitsIn
<1>4. DOMAIN parts = 1..n /\ n \in Nat
  BY <1>1
<1> HIDE DEF parts, n
<1>5. IsHits(UNION {parts[i] : i \in 1..n})
  BY <1>2, <1>4, UnionOfHits
<1> QED
  BY <1>1, <1>3, <1>5

WithText(text, lists) == <<[weight |-> 1, hits |-> text]>> \o lists

LEMMA WithTextIs ==
    ASSUME NEW text, IsHits(text), OnePerKey(text), NEW lists, IsSides(lists)
    PROVE  LET all == WithText(text, lists)
           IN  /\ IsSides(all)
               /\ \A list : list \in ToSet(all)
                    <=> list = [weight |-> 1, hits |-> text] \/ list \in ToSet(lists)
<1> DEFINE first == [weight |-> 1, hits |-> text]
           all == <<first>> \o lists
           T == {first} \cup ToSet(lists)
<1>1. lists \in Seq(T) /\ Len(lists) \in Nat /\ DOMAIN lists = 1..Len(lists)
      /\ \A i \in 1..Len(lists) : lists[i] \in ToSet(lists)
  <2>1. lists \in Seq(ToSet(lists))
    BY DEF IsSides, IsList
  <2> HIDE DEF first
  <2> QED
    BY <2>1, ListIs DEF IsSides
<1>2. <<first>> \in Seq(T) /\ Len(<<first>>) = 1 /\ <<first>>[1] = first
  <2> HIDE DEF first
  <2> QED
    OBVIOUS
<1>3. first.weight \in Nat \ {0} /\ IsHits(first.hits) /\ OnePerKey(first.hits)
  OBVIOUS
<1> HIDE DEF first, T
<1>4. /\ all \in Seq(T) /\ Len(all) = 1 + Len(lists)
      /\ \A i \in 1..1 + Len(lists) : all[i] = IF i <= 1 THEN <<first>>[i] ELSE lists[i - 1]
  BY <1>1, <1>2, ConcatProperties
<1>5. all[1] = first /\ \A i \in 1..Len(lists) : i + 1 \in 1..Len(all) /\ all[i + 1] = lists[i]
  BY <1>1, <1>2, <1>4
<1>6. \A i \in 1..Len(all) : i = 1 \/ (i - 1 \in 1..Len(lists) /\ all[i] = lists[i - 1])
  BY <1>1, <1>4
<1>7. DOMAIN all = 1..Len(all) /\ Len(all) \in Nat /\ 1 \in 1..Len(all)
  BY <1>1, <1>4
<1> HIDE DEF all
<1>8. \A list : list \in ToSet(all) <=> list = first \/ list \in ToSet(lists)
  <2> TAKE list
  <2>1. list \in ToSet(all) => list = first \/ list \in ToSet(lists)
    <3> SUFFICES ASSUME list \in ToSet(all) PROVE list = first \/ list \in ToSet(lists)
      OBVIOUS
    <3>1. PICK i \in 1..Len(all) : list = all[i]
      BY <1>7 DEF ToSet
    <3>2. CASE i = 1
      BY <1>5, <3>1, <3>2
    <3>3. CASE i # 1
      <4>1. i - 1 \in 1..Len(lists) /\ all[i] = lists[i - 1]
        BY <1>6, <3>3
      <4> QED
        BY <1>1, <3>1, <4>1
    <3> QED
      BY <3>2, <3>3
  <2>2. first \in ToSet(all)
    BY <1>5, <1>7 DEF ToSet
  <2>3. list \in ToSet(lists) => list \in ToSet(all)
    <3> SUFFICES ASSUME list \in ToSet(lists) PROVE list \in ToSet(all)
      OBVIOUS
    <3>1. PICK i \in 1..Len(lists) : list = lists[i]
      BY <1>1 DEF ToSet
    <3>2. i + 1 \in DOMAIN all /\ all[i + 1] = list
      BY <1>5, <1>7, <3>1
    <3> QED
      BY <3>2 DEF ToSet
  <2> QED
    BY <2>1, <2>2, <2>3
<1>9. IsList(all)
  <2>1. \A i \in 1..Len(all) : all[i] \in ToSet(all)
    BY <1>7 DEF ToSet
  <2>2. all = [i \in 1..Len(all) |-> all[i]]
    BY <1>4, <1>7
  <2> QED
    BY <1>7, <2>1, <2>2 DEF IsList
<1>10. \A i \in 1..Len(all) : all[i].weight \in Nat \ {0} /\ IsHits(all[i].hits) /\ OnePerKey(all[i].hits)
  BY <1>3, <1>5, <1>6 DEF IsSides
<1>11. IsSides(all)
  BY <1>9, <1>10 DEF IsSides
<1> QED
  BY <1>8, <1>11 DEF all, first, WithText

\* What a list adds follows from where it has the key.
LEMMA ContributionIs ==
    ASSUME NEW list, NEW key
    PROVE  LET rank == At(Ranked(list.hits), key)
           IN  Contribution(list, key) = IF rank = 0 THEN 0 ELSE list.weight * Reciprocal(rank)
BY Zenon DEF Contribution, At

LEMMA ContributionIsInt ==
    ASSUME NEW list, list.weight \in Nat \ {0}, IsHits(list.hits), OnePerKey(list.hits), NEW key
    PROVE  /\ At(Ranked(list.hits), key) \in 0..Cardinality(list.hits)
           /\ Cardinality(list.hits) \in Nat
           /\ Contribution(list, key) \in Int
<1>1. Cardinality(list.hits) \in Nat
  BY FS_CardinalityType DEF IsHits
<1>2. At(Ranked(list.hits), key) \in 0..Cardinality(list.hits)
  <2>1. CASE key \in KeysOf(list.hits)
    <3>1. PICK h \in list.hits : h.key = key
      BY <2>1 DEF KeysOf
    <3>2. At(Ranked(list.hits), key) \in 1..Cardinality(list.hits)
      BY <3>1, AtIs
    <3> QED
      BY <1>1, <3>2
  <2>2. CASE key \notin KeysOf(list.hits)
    BY <1>1, <2>2, AtIs
  <2> QED
    BY <2>1, <2>2
<1> DEFINE rank == At(Ranked(list.hits), key)
<1>3. rank \in Nat
  BY <1>1, <1>2
<1> HIDE DEF rank
<1>4. Reciprocal(rank) \in Int
  BY <1>3, ScaleAssumption DEF Reciprocal
<1>5. list.weight * Reciprocal(rank) \in Int
  BY <1>4
<1> QED
  BY <1>1, <1>2, <1>5, ContributionIs DEF rank

Sums(lists, key) == SumFunction([i \in DOMAIN lists |-> Contribution(lists[i], key)])

LEMMA FusedFinds ==
    ASSUME NEW lists, IsSides(lists)
    PROVE  /\ IsHits(Fused(lists)) /\ OnePerKey(Fused(lists))
           /\ KeysOf(Fused(lists)) = KeysOf(HitsIn(lists))
           /\ \A h \in Fused(lists) : h.score = Sums(lists, h.key)
<1> DEFINE K == KeysOf(HitsIn(lists))
           f == [k \in K |-> Sums(lists, k)]
<1>1. /\ Len(lists) \in Nat /\ DOMAIN lists = 1..Len(lists) /\ IsHits(HitsIn(lists))
  BY HitsInSides
<1>2. K \in SUBSET Nat /\ IsFiniteSet(K)
  <2> DEFINE g == [h \in HitsIn(lists) |-> h.key]
  <2>1. K \in SUBSET Nat
    BY <1>1 DEF IsHits, KeysOf
  <2>2. g \in Surjection(HitsIn(lists), K)
    BY DEF Surjection, KeysOf
  <2> HIDE DEF g, K
  <2> QED
    BY <1>1, <2>1, <2>2, FS_Surjection DEF IsHits
<1>3. ASSUME NEW k \in K PROVE Sums(lists, k) \in Int
  <2> DEFINE g == [i \in DOMAIN lists |-> Contribution(lists[i], k)]
  <2>1. \A i \in 1..Len(lists) : Contribution(lists[i], k) \in Int
    BY ContributionIsInt DEF IsSides
  <2>2. g \in [1..Len(lists) -> Int]
    BY <1>1, <2>1
  <2> HIDE DEF g
  <2>3. SumFunction(g) \in Int
    BY <1>1, <2>2, SumIsInt
  <2> QED
    BY <2>3 DEF g, Sums
<1>4. f \in [K -> Int]
  <2> HIDE DEF K
  <2> QED
    BY <1>3
<1>5. Fused(lists) = {Hit(k, f[k]) : k \in K}
  BY DEF Fused, HitsIn, Sums
<1>6. \A k \in K : f[k] = Sums(lists, k)
  OBVIOUS
<1> HIDE DEF f, K
<1>7. IsHits(Fused(lists)) /\ OnePerKey(Fused(lists)) /\ KeysOf(Fused(lists)) = K
  BY <1>2, <1>4, <1>5, HitsOf
<1>8. \A h \in Fused(lists) : h.score = Sums(lists, h.key)
  BY <1>5, <1>6 DEF Hit
<1> QED
  BY <1>7, <1>8 DEF K

\* Every hit of either side is in the merged hits, once.
LEMMA MergeFinds ==
    ASSUME NEW text, IsHits(text), OnePerKey(text), NEW lists, IsSides(lists)
    PROVE  LET merged == MergeScores(text, lists)
           IN  /\ IsHits(merged) /\ OnePerKey(merged)
               /\ KeysOf(merged) = KeysOf(text) \cup KeysOf(HitsIn(lists))
<1>1. IsHits(HitsIn(lists))
  BY HitsInSides
<1>2. CASE lists = <<>> \/ text = {}
  <2>1. MergeScores(text, lists) = Best(text \cup HitsIn(lists))
    BY <1>2 DEF MergeScores, HitsIn
  <2>2. IsHits(text \cup HitsIn(lists))
    BY <1>1, FS_Union DEF IsHits
  <2>3. KeysOf(text \cup HitsIn(lists)) = KeysOf(text) \cup KeysOf(HitsIn(lists))
    BY DEF KeysOf
  <2> QED
    BY <2>1, <2>2, <2>3, BestIs
<1>3. CASE ~(lists = <<>> \/ text = {})
  <2> DEFINE all == WithText(text, lists)
  <2>1. MergeScores(text, lists) = Fused(all)
    BY <1>3 DEF MergeScores, WithText
  <2>2. /\ IsSides(all)
        /\ \A list : list \in ToSet(all)
             <=> list = [weight |-> 1, hits |-> text] \/ list \in ToSet(lists)
    BY WithTextIs
  <2> DEFINE first == [weight |-> 1, hits |-> text]
  <2>0. first.hits = text
    OBVIOUS
  <2> HIDE DEF all, first
  <2>3. \A h : h \in HitsIn(all) <=> \E list \in ToSet(all) : h \in list.hits
    BY DEF HitsIn, ToSet
  <2>4. \A h : h \in HitsIn(lists) <=> \E list \in ToSet(lists) : h \in list.hits
    BY DEF HitsIn, ToSet
  <2>5. \A h : h \in HitsIn(all) <=> h \in text \/ h \in HitsIn(lists)
    <3> TAKE h
    <3>0. \A list : list \in ToSet(all) <=> list = first \/ list \in ToSet(lists)
      BY <2>2 DEF first
    <3>1. h \in HitsIn(all) => h \in text \/ h \in HitsIn(lists)
      BY <2>0, <2>3, <2>4, <3>0
    <3>2. h \in text => h \in HitsIn(all)
      BY <2>0, <2>3, <3>0
    <3>3. h \in HitsIn(lists) => h \in HitsIn(all)
      BY <2>3, <2>4, <3>0
    <3> QED
      BY <3>1, <3>2, <3>3
  <2>6. KeysOf(HitsIn(all)) = KeysOf(text) \cup KeysOf(HitsIn(lists))
    BY <2>5 DEF KeysOf
  <2> QED
    BY <2>1, <2>2, <2>6, FusedFinds
<1> QED
  BY <1>2, <1>3

\* A later rank counts for less.
LEMMA ReciprocalFalls ==
    ASSUME NEW a \in 1..Cardinality(Keys), NEW b \in 1..Cardinality(Keys), a < b,
           Cardinality(Keys) \in Nat
    PROVE  /\ Reciprocal(a) \in Nat /\ Reciprocal(b) \in Nat
           /\ 0 < Reciprocal(b) /\ Reciprocal(b) < Reciprocal(a)
<1> DEFINE p == Reciprocal(a)
           q == Reciprocal(b)
<1>1. Scale \in Nat \ {0} /\ Scale % (60 + a) = 0 /\ Scale % (60 + b) = 0
  BY ScaleAssumption
<1>2. a \in Nat /\ b \in Nat
  OBVIOUS
<1>3. p \in Int /\ q \in Int /\ Scale = (60 + a) * p /\ Scale = (60 + b) * q
  <2>1. \A n \in Nat \ {0} : /\ (Scale \div n) \in Int
                             /\ Scale = (n * (Scale \div n)) + (Scale % n)
    BY <1>1
  <2>2. 60 + a \in Nat \ {0} /\ 60 + b \in Nat \ {0}
    BY <1>2
  <2> QED
    BY <1>1, <2>1, <2>2 DEF Reciprocal
<1> HIDE DEF p, q
<1>4. p > 0 /\ q > 0
  BY <1>1, <1>2, <1>3
<1>5. q < p
  BY <1>1, <1>2, <1>3, <1>4
<1> QED
  BY <1>3, <1>4, <1>5 DEF p, q

-----------------------------------------------------------------------------
(* The result *)

\* The vector side is a weighted list for each query.
LEMMA SidesFind ==
    ASSUME NEW q \in Questions, NEW held \in Holdings
    PROVE  LET sides == VectorSide(q, held)
           IN  /\ IsSides(sides)
               /\ DOMAIN sides = DOMAIN q.vectors.queries
               /\ \A i \in DOMAIN sides : \A h \in sides[i].hits :
                    h.key \in DOMAIN held /\ Passes(q.filter, held[h.key])
<1> DEFINE queries == q.vectors.queries
           sides == VectorSide(q, held)
           List(query) == VectorList(query, q.vectors.mode, q.filter, held)
<1>1. /\ IsList(queries)
      /\ \A query \in ToSet(queries) : query.weight \in Nat \ {0}
  BY ScoresAssumption DEF IsScored
<1>2. /\ Len(queries) \in Nat /\ DOMAIN queries = 1..Len(queries)
      /\ \A i \in 1..Len(queries) : queries[i] \in ToSet(queries)
  BY <1>1, ListIs
<1>3. sides = [i \in DOMAIN queries |-> [weight |-> queries[i].weight, hits |-> List(queries[i])]]
  BY DEF VectorSide
<1>4. ASSUME NEW query \in ToSet(queries)
      PROVE  /\ IsHits(List(query)) /\ OnePerKey(List(query))
             /\ \A h \in List(query) : h.key \in DOMAIN held /\ Passes(q.filter, held[h.key])
  BY <1>4, VectorFinds
<1> HIDE DEF sides, queries, List
<1>5. DOMAIN sides = 1..Len(queries) /\ Len(sides) = Len(queries)
  BY <1>2, <1>3
<1>6. \A i \in 1..Len(queries) : sides[i].weight = queries[i].weight /\ sides[i].hits = List(queries[i])
  BY <1>2, <1>3
<1>7. IsList(sides)
  <2>1. \A i \in 1..Len(sides) : sides[i] \in ToSet(sides)
    BY <1>5 DEF ToSet
  <2>2. sides = [i \in 1..Len(sides) |-> sides[i]]
    BY <1>2, <1>3, <1>5
  <2> QED
    BY <1>2, <1>5, <2>1, <2>2 DEF IsList
<1>8. \A i \in 1..Len(sides) : /\ sides[i].weight \in Nat \ {0}
                               /\ IsHits(sides[i].hits) /\ OnePerKey(sides[i].hits)
  BY <1>1, <1>2, <1>4, <1>5, <1>6
<1>9. \A i \in DOMAIN sides : \A h \in sides[i].hits :
        h.key \in DOMAIN held /\ Passes(q.filter, held[h.key])
  BY <1>2, <1>4, <1>5, <1>6
<1> QED
  BY <1>2, <1>5, <1>7, <1>8, <1>9 DEF sides, queries, IsSides

\* What a search finds passes its filter, and is what its sides find.
LEMMA ScoredFinds ==
    ASSUME NEW q \in Questions, NEW held \in Holdings
    PROVE  LET hits == Scored(q, held)
           IN  /\ IsHits(hits) /\ OnePerKey(hits)
               /\ KeysOf(hits) = KeysOf(TextHits(q, held)) \cup KeysOf(HitsIn(VectorSide(q, held)))
               /\ \A h \in hits : h.key \in DOMAIN held /\ Passes(q.filter, held[h.key])
<1> DEFINE text == TextHits(q, held)
           sides == VectorSide(q, held)
           hits == Scored(q, held)
<1>1. hits = MergeScores(text, sides)
  BY DEF Scored
<1>2. /\ IsHits(text) /\ OnePerKey(text)
      /\ \A h \in text : h.key \in DOMAIN held /\ Passes(q.filter, held[h.key])
  BY TextFinds
<1>3. /\ IsSides(sides)
      /\ \A i \in DOMAIN sides : \A h \in sides[i].hits :
           h.key \in DOMAIN held /\ Passes(q.filter, held[h.key])
  BY SidesFind
<1> HIDE DEF text, sides, hits
<1>4. IsHits(hits) /\ OnePerKey(hits) /\ KeysOf(hits) = KeysOf(text) \cup KeysOf(HitsIn(sides))
  BY <1>1, <1>2, <1>3, MergeFinds
<1>5. ASSUME NEW k \in KeysOf(hits) PROVE k \in DOMAIN held /\ Passes(q.filter, held[k])
  <2>1. CASE k \in KeysOf(text)
    BY <1>2, <2>1 DEF KeysOf
  <2>2. CASE k \in KeysOf(HitsIn(sides))
    <3>1. PICK i \in DOMAIN sides : \E h \in sides[i].hits : h.key = k
      BY <2>2 DEF KeysOf, HitsIn
    <3> QED
      BY <1>3, <3>1
  <2> QED
    BY <1>4, <1>5, <2>1, <2>2
<1> QED
  BY <1>4, <1>5 DEF text, sides, hits, KeysOf

\* A relation that leaves some of S apart and the others in a row.
WeakOrder(S, R) ==
    /\ \A a \in S : <<a, a>> \notin R
    /\ \A a, b \in S : <<a, b>> \in R => <<b, a>> \notin R
    /\ \A a, b, c \in S : <<a, b>> \in R => <<a, c>> \in R \/ <<c, b>> \in R

LEMMA SortKeysInOrder ==
    /\ \A a \in SortKeys : ~SortKeyLess(a, a)
    /\ \A a, b \in SortKeys : SortKeyLess(a, b) => ~SortKeyLess(b, a)
    /\ \A a, b, c \in SortKeys : SortKeyLess(a, b) => SortKeyLess(a, c) \/ SortKeyLess(c, b)
<1>1. \A a \in SortKeys : KindRank(a) \in Int
  BY SortKeysAssumption
<1>2. \A a \in SortKeys : KindRank(a) = 3 => AsF64(a[1]) \in Int
  BY SortKeysAssumption
<1>3. \A a \in SortKeys : KindRank(a) = 4 => a[1].str \in SortTexts
  BY DEF SortTexts
<1>4. \A a, b \in SortKeys :
        SortKeyLess(a, b) <=> \/ KindRank(a) < KindRank(b)
                              \/ /\ KindRank(a) = KindRank(b) /\ KindRank(a) = 2
                                 /\ ~a[1].bool /\ b[1].bool
                              \/ /\ KindRank(a) = KindRank(b) /\ KindRank(a) = 3
                                 /\ AsF64(a[1]) < AsF64(b[1])
                              \/ /\ KindRank(a) = KindRank(b) /\ KindRank(a) = 4
                                 /\ TextBefore(a[1].str, b[1].str)
  BY <1>1 DEF SortKeyLess
<1>5. \A x, y, z \in SortTexts :
        /\ ~TextBefore(x, x)
        /\ TextBefore(x, y) => ~TextBefore(y, x)
        /\ TextBefore(x, y) => TextBefore(x, z) \/ TextBefore(z, y)
  BY TextOrderAssumption
<1>6. \A a \in SortKeys : ~SortKeyLess(a, a)
  BY <1>1, <1>2, <1>3, <1>4, <1>5
<1>7. ASSUME NEW a \in SortKeys, NEW b \in SortKeys, SortKeyLess(a, b)
      PROVE  ~SortKeyLess(b, a)
  BY <1>1, <1>2, <1>3, <1>4, <1>5, <1>7
<1>8. ASSUME NEW a \in SortKeys, NEW b \in SortKeys, NEW c \in SortKeys, SortKeyLess(a, b)
      PROVE  SortKeyLess(a, c) \/ SortKeyLess(c, b)
  <2>1. CASE KindRank(c) # KindRank(a)
    BY <1>1, <1>4, <1>8, <2>1
  <2>2. CASE KindRank(c) = KindRank(a) /\ KindRank(a) # KindRank(b)
    BY <1>1, <1>4, <1>8, <2>2
  <2>3. CASE KindRank(c) = KindRank(a) /\ KindRank(a) = KindRank(b)
    BY <1>1, <1>2, <1>3, <1>4, <1>5, <1>8, <2>3
  <2> QED
    BY <2>1, <2>2, <2>3
<1> QED
  BY <1>6, <1>7, <1>8

\* One clause orders hits weakly.
LEMMA ClauseInOrder ==
    ASSUME NEW q \in Questions, NEW held \in Holdings, NEW hits, IsHits(hits),
           KeysOf(hits) \subseteq DOMAIN held, NEW clause \in ToSet(q.orderby)
    PROVE  /\ \A a \in hits : ~ClauseLess(clause, held, a, a)
           /\ \A a, b \in hits : ClauseLess(clause, held, a, b) => ~ClauseLess(clause, held, b, a)
           /\ \A a, b, c \in hits : ClauseLess(clause, held, a, b) =>
                ClauseLess(clause, held, a, c) \/ ClauseLess(clause, held, c, b)
<1> DEFINE Value(h) == FirstResolved(held[h.key], clause.field)
<1>1. \A h \in hits : h.score \in Int
  BY DEF IsHits
<1>2. \A h \in hits : Value(h) \in SortKeys
  <2>1. \A h \in hits : held[h.key] \in Contents
    BY HeldIs DEF KeysOf
  <2>2. clause.field \in UNION {{c.field : c \in ToSet(r.orderby)} : r \in Questions}
    OBVIOUS
  <2> QED
    BY <2>1, <2>2 DEF SortKeys
<1>3. CASE clause.field = Score
  <2>1. \A a, b \in hits : ClauseLess(clause, held, a, b)
                             <=> IF clause.descending THEN b.score < a.score ELSE a.score < b.score
    BY <1>3 DEF ClauseLess
  <2> QED
    BY <1>1, <2>1
<1>4. CASE clause.field # Score
  <2>1. \A a, b \in hits : ClauseLess(clause, held, a, b)
                             <=> IF clause.descending THEN SortKeyLess(Value(b), Value(a))
                                 ELSE SortKeyLess(Value(a), Value(b))
    BY <1>4 DEF ClauseLess
  <2> HIDE DEF Value
  <2>2. \A a \in hits : ~SortKeyLess(Value(a), Value(a))
    BY <1>2, SortKeysInOrder
  <2>3. \A a, b \in hits : SortKeyLess(Value(a), Value(b)) => ~SortKeyLess(Value(b), Value(a))
    BY <1>2, SortKeysInOrder
  <2>4. \A a, b, c \in hits : SortKeyLess(Value(a), Value(b)) =>
                                SortKeyLess(Value(a), Value(c)) \/ SortKeyLess(Value(c), Value(b))
    BY <1>2, SortKeysInOrder
  <2> QED
    BY <2>1, <2>2, <2>3, <2>4
<1> QED
  BY <1>3, <1>4

\* Which of two hits the clauses, or without any the scores, put first.
ComesFirst(q, held, a, b) ==
    IF q.orderby = <<>> THEN RanksAbove(a, b) ELSE OrderedBefore(q.orderby, held, a, b)

OrderOf(q, held, hits) == {p \in hits \X hits : ComesFirst(q, held, p[1], p[2])}

Less(q, held, i, a, b) == ClauseLess(q.orderby[i], held, a, b)

\* The first m clauses tell nothing, or all before the i-th, which does.
Tied(q, held, m, a, b) == \A j \in 1..m : ~Less(q, held, j, a, b) /\ ~Less(q, held, j, b, a)
Wins(q, held, i, a, b) ==
    i \in 1..Len(q.orderby) /\ Tied(q, held, i - 1, a, b) /\ Less(q, held, i, a, b)

LEMMA FirstTelling ==
    ASSUME NEW q \in Questions, NEW held \in Holdings, NEW a, NEW b
    PROVE  /\ Len(q.orderby) \in Nat
           /\ \/ /\ Tied(q, held, Len(q.orderby), a, b)
                 /\ OrderedBefore(q.orderby, held, a, b) <=> a.key < b.key
              \/ \E i \in 1..Len(q.orderby) :
                   /\ Tied(q, held, i - 1, a, b)
                   /\ Less(q, held, i, a, b) \/ Less(q, held, i, b, a)
                   /\ OrderedBefore(q.orderby, held, a, b) <=> Less(q, held, i, a, b)
<1> DEFINE n == Len(q.orderby)
           telling == {i \in DOMAIN q.orderby : Less(q, held, i, a, b) \/ Less(q, held, i, b, a)}
<1>1. n \in Nat /\ DOMAIN q.orderby = 1..n
  BY ScoresAssumption, ListIs DEF IsScored
<1>2. OrderedBefore(q.orderby, held, a, b)
        <=> IF telling = {} THEN a.key < b.key
            ELSE \E i \in telling : (\A j \in telling : i <= j) /\ Less(q, held, i, a, b)
  BY DEF OrderedBefore, Less
<1>3. telling = {i \in 1..n : Less(q, held, i, a, b) \/ Less(q, held, i, b, a)}
  BY <1>1
<1> HIDE DEF telling, n
<1>4. CASE telling = {}
  BY <1>1, <1>2, <1>3, <1>4 DEF n, Tied
<1>5. CASE telling # {}
  <2>1. telling \subseteq 0..n
    BY <1>1, <1>3
  <2>2. PICK i \in telling : \A j \in telling : i <= j
    BY <1>1, <1>5, <2>1, LeastExists
  <2>3. i \in 1..n /\ (Less(q, held, i, a, b) \/ Less(q, held, i, b, a))
    BY <1>3, <2>2
  <2>4. Tied(q, held, i - 1, a, b)
    <3> SUFFICES ASSUME NEW j \in 1..i - 1
                 PROVE  ~Less(q, held, j, a, b) /\ ~Less(q, held, j, b, a)
      BY DEF Tied
    <3>1. j \in 1..n /\ ~(i <= j)
      BY <1>1, <2>3
    <3> QED
      BY <1>3, <2>2, <3>1
  <2>5. OrderedBefore(q.orderby, held, a, b) <=> Less(q, held, i, a, b)
    <3>1. \A k \in telling : (\A j \in telling : k <= j) => k = i
      <4> TAKE k \in telling
      <4>1. i \in Int /\ k \in Int
        BY <1>1, <1>3, <2>2
      <4> QED
        BY <2>2, <4>1
    <3> QED
      BY <1>2, <1>5, <2>2, <3>1
  <2> QED
    BY <1>1, <2>3, <2>4, <2>5 DEF n
<1> QED
  BY <1>4, <1>5

LEMMA LessInOrder ==
    ASSUME NEW q \in Questions, NEW held \in Holdings, NEW hits, IsHits(hits),
           KeysOf(hits) \subseteq DOMAIN held, NEW i \in 1..Len(q.orderby)
    PROVE  /\ \A a \in hits : ~Less(q, held, i, a, a)
           /\ \A a, b \in hits : Less(q, held, i, a, b) => ~Less(q, held, i, b, a)
           /\ \A a, b, c \in hits :
                Less(q, held, i, a, b) => Less(q, held, i, a, c) \/ Less(q, held, i, c, b)
<1>1. q.orderby[i] \in ToSet(q.orderby)
  BY ScoresAssumption, ListIs DEF IsScored
<1> DEFINE clause == q.orderby[i]
<1>2. \A a, b \in hits : Less(q, held, i, a, b) <=> ClauseLess(clause, held, a, b)
  BY DEF Less
<1> HIDE DEF clause
<1>3. /\ \A a \in hits : ~ClauseLess(clause, held, a, a)
      /\ \A a, b \in hits : ClauseLess(clause, held, a, b) => ~ClauseLess(clause, held, b, a)
      /\ \A a, b, c \in hits : ClauseLess(clause, held, a, b) =>
            ClauseLess(clause, held, a, c) \/ ClauseLess(clause, held, c, b)
  <2>1. clause \in ToSet(q.orderby)
    BY <1>1 DEF clause
  <2> QED
    BY <2>1, ClauseInOrder
<1> QED
  BY <1>2, <1>3

\* A hit is before another when a clause says so or, without one, its key.
LEMMA BeforeIs ==
    ASSUME NEW q \in Questions, NEW held \in Holdings, NEW hits, IsHits(hits),
           KeysOf(hits) \subseteq DOMAIN held, NEW a \in hits, NEW b \in hits
    PROVE  /\ OrderedBefore(q.orderby, held, a, b)
                <=> \/ \E i \in 1..Len(q.orderby) : Wins(q, held, i, a, b)
                    \/ Tied(q, held, Len(q.orderby), a, b) /\ a.key < b.key
           /\ \/ Tied(q, held, Len(q.orderby), a, b)
              \/ \E i \in 1..Len(q.orderby) : Wins(q, held, i, a, b) \/ Wins(q, held, i, b, a)
<1> DEFINE n == Len(q.orderby)
<1>1. n \in Nat /\ DOMAIN q.orderby = 1..n
  BY ScoresAssumption, ListIs DEF IsScored
<1>2. \A i \in 1..n : Less(q, held, i, a, b) => ~Less(q, held, i, b, a)
  BY LessInOrder
<1>3. CASE /\ Tied(q, held, n, a, b)
           /\ OrderedBefore(q.orderby, held, a, b) <=> a.key < b.key
  <2>1. \A i \in 1..n : ~Wins(q, held, i, a, b)
    BY <1>3 DEF Tied, Wins
  <2> QED
    BY <1>3, <2>1
<1>4. ASSUME NEW i \in 1..n, Tied(q, held, i - 1, a, b),
             Less(q, held, i, a, b) \/ Less(q, held, i, b, a),
             OrderedBefore(q.orderby, held, a, b) <=> Less(q, held, i, a, b)
      PROVE  /\ OrderedBefore(q.orderby, held, a, b)
                  <=> \/ \E k \in 1..n : Wins(q, held, k, a, b)
                      \/ Tied(q, held, n, a, b) /\ a.key < b.key
             /\ \E k \in 1..n : Wins(q, held, k, a, b) \/ Wins(q, held, k, b, a)
  <2>1. ~Tied(q, held, n, a, b)
    BY <1>4 DEF Tied
  <2>2. Less(q, held, i, a, b) => Wins(q, held, i, a, b)
    BY <1>4 DEF Wins
  <2>3. Less(q, held, i, b, a) => Wins(q, held, i, b, a)
    BY <1>4 DEF Wins, Tied
  <2>4. ASSUME NEW k \in 1..n, Wins(q, held, k, a, b) PROVE Less(q, held, i, a, b)
    <3>1. i \in Int /\ k \in Int /\ 1 <= i /\ 1 <= k
      BY <1>1
    <3>2. ~(k < i)
      <4> SUFFICES ASSUME k < i PROVE FALSE
        OBVIOUS
      <4>1. k \in 1..i - 1
        BY <3>1
      <4> QED
        BY <1>4, <2>4, <4>1 DEF Wins, Tied
    <3>3. ~(i < k)
      <4> SUFFICES ASSUME i < k PROVE FALSE
        OBVIOUS
      <4>1. i \in 1..k - 1
        BY <3>1
      <4> QED
        BY <1>4, <2>4, <4>1 DEF Wins, Tied
    <3>4. i = k
      BY <3>1, <3>2, <3>3
    <3> QED
      BY <2>4, <3>4 DEF Wins
  <2> QED
    BY <1>4, <2>1, <2>2, <2>3, <2>4
<1> QED
  BY <1>3, <1>4, FirstTelling

\* Ties are transitive, and nothing tells between what is tied.
LEMMA TiesHold ==
    ASSUME NEW q \in Questions, NEW held \in Holdings, NEW hits, IsHits(hits),
           KeysOf(hits) \subseteq DOMAIN held,
           NEW a \in hits, NEW b \in hits, NEW c \in hits, NEW m \in 0..Len(q.orderby),
           Tied(q, held, m, a, b), Tied(q, held, m, b, c)
    PROVE  Tied(q, held, m, a, c)
<1>1. Len(q.orderby) \in Nat
  BY ScoresAssumption, ListIs DEF IsScored
<1> SUFFICES ASSUME NEW j \in 1..m
             PROVE  ~Less(q, held, j, a, c) /\ ~Less(q, held, j, c, a)
  BY DEF Tied
<1>2. j \in 1..Len(q.orderby)
  BY <1>1
<1>3. /\ Less(q, held, j, a, c) => Less(q, held, j, a, b) \/ Less(q, held, j, b, c)
      /\ Less(q, held, j, c, a) => Less(q, held, j, c, b) \/ Less(q, held, j, b, a)
  BY <1>2, LessInOrder
<1> QED
  BY <1>3 DEF Tied

LEMMA BeforeIsTransitive ==
    ASSUME NEW q \in Questions, NEW held \in Holdings, NEW hits, IsHits(hits),
           KeysOf(hits) \subseteq DOMAIN held,
           NEW a \in hits, NEW b \in hits, NEW c \in hits,
           OrderedBefore(q.orderby, held, a, b), OrderedBefore(q.orderby, held, b, c)
    PROVE  OrderedBefore(q.orderby, held, a, c)
<1> DEFINE n == Len(q.orderby)
<1>1. /\ n \in Nat
      /\ a.key \in Int /\ b.key \in Int /\ c.key \in Int
  BY ScoresAssumption, ListIs DEF IsScored, IsHits
<1>2. \A i \in 1..n :
        /\ Less(q, held, i, a, b) => Less(q, held, i, a, c) \/ Less(q, held, i, c, b)
        /\ Less(q, held, i, b, c) => Less(q, held, i, b, a) \/ Less(q, held, i, a, c)
        /\ Less(q, held, i, b, c) => ~Less(q, held, i, c, b)
  BY LessInOrder
<1>3. SUFFICES \/ \E i \in 1..n : Wins(q, held, i, a, c)
               \/ Tied(q, held, n, a, c) /\ a.key < c.key
  BY BeforeIs
\* The first clause that tells a from b, and nothing earlier b from c.
<1>4. ASSUME NEW i \in 1..n, Wins(q, held, i, a, b), Tied(q, held, i - 1, b, c),
             ~Less(q, held, i, c, b)
      PROVE  Wins(q, held, i, a, c)
  <2>1. i - 1 \in 0..n
    BY <1>1
  <2>2. Tied(q, held, i - 1, a, c)
    BY <1>4, <2>1, TiesHold DEF Wins
  <2> QED
    BY <1>2, <1>4, <2>2 DEF Wins
<1>5. ASSUME NEW i \in 1..n, Wins(q, held, i, b, c), Tied(q, held, i - 1, a, b),
             ~Less(q, held, i, b, a)
      PROVE  Wins(q, held, i, a, c)
  <2>1. i - 1 \in 0..n
    BY <1>1
  <2>2. Tied(q, held, i - 1, a, c)
    BY <1>5, <2>1, TiesHold DEF Wins
  <2> QED
    BY <1>2, <1>5, <2>2 DEF Wins
<1>6. ASSUME NEW m \in Int, NEW k \in Int, k <= m, NEW x, NEW y, Tied(q, held, m, x, y)
      PROVE  Tied(q, held, k, x, y)
  BY <1>6 DEF Tied
<1>7. ASSUME NEW i \in 1..n, Wins(q, held, i, a, b), NEW j \in 1..n, Wins(q, held, j, b, c)
      PROVE  \E k \in 1..n : Wins(q, held, k, a, c)
  <2>1. i \in Int /\ j \in Int /\ 1 <= i /\ 1 <= j
    BY <1>1
  <2>2. CASE i < j
    <3>1. Tied(q, held, i - 1, b, c)
      BY <1>6, <1>7, <2>1, <2>2 DEF Wins
    <3>2. i \in 1..j - 1
      BY <2>1, <2>2
    <3>3. ~Less(q, held, i, c, b)
      BY <1>7, <3>2 DEF Wins, Tied
    <3> QED
      BY <1>4, <1>7, <3>1, <3>3
  <2>3. CASE i = j
    BY <1>2, <1>4, <1>7, <2>3 DEF Wins
  <2>4. CASE j < i
    <3>1. Tied(q, held, j - 1, a, b)
      BY <1>6, <1>7, <2>1, <2>4 DEF Wins
    <3>2. j \in 1..i - 1
      BY <2>1, <2>4
    <3>3. ~Less(q, held, j, b, a)
      BY <1>7, <3>2 DEF Wins, Tied
    <3> QED
      BY <1>5, <1>7, <3>1, <3>3
  <2> QED
    BY <2>1, <2>2, <2>3, <2>4
<1>8. ASSUME NEW i \in 1..n, Wins(q, held, i, a, b), Tied(q, held, n, b, c)
      PROVE  \E k \in 1..n : Wins(q, held, k, a, c)
  <2>1. i \in Int /\ i - 1 \in Int /\ i - 1 <= n
    BY <1>1
  <2>2. Tied(q, held, i - 1, b, c)
    BY <1>1, <1>6, <1>8, <2>1
  <2> QED
    BY <1>4, <1>8, <2>2 DEF Tied
<1>9. ASSUME NEW i \in 1..n, Wins(q, held, i, b, c), Tied(q, held, n, a, b)
      PROVE  \E k \in 1..n : Wins(q, held, k, a, c)
  <2>1. i \in Int /\ i - 1 \in Int /\ i - 1 <= n
    BY <1>1
  <2>2. Tied(q, held, i - 1, a, b)
    BY <1>1, <1>6, <1>9, <2>1
  <2> QED
    BY <1>5, <1>9, <2>2 DEF Tied
<1>10. ASSUME Tied(q, held, n, a, b), a.key < b.key, Tied(q, held, n, b, c), b.key < c.key
       PROVE  Tied(q, held, n, a, c) /\ a.key < c.key
  <2>1. n \in 0..n
    BY <1>1
  <2>2. Tied(q, held, n, a, c)
    BY <1>10, <2>1, TiesHold
  <2> QED
    BY <1>1, <1>10, <2>2
<1>11. \/ \E i \in 1..n : Wins(q, held, i, a, b)
       \/ Tied(q, held, n, a, b) /\ a.key < b.key
  BY BeforeIs
<1>12. \/ \E i \in 1..n : Wins(q, held, i, b, c)
       \/ Tied(q, held, n, b, c) /\ b.key < c.key
  BY BeforeIs
<1> HIDE DEF n
<1> QED
  BY <1>7, <1>8, <1>9, <1>10, <1>11, <1>12

\* The order of a result is strict, whatever it is ordered by.
LEMMA OrderIsStrict ==
    ASSUME NEW q \in Questions, NEW held \in Holdings, NEW hits, IsHits(hits), OnePerKey(hits),
           KeysOf(hits) \subseteq DOMAIN held
    PROVE  /\ StrictOrder(hits, OrderOf(q, held, hits))
           /\ \A a, b \in hits : <<a, b>> \in OrderOf(q, held, hits) <=> ComesFirst(q, held, a, b)
<1>1. \A a, b \in hits : <<a, b>> \in OrderOf(q, held, hits) <=> ComesFirst(q, held, a, b)
  BY DEF OrderOf
<1>2. CASE q.orderby = <<>>
  <2>1. \A a, b \in hits : <<a, b>> \in OrderOf(q, held, hits) <=> <<a, b>> \in AboveIn(hits)
    BY <1>1, <1>2, AboveIsOrder DEF ComesFirst
  <2>2. StrictOrder(hits, AboveIn(hits))
    BY AboveIsOrder
  <2> QED
    BY <1>1, <2>1, <2>2 DEF StrictOrder
<1>3. CASE q.orderby # <<>>
  <2>1. \A a, b \in hits : <<a, b>> \in OrderOf(q, held, hits)
                             <=> OrderedBefore(q.orderby, held, a, b)
    BY <1>1, <1>3 DEF ComesFirst
  <2>2. \A a \in hits : a.key \in Int
    BY DEF IsHits
  <2>4. ASSUME NEW a \in hits PROVE ~OrderedBefore(q.orderby, held, a, a)
    <3>1. \A i \in 1..Len(q.orderby) : ~Less(q, held, i, a, a)
      BY LessInOrder
    <3>2. \A i \in 1..Len(q.orderby) : ~Wins(q, held, i, a, a)
      BY <3>1 DEF Wins
    <3> QED
      BY <2>2, <3>2, BeforeIs
  <2>5. \A a, b, c \in hits : OrderedBefore(q.orderby, held, a, b) /\ OrderedBefore(q.orderby, held, b, c)
                                => OrderedBefore(q.orderby, held, a, c)
    BY BeforeIsTransitive
  <2>6. ASSUME NEW a \in hits, NEW b \in hits
        PROVE  a = b \/ OrderedBefore(q.orderby, held, a, b) \/ OrderedBefore(q.orderby, held, b, a)
    <3>1. CASE Tied(q, held, Len(q.orderby), a, b)
      <4>1. Tied(q, held, Len(q.orderby), b, a)
        BY <3>1 DEF Tied
      <4>2. a = b \/ a.key < b.key \/ b.key < a.key
        BY <2>2 DEF OnePerKey
      <4> QED
        BY <3>1, <4>1, <4>2, BeforeIs
    <3>2. CASE ~Tied(q, held, Len(q.orderby), a, b)
      <4>1. PICK i \in 1..Len(q.orderby) : Wins(q, held, i, a, b) \/ Wins(q, held, i, b, a)
        BY <3>2, BeforeIs
      <4> QED
        BY <4>1, BeforeIs
    <3> QED
      BY <3>1, <3>2
  <2> QED
    BY <1>1, <2>1, <2>4, <2>5, <2>6 DEF StrictOrder
<1> QED
  BY <1>2, <1>3

LEMMA OrderScoredIsSorted ==
    ASSUME NEW q \in Questions, NEW held \in Holdings, NEW hits, IsHits(hits), OnePerKey(hits),
           KeysOf(hits) \subseteq DOMAIN held
    PROVE  SortedBy(OrderScored(q.orderby, hits, held), hits, OrderOf(q, held, hits))
<1> DEFINE R == OrderOf(q, held, hits)
           t == OrderScored(q.orderby, hits, held)
<1>1. /\ StrictOrder(hits, R) /\ IsFiniteSet(hits)
      /\ \A a, b \in hits : <<a, b>> \in R <=> ComesFirst(q, held, a, b)
  BY OrderIsStrict DEF IsHits
<1> HIDE DEF R
<1>2. PICK s \in [1..Cardinality(hits) -> hits] : \A i, j \in DOMAIN s : i < j => <<s[i], s[j]>> \in R
  BY <1>1, OrderExists
<1>3. \A r \in [1..Cardinality(hits) -> hits] :
        \A i, j \in DOMAIN r : <<r[i], r[j]>> \in R <=> ComesFirst(q, held, r[i], r[j])
  BY <1>1
<1>4. \A i, j \in DOMAIN s : i < j => ComesFirst(q, held, s[i], s[j])
  BY <1>2, <1>3
<1>5. t = CHOOSE r \in [1..Cardinality(hits) -> hits] :
            \A i, j \in DOMAIN r : i < j => ComesFirst(q, held, r[i], r[j])
  <2>1. CASE q.orderby = <<>>
    BY Zenon, <2>1 DEF OrderScored, Ranked, Sorted, ComesFirst
  <2>2. CASE q.orderby # <<>>
    BY Zenon, <2>2 DEF OrderScored, Sorted, ComesFirst
  <2> QED
    BY <2>1, <2>2
<1> HIDE DEF t
<1>6. /\ t \in [1..Cardinality(hits) -> hits]
      /\ \A i, j \in DOMAIN t : i < j => ComesFirst(q, held, t[i], t[j])
  BY <1>4, <1>5
<1>7. \A i, j \in DOMAIN t : i < j => <<t[i], t[j]>> \in R
  BY <1>3, <1>6
<1>8. SortedBy(t, hits, R)
  BY <1>1, <1>6, <1>7, OrderPlaces
<1> QED
  BY <1>8 DEF t, R

\* A result has each key that was found in one place, in that order.
LEMMA ResultIs ==
    ASSUME NEW q \in Questions, NEW held \in Holdings
    PROVE  LET hits == Scored(q, held)
               ordered == OrderScored(q.orderby, hits, held)
               found == Result(q, held)
           IN  /\ IsHits(hits) /\ OnePerKey(hits) /\ KeysOf(hits) \subseteq DOMAIN held
               /\ SortedBy(ordered, hits, OrderOf(q, held, hits))
               /\ found \in Seq(Keys) /\ Len(found) = Cardinality(hits)
               /\ \A i \in 1..Cardinality(hits) : ordered[i] \in hits /\ found[i] = ordered[i].key
               /\ \A i, j \in 1..Cardinality(hits) : found[i] = found[j] => i = j
               /\ ToSet(found) = KeysOf(hits)
<1> DEFINE hits == Scored(q, held)
           ordered == OrderScored(q.orderby, hits, held)
           found == Result(q, held)
           n == Cardinality(hits)
<1>1. IsHits(hits) /\ OnePerKey(hits) /\ KeysOf(hits) \subseteq DOMAIN held
  BY ScoredFinds DEF KeysOf
<1>2. found = [i \in DOMAIN ordered |-> ordered[i].key]
  BY RankingAssumption DEF SearchResult
<1>3. DOMAIN held \subseteq Keys
  BY HeldIs
<1> HIDE DEF hits
<1>4. SortedBy(ordered, hits, OrderOf(q, held, hits))
  BY <1>1, OrderScoredIsSorted
<1> HIDE DEF ordered, found
<1>5. /\ n \in Nat /\ ordered \in [1..n -> hits]
      /\ \A x \in hits : \E i \in 1..n : ordered[i] = x
      /\ \A i, j \in 1..n : ordered[i] = ordered[j] => i = j
  BY <1>4 DEF SortedBy
<1> HIDE DEF n
<1>6. DOMAIN found = 1..n /\ \A i \in 1..n : ordered[i] \in hits /\ found[i] = ordered[i].key
  BY <1>2, <1>5
<1>7. found \in Seq(Keys) /\ Len(found) = n
  <2>1. \A i \in 1..n : found[i] \in Keys
    BY <1>1, <1>3, <1>6 DEF KeysOf
  <2>2. found = [i \in 1..n |-> found[i]]
    BY <1>2, <1>6
  <2> QED
    BY <1>5, <2>1, <2>2
<1>8. \A i, j \in 1..n : found[i] = found[j] => i = j
  BY <1>1, <1>5, <1>6 DEF OnePerKey
<1>9. ToSet(found) = KeysOf(hits)
  BY <1>5, <1>6 DEF ToSet, KeysOf
<1> QED
  BY <1>1, <1>4, <1>6, <1>7, <1>8, <1>9 DEF hits, ordered, found, n

-----------------------------------------------------------------------------
(* Agreement *)

\* In a ranked list one key is above another with a hit that ranks above its.
LEMMA AboveInList ==
    ASSUME NEW hits, IsHits(hits), OnePerKey(hits), NEW a, NEW b, a # b,
           Above(Ranked(hits), a, b), b \in KeysOf(hits)
    PROVE  /\ Cardinality(hits) \in Nat
           /\ At(Ranked(hits), a) \in 1..Cardinality(hits)
           /\ At(Ranked(hits), b) \in 1..Cardinality(hits)
           /\ At(Ranked(hits), a) < At(Ranked(hits), b)
           /\ \E g, h \in hits : g.key = a /\ h.key = b /\ RanksAbove(g, h)
<1> DEFINE s == Ranked(hits)
           n == Cardinality(hits)
<1>1. /\ n \in Nat /\ s \in [1..n -> hits]
      /\ \A i, j \in 1..n : <<s[i], s[j]>> \in AboveIn(hits) <=> i < j
  BY RankedIsSorted DEF SortedBy
<1>2. \A h \in hits : At(s, h.key) \in 1..n /\ s[At(s, h.key)] = h
  BY AtIs
<1>3. PICK h \in hits : h.key = b
  BY DEF KeysOf
<1>4. At(s, b) \in 1..n /\ s[At(s, b)] = h
  BY <1>2, <1>3
<1>5. At(s, a) \in 1..At(s, b)
  <2>1. At(s, b) # 0
    BY <1>1, <1>4
  <2> QED
    BY <2>1 DEF Above
<1>6. a \in KeysOf(hits)
  <2>1. At(s, a) # 0
    BY <1>1, <1>4, <1>5
  <2> QED
    BY <2>1, AtIs
<1>7. PICK g \in hits : g.key = a
  BY <1>6 DEF KeysOf
<1>8. At(s, a) \in 1..n /\ s[At(s, a)] = g
  BY <1>2, <1>7
<1>9. At(s, a) < At(s, b)
  <2>1. g # h
    BY <1>3, <1>7
  <2>2. At(s, a) # At(s, b)
    BY <1>4, <1>8, <2>1
  <2> HIDE DEF s
  <2> QED
    BY <1>1, <1>4, <1>5, <2>2
<1>10. RanksAbove(g, h)
  <2>1. <<g, h>> \in AboveIn(hits)
    BY <1>1, <1>4, <1>8, <1>9
  <2> QED
    BY <2>1 DEF AboveIn
<1> QED
  BY <1>1, <1>3, <1>4, <1>7, <1>8, <1>9, <1>10

LEMMA FewHits ==
    ASSUME NEW hits, IsHits(hits), OnePerKey(hits), KeysOf(hits) \subseteq Keys
    PROVE  Cardinality(hits) \in Nat /\ Cardinality(Keys) \in Nat
           /\ Cardinality(hits) <= Cardinality(Keys)
<1> DEFINE f == [h \in hits |-> h.key]
<1>1. f \in Injection(hits, Keys)
  BY DEF Injection, IsInjective, KeysOf, OnePerKey
<1>2. IsFiniteSet(Keys) /\ IsFiniteSet(hits)
  BY KeysAssumption DEF IsHits
<1> HIDE DEF f
<1>3. Cardinality(hits) <= Cardinality(Keys)
  BY <1>1, <1>2, FS_Injection
<1> QED
  BY <1>2, <1>3, FS_CardinalityType

\* What a list adds respects its order.
LEMMA ContributionAgrees ==
    ASSUME NEW list, list.weight \in Nat \ {0}, IsHits(list.hits), OnePerKey(list.hits),
           KeysOf(list.hits) \subseteq Keys, NEW a, NEW b, a # b, Above(Ranked(list.hits), a, b)
    PROVE  /\ Contribution(list, a) \in Int /\ Contribution(list, b) \in Int
           /\ Contribution(list, b) <= Contribution(list, a)
           /\ b \in KeysOf(list.hits) => Contribution(list, b) < Contribution(list, a)
<1> DEFINE w == list.weight
           m == At(Ranked(list.hits), a)
           n == At(Ranked(list.hits), b)
           N == Cardinality(Keys)
<1>1. Contribution(list, a) \in Int /\ Contribution(list, b) \in Int
  BY ContributionIsInt
<1>2. /\ Cardinality(list.hits) \in Nat /\ N \in Nat /\ Cardinality(list.hits) <= N
  BY FewHits
<1>3. /\ Contribution(list, a) = IF m = 0 THEN 0 ELSE w * Reciprocal(m)
      /\ Contribution(list, b) = IF n = 0 THEN 0 ELSE w * Reciprocal(n)
  BY ContributionIs
<1>4. \A k \in 1..N : Reciprocal(k) \in Nat
  BY ScaleAssumption DEF Reciprocal
<1>5. CASE b \in KeysOf(list.hits)
  <2>1. /\ m \in 1..Cardinality(list.hits) /\ n \in 1..Cardinality(list.hits) /\ m < n
    BY <1>5, AboveInList
  <2>2. m \in 1..N /\ n \in 1..N /\ m # 0 /\ n # 0
    BY <1>2, <2>1
  <2>3. /\ Reciprocal(m) \in Nat /\ Reciprocal(n) \in Nat
        /\ Reciprocal(n) < Reciprocal(m)
    BY <1>2, <2>1, <2>2, ReciprocalFalls
  <2> DEFINE p == Reciprocal(m)
             q == Reciprocal(n)
  <2>4. w \in Nat \ {0}
    OBVIOUS
  <2> HIDE DEF w, p, q
  <2>5. p \in Nat /\ q \in Nat /\ q < p
    BY <2>3 DEF p, q
  <2>6. w * q < w * p
    BY <2>4, <2>5
  <2>7. Contribution(list, a) = w * p /\ Contribution(list, b) = w * q
    BY <1>3, <2>2 DEF p, q
  <2> HIDE DEF m, n
  <2> QED
    BY <1>1, <2>6, <2>7
<1>6. CASE b \notin KeysOf(list.hits)
  <2>1. n = 0
    BY <1>6, AtIs
  <2>2. Contribution(list, b) = 0
    BY <1>3, <2>1
  <2>3. m \in 0..N
    <3>1. m \in 0..Cardinality(list.hits)
      BY ContributionIsInt
    <3> HIDE DEF m
    <3> QED
      BY <1>2, <3>1
  <2>4. 0 <= Contribution(list, a)
    <3>1. CASE m = 0
      BY <1>3, <3>1
    <3>2. CASE m # 0
      <4>1. Reciprocal(m) \in Nat
        BY <1>2, <1>4, <2>3, <3>2
      <4>2. Contribution(list, a) = w * Reciprocal(m)
        BY <1>3, <3>2
      <4>3. w \in Nat
        OBVIOUS
      <4> HIDE DEF w, m
      <4> QED
        BY <4>1, <4>2, <4>3
    <3> QED
      BY <3>1, <3>2
  <2> QED
    BY <1>1, <1>6, <2>2, <2>4
<1> QED
  BY <1>5, <1>6

\* Of two hits the one that no list puts below the other ranks above it.
LEMMA MergeAgrees ==
    ASSUME NEW text, IsHits(text), OnePerKey(text), KeysOf(text) \subseteq Keys,
           NEW lists, IsSides(lists), KeysOf(HitsIn(lists)) \subseteq Keys,
           NEW x \in MergeScores(text, lists), NEW y \in MergeScores(text, lists), x.key # y.key,
           Above(Ranked(text), x.key, y.key),
           \A list \in ToSet(lists) : Above(Ranked(list.hits), x.key, y.key)
    PROVE  RanksAbove(x, y)
<1>1. IsHits(HitsIn(lists)) /\ Len(lists) \in Nat /\ DOMAIN lists = 1..Len(lists)
  BY HitsInSides
<1>2. CASE lists = <<>> \/ text = {}
  <2> DEFINE all == text \cup HitsIn(lists)
  <2>1. MergeScores(text, lists) = Best(all)
    BY <1>2 DEF MergeScores, HitsIn
  <2>2. IsHits(all)
    BY <1>1, FS_Union DEF IsHits
  <2>3. \E H : /\ H \subseteq all /\ IsHits(H) /\ OnePerKey(H)
               /\ y \in H /\ Above(Ranked(H), x.key, y.key)
    <3>1. y \in all
      BY <2>1 DEF Best
    <3>2. CASE y \in text
      BY <3>2
    <3>3. CASE y \in HitsIn(lists)
      <4>1. PICK i \in 1..Len(lists) : y \in lists[i].hits
        BY <1>1, <3>3 DEF HitsIn
      <4>2. lists[i] \in ToSet(lists) /\ lists[i].hits \subseteq all
        BY <1>1 DEF ToSet, HitsIn
      <4> QED
        BY <4>1, <4>2 DEF IsSides
    <3> QED
      BY <3>1, <3>2, <3>3
  <2> HIDE DEF all
  <2>4. PICK H : /\ H \subseteq all /\ IsHits(H) /\ OnePerKey(H)
                 /\ y \in H /\ Above(Ranked(H), x.key, y.key)
    BY <2>3
  <2>5. y.key \in KeysOf(H)
    BY <2>4 DEF KeysOf
  <2>6. PICK g, h \in H : g.key = x.key /\ h.key = y.key /\ RanksAbove(g, h)
    BY <2>4, <2>5, AboveInList
  <2>7. h = y
    BY <2>4, <2>6 DEF OnePerKey
  <2>8. g \in all /\ g.score <= x.score
    BY <2>1, <2>2, <2>4, <2>6, BestIs
  <2>9. x \in all /\ y \in all
    BY <2>1 DEF Best
  <2>10. g.score \in Int /\ x.score \in Int /\ y.score \in Int
    BY <2>2, <2>8, <2>9 DEF IsHits
  <2> QED
    BY <2>6, <2>7, <2>8, <2>10 DEF RanksAbove
<1>3. CASE ~(lists = <<>> \/ text = {})
  <2> DEFINE all == WithText(text, lists)
             first == [weight |-> 1, hits |-> text]
             f == [i \in DOMAIN all |-> Contribution(all[i], y.key)]
             g == [i \in DOMAIN all |-> Contribution(all[i], x.key)]
             n == Len(all)
  <2>1. MergeScores(text, lists) = Fused(all)
    BY <1>3 DEF MergeScores, WithText
  <2>2. /\ IsSides(all)
        /\ \A list : list \in ToSet(all) <=> list = first \/ list \in ToSet(lists)
    BY WithTextIs
  <2>3. first.hits = text
    OBVIOUS
  <2>4. /\ n \in Nat /\ DOMAIN all = 1..n /\ \A i \in 1..n : all[i] \in ToSet(all)
    BY <2>2, ListIs DEF IsSides
  <2> HIDE DEF all, first
  <2>5. ASSUME NEW list \in ToSet(all)
        PROVE  KeysOf(list.hits) \subseteq Keys /\ Above(Ranked(list.hits), x.key, y.key)
    <3>1. CASE list = first
      BY <2>3, <3>1
    <3>2. CASE list \in ToSet(lists)
      <4>1. list.hits \subseteq HitsIn(lists)
        BY <3>2 DEF HitsIn, ToSet
      <4> QED
        BY <3>2, <4>1 DEF KeysOf
    <3> QED
      BY <2>2, <3>1, <3>2
  <2>6. ASSUME NEW i \in 1..n
        PROVE  /\ f[i] \in Int /\ g[i] \in Int /\ f[i] <= g[i]
               /\ y.key \in KeysOf(all[i].hits) => f[i] < g[i]
    <3>1. all[i].weight \in Nat \ {0} /\ IsHits(all[i].hits) /\ OnePerKey(all[i].hits)
      BY <2>2, <2>6 DEF IsSides
    <3>2. KeysOf(all[i].hits) \subseteq Keys /\ Above(Ranked(all[i].hits), x.key, y.key)
      BY <2>4, <2>5
    <3>3. f[i] = Contribution(all[i], y.key) /\ g[i] = Contribution(all[i], x.key)
      BY <2>4
    <3> HIDE DEF f, g
    <3> QED
      BY <3>1, <3>2, <3>3, ContributionAgrees
  <2>7. f \in [1..n -> Int] /\ g \in [1..n -> Int]
    <3>1. f = [i \in 1..n |-> f[i]] /\ g = [i \in 1..n |-> g[i]]
      BY <2>4
    <3> HIDE DEF f, g
    <3> QED
      BY <2>6, <3>1
  <2>8. PICK k \in 1..n : y.key \in KeysOf(all[k].hits)
    <3>1. y.key \in KeysOf(HitsIn(all))
      BY <2>1, <2>2, FusedFinds DEF KeysOf
    <3> QED
      BY <2>4, <3>1 DEF KeysOf, HitsIn
  <2>9. x.score = SumFunction(g) /\ y.score = SumFunction(f)
    BY <2>1, <2>2, FusedFinds DEF Sums
  <2> HIDE DEF f, g, n
  <2>10. SumFunction(f) < SumFunction(g)
    BY <2>4, <2>6, <2>7, <2>8, SumGrows
  <2>11. SumFunction(f) \in Int /\ SumFunction(g) \in Int
    BY <2>4, <2>7, SumIsInt
  <2> QED
    BY <2>9, <2>10, <2>11 DEF RanksAbove
<1> QED
  BY <1>2, <1>3

LEMMA RankedHas ==
    ASSUME NEW hits, IsHits(hits)
    PROVE  ToSet(Ranked(hits)) = hits
<1> DEFINE s == Ranked(hits)
           n == Cardinality(hits)
<1>1. /\ s \in [1..n -> hits] /\ \A x \in hits : \E i \in 1..n : s[i] = x
  BY RankedIsSorted DEF SortedBy
<1> HIDE DEF s, n
<1>2. ToSet(s) = hits
  BY <1>1 DEF ToSet
<1> QED
  BY <1>2 DEF s

\* A result in order of score respects what its lists agree on.
LEMMA ResultAgrees ==
    ASSUME NEW q \in Questions, q.orderby = <<>>, NEW held \in Holdings
    PROVE  AgreesWith(Result(q, held),
                      {Ranked(TextHits(q, held))}
                        \cup {Ranked(side.hits) : side \in ToSet(VectorSide(q, held))})
<1> DEFINE hits == Scored(q, held)
           text == TextHits(q, held)
           sides == VectorSide(q, held)
           found == Result(q, held)
           ordered == OrderScored(q.orderby, hits, held)
           n == Cardinality(hits)
           lists == {Ranked(text)} \cup {Ranked(side.hits) : side \in ToSet(sides)}
<1>1. /\ IsHits(hits) /\ OnePerKey(hits) /\ KeysOf(hits) \subseteq DOMAIN held
      /\ SortedBy(ordered, hits, OrderOf(q, held, hits))
      /\ found \in Seq(Keys) /\ Len(found) = n
      /\ \A i \in 1..n : ordered[i] \in hits /\ found[i] = ordered[i].key
      /\ \A i, j \in 1..n : found[i] = found[j] => i = j
      /\ ToSet(found) = KeysOf(hits)
  BY ResultIs
<1>2. /\ hits = MergeScores(text, sides) /\ KeysOf(hits) = KeysOf(text) \cup KeysOf(HitsIn(sides))
  BY ScoredFinds DEF Scored
<1>3. IsHits(text) /\ OnePerKey(text) /\ IsSides(sides)
  BY TextFinds, SidesFind
<1>4. DOMAIN held \subseteq Keys
  BY HeldIs
<1>5. Len(sides) \in Nat /\ DOMAIN sides = 1..Len(sides)
  BY <1>3, HitsInSides
<1>6. DOMAIN found = 1..n /\ n \in Nat
  BY <1>1
<1> HIDE DEF text, sides, found, hits, ordered, n
<1>7. ASSUME NEW side \in ToSet(sides) PROVE IsHits(side.hits) /\ ToSet(Ranked(side.hits)) = side.hits
  <2>1. IsHits(side.hits)
    BY <1>3, <1>5 DEF ToSet, IsSides
  <2> QED
    BY <2>1, RankedHas
<1>8. ToSet(found) = UNION {KeysOf(ToSet(list)) : list \in lists}
  <2>1. UNION {KeysOf(ToSet(list)) : list \in lists}
          = KeysOf(ToSet(Ranked(text))) \cup UNION {KeysOf(ToSet(Ranked(side.hits))) : side \in ToSet(sides)}
    OBVIOUS
  <2>2. KeysOf(ToSet(Ranked(text))) = KeysOf(text)
    BY <1>3, RankedHas
  <2>3. UNION {KeysOf(ToSet(Ranked(side.hits))) : side \in ToSet(sides)}
          = UNION {KeysOf(side.hits) : side \in ToSet(sides)}
    BY <1>7
  <2>4. UNION {KeysOf(side.hits) : side \in ToSet(sides)} = KeysOf(HitsIn(sides))
    BY DEF KeysOf, HitsIn, ToSet
  <2> QED
    BY <1>1, <1>2, <2>1, <2>2, <2>3, <2>4
<1>9. IsInjective(found)
  BY <1>1, <1>6 DEF IsInjective
<1>10. ASSUME NEW i \in 1..n, NEW j \in 1..n, \A list \in lists : Above(list, found[i], found[j])
       PROVE  i <= j
  <2> SUFFICES ASSUME j < i PROVE FALSE
    BY <1>6
  <2> DEFINE x == ordered[i]
             y == ordered[j]
  <2>1. x \in hits /\ y \in hits /\ found[i] = x.key /\ found[j] = y.key
    BY <1>1
  <2>2. x.key # y.key
    BY <1>1, <1>6, <2>1
  <2>3. /\ Above(Ranked(text), x.key, y.key)
        /\ \A side \in ToSet(sides) : Above(Ranked(side.hits), x.key, y.key)
    BY <1>10, <2>1
  <2>4. <<y, x>> \in OrderOf(q, held, hits)
    BY <1>1 DEF SortedBy, n
  <2>5. RanksAbove(y, x)
    BY <2>4 DEF OrderOf, ComesFirst
  <2> HIDE DEF x, y
  <2>6. RanksAbove(x, y)
    BY <1>1, <1>2, <1>3, <1>4, <2>1, <2>2, <2>3, MergeAgrees
  <2>7. x.key \in Int /\ y.key \in Int /\ x.score \in Int /\ y.score \in Int
    BY <1>1, <2>1 DEF IsHits
  <2> QED
    BY <2>5, <2>6, <2>7 DEF RanksAbove
<1> HIDE DEF lists
<1>11. AgreesWith(found, lists)
  BY <1>6, <1>8, <1>9, <1>10 DEF AgreesWith
<1> QED
  BY <1>11 DEF found, lists, text, sides

-----------------------------------------------------------------------------
(* The question in force *)

\* A page asked for with a token keeps to the subject, or has none at all.
Asked(w) ==
    w.habit \in {"rebuild", "alone"} =>
        /\ IsRequest(w.last)
        /\ \/ w.last.subject = w.first.subject /\ w.last.vectors = w.first.vectors
           \/ w.last.subject = NoSubject /\ w.last.vectors = NoVectors

AskedInv == PagesInv /\ (Walking => Asked(walk))

LEMMA FirstAsked == ASSUME AskedInv, FirstPage PROVE Asked(walk')
<1>1. PICK r \in Requests, habit \in Habits :
        walk' = Answered([habit |-> habit, first |-> r, last |-> r, seen |-> <<>>,
                          empty |-> FALSE, token |-> <<>>, refused |-> FALSE,
                          whole |-> Found(r), steady |-> docs, changes |-> <<>>], r, r)
  BY DEF FirstPage
<1> DEFINE w == [habit |-> habit, first |-> r, last |-> r, seen |-> <<>>,
                 empty |-> FALSE, token |-> <<>>, refused |-> FALSE,
                 whole |-> Found(r), steady |-> docs, changes |-> <<>>]
           answer == Paginate(Found(r), r.skip, r.top)
<1>2. walk' = AfterPage(w, r, r, answer)
  BY <1>1 DEF Answered
<1>3. IsWalk(w) /\ w.first = r
  BY EmptySeq DEF IsWalk
<1> HIDE DEF w, answer
<1>4. walk'.first = r /\ walk'.last = r
  <2>1. PageTaken(w, r, r, answer, AfterPage(w, r, r, answer))
    BY <1>3, PageChanges
  <2>2. PageTaken(w, r, r, answer, walk')
    BY <1>2, <2>1
  <2> QED
    BY <1>3, <2>2 DEF PageTaken
<1> QED
  BY <1>4, RequestsAssumption DEF Asked

LEMMA NextAsked == ASSUME AskedInv, NextPage PROVE Asked(walk')
<1>1. IsWalk(walk) /\ Asked(walk)
  BY DEF AskedInv, PagesInv, NextPage
<1>2. PICK send \in NextRequests(walk) :
        IF send.token = <<>> THEN walk' = Answered(walk, send.body, send.body)
        ELSE IF Refuses(send.body, send.token[1])
        THEN walk' = [walk EXCEPT !.token = <<>>, !.refused = TRUE]
        ELSE walk' = Answered(walk, send.body, WithToken(send.body, send.token[1]))
  BY DEF NextPage
<1>3. CASE walk' = [walk EXCEPT !.token = <<>>, !.refused = TRUE]
  <2>1. walk'.habit = walk.habit /\ walk'.first = walk.first /\ walk'.last = walk.last
    BY <1>1, <1>3 DEF IsWalk
  <2> QED
    BY <1>1, <2>1 DEF Asked
<1>4. ASSUME NEW e, walk' = Answered(walk, send.body, e) PROVE Asked(walk')
  <2> DEFINE answer == Paginate(Found(e), e.skip, e.top)
  <2>1. walk' = AfterPage(walk, send.body, e, answer)
    BY <1>4 DEF Answered
  <2> HIDE DEF answer
  <2>2. walk'.habit = walk.habit /\ walk'.first = walk.first /\ walk'.last = send.body
    <3>1. PageTaken(walk, send.body, e, answer, AfterPage(walk, send.body, e, answer))
      BY <1>1, PageChanges
    <3>2. PageTaken(walk, send.body, e, answer, walk')
      BY <2>1, <3>1
    <3> QED
      BY <3>2 DEF PageTaken
  <2>3. CASE walk.habit = "rebuild"
    <3>1. PICK r \in Requests, top \in PageSizes :
            /\ r.subject = walk.first.subject /\ r.vectors = walk.first.vectors
            /\ send.body = [r EXCEPT !.top = top]
      BY <2>3 DEF NextRequests
    <3>2. IsRequest(r) /\ top \in Nat
      BY RequestsAssumption, PageSizesAssumption
    <3>3. IsRequest(send.body) /\ send.body.subject = r.subject /\ send.body.vectors = r.vectors
      BY <3>1, <3>2 DEF IsRequest
    <3> QED
      BY <2>2, <3>1, <3>3 DEF Asked
  <2>4. CASE walk.habit = "alone"
    <3>1. PICK top \in PageSizes :
            send.body = [subject |-> NoSubject, vectors |-> NoVectors, filter |-> NoFilter,
                         orderby |-> NoOrder, skip |-> 0, top |-> top]
      BY <2>4 DEF NextRequests
    <3>2. IsRequest(send.body) /\ send.body.subject = NoSubject /\ send.body.vectors = NoVectors
      BY <3>1, PageSizesAssumption DEF IsRequest
    <3> QED
      BY <2>2, <3>2 DEF Asked
  <2> QED
    BY <2>2, <2>3, <2>4 DEF Asked
<1> QED
  BY <1>2, <1>3, <1>4

LEMMA ChangeAsked ==
    ASSUME AskedInv, NEW change, Changing(change) PROVE Asked(walk')
<1>1. IsWalk(walk) /\ Asked(walk)
      /\ walk' = [walk EXCEPT !.changes = Append(@, change),
                              !.steady = [k \in DOMAIN @ \cap DOMAIN docs' |-> @[k]]]
  BY DEF AskedInv, PagesInv, Changing
<1>2. walk'.habit = walk.habit /\ walk'.first = walk.first /\ walk'.last = walk.last
  BY <1>1 DEF IsWalk
<1> QED
  BY <1>1, <1>2 DEF Asked

\* Every page is asked for with the subject of the first, or none.
THEOREM PagesAreAskedFor == PageSpec => []AskedInv
<1>1. PageInit => (Walking => Asked(walk))
  BY DEF PageInit, Walking
<1>2. AskedInv /\ PagesInv' /\ [PageNext]_pageVars => AskedInv'
  <2> SUFFICES ASSUME AskedInv, [PageNext]_pageVars PROVE (Walking => Asked(walk))'
    BY DEF AskedInv
  <2>1. CASE FirstPage
    BY <2>1, FirstAsked
  <2>2. CASE NextPage
    BY <2>2, NextAsked
  <2>3. CASE AddDocument \/ RemoveDocument
    BY <2>3, ChangeAsked DEF AddDocument, RemoveDocument
  <2>4. CASE EndWalk
    BY <2>4 DEF EndWalk, Walking
  <2>5. CASE UNCHANGED pageVars
    BY <2>5 DEF pageVars, AskedInv, Walking, Asked
  <2> QED
    BY <2>1, <2>2, <2>3, <2>4, <2>5 DEF PageNext
<1>3. (Walking => Asked(walk)) /\ PagesInv <=> AskedInv
  BY DEF AskedInv
<1> QED
  BY <1>1, <1>2, <1>3, PagesStayOnCourse, PTL DEF PageSpec

\* So there is a result to what is in force.
LEMMA InForceIsAsked ==
    ASSUME AskedInv, Walking
    PROVE  /\ Question(InForce) \in Questions
           /\ InForce.subject = Question(InForce).subject
           /\ InForce.vectors = Question(InForce).vectors
           /\ InForce.filter = Question(InForce).filter
           /\ InForce.orderby = Question(InForce).orderby
<1>1. IsWalk(walk) /\ Asked(walk) /\ walk.first \in Requests
  BY DEF AskedInv, PagesInv, IsWalk
<1>2. CASE walk.habit \in {"repost", "drop"} \/ walk.last = walk.first
  <2>1. InForce = walk.first
    BY <1>2 DEF InForce
  <2> QED
    BY <1>1, <2>1 DEF Questions, Question
<1>3. CASE ~(walk.habit \in {"repost", "drop"} \/ walk.last = walk.first)
  <2>1. InForce = [walk.last EXCEPT !.filter = walk.first.filter, !.orderby = walk.first.orderby]
    BY <1>3 DEF InForce
  <2>2. walk.habit \in {"rebuild", "alone"}
    BY <1>1, <1>3, HabitsAssumption DEF IsWalk
  <2>3. IsRequest(walk.last)
    BY <1>1, <2>2 DEF Asked
  <2>4. /\ InForce.subject = walk.last.subject /\ InForce.vectors = walk.last.vectors
        /\ InForce.filter = walk.first.filter /\ InForce.orderby = walk.first.orderby
    BY <2>1, <2>3 DEF IsRequest
  <2>5. CASE walk.last.subject = walk.first.subject /\ walk.last.vectors = walk.first.vectors
    <3>1. Question(InForce) = Question(walk.first)
      BY <2>4, <2>5 DEF Question
    <3> QED
      BY <1>1, <3>1 DEF Questions, Question
  <2>6. CASE walk.last.subject = NoSubject /\ walk.last.vectors = NoVectors
    <3>1. Question(InForce) = [subject |-> NoSubject, vectors |-> NoVectors,
                               filter |-> walk.first.filter, orderby |-> walk.first.orderby]
      BY <2>4, <2>6 DEF Question
    <3> QED
      BY <1>1, <3>1 DEF Questions, Question
  <2> QED
    BY <1>1, <2>2, <2>5, <2>6 DEF Asked
<1> QED
  BY <1>2, <1>3

-----------------------------------------------------------------------------
(* What the searches promise *)

\* Whatever side found a document, it satisfies the filter, and filtering
\* before the nearest vectors are taken finds all that filtering them finds
\* (vector_side_score_lists, full_text_side): for any index, documents,
\* filters, vectors and numbers of neighbours.
THEOREM FilterModesAgreeAlways == PageSpec => []FilterModesAgree
<1>1. AskedInv => FilterModesAgree
  <2> SUFFICES ASSUME AskedInv, Walking PROVE FilterModesAgree
    BY DEF FilterModesAgree
  <2> DEFINE q == Question(InForce)
             found == Result(q, docs)
             hits == Scored(q, docs)
  <2>1. /\ q \in Questions /\ InForce.vectors = q.vectors /\ InForce.filter = q.filter
    BY InForceIsAsked
  <2>2. docs \in Holdings
    BY DEF AskedInv, PagesInv
  <2>3. Found(InForce) = found
    BY DEF Found
  <2> HIDE DEF q, found, hits
  <2>4. ASSUME NEW k \in ToSet(found) PROVE Passes(InForce.filter, docs[k])
    <3>1. k \in KeysOf(hits)
      BY <2>1, <2>2, <2>4, ResultIs DEF found, hits
    <3> QED
      BY <2>1, <2>2, <3>1, ScoredFinds DEF hits, KeysOf
  <2>5. ASSUME NEW i \in DOMAIN InForce.vectors.queries
        PROVE  LET query == InForce.vectors.queries[i] IN
               KeysOf(VectorList(query, "postFilter", InForce.filter, docs))
                 \subseteq KeysOf(VectorList(query, "preFilter", InForce.filter, docs))
    <3>1. InForce.vectors.queries[i] \in ToSet(q.vectors.queries)
      BY <2>1 DEF ToSet
    <3> QED
      BY <2>1, <2>2, <3>1, FilteringFirstFindsMore
  <2> QED
    BY <2>3, <2>4, <2>5 DEF FilterModesAgree
<1> QED
  BY <1>1, PagesAreAskedFor, PTL

\* Every hit of either side is ranked once, and a document that no list puts
\* below another, in every list the other is in, does not end up below it
\* (merge_scores, rrf_fuse_weighted): for any number of lists, of any length,
\* weights and scores.
THEOREM FusionRespectsAgreementAlways == PageSpec => []FusionRespectsAgreement
<1>1. AskedInv => FusionRespectsAgreement
  <2> SUFFICES ASSUME AskedInv, Walking, InForce.orderby = <<>>
               PROVE  AgreesWith(Found(InForce), RankedLists(InForce))
    BY DEF FusionRespectsAgreement
  <2> DEFINE q == Question(InForce)
  <2>1. /\ q \in Questions /\ q.orderby = <<>>
        /\ InForce.subject = q.subject /\ InForce.vectors = q.vectors /\ InForce.filter = q.filter
    BY InForceIsAsked
  <2>2. docs \in Holdings
    BY DEF AskedInv, PagesInv
  <2>3. Found(InForce) = Result(q, docs)
    BY DEF Found
  <2> HIDE DEF q
  <2>4. TextHits(InForce, docs) = TextHits(q, docs)
    BY <2>1 DEF TextHits, FullTextSide
  <2>5. VectorSide(InForce, docs) = VectorSide(q, docs)
    BY <2>1 DEF VectorSide
  <2>6. RankedLists(InForce) = {Ranked(TextHits(q, docs))}
                                 \cup {Ranked(side.hits) : side \in ToSet(VectorSide(q, docs))}
    BY <2>4, <2>5 DEF RankedLists
  <2> QED
    BY <2>1, <2>2, <2>3, <2>6, ResultAgrees
<1> QED
  BY <1>1, PagesAreAskedFor, PTL

-----------------------------------------------------------------------------
(* Results of more documents *)

LEMMA EngineKeys ==
    ASSUME NEW held, NEW required, NEW excluded, NEW mode
    PROVE  KeysOf(EngineSearch(required, excluded, mode, held))
             = {k \in DOMAIN held : EngineMatches(required, excluded, mode, held[k])}
<1> DEFINE K == {k \in DOMAIN held : EngineMatches(required, excluded, mode, held[k])}
           f == [k \in K |-> IF required = <<>> THEN 1
                             ELSE SumFunction([i \in DOMAIN required |-> Relevance(required[i], held[k])])]
<1>1. EngineSearch(required, excluded, mode, held) = {Hit(k, f[k]) : k \in K}
  BY DEF EngineSearch
<1> HIDE DEF K, f
<1>2. KeysOf({Hit(k, f[k]) : k \in K}) = K
  <2>1. \A k \in K : Hit(k, f[k]).key = k
    BY DEF Hit
  <2>2. \A k \in K : Hit(k, f[k]) \in {Hit(j, f[j]) : j \in K}
    OBVIOUS
  <2> QED
    BY <2>1, <2>2 DEF KeysOf
<1> QED
  BY <1>1, <1>2 DEF K

\* The documents of one index that another has as well.
Extends(more, held) ==
    DOMAIN held \subseteq DOMAIN more /\ \A k \in DOMAIN held : more[k] = held[k]

\* Whether the text of a document matches does not depend on the others.
LEMMA TextIsLocal ==
    ASSUME NEW q \in Questions, NEW held \in Holdings, NEW more \in Holdings, Extends(more, held)
    PROVE  FullTextSide(q, held) = {h \in FullTextSide(q, more) : h.key \in DOMAIN held}
<1> DEFINE s == q.subject
           Value(docu, k) == IF s.required = <<>> THEN 1
                             ELSE SumFunction([i \in DOMAIN s.required |-> Relevance(s.required[i], docu[k])])
           Matching(docu) == {k \in DOMAIN docu : EngineMatches(s.required, s.excluded, s.mode, docu[k])}
           few == EngineSearch(s.required, s.excluded, s.mode, held)
           many == EngineSearch(s.required, s.excluded, s.mode, more)
<1>1. few = {Hit(k, Value(held, k)) : k \in Matching(held)}
      /\ many = {Hit(k, Value(more, k)) : k \in Matching(more)}
  BY DEF EngineSearch
<1>2. Matching(held) = {k \in Matching(more) : k \in DOMAIN held}
  BY DEF Extends
<1>3. \A k \in DOMAIN held : Value(held, k) = Value(more, k)
  <2> TAKE k \in DOMAIN held
  <2>1. held[k] = more[k]
    BY DEF Extends
  <2> QED
    BY <2>1
<1>4. \A k \in Matching(held) : k \in DOMAIN held
  OBVIOUS
<1> HIDE DEF Value, Matching, few, many
<1>5. few = {h \in many : h.key \in DOMAIN held}
  <2>1. \A k, v : Hit(k, v).key = k
    BY DEF Hit
  <2>2. ASSUME NEW h \in few PROVE h \in many /\ h.key \in DOMAIN held
    <3>1. PICK k \in Matching(held) : h = Hit(k, Value(held, k))
      BY <1>1, <2>2
    <3>2. k \in Matching(more) /\ k \in DOMAIN held /\ Value(held, k) = Value(more, k)
      BY <1>2, <1>3, <3>1
    <3> QED
      BY <1>1, <2>1, <3>1, <3>2
  <2>3. ASSUME NEW h \in many, h.key \in DOMAIN held PROVE h \in few
    <3>1. PICK k \in Matching(more) : h = Hit(k, Value(more, k))
      BY <1>1, <2>3
    <3>2. k \in Matching(held) /\ Value(held, k) = Value(more, k)
      BY <1>2, <1>3, <2>1, <2>3, <3>1
    <3> QED
      BY <1>1, <3>1, <3>2
  <2> QED
    BY <2>2, <2>3
<1>6. \A k \in DOMAIN held : MatchCount(s, held, k) = MatchCount(s, more, k)
  <2> TAKE k \in DOMAIN held
  <2>1. \A c : k \in KeysOf(EngineSearch(<<c>>, s.excluded, "any", held))
                 <=> k \in KeysOf(EngineSearch(<<c>>, s.excluded, "any", more))
    <3> TAKE c
    <3>1. k \in DOMAIN more /\ held[k] = more[k]
      BY DEF Extends
    <3> QED
      BY <3>1, EngineKeys
  <2> QED
    BY <2>1 DEF MatchCount
<1>7. \A k \in DOMAIN held : held[k] = more[k]
  BY DEF Extends
<1>8. \A h : h \in FullTextSide(q, held) <=>
        h \in few /\ Passes(q.filter, held[h.key]) /\ MatchCount(s, held, h.key) >= CoverageThreshold(s)
  BY DEF FullTextSide, few
<1>9. \A h : h \in FullTextSide(q, more) <=>
        h \in many /\ Passes(q.filter, more[h.key]) /\ MatchCount(s, more, h.key) >= CoverageThreshold(s)
  BY DEF FullTextSide, many
<1> HIDE DEF s
<1>10. ASSUME NEW h
       PROVE  h \in FullTextSide(q, held) <=> h \in FullTextSide(q, more) /\ h.key \in DOMAIN held
  <2>1. CASE h.key \in DOMAIN held
    <3>1. held[h.key] = more[h.key] /\ MatchCount(s, held, h.key) = MatchCount(s, more, h.key)
      BY <1>6, <1>7, <2>1
    <3>2. h \in few <=> h \in many
      BY <1>5, <2>1
    <3> QED
      BY <1>8, <1>9, <2>1, <3>1, <3>2
  <2>2. CASE h.key \notin DOMAIN held
    BY <1>5, <1>8, <2>2
  <2> QED
    BY <2>1, <2>2
<1> QED
  BY <1>10

\* A search without vectors finds of more documents what it finds of fewer, with
\* the same scores and in the same order.
LEMMA SearchIsLocal ==
    ASSUME NEW q \in Questions, q.vectors.queries = <<>>,
           NEW held \in Holdings, NEW more \in Holdings, Extends(more, held)
    PROVE  /\ Scored(q, held) \subseteq Scored(q, more)
           /\ \A a, b \in Scored(q, held) :
                ComesFirst(q, held, a, b) <=> ComesFirst(q, more, a, b)
<1>1. ASSUME NEW docu \in Holdings PROVE Scored(q, docu) = FullTextSide(q, docu)
  <2>1. VectorSide(q, docu) = <<>>
    BY DEF VectorSide
  <2>2. TextHits(q, docu) = FullTextSide(q, docu)
    BY DEF TextHits
  <2> DEFINE text == TextHits(q, docu)
  <2>3. IsHits(text) /\ OnePerKey(text)
    BY TextFinds
  <2> HIDE DEF text
  <2>4. Scored(q, docu) = Best(text \cup UNION {<<>>[i].hits : i \in DOMAIN <<>>})
    BY <2>1 DEF Scored, MergeScores, text
  <2>5. UNION {<<>>[i].hits : i \in DOMAIN <<>>} = {}
    BY DOMAIN <<>> = {}
  <2>6. Best(text) = text
    BY <2>3 DEF Best, IsHits, OnePerKey
  <2> QED
    BY <2>2, <2>4, <2>5, <2>6 DEF text
<1>2. Scored(q, held) \subseteq Scored(q, more)
  BY <1>1, TextIsLocal
<1>3. \A h \in Scored(q, held) : h.key \in DOMAIN held /\ held[h.key] = more[h.key]
  BY ScoredFinds DEF Extends
<1> DEFINE hits == Scored(q, held)
<1>4. ASSUME NEW a \in hits, NEW b \in hits, NEW clause
      PROVE  ClauseLess(clause, held, a, b) <=> ClauseLess(clause, more, a, b)
  BY <1>3 DEF ClauseLess
<1> HIDE DEF hits
<1>5. ASSUME NEW a \in hits, NEW b \in hits
      PROVE  OrderedBefore(q.orderby, held, a, b) <=> OrderedBefore(q.orderby, more, a, b)
  BY <1>4, <1>5 DEF OrderedBefore
<1>6. \A a, b \in hits : ComesFirst(q, held, a, b) <=> ComesFirst(q, more, a, b)
  BY <1>5 DEF ComesFirst
<1> QED
  BY <1>2, <1>6 DEF hits

\* What is found stays found when documents come, and never moves forward.
LEMMA GrowthShifts ==
    ASSUME NEW q \in Questions, q.vectors.queries = <<>>,
           NEW held \in Holdings, NEW more \in Holdings, Extends(more, held),
           NEW p \in 1..Len(Result(q, held))
    PROVE  \E r \in 1..Len(Result(q, more)) : Result(q, more)[r] = Result(q, held)[p] /\ p <= r
<1> DEFINE few == Scored(q, held)
           many == Scored(q, more)
           s == OrderScored(q.orderby, few, held)
           t == OrderScored(q.orderby, many, more)
           R == OrderOf(q, held, few)
           T == OrderOf(q, more, many)
<1>1. /\ IsHits(few) /\ OnePerKey(few) /\ KeysOf(few) \subseteq DOMAIN held
      /\ SortedBy(s, few, R)
      /\ Len(Result(q, held)) = Cardinality(few)
      /\ \A i \in 1..Cardinality(few) : Result(q, held)[i] = s[i].key
  BY ResultIs
<1>2. /\ IsHits(many) /\ OnePerKey(many) /\ KeysOf(many) \subseteq DOMAIN more
      /\ SortedBy(t, many, T)
      /\ Len(Result(q, more)) = Cardinality(many)
      /\ \A i \in 1..Cardinality(many) : Result(q, more)[i] = t[i].key
  BY ResultIs
<1>3. /\ few \subseteq many
      /\ \A a, b \in few : ComesFirst(q, held, a, b) <=> ComesFirst(q, more, a, b)
  BY SearchIsLocal
<1>4. /\ \A a, b \in few : <<a, b>> \in R <=> ComesFirst(q, held, a, b)
      /\ \A a, b \in many : <<a, b>> \in T <=> ComesFirst(q, more, a, b)
  BY DEF OrderOf
<1> HIDE DEF few, many, s, t, R, T
<1>5. p \in 1..Cardinality(few) /\ s[p] \in few /\ Cardinality(Before(few, R, s[p])) = p - 1
  BY <1>1 DEF SortedBy
<1>6. PICK r \in 1..Cardinality(many) : t[r] = s[p]
  BY <1>2, <1>3, <1>5 DEF SortedBy
<1>7. Cardinality(Before(many, T, s[p])) = r - 1
  BY <1>2, <1>6 DEF SortedBy
<1> DEFINE A == Before(few, R, s[p])
           B == Before(many, T, s[p])
<1>8. A \subseteq B
  BY <1>3, <1>4, <1>5 DEF Before
<1>9. IsFiniteSet(B)
  <2>1. B \in SUBSET many /\ IsFiniteSet(many)
    BY <1>2 DEF Before, IsHits
  <2> QED
    BY <2>1, FS_Subset
<1> HIDE DEF A, B
<1>10. Cardinality(A) <= Cardinality(B)
  BY <1>8, <1>9, FS_Subset
<1>11. p - 1 <= r - 1
  BY <1>5, <1>7, <1>10 DEF A, B
<1>12. p \in Int /\ r \in Int
  BY <1>1, <1>2, <1>5 DEF SortedBy
<1>13. p <= r
  BY <1>11, <1>12
<1>14. Result(q, more)[r] = Result(q, held)[p]
  BY <1>1, <1>2, <1>5, <1>6
<1> QED
  BY <1>2, <1>6, <1>13, <1>14

-----------------------------------------------------------------------------
(* Walks through changes *)

\* A page takes the hits behind n; one that is not the last of them is not
\* empty, or says that there is more.
LEMMA PageTakes ==
    ASSUME NEW s \in Seq(Keys), NEW n \in Nat, NEW top \in Nat
    PROVE  LET answer == Paginate(s, n, top) IN
           /\ answer.page \in Seq(Keys) /\ Len(answer.page) \in Nat
           /\ \A i \in 1..Len(answer.page) : n + i \in 1..Len(s) /\ answer.page[i] = s[n + i]
           /\ answer.next = n + Len(answer.page)
           /\ ~answer.more /\ answer.page # <<>> => Len(s) <= n + Len(answer.page)
           /\ Len(s) \in Nat
<1> DEFINE rest == SubSeq(s, n + 1, Len(s))
           answer == Paginate(s, n, top)
           page == answer.page
<1>1. Len(s) \in Nat /\ \A i \in 1..Len(s) : s[i] \in Keys
  BY LenProperties, ElementOfSeq
<1>2. /\ rest \in Seq(Keys)
      /\ Len(rest) = IF n + 1 <= Len(s) THEN Len(s) - n ELSE 0
      /\ \A i \in 1..Len(s) - n : rest[i] = s[n + i]
  <2>1. \A i \in n + 1..Len(s) : s[i] \in Keys
    BY <1>1
  <2>2. /\ rest \in Seq(Keys)
        /\ Len(rest) = IF n + 1 <= Len(s) THEN Len(s) - (n + 1) + 1 ELSE 0
        /\ \A i \in 1..Len(s) - (n + 1) + 1 : rest[i] = s[n + 1 + i - 1]
    BY <1>1, <2>1, SubSeqProperties
  <2> HIDE DEF rest
  <2> QED
    BY <1>1, <2>2
<1>3. /\ page = IF top = All \/ top >= Len(rest) THEN rest ELSE SubSeq(rest, 1, top)
      /\ answer.next = n + Len(page)
      /\ answer.more <=> page # <<>> /\ n + Len(page) < Len(s)
  BY DEF Paginate
<1> HIDE DEF rest, answer, page
<1>4. /\ page \in Seq(Keys) /\ Len(page) <= Len(rest)
      /\ \A i \in 1..Len(page) : page[i] = rest[i]
  <2>1. CASE top = All \/ top >= Len(rest)
    <3>1. page = rest /\ Len(rest) \in Nat
      BY <1>2, <1>3, <2>1, LenProperties
    <3> QED
      BY <1>2, <3>1
  <2>2. CASE ~(top = All \/ top >= Len(rest))
    <3>1. page = SubSeq(rest, 1, top) /\ top < Len(rest) /\ Len(rest) \in Nat
      BY <1>2, <1>3, <2>2, LenProperties
    <3>2. \A i \in 1..top : rest[i] \in Keys
      BY <1>2, <3>1, ElementOfSeq
    <3>3. /\ SubSeq(rest, 1, top) \in Seq(Keys)
          /\ Len(SubSeq(rest, 1, top)) = IF 1 <= top THEN top - 1 + 1 ELSE 0
          /\ \A i \in 1..top - 1 + 1 : SubSeq(rest, 1, top)[i] = rest[1 + i - 1]
      BY <3>2, SubSeqProperties
    <3>4. page \in Seq(Keys) /\ Len(page) = top /\ \A i \in 1..top : page[i] = rest[i]
      BY <3>1, <3>3
    <3> QED
      BY <3>1, <3>4
  <2> QED
    BY <2>1, <2>2
<1>5. Len(page) \in Nat
  BY <1>4, LenProperties
<1>6. \A i \in 1..Len(page) : n + i \in 1..Len(s) /\ page[i] = s[n + i]
  BY <1>1, <1>2, <1>4, <1>5
<1>7. ~answer.more /\ page # <<>> => Len(s) <= n + Len(page)
  BY <1>1, <1>3, <1>5
<1> QED
  BY <1>1, <1>3, <1>4, <1>5, <1>6, <1>7 DEF answer, page

\* A key behind the n-th hit, and one that is not.
Ahead(k, s, n)  == \E p \in 1..Len(s) : s[p] = k /\ n < p
Passed(k, s, n) == \A p \in 1..Len(s) : s[p] = k => p <= n

Point(w) == w.first.skip + Len(w.seen)

\* The requests of the walk ask its first question, behind what was seen.
Steers(w) ==
    /\ w.seen \in Seq(Keys)
    /\ LastRepeats(w, w.last)
    /\ ~w.refused
    /\ w.token \in {<<>>, <<NextToken(w.first, Point(w))>>}

\* Nothing that was to be seen is behind the client without having been seen.
Due(w, found) ==
    "removed" \notin ToSet(w.changes) =>
        \A k \in ToSet(Wanted(w)) :
            k \in ToSet(w.seen) \/ (Ahead(k, found, Point(w)) /\ (w.token # <<>> \/ w.empty))

\* Nothing that was seen is ahead of the client.
Once(w, found) ==
    "added" \notin ToSet(w.changes) =>
        /\ \A i, j \in 1..Len(w.seen) : w.seen[i] = w.seen[j] => i = j
        /\ \A k \in ToSet(w.seen) : Passed(k, found, Point(w))

Survives(w, found) == Steers(w) /\ Due(w, found) /\ Once(w, found)

ByText(w) == Completes(w) /\ w.first.vectors.queries = <<>>

SurvivalInv ==
    /\ PagesInv
    /\ Walking /\ ByText(walk) => Survives(walk, Result(Question(walk.first), docs))

LEMMA SetOfConcat ==
    ASSUME NEW S, NEW s \in Seq(S), NEW t \in Seq(S)
    PROVE  /\ ToSet(s \o t) = ToSet(s) \cup ToSet(t)
           /\ \A i \in 1..Len(s) : (s \o t)[i] = s[i]
           /\ \A i \in 1..Len(t) : (s \o t)[Len(s) + i] = t[i]
           /\ Len(s \o t) = Len(s) + Len(t) /\ s \o t \in Seq(S)
<1> DEFINE st == s \o t
<1>1. /\ st \in Seq(S) /\ Len(st) = Len(s) + Len(t) /\ Len(s) \in Nat /\ Len(t) \in Nat
      /\ \A i \in 1..Len(s) + Len(t) : st[i] = IF i <= Len(s) THEN s[i] ELSE t[i - Len(s)]
  BY ConcatProperties, LenProperties
<1> HIDE DEF st
<1>2. DOMAIN st = 1..Len(st) /\ DOMAIN s = 1..Len(s) /\ DOMAIN t = 1..Len(t)
  BY <1>1, LenProperties
<1>3. /\ \A i \in 1..Len(s) : i \in 1..Len(st) /\ st[i] = s[i]
      /\ \A i \in 1..Len(t) : Len(s) + i \in 1..Len(st) /\ st[Len(s) + i] = t[i]
  <2>1. ASSUME NEW i \in 1..Len(s) PROVE i \in 1..Len(st) /\ st[i] = s[i]
    BY <1>1
  <2>2. ASSUME NEW i \in 1..Len(t) PROVE Len(s) + i \in 1..Len(st) /\ st[Len(s) + i] = t[i]
    <3>1. /\ Len(s) + i \in 1..Len(s) + Len(t) /\ ~(Len(s) + i <= Len(s))
          /\ Len(s) + i - Len(s) = i
      BY <1>1
    <3> QED
      BY <1>1, <3>1
  <2> QED
    BY <2>1, <2>2
<1>4. \A i \in 1..Len(st) : \/ i \in 1..Len(s) /\ st[i] = s[i]
                            \/ i - Len(s) \in 1..Len(t) /\ st[i] = t[i - Len(s)]
  BY <1>1
<1>5. ToSet(s) \subseteq ToSet(st)
  BY <1>2, <1>3 DEF ToSet
<1>6. ToSet(t) \subseteq ToSet(st)
  <2> SUFFICES ASSUME NEW i \in 1..Len(t) PROVE t[i] \in ToSet(st)
    BY <1>2 DEF ToSet
  <2>1. Len(s) + i \in DOMAIN st /\ st[Len(s) + i] = t[i]
    BY <1>2, <1>3
  <2> QED
    BY <2>1 DEF ToSet
<1>7. ToSet(st) \subseteq ToSet(s) \cup ToSet(t)
  <2> SUFFICES ASSUME NEW i \in 1..Len(st) PROVE st[i] \in ToSet(s) \cup ToSet(t)
    BY <1>2 DEF ToSet
  <2>1. CASE i \in 1..Len(s) /\ st[i] = s[i]
    BY <1>2, <2>1 DEF ToSet
  <2>2. CASE i - Len(s) \in 1..Len(t) /\ st[i] = t[i - Len(s)]
    BY <1>2, <2>2 DEF ToSet
  <2> QED
    BY <1>4, <2>1, <2>2
<1>8. ToSet(st) = ToSet(s) \cup ToSet(t)
  BY <1>5, <1>6, <1>7
<1> QED
  BY <1>1, <1>3, <1>8 DEF st

\* Taking a page from behind what was seen.
LEMMA PageSurvives ==
    ASSUME NEW w, IsWalk(w), NEW s \in Seq(Keys),
           \A i, j \in 1..Len(s) : s[i] = s[j] => i = j,
           Steers(w), Once(w, s),
           \/ Due(w, s)
           \/ w.seen = <<>> /\ w.whole = s,
           NEW body, LastRepeats(w, body), NEW e, IsRequest(e),
           Question(e) = Question(w.first), e.skip = Point(w)
    PROVE  Survives(AfterPage(w, body, e, Paginate(s, e.skip, e.top)), s)
<1> DEFINE n == Point(w)
           answer == Paginate(s, n, e.top)
           page == answer.page
           next == AfterPage(w, body, e, answer)
           seen == w.seen \o page
<1>1. /\ w.seen \in Seq(Keys) /\ Len(w.seen) \in Nat /\ w.first.skip \in Nat /\ e.top \in Nat
      /\ n \in Nat /\ n = w.first.skip + Len(w.seen) /\ w.first \in Requests
  <2>1. w.first \in Requests /\ w.seen \in Seq(Keys)
    BY DEF IsWalk, Steers
  <2>2. Len(w.seen) \in Nat /\ w.first.skip \in Nat /\ e.top \in Nat
    BY <2>1, RequestsAssumption, LenProperties DEF IsRequest
  <2> QED
    BY <2>1, <2>2 DEF Point
<1>2. PageTaken(w, body, e, answer, next)
  BY PageChanges
<1>3. e.skip = n
  OBVIOUS
<1> HIDE DEF n, answer, next
<1>4. /\ page \in Seq(Keys) /\ Len(page) \in Nat /\ Len(s) \in Nat
      /\ \A i \in 1..Len(page) : n + i \in 1..Len(s) /\ page[i] = s[n + i]
      /\ answer.next = n + Len(page)
      /\ ~answer.more /\ page # <<>> => Len(s) <= n + Len(page)
  <2> DEFINE top == e.top
             taken == Paginate(s, n, top)
  <2>1. top \in Nat /\ n \in Nat
    BY <1>1
  <2> HIDE DEF top
  <2>2. /\ taken.page \in Seq(Keys) /\ Len(taken.page) \in Nat /\ Len(s) \in Nat
        /\ \A i \in 1..Len(taken.page) : n + i \in 1..Len(s) /\ taken.page[i] = s[n + i]
        /\ taken.next = n + Len(taken.page)
        /\ ~taken.more /\ taken.page # <<>> => Len(s) <= n + Len(taken.page)
    BY <2>1, PageTakes
  <2>3. answer = taken
    BY DEF answer, top
  <2> HIDE DEF taken
  <2> QED
    BY <2>2, <2>3
<1>5. /\ next.habit = w.habit /\ next.first = w.first /\ next.whole = w.whole
      /\ next.changes = w.changes /\ next.refused = w.refused
      /\ next.last = body /\ next.seen = seen /\ (next.empty <=> page = <<>>)
      /\ (answer.more => next.token = <<NextToken(e, answer.next)>>)
      /\ (~answer.more => next.token = <<>>)
  BY <1>2 DEF PageTaken
<1> HIDE DEF page, seen
<1>6. /\ ToSet(seen) = ToSet(w.seen) \cup ToSet(page)
      /\ \A i \in 1..Len(w.seen) : seen[i] = w.seen[i]
      /\ \A i \in 1..Len(page) : seen[Len(w.seen) + i] = page[i]
      /\ Len(seen) = Len(w.seen) + Len(page) /\ seen \in Seq(Keys)
  BY <1>1, <1>4, SetOfConcat DEF seen
<1>7. Point(next) = n + Len(page)
  BY <1>1, <1>4, <1>5, <1>6 DEF Point
<1>8. Steers(next)
  <2>1. LastRepeats(next, next.last)
    BY <1>5 DEF LastRepeats
  <2>2. NextToken(e, answer.next) = NextToken(w.first, Point(next))
    <3>1. e.filter = w.first.filter /\ e.orderby = w.first.orderby /\ e.vectors = w.first.vectors
      BY DEF Question
    <3> QED
      BY <1>4, <1>7, <3>1 DEF NextToken
  <2> QED
    BY <1>5, <1>6, <2>1, <2>2 DEF Steers
<1>9. DOMAIN page = 1..Len(page) /\ DOMAIN s = 1..Len(s) /\ DOMAIN seen = 1..Len(seen)
      /\ DOMAIN w.seen = 1..Len(w.seen)
  BY <1>1, <1>4, <1>6, LenProperties
\* What was ahead is on the page, or still ahead.
<1>10. ASSUME NEW k, Ahead(k, s, n)
       PROVE  k \in ToSet(page) \/ (Ahead(k, s, n + Len(page)) /\ (next.token # <<>> \/ next.empty))
  <2>1. PICK p \in 1..Len(s) : s[p] = k /\ n < p
    BY <1>10 DEF Ahead
  <2>2. CASE p <= n + Len(page)
    <3>1. p - n \in 1..Len(page)
      <4>1. n \in Nat /\ Len(page) \in Nat /\ p \in Int
        BY <1>1, <1>4
      <4>2. n < p /\ p <= n + Len(page)
        BY <2>1, <2>2
      <4> QED
        BY <4>1, <4>2
    <3>2. page[p - n] = s[n + (p - n)] /\ n + (p - n) = p
      BY <1>1, <1>4, <3>1
    <3>3. page[p - n] = k
      BY <2>1, <3>2
    <3> QED
      BY <1>9, <3>1, <3>3 DEF ToSet
  <2>3. CASE ~(p <= n + Len(page))
    <3>1. n + Len(page) < p
      BY <1>1, <1>4, <2>3
    <3>2. ~(Len(s) <= n + Len(page))
      BY <1>1, <1>4, <2>3
    <3>3. answer.more \/ page = <<>>
      BY <1>4, <3>2
    <3>4. <<NextToken(e, answer.next)>> # <<>>
      OBVIOUS
    <3> QED
      BY <1>5, <2>1, <3>1, <3>3, <3>4 DEF Ahead
  <2> QED
    BY <2>2, <2>3
<1>11. Due(next, s)
  <2> SUFFICES ASSUME "removed" \notin ToSet(w.changes), NEW k \in ToSet(Wanted(next))
               PROVE  \/ k \in ToSet(seen)
                      \/ Ahead(k, s, n + Len(page)) /\ (next.token # <<>> \/ next.empty)
    BY <1>5, <1>7 DEF Due
  <2>1. Wanted(next) = Wanted(w)
    BY <1>5 DEF Wanted
  <2>2. k \in ToSet(w.seen) \/ Ahead(k, s, n)
    <3>1. CASE Due(w, s)
      BY <2>1, <3>1 DEF Due, n
    <3>2. CASE w.seen = <<>> /\ w.whole = s
      <4>1. Len(w.seen) = 0
        BY <3>2
      <4>2. n = w.first.skip
        BY <1>1, <4>1
      <4>3. Wanted(w) = SubSeq(s, n + 1, Len(s))
        BY <3>2, <4>2 DEF Wanted
      <4>4. /\ Len(Wanted(w)) = IF n + 1 <= Len(s) THEN Len(s) - (n + 1) + 1 ELSE 0
            /\ \A i \in 1..Len(s) - (n + 1) + 1 : Wanted(w)[i] = s[n + 1 + i - 1]
            /\ Wanted(w) \in Seq(Keys)
        <5>1. \A i \in n + 1..Len(s) : s[i] \in Keys
          BY <1>1, <1>4, ElementOfSeq
        <5> QED
          BY <1>1, <1>4, <4>3, <5>1, SubSeqProperties
      <4>5. PICK i \in 1..Len(Wanted(w)) : Wanted(w)[i] = k
        BY <2>1, <4>4, LenProperties DEF ToSet
      <4>6. n + i \in 1..Len(s) /\ n < n + i /\ n + 1 + i - 1 = n + i
            /\ i \in 1..Len(s) - (n + 1) + 1
        <5>1. n \in Nat /\ Len(s) \in Nat /\ i \in Int
          BY <1>1, <1>4
        <5>2. i \in 1..IF n + 1 <= Len(s) THEN Len(s) - (n + 1) + 1 ELSE 0
          BY <4>4, <4>5
        <5> QED
          BY <5>1, <5>2
      <4>7. s[n + i] = k
        BY <4>4, <4>5, <4>6
      <4> QED
        BY <4>6, <4>7 DEF Ahead
    <3> QED
      BY <3>1, <3>2
  <2>3. CASE k \in ToSet(w.seen)
    BY <1>6, <2>3
  <2>4. CASE Ahead(k, s, n)
    BY <1>6, <1>10, <2>4
  <2> QED
    BY <2>2, <2>3, <2>4
<1>12. Once(next, s)
  <2> SUFFICES ASSUME "added" \notin ToSet(w.changes)
               PROVE  /\ \A i, j \in 1..Len(seen) : seen[i] = seen[j] => i = j
                      /\ \A k \in ToSet(seen) : Passed(k, s, n + Len(page))
    BY <1>5, <1>7 DEF Once
  <2>1. /\ \A i, j \in 1..Len(w.seen) : w.seen[i] = w.seen[j] => i = j
        /\ \A k \in ToSet(w.seen) : Passed(k, s, n)
    BY DEF Once, n
  <2>2. \A k \in ToSet(w.seen) : Passed(k, s, n + Len(page))
    BY <1>1, <1>4, <2>1 DEF Passed
  <2>3. ASSUME NEW i \in 1..Len(page) PROVE Passed(page[i], s, n + Len(page))
    <3> SUFFICES ASSUME NEW p \in 1..Len(s), s[p] = page[i] PROVE p <= n + Len(page)
      BY DEF Passed
    <3>1. p = n + i
      BY <1>4
    <3> QED
      BY <1>1, <1>4, <3>1
  <2>4. \A k \in ToSet(page) : Passed(k, s, n + Len(page))
    BY <1>9, <2>3 DEF ToSet
  <2>5. ASSUME NEW i \in 1..Len(w.seen), NEW j \in 1..Len(page) PROVE w.seen[i] # page[j]
    <3>1. w.seen[i] \in ToSet(w.seen)
      BY <1>9 DEF ToSet
    <3>2. n + j \in 1..Len(s) /\ page[j] = s[n + j] /\ ~(n + j <= n)
      BY <1>1, <1>4
    <3> QED
      BY <2>1, <3>1, <3>2 DEF Passed
  <2>6. ASSUME NEW i \in 1..Len(page), NEW j \in 1..Len(page), page[i] = page[j] PROVE i = j
    <3>1. n + i = n + j
      BY <1>4, <2>6
    <3> QED
      BY <1>1, <1>4, <3>1
  <2>7. \A i \in 1..Len(seen) : \/ i \in 1..Len(w.seen) /\ seen[i] = w.seen[i]
                                \/ i - Len(w.seen) \in 1..Len(page) /\ seen[i] = page[i - Len(w.seen)]
    <3> TAKE i \in 1..Len(seen)
    <3>1. CASE i <= Len(w.seen)
      <4>1. i \in 1..Len(w.seen)
        BY <1>1, <1>4, <1>6, <3>1
      <4> QED
        BY <1>6, <4>1
    <3>2. CASE ~(i <= Len(w.seen))
      <4>1. i - Len(w.seen) \in 1..Len(page) /\ Len(w.seen) + (i - Len(w.seen)) = i
        BY <1>1, <1>4, <1>6, <3>2
      <4> QED
        BY <1>6, <4>1
    <3> QED
      BY <3>1, <3>2
  <2>8. ASSUME NEW i \in 1..Len(seen), NEW j \in 1..Len(seen), seen[i] = seen[j] PROVE i = j
    <3>0. i \in Int /\ j \in Int /\ Len(w.seen) \in Int
      BY <1>1, <1>4, <1>6
    <3>1. CASE i \in 1..Len(w.seen) /\ seen[i] = w.seen[i] /\ j \in 1..Len(w.seen) /\ seen[j] = w.seen[j]
      BY <2>1, <2>8, <3>1
    <3>2. CASE /\ i \in 1..Len(w.seen) /\ seen[i] = w.seen[i]
               /\ j - Len(w.seen) \in 1..Len(page) /\ seen[j] = page[j - Len(w.seen)]
      BY <2>5, <2>8, <3>2
    <3>3. CASE /\ j \in 1..Len(w.seen) /\ seen[j] = w.seen[j]
               /\ i - Len(w.seen) \in 1..Len(page) /\ seen[i] = page[i - Len(w.seen)]
      BY <2>5, <2>8, <3>3
    <3>4. CASE /\ i - Len(w.seen) \in 1..Len(page) /\ seen[i] = page[i - Len(w.seen)]
               /\ j - Len(w.seen) \in 1..Len(page) /\ seen[j] = page[j - Len(w.seen)]
      <4>1. i - Len(w.seen) = j - Len(w.seen)
        BY <2>6, <2>8, <3>4
      <4> QED
        BY <3>0, <4>1
    <3> QED
      BY <2>7, <3>1, <3>2, <3>3, <3>4
  <2> QED
    BY <1>6, <2>2, <2>4, <2>8
<1>13. Survives(next, s)
  BY <1>8, <1>11, <1>12 DEF Survives
<1> QED
  BY <1>3, <1>13 DEF next, answer

LEMMA FirstSurvives ==
    ASSUME SurvivalInv, FirstPage, ByText(walk')
    PROVE  Survives(walk', Result(Question(walk'.first), docs'))
<1>1. PICK r \in Requests, habit \in Habits :
        walk' = Answered([habit |-> habit, first |-> r, last |-> r, seen |-> <<>>,
                          empty |-> FALSE, token |-> <<>>, refused |-> FALSE,
                          whole |-> Found(r), steady |-> docs, changes |-> <<>>], r, r)
  BY DEF FirstPage
<1> DEFINE w == [habit |-> habit, first |-> r, last |-> r, seen |-> <<>>,
                 empty |-> FALSE, token |-> <<>>, refused |-> FALSE,
                 whole |-> Found(r), steady |-> docs, changes |-> <<>>]
           q == Question(r)
           s == Result(q, docs)
<1>2. docs' = docs /\ docs \in Holdings
  BY DEF FirstPage, SurvivalInv, PagesInv
<1>3. walk' = AfterPage(w, r, r, Paginate(s, r.skip, r.top))
  BY <1>1 DEF Answered, Found
<1>4. IsWalk(w) /\ w.first = r /\ w.seen = <<>> /\ w.whole = s
  BY EmptySeq DEF IsWalk, Found
<1>5. LastRepeats(w, r) /\ Steers(w)
  <2>1. IsRequest(r)
    BY RequestsAssumption
  <2> QED
    BY <2>1, EmptySeq DEF LastRepeats, Steers
<1>6. Once(w, s) /\ Point(w) = r.skip
  <2>1. Len(w.seen) = 0 /\ ToSet(w.seen) = {} /\ r.skip \in Nat
    BY RequestsAssumption DEF ToSet, IsRequest
  <2> QED
    BY <2>1, <1>4 DEF Once, Point
<1> HIDE DEF w
<1>7. /\ q \in Questions /\ IsRequest(r) /\ q = Question(w.first)
  BY <1>4, RequestsAssumption DEF Questions
<1> HIDE DEF q
<1>8. s \in Seq(Keys) /\ \A i, j \in 1..Len(s) : s[i] = s[j] => i = j
  BY <1>2, <1>7, ResultIs
<1> HIDE DEF s
<1>9. Survives(walk', s)
  <2>1. Survives(AfterPage(w, r, r, Paginate(s, r.skip, r.top)), s)
    BY <1>4, <1>5, <1>6, <1>7, <1>8, PageSurvives DEF q
  <2> QED
    BY <1>3, <2>1
<1>10. walk'.first = r
  <2>1. PageTaken(w, r, r, Paginate(s, r.skip, r.top), AfterPage(w, r, r, Paginate(s, r.skip, r.top)))
    BY <1>4, PageChanges
  <2>2. PageTaken(w, r, r, Paginate(s, r.skip, r.top), walk')
    BY <1>3, <2>1
  <2> QED
    BY <1>4, <2>2 DEF PageTaken
<1> QED
  BY <1>2, <1>9, <1>10 DEF s, q

LEMMA NextSurvives ==
    ASSUME SurvivalInv, NextPage, ByText(walk')
    PROVE  Survives(walk', Result(Question(walk'.first), docs'))
<1> DEFINE q == Question(walk.first)
           s == Result(q, docs)
           Body(send) == IF send.token = <<>> THEN send.body
                         ELSE WithToken(send.body, send.token[1])
<1>1. /\ docs' = docs /\ docs \in Holdings /\ IsWalk(walk) /\ Walking /\ walk.token # <<>>
      /\ walk.first \in Requests
  BY DEF NextPage, SurvivalInv, PagesInv, IsWalk
<1>2. PICK send \in NextRequests(walk) :
        IF send.token = <<>> THEN walk' = Answered(walk, send.body, send.body)
        ELSE IF Refuses(send.body, send.token[1])
        THEN walk' = [walk EXCEPT !.token = <<>>, !.refused = TRUE]
        ELSE walk' = Answered(walk, send.body, WithToken(send.body, send.token[1]))
  BY DEF NextPage
<1> DEFINE e == Body(send)
           answer == Paginate(Found(e), e.skip, e.top)
<1>3. walk'.habit = walk.habit /\ walk'.first = walk.first
  <2>1. CASE walk' = [walk EXCEPT !.token = <<>>, !.refused = TRUE]
    BY <1>1, <2>1 DEF IsWalk
  <2>2. CASE walk' = AfterPage(walk, send.body, e, answer)
    <3>1. PageTaken(walk, send.body, e, answer, AfterPage(walk, send.body, e, answer))
      BY <1>1, PageChanges
    <3> HIDE DEF e, answer
    <3>2. PageTaken(walk, send.body, e, answer, walk')
      BY <2>2, <3>1
    <3> QED
      BY <3>2 DEF PageTaken
  <2> QED
    BY <1>2, <2>1, <2>2 DEF Answered
<1>4. ByText(walk)
  BY <1>3 DEF ByText, Completes
<1>5. Survives(walk, s)
  BY <1>1, <1>4 DEF SurvivalInv
<1>6. q \in Questions /\ q.vectors.queries = <<>>
  BY <1>1, <1>4 DEF Questions, ByText, Question
<1> HIDE DEF q
<1>7. s \in Seq(Keys) /\ \A i, j \in 1..Len(s) : s[i] = s[j] => i = j
  BY <1>1, <1>6, ResultIs
<1>8. /\ Steers(walk) /\ Once(walk, s) /\ Due(walk, s) /\ LastRepeats(walk, walk.last)
      /\ walk.token = <<NextToken(walk.first, Point(walk))>>
  BY <1>1, <1>5 DEF Survives, Steers
<1>9. Point(walk) \in Nat
  <2>1. walk.first.skip \in Nat /\ Len(walk.seen) \in Nat
    BY <1>1, <1>8, RequestsAssumption, LenProperties DEF IsRequest, Steers
  <2> QED
    BY <2>1 DEF Point
<1>10. /\ IsRequest(e) /\ Question(e) = Question(walk.first) /\ e.skip = Point(walk)
       /\ LastRepeats(walk, send.body)
       /\ send.token = <<>> \/ ~Refuses(send.body, send.token[1])
  <2>1. Completes(walk)
    BY <1>4 DEF ByText
  <2> QED
    BY <1>1, <1>8, <1>9, <2>1, NextRequestContinues
<1>11. walk' = AfterPage(walk, send.body, e, Paginate(s, e.skip, e.top))
  BY <1>2, <1>10 DEF Answered, Found, q
<1> HIDE DEF e, s
<1>12. Survives(walk', s)
  <2>1. Survives(AfterPage(walk, send.body, e, Paginate(s, e.skip, e.top)), s)
    BY <1>1, <1>7, <1>8, <1>10, PageSurvives
  <2> QED
    BY <1>11, <2>1
<1> QED
  BY <1>1, <1>3, <1>12 DEF s, q

\* What a change of documents leaves of a walk.
ChangeTaken(w, change, next) ==
    /\ next.habit = w.habit /\ next.first = w.first /\ next.last = w.last
    /\ next.seen = w.seen /\ next.empty = w.empty /\ next.token = w.token
    /\ next.refused = w.refused /\ next.whole = w.whole
    /\ ToSet(next.changes) = ToSet(w.changes) \cup {change}

LEMMA ChangeIs ==
    ASSUME SurvivalInv, NEW change \in {"added", "removed"}, Changing(change)
    PROVE  ChangeTaken(walk, change, walk')
<1>1. /\ IsWalk(walk) /\ walk.changes \in Seq({"added", "removed"})
      /\ walk' = [walk EXCEPT !.changes = Append(@, change),
                              !.steady = [k \in DOMAIN @ \cap DOMAIN docs' |-> @[k]]]
  BY DEF SurvivalInv, PagesInv, Changing, IsWalk
<1>2. /\ walk'.habit = walk.habit /\ walk'.first = walk.first /\ walk'.last = walk.last
      /\ walk'.seen = walk.seen /\ walk'.empty = walk.empty /\ walk'.token = walk.token
      /\ walk'.refused = walk.refused /\ walk'.whole = walk.whole
      /\ walk'.changes = Append(walk.changes, change)
  BY <1>1 DEF IsWalk
<1> DEFINE s == walk.changes
           t == Append(s, change)
<1>3. /\ Len(s) \in Nat /\ DOMAIN s = 1..Len(s) /\ t \in Seq({"added", "removed"}) /\ Len(t) = Len(s) + 1
      /\ \A i \in 1..Len(s) : t[i] = s[i]
      /\ t[Len(s) + 1] = change
  BY <1>1, AppendProperties, LenProperties
<1>4. DOMAIN t = 1..Len(s) + 1
  BY <1>3, LenProperties
<1> HIDE DEF s, t
<1>5. ToSet(t) \subseteq ToSet(s) \cup {change}
  <2> SUFFICES ASSUME NEW i \in 1..Len(s) + 1 PROVE t[i] \in ToSet(s) \cup {change}
    BY <1>4 DEF ToSet
  <2>1. i \in 1..Len(s) \/ i = Len(s) + 1
    BY <1>3
  <2> QED
    BY <1>3, <2>1 DEF ToSet
<1>6. ToSet(s) \cup {change} \subseteq ToSet(t)
  <2>1. Len(s) + 1 \in DOMAIN t /\ \A i \in 1..Len(s) : i \in DOMAIN t
    BY <1>3, <1>4
  <2> QED
    BY <1>3, <2>1 DEF ToSet
<1>7. ToSet(t) = ToSet(s) \cup {change}
  BY <1>5, <1>6
<1> QED
  BY <1>2, <1>7 DEF ChangeTaken, s, t

LEMMA AddSurvives ==
    ASSUME SurvivalInv, AddDocument, ByText(walk')
    PROVE  Survives(walk', Result(Question(walk'.first), docs'))
<1>1. docs \in Holdings /\ docs' \in Holdings /\ Walking /\ walk.token # <<>>
      /\ walk.first \in Requests
  BY ChangesHold DEF SurvivalInv, PagesInv, AddDocument, Changing, IsWalk
<1>2. ChangeTaken(walk, "added", walk')
  BY ChangeIs DEF AddDocument
<1>3. Extends(docs', docs)
  <2>1. PICK k \in Keys \ DOMAIN docs, content \in Contents :
          docs' = [j \in DOMAIN docs \cup {k} |-> IF j = k THEN content ELSE docs[j]]
    BY DEF AddDocument
  <2> QED
    BY <2>1 DEF Extends
<1> DEFINE q == Question(walk.first)
           s == Result(q, docs)
           t == Result(q, docs')
<1>4. ByText(walk) /\ walk'.first = walk.first
  BY <1>2 DEF ChangeTaken, ByText, Completes
<1>5. Steers(walk) /\ Due(walk, s)
  BY <1>1, <1>4 DEF SurvivalInv, Survives
<1>6. q \in Questions /\ q.vectors.queries = <<>>
  BY <1>1, <1>4 DEF Questions, ByText, Question
<1> HIDE DEF q
<1>7. \A p \in 1..Len(s) : \E r \in 1..Len(t) : t[r] = s[p] /\ p <= r
  BY <1>1, <1>3, <1>6, GrowthShifts
<1>8. Len(t) \in Nat /\ Len(s) \in Nat /\ Point(walk) \in Nat
  <2>1. s \in Seq(Keys) /\ t \in Seq(Keys)
    BY <1>1, <1>6, ResultIs
  <2>2. walk.first.skip \in Nat /\ Len(walk.seen) \in Nat
    BY <1>1, <1>5, RequestsAssumption, LenProperties DEF IsRequest, Steers
  <2> QED
    BY <2>1, <2>2, LenProperties DEF Point
<1> HIDE DEF s, t
<1>9. Steers(walk') /\ Point(walk') = Point(walk)
  BY <1>2, <1>5 DEF ChangeTaken, Steers, LastRepeats, Point
<1>10. Due(walk', t)
  <2> SUFFICES ASSUME "removed" \notin ToSet(walk.changes), NEW k \in ToSet(Wanted(walk))
               PROVE  k \in ToSet(walk.seen) \/ Ahead(k, t, Point(walk))
    BY <1>1, <1>2, <1>9 DEF Due, ChangeTaken, Wanted
  <2>1. CASE Ahead(k, s, Point(walk))
    <3>1. PICK p \in 1..Len(s) : s[p] = k /\ Point(walk) < p
      BY <2>1 DEF Ahead
    <3>2. PICK r \in 1..Len(t) : t[r] = s[p] /\ p <= r
      BY <1>7
    <3>3. Point(walk) < r
      BY <1>8, <3>1, <3>2
    <3> QED
      BY <3>1, <3>2, <3>3 DEF Ahead
  <2> QED
    BY <1>5, <2>1 DEF Due
<1>11. Once(walk', t)
  BY <1>2 DEF Once, ChangeTaken
<1> QED
  BY <1>4, <1>9, <1>10, <1>11 DEF Survives, t, q

LEMMA RemoveSurvives ==
    ASSUME SurvivalInv, RemoveDocument, ByText(walk')
    PROVE  Survives(walk', Result(Question(walk'.first), docs'))
<1>1. docs \in Holdings /\ docs' \in Holdings /\ Walking /\ walk.token # <<>>
      /\ walk.first \in Requests
  BY ChangesHold DEF SurvivalInv, PagesInv, RemoveDocument, Changing, IsWalk
<1>2. ChangeTaken(walk, "removed", walk')
  BY ChangeIs DEF RemoveDocument
<1>3. Extends(docs, docs')
  BY DEF RemoveDocument, Extends
<1> DEFINE q == Question(walk.first)
           s == Result(q, docs)
           t == Result(q, docs')
<1>4. ByText(walk) /\ walk'.first = walk.first
  BY <1>2 DEF ChangeTaken, ByText, Completes
<1>5. Steers(walk) /\ Once(walk, s)
  BY <1>1, <1>4 DEF SurvivalInv, Survives
<1>6. q \in Questions /\ q.vectors.queries = <<>>
  BY <1>1, <1>4 DEF Questions, ByText, Question
<1> HIDE DEF q
<1>7. \A p \in 1..Len(t) : \E r \in 1..Len(s) : s[r] = t[p] /\ p <= r
  BY <1>1, <1>3, <1>6, GrowthShifts
<1>8. Len(t) \in Nat /\ Len(s) \in Nat /\ Point(walk) \in Nat
  <2>1. s \in Seq(Keys) /\ t \in Seq(Keys)
    BY <1>1, <1>6, ResultIs
  <2>2. walk.first.skip \in Nat /\ Len(walk.seen) \in Nat
    BY <1>1, <1>5, RequestsAssumption, LenProperties DEF IsRequest, Steers
  <2> QED
    BY <2>1, <2>2, LenProperties DEF Point
<1> HIDE DEF s, t
<1>9. Steers(walk') /\ Point(walk') = Point(walk)
  BY <1>2, <1>5 DEF ChangeTaken, Steers, LastRepeats, Point
<1>10. Due(walk', t)
  BY <1>2 DEF Due, ChangeTaken
<1>11. ASSUME NEW k, Passed(k, s, Point(walk)) PROVE Passed(k, t, Point(walk))
  <2> SUFFICES ASSUME NEW p \in 1..Len(t), t[p] = k PROVE p <= Point(walk)
    BY DEF Passed
  <2>1. PICK r \in 1..Len(s) : s[r] = t[p] /\ p <= r
    BY <1>7
  <2>2. r <= Point(walk)
    BY <1>11, <2>1 DEF Passed
  <2> QED
    BY <1>8, <2>1, <2>2
<1>12. Once(walk', t)
  <2> SUFFICES ASSUME "added" \notin ToSet(walk.changes)
               PROVE  /\ \A i, j \in 1..Len(walk.seen) : walk.seen[i] = walk.seen[j] => i = j
                      /\ \A k \in ToSet(walk.seen) : Passed(k, t, Point(walk))
    BY <1>2, <1>9 DEF Once, ChangeTaken
  <2> QED
    BY <1>5, <1>11 DEF Once
<1> QED
  BY <1>4, <1>9, <1>10, <1>12 DEF Survives, t, q

\* The inductive invariant of walks through changes: what is still to be seen
\* is ahead of the client while documents only come, and what was seen is
\* behind it while they only go.
THEOREM PagesKeepTheirPlace == PageSpec => []SurvivalInv
<1>1. PageInit => (Walking /\ ByText(walk) => Survives(walk, Result(Question(walk.first), docs)))
  BY DEF PageInit, Walking
<1>2. SurvivalInv /\ PagesInv' /\ [PageNext]_pageVars => SurvivalInv'
  <2> SUFFICES ASSUME SurvivalInv, [PageNext]_pageVars, Walking', ByText(walk')
               PROVE  Survives(walk', Result(Question(walk'.first), docs'))
    BY DEF SurvivalInv
  <2>1. CASE FirstPage
    BY <2>1, FirstSurvives
  <2>2. CASE NextPage
    BY <2>2, NextSurvives
  <2>3. CASE AddDocument
    BY <2>3, AddSurvives
  <2>4. CASE RemoveDocument
    BY <2>4, RemoveSurvives
  <2>5. CASE EndWalk
    BY <2>5 DEF EndWalk, Walking
  <2>6. CASE UNCHANGED pageVars
    BY <2>6 DEF pageVars, SurvivalInv, Walking
  <2> QED
    BY <2>1, <2>2, <2>3, <2>4, <2>5, <2>6 DEF PageNext
<1>3. /\ (Walking /\ ByText(walk) => Survives(walk, Result(Question(walk.first), docs)))
      /\ PagesInv
      <=> SurvivalInv
  BY DEF SurvivalInv
<1> QED
  BY <1>1, <1>2, <1>3, PagesStayOnCourse, PTL DEF PageSpec

\* Documents that come during a walk hide none of the others, and documents
\* that go make none of the others appear twice (ContinuationToken): for any
\* number of changes and pages, any documents, filters, orders and page sizes.
THEOREM PagesSurviveChangesAlways == PageSpec => []PagesSurviveChanges
<1>1. SurvivalInv => PagesSurviveChanges
  <2> SUFFICES ASSUME SurvivalInv, Walking, Complete, OrdersByFields(walk.first)
               PROVE  LET changes == ToSet(walk.changes)
                          due     == ToSet(Expected) \cap DOMAIN walk.steady
                      IN  /\ (walk.token = <<>> /\ ~walk.empty /\ "removed" \notin changes)
                               => due \subseteq ToSet(walk.seen)
                          /\ "added" \notin changes => IsInjective(walk.seen)
    BY DEF PagesSurviveChanges
  <2>1. ByText(walk)
    BY DEF OrdersByFields, Complete, Completes, ByText
  <2>2. Survives(walk, Result(Question(walk.first), docs))
    BY <2>1 DEF SurvivalInv
  <2>3. Expected = Wanted(walk)
    BY DEF Expected, Wanted
  <2>4. DOMAIN walk.seen = 1..Len(walk.seen)
    BY <2>2, LenProperties DEF Survives, Steers
  <2> QED
    BY <2>2, <2>3, <2>4 DEF Survives, Due, Once, IsInjective
<1> QED
  BY <1>1, PagesKeepTheirPlace, PTL

=============================================================================
