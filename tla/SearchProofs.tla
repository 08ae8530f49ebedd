---------------------------- MODULE SearchProofs ----------------------------
(***************************************************************************)
(* Theorems about what the tools of FileTools answer: glob and grep find   *)
(* what is visible, and the lines that edit and grep name are those that   *)
(* read shows, for any workspace, any ignore rules and any text.           *)
(***************************************************************************)
EXTENDS DataProofs

-----------------------------------------------------------------------------
(* A walk and a sorted result list their entries by an order: the place of *)
(* an entry is the number of those before it.                              *)

\* R orders S: no two elements of S are level, and none is before itself.
Orders(R, S) ==
  /\ \A x \in S : <<x, x>> \notin R
  /\ \A x, y, z \in S : <<x, y>> \in R /\ <<y, z>> \in R => <<x, z>> \in R
  /\ \A x, y \in S : x = y \/ <<x, y>> \in R \/ <<y, x>> \in R

Preceding(R, S, x) == {y \in S : <<y, x>> \in R}

LEMMA PrecedingGrows ==
  ASSUME NEW S, IsFiniteSet(S), NEW R, Orders(R, S), NEW x \in S, NEW y \in S,
         <<x, y>> \in R
  PROVE  Cardinality(Preceding(R, S, x)) < Cardinality(Preceding(R, S, y))
  <1>1. Preceding(R, S, x) \in SUBSET Preceding(R, S, y)
    BY DEF Orders, Preceding
  <1>2. x \in Preceding(R, S, y) /\ x \notin Preceding(R, S, x)
    BY DEF Orders, Preceding
  <1>3. IsFiniteSet(Preceding(R, S, y))
    BY FS_Subset DEF Preceding
  <1>4. /\ IsFiniteSet(Preceding(R, S, x))
        /\ Cardinality(Preceding(R, S, x)) <= Cardinality(Preceding(R, S, y))
        /\ Cardinality(Preceding(R, S, x)) # Cardinality(Preceding(R, S, y))
    BY <1>1, <1>2, <1>3, FS_Subset
  <1>5. /\ Cardinality(Preceding(R, S, x)) \in Nat
        /\ Cardinality(Preceding(R, S, y)) \in Nat
    BY <1>3, <1>4, FS_CardinalityType
  <1> QED BY <1>4, <1>5

LEMMA PrecedingDiffers ==
  ASSUME NEW S, IsFiniteSet(S), NEW R, Orders(R, S), NEW x \in S, NEW y \in S
  PROVE  /\ Cardinality(Preceding(R, S, x)) \in Nat
         /\ Cardinality(Preceding(R, S, x)) = Cardinality(Preceding(R, S, y))
              => x = y
         /\ Cardinality(Preceding(R, S, x)) < Cardinality(Preceding(R, S, y))
              <=> <<x, y>> \in R
  <1>1. /\ Cardinality(Preceding(R, S, x)) \in Nat
        /\ Cardinality(Preceding(R, S, y)) \in Nat
    BY FS_Subset, FS_CardinalityType DEF Preceding
  <1>2. x = y \/ <<x, y>> \in R \/ <<y, x>> \in R
    BY DEF Orders
  <1>3. <<x, y>> \in R =>
          Cardinality(Preceding(R, S, x)) < Cardinality(Preceding(R, S, y))
    BY PrecedingGrows
  <1>4. <<y, x>> \in R =>
          Cardinality(Preceding(R, S, y)) < Cardinality(Preceding(R, S, x))
    BY PrecedingGrows
  <1> QED BY <1>1, <1>2, <1>3, <1>4

\* Every place in the order is someone's.
LEMMA PlaceTaken ==
  ASSUME NEW S, IsFiniteSet(S), NEW R, Orders(R, S), NEW k \in 1..Cardinality(S)
  PROVE  \E x \in S : Cardinality(Preceding(R, S, x)) = k - 1
  <1> DEFINE n == Cardinality(S)
             rank == [x \in S |-> Cardinality(Preceding(R, S, x))]
             Q == 0..n - 1
  <1>1. n \in Nat
    BY FS_CardinalityType
  <1>2. rank \in [S -> Q]
    <2> SUFFICES ASSUME NEW x \in S PROVE Cardinality(Preceding(R, S, x)) \in Q
      OBVIOUS
    <2>1. Preceding(R, S, x) \in SUBSET S /\ x \notin Preceding(R, S, x)
      BY DEF Preceding, Orders
    <2>2. /\ IsFiniteSet(Preceding(R, S, x))
          /\ Cardinality(Preceding(R, S, x)) <= n
          /\ Cardinality(Preceding(R, S, x)) # n
      BY <2>1, FS_Subset
    <2>3. Cardinality(Preceding(R, S, x)) \in Nat
      BY <2>2, FS_CardinalityType
    <2> QED BY <1>1, <2>2, <2>3
  <1>3. rank \in Injection(S, Q)
    <2> SUFFICES ASSUME NEW x \in S, NEW y \in S, rank[x] = rank[y]
                 PROVE  x = y
      BY <1>2 DEF Injection, IsInjective
    <2> QED BY PrecedingDiffers
  <1>4. IsFiniteSet(Q) /\ Cardinality(Q) = n
    <2>1. n - 1 \in Int /\ 0 \in Int
      BY <1>1
    <2>2. /\ IsFiniteSet(Q)
          /\ Cardinality(Q) = IF 0 > n - 1 THEN 0 ELSE (n - 1) - 0 + 1
      <3> HIDE DEF n
      <3> QED BY <2>1, FS_Interval
    <2> HIDE DEF n, Q
    <2> QED BY <1>1, <2>2
  <1> HIDE DEF rank
  <1>5. rank \in Surjection(S, Q)
    BY <1>3, <1>4, FS_Injection
  <1>6. k - 1 \in Q
    BY <1>1
  <1>7. PICK x \in S : rank[x] = k - 1
    BY <1>5, <1>6 DEF Surjection
  <1> QED BY <1>7 DEF rank

\* f lists S in the order R.
Lists(f, R, S) ==
  /\ f \in [1..Cardinality(S) -> S]
  /\ \A x \in S : \E k \in 1..Cardinality(S) : f[k] = x
  /\ \A i, j \in 1..Cardinality(S) : i < j <=> <<f[i], f[j]>> \in R
  /\ \A i, j \in 1..Cardinality(S) : f[i] = f[j] => i = j

\* Elements put at their places in an order are listed in it.
LEMMA PlacedIsListed ==
  ASSUME NEW S, IsFiniteSet(S), NEW R, Orders(R, S),
         NEW f \in [1..Cardinality(S) -> S],
         \A k \in 1..Cardinality(S) : Cardinality(Preceding(R, S, f[k])) = k - 1
  PROVE  Lists(f, R, S)
  <1> DEFINE n == Cardinality(S)
  <1>1. n \in Nat
    BY FS_CardinalityType
  <1>2. ASSUME NEW i \in 1..n, NEW j \in 1..n
        PROVE  /\ i < j <=> <<f[i], f[j]>> \in R
               /\ f[i] = f[j] => i = j
    <2>1. f[i] \in S /\ f[j] \in S /\ i \in Nat /\ j \in Nat
      BY <1>1
    <2>2. /\ Cardinality(Preceding(R, S, f[i])) = i - 1
          /\ Cardinality(Preceding(R, S, f[j])) = j - 1
      OBVIOUS
    <2> HIDE DEF n
    <2> QED BY <2>1, <2>2, PrecedingDiffers
  <1>3. f \in Injection(1..n, S)
    BY <1>2 DEF Injection, IsInjective
  <1>4. IsFiniteSet(1..n) /\ Cardinality(1..n) = n
    <2>1. 1 \in Int /\ n \in Int
      BY <1>1
    <2>2. /\ IsFiniteSet(1..n)
          /\ Cardinality(1..n) = IF 1 > n THEN 0 ELSE n - 1 + 1
      <3> HIDE DEF n
      <3> QED BY <2>1, FS_Interval
    <2> HIDE DEF n
    <2> QED BY <1>1, <2>2
  <1>5. f \in Surjection(1..n, S)
    BY <1>3, <1>4, FS_Injection
  <1> QED BY <1>2, <1>5 DEF Lists, Surjection
-----------------------------------------------------------------------------
(* The order of a walk.                                                     *)

LEMMA PathTyped ==
  ASSUME NEW p \in Paths
  PROVE  /\ p \in Seq(ToSet(Names)) /\ Len(p) \in Nat \ {0}
         /\ DOMAIN p = 1..Len(p)
         /\ Entry(p) \in Tree /\ Entry(p).path = p /\ Entry(p).text \in Seq(Char)
  <1>1. PICK e \in Tree : e.path = p
    BY DEF Paths
  <1>2. Entry(p) \in Tree /\ Entry(p).path = p
    BY <1>1 DEF Entry
  <1>3. p \in Seq(ToSet(Names)) /\ p # <<>> /\ Entry(p).text \in Seq(Char)
    BY <1>1, <1>2, SearchAssumption
  <1> QED BY <1>2, <1>3

LEMMA PathsFinite == IsFiniteSet(Paths)
  <1> DEFINE f == [e \in Tree |-> e.path]
  <1>1. f \in Surjection(Tree, Paths)
    BY DEF Surjection, Paths
  <1> QED BY <1>1, SearchAssumption, FS_Surjection

LEMMA RankIs ==
  ASSUME NEW a \in ToSet(Names), NEW b \in ToSet(Names)
  PROVE  Rank(a) \in Nat /\ (Rank(a) = Rank(b) => a = b)
  <1>1. ASSUME NEW c \in ToSet(Names)
        PROVE  Rank(c) \in DOMAIN Names /\ Names[Rank(c)] = c
    <2>1. \E i \in DOMAIN Names : Names[i] = c
      BY DEF ToSet
    <2> QED BY <2>1 DEF Rank
  <1>2. DOMAIN Names \subseteq Nat
    BY SearchAssumption
  <1> QED BY <1>1, <1>2

\* p and q part at i: they are alike before it, and there p ends or has the
\* smaller name.
PartAt(p, q, i) ==
  /\ i \in 1..Len(p) + 1 /\ i <= Len(q)
  /\ \A m \in 1..i - 1 : p[m] = q[m]
  /\ i = Len(p) + 1 \/ Rank(p[i]) < Rank(q[i])

LEMMA PrefixIs ==
  ASSUME NEW S, NEW p \in Seq(S), NEW q \in Seq(S)
  PROVE  IsStrictPrefix(p, q)
           <=> Len(p) < Len(q) /\ \A m \in 1..Len(p) : p[m] = q[m]
  <1>1. ASSUME IsStrictPrefix(p, q)
        PROVE  Len(p) < Len(q) /\ \A m \in 1..Len(p) : p[m] = q[m]
    <2>1. /\ Len(p) <= Len(q) /\ SubSeq(p, 1, Len(p)) = SubSeq(q, 1, Len(p))
          /\ p # q
      BY <1>1 DEF IsStrictPrefix, IsPrefix
    <2>2. \A m \in 1..Len(p) : SubSeq(p, 1, Len(p))[m] = p[m]
                               /\ SubSeq(q, 1, Len(p))[m] = q[m]
      BY <2>1
    <2>3. \A m \in 1..Len(p) : p[m] = q[m]
      BY <2>1, <2>2
    <2> QED BY <2>1, <2>3
  <1>2. ASSUME Len(p) < Len(q), \A m \in 1..Len(p) : p[m] = q[m]
        PROVE  IsStrictPrefix(p, q)
    BY <1>2 DEF IsStrictPrefix, IsPrefix
  <1> QED BY <1>1, <1>2

LEMMA BeforeIs ==
  ASSUME NEW p \in Paths, NEW q \in Paths
  PROVE  WalksBefore(p, q) <=> \E i \in Nat : PartAt(p, q, i)
  <1> DEFINE N == ToSet(Names)
  <1>1. /\ p \in Seq(N) /\ q \in Seq(N) /\ Len(p) \in Nat /\ Len(q) \in Nat
        /\ DOMAIN p = 1..Len(p) /\ DOMAIN q = 1..Len(q)
    BY PathTyped
  <1> HIDE DEF N
  <1>2. ASSUME NEW i \in Nat, PartAt(p, q, i) PROVE WalksBefore(p, q)
    <2>1. CASE i = Len(p) + 1
      BY <2>1, <1>1, <1>2, PrefixIs DEF PartAt, WalksBefore
    <2>2. CASE i # Len(p) + 1
      <3>1. /\ i \in 1..Len(p) /\ i \in 1..Len(q)
            /\ \A m \in 1..i - 1 : p[m] = q[m]
            /\ Rank(p[i]) < Rank(q[i])
        BY <2>2, <1>1, <1>2 DEF PartAt
      <3>2. SubSeq(p, 1, i - 1) = SubSeq(q, 1, i - 1)
        BY <3>1, <1>1
      <3> QED BY <3>1, <3>2, <1>1 DEF WalksBefore
    <2> QED BY <2>1, <2>2
  <1>3. ASSUME IsStrictPrefix(p, q) PROVE PartAt(p, q, Len(p) + 1)
    BY <1>1, <1>3, PrefixIs DEF PartAt
  <1>4. ASSUME NEW i \in DOMAIN p \cap DOMAIN q,
               SubSeq(p, 1, i - 1) = SubSeq(q, 1, i - 1),
               Rank(p[i]) < Rank(q[i])
        PROVE  PartAt(p, q, i)
    <2>1. i \in 1..Len(p) /\ i \in 1..Len(q)
      BY <1>1
    <2>2. \A m \in 1..i - 1 : SubSeq(p, 1, i - 1)[m] = p[m]
                              /\ SubSeq(q, 1, i - 1)[m] = q[m]
      BY <1>1, <2>1
    <2>3. \A m \in 1..i - 1 : p[m] = q[m]
      BY <2>2, <1>4
    <2> QED BY <1>1, <1>4, <2>1, <2>3 DEF PartAt
  <1>5. Len(p) + 1 \in Nat /\ DOMAIN p \subseteq Nat
    BY <1>1
  <1> QED BY <1>2, <1>3, <1>4, <1>5 DEF WalksBefore

WalkPairs == {w \in Paths \X Paths : WalksBefore(w[1], w[2])}

\* The order of a walk is an order of all paths.
LEMMA WalkPairsOrder == Orders(WalkPairs, Paths)
  <1>0. ASSUME NEW p \in Paths, NEW q \in Paths
        PROVE  <<p, q>> \in WalkPairs <=> WalksBefore(p, q)
    BY DEF WalkPairs
  <1>1. ASSUME NEW p \in Paths PROVE ~WalksBefore(p, p)
    <2> SUFFICES ASSUME NEW i \in Nat, PartAt(p, p, i) PROVE FALSE
      BY BeforeIs
    <2>1. i \in 1..Len(p) /\ p \in Seq(ToSet(Names)) /\ Rank(p[i]) < Rank(p[i])
      BY PathTyped DEF PartAt
    <2>2. Rank(p[i]) \in Nat
      <3> HIDE DEF PartAt
      <3>1. p[i] \in ToSet(Names)
        BY <2>1
      <3> QED BY <3>1, RankIs
    <2> QED BY <2>1, <2>2
  <1>2. ASSUME NEW p \in Paths, NEW q \in Paths, NEW r \in Paths,
               WalksBefore(p, q), WalksBefore(q, r)
        PROVE  WalksBefore(p, r)
    <2>1. PICK i \in Nat : PartAt(p, q, i)
      BY <1>2, BeforeIs
    <2>2. PICK j \in Nat : PartAt(q, r, j)
      BY <1>2, BeforeIs
    <2>3. /\ Len(p) \in Nat /\ Len(q) \in Nat /\ Len(r) \in Nat
          /\ p \in Seq(ToSet(Names)) /\ q \in Seq(ToSet(Names))
          /\ r \in Seq(ToSet(Names))
      BY PathTyped
    <2>4. ASSUME NEW m \in 1..Len(p), NEW n \in 1..Len(q), NEW o \in 1..Len(r)
          PROVE  Rank(p[m]) \in Nat /\ Rank(q[n]) \in Nat /\ Rank(r[o]) \in Nat
      <3>1. p[m] \in ToSet(Names) /\ q[n] \in ToSet(Names) /\ r[o] \in ToSet(Names)
        BY <2>3
      <3> QED BY <3>1, RankIs
    <2>5. CASE i < j
      <3>1. PartAt(p, r, i)
        BY <2>1, <2>2, <2>3, <2>5 DEF PartAt
      <3> QED BY <3>1, BeforeIs
    <2>6. CASE i = j
      <3>1. i \in 1..Len(q) /\ i \in 1..Len(r) /\ Rank(q[i]) < Rank(r[i])
        BY <2>1, <2>2, <2>3, <2>6 DEF PartAt
      <3>2. i # Len(p) + 1 => i \in 1..Len(p) /\ Rank(p[i]) < Rank(q[i])
        BY <2>1, <2>3 DEF PartAt
      <3>3. i # Len(p) + 1 => Rank(p[i]) < Rank(r[i])
        BY <3>1, <3>2, <2>4
      <3>4. PartAt(p, r, i)
        BY <2>1, <2>2, <2>3, <2>6, <3>1, <3>3 DEF PartAt
      <3> QED BY <3>4, BeforeIs
    <2>7. CASE j < i
      <3>1. PartAt(p, r, j)
        BY <2>1, <2>2, <2>3, <2>7 DEF PartAt
      <3> QED BY <3>1, BeforeIs
    <2> QED BY <2>5, <2>6, <2>7
  <1>3. ASSUME NEW p \in Paths, NEW q \in Paths
        PROVE  p = q \/ WalksBefore(p, q) \/ WalksBefore(q, p)
    <2> DEFINE T == {i \in Nat : /\ i >= 1
                                 /\ \/ i = Len(p) + 1 \/ i = Len(q) + 1
                                    \/ p[i] # q[i]}
    <2>1. /\ Len(p) \in Nat /\ Len(q) \in Nat
          /\ p \in Seq(ToSet(Names)) /\ q \in Seq(ToSet(Names))
      BY PathTyped
    <2>2. Len(p) + 1 \in T
      BY <2>1
    <2>3. PICK i \in T : \A m \in T : i <= m
      <3>1. T \in SUBSET Nat /\ T # {}
        BY <2>2
      <3> HIDE DEF T
      <3> QED BY <3>1, NatMin, Zenon
    <2>4. i <= Len(p) + 1 /\ i <= Len(q) + 1 /\ i >= 1 /\ i \in Nat
      BY <2>1, <2>3
    <2>5. \A m \in 1..i - 1 : p[m] = q[m]
      <3> SUFFICES ASSUME NEW m \in 1..i - 1, p[m] # q[m] PROVE FALSE
        OBVIOUS
      <3>1. m \in T /\ m < i /\ m \in Nat
        BY <2>4
      <3> QED BY <3>1, <2>3, <2>4
    <2>6. CASE i = Len(p) + 1 /\ i = Len(q) + 1
      BY <2>1, <2>5, <2>6
    <2>7. CASE i = Len(p) + 1 /\ i # Len(q) + 1
      <3>1. PartAt(p, q, i)
        BY <2>1, <2>4, <2>5, <2>7 DEF PartAt
      <3> QED BY <3>1, <2>4, BeforeIs
    <2>8. CASE i # Len(p) + 1 /\ i = Len(q) + 1
      <3>1. PartAt(q, p, i)
        BY <2>1, <2>4, <2>5, <2>8 DEF PartAt
      <3> QED BY <3>1, <2>4, BeforeIs
    <2>9. CASE i # Len(p) + 1 /\ i # Len(q) + 1
      <3>1. i \in 1..Len(p) /\ i \in 1..Len(q) /\ p[i] # q[i]
        BY <2>1, <2>3, <2>4, <2>9
      <3>2. p[i] \in ToSet(Names) /\ q[i] \in ToSet(Names)
        BY <2>1, <3>1
      <3>3. /\ Rank(p[i]) \in Nat /\ Rank(q[i]) \in Nat
            /\ Rank(p[i]) # Rank(q[i])
        BY <3>1, <3>2, RankIs
      <3>4. Rank(p[i]) < Rank(q[i]) \/ Rank(q[i]) < Rank(p[i])
        BY <3>3
      <3>5. PartAt(p, q, i) \/ PartAt(q, p, i)
        BY <2>1, <2>4, <2>5, <3>1, <3>4 DEF PartAt
      <3> QED BY <3>5, <2>4, BeforeIs
    <2> QED BY <2>6, <2>7, <2>8, <2>9
  <1> QED BY <1>0, <1>1, <1>2, <1>3 DEF Orders

LEMMA OrdersPart ==
  ASSUME NEW S, NEW R, Orders(R, S), NEW T \in SUBSET S
  PROVE  Orders(R, T)
  BY DEF Orders

\* A walk meets every path once, in order.
LEMMA WalkIsListed == Lists(WalkOrder, WalkPairs, Paths)
  <1> DEFINE n == Cardinality(Paths)
  <1>1. IsFiniteSet(Paths) /\ n \in Nat
    BY PathsFinite, FS_CardinalityType
  <1>2. WalkOrder = [k \in 1..n |->
          CHOOSE p \in Paths :
            Cardinality({q \in Paths : WalksBefore(q, p)}) = k - 1]
    BY DEF WalkOrder, InOrder
  <1>3. \A p \in Paths :
          {q \in Paths : WalksBefore(q, p)} = Preceding(WalkPairs, Paths, p)
    BY DEF Preceding, WalkPairs
  <1>4. ASSUME NEW k \in 1..n
        PROVE  /\ WalkOrder[k] \in Paths
               /\ Cardinality(Preceding(WalkPairs, Paths, WalkOrder[k])) = k - 1
    <2>1. \E p \in Paths : Cardinality(Preceding(WalkPairs, Paths, p)) = k - 1
      BY <1>1, WalkPairsOrder, PlaceTaken
    <2>2. \E p \in Paths :
            Cardinality({q \in Paths : WalksBefore(q, p)}) = k - 1
      BY <2>1, <1>3
    <2>3. /\ WalkOrder[k] \in Paths
          /\ Cardinality({q \in Paths : WalksBefore(q, WalkOrder[k])}) = k - 1
      BY <1>2, <2>2
    <2> QED BY <2>3, <1>3
  <1>5. WalkOrder \in [1..n -> Paths]
    BY <1>2, <1>4
  <1> QED BY <1>1, <1>4, <1>5, WalkPairsOrder, PlacedIsListed

NewerPairs(time) == {w \in Paths \X Paths : Newer(time, w[1], w[2])}

\* The strings that spell two paths differ, and one comes first.
LEMMA SpellingOrders ==
  /\ \A p \in Paths : ~SpelledBefore(p, p)
  /\ \A p, q, r \in Paths :
       SpelledBefore(p, q) /\ SpelledBefore(q, r) => SpelledBefore(p, r)
  /\ \A p, q \in Paths :
       p = q \/ SpelledBefore(p, q) \/ SpelledBefore(q, p)
  <1>1. /\ DOMAIN PathOrder \subseteq Int
        /\ \A i, j \in DOMAIN PathOrder : PathOrder[i] = PathOrder[j] => i = j
        /\ \A p \in Paths : \E i \in DOMAIN PathOrder : PathOrder[i] = p
    BY PathOrderAssumption DEF ToSet
  <1>2. ASSUME NEW p \in Paths PROVE ~SpelledBefore(p, p)
    BY <1>1 DEF SpelledBefore
  <1>3. ASSUME NEW p \in Paths, NEW q \in Paths, NEW r \in Paths,
               SpelledBefore(p, q), SpelledBefore(q, r)
        PROVE  SpelledBefore(p, r)
    <2>1. PICK i, j \in DOMAIN PathOrder :
            i < j /\ PathOrder[i] = p /\ PathOrder[j] = q
      BY <1>3 DEF SpelledBefore
    <2>2. PICK k, l \in DOMAIN PathOrder :
            k < l /\ PathOrder[k] = q /\ PathOrder[l] = r
      BY <1>3 DEF SpelledBefore
    <2>3. i < l
      BY <1>1, <2>1, <2>2
    <2> QED BY <2>1, <2>2, <2>3 DEF SpelledBefore
  <1>4. ASSUME NEW p \in Paths, NEW q \in Paths
        PROVE  p = q \/ SpelledBefore(p, q) \/ SpelledBefore(q, p)
    <2>1. PICK i, j \in DOMAIN PathOrder : PathOrder[i] = p /\ PathOrder[j] = q
      BY <1>1
    <2>2. i < j \/ i = j \/ j < i
      BY <1>1
    <2> QED BY <2>1, <2>2 DEF SpelledBefore
  <1> QED BY <1>2, <1>3, <1>4

\* So is the order in which results are sorted.
LEMMA NewerPairsOrder ==
  ASSUME NEW time \in [Paths -> Nat]
  PROVE  Orders(NewerPairs(time), Paths)
  <1>1. /\ \A p \in Paths : time[p] \in Nat /\ ~SpelledBefore(p, p)
        /\ \A p, q, r \in Paths :
             SpelledBefore(p, q) /\ SpelledBefore(q, r) => SpelledBefore(p, r)
        /\ \A p, q \in Paths :
             p = q \/ SpelledBefore(p, q) \/ SpelledBefore(q, p)
    BY SpellingOrders
  <1>2. \A p, q \in Paths :
          <<p, q>> \in NewerPairs(time) <=> Newer(time, p, q)
    BY DEF NewerPairs
  <1>3. ASSUME NEW p \in Paths PROVE ~Newer(time, p, p)
    BY <1>1 DEF Newer
  <1>4. ASSUME NEW p \in Paths, NEW q \in Paths, NEW r \in Paths,
               Newer(time, p, q), Newer(time, q, r)
        PROVE  Newer(time, p, r)
    <2>1. time[p] \in Nat /\ time[q] \in Nat /\ time[r] \in Nat
      BY <1>1
    <2> QED BY <1>1, <1>4, <2>1 DEF Newer
  <1>5. ASSUME NEW p \in Paths, NEW q \in Paths
        PROVE  p = q \/ Newer(time, p, q) \/ Newer(time, q, p)
    <2>1. time[p] \in Nat /\ time[q] \in Nat
      BY <1>1
    <2> QED BY <1>1, <2>1 DEF Newer
  <1> QED BY <1>2, <1>3, <1>4, <1>5 DEF Orders

\* What is sorted by recency: nothing else, nothing less, and the newest first.
LEMMA RecencyIs ==
  ASSUME NEW time \in [Paths -> Nat], NEW files,
         ToSet(files) \subseteq Paths,
         NEW n \in Nat, Cardinality(ToSet(files)) = n
  PROVE  LET sorted == ByRecency(time, files)
         IN  /\ sorted \in [1..n -> ToSet(files)]
             /\ sorted \in Seq(Paths) /\ Len(sorted) = n
             /\ ToSet(sorted) = ToSet(files)
             /\ \A i, j \in 1..n : i < j => time[sorted[i]] >= time[sorted[j]]
             /\ \A i, j \in 1..n : sorted[i] = sorted[j] => i = j
  <1> DEFINE S == ToSet(files)
             R == NewerPairs(time)
             sorted == ByRecency(time, files)
  <1>1. /\ IsFiniteSet(S) /\ Orders(R, S) /\ S \subseteq Paths
        /\ Cardinality(S) = n
    BY PathsFinite, FS_Subset, NewerPairsOrder, OrdersPart
  <1>2. sorted = [k \in 1..n |->
          CHOOSE p \in S : Cardinality({q \in S : Newer(time, q, p)}) = k - 1]
    BY DEF ByRecency, InOrder
  <1>3. \A p \in S : {q \in S : Newer(time, q, p)} = Preceding(R, S, p)
    BY <1>1 DEF Preceding, NewerPairs
  <1> HIDE DEF S, R, sorted
  <1>4. ASSUME NEW k \in 1..n
        PROVE  /\ sorted[k] \in S
               /\ Cardinality(Preceding(R, S, sorted[k])) = k - 1
    <2>1. \E p \in S : Cardinality(Preceding(R, S, p)) = k - 1
      BY <1>1, PlaceTaken
    <2>2. \E p \in S : Cardinality({q \in S : Newer(time, q, p)}) = k - 1
      BY <2>1, <1>3
    <2>3. /\ sorted[k] \in S
          /\ Cardinality({q \in S : Newer(time, q, sorted[k])}) = k - 1
      BY <1>2, <2>2
    <2> QED BY <2>3, <1>3
  <1>5. sorted \in [1..n -> S]
    BY <1>2, <1>4
  <1>6. Lists(sorted, R, S)
    BY <1>1, <1>4, <1>5, PlacedIsListed
  <1>7. sorted \in Seq(Paths) /\ Len(sorted) = n /\ DOMAIN sorted = 1..n
    BY <1>1, <1>5
  <1>8. ToSet(sorted) = S
    BY <1>1, <1>5, <1>6, <1>7 DEF ToSet, Lists
  <1>9. ASSUME NEW i \in 1..n, NEW j \in 1..n, i < j
        PROVE  time[sorted[i]] >= time[sorted[j]]
    <2>1. <<sorted[i], sorted[j]>> \in R
      BY <1>1, <1>6, <1>9 DEF Lists
    <2>2. Newer(time, sorted[i], sorted[j])
      BY <2>1 DEF R, NewerPairs
    <2>3. time[sorted[i]] \in Nat /\ time[sorted[j]] \in Nat
      BY <1>1, <1>5
    <2> QED BY <2>2, <2>3 DEF Newer
  <1>10. \A i, j \in 1..n : sorted[i] = sorted[j] => i = j
    BY <1>1, <1>6 DEF Lists
  <1> QED BY <1>5, <1>7, <1>8, <1>9, <1>10 DEF S, sorted
-----------------------------------------------------------------------------
(* Folds.                                                                   *)

LEMMA MaxOf ==
  ASSUME NEW n \in Nat, NEW T \in SUBSET (1..n), T # {}
  PROVE  Max(T) \in T /\ \A m \in T : m <= Max(T)
  <1>1. T \in SUBSET Nat /\ \A m \in T : m <= n
    OBVIOUS
  <1>2. PICK k \in T : \A m \in T : m <= k
    BY <1>1, NatMax
  <1> QED BY <1>2 DEF Max

\* f folds over the subsets of 1..n, the largest number last.
Folds(f, step, base, n) ==
  f = [T \in SUBSET (1..n) |->
         IF T = {} THEN base ELSE step[Max(T)][f[T \ {Max(T)}]]]

\* The recursive function that a fold is defined by exists, for any step.
LEMMA FoldExists ==
  ASSUME NEW S, NEW n \in Nat, NEW base \in S, NEW step \in [1..n -> [S -> S]]
  PROVE  \E f \in [SUBSET (1..n) -> S] : Folds(f, step, base, n)
  <1> DEFINE P(k) == {T \in SUBSET (1..n) : \A m \in T : m <= k}
             D(f, k) == /\ f \in [P(k) -> S]
                        /\ \A T \in P(k) :
                             f[T] = IF T = {} THEN base
                                    ELSE step[Max(T)][f[T \ {Max(T)}]]
             U == {k \in 0..n : \E f : D(f, k)}
  <1>1. 0 \in U
    <2> DEFINE f == [T \in P(0) |-> base]
    <2>1. \A T \in P(0) : T = {}
      OBVIOUS
    <2>2. D(f, 0)
      BY <2>1
    <2> HIDE DEF D
    <2> QED BY <2>2
  <1>2. ASSUME NEW k \in 1..n, k - 1 \in U PROVE k \in U
    <2>1. PICK f : D(f, k - 1)
      BY <1>2
    <2> DEFINE g == [T \in P(k) |-> IF k \in T THEN step[k][f[T \ {k}]]
                                    ELSE f[T]]
    <2>2. ASSUME NEW T \in P(k)
          PROVE  /\ k \in T => T \ {k} \in P(k - 1)
                 /\ k \notin T => T \in P(k - 1)
      OBVIOUS
    <2>3. ASSUME NEW T \in P(k), k \in T PROVE Max(T) = k
      <3>1. Max(T) \in T /\ \A m \in T : m <= Max(T)
        BY <2>3, MaxOf
      <3>2. Max(T) \in 1..n /\ Max(T) <= k /\ k <= Max(T)
        BY <3>1, <2>3
      <3> QED BY <3>2
    <2>4. ASSUME NEW T \in P(k)
          PROVE  g[T] = IF k \in T THEN step[k][f[T \ {k}]] ELSE f[T]
      OBVIOUS
    <2>5. g \in [P(k) -> S]
      <3>1. ASSUME NEW T \in P(k) PROVE g[T] \in S
        <4>1. CASE k \in T
          <5>1. f[T \ {k}] \in S
            BY <4>1, <2>1, <2>2
          <5> QED BY <4>1, <2>4, <5>1
        <4>2. CASE k \notin T
          BY <4>2, <2>1, <2>2, <2>4
        <4> QED BY <4>1, <4>2
      <3> QED BY <3>1
    <2>6. ASSUME NEW T \in P(k - 1) PROVE T \in P(k) /\ g[T] = f[T]
      <3>1. T \in P(k) /\ k \notin T
        OBVIOUS
      <3> QED BY <3>1, <2>4
    <2> HIDE DEF g
    <2>7. ASSUME NEW T \in P(k)
          PROVE  g[T] = IF T = {} THEN base
                        ELSE step[Max(T)][g[T \ {Max(T)}]]
      <3>1. CASE k \in T
        <4>1. Max(T) = k /\ T # {} /\ T \ {k} \in P(k - 1)
          BY <3>1, <2>2, <2>3
        <4>2. g[T \ {k}] = f[T \ {k}]
          BY <4>1, <2>6
        <4> QED BY <3>1, <4>1, <4>2, <2>4
      <3>2. CASE k \notin T
        <4>1. T \in P(k - 1) /\ g[T] = f[T]
          BY <3>2, <2>2, <2>6
        <4>2. T \ {Max(T)} \in P(k - 1)
          BY <4>1
        <4>3. g[T \ {Max(T)}] = f[T \ {Max(T)}]
          BY <4>2, <2>6
        <4>4. f[T] = IF T = {} THEN base
                     ELSE step[Max(T)][f[T \ {Max(T)}]]
          BY <4>1, <2>1
        <4> QED BY <4>1, <4>3, <4>4
      <3> QED BY <3>1, <3>2
    <2>8. D(g, k)
      BY <2>5, <2>7
    <2> HIDE DEF D
    <2> QED BY <2>8
  <1>3. n \in U
    <2> HIDE DEF U
    <2>1. \A i \in 0..n : i \in U
      BY <1>1, <1>2, Upwards, Zenon
    <2> QED BY <2>1
  <1>4. PICK f : D(f, n)
    BY <1>3
  <1>5. P(n) = SUBSET (1..n)
    OBVIOUS
  <1>6. f \in [SUBSET (1..n) -> S]
    BY <1>4, <1>5
  <1>7. f = [T \in SUBSET (1..n) |-> f[T]]
    BY <1>6
  <1>8. \A T \in SUBSET (1..n) :
          f[T] = IF T = {} THEN base ELSE step[Max(T)][f[T \ {Max(T)}]]
    BY <1>4, <1>5
  <1>9. Folds(f, step, base, n)
    BY <1>7, <1>8 DEF Folds
  <1> QED BY <1>6, <1>9

LEMMA TopOf ==
  ASSUME NEW n \in Nat, NEW k \in 1..n
  PROVE  /\ 1..k \in SUBSET (1..n) /\ 1..k # {}
         /\ Max(1..k) = k /\ (1..k) \ {k} = 1..k - 1
  <1>1. 1..k \in SUBSET (1..n) /\ 1..k # {} /\ k \in 1..k
    OBVIOUS
  <1>2. Max(1..k) \in 1..k /\ \A m \in 1..k : m <= Max(1..k)
    BY <1>1, MaxOf
  <1>3. k <= Max(1..k)
    BY <1>1, <1>2
  <1> QED BY <1>1, <1>2, <1>3

-----------------------------------------------------------------------------
(* The ignore rules.                                                        *)

RulesOK(list) ==
  /\ Len(list) \in Nat /\ DOMAIN list = 1..Len(list)
  /\ \A i \in 1..Len(list) : list[i].negate \in BOOLEAN

\* The rules that speak about p.
Speaks(list, p, isDir) ==
  {i \in 1..Len(list) : /\ list[i].dirOnly => isDir
                        /\ MatchPattern(list[i].pattern, p)}

\* The last rule that speaks decides.
LEMMA LastRuleDecides ==
  ASSUME NEW list, RulesOK(list), NEW p, NEW isDir \in BOOLEAN
  PROVE  MatchExact(list, p, isDir)
           <=> /\ Speaks(list, p, isDir) # {}
               /\ ~list[Max(Speaks(list, p, isDir))].negate
  <1> DEFINE n == Len(list)
             Hit(i) == (list[i].dirOnly => isDir) /\ MatchPattern(list[i].pattern, p)
             step == [i \in 1..n |-> [b \in BOOLEAN |->
                        IF Hit(i) THEN ~list[i].negate ELSE b]]
             Is(f) == f = [T \in SUBSET (1..n) |->
                       IF T = {} THEN FALSE
                       ELSE IF Hit(Max(T)) THEN ~list[Max(T)].negate
                            ELSE f[T \ {Max(T)}]]
             iter == CHOOSE f : Is(f)
             Top(k) == {i \in 1..k : Hit(i)}
  <1>1. n \in Nat /\ DOMAIN list = 1..n
        /\ \A i \in 1..n : list[i].negate \in BOOLEAN
    BY DEF RulesOK
  <1>2. step \in [1..n -> [BOOLEAN -> BOOLEAN]]
    BY <1>1
  <1>3. MatchExact(list, p, isDir) = iter[1..n]
    BY <1>1 DEF MatchExact, FoldLeft, MapThenFoldSet
  <1>4. Is(iter)
    <2> HIDE DEF step
    <2>1. PICK f \in [SUBSET (1..n) -> BOOLEAN] : Folds(f, step, FALSE, n)
      <3> HIDE DEF n
      <3> QED BY <1>1, <1>2, FoldExists
    <2>2. ASSUME NEW T \in SUBSET (1..n), T # {}
          PROVE  step[Max(T)][f[T \ {Max(T)}]]
                   = IF Hit(Max(T)) THEN ~list[Max(T)].negate
                     ELSE f[T \ {Max(T)}]
      <3>1. Max(T) \in 1..n /\ f[T \ {Max(T)}] \in BOOLEAN
        <4>1. Max(T) \in T
          BY <1>1, <2>2, MaxOf
        <4> QED BY <4>1
      <3> HIDE DEF Hit
      <3> QED BY <3>1 DEF step
    <2> HIDE DEF Hit
    <2>3. f = [T \in SUBSET (1..n) |->
                 IF T = {} THEN FALSE ELSE step[Max(T)][f[T \ {Max(T)}]]]
      BY <2>1 DEF Folds
    <2>4. Is(f)
      BY <2>2, <2>3
    <2> HIDE DEF Is
    <2> QED BY <2>4
  <1> DEFINE Decides(k) == Top(k) # {} /\ ~list[Max(Top(k))].negate
             U == {k \in 0..n : iter[1..k] = Decides(k)}
  <1> HIDE DEF iter, step
  <1>5. 0 \in U
    <2>1. 1..0 = {} /\ Top(0) = {} /\ 0 \in 0..n
      BY <1>1
    <2>2. iter[{}] = FALSE
      BY <1>4
    <2>3. Decides(0) = FALSE
      BY <2>1
    <2> QED BY <2>1, <2>2, <2>3
  <1>6. ASSUME NEW k \in 1..n, k - 1 \in U PROVE k \in U
    <2>1. /\ 1..k \in SUBSET (1..n) /\ 1..k # {}
          /\ Max(1..k) = k /\ (1..k) \ {k} = 1..k - 1
      BY <1>1, TopOf
    <2>2. iter[1..k] = IF Hit(k) THEN ~list[k].negate ELSE iter[1..k - 1]
      BY <1>4, <2>1
    <2>3. CASE Hit(k)
      <3>1. Max(Top(k)) = k /\ Top(k) # {}
        <4>1. Top(k) \in SUBSET (1..n) /\ k \in Top(k)
          BY <2>3
        <4>2. Max(Top(k)) \in Top(k) /\ \A m \in Top(k) : m <= Max(Top(k))
          <5> HIDE DEF Top
          <5> QED BY <1>1, <4>1, MaxOf
        <4>3. Max(Top(k)) \in 1..k /\ k <= Max(Top(k))
          BY <4>1, <4>2
        <4> QED BY <4>1, <4>3
      <3>2. Decides(k) = ~list[k].negate
        BY <3>1
      <3> QED BY <2>2, <2>3, <3>2
    <2>4. CASE ~Hit(k)
      <3>1. Top(k) = Top(k - 1)
        BY <2>4
      <3> HIDE DEF Top
      <3> QED BY <1>6, <2>2, <2>4, <3>1
    <2> QED BY <2>3, <2>4
  <1>7. n \in U
    <2> HIDE DEF U
    <2>1. \A i \in 0..n : i \in U
      BY <1>1, <1>5, <1>6, Upwards, Zenon
    <2> QED BY <2>1, <1>1
  <1>8. Top(n) = Speaks(list, p, isDir)
    BY DEF Speaks
  <1> QED BY <1>3, <1>7, <1>8

\* Rules that were read from lines are rules.
LEMMA RulesTyped ==
  ASSUME NEW L, NEW lines \in Seq(L), \A l \in L : l.negate \in BOOLEAN
  PROVE  RulesOK(LoadIgnore(lines))
  <1> DEFINE all == AlwaysIgnored \o lines
             S == {CompileRule(all[i]) : i \in DOMAIN all}
             pieces == [i \in DOMAIN all |->
                          IF all[i].names = <<>> THEN <<>>
                          ELSE <<CompileRule(all[i])>>]
             own == {Directory(".git"), Directory(".harness")}
             M == L \cup own
  <1>1. all \in Seq(M) /\ \A l \in M : l.negate \in BOOLEAN
    <2>1. /\ \A l \in own : l.negate \in BOOLEAN
          /\ AlwaysIgnored \in Seq(own)
      BY DEF AlwaysIgnored, Directory
    <2> HIDE DEF own
    <2>2. \A l \in M : l.negate \in BOOLEAN
      BY <2>1
    <2>3. /\ \A i \in 1..Len(AlwaysIgnored) : AlwaysIgnored[i] \in M
          /\ \A i \in 1..Len(lines) : lines[i] \in M
      BY <2>1
    <2> HIDE DEF M
    <2>4. AlwaysIgnored \in Seq(M) /\ lines \in Seq(M)
      BY <2>1, <2>3
    <2>5. AlwaysIgnored \o lines \in Seq(M)
      BY <2>4
    <2> QED BY <2>2, <2>5
  <1> HIDE DEF all, M
  <1>2. DOMAIN all = 1..Len(all) /\ Len(all) \in Nat
    BY <1>1
  <1>3. ASSUME NEW r \in S PROVE r.negate \in BOOLEAN
    <2>1. PICK i \in DOMAIN all : r = CompileRule(all[i])
      OBVIOUS
    <2>2. all[i] \in M
      BY <1>1
    <2> QED BY <1>1, <2>1, <2>2 DEF CompileRule
  <1>4. \A i \in DOMAIN all : CompileRule(all[i]) \in S
    OBVIOUS
  <1> HIDE DEF S
  <1>5. pieces \in Seq(Seq(S)) /\ <<>> \in Seq(S)
    BY <1>2, <1>4
  <1> HIDE DEF pieces
  <1>6. FlattenSeq(pieces) \in Seq(S)
    BY <1>5, FlattenAppend
  <1>7. LoadIgnore(lines) = FlattenSeq(pieces)
    BY DEF LoadIgnore, all, pieces
  <1> QED BY <1>3, <1>6, <1>7 DEF RulesOK

\* What the rules hide is what a walk ignores.
LEMMA HiddenIs ==
  ASSUME RulesOK(rules), NEW p \in Paths
  PROVE  Hidden(p) <=> Match(rules, p, IsDir(p))
  <1> DEFINE dir(k) == k < Len(p) \/ IsDir(p)
             above(k) == SubSeq(p, 1, k)
  <1>1. /\ DOMAIN p = 1..Len(p) /\ Len(p) \in Nat \ {0} /\ SubSeq(p, 1, Len(p)) = p
        /\ IsDir(p) \in BOOLEAN
    <2>1. p \in Seq(ToSet(Names)) /\ Len(p) \in Nat \ {0}
      BY PathTyped
    <2> QED BY <2>1 DEF IsDir
  <1>2. ASSUME NEW k \in 1..Len(p)
        PROVE  MatchExact(rules, above(k), dir(k))
                 <=> /\ Speaks(rules, above(k), dir(k)) # {}
                     /\ ~rules[Max(Speaks(rules, above(k), dir(k)))].negate
    <2>1. dir(k) \in BOOLEAN
      BY <1>1
    <2> HIDE DEF dir, above
    <2> QED BY <2>1, LastRuleDecides
  <1>3. Hidden(p) <=> \E k \in 1..Len(p) :
          /\ Speaks(rules, above(k), dir(k)) # {}
          /\ ~rules[Max(Speaks(rules, above(k), dir(k)))].negate
    <2>1. DOMAIN rules = 1..Len(rules)
      BY DEF RulesOK
    <2> QED BY <1>1, <2>1 DEF Hidden, Speaks
  <1>4. Hidden(p) <=> \E k \in 1..Len(p) : MatchExact(rules, above(k), dir(k))
    <2> HIDE DEF above, dir
    <2> QED BY <1>2, <1>3
  <1>5. \A k \in 1..Len(p) - 1 : dir(k) = TRUE
    BY <1>1
  <1>6. dir(Len(p)) = IsDir(p) /\ above(Len(p)) = p
    BY <1>1
  <1>7. \A k : k \in 1..Len(p) <=> k \in 1..Len(p) - 1 \/ k = Len(p)
    BY <1>1
  <1>8. Match(rules, p, IsDir(p))
          <=> \/ \E k \in 1..Len(p) - 1 : MatchExact(rules, above(k), dir(k))
              \/ MatchExact(rules, above(Len(p)), dir(Len(p)))
    <2>1. Match(rules, p, IsDir(p))
            <=> \/ \E k \in 1..Len(p) - 1 : MatchExact(rules, above(k), TRUE)
                \/ MatchExact(rules, p, IsDir(p))
      BY DEF Match
    <2> HIDE DEF above, dir
    <2> QED BY <1>5, <1>6, <2>1
  <1> HIDE DEF above, dir
  <1> QED BY <1>4, <1>7, <1>8

\* What is under an ignored directory is ignored.
LEMMA IgnoredBelow ==
  ASSUME NEW list, NEW d \in Paths, NEW p \in Paths, Under(d, p),
         Match(list, d, TRUE), NEW isDir
  PROVE  Match(list, p, isDir)
  <1>1. /\ p \in Seq(ToSet(Names)) /\ Len(p) \in Nat
        /\ d \in Seq(ToSet(Names)) /\ Len(d) \in Nat /\ Len(d) # 0
    BY PathTyped
  <1>2. Len(d) < Len(p) /\ \A m \in 1..Len(d) : d[m] = p[m]
    BY <1>1, PrefixIs DEF Under
  <1>3. \A k \in 1..Len(d) : SubSeq(d, 1, k) = SubSeq(p, 1, k)
    BY <1>1, <1>2
  <1>4. d = SubSeq(p, 1, Len(d)) /\ Len(d) \in 1..Len(p) - 1
    BY <1>1, <1>2
  <1>5. \A k \in 1..Len(d) - 1 : k \in 1..Len(d) /\ k \in 1..Len(p) - 1
    BY <1>1, <1>2
  <1>6. \/ \E k \in 1..Len(d) - 1 : MatchExact(list, SubSeq(d, 1, k), TRUE)
        \/ MatchExact(list, d, TRUE)
    BY DEF Match
  <1>7. \E k \in 1..Len(p) - 1 : MatchExact(list, SubSeq(p, 1, k), TRUE)
    BY <1>3, <1>4, <1>5, <1>6
  <1> QED BY <1>7 DEF Match
-----------------------------------------------------------------------------
(* Glob: the walk.                                                          *)

\* What a walk of glob keeps, and what it starts from.
GlobState == [scanned : Nat, ignored : Nat, total : Nat, truncated : BOOLEAN,
              found : Seq(Paths), pruned : SUBSET Paths, done : BOOLEAN]

GlobBase == [scanned |-> 0, ignored |-> 0, total |-> 0, truncated |-> FALSE,
             found |-> <<>>, pruned |-> {}, done |-> FALSE]

\* The step of a walk and what Glob does at an entry.
GlobStep(list, start, pattern, limit, s, p) ==
  CASE s.scanned = GlobMaxScan -> [s EXCEPT !.done = TRUE]
    [] s.scanned < GlobMaxScan /\ Match(list, p, IsDir(p)) ->
         [s EXCEPT !.scanned = @ + 1, !.ignored = @ + 1]
    [] OTHER ->
         LET hit == MatchPattern(pattern, Below(start, p))
         IN  [s EXCEPT
                !.scanned = @ + 1,
                !.total = @ + IF hit THEN 1 ELSE 0,
                !.truncated = @ \/ (hit /\ Len(s.found) = limit),
                !.found = IF hit /\ Len(@) < limit
                          THEN Append(@, p) ELSE @]

Passes(start, s, p) ==
  s.done \/ ~Under(start, p) \/ \E d \in s.pruned : Under(d, p)

Prunes(list, t, p) ==
  IF IsDir(p) /\ Match(list, p, TRUE)
  THEN [t EXCEPT !.pruned = @ \cup {p}] ELSE t

\* One entry of the walk: what Visit does with it.
GlobVisit(list, start, pattern, limit, s, p) ==
  IF Passes(start, s, p) THEN s
  ELSE Prunes(list, GlobStep(list, start, pattern, limit, s, p), p)

\* What Glob has found when it has met the wanted paths W, and no others.
GlobOK(list, limit, W, s) ==
  /\ s \in GlobState /\ s.scanned <= GlobMaxScan
  /\ \A d \in s.pruned : Match(list, d, TRUE)
  /\ ToSet(s.found) \subseteq W
  /\ Len(s.found) <= limit /\ Len(s.found) <= s.total
  /\ Cardinality(ToSet(s.found)) = Len(s.found)
  /\ Len(s.found) < limit => s.total = Len(s.found)
  /\ s.truncated <=> s.total > Len(s.found)
  /\ ~s.done => s.total = Cardinality(W)

\* Pruning a directory takes nothing that is asked for from the walk.
LEMMA PrunesKeeps ==
  ASSUME NEW list, NEW limit, NEW W, NEW p \in Paths, NEW t,
         GlobOK(list, limit, W, t)
  PROVE  GlobOK(list, limit, W, Prunes(list, t, p))
  <1>1. CASE IsDir(p) /\ Match(list, p, TRUE)
    <2> DEFINE u == [t EXCEPT !.pruned = @ \cup {p}]
    <2>1. t \in GlobState
      BY DEF GlobOK
    <2>2. /\ u \in GlobState
          /\ u.pruned = t.pruned \cup {p} /\ u.scanned = t.scanned
          /\ u.found = t.found /\ u.total = t.total /\ u.done = t.done
          /\ u.truncated = t.truncated
      BY <2>1 DEF GlobState
    <2>3. Prunes(list, t, p) = u
      BY <1>1 DEF Prunes
    <2> HIDE DEF u
    <2> QED BY <1>1, <2>2, <2>3 DEF GlobOK
  <1>2. CASE ~(IsDir(p) /\ Match(list, p, TRUE))
    BY <1>2 DEF Prunes
  <1> QED BY <1>1, <1>2

LEMMA OneMoreFound ==
  ASSUME NEW s \in Seq(Paths), Cardinality(ToSet(s)) = Len(s),
         NEW p \in Paths, p \notin ToSet(s)
  PROVE  /\ Append(s, p) \in Seq(Paths)
         /\ Len(Append(s, p)) = Len(s) + 1
         /\ ToSet(Append(s, p)) = ToSet(s) \cup {p}
         /\ Cardinality(ToSet(Append(s, p))) = Len(Append(s, p))
  <1>1. ToSet(Append(s, p)) = ToSet(s) \cup {p}
    <2> DEFINE t == Append(s, p)
    <2>1. /\ DOMAIN t = 1..Len(s) + 1 /\ t[Len(s) + 1] = p
          /\ \A i \in 1..Len(s) : t[i] = s[i]
          /\ DOMAIN s = 1..Len(s) /\ Len(s) \in Nat
      OBVIOUS
    <2> HIDE DEF t
    <2>2. \A i : i \in 1..Len(s) + 1 <=> i \in 1..Len(s) \/ i = Len(s) + 1
      BY <2>1
    <2>3. ToSet(t) = ToSet(s) \cup {p}
      BY <2>1, <2>2 DEF ToSet
    <2> QED BY <2>3 DEF t
  <1>2. ToSet(s) \subseteq Paths
    BY DEF ToSet
  <1>3. IsFiniteSet(ToSet(s))
    BY <1>2, PathsFinite, FS_Subset
  <1>4. Cardinality(ToSet(s) \cup {p}) = Cardinality(ToSet(s)) + 1
    BY <1>3, FS_AddElement
  <1>5. Append(s, p) \in Seq(Paths) /\ Len(Append(s, p)) = Len(s) + 1
    OBVIOUS
  <1> QED BY <1>1, <1>4, <1>5

Moved(s, a, b) == [s EXCEPT !.scanned = a, !.ignored = b]

LEMMA GlobMoves ==
  ASSUME NEW s \in GlobState, NEW a \in Nat, NEW b \in Nat, NEW t,
         t = Moved(s, a, b)
  PROVE  /\ t \in GlobState
         /\ t.pruned = s.pruned /\ t.scanned = a
         /\ t.found = s.found /\ t.total = s.total /\ t.done = s.done
         /\ t.truncated = s.truncated
  <1> DEFINE u == [s EXCEPT !.scanned = a]
  <1>0. t = [u EXCEPT !.ignored = b]
    BY DEF Moved
  <1>1. /\ u \in GlobState
        /\ u.pruned = s.pruned /\ u.scanned = a
        /\ u.found = s.found /\ u.total = s.total /\ u.done = s.done
        /\ u.truncated = s.truncated
    BY DEF GlobState
  <1> HIDE DEF u
  <1>2. /\ t \in GlobState
        /\ t.pruned = u.pruned /\ t.scanned = u.scanned
        /\ t.found = u.found /\ t.total = u.total /\ t.done = u.done
        /\ t.truncated = u.truncated
    BY <1>0, <1>1 DEF GlobState
  <1> QED BY <1>1, <1>2

Grown(s, a, b, c, f) ==
  [s EXCEPT !.scanned = a, !.total = b, !.truncated = c, !.found = f]

LEMMA GlobGrows ==
  ASSUME NEW s \in GlobState, NEW a \in Nat, NEW b \in Nat, NEW c \in BOOLEAN,
         NEW f \in Seq(Paths), NEW t,
         t = Grown(s, a, b, c, f)
  PROVE  /\ t \in GlobState
         /\ t.pruned = s.pruned /\ t.scanned = a /\ t.found = f
         /\ t.total = b /\ t.done = s.done /\ t.truncated = c
  <1> DEFINE u == [s EXCEPT !.scanned = a, !.total = b]
             v == [u EXCEPT !.truncated = c]
  <1>0. t = [v EXCEPT !.found = f]
    BY DEF Grown
  <1>1. /\ u \in GlobState
        /\ u.pruned = s.pruned /\ u.scanned = a
        /\ u.total = b /\ u.done = s.done
    BY DEF GlobState
  <1> HIDE DEF u
  <1>2. /\ v \in GlobState
        /\ v.pruned = u.pruned /\ v.scanned = u.scanned
        /\ v.total = u.total /\ v.done = u.done /\ v.truncated = c
    BY <1>1 DEF GlobState
  <1> HIDE DEF v
  <1>3. /\ t \in GlobState
        /\ t.pruned = v.pruned /\ t.scanned = v.scanned /\ t.found = f
        /\ t.total = v.total /\ t.done = v.done /\ t.truncated = v.truncated
    BY <1>0, <1>2 DEF GlobState
  <1> QED BY <1>1, <1>2, <1>3

\* What Glob makes of an entry that it comes to.
LEMMA GlobStepIs ==
  ASSUME NEW list, NEW start, NEW pattern, NEW limit \in Nat, NEW p \in Paths,
         NEW s \in GlobState, s.scanned <= GlobMaxScan
  PROVE  LET hit == MatchPattern(pattern, Below(start, p))
             kept == hit /\ Len(s.found) < limit
             t == GlobStep(list, start, pattern, limit, s, p)
         IN  /\ t \in GlobState /\ t.pruned = s.pruned
             /\ s.scanned = GlobMaxScan =>
                  /\ t.scanned = s.scanned /\ t.found = s.found
                  /\ t.total = s.total /\ t.done /\ t.truncated = s.truncated
             /\ s.scanned < GlobMaxScan /\ Match(list, p, IsDir(p)) =>
                  /\ t.scanned = s.scanned + 1 /\ t.found = s.found
                  /\ t.total = s.total /\ t.truncated = s.truncated
             /\ s.scanned < GlobMaxScan /\ ~Match(list, p, IsDir(p)) =>
                  /\ t.scanned = s.scanned + 1
                  /\ t.found = IF kept THEN Append(s.found, p) ELSE s.found
                  /\ t.total = s.total + IF hit THEN 1 ELSE 0
                  /\ t.truncated <=>
                       s.truncated \/ (hit /\ Len(s.found) = limit)
  <1> DEFINE hit == MatchPattern(pattern, Below(start, p))
             kept == hit /\ Len(s.found) < limit
             off == Match(list, p, IsDir(p))
             t == GlobStep(list, start, pattern, limit, s, p)
             a == s.scanned + 1
             b == s.ignored + 1
             m == s.total + IF hit THEN 1 ELSE 0
             c == s.truncated \/ (hit /\ Len(s.found) = limit)
             f == IF kept THEN Append(s.found, p) ELSE s.found
  <1>1. /\ GlobMaxScan \in Nat /\ s.scanned \in Nat /\ s.total \in Nat
        /\ s.found \in Seq(Paths) /\ s.ignored \in Nat
    BY SearchAssumption DEF GlobState
  <1>2. /\ a \in Nat /\ b \in Nat /\ m \in Nat /\ c \in BOOLEAN
        /\ f \in Seq(Paths)
    BY <1>1
  <1>3. CASE s.scanned = GlobMaxScan
    <2>1. t = [s EXCEPT !.done = TRUE] /\ ~(s.scanned < GlobMaxScan)
      BY <1>1, <1>3 DEF GlobStep
    <2> HIDE DEF t, hit, kept, off
    <2>2. /\ t \in GlobState
          /\ t.pruned = s.pruned /\ t.scanned = s.scanned
          /\ t.found = s.found /\ t.total = s.total /\ t.done
          /\ t.truncated = s.truncated
      BY <2>1 DEF GlobState
    <2>3. QED BY <2>1, <2>2 DEF t, hit, kept, off
  <1>4. CASE s.scanned < GlobMaxScan /\ off
    <2>1. t = Moved(s, a, b) /\ s.scanned # GlobMaxScan
      BY <1>1, <1>4 DEF GlobStep, Moved
    <2>3. a \in Nat /\ b \in Nat
      BY <1>2
    <2> HIDE DEF t, a, b, m, c, f
    <2>2. /\ t \in GlobState
          /\ t.pruned = s.pruned /\ t.scanned = a
          /\ t.found = s.found /\ t.total = s.total
          /\ t.truncated = s.truncated
      BY <2>1, <2>3, GlobMoves
    <2> QED BY <1>4, <2>1, <2>2 DEF t, a
  <1>5. CASE s.scanned < GlobMaxScan /\ ~off
    <2>1. t = Grown(s, a, m, c, f) /\ s.scanned # GlobMaxScan
      BY <1>1, <1>5 DEF GlobStep, Grown
    <2> HIDE DEF t, a, m, c, f, off
    <2>2. /\ t \in GlobState
          /\ t.pruned = s.pruned /\ t.scanned = a /\ t.found = f
          /\ t.total = m /\ t.truncated = c
      BY <1>2, <2>1, GlobGrows, Z3
    <2> QED BY <1>5, <2>1, <2>2 DEF t, a, m, c, f, off
  <1> QED BY <1>1, <1>3, <1>4, <1>5

\* Each entry of the walk keeps the counts right.
LEMMA GlobStepKeeps ==
  ASSUME NEW list, NEW start, NEW pattern, NEW limit \in Nat,
         NEW W \in SUBSET Paths, NEW s, GlobOK(list, limit, W, s), ~s.done,
         NEW p \in Paths, p \notin W, NEW V,
         V = IF ~Match(list, p, IsDir(p)) /\ MatchPattern(pattern, Below(start, p))
             THEN W \cup {p} ELSE W
  PROVE  GlobOK(list, limit, V, GlobStep(list, start, pattern, limit, s, p))
  <1> DEFINE hit == MatchPattern(pattern, Below(start, p))
             kept == hit /\ Len(s.found) < limit
             off == Match(list, p, IsDir(p))
             t == GlobStep(list, start, pattern, limit, s, p)
  <1>1. /\ s \in GlobState /\ s.scanned <= GlobMaxScan /\ GlobMaxScan \in Nat
        /\ s.scanned \in Nat /\ s.total \in Nat /\ s.found \in Seq(Paths)
        /\ Len(s.found) \in Nat
    BY SearchAssumption DEF GlobOK, GlobState
  <1>2. IsFiniteSet(W) /\ Cardinality(W) \in Nat
        /\ IsFiniteSet(V) /\ W \subseteq V
        /\ Cardinality(V) = IF ~off /\ hit THEN Cardinality(W) + 1
                            ELSE Cardinality(W)
    BY PathsFinite, FS_Subset, FS_CardinalityType, FS_AddElement
  <1>3. /\ ToSet(s.found) \subseteq W /\ p \notin ToSet(s.found)
        /\ ToSet(s.found) \subseteq V
        /\ Cardinality(ToSet(s.found)) = Len(s.found)
        /\ Len(s.found) <= limit /\ Len(s.found) <= s.total
        /\ Len(s.found) < limit => s.total = Len(s.found)
        /\ s.truncated <=> s.total > Len(s.found)
        /\ s.total = Cardinality(W)
        /\ \A d \in s.pruned : Match(list, d, TRUE)
    BY <1>2 DEF GlobOK
  <1>4. /\ t \in GlobState /\ t.pruned = s.pruned
        /\ s.scanned = GlobMaxScan =>
             /\ t.scanned = s.scanned /\ t.found = s.found
             /\ t.total = s.total /\ t.done /\ t.truncated = s.truncated
        /\ s.scanned < GlobMaxScan /\ off =>
             /\ t.scanned = s.scanned + 1 /\ t.found = s.found
             /\ t.total = s.total /\ t.truncated = s.truncated
        /\ s.scanned < GlobMaxScan /\ ~off =>
             /\ t.scanned = s.scanned + 1
             /\ t.found = IF kept THEN Append(s.found, p) ELSE s.found
             /\ t.total = s.total + IF hit THEN 1 ELSE 0
             /\ t.truncated <=> s.truncated \/ (hit /\ Len(s.found) = limit)
    BY <1>1, GlobStepIs
  <1>5. \A d \in t.pruned : Match(list, d, TRUE)
    BY <1>3, <1>4
  <1>6. ~off /\ hit => p \in V
    OBVIOUS
  <1> HIDE DEF t, hit, off
  <1>7. CASE s.scanned = GlobMaxScan
    <2>1. /\ t.scanned <= GlobMaxScan /\ ToSet(t.found) \subseteq V
          /\ Len(t.found) <= limit /\ Len(t.found) <= t.total
          /\ Cardinality(ToSet(t.found)) = Len(t.found)
          /\ Len(t.found) < limit => t.total = Len(t.found)
          /\ t.truncated <=> t.total > Len(t.found)
      BY <1>1, <1>3, <1>4, <1>7
    <2>2. t.done
      BY <1>4, <1>7
    <2>3. GlobOK(list, limit, V, t)
      BY <1>4, <1>5, <2>1, <2>2 DEF GlobOK
    <2> QED BY <2>3 DEF t
  <1>8. CASE s.scanned < GlobMaxScan /\ off
    <2>1. /\ t.scanned <= GlobMaxScan /\ ToSet(t.found) \subseteq V
          /\ Len(t.found) <= limit /\ Len(t.found) <= t.total
          /\ Cardinality(ToSet(t.found)) = Len(t.found)
          /\ Len(t.found) < limit => t.total = Len(t.found)
          /\ t.truncated <=> t.total > Len(t.found)
      BY <1>1, <1>3, <1>4, <1>8
    <2>2. t.total = Cardinality(V)
      BY <1>2, <1>3, <1>4, <1>8
    <2>3. GlobOK(list, limit, V, t)
      BY <1>4, <1>5, <2>1, <2>2 DEF GlobOK
    <2> QED BY <2>3 DEF t
  <1>9. CASE s.scanned < GlobMaxScan /\ ~off
    <2>1. /\ t.scanned <= GlobMaxScan
          /\ t.total = Cardinality(V)
      BY <1>1, <1>2, <1>3, <1>4, <1>9
    <2>2. CASE kept
      <3>1. t.found = Append(s.found, p) /\ hit /\ Len(s.found) < limit
        BY <1>4, <1>9, <2>2
      <3>2. /\ Len(t.found) = Len(s.found) + 1
            /\ ToSet(t.found) = ToSet(s.found) \cup {p}
            /\ Cardinality(ToSet(t.found)) = Len(t.found)
        BY <1>1, <1>3, <3>1, OneMoreFound
      <3>3. ToSet(t.found) \subseteq V
        BY <1>3, <1>6, <1>9, <3>1, <3>2
      <3>4. /\ Len(t.found) <= limit /\ t.total = Len(t.found)
            /\ ~s.truncated
        BY <1>1, <1>3, <1>4, <1>9, <3>1, <3>2
      <3>5. ~t.truncated
        BY <1>1, <1>4, <1>9, <3>1, <3>4
      <3>6. ~(t.total > Len(t.found)) /\ Len(t.found) <= t.total
        BY <1>1, <3>2, <3>4
      <3> HIDE DEF kept
      <3>7. GlobOK(list, limit, V, t)
        BY <1>4, <1>5, <2>1, <3>2, <3>3, <3>4, <3>5, <3>6 DEF GlobOK
      <3> QED BY <3>7 DEF t
    <2>3. CASE ~kept
      <3>1. /\ t.found = s.found
            /\ Len(s.found) < limit => ~hit
        BY <1>4, <1>9, <2>3
      <3>2. /\ ToSet(t.found) \subseteq V
            /\ Len(t.found) <= limit /\ Len(t.found) <= t.total
            /\ Cardinality(ToSet(t.found)) = Len(t.found)
            /\ Len(t.found) < limit => t.total = Len(t.found)
        BY <1>1, <1>3, <1>4, <1>9, <3>1
      <3>3. t.truncated <=> t.total > Len(t.found)
        <4>1. CASE hit
          BY <1>1, <1>3, <1>4, <1>9, <3>1, <4>1
        <4>2. CASE ~hit
          BY <1>1, <1>3, <1>4, <1>9, <3>1, <4>2
        <4> QED BY <4>1, <4>2
      <3> HIDE DEF kept
      <3>4. GlobOK(list, limit, V, t)
        BY <1>4, <1>5, <2>1, <3>2, <3>3 DEF GlobOK
      <3> QED BY <3>4 DEF t
    <2> QED BY <2>2, <2>3
  <1>10. s.scanned = GlobMaxScan \/ s.scanned < GlobMaxScan
    BY <1>1
  <1> QED BY <1>7, <1>8, <1>9, <1>10

\* The fold of Glob's walk.
GlobFold(list, start, pattern, limit) ==
  CHOOSE f : f = [T \in SUBSET DOMAIN WalkOrder |->
    IF T = {} THEN GlobBase
    ELSE GlobVisit(list, start, pattern, limit, f[T \ {Max(T)}],
                   WalkOrder[Max(T)])]

\* Glob by the state its walk ends in.
LEMMA GlobIs ==
  ASSUME NEW list, NEW time, NEW start, NEW pattern, NEW asked
  PROVE  LET limit == Clamp(asked, GlobDefaultLimit, GlobMaxLimit)
             end == GlobFold(list, start, pattern, limit)[DOMAIN WalkOrder]
         IN  Glob(list, time, start, pattern, asked)
               = [found |-> ByRecency(time, end.found), total |-> end.total,
                  truncated |-> end.truncated, ignored |-> end.ignored,
                  partial |-> end.done]
  BY DEF Glob, Visit, FoldLeft, MapThenFoldSet, GlobFold, GlobVisit, Passes,
         Prunes, GlobStep, GlobBase

GlobStates == {s \in GlobState : s.scanned <= GlobMaxScan}

LEMMA GlobVisitTyped ==
  ASSUME NEW list, NEW start, NEW pattern, NEW limit \in Nat, NEW p \in Paths,
         NEW s \in GlobStates
  PROVE  GlobVisit(list, start, pattern, limit, s, p) \in GlobStates
  <1> DEFINE t == GlobStep(list, start, pattern, limit, s, p)
  <1>1. s \in GlobState /\ s.scanned <= GlobMaxScan /\ s.scanned \in Nat
        /\ GlobMaxScan \in Nat
    BY SearchAssumption DEF GlobStates, GlobState
  <1>2. /\ t \in GlobState
        /\ s.scanned = GlobMaxScan => t.scanned = s.scanned
        /\ s.scanned < GlobMaxScan => t.scanned = s.scanned + 1
    BY <1>1, GlobStepIs
  <1>3. t \in GlobStates
    BY <1>1, <1>2 DEF GlobStates
  <1> HIDE DEF t
  <1>4. Prunes(list, t, p) \in GlobStates
    <2>1. t \in GlobState /\ t.scanned <= GlobMaxScan
      BY <1>3 DEF GlobStates
    <2>2. CASE IsDir(p) /\ Match(list, p, TRUE)
      <3> DEFINE u == [t EXCEPT !.pruned = @ \cup {p}]
      <3>1. u \in GlobState /\ u.scanned = t.scanned
        BY <2>1 DEF GlobState
      <3>2. Prunes(list, t, p) = u
        BY <2>2 DEF Prunes
      <3> HIDE DEF u
      <3> QED BY <2>1, <3>1, <3>2 DEF GlobStates
    <2>3. CASE ~(IsDir(p) /\ Match(list, p, TRUE))
      BY <1>3, <2>3 DEF Prunes
    <2> QED BY <2>2, <2>3
  <1> QED BY <1>4 DEF GlobVisit, t

\* What is met by the k-th step of a walk.
Met(k) == {WalkOrder[i] : i \in 1..k}

\* What a walk has met, entry by entry.
LEMMA WalkFacts ==
  /\ Cardinality(Paths) \in Nat /\ DOMAIN WalkOrder = 1..Cardinality(Paths)
  /\ \A k \in 1..Cardinality(Paths) :
       /\ WalkOrder[k] \in Paths /\ WalkOrder[k] \notin Met(k - 1)
       /\ Met(k) = Met(k - 1) \cup {WalkOrder[k]}
  /\ Met(0) = {} /\ Met(Cardinality(Paths)) = Paths
  <1> DEFINE n == Cardinality(Paths)
  <1>1. n \in Nat
    BY PathsFinite, FS_CardinalityType
  <1>2. /\ WalkOrder \in [1..n -> Paths]
        /\ \A x \in Paths : \E k \in 1..n : WalkOrder[k] = x
        /\ \A i, j \in 1..n : WalkOrder[i] = WalkOrder[j] => i = j
    BY WalkIsListed DEF Lists
  <1> HIDE DEF n
  <1>3. ASSUME NEW k \in 1..n
        PROVE  /\ WalkOrder[k] \notin Met(k - 1)
               /\ Met(k) = Met(k - 1) \cup {WalkOrder[k]}
    <2>1. \A i : i \in 1..k <=> i \in 1..k - 1 \/ i = k
      BY <1>1
    <2>2. Met(k) = Met(k - 1) \cup {WalkOrder[k]}
      BY <2>1 DEF Met
    <2>3. ASSUME NEW i \in 1..k - 1, WalkOrder[i] = WalkOrder[k] PROVE FALSE
      <3>1. i \in 1..n /\ i # k
        BY <1>1
      <3> QED BY <1>2, <2>3, <3>1
    <2> QED BY <2>2, <2>3 DEF Met
  <1>4. Met(0) = {}
    BY DEF Met
  <1>5. Met(n) = Paths
    BY <1>2 DEF Met
  <1> QED BY <1>1, <1>2, <1>3, <1>4, <1>5 DEF n

LEMMA GlobFoldIs ==
  ASSUME NEW list, NEW start, NEW pattern, NEW limit \in Nat
  PROVE  LET n == Cardinality(Paths)
             end == GlobFold(list, start, pattern, limit)
         IN  /\ end[1..0] = GlobBase
             /\ \A k \in 1..n :
                  end[1..k] = GlobVisit(list, start, pattern, limit,
                                        end[1..k - 1], WalkOrder[k])
  <1> DEFINE n == Cardinality(Paths)
             Does(s, i) == GlobVisit(list, start, pattern, limit, s, WalkOrder[i])
             step == [i \in 1..n |-> [s \in GlobStates |-> Does(s, i)]]
             Is(f) == f = [T \in SUBSET (1..n) |->
                        IF T = {} THEN GlobBase
                        ELSE Does(f[T \ {Max(T)}], Max(T))]
             end == GlobFold(list, start, pattern, limit)
  <1>1. n \in Nat /\ DOMAIN WalkOrder = 1..n /\ \A k \in 1..n : WalkOrder[k] \in Paths
    BY WalkFacts
  <1>2. step \in [1..n -> [GlobStates -> GlobStates]]
    BY <1>1, GlobVisitTyped
  <1>3. GlobBase \in GlobStates
    <2>1. <<>> \in Seq(Paths) /\ {} \in SUBSET Paths
      OBVIOUS
    <2> QED BY <2>1, SearchAssumption DEF GlobStates, GlobState, GlobBase
  <1>4. end = CHOOSE f : Is(f)
    BY <1>1 DEF GlobFold
  <1> HIDE DEF step, n, end
  <1>5. PICK f \in [SUBSET (1..n) -> GlobStates] : Folds(f, step, GlobBase, n)
    BY <1>1, <1>2, <1>3, FoldExists
  <1> HIDE DEF Does
  <1>6. ASSUME NEW T \in SUBSET (1..n), T # {}
        PROVE  step[Max(T)][f[T \ {Max(T)}]] = Does(f[T \ {Max(T)}], Max(T))
    <2>1. Max(T) \in 1..n /\ f[T \ {Max(T)}] \in GlobStates
      <3>1. Max(T) \in T
        BY <1>1, <1>6, MaxOf
      <3> QED BY <3>1
    <2> QED BY <2>1 DEF step
  <1>7. f = [T \in SUBSET (1..n) |->
               IF T = {} THEN GlobBase ELSE step[Max(T)][f[T \ {Max(T)}]]]
    BY <1>5 DEF Folds
  <1>8. Is(f)
    BY <1>6, <1>7
  <1> HIDE DEF Is
  <1>9. Is(end)
    BY <1>4, <1>8
  <1> USE DEF Is
  <1>10. end[1..0] = GlobBase
    <2>1. 1..0 = {} /\ {} \in SUBSET (1..n)
      OBVIOUS
    <2> QED BY <1>9, <2>1
  <1>11. ASSUME NEW k \in 1..n PROVE end[1..k] = Does(end[1..k - 1], k)
    <2>1. /\ 1..k \in SUBSET (1..n) /\ 1..k # {}
          /\ Max(1..k) = k /\ (1..k) \ {k} = 1..k - 1
      BY <1>1, TopOf
    <2> QED BY <1>9, <2>1
  <1> QED BY <1>10, <1>11 DEF Does, n, end

\* What a walk of Glob finds is wanted, and it misses nothing unless it ends
\* early.
LEMMA GlobEnds ==
  ASSUME NEW list, NEW start, NEW pattern, NEW limit \in Nat, NEW want,
         want = {p \in Paths : /\ Under(start, p) /\ ~Match(list, p, IsDir(p))
                               /\ MatchPattern(pattern, Below(start, p))}
  PROVE  GlobOK(list, limit, want,
                GlobFold(list, start, pattern, limit)[DOMAIN WalkOrder])
  <1> DEFINE n == Cardinality(Paths)
             end == GlobFold(list, start, pattern, limit)
             U == {k \in 0..n : GlobOK(list, limit, want \cap Met(k), end[1..k])}
  <1>1. /\ n \in Nat /\ DOMAIN WalkOrder = 1..n
        /\ \A k \in 1..n : /\ WalkOrder[k] \in Paths
                           /\ WalkOrder[k] \notin Met(k - 1)
                           /\ Met(k) = Met(k - 1) \cup {WalkOrder[k]}
        /\ Met(0) = {} /\ Met(n) = Paths
    BY WalkFacts
  <1>2. /\ end[1..0] = GlobBase
        /\ \A k \in 1..n : end[1..k] = GlobVisit(list, start, pattern, limit,
                                                 end[1..k - 1], WalkOrder[k])
    BY GlobFoldIs
  <1> HIDE DEF n, end
  <1>3. 0 \in U
    <2>1. GlobBase \in GlobState
      <3>1. <<>> \in Seq(Paths) /\ {} \in SUBSET Paths
        OBVIOUS
      <3> QED BY <3>1 DEF GlobState, GlobBase
    <2>2. ToSet(<<>>) = {} /\ Len(<<>>) = 0
      BY DEF ToSet
    <2>3. /\ GlobBase.scanned = 0 /\ GlobBase.found = <<>>
          /\ GlobBase.total = 0 /\ GlobBase.pruned = {} /\ ~GlobBase.truncated
      BY DEF GlobBase
    <2>4. Cardinality({}) = 0 /\ want \cap Met(0) = {} /\ 0 <= GlobMaxScan
      BY <1>1, FS_EmptySet, SearchAssumption
    <2> HIDE DEF GlobBase
    <2>5. GlobOK(list, limit, want \cap Met(0), GlobBase)
      <3> DEFINE s == GlobBase
      <3>1. /\ ToSet(s.found) = {} /\ Len(s.found) = 0 /\ s.total = 0
            /\ s.scanned = 0 /\ s.pruned = {} /\ ~s.truncated
        BY <2>2, <2>3
      <3>2. s \in GlobState
        BY <2>1
      <3> HIDE DEF s
      <3>3. GlobOK(list, limit, {}, s)
        BY <2>4, <3>1, <3>2 DEF GlobOK
      <3> QED BY <2>4, <3>3 DEF s
    <2> QED BY <1>1, <1>2, <2>5
  <1>4. ASSUME NEW k \in 1..n, k - 1 \in U PROVE k \in U
    <2> DEFINE s == end[1..k - 1]
               p == WalkOrder[k]
               W == want \cap Met(k - 1)
               V == want \cap Met(k)
    <2>1. GlobOK(list, limit, W, s)
      BY <1>4
    <2>2. p \in Paths /\ p \notin W /\ W \in SUBSET Paths
          /\ V = IF p \in want THEN W \cup {p} ELSE W
      BY <1>1
    <2>3. end[1..k] = GlobVisit(list, start, pattern, limit, s, p)
      BY <1>2
    <2> HIDE DEF s, p, W, V
    <2>4. CASE Passes(start, s, p)
      <3>1. end[1..k] = s
        BY <2>3, <2>4 DEF GlobVisit
      <3>2. CASE s.done
        <4>1. ToSet(s.found) \subseteq V
          BY <2>1, <2>2 DEF GlobOK
        <4>2. GlobOK(list, limit, V, s)
          BY <2>1, <3>2, <4>1 DEF GlobOK
        <4> QED BY <3>1, <4>2, <1>1 DEF V
      <3>3. CASE ~s.done
        <4>1. p \notin want
          <5>1. CASE ~Under(start, p)
            BY <5>1
          <5>2. CASE \E d \in s.pruned : Under(d, p)
            <6>1. PICK d \in s.pruned : Under(d, p)
              BY <5>2
            <6>2. d \in Paths /\ Match(list, d, TRUE)
              BY <2>1, <6>1 DEF GlobOK, GlobState
            <6>3. Match(list, p, IsDir(p))
              BY <2>2, <6>1, <6>2, IgnoredBelow
            <6> QED BY <6>3
          <5> QED BY <2>4, <3>3, <5>1, <5>2 DEF Passes
        <4>2. V = W
          BY <2>2, <4>1
        <4>3. GlobOK(list, limit, V, end[1..k])
          BY <2>1, <3>1, <4>2
        <4> QED BY <4>3, <1>1 DEF V
      <3> QED BY <3>2, <3>3
    <2>5. CASE ~Passes(start, s, p)
      <3> DEFINE t == GlobStep(list, start, pattern, limit, s, p)
      <3>1. ~s.done /\ Under(start, p)
        BY <2>5 DEF Passes
      <3>2. V = IF ~Match(list, p, IsDir(p))
                      /\ MatchPattern(pattern, Below(start, p))
                THEN W \cup {p} ELSE W
        BY <2>2, <3>1
      <3>3. GlobOK(list, limit, V, t)
        BY <2>1, <2>2, <3>1, <3>2, GlobStepKeeps
      <3> HIDE DEF t
      <3>4. GlobOK(list, limit, V, Prunes(list, t, p))
        BY <2>2, <3>3, PrunesKeeps
      <3>5. end[1..k] = Prunes(list, t, p)
        BY <2>3, <2>5 DEF GlobVisit, t
      <3> QED BY <3>4, <3>5, <1>1 DEF V
    <2> QED BY <2>4, <2>5
  <1>5. n \in U
    <2> HIDE DEF U
    <2>1. \A i \in 0..n : i \in U
      BY <1>1, <1>3, <1>4, Upwards, Zenon
    <2> QED BY <2>1, <1>1
  <1>6. want \cap Met(n) = want
    BY <1>1
  <1> QED BY <1>1, <1>5, <1>6 DEF end

LEMMA ClampIs ==
  ASSUME NEW asked \in Nat, NEW default \in Nat, NEW most \in Nat
  PROVE  Clamp(asked, default, most) \in Nat
  <1> DEFINE a == IF asked = 0 THEN default ELSE asked
             S == {a, most}
  <1>1. a \in Nat
    OBVIOUS
  <1> HIDE DEF a
  <1>2. \E x \in S : \A y \in S : x <= y
    <2>1. CASE a <= most
      BY <1>1, <2>1
    <2>2. CASE ~(a <= most)
      BY <1>1, <2>2
    <2> QED BY <2>1, <2>2
  <1>3. Min(S) \in S
    BY <1>2 DEF Min
  <1>4. Clamp(asked, default, most) = Min(S)
    BY DEF Clamp, a
  <1> QED BY <1>1, <1>3, <1>4

\* What Glob answers.
LEMMA GlobAnswers ==
  ASSUME RulesOK(rules), mtime \in [Paths -> Nat],
         NEW start, NEW pattern, NEW asked \in Nat, NEW found,
         found = Glob(rules, mtime, start, pattern, asked),
         NEW want, want = {p \in Paths : /\ Under(start, p) /\ ~Hidden(p)
                                         /\ MatchPattern(pattern,
                                                         Below(start, p))}
  PROVE  /\ ToSet(found.found) \subseteq want
         /\ Sorted(found.found)
         /\ found.truncated <=> found.total > Len(found.found)
         /\ ~found.partial => found.total = Cardinality(want)
  <1> DEFINE limit == Clamp(asked, GlobDefaultLimit, GlobMaxLimit)
             end == GlobFold(rules, start, pattern, limit)[DOMAIN WalkOrder]
  <1>1. limit \in Nat
    BY ClampIs, SearchAssumption
  <1>2. want = {p \in Paths : /\ Under(start, p) /\ ~Match(rules, p, IsDir(p))
                              /\ MatchPattern(pattern, Below(start, p))}
    BY HiddenIs
  <1>3. GlobOK(rules, limit, want, end)
    <2> HIDE DEF limit
    <2> QED BY <1>1, <1>2, GlobEnds
  <1>4. /\ found.found = ByRecency(mtime, end.found)
        /\ found.total = end.total /\ found.truncated = end.truncated
        /\ found.partial = end.done
    <2>1. found = [found |-> ByRecency(mtime, end.found), total |-> end.total,
                   truncated |-> end.truncated, ignored |-> end.ignored,
                   partial |-> end.done]
      BY GlobIs
    <2> HIDE DEF end
    <2> QED BY <2>1
  <1> HIDE DEF limit, end
  <1>5. /\ end.found \in Seq(Paths) /\ Len(end.found) \in Nat
        /\ ToSet(end.found) \subseteq want /\ ToSet(end.found) \subseteq Paths
        /\ Cardinality(ToSet(end.found)) = Len(end.found)
        /\ end.truncated <=> end.total > Len(end.found)
        /\ ~end.done => end.total = Cardinality(want)
    BY <1>2, <1>3 DEF GlobOK, GlobState
  <1>6. /\ ToSet(found.found) = ToSet(end.found)
        /\ Len(found.found) = Len(end.found)
        /\ DOMAIN found.found = 1..Len(end.found)
        /\ \A i, j \in 1..Len(end.found) :
             i < j => mtime[found.found[i]] >= mtime[found.found[j]]
    <2> DEFINE s == ByRecency(mtime, end.found)
               n == Len(end.found)
    <2>1. /\ s \in [1..n -> ToSet(end.found)] /\ Len(s) = n
          /\ ToSet(s) = ToSet(end.found)
          /\ \A i, j \in 1..n : i < j => mtime[s[i]] >= mtime[s[j]]
      <3> HIDE DEF n
      <3>1. n \in Nat /\ Cardinality(ToSet(end.found)) = n
        BY <1>5 DEF n
      <3> QED BY <1>5, <3>1, RecencyIs
    <2> HIDE DEF s
    <2> QED BY <1>4, <2>1 DEF s
  <1>7. Sorted(found.found)
    BY <1>6 DEF Sorted
  <1>8. ToSet(found.found) \subseteq want
    BY <1>5, <1>6
  <1>9. found.truncated <=> found.total > Len(found.found)
    BY <1>4, <1>5, <1>6
  <1>10. ~found.partial => found.total = Cardinality(want)
    BY <1>4, <1>5
  <1> QED BY <1>7, <1>8, <1>9, <1>10
-----------------------------------------------------------------------------
(* Grep: the walk.                                                          *)

\* The same for grep.
GrepState == [scanned : Nat, skipped : Nat, files : Seq(Paths),
              pruned : SUBSET Paths, done : BOOLEAN]

GrepBase == [scanned |-> 0, skipped |-> 0, files |-> <<>>,
             pruned |-> {}, done |-> FALSE]

\* What Grep asks of an entry.
Asks(list, start, glob, p) ==
  /\ Entry(p).kind \in {"text", "binary", "large"}
  /\ ~Match(list, p, FALSE)
  /\ glob = <<>> \/ MatchPattern(glob, Below(start, p))

GrepStep(list, texts, start, char, glob, s, p) ==
  CASE ~Asks(list, start, glob, p) -> s
    [] Asks(list, start, glob, p) /\ s.scanned = GrepMaxScan ->
         [s EXCEPT !.done = TRUE]
    [] Asks(list, start, glob, p) /\ s.scanned < GrepMaxScan
         /\ Entry(p).kind # "text" ->
         [s EXCEPT !.scanned = @ + 1, !.skipped = @ + 1]
    [] OTHER ->
         [s EXCEPT !.scanned = @ + 1,
                   !.files = IF HitsIn(texts, p, char) = <<>>
                             THEN @ ELSE Append(@, p)]

GrepVisit(list, texts, start, char, glob, s, p) ==
  IF Passes(start, s, p) THEN s
  ELSE Prunes(list, GrepStep(list, texts, start, char, glob, s, p), p)

GrepFold(list, texts, start, char, glob) ==
  CHOOSE f : f = [T \in SUBSET DOMAIN WalkOrder |->
    IF T = {} THEN GrepBase
    ELSE GrepVisit(list, texts, start, char, glob, f[T \ {Max(T)}],
                   WalkOrder[Max(T)])]

\* Grep by the state its walk ends in.
LEMMA GrepIs ==
  ASSUME NEW list, NEW time, NEW texts, NEW start, NEW char, NEW glob,
         NEW asked, NEW filesOnly
  PROVE  LET limit == Clamp(asked, GrepDefaultLimit, GrepMaxLimit)
             end == GrepFold(list, texts, start, char, glob)[DOMAIN WalkOrder]
             files == ByRecency(time, end.files)
             hits == FlattenSeq([k \in DOMAIN files |->
                                   HitsIn(texts, files[k], char)])
             most == Min({limit, Len(IF filesOnly THEN files ELSE hits)})
         IN  Grep(list, time, texts, start, char, glob, asked, filesOnly)
               = [files |-> IF filesOnly THEN SubSeq(files, 1, most) ELSE files,
                  hits |-> IF filesOnly THEN <<>> ELSE SubSeq(hits, 1, most),
                  total |-> Len(hits), count |-> Len(files),
                  skipped |-> end.skipped,
                  truncated |-> most < Len(IF filesOnly THEN files ELSE hits)]
  BY DEF Grep, Visit, FoldLeft, MapThenFoldSet, GrepFold, GrepVisit, Passes,
         Prunes, GrepStep, GrepBase, Asks

GrepStates == {s \in GrepState : s.scanned <= GrepMaxScan}

Skipped(s, a, b) == [s EXCEPT !.scanned = a, !.skipped = b]
Searched(s, a, f) == [s EXCEPT !.scanned = a, !.files = f]

LEMMA SkippedIs ==
  ASSUME NEW s \in GrepState, NEW a \in Nat, NEW b \in Nat, NEW t,
         t = Skipped(s, a, b)
  PROVE  /\ t \in GrepState
         /\ t.pruned = s.pruned /\ t.scanned = a
         /\ t.files = s.files /\ t.done = s.done
  <1> DEFINE u == [s EXCEPT !.scanned = a]
  <1>0. t = [u EXCEPT !.skipped = b]
    BY DEF Skipped
  <1>1. /\ u \in GrepState
        /\ u.pruned = s.pruned /\ u.scanned = a
        /\ u.files = s.files /\ u.done = s.done
    BY DEF GrepState
  <1> HIDE DEF u
  <1>2. /\ t \in GrepState
        /\ t.pruned = u.pruned /\ t.scanned = u.scanned
        /\ t.files = u.files /\ t.done = u.done
    BY <1>0, <1>1 DEF GrepState
  <1> QED BY <1>1, <1>2

LEMMA SearchedIs ==
  ASSUME NEW s \in GrepState, NEW a \in Nat, NEW f \in Seq(Paths), NEW t,
         t = Searched(s, a, f)
  PROVE  /\ t \in GrepState
         /\ t.pruned = s.pruned /\ t.scanned = a
         /\ t.files = f /\ t.done = s.done
  <1> DEFINE u == [s EXCEPT !.scanned = a]
  <1>0. t = [u EXCEPT !.files = f]
    BY DEF Searched
  <1>1. /\ u \in GrepState
        /\ u.pruned = s.pruned /\ u.scanned = a /\ u.done = s.done
    BY DEF GrepState
  <1> HIDE DEF u
  <1>2. /\ t \in GrepState
        /\ t.pruned = u.pruned /\ t.scanned = u.scanned
        /\ t.files = f /\ t.done = u.done
    BY <1>0, <1>1 DEF GrepState
  <1> QED BY <1>1, <1>2

\* What Grep makes of an entry that it comes to.
StepTo(s, t, p, asks, holds) ==
  /\ t \in GrepState /\ t.pruned = s.pruned
  /\ ~asks => t = s
  /\ asks /\ s.scanned = GrepMaxScan =>
       t.scanned = s.scanned /\ t.files = s.files /\ t.done
  /\ asks /\ s.scanned < GrepMaxScan =>
       /\ t.scanned = s.scanned + 1 /\ t.done = s.done
       /\ t.files = IF holds THEN Append(s.files, p) ELSE s.files

\* A file that grep finds a match in.
Holding(texts, char, p) ==
  Entry(p).kind = "text" /\ HitsIn(texts, p, char) # <<>>

\* What one entry does to the walk of grep.
LEMMA GrepStepIs ==
  ASSUME NEW list, NEW texts, NEW start, NEW char, NEW glob, NEW p \in Paths,
         NEW s \in GrepStates
  PROVE  StepTo(s, GrepStep(list, texts, start, char, glob, s, p), p,
                Asks(list, start, glob, p), Holding(texts, char, p))
  <1> DEFINE asks == Asks(list, start, glob, p)
             holds == Holding(texts, char, p)
             t == GrepStep(list, texts, start, char, glob, s, p)
             a == s.scanned + 1
             b == s.skipped + 1
             f == IF HitsIn(texts, p, char) = <<>> THEN s.files
                  ELSE Append(s.files, p)
  <1>1. /\ GrepMaxScan \in Nat /\ s.scanned \in Nat
        /\ s.files \in Seq(Paths) /\ s.skipped \in Nat
    BY SearchAssumption DEF GrepState, GrepStates
  <1>2. /\ a \in Nat /\ b \in Nat /\ f \in Seq(Paths)
    BY <1>1
  <1>0. s \in GrepState /\ s.scanned <= GrepMaxScan
    BY DEF GrepStates
  <1>3. CASE ~asks
    <2>1. t = s
      BY <1>3 DEF GrepStep
    <2> HIDE DEF t, asks
    <2> QED BY <1>0, <1>3, <2>1 DEF t, asks, StepTo
  <1>4. CASE asks /\ s.scanned = GrepMaxScan
    <2>1. t = [s EXCEPT !.done = TRUE] /\ ~(s.scanned < GrepMaxScan)
      BY <1>1, <1>4 DEF GrepStep
    <2> HIDE DEF t, asks, holds
    <2>2. /\ t \in GrepState
          /\ t.pruned = s.pruned /\ t.scanned = s.scanned
          /\ t.files = s.files /\ t.done
      BY <1>0, <2>1 DEF GrepState
    <2> QED BY <1>4, <2>1, <2>2 DEF t, asks, holds, StepTo
  <1>5. CASE asks /\ s.scanned < GrepMaxScan /\ Entry(p).kind # "text"
    <2>1. t = Skipped(s, a, b) /\ s.scanned # GrepMaxScan
      BY <1>1, <1>5 DEF GrepStep, Skipped
    <2>2. a \in Nat /\ b \in Nat
      BY <1>2
    <2> HIDE DEF t, a, b, f, asks
    <2>3. /\ t \in GrepState
          /\ t.pruned = s.pruned /\ t.scanned = a
          /\ t.files = s.files /\ t.done = s.done
      BY <1>0, <2>1, <2>2, SkippedIs
    <2> QED BY <1>5, <2>1, <2>3 DEF t, a, asks, StepTo, Holding
  <1>6. CASE asks /\ s.scanned < GrepMaxScan /\ Entry(p).kind = "text"
    <2>1. t = Searched(s, a, f) /\ s.scanned # GrepMaxScan
      BY <1>1, <1>6 DEF GrepStep, Searched
    <2>2. a \in Nat /\ f \in Seq(Paths)
      BY <1>2
    <2>3. f = IF holds THEN Append(s.files, p) ELSE s.files
      BY <1>6 DEF Holding
    <2> HIDE DEF t, a, b, f, asks, holds
    <2>4. /\ t \in GrepState
          /\ t.pruned = s.pruned /\ t.scanned = a
          /\ t.files = f /\ t.done = s.done
      BY <1>0, <2>1, <2>2, SearchedIs
    <2> QED BY <1>6, <2>1, <2>3, <2>4 DEF t, a, asks, holds, StepTo
  <1> QED BY <1>0, <1>1, <1>3, <1>4, <1>5, <1>6

\* What Grep has found when it has met the paths A that it is asked for, of
\* which H hold a match, and no others.
GrepOK(list, A, H, s) ==
  /\ s \in GrepState /\ s.scanned <= GrepMaxScan
  /\ \A d \in s.pruned : Match(list, d, TRUE)
  /\ ToSet(s.files) \subseteq H
  /\ Cardinality(ToSet(s.files)) = Len(s.files)
  /\ IF s.done THEN GrepMaxScan < Cardinality(A)
     ELSE ToSet(s.files) = H /\ s.scanned = Cardinality(A)

LEMMA GrepPruneKeeps ==
  ASSUME NEW list, NEW A, NEW H, NEW p \in Paths, NEW t, GrepOK(list, A, H, t)
  PROVE  GrepOK(list, A, H, Prunes(list, t, p))
  <1>1. CASE IsDir(p) /\ Match(list, p, TRUE)
    <2> DEFINE u == [t EXCEPT !.pruned = @ \cup {p}]
    <2>1. t \in GrepState
      BY DEF GrepOK
    <2>2. /\ u \in GrepState
          /\ u.pruned = t.pruned \cup {p} /\ u.scanned = t.scanned
          /\ u.files = t.files /\ u.done = t.done
      BY <2>1 DEF GrepState
    <2>3. Prunes(list, t, p) = u
      BY <1>1 DEF Prunes
    <2> HIDE DEF u
    <2>4. \A d \in u.pruned : Match(list, d, TRUE)
      BY <1>1, <2>2 DEF GrepOK
    <2> QED BY <2>2, <2>3, <2>4 DEF GrepOK
  <1>2. CASE ~(IsDir(p) /\ Match(list, p, TRUE))
    BY <1>2 DEF Prunes
  <1> QED BY <1>1, <1>2

\* Each entry of the walk keeps the files right.
LEMMA GrepStepKeeps ==
  ASSUME NEW list, NEW texts, NEW start, NEW char, NEW glob,
         NEW A \in SUBSET Paths, NEW H \in SUBSET A,
         NEW s, GrepOK(list, A, H, s), ~s.done,
         NEW p \in Paths, p \notin A, NEW B, NEW K,
         B = IF Asks(list, start, glob, p) THEN A \cup {p} ELSE A,
         K = IF Asks(list, start, glob, p) /\ Holding(texts, char, p)
             THEN H \cup {p} ELSE H
  PROVE  GrepOK(list, B, K, GrepStep(list, texts, start, char, glob, s, p))
  <1> DEFINE asks == Asks(list, start, glob, p)
             holds == Holding(texts, char, p)
             t == GrepStep(list, texts, start, char, glob, s, p)
  <1>1. /\ s \in GrepState /\ s.scanned <= GrepMaxScan /\ GrepMaxScan \in Nat
        /\ s.scanned \in Nat /\ s.files \in Seq(Paths)
    BY SearchAssumption DEF GrepOK, GrepState
  <1>2. IsFiniteSet(A) /\ Cardinality(A) \in Nat
        /\ Cardinality(B) = IF asks THEN Cardinality(A) + 1 ELSE Cardinality(A)
    BY PathsFinite, FS_Subset, FS_CardinalityType, FS_AddElement
  <1>3. /\ ToSet(s.files) = H /\ p \notin ToSet(s.files)
        /\ Cardinality(ToSet(s.files)) = Len(s.files)
        /\ s.scanned = Cardinality(A)
        /\ \A d \in s.pruned : Match(list, d, TRUE)
    BY DEF GrepOK
  <1>4. /\ t \in GrepState /\ t.pruned = s.pruned
        /\ ~asks => t = s
        /\ asks /\ s.scanned = GrepMaxScan =>
             t.scanned = s.scanned /\ t.files = s.files /\ t.done
        /\ asks /\ s.scanned < GrepMaxScan =>
             /\ t.scanned = s.scanned + 1 /\ t.done = s.done
             /\ t.files = IF holds THEN Append(s.files, p) ELSE s.files
    <2>1. s \in GrepStates
      BY <1>1 DEF GrepStates
    <2> HIDE DEF t, asks, holds
    <2>2. StepTo(s, t, p, asks, holds)
      BY <2>1, GrepStepIs DEF t, asks, holds
    <2> QED BY <2>2 DEF StepTo
  <1>5. \A d \in t.pruned : Match(list, d, TRUE)
    BY <1>3, <1>4
  <1>6. K = IF asks /\ holds THEN H \cup {p} ELSE H
    OBVIOUS
  <1> HIDE DEF t, asks, holds
  <1>7. CASE ~asks
    <2>1. t = s /\ K = H /\ Cardinality(B) = Cardinality(A)
      BY <1>2, <1>4, <1>6, <1>7
    <2>2. GrepOK(list, B, K, t)
      BY <2>1 DEF GrepOK
    <2> QED BY <2>2 DEF t
  <1>8. CASE asks /\ s.scanned = GrepMaxScan
    <2>1. /\ t.scanned = s.scanned /\ t.files = s.files /\ t.done
          /\ GrepMaxScan < Cardinality(B) /\ ToSet(t.files) \subseteq K
      BY <1>1, <1>2, <1>3, <1>4, <1>6, <1>8
    <2>2. GrepOK(list, B, K, t)
      BY <1>1, <1>3, <1>4, <1>5, <2>1 DEF GrepOK
    <2> QED BY <2>2 DEF t
  <1>9. CASE asks /\ s.scanned < GrepMaxScan
    <2>1. /\ t.scanned = s.scanned + 1 /\ ~t.done
          /\ t.scanned <= GrepMaxScan /\ t.scanned = Cardinality(B)
      BY <1>1, <1>2, <1>3, <1>4, <1>9
    <2>2. /\ ToSet(t.files) = K
          /\ Cardinality(ToSet(t.files)) = Len(t.files)
      <3>1. CASE holds
        <4>1. t.files = Append(s.files, p) /\ K = H \cup {p}
          BY <1>4, <1>6, <1>9, <3>1
        <4> QED BY <1>1, <1>3, <4>1, OneMoreFound
      <3>2. CASE ~holds
        <4>1. t.files = s.files /\ K = H
          BY <1>4, <1>6, <1>9, <3>2
        <4> QED BY <1>3, <4>1
      <3> QED BY <3>1, <3>2
    <2>3. GrepOK(list, B, K, t)
      BY <1>4, <1>5, <2>1, <2>2 DEF GrepOK
    <2> QED BY <2>3 DEF t
  <1>10. s.scanned = GrepMaxScan \/ s.scanned < GrepMaxScan
    BY <1>1
  <1> QED BY <1>7, <1>8, <1>9, <1>10

LEMMA GrepVisitTyped ==
  ASSUME NEW list, NEW texts, NEW start, NEW char, NEW glob, NEW p \in Paths,
         NEW s \in GrepStates
  PROVE  GrepVisit(list, texts, start, char, glob, s, p) \in GrepStates
  <1> DEFINE t == GrepStep(list, texts, start, char, glob, s, p)
             asks == Asks(list, start, glob, p)
  <1>1. s \in GrepState /\ s.scanned <= GrepMaxScan /\ s.scanned \in Nat
        /\ GrepMaxScan \in Nat
    BY SearchAssumption DEF GrepStates, GrepState
  <1>2. /\ t \in GrepState
        /\ ~asks => t = s
        /\ asks /\ s.scanned = GrepMaxScan => t.scanned = s.scanned
        /\ asks /\ s.scanned < GrepMaxScan => t.scanned = s.scanned + 1
    <2> HIDE DEF t, asks
    <2>2. StepTo(s, t, p, asks, Holding(texts, char, p))
      BY GrepStepIs DEF t, asks
    <2> QED BY <2>2 DEF StepTo
  <1> HIDE DEF t, asks
  <1>3. t \in GrepStates
    BY <1>1, <1>2 DEF GrepStates
  <1>4. Prunes(list, t, p) \in GrepStates
    <2>1. t \in GrepState /\ t.scanned <= GrepMaxScan
      BY <1>3 DEF GrepStates
    <2>2. CASE IsDir(p) /\ Match(list, p, TRUE)
      <3> DEFINE u == [t EXCEPT !.pruned = @ \cup {p}]
      <3>1. u \in GrepState /\ u.scanned = t.scanned
        BY <2>1 DEF GrepState
      <3>2. Prunes(list, t, p) = u
        BY <2>2 DEF Prunes
      <3> HIDE DEF u
      <3> QED BY <2>1, <3>1, <3>2 DEF GrepStates
    <2>3. CASE ~(IsDir(p) /\ Match(list, p, TRUE))
      BY <1>3, <2>3 DEF Prunes
    <2> QED BY <2>2, <2>3
  <1> QED BY <1>4 DEF GrepVisit, t

LEMMA GrepFoldIs ==
  ASSUME NEW list, NEW texts, NEW start, NEW char, NEW glob
  PROVE  LET n == Cardinality(Paths)
             end == GrepFold(list, texts, start, char, glob)
         IN  /\ end[1..0] = GrepBase
             /\ \A k \in 1..n :
                  end[1..k] = GrepVisit(list, texts, start, char, glob,
                                        end[1..k - 1], WalkOrder[k])
  <1> DEFINE n == Cardinality(Paths)
             Does(s, i) == GrepVisit(list, texts, start, char, glob, s,
                                     WalkOrder[i])
             step == [i \in 1..n |-> [s \in GrepStates |-> Does(s, i)]]
             Is(f) == f = [T \in SUBSET (1..n) |->
                        IF T = {} THEN GrepBase
                        ELSE Does(f[T \ {Max(T)}], Max(T))]
             end == GrepFold(list, texts, start, char, glob)
  <1>1. n \in Nat /\ DOMAIN WalkOrder = 1..n /\ \A k \in 1..n : WalkOrder[k] \in Paths
    BY WalkFacts
  <1>2. step \in [1..n -> [GrepStates -> GrepStates]]
    BY <1>1, GrepVisitTyped
  <1>3. GrepBase \in GrepStates
    <2>1. <<>> \in Seq(Paths) /\ {} \in SUBSET Paths
      OBVIOUS
    <2> QED BY <2>1, SearchAssumption DEF GrepStates, GrepState, GrepBase
  <1>4. end = CHOOSE f : Is(f)
    BY <1>1 DEF GrepFold
  <1> HIDE DEF step, n, end
  <1>5. PICK f \in [SUBSET (1..n) -> GrepStates] : Folds(f, step, GrepBase, n)
    BY <1>1, <1>2, <1>3, FoldExists
  <1> HIDE DEF Does
  <1>6. ASSUME NEW T \in SUBSET (1..n), T # {}
        PROVE  step[Max(T)][f[T \ {Max(T)}]] = Does(f[T \ {Max(T)}], Max(T))
    <2>1. Max(T) \in 1..n /\ f[T \ {Max(T)}] \in GrepStates
      <3>1. Max(T) \in T
        BY <1>1, <1>6, MaxOf
      <3> QED BY <3>1
    <2> QED BY <2>1 DEF step
  <1>7. f = [T \in SUBSET (1..n) |->
               IF T = {} THEN GrepBase ELSE step[Max(T)][f[T \ {Max(T)}]]]
    BY <1>5 DEF Folds
  <1>8. Is(f)
    BY <1>6, <1>7
  <1> HIDE DEF Is
  <1>9. Is(end)
    BY <1>4, <1>8
  <1> USE DEF Is
  <1>10. end[1..0] = GrepBase
    <2>1. 1..0 = {} /\ {} \in SUBSET (1..n)
      OBVIOUS
    <2> QED BY <1>9, <2>1
  <1>11. ASSUME NEW k \in 1..n PROVE end[1..k] = Does(end[1..k - 1], k)
    <2>1. /\ 1..k \in SUBSET (1..n) /\ 1..k # {}
          /\ Max(1..k) = k /\ (1..k) \ {k} = 1..k - 1
      BY <1>1, TopOf
    <2> QED BY <1>9, <2>1
  <1> QED BY <1>10, <1>11 DEF Does, n, end

\* What a walk of Grep finds holds a match, and it misses nothing unless there
\* is more to search than it may.
LEMMA GrepEnds ==
  ASSUME NEW list, NEW texts, NEW start, NEW char, NEW glob,
         NEW asked, asked = {p \in Paths : Under(start, p) /\ Asks(list, start, glob, p)},
         NEW want, want = {p \in asked : Holding(texts, char, p)}
  PROVE  GrepOK(list, asked, want,
                GrepFold(list, texts, start, char, glob)[DOMAIN WalkOrder])
  <1> DEFINE n == Cardinality(Paths)
             end == GrepFold(list, texts, start, char, glob)
             U == {k \in 0..n : GrepOK(list, asked \cap Met(k), want \cap Met(k),
                                       end[1..k])}
  <1>1. /\ n \in Nat /\ DOMAIN WalkOrder = 1..n
        /\ \A k \in 1..n : /\ WalkOrder[k] \in Paths
                           /\ WalkOrder[k] \notin Met(k - 1)
                           /\ Met(k) = Met(k - 1) \cup {WalkOrder[k]}
        /\ Met(0) = {} /\ Met(n) = Paths
    BY WalkFacts
  <1>2. /\ end[1..0] = GrepBase
        /\ \A k \in 1..n : end[1..k] = GrepVisit(list, texts, start, char, glob,
                                                 end[1..k - 1], WalkOrder[k])
    BY GrepFoldIs
  <1> HIDE DEF n, end
  <1>3. 0 \in U
    <2>1. GrepBase \in GrepState
      <3>1. <<>> \in Seq(Paths) /\ {} \in SUBSET Paths
        OBVIOUS
      <3> QED BY <3>1 DEF GrepState, GrepBase
    <2>2. ToSet(<<>>) = {} /\ Len(<<>>) = 0
      BY DEF ToSet
    <2>3. /\ GrepBase.scanned = 0 /\ GrepBase.files = <<>>
          /\ GrepBase.pruned = {} /\ ~GrepBase.done
      BY DEF GrepBase
    <2>4. /\ Cardinality({}) = 0 /\ 0 <= GrepMaxScan
          /\ want \cap Met(0) = {} /\ asked \cap Met(0) = {}
      BY <1>1, FS_EmptySet, SearchAssumption
    <2> HIDE DEF GrepBase
    <2>5. GrepOK(list, {}, {}, GrepBase)
      <3> DEFINE s == GrepBase
      <3>1. /\ ToSet(s.files) = {} /\ Len(s.files) = 0
            /\ s.scanned = 0 /\ s.pruned = {} /\ ~s.done
        BY <2>2, <2>3
      <3>2. s \in GrepState
        BY <2>1
      <3> HIDE DEF s
      <3>3. GrepOK(list, {}, {}, s)
        BY <2>4, <3>1, <3>2 DEF GrepOK
      <3> QED BY <3>3 DEF s
    <2>6. GrepOK(list, asked \cap Met(0), want \cap Met(0), end[1..0])
      BY <1>2, <2>4, <2>5
    <2> QED BY <1>1, <2>6
  <1>4. ASSUME NEW k \in 1..n, k - 1 \in U PROVE k \in U
    <2> DEFINE s == end[1..k - 1]
               p == WalkOrder[k]
               A == asked \cap Met(k - 1)
               H == want \cap Met(k - 1)
               B == asked \cap Met(k)
               K == want \cap Met(k)
    <2>1. GrepOK(list, A, H, s)
      BY <1>4
    <2>2. /\ p \in Paths /\ p \notin A /\ A \in SUBSET Paths /\ H \in SUBSET A
          /\ B = IF p \in asked THEN A \cup {p} ELSE A
          /\ K = IF p \in want THEN H \cup {p} ELSE H
          /\ B \in SUBSET Paths /\ A \subseteq B /\ H \subseteq K
      BY <1>1
    <2>3. end[1..k] = GrepVisit(list, texts, start, char, glob, s, p)
      BY <1>2
    <2>4. SUFFICES GrepOK(list, B, K, end[1..k])
      BY <1>1
    <2> HIDE DEF s, p, A, H, B, K
    <2>5. CASE Passes(start, s, p)
      <3>1. end[1..k] = s
        BY <2>3, <2>5 DEF GrepVisit
      <3>2. CASE s.done
        <4>1. ToSet(s.files) \subseteq K
          BY <2>1, <2>2 DEF GrepOK
        <4>2. GrepMaxScan < Cardinality(B)
          <5>1. IsFiniteSet(B)
            BY <2>2, PathsFinite, FS_Subset
          <5>2. /\ Cardinality(A) <= Cardinality(B)
                /\ Cardinality(A) \in Nat /\ Cardinality(B) \in Nat
            BY <2>2, <5>1, FS_Subset, FS_CardinalityType
          <5>3. GrepMaxScan < Cardinality(A) /\ GrepMaxScan \in Nat
            BY <2>1, <3>2, SearchAssumption DEF GrepOK
          <5> QED BY <5>2, <5>3
        <4>3. GrepOK(list, B, K, s)
          BY <2>1, <3>2, <4>1, <4>2 DEF GrepOK
        <4> QED BY <3>1, <4>3
      <3>3. CASE ~s.done
        <4>1. p \notin asked
          <5>1. CASE ~Under(start, p)
            BY <5>1
          <5>2. CASE \E d \in s.pruned : Under(d, p)
            <6>1. PICK d \in s.pruned : Under(d, p)
              BY <5>2
            <6>2. d \in Paths /\ Match(list, d, TRUE)
              BY <2>1, <6>1 DEF GrepOK, GrepState
            <6>3. Match(list, p, FALSE)
              BY <2>2, <6>1, <6>2, IgnoredBelow
            <6> QED BY <6>3 DEF Asks
          <5> QED BY <2>5, <3>3, <5>1, <5>2 DEF Passes
        <4>2. p \notin want
          BY <4>1
        <4>3. B = A /\ K = H
          BY <2>2, <4>1, <4>2
        <4> QED BY <2>1, <3>1, <4>3
      <3> QED BY <3>2, <3>3
    <2>6. CASE ~Passes(start, s, p)
      <3> DEFINE t == GrepStep(list, texts, start, char, glob, s, p)
      <3>1. ~s.done /\ Under(start, p)
        BY <2>6 DEF Passes
      <3>2. /\ B = IF Asks(list, start, glob, p) THEN A \cup {p} ELSE A
            /\ K = IF Asks(list, start, glob, p) /\ Holding(texts, char, p)
                   THEN H \cup {p} ELSE H
        <4>1. /\ (p \in asked) <=> Asks(list, start, glob, p)
              /\ (p \in want) <=> (p \in asked /\ Holding(texts, char, p))
          BY <2>2, <3>1
        <4> QED BY <2>2, <4>1
      <3>3. GrepOK(list, B, K, t)
        BY <2>1, <2>2, <3>1, <3>2, GrepStepKeeps
      <3> HIDE DEF t
      <3>4. GrepOK(list, B, K, Prunes(list, t, p))
        BY <2>2, <3>3, GrepPruneKeeps
      <3>5. end[1..k] = Prunes(list, t, p)
        BY <2>3, <2>6 DEF GrepVisit, t
      <3> QED BY <3>4, <3>5
    <2> QED BY <2>5, <2>6
  <1>5. n \in U
    <2> HIDE DEF U
    <2>1. \A i \in 0..n : i \in U
      BY <1>1, <1>3, <1>4, Upwards, Zenon
    <2> QED BY <2>1, <1>1
  <1>6. want \cap Met(n) = want /\ asked \cap Met(n) = asked
    BY <1>1
  <1> QED BY <1>1, <1>5, <1>6 DEF end
-----------------------------------------------------------------------------
(* Numbers of lines.                                                        *)

\* The newlines among the first i characters.
NewlinesTo(s, i) == Cardinality({j \in 1..i : s[j] = "newline"})

LEMMA NewlinesCount ==
  ASSUME NEW s
  PROVE  /\ NewlinesTo(s, 0) = 0
         /\ \A i \in Nat : NewlinesTo(s, i) \in Nat
         /\ \A i \in Nat \ {0} :
              NewlinesTo(s, i) = NewlinesTo(s, i - 1)
                                   + IF s[i] = "newline" THEN 1 ELSE 0
         /\ \A i \in Nat \ {0} : LineOf(s, i) = NewlinesTo(s, i - 1) + 1
  <1> DEFINE T(i) == {j \in 1..i : s[j] = "newline"}
  <1>1. ASSUME NEW i \in Nat
        PROVE  IsFiniteSet(T(i)) /\ Cardinality(T(i)) \in Nat
    <2>1. IsFiniteSet(1..i)
      BY FS_Interval
    <2>2. T(i) \in SUBSET (1..i)
      OBVIOUS
    <2>3. IsFiniteSet(T(i))
      <3> HIDE DEF T
      <3> QED BY <2>1, <2>2, FS_Subset
    <2> QED BY <2>3, FS_CardinalityType
  <1>2. T(0) = {}
    OBVIOUS
  <1>3. ASSUME NEW i \in Nat \ {0}
        PROVE  Cardinality(T(i)) = Cardinality(T(i - 1))
                                     + IF s[i] = "newline" THEN 1 ELSE 0
    <2>1. i - 1 \in Nat
      OBVIOUS
    <2>2. IsFiniteSet(T(i - 1)) /\ Cardinality(T(i - 1)) \in Nat
      BY <1>1, <2>1
    <2>3. i \notin T(i - 1)
      OBVIOUS
    <2>4. T(i) = IF s[i] = "newline" THEN T(i - 1) \cup {i} ELSE T(i - 1)
      <3>1. \A j : j \in 1..i <=> j \in 1..i - 1 \/ j = i
        OBVIOUS
      <3> QED BY <3>1
    <2> HIDE DEF T
    <2>5. Cardinality(T(i - 1) \cup {i}) = Cardinality(T(i - 1)) + 1
      BY <2>2, <2>3, FS_AddElement
    <2> QED BY <2>2, <2>4, <2>5
  <1>4. Cardinality(T(0)) = 0
    BY <1>2, FS_EmptySet
  <1> QED BY <1>1, <1>3, <1>4 DEF NewlinesTo, LineOf

LEMMA NewlinesGrow ==
  ASSUME NEW s, NEW a \in Nat, NEW b \in Nat, a <= b
  PROVE  NewlinesTo(s, a) <= NewlinesTo(s, b)
  <1> DEFINE N(i) == NewlinesTo(s, i)
             n == b - a
             T == {i \in 0..n : N(a) <= N(a + i)}
  <1>1. n \in Nat /\ a + n = b
    OBVIOUS
  <1>2. /\ \A i \in Nat : N(i) \in Nat
        /\ \A i \in Nat \ {0} : N(i) >= N(i - 1)
    <2>1. /\ \A i \in Nat : N(i) \in Nat
          /\ \A i \in Nat \ {0} :
               N(i) = N(i - 1) + IF s[i] = "newline" THEN 1 ELSE 0
      BY NewlinesCount
    <2> HIDE DEF N
    <2> SUFFICES ASSUME NEW i \in Nat \ {0} PROVE N(i) >= N(i - 1)
      BY <2>1
    <2>2. N(i - 1) \in Nat /\ N(i) \in Nat
      BY <2>1
    <2> QED BY <2>1, <2>2
  <1> HIDE DEF N, n
  <1>3. 0 \in T
    BY <1>1, <1>2
  <1>4. ASSUME NEW i \in 1..n, i - 1 \in T PROVE i \in T
    <2>1. N(a) <= N(a + (i - 1))
      BY <1>4
    <2>2. a + i \in Nat \ {0} /\ (a + i) - 1 = a + (i - 1)
          /\ a + (i - 1) \in Nat
      BY <1>1
    <2>3. N(a + i) >= N(a + (i - 1))
      BY <1>2, <2>2
    <2>4. N(a) \in Nat /\ N(a + i) \in Nat /\ N(a + (i - 1)) \in Nat
      BY <1>2, <2>2
    <2> QED BY <1>1, <2>1, <2>3, <2>4
  <1>5. \A i \in 0..n : i \in T
    <2> HIDE DEF T
    <2> QED BY <1>1, <1>3, <1>4, Upwards, Zenon
  <1>6. n \in T
    BY <1>1, <1>5
  <1> QED BY <1>1, <1>6 DEF N

\* Where the count does not grow there is no newline, and the other way round.
LEMMA NoNewline ==
  ASSUME NEW s, NEW a \in Nat, NEW b \in Nat, a <= b
  PROVE  NewlinesTo(s, a) = NewlinesTo(s, b)
           <=> \A j \in a + 1..b : s[j] # "newline"
  <1> DEFINE N(i) == NewlinesTo(s, i)
  <1>1. /\ \A i \in Nat : N(i) \in Nat
        /\ \A i \in Nat \ {0} : N(i) = N(i - 1)
                                  + IF s[i] = "newline" THEN 1 ELSE 0
    BY NewlinesCount
  <1>2. \A i, j \in Nat : i <= j => N(i) <= N(j)
    BY NewlinesGrow
  <1> HIDE DEF N
  <1>3. ASSUME N(a) = N(b), NEW j \in a + 1..b PROVE s[j] # "newline"
    <2>1. /\ j \in Nat \ {0} /\ j - 1 \in Nat /\ a <= j - 1 /\ j <= b
      OBVIOUS
    <2>2. N(a) <= N(j - 1) /\ N(j) <= N(b)
      BY <1>2, <2>1
    <2>3. /\ N(j) \in Nat /\ N(j - 1) \in Nat /\ N(a) \in Nat
          /\ N(j) = N(j - 1) + IF s[j] = "newline" THEN 1 ELSE 0
      BY <1>1, <2>1
    <2> QED BY <1>3, <2>2, <2>3
  <1>4. ASSUME \A j \in a + 1..b : s[j] # "newline" PROVE N(a) = N(b)
    <2> DEFINE n == b - a
               T == {i \in 0..n : N(a) = N(a + i)}
    <2>1. n \in Nat /\ a + n = b
      OBVIOUS
    <2>2. 0 \in T
      BY <2>1
    <2>3. ASSUME NEW i \in 1..n, i - 1 \in T PROVE i \in T
      <3>1. /\ a + i \in Nat \ {0} /\ (a + i) - 1 = a + (i - 1)
            /\ a + i \in a + 1..b
        BY <2>1
      <3>2. N(a + i) = N(a + (i - 1)) + 0
        BY <1>1, <1>4, <3>1
      <3>3. N(a) = N(a + (i - 1)) /\ N(a) \in Nat
        BY <2>3, <1>1
      <3> QED BY <2>1, <3>2, <3>3
    <2>4. \A i \in 0..n : i \in T
      <3> HIDE DEF T, n
      <3> QED BY <2>1, <2>2, <2>3, Upwards, Zenon
    <2>5. n \in T
      <3> HIDE DEF T
      <3> QED BY <2>1, <2>4
    <2> QED BY <2>1, <2>5
  <1> QED BY <1>3, <1>4 DEF N

\* The numbers of a finite set in order.
Ascending(T) ==
  [k \in 1..Cardinality(T) |->
     CHOOSE x \in T : Cardinality(Lower(T, x)) = k - 1]

\* A finite set of numbers is listed in ascending order.
LEMMA NumbersListed ==
  ASSUME NEW T \in SUBSET Nat, IsFiniteSet(T), NEW e, e = Ascending(T)
  PROVE  /\ DOMAIN e = 1..Cardinality(T) /\ Cardinality(T) \in Nat
         /\ Len(e) = Cardinality(T) /\ e \in [1..Cardinality(T) -> T]
         /\ \A k \in DOMAIN e : Cardinality(Lower(T, e[k])) = k - 1
         /\ \A j \in T : LET k == Cardinality(Lower(T, j)) + 1
                         IN  k \in DOMAIN e /\ e[k] = j
         /\ ToSet(e) = T
  <1> DEFINE n == Cardinality(T)
             Is(x, k) == Cardinality(Lower(T, x)) = k - 1
  <1>1. n \in Nat
    BY FS_CardinalityType
  <1>2. e = [k \in 1..n |-> CHOOSE x \in T : Is(x, k)]
    BY DEF Ascending
  <1>3. \A k \in 1..n : \E x \in T : Is(x, k)
    BY RankExists
  <1> HIDE DEF n
  <1>4. \A k \in 1..n : (CHOOSE x \in T : Is(x, k)) \in T
                        /\ Is(CHOOSE x \in T : Is(x, k), k)
    <2> HIDE DEF Is
    <2> QED BY <1>3
  <1>5. /\ e \in [1..n -> T] /\ DOMAIN e = 1..n
        /\ \A k \in 1..n : e[k] \in T /\ Is(e[k], k)
    <2> HIDE DEF Is
    <2> QED BY <1>2, <1>4
  <1>6. Len(e) = n
    BY <1>1, <1>5
  <1>7. ASSUME NEW j \in T
        PROVE  LET k == Cardinality(Lower(T, j)) + 1
               IN  k \in 1..n /\ e[k] = j
    <2> DEFINE c == Cardinality(Lower(T, j))
               k == c + 1
    <2>1. Lower(T, j) \in SUBSET T /\ j \notin Lower(T, j)
      BY DEF Lower
    <2>2. IsFiniteSet(Lower(T, j)) /\ c <= n /\ c # n
      BY <2>1, FS_Subset DEF n
    <2>3. c \in Nat
      BY <2>2, FS_CardinalityType
    <2> HIDE DEF c
    <2>4. k \in 1..n
      BY <1>1, <2>2, <2>3
    <2>5. e[k] \in T /\ Cardinality(Lower(T, e[k])) = c
      <3>1. e[k] \in T /\ Cardinality(Lower(T, e[k])) = k - 1
        BY <1>5, <2>4
      <3> HIDE DEF Is
      <3>2. k - 1 = c
        BY <2>3
      <3> QED BY <3>1, <3>2
    <2> DEFINE x == e[k]
    <2>6. x \in T /\ Cardinality(Lower(T, x)) = c
      BY <2>5
    <2> HIDE DEF x
    <2>7. ~(x < j)
      BY <2>3, <2>6, RanksDiffer DEF c
    <2>8. ~(j < x)
      BY <2>3, <2>6, RanksDiffer DEF c
    <2>9. x = j
      BY <2>6, <2>7, <2>8
    <2> QED BY <2>4, <2>9 DEF x, c
  <1>8. ToSet(e) = T
    <2>1. ToSet(e) \subseteq T
      BY <1>5 DEF ToSet
    <2>2. ASSUME NEW j \in T PROVE j \in ToSet(e)
      <3>1. PICK k \in 1..n : e[k] = j
        BY <1>7
      <3> QED BY <1>5, <3>1 DEF ToSet
    <2> QED BY <2>1, <2>2
  <1> QED BY <1>1, <1>5, <1>6, <1>7, <1>8 DEF n
\* The line that begins after position a and ends before z.
IsLine(s, a, z) ==
  /\ a \in Nat /\ a <= Len(s) /\ z \in a + 1..Len(s) + 1
  /\ a = 0 \/ s[a] = "newline"
  /\ z = Len(s) + 1 \/ s[z] = "newline"
  /\ NewlinesTo(s, z - 1) = NewlinesTo(s, a)

\* Where the lines of s end.
EndsOf(s) == {i \in DOMAIN s : s[i] = "newline"} \cup {Len(s) + 1}

LEMMA LinesInIs ==
  ASSUME NEW s
  PROVE  LinesIn(s) = [k \in DOMAIN Ascending(EndsOf(s)) |->
           SubSeq(s, IF k = 1 THEN 1 ELSE Ascending(EndsOf(s))[k - 1] + 1,
                  Ascending(EndsOf(s))[k] - 1)]
  BY DEF LinesIn, InOrder, Ascending, EndsOf, Lower

LEMMA EndsFacts ==
  ASSUME NEW S, NEW s \in Seq(S)
  PROVE  /\ EndsOf(s) \in SUBSET Nat /\ IsFiniteSet(EndsOf(s))
         /\ Cardinality(EndsOf(s)) = NewlinesTo(s, Len(s)) + 1
         /\ \A i \in 1..Len(s) + 1 :
              Cardinality(Lower(EndsOf(s), i)) = NewlinesTo(s, i - 1)
  <1> DEFINE n == Len(s)
             N == {i \in 1..n : s[i] = "newline"}
  <1>1. n \in Nat /\ DOMAIN s = 1..n
    OBVIOUS
  <1> HIDE DEF n
  <1>2. EndsOf(s) = N \cup {n + 1}
    BY <1>1 DEF EndsOf, n
  <1>3. IsFiniteSet(N) /\ Cardinality(N) = NewlinesTo(s, n)
    <2>1. N \in SUBSET (1..n) /\ IsFiniteSet(1..n)
      BY <1>1, FS_Interval
    <2>2. Cardinality(N) = NewlinesTo(s, n)
      BY DEF NewlinesTo
    <2> HIDE DEF N
    <2> QED BY <2>1, <2>2, FS_Subset
  <1>4. N \in SUBSET Nat /\ n + 1 \notin N /\ n + 1 \in Nat
    BY <1>1
  <1>5. IsFiniteSet(EndsOf(s))
        /\ Cardinality(EndsOf(s)) = Cardinality(N) + 1
    <2> HIDE DEF N
    <2> QED BY <1>2, <1>3, <1>4, FS_AddElement
  <1>6. ASSUME NEW i \in 1..n + 1
        PROVE  Cardinality(Lower(EndsOf(s), i)) = NewlinesTo(s, i - 1)
    <2>1. Lower(EndsOf(s), i) = {j \in 1..i - 1 : s[j] = "newline"}
      BY <1>1, <1>2 DEF Lower
    <2> QED BY <2>1 DEF NewlinesTo
  <1> QED BY <1>2, <1>3, <1>4, <1>5, <1>6 DEF n

\* A line holds what is between two newlines that follow each other.
LEMMA LineBetween ==
  ASSUME NEW S, NEW s \in Seq(S), NEW a, NEW z, IsLine(s, a, z)
  PROVE  /\ NewlinesTo(s, a) + 1 \in DOMAIN LinesIn(s)
         /\ LinesIn(s)[NewlinesTo(s, a) + 1] = SubSeq(s, a + 1, z - 1)
  <1> DEFINE T == EndsOf(s)
             e == Ascending(T)
             k == NewlinesTo(s, a) + 1
             n == Len(s)
  <1>1. /\ a \in Nat /\ n \in Nat /\ a <= n /\ z \in a + 1..n + 1
        /\ DOMAIN s = 1..n /\ z \in 1..n + 1 /\ z - 1 \in Nat
    BY DEF IsLine
  <1>2. /\ T \in SUBSET Nat /\ IsFiniteSet(T)
        /\ \A i \in 1..n + 1 : Cardinality(Lower(T, i)) = NewlinesTo(s, i - 1)
    BY EndsFacts
  <1>3. z \in T
    BY <1>1 DEF IsLine, EndsOf
  <1>4. Cardinality(Lower(T, z)) = NewlinesTo(s, a)
    <2>1. NewlinesTo(s, z - 1) = NewlinesTo(s, a)
      BY DEF IsLine
    <2> QED BY <1>1, <1>2, <2>1
  <1>5. NewlinesTo(s, a) \in Nat
    BY <1>1, NewlinesCount
  <1>6. /\ \A j \in T : LET m == Cardinality(Lower(T, j)) + 1
                        IN  m \in DOMAIN e /\ e[m] = j
    <2> HIDE DEF T
    <2> QED BY <1>2, NumbersListed
  <1>7. k \in DOMAIN e /\ e[k] = z
    BY <1>3, <1>4, <1>6
  <1>8. a = 0 => k = 1
    BY NewlinesCount
  <1>9. a # 0 => k # 1 /\ e[k - 1] = a
    <2> SUFFICES ASSUME a # 0 PROVE k # 1 /\ e[k - 1] = a
      OBVIOUS
    <2>1. a \in T /\ s[a] = "newline" /\ a \in Nat \ {0} /\ a \in 1..n + 1
      BY <1>1 DEF IsLine, EndsOf
    <2>2. NewlinesTo(s, a) = NewlinesTo(s, a - 1) + 1
          /\ NewlinesTo(s, a - 1) \in Nat
      <3>1. a - 1 \in Nat
        BY <2>1
      <3> QED BY <2>1, <3>1, NewlinesCount
    <2>3. Cardinality(Lower(T, a)) = NewlinesTo(s, a - 1)
      BY <1>2, <2>1
    <2>4. Cardinality(Lower(T, a)) + 1 = k - 1 /\ k # 1
      BY <2>2, <2>3
    <2> QED BY <1>6, <2>1, <2>4
  <1>10. LinesIn(s) = [m \in DOMAIN e |->
           SubSeq(s, IF m = 1 THEN 1 ELSE e[m - 1] + 1, e[m] - 1)]
    BY LinesInIs
  <1> HIDE DEF e, T, k
  <1>11. /\ k \in DOMAIN LinesIn(s)
         /\ LinesIn(s)[k] = SubSeq(s, IF k = 1 THEN 1 ELSE e[k - 1] + 1,
                                   e[k] - 1)
    BY <1>7, <1>10
  <1>12. (IF k = 1 THEN 1 ELSE e[k - 1] + 1) = a + 1
    <2>1. CASE a = 0
      BY <1>8, <2>1
    <2>2. CASE a # 0
      BY <1>9, <2>2
    <2> QED BY <2>1, <2>2
  <1> QED BY <1>7, <1>11, <1>12 DEF k

LEMMA LinesCounted ==
  ASSUME NEW S, NEW s \in Seq(S)
  PROVE  DOMAIN LinesIn(s) = 1..NewlinesTo(s, Len(s)) + 1
  <1> DEFINE T == EndsOf(s)
             e == Ascending(T)
  <1>1. /\ T \in SUBSET Nat /\ IsFiniteSet(T)
        /\ Cardinality(T) = NewlinesTo(s, Len(s)) + 1
    BY EndsFacts
  <1>2. DOMAIN e = 1..Cardinality(T)
    BY DEF Ascending
  <1>3. DOMAIN LinesIn(s) = DOMAIN e
    BY LinesInIs
  <1> QED BY <1>1, <1>2, <1>3

\* Any number of newlines before the last position is the number of some line.
LEMMA LineExists ==
  ASSUME NEW S, NEW s \in Seq(S), s # <<>>,
         NEW m \in 0..NewlinesTo(s, Len(s) - 1)
  PROVE  \E a, z : IsLine(s, a, z) /\ a < Len(s) /\ NewlinesTo(s, a) = m
  <1> DEFINE N(i) == NewlinesTo(s, i)
             n == Len(s)
             A == {i \in 0..n - 1 : N(i) >= m}
  <1>1. n \in Nat \ {0} /\ n - 1 \in Nat /\ DOMAIN s = 1..n
    BY EmptySeq
  <1>2. /\ N(0) = 0 /\ \A i \in Nat : N(i) \in Nat
        /\ \A i \in Nat \ {0} : N(i) = N(i - 1)
                                  + IF s[i] = "newline" THEN 1 ELSE 0
    BY NewlinesCount
  <1>3. n - 1 \in A /\ A \in SUBSET Nat
    BY <1>1, <1>2
  <1>4. PICK a \in A : \A i \in A : a <= i
    <2> HIDE DEF A
    <2> QED BY <1>3, NatMin
  <1> HIDE DEF N, n
  <1>5. a \in 0..n - 1 /\ N(a) >= m /\ m \in Nat
    BY <1>1, <1>2 DEF N, n
  <1>6. a # 0 => N(a) = m /\ s[a] = "newline"
    <2> SUFFICES ASSUME a # 0 PROVE N(a) = m /\ s[a] = "newline"
      OBVIOUS
    <2>1. a \in Nat \ {0} /\ a - 1 \in 0..n - 1 /\ a - 1 \in Nat
          /\ ~(a <= a - 1)
      BY <1>1, <1>5
    <2>2. ~(N(a - 1) >= m)
      BY <1>4, <2>1
    <2>3. N(a) = N(a - 1) + (IF s[a] = "newline" THEN 1 ELSE 0)
          /\ N(a) \in Nat /\ N(a - 1) \in Nat
      BY <1>2, <2>1
    <2> QED BY <1>5, <2>2, <2>3
  <1>7. N(a) = m
    <2>1. a = 0 => N(a) = m
      BY <1>2, <1>5
    <2> QED BY <1>6, <2>1
  <1> DEFINE Z == {i \in a + 1..n + 1 : i = n + 1 \/ s[i] = "newline"}
  <1>8. n + 1 \in Z /\ Z \in SUBSET Nat
    BY <1>1, <1>5
  <1>9. PICK z \in Z : \A i \in Z : z <= i
    <2> HIDE DEF Z
    <2> QED BY <1>8, NatMin
  <1>10. z \in a + 1..n + 1 /\ (z = n + 1 \/ s[z] = "newline")
    OBVIOUS
  <1>11. \A j \in a + 1..z - 1 : s[j] # "newline"
    <2> SUFFICES ASSUME NEW j \in a + 1..z - 1, s[j] = "newline" PROVE FALSE
      OBVIOUS
    <2>1. j \in a + 1..n + 1 /\ ~(z <= j)
      BY <1>1, <1>5, <1>10
    <2> QED BY <1>9, <2>1
  <1>12. N(z - 1) = N(a)
    <2>1. a \in Nat /\ z - 1 \in Nat /\ a <= z - 1
      BY <1>1, <1>5, <1>10
    <2> HIDE DEF Z
    <2> QED BY <1>11, <2>1, NoNewline DEF N
  <1>13. IsLine(s, a, z)
    <2>1. a \in Nat /\ a <= n
      BY <1>1, <1>5
    <2> QED BY <1>6, <1>10, <1>12, <2>1 DEF IsLine, N, n
  <1>14. a < n
    BY <1>1, <1>5
  <1> QED BY <1>7, <1>13, <1>14 DEF N, n

\* A position whose count of newlines before it is that of a line is in it, or
\* ends it.
LEMMA LinePlaces ==
  ASSUME NEW S, NEW s \in Seq(S), NEW a, NEW z, IsLine(s, a, z),
         NEW i \in 1..Len(s)
  PROVE  /\ NewlinesTo(s, i - 1) = NewlinesTo(s, a) => a < i /\ i <= z
         /\ i \in a + 1..z - 1 => NewlinesTo(s, i - 1) = NewlinesTo(s, a)
  <1> DEFINE N(j) == NewlinesTo(s, j)
             n == Len(s)
  <1>1. /\ n \in Nat /\ a \in Nat /\ a <= n /\ z \in a + 1..n + 1
        /\ a = 0 \/ s[a] = "newline"
        /\ z = n + 1 \/ s[z] = "newline"
        /\ N(z - 1) = N(a)
    BY DEF IsLine
  <1>2. /\ \A j \in Nat : N(j) \in Nat
        /\ \A j \in Nat \ {0} : s[j] = "newline" => N(j) = N(j - 1) + 1
    <2>1. /\ \A j \in Nat : N(j) \in Nat
          /\ \A j \in Nat \ {0} : N(j) = N(j - 1)
                                    + IF s[j] = "newline" THEN 1 ELSE 0
      BY NewlinesCount
    <2> HIDE DEF N
    <2> QED BY <2>1
  <1>3. \A j, k \in Nat : j <= k => N(j) <= N(k)
    BY NewlinesGrow
  <1> HIDE DEF N
  <1>4. i \in Nat \ {0} /\ i - 1 \in Nat /\ i <= n
    BY <1>1
  <1> HIDE DEF n
  <1>5. ASSUME N(i - 1) = N(a) PROVE a < i
    <2> SUFFICES ASSUME i <= a PROVE FALSE
      BY <1>1, <1>4
    <2>1. a \in Nat \ {0} /\ s[a] = "newline" /\ a - 1 \in Nat
          /\ i - 1 <= a - 1
      BY <1>1, <1>4
    <2>2. N(i - 1) <= N(a - 1) /\ N(a) = N(a - 1) + 1
          /\ N(a - 1) \in Nat /\ N(i - 1) \in Nat
      BY <1>2, <1>3, <1>4, <2>1
    <2> QED BY <1>5, <2>2
  <1>6. ASSUME N(i - 1) = N(a) PROVE i <= z
    <2> SUFFICES ASSUME z < i PROVE FALSE
      BY <1>1, <1>4
    <2>1. z \in Nat \ {0} /\ s[z] = "newline" /\ z - 1 \in Nat /\ z <= i - 1
      BY <1>1, <1>4
    <2>2. N(z) <= N(i - 1) /\ N(z) = N(z - 1) + 1
          /\ N(z - 1) \in Nat /\ N(i - 1) \in Nat
      BY <1>2, <1>3, <1>4, <2>1
    <2> QED BY <1>1, <1>6, <2>2
  <1>7. ASSUME i \in a + 1..z - 1 PROVE N(i - 1) = N(a)
    <2>1. a <= i - 1 /\ i - 1 <= z - 1 /\ z - 1 \in Nat
      BY <1>1, <1>4, <1>7
    <2>2. N(a) <= N(i - 1) /\ N(i - 1) <= N(z - 1)
      BY <1>1, <1>3, <1>4, <2>1
    <2>3. N(a) \in Nat /\ N(i - 1) \in Nat
      BY <1>1, <1>2, <1>4
    <2> QED BY <1>1, <2>2, <2>3
  <1> QED BY <1>5, <1>6, <1>7 DEF N
-----------------------------------------------------------------------------
(* What is left of a text when some of its characters are taken out.        *)

Cells(s, K) == [i \in DOMAIN s |-> IF i \in K THEN <<s[i]>> ELSE <<>>]

\* P says how much is left of each beginning of s.
Leaves(s, K, r, P) ==
  /\ r \in Seq(Char) /\ P \in [0..Len(s) -> Nat]
  /\ P[0] = 0 /\ P[Len(s)] = Len(r)
  /\ \A i, j \in 0..Len(s) : i <= j => P[i] <= P[j]
  /\ \A i \in 1..Len(s) : IF i \in K THEN P[i] = P[i - 1] + 1 /\ r[P[i]] = s[i]
                                     ELSE P[i] = P[i - 1]

\* What is left is the kept characters, in order.
LEMMA CellsLeave ==
  ASSUME NEW s \in Seq(Char), NEW K
  PROVE  \E P : Leaves(s, K, FlattenSeq(Cells(s, K)), P)
  <1> DEFINE n == Len(s)
             c == Cells(s, K)
  <1>1. n \in Nat /\ DOMAIN s = 1..n /\ \A i \in 1..n : s[i] \in Char
    OBVIOUS
  <1> HIDE DEF n
  <1>2. /\ c \in Seq(Seq(Char)) /\ Len(c) = n
        /\ \A i \in 1..n : c[i] = IF i \in K THEN <<s[i]>> ELSE <<>>
    <2>1. /\ DOMAIN c = 1..n /\ c = [i \in DOMAIN c |-> c[i]]
          /\ \A i \in 1..n : c[i] = IF i \in K THEN <<s[i]>> ELSE <<>>
      BY <1>1 DEF Cells
    <2> HIDE DEF c
    <2>2. ASSUME NEW i \in 1..n PROVE c[i] \in Seq(Char)
      <3>1. s[i] \in Char
        BY <1>1
      <3>2. <<s[i]>> \in Seq(Char) /\ <<>> \in Seq(Char)
        BY <3>1
      <3> QED BY <2>1, <3>2
    <2> QED BY <1>1, <2>1, <2>2, IsASeq
  <1> HIDE DEF c
  <1>3. PICK F \in [0..n -> Seq(Char)] :
           /\ F[0] = <<>>
           /\ \A i \in 1..n : F[i] = F[i - 1] \o c[i]
           /\ FlattenSeq(c) = F[n]
    BY <1>2, Flattening
  <1> DEFINE P == [i \in 0..n |-> Len(F[i])]
  <1>4. P \in [0..n -> Nat] /\ P[0] = 0 /\ P[n] = Len(F[n])
    BY <1>1, <1>3
  <1>5. ASSUME NEW i \in 1..n
        PROVE  /\ i - 1 \in 0..n /\ F[i - 1] \in Seq(Char) /\ F[i] \in Seq(Char)
               /\ \A j \in 1..P[i - 1] : F[i][j] = F[i - 1][j]
               /\ IF i \in K THEN P[i] = P[i - 1] + 1 /\ F[i][P[i]] = s[i]
                             ELSE P[i] = P[i - 1]
    <2>1. i - 1 \in 0..n /\ i \in 0..n
      BY <1>1
    <2> DEFINE u == F[i - 1]
               v == F[i]
    <2>2. u \in Seq(Char) /\ v \in Seq(Char) /\ v = u \o c[i]
          /\ P[i - 1] = Len(u) /\ P[i] = Len(v)
      BY <1>3, <2>1
    <2> HIDE DEF u, v, P
    <2>3. CASE i \in K
      <3>1. v = u \o <<s[i]>>
        BY <1>2, <2>2, <2>3
      <3>2. /\ Len(v) = Len(u) + 1 /\ v[Len(v)] = s[i]
            /\ \A j \in 1..Len(u) : v[j] = u[j]
        BY <1>1, <2>2, <3>1
      <3> QED BY <2>1, <2>2, <2>3, <3>2 DEF u, v
    <2>4. CASE i \notin K
      <3>1. v = u \o <<>>
        BY <1>2, <2>2, <2>4
      <3>2. v = u
        BY <2>2, <3>1
      <3> QED BY <2>1, <2>2, <2>4, <3>2 DEF u, v
    <2> QED BY <2>3, <2>4
  <1> HIDE DEF P
  <1> DEFINE Good(i) == /\ \A j \in 0..i : P[j] <= P[i]
                        /\ \A j \in 1..i : j \in K => F[i][P[j]] = s[j]
             T == {i \in 0..n : Good(i)}
  <1>6. 0 \in T
    BY <1>1, <1>4
  <1>7. ASSUME NEW i \in 1..n, i - 1 \in T PROVE i \in T
    <2>1. /\ \A j \in 0..i - 1 : P[j] <= P[i - 1]
          /\ \A j \in 1..i - 1 : j \in K => F[i - 1][P[j]] = s[j]
      BY <1>7
    <2>2. /\ i \in 0..n /\ i - 1 \in 0..n /\ P[i - 1] \in Nat /\ P[i] \in Nat
          /\ P[i - 1] <= P[i]
      <3>1. i \in 0..n /\ i - 1 \in 0..n
        BY <1>1
      <3>2. P[i - 1] \in Nat /\ P[i] \in Nat
        BY <1>4, <3>1
      <3>3. P[i] = P[i - 1] + 1 \/ P[i] = P[i - 1]
        BY <1>5
      <3> QED BY <3>1, <3>2, <3>3
    <2>3. ASSUME NEW j \in 0..i PROVE P[j] <= P[i]
      <3>1. j = i \/ j \in 0..i - 1
        BY <1>1
      <3>2. P[j] \in Nat
        BY <1>1, <1>4
      <3> QED BY <2>1, <2>2, <3>1, <3>2
    <2>4. ASSUME NEW j \in 1..i, j \in K PROVE F[i][P[j]] = s[j]
      <3>1. CASE j = i
        BY <1>5, <2>4, <3>1
      <3>2. CASE j \in 1..i - 1
        <4>1. j \in 1..n /\ j - 1 \in 0..n /\ j \in 0..i - 1
          BY <1>1, <3>2
        <4>2. P[j] = P[j - 1] + 1 /\ P[j - 1] \in Nat /\ P[j] <= P[i - 1]
          BY <1>4, <1>5, <2>1, <2>4, <4>1
        <4>3. P[j] \in 1..P[i - 1]
          BY <2>2, <4>2
        <4> QED BY <1>5, <2>1, <2>4, <3>2, <4>3
      <3> QED BY <1>1, <3>1, <3>2
    <2> QED BY <2>2, <2>3, <2>4
  <1>8. \A i \in 0..n : i \in T
    <2> HIDE DEF T
    <2> QED BY <1>1, <1>6, <1>7, Upwards, Zenon
  <1>9. \A i \in 0..n : Good(i)
    BY <1>8
  <1> HIDE DEF T
  <1>10. n \in 0..n
    BY <1>1
  <1>11. \A i, j \in 0..n : i <= j => P[i] <= P[j]
    <2> SUFFICES ASSUME NEW i \in 0..n, NEW j \in 0..n, i <= j
                 PROVE  P[i] <= P[j]
      OBVIOUS
    <2>1. i \in 0..j
      OBVIOUS
    <2> QED BY <1>9, <2>1
  <1>12. \A i \in 1..n : IF i \in K
           THEN P[i] = P[i - 1] + 1 /\ F[n][P[i]] = s[i]
           ELSE P[i] = P[i - 1]
    BY <1>5, <1>9, <1>10
  <1>13. F[n] \in Seq(Char)
    BY <1>10
  <1>14. Leaves(s, K, F[n], P)
    BY <1>4, <1>11, <1>12, <1>13 DEF Leaves, n
  <1> QED BY <1>3, <1>14 DEF c

\* The positions of a text that reading it keeps.
Kept(s) == {i \in DOMAIN s :
              ~(s[i] = "return" /\ i < Len(s) /\ s[i + 1] = "newline")}

LEMMA ReturnsLeave ==
  ASSUME NEW s \in Seq(Char)
  PROVE  \E P : Leaves(s, Kept(s), WithoutReturns(s), P)
  <1>1. WithoutReturns(s) = FlattenSeq(Cells(s, Kept(s)))
    <2>1. Cells(s, Kept(s))
            = [i \in DOMAIN s |->
                 IF s[i] = "return" /\ i < Len(s) /\ s[i + 1] = "newline"
                 THEN <<>> ELSE <<s[i]>>]
      BY DEF Cells, Kept
    <2> QED BY <2>1 DEF WithoutReturns
  <1> QED BY <1>1, CellsLeave

LEMMA BareAppend ==
  ASSUME NEW s \in Seq(Char), NEW c \in Char
  PROVE  /\ WithoutAnyReturn(s) \in Seq(Char)
         /\ WithoutAnyReturn(Append(s, c))
              = IF c = "return" THEN WithoutAnyReturn(s)
                ELSE Append(WithoutAnyReturn(s), c)
  <1> DEFINE Cell(u, i) == IF u[i] = "return" THEN <<>> ELSE <<u[i]>>
             t == Append(s, c)
             n == Len(s)
             p == [i \in DOMAIN s |-> Cell(s, i)]
             q == [i \in DOMAIN t |-> Cell(t, i)]
             x == IF c = "return" THEN <<>> ELSE <<c>>
  <1>1. /\ n \in Nat /\ DOMAIN s = 1..n /\ \A i \in 1..n : s[i] \in Char
        /\ t \in Seq(Char) /\ DOMAIN t = 1..n + 1
        /\ t[n + 1] = c /\ \A i \in 1..n : t[i] = s[i]
    BY AppendFacts
  <1> HIDE DEF n, t
  <1>2. x \in Seq(Char)
    OBVIOUS
  <1>3. OneMore(Char, n, p, q, x)
    <2>1. /\ DOMAIN p = 1..n /\ p = [i \in DOMAIN p |-> p[i]]
          /\ DOMAIN q = 1..n + 1 /\ q = [i \in DOMAIN q |-> q[i]]
      BY <1>1
    <2>2. q[n + 1] = x
      BY <1>1
    <2>3. ASSUME NEW i \in 1..n PROVE p[i] \in Seq(Char) /\ q[i] = p[i]
      <3>1. p[i] = Cell(s, i) /\ q[i] = Cell(t, i)
        BY <1>1
      <3>2. s[i] \in Char /\ t[i] = s[i]
        BY <1>1
      <3> HIDE DEF p, q
      <3> QED BY <3>1, <3>2
    <2> HIDE DEF p, q, x
    <2> QED BY <2>1, <2>2, <2>3 DEF OneMore
  <1>4. FlattenSeq(q) = FlattenSeq(p) \o x /\ FlattenSeq(p) \in Seq(Char)
    <2> HIDE DEF p, q, x
    <2> QED BY <1>1, <1>2, <1>3, FlattenMore
  <1>5. WithoutAnyReturn(s) = FlattenSeq(p) /\ WithoutAnyReturn(t) = FlattenSeq(q)
    BY DEF WithoutAnyReturn
  <1> DEFINE w == FlattenSeq(p)
  <1>6. w \in Seq(Char) /\ WithoutAnyReturn(t) = w \o x
        /\ WithoutAnyReturn(s) = w
    BY <1>4, <1>5
  <1> HIDE DEF p, q, w
  <1>7. w \o <<>> = w /\ w \o <<c>> = Append(w, c)
    BY <1>6
  <1> QED BY <1>6, <1>7 DEF t
LEMMA OneMoreChar ==
  ASSUME NEW S, NEW s \in Seq(S), NEW i \in 0..Len(s), NEW j \in i + 1..Len(s)
  PROVE  /\ SubSeq(s, i + 1, j) = Append(SubSeq(s, i + 1, j - 1), s[j])
         /\ SubSeq(s, i + 1, j - 1) \in Seq(S) /\ s[j] \in S
  <1>1. /\ i + 1 \in 1..Len(s) /\ j \in 1..Len(s) /\ Len(s) \in Nat
        /\ i + 1 \in Int /\ j - 1 \in Int
        /\ \A k \in i + 1..j - 1 : s[k] \in S
    OBVIOUS
  <1>2. SubSeq(s, i + 1, j) = SubSeq(s, i + 1, j - 1) \o <<s[j]>>
    BY <1>1, SubSeqRecursiveSecond
  <1>3. SubSeq(s, i + 1, j - 1) \in Seq(S) /\ s[j] \in S
    BY <1>1, SubSeqProperties
  <1> QED BY <1>2, <1>3, AppendIsConcat

LEMMA NoChars ==
  ASSUME NEW S, NEW s \in Seq(S), NEW i \in Nat
  PROVE  SubSeq(s, i + 1, i) = <<>>
  BY SubSeqEmpty

LEMMA BareEmpty == WithoutAnyReturn(<<>>) = <<>>
  <1>1. [i \in DOMAIN <<>> |-> IF <<>>[i] = "return" THEN <<>> ELSE <<(<<>>[i])>>]
          = <<>>
    OBVIOUS
  <1>2. FlattenSeq(<<>>) = <<>>
    BY DEF FlattenSeq
  <1> QED BY <1>1, <1>2 DEF WithoutAnyReturn

\* Taking the returns out of two texts, or of one after the other, is the same.
LEMMA BareConcat ==
  ASSUME NEW u \in Seq(Char), NEW v \in Seq(Char)
  PROVE  WithoutAnyReturn(u \o v) = WithoutAnyReturn(u) \o WithoutAnyReturn(v)
  <1> DEFINE n == Len(v)
             B(s) == WithoutAnyReturn(s)
             upTo(j) == SubSeq(v, 1, j)
             T == {j \in 0..n : B(u \o upTo(j)) = B(u) \o B(upTo(j))}
  <1>1. n \in Nat /\ v = upTo(n)
    BY SubSeqFull
  <1>2. B(u) \in Seq(Char)
    <2>1. "x" \in Char
      BY DEF Char
    <2> QED BY <2>1, BareAppend
  <1>3. 0 \in T
    <2>1. upTo(0) = <<>>
      BY SubSeqEmpty
    <2>2. u \o <<>> = u /\ B(u) \o <<>> = B(u)
      BY <1>2
    <2>3. B(<<>>) = <<>>
      BY BareEmpty
    <2>4. 0 \in 0..n
      BY <1>1
    <2> HIDE DEF B, upTo
    <2> QED BY <2>1, <2>2, <2>3, <2>4
  <1>4. ASSUME NEW j \in 1..n, j - 1 \in T PROVE j \in T
    <2> DEFINE a == upTo(j - 1)
               c == v[j]
    <2>1. upTo(j) = Append(a, c) /\ a \in Seq(Char) /\ c \in Char
      <3>1. 0 \in 0..Len(v) /\ j \in 0 + 1..Len(v) /\ 0 + 1 = 1
        BY <1>1
      <3> QED BY <3>1, OneMoreChar
    <2>2. B(u \o a) = B(u) \o B(a)
      BY <1>4
    <2> HIDE DEF upTo, n
    <2> HIDE DEF a, c
    <2>3. u \o Append(a, c) = Append(u \o a, c) /\ u \o a \in Seq(Char)
      BY <2>1
    <2>4. /\ B(a) \in Seq(Char) /\ B(u \o a) \in Seq(Char)
          /\ B(Append(a, c)) = IF c = "return" THEN B(a) ELSE Append(B(a), c)
          /\ B(Append(u \o a, c)) = IF c = "return" THEN B(u \o a)
                                    ELSE Append(B(u \o a), c)
      BY <2>1, <2>3, BareAppend
    <2> HIDE DEF B
    <2>5. B(u) \o Append(B(a), c) = Append(B(u) \o B(a), c)
      BY <1>2, <2>1, <2>4
    <2>6. B(u \o upTo(j)) = B(u) \o B(upTo(j))
      BY <2>1, <2>2, <2>3, <2>4, <2>5
    <2> QED BY <1>1, <2>6
  <1>5. \A j \in 0..n : j \in T
    <2> HIDE DEF T, n
    <2> QED BY <1>1, <1>3, <1>4, Upwards, Zenon
  <1>6. n \in 0..n
    BY <1>1
  <1>7. B(u \o upTo(n)) = B(u) \o B(upTo(n))
    <2> HIDE DEF upTo, B
    <2> QED BY <1>5, <1>6
  <1> QED BY <1>1, <1>7

LEMMA BareSet ==
  ASSUME NEW s \in Seq(Char), NEW c, c # "return"
  PROVE  c \in ToSet(WithoutAnyReturn(s)) <=> c \in ToSet(s)
  <1> DEFINE n == Len(s)
             B(u) == WithoutAnyReturn(u)
             upTo(j) == SubSeq(s, 1, j)
             T == {j \in 0..n : c \in ToSet(B(upTo(j))) <=> c \in ToSet(upTo(j))}
  <1>1. n \in Nat /\ s = upTo(n)
    BY SubSeqFull
  <1>2. \A u \in Seq(Char), d \in Char :
          ToSet(Append(u, d)) = ToSet(u) \cup {d}
    <2> SUFFICES ASSUME NEW u \in Seq(Char), NEW d \in Char
                 PROVE  ToSet(Append(u, d)) = ToSet(u) \cup {d}
      OBVIOUS
    <2>1. /\ DOMAIN Append(u, d) = 1..Len(u) + 1 /\ DOMAIN u = 1..Len(u)
          /\ Append(u, d)[Len(u) + 1] = d /\ Len(u) \in Nat
          /\ \A i \in 1..Len(u) : Append(u, d)[i] = u[i]
      BY AppendFacts
    <2>2. \A i : i \in 1..Len(u) + 1 <=> i \in 1..Len(u) \/ i = Len(u) + 1
      BY <2>1
    <2> QED BY <2>1, <2>2 DEF ToSet
  <1>3. 0 \in T
    <2>1. upTo(0) = <<>>
      BY SubSeqEmpty
    <2>2. B(<<>>) = <<>>
      BY BareEmpty
    <2>3. 0 \in 0..n
      BY <1>1
    <2> HIDE DEF B, upTo
    <2> QED BY <2>1, <2>2, <2>3
  <1>4. ASSUME NEW j \in 1..n, j - 1 \in T PROVE j \in T
    <2> DEFINE a == upTo(j - 1)
               d == s[j]
    <2>1. upTo(j) = Append(a, d) /\ a \in Seq(Char) /\ d \in Char
      <3>1. 0 \in 0..Len(s) /\ j \in 0 + 1..Len(s) /\ 0 + 1 = 1
        BY <1>1
      <3> QED BY <3>1, OneMoreChar
    <2>2. c \in ToSet(B(a)) <=> c \in ToSet(a)
      BY <1>4
    <2> HIDE DEF upTo, n
    <2> HIDE DEF a, d
    <2>3. /\ B(a) \in Seq(Char)
          /\ B(Append(a, d)) = IF d = "return" THEN B(a) ELSE Append(B(a), d)
      BY <2>1, BareAppend
    <2> HIDE DEF B
    <2>4. c \in ToSet(B(Append(a, d))) <=> c \in ToSet(Append(a, d))
      BY <1>2, <2>1, <2>2, <2>3
    <2>5. c \in ToSet(B(upTo(j))) <=> c \in ToSet(upTo(j))
      BY <2>1, <2>4
    <2>6. j \in 0..n
      BY <1>1
    <2> HIDE DEF upTo
    <2> QED BY <2>5, <2>6
  <1>5. \A j \in 0..n : j \in T
    <2> HIDE DEF T, n
    <2> QED BY <1>1, <1>3, <1>4, Upwards, Zenon
  <1>6. n \in 0..n
    BY <1>1
  <1>7. c \in ToSet(B(upTo(n))) <=> c \in ToSet(upTo(n))
    <2> HIDE DEF upTo, B
    <2> QED BY <1>5, <1>6
  <1> QED BY <1>1, <1>7

LEMMA LeavesGrow ==
  ASSUME NEW s \in Seq(Char), NEW K, NEW r, NEW P, Leaves(s, K, r, P),
         NEW i \in 0..Len(s), NEW k \in i..Len(s)
  PROVE  /\ P[i] \in Nat /\ P[k] \in Nat /\ Len(r) \in Nat
         /\ P[i] <= P[k] /\ P[k] <= Len(r)
  <1> DEFINE n == Len(s)
  <1>1. n \in Nat /\ k \in 0..n /\ n \in 0..n /\ i \in 0..n /\ i <= k /\ k <= n
    OBVIOUS
  <1> HIDE DEF n
  <1>2. /\ r \in Seq(Char) /\ P \in [0..n -> Nat] /\ P[n] = Len(r)
        /\ \A a, b \in 0..n : a <= b => P[a] <= P[b]
    BY DEF Leaves, n
  <1>3. P[i] <= P[k] /\ P[k] <= P[n]
    BY <1>1, <1>2
  <1>4. P[i] \in Nat /\ P[k] \in Nat
    BY <1>1, <1>2
  <1> QED BY <1>2, <1>3, <1>4

\* Between any two positions the text that is read differs from the file only
\* by returns.
LEMMA BareAlike ==
  ASSUME NEW s \in Seq(Char), NEW r, NEW P, Leaves(s, Kept(s), r, P),
         NEW i \in 0..Len(s), NEW k \in i..Len(s)
  PROVE  /\ P[i] <= P[k] /\ P[k] <= Len(r)
         /\ WithoutAnyReturn(SubSeq(r, P[i] + 1, P[k]))
              = WithoutAnyReturn(SubSeq(s, i + 1, k))
  <1> DEFINE n == Len(s)
             m == k - i
             B(u) == WithoutAnyReturn(u)
             of(j) == SubSeq(s, i + 1, j)
             left(j) == SubSeq(r, P[i] + 1, P[j])
             T == {j \in 0..m : B(left(i + j)) = B(of(i + j))}
  <1>1. /\ n \in Nat /\ m \in Nat /\ i + m = k /\ i \in Nat
        /\ r \in Seq(Char) /\ P \in [0..n -> Nat] /\ P[n] = Len(r)
        /\ \A a, b \in 0..n : a <= b => P[a] <= P[b]
        /\ \A a \in 1..n : IF a \in Kept(s)
                           THEN P[a] = P[a - 1] + 1 /\ r[P[a]] = s[a]
                           ELSE P[a] = P[a - 1]
    BY DEF Leaves
  <1>2. P[i] <= P[k] /\ P[k] <= Len(r) /\ P[i] \in Nat /\ k \in 0..n
        /\ Len(r) \in Nat
    <2>1. k \in 0..n
      OBVIOUS
    <2> QED BY <2>1, LeavesGrow
  <1>3. 0 \in T
    <2>1. of(i) = <<>> /\ left(i) = <<>>
      BY <1>1, <1>2, NoChars
    <2>2. 0 \in 0..m /\ i + 0 = i
      BY <1>1
    <2> HIDE DEF B, of, left
    <2> QED BY <2>1, <2>2
  <1>4. ASSUME NEW j \in 1..m, j - 1 \in T PROVE j \in T
    <2> DEFINE a == i + j
               u == of(a - 1)
               v == left(a - 1)
    <2>1. /\ a \in i + 1..n /\ a \in 1..n /\ a - 1 = i + (j - 1)
          /\ a - 1 \in 0..n /\ i <= a - 1 /\ a \in 0..n
      BY <1>1
    <2>2. B(v) = B(u)
      BY <1>4, <2>1
    <2>3. of(a) = Append(u, s[a]) /\ u \in Seq(Char) /\ s[a] \in Char
      BY <2>1, OneMoreChar
    <2>4. P[i] <= P[a - 1] /\ P[a - 1] \in Nat /\ P[a] \in Nat
          /\ P[a] <= Len(r)
      <3>1. a - 1 \in i..Len(s) /\ a \in i..Len(s)
        BY <2>1
      <3> HIDE DEF a
      <3>2. P[i] <= P[a - 1] /\ P[a - 1] \in Nat
        BY <3>1, LeavesGrow
      <3>3. P[a] \in Nat /\ P[a] <= Len(r)
        BY <3>1, LeavesGrow
      <3> QED BY <3>2, <3>3
    <2>5. B(left(a)) = B(of(a))
      <3>1. CASE a \in Kept(s)
        <4>1. P[a] = P[a - 1] + 1 /\ r[P[a]] = s[a]
          BY <1>1, <2>1, <3>1
        <4>2. P[i] \in 0..Len(r) /\ P[a] \in P[i] + 1..Len(r)
              /\ P[a] - 1 = P[a - 1]
          <5> DEFINE x == P[i]
                     y == P[a]
                     w == P[a - 1]
          <5>1. x \in Nat /\ w \in Nat /\ y = w + 1 /\ x <= w
                /\ y <= Len(r) /\ Len(r) \in Nat
            BY <1>2, <2>4, <4>1
          <5> HIDE DEF x, y, w
          <5>2. x \in 0..Len(r) /\ y \in x + 1..Len(r) /\ y - 1 = w
            BY <5>1
          <5> QED BY <5>2 DEF x, y, w
        <4>3. left(a) = Append(v, s[a]) /\ v \in Seq(Char)
          <5> DEFINE x == P[i]
                     y == P[a]
          <5>1. r \in Seq(Char) /\ x \in 0..Len(r) /\ y \in x + 1..Len(r)
            BY <1>1, <4>2
          <5> HIDE DEF x, y
          <5>2. /\ SubSeq(r, x + 1, y) = Append(SubSeq(r, x + 1, y - 1), r[y])
                /\ SubSeq(r, x + 1, y - 1) \in Seq(Char)
            BY <5>1, OneMoreChar
          <5> QED BY <4>1, <4>2, <5>2 DEF x, y
        <4> HIDE DEF u, v, of, left, a
        <4>4. /\ B(Append(u, s[a])) = IF s[a] = "return" THEN B(u)
                                      ELSE Append(B(u), s[a])
              /\ B(Append(v, s[a])) = IF s[a] = "return" THEN B(v)
                                      ELSE Append(B(v), s[a])
          BY <2>3, <4>3, BareAppend
        <4> HIDE DEF B
        <4> QED BY <2>2, <2>3, <4>3, <4>4
      <3>2. CASE a \notin Kept(s)
        <4>1. left(a) = v
          <5>1. P[a] = P[a - 1]
            BY <1>1, <2>1, <3>2
          <5> QED BY <5>1
        <4>2. s[a] = "return"
          <5>1. a \in DOMAIN s
            BY <2>1
          <5> QED BY <3>2, <5>1 DEF Kept
        <4> HIDE DEF u, v, of, left, a
        <4>3. B(Append(u, s[a])) = B(u)
          BY <2>3, <4>2, BareAppend
        <4> HIDE DEF B
        <4> QED BY <2>2, <2>3, <4>1, <4>3
      <3> QED BY <3>1, <3>2
    <2> HIDE DEF B, of, left
    <2> QED BY <1>1, <2>5
  <1>5. \A j \in 0..m : j \in T
    <2> HIDE DEF T, m
    <2> QED BY <1>1, <1>3, <1>4, Upwards, Zenon
  <1>6. m \in 0..m
    BY <1>1
  <1>7. B(left(k)) = B(of(k))
    <2> HIDE DEF left, of, B
    <2> QED BY <1>1, <1>5, <1>6
  <1> QED BY <1>2, <1>7

\* They have the same newlines.
LEMMA NewlinesAlike ==
  ASSUME NEW s \in Seq(Char), NEW r, NEW P, Leaves(s, Kept(s), r, P),
         NEW i \in 0..Len(s)
  PROVE  NewlinesTo(r, P[i]) = NewlinesTo(s, i)
  <1> DEFINE n == Len(s)
             T == {j \in 0..n : NewlinesTo(r, P[j]) = NewlinesTo(s, j)}
  <1>1. /\ n \in Nat /\ P \in [0..n -> Nat] /\ P[0] = 0
        /\ \A a \in 1..n : IF a \in Kept(s)
                           THEN P[a] = P[a - 1] + 1 /\ r[P[a]] = s[a]
                           ELSE P[a] = P[a - 1]
    BY DEF Leaves
  <1>2. 0 \in T
    <2>1. NewlinesTo(r, 0) = 0 /\ NewlinesTo(s, 0) = 0
      BY NewlinesCount
    <2> QED BY <1>1, <2>1
  <1>3. ASSUME NEW j \in 1..n, j - 1 \in T PROVE j \in T
    <2>1. /\ j \in Nat \ {0} /\ j - 1 \in 0..n /\ j \in DOMAIN s
          /\ P[j - 1] \in Nat /\ j \in 0..n
      BY <1>1
    <2>2. /\ NewlinesTo(s, j) = NewlinesTo(s, j - 1)
                                  + IF s[j] = "newline" THEN 1 ELSE 0
          /\ NewlinesTo(s, j - 1) \in Nat
      <3>1. j - 1 \in Nat
        OBVIOUS
      <3> QED BY <2>1, <3>1, NewlinesCount
    <2>3. NewlinesTo(r, P[j - 1]) = NewlinesTo(s, j - 1)
      BY <1>3
    <2>4. CASE j \in Kept(s)
      <3>1. P[j] = P[j - 1] + 1 /\ r[P[j]] = s[j]
        BY <1>1, <2>4
      <3>2. P[j] \in Nat \ {0} /\ P[j] - 1 = P[j - 1]
        BY <2>1, <3>1
      <3>3. NewlinesTo(r, P[j]) = NewlinesTo(r, P[j] - 1)
                                    + IF r[P[j]] = "newline" THEN 1 ELSE 0
        BY <3>2, NewlinesCount
      <3> QED BY <2>1, <2>2, <2>3, <3>1, <3>2, <3>3
    <2>5. CASE j \notin Kept(s)
      <3>1. P[j] = P[j - 1] /\ s[j] = "return"
        BY <1>1, <2>1, <2>5 DEF Kept
      <3>2. NewlinesTo(s, j) = NewlinesTo(s, j - 1)
        BY <2>2, <3>1
      <3> QED BY <2>1, <2>3, <3>1, <3>2
    <2> QED BY <2>4, <2>5
  <1>4. \A j \in 0..n : j \in T
    <2> HIDE DEF T, n
    <2> QED BY <1>1, <1>2, <1>3, Upwards, Zenon
  <1> QED BY <1>4
\* The text that is cut into lines: it ends after the last position, or before
\* it when that is a newline.
Cuts(s, P, r, b) ==
  LET n == Len(s)
      end == IF s[n] = "newline" THEN P[n - 1] ELSE P[n]
  IN  /\ b \in Seq(Char) /\ Len(b) = end
      /\ \A j \in 1..end : b[j] = r[j]

LEMMA BodyCuts ==
  ASSUME NEW s \in Seq(Char), s # <<>>, NEW P, NEW r, Leaves(s, Kept(s), r, P)
  PROVE  Cuts(s, P, r, Body(r))
  <1> DEFINE n == Len(s)
  <1>1. n \in Nat \ {0} /\ n \in DOMAIN s /\ n \in 1..n /\ n - 1 \in 0..n
        /\ n \in n - 1..n
    BY EmptySeq
  <1>2. n \in Kept(s)
    BY <1>1 DEF Kept
  <1>3. /\ r \in Seq(Char) /\ P[n] = Len(r) /\ P[n] = P[n - 1] + 1
        /\ r[P[n]] = s[n]
    BY <1>1, <1>2 DEF Leaves
  <1>4. P[n - 1] \in Nat /\ Len(r) \in Nat
    BY <1>1, LeavesGrow
  <1> HIDE DEF n
  <1>5. r # <<>> /\ Last(r) = s[n]
    <2>1. Len(r) # 0 /\ r[Len(r)] = s[n]
      BY <1>3, <1>4
    <2>2. r # <<>>
      BY <2>1, EmptySeq
    <2> QED BY <2>1, <2>2 DEF Last
  <1>6. CASE s[n] = "newline"
    <2>1. Body(r) = SubSeq(r, 1, P[n - 1])
      BY <1>3, <1>4, <1>5, <1>6 DEF Body, Front
    <2> DEFINE m == P[n - 1]
               b == SubSeq(r, 1, m)
    <2>2. m \in Nat /\ m <= Len(r) /\ Len(r) \in Nat
      BY <1>3, <1>4
    <2> HIDE DEF m
    <2>3. \A j \in 1..m : r[j] \in Char
      <3>1. r \in Seq(Char)
        BY <1>3
      <3>2. \A j \in 1..Len(r) : r[j] \in Char
        BY <3>1
      <3> QED BY <2>2, <3>2
    <2>4. b \in Seq(Char) /\ Len(b) = m /\ \A j \in 1..m : b[j] = r[j]
      BY <2>2, <2>3, SubSeqProperties
    <2> QED BY <1>6, <2>1, <2>4 DEF Cuts, m, n
  <1>7. CASE s[n] # "newline"
    <2>1. Body(r) = r
      BY <1>5, <1>7 DEF Body
    <2> QED BY <1>3, <1>7, <2>1 DEF Cuts, n
  <1> QED BY <1>6, <1>7

LEMMA SameBeginning ==
  ASSUME NEW b \in Seq(Char), NEW r, \A j \in 1..Len(b) : b[j] = r[j]
  PROVE  /\ \A j \in 0..Len(b) : NewlinesTo(b, j) = NewlinesTo(r, j)
         /\ \A i \in 1..Len(b) + 1, j \in 0..Len(b) :
              SubSeq(b, i, j) = SubSeq(r, i, j)
  <1>1. ASSUME NEW j \in 0..Len(b) PROVE NewlinesTo(b, j) = NewlinesTo(r, j)
    <2>1. \A i \in 1..j : b[i] = r[i]
      OBVIOUS
    <2>2. {i \in 1..j : b[i] = "newline"} = {i \in 1..j : r[i] = "newline"}
      BY <2>1
    <2> QED BY <2>2 DEF NewlinesTo
  <1>2. ASSUME NEW i \in 1..Len(b) + 1, NEW j \in 0..Len(b)
        PROVE  SubSeq(b, i, j) = SubSeq(r, i, j)
    <2>1. \A k \in i..j : b[k] = r[k] /\ b[k] \in Char /\ r[k] \in Char
      OBVIOUS
    <2>2. i \in Int /\ j \in Int
      OBVIOUS
    <2> DEFINE u == SubSeq(b, i, j)
               v == SubSeq(r, i, j)
    <2>3. /\ u \in Seq(Char) /\ Len(u) = IF i <= j THEN j - i + 1 ELSE 0
          /\ \A k \in 1..j - i + 1 : u[k] = b[i + k - 1]
      BY <2>1, <2>2, SubSeqProperties
    <2>4. /\ v \in Seq(Char) /\ Len(v) = IF i <= j THEN j - i + 1 ELSE 0
          /\ \A k \in 1..j - i + 1 : v[k] = r[i + k - 1]
      BY <2>1, <2>2, SubSeqProperties
    <2> HIDE DEF u, v
    <2>5. \A k \in 1..Len(u) : k \in 1..j - i + 1 /\ i + k - 1 \in i..j
      BY <2>2, <2>3
    <2>6. \A k \in 1..Len(u) : u[k] = v[k]
      BY <2>1, <2>3, <2>4, <2>5
    <2>7. Len(u) = Len(v)
      BY <2>3, <2>4
    <2>8. u = v
      BY <2>3, <2>4, <2>6, <2>7
    <2> QED BY <2>8 DEF u, v
  <1> QED BY <1>1, <1>2

\* The lines of the file, in the text that is cut.
CutsLine(s, P, r, b, a, z) ==
  /\ IsLine(b, P[a], P[z - 1] + 1)
  /\ NewlinesTo(b, P[a]) = NewlinesTo(s, a)
  /\ SubSeq(b, P[a] + 1, P[z - 1]) = SubSeq(r, P[a] + 1, P[z - 1])

\* A line of a text keeps its place and its beginning when returns are taken
\* out of the text and the newline at its end is dropped.
LEMMA LineIsCut ==
  ASSUME NEW s \in Seq(Char), s # <<>>, NEW P, NEW r, Leaves(s, Kept(s), r, P),
         NEW b, Cuts(s, P, r, b), NEW a, NEW z, IsLine(s, a, z), a < Len(s)
  PROVE  CutsLine(s, P, r, b, a, z)
  <1> DEFINE n == Len(s)
             x == P[a]
             y == P[z - 1]
             end == Len(b)
  <1>1. /\ n \in Nat \ {0} /\ a \in 0..n - 1 /\ z \in a + 1..n + 1
        /\ a \in 0..n /\ z - 1 \in a..n /\ z - 1 \in 0..n
        /\ n - 1 \in 0..n /\ n \in n - 1..n /\ n - 1 \in a..n
    BY DEF IsLine
  <1>2. /\ a = 0 \/ s[a] = "newline"
        /\ z = n + 1 \/ s[z] = "newline"
        /\ NewlinesTo(s, z - 1) = NewlinesTo(s, a)
    BY DEF IsLine
  <1>3. /\ P[0] = 0 /\ r \in Seq(Char)
        /\ \A i \in 1..n : IF i \in Kept(s)
                           THEN P[i] = P[i - 1] + 1 /\ r[P[i]] = s[i]
                           ELSE P[i] = P[i - 1]
    BY DEF Leaves
  <1>4. /\ b \in Seq(Char) /\ \A j \in 1..end : b[j] = r[j]
        /\ end = IF s[n] = "newline" THEN P[n - 1] ELSE P[n]
    BY DEF Cuts
  <1>5. x \in Nat /\ y \in Nat /\ x <= y
    BY <1>1, LeavesGrow
  <1>6. P[n - 1] \in Nat /\ P[n] \in Nat /\ P[n - 1] <= P[n]
    BY <1>1, LeavesGrow
  <1>7. x <= P[n - 1]
    BY <1>1, LeavesGrow
  <1> HIDE DEF n, end
  <1>8. end \in Nat /\ P[n - 1] <= end
    BY <1>4, <1>6
  <1>9. z <= n => z \in 1..n /\ z \in DOMAIN s /\ s[z] = "newline"
                  /\ P[z] = y + 1 /\ r[P[z]] = "newline"
    <2> SUFFICES ASSUME z <= n
                 PROVE  /\ z \in 1..n /\ z \in DOMAIN s /\ s[z] = "newline"
                        /\ P[z] = y + 1 /\ r[P[z]] = "newline"
      OBVIOUS
    <2>1. z \in 1..n /\ s[z] = "newline"
      BY <1>1, <1>2
    <2>2. z \in DOMAIN s
      BY <2>1 DEF n
    <2>3. z \in Kept(s)
      BY <2>1, <2>2 DEF Kept
    <2> QED BY <1>3, <2>1, <2>2, <2>3
  <1>10. z < n => P[z] <= P[n - 1]
    <2> SUFFICES ASSUME z < n PROVE P[z] <= P[n - 1]
      OBVIOUS
    <2>1. z \in 0..n /\ n - 1 \in z..n
      BY <1>1
    <2> QED BY <2>1, LeavesGrow DEF n
  <1>11. z = n + 1 => s[n] # "newline" /\ end = y
    <2> SUFFICES ASSUME z = n + 1 PROVE s[n] # "newline" /\ end = y
      OBVIOUS
    <2>1. a \in Nat /\ n \in Nat /\ a <= n /\ n \in a + 1..n /\ z - 1 = n
      BY <1>1
    <2>2. s[n] # "newline"
      BY <1>2, <2>1, NoNewline
    <2> QED BY <1>4, <2>1, <2>2
  <1>12. z = n => end = y
    BY <1>1, <1>4, <1>9
  <1>13. y <= end
    <2>1. CASE z = n + 1
      BY <1>5, <1>11, <2>1
    <2>2. CASE z = n
      BY <1>5, <1>12, <2>2
    <2>3. CASE z < n
      <3>1. P[z] = y + 1 /\ P[z] <= P[n - 1]
        BY <1>1, <1>9, <1>10, <2>3
      <3> QED BY <1>5, <1>6, <1>8, <3>1
    <2>4. z = n + 1 \/ z = n \/ z < n
      BY <1>1
    <2> QED BY <2>1, <2>2, <2>3, <2>4
  <1>14. x = 0 \/ b[x] = "newline"
    <2>1. CASE a = 0
      BY <1>3, <2>1
    <2>2. CASE a # 0
      <3>1. a \in 1..n /\ s[a] = "newline" /\ a - 1 \in 0..n /\ a \in a - 1..n
        BY <1>1, <1>2, <2>2
      <3>2. a \in DOMAIN s
        BY <3>1 DEF n
      <3>3. a \in Kept(s)
        BY <3>1, <3>2 DEF Kept
      <3>4. x = P[a - 1] + 1 /\ r[x] = "newline"
        BY <1>3, <3>1, <3>3
      <3>5. P[a - 1] \in Nat
        BY <3>1, LeavesGrow DEF n
      <3>6. x \in 1..end
        BY <1>5, <1>6, <1>7, <1>8, <3>4, <3>5
      <3> QED BY <1>4, <3>4, <3>6
    <2> QED BY <2>1, <2>2
  <1>15. y + 1 = end + 1 \/ b[y + 1] = "newline"
    <2>1. CASE z >= n
      <3>1. z = n + 1 \/ z = n
        BY <1>1, <2>1
      <3> QED BY <1>11, <1>12, <3>1
    <2>2. CASE z < n
      <3>1. P[z] = y + 1 /\ P[z] <= P[n - 1] /\ r[P[z]] = "newline"
        BY <1>1, <1>9, <1>10, <2>2
      <3>2. y + 1 \in 1..end
        BY <1>5, <1>6, <1>8, <3>1
      <3> QED BY <1>4, <3>1, <3>2
    <2> QED BY <1>1, <2>1, <2>2
  <1>16. /\ x \in 0..end /\ y \in 0..end /\ x + 1 \in 1..end + 1
         /\ y + 1 \in x + 1..end + 1
    <2>1. x <= end
      BY <1>5, <1>6, <1>7, <1>8
    <2> QED BY <1>5, <1>8, <1>13, <2>1
  <1>17. /\ NewlinesTo(b, x) = NewlinesTo(r, x)
         /\ NewlinesTo(b, y) = NewlinesTo(r, y)
         /\ SubSeq(b, x + 1, y) = SubSeq(r, x + 1, y)
    BY <1>4, <1>16, SameBeginning DEF end
  <1>18. NewlinesTo(r, x) = NewlinesTo(s, a)
         /\ NewlinesTo(r, y) = NewlinesTo(s, z - 1)
    BY <1>1, NewlinesAlike DEF n
  <1> HIDE DEF x, y
  <1>19. (y + 1) - 1 = y /\ x <= end
    BY <1>5, <1>16
  <1>20. IsLine(b, x, y + 1)
    BY <1>2, <1>5, <1>14, <1>15, <1>16, <1>17, <1>18, <1>19 DEF IsLine, end
  <1> QED BY <1>17, <1>18, <1>20 DEF x, y, CutsLine

\* The lines that read shows are those of the file, without returns.
LEMMA TextLine ==
  ASSUME NEW s \in Seq(Char), s # <<>>, NEW a, NEW z, IsLine(s, a, z),
         a < Len(s), NEW k, k = NewlinesTo(s, a) + 1
  PROVE  /\ k \in DOMAIN SplitLines(s) /\ SplitLines(s)[k] \in Seq(Char)
         /\ WithoutAnyReturn(SplitLines(s)[k])
              = WithoutAnyReturn(SubSeq(s, a + 1, z - 1))
  <1> DEFINE r == WithoutReturns(s)
             b == Body(r)
  <1>1. PICK P : Leaves(s, Kept(s), r, P)
    BY ReturnsLeave
  <1>2. SplitLines(s) = LinesIn(b)
    BY DEF SplitLines
  <1> HIDE DEF r
  <1>3. Cuts(s, P, r, b)
    BY <1>1, BodyCuts
  <1>4. b \in Seq(Char) /\ r \in Seq(Char)
    BY <1>1, <1>3 DEF Cuts, Leaves
  <1> HIDE DEF b
  <1> DEFINE x == P[a]
             y == P[z - 1]
  <1>5. /\ IsLine(b, x, y + 1)
        /\ NewlinesTo(b, x) = NewlinesTo(s, a)
        /\ SubSeq(b, x + 1, y) = SubSeq(r, x + 1, y)
    <2> HIDE DEF x, y
    <2>1. CutsLine(s, P, r, b, a, z)
      BY <1>1, <1>3, LineIsCut
    <2> QED BY <2>1 DEF x, y, CutsLine
  <1>6. a \in 0..Len(s) /\ z - 1 \in a..Len(s)
    BY DEF IsLine
  <1>7. x \in Nat /\ y \in Nat /\ y <= Len(r)
        /\ WithoutAnyReturn(SubSeq(r, x + 1, y))
             = WithoutAnyReturn(SubSeq(s, a + 1, z - 1))
    BY <1>1, <1>6, BareAlike, LeavesGrow
  <1> HIDE DEF x, y
  <1>8. (y + 1) - 1 = y
    BY <1>7
  <1>9. /\ k \in DOMAIN LinesIn(b)
        /\ LinesIn(b)[k] = SubSeq(b, x + 1, y)
    BY <1>4, <1>5, <1>8, LineBetween
  <1>10. SubSeq(b, x + 1, y) \in Seq(Char)
    <2>1. y <= Len(b)
      BY <1>5, <1>7 DEF IsLine
    <2>2. \A i \in x + 1..y : b[i] \in Char
      BY <1>4, <1>7, <2>1
    <2>3. x + 1 \in Int /\ y \in Int
      BY <1>7
    <2> QED BY <2>2, <2>3, SubSeqProperties
  <1> QED BY <1>2, <1>5, <1>7, <1>9, <1>10

\* The lines that read shows, by the newlines of the text as it is stored.
LEMMA TextLines ==
  ASSUME NEW s \in Seq(Char), s # <<>>
  PROVE  DOMAIN SplitLines(s) = 1..NewlinesTo(s, Len(s) - 1) + 1
  <1> DEFINE r == WithoutReturns(s)
             b == Body(r)
             n == Len(s)
  <1>1. PICK P : Leaves(s, Kept(s), r, P)
    BY ReturnsLeave
  <1>2. SplitLines(s) = LinesIn(b)
    BY DEF SplitLines
  <1> HIDE DEF r
  <1>3. Cuts(s, P, r, b)
    BY <1>1, BodyCuts
  <1> HIDE DEF b
  <1>4. /\ b \in Seq(Char) /\ \A j \in 1..Len(b) : b[j] = r[j]
        /\ Len(b) = IF s[n] = "newline" THEN P[n - 1] ELSE P[n]
    BY <1>3 DEF Cuts
  <1>5. DOMAIN LinesIn(b) = 1..NewlinesTo(b, Len(b)) + 1
    BY <1>4, LinesCounted
  <1>6. Len(b) \in 0..Len(b)
    BY <1>4
  <1>7. NewlinesTo(b, Len(b)) = NewlinesTo(r, Len(b))
    BY <1>4, <1>6, SameBeginning
  <1>8. n \in Nat \ {0} /\ n - 1 \in 0..n /\ n \in 0..n /\ n - 1 \in Nat
    BY EmptySeq
  <1>9. NewlinesTo(r, P[n - 1]) = NewlinesTo(s, n - 1)
        /\ NewlinesTo(r, P[n]) = NewlinesTo(s, n)
    BY <1>1, <1>8, NewlinesAlike
  <1> HIDE DEF n
  <1>10. /\ NewlinesTo(s, n) = NewlinesTo(s, n - 1)
                                 + IF s[n] = "newline" THEN 1 ELSE 0
         /\ NewlinesTo(s, n - 1) \in Nat
    BY <1>8, NewlinesCount
  <1>11. NewlinesTo(r, Len(b)) = NewlinesTo(s, n - 1)
    BY <1>4, <1>9, <1>10
  <1> QED BY <1>2, <1>5, <1>7, <1>11 DEF n
LEMMA EveryLine ==
  ASSUME NEW s \in Seq(Char), s # <<>>, NEW k \in DOMAIN SplitLines(s)
  PROVE  \E a, z : /\ IsLine(s, a, z) /\ a < Len(s)
                   /\ k = NewlinesTo(s, a) + 1 /\ NewlinesTo(s, a) \in Nat
  <1>1. k \in 1..NewlinesTo(s, Len(s) - 1) + 1
    BY TextLines
  <1>2. Len(s) - 1 \in Nat
    BY EmptySeq
  <1>3. NewlinesTo(s, Len(s) - 1) \in Nat
    BY <1>2, NewlinesCount
  <1>4. k - 1 \in 0..NewlinesTo(s, Len(s) - 1) /\ k \in Nat
    BY <1>1, <1>3
  <1>5. PICK a, z : IsLine(s, a, z) /\ a < Len(s) /\ NewlinesTo(s, a) = k - 1
    BY <1>4, LineExists
  <1> QED BY <1>4, <1>5

\* The line that a character is in is one of the lines that read shows.
LEMMA LineOfPlace ==
  ASSUME NEW s \in Seq(Char), NEW i \in 1..Len(s)
  PROVE  /\ LineOf(s, i) \in DOMAIN SplitLines(s)
         /\ LineOf(s, i) = NewlinesTo(s, i - 1) + 1
         /\ NewlinesTo(s, i - 1) \in Nat /\ s # <<>>
  <1>1. s # <<>> /\ Len(s) \in Nat /\ i - 1 \in Nat /\ Len(s) - 1 \in Nat
        /\ i - 1 <= Len(s) - 1 /\ i \in Nat \ {0}
    BY EmptySeq
  <1>2. NewlinesTo(s, i - 1) <= NewlinesTo(s, Len(s) - 1)
    BY <1>1, NewlinesGrow
  <1>3. /\ NewlinesTo(s, i - 1) \in Nat /\ NewlinesTo(s, Len(s) - 1) \in Nat
        /\ LineOf(s, i) = NewlinesTo(s, i - 1) + 1
    BY <1>1, NewlinesCount
  <1>4. DOMAIN SplitLines(s) = 1..NewlinesTo(s, Len(s) - 1) + 1
    BY <1>1, TextLines
  <1> QED BY <1>1, <1>2, <1>3, <1>4

\* The lines that hold a character are those of the places where it is.
LEMMA CharLines ==
  ASSUME NEW s \in Seq(Char), NEW c, c \notin {"newline", "return"},
         NEW k \in DOMAIN SplitLines(s)
  PROVE  c \in ToSet(SplitLines(s)[k])
           <=> \E i \in DOMAIN s : s[i] = c /\ LineOf(s, i) = k
  <1>1. s # <<>>
    BY DEF SplitLines
  <1>2. PICK a, z : /\ IsLine(s, a, z) /\ a < Len(s)
                    /\ k = NewlinesTo(s, a) + 1 /\ NewlinesTo(s, a) \in Nat
    BY <1>1, EveryLine
  <1> DEFINE n == Len(s)
             seg == SubSeq(s, a + 1, z - 1)
  <1>3. /\ n \in Nat /\ a \in Nat /\ a <= n /\ z \in a + 1..n + 1
        /\ z = n + 1 \/ s[z] = "newline"
        /\ DOMAIN s = 1..n /\ \A i \in 1..n : s[i] \in Char
    BY <1>2 DEF IsLine
  <1>4. /\ SplitLines(s)[k] \in Seq(Char)
        /\ WithoutAnyReturn(SplitLines(s)[k]) = WithoutAnyReturn(seg)
    BY <1>1, <1>2, TextLine
  <1> HIDE DEF n
  <1>5. /\ a + 1 \in Int /\ z - 1 \in Int /\ z \in Nat
        /\ \A i \in a + 1..z - 1 : i \in 1..n /\ s[i] \in Char
    BY <1>3
  <1>6. /\ seg \in Seq(Char)
        /\ Len(seg) = IF a + 1 <= z - 1 THEN z - 1 - (a + 1) + 1 ELSE 0
        /\ \A i \in 1..z - 1 - (a + 1) + 1 : seg[i] = s[a + 1 + i - 1]
    BY <1>5, SubSeqProperties
  <1> HIDE DEF seg
  <1>7. c \in ToSet(seg) <=> \E i \in a + 1..z - 1 : s[i] = c
    <2>1. Len(seg) = z - 1 - a /\ DOMAIN seg = 1..z - 1 - a
          /\ \A i \in 1..z - 1 - a : seg[i] = s[a + i]
      BY <1>3, <1>6
    <2>2. ASSUME c \in ToSet(seg) PROVE \E i \in a + 1..z - 1 : s[i] = c
      <3>1. PICK i \in 1..z - 1 - a : seg[i] = c
        BY <2>1, <2>2 DEF ToSet
      <3>2. a + i \in a + 1..z - 1 /\ s[a + i] = c
        BY <1>3, <2>1, <3>1
      <3> QED BY <3>2
    <2>3. ASSUME NEW i \in a + 1..z - 1, s[i] = c PROVE c \in ToSet(seg)
      <3>1. i - a \in 1..z - 1 - a /\ a + (i - a) = i
        BY <1>3
      <3>2. seg[i - a] = c
        BY <2>1, <2>3, <3>1
      <3> QED BY <2>1, <3>1, <3>2 DEF ToSet
    <2> QED BY <2>2, <2>3
  <1>8. c \in ToSet(SplitLines(s)[k]) <=> c \in ToSet(seg)
    <2>1. c \in ToSet(SplitLines(s)[k])
            <=> c \in ToSet(WithoutAnyReturn(SplitLines(s)[k]))
      BY <1>4, BareSet
    <2>2. c \in ToSet(seg) <=> c \in ToSet(WithoutAnyReturn(seg))
      BY <1>6, BareSet
    <2> QED BY <1>4, <2>1, <2>2
  <1>9. ASSUME NEW i \in a + 1..z - 1, s[i] = c
        PROVE  i \in DOMAIN s /\ LineOf(s, i) = k
    <2>1. i \in 1..Len(s)
      BY <1>5 DEF n
    <2>2. NewlinesTo(s, i - 1) = NewlinesTo(s, a)
      BY <1>2, <2>1, LinePlaces
    <2>3. LineOf(s, i) = NewlinesTo(s, i - 1) + 1
      BY <2>1, LineOfPlace
    <2> QED BY <1>2, <2>1, <2>2, <2>3
  <1>10. ASSUME NEW i \in DOMAIN s, s[i] = c, LineOf(s, i) = k
         PROVE  i \in a + 1..z - 1
    <2>1. i \in 1..Len(s)
      OBVIOUS
    <2>2. LineOf(s, i) = NewlinesTo(s, i - 1) + 1 /\ NewlinesTo(s, i - 1) \in Nat
      BY <2>1, LineOfPlace
    <2>3. NewlinesTo(s, i - 1) = NewlinesTo(s, a)
      BY <1>2, <1>10, <2>2
    <2>4. a < i /\ i <= z
      BY <1>2, <2>1, <2>3, LinePlaces
    <2>5. i # z
      BY <1>3, <1>10, <2>1 DEF n
    <2> QED BY <1>3, <1>5, <2>1, <2>4, <2>5
  <1> QED BY <1>7, <1>8, <1>9, <1>10

\* What is somewhere in the file is in one of its lines.
LEMMA CharShown ==
  ASSUME NEW s \in Seq(Char), NEW c, c \notin {"newline", "return"}
  PROVE  c \in ToSet(s)
           <=> \E k \in DOMAIN SplitLines(s) : c \in ToSet(SplitLines(s)[k])
  <1>1. ASSUME c \in ToSet(s)
        PROVE  \E k \in DOMAIN SplitLines(s) : c \in ToSet(SplitLines(s)[k])
    <2>1. PICK i \in DOMAIN s : s[i] = c
      BY <1>1 DEF ToSet
    <2>2. i \in 1..Len(s)
      OBVIOUS
    <2>3. LineOf(s, i) \in DOMAIN SplitLines(s)
      BY <2>2, LineOfPlace
    <2>4. c \in ToSet(SplitLines(s)[LineOf(s, i)])
      BY <2>1, <2>3, CharLines
    <2> QED BY <2>3, <2>4
  <1>2. ASSUME NEW k \in DOMAIN SplitLines(s), c \in ToSet(SplitLines(s)[k])
        PROVE  c \in ToSet(s)
    <2>1. PICK i \in DOMAIN s : s[i] = c
      BY <1>2, CharLines
    <2> QED BY <2>1 DEF ToSet
  <1> QED BY <1>1, <1>2

LEMMA FirstLineIs ==
  ASSUME NEW s \in Seq(Char)
  PROVE  \E m \in 0..Len(s) : /\ FirstLine(s) = SubSeq(s, 1, m)
                              /\ \A j \in 1..m : s[j] # "newline"
  <1> DEFINE T == {i \in 1..Len(s) + 1 : i = Len(s) + 1 \/ s[i] = "newline"}
  <1>1. Len(s) \in Nat
    OBVIOUS
  <1>2. Len(s) + 1 \in T /\ T \in SUBSET Nat
    BY <1>1
  <1>3. FirstLine(s) = SubSeq(s, 1, Min(T) - 1)
    BY DEF FirstLine
  <1>4. Min(T) \in T /\ \A i \in T : Min(T) <= i
    <2> HIDE DEF T
    <2>1. \E i \in T : \A j \in T : i <= j
      BY <1>2, NatMin
    <2> QED BY <2>1 DEF Min
  <1> DEFINE m == Min(T)
  <1>5. m \in 1..Len(s) + 1
    BY <1>4
  <1>6. \A j \in 1..m - 1 : s[j] # "newline"
    <2> SUFFICES ASSUME NEW j \in 1..m - 1, s[j] = "newline" PROVE FALSE
      OBVIOUS
    <2>0. m \in 1..Len(s) + 1 /\ \A i \in T : m <= i
      BY <1>4
    <2> HIDE DEF m
    <2>1. j \in 1..Len(s) + 1 /\ ~(m <= j)
      BY <1>1, <2>0
    <2> QED BY <2>0, <2>1
  <1>7. FirstLine(s) = SubSeq(s, 1, m - 1)
    BY <1>3
  <1> HIDE DEF m
  <1>8. m - 1 \in 0..Len(s)
    BY <1>1, <1>5
  <1> QED BY <1>6, <1>7, <1>8

LEMMA MiddleIsPart ==
  ASSUME NEW S, NEW u \in Seq(S), NEW v \in Seq(S), NEW w \in Seq(S)
  PROVE  v \in SubSeqs((u \o v) \o w)
  <1> DEFINE t == (u \o v) \o w
             i == Len(u)
             j == Len(u) + Len(v)
             p == SubSeq(t, i + 1, j)
  <1>1. /\ t \in Seq(S) /\ Len(t) = i + Len(v) + Len(w)
        /\ i \in Nat /\ Len(v) \in Nat /\ Len(w) \in Nat
        /\ \A k \in 1..Len(v) : t[i + k] = v[k] /\ v[k] \in S
    OBVIOUS
  <1>2. i \in 0..Len(t) /\ j \in 0..Len(t)
    BY <1>1
  <1> HIDE DEF t
  <1>3. p \in SubSeqs(t)
    BY <1>2 DEF SubSeqs
  <1>4. p = v
    <2>1. \A k \in i + 1..j : t[k] \in S
      <3> SUFFICES ASSUME NEW k \in i + 1..j PROVE t[k] \in S
        OBVIOUS
      <3>1. k - i \in 1..Len(v) /\ i + (k - i) = k
        BY <1>1
      <3> QED BY <1>1, <3>1
    <2>2. i + 1 \in Int /\ j \in Int
      BY <1>1
    <2>3. /\ p \in Seq(S) /\ Len(p) = IF i + 1 <= j THEN j - (i + 1) + 1 ELSE 0
          /\ \A k \in 1..j - (i + 1) + 1 : p[k] = t[i + 1 + k - 1]
      BY <2>1, <2>2, SubSeqProperties
    <2> HIDE DEF p
    <2>4. Len(p) = Len(v)
      BY <1>1, <2>3
    <2>5. \A k \in 1..Len(v) : p[k] = v[k]
      <3> SUFFICES ASSUME NEW k \in 1..Len(v) PROVE p[k] = v[k]
        OBVIOUS
      <3>1. k \in 1..j - (i + 1) + 1 /\ i + 1 + k - 1 = i + k
        BY <1>1
      <3> QED BY <1>1, <2>3, <3>1
    <2> QED BY <2>3, <2>4, <2>5
  <1> QED BY <1>3, <1>4 DEF t

\* The line in which a text begins shows its first line.
LEMMA FoundLine ==
  ASSUME NEW s \in Seq(Char), NEW old \in Seq(Char), old # <<>>,
         NEW i \in Nat \ {0}, Occurs(s, old, i)
  PROVE  LET n == LineOf(s, i)
         IN  /\ n \in DOMAIN SplitLines(s)
             /\ WithoutAnyReturn(FirstLine(old))
                  \in SubSeqs(WithoutAnyReturn(SplitLines(s)[n]))
  <1> DEFINE n == Len(s)
             w == Len(old)
             k == LineOf(s, i)
             B(u) == WithoutAnyReturn(u)
  <1>1. /\ n \in Nat /\ w \in Nat \ {0} /\ i + w - 1 <= n
        /\ SubSeq(s, i, i + w - 1) = old
    BY EmptySeq DEF Occurs
  <1>2. i \in 1..n
    BY <1>1
  <1>3. /\ k \in DOMAIN SplitLines(s) /\ s # <<>>
        /\ k = NewlinesTo(s, i - 1) + 1 /\ NewlinesTo(s, i - 1) \in Nat
    BY <1>2, LineOfPlace
  <1> HIDE DEF k
  <1>4. PICK a, z : /\ IsLine(s, a, z) /\ a < Len(s)
                    /\ k = NewlinesTo(s, a) + 1 /\ NewlinesTo(s, a) \in Nat
    BY <1>3, EveryLine
  <1>5. B(SplitLines(s)[k]) = B(SubSeq(s, a + 1, z - 1))
    BY <1>3, <1>4, TextLine
  <1>6. NewlinesTo(s, i - 1) = NewlinesTo(s, a)
    BY <1>3, <1>4
  <1>7. a < i /\ i <= z
    BY <1>2, <1>4, <1>6, LinePlaces
  <1>8. PICK m \in 0..w : /\ FirstLine(old) = SubSeq(old, 1, m)
                          /\ \A j \in 1..m : old[j] # "newline"
    BY FirstLineIs
  <1>9. /\ a \in Nat /\ z \in a + 1..n + 1 /\ z \in Nat
        /\ z = n + 1 \/ s[z] = "newline"
    BY <1>4 DEF IsLine
  <1> HIDE DEF n, w, B
  <1>10. /\ \A j \in 1..w : old[j] = s[i + j - 1]
    <2>1. \A j \in i..i + w - 1 : s[j] \in Char
      <3>1. \A j \in 1..n : s[j] \in Char
        BY DEF n
      <3> QED BY <1>1, <3>1
    <2> DEFINE e == i + w - 1
    <2>2. i \in Int /\ e \in Int /\ e - i + 1 = w /\ SubSeq(s, i, e) = old
      BY <1>1
    <2>3. \A j \in i..e : s[j] \in Char
      BY <2>1
    <2> HIDE DEF e
    <2>4. /\ SubSeq(s, i, e) \in Seq(Char)
          /\ Len(SubSeq(s, i, e)) = IF i <= e THEN e - i + 1 ELSE 0
          /\ \A j \in 1..e - i + 1 : SubSeq(s, i, e)[j] = s[i + j - 1]
      BY ONLY <2>2, <2>3, SubSeqProperties
    <2> QED BY <2>2, <2>4
  <1>11. z >= i + m
    <2> SUFFICES ASSUME z < i + m PROVE FALSE
      BY <1>1, <1>9
    <2>1. z - i + 1 \in 1..m /\ z - i + 1 \in 1..w /\ i + (z - i + 1) - 1 = z
          /\ z # n + 1
      BY <1>1, <1>7, <1>9
    <2>2. old[z - i + 1] = s[z]
      BY <1>10, <2>1
    <2> QED BY <1>8, <1>9, <2>1, <2>2
  <1> DEFINE u == SubSeq(s, a + 1, i - 1)
             v == SubSeq(s, i, i + m - 1)
             x == SubSeq(s, i + m, z - 1)
  <1>12. v = FirstLine(old)
    <2> DEFINE f == SubSeq(old, 1, m)
    <2>1. /\ \A j \in 1..m : old[j] \in Char
          /\ \A j \in i..i + m - 1 : s[j] \in Char
      <3>1. \A j \in 1..n : s[j] \in Char
        BY DEF n
      <3>2. \A j \in 1..w : old[j] \in Char
        BY DEF w
      <3> QED BY <1>1, <3>1, <3>2
    <2>2. i \in Int /\ i + m - 1 \in Int /\ 1 \in Int /\ m \in Int /\ m \in Nat
      BY <1>1
    <2>3. /\ v \in Seq(Char) /\ Len(v) = IF i <= i + m - 1 THEN i + m - 1 - i + 1 ELSE 0
          /\ \A j \in 1..i + m - 1 - i + 1 : v[j] = s[i + j - 1]
      BY <2>1, <2>2, SubSeqProperties
    <2>4. /\ f \in Seq(Char) /\ Len(f) = IF 1 <= m THEN m - 1 + 1 ELSE 0
          /\ \A j \in 1..m - 1 + 1 : f[j] = old[1 + j - 1]
      BY <2>1, <2>2, SubSeqProperties
    <2> HIDE DEF v, f
    <2>5. Len(v) = m /\ Len(f) = m
      BY <2>2, <2>3, <2>4
    <2>6. \A j \in 1..m : v[j] = f[j]
      <3> SUFFICES ASSUME NEW j \in 1..m PROVE v[j] = f[j]
        OBVIOUS
      <3>1. /\ j \in 1..i + m - 1 - i + 1 /\ j \in 1..m - 1 + 1
            /\ j \in 1..w /\ 1 + j - 1 = j
        BY <1>1, <2>2
      <3> QED BY <1>10, <2>3, <2>4, <3>1
    <2>7. v = f
      BY <2>3, <2>4, <2>5, <2>6
    <2> QED BY <1>8, <2>7 DEF f
  <1>13. /\ a + 1 \in 1..n + 1 /\ i - 1 \in a..n /\ i + m - 1 \in i - 1..n
         /\ z - 1 \in i + m - 1..n /\ i + m - 1 \in a..n
         /\ i - 1 \in (a + 1) - 1..n /\ i + m - 1 \in (a + 1) - 1..n
         /\ (i - 1) + 1 = i /\ (i + m - 1) + 1 = i + m
    BY <1>1, <1>7, <1>9, <1>11
  <1>14. SubSeq(s, a + 1, i + m - 1) = u \o v
    BY <1>13, ConcatAdjacentSubSeq DEF n
  <1>15. SubSeq(s, a + 1, z - 1) = (u \o v) \o x
    BY <1>13, <1>14, ConcatAdjacentSubSeq DEF n
  <1>16. u \in Seq(Char) /\ v \in Seq(Char) /\ x \in Seq(Char)
    <2>1. \A j \in 1..n : s[j] \in Char
      BY DEF n
    <2>2. /\ \A j \in a + 1..i - 1 : s[j] \in Char
          /\ \A j \in i..i + m - 1 : s[j] \in Char
          /\ \A j \in i + m..z - 1 : s[j] \in Char
      BY <1>1, <1>9, <1>13, <2>1
    <2>3. /\ a + 1 \in Int /\ i - 1 \in Int /\ i \in Int /\ i + m - 1 \in Int
          /\ i + m \in Int /\ z - 1 \in Int
      BY <1>9
    <2> QED BY <2>2, <2>3, SubSeqProperties
  <1> HIDE DEF u, v, x
  <1>17. u \o v \in Seq(Char)
    BY <1>16
  <1>18. B((u \o v) \o x) = (B(u) \o B(v)) \o B(x)
    BY <1>16, <1>17, BareConcat DEF B
  <1>19. B(u) \in Seq(Char) /\ B(v) \in Seq(Char) /\ B(x) \in Seq(Char)
    <2>1. "x" \in Char
      BY DEF Char
    <2> QED BY <1>16, <2>1, BareAppend DEF B
  <1>20. B(v) \in SubSeqs((B(u) \o B(v)) \o B(x))
    BY <1>19, MiddleIsPart
  <1> QED BY <1>3, <1>5, <1>12, <1>15, <1>18, <1>20 DEF B, k
-----------------------------------------------------------------------------
(* Grep: what it shows.                                                     *)

\* The lines with a match.
LinesWith(s, char) ==
  {k \in DOMAIN SplitLines(s) : char \in ToSet(SplitLines(s)[k])}

LEMMA MatchLinesIs ==
  ASSUME NEW s, NEW char
  PROVE  LET hits == Ascending(LinesWith(s, char))
         IN  MatchLines(s, char) = [k \in DOMAIN hits |->
               [line |-> hits[k],
                text |-> ClipRunes(SplitLines(s)[hits[k]]).text,
                cut |-> Bytes(SplitLines(s)[hits[k]]) > MaxLineChars]]
  BY DEF MatchLines, InOrder, Ascending, Lower, LinesWith

LEMMA LinesWithFinite ==
  ASSUME NEW s \in Seq(Char), NEW char
  PROVE  LinesWith(s, char) \in SUBSET Nat /\ IsFiniteSet(LinesWith(s, char))
  <1> DEFINE n == Len(SplitLines(s))
  <1>1. n \in Nat /\ DOMAIN SplitLines(s) = 1..n
    BY SplitLinesSeq, IsSeqLen
  <1> HIDE DEF n
  <1>2. IsFiniteSet(1..n) /\ LinesWith(s, char) \in SUBSET (1..n)
    BY <1>1, FS_Interval DEF LinesWith
  <1> QED BY <1>1, <1>2, FS_Subset

\* h is what grep shows of the lines H.
ShowLines(h, H) ==
  /\ IsSeq(h) /\ {x.line : x \in ToSet(h)} = H
  /\ h # <<>> <=> H # {}

LEMMA HitsAre ==
  ASSUME NEW texts, NEW p, NEW char, texts[p] \in Seq(Char)
  PROVE  ShowLines(HitsIn(texts, p, char), LinesWith(texts[p], char))
  <1> DEFINE h == HitsIn(texts, p, char)
             H == LinesWith(texts[p], char)
             e == Ascending(H)
             lines == MatchLines(texts[p], char)
  <1>1. H \in SUBSET Nat /\ IsFiniteSet(H)
    BY LinesWithFinite
  <1>2. lines = [k \in DOMAIN e |->
               [line |-> e[k],
                text |-> ClipRunes(SplitLines(texts[p])[e[k]]).text,
                cut |-> Bytes(SplitLines(texts[p])[e[k]]) > MaxLineChars]]
    BY MatchLinesIs
  <1>3. h = [k \in DOMAIN lines |->
               [path |-> p, line |-> lines[k].line, text |-> lines[k].text,
                cut |-> lines[k].cut]]
    BY DEF HitsIn
  <1> HIDE DEF lines, H, e, h
  <1>4. /\ DOMAIN e = 1..Cardinality(H) /\ Cardinality(H) \in Nat
        /\ Len(e) = Cardinality(H) /\ ToSet(e) = H
    BY <1>1, NumbersListed DEF e
  <1> DEFINE n == Cardinality(H)
  <1>5. DOMAIN h = 1..n /\ \A k \in 1..n : h[k].line = e[k]
    BY <1>2, <1>3, <1>4
  <1>6. h = [k \in 1..n |-> h[k]]
    BY <1>2, <1>3, <1>4
  <1> HIDE DEF n
  <1>7. n \in Nat
    BY <1>4 DEF n
  <1>8. IsSeq(h) /\ Len(h) = n
    <2>1. IsSeq(h)
      BY <1>5, <1>6, <1>7 DEF IsSeq
    <2> QED BY <1>5, <1>7, <2>1, IsSeqLen
  <1>9. {x.line : x \in ToSet(h)} = H
    <2>1. {x.line : x \in ToSet(h)} = {h[k].line : k \in 1..n}
      BY <1>5 DEF ToSet
    <2>2. {h[k].line : k \in 1..n} = {e[k] : k \in 1..n}
      BY <1>5
    <2>3. {e[k] : k \in 1..n} = ToSet(e)
      BY <1>4 DEF ToSet, n
    <2> QED BY <1>4, <2>1, <2>2, <2>3
  <1>10. h # <<>> <=> H # {}
    <2>1. h # <<>> <=> n # 0
      BY <1>5, <1>6, <1>7, <1>8
    <2>2. n = 0 <=> H = {}
      BY <1>1, FS_EmptySet DEF n
    <2> QED BY <2>1, <2>2
  <1> QED BY <1>8, <1>9, <1>10 DEF H, h, ShowLines

LEMMA HoldingIs ==
  ASSUME NEW texts, NEW p, NEW char, texts[p] \in Seq(Char),
         char \notin {"newline", "return"}
  PROVE  Holding(texts, char, p)
           <=> Entry(p).kind = "text" /\ char \in ToSet(texts[p])
  <1> DEFINE h == HitsIn(texts, p, char)
  <1>1. h # <<>> <=> LinesWith(texts[p], char) # {}
    BY HitsAre DEF ShowLines
  <1>2. char \in ToSet(texts[p])
          <=> \E k \in DOMAIN SplitLines(texts[p]) :
                char \in ToSet(SplitLines(texts[p])[k])
    BY CharShown
  <1>3. char \in ToSet(texts[p]) <=> LinesWith(texts[p], char) # {}
    BY <1>2 DEF LinesWith
  <1> QED BY <1>1, <1>3 DEF Holding

LEMMA FlatLength ==
  ASSUME NEW n \in Nat, NEW f, DOMAIN f = 1..n, f = [k \in 1..n |-> f[k]],
         \A k \in 1..n : IsSeq(f[k])
  PROVE  \E S : FlattenSeq(f) \in Seq(S)
  <1> DEFINE S == UNION {{f[k][i] : i \in DOMAIN f[k]} : k \in 1..n}
  <1>1. \A k \in 1..n : f[k] \in Seq(S)
    <2> SUFFICES ASSUME NEW k \in 1..n PROVE f[k] \in Seq(S)
      OBVIOUS
    <2> DEFINE R == {f[k][i] : i \in DOMAIN f[k]}
    <2>1. f[k] \in Seq(R)
      BY DEF IsSeq
    <2>2. R \subseteq S
      OBVIOUS
    <2> HIDE DEF R, S
    <2> QED BY <2>1, <2>2
  <1> HIDE DEF S
  <1>2. f \in Seq(Seq(S)) /\ Len(f) = n
    BY <1>1, IsASeq
  <1>3. PICK F \in [0..n -> Seq(S)] : FlattenSeq(f) = F[n]
    BY <1>2, Flattening
  <1>4. F[n] \in Seq(S)
    OBVIOUS
  <1> QED BY <1>3, <1>4

LEMMA MinOf ==
  ASSUME NEW a \in Nat, NEW b \in Nat, NEW S, S = {a, b}
  PROVE  Min(S) \in S /\ Min(S) <= a /\ Min(S) <= b /\ Min(S) \in Nat
  <1>1. \E x \in S : \A y \in S : x <= y
    <2>1. CASE a <= b
      BY <2>1
    <2>2. CASE ~(a <= b)
      BY <2>2
    <2> QED BY <2>1, <2>2
  <1>2. Min(S) \in S /\ \A y \in S : Min(S) <= y
    BY <1>1 DEF Min
  <1> QED BY <1>2

\* The first most of a sequence.
LEMMA FirstOnes ==
  ASSUME NEW S, NEW s \in Seq(S), NEW most \in 0..Len(s)
  PROVE  /\ SubSeq(s, 1, most) \in Seq(S) /\ Len(SubSeq(s, 1, most)) = most
         /\ DOMAIN SubSeq(s, 1, most) = 1..most
         /\ \A i \in 1..most : SubSeq(s, 1, most)[i] = s[i] /\ i \in DOMAIN s
         /\ ToSet(SubSeq(s, 1, most)) \subseteq ToSet(s)
  <1> DEFINE u == SubSeq(s, 1, most)
  <1>1. /\ most \in Nat /\ Len(s) \in Nat /\ most <= Len(s)
        /\ 1 \in Int /\ most \in Int /\ DOMAIN s = 1..Len(s)
        /\ \A i \in 1..Len(s) : s[i] \in S
    OBVIOUS
  <1>2. \A i \in 1..most : s[i] \in S
    BY <1>1
  <1>3. /\ u \in Seq(S) /\ Len(u) = IF 1 <= most THEN most - 1 + 1 ELSE 0
        /\ \A i \in 1..most - 1 + 1 : u[i] = s[1 + i - 1]
    BY <1>1, <1>2, SubSeqProperties
  <1> HIDE DEF u
  <1>4. Len(u) = most /\ DOMAIN u = 1..most
    BY <1>1, <1>3
  <1>5. \A i \in 1..most : u[i] = s[i] /\ i \in DOMAIN s
    <2> SUFFICES ASSUME NEW i \in 1..most PROVE u[i] = s[i] /\ i \in DOMAIN s
      OBVIOUS
    <2>1. i \in 1..most - 1 + 1 /\ 1 + i - 1 = i /\ i \in 1..Len(s)
      BY <1>1
    <2> QED BY <1>1, <1>3, <2>1
  <1>6. ToSet(u) \subseteq ToSet(s)
    BY <1>4, <1>5 DEF ToSet
  <1> QED BY <1>3, <1>4, <1>5, <1>6 DEF u
\* What Grep answers.
\* What grep shows of the files it is asked about and of those that hold a match.
GrepShows(found, asked, want, filesOnly) ==
  /\ ToSet(found.files) \subseteq want
  /\ Sorted(found.files)
  /\ Cardinality(asked) <= GrepMaxScan => found.count = Cardinality(want)
  /\ found.truncated <=> IF filesOnly
                         THEN found.count > Len(found.files)
                         ELSE found.total > Len(found.hits)

\* Grep shows files with a match that are not hidden, all of them unless the
\* scan was cut short, and its counts tell of what it holds back.
LEMMA GrepAnswers ==
  ASSUME RulesOK(rules), mtime \in [Paths -> Nat],
         \A p \in Paths : content[p] \in Seq(Char),
         NEW char, char \notin {"newline", "return"}, NEW glob,
         NEW most \in Nat, NEW filesOnly \in BOOLEAN, NEW found,
         found = Grep(rules, mtime, content, <<>>, char, glob, most, filesOnly),
         NEW asked, asked = {p \in Paths :
                              /\ Entry(p).kind \in {"text", "binary", "large"}
                              /\ ~Hidden(p)
                              /\ \/ glob = <<>>
                                 \/ MatchPattern(glob, p)},
         NEW want, want = {p \in asked : /\ Entry(p).kind = "text"
                                         /\ char \in ToSet(content[p])}
  PROVE  GrepShows(found, asked, want, filesOnly)
  <1> DEFINE limit == Clamp(most, GrepDefaultLimit, GrepMaxLimit)
             end == GrepFold(rules, content, <<>>, char, glob)[DOMAIN WalkOrder]
             files == ByRecency(mtime, end.files)
             pieces == [k \in DOMAIN files |-> HitsIn(content, files[k], char)]
             hits == FlattenSeq(pieces)
             shown == Min({limit, Len(IF filesOnly THEN files ELSE hits)})
  <1>1. limit \in Nat
    BY ClampIs, SearchAssumption
  <1>2. /\ found.files = IF filesOnly THEN SubSeq(files, 1, shown) ELSE files
        /\ found.hits = IF filesOnly THEN <<>> ELSE SubSeq(hits, 1, shown)
        /\ found.total = Len(hits) /\ found.count = Len(files)
        /\ found.truncated = (shown < Len(IF filesOnly THEN files ELSE hits))
    <2>1. found
            = [files |-> IF filesOnly THEN SubSeq(files, 1, shown) ELSE files,
               hits |-> IF filesOnly THEN <<>> ELSE SubSeq(hits, 1, shown),
               total |-> Len(hits), count |-> Len(files),
               skipped |-> end.skipped,
               truncated |-> shown < Len(IF filesOnly THEN files ELSE hits)]
      BY GrepIs
    <2> DEFINE one == IF filesOnly THEN SubSeq(files, 1, shown) ELSE files
               two == IF filesOnly THEN <<>> ELSE SubSeq(hits, 1, shown)
               three == Len(hits)
               four == Len(files)
               five == end.skipped
               six == shown < Len(IF filesOnly THEN files ELSE hits)
    <2>2. found = [files |-> one, hits |-> two, total |-> three,
                   count |-> four, skipped |-> five, truncated |-> six]
      BY <2>1
    <2> HIDE DEF one, two, three, four, five, six
    <2>3. /\ found.files = one /\ found.hits = two /\ found.total = three
          /\ found.count = four /\ found.truncated = six
      BY ONLY <2>2
    <2> QED BY ONLY <2>3 DEF one, two, three, four, six
  <1>3. asked = {p \in Paths : Under(<<>>, p) /\ Asks(rules, <<>>, glob, p)}
    <2> SUFFICES ASSUME NEW p \in Paths
                 PROVE  (p \in asked) <=> Under(<<>>, p) /\ Asks(rules, <<>>, glob, p)
      OBVIOUS
    <2>1. Under(<<>>, p) /\ Below(<<>>, p) = p
      <3>1. p \in Seq(ToSet(Names)) /\ p # <<>> /\ Len(p) \in Nat \ {0}
        BY PathTyped
      <3>2. Below(<<>>, p) = p
        <4>1. Len(<<>>) + 1 = 1
          OBVIOUS
        <4>2. SubSeq(p, 1, Len(p)) = p
          BY <3>1, SubSeqFull
        <4> QED BY <4>1, <4>2 DEF Below
      <3>3. IsPrefix(<<>>, p)
        <4>1. Len(<<>>) = 0 /\ SubSeq(p, 1, 0) = <<>>
          BY SubSeqEmpty
        <4> QED BY <3>1, <4>1 DEF IsPrefix
      <3> QED BY <3>1, <3>2, <3>3 DEF Under, IsStrictPrefix
    <2>2. Hidden(p) <=> Match(rules, p, IsDir(p))
      BY HiddenIs
    <2>3. Entry(p).kind \in {"text", "binary", "large"} => IsDir(p) = FALSE
      BY DEF IsDir
    <2> QED BY <2>1, <2>2, <2>3 DEF Asks
  <1>4. want = {p \in asked : Holding(content, char, p)}
    <2>1. \A p \in asked : Holding(content, char, p)
             <=> Entry(p).kind = "text" /\ char \in ToSet(content[p])
      <3> SUFFICES ASSUME NEW p \in asked
                   PROVE  Holding(content, char, p)
                     <=> Entry(p).kind = "text" /\ char \in ToSet(content[p])
        OBVIOUS
      <3>1. content[p] \in Seq(Char)
        OBVIOUS
      <3> HIDE DEF content
      <3> QED BY <3>1, HoldingIs
    <2> QED BY <2>1
  <1>5. GrepOK(rules, asked, want, end)
    <2> HIDE DEF content
    <2> QED BY <1>3, <1>4, GrepEnds
  <1> HIDE DEF limit, end
  <1>6. /\ end.files \in Seq(Paths) /\ Len(end.files) \in Nat
        /\ ToSet(end.files) \subseteq want /\ ToSet(end.files) \subseteq Paths
        /\ Cardinality(ToSet(end.files)) = Len(end.files)
        /\ IF end.done THEN GrepMaxScan < Cardinality(asked)
           ELSE ToSet(end.files) = want
    BY <1>5 DEF GrepOK, GrepState
  <1> DEFINE n == Len(end.files)
  <1>7. /\ files \in [1..n -> ToSet(end.files)] /\ files \in Seq(Paths)
        /\ Len(files) = n /\ ToSet(files) = ToSet(end.files)
        /\ \A i, j \in 1..n : i < j => mtime[files[i]] >= mtime[files[j]]
    <2> HIDE DEF n
    <2>1. n \in Nat /\ Cardinality(ToSet(end.files)) = n
      BY <1>6 DEF n
    <2> QED BY <1>6, <2>1, RecencyIs
  <1> HIDE DEF files
  <1>8. n \in Nat /\ DOMAIN files = 1..n
    BY <1>6, <1>7
  <1> HIDE DEF n
  <1>9. PICK S : hits \in Seq(S)
    <2>1. DOMAIN pieces = 1..n /\ pieces = [k \in 1..n |-> pieces[k]]
      BY <1>8
    <2>2. ASSUME NEW k \in 1..n PROVE IsSeq(pieces[k])
      <3>1. files[k] \in Paths
        BY <1>7, <1>8
      <3>2. content[files[k]] \in Seq(Char)
        BY <3>1
      <3> HIDE DEF content
      <3>3. IsSeq(HitsIn(content, files[k], char))
        BY <3>2, HitsAre DEF ShowLines
      <3> QED BY <1>8, <3>3
    <2> HIDE DEF pieces
    <2> QED BY <1>8, <2>1, <2>2, FlatLength
  <1> HIDE DEF hits
  <1>10. Len(hits) \in Nat /\ Len(files) \in Nat
    BY <1>7, <1>8, <1>9
  <1>11. /\ shown \in Nat
         /\ filesOnly => shown <= Len(files)
         /\ ~filesOnly => shown <= Len(hits)
    <2> DEFINE b == Len(IF filesOnly THEN files ELSE hits)
               T == {limit, b}
    <2>1. b \in Nat /\ b = IF filesOnly THEN Len(files) ELSE Len(hits)
      BY <1>10
    <2>2. shown = Min(T)
      OBVIOUS
    <2> HIDE DEF b, shown
    <2>3. Min(T) <= b /\ Min(T) \in Nat
      <3> HIDE DEF T
      <3>1. T = {limit, b}
        BY DEF T
      <3> QED BY <1>1, <2>1, <3>1, MinOf
    <2> QED BY <2>1, <2>2, <2>3
  <1> HIDE DEF shown
  <1>12. CASE filesOnly
    <2>1. shown \in 0..Len(files)
      BY <1>10, <1>11, <1>12
    <2>2. /\ DOMAIN SubSeq(files, 1, shown) = 1..shown
          /\ Len(SubSeq(files, 1, shown)) = shown
          /\ \A i \in 1..shown : SubSeq(files, 1, shown)[i] = files[i]
          /\ ToSet(SubSeq(files, 1, shown)) \subseteq ToSet(files)
      BY <1>7, <2>1, FirstOnes
    <2>3. /\ found.files = SubSeq(files, 1, shown)
          /\ found.truncated <=> shown < Len(files)
      BY <1>2, <1>12
    <2>4. Sorted(found.files)
      <3>1. DOMAIN found.files = 1..shown
            /\ \A i \in 1..shown : found.files[i] = files[i] /\ i \in 1..n
        BY <1>7, <1>8, <2>1, <2>2, <2>3
      <3>2. \A i, j \in 1..shown :
              i < j => mtime[found.files[i]] >= mtime[found.files[j]]
        BY <1>7, <3>1
      <3> QED BY <3>1, <3>2 DEF Sorted
    <2>5. ToSet(found.files) \subseteq want
      BY <1>6, <1>7, <2>2, <2>3
    <2>6. found.truncated <=> found.count > Len(found.files)
      BY <1>2, <1>10, <1>11, <2>2, <2>3
    <2>7. Cardinality(asked) <= GrepMaxScan => found.count = Cardinality(want)
      <3>1. found.count = Cardinality(ToSet(end.files))
        BY <1>2, <1>6, <1>7 DEF n
      <3>2. ASSUME Cardinality(asked) <= GrepMaxScan PROVE ~end.done
        <4>1. IsFiniteSet(asked) /\ Cardinality(asked) \in Nat
          BY PathsFinite, FS_Subset, FS_CardinalityType
        <4>2. GrepMaxScan \in Nat
          BY SearchAssumption
        <4> QED BY <1>6, <3>2, <4>1, <4>2
      <3> QED BY <1>6, <3>1, <3>2
    <2> QED BY <1>12, <2>4, <2>5, <2>6, <2>7 DEF GrepShows
  <1>13. CASE ~filesOnly
    <2>1. shown \in 0..Len(hits)
      BY <1>10, <1>11, <1>13
    <2>2. Len(SubSeq(hits, 1, shown)) = shown
      BY <1>9, <2>1, FirstOnes
    <2>3. /\ found.files = files /\ found.hits = SubSeq(hits, 1, shown)
          /\ found.truncated <=> shown < Len(hits)
      BY <1>2, <1>13
    <2>4. Sorted(found.files)
      BY <1>7, <1>8, <2>3 DEF Sorted
    <2>5. ToSet(found.files) \subseteq want
      BY <1>6, <1>7, <2>3
    <2>6. found.truncated <=> found.total > Len(found.hits)
      BY <1>2, <1>10, <1>11, <2>2, <2>3
    <2>7. Cardinality(asked) <= GrepMaxScan => found.count = Cardinality(want)
      <3>1. found.count = Cardinality(ToSet(end.files))
        BY <1>2, <1>6, <1>7 DEF n
      <3>2. ASSUME Cardinality(asked) <= GrepMaxScan PROVE ~end.done
        <4>1. IsFiniteSet(asked) /\ Cardinality(asked) \in Nat
          BY PathsFinite, FS_Subset, FS_CardinalityType
        <4>2. GrepMaxScan \in Nat
          BY SearchAssumption
        <4> QED BY <1>6, <3>2, <4>1, <4>2
      <3> QED BY <1>6, <3>1, <3>2
    <2> QED BY <1>13, <2>4, <2>5, <2>6, <2>7 DEF GrepShows
  <1> QED BY <1>12, <1>13

\* The beginning of `old` is in line n of s.
BeginsIn(s, old, n) ==
  /\ n \in DOMAIN SplitLines(s)
  /\ WithoutAnyReturn(FirstLine(old)) \in SubSeqs(WithoutAnyReturn(SplitLines(s)[n]))

\* The lines that an edit's result names.
NamesLines(s, old, res) ==
  res.code \in {"ok", "ambiguous"} =>
    /\ \A k \in DOMAIN res.lines : BeginsIn(s, old, res.lines[k])
    /\ res.code = "ok" => res.snippet.offset \in 1..res.lines[1]

\* The region shown after an edit begins at or before the line of the edit.
LEMMA SnippetBegins ==
  ASSUME NEW s, NEW line \in Nat \ {0}, NEW span
  PROVE  SnippetAround(s, line, span).offset \in 1..line
  <1> DEFINE T == {line, Context + 1}
             from == Max(T) - Context
             U == {from, 1}
  <1>1. SnippetAround(s, line, span).offset = Max(U)
    BY DEF SnippetAround, BuildView
  <1>2. Context \in Nat /\ line \in Nat
    BY TextAssumption
  <1>3. T \in SUBSET Nat /\ T # {} /\ \A m \in T : m <= line + Context
    BY <1>2
  <1>4. Max(T) \in T /\ \A m \in T : m <= Max(T)
    <2> HIDE DEF T
    <2>1. line + Context \in Nat
      BY <1>2
    <2> QED BY <1>3, <2>1, MaxIsMax
  <1>5. from \in Nat /\ from >= 1 /\ from <= line
    <2>1. Max(T) \in Nat /\ Max(T) >= Context + 1 /\ Max(T) <= line + Context
      BY <1>2, <1>3, <1>4
    <2> HIDE DEF T
    <2> QED BY <1>2, <2>1
  <1> HIDE DEF from
  <1>6. U \in SUBSET Nat /\ U # {} /\ \A m \in U : m <= from
    BY <1>5
  <1>7. Max(U) \in U
    <2> HIDE DEF U
    <2> QED BY <1>5, <1>6, MaxIsMax
  <1> QED BY <1>1, <1>2, <1>5, <1>7

\* Every line an edit names is one in which the replaced text begins.
LEMMA EditNamesLines ==
  ASSUME NEW s \in Seq(Char), NEW old \in Seq(Char), NEW new \in Seq(Char),
         NEW all \in BOOLEAN, NEW res, res = Edit(s, old, new, all)
  PROVE  NamesLines(s, old, res)
  <1> DEFINE spots == Occurrences(s, old)
  <1>1. ASSUME NEW code, NEW lines, code \notin {"ok", "ambiguous"},
               res = Refused(s, code, lines)
        PROVE  NamesLines(s, old, res)
    BY <1>1 DEF Refused, NamesLines
  <1>2. CASE old = <<>> \/ old = new
    <2>1. res = Refused(s, "invalid_args", <<>>)
      BY <1>2 DEF Edit
    <2> QED BY <2>1, <1>1
  <1>3. CASE old # <<>> /\ old # new /\ spots = <<>>
    <2>1. res = Refused(s, "no_match", <<NearestLine(s, old)>>)
      BY <1>3 DEF Edit
    <2> QED BY <2>1, <1>1
  <1>4. ASSUME old # <<>>, old # new, spots # <<>>
        PROVE  NamesLines(s, old, res)
    <2>1. PlacesFrom(s, old, spots, 1)
      BY <1>4, OccurrencesFound
    <2>2. /\ spots \in Seq(Nat) /\ Len(spots) \in Nat /\ Len(spots) # 0
          /\ DOMAIN spots = 1..Len(spots)
      <3>1. spots \in Seq(Nat)
        BY <2>1 DEF PlacesFrom
      <3> HIDE DEF spots
      <3> QED BY <1>4, <3>1, EmptySeq, LenProperties
    <2>3. \A k \in DOMAIN spots : spots[k] \in Nat \ {0} /\ Occurs(s, old, spots[k])
      BY <2>1, <2>2 DEF PlacesFrom
    <2> HIDE DEF spots
    <2>4. \A k \in DOMAIN spots : BeginsIn(s, old, LineOf(s, spots[k]))
      <3> SUFFICES ASSUME NEW k \in DOMAIN spots
                   PROVE  BeginsIn(s, old, LineOf(s, spots[k]))
        OBVIOUS
      <3> DEFINE i == spots[k]
      <3>1. i \in Nat \ {0} /\ Occurs(s, old, i)
        BY <2>3
      <3> HIDE DEF i
      <3>2. BeginsIn(s, old, LineOf(s, i))
        BY <3>1, <1>4, FoundLine DEF BeginsIn
      <3> QED BY <3>2 DEF i
    <2>5. CASE Len(spots) > 1 /\ ~all
      <3> DEFINE lines == [k \in DOMAIN spots |-> LineOf(s, spots[k])]
      <3>1. res = Refused(s, "ambiguous", lines)
        BY <1>4, <2>5 DEF Edit, spots
      <3>2. res.code = "ambiguous" /\ res.lines = lines
        BY <3>1 DEF Refused
      <3>3. DOMAIN lines = DOMAIN spots
            /\ \A k \in DOMAIN spots : BeginsIn(s, old, lines[k])
        BY <2>4
      <3> HIDE DEF lines
      <3> QED BY <3>2, <3>3 DEF NamesLines
    <2>6. CASE ~(Len(spots) > 1 /\ ~all)
      <3> DEFINE line == LineOf(s, spots[1])
                 after == Replaced(s, IF all THEN spots ELSE <<spots[1]>>,
                                   Len(old), new)
                 span == LineOf(new, Len(new) + 1)
      <3>1. res = Edited(s, old, new, all)
        BY <1>4, <2>6 DEF Edit, spots
      <3>2. res = [code |-> "ok", text |-> after, lines |-> <<line>>,
                   snippet |-> SnippetAround(after, line, span)]
        BY <3>1 DEF Edited, spots
      <3> HIDE DEF after, span
      <3>3. 1 \in DOMAIN spots
        BY <2>2
      <3>4. BeginsIn(s, old, line)
        BY <2>4, <3>3
      <3> HIDE DEF line
      <3>5. line \in Nat \ {0}
        <4>1. DOMAIN SplitLines(s) \subseteq Nat \ {0}
          <5>1. SplitLines(s) \in Seq(Seq(Char)) \/ IsSeq(SplitLines(s))
            BY SplitLinesSeq
          <5> QED BY <5>1, LenProperties DEF IsSeq
        <4> QED BY <3>4, <4>1 DEF BeginsIn
      <3>6. /\ res.code = "ok" /\ res.lines = <<line>>
            /\ res.snippet = SnippetAround(after, line, span)
        BY <3>2
      <3>7. res.snippet.offset \in 1..line
        BY <3>5, <3>6, SnippetBegins
      <3>8. DOMAIN <<line>> = {1} /\ <<line>>[1] = line
        OBVIOUS
      <3> QED BY <3>4, <3>6, <3>7, <3>8 DEF NamesLines
    <2> QED BY <2>5, <2>6
  <1> QED BY <1>2, <1>3, <1>4
-----------------------------------------------------------------------------
(* Every answer, in every state.                                            *)

\* What the answers rest on: the rules and the times are what they should be.
FilesOK ==
  /\ RulesOK(rules) /\ mtime \in [Paths -> Nat]
  /\ gitignore \in Seq([negate : BOOLEAN, rooted : BOOLEAN,
                        names : Seq(STRING), dirOnly : BOOLEAN])

\* What grep searches is text, and the file is what read and edit see.
LEMMA ContentTyped ==
  ASSUME text \in Seq(Char)
  PROVE  /\ \A p \in Paths : content[p] \in Seq(Char)
         /\ content[File] = text
  <1>1. File \in Paths
    BY FileToolsAssumption
  <1>2. \A p \in Paths : Entry(p).text \in Seq(Char)
    BY PathTyped
  <1> QED BY <1>1, <1>2 DEF content

LEMMA RootIsNotFile ==
  File \in Paths /\ File # <<>> /\ ~IsDir(File) /\ File \notin Directories
  <1>1. File \in Paths /\ Entry(File).kind = "text"
    BY FileToolsAssumption
  <1>2. File # <<>>
    <2>1. File \in Seq(ToSet(Names)) /\ Len(File) \in Nat \ {0}
      BY <1>1, PathTyped
    <2> QED BY <2>1, EmptySeq
  <1> QED BY <1>1, <1>2 DEF IsDir, Directories

\* Grep on the file gives each match the line that the position is in.
LEMMA FileGrepNames ==
  ASSUME text \in Seq(Char), NEW char, char \notin {"newline", "return"},
         NEW found, found = GrepFile(content, File, char)
  PROVE  {h.line : h \in ToSet(found.hits)}
           = {n \in DOMAIN SplitLines(text) :
                \E i \in DOMAIN text : text[i] = char /\ LineOf(text, i) = n}
  <1>1. content[File] = text
    BY ContentTyped
  <1>2. found.hits = HitsIn(content, File, char)
    <2>1. Entry(File).kind # "binary"
      BY FileToolsAssumption
    <2> QED BY <2>1 DEF GrepFile
  <1>3. {h.line : h \in ToSet(HitsIn(content, File, char))}
          = LinesWith(text, char)
    <2>1. content[File] \in Seq(Char)
      BY <1>1
    <2> HIDE DEF content
    <2> QED BY <1>1, <2>1, HitsAre DEF ShowLines
  <1>4. \A k \in DOMAIN SplitLines(text) :
          char \in ToSet(SplitLines(text)[k])
            <=> \E i \in DOMAIN text : text[i] = char /\ LineOf(text, i) = k
    BY CharLines
  <1> QED BY <1>2, <1>3, <1>4 DEF LinesWith

Answered == NumbersAgree /\ GlobFindsVisible /\ GrepFindsVisible

\* The answer of each tool, whatever the state it was given in.
LEMMA EditAnswersTrue ==
  ASSUME report.op = "edit",
         NamesLines(report.args.was, report.args.old, report.out)
  PROVE  Answered
  BY DEF Answered, NumbersAgree, GlobFindsVisible, GrepFindsVisible,
         NamesLines, BeginsIn

LEMMA GlobAnswersTrue ==
  ASSUME report.op = "glob", FilesOK, report.args.limit \in Nat,
         report.out = Glob(rules, mtime, report.args.start,
                           report.args.pattern, report.args.limit)
  PROVE  Answered
  <1> DEFINE start == report.args.start
             pattern == report.args.pattern
             asked == report.args.limit
             found == report.out
             want == {p \in Paths : /\ Under(start, p) /\ ~Hidden(p)
                                    /\ MatchPattern(pattern, Below(start, p))}
  <1>1. GlobFindsVisible
          <=> /\ ToSet(found.found) \subseteq want
              /\ Sorted(found.found)
              /\ found.truncated <=> found.total > Len(found.found)
              /\ ~found.partial => found.total = Cardinality(want)
    BY DEF GlobFindsVisible
  <1>2. asked \in Nat /\ found = Glob(rules, mtime, start, pattern, asked)
    OBVIOUS
  <1>3. want = {p \in Paths : /\ Under(start, p) /\ ~Hidden(p)
                              /\ MatchPattern(pattern, Below(start, p))}
    OBVIOUS
  <1>4. RulesOK(rules) /\ mtime \in [Paths -> Nat]
    BY DEF FilesOK
  <1> HIDE DEF start, pattern, asked, found, want
  <1>5. GlobFindsVisible
    BY <1>1, <1>2, <1>3, <1>4, GlobAnswers
  <1> QED BY <1>5 DEF Answered, NumbersAgree, GrepFindsVisible

LEMMA GrepAnswersTrue ==
  ASSUME report.op = "grep", report.args.start = <<>>,
         FilesOK, text \in Seq(Char),
         report.args.char \notin {"newline", "return"},
         report.args.limit \in Nat, report.args.filesOnly \in BOOLEAN,
         report.out = Grep(rules, mtime, content, <<>>, report.args.char,
                           report.args.glob, report.args.limit,
                           report.args.filesOnly)
  PROVE  Answered
  <1> DEFINE char == report.args.char
             glob == report.args.glob
             most == report.args.limit
             filesOnly == report.args.filesOnly
             found == report.out
             asked == {p \in Paths :
                         /\ Entry(p).kind \in {"text", "binary", "large"}
                         /\ ~Hidden(p)
                         /\ \/ glob = <<>>
                            \/ MatchPattern(glob, p)}
             want == {p \in asked : /\ Entry(p).kind = "text"
                                    /\ char \in ToSet(content[p])}
  <1>1. GrepShows(found, asked, want, filesOnly) => GrepFindsVisible
    BY DEF GrepFindsVisible, GrepShows
  <1>2. /\ char \notin {"newline", "return"} /\ most \in Nat
        /\ filesOnly \in BOOLEAN
        /\ found = Grep(rules, mtime, content, <<>>, char, glob, most, filesOnly)
    OBVIOUS
  <1>3. asked = {p \in Paths :
                   /\ Entry(p).kind \in {"text", "binary", "large"}
                   /\ ~Hidden(p)
                   /\ \/ glob = <<>>
                      \/ MatchPattern(glob, p)}
    OBVIOUS
  <1>4. want = {p \in asked : /\ Entry(p).kind = "text"
                              /\ char \in ToSet(content[p])}
    OBVIOUS
  <1>5. /\ RulesOK(rules) /\ mtime \in [Paths -> Nat]
        /\ \A p \in Paths : content[p] \in Seq(Char)
    BY ContentTyped DEF FilesOK
  <1> HIDE DEF char, glob, most, filesOnly, found, asked, want, content
  <1>6. GrepShows(found, asked, want, filesOnly)
    BY <1>2, <1>3, <1>4, <1>5, GrepAnswers
  <1>7. report.args.start # File
    BY RootIsNotFile
  <1> QED BY <1>1, <1>6, <1>7 DEF Answered, NumbersAgree, GlobFindsVisible

LEMMA FileGrepAnswersTrue ==
  ASSUME report.op = "grep", report.args.start = File, text \in Seq(Char),
         report.args.char \notin {"newline", "return"},
         report.out = GrepFile(content, File, report.args.char)
  PROVE  Answered
  <1> DEFINE char == report.args.char
             found == report.out
  <1>1. char \notin {"newline", "return"} /\ found = GrepFile(content, File, char)
    OBVIOUS
  <1>2. {h.line : h \in ToSet(found.hits)}
           = {n \in DOMAIN SplitLines(text) :
                \E i \in DOMAIN text : text[i] = char /\ LineOf(text, i) = n}
    <2> HIDE DEF char, found
    <2> QED BY <1>1, FileGrepNames
  <1>3. NumbersAgree
    BY <1>2 DEF NumbersAgree
  <1>4. report.args.start # <<>>
    BY RootIsNotFile
  <1> QED BY <1>3, <1>4 DEF Answered, GlobFindsVisible, GrepFindsVisible

\* There is nothing to answer for before a call and after a read.
LEMMA NoAnswer ==
  ASSUME report.op \notin {"edit", "glob", "grep"}
  PROVE  Answered
  BY DEF Answered, NumbersAgree, GlobFindsVisible, GrepFindsVisible

\* An edit is later than every time that was recorded before.
LEMMA LaterThanAll ==
  ASSUME NEW time \in [Paths -> Nat]
  PROVE  Max(Range(time)) + 1 \in Nat
  <1> DEFINE T == Range(time)
             n == Cardinality(Paths)
             all == ByRecency(time, WalkOrder)
  <1>1. File \in Paths /\ DOMAIN time = Paths
    BY FileToolsAssumption
  <1>2. T = {time[p] : p \in Paths}
    BY <1>1 DEF Range
  <1>3. ToSet(WalkOrder) = Paths
    BY WalkFacts DEF Met, ToSet
  <1>4. n \in Nat
    BY PathsFinite, FS_CardinalityType
  <1>5. /\ all \in [1..n -> Paths] /\ ToSet(all) = Paths
        /\ \A i, j \in 1..n : i < j => time[all[i]] >= time[all[j]]
    <2>1. /\ ToSet(WalkOrder) \subseteq Paths
          /\ Cardinality(ToSet(WalkOrder)) = n
      BY <1>3
    <2> HIDE DEF n
    <2> QED BY <1>3, <1>4, <2>1, RecencyIs
  <1> HIDE DEF n, all
  <1>6. \A p \in Paths : \E i \in 1..n : all[i] = p
    BY <1>5 DEF ToSet
  <1>7. 1 \in 1..n
    BY <1>1, <1>4, <1>6
  <1> DEFINE last == time[all[1]]
  <1>8. last \in T /\ last \in Nat
    BY <1>2, <1>5, <1>7
  <1>9. ASSUME NEW m \in T PROVE m <= last
    <2>1. PICK p \in Paths : m = time[p]
      BY <1>2
    <2>2. PICK i \in 1..n : all[i] = p
      BY <1>6
    <2>3. CASE i = 1
      BY <2>1, <2>2, <2>3, <1>8
    <2>4. CASE 1 < i
      <3>1. last >= time[all[i]]
        BY <1>5, <1>7, <2>4
      <3> QED BY <2>1, <2>2, <3>1, <1>8
    <2>5. i \in Nat /\ i >= 1
      OBVIOUS
    <2> QED BY <2>3, <2>4, <2>5
  <1> HIDE DEF last
  <1>10. Max(T) \in T
    <2>1. T \in SUBSET Nat /\ T # {}
      BY <1>2, <1>8
    <2> HIDE DEF T
    <2> QED BY <1>8, <1>9, <2>1, MaxIsMax
  <1>11. T \subseteq Nat
    BY <1>2
  <1> QED BY <1>10, <1>11

LEMMA FilesKept ==
  FilesOK /\ [FileToolsNext]_fileVars => FilesOK'
  <1> SUFFICES ASSUME FilesOK, [FileToolsNext]_fileVars PROVE FilesOK'
    OBVIOUS
  <1> DEFINE Lines == [negate : BOOLEAN, rooted : BOOLEAN,
                       names : Seq(STRING), dirOnly : BOOLEAN]
  <1>1. /\ RulesOK(rules) /\ mtime \in [Paths -> Nat]
        /\ gitignore \in Seq(Lines)
    BY DEF FilesOK
  <1>2. ASSUME RulesOK(rules'), mtime' \in [Paths -> Nat],
               gitignore' \in Seq(Lines)
        PROVE  FilesOK'
    BY <1>2 DEF FilesOK
  <1>3. ASSUME UNCHANGED <<mtime, gitignore, rules>> PROVE FilesOK'
    BY <1>1, <1>2, <1>3
  <1>4. ASSUME NEW old, NEW new, NEW all, EditCall(old, new, all)
        PROVE  FilesOK'
    <2>1. /\ UNCHANGED <<gitignore, rules>>
          /\ \/ mtime' = mtime
             \/ mtime' = [mtime EXCEPT ![File] = Max(Range(mtime)) + 1]
      BY <1>4 DEF EditCall
    <2>2. Max(Range(mtime)) + 1 \in Nat
      BY <1>1, LaterThanAll
    <2> DEFINE next == Max(Range(mtime)) + 1
    <2> HIDE DEF next
    <2>3. mtime' \in [Paths -> Nat]
      <3>1. next \in Nat
        BY <2>2 DEF next
      <3>2. mtime' = mtime \/ mtime' = [mtime EXCEPT ![File] = next]
        BY <2>1 DEF next
      <3> QED BY <1>1, <3>1, <3>2
    <2> QED BY <1>1, <1>2, <2>1, <2>3
  <1>5. ASSUME NEW lines \in IgnoreFiles, WriteIgnore(lines) PROVE FilesOK'
    <2>1. gitignore' \in Seq(Lines)
      BY <1>5, FileToolsAssumption DEF WriteIgnore
    <2> QED BY <1>1, <1>2, <1>5, <2>1 DEF WriteIgnore
  <1>6. CASE Adopt
    <2>1. RulesOK(LoadIgnore(gitignore))
      <3>1. \A l \in Lines : l.negate \in BOOLEAN
        OBVIOUS
      <3> HIDE DEF Lines
      <3> QED BY <1>1, <3>1, RulesTyped
    <2> QED BY <1>1, <1>2, <1>6, <2>1 DEF Adopt
  <1>7. CASE UNCHANGED fileVars
    BY <1>3, <1>7 DEF fileVars
  <1>8. ASSUME NEW offset, NEW limit, ReadCall(offset, limit) PROVE FilesOK'
    BY <1>3, <1>8 DEF ReadCall
  <1>9. ASSUME NEW start, NEW pattern, NEW limit,
               GlobCall(start, pattern, limit)
        PROVE  FilesOK'
    BY <1>3, <1>9 DEF GlobCall
  <1>10. ASSUME NEW start, NEW glob, NEW limit, NEW filesOnly,
               GrepCall(start, "x", glob, limit, filesOnly)
         PROVE  FilesOK'
    BY <1>3, <1>10 DEF GrepCall
  <1>11. CASE Deliver
    BY <1>3, <1>11 DEF Deliver
  <1> QED
    BY <1>4, <1>5, <1>6, <1>7, <1>8, <1>9, <1>10, <1>11 DEF FileToolsNext

LEMMA AnswersKept ==
  /\ EditSound /\ FilesOK /\ Answered /\ [FileToolsNext]_fileVars
  => Answered'
  <1> SUFFICES ASSUME EditSound, FilesOK, Answered,
                      [FileToolsNext]_fileVars
               PROVE  Answered'
    OBVIOUS
  <1>1. text \in Seq(Char) /\ text' \in Seq(Char) /\ FilesOK'
    BY EditSoundKept, FilesKept DEF EditSound
  <1>2. ASSUME report'.op \notin {"edit", "glob", "grep"}
        PROVE  Answered'
    <2>1. (report.op \notin {"edit", "glob", "grep"} => Answered)'
      BY NoAnswer, PTL
    <2> QED BY <1>2, <2>1
  <1>3. CASE UNCHANGED fileVars
    <2>1. report' = report /\ text' = text /\ rules' = rules /\ mtime' = mtime
      BY <1>3 DEF fileVars
    <2>2. content' = content
      BY <2>1 DEF content
    <2>3. NumbersAgree'
      BY <2>1 DEF Answered, NumbersAgree
    <2>4. \A p : Hidden(p)' = Hidden(p)
      BY <2>1 DEF Hidden
    <2>5. \A found : Sorted(found)' = Sorted(found)
      BY <2>1 DEF Sorted
    <2>6. GlobFindsVisible'
      BY <2>1, <2>4, <2>5 DEF Answered, GlobFindsVisible
    <2>7. GrepFindsVisible'
      BY <2>1, <2>2, <2>4, <2>5 DEF Answered, GrepFindsVisible
    <2> QED BY <2>3, <2>6, <2>7 DEF Answered
  <1>4. ASSUME NEW offset, NEW limit, ReadCall(offset, limit)
        PROVE  Answered'
    BY <1>2, <1>4 DEF ReadCall, Told
  <1>5. ASSUME NEW old \in OldTexts, NEW new \in NewTexts, NEW all \in BOOLEAN,
               EditCall(old, new, all)
        PROVE  Answered'
    <2> DEFINE res == Edit(text, old, new, all)
    <2>1. old \in Seq(Char) /\ new \in Seq(Char)
      BY FileToolsAssumption
    <2>2. NamesLines(text, old, res)
      BY <1>1, <2>1, EditNamesLines
    <2>3. report' = Told("edit", [was |-> text, old |-> old, new |-> new,
                                  all |-> all], res)
      BY <1>5 DEF EditCall
    <2> HIDE DEF res
    <2>4. /\ report'.op = "edit" /\ report'.out = res
          /\ report'.args.was = text /\ report'.args.old = old
      BY <2>3 DEF Told
    <2>5. (report.op = "edit" /\ NamesLines(report.args.was, report.args.old,
                                            report.out)
            => Answered)'
      BY EditAnswersTrue, PTL
    <2>6. NamesLines(report.args.was, report.args.old, report.out)'
      BY <2>2, <2>4 DEF NamesLines, BeginsIn
    <2> QED BY <2>4, <2>5, <2>6
  <1>6. ASSUME NEW start, NEW pattern, NEW limit \in Nat,
               GlobCall(start, pattern, limit)
        PROVE  Answered'
    <2> DEFINE res == Glob(rules, mtime, start, pattern, limit)
    <2>1. /\ report' = Told("glob", [start |-> start, pattern |-> pattern,
                                     limit |-> limit], res)
          /\ rules' = rules /\ mtime' = mtime
      BY <1>6 DEF GlobCall
    <2>2. res = Glob(rules', mtime', start, pattern, limit)
      BY <2>1
    <2> HIDE DEF res
    <2>3. /\ report'.op = "glob" /\ report'.out = res
          /\ report'.args.start = start /\ report'.args.pattern = pattern
          /\ report'.args.limit = limit
      BY <2>1 DEF Told
    <2>4. (report.op = "glob" /\ FilesOK /\ report.args.limit \in Nat
             /\ report.out = Glob(rules, mtime, report.args.start,
                                  report.args.pattern, report.args.limit)
            => Answered)'
      BY GlobAnswersTrue, PTL
    <2>5. report'.out = Glob(rules', mtime', report'.args.start,
                             report'.args.pattern, report'.args.limit)
      BY <2>2, <2>3
    <2> QED BY <1>1, <1>6, <2>3, <2>4, <2>5
  <1>7. ASSUME NEW start \in {<<>>, File}, NEW glob, NEW limit \in Nat,
               NEW filesOnly \in BOOLEAN,
               GrepCall(start, "x", glob, limit, filesOnly)
        PROVE  Answered'
    <2> DEFINE res == IF start \in Directories
                      THEN Grep(rules, mtime, content, start, "x", glob, limit,
                                filesOnly)
                      ELSE GrepFile(content, start, "x")
    <2>1. /\ report' = Told("grep", [start |-> start, char |-> "x",
                              glob |-> glob, limit |-> limit,
                              filesOnly |-> filesOnly], res)
          /\ rules' = rules /\ mtime' = mtime /\ text' = text
      BY <1>7 DEF GrepCall
    <2>2. content' = content
      BY <2>1 DEF content
    <2>3. /\ report'.op = "grep" /\ report'.out = res
          /\ report'.args.start = start /\ report'.args.char = "x"
          /\ report'.args.glob = glob /\ report'.args.limit = limit
          /\ report'.args.filesOnly = filesOnly
      <3> HIDE DEF res
      <3> QED BY <2>1 DEF Told
    <2>4. CASE start = <<>>
      <3>1. res = Grep(rules', mtime', content', <<>>, "x", glob, limit,
                       filesOnly)
        BY <2>1, <2>2, <2>4 DEF Directories
      <3> HIDE DEF res
      <3>2. (report.op = "grep" /\ report.args.start = <<>>
               /\ FilesOK /\ text \in Seq(Char)
               /\ report.args.char \notin {"newline", "return"}
               /\ report.args.limit \in Nat /\ report.args.filesOnly \in BOOLEAN
               /\ report.out = Grep(rules, mtime, content, <<>>,
                                    report.args.char, report.args.glob,
                                    report.args.limit, report.args.filesOnly)
              => Answered)'
        BY GrepAnswersTrue, PTL
      <3>3. report'.out = Grep(rules', mtime', content', <<>>,
                               report'.args.char, report'.args.glob,
                               report'.args.limit, report'.args.filesOnly)
        BY <2>3, <3>1
      <3> QED BY <1>1, <1>7, <2>3, <2>4, <3>2, <3>3
    <2>5. CASE start = File
      <3>1. res = GrepFile(content', File, "x")
        BY <2>2, <2>5, RootIsNotFile
      <3> HIDE DEF res
      <3>2. (report.op = "grep" /\ report.args.start = File
               /\ text \in Seq(Char)
               /\ report.args.char \notin {"newline", "return"}
               /\ report.out = GrepFile(content, File, report.args.char)
              => Answered)'
        BY FileGrepAnswersTrue, PTL
      <3>3. report'.out = GrepFile(content', File, report'.args.char)
        BY <2>3, <3>1
      <3> QED BY <1>1, <2>3, <2>5, <3>2, <3>3
    <2> QED BY <1>7, <2>4, <2>5
  <1>8. ASSUME NEW lines, WriteIgnore(lines) PROVE Answered'
    BY <1>2, <1>8 DEF WriteIgnore, Nothing, Told
  <1>9. CASE Deliver
    BY <1>2, <1>9 DEF Deliver, Nothing, Told
  <1>10. CASE Adopt
    BY <1>2, <1>10 DEF Adopt, Nothing, Told
  <1>11. /\ \A limit \in {0, GlobMaxLimit + 1} : limit \in Nat
         /\ \A limit \in {0, 1} : limit \in Nat
    BY SearchAssumption
  <1> QED
    BY <1>3, <1>4, <1>5, <1>6, <1>7, <1>8, <1>9, <1>10, <1>11 DEF FileToolsNext

\* What the tools answer is so, for every workspace, every .gitignore and every
\* text, and however edits, restarts and searches follow one another: glob and
\* grep find what is there and not hidden, newest first, and tell of what they
\* hold back; the lines that edit and grep name are those that read shows
\* (glob.go:131-228, grep.go:166-329, edit.go:150-183).
THEOREM AnswersTrue == FileToolsSpec => []AnswersAreTrue
  <1>1. FileToolsInit => EditSound /\ FilesOK /\ Answered
    <2> SUFFICES ASSUME FileToolsInit
                 PROVE  EditSound /\ FilesOK /\ Answered
      OBVIOUS
    <2>1. text \in Seq(Char) /\ report.op = "none"
      BY FileToolsAssumption DEF FileToolsInit, Nothing, Told
    <2> DEFINE Lines == [negate : BOOLEAN, rooted : BOOLEAN,
                         names : Seq(STRING), dirOnly : BOOLEAN]
    <2>2. /\ rules = LoadIgnore(gitignore) /\ gitignore \in Seq(Lines)
          /\ mtime \in [Paths -> Nat]
      BY DEF FileToolsInit
    <2>3. RulesOK(LoadIgnore(gitignore))
      <3>1. \A l \in Lines : l.negate \in BOOLEAN
        OBVIOUS
      <3> HIDE DEF Lines
      <3> QED BY <2>2, <3>1, RulesTyped
    <2>4. FilesOK
      BY <2>2, <2>3 DEF FilesOK
    <2>5. EditSound
      BY <2>1 DEF EditSound, EditIsExact
    <2>6. Answered
      BY <2>1, NoAnswer
    <2> QED BY <2>4, <2>5, <2>6
  <1>2. Answered => AnswersAreTrue
    BY DEF Answered, AnswersAreTrue
  <1> QED BY <1>1, <1>2, EditSoundKept, FilesKept, AnswersKept, PTL
         DEF FileToolsSpec
=============================================================================
