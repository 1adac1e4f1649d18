---------------------------- MODULE SurveyProofs ----------------------------
(***************************************************************************)
(* Theorems about Survey, for any entries, meshes, networks and surveys.    *)
(***************************************************************************)
EXTENDS Survey, FiniteSetTheorems, TLAPS

\* A radio is one that a device of the mesh has by the name it is listed under.
Rightful(e) == UNION {Expand(d, d.model) : d \in DevicesOf(e)}

Shape == /\ radios \in [Entries -> SUBSET Radio]
         /\ answered \in [Entries -> SUBSET Radio]
         /\ DOMAIN probes = Entries
         /\ \A e \in Entries : /\ radios[e] \subseteq Rightful(e)
                               /\ DOMAIN probes[e] = Probes

\* What is posted, and what is stored, is a survey in full.
SentAs(rows) == [networks |-> Stored[Posts[rows]], of |-> rows]

Origins == /\ \A q \in Posted : q.of = sent /\ sent \in Surveys /\ q.payload = Posts[sent]
           /\ \A e \in Entries :
                 Report(e) # None => \E rows \in Surveys : Report(e) = SentAs(rows)

SurveyInv == TypeOK /\ Shape /\ Origins
-----------------------------------------------------------------------------
(* Sorting by a strict total order.                                        *)

\* What precedes an element also precedes what the element precedes.
LEMMA FrontGrows ==
  ASSUME NEW S, IsFiniteSet(S), NEW R, IsStrictOrder(S, R),
         NEW x \in S, NEW y \in S, <<x, y>> \in R
  PROVE  Cardinality(Preceding(S, R, x)) < Cardinality(Preceding(S, R, y))
<1>1. /\ Preceding(S, R, x) \subseteq Preceding(S, R, y) \ {x}
      /\ x \in Preceding(S, R, y) /\ Preceding(S, R, y) \subseteq S
  BY DEF Preceding, IsStrictOrder
<1>2. IsFiniteSet(Preceding(S, R, y))
  BY <1>1, FS_Subset
<1>3. /\ IsFiniteSet(Preceding(S, R, y) \ {x})
      /\ Cardinality(Preceding(S, R, y) \ {x}) = Cardinality(Preceding(S, R, y)) - 1
  BY <1>1, <1>2, FS_RemoveElement
<1>4. Cardinality(Preceding(S, R, x)) <= Cardinality(Preceding(S, R, y)) - 1
  BY <1>1, <1>3, FS_Subset
<1>5. /\ Cardinality(Preceding(S, R, x)) \in Nat
      /\ Cardinality(Preceding(S, R, y)) \in Nat
  BY <1>1, <1>2, <1>3, FS_Subset, FS_CardinalityType
<1>6. QED
  BY <1>4, <1>5

\* As many elements as precede it, each element precedes by one.
LEMMA Ranks ==
  ASSUME NEW S, IsFiniteSet(S), NEW R, IsStrictOrder(S, R)
  PROVE  /\ Cardinality(S) \in Nat
         /\ \A x \in S : Cardinality(Preceding(S, R, x)) \in 0..(Cardinality(S) - 1)
         /\ \A k \in 1..Cardinality(S) : \E x \in S : Cardinality(Preceding(S, R, x)) = k - 1
<1> DEFINE n == Cardinality(S)
           rank == [x \in S |-> Cardinality(Preceding(S, R, x)) + 1]
<1>1. n \in Nat
  BY FS_CardinalityType
<1>2. ASSUME NEW x \in S
      PROVE  Cardinality(Preceding(S, R, x)) \in 0..(n - 1)
  <2>1. Preceding(S, R, x) \subseteq S /\ x \notin Preceding(S, R, x)
    BY DEF Preceding, IsStrictOrder
  <2>2. /\ IsFiniteSet(Preceding(S, R, x))
        /\ Cardinality(Preceding(S, R, x)) <= n
        /\ n # Cardinality(Preceding(S, R, x))
    BY <2>1, FS_Subset
  <2>3. Cardinality(Preceding(S, R, x)) \in Nat
    BY <2>2, FS_CardinalityType
  <2>4. QED
    BY <1>1, <2>2, <2>3
<1>3. rank \in [S -> 1..n]
  BY <1>1, <1>2
<1>4. \A x, y \in S : rank[x] = rank[y] => x = y
  <2> SUFFICES ASSUME NEW x \in S, NEW y \in S, rank[x] = rank[y], x # y
               PROVE  FALSE
    OBVIOUS
  <2>1. Cardinality(Preceding(S, R, x)) = Cardinality(Preceding(S, R, y))
    BY <1>1, <1>2
  <2>2. <<x, y>> \in R \/ <<y, x>> \in R
    BY DEF IsStrictOrder
  <2>3. QED
    BY <2>1, <2>2, <1>2, FrontGrows
<1>5. IsFiniteSet(1..n) /\ Cardinality(1..n) = n
  BY <1>1, FS_Interval
<1>6. rank \in Surjection(S, 1..n)
  <2> HIDE DEF rank, n
  <2>1. rank \in Injection(S, 1..n)
    BY <1>3, <1>4 DEF Injection, IsInjective
  <2>2. Cardinality(S) = Cardinality(1..n)
    BY <1>5 DEF n
  <2>3. QED
    BY <2>1, <2>2, <1>5, FS_Injection
<1>7. ASSUME NEW k \in 1..n
      PROVE  \E x \in S : Cardinality(Preceding(S, R, x)) = k - 1
  <2>1. PICK x \in S : rank[x] = k
    BY <1>6 DEF Surjection
  <2>2. QED
    BY <2>1, <1>1, <1>2
<1>8. QED
  BY <1>1, <1>2, <1>7

\* Sorting yields every element once, and in order.
LEMMA Sorting ==
  ASSUME NEW S, IsFiniteSet(S), NEW R, IsStrictOrder(S, R)
  PROVE  /\ Cardinality(S) \in Nat
         /\ InOrder(S, R) \in [1..Cardinality(S) -> S]
         /\ \A x \in S : \E k \in 1..Cardinality(S) : InOrder(S, R)[k] = x
         /\ \A i, j \in 1..Cardinality(S) :
               i < j => <<InOrder(S, R)[i], InOrder(S, R)[j]>> \in R
<1> DEFINE n == Cardinality(S)
           order == InOrder(S, R)
<1>1. n \in Nat
  BY Ranks
<1>2. \A k \in 1..n : order[k] \in S /\ Cardinality(Preceding(S, R, order[k])) = k - 1
  BY Ranks DEF InOrder
<1>3. order \in [1..n -> S]
  BY <1>2 DEF InOrder
<1>4. \A x \in S : Cardinality(Preceding(S, R, x)) \in 0..(n - 1)
  BY Ranks
<1> HIDE DEF n, order
<1>5. ASSUME NEW x \in S
      PROVE  \E k \in 1..n : order[k] = x
  <2> DEFINE k == Cardinality(Preceding(S, R, x)) + 1
  <2>1. k \in 1..n /\ Cardinality(Preceding(S, R, x)) = k - 1
    BY <1>1, <1>4
  <2> HIDE DEF k
  <2>2. Cardinality(Preceding(S, R, order[k])) = Cardinality(Preceding(S, R, x)) /\ order[k] \in S
    BY <2>1, <1>2
  <2>3. Cardinality(Preceding(S, R, x)) \in Nat
    BY <1>1, <1>4
  <2>4. ASSUME order[k] # x PROVE FALSE
    <3>1. <<order[k], x>> \in R \/ <<x, order[k]>> \in R
      BY <2>2, <2>4 DEF IsStrictOrder
    <3>2. QED
      BY <2>2, <2>3, <3>1, FrontGrows
  <2>5. QED
    BY <2>1, <2>4
<1>6. ASSUME NEW i \in 1..n, NEW j \in 1..n, i < j
      PROVE  <<order[i], order[j]>> \in R
  <2>1. /\ Cardinality(Preceding(S, R, order[i])) = i - 1
        /\ Cardinality(Preceding(S, R, order[j])) = j - 1
        /\ order[i] \in S /\ order[j] \in S
    BY <1>2
  <2>2. order[i] # order[j]
    BY <1>6, <2>1, <1>1
  <2>3. CASE <<order[j], order[i]>> \in R
    <3>1. Cardinality(Preceding(S, R, order[j])) < Cardinality(Preceding(S, R, order[i]))
      BY <2>1, <2>3, FrontGrows
    <3>2. QED
      BY <1>1, <1>6, <2>1, <3>1
  <2>4. QED
    BY <2>1, <2>2, <2>3 DEF IsStrictOrder
<1>7. QED
  BY <1>1, <1>3, <1>5, <1>6 DEF n, order

\* A finite set has a first element.
LEMMA First ==
  ASSUME NEW S, IsFiniteSet(S), S # {}, NEW R, IsStrictOrder(S, R)
  PROVE  \E m \in S : \A x \in S : x = m \/ <<m, x>> \in R
<1> DEFINE n == Cardinality(S)
           order == InOrder(S, R)
<1>1. /\ n \in Nat /\ order \in [1..n -> S]
      /\ \A x \in S : \E k \in 1..n : order[k] = x
      /\ \A i, j \in 1..n : i < j => <<order[i], order[j]>> \in R
  BY Sorting
<1> HIDE DEF n, order
<1>2. 1 \in 1..n /\ \A k \in 1..n : k = 1 \/ 1 < k
  BY <1>1
<1>3. order[1] \in S
  BY <1>1, <1>2
<1>4. \A x \in S : x = order[1] \/ <<order[1], x>> \in R
  BY <1>1, <1>2
<1>5. QED
  BY <1>3, <1>4
-----------------------------------------------------------------------------
(* The networks of a survey.                                               *)

\* The indices of a list.
LEMMA Indices ==
  ASSUME NEW D, NEW rows \in Seq(D)
  PROVE  /\ Len(rows) \in Nat /\ DOMAIN rows = 1..Len(rows)
         /\ IsFiniteSet(DOMAIN rows)
         /\ \A S \in SUBSET DOMAIN rows : IsFiniteSet(S)
<1>1. Len(rows) \in Nat /\ DOMAIN rows = 1..Len(rows)
  OBVIOUS
<1>2. IsFiniteSet(1..Len(rows))
  BY <1>1, FS_Interval
<1>3. QED
  BY <1>1, <1>2, FS_Subset

LEMMA PlaceIsFirst ==
  ASSUME NEW D, NEW rows \in Seq(D), NEW i \in WellFormed(rows)
  PROVE  /\ Place(rows, i) \in Repeats(rows, i)
         /\ Place(rows, i) \in Nat
<1> DEFINE Less == {p \in Nat \X Nat : p[1] < p[2]}
<1>1. i \in Repeats(rows, i) /\ Repeats(rows, i) \subseteq DOMAIN rows
  BY DEF Repeats, WellFormed
<1>2. IsFiniteSet(Repeats(rows, i)) /\ Repeats(rows, i) \subseteq Nat
  BY <1>1, Indices
<1>3. IsStrictOrder(Repeats(rows, i), Less)
  BY <1>2 DEF IsStrictOrder
<1>4. \A x, y : <<x, y>> \in Less => x \in Nat /\ y \in Nat /\ x < y
  OBVIOUS
<1> HIDE DEF Less
<1>5. PICK m \in Repeats(rows, i) : \A x \in Repeats(rows, i) : x = m \/ <<m, x>> \in Less
  BY <1>1, <1>2, <1>3, First
<1>6. ASSUME NEW k \in Repeats(rows, i) PROVE m <= k
  <2>1. k = m \/ m < k
    BY <1>4, <1>5
  <2>2. k \in Nat /\ m \in Nat
    BY <1>2
  <2>3. QED
    BY <2>1, <2>2
<1>7. Place(rows, i) \in Repeats(rows, i)
  BY <1>5, <1>6 DEF Place
<1>8. QED
  BY <1>2, <1>7

\* Sorting the rows of different networks loses none, and orders them by signal.
LEMMA SortedList ==
  ASSUME NEW D, NEW rows \in Seq(D), \A i \in WellFormed(rows) : rows[i].signal \in Int,
         NEW kept, kept \subseteq WellFormed(rows),
         \A i, j \in kept : rows[i].bssid = rows[j].bssid => i = j
  PROVE  LET list == Sorted(rows, kept)
             n    == Cardinality(kept)
         IN  /\ n \in Nat /\ list \in [1..n -> {rows[i] : i \in kept}]
             /\ \A i \in kept : \E k \in 1..n : list[k] = rows[i]
             /\ \A i, j \in 1..n : i < j => /\ list[i].bssid # list[j].bssid
                                            /\ list[i].signal >= list[j].signal
<1> DEFINE n == Cardinality(kept)
           Before == {p \in kept \X kept : Precedes(rows, p[1], p[2])}
           order == InOrder(kept, Before)
           list == Sorted(rows, kept)
<1>1. IsFiniteSet(kept)
  BY Indices DEF WellFormed
<1>2. \A i \in kept : Place(rows, i) \in Nat /\ rows[i].signal \in Int
  BY PlaceIsFirst
<1>3. \A i, j \in kept : <<i, j>> \in Before <=> Precedes(rows, i, j)
  OBVIOUS
<1>4. \A i, j \in kept : Place(rows, i) = Place(rows, j) => i = j
  BY PlaceIsFirst DEF Repeats
<1>5. IsStrictOrder(kept, Before)
  <2> HIDE DEF Before
  <2>1. \A x \in kept : <<x, x>> \notin Before
    BY <1>2, <1>3 DEF Precedes
  <2>2. ASSUME NEW x \in kept, NEW y \in kept, x # y
        PROVE  <<x, y>> \in Before \/ <<y, x>> \in Before
    <3>1. Place(rows, x) # Place(rows, y)
      BY <1>4, <2>2
    <3>2. Precedes(rows, x, y) \/ Precedes(rows, y, x)
      BY <1>2, <3>1 DEF Precedes
    <3>3. QED
      BY <1>3, <3>2
  <2>3. \A x, y, z \in kept : <<x, y>> \in Before /\ <<y, z>> \in Before => <<x, z>> \in Before
    BY <1>2, <1>3 DEF Precedes
  <2>4. QED
    BY <2>1, <2>2, <2>3 DEF IsStrictOrder
<1>6. list = [k \in DOMAIN order |-> rows[order[k]]]
  BY DEF Sorted
<1> HIDE DEF Before
<1>7. /\ n \in Nat /\ order \in [1..n -> kept]
      /\ \A x \in kept : \E k \in 1..n : order[k] = x
      /\ \A i, j \in 1..n : i < j => <<order[i], order[j]>> \in Before
  BY <1>1, <1>5, Sorting
<1> HIDE DEF order, n, list
<1>8. \A k \in 1..n : list[k] = rows[order[k]] /\ order[k] \in kept
  BY <1>6, <1>7
<1>9. list \in [1..n -> {rows[i] : i \in kept}]
  BY <1>6, <1>7
<1>10. \A i \in kept : \E k \in 1..n : list[k] = rows[i]
  BY <1>7, <1>8
<1>11. ASSUME NEW i \in 1..n, NEW j \in 1..n, i < j
       PROVE  /\ list[i].bssid # list[j].bssid
              /\ list[i].signal >= list[j].signal
  <2>1. Precedes(rows, order[i], order[j])
    BY <1>3, <1>7, <1>8, <1>11
  <2>2. rows[order[i]].signal \in Int /\ rows[order[j]].signal \in Int
    BY <1>2, <1>8
  <2>3. rows[order[i]].signal >= rows[order[j]].signal
    BY <2>1, <2>2 DEF Precedes
  <2>4. order[i] # order[j]
    BY <2>1, <2>2, <1>2, <1>8 DEF Precedes
  <2>5. rows[order[i]].bssid # rows[order[j]].bssid
    BY <2>4, <1>8
  <2>6. QED
    BY <2>3, <2>5, <1>8
<1>12. QED
  BY <1>7, <1>9, <1>10, <1>11 DEF n, list

\* The rows that are the best of their networks.
LEMMA BestOfEach ==
  ASSUME NEW D, NEW rows \in Seq(D), \A i \in WellFormed(rows) : rows[i].signal \in Int
  PROVE  /\ Best(rows) \subseteq WellFormed(rows)
         /\ \A i, j \in Best(rows) : rows[i].bssid = rows[j].bssid => i = j
         /\ \A i \in WellFormed(rows) :
               \E b \in Best(rows) : /\ rows[b].bssid = rows[i].bssid
                                     /\ rows[b].signal >= rows[i].signal
<1>1. WellFormed(rows) \subseteq DOMAIN rows /\ DOMAIN rows \subseteq Nat
  BY Indices DEF WellFormed
<1>2. ASSUME NEW i \in Best(rows), NEW j \in Best(rows), rows[i].bssid = rows[j].bssid
      PROVE  i = j
  <2>1. i \in WellFormed(rows) /\ j \in WellFormed(rows)
    BY DEF Best
  <2>2. j \in Repeats(rows, i) /\ i \in Repeats(rows, j)
    BY <1>2, <2>1 DEF Repeats
  <2>3. /\ rows[i].signal > rows[j].signal \/ (rows[i].signal = rows[j].signal /\ i <= j)
        /\ rows[j].signal > rows[i].signal \/ (rows[j].signal = rows[i].signal /\ j <= i)
    BY <2>2 DEF Best
  <2>4. i \in Nat /\ j \in Nat /\ rows[i].signal \in Int /\ rows[j].signal \in Int
    BY <1>1, <2>1
  <2>5. QED
    BY <2>3, <2>4
<1>3. ASSUME NEW i \in WellFormed(rows)
      PROVE  \E b \in Best(rows) : /\ rows[b].bssid = rows[i].bssid
                                   /\ rows[b].signal >= rows[i].signal
  <2> DEFINE same == Repeats(rows, i)
             Before == {p \in same \X same : \/ rows[p[1]].signal > rows[p[2]].signal
                                             \/ /\ rows[p[1]].signal = rows[p[2]].signal
                                                /\ p[1] < p[2]}
  <2>1. i \in same /\ same \subseteq WellFormed(rows)
    BY DEF Repeats
  <2>2. IsFiniteSet(same)
    BY <1>1, <2>1, Indices
  <2>3. \A x \in same : x \in Nat /\ rows[x].signal \in Int /\ rows[x].bssid = rows[i].bssid
    BY <1>1, <2>1 DEF Repeats
  <2>4. \A x, y \in same : <<x, y>> \in Before <=> \/ rows[x].signal > rows[y].signal
                                                   \/ (rows[x].signal = rows[y].signal /\ x < y)
    OBVIOUS
  <2> HIDE DEF same, Before
  <2>5. IsStrictOrder(same, Before)
    <3>1. \A x \in same : <<x, x>> \notin Before
      BY <2>3, <2>4
    <3>2. ASSUME NEW x \in same, NEW y \in same, x # y
          PROVE  <<x, y>> \in Before \/ <<y, x>> \in Before
      <4>1. x < y \/ y < x
        BY <2>3, <3>2
      <4>2. CASE rows[x].signal = rows[y].signal
        BY <2>4, <4>1, <4>2
      <4>3. CASE rows[x].signal # rows[y].signal
        BY <2>3, <2>4, <4>3
      <4>4. QED
        BY <4>2, <4>3
    <3>3. \A x, y, z \in same : <<x, y>> \in Before /\ <<y, z>> \in Before => <<x, z>> \in Before
      BY <2>3, <2>4
    <3>4. QED
      BY <3>1, <3>2, <3>3 DEF IsStrictOrder
  <2>6. PICK b \in same : \A x \in same : x = b \/ <<b, x>> \in Before
    BY <2>1, <2>2, <2>5, First
  <2>7. ASSUME NEW x \in same
        PROVE  rows[b].signal > rows[x].signal \/ (rows[b].signal = rows[x].signal /\ b <= x)
    <3>1. x = b \/ rows[b].signal > rows[x].signal \/ (rows[b].signal = rows[x].signal /\ b < x)
      BY <2>4, <2>6
    <3>2. QED
      BY <2>3, <3>1
  <2>8. Repeats(rows, b) = same
    BY <2>1, <2>3 DEF Repeats, same
  <2>9. b \in Best(rows)
    BY <2>1, <2>7, <2>8 DEF Best
  <2>10. rows[b].signal >= rows[i].signal /\ rows[b].bssid = rows[i].bssid
    BY <2>1, <2>3, <2>7
  <2>11. QED
    BY <2>9, <2>10
<1>4. QED
  BY <1>2, <1>3 DEF Best

\* The best of what was seen, as far as it is stored.
Strongest(list, rows) ==
    /\ \A i, j \in DOMAIN list : i < j => /\ list[i].bssid # list[j].bssid
                                          /\ list[i].signal >= list[j].signal
    /\ \A i \in WellFormed(rows) :
          \/ \E n \in ToSet(list) : n.bssid = rows[i].bssid /\ n.signal >= rows[i].signal
          \/ /\ Len(list) = MaxNetworks
             /\ \A n \in ToSet(list) : n.signal >= rows[i].signal

\* What the collector posts.
LEMMA PostedList ==
  ASSUME NEW D, NEW rows \in Seq(D), \A i \in WellFormed(rows) : rows[i].signal \in Int
  PROVE  /\ Payload(rows) \in Seq({rows[i] : i \in WellFormed(rows)})
         /\ Len(Payload(rows)) <= MaxNetworks
         /\ Strongest(Payload(rows), rows)
<1> DEFINE all == Sorted(rows, Best(rows))
           kinds == {rows[i] : i \in WellFormed(rows)}
           n == Cardinality(Best(rows))
           list == Payload(rows)
<1>1. /\ n \in Nat /\ all \in [1..n -> {rows[i] : i \in Best(rows)}]
      /\ \A i \in Best(rows) : \E k \in 1..n : all[k] = rows[i]
      /\ \A i, j \in 1..n : i < j => all[i].bssid # all[j].bssid /\ all[i].signal >= all[j].signal
  BY BestOfEach, SortedList
<1>2. all \in [1..n -> kinds]
  BY <1>1, BestOfEach
<1>3. ASSUME NEW i \in WellFormed(rows)
      PROVE  \E k \in 1..n : all[k].bssid = rows[i].bssid /\ all[k].signal >= rows[i].signal
  <2>1. PICK b \in Best(rows) : rows[b].bssid = rows[i].bssid /\ rows[b].signal >= rows[i].signal
    BY BestOfEach
  <2>2. PICK k \in 1..n : all[k] = rows[b]
    BY <1>1
  <2>3. QED
    BY <2>1, <2>2
<1>4. \A k \in 1..n : all[k].signal \in Int
  BY <1>2
<1>5. \A i \in WellFormed(rows) : rows[i].signal \in Int
  OBVIOUS
<1>6. list = IF Len(all) > MaxNetworks THEN SubSeq(all, 1, MaxNetworks) ELSE all
  BY DEF Payload, Bounded
<1> HIDE DEF all, kinds, n, list
<1>7. all \in Seq(kinds) /\ Len(all) = n /\ DOMAIN all = 1..n
  BY <1>1, <1>2
<1>8. MaxNetworks \in Nat
  BY MaxNetworksAssumption
<1>9. CASE n > MaxNetworks
  <2>1. /\ list \in Seq(kinds) /\ Len(list) = MaxNetworks /\ DOMAIN list = 1..MaxNetworks
        /\ \A k \in 1..MaxNetworks : list[k] = all[k]
    <3>1. list = SubSeq(all, 1, MaxNetworks) /\ n \in Nat
      BY <1>1, <1>6, <1>7, <1>9
    <3>2. SubSeq(all, 1, MaxNetworks) = [k \in 1..MaxNetworks |-> all[k]]
      BY <1>8
    <3>3. \A k \in 1..MaxNetworks : k \in 1..n
      BY <1>8, <1>9, <3>1
    <3>4. \A k \in 1..MaxNetworks : all[k] \in kinds
      BY <1>2, <3>3
    <3>5. QED
      BY <1>8, <3>1, <3>2, <3>4
  <2>2. \A i, j \in 1..MaxNetworks :
           i < j => list[i].bssid # list[j].bssid /\ list[i].signal >= list[j].signal
    BY <1>1, <1>8, <1>9, <2>1
  <2>3. ASSUME NEW i \in WellFormed(rows)
        PROVE  \/ \E m \in ToSet(list) : m.bssid = rows[i].bssid /\ m.signal >= rows[i].signal
               \/ \A m \in ToSet(list) : m.signal >= rows[i].signal
    <3>1. PICK k \in 1..n : all[k].bssid = rows[i].bssid /\ all[k].signal >= rows[i].signal
      BY <1>3
    <3>2. CASE k <= MaxNetworks
      <4>1. k \in 1..MaxNetworks
        BY <1>1, <1>8, <3>2
      <4>2. list[k] \in ToSet(list) /\ list[k] = all[k]
        BY <2>1, <4>1 DEF ToSet
      <4>3. QED
        BY <3>1, <4>2
    <3>3. CASE ~ (k <= MaxNetworks)
      <4>1. ASSUME NEW j \in 1..MaxNetworks
            PROVE  list[j].signal >= rows[i].signal
        <5>1. j \in 1..n /\ j < k
          BY <1>1, <1>8, <1>9, <3>3
        <5>2. all[j].signal >= all[k].signal
          BY <1>1, <5>1
        <5>3. QED
          BY <1>4, <1>5, <2>1, <3>1, <5>1, <5>2
      <4>2. QED
        BY <2>1, <4>1 DEF ToSet
    <3>4. QED
      BY <3>2, <3>3
  <2>4. QED
    BY <1>8, <2>1, <2>2, <2>3 DEF Strongest, list, kinds
<1>10. CASE ~ (n > MaxNetworks)
  <2>1. list = all
    BY <1>6, <1>7, <1>10
  <2>2. \A i \in WellFormed(rows) :
           \E m \in ToSet(all) : m.bssid = rows[i].bssid /\ m.signal >= rows[i].signal
    BY <1>3, <1>7 DEF ToSet
  <2>3. QED
    BY <1>1, <1>7, <1>8, <1>10, <2>1, <2>2 DEF Strongest, list, kinds
<1>11. QED
  BY <1>9, <1>10

\* What the integration makes of it: the same networks, still in order.
LEMMA StoredList ==
  ASSUME NEW D, NEW rows \in Seq(D), \A i \in WellFormed(rows) : rows[i].signal \in Int
  PROVE  /\ Parsed(Payload(rows)) \in Seq({rows[i] : i \in WellFormed(rows)})
         /\ Strongest(Parsed(Payload(rows)), rows)
<1> DEFINE kinds == {rows[i] : i \in WellFormed(rows)}
           list == Payload(rows)
           n == Len(list)
           first == {i \in DOMAIN list : \A j \in 1..(i - 1) : list[j].bssid # list[i].bssid}
           all == Sorted(list, DOMAIN list)
<1>1. list \in Seq(kinds) /\ n <= MaxNetworks /\ Strongest(list, rows)
  BY PostedList
<1>2. n \in Nat /\ DOMAIN list = 1..n /\ IsFiniteSet(DOMAIN list)
  BY <1>1, Indices
<1>3. \A k \in kinds : k.wellFormed /\ k.signal \in Int
  BY DEF WellFormed
<1>4. Parsed(list) = IF n > MaxNetworks \/ ~ first \subseteq WellFormed(list)
                     THEN Invalid ELSE Sorted(list, first)
  BY DEF Parsed
<1> HIDE DEF kinds, list, n
<1>5. \A i, j \in 1..n : i < j => list[i].bssid # list[j].bssid
  BY <1>1, <1>2 DEF Strongest
<1>6. first = DOMAIN list
  <2>1. ASSUME NEW i \in 1..n, NEW j \in 1..(i - 1) PROVE list[j].bssid # list[i].bssid
    <3>1. j \in 1..n /\ j < i
      BY <1>2
    <3>2. QED
      BY <1>5, <3>1
  <2>2. QED
    BY <1>2, <2>1
<1> HIDE DEF first
<1>7. \A i \in 1..n : list[i] \in kinds
  BY <1>1, <1>2
<1>8. WellFormed(list) = DOMAIN list
  BY <1>2, <1>3, <1>7 DEF WellFormed
<1>9. n \in Nat /\ MaxNetworks \in Nat
  BY <1>2, MaxNetworksAssumption
<1>10. Parsed(list) = all
  BY <1>1, <1>4, <1>6, <1>8, <1>9
<1>11. Cardinality(DOMAIN list) = n
  BY <1>2, FS_Interval
<1>12. \A i, j \in DOMAIN list : list[i].bssid = list[j].bssid => i = j
  <2> SUFFICES ASSUME NEW i \in 1..n, NEW j \in 1..n, list[i].bssid = list[j].bssid
               PROVE  i = j
    BY <1>2
  <2>1. ~ (i < j) /\ ~ (j < i)
    BY <1>5
  <2>2. QED
    BY <1>2, <2>1
<1>13. /\ all \in [1..n -> {list[i] : i \in DOMAIN list}]
       /\ \A i \in DOMAIN list : \E k \in 1..n : all[k] = list[i]
       /\ \A i, j \in 1..n : i < j => all[i].bssid # all[j].bssid /\ all[i].signal >= all[j].signal
  <2>1. \A i \in WellFormed(list) : list[i].signal \in Int
    BY <1>2, <1>3, <1>7, <1>8
  <2>2. DOMAIN list \subseteq WellFormed(list)
    BY <1>8
  <2>3. QED
    BY <1>1, <1>11, <1>12, <2>1, <2>2, SortedList
<1> HIDE DEF all
<1>14. all \in [1..n -> kinds]
  BY <1>2, <1>7, <1>13
<1>15. all \in Seq(kinds) /\ Len(all) = n /\ DOMAIN all = 1..n
  BY <1>2, <1>14
<1>16. ToSet(all) = ToSet(list)
  <2>1. \A k \in DOMAIN all : all[k] \in ToSet(list)
    BY <1>13, <1>15 DEF ToSet
  <2>2. \A i \in DOMAIN list : list[i] \in ToSet(all)
    BY <1>13, <1>15 DEF ToSet
  <2>3. QED
    BY <2>1, <2>2 DEF ToSet
<1>17. Strongest(all, rows)
  BY <1>1, <1>13, <1>15, <1>16 DEF Strongest, n
<1>18. QED
  BY <1>10, <1>15, <1>17 DEF list, kinds
-----------------------------------------------------------------------------
(* What discovery finds (parser.py:22-104, api.py:105-120).                *)

LEMMA Interfaces ==
  ASSUME NEW model, NEW controller, NEW band \in Bands, RadioInterface(model, band) # None
  PROVE  /\ RadioInterface(model, band) \in {"eth4", "eth5", "eth6"}
         /\ StationInterface(model, controller, band)
               \in {"eth4", "eth5", "eth6", "wl0.1", "wl1.1", "wl2.1"}
<1>1. Family(model) \in {"gt", "xt"}
  BY DEF RadioInterface
<1>2. QED
  BY <1>1, NoneIsNoHardware DEF RadioInterface, StationInterface

LEMMA InterfacesByFamily ==
  ASSUME NEW one, NEW other, Family(one) = Family(other), NEW band, NEW controller
  PROVE  /\ RadioInterface(one, band) = RadioInterface(other, band)
         /\ StationInterface(one, controller, band) = StationInterface(other, controller, band)
  BY DEF RadioInterface, StationInterface

\* It does not matter whether a device tells its product.
LEMMA ProductOrModel ==
  ASSUME NEW e \in Entries, NEW d \in DevicesOf(e)
  PROVE  Expand(d, d.product) \subseteq Expand(d, d.model)
<1>1. CASE Family(d.product) = Family(d.model)
  BY <1>1, InterfacesByFamily DEF Expand
<1>2. CASE Family(d.product) # Family(d.model)
  <2>1. Family(d.product) = None
    BY <1>2, SameHardware
  <2>2. \A band \in Bands : RadioInterface(d.product, band) = None
    BY <2>1, NoneIsNoHardware DEF RadioInterface
  <2>3. QED
    BY <2>2 DEF Expand
<1>3. QED
  BY <1>1, <1>2

LEMMA RightfulTyped == \A e \in Entries : Rightful(e) \subseteq Radio
<1> SUFFICES ASSUME NEW e \in Entries, NEW d \in DevicesOf(e), NEW r \in Expand(d, d.model)
             PROVE  r \in Radio
  BY DEF Rightful
<1>1. PICK band \in Bands :
         /\ RadioInterface(d.model, band) # None
         /\ r = [mac     |-> d.mac,
                 band    |-> band,
                 radio   |-> RadioInterface(d.model, band),
                 station |-> StationInterface(d.model, d.controller, band)]
  BY DEF Expand
<1>2. d.mac \in {c.mac : c \in UNION {DevicesOf(f) : f \in Entries}}
  OBVIOUS
<1>3. QED
  BY <1>1, <1>2, Interfaces DEF Radio

LEMMA FoundIsRightful ==
  ASSUME NEW e \in Entries, NEW found \in Discoveries[e]
  PROVE  found \subseteq Rightful(e)
<1>1. PICK listedNow \in SUBSET DevicesOf(e), silent \in SUBSET DevicesOf(e) :
         found = Discovered(listedNow, silent)
  BY DEF Discoveries
<1>2. ASSUME NEW r \in found PROVE r \in Rightful(e)
  <2>1. PICK d \in DevicesOf(e) :
           r \in Expand(d, IF d \in silent THEN d.model ELSE d.product)
    BY <1>1, <1>2 DEF Discovered, Supported
  <2>2. r \in Expand(d, d.model)
    BY <2>1, ProductOrModel
  <2>3. QED
    BY <2>2 DEF Rightful
<1>3. QED
  BY <1>2

\* A device has one radio for each band.
LEMMA RightfulIsUnique ==
  ASSUME NEW e \in Entries, NEW r \in Rightful(e), NEW s \in Rightful(e),
         r.mac = s.mac, r.band = s.band
  PROVE  r = s
<1>1. PICK c \in DevicesOf(e) : r \in Expand(c, c.model)
  BY DEF Rightful
<1>2. PICK d \in DevicesOf(e) : s \in Expand(d, d.model)
  BY DEF Rightful
<1>3. r.mac = c.mac /\ s.mac = d.mac
  BY <1>1, <1>2 DEF Expand
<1>4. c = d
  BY <1>3, DistinctMacs
<1>5. QED
  BY <1>1, <1>2, <1>4 DEF Expand
-----------------------------------------------------------------------------
LEMMA PollTyped ==
  ASSUME TypeOK, Shape, NEW e \in Entries, NEW found, found \subseteq Rightful(e), Poll(e, found)
  PROVE  /\ radios' \in [Entries -> SUBSET Radio]
         /\ answered' \in [Entries -> SUBSET Radio]
         /\ \A f \in Entries : /\ radios'[f] \subseteq Rightful(f)
                               /\ answered'[f] \subseteq radios'[f]
                               /\ f # e => radios'[f] = radios[f]
<1>1. found \in SUBSET Radio
  BY RightfulTyped
<1>2. PICK some \in SUBSET found : answered' = [answered EXCEPT ![e] = some]
  BY DEF Poll
<1>3. radios' = [radios EXCEPT ![e] = found]
  BY DEF Poll
<1>4. QED
  BY <1>1, <1>2, <1>3 DEF TypeOK, Shape

LEMMA SurveyInit == Init => SurveyInv
<1> SUFFICES ASSUME Init PROVE SurveyInv
  OBVIOUS
<1>1. TypeOK /\ Shape
  BY DEF Init, TypeOK, Shape, NoReports
<1>2. Posted = {} /\ \A e \in Entries : Report(e) = None
  BY DEF Init, Posted, Report, NoReports, Probes
<1>3. QED
  BY <1>1, <1>2 DEF SurveyInv, Origins

LEMMA PollsKeep ==
  ASSUME TypeOK, Shape, NEW e \in Entries, Refresh(e) \/ SetUp(e)
  PROVE  TypeOK' /\ Shape'
<1>1. PICK found \in Discoveries[e] \union {radios[e]} : Poll(e, found)
  BY DEF Refresh, SetUp
<1>2. found \subseteq Rightful(e)
  BY FoundIsRightful DEF Shape
<1>3. e \in listed /\ loaded' = loaded \union {e} /\ UNCHANGED <<listed, probes, reading, collector>>
  BY DEF Refresh, SetUp, TypeOK
<1>4. Shape'
  BY <1>1, <1>2, <1>3, PollTyped DEF Shape, Radio
<1>5. TypeOK'
  BY <1>1, <1>2, <1>3, PollTyped DEF TypeOK
<1>6. QED
  BY <1>4, <1>5

LEMMA HandleKeeps ==
  ASSUME TypeOK, Shape, NEW q \in reading, Handle(q)
  PROVE  TypeOK' /\ Shape'
<1>1. /\ UNCHANGED <<listed, loaded, radios, answered>>
      /\ reading' = reading \ {q}
      /\ collector' \in {collector, "delivered", "failed"}
  BY DEF Handle, mesh
<1>2. CASE Status(q) = 204
  <2>1. Target \in loaded
    BY <1>2 DEF Status, Found
  <2>2. /\ DOMAIN probes' = Entries
        /\ \A e \in Entries \ {Target} : probes'[e] = probes[e]
        /\ \A e \in Entries : DOMAIN probes'[e] = DOMAIN probes[e]
    BY <1>2, TargetIsEntry DEF Handle, Shape
  <2>3. QED
    BY <1>1, <2>1, <2>2 DEF Shape, TypeOK, Rightful, Radio
<1>3. CASE Status(q) # 204
  BY <1>1, <1>3 DEF Handle, Shape, TypeOK, Rightful, Radio
<1>4. QED
  BY <1>2, <1>3

LEMMA TypesKeep ==
  ASSUME TypeOK, Shape, [Next]_vars
  PROVE  TypeOK' /\ Shape'
<1> USE DEF TypeOK, Shape, Radio, Rightful, mesh
<1>1. ASSUME NEW e \in Entries, Delete(e) PROVE TypeOK' /\ Shape'
  BY <1>1 DEF Delete
<1>2. ASSUME NEW e \in Entries, Unload(e) PROVE TypeOK' /\ Shape'
  BY <1>2 DEF Unload, NoReports
<1>3. ASSUME NEW rows \in Surveys, Survey(rows) PROVE TypeOK' /\ Shape'
  BY <1>3 DEF Survey, Arrive, Request, Probes
<1>4. CASE SurveyFails \/ TimesOut
  BY <1>4 DEF SurveyFails, TimesOut
<1>5. ASSUME NEW payload \in Others, OtherProbe(payload) PROVE TypeOK' /\ Shape'
  BY <1>5 DEF OtherProbe, Arrive, Request, Probes
<1>6. ASSUME NEW q \in reading, Unreadable(q) PROVE TypeOK' /\ Shape'
  BY <1>6 DEF Unreadable
<1>7. CASE UNCHANGED vars
  BY <1>7 DEF vars
<1>8. QED
  BY <1>1, <1>2, <1>3, <1>4, <1>5, <1>6, <1>7, PollsKeep, HandleKeeps DEF Next

\* A survey that is posted is stored as what the limits of both programs leave.
LEMMA SurveyStored ==
  ASSUME NEW rows \in Surveys
  PROVE  /\ Stored[Posts[rows]] # Invalid
         /\ Strongest(Stored[Posts[rows]], rows)
<1>1. Posts[rows] = Payload(rows)
  BY DEF Posts
<1>2. Stored[Posts[rows]] = Parsed(Posts[rows])
  BY DEF Stored
<1>3. /\ Parsed(Payload(rows)) \in Seq({rows[i] : i \in WellFormed(rows)})
      /\ Strongest(Parsed(Payload(rows)), rows)
  BY SurveysAssumption, StoredList
<1>4. {rows[i] : i \in WellFormed(rows)} \subseteq ToSet(rows)
  BY DEF WellFormed, ToSet
<1>5. Parsed(Payload(rows)) \in Seq(ToSet(rows))
  BY <1>3, <1>4
<1>6. QED
  BY <1>1, <1>2, <1>3, <1>5, InvalidIsNoList

\* What a request leaves of the reports.
LEMMA HandleStores ==
  ASSUME SurveyInv, NEW q \in reading, Handle(q)
  PROVE  \A e \in Entries :
            Report(e)' = IF e = Target /\ Status(q) = 204 /\ q.probe = "couchcast"
                         THEN [networks |-> Stored[q.payload], of |-> q.of]
                         ELSE Report(e)
<1>1. q.probe \in Probes
  BY DEF SurveyInv, TypeOK
<1>2. DOMAIN probes = Entries /\ \A e \in Entries : DOMAIN probes[e] = Probes
  BY DEF SurveyInv, Shape
<1>3. CASE Status(q) = 204
  <2>1. probes' = [probes EXCEPT ![Target][q.probe] =
                      [networks |-> Stored[q.payload], of |-> q.of]]
    BY <1>3 DEF Handle
  <2>2. QED
    BY <1>1, <1>2, <1>3, <2>1, TargetIsEntry DEF Report, Probes
<1>4. CASE Status(q) # 204
  BY <1>4 DEF Handle, Report
<1>5. QED
  BY <1>3, <1>4

LEMMA OriginsKeep ==
  ASSUME SurveyInv, [Next]_vars
  PROVE  Origins'
<1>1. /\ \A q \in Posted : q.of = sent /\ sent \in Surveys /\ q.payload = Posts[sent]
      /\ \A e \in Entries :
            Report(e) # None => \E rows \in Surveys : Report(e) = SentAs(rows)
  BY DEF SurveyInv, Origins
<1>2. ASSUME Posted' \subseteq Posted, sent' = sent, \A e \in Entries : Report(e)' \in {Report(e), None}
      PROVE  Origins'
  <2>1. \A q \in Posted' : q.of = sent' /\ sent' \in Surveys /\ q.payload = Posts[sent']
    BY <1>1, <1>2
  <2>2. \A e \in Entries : Report(e)' # None => \E rows \in Surveys : Report(e)' = SentAs(rows)
    BY <1>1, <1>2
  <2>3. QED
    BY <2>1, <2>2 DEF Origins, SentAs, Stored, Posts
<1>3. ASSUME NEW e \in Entries, Delete(e) \/ SetUp(e) \/ Refresh(e)
      PROVE  Origins'
  BY <1>2, <1>3 DEF Delete, SetUp, Refresh, Posted, Report
<1>4. ASSUME NEW e \in Entries, Unload(e) PROVE Origins'
  <2>1. \A f \in Entries : Report(f)' \in {Report(f), None}
    BY <1>4 DEF Unload, Report, NoReports, Probes, SurveyInv, Shape
  <2>2. QED
    BY <1>2, <1>4, <2>1 DEF Unload, Posted
<1>5. ASSUME NEW rows \in Surveys, Survey(rows) PROVE Origins'
  <2>1. Posted' \subseteq {Request("couchcast", Posts[rows], rows)} /\ sent' = rows
    BY <1>5 DEF Survey, Arrive, Posted
  <2>2. \A q \in Posted' : q.of = sent' /\ sent' \in Surveys /\ q.payload = Posts[sent']
    BY <2>1 DEF Request
  <2>3. \A e \in Entries : Report(e)' = Report(e)
    BY <1>5 DEF Survey, Report
  <2>4. QED
    BY <1>1, <2>2, <2>3 DEF Origins, SentAs, Stored, Posts
<1>6. CASE SurveyFails \/ TimesOut
  BY <1>2, <1>6 DEF SurveyFails, TimesOut, Posted, Report
<1>7. ASSUME NEW payload \in Others, OtherProbe(payload) PROVE Origins'
  BY <1>2, <1>7 DEF OtherProbe, Arrive, Request, Posted, Report
<1>8. ASSUME NEW q \in reading, Unreadable(q) PROVE Origins'
  BY <1>2, <1>8 DEF Unreadable, Posted, Report
<1>9. ASSUME NEW q \in reading, Handle(q) PROVE Origins'
  <2>1. Posted' \subseteq Posted /\ sent' = sent
    BY <1>9 DEF Handle, Posted
  <2>2. CASE q.probe = "couchcast" /\ Status(q) = 204
    <3>1. q \in Posted
      BY <2>2 DEF Posted
    <3>2. sent \in Surveys /\ [networks |-> Stored[q.payload], of |-> q.of] = SentAs(sent)
      BY <1>1, <3>1 DEF SentAs
    <3>3. \A e \in Entries : Report(e)' \in {Report(e), SentAs(sent)}
      BY <1>9, <3>2, HandleStores
    <3>4. \A e \in Entries : Report(e)' # None => \E rows \in Surveys : Report(e)' = SentAs(rows)
      BY <1>1, <3>2, <3>3
    <3>5. \A f \in Posted' : f.of = sent' /\ sent' \in Surveys /\ f.payload = Posts[sent']
      BY <1>1, <2>1
    <3>6. QED
      BY <3>4, <3>5 DEF Origins, SentAs, Stored, Posts
  <2>3. CASE ~ (q.probe = "couchcast" /\ Status(q) = 204)
    <3>1. \A e \in Entries : Report(e)' = Report(e)
      BY <1>9, <2>3, HandleStores
    <3>2. QED
      BY <1>2, <2>1, <3>1
  <2>4. QED
    BY <2>2, <2>3
<1>10. CASE UNCHANGED vars
  BY <1>2, <1>10 DEF vars, Posted, Report
<1>11. QED
  BY <1>3, <1>4, <1>5, <1>6, <1>7, <1>8, <1>9, <1>10 DEF Next

LEMMA SurveyNext == SurveyInv /\ [Next]_vars => SurveyInv'
  BY TypesKeep, OriginsKeep DEF SurveyInv
-----------------------------------------------------------------------------
(* Only entries that are set up hold radios and reports, and the radios     *)
(* have known interfaces, whatever is discovered, set up and removed while  *)
(* requests are read.                                                      *)
THEOREM SurveyTyped == Spec => []TypeOK
<1>1. SurveyInv => TypeOK
  BY DEF SurveyInv
<1>2. QED
  BY SurveyInit, SurveyNext, <1>1, PTL DEF Spec

(* The radios of two successive polls that belong to the same band of the   *)
(* same device are the same radio (api.py:112-120).                         *)
THEOREM RadiosAlwaysKeepPlace == Spec => RadiosKeepPlace
<1>1. SurveyInv /\ SurveyInv' =>
        \A e \in Entries : \A r \in radios[e], s \in radios'[e] :
           r.mac = s.mac /\ r.band = s.band => r = s
  BY RightfulIsUnique DEF SurveyInv, Shape, Rightful
<1>2. QED
  BY SurveyInit, SurveyNext, <1>1, PTL DEF Spec, RadiosKeepPlace

(* Whatever is posted, read, unloaded and set up in whichever order, a      *)
(* report that is shown has the strongest networks of one survey, sorted    *)
(* and none of them twice: no entry is lost between the limits of the       *)
(* collector and the integration (couchcast_wifi_probe.py:69-97,            *)
(* probe.py:55-88).                                                        *)
THEOREM StrongestAlwaysStored == Spec => []StrongestAreStored
<1>1. SurveyInv => StrongestAreStored
  <2> SUFFICES ASSUME SurveyInv, NEW e \in loaded, Report(e) # None
               PROVE  Strongest(Report(e).networks, Report(e).of)
    BY DEF StrongestAreStored, Strongest
  <2>1. e \in Entries
    BY DEF SurveyInv, TypeOK
  <2>2. PICK rows \in Surveys : Report(e) = SentAs(rows)
    BY <2>1 DEF SurveyInv, Origins
  <2>3. QED
    BY <2>2, SurveyStored DEF SentAs
<1>2. QED
  BY SurveyInit, SurveyNext, <1>1, PTL DEF Spec

(* A survey that is read while its entry and those before it are set up is  *)
(* the one that is shown, and a collector that still waits is told so       *)
(* (couchcast_wifi_probe.py:50-111, probe.py:44-96, __init__.py:83-94).     *)
THEOREM SurveysAlwaysStored == Spec => SurveysAreStored
<1> DEFINE Read == InService /\ Posted # {} /\ Posted' = {}
                   => Fresh' /\ (collector = "posting" => collector' = "delivered")
<1>1. ASSUME SurveyInv, [Next]_vars
      PROVE  Read
  <2> SUFFICES ASSUME InService, Posted # {}, Posted' = {}
               PROVE  Fresh' /\ (collector = "posting" => collector' = "delivered")
    OBVIOUS
  <2>1. PICK q \in reading : q \in Posted /\ Handle(q)
    <3>1. ~ (Posted \subseteq Posted')
      OBVIOUS
    <3>2. \A e \in Entries : ~ (Delete(e) \/ SetUp(e) \/ Unload(e) \/ Refresh(e))
      BY <3>1 DEF Delete, SetUp, Unload, Refresh, Posted
    <3>3. \A rows \in Surveys : ~ Survey(rows)
      BY DEF Survey
    <3>4. ~ (SurveyFails \/ TimesOut \/ UNCHANGED vars)
      BY <3>1 DEF SurveyFails, TimesOut, vars, Posted
    <3>5. \A payload \in Others : ~ OtherProbe(payload)
      BY <3>1 DEF OtherProbe, Arrive, Posted
    <3>6. \A r \in reading : ~ Unreadable(r)
      BY <3>1 DEF Unreadable, Posted
    <3>7. PICK q \in reading : Handle(q)
      BY <1>1, <3>2, <3>3, <3>4, <3>5, <3>6 DEF Next
    <3>8. q \in Posted
      BY <3>1, <3>7 DEF Handle, Posted
    <3>9. QED
      BY <3>7, <3>8
  <2>2. q.of = sent /\ sent \in Surveys /\ q.payload = Posts[sent] /\ q.probe = "couchcast"
    BY <1>1, <2>1 DEF SurveyInv, Origins, Posted
  <2>3. ~ Crashes /\ Found
    BY <1>1, TargetIsEntry DEF InService, Crashes, Found, SurveyInv, TypeOK
  <2>4. Status(q) = 204
    BY <2>2, <2>3, SurveyStored DEF Status
  <2>5. Report(Target)' = SentAs(sent) /\ sent' = sent
    <3>1. Report(Target)' = [networks |-> Stored[q.payload], of |-> q.of]
      BY <1>1, <2>1, <2>2, <2>4, HandleStores, TargetIsEntry
    <3>2. sent' = sent
      BY <2>1 DEF Handle
    <3>3. QED
      BY <2>2, <3>1, <3>2 DEF SentAs
  <2>6. SentAs(sent) # None /\ SentAs(sent).of = sent
    BY <2>2, NoneIsNoReport DEF SentAs
  <2>7. Fresh'
    BY <2>5, <2>6 DEF Fresh
  <2>8. collector = "posting" => collector' = "delivered"
    BY <2>1, <2>2, <2>4 DEF Handle
  <2>9. QED
    BY <2>7, <2>8
<1>2. QED
  BY SurveyInit, SurveyNext, <1>1, PTL DEF Spec, SurveysAreStored
=============================================================================
