---------------------------- MODULE OpsQueryProofs ----------------------------
(***************************************************************************)
(* What holds of OpsQuery for any ids, contents, filters, page sizes and   *)
(* numbers of writes.                                                      *)
(***************************************************************************)
EXTENDS OpsQuery, FiniteSetTheorems, SequenceTheorems, TLAPS

-----------------------------------------------------------------------------
(* Stamps *)

(* Division with remainder, in the naturals. *)
LEMMA DivMod ==
  ASSUME NEW a \in Nat, NEW d \in Nat \ {0}
  PROVE  /\ a \div d \in Nat /\ a % d \in 0 .. d - 1
         /\ a = d * (a \div d) + (a % d)
  OBVIOUS

LEMMA Distribute ==
  ASSUME NEW s \in Nat, NEW m \in Nat, NEW d \in Nat
  PROVE  (s * m + d) * m = s * (m * m) + d * m
  OBVIOUS

(* A product keeps the order of its left factor. *)
LEMMA TimesMonotone ==
  ASSUME NEW a \in Nat, NEW b \in Nat, NEW n \in Nat, a <= b
  PROVE  a * n <= b * n /\ a * n \in Nat
  OBVIOUS

(* A stamp of a later second has the greater text, whatever its fraction.  *)
LEMMA TextProperties ==
  ASSUME NEW t \in Nat
  PROVE  /\ SecondOf(t) \in Nat
         /\ \E d \in 0 .. (Base + 1) * (Base + 1) - 1 :
              Text(t) = SecondOf(t) * ((Base + 1) * (Base + 1)) + d
<1>1. Base \in Nat \ {0, 1}
  BY QueryAssumption
<1>2. Base * Base \in Nat \ {0}
  BY <1>1
<1>3. SecondOf(t) \in Nat
  BY <1>2, DivMod DEF SecondOf
<1>4. TextDigits(t)[1] \in 0 .. Base /\ TextDigits(t)[2] \in 0 .. Base
  <2>1. (t \div Base) \in Nat /\ t % Base \in 0 .. Base - 1
    BY <1>1, DivMod
  <2>2. (t \div Base) % Base \in 0 .. Base - 1
    BY <1>1, <2>1, DivMod
  <2> QED
    BY <1>1, <2>1, <2>2 DEF TextDigits
<1>5. PICK d1 \in 0 .. Base, d2 \in 0 .. Base :
        Text(t) = (SecondOf(t) * (Base + 1) + d1) * (Base + 1) + d2
  BY <1>4 DEF Text
<1>6. Text(t) = SecondOf(t) * ((Base + 1) * (Base + 1)) + (d1 * (Base + 1) + d2)
  <2>1. (SecondOf(t) * (Base + 1) + d1) * (Base + 1)
          = SecondOf(t) * ((Base + 1) * (Base + 1)) + d1 * (Base + 1)
    <3>1. Base + 1 \in Nat /\ d1 \in Nat
      BY <1>1
    <3> QED
      BY ONLY <1>3, <3>1, Distribute
  <2>2. /\ d1 * (Base + 1) \in Nat
        /\ SecondOf(t) * ((Base + 1) * (Base + 1)) \in Nat
    BY <1>1, <1>3, TimesMonotone
  <2> QED
    BY <1>5, <2>1, <2>2
<1>7. d1 * (Base + 1) + d2 \in 0 .. (Base + 1) * (Base + 1) - 1
  <2>1. d1 * (Base + 1) <= Base * (Base + 1) /\ d1 * (Base + 1) \in Nat
    BY <1>1, TimesMonotone
  <2> QED
    BY <1>1, <2>1
<1> QED
  BY <1>3, <1>6, <1>7

LEMMA LaterSecondGreaterText ==
  ASSUME NEW t \in Nat, NEW u \in Nat
  PROVE  /\ Text(t) \in Nat
         /\ SecondOf(t) < SecondOf(u) => Text(t) < Text(u)
         /\ t <= u => SecondOf(t) <= SecondOf(u)
<1> DEFINE N == (Base + 1) * (Base + 1)
<1>1. N \in Nat
  BY QueryAssumption
<1>2. PICK d \in 0 .. N - 1 : Text(t) = SecondOf(t) * N + d
  BY TextProperties
<1>3. PICK e \in 0 .. N - 1 : Text(u) = SecondOf(u) * N + e
  BY TextProperties
<1>4. SecondOf(t) \in Nat /\ SecondOf(u) \in Nat
  BY TextProperties
<1>5. Text(t) \in Nat
  <2>1. SecondOf(t) * N \in Nat
    BY <1>1, <1>4, TimesMonotone
  <2> HIDE DEF N
  <2> QED
    BY <1>1, <1>2, <2>1
<1>6. ASSUME SecondOf(t) < SecondOf(u) PROVE Text(t) < Text(u)
  <2>1. (SecondOf(t) + 1) * N <= SecondOf(u) * N
    BY <1>1, <1>4, <1>6, TimesMonotone
  <2> HIDE DEF N
  <2>2. (SecondOf(t) + 1) * N = SecondOf(t) * N + N
    BY <1>1, <1>4
  <2>3. SecondOf(t) * N \in Nat /\ SecondOf(u) * N \in Nat
    BY <1>1, <1>4, TimesMonotone
  <2> QED
    BY <1>1, <1>2, <1>3, <2>1, <2>2, <2>3
<1>7. ASSUME t <= u PROVE SecondOf(t) <= SecondOf(u)
  <2>1. Base * Base \in Nat \ {0}
    BY QueryAssumption
  <2> QED
    BY <1>7, <2>1 DEF SecondOf
<1> QED
  BY <1>5, <1>6, <1>7

-----------------------------------------------------------------------------
(* The order of the list *)

Item  == OpsRecord \cup {NoRecord}
Store == [Id -> Item]

LEMMA WeightType == ASSUME NEW priority PROVE Weight(priority) \in 1 .. 4
  BY DEF Weight

LEMMA PresentRecords ==
  ASSUME NEW records \in Store, NEW x \in Present(records)
  PROVE  /\ x \in Id /\ x \in Nat
         /\ records[x] \in OpsRecord
         /\ Weight(records[x].priority) \in Nat
         /\ records[x].updated \in Nat
         /\ Text(records[x].updated) \in Nat
<1>1. x \in Id /\ records[x] \in OpsRecord
  BY DEF Store, Item, Present
<1>2. records[x].updated \in Nat
  BY <1>1 DEF OpsRecord
<1> QED
  BY <1>1, <1>2, WeightType, LaterSecondGreaterText, QueryAssumption

(* sortOpsRecords compares with a strict total order. *)
LEMMA PrecedesIsAnOrder ==
  ASSUME NEW records \in Store
  PROVE  /\ \A x \in Present(records) : ~Precedes(records, x, x)
         /\ \A x, y \in Present(records) :
              x # y => Precedes(records, x, y) \/ Precedes(records, y, x)
         /\ \A x, y, z \in Present(records) :
              Precedes(records, x, y) /\ Precedes(records, y, z) => Precedes(records, x, z)
<1>1. \A x \in Present(records) : /\ x \in Nat
                                  /\ Weight(records[x].priority) \in Nat
                                  /\ Text(records[x].updated) \in Nat
  BY PresentRecords
<1> QED
  BY <1>1 DEF Precedes

LEMMA FirstNumbers ==
  ASSUME NEW n \in Nat
  PROVE  IsFiniteSet(1 .. n) /\ Cardinality(1 .. n) = n
  BY FS_Interval

(* Counting the smaller elements of a finite, totally ordered set numbers  *)
(* them from 1 on, in their order.                                         *)
RankIn(S, R) == [x \in S |-> Cardinality({y \in S : <<y, x>> \in R}) + 1]

LEMMA Ranking ==
  ASSUME NEW S, IsFiniteSet(S), NEW R,
         \A x \in S : <<x, x>> \notin R,
         \A x, y \in S : x # y => <<x, y>> \in R \/ <<y, x>> \in R,
         \A x, y, z \in S : <<x, y>> \in R /\ <<y, z>> \in R => <<x, z>> \in R,
         NEW rank, rank = RankIn(S, R)
  PROVE  /\ \A x \in S : rank[x] \in 1 .. Cardinality(S)
         /\ \A x, y \in S : /\ <<x, y>> \in R <=> rank[x] < rank[y]
                            /\ rank[x] = rank[y] => x = y
         /\ \A n \in 1 .. Cardinality(S) : \E x \in S : rank[x] = n
<1> DEFINE Below(x) == {y \in S : <<y, x>> \in R}
<1>1. Cardinality(S) \in Nat
  BY FS_CardinalityType
<1>2. ASSUME NEW x \in S
      PROVE  /\ IsFiniteSet(Below(x)) /\ Cardinality(Below(x)) \in Nat
             /\ Cardinality(Below(x)) < Cardinality(S)
  <2>1. Below(x) \in SUBSET S /\ Below(x) # S
    OBVIOUS
  <2>2. IsFiniteSet(Below(x)) /\ Cardinality(Below(x)) <= Cardinality(S)
         /\ Cardinality(Below(x)) # Cardinality(S)
    BY ONLY IsFiniteSet(S), <2>1, FS_Subset
  <2> HIDE DEF Below
  <2> QED
    BY <1>1, <2>2, FS_CardinalityType
<1>3. ASSUME NEW x \in S, NEW y \in S, <<x, y>> \in R
      PROVE  Cardinality(Below(x)) < Cardinality(Below(y))
  <2>1. Below(x) \in SUBSET Below(y)
    BY <1>3
  <2>2. x \in Below(y) /\ x \notin Below(x)
    BY <1>3
  <2>3. IsFiniteSet(Below(y)) /\ Cardinality(Below(x)) \in Nat /\ Cardinality(Below(y)) \in Nat
    BY <1>2
  <2> HIDE DEF Below
  <2>4. Cardinality(Below(x)) <= Cardinality(Below(y)) /\ Cardinality(Below(x)) # Cardinality(Below(y))
    BY ONLY <2>1, <2>2, <2>3, FS_Subset
  <2> QED
    BY <2>3, <2>4
<1>4. rank \in [S -> Nat] /\ \A x \in S : rank[x] = Cardinality(Below(x)) + 1
  <2>1. rank = [x \in S |-> Cardinality(Below(x)) + 1]
    BY DEF RankIn
  <2> HIDE DEF Below
  <2> QED
    BY <1>2, <2>1
<1> HIDE DEF Below
<1>5. \A x \in S : rank[x] \in 1 .. Cardinality(S)
  BY <1>1, <1>2, <1>4
<1>6. \A x, y \in S : <<x, y>> \in R => rank[x] < rank[y]
  BY <1>2, <1>3, <1>4
<1>7. ASSUME NEW x \in S, NEW y \in S
      PROVE  /\ <<x, y>> \in R <=> rank[x] < rank[y]
             /\ rank[x] = rank[y] => x = y
  <2>1. rank[x] \in Int /\ rank[y] \in Int
    BY <1>1, <1>5
  <2>2. <<x, y>> \in R => rank[x] < rank[y]
    BY <1>6
  <2>3. <<y, x>> \in R => rank[y] < rank[x]
    BY <1>6
  <2>4. x = y => rank[x] = rank[y]
    OBVIOUS
  <2> QED
    BY <2>1, <2>2, <2>3, <2>4
<1>8. rank \in Injection(S, 1 .. Cardinality(S))
  <2>1. rank \in [S -> 1 .. Cardinality(S)]
    BY <1>4, <1>5
  <2>2. \A x, y \in S : rank[x] = rank[y] => x = y
    BY <1>7
  <2> QED
    BY <2>1, <2>2 DEF Injection, IsInjective
<1>9. rank \in Surjection(S, 1 .. Cardinality(S))
  <2>1. IsFiniteSet(1 .. Cardinality(S)) /\ Cardinality(1 .. Cardinality(S)) = Cardinality(S)
    BY <1>1, FS_Interval
  <2> QED
    BY <1>8, <2>1, FS_Injection
<1> QED
  BY <1>5, <1>7, <1>9 DEF Surjection

(* Every record that matches has its place in the list. *)
LEMMA Places ==
  ASSUME NEW records \in Store, NEW q
  PROVE  /\ IsFiniteSet(Matching(records, q))
         /\ Cardinality(Matching(records, q)) \in 0 .. Cardinality(Id)
         /\ \A x \in Matching(records, q) :
              Position(records, q, x) \in 1 .. Cardinality(Matching(records, q))
         /\ \A x, y \in Matching(records, q) :
              /\ Precedes(records, x, y) <=> Position(records, q, x) < Position(records, q, y)
              /\ Position(records, q, x) = Position(records, q, y) => x = y
         /\ \A n \in 1 .. Cardinality(Matching(records, q)) :
              \E x \in Matching(records, q) : Position(records, q, x) = n
<1> DEFINE S == Matching(records, q)
           R == {xy \in S \X S : Precedes(records, xy[1], xy[2])}
<1>1. S \in SUBSET Id /\ S \subseteq Present(records)
  BY DEF Matching, Present
<1>2. IsFiniteSet(S) /\ Cardinality(S) \in 0 .. Cardinality(Id)
  <2>1. IsFiniteSet(Id)
    BY QueryAssumption
  <2> HIDE DEF S
  <2> QED
    BY <1>1, <2>1, FS_Subset, FS_CardinalityType
<1>3. \A x, y \in S : <<x, y>> \in R <=> Precedes(records, x, y)
  OBVIOUS
<1>4. \A x \in S : RankIn(S, R)[x] = Position(records, q, x)
  <2>1. \A x \in S : {y \in S : <<y, x>> \in R} = Before(records, q, x)
    BY DEF Before
  <2> HIDE DEF S, R
  <2> QED
    BY <2>1 DEF Position, RankIn
<1> HIDE DEF S, R
<1>5. /\ \A x \in S : <<x, x>> \notin R
      /\ \A x, y \in S : x # y => <<x, y>> \in R \/ <<y, x>> \in R
      /\ \A x, y, z \in S : <<x, y>> \in R /\ <<y, z>> \in R => <<x, z>> \in R
  BY <1>1, <1>3, PrecedesIsAnOrder
<1>6. /\ \A x \in S : RankIn(S, R)[x] \in 1 .. Cardinality(S)
      /\ \A x, y \in S : /\ <<x, y>> \in R <=> RankIn(S, R)[x] < RankIn(S, R)[y]
                         /\ RankIn(S, R)[x] = RankIn(S, R)[y] => x = y
      /\ \A n \in 1 .. Cardinality(S) : \E x \in S : RankIn(S, R)[x] = n
  BY ONLY <1>2, <1>5, Ranking
<1>7. \A x \in S : Position(records, q, x) \in 1 .. Cardinality(S)
  BY ONLY <1>4, <1>6
<1>8. \A x, y \in S : /\ Precedes(records, x, y) <=> Position(records, q, x) < Position(records, q, y)
                      /\ Position(records, q, x) = Position(records, q, y) => x = y
  <2>1. ASSUME NEW x \in S, NEW y \in S
        PROVE  /\ Precedes(records, x, y) <=> Position(records, q, x) < Position(records, q, y)
               /\ Position(records, q, x) = Position(records, q, y) => x = y
    <3>1. RankIn(S, R)[x] = Position(records, q, x) /\ RankIn(S, R)[y] = Position(records, q, y)
      BY <1>4
    <3>2. <<x, y>> \in R <=> Precedes(records, x, y)
      BY <1>3
    <3>3. /\ <<x, y>> \in R <=> RankIn(S, R)[x] < RankIn(S, R)[y]
          /\ RankIn(S, R)[x] = RankIn(S, R)[y] => x = y
      BY <1>6
    <3> QED
      BY ONLY <3>1, <3>2, <3>3
  <2> QED
    BY <2>1
<1>9. \A n \in 1 .. Cardinality(S) : \E x \in S : Position(records, q, x) = n
  BY ONLY <1>4, <1>6
<1> QED
  BY ONLY <1>2, <1>7, <1>8, <1>9 DEF S

(* sortOpsRecords: the list has every record that matches, at its place.   *)
LEMMA ListProperties ==
  ASSUME NEW records \in Store, NEW q
  PROVE  /\ Listed(records, q) \in Seq(Matching(records, q))
         /\ Len(Listed(records, q)) = Cardinality(Matching(records, q))
         /\ \A n \in 1 .. Cardinality(Matching(records, q)) :
              /\ Listed(records, q)[n] \in Matching(records, q)
              /\ Position(records, q, Listed(records, q)[n]) = n
<1> DEFINE S == Matching(records, q)
           N == Cardinality(S)
           L == Listed(records, q)
<1>1. N \in Nat
  BY Places
<1>2. L = [n \in 1 .. N |-> CHOOSE x \in S : Position(records, q, x) = n]
  BY DEF Listed
<1>3. \A n \in 1 .. N : \E x \in S : Position(records, q, x) = n
  BY Places
<1> HIDE DEF S, N, L
<1>4. \A n \in 1 .. N : L[n] \in S /\ Position(records, q, L[n]) = n
  BY <1>2, <1>3
<1>5. L \in [1 .. N -> S]
  BY <1>2, <1>4
<1>6. L \in Seq(S) /\ Len(L) = N
  BY <1>1, <1>5
<1> QED
  BY <1>4, <1>6 DEF S, N, L

-----------------------------------------------------------------------------
(* Pages *)

LEMMA SizeType == ASSUME NEW s \in Int PROVE SizeOf(s) \in 1 .. MaxSize
  BY QueryAssumption DEF SizeOf

LEMMA WrapSmall == ASSUME NEW n \in 0 .. Half - 1 PROVE Wrap(n) = n
<1>1. Half \in Nat
  BY QueryAssumption
<1>2. n + Half \in 0 .. 2 * Half - 1
  BY <1>1
<1>3. (n + Half) % (2 * Half) = n + Half
  BY <1>1, <1>2
<1> QED
  BY <1>1, <1>3 DEF Wrap

Lesser(a, b) == IF a > b THEN b ELSE a

(* opsBounds, where the product does not overflow. *)
LEMMA BoundsOfPage ==
  ASSUME NEW total \in 0 .. Cardinality(Id), NEW p \in Nat \ {0}, NEW s \in Int,
         NEW from \in Nat, from = (p - 1) * SizeOf(s), from < Half
  PROVE  Bounds(total, p, s) = <<Lesser(from, total), Lesser(from + SizeOf(s), total)>>
<1>1. /\ Cardinality(Id) \in Nat /\ MaxSize \in Nat /\ Half \in Nat
      /\ Cardinality(Id) + MaxSize < Half
  BY QueryAssumption, FS_CardinalityType
<1>2. SizeOf(s) \in 1 .. MaxSize
  BY SizeType
<1>3. PageOf(p) = p
  BY DEF PageOf
<1>4. Wrap((PageOf(p) - 1) * SizeOf(s)) = from
  BY <1>1, <1>3, WrapSmall
<1> DEFINE start == Lesser(from, total)
<1>5. start \in 0 .. Cardinality(Id) /\ start <= from
  BY <1>1 DEF Lesser
<1>6. Wrap(start + SizeOf(s)) = start + SizeOf(s)
  <2> HIDE DEF start
  <2>1. start + SizeOf(s) \in 0 .. Half - 1
    BY <1>1, <1>2, <1>5
  <2> QED
    BY <2>1, WrapSmall
<1>7. Bounds(total, p, s) = <<start, Lesser(start + SizeOf(s), total)>>
  BY <1>4, <1>6 DEF Bounds, Lesser
<1>8. Lesser(start + SizeOf(s), total) = Lesser(from + SizeOf(s), total)
  BY <1>1, <1>2 DEF Lesser
<1> QED
  BY <1>7, <1>8

(* Search returns its window of the list. *)
LEMMA PageProperties ==
  ASSUME NEW records \in Store, NEW q, NEW p \in Nat \ {0}, NEW s \in Int,
         NEW from \in Nat, from = (p - 1) * SizeOf(s), from < Half,
         NEW total, total = Cardinality(Matching(records, q)),
         NEW answer, answer = Search(records, q, p, s)
  PROVE  /\ total \in 0 .. Cardinality(Id)
         /\ answer.ok
         /\ answer.items \in Seq(Matching(records, q))
         /\ Len(answer.items) = Lesser(from + SizeOf(s), total) - Lesser(from, total)
         /\ \A k \in 1 .. Len(answer.items) :
              Position(records, q, answer.items[k]) = from + k
         /\ answer.hasNext <=> from + SizeOf(s) < total
<1> DEFINE L == Listed(records, q)
           a == Lesser(from, total)
           b == Lesser(from + SizeOf(s), total)
<1>1. total \in 0 .. Cardinality(Id) /\ Cardinality(Id) \in Nat
  BY Places, QueryAssumption, FS_CardinalityType
<1>2. /\ L \in Seq(Matching(records, q)) /\ Len(L) = total
      /\ \A n \in 1 .. total : /\ L[n] \in Matching(records, q)
                               /\ Position(records, q, L[n]) = n
  BY ListProperties
<1>3. SizeOf(s) \in Nat \ {0}
  BY SizeType, QueryAssumption
<1>4. a \in Nat /\ b \in Nat /\ a <= b /\ b <= total /\ (a # b => a = from)
  BY <1>1, <1>3 DEF Lesser
<1>5. Bounds(Len(L), p, s) = <<a, b>>
  BY <1>1, <1>2, BoundsOfPage
<1>6. answer = [ok |-> a >= 0, items |-> SubSeq(L, a + 1, b), hasNext |-> b < total]
  <2> HIDE DEF L, a, b
  <2> QED
    BY <1>2, <1>5 DEF Search, L
<1>7. b < total <=> from + SizeOf(s) < total
  BY <1>1, <1>3 DEF Lesser
<1> HIDE DEF L, a, b
<1>8. /\ SubSeq(L, a + 1, b) \in Seq(Matching(records, q))
      /\ Len(SubSeq(L, a + 1, b)) = b - a
      /\ \A k \in 1 .. b - a : SubSeq(L, a + 1, b)[k] = L[a + k]
  <2>1. \A n \in a + 1 .. b : L[n] \in Matching(records, q)
    BY <1>1, <1>2, <1>4
  <2>2. /\ SubSeq(L, a + 1, b) \in Seq(Matching(records, q))
        /\ Len(SubSeq(L, a + 1, b)) = IF a + 1 <= b THEN b - (a + 1) + 1 ELSE 0
        /\ \A k \in 1 .. b - (a + 1) + 1 : SubSeq(L, a + 1, b)[k] = L[a + 1 + k - 1]
    BY <1>4, <2>1, SubSeqProperties
  <2>3. \A k \in 1 .. b - a : k \in 1 .. b - (a + 1) + 1 /\ a + 1 + k - 1 = a + k
    BY <1>4
  <2> QED
    BY <1>4, <2>2, <2>3
<1>9. \A k \in 1 .. b - a : Position(records, q, L[a + k]) = from + k
  BY <1>1, <1>2, <1>4
<1>10. answer.ok /\ answer.items = SubSeq(L, a + 1, b) /\ (answer.hasNext <=> b < total)
  <2>1. answer.ok = (a >= 0) /\ answer.hasNext = (b < total)
    BY ONLY <1>6, Zenon
  <2>2. answer.items = SubSeq(L, a + 1, b)
    BY ONLY <1>6, Zenon
  <2>3. a >= 0
    BY <1>4
  <2> QED
    BY ONLY <2>1, <2>2, <2>3, Zenon
<1>11. a = Lesser(from, total) /\ b = Lesser(from + SizeOf(s), total)
  BY DEF a, b
<1> QED
  BY ONLY <1>1, <1>7, <1>8, <1>9, <1>10, <1>11

-----------------------------------------------------------------------------
(* How often an id occurs in what the reader has got. *)

Count(s, x) == Cardinality({n \in DOMAIN s : s[n] = x})

LEMMA CountType ==
  ASSUME NEW s \in Seq(Id), NEW x
  PROVE  /\ IsFiniteSet({n \in DOMAIN s : s[n] = x})
         /\ Count(s, x) \in Nat
<1>1. Len(s) \in Nat /\ DOMAIN s = 1 .. Len(s)
  OBVIOUS
<1>2. IsFiniteSet(1 .. Len(s))
  BY <1>1, FS_Interval
<1>3. {n \in DOMAIN s : s[n] = x} \in SUBSET (1 .. Len(s))
  BY <1>1
<1> QED
  BY <1>2, <1>3, FS_Subset, FS_CardinalityType DEF Count

LEMMA CountConcat ==
  ASSUME NEW s \in Seq(Id), NEW t \in Seq(Id), NEW x
  PROVE  Count(s \o t, x) = Count(s, x) + Count(t, x)
<1> DEFINE S == {n \in DOMAIN s : s[n] = x}
           T == {n \in DOMAIN t : t[n] = x}
           U == {n \in DOMAIN (s \o t) : (s \o t)[n] = x}
           V == {n \in U : n > Len(s)}
<1>1. /\ Len(s) \in Nat /\ DOMAIN s = 1 .. Len(s) /\ Len(t) \in Nat /\ DOMAIN t = 1 .. Len(t)
      /\ DOMAIN (s \o t) = 1 .. Len(s) + Len(t)
      /\ \A n \in 1 .. Len(s) + Len(t) :
           (s \o t)[n] = IF n <= Len(s) THEN s[n] ELSE t[n - Len(s)]
  BY ConcatProperties, LenProperties
<1>2. U = S \cup V /\ S \cap V = {}
  BY <1>1
<1>3. IsFiniteSet(S) /\ IsFiniteSet(T)
  BY CountType
<1>4. [n \in T |-> n + Len(s)] \in Bijection(T, V)
  <2>1. \A n \in T : n \in Int /\ n + Len(s) \in V
    BY <1>1
  <2>2. \A n \in V : n - Len(s) \in T /\ (n - Len(s)) + Len(s) = n
    BY <1>1
  <2> HIDE DEF T, V
  <2> DEFINE f == [n \in T |-> n + Len(s)]
  <2>3. f \in [T -> V] /\ \A m, n \in T : f[m] = f[n] => m = n
    BY <1>1, <2>1
  <2>4. \A v \in V : \E n \in T : f[n] = v
    BY <2>2
  <2> QED
    BY <2>3, <2>4 DEF Bijection, Injection, Surjection, IsInjective
<1>5. IsFiniteSet(V) /\ Cardinality(V) = Cardinality(T)
  <2> HIDE DEF T, V
  <2>1. ExistsBijection(T, V)
    BY <1>4 DEF ExistsBijection
  <2> QED
    BY <1>3, <2>1, FS_Bijection
<1>6. Cardinality(U) = Cardinality(S) + Cardinality(V)
  <2> HIDE DEF S, T, U, V
  <2>1. Cardinality(S \cup V) = Cardinality(S) + Cardinality(V) - Cardinality(S \cap V)
    BY ONLY <1>3, <1>5, FS_Union
  <2>2. Cardinality(S \cap V) = 0
    BY ONLY <1>2, FS_EmptySet
  <2>3. Cardinality(S) \in Nat /\ Cardinality(V) \in Nat
    BY ONLY <1>3, <1>5, FS_CardinalityType
  <2> QED
    BY ONLY <1>2, <2>1, <2>2, <2>3
<1> QED
  BY <1>5, <1>6 DEF Count

(* A page has the records of its window once, and no other ones. *)
LEMMA CountOfPage ==
  ASSUME NEW records \in Store, NEW q, NEW p \in Nat \ {0}, NEW s \in Int,
         NEW from \in Nat, from = (p - 1) * SizeOf(s), from < Half,
         NEW x \in Matching(records, q)
  PROVE  Count(Search(records, q, p, s).items, x)
           = IF Position(records, q, x) \in from + 1 .. from + SizeOf(s) THEN 1 ELSE 0
<1> DEFINE answer == Search(records, q, p, s)
           list == answer.items
           total == Cardinality(Matching(records, q))
           place == Position(records, q, x)
           A == {n \in DOMAIN list : list[n] = x}
<1>1. /\ total \in 0 .. Cardinality(Id)
      /\ list \in Seq(Matching(records, q))
      /\ Len(list) = Lesser(from + SizeOf(s), total) - Lesser(from, total)
      /\ \A k \in 1 .. Len(list) : Position(records, q, list[k]) = from + k
  <2> HIDE DEF answer, total
  <2>1. answer = Search(records, q, p, s) /\ total = Cardinality(Matching(records, q))
    BY DEF answer, total
  <2> QED
    BY ONLY <2>1, PageProperties, records \in Store, p \in Nat \ {0}, s \in Int,
            from \in Nat, from = (p - 1) * SizeOf(s), from < Half
<1>2. SizeOf(s) \in Nat \ {0} /\ Cardinality(Id) \in Nat
  <2>1. SizeOf(s) \in 1 .. MaxSize /\ MaxSize \in Nat
    BY SizeType, QueryAssumption
  <2>2. Cardinality(Id) \in Nat
    BY ONLY QueryAssumption, FS_CardinalityType
  <2> QED
    BY ONLY <2>1, <2>2
<1>3. /\ place \in 1 .. total
      /\ \A y \in Matching(records, q) : Position(records, q, y) = place => y = x
  BY Places
<1> HIDE DEF total, list, place, answer
<1>4. /\ Len(list) \in Nat /\ DOMAIN list = 1 .. Len(list)
      /\ \A n \in 1 .. Len(list) : list[n] \in Matching(records, q)
  BY <1>1
<1>5. CASE place \in from + 1 .. from + SizeOf(s)
  <2>1. place - from \in 1 .. Len(list)
    BY ONLY <1>1, <1>2, <1>3, <1>5, from \in Nat DEF Lesser
  <2>2. list[place - from] = x
    BY <1>1, <1>3, <1>4, <2>1
  <2>3. \A n \in 1 .. Len(list) : list[n] = x => n = place - from
    BY <1>1, <1>3, <1>4 DEF place
  <2>4. A = {place - from}
    BY <1>4, <2>1, <2>2, <2>3
  <2>5. Cardinality(A) = 1
    BY <2>4, FS_Singleton
  <2> QED
    BY <1>5, <2>5 DEF Count, list, answer, place
<1>6. CASE place \notin from + 1 .. from + SizeOf(s)
  <2>1. \A n \in 1 .. Len(list) : list[n] # x
    <3>1. ASSUME NEW n \in 1 .. Len(list), list[n] = x PROVE FALSE
      <4>1. place = from + n
        BY <1>1, <3>1 DEF place
      <4>2. n \in 1 .. Len(list) /\ from \in Nat
        OBVIOUS
      <4>3. Lesser(from + SizeOf(s), total) - Lesser(from, total) <= SizeOf(s)
        BY ONLY <1>1, <1>2, <4>2 DEF Lesser
      <4>4. n <= SizeOf(s)
        BY ONLY <1>1, <1>2, <1>4, <4>2, <4>3
      <4> QED
        BY ONLY <1>2, <1>6, <4>1, <4>2, <4>4
    <3> QED
      BY <3>1
  <2>2. A = {}
    BY <1>4, <2>1
  <2>3. Cardinality(A) = 0
    BY <2>2, FS_EmptySet
  <2> QED
    BY <1>6, <2>3 DEF Count, list, answer, place
<1> QED
  BY <1>5, <1>6

-----------------------------------------------------------------------------
(* The places of the other records when one is written *)

LEMMA StampedType ==
  ASSUME NEW c \in Content, NEW t \in Nat
  PROVE  Stamped(c, t) \in OpsRecord /\ Stamped(c, t).updated = t
<1>1. c \in ContentType
  BY QueryAssumption
<1> QED
  BY <1>1 DEF Stamped, ContentType, OpsRecord

(* When no record rises, no place grows; ... *)
LEMMA PlacesDoNotGrow ==
  ASSUME NEW old \in Store, NEW records \in Store, NEW x \in Id,
         \A z \in Id \ {x} : records[z] = old[z],
         ~Rises(old[x], records[x]),
         NEW y \in Matching(old, query), y # x
  PROVE  Position(records, query, y) <= Position(old, query, y)
<1> DEFINE new == records[x]
<1>1. /\ \A z \in Id \ {x} : /\ records[z] = old[z]
                             /\ z \in Matching(records, query) <=> z \in Matching(old, query)
      /\ y \in Id /\ records[y] = old[y]
  BY DEF Matching, Present
<1>2. y \in Present(old) /\ Weight(old[y].priority) \in Nat
  BY PresentRecords DEF Matching
<1>3. ASSUME NEW z \in Before(records, query, y) PROVE z \in Before(old, query, y)
  <2>1. z \in Matching(records, query) /\ Precedes(records, z, y) /\ z \in Id
    BY <1>3 DEF Before, Matching, Present
  <2>2. CASE z # x
    <3>1. z \in Matching(old, query) /\ records[z] = old[z]
      BY <1>1, <2>1, <2>2
    <3>2. Precedes(old, z, y)
      BY <1>1, <2>1, <3>1 DEF Precedes
    <3> QED
      BY <3>1, <3>2 DEF Before
  <2>3. CASE z = x
    <3>1. Listable(new) /\ Listable(old[x]) /\ ~(Weight(new.priority) >= Weight(old[x].priority))
      BY <1>1, <2>1, <2>3 DEF Rises, Listable, Matching, Present
    <3>2. x \in Matching(old, query) /\ x \in Present(old)
      BY <3>1 DEF Listable, Matching, Present
    <3>3. Weight(old[x].priority) \in Nat /\ Weight(new.priority) \in Nat
      BY WeightType
    <3>4. Weight(new.priority) >= Weight(old[y].priority)
      BY <1>1, <1>2, <2>1, <2>3, <3>3 DEF Precedes
    <3>5. Precedes(old, x, y)
      BY <1>2, <3>1, <3>3, <3>4 DEF Precedes
    <3> QED
      BY <2>3, <3>2, <3>5 DEF Before
  <2> QED
    BY <2>2, <2>3
<1>4. IsFiniteSet(Before(old, query, y)) /\ Before(records, query, y) \in SUBSET Before(old, query, y)
  <2>1. IsFiniteSet(Matching(old, query)) /\ Before(old, query, y) \in SUBSET Matching(old, query)
    BY Places DEF Before
  <2> QED
    BY <1>3, <2>1, FS_Subset
<1>5. /\ Cardinality(Before(records, query, y)) <= Cardinality(Before(old, query, y))
      /\ Cardinality(Before(records, query, y)) \in Nat
      /\ Cardinality(Before(old, query, y)) \in Nat
  BY ONLY <1>4, FS_Subset, FS_CardinalityType
<1> QED
  BY <1>5 DEF Position

(* ... when none sinks, no place shrinks. *)
LEMMA PlacesDoNotShrink ==
  ASSUME NEW old \in Store, NEW records \in Store, NEW x \in Id,
         \A z \in Id \ {x} : records[z] = old[z],
         ~Sinks(old[x], records[x]),
         NEW y \in Matching(old, query), y # x
  PROVE  Position(old, query, y) <= Position(records, query, y)
<1> DEFINE new == records[x]
<1>1. /\ \A z \in Id \ {x} : /\ records[z] = old[z]
                             /\ z \in Matching(records, query) <=> z \in Matching(old, query)
      /\ y \in Id /\ records[y] = old[y]
  BY DEF Matching, Present
<1>2. /\ y \in Present(old) /\ Weight(old[y].priority) \in Nat
      /\ Text(old[y].updated) \in Nat
  BY PresentRecords DEF Matching
<1>3. ASSUME NEW z \in Before(old, query, y) PROVE z \in Before(records, query, y)
  <2>1. z \in Matching(old, query) /\ Precedes(old, z, y) /\ z \in Id
    BY <1>3 DEF Before, Matching, Present
  <2>2. CASE z # x
    <3>1. z \in Matching(records, query) /\ records[z] = old[z]
      BY <1>1, <2>1, <2>2
    <3>2. Precedes(records, z, y)
      BY <1>1, <2>1, <3>1 DEF Precedes
    <3> QED
      BY <3>1, <3>2 DEF Before
  <2>3. CASE z = x
    <3>1. /\ Listable(old[x]) /\ Listable(new)
          /\ ~(Weight(new.priority) < Weight(old[x].priority))
          /\ Weight(new.priority) # Weight(old[x].priority)
               \/ ~(SecondOf(new.updated) <= SecondOf(old[x].updated))
      BY <2>1, <2>3 DEF Sinks, Listable, Matching, Present
    <3>2. x \in Matching(records, query) /\ x \in Present(old)
      BY <1>1, <2>1, <2>3, <3>1 DEF Listable, Matching, Present
    <3>3. Weight(old[x].priority) \in Nat /\ Weight(new.priority) \in Nat
      BY WeightType
    <3>4. new \in OpsRecord /\ old[x] \in OpsRecord
      BY <3>1 DEF Listable, Item, Store
    <3>5. new.updated \in Nat /\ old[x].updated \in Nat
      BY <3>1, <3>4 DEF Listable, OpsRecord
    <3>6. CASE Weight(new.priority) > Weight(old[x].priority)
      <4>1. Weight(new.priority) > Weight(old[y].priority)
        BY <1>2, <2>1, <2>3, <3>3, <3>6 DEF Precedes
      <4>2. Precedes(records, x, y)
        BY <1>1, <4>1 DEF Precedes
      <4> QED
        BY <2>3, <3>2, <4>2 DEF Before
    <3>7. CASE Weight(new.priority) = Weight(old[x].priority)
      <4>1. SecondOf(old[x].updated) < SecondOf(new.updated)
        <5>1. SecondOf(old[x].updated) \in Nat /\ SecondOf(new.updated) \in Nat
          BY ONLY <3>5, TextProperties
        <5> QED
          BY <3>1, <3>7, <5>1
      <4>2. /\ Text(old[x].updated) < Text(new.updated)
            /\ Text(old[x].updated) \in Nat /\ Text(new.updated) \in Nat
        BY <3>5, <4>1, LaterSecondGreaterText
      <4>3. Precedes(records, x, y)
        BY <1>1, <1>2, <2>1, <2>3, <3>3, <3>7, <4>2 DEF Precedes
      <4> QED
        BY <2>3, <3>2, <4>3 DEF Before
    <3> QED
      BY <3>1, <3>3, <3>6, <3>7
  <2> QED
    BY <2>2, <2>3
<1>4. IsFiniteSet(Before(records, query, y)) /\ Before(old, query, y) \in SUBSET Before(records, query, y)
  <2>1. IsFiniteSet(Matching(records, query)) /\ Before(records, query, y) \in SUBSET Matching(records, query)
    BY <1>1, Places DEF Before
  <2> QED
    BY <1>3, <2>1, FS_Subset
<1>5. /\ Cardinality(Before(old, query, y)) <= Cardinality(Before(records, query, y))
      /\ Cardinality(Before(records, query, y)) \in Nat
      /\ Cardinality(Before(old, query, y)) \in Nat
  BY ONLY <1>4, FS_Subset, FS_CardinalityType
<1> QED
  BY <1>5 DEF Position

-----------------------------------------------------------------------------
(* The inductive invariant *)

LEMMA InitInductive == Init => Inductive
<1> SUFFICES ASSUME Init PROVE Inductive
  OBVIOUS
<1>1. PICK seed \in Seeds :
        items = [x \in Id |-> IF seed[x] = NoRecord THEN NoRecord ELSE Stamped(seed[x], 0)]
  BY DEF Init
<1>2. \A x \in Id : seed[x] \in Content \cup {NoRecord}
  BY SeedsAssumption
<1>3. items \in Store
  <2>1. ASSUME NEW x \in Id PROVE items[x] \in Item
    BY <1>1, <1>2, StampedType DEF Item
  <2> QED
    BY <1>1, <2>1 DEF Store
<1>4. TypeOK
  <2>1. items \in [Id -> OpsRecord \cup {NoRecord}]
    BY ONLY <1>3 DEF Store, Item
  <2>2. /\ writes = 0 /\ reader = "idle" /\ size = 0 /\ page = 1
        /\ got = <<>> /\ found = {} /\ touched = {} /\ rose = FALSE /\ sank = FALSE
        /\ query \in QueryType /\ MaxWrites \in Nat
    BY QueryAssumption DEF Init
  <2>3. got \in Seq(Id)
    BY <2>2
  <2>4. writes \in 0 .. MaxWrites
    BY <2>2
  <2>5. rose \in BOOLEAN /\ sank \in BOOLEAN
    BY ONLY <2>2, Zenon
  <2>6. /\ reader \in {"idle", "reading", "done"} /\ size \in Int
        /\ page \in Nat \ {0} /\ found \subseteq Id /\ touched \subseteq Id
    BY ONLY <2>2
  <2> QED
    BY ONLY <2>1, <2>2, <2>3, <2>4, <2>5, <2>6, Zenon DEF TypeOK
<1>5. ReaderInv
  <2>1. SizeOf(size) \in Nat
    <3>1. size \in Int /\ MaxSize \in Nat
      BY QueryAssumption DEF Init
    <3>2. SizeOf(size) \in 1 .. MaxSize
      BY ONLY <3>1, SizeType
    <3> QED
      BY ONLY <3>1, <3>2
  <2>2. ReadUpTo = 0 /\ Cardinality(Id) \in Nat
    BY <2>1, QueryAssumption, FS_CardinalityType DEF Init, ReadUpTo
  <2> QED
    BY <2>2 DEF Init, ReaderInv
<1> QED
  BY <1>4, <1>5 DEF Init, Inductive, SeenInv, StillInv

LEMMA WriteInductive ==
  ASSUME Inductive, NEW x \in Id, NEW new \in Item, Write(x, new)
  PROVE  Inductive'
<1>1. /\ TypeOK /\ ReaderInv /\ SeenInv /\ StillInv
      /\ UNCHANGED <<reader, query, size, page, got, found>>
      /\ items' = [items EXCEPT ![x] = new]
  BY DEF Inductive, Write, readerVars
<1>2. /\ items \in Store /\ items' \in Store /\ items'[x] = new
      /\ \A y \in Id \ {x} : items'[y] = items[y]
  BY <1>1 DEF TypeOK, Store, Item
<1>3. TypeOK'
  <2>1. writes' \in 0 .. MaxWrites
    BY <1>1, QueryAssumption DEF TypeOK, Write
  <2>2. touched' \subseteq Id /\ rose' \in BOOLEAN /\ sank' \in BOOLEAN
    BY <1>1 DEF TypeOK, Write, ghosts
  <2>3. /\ reader' \in {"idle", "reading", "done"}
        /\ query' \in QueryType /\ size' \in Int /\ page' \in Nat \ {0}
        /\ got' \in Seq(Id) /\ found' \subseteq Id
    BY <1>1 DEF TypeOK
  <2> QED
    BY <1>1, <1>2, <2>1, <2>2, <2>3 DEF TypeOK, Store, Item
<1>4. ReadUpTo' = ReadUpTo /\ \A y : Seen(y)' = Seen(y)
  BY <1>1 DEF ReadUpTo, Seen, SizeOf
<1>5. CASE reader = "idle"
  <2>1. UNCHANGED <<touched, rose, sank>>
    BY <1>5 DEF Write, ghosts
  <2>2. ReaderInv'
    BY <1>1, <1>4, <2>1 DEF ReaderInv
  <2>3. SeenInv' /\ StillInv'
    BY <1>1, <1>5 DEF SeenInv, StillInv
  <2> QED
    BY <1>3, <2>2, <2>3 DEF Inductive
<1>6. CASE reader # "idle"
  <2>1. /\ touched' = touched \cup {x}
        /\ rose' = (rose \/ Rises(items[x], new))
        /\ sank' = (sank \/ Sinks(items[x], new))
    BY <1>6 DEF Write
  <2>2. ReaderInv' /\ StillInv'
    BY <1>1, <1>4, <1>6, <2>1 DEF ReaderInv, StillInv
  <2>3. ASSUME NEW y \in found \ (touched \cup {x})
        PROVE  /\ reader = "reading" => y \in Matching(items', query')
               /\ ~rose' => Seen(y) <= 1
               /\ reader = "reading" /\ ~rose' /\ Seen(y) > 0
                    => Position(items', query', y) <= ReadUpTo
               /\ reader = "reading" /\ ~sank' /\ Position(items', query', y) <= ReadUpTo
                    => Seen(y) > 0
               /\ reader = "done" /\ ~sank' => Seen(y) > 0
    <3>1. /\ reader = "reading" => y \in Matching(items, query)
          /\ ~rose => Seen(y) <= 1
          /\ reader = "reading" /\ ~rose /\ Seen(y) > 0 => Position(items, query, y) <= ReadUpTo
          /\ reader = "reading" /\ ~sank /\ Position(items, query, y) <= ReadUpTo => Seen(y) > 0
          /\ reader = "done" /\ ~sank => Seen(y) > 0
      BY <1>1, <1>6, <2>3 DEF SeenInv
    <3>2. query' = query /\ (~rose' => ~rose) /\ (~sank' => ~sank)
      BY <1>1, <2>1
    <3>3. CASE reader = "reading"
      <4>1. y \in Matching(items, query) /\ y \in Matching(items', query)
        BY <1>2, <2>3, <3>1, <3>3 DEF Matching, Present
      <4>2. ReadUpTo \in Nat
        BY <1>1 DEF ReaderInv
      <4>3. Position(items, query, y) \in Nat /\ Position(items', query, y) \in Nat
        BY <1>2, <4>1, Places
      <4>4. ~rose' => Position(items', query, y) <= Position(items, query, y)
        <5>1. ASSUME ~rose' PROVE ~Rises(items[x], items'[x])
          BY <1>2, <2>1, <5>1
        <5> QED
          BY <1>2, <2>3, <4>1, <5>1, PlacesDoNotGrow
      <4>5. ~sank' => Position(items, query, y) <= Position(items', query, y)
        <5>1. ASSUME ~sank' PROVE ~Sinks(items[x], items'[x])
          BY <1>2, <2>1, <5>1
        <5> QED
          BY <1>2, <2>3, <4>1, <5>1, PlacesDoNotShrink
      <4> QED
        BY <3>1, <3>2, <3>3, <4>1, <4>2, <4>3, <4>4, <4>5
    <3>4. CASE reader # "reading"
      BY <3>1, <3>2, <3>4
    <3> QED
      BY <3>3, <3>4
  <2>4. SeenInv'
    BY <1>1, <1>4, <1>6, <2>1, <2>3 DEF SeenInv
  <2> QED
    BY <1>3, <2>2, <2>4 DEF Inductive
<1> QED
  BY <1>5, <1>6

LEMMA ReaderTypes ==
  ASSUME Inductive
  PROVE  /\ items \in Store /\ size \in Int /\ page \in Nat \ {0} /\ got \in Seq(Id)
         /\ SizeOf(size) \in Nat \ {0}
         /\ ReadUpTo \in Nat /\ ReadUpTo = (page - 1) * SizeOf(size) /\ ReadUpTo < Half
<1>1. items \in Store /\ size \in Int /\ page \in Nat \ {0} /\ got \in Seq(Id)
  BY DEF Inductive, TypeOK, Store, Item
<1>2. SizeOf(size) \in 1 .. MaxSize /\ MaxSize \in Nat
  BY <1>1, SizeType, QueryAssumption
<1>3. /\ Cardinality(Id) \in Nat /\ MaxSize \in Nat /\ Half \in Nat
      /\ Cardinality(Id) + MaxSize < Half
  BY QueryAssumption, FS_CardinalityType
<1>4. ReadUpTo \in 0 .. Cardinality(Id)
  BY DEF Inductive, ReaderInv
<1>5. ReadUpTo \in Nat /\ ReadUpTo < Half
  BY ONLY <1>3, <1>4
<1>6. ReadUpTo = (page - 1) * SizeOf(size)
  BY DEF ReadUpTo
<1> QED
  BY ONLY <1>1, <1>2, <1>5, <1>6

(* The items of a page have the places from its first one on. *)
LEMMA PlacesOfPage ==
  ASSUME NEW records \in Store, NEW q, NEW p \in Nat \ {0}, NEW s \in Int,
         NEW from \in Nat, from = (p - 1) * SizeOf(s), from < Half,
         NEW list, list = Search(records, q, p, s).items,
         NEW k \in 1 .. Len(list)
  PROVE  Position(records, q, list[k]) = from + k
<1> DEFINE answer == Search(records, q, p, s)
           total == Cardinality(Matching(records, q))
<1>1. answer = Search(records, q, p, s) /\ total = Cardinality(Matching(records, q))
  OBVIOUS
<1> HIDE DEF answer, total
<1>2. \A n \in 1 .. Len(answer.items) : Position(records, q, answer.items[n]) = from + n
  BY ONLY <1>1, PageProperties, records \in Store, p \in Nat \ {0}, s \in Int,
          from \in Nat, from = (p - 1) * SizeOf(s), from < Half
<1> QED
  BY <1>2 DEF answer

(* What a reader has got after the next page. *)
LEMMA PageRead ==
  ASSUME Inductive, reader = "reading", ReadPage,
         NEW total, total = Cardinality(Matching(items, query)),
         NEW upTo, upTo = ReadUpTo + SizeOf(size)
  PROVE  /\ total \in 0 .. Cardinality(Id) /\ upTo \in Nat
         /\ got' \in Seq(Id)
         /\ Len(got') = Len(got) + Lesser(upTo, total) - Lesser(ReadUpTo, total)
         /\ \A n \in DOMAIN got' :
              IF n <= Len(got)
              THEN n \in DOMAIN got /\ got'[n] = got[n]
              ELSE /\ got'[n] \in Matching(items, query)
                   /\ Position(items, query, got'[n]) = ReadUpTo + (n - Len(got))
         /\ \A x \in Matching(items, query) :
              Seen(x)' = Seen(x)
                         + IF Position(items, query, x) \in ReadUpTo + 1 .. upTo THEN 1 ELSE 0
         /\ \/ upTo < total /\ page' = page + 1 /\ reader' = "reading"
            \/ upTo >= total /\ page' = page /\ reader' = "done"
<1> DEFINE answer == Search(items, query, page, size)
<1>1. /\ items \in Store /\ size \in Int /\ page \in Nat \ {0} /\ got \in Seq(Id)
      /\ SizeOf(size) \in Nat \ {0}
      /\ ReadUpTo \in Nat /\ ReadUpTo = (page - 1) * SizeOf(size) /\ ReadUpTo < Half
  BY ReaderTypes
<1>2. /\ got' = got \o answer.items
      /\ IF answer.hasNext THEN page' = page + 1 /\ reader' = reader
                           ELSE reader' = "done" /\ page' = page
  BY DEF ReadPage
<1>3. \A x \in Matching(items, query) :
        Count(answer.items, x) = IF Position(items, query, x) \in ReadUpTo + 1 .. upTo
                                 THEN 1 ELSE 0
  BY <1>1, CountOfPage
<1> HIDE DEF answer
<1>4. /\ total \in 0 .. Cardinality(Id)
      /\ answer.items \in Seq(Matching(items, query))
      /\ Len(answer.items) = Lesser(upTo, total) - Lesser(ReadUpTo, total)
      /\ \A k \in 1 .. Len(answer.items) :
           Position(items, query, answer.items[k]) = ReadUpTo + k
      /\ answer.hasNext <=> upTo < total
  <2>1. answer = Search(items, query, page, size)
    BY DEF answer
  <2>2. /\ total \in 0 .. Cardinality(Id)
        /\ answer.items \in Seq(Matching(items, query))
        /\ Len(answer.items) = Lesser(upTo, total) - Lesser(ReadUpTo, total)
        /\ answer.hasNext <=> upTo < total
    BY ONLY <1>1, <2>1, PageProperties, total = Cardinality(Matching(items, query)),
            upTo = ReadUpTo + SizeOf(size)
  <2>3. ASSUME NEW k \in 1 .. Len(answer.items)
        PROVE  Position(items, query, answer.items[k]) = ReadUpTo + k
    <3> DEFINE list == answer.items
    <3>1. list = Search(items, query, page, size).items /\ k \in 1 .. Len(list)
      BY <2>1, <2>3
    <3>2. /\ items \in Store /\ page \in Nat \ {0} /\ size \in Int
          /\ ReadUpTo \in Nat /\ ReadUpTo = (page - 1) * SizeOf(size) /\ ReadUpTo < Half
      BY <1>1
    <3> HIDE DEF list
    <3>3. Position(items, query, list[k]) = ReadUpTo + k
      BY ONLY <3>1, <3>2, PlacesOfPage
    <3> QED
      BY <3>3 DEF list
  <2> QED
    BY ONLY <2>2, <2>3
<1>5. answer.items \in Seq(Id)
  <2>1. Matching(items, query) \subseteq Id
    BY DEF Matching, Present
  <2> QED
    BY <1>4, <2>1
<1>6. got' \in Seq(Id) /\ Len(got') = Len(got) + Len(answer.items)
  BY ONLY <1>1, <1>2, <1>5, ConcatProperties
<1>7. Len(got') = Len(got) + Lesser(upTo, total) - Lesser(ReadUpTo, total)
  <2>1. Len(got) \in Nat /\ Cardinality(Id) \in Nat
    BY <1>1, QueryAssumption, FS_CardinalityType
  <2>2. Lesser(upTo, total) \in Int /\ Lesser(ReadUpTo, total) \in Int
    BY <1>1, <1>4, <2>1 DEF Lesser
  <2> QED
    BY ONLY <1>4, <1>6, <2>1, <2>2
<1>8. \A x : Seen(x)' = Seen(x) + Count(answer.items, x)
  <2>1. ASSUME NEW x PROVE Seen(x)' = Seen(x) + Count(answer.items, x)
    <3>1. Count(got \o answer.items, x) = Count(got, x) + Count(answer.items, x)
      BY ONLY <1>1, <1>5, CountConcat
    <3>2. Seen(x)' = Count(got', x) /\ Seen(x) = Count(got, x)
      BY DEF Seen, Count
    <3> QED
      BY <1>2, <3>1, <3>2
  <2> QED
    BY <2>1
<1>9. upTo \in Nat
  BY <1>1
<1>10. \/ upTo < total /\ page' = page + 1 /\ reader' = "reading"
       \/ upTo >= total /\ page' = page /\ reader' = "done"
  <2>1. total \in Nat
    BY <1>4, QueryAssumption, FS_CardinalityType
  <2>2. CASE answer.hasNext
    BY <1>2, <1>4, <2>2
  <2>3. CASE ~answer.hasNext
    BY <1>2, <1>4, <1>9, <2>1, <2>3
  <2> QED
    BY <2>2, <2>3
<1>11. ASSUME NEW n \in DOMAIN got'
       PROVE  IF n <= Len(got)
              THEN n \in DOMAIN got /\ got'[n] = got[n]
              ELSE /\ got'[n] \in Matching(items, query)
                   /\ Position(items, query, got'[n]) = ReadUpTo + (n - Len(got))
  <2>1. /\ Len(got) \in Nat /\ Len(answer.items) \in Nat /\ DOMAIN got = 1 .. Len(got)
        /\ n \in 1 .. Len(got) + Len(answer.items)
    BY <1>1, <1>5, <1>6, <1>11, LenProperties
  <2>2. got'[n] = IF n <= Len(got) THEN got[n] ELSE answer.items[n - Len(got)]
    BY ONLY <1>1, <1>2, <1>5, <2>1, ConcatProperties
  <2>3. CASE n <= Len(got)
    BY ONLY <2>1, <2>2, <2>3
  <2>4. CASE ~(n <= Len(got))
    <3>1. n - Len(got) \in 1 .. Len(answer.items)
      BY ONLY <2>1, <2>4
    <3>2. answer.items[n - Len(got)] \in Matching(items, query)
      BY ONLY <1>4, <3>1
    <3> QED
      BY ONLY <1>4, <2>2, <2>4, <3>1, <3>2
  <2> QED
    BY ONLY <2>3, <2>4
<1> QED
  BY <1>3, <1>4, <1>6, <1>7, <1>8, <1>9, <1>10, <1>11

LEMMA NextPage ==
  ASSUME NEW p \in Nat \ {0}, NEW s \in Nat
  PROVE  ((p + 1) - 1) * s = (p - 1) * s + s
  OBVIOUS

LEMMA ReadInductive ==
  ASSUME Inductive, ReadPage
  PROVE  Inductive'
<1> DEFINE total == Cardinality(Matching(items, query))
           upTo == ReadUpTo + SizeOf(size)
<1>1. /\ TypeOK /\ ReaderInv /\ SeenInv /\ StillInv /\ reader = "reading"
      /\ UNCHANGED <<items, writes, query, size, found, touched, rose, sank>>
  BY DEF Inductive, ReadPage, storeVars, ghosts
<1>2. /\ total \in 0 .. Cardinality(Id) /\ upTo \in Nat
      /\ got' \in Seq(Id)
      /\ Len(got') = Len(got) + Lesser(upTo, total) - Lesser(ReadUpTo, total)
      /\ \A n \in DOMAIN got' :
           IF n <= Len(got)
           THEN n \in DOMAIN got /\ got'[n] = got[n]
           ELSE /\ got'[n] \in Matching(items, query)
                /\ Position(items, query, got'[n]) = ReadUpTo + (n - Len(got))
      /\ \A x \in Matching(items, query) :
           Seen(x)' = Seen(x)
                      + IF Position(items, query, x) \in ReadUpTo + 1 .. upTo THEN 1 ELSE 0
      /\ \/ upTo < total /\ page' = page + 1 /\ reader' = "reading"
         \/ upTo >= total /\ page' = page /\ reader' = "done"
  BY <1>1, PageRead
<1>3. /\ items \in Store /\ size \in Int /\ page \in Nat \ {0} /\ got \in Seq(Id)
      /\ SizeOf(size) \in Nat \ {0}
      /\ ReadUpTo \in Nat /\ ReadUpTo = (page - 1) * SizeOf(size)
  BY ReaderTypes
<1>4. total \in Nat /\ Cardinality(Id) \in Nat /\ Len(got) \in Nat
  BY <1>2, <1>3, QueryAssumption, FS_CardinalityType
<1>5. SizeOf(size)' = SizeOf(size) /\ SizeOf(size') = SizeOf(size)
  BY <1>1 DEF SizeOf
<1> HIDE DEF total, upTo
<1>6. /\ reader' = "reading" => ReadUpTo' = upTo
      /\ reader' = "done" => ReadUpTo' = ReadUpTo
  <2>1. ReadUpTo' = (page' - 1) * SizeOf(size)
    BY <1>5 DEF ReadUpTo
  <2>2. CASE reader' = "reading"
    <3>1. page' = page + 1
      BY <1>2, <2>2
    <3>2. ((page + 1) - 1) * SizeOf(size) = (page - 1) * SizeOf(size) + SizeOf(size)
      BY ONLY <1>3, NextPage
    <3> QED
      BY <1>3, <2>1, <2>2, <3>1, <3>2 DEF upTo
  <2>3. CASE reader' = "done"
    BY <1>2, <1>3, <2>1, <2>3
  <2> QED
    BY <2>2, <2>3
<1>7. TypeOK'
  <2>1. page' \in Nat \ {0} /\ reader' \in {"idle", "reading", "done"}
    BY <1>2, <1>3
  <2> QED
    BY <1>1, <1>2, <2>1 DEF TypeOK, Present
<1>8. ReaderInv'
  <2>1. ReadUpTo' \in 0 .. Cardinality(Id)
    BY <1>1, <1>2, <1>4, <1>6 DEF ReaderInv
  <2> QED
    BY <1>1, <1>2, <2>1 DEF ReaderInv
<1>9. SeenInv'
  <2>1. ASSUME NEW x \in found \ touched
        PROVE  /\ reader' = "reading" => x \in Matching(items, query)
               /\ ~rose => Seen(x)' <= 1
               /\ reader' = "reading" /\ ~rose /\ Seen(x)' > 0 => Position(items, query, x) <= upTo
               /\ reader' = "reading" /\ ~sank /\ Position(items, query, x) <= upTo => Seen(x)' > 0
               /\ reader' = "done" /\ ~sank => Seen(x)' > 0
    <3>1. /\ x \in Matching(items, query)
          /\ ~rose => Seen(x) <= 1
          /\ ~rose /\ Seen(x) > 0 => Position(items, query, x) <= ReadUpTo
          /\ ~sank /\ Position(items, query, x) <= ReadUpTo => Seen(x) > 0
      BY <1>1 DEF SeenInv
    <3>2. Position(items, query, x) \in 1 .. total
      BY <1>3, <3>1, Places DEF total
    <3>3. Seen(x) \in Nat
      <4>1. Count(got, x) \in Nat
        BY ONLY <1>3, CountType
      <4> QED
        BY <4>1 DEF Seen, Count
    <3>4. Seen(x)' = Seen(x)
                     + IF Position(items, query, x) \in ReadUpTo + 1 .. upTo THEN 1 ELSE 0
      BY <1>2, <3>1
    <3>5. upTo = ReadUpTo + SizeOf(size) /\ (reader' = "done" => total <= upTo)
      BY <1>2, <1>4 DEF upTo
    <3>6. reader' = "reading" \/ reader' = "done"
      BY <1>2
    <3>7. CASE Position(items, query, x) \in ReadUpTo + 1 .. upTo
      <4>1. Seen(x)' = Seen(x) + 1
        BY <3>4, <3>7
      <4>2. ReadUpTo < Position(items, query, x) /\ Position(items, query, x) <= upTo
        BY ONLY <1>2, <1>3, <3>7
      <4> QED
        BY ONLY <1>3, <3>1, <3>2, <3>3, <4>1, <4>2
    <3>8. CASE Position(items, query, x) \notin ReadUpTo + 1 .. upTo
      <4>1. Seen(x)' = Seen(x)
        BY <3>3, <3>4, <3>8
      <4>2. Position(items, query, x) <= ReadUpTo \/ upTo < Position(items, query, x)
        <5>1. Position(items, query, x) \in Nat /\ ReadUpTo \in Nat /\ upTo \in Nat
          BY ONLY <1>2, <1>3, <1>4, <3>2
        <5> QED
          BY ONLY <3>8, <5>1
      <4>3. ReadUpTo <= upTo
        BY ONLY <1>3, <3>5
      <4>4. reader' = "done" => Position(items, query, x) <= upTo
        BY ONLY <1>2, <1>4, <3>2, <3>5
      <4>5. ~rose /\ Seen(x)' > 0 => Position(items, query, x) <= upTo
        BY ONLY <1>2, <1>3, <3>1, <3>2, <4>1, <4>3
      <4>6. ~sank /\ Position(items, query, x) <= upTo => Seen(x)' > 0
        BY ONLY <1>2, <1>3, <3>1, <3>2, <4>1, <4>2, <4>3
      <4> QED
        BY ONLY <3>1, <4>1, <4>4, <4>5, <4>6
    <3> QED
      BY ONLY <3>7, <3>8
  <2>2. Matching(items', query') = Matching(items, query)
          /\ \A x : Position(items', query', x) = Position(items, query, x)
    BY <1>1
  <2> QED
    BY <1>1, <1>6, <2>1, <2>2 DEF SeenInv
<1>10. StillInv'
  <2>1. ASSUME touched = {}
        PROVE  /\ found = Matching(items, query)
               /\ \A n \in DOMAIN got' :
                    got'[n] \in found /\ Position(items, query, got'[n]) = n
               /\ reader' = "reading" =>
                    /\ Len(got') = upTo
                    /\ upTo < Cardinality(found) \/ page' = 1
               /\ reader' = "done" =>
                    /\ Len(got') = Cardinality(found)
                    /\ Cardinality(found) <= upTo
                    /\ ReadUpTo < Cardinality(found) \/ (found = {} /\ page' = 1)
    <3>1. /\ found = Matching(items, query) /\ Len(got) = ReadUpTo
          /\ ReadUpTo < Cardinality(found) \/ page = 1
          /\ \A n \in DOMAIN got : got[n] \in found /\ Position(items, query, got[n]) = n
      BY <1>1, <2>1 DEF StillInv
    <3>2. total = Cardinality(found)
      BY <3>1 DEF total
    <3>3. page = 1 => ReadUpTo = 0
      BY <1>3
    <3>4. total = 0 => found = {}
      <4>1. IsFiniteSet(found)
        BY ONLY <1>3, <3>1, Places
      <4> QED
        BY <3>2, <4>1, FS_EmptySet
    <3>5. upTo = ReadUpTo + SizeOf(size)
      BY DEF upTo
    <3>6. ASSUME NEW n \in DOMAIN got'
          PROVE  got'[n] \in found /\ Position(items, query, got'[n]) = n
      <4>1. n \in Nat
        BY ONLY <1>2, <3>6
      <4>2. CASE n <= Len(got)
        BY ONLY <1>2, <3>1, <3>6, <4>2
      <4>3. CASE ~(n <= Len(got))
        <5>1. /\ got'[n] \in Matching(items, query)
              /\ Position(items, query, got'[n]) = ReadUpTo + (n - Len(got))
          BY ONLY <1>2, <3>6, <4>3
        <5> QED
          BY ONLY <1>3, <3>1, <4>1, <5>1
      <4> QED
        BY ONLY <4>2, <4>3
    <3>7. CASE upTo < total
      <4>1. Lesser(upTo, total) = upTo /\ Lesser(ReadUpTo, total) = ReadUpTo
        BY ONLY <1>2, <1>3, <1>4, <3>5, <3>7 DEF Lesser
      <4>2. Len(got') = upTo /\ reader' = "reading"
        <5>1. upTo \in Nat /\ Len(got') = Len(got) + Lesser(upTo, total) - Lesser(ReadUpTo, total)
          BY ONLY <1>2
        <5>2. Len(got) = ReadUpTo /\ ReadUpTo \in Nat
          BY ONLY <1>3, <3>1
        <5>3. reader' = "reading"
          BY <1>2, <1>4, <3>7, <5>1
        <5> QED
          BY ONLY <4>1, <5>1, <5>2, <5>3
      <4> QED
        BY ONLY <3>1, <3>2, <3>6, <3>7, <4>2
    <3>8. CASE upTo >= total
      <4>1. ReadUpTo <= total
        BY ONLY <1>3, <1>4, <3>1, <3>2, <3>3
      <4>2. Lesser(upTo, total) = total /\ Lesser(ReadUpTo, total) = ReadUpTo
        BY ONLY <1>2, <1>3, <1>4, <3>8, <4>1 DEF Lesser
      <4>3. Len(got') = total /\ reader' = "done" /\ page' = page
        <5>1. upTo \in Nat /\ Len(got') = Len(got) + Lesser(upTo, total) - Lesser(ReadUpTo, total)
          BY ONLY <1>2
        <5>2. Len(got) = ReadUpTo /\ ReadUpTo \in Nat
          BY ONLY <1>3, <3>1
        <5>3. reader' = "done" /\ page' = page
          BY <1>2, <1>4, <3>8, <5>1
        <5> QED
          BY ONLY <1>4, <4>2, <5>1, <5>2, <5>3
      <4>4. ReadUpTo < total \/ (found = {} /\ page' = 1)
        BY ONLY <1>4, <3>1, <3>2, <3>3, <3>4, <4>3
      <4> QED
        BY ONLY <3>1, <3>2, <3>6, <3>8, <4>3, <4>4
    <3> QED
      BY ONLY <1>2, <1>4, <3>7, <3>8
  <2>2. /\ Matching(items', query') = Matching(items, query)
        /\ \A x : Position(items', query', x) = Position(items, query, x)
    BY <1>1
  <2>3. upTo = ReadUpTo + SizeOf(size)
    BY DEF upTo
  <2> QED
    BY <1>1, <1>5, <1>6, <2>1, <2>2, <2>3 DEF StillInv
<1> QED
  BY <1>7, <1>8, <1>9, <1>10 DEF Inductive

LEMMA StartInductive ==
  ASSUME Inductive, StartReading
  PROVE  Inductive'
<1>1. /\ TypeOK /\ ReaderInv /\ reader = "idle" /\ reader' = "reading" /\ size' \in Sizes
      /\ found' = Matching(items, query)
      /\ UNCHANGED <<items, writes, query, page, got, touched, rose, sank>>
  BY DEF Inductive, StartReading, storeVars, ghosts
<1>2. page = 1 /\ got = <<>> /\ touched = {}
  BY <1>1 DEF ReaderInv
<1>3. size' \in Int /\ SizeOf(size)' \in Nat /\ ReadUpTo' = 0
  <2>1. size' \in Int /\ MaxSize \in Nat /\ SizeOf(size)' = SizeOf(size')
    BY <1>1, QueryAssumption DEF SizeOf
  <2>2. SizeOf(size') \in 1 .. MaxSize
    BY ONLY <2>1, SizeType
  <2>3. ReadUpTo' = (page' - 1) * SizeOf(size')
    BY <2>1 DEF ReadUpTo
  <2>4. page' - 1 = 0 /\ SizeOf(size') \in Nat
    BY <1>1, <1>2, <2>1, <2>2
  <2> QED
    BY ONLY <2>1, <2>3, <2>4
<1>4. items \in Store /\ Matching(items, query) \subseteq Id /\ Cardinality(Id) \in Nat
  BY <1>1, QueryAssumption, FS_CardinalityType DEF TypeOK, Store, Item, Matching, Present
<1>5. TypeOK'
  BY <1>1, <1>3, <1>4 DEF TypeOK, Present
<1>6. ReaderInv'
  BY <1>1, <1>3, <1>4 DEF ReaderInv
<1>7. \A x : Seen(x)' = 0
  <2>1. ASSUME NEW x PROVE {n \in DOMAIN got' : got'[n] = x} = {}
    BY <1>1, <1>2
  <2> QED
    BY <2>1, FS_EmptySet DEF Seen
<1>8. SeenInv'
  <2>1. \A x \in Matching(items, query) : Position(items, query, x) > 0
    <3>1. Cardinality(Matching(items, query)) \in Nat
      BY <1>4, Places
    <3> QED
      BY <1>4, <3>1, Places
  <2>2. /\ Matching(items', query') = Matching(items, query)
        /\ \A x : Position(items', query', x) = Position(items, query, x)
    BY <1>1
  <2>3. \A x \in Matching(items, query) : Position(items, query, x) \in Nat
    BY <1>4, Places
  <2> QED
    BY <1>1, <1>3, <1>7, <2>1, <2>2, <2>3 DEF SeenInv
<1>9. StillInv'
  <2>1. /\ Matching(items', query') = Matching(items, query)
        /\ Len(got') = 0 /\ DOMAIN got' = {} /\ page' = 1
    BY <1>1, <1>2
  <2> QED
    BY <1>1, <1>3, <2>1 DEF StillInv
<1> QED
  BY <1>5, <1>6, <1>8, <1>9 DEF Inductive

LEMMA NextInductive == Inductive /\ [Next]_vars => Inductive'
<1> SUFFICES ASSUME Inductive, [Next]_vars PROVE Inductive'
  OBVIOUS
<1>1. CASE StartReading
  BY <1>1, StartInductive
<1>2. CASE ReadPage
  BY <1>2, ReadInductive
<1>3. ASSUME NEW x \in Id, Put(x) \/ Update(x) PROVE Inductive'
  <2>1. PICK c \in Content, t \in Times : Write(x, Stamped(c, t))
    BY <1>3 DEF Put, Update
  <2>2. Stamped(c, t) \in Item
    BY QueryAssumption, StampedType DEF Item
  <2> QED
    BY <2>1, <2>2, WriteInductive
<1>4. ASSUME NEW x \in Id, Delete(x) PROVE Inductive'
  <2>1. Write(x, NoRecord) /\ NoRecord \in Item
    BY <1>4 DEF Delete, Item
  <2> QED
    BY <2>1, WriteInductive
<1>5. CASE UNCHANGED vars
  <2>1. UNCHANGED <<items, writes, reader, query, size, page, got, found,
                    touched, rose, sank>>
    BY <1>5 DEF vars, storeVars, readerVars, ghosts
  <2>2. TypeOK' /\ ReaderInv'
    BY <2>1 DEF Inductive, TypeOK, Present, ReaderInv, ReadUpTo, SizeOf
  <2>3. SeenInv' /\ StillInv'
    BY <2>1 DEF Inductive, SeenInv, StillInv, ReadUpTo, SizeOf, Seen
  <2> QED
    BY <2>2, <2>3 DEF Inductive
<1> QED
  BY <1>1, <1>2, <1>3, <1>4, <1>5 DEF Next

-----------------------------------------------------------------------------
(* Theorems *)

(* The invariant behind the reader's properties: what it has got lies      *)
(* within the places it has read up to as long as nothing rises in the     *)
(* list, and is all that stands there as long as nothing sinks             *)
(* (OpsService.Search, read page after page).                              *)
THEOREM InductiveInvariant == Spec => []Inductive
<1> QED
  BY InitInductive, NextInductive, PTL DEF Spec

(* A client that reads the list to its end while nothing is written gets   *)
(* all of it in its order, in as many pages as opsPageCount says.          *)
THEOREM StillList == Spec => []StillListIsRead
<1>1. ASSUME Inductive PROVE StillListIsRead
  <2> SUFFICES ASSUME reader = "done", touched = {}
               PROVE  /\ got = Listed(items, query)
                      /\ page = PageCount(Len(got), SizeOf(size)) \/ (got = <<>> /\ page = 1)
    BY DEF StillListIsRead
  <2> DEFINE n == Cardinality(found)
             s == SizeOf(size)
             L == Listed(items, query)
  <2>1. /\ found = Matching(items, query)
        /\ \A k \in DOMAIN got : got[k] \in found /\ Position(items, query, got[k]) = k
        /\ Len(got) = n
        /\ n <= ReadUpTo + s
        /\ ReadUpTo < n \/ (found = {} /\ page = 1)
    BY <1>1 DEF Inductive, StillInv
  <2>2. /\ page \in Nat \ {0} /\ got \in Seq(Id) /\ items \in Store
        /\ s \in Nat \ {0}
        /\ ReadUpTo \in Nat /\ ReadUpTo = (page - 1) * s
    BY <1>1, ReaderTypes
  <2>3. L \in Seq(found) /\ Len(L) = n
        /\ \A k \in 1 .. n : L[k] \in found /\ Position(items, query, L[k]) = k
    BY <2>1, <2>2, ListProperties
  <2>4. \A x, y \in found : Position(items, query, x) = Position(items, query, y) => x = y
    BY <2>1, <2>2, Places
  <2> HIDE DEF n, s, L
  <2>5. got = L
    <3>1. DOMAIN got = 1 .. n /\ n \in Nat
      BY <2>1, <2>2
    <3>2. \A k \in 1 .. n : got[k] = L[k]
      BY <2>1, <2>3, <2>4, <3>1
    <3> QED
      BY ONLY <2>1, <2>2, <2>3, <3>2, SeqEqual
  <2>6. CASE ReadUpTo < n
    <3>1. n \in Nat \ {0}
      BY <2>1, <2>2, <2>6
    <3>2. (n + s - 1) \div s = page
      <4> DEFINE q == (n + s - 1) \div s
      <4>1. q \in Nat /\ (n + s - 1) % s \in 0 .. s - 1 /\ n + s - 1 = s * q + ((n + s - 1) % s)
        <5>1. n + s - 1 \in Nat
          BY <2>2, <3>1
        <5> QED
          BY <2>2, <5>1, DivMod
      <4>2. (page - 1) * s < n /\ n <= (page - 1) * s + s /\ (page - 1) * s \in Nat
        BY <2>1, <2>2, <2>6
      <4> HIDE DEF q
      <4>3. (page - 1) * s + s = page * s /\ page * s \in Nat /\ q * s = s * q /\ q * s \in Nat
        BY ONLY <2>2, <4>1
      <4>4. ASSUME q < page PROVE FALSE
        <5>1. q * s <= (page - 1) * s
          <6>1. q <= page - 1 /\ page - 1 \in Nat /\ s \in Nat
            BY ONLY <2>2, <4>1, <4>4
          <6> QED
            BY ONLY <4>1, <6>1, TimesMonotone
        <5> QED
          BY ONLY <2>2, <3>1, <4>1, <4>2, <4>3, <5>1
      <4>5. ASSUME q > page PROVE FALSE
        <5>1. (page + 1) * s <= q * s
          <6>1. page + 1 <= q /\ page + 1 \in Nat /\ s \in Nat
            BY ONLY <2>2, <4>1, <4>5
          <6> QED
            BY ONLY <4>1, <6>1, TimesMonotone
        <5>2. (page + 1) * s = page * s + s
          BY ONLY <2>2
        <5> QED
          BY ONLY <2>2, <3>1, <4>1, <4>2, <4>3, <5>1, <5>2
      <4> QED
        BY ONLY <2>2, <4>1, <4>4, <4>5 DEF q
    <3>3. PageCount(Len(got), s) = page
      BY <2>1, <2>2, <3>1, <3>2 DEF PageCount
    <3> QED
      BY <2>5, <3>3 DEF s, L
  <2>7. CASE found = {} /\ page = 1
    <3>1. got = <<>>
      BY <2>2, <2>1, <2>7
    <3> QED
      BY <2>5, <2>7, <3>1 DEF L
  <2> QED
    BY <2>1, <2>6, <2>7
<1> QED
  BY <1>1, InductiveInvariant, PTL

(* A record that nobody has written since the client began is left out     *)
(* only if another one sank in the list or left it.                        *)
THEOREM NothingIsHidden == Spec => []MissedOnlyIfSank
<1>1. Inductive => MissedOnlyIfSank
  BY DEF Inductive, SeenInv, MissedOnlyIfSank
<1> QED
  BY <1>1, InductiveInvariant, PTL

(* A record that nobody has written since the client began is shown twice  *)
(* only if another one came up in the list.                                *)
THEOREM NothingComesTwice == Spec => []TwiceOnlyIfRose
<1>1. Inductive => TwiceOnlyIfRose
  BY DEF Inductive, SeenInv, TwiceOnlyIfRose
<1> QED
  BY <1>1, InductiveInvariant, PTL

(* Every page is its window of the sorted list (Search, opsBounds), for    *)
(* any store, filter and size and for all page numbers whose product with  *)
(* the size fits into an int.                                              *)
THEOREM Pages == Spec => []PagesAreWindows
<1>1. ASSUME Inductive PROVE PagesAreWindows
  <2>1. items \in Store
    BY <1>1, ReaderTypes
  <2>2. ASSUME NEW s \in Sizes, NEW p \in 1 .. Half - 1,
               (p - 1) * SizeOf(s) + 1 <= Half,
               NEW answer, answer = Search(items, query, p, s)
        PROVE  /\ answer.ok
               /\ Len(answer.items) =
                    Cardinality({x \in Matching(items, query) :
                       Position(items, query, x) \in (p - 1) * SizeOf(s) + 1 .. p * SizeOf(s)})
               /\ \A n \in DOMAIN answer.items :
                    Position(items, query, answer.items[n]) = ((p - 1) * SizeOf(s) + 1) + n - 1
               /\ answer.hasNext <=> \E x \in Matching(items, query) :
                                       Position(items, query, x) > p * SizeOf(s)
    <3> DEFINE M == Matching(items, query)
               from == (p - 1) * SizeOf(s)
               upTo == from + SizeOf(s)
               total == Cardinality(M)
               W == {x \in M : Position(items, query, x) \in from + 1 .. upTo}
               list == answer.items
    <3>1. p \in Nat \ {0} /\ s \in Int /\ Half \in Nat /\ p - 1 \in Nat
      BY QueryAssumption
    <3>2. SizeOf(s) \in Nat \ {0}
      <4>1. SizeOf(s) \in 1 .. MaxSize /\ MaxSize \in Nat
        BY <3>1, SizeType, QueryAssumption
      <4> QED
        BY ONLY <4>1
    <3>3. from \in Nat /\ from < Half /\ upTo \in Nat /\ upTo = p * SizeOf(s)
      <4>1. from \in Nat
        BY ONLY <3>1, <3>2, TimesMonotone
      <4>2. ((p - 1) + 1) * SizeOf(s) = (p - 1) * SizeOf(s) + SizeOf(s) /\ (p - 1) + 1 = p
        BY ONLY <3>1, <3>2
      <4> QED
        BY <2>2, <3>1, <3>2, <4>1, <4>2
    <3> HIDE DEF M, from, upTo, total, W, list
    <3>4. /\ total \in 0 .. Cardinality(Id)
          /\ answer.ok
          /\ list \in Seq(M)
          /\ Len(list) = Lesser(upTo, total) - Lesser(from, total)
          /\ \A k \in 1 .. Len(list) : Position(items, query, list[k]) = from + k
          /\ answer.hasNext <=> upTo < total
      <4>1. from = (p - 1) * SizeOf(s) /\ upTo = from + SizeOf(s)
        BY DEF from, upTo
      <4>2. answer = Search(items, query, p, s) /\ Cardinality(Matching(items, query)) = total
        BY <2>2 DEF M, total
      <4>3. /\ total \in 0 .. Cardinality(Id)
            /\ answer.ok
            /\ answer.items \in Seq(Matching(items, query))
            /\ Len(answer.items) = Lesser(from + SizeOf(s), total) - Lesser(from, total)
            /\ \A k \in 1 .. Len(answer.items) : Position(items, query, answer.items[k]) = from + k
            /\ answer.hasNext <=> from + SizeOf(s) < total
        BY ONLY <2>1, <3>1, <3>3, <4>1, <4>2, PageProperties
      <4> QED
        BY ONLY <4>1, <4>3 DEF M, list
    <3>5. /\ \A x \in M : Position(items, query, x) \in 1 .. total
          /\ \A x, y \in M : Position(items, query, x) = Position(items, query, y) => x = y
          /\ \A n \in 1 .. total : \E x \in M : Position(items, query, x) = n
      BY <2>1, Places DEF M, total
    <3>6. total \in Nat /\ Len(list) \in Nat /\ DOMAIN list = 1 .. Len(list)
          /\ \A k \in 1 .. Len(list) : list[k] \in M
      BY <3>4, QueryAssumption, FS_CardinalityType
    <3>7. Len(list) = Cardinality(W)
      <4>1. \A k \in 1 .. Len(list) : list[k] \in W /\ from + k <= upTo
        <5>1. ASSUME NEW k \in 1 .. Len(list) PROVE from + k \in from + 1 .. upTo
          BY ONLY <3>3, <3>4, <3>6, <5>1 DEF Lesser
        <5>2. \A k \in 1 .. Len(list) : from + k \in from + 1 .. upTo /\ k \in Nat
          BY <5>1
        <5> QED
          BY <3>3, <3>4, <3>6, <5>2 DEF W
      <4>2. \A x \in W : \E k \in 1 .. Len(list) : list[k] = x
        <5>1. ASSUME NEW x \in W PROVE \E k \in 1 .. Len(list) : list[k] = x
          <6>1. x \in M /\ Position(items, query, x) \in from + 1 .. upTo
            BY DEF W
          <6>2. Position(items, query, x) \in 1 .. total
            BY <3>5, <6>1
          <6>3. PICK k \in Nat : Position(items, query, x) = from + k /\ k \in 1 .. Len(list)
            <7>1. Position(items, query, x) - from \in 1 .. Len(list)
              BY ONLY <3>3, <3>4, <3>6, <6>1, <6>2 DEF Lesser
            <7>2. Position(items, query, x) = from + (Position(items, query, x) - from)
              BY ONLY <3>3, <3>6, <6>2
            <7> QED
              BY <3>6, <7>1, <7>2
          <6>4. Position(items, query, list[k]) = Position(items, query, x) /\ list[k] \in M
            BY <3>4, <3>6, <6>3
          <6> QED
            BY <3>5, <6>1, <6>3, <6>4
        <5> QED
          BY <5>1
      <4>3. \A k, l \in 1 .. Len(list) : list[k] = list[l] => k = l
        <5>1. ASSUME NEW k \in 1 .. Len(list), NEW l \in 1 .. Len(list), list[k] = list[l]
              PROVE  k = l
          <6>1. from + k = from + l
            BY <3>4, <5>1
          <6> QED
            BY ONLY <3>3, <6>1, k \in 1 .. Len(list), l \in 1 .. Len(list), <3>6
        <5> QED
          BY <5>1
      <4>4. list \in Bijection(1 .. Len(list), W)
        <5>1. list \in [1 .. Len(list) -> M]
          BY ONLY <3>4
        <5>2. list \in [1 .. Len(list) -> W]
          BY <4>1, <5>1
        <5> QED
          BY <4>2, <4>3, <5>2 DEF Bijection, Injection, Surjection, IsInjective
      <4>5. IsFiniteSet(1 .. Len(list)) /\ Cardinality(1 .. Len(list)) = Len(list)
        BY ONLY <3>6, FirstNumbers
      <4>6. ExistsBijection(1 .. Len(list), W)
        BY <4>4 DEF ExistsBijection
      <4> QED
        BY ONLY <4>5, <4>6, FS_Bijection
    <3>8. upTo < total <=> \E x \in M : Position(items, query, x) > upTo
      <4>1. upTo < total => \E x \in M : Position(items, query, x) > upTo
        <5>1. ASSUME upTo < total PROVE total \in 1 .. total
          BY <3>3, <3>6, <5>1
        <5> QED
          BY <3>5, <5>1
      <4>2. ASSUME NEW x \in M, Position(items, query, x) > upTo PROVE upTo < total
        <5>1. Position(items, query, x) \in 1 .. total
          BY <3>5
        <5> QED
          BY <3>3, <3>6, <4>2, <5>1
      <4> QED
        BY <4>1, <4>2
    <3>9. \A n \in DOMAIN list : Position(items, query, list[n]) = (from + 1) + n - 1
      BY <3>3, <3>4, <3>6
    <3>10. W = {x \in M : Position(items, query, x) \in from + 1 .. p * SizeOf(s)}
      BY <3>3 DEF W
    <3> QED
      BY <3>3, <3>4, <3>7, <3>8, <3>9, <3>10 DEF M, from, list
  <2> QED
    BY <2>2 DEF PagesAreWindows
<1> QED
  BY <1>1, InductiveInvariant, PTL

-----------------------------------------------------------------------------
(* The report *)

LEMMA ActiveRecords ==
  ASSUME NEW records \in Store
  PROVE  /\ Active(records) \in SUBSET Id /\ Active(records) \subseteq Present(records)
         /\ IsFiniteSet(Active(records))
<1>1. Active(records) \in SUBSET Id /\ Active(records) \subseteq Present(records)
  BY DEF Active, Present
<1>2. IsFiniteSet(Id)
  BY QueryAssumption
<1> QED
  BY ONLY <1>1, <1>2, FS_Subset

(* Some stamp is the least of the active records', as a text.              *)
LEMMA LeastStamp ==
  ASSUME NEW records \in Store, Active(records) # {}
  PROVE  /\ OldestActive(records) \in Nat
         /\ \A x \in Active(records) : Text(OldestActive(records)) <= Text(records[x].updated)
<1> DEFINE S == Active(records)
           T(x) == Text(records[x].updated)
           R == {xy \in S \X S : \/ T(xy[1]) < T(xy[2])
                                 \/ T(xy[1]) = T(xy[2]) /\ xy[1] < xy[2]}
<1>1. \A x \in S : x \in Nat /\ T(x) \in Nat /\ records[x].updated \in Nat
  BY ActiveRecords, PresentRecords
<1>2. \A x, y \in S : <<x, y>> \in R <=> T(x) < T(y) \/ (T(x) = T(y) /\ x < y)
  <2> HIDE DEF S, T
  <2> QED
    OBVIOUS
<1> HIDE DEF S, T, R
<1>3. /\ \A x \in S : <<x, x>> \notin R
      /\ \A x, y \in S : x # y => <<x, y>> \in R \/ <<y, x>> \in R
      /\ \A x, y, z \in S : <<x, y>> \in R /\ <<y, z>> \in R => <<x, z>> \in R
  BY <1>1, <1>2
<1>4. IsFiniteSet(S) /\ S # {}
  BY ActiveRecords DEF S
<1>5. /\ \A x \in S : RankIn(S, R)[x] \in 1 .. Cardinality(S)
      /\ \A x, y \in S : <<x, y>> \in R <=> RankIn(S, R)[x] < RankIn(S, R)[y]
      /\ \A n \in 1 .. Cardinality(S) : \E x \in S : RankIn(S, R)[x] = n
  BY ONLY <1>3, <1>4, Ranking
<1>6. 1 \in 1 .. Cardinality(S) /\ Cardinality(S) \in Nat
  <2>1. Cardinality(S) \in Nat /\ Cardinality(S) # 0
    BY ONLY <1>4, FS_CardinalityType, FS_EmptySet
  <2> QED
    BY ONLY <2>1
<1>7. PICK x \in S : RankIn(S, R)[x] = 1
  BY <1>5, <1>6
<1>8. \A y \in S : T(x) <= T(y)
  <2>1. ASSUME NEW y \in S PROVE T(x) <= T(y)
    <3>1. <<y, x>> \notin R
      <4>1. ~(RankIn(S, R)[y] < RankIn(S, R)[x])
        BY ONLY <1>5, <1>6, <1>7, y \in S
      <4> QED
        BY <1>5, <4>1
    <3> QED
      BY <1>1, <1>2, <3>1
  <2> QED
    BY <2>1
<1>9. \E t \in {records[y].updated : y \in S} :
        \A y \in S : Text(t) <= Text(records[y].updated)
  BY <1>8 DEF T
<1>10. /\ OldestActive(records) \in {records[y].updated : y \in S}
       /\ \A y \in S : Text(OldestActive(records)) <= Text(records[y].updated)
  BY <1>9 DEF OldestActive, S
<1> QED
  BY <1>1, <1>10 DEF S

(* topOwners: the owners by their number of active records. *)
LEMMA TopProperties ==
  ASSUME NEW records \in Store, NEW limit \in Nat, NEW top, top = TopOwners(records, limit)
  PROVE  /\ \A m, n \in DOMAIN top : m < n => ActiveOf(records, top[m]) >= ActiveOf(records, top[n])
         /\ \A x \in Active(records) : \A n \in DOMAIN top :
              records[x].owner \notin {top[m] : m \in DOMAIN top}
                => ActiveOf(records, records[x].owner) <= ActiveOf(records, top[n])
         /\ \A n \in DOMAIN top : top[n] \in {records[x].owner : x \in Active(records)}
         /\ DOMAIN top \subseteq Nat \ {0}
         /\ limit > 0 /\ Active(records) # {} => 1 \in DOMAIN top
<1> DEFINE S == {records[x].owner : x \in Active(records)}
           A(o) == ActiveOf(records, o)
           R == {op \in S \X S : Busier(records, op[1], op[2])}
           N == Cardinality(S)
           L == IF limit > N THEN N ELSE limit
<1>1. IsFiniteSet(S) /\ N \in Nat
  <2>1. IsFiniteSet(Active(records))
    BY ActiveRecords
  <2>2. [x \in Active(records) |-> records[x].owner] \in Surjection(Active(records), S)
    BY DEF Surjection
  <2> HIDE DEF S
  <2>3. IsFiniteSet(S)
    BY ONLY <2>1, <2>2, FS_Surjection
  <2> QED
    BY ONLY <2>3, FS_CardinalityType DEF N
<1>2. \A o \in S : o \in Nat
  <2>1. \A x \in Active(records) : records[x] \in OpsRecord
    BY ActiveRecords, PresentRecords
  <2> QED
    BY <2>1 DEF OpsRecord, Owner
<1>3. \A o : A(o) \in Nat
  <2>1. ASSUME NEW o PROVE A(o) \in Nat
    <3>1. IsFiniteSet(Active(records))
      BY ActiveRecords
    <3>2. {x \in Active(records) : records[x].owner = o} \in SUBSET Active(records)
      OBVIOUS
    <3>3. Cardinality({x \in Active(records) : records[x].owner = o}) \in Nat
      BY ONLY <3>1, <3>2, FS_Subset, FS_CardinalityType
    <3> QED
      BY <3>3 DEF ActiveOf
  <2> QED
    BY <2>1
<1>4. \A o, p \in S : <<o, p>> \in R <=> A(o) > A(p) \/ (A(o) = A(p) /\ o < p)
  <2>1. \A o, p \in S : <<o, p>> \in R <=> Busier(records, o, p)
    <3> HIDE DEF S
    <3> QED
      OBVIOUS
  <2> QED
    BY <2>1 DEF Busier
<1>5. \A o \in S : RankIn(S, R)[o] = Cardinality({p \in S : Busier(records, p, o)}) + 1
  <2> HIDE DEF S
  <2>1. \A o \in S : {p \in S : <<p, o>> \in R} = {p \in S : Busier(records, p, o)}
    OBVIOUS
  <2> HIDE DEF R
  <2> QED
    BY <2>1 DEF RankIn
<1>6. top = [n \in 1 .. L |->
               CHOOSE o \in S : Cardinality({p \in S : Busier(records, p, o)}) = n - 1]
  <2>1. ~(limit < 0)
    BY QueryAssumption
  <2> QED
    BY <2>1 DEF TopOwners
<1>7. L \in Nat /\ L <= N
  BY <1>1, QueryAssumption
<1> HIDE DEF S, A, R, N, L
<1>8. /\ \A o \in S : <<o, o>> \notin R
      /\ \A o, p \in S : o # p => <<o, p>> \in R \/ <<p, o>> \in R
      /\ \A o, p, r \in S : <<o, p>> \in R /\ <<p, r>> \in R => <<o, r>> \in R
  BY <1>2, <1>3, <1>4
<1>9. /\ \A o \in S : RankIn(S, R)[o] \in 1 .. Cardinality(S)
      /\ \A o, p \in S : /\ <<o, p>> \in R <=> RankIn(S, R)[o] < RankIn(S, R)[p]
                         /\ RankIn(S, R)[o] = RankIn(S, R)[p] => o = p
      /\ \A n \in 1 .. Cardinality(S) : \E o \in S : RankIn(S, R)[o] = n
  BY ONLY <1>1, <1>8, Ranking
<1>10. \A n \in 1 .. L : top[n] \in S /\ RankIn(S, R)[top[n]] = n
  <2>1. ASSUME NEW n \in 1 .. L PROVE top[n] \in S /\ RankIn(S, R)[top[n]] = n
    <3>1. n \in 1 .. Cardinality(S) /\ n \in Nat
      BY <1>1, <1>7 DEF N
    <3>2. PICK o \in S : RankIn(S, R)[o] = n
      BY <1>9, <3>1
    <3> DEFINE C(q) == Cardinality({p \in S : Busier(records, p, q)})
    <3>3. \A q \in S : RankIn(S, R)[q] = C(q) + 1 /\ C(q) \in Nat
      <4>1. ASSUME NEW q \in S PROVE C(q) \in Nat
        <5>1. {p \in S : Busier(records, p, q)} \in SUBSET S
          OBVIOUS
        <5> QED
          BY ONLY <1>1, <5>1, FS_Subset, FS_CardinalityType
      <4> QED
        BY <1>5, <4>1
    <3>4. top[n] = CHOOSE q \in S : C(q) = n - 1
      BY <1>6
    <3> HIDE DEF C
    <3>5. C(o) = n - 1
      BY <3>1, <3>2, <3>3
    <3>6. top[n] \in S /\ C(top[n]) = n - 1
      BY <3>4, <3>5
    <3> QED
      BY <3>1, <3>3, <3>6
  <2> QED
    BY <2>1
<1>11. DOMAIN top = 1 .. L
  BY <1>6
<1>12. \A m, n \in DOMAIN top : m < n => A(top[m]) >= A(top[n])
  <2>1. ASSUME NEW m \in 1 .. L, NEW n \in 1 .. L, m < n PROVE A(top[m]) >= A(top[n])
    <3>1. <<top[m], top[n]>> \in R
      BY <1>9, <1>10, <2>1
    <3> QED
      BY <1>3, <1>4, <1>10, <3>1
  <2> QED
    BY <1>11, <2>1
<1>13. ASSUME NEW o \in S, NEW n \in 1 .. L, o \notin {top[m] : m \in 1 .. L}
       PROVE  A(o) <= A(top[n])
  <2>1. RankIn(S, R)[o] \notin 1 .. L
    <3>1. ASSUME NEW m \in 1 .. L PROVE RankIn(S, R)[o] # m
      <4>1. o # top[m]
        BY <1>13
      <4>2. top[m] \in S /\ RankIn(S, R)[top[m]] = m /\ o \in S
        BY <1>10
      <4>3. RankIn(S, R)[o] = RankIn(S, R)[top[m]] => o = top[m]
        BY ONLY <1>9, <4>2
      <4> QED
        BY ONLY <4>1, <4>2, <4>3
    <3> QED
      BY <3>1
  <2>2. RankIn(S, R)[top[n]] < RankIn(S, R)[o]
    <3>1. RankIn(S, R)[o] \in Nat \ {0}
      BY <1>1, <1>9 DEF N
    <3>2. n \in Nat /\ n <= L
      BY <1>7
    <3> QED
      BY <1>7, <1>10, <2>1, <3>1, <3>2
  <2>3. <<top[n], o>> \in R
    BY <1>9, <1>10, <2>2
  <2> QED
    BY <1>3, <1>4, <1>10, <2>3
<1>14. DOMAIN top \subseteq Nat \ {0} /\ (limit > 0 /\ S # {} => 1 \in DOMAIN top)
  <2>1. S # {} => N > 0
    <3>1. S # {} => N # 0
      BY ONLY <1>1, FS_EmptySet DEF N
    <3> QED
      BY <1>1, <3>1
  <2> QED
    BY <1>1, <1>7, <1>11, <2>1 DEF L
<1>15. Active(records) # {} => S # {}
  BY DEF S
<1> QED
  BY <1>10, <1>11, <1>12, <1>13, <1>14, <1>15 DEF S, A

(* The first of them, if there is one. *)
LEMMA BusiestProperties ==
  ASSUME NEW records \in Store, NEW x \in Active(records)
  PROVE  LET owner == OpsReport(records).activeOwner
         IN /\ \E y \in Active(records) : records[y].owner = owner
            /\ ActiveOf(records, records[x].owner) <= ActiveOf(records, owner)
<1> DEFINE top == TopOwners(records, TopLimit)
           A(o) == ActiveOf(records, o)
<1>1. TopLimit \in Nat /\ TopLimit > 0
  BY QueryAssumption
<1>2. /\ \A m, n \in DOMAIN top : m < n => A(top[m]) >= A(top[n])
      /\ \A n \in DOMAIN top :
           records[x].owner \notin {top[m] : m \in DOMAIN top} => A(records[x].owner) <= A(top[n])
      /\ \A n \in DOMAIN top : top[n] \in {records[y].owner : y \in Active(records)}
      /\ DOMAIN top \subseteq Nat \ {0} /\ 1 \in DOMAIN top
  BY <1>1, TopProperties
<1>3. \A o : A(o) \in Nat
  <2>1. ASSUME NEW o PROVE A(o) \in Nat
    <3>1. IsFiniteSet(Active(records))
      BY ActiveRecords
    <3>2. {y \in Active(records) : records[y].owner = o} \in SUBSET Active(records)
      OBVIOUS
    <3>3. Cardinality({y \in Active(records) : records[y].owner = o}) \in Nat
      BY ONLY <3>1, <3>2, FS_Subset, FS_CardinalityType
    <3> QED
      BY <3>3 DEF ActiveOf
  <2> QED
    BY <2>1
<1>4. OpsReport(records).activeOwner = IF top = <<>> THEN 0 ELSE top[1]
  BY DEF OpsReport
<1> HIDE DEF top, A
<1>5. OpsReport(records).activeOwner = top[1]
  BY <1>2, <1>4
<1>6. A(records[x].owner) <= A(top[1])
  <2>1. CASE records[x].owner \notin {top[m] : m \in DOMAIN top}
    BY <1>2, <2>1
  <2>2. CASE \E m \in DOMAIN top : records[x].owner = top[m]
    BY <1>2, <1>3, <2>2
  <2> QED
    BY <2>1, <2>2
<1> QED
  BY <1>2, <1>5, <1>6 DEF A

(* The oldest active record of the report is the oldest up to the second,  *)
(* although stamps are compared as strings, and its owners are the busiest *)
(* (buildOpsReport, topOwners).                                            *)
THEOREM Report == Spec => []ReportIsRight
<1>1. ASSUME Inductive PROVE ReportIsRight
  <2>1. items \in Store
    BY <1>1, ReaderTypes
  <2>2. OldestToTheSecond
    <3>1. ASSUME NEW x \in Active(items)
          PROVE  SecondOf(OpsReport(items).oldestActive) <= SecondOf(items[x].updated)
      <4>1. /\ OldestActive(items) \in Nat
            /\ Text(OldestActive(items)) <= Text(items[x].updated)
        BY <2>1, LeastStamp
      <4>2. items[x].updated \in Nat
        BY <2>1, ActiveRecords, PresentRecords
      <4>3. /\ SecondOf(items[x].updated) < SecondOf(OldestActive(items))
                 => Text(items[x].updated) < Text(OldestActive(items))
            /\ Text(OldestActive(items)) \in Nat /\ Text(items[x].updated) \in Nat
            /\ SecondOf(OldestActive(items)) \in Nat /\ SecondOf(items[x].updated) \in Nat
        BY <4>1, <4>2, LaterSecondGreaterText, TextProperties
      <4>4. OpsReport(items).oldestActive = OldestActive(items)
        BY DEF OpsReport
      <4> QED
        BY <4>1, <4>3, <4>4
    <3> QED
      BY <3>1 DEF OldestToTheSecond
  <2>3. BusiestOwners
    <3>1. \A limit \in 1 .. TopLimit : limit \in Nat
      BY QueryAssumption
    <3> QED
      BY <2>1, <3>1, TopProperties DEF BusiestOwners
  <2>4. BusiestOwner
    BY <2>1, BusiestProperties DEF BusiestOwner
  <2>5. CountsAgree
    <3>1. \A q : Len(Listed(items, q)) = Cardinality(Matching(items, q))
      BY <2>1, ListProperties
    <3>2. Matching(items, FilteredBy("", "")) = Present(items)
      BY DEF Matching, Match, FilteredBy
    <3>3. ASSUME NEW s, s # ""
          PROVE  /\ Matching(items, FilteredBy(s, "")) = WithStatus(items, s)
                 /\ Matching(items, FilteredBy("", s)) = WithPriority(items, s)
      BY <3>3 DEF Matching, Match, FilteredBy, WithStatus, WithPriority
    <3>4. OpsReport(items).total = Len(Listed(items, FilteredBy("", "")))
      BY <3>1, <3>2 DEF OpsReport
    <3>5. ASSUME NEW s \in DOMAIN OpsReport(items).byStatus \ {""}
          PROVE  OpsReport(items).byStatus[s] = Len(Listed(items, FilteredBy(s, "")))
      <4>1. /\ s \in {items[x].status : x \in Present(items)} /\ s # ""
            /\ OpsReport(items).byStatus[s] = Cardinality(WithStatus(items, s))
        BY DEF OpsReport
      <4> QED
        BY <3>1, <3>3, <4>1
    <3>6. ASSUME NEW p \in DOMAIN OpsReport(items).byPriority \ {""}
          PROVE  OpsReport(items).byPriority[p]
                   = Len(Listed(items, FilteredBy("", p)))
      <4>1. /\ p \in {items[x].priority : x \in Present(items)} /\ p # ""
            /\ OpsReport(items).byPriority[p] = Cardinality(WithPriority(items, p))
        BY DEF OpsReport
      <4> QED
        BY <3>1, <3>3, <4>1
    <3> QED
      BY <3>4, <3>5, <3>6 DEF CountsAgree
  <2> QED
    BY <2>2, <2>3, <2>4, <2>5 DEF ReportIsRight
<1> QED
  BY <1>1, InductiveInvariant, PTL

=============================================================================
