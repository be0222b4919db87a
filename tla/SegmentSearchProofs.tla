-------------------------- MODULE SegmentSearchProofs --------------------------
(***************************************************************************)
(* Theorems about SegmentSearch: for any number of documents, segments,    *)
(* handles, workers, searches, deletions and compactions.                  *)
(***************************************************************************)
EXTENDS SegmentSearch, FiniteSetTheorems, SequenceTheorems, WellFoundedInduction, TLAPS

---------------------------------------------------------------------------
(* Lists *)

\* An order of all the members of S.
Orders(S, order) ==
  /\ \A x \in S : <<x, x>> \notin order
  /\ \A x, y \in S : x = y \/ <<x, y>> \in order \/ <<y, x>> \in order
  /\ \A x, y, z \in S : <<x, y>> \in order /\ <<y, z>> \in order => <<x, z>> \in order

\* list has every member of S, and each of them once.
Lists(list, S, n) ==
  /\ list \in [1 .. n -> S]
  /\ \A x \in S : \E i \in 1 .. n : list[i] = x
  /\ \A i, j \in 1 .. n : list[i] = list[j] => i = j

LEMMA ArrangedLists ==
  ASSUME NEW S, IsFiniteSet(S), NEW order, Orders(S, order)
  PROVE  /\ Cardinality(S) \in Nat
         /\ Lists(Arranged(S, order), S, Cardinality(S))
         /\ \A i, j \in 1 .. Cardinality(S) :
              i < j => <<Arranged(S, order)[i], Arranged(S, order)[j]>> \in order
<1> DEFINE below(x) == {y \in S : <<y, x>> \in order}
<1>0. PICK n, size : n = Cardinality(S) /\ size = [x \in S |-> Cardinality(below(x))]
  OBVIOUS
<1>1. n \in Nat
  BY <1>0, FS_CardinalityType
<1>2. ASSUME NEW x \in S
      PROVE  IsFiniteSet(below(x)) /\ size[x] = Cardinality(below(x)) /\ size[x] \in Nat /\ size[x] < n
  <2>1. below(x) \in SUBSET S /\ x \notin below(x)
    BY DEF Orders
  <2>2. IsFiniteSet(below(x)) /\ Cardinality(below(x)) <= n /\ (n = Cardinality(below(x)) => S = below(x))
    BY <1>0, <2>1, FS_Subset
  <2>3. Cardinality(below(x)) \in Nat
    BY <2>2, FS_CardinalityType
  <2>4. size[x] = Cardinality(below(x))
    BY <1>0
  <2> HIDE DEF below
  <2> QED BY <1>1, <2>1, <2>2, <2>3, <2>4
<1>3. ASSUME NEW x \in S, NEW y \in S, <<x, y>> \in order
      PROVE  size[x] < size[y]
  <2>1. below(x) \in SUBSET below(y) /\ x \in below(y) /\ x \notin below(x)
    BY <1>3 DEF Orders
  <2>2. IsFiniteSet(below(y)) /\ size[x] = Cardinality(below(x)) /\ size[y] = Cardinality(below(y))
        /\ size[x] \in Nat /\ size[y] \in Nat
    BY <1>2
  <2>3. Cardinality(below(x)) <= Cardinality(below(y))
        /\ (Cardinality(below(y)) = Cardinality(below(x)) => below(y) = below(x))
    BY <2>1, <2>2, FS_Subset
  <2> HIDE DEF below
  <2> QED BY <2>1, <2>2, <2>3
<1>4. \A x \in S : size[x] \in Nat /\ size[x] < n
  BY <1>2
<1>5. \A x, y \in S : <<x, y>> \in order => size[x] < size[y]
  BY <1>3
<1>6. \A x, y \in S : x = y \/ <<x, y>> \in order \/ <<y, x>> \in order
  BY DEF Orders
<1>7. \A x, y \in S : size[x] = size[y] => x = y
  <2> SUFFICES ASSUME NEW x \in S, NEW y \in S, size[x] = size[y], x # y PROVE FALSE
    OBVIOUS
  <2>1. size[x] < size[y] \/ size[y] < size[x]
    BY <1>5, <1>6
  <2> QED BY <1>4, <2>1
<1>8. ASSUME NEW i \in 1 .. n PROVE \E x \in S : size[x] = i - 1
  <2>1. PICK rank : rank = [x \in S |-> 1 + size[x]]
    OBVIOUS
  <2>2. rank \in [S -> 1 .. n] /\ \A x \in S : rank[x] = 1 + size[x]
    <3>1. ASSUME NEW x \in S PROVE 1 + size[x] \in 1 .. n
      <4>1. size[x] \in Nat /\ size[x] < n
        BY <1>4
      <4> QED BY <1>1, <4>1
    <3> QED BY <2>1, <3>1
  <2>3. \A x, y \in S : rank[x] = rank[y] => x = y
    <3> SUFFICES ASSUME NEW x \in S, NEW y \in S, rank[x] = rank[y] PROVE x = y
      OBVIOUS
    <3>1. 1 + size[x] = 1 + size[y]
      BY <2>2
    <3>2. size[x] = size[y]
      BY <1>4, <3>1
    <3> QED BY <1>7, <3>2
  <2>4. rank \in Injection(S, 1 .. n)
    BY <2>2, <2>3 DEF Injection, IsInjective
  <2>5. IsFiniteSet(1 .. n) /\ Cardinality(1 .. n) = n
    BY <1>1, FS_Interval
  <2>6. rank \in Surjection(S, 1 .. n)
    BY <1>0, <2>4, <2>5, FS_Injection
  <2>7. PICK x \in S : rank[x] = i
    BY <2>6 DEF Surjection
  <2>8. size[x] \in Nat /\ i = 1 + size[x]
    BY <1>4, <2>2, <2>7
  <2> QED BY <2>8
<1>9. PICK list : list = Arranged(S, order)
  OBVIOUS
<1>10. ASSUME NEW i \in 1 .. n PROVE list[i] \in S /\ size[list[i]] = i - 1
  <2>1. PICK x \in S : size[x] = i - 1
    BY <1>8
  <2>2. list[i] = CHOOSE y \in S : Cardinality(below(y)) = i - 1
    BY <1>0, <1>9 DEF Arranged
  <2>3. Cardinality(below(x)) = i - 1
    BY <1>2, <2>1
  <2>4. list[i] \in S /\ Cardinality(below(list[i])) = i - 1
    BY <2>2, <2>3
  <2> QED BY <1>2, <2>4
<1>11. Lists(list, S, n)
  <2>1. list \in [1 .. n -> S]
    BY <1>0, <1>9, <1>10 DEF Arranged
  <2>2. ASSUME NEW x \in S PROVE \E i \in 1 .. n : list[i] = x
    <3>0. size[x] \in Nat /\ size[x] < n
      BY <1>4
    <3>1. 1 + size[x] \in 1 .. n /\ (1 + size[x]) - 1 = size[x]
      BY <1>1, <3>0
    <3>2. list[1 + size[x]] \in S /\ size[list[1 + size[x]]] = size[x]
      BY <1>10, <3>1
    <3>3. list[1 + size[x]] = x
      BY <1>7, <3>2
    <3> QED BY <3>1, <3>3
  <2>3. ASSUME NEW i \in 1 .. n, NEW j \in 1 .. n, list[i] = list[j] PROVE i = j
    <3>1. i - 1 = j - 1
      BY <1>10, <2>3
    <3> QED BY <1>1, <3>1
  <2> QED BY <2>1, <2>2, <2>3 DEF Lists
<1>12. ASSUME NEW i \in 1 .. n, NEW j \in 1 .. n, i < j
      PROVE  <<list[i], list[j]>> \in order
  <2>1. list[i] \in S /\ list[j] \in S /\ size[list[i]] = i - 1 /\ size[list[j]] = j - 1
    BY <1>10
  <2>2. ~(<<list[j], list[i]>> \in order) /\ list[i] # list[j]
    BY <1>1, <1>12, <1>5, <2>1
  <2> QED BY <1>6, <2>1, <2>2
<1> QED BY <1>0, <1>1, <1>9, <1>11, <1>12

Candidates == [id : Nat, score : Nat]

\* The ranking of a set.
LEMMA RankedLists ==
  ASSUME NEW set \in SUBSET Candidates, IsFiniteSet(set)
  PROVE  /\ Cardinality(set) \in Nat /\ Lists(Ranked(set), set, Cardinality(set))
         /\ \A i, j \in 1 .. Cardinality(set) : i < j => Better(Ranked(set)[i], Ranked(set)[j])
<1> DEFINE order == {e \in set \X set : Better(e[1], e[2])}
<1>1. \A x, y \in set : <<x, y>> \in order <=> Better(x, y)
  OBVIOUS
<1>2. \A x \in set : x.id \in Nat /\ x.score \in Nat /\ x = [id |-> x.id, score |-> x.score]
  BY DEF Candidates
<1>3. Orders(set, order)
  <2>1. \A x \in set : ~Better(x, x)
    BY <1>2 DEF Better
  <2>2. \A x, y \in set : x = y \/ Better(x, y) \/ Better(y, x)
    <3> SUFFICES ASSUME NEW x \in set, NEW y \in set, ~Better(x, y), ~Better(y, x) PROVE x = y
      OBVIOUS
    <3>1. x.id = y.id /\ x.score = y.score
      BY <1>2 DEF Better
    <3> QED BY <1>2, <3>1
  <2>3. \A x, y, z \in set : Better(x, y) /\ Better(y, z) => Better(x, z)
    BY <1>2 DEF Better
  <2> HIDE DEF order
  <2> QED BY <1>1, <2>1, <2>2, <2>3 DEF Orders
<1>4. Ranked(set) = Arranged(set, order)
  BY DEF Ranked
<1> HIDE DEF order
<1>5. PICK list : list = Ranked(set)
  OBVIOUS
<1>6. /\ Cardinality(set) \in Nat /\ Lists(list, set, Cardinality(set))
      /\ \A i, j \in 1 .. Cardinality(set) : i < j => <<list[i], list[j]>> \in order
  BY <1>3, <1>4, <1>5, ArrangedLists
<1>7. list \in [1 .. Cardinality(set) -> set]
  BY <1>6 DEF Lists
<1> QED BY <1>1, <1>5, <1>6, <1>7

LEMMA InOrderLists ==
  ASSUME NEW places \in SUBSET Nat, IsFiniteSet(places)
  PROVE  /\ Cardinality(places) \in Nat /\ Lists(InOrder(places), places, Cardinality(places))
         /\ \A i, j \in 1 .. Cardinality(places) : i < j => InOrder(places)[i] < InOrder(places)[j]
<1> DEFINE order == {e \in places \X places : e[1] < e[2]}
<1>1. \A x, y \in places : <<x, y>> \in order <=> x < y
  OBVIOUS
<1>2. InOrder(places) = Arranged(places, order)
  BY DEF InOrder
<1> HIDE DEF order
<1>3. Orders(places, order)
  BY <1>1 DEF Orders
<1>4. PICK list : list = InOrder(places)
  OBVIOUS
<1>5. /\ Cardinality(places) \in Nat /\ Lists(list, places, Cardinality(places))
      /\ \A i, j \in 1 .. Cardinality(places) : i < j => <<list[i], list[j]>> \in order
  BY <1>2, <1>3, <1>4, ArrangedLists
<1>6. list \in [1 .. Cardinality(places) -> places]
  BY <1>5 DEF Lists
<1> QED BY <1>1, <1>4, <1>5, <1>6

\* new has elements of list, at f, and none of them twice.
Takes(new, list, f, n) ==
  /\ n \in Nat /\ f \in [1 .. n -> DOMAIN list] /\ new = [i \in 1 .. n |-> list[f[i]]]
  /\ \A i, j \in 1 .. n : f[i] = f[j] => i = j

TakenFrom(new, list) == \E f, n : Takes(new, list, f, n)

IsList(list) == \E n \in Nat : list = [i \in 1 .. n |-> list[i]]
Within(list, S) == \A i \in DOMAIN list : list[i] \in S
Best(list) == \A i, j \in DOMAIN list : i < j => Better(list[i], list[j])
DistinctIds(list) == \A i, j \in DOMAIN list : list[i].id = list[j].id => i = j

LEMMA TakenKeeps ==
  ASSUME NEW new, NEW list, TakenFrom(new, list)
  PROVE  /\ IsList(new)
         /\ \A S : Within(list, S) => Within(new, S)
         /\ DistinctIds(list) => DistinctIds(new)
<1>1. PICK f, n : Takes(new, list, f, n)
  BY DEF TakenFrom
<1>2. new = [i \in 1 .. n |-> new[i]] /\ DOMAIN new = 1 .. n /\ \A i \in 1 .. n : f[i] \in DOMAIN list /\ new[i] = list[f[i]]
  BY <1>1 DEF Takes
<1> QED BY <1>1, <1>2 DEF Takes, IsList, Within, DistinctIds

LEMMA ListsAreTaken ==
  ASSUME NEW list, IsList(list), NEW places \in SUBSET DOMAIN list
  PROVE  TakenFrom(At(list, places), list)
<1>1. PICK m \in Nat : list = [i \in 1 .. m |-> list[i]]
  BY DEF IsList
<1>2. places \in SUBSET Nat /\ IsFiniteSet(places)
  BY <1>1, FS_Interval, FS_Subset
<1>3. PICK order, n : order = InOrder(places) /\ n = Cardinality(places)
  OBVIOUS
<1>4. n \in Nat /\ order \in [1 .. n -> places] /\ \A i, j \in 1 .. n : order[i] = order[j] => i = j
  BY <1>2, <1>3, InOrderLists DEF Lists
<1>5. At(list, places) = [i \in 1 .. n |-> list[order[i]]]
  BY <1>3, <1>4 DEF At
<1> QED BY <1>4, <1>5 DEF TakenFrom, Takes

LEMMA ListIsSeq ==
  ASSUME NEW list, NEW n \in Nat, list = [i \in 1 .. n |-> list[i]]
  PROVE  /\ Len(list) = n /\ DOMAIN list = 1 .. n
         /\ \A S : Within(list, S) => list \in Seq(S)
<1>1. list \in Seq({list[i] : i \in 1 .. n})
  OBVIOUS
<1>2. Len(list) = n /\ DOMAIN list = 1 .. n
  BY <1>1
<1>3. ASSUME NEW S, Within(list, S) PROVE list \in Seq(S)
  BY <1>2, <1>3 DEF Within
<1> QED BY <1>2, <1>3

LEMMA TruncateIsTaken ==
  ASSUME NEW list, IsList(list), NEW max \in Nat
  PROVE  /\ TakenFrom(Truncate(list, max), list)
         /\ Len(list) \in Nat /\ Len(Truncate(list, max)) = LesserOf(max, Len(list))
         /\ \A i \in 1 .. LesserOf(max, Len(list)) : Truncate(list, max)[i] = list[i]
         /\ Len(list) <= max => Truncate(list, max) = list
<1>1. PICK n \in Nat : list = [i \in 1 .. n |-> list[i]]
  BY DEF IsList
<1>2. PICK S : S = {list[i] : i \in 1 .. n}
  OBVIOUS
<1>3. Len(list) = n /\ DOMAIN list = 1 .. n /\ list \in Seq(S)
  BY <1>1, <1>2, ListIsSeq DEF Within
<1>4. PICK m : m = LesserOf(max, n)
  OBVIOUS
<1>5. m \in Nat /\ m <= n /\ (n <= max => m = n)
  BY <1>4 DEF LesserOf
<1>6. PICK new : new = Truncate(list, max)
  OBVIOUS
<1>7. new = SubSeq(list, 1, m)
  BY <1>3, <1>4, <1>6 DEF Truncate
<1>8. new \in Seq(S) /\ Len(new) = m /\ \A i \in 1 .. m : new[i] = list[i]
  BY <1>3, <1>5, <1>7, SubSeqProperties
<1>9. new = [i \in 1 .. m |-> list[i]]
  BY <1>8
<1>10. Takes(new, list, [i \in 1 .. m |-> i], m)
  BY <1>3, <1>5, <1>9 DEF Takes
<1>11. n <= max => new = list
  BY <1>1, <1>5, <1>9
<1> QED BY <1>3, <1>4, <1>6, <1>8, <1>10, <1>11 DEF TakenFrom

LEMMA SortIsTaken ==
  ASSUME NEW list, IsList(list), Within(list, Candidates)
  PROVE  /\ TakenFrom(SortByScore(list), list)
         /\ \A i \in DOMAIN list : \E j \in DOMAIN SortByScore(list) : SortByScore(list)[j] = list[i]
         /\ DistinctIds(list) => Best(SortByScore(list))
<1>1. PICK n \in Nat : list = [i \in 1 .. n |-> list[i]] /\ DOMAIN list = 1 .. n
  BY DEF IsList
<1> DEFINE places == DOMAIN list
           before == {e \in places \X places : \/ Better(list[e[1]], list[e[2]])
                                               \/ ~Better(list[e[2]], list[e[1]]) /\ e[1] < e[2]}
<1>2. \A i, j \in places :
        <<i, j>> \in before <=> Better(list[i], list[j]) \/ (~Better(list[j], list[i]) /\ i < j)
  OBVIOUS
<1>3. \A i \in places : list[i].id \in Nat /\ list[i].score \in Nat /\ i \in Nat
  BY <1>1 DEF Within, Candidates
<1>4. SortByScore(list) = [i \in places |-> list[Arranged(places, before)[i]]]
  BY DEF SortByScore
<1> HIDE DEF before
<1>5. Orders(places, before)
  <2>1. \A i \in places : <<i, i>> \notin before
    BY <1>2, <1>3 DEF Better
  <2>2. \A i, j \in places : i = j \/ <<i, j>> \in before \/ <<j, i>> \in before
    <3> SUFFICES ASSUME NEW i \in places, NEW j \in places, i # j
                 PROVE  <<i, j>> \in before \/ <<j, i>> \in before
      OBVIOUS
    <3>1. i < j \/ j < i
      BY <1>3
    <3> QED BY <1>2, <3>1
  <2>3. \A i, j, k \in places : <<i, j>> \in before /\ <<j, k>> \in before => <<i, k>> \in before
    BY <1>2, <1>3 DEF Better
  <2> QED BY <2>1, <2>2, <2>3 DEF Orders
<1>6. IsFiniteSet(places) /\ Cardinality(places) = n
  BY <1>1, FS_Interval
<1>7. PICK f : f = Arranged(places, before)
  OBVIOUS
<1>8. /\ Lists(f, places, n)
      /\ \A i, j \in 1 .. n : i < j => <<f[i], f[j]>> \in before
  BY <1>5, <1>6, <1>7, ArrangedLists
<1>9. PICK new : new = SortByScore(list)
  OBVIOUS
<1>10. new = [i \in 1 .. n |-> list[f[i]]]
  BY <1>1, <1>4, <1>7, <1>9
<1>11. DOMAIN new = 1 .. n /\ f \in [1 .. n -> DOMAIN list] /\ \A i \in 1 .. n : new[i] = list[f[i]]
  BY <1>8, <1>10 DEF Lists
<1>12. TakenFrom(new, list)
  BY <1>8, <1>10 DEF TakenFrom, Takes, Lists
<1>13. \A i \in DOMAIN list : \E j \in 1 .. n : new[j] = list[i]
  BY <1>8, <1>11 DEF Lists
<1>14. ASSUME DistinctIds(list), NEW i \in 1 .. n, NEW j \in 1 .. n, i < j PROVE Better(new[i], new[j])
  <2>1. PICK k \in DOMAIN list, l \in DOMAIN list : k = f[i] /\ l = f[j]
    BY <1>11
  <2>2. k # l /\ <<k, l>> \in before
    BY <1>1, <1>8, <1>14, <2>1 DEF Lists
  <2>3. list[k].id # list[l].id
    BY <1>14, <2>2 DEF DistinctIds
  <2>4. Better(list[k], list[l]) \/ ~Better(list[l], list[k])
    BY <1>2, <2>2
  <2>5. Better(list[k], list[l])
    BY <1>3, <2>3, <2>4 DEF Better
  <2> QED BY <1>11, <2>1, <2>5
<1> QED BY <1>9, <1>11, <1>12, <1>13, <1>14 DEF Best

\* The places of the elements of lists, list by list.
LEMMA PlacesOrdered ==
  ASSUME NEW P, \A p \in P : p[1] \in Nat /\ p[2] \in Nat,
         \A p, q \in P : p[1] = q[1] /\ p[2] = q[2] => p = q,
         NEW R, \A p, q \in P : <<p, q>> \in R <=> p[1] < q[1] \/ (p[1] = q[1] /\ p[2] < q[2])
  PROVE  Orders(P, R)
<1>1. \A p \in P : <<p, p>> \notin R
  OBVIOUS
<1>2. \A p, q \in P : p = q \/ <<p, q>> \in R \/ <<q, p>> \in R
  <2> SUFFICES ASSUME NEW p \in P, NEW q \in P, p # q PROVE <<p, q>> \in R \/ <<q, p>> \in R
    OBVIOUS
  <2>1. p[1] < q[1] \/ q[1] < p[1] \/ (p[1] = q[1] /\ p[2] < q[2]) \/ (p[1] = q[1] /\ q[2] < p[2])
    OBVIOUS
  <2> QED BY <2>1
<1>3. \A p, q, r \in P : <<p, q>> \in R /\ <<q, r>> \in R => <<p, r>> \in R
  <2> SUFFICES ASSUME NEW p \in P, NEW q \in P, NEW r \in P, <<p, q>> \in R, <<q, r>> \in R PROVE <<p, r>> \in R
    OBVIOUS
  <2>1. p[1] < r[1] \/ (p[1] = r[1] /\ p[2] < r[2])
    OBVIOUS
  <2> QED BY <2>1
<1> QED BY <1>1, <1>2, <1>3 DEF Orders

\* The lists, each a list, one after the other.
LEMMA JoinedTakes ==
  ASSUME NEW lists, NEW m \in Nat, lists = [j \in 1 .. m |-> lists[j]], \A j \in 1 .. m : IsList(lists[j])
  PROVE  /\ IsList(Joined(lists))
         /\ \A i \in DOMAIN Joined(lists) :
              \E j \in 1 .. m : \E k \in DOMAIN lists[j] : Joined(lists)[i] = lists[j][k]
         /\ \A j \in 1 .. m : \A k \in DOMAIN lists[j] :
              \E i \in DOMAIN Joined(lists) : Joined(lists)[i] = lists[j][k]
         /\ /\ \A j \in 1 .. m : DistinctIds(lists[j])
            /\ \A j, l \in 1 .. m : \A x \in DOMAIN lists[j], y \in DOMAIN lists[l] :
                 lists[j][x].id = lists[l][y].id => j = l
            => DistinctIds(Joined(lists))
<1> DEFINE places == UNION {{j} \X DOMAIN lists[j] : j \in DOMAIN lists}
           before == {e \in places \X places :
                        e[1][1] < e[2][1] \/ (e[1][1] = e[2][1] /\ e[1][2] < e[2][2])}
<1>1. DOMAIN lists = 1 .. m
  OBVIOUS
<1>2. \A p \in places : p = <<p[1], p[2]>> /\ p[1] \in 1 .. m /\ p[2] \in DOMAIN lists[p[1]] /\ p[1] \in Nat /\ p[2] \in Nat
  <2>1. \A j \in 1 .. m : \A k \in DOMAIN lists[j] : k \in Nat
    BY DEF IsList
  <2> QED BY <1>1, <2>1
<1>3. \A j \in 1 .. m : \A k \in DOMAIN lists[j] : <<j, k>> \in places
  BY <1>1
<1>4. IsFiniteSet(places)
  <2>1. PICK parts : parts = {{j} \X DOMAIN lists[j] : j \in 1 .. m}
    OBVIOUS
  <2>2. PICK f : f = [j \in 1 .. m |-> {j} \X DOMAIN lists[j]]
    OBVIOUS
  <2>3. f \in Surjection(1 .. m, parts)
    BY <2>1, <2>2 DEF Surjection
  <2>4. IsFiniteSet(parts)
    BY <2>3, FS_Interval, FS_Surjection
  <2>5. ASSUME NEW T \in parts PROVE IsFiniteSet(T)
    <3>1. PICK j \in 1 .. m : T = {j} \X DOMAIN lists[j]
      BY <2>1
    <3>2. PICK n \in Nat : DOMAIN lists[j] = 1 .. n
      BY DEF IsList
    <3>3. IsFiniteSet(1 .. n)
      BY FS_Interval
    <3>4. IsFiniteSet({j})
      BY FS_Singleton
    <3> QED BY <3>1, <3>2, <3>3, <3>4, FS_Product
  <2> QED BY <1>1, <2>1, <2>4, <2>5, FS_UNION
<1>5. \A p, q \in places : <<p, q>> \in before <=> p[1] < q[1] \/ (p[1] = q[1] /\ p[2] < q[2])
  OBVIOUS
<1>6. PICK order, n : order = Arranged(places, before) /\ n = Cardinality(places)
  OBVIOUS
<1>7. Joined(lists) = [i \in DOMAIN order |-> lists[order[i][1]][order[i][2]]]
  BY <1>6 DEF Joined
<1> HIDE DEF places, before
<1>8. Orders(places, before)
  <2>1. \A p \in places : p[1] \in Nat /\ p[2] \in Nat
    BY <1>2
  <2>2. \A p, q \in places : p[1] = q[1] /\ p[2] = q[2] => p = q
    BY <1>2
  <2> QED BY <1>5, <2>1, <2>2, PlacesOrdered
<1>9. n \in Nat /\ Lists(order, places, n)
  BY <1>4, <1>6, <1>8, ArrangedLists
<1>10. PICK new : new = Joined(lists)
  OBVIOUS
<1>11. /\ new = [i \in 1 .. n |-> new[i]] /\ DOMAIN new = 1 .. n
       /\ \A i \in 1 .. n : new[i] = lists[order[i][1]][order[i][2]] /\ order[i] \in places
  BY <1>7, <1>9, <1>10 DEF Lists
<1>12. ASSUME NEW j \in 1 .. m, NEW k \in DOMAIN lists[j] PROVE \E i \in DOMAIN new : new[i] = lists[j][k]
  <2>1. PICK i \in 1 .. n : order[i] = <<j, k>>
    BY <1>3, <1>9 DEF Lists
  <2> QED BY <1>11, <2>1
<1>13. ASSUME \A j \in 1 .. m : DistinctIds(lists[j]),
              \A j, l \in 1 .. m : \A x \in DOMAIN lists[j], y \in DOMAIN lists[l] :
                lists[j][x].id = lists[l][y].id => j = l
       PROVE  DistinctIds(new)
  <2> SUFFICES ASSUME NEW i \in 1 .. n, NEW k \in 1 .. n, new[i].id = new[k].id PROVE i = k
    BY <1>11 DEF DistinctIds
  <2>1. PICK p \in places, q \in places : p = order[i] /\ q = order[k]
    BY <1>11
  <2>2. lists[p[1]][p[2]].id = lists[q[1]][q[2]].id
    BY <1>11, <2>1
  <2>3. p[1] = q[1]
    BY <1>2, <1>13, <2>2
  <2>4. p[2] = q[2]
    BY <1>2, <1>13, <2>2, <2>3 DEF DistinctIds
  <2>5. p = q
    BY <1>2, <2>3, <2>4
  <2> QED BY <1>9, <2>1, <2>5 DEF Lists
<1>14. \A i \in 1 .. n : \E j \in 1 .. m : \E k \in DOMAIN lists[j] : new[i] = lists[j][k]
  BY <1>2, <1>11
<1>15. IsList(new)
  BY <1>9, <1>11 DEF IsList
<1> QED BY <1>10, <1>11, <1>12, <1>13, <1>14, <1>15

LEMMA InOrderIsIdentity ==
  ASSUME NEW n \in Nat
  PROVE  InOrder(1 .. n) = [i \in 1 .. n |-> i]
<1> DEFINE S == 1 .. n
           order == {e \in S \X S : e[1] < e[2]}
           below(x) == {y \in S : <<y, x>> \in order}
<1>1. IsFiniteSet(S) /\ Cardinality(S) = n
  BY FS_Interval
<1>2. PICK size : size = [x \in S |-> Cardinality(below(x))]
  OBVIOUS
<1>3. ASSUME NEW x \in S PROVE size[x] = x - 1
  <2>1. below(x) = 1 .. (x - 1)
    OBVIOUS
  <2>2. Cardinality(1 .. (x - 1)) = x - 1
    BY FS_Interval
  <2> HIDE DEF below
  <2> QED BY <1>2, <2>1, <2>2
<1>4. ASSUME NEW i \in S PROVE (CHOOSE x \in S : Cardinality(below(x)) = i - 1) = i
  <2>1. \A x \in S : size[x] = Cardinality(below(x))
    BY <1>2
  <2> HIDE DEF below
  <2>2. \A x \in S : Cardinality(below(x)) = i - 1 <=> x = i
    BY <1>3, <2>1
  <2> QED BY <2>2
<1>5. InOrder(1 .. n) = Arranged(S, order)
  BY DEF InOrder
<1>6. Arranged(S, order) = [i \in 1 .. n |-> CHOOSE x \in S : Cardinality(below(x)) = i - 1]
  BY <1>1 DEF Arranged
<1> QED BY <1>4, <1>5, <1>6

LEMMA TakenIsShorter ==
  ASSUME NEW list, IsList(list), NEW new, TakenFrom(new, list)
  PROVE  Len(new) \in Nat /\ Len(list) \in Nat /\ Len(new) <= Len(list)
<1>1. PICK n \in Nat : list = [i \in 1 .. n |-> list[i]]
  BY DEF IsList
<1>2. Len(list) = n /\ DOMAIN list = 1 .. n
  BY <1>1, ListIsSeq
<1>3. PICK f, m : Takes(new, list, f, m)
  BY DEF TakenFrom
<1>4. m \in Nat /\ f \in Injection(1 .. m, 1 .. n) /\ new = [i \in 1 .. m |-> new[i]]
  BY <1>2, <1>3 DEF Takes, Injection, IsInjective
<1>5. Len(new) = m
  BY <1>4, ListIsSeq
<1>6. Cardinality(1 .. m) = m
  <2>1. m \in Nat
    BY <1>4
  <2> QED BY <2>1, FS_Interval
<1>7. IsFiniteSet(1 .. n) /\ Cardinality(1 .. n) = n
  BY FS_Interval
<1>8. m <= n
  BY <1>4, <1>6, <1>7, FS_Injection
<1> QED BY <1>2, <1>4, <1>5, <1>8

LEMMA ConcatIsList ==
  ASSUME NEW a, NEW b, NEW m \in Nat, NEW n \in Nat, a = [i \in 1 .. m |-> a[i]], b = [i \in 1 .. n |-> b[i]]
  PROVE  /\ a \o b = [i \in 1 .. m + n |-> (a \o b)[i]] /\ DOMAIN (a \o b) = 1 .. m + n
         /\ \A i \in 1 .. m : (a \o b)[i] = a[i]
         /\ \A i \in m + 1 .. m + n : (a \o b)[i] = b[i - m]
<1>1. PICK S : S = {a[i] : i \in 1 .. m} \cup {b[i] : i \in 1 .. n}
  OBVIOUS
<1>2. a \in Seq(S) /\ b \in Seq(S) /\ Len(a) = m /\ Len(b) = n
  BY <1>1, ListIsSeq DEF Within
<1>3. PICK c : c = a \o b
  OBVIOUS
<1>4. /\ c \in Seq(S) /\ Len(c) = m + n
      /\ \A i \in 1 .. m + n : c[i] = IF i <= m THEN a[i] ELSE b[i - m]
  BY <1>2, <1>3, ConcatProperties
<1>5. c = [i \in 1 .. m + n |-> c[i]] /\ DOMAIN c = 1 .. m + n
  BY <1>4
<1>6. ASSUME NEW i \in 1 .. m PROVE c[i] = a[i]
  <2>1. i \in 1 .. m + n /\ i <= m
    OBVIOUS
  <2> QED BY <1>4, <2>1
<1>7. ASSUME NEW i \in m + 1 .. m + n PROVE c[i] = b[i - m]
  <2>1. i \in 1 .. m + n /\ ~(i <= m)
    OBVIOUS
  <2> QED BY <1>4, <2>1
<1> QED BY <1>3, <1>5, <1>6, <1>7

\* Fusing a list with one that has nothing else leaves the first as it is.
LEMMA FusedIsFirst ==
  ASSUME NEW a, IsList(a), DistinctIds(a), NEW b, IsList(b),
         \A j \in DOMAIN b : \E i \in DOMAIN a : a[i].id = b[j].id, NEW k,
         NEW fused, fused = RrfMerge(a, b, k)
  PROVE  IsList(fused) /\ DOMAIN fused = DOMAIN a /\ \A i \in DOMAIN a : fused[i].id = a[i].id
<1>1. PICK m \in Nat : a = [i \in 1 .. m |-> a[i]] /\ DOMAIN a = 1 .. m
  BY DEF IsList
<1>2. PICK n \in Nat : b = [i \in 1 .. n |-> b[i]] /\ DOMAIN b = 1 .. n
  BY DEF IsList
<1>3. PICK all : all = a \o b
  OBVIOUS
<1>4. /\ DOMAIN all = 1 .. m + n /\ \A i \in 1 .. m : all[i] = a[i]
      /\ \A i \in m + 1 .. m + n : all[i] = b[i - m]
  BY <1>1, <1>2, <1>3, ConcatIsList
<1>5. PICK places : places = {i \in DOMAIN all : \A j \in 1 .. i - 1 : all[j].id # all[i].id}
  OBVIOUS
<1>6. places = 1 .. m
  <2>1. ASSUME NEW i \in 1 .. m PROVE i \in places
    <3>1. \A j \in 1 .. i - 1 : j \in 1 .. m /\ j # i
      OBVIOUS
    <3>2. \A j \in 1 .. i - 1 : all[j].id # all[i].id
      BY <1>1, <1>4, <3>1 DEF DistinctIds
    <3>3. i \in 1 .. m + n
      OBVIOUS
    <3> QED BY <1>4, <1>5, <3>2, <3>3
  <2>2. ASSUME NEW i \in m + 1 .. m + n PROVE i \notin places
    <3>1. i - m \in 1 .. n /\ all[i] = b[i - m]
      BY <1>4
    <3>2. PICK j \in 1 .. m : a[j].id = b[i - m].id
      BY <1>1, <1>2, <3>1
    <3>3. j \in 1 .. i - 1 /\ all[j].id = all[i].id
      BY <1>4, <3>1, <3>2
    <3> QED BY <1>5, <3>3
  <2>3. \A i \in 1 .. m + n : i \in 1 .. m \/ i \in m + 1 .. m + n
    OBVIOUS
  <2> QED BY <1>4, <1>5, <2>1, <2>2, <2>3
<1>7. PICK first : first = InOrder(places)
  OBVIOUS
<1>8. first = [i \in 1 .. m |-> i]
  BY <1>6, <1>7, InOrderIsIdentity
<1>9. fused = [i \in DOMAIN first |-> Candidate(all[first[i]].id, RrfScore(a, b, k, all[first[i]].id))]
  BY <1>3, <1>5, <1>7 DEF RrfMerge
<1>10. fused = [i \in 1 .. m |-> fused[i]] /\ DOMAIN fused = 1 .. m
       /\ \A i \in 1 .. m : fused[i] = Candidate(all[i].id, RrfScore(a, b, k, all[i].id))
  BY <1>8, <1>9
<1>11. ASSUME NEW i \in 1 .. m PROVE fused[i].id = a[i].id
  <2>1. all[i] = a[i] /\ fused[i] = Candidate(all[i].id, RrfScore(a, b, k, all[i].id))
    BY <1>4, <1>10
  <2> QED BY <2>1 DEF Candidate
<1> QED BY <1>1, <1>10, <1>11 DEF IsList

\* A page has the ids of the page of any list that has the same ids as far as the page goes.
LEMMA PagesAgree ==
  ASSUME NEW a, IsList(a), NEW b, IsList(b), NEW offset \in Nat, NEW limit \in Nat,
         Len(a) = LesserOf(offset + limit, Len(b)), \A i \in DOMAIN a : a[i].id = b[i].id
  PROVE  /\ IdsOf(SliceRange(a, offset, limit)) = IdsOf(SliceRange(b, offset, limit))
         /\ Ids(SliceRange(a, offset, limit)) \subseteq Ids(b)
<1>1. PICK m \in Nat : a = [i \in 1 .. m |-> a[i]]
  BY DEF IsList
<1>2. PICK n \in Nat : b = [i \in 1 .. n |-> b[i]]
  BY DEF IsList
<1>3. PICK S : S = {a[i] : i \in 1 .. m} \cup {b[i] : i \in 1 .. n}
  OBVIOUS
<1>4. a \in Seq(S) /\ Len(a) = m /\ DOMAIN a = 1 .. m
  BY <1>1, <1>3, ListIsSeq DEF Within
<1>5. b \in Seq(S) /\ Len(b) = n /\ DOMAIN b = 1 .. n
  BY <1>2, <1>3, ListIsSeq DEF Within
<1>6. m = LesserOf(offset + limit, n) /\ m <= n /\ m <= offset + limit
  BY <1>4, <1>5 DEF LesserOf
<1>7. LesserOf(offset + limit, m) = m
  BY <1>6 DEF LesserOf
<1>8. PICK p, q : p = SubSeq(a, offset + 1, m) /\ q = SubSeq(b, offset + 1, m)
  OBVIOUS
<1>9. SliceRange(a, offset, limit) = p /\ SliceRange(b, offset, limit) = q
  BY <1>4, <1>5, <1>6, <1>7, <1>8 DEF SliceRange
<1>10. PICK size : size = IF offset + 1 <= m THEN m - (offset + 1) + 1 ELSE 0
  OBVIOUS
<1>11. \A i \in offset + 1 .. m : a[i] \in S /\ b[i] \in S
  <2>1. \A i \in offset + 1 .. m : i \in 1 .. m /\ i \in 1 .. n
    BY <1>6
  <2> QED BY <1>3, <2>1
<1>12. p \in Seq(S) /\ Len(p) = size /\ \A i \in 1 .. m - (offset + 1) + 1 : p[i] = a[offset + 1 + i - 1]
  BY <1>8, <1>10, <1>11, SubSeqProperties
<1>13. q \in Seq(S) /\ Len(q) = size /\ \A i \in 1 .. m - (offset + 1) + 1 : q[i] = b[offset + 1 + i - 1]
  BY <1>8, <1>10, <1>11, SubSeqProperties
<1>14. ASSUME NEW i \in 1 .. size
       PROVE  offset + i \in 1 .. m /\ p[i] = a[offset + i] /\ q[i] = b[offset + i]
  <2>1. i \in 1 .. m - (offset + 1) + 1 /\ offset + 1 + i - 1 = offset + i /\ offset + i \in 1 .. m
    BY <1>10
  <2> QED BY <1>12, <1>13, <2>1
<1>15. DOMAIN p = 1 .. size /\ DOMAIN q = 1 .. size
  BY <1>12, <1>13
<1>16. \A i \in 1 .. size : p[i].id = q[i].id
  BY <1>4, <1>14
<1>17. IdsOf(p) = IdsOf(q)
  BY <1>15, <1>16 DEF IdsOf
<1>18. Ids(p) \subseteq Ids(b)
  <2>1. \A i \in 1 .. size : \E j \in DOMAIN b : p[i].id = b[j].id
    BY <1>4, <1>5, <1>6, <1>14
  <2> QED BY <1>15, <2>1 DEF Ids
<1> QED BY <1>9, <1>17, <1>18

---------------------------------------------------------------------------
(* What a search finds *)

\* Documents as a file or a corpus has them: finitely many, each with an id of its own.
Apart(docs) ==
  /\ IsFiniteSet(docs) /\ docs \subseteq Docs
  /\ \A d, e \in docs : d.id = e.id => d = e

LEMMA DocsAre == \A d \in Docs : d.id \in 0 .. MaxDocs - 1 /\ d.id \in Nat /\ d.word \in Words /\ d.score \in Nat \ {0}
<1>1. MaxDocs \in Nat
  BY SearchAssumption
<1> QED BY <1>1 DEF Docs, DocIds

LEMMA HitsAre ==
  ASSUME NEW docs, Apart(docs), NEW w
  PROVE  /\ IsList(Hits(docs, w)) /\ Within(Hits(docs, w), Candidates)
         /\ DistinctIds(Hits(docs, w)) /\ Best(Hits(docs, w))
         /\ \A i \in DOMAIN Hits(docs, w) :
              \E d \in docs : d.word = w /\ Hits(docs, w)[i] = Candidate(d.id, d.score)
         /\ \A d \in docs : d.word = w =>
              \E i \in DOMAIN Hits(docs, w) : Hits(docs, w)[i] = Candidate(d.id, d.score)
         /\ Len(Hits(docs, w)) <= Cardinality(docs)
<1>1. PICK found, set, f :
        /\ found = {d \in docs : d.word = w} /\ set = {Candidate(d.id, d.score) : d \in found}
        /\ f = [d \in found |-> Candidate(d.id, d.score)]
  OBVIOUS
<1>2. IsFiniteSet(found) /\ Cardinality(found) <= Cardinality(docs)
  BY <1>1, FS_Subset DEF Apart
<1>3. f \in Surjection(found, set)
  BY <1>1 DEF Surjection
<1>4. IsFiniteSet(set) /\ Cardinality(set) <= Cardinality(found)
  BY <1>2, <1>3, FS_Surjection
<1>5. set \in SUBSET Candidates
  BY <1>1, DocsAre DEF Apart, Candidate, Candidates
<1>6. PICK list, n : list = Ranked(set) /\ n = Cardinality(set)
  OBVIOUS
<1>7. /\ n \in Nat /\ Lists(list, set, n)
      /\ \A i, j \in 1 .. n : i < j => Better(list[i], list[j])
  BY <1>4, <1>5, <1>6, RankedLists
<1>8. Hits(docs, w) = list
  BY <1>1, <1>6 DEF Hits
<1>9. list = [i \in 1 .. n |-> list[i]] /\ DOMAIN list = 1 .. n /\ \A i \in 1 .. n : list[i] \in set
  BY <1>7 DEF Lists
<1>10. IsList(list) /\ Within(list, Candidates) /\ Best(list) /\ Len(list) = n
  BY <1>5, <1>7, <1>9, ListIsSeq DEF IsList, Within, Best
<1>11. \A i \in 1 .. n : \E d \in docs : d.word = w /\ list[i] = Candidate(d.id, d.score)
  BY <1>1, <1>9
<1>12. \A d \in docs : d.word = w => \E i \in 1 .. n : list[i] = Candidate(d.id, d.score)
  BY <1>1, <1>7 DEF Lists
<1>13. \A x, y \in set : x.id = y.id => x = y
  BY <1>1 DEF Apart, Candidate
<1>14. DistinctIds(list)
  BY <1>7, <1>9, <1>13 DEF DistinctIds, Lists
<1>15. n <= Cardinality(docs)
  <2>1. Cardinality(found) \in Nat /\ Cardinality(docs) \in Nat
    BY <1>2, FS_CardinalityType DEF Apart
  <2> QED BY <1>2, <1>4, <1>6, <1>7, <2>1
<1> QED BY <1>8, <1>9, <1>10, <1>11, <1>12, <1>14, <1>15

LEMMA TuneCtxIs ==
  ASSUME NEW a, NEW b, NEW c, NEW s \in {"none", "sparse"},
         NEW base, base = [tier1 |-> a, tier2 |-> b, tier3 |-> c]
  PROVE  TuneCtx(base, 1, s) = [tier1 |-> a + 4, tier2 |-> IF s = "sparse" THEN (b * 3) \div 4 ELSE b, tier3 |-> c]
<1>1. PICK more : more = LesserOf(8 * GreaterOf(1, 1), 400) \div 2
  OBVIOUS
<1>2. more = 4
  BY <1>1 DEF LesserOf, GreaterOf
<1>3. PICK ctx : ctx = [base EXCEPT !.tier1 = base.tier1 + more]
  OBVIOUS
<1>4. ctx = [tier1 |-> a + 4, tier2 |-> b, tier3 |-> c]
  BY <1>2, <1>3
<1>5. ASSUME s = "sparse" PROVE TuneCtx(base, 1, s) = [ctx EXCEPT !.tier2 = (ctx.tier2 * 3) \div 4]
  <2>1. s \in {"sparse", "bm25"}
    BY <1>5
  <2> QED BY <1>1, <1>3, <1>5, <2>1 DEF TuneCtx, DenseStrategies
<1>6. ASSUME s = "none" PROVE TuneCtx(base, 1, s) = ctx
  BY <1>1, <1>3, <1>6 DEF TuneCtx, DenseStrategies
<1>7. CASE s = "sparse"
  BY <1>4, <1>5, <1>7
<1>8. CASE s = "none"
  BY <1>4, <1>6, <1>8
<1> QED BY <1>7, <1>8

\* The last place of a page, and its budgets.
LastPlace(offset) == LesserOf(offset + PageSize, 1000)

LEMMA BudgetsAre ==
  ASSUME NEW offset \in Nat
  PROVE  /\ LastPlace(offset) \in Nat /\ Budgets(offset).tier1 \in Nat /\ Budgets(offset).tier2 \in Nat
         /\ Budgets(offset).tier3 \in Nat /\ SegmentK(Budgets(offset)) \in Nat
         /\ Budgets(offset).tier1 = LesserOf(50 * LastPlace(offset), 1000) + 4
         /\ Budgets(offset).tier3 = LastPlace(offset)
         /\ Budgets(offset).tier2 \in {LesserOf(5 * LastPlace(offset), 100), (LesserOf(5 * LastPlace(offset), 100) * 3) \div 4}
<1>0. PICK f, ctx : f = LastPlace(offset) /\ ctx = Budgets(offset)
  OBVIOUS
<1>1. f \in Nat
  BY <1>0, SearchAssumption DEF LastPlace, LesserOf
<1>2. PICK s : s = Configure("none", segmentOnly, FALSE, FALSE).strategy
  OBVIOUS
<1>3. s \in {"none", "sparse"}
  BY <1>2 DEF Configure
<1>4. PICK a, b : a = LesserOf(50 * f, 1000) /\ b = LesserOf(5 * f, 100)
  OBVIOUS
<1>5. a \in Nat /\ b \in Nat
  BY <1>1, <1>4 DEF LesserOf
<1>6. PICK base : base = ExecCtx(f)
  OBVIOUS
<1>7. base = [tier1 |-> a, tier2 |-> b, tier3 |-> f]
  BY <1>4, <1>6 DEF ExecCtx
<1>8. ctx = TuneCtx(base, 1, s)
  BY <1>0, <1>2, <1>6 DEF Budgets, Fetch, LastPlace
<1>9. ctx.tier1 = a + 4 /\ ctx.tier2 \in {b, (b * 3) \div 4} /\ ctx.tier3 = f
  BY <1>3, <1>7, <1>8, TuneCtxIs
<1>10. (b * 3) \div 4 \in Nat
  BY <1>5
<1>11. ctx.tier1 \in Nat /\ ctx.tier2 \in Nat /\ ctx.tier3 \in Nat
  BY <1>1, <1>5, <1>9, <1>10
<1>12. SegmentK(ctx) \in Nat
  BY <1>11 DEF SegmentK, LesserOf
<1> QED BY <1>0, <1>1, <1>4, <1>9, <1>11, <1>12

---------------------------------------------------------------------------
(* Searching the segments *)

\* The places that a search scans.
LEMMA PlacesAre ==
  ASSUME RowsApart, CachesKept, NEW h \in Handles, NEW w \in Words
  PROVE  ActiveSegments(h, w) \in SUBSET Nat /\ IsFiniteSet(ActiveSegments(h, w))
<1>1. PICK n : n = Len(segments)
  OBVIOUS
<1>2. n \in Nat /\ DOMAIN segments = 1 .. n /\ MaxDocs \in Nat /\ NumSegments \in Nat
  BY <1>1, SearchAssumption DEF RowsApart, NumSegments, GreaterOf
<1>3. RouteFor(h).of[w] \in SUBSET (1 .. MaxDocs)
  <2>1. routeCache[h].of[w] \in SUBSET (1 .. MaxDocs) /\ route.of[w] \in SUBSET (1 .. MaxDocs)
    BY DEF CachesKept
  <2> QED BY <2>1 DEF RouteFor
<1>4. \/ ActiveSegments(h, w) = {1}
      \/ ActiveSegments(h, w) \in SUBSET (1 .. MaxDocs)
      \/ ActiveSegments(h, w) \in SUBSET (1 .. n)
      \/ ActiveSegments(h, w) = 1 .. NumSegments
  BY <1>2, <1>3 DEF ActiveSegments, AllSegments
<1>5. IsFiniteSet(1 .. MaxDocs) /\ IsFiniteSet(1 .. n) /\ IsFiniteSet(1 .. NumSegments)
  BY <1>2, FS_Interval
<1>6. IsFiniteSet({1})
  BY FS_Singleton
<1> QED BY <1>2, <1>4, <1>5, <1>6, FS_Subset

\* What one segment answers when the index it is searched with is its own.
LEMMA SegmentFound ==
  ASSUME RowsApart, IndexesTrue, NEW cache, NEW i, NEW w, NEW k \in Nat,
         i \in DOMAIN segments /\ index[segments[i]].there =>
           Kept(cache, segments[i]) = index[segments[i]],
         NEW list, list = SegmentHits(cache, i, w, k)
  PROVE  /\ IsList(list) /\ DistinctIds(list)
         /\ \A x \in DOMAIN list :
              /\ i \in DOMAIN segments /\ index[segments[i]].there
              /\ \E d \in rows[segments[i]] : d.word = w /\ list[x] = Candidate(d.id, d.score)
<1>1. CASE i \in DOMAIN segments /\ index[segments[i]].there
  <2>1. PICK n \in Names : n = segments[i]
    BY <1>1 DEF RowsApart
  <2>2. PICK docs : docs = rows[n]
    OBVIOUS
  <2>3. Kept(cache, n).docs = docs
    BY <1>1, <2>1, <2>2 DEF IndexesTrue
  <2>4. Apart(docs)
    BY <2>1, <2>2 DEF RowsApart, Apart
  <2>5. PICK all : all = Hits(docs, w)
    OBVIOUS
  <2>6. IsList(all) /\ DistinctIds(all)
        /\ \A x \in DOMAIN all : \E d \in docs : d.word = w /\ all[x] = Candidate(d.id, d.score)
    BY <2>4, <2>5, HitsAre
  <2>7. PICK S : S = {Candidate(d.id, d.score) : d \in {e \in docs : e.word = w}}
    OBVIOUS
  <2>8. Within(all, S)
    BY <2>6, <2>7 DEF Within
  <2>9. list = Truncate(all, k)
    BY <1>1, <2>1, <2>3, <2>5 DEF SegmentHits
  <2>10. TakenFrom(list, all)
    BY <2>6, <2>9, TruncateIsTaken
  <2>11. IsList(list) /\ DistinctIds(list) /\ Within(list, S)
    BY <2>6, <2>8, <2>10, TakenKeeps
  <2> QED BY <1>1, <2>1, <2>2, <2>7, <2>11 DEF Within
<1>2. CASE ~(i \in DOMAIN segments /\ index[segments[i]].there)
  <2>1. list = <<>>
    BY <1>2 DEF SegmentHits
  <2>2. DOMAIN list = {} /\ list = [x \in 1 .. 0 |-> list[x]]
    BY <2>1
  <2> QED BY <2>2 DEF IsList, DistinctIds
<1> QED BY <1>1, <1>2

\* A list of the rows of the table that have an index and this word, none of them twice.
FromRows(list, w) ==
  /\ IsList(list) /\ DistinctIds(list)
  /\ \A x \in DOMAIN list : \E n \in Listed :
       /\ index[n].there
       /\ \E d \in rows[n] : d.word = w /\ list[x] = Candidate(d.id, d.score)

\* What the segments answered, one after the other.
LEMMA ScanFound ==
  ASSUME RowsApart, IndexesTrue, NEW w, NEW places \in SUBSET Nat, IsFiniteSet(places),
         NEW active, active = InOrder(places), NEW lists, lists = [j \in DOMAIN active |-> lists[j]],
         \A j \in DOMAIN active :
           /\ IsList(lists[j]) /\ DistinctIds(lists[j])
           /\ \A x \in DOMAIN lists[j] :
                /\ active[j] \in DOMAIN segments /\ index[segments[active[j]]].there
                /\ \E d \in rows[segments[active[j]]] : d.word = w /\ lists[j][x] = Candidate(d.id, d.score)
  PROVE  FromRows(Joined(lists), w)
<1>1. PICK m : m = Cardinality(places)
  OBVIOUS
<1>2. m \in Nat /\ DOMAIN active = 1 .. m /\ active \in [1 .. m -> places]
      /\ \A j, l \in 1 .. m : active[j] = active[l] => j = l
  BY <1>1, InOrderLists DEF Lists
<1>3. ASSUME NEW j \in 1 .. m, NEW l \in 1 .. m, NEW x \in DOMAIN lists[j], NEW y \in DOMAIN lists[l],
             lists[j][x].id = lists[l][y].id
      PROVE  j = l
  <2>1. PICK n \in Names, o \in Names : n = segments[active[j]] /\ o = segments[active[l]]
    BY <1>2 DEF RowsApart
  <2>2. PICK d \in rows[n] : lists[j][x] = Candidate(d.id, d.score)
    BY <1>2, <2>1
  <2>3. PICK e \in rows[o] : lists[l][y] = Candidate(e.id, e.score)
    BY <1>2, <2>1
  <2>4. d.id = e.id
    BY <1>3, <2>2, <2>3 DEF Candidate
  <2>5. n = o
    BY <2>2, <2>3, <2>4 DEF RowsApart
  <2>6. active[j] = active[l]
    <3>1. active[j] \in DOMAIN segments /\ active[l] \in DOMAIN segments
      BY <1>2
    <3>2. \A a, b \in DOMAIN segments : segments[a] = segments[b] => a = b
      BY DEF RowsApart, IsInjective
    <3> QED BY <2>1, <2>5, <3>1, <3>2
  <2> QED BY <1>2, <2>6
<1>4. PICK list : list = Joined(lists)
  OBVIOUS
<1>5. /\ IsList(list) /\ DistinctIds(list)
      /\ \A i \in DOMAIN list : \E j \in 1 .. m : \E k \in DOMAIN lists[j] : list[i] = lists[j][k]
  <2>1. lists = [j \in 1 .. m |-> lists[j]] /\ \A j \in 1 .. m : IsList(lists[j]) /\ DistinctIds(lists[j])
    BY <1>2
  <2>2. \A j, l \in 1 .. m : \A x \in DOMAIN lists[j], y \in DOMAIN lists[l] :
          lists[j][x].id = lists[l][y].id => j = l
    BY <1>3
  <2>3. IsList(Joined(lists)) /\ DistinctIds(Joined(lists))
    BY <1>2, <2>1, <2>2, JoinedTakes
  <2>4. \A i \in DOMAIN Joined(lists) : \E j \in 1 .. m : \E k \in DOMAIN lists[j] : Joined(lists)[i] = lists[j][k]
    BY <1>2, <2>1, JoinedTakes
  <2> QED BY <1>4, <2>3, <2>4
<1>6. ASSUME NEW i \in DOMAIN list
      PROVE  \E n \in Listed : /\ index[n].there
                               /\ \E d \in rows[n] : d.word = w /\ list[i] = Candidate(d.id, d.score)
  <2>1. PICK j \in 1 .. m : \E k \in DOMAIN lists[j] : list[i] = lists[j][k]
    BY <1>5
  <2>2. segments[active[j]] \in Listed
    BY <1>2, <2>1 DEF Listed, ToSet
  <2> QED BY <1>2, <2>1, <2>2
<1> QED BY <1>4, <1>5, <1>6 DEF FromRows

LEMMA FromRowsTaken ==
  ASSUME NEW list, NEW w, FromRows(list, w), NEW new, TakenFrom(new, list)
  PROVE  FromRows(new, w)
<1>1. PICK S : S = {c \in {list[i] : i \in DOMAIN list} :
                      \E n \in Listed : index[n].there /\ \E d \in rows[n] : d.word = w /\ c = Candidate(d.id, d.score)}
  OBVIOUS
<1>2. Within(list, S)
  BY <1>1 DEF FromRows, Within
<1>3. IsList(new) /\ DistinctIds(new) /\ Within(new, S)
  BY <1>2, TakenKeeps DEF FromRows
<1> QED BY <1>1, <1>3 DEF FromRows, Within

LEMMA FromRowsAreCandidates ==
  ASSUME RowsApart, NEW list, NEW w, FromRows(list, w)
  PROVE  Within(list, Candidates)
<1>1. \A n \in Listed : \A d \in rows[n] : d \in Docs
  BY DEF RowsApart, Listed, ToSet
<1>2. \A d \in Docs : Candidate(d.id, d.score) \in Candidates
  BY DocsAre DEF Candidate, Candidates
<1> QED BY <1>1, <1>2 DEF FromRows, Within

LEMMA MergeFound ==
  ASSUME RowsApart, NEW lists, NEW w, FromRows(Joined(lists), w), NEW k \in Nat
  PROVE  FromRows(CoordinatorMerge(lists, k), w)
<1>1. PICK a : a = Joined(lists)
  OBVIOUS
<1>2. PICK b : b = Truncate(a, 4 * k)
  OBVIOUS
<1>3. PICK c : c = SortByScore(b)
  OBVIOUS
<1>4. FromRows(a, w) /\ IsList(a) /\ 4 * k \in Nat
  BY <1>1 DEF FromRows
<1>5. FromRows(b, w)
  BY <1>2, <1>4, TruncateIsTaken, FromRowsTaken
<1>6. FromRows(c, w)
  <2>1. IsList(b)
    BY <1>5 DEF FromRows
  <2>2. Within(b, Candidates)
    BY <1>5, FromRowsAreCandidates
  <2> QED BY <1>3, <1>5, <2>1, <2>2, SortIsTaken, FromRowsTaken
<1>7. IsList(c)
  BY <1>6 DEF FromRows
<1>8. FromRows(Truncate(c, k), w)
  BY <1>6, <1>7, TruncateIsTaken, FromRowsTaken
<1> QED BY <1>1, <1>2, <1>3, <1>8 DEF CoordinatorMerge

LEMMA RowsOfApart ==
  ASSUME RowsApart, NEW names \in SUBSET Names
  PROVE  Apart(UNION {rows[n] : n \in names})
<1>1. IsFiniteSet(Names)
  <2>1. MaxDocs + MaxMerges \in Nat
    BY SearchAssumption
  <2> QED BY <2>1, FS_Interval DEF Names
<1>2. IsFiniteSet(names)
  BY <1>1, FS_Subset
<1>3. PICK parts, f : parts = {rows[n] : n \in names} /\ f = [n \in names |-> rows[n]]
  OBVIOUS
<1>4. f \in Surjection(names, parts)
  BY <1>3 DEF Surjection
<1>5. IsFiniteSet(parts)
  BY <1>2, <1>4, FS_Surjection
<1>6. \A T \in parts : IsFiniteSet(T)
  BY <1>3 DEF RowsApart
<1>7. IsFiniteSet(UNION parts)
  BY <1>5, <1>6, FS_UNION
<1>8. \A d \in UNION parts : \E n \in Names : d \in rows[n]
  BY <1>3
<1>9. UNION parts \subseteq Docs /\ \A d, e \in UNION parts : d.id = e.id => d = e
  BY <1>8 DEF RowsApart
<1> QED BY <1>3, <1>7, <1>9 DEF Apart

LEMMA ListedAreNames == RowsApart => Listed \subseteq Names
BY DEF RowsApart, Listed, ToSet

LEMMA IndexedApart ==
  ASSUME RowsApart
  PROVE  Apart(Indexed)
<1>1. PICK names : names = {n \in Listed : index[n].there}
  OBVIOUS
<1>2. names \in SUBSET Names
  BY <1>1, ListedAreNames
<1>3. Indexed = UNION {rows[n] : n \in names}
  BY <1>1 DEF Indexed
<1> QED BY <1>2, <1>3, RowsOfApart

\* Such a list is of the ranking of the documents that have an index.
LEMMA FromRowsAreRanked ==
  ASSUME RowsApart, NEW w, NEW list, FromRows(list, w)
  PROVE  ToSet(list) \subseteq ToSet(Hits(Indexed, w)) /\ IsInjective(IdsOf(list))
<1>1. PICK all : all = Hits(Indexed, w)
  OBVIOUS
<1>2. \A d \in Indexed : d.word = w => \E i \in DOMAIN all : all[i] = Candidate(d.id, d.score)
  BY <1>1, IndexedApart, HitsAre
<1>3. \A n \in Listed : index[n].there => rows[n] \subseteq Indexed
  BY DEF Indexed
<1>4. \A x \in DOMAIN list : \E i \in DOMAIN all : all[i] = list[x]
  BY <1>2, <1>3 DEF FromRows
<1>5. ToSet(list) \subseteq ToSet(all)
  BY <1>4 DEF ToSet
<1>6. IsInjective(IdsOf(list))
  BY DEF FromRows, DistinctIds, IsInjective, IdsOf
<1> QED BY <1>1, <1>5, <1>6

\* A worker or handle that has scanned a segment has kept an index that answers for it.
LEMMA RememberedIsKept ==
  ASSUME RowsApart, NEW cache, NEW places, NEW i \in places, i \in DOMAIN segments,
         index[segments[i]].there,
         LET new == Remember(cache, places)[segments[i]] IN new.there => new = index[segments[i]],
         NEW n, n = segments[i]
  PROVE  Kept(cache, n) = index[n]
<1>1. n \in Names
  BY DEF RowsApart
<1>2. Remember(cache, places)[n] = Kept(cache, n)
  BY <1>1 DEF Remember
<1>3. PICK old, file : old = cache[n] /\ file = index[n]
  OBVIOUS
<1>4. Kept(cache, n) = IF old.there THEN old ELSE file
  BY <1>3 DEF Kept
<1> QED BY <1>2, <1>3, <1>4

\* A handle's own scan, when what it then keeps of the listed segments is what the files hold.
LEMMA LocalFound ==
  ASSUME RowsApart, IndexesTrue, CachesKept, NEW h \in Handles, NEW w \in Words, NEW k \in Nat,
         NEW kept, kept = Remember(indexCache[h], ActiveSegments(h, w)),
         \A n \in Listed : kept[n].there => kept[n] = index[n]
  PROVE  FromRows(LocalScan(h, w, k), w)
<1>1. PICK places, active, cache :
        places = ActiveSegments(h, w) /\ active = InOrder(places) /\ cache = indexCache[h]
  OBVIOUS
<1>2. places \in SUBSET Nat /\ IsFiniteSet(places)
  BY <1>1, PlacesAre
<1>3. \A j \in DOMAIN active : active[j] \in places
  BY <1>1, <1>2, InOrderLists DEF Lists
<1>4. PICK lists : lists = [j \in DOMAIN active |-> SegmentHits(cache, active[j], w, k)]
  OBVIOUS
<1>5. ASSUME NEW j \in DOMAIN active, active[j] \in DOMAIN segments, index[segments[active[j]]].there
      PROVE  Kept(cache, segments[active[j]]) = index[segments[active[j]]]
  <2>1. PICK i, n : i = active[j] /\ n = segments[i]
    OBVIOUS
  <2>2. n \in Listed
    BY <1>5, <2>1 DEF Listed, ToSet
  <2>3. kept = Remember(cache, places) /\ i \in places /\ (kept[n].there => kept[n] = index[n])
    BY <1>1, <1>3, <2>1, <2>2
  <2> QED BY <1>5, <2>1, <2>3, RememberedIsKept
<1>6. ASSUME NEW j \in DOMAIN active
      PROVE  /\ IsList(lists[j]) /\ DistinctIds(lists[j])
             /\ \A x \in DOMAIN lists[j] :
                  /\ active[j] \in DOMAIN segments /\ index[segments[active[j]]].there
                  /\ \E d \in rows[segments[active[j]]] : d.word = w /\ lists[j][x] = Candidate(d.id, d.score)
  <2>1. lists[j] = SegmentHits(cache, active[j], w, k)
    BY <1>4
  <2> QED BY <1>5, <2>1, SegmentFound
<1>7. FromRows(Joined(lists), w)
  BY <1>1, <1>2, <1>4, <1>6, ScanFound
<1> QED BY <1>1, <1>4, <1>7 DEF LocalScan

LEMMA NodesAre ==
  ASSUME NEW i \in Nat
  PROVE  NodeOf(i) \in 0 .. Nodes - 1
<1>1. PICK n \in Nat \ {0} : n = Nodes
  BY SearchAssumption
<1>2. (i - 1) % n \in 0 .. n - 1
  OBVIOUS
<1> QED BY <1>1, <1>2 DEF NodeOf

\* What the workers keep of the segments they are asked for is what the files hold.
WorkersTrue(kept, h, w) ==
  /\ \A v \in 0 .. Nodes - 1 : kept[v] = Remember(nodeCache[v], {i \in ActiveSegments(h, w) : NodeOf(i) = v})
  /\ \A n \in Listed : \A v \in 0 .. Nodes - 1 : kept[v][n].there => kept[v][n] = index[n]

LEMMA WorkerIsTrue ==
  ASSUME RowsApart, NEW kept, NEW h, NEW w, WorkersTrue(kept, h, w),
         NEW i \in Nat, i \in ActiveSegments(h, w), i \in DOMAIN segments, index[segments[i]].there
  PROVE  Kept(nodeCache[NodeOf(i)], segments[i]) = index[segments[i]]
<1>1. PICK n, v : n = segments[i] /\ v = NodeOf(i)
  OBVIOUS
<1>2. n \in Listed
  BY <1>1 DEF Listed, ToSet
<1>3. v \in 0 .. Nodes - 1
  BY <1>1, NodesAre
<1>4. PICK mine, cache : mine = {l \in ActiveSegments(h, w) : NodeOf(l) = v} /\ cache = nodeCache[v]
  OBVIOUS
<1>5. i \in mine
  BY <1>1, <1>4
<1>6. kept[v] = Remember(cache, mine) /\ (kept[v][n].there => kept[v][n] = index[n])
  BY <1>2, <1>3, <1>4 DEF WorkersTrue
<1>7. Kept(cache, n) = index[n]
  BY <1>1, <1>5, <1>6, RememberedIsKept
<1> QED BY <1>1, <1>4, <1>7

\* The cluster's scan, when every segment was asked for.
LEMMA ClusterFound ==
  ASSUME RowsApart, IndexesTrue, CachesKept, NEW h \in Handles, NEW w \in Words, NEW k \in Nat,
         NEW served, ClusterScan(h, w, k, served) # <<>>, NEW kept, WorkersTrue(kept, h, w)
  PROVE  FromRows(ClusterScan(h, w, k, served), w)
<1>1. PICK places, active : places = ActiveSegments(h, w) /\ active = InOrder(places)
  OBVIOUS
<1>2. places \in SUBSET Nat /\ IsFiniteSet(places)
  BY <1>1, PlacesAre
<1>3. \A j \in DOMAIN active : active[j] \in places
  BY <1>1, <1>2, InOrderLists DEF Lists
<1>4. PICK lists : lists = [j \in DOMAIN active |->
                              SegmentHits(nodeCache[NodeOf(active[j])], active[j], w, k)]
  OBVIOUS
<1>5. ASSUME NEW j \in DOMAIN active, active[j] \in DOMAIN segments, index[segments[active[j]]].there
      PROVE  Kept(nodeCache[NodeOf(active[j])], segments[active[j]]) = index[segments[active[j]]]
  <2>1. PICK i : i = active[j]
    OBVIOUS
  <2>2. i \in ActiveSegments(h, w) /\ i \in Nat /\ i \in DOMAIN segments /\ index[segments[i]].there
    BY <1>1, <1>2, <1>3, <1>5, <2>1
  <2>3. Kept(nodeCache[NodeOf(i)], segments[i]) = index[segments[i]]
    BY <2>2, WorkerIsTrue
  <2> QED BY <2>1, <2>3
<1>6. ASSUME NEW j \in DOMAIN active
      PROVE  /\ IsList(lists[j]) /\ DistinctIds(lists[j])
             /\ \A x \in DOMAIN lists[j] :
                  /\ active[j] \in DOMAIN segments /\ index[segments[active[j]]].there
                  /\ \E d \in rows[segments[active[j]]] : d.word = w /\ lists[j][x] = Candidate(d.id, d.score)
  <2>1. PICK cache : cache = nodeCache[NodeOf(active[j])]
    OBVIOUS
  <2>2. lists[j] = SegmentHits(cache, active[j], w, k)
    BY <1>4, <2>1
  <2>3. active[j] \in DOMAIN segments /\ index[segments[active[j]]].there =>
          Kept(cache, segments[active[j]]) = index[segments[active[j]]]
    BY <1>5, <2>1
  <2> QED BY <2>2, <2>3, SegmentFound
<1>7. FromRows(Joined(lists), w)
  <2>1. lists = [j \in DOMAIN active |-> lists[j]]
    BY <1>4
  <2> HIDE <1>4
  <2> QED BY <1>1, <1>2, <1>6, <2>1, ScanFound
<1>8. FromRows(CoordinatorMerge(lists, k), w)
  BY <1>7, MergeFound
<1> QED BY <1>1, <1>4, <1>8 DEF ClusterScan

LEMMA SearchShowsRows ==
  ASSUME GhostInv, NEW h \in Handles, NEW w \in Queries, NEW offset \in Offsets, NEW graph, NEW cluster \in BOOLEAN,
         NEW served, Search(h, w, offset, graph, cluster, served)
  PROVE  GhostsOnlyFromCaches'
<1>1. PICK ctx, k, scan, active :
        /\ ctx = Budgets(offset) /\ k = SegmentK(ctx) /\ scan = (segmentOnly /\ HasSidecars)
        /\ active = ActiveSegments(h, w)
  OBVIOUS
<1>2. PICK found, asked :
        /\ found = IF ~scan THEN <<>> ELSE IF cluster THEN ClusterScan(h, w, k, served) ELSE LocalScan(h, w, k)
        /\ asked = IF cluster THEN ToSet(Truncate(InOrder(active), served)) ELSE active
  OBVIOUS
<1>3. /\ answer'.via = (IF found # <<>> THEN "segments" ELSE IF scan THEN "fallback" ELSE "memory")
      /\ answer'.by = h /\ answer'.word = w /\ answer'.cluster = cluster /\ answer'.found = found
  BY <1>1, <1>2 DEF Search
<1>4. UNCHANGED <<segments, rows, index, route>> /\ indexCache' = (IF scan /\ ~cluster
          THEN [indexCache EXCEPT ![h] = Remember(indexCache[h], active)] ELSE indexCache)
  BY <1>1 DEF Search, diskVars, manifestVars
<1>5. nodeCache' = (IF scan /\ cluster
          THEN [v \in DOMAIN nodeCache |-> Remember(nodeCache[v], {i \in asked : NodeOf(i) = v})] ELSE nodeCache)
  BY <1>1, <1>2 DEF Search
<1>6. SUFFICES ASSUME found # <<>>, CachesTrue'
               PROVE  ToSet(found) \subseteq ToSet(Hits(Indexed, w)) /\ IsInjective(IdsOf(found))
  BY <1>3, <1>4 DEF GhostsOnlyFromCaches, Answered, Ranking, Hits, Indexed, Listed
<1>7. w \in Words /\ offset \in Nat
  BY SearchAssumption
<1>8. k \in Nat
  BY <1>1, <1>7, BudgetsAre
<1>9. RowsApart /\ IndexesTrue /\ CachesKept
  BY DEF GhostInv
<1>10. scan
  BY <1>2, <1>6
<1>11. CASE ~cluster
  <2>1. PICK kept : kept = Remember(indexCache[h], active)
    OBVIOUS
  <2>2. indexCache'[h] = kept
    BY <1>4, <1>9, <1>10, <1>11, <2>1 DEF CachesKept
  <2>3. \A n \in Listed : kept[n].there => kept[n] = index[n]
    BY <1>3, <1>4, <1>6, <1>11, <2>2 DEF CachesTrue, CacheUsed, Listed
  <2>4. FromRows(LocalScan(h, w, k), w)
    BY <1>1, <1>7, <1>8, <1>9, <2>1, <2>3, LocalFound
  <2> QED BY <1>2, <1>9, <1>10, <1>11, <2>4, FromRowsAreRanked
<1>12. CASE cluster
  <2>1. found = ClusterScan(h, w, k, served)
    BY <1>2, <1>10, <1>12
  <2>2. PICK places : places = InOrder(active)
    OBVIOUS
  <2>3. served >= Len(places)
    BY <1>1, <1>6, <2>1, <2>2 DEF ClusterScan
  <2>4. asked = active
    <3>1. active \in SUBSET Nat /\ IsFiniteSet(active)
      BY <1>1, <1>7, <1>9, PlacesAre
    <3>2. PICK m : m = Cardinality(active)
      OBVIOUS
    <3>3. m \in Nat /\ places \in [1 .. m -> active] /\ \A x \in active : \E i \in 1 .. m : places[i] = x
      BY <2>2, <3>1, <3>2, InOrderLists DEF Lists
    <3>4. places = [i \in 1 .. m |-> places[i]] /\ IsList(places)
      BY <3>3 DEF IsList
    <3>5. Len(places) = m
      BY <3>3, <3>4, ListIsSeq
    <3>6. served \in Nat
      <4>1. served \in {n \in LossesAfter : n < Cardinality(active)} \cup {Cardinality(active)}
        BY <1>1, <1>12 DEF Search
      <4> QED BY <3>2, <3>3, <4>1, SearchAssumption
    <3>7. Truncate(places, served) = places
      BY <2>3, <3>3, <3>4, <3>5, <3>6, TruncateIsTaken
    <3>8. ToSet(places) = active
      BY <3>3 DEF ToSet
    <3> QED BY <1>2, <1>12, <2>2, <3>7, <3>8
  <2>5. PICK kept : kept = nodeCache'
    OBVIOUS
  <2>6. \A v \in 0 .. Nodes - 1 : kept[v] = Remember(nodeCache[v], {i \in active : NodeOf(i) = v})
    BY <1>5, <1>9, <1>10, <1>12, <2>4, <2>5 DEF CachesKept
  <2>7. \A n \in Listed : \A v \in 0 .. Nodes - 1 : kept[v][n].there => kept[v][n] = index[n]
    BY <1>3, <1>4, <1>6, <1>12, <2>5 DEF CachesTrue, CacheUsed, Listed
  <2>8. ClusterScan(h, w, k, served) # <<>>
    BY <1>6, <2>1
  <2>9. \A v \in 0 .. Nodes - 1 :
          kept[v] = Remember(nodeCache[v], {i \in ActiveSegments(h, w) : NodeOf(i) = v})
    BY <1>1, <2>6
  <2>10. FromRows(ClusterScan(h, w, k, served), w)
    <3>1. WorkersTrue(kept, h, w)
      BY <2>7, <2>9 DEF WorkersTrue
    <3> QED BY <1>7, <1>8, <1>9, <2>8, <3>1, ClusterFound
  <2> QED BY <1>9, <2>1, <2>10, FromRowsAreRanked
<1> QED BY <1>11, <1>12

---------------------------------------------------------------------------
(* Files and indexes *)

LEMMA NewDocsAre ==
  ASSUME RowsApart, NEW batch \in Batches[added], NEW docs, docs = NewDocs(batch)
  PROVE  /\ IsFiniteSet(docs) /\ Cardinality(docs) \in Nat \ {0}
         /\ \A d \in docs : /\ d.id \in Nat /\ added <= d.id /\ d.id < added + Cardinality(docs)
                            /\ d.word \in Words /\ d.score \in Nat \ {0}
                            /\ d = [id |-> d.id, word |-> d.word, score |-> d.score]
         /\ \A d, e \in docs : d.id = e.id => d = e
<1>1. added \in Nat /\ added \in DOMAIN Batches
  BY SearchAssumption DEF RowsApart
<1>2. batch \in Seq([word : Words, score : Nat \ {0}]) /\ batch # <<>>
  BY <1>1, SearchAssumption
<1>3. PICK n : n = Len(batch)
  OBVIOUS
<1>4. n \in Nat \ {0} /\ DOMAIN batch = 1 .. n
      /\ \A i \in 1 .. n : batch[i].word \in Words /\ batch[i].score \in Nat \ {0}
  <2>1. PICK S : S = [word : Words, score : Nat \ {0}]
    OBVIOUS
  <2>2. batch \in Seq(S) /\ batch # <<>>
    BY <1>2, <2>1
  <2>3. n \in Nat \ {0} /\ DOMAIN batch = 1 .. n /\ \A i \in 1 .. n : batch[i] \in S
    BY <1>3, <2>2
  <2>4. \A b \in S : b.word \in Words /\ b.score \in Nat \ {0}
    BY <2>1
  <2> QED BY <2>3, <2>4
<1>5. PICK f : f = [i \in 1 .. n |-> [id |-> added + i - 1, word |-> batch[i].word, score |-> batch[i].score]]
  OBVIOUS
<1>6. \A i \in 1 .. n : /\ f[i].id = added + i - 1 /\ f[i].word = batch[i].word /\ f[i].score = batch[i].score
                        /\ f[i] = [id |-> f[i].id, word |-> f[i].word, score |-> f[i].score]
  BY <1>5
<1>7. docs = {f[i] : i \in 1 .. n}
  BY <1>4, <1>5 DEF NewDocs
<1>8. f \in Surjection(1 .. n, docs)
  BY <1>5, <1>7 DEF Surjection
<1>9. \A i, j \in 1 .. n : f[i].id = f[j].id => i = j
  <2> SUFFICES ASSUME NEW i \in 1 .. n, NEW j \in 1 .. n, f[i].id = f[j].id PROVE i = j
    OBVIOUS
  <2>1. n \in Nat
    BY <1>4
  <2>2. i \in Nat /\ j \in Nat
    BY <2>1
  <2>3. f[i].id = added + i - 1 /\ f[j].id = added + j - 1
    BY <1>6
  <2>4. PICK base \in Nat : base = added
    BY <1>1
  <2>5. base + i - 1 = base + j - 1
    BY <2>3, <2>4
  <2> QED BY <2>2, <2>5
<1>10. f \in Injection(1 .. n, docs)
  BY <1>8, <1>9 DEF Injection, Surjection, IsInjective
<1>11. IsFiniteSet(1 .. n) /\ Cardinality(1 .. n) = n
  BY <1>4, FS_Interval
<1>12. IsFiniteSet(docs) /\ Cardinality(docs) = n
  BY <1>8, <1>10, <1>11, FS_Surjection
<1>13. \A d \in docs : \E i \in 1 .. n : d = f[i]
  BY <1>7
<1>14. ASSUME NEW d \in docs
       PROVE  /\ d.id \in Nat /\ added <= d.id /\ d.id < added + n
              /\ d.word \in Words /\ d.score \in Nat \ {0} /\ d = [id |-> d.id, word |-> d.word, score |-> d.score]
  <2>1. PICK i \in 1 .. n : d = f[i]
    BY <1>13
  <2> QED BY <1>1, <1>4, <1>6, <2>1
<1>15. \A d, e \in docs : d.id = e.id => d = e
  BY <1>9, <1>13
<1> QED BY <1>4, <1>12, <1>14, <1>15

LEMMA FlushKeeps ==
  ASSUME RowsApart, IndexesTrue, NEW batch \in Batches[added], NEW built \in BOOLEAN,
         FlushSegment(NewDocs(batch), built)
  PROVE  RowsApart' /\ IndexesTrue'
<1>1. PICK docs, k, n : docs = NewDocs(batch) /\ k = Cardinality(docs) /\ n = Len(segments) + 1
  OBVIOUS
<1>2. /\ IsFiniteSet(docs) /\ k \in Nat \ {0}
      /\ \A d \in docs : /\ d.id \in Nat /\ added <= d.id /\ d.id < added + k
                         /\ d.word \in Words /\ d.score \in Nat \ {0}
                         /\ d = [id |-> d.id, word |-> d.word, score |-> d.score]
      /\ \A d, e \in docs : d.id = e.id => d = e
  BY <1>1, NewDocsAre
<1>3. /\ n \notin Listed /\ added + k <= MaxDocs /\ segments' = Append(segments, n)
      /\ rows' = [rows EXCEPT ![n] = docs] /\ added' = added + k
      /\ index' = IF built THEN [index EXCEPT ![n] = Built(docs)] ELSE index
  BY <1>1 DEF FlushSegment
<1>4. added \in Nat /\ MaxDocs \in Nat /\ MaxMerges \in Nat
  BY SearchAssumption DEF RowsApart
<1>5. segments \in Seq(Names) /\ Len(segments) \in Nat /\ Len(segments) <= added
  BY DEF RowsApart
<1>6. n \in Nat \ {0} /\ n <= MaxDocs
  BY <1>1, <1>2, <1>3, <1>4, <1>5
<1>7. n \in Names
  BY <1>4, <1>6 DEF Names
<1>8. docs \in SUBSET Docs
  <2>1. \A d \in docs : d.id \in DocIds
    BY <1>2, <1>3, <1>4 DEF DocIds
  <2> QED BY <1>2, <2>1 DEF Docs
<1>9. Listed' = Listed \cup {n}
  BY <1>3, <1>5, <1>7 DEF Listed, ToSet
<1>10. /\ segments' \in Seq(Names) /\ IsInjective(segments)'
       /\ Len(segments)' <= added' /\ added' \in 0 .. MaxDocs
  <2>1. segments' \in Seq(Names) /\ Len(segments') = n
    BY <1>1, <1>3, <1>5, <1>7
  <2>2. ASSUME NEW i \in 1 .. n, NEW j \in 1 .. n, segments'[i] = segments'[j] PROVE i = j
    <3>1. \A m \in 1 .. Len(segments) : segments'[m] = segments[m] /\ segments[m] \in Listed
      BY <1>3, <1>5 DEF Listed, ToSet
    <3>2. segments'[n] = n
      BY <1>1, <1>3, <1>5
    <3>3. \A a, b \in 1 .. Len(segments) : segments[a] = segments[b] => a = b
      BY <1>5 DEF RowsApart, IsInjective
    <3>4. \A m \in 1 .. n : m = n \/ m \in 1 .. Len(segments)
      BY <1>1, <1>5
    <3> QED BY <1>3, <2>2, <3>1, <3>2, <3>3, <3>4
  <2>3. DOMAIN segments' = 1 .. n
    BY <2>1
  <2> QED BY <1>1, <1>2, <1>3, <1>4, <1>5, <2>1, <2>2, <2>3 DEF IsInjective
<1>11. rows \in [Names -> SUBSET Docs] /\ \A m \in Names : IsFiniteSet(rows[m])
  BY DEF RowsApart
<1>12. rows' \in [Names -> SUBSET Docs] /\ rows'[n] = docs /\ \A m \in Names \ {n} : rows'[m] = rows[m]
  BY <1>3, <1>7, <1>8, <1>11
<1>13. \A m \in Names : IsFiniteSet(rows'[m])
  BY <1>2, <1>11, <1>12
<1>14. \A m \in Names : \A d \in rows[m] : d.id < added /\ d.id \in Nat
  BY <1>11, DocsAre DEF RowsApart
<1>15. \A m \in Names : \A d \in rows'[m] : d.id < added'
  BY <1>2, <1>3, <1>4, <1>12, <1>14
<1>16. \A l, m \in Names : \A d \in rows'[l], e \in rows'[m] : d.id = e.id => l = m /\ d = e
  <2>1. \A l \in Names \ {n} : \A d \in rows'[l], e \in docs : d.id # e.id
    BY <1>2, <1>4, <1>12, <1>14
  <2>2. \A l, m \in Names \ {n} : \A d \in rows'[l], e \in rows'[m] : d.id = e.id => l = m /\ d = e
    BY <1>12 DEF RowsApart
  <2> SUFFICES ASSUME NEW l \in Names, NEW m \in Names, NEW d \in rows'[l], NEW e \in rows'[m], d.id = e.id
               PROVE  l = m /\ d = e
    OBVIOUS
  <2> QED BY <1>2, <1>12, <2>1, <2>2
<1>17. IndexesTrue'
  <2>1. index \in [Names -> [there : BOOLEAN, docs : SUBSET Docs]]
        /\ \A m \in Names : index[m].there => m \in Listed /\ index[m].docs = rows[m]
    BY DEF IndexesTrue
  <2>2. Built(docs) \in [there : BOOLEAN, docs : SUBSET Docs] /\ Built(docs).docs = docs
    BY <1>8 DEF Built
  <2>3. index' \in [Names -> [there : BOOLEAN, docs : SUBSET Docs]]
    BY <1>3, <2>1, <2>2
  <2>4. \A m \in Names \ {n} : index'[m] = index[m]
    BY <1>3, <2>1
  <2>5. index'[n] = Built(docs) \/ index'[n] = index[n]
    BY <1>3, <1>7, <2>1
  <2>6. \A m \in Names : index'[m].there => m \in Listed' /\ index'[m].docs = rows'[m]
    BY <1>3, <1>7, <1>9, <1>12, <2>1, <2>2, <2>4, <2>5
  <2> QED BY <2>3, <2>6 DEF IndexesTrue
<1> QED BY <1>10, <1>12, <1>13, <1>15, <1>16, <1>17 DEF RowsApart

LEMMA FinishKeeps ==
  ASSUME RowsApart, IndexesTrue, CachesKept, NEW h \in Handles, FinishBulkIngest(h)
  PROVE  RowsApart' /\ IndexesTrue' /\ CachesKept'
<1>1. PICK new, way : new = Rebuilt(Listed, index, rows) /\ way = RouteOver(segments, index')
  OBVIOUS
<1>2. UNCHANGED <<segments, rows, added, indexCache, nodeCache, routeCache>> /\ index' = new /\ route' = way
  BY <1>1 DEF FinishBulkIngest, cacheVars
<1>3. RowsApart'
  BY <1>2 DEF RowsApart
<1>4. IndexesTrue'
  <2>1. new = [n \in Names |-> IF n \in Listed /\ ~index[n].there THEN Built(rows[n]) ELSE index[n]]
    BY <1>1 DEF Rebuilt
  <2>2. \A n \in Names : rows[n] \in SUBSET Docs
    BY DEF RowsApart
  <2>3. /\ \A n \in Names : index[n] \in [there : BOOLEAN, docs : SUBSET Docs]
        /\ \A n \in Names : index[n].there => n \in Listed /\ index[n].docs = rows[n]
    BY DEF IndexesTrue
  <2>4. \A n \in Names : /\ Built(rows[n]) \in [there : BOOLEAN, docs : SUBSET Docs]
                         /\ Built(rows[n]).docs = rows[n]
    BY <2>2 DEF Built
  <2>5. ASSUME NEW n \in Names
        PROVE  /\ new[n] \in [there : BOOLEAN, docs : SUBSET Docs]
               /\ new[n].there => n \in Listed /\ new[n].docs = rows[n]
    <3>1. (new[n] = Built(rows[n]) /\ n \in Listed) \/ new[n] = index[n]
      BY <2>1
    <3> QED BY <2>3, <2>4, <3>1
  <2>6. new \in [Names -> [there : BOOLEAN, docs : SUBSET Docs]]
    BY <2>1, <2>5
  <2> QED BY <1>2, <2>5, <2>6 DEF IndexesTrue, Listed
<1>5. CachesKept'
  <2>1. DOMAIN segments \in SUBSET (1 .. MaxDocs)
    <3>1. Len(segments) \in Nat /\ added \in Nat /\ Len(segments) <= added /\ added <= MaxDocs
          /\ DOMAIN segments = 1 .. Len(segments)
      BY DEF RowsApart
    <3> QED BY <3>1, SearchAssumption
  <2>2. way \in [there : BOOLEAN, of : [Words -> SUBSET (1 .. MaxDocs)]]
    BY <1>1, <2>1 DEF RouteOver
  <2> QED BY <1>2, <2>2 DEF CachesKept
<1> QED BY <1>3, <1>4, <1>5

LEMMA CompactKeeps ==
  ASSUME RowsApart, IndexesTrue, NEW h \in Handles, CompactTable(h)
  PROVE  RowsApart' /\ IndexesTrue'
<1>1. PICK kept, n : kept = {d \in Live : d.id \notin tombs} /\ n = MergedName
  OBVIOUS
<1>2. /\ Len(segments) >= 2 /\ n \in Names /\ segments' = <<n>> /\ added' = added
      /\ rows' = [m \in Names |-> IF m = n THEN kept ELSE {}]
      /\ index' = Rebuilt({n}, RemoveSidecars(Listed, index), rows')
  BY <1>1 DEF CompactTable
<1>3. Apart(kept) /\ \A d \in kept : d.id < added
  <2>1. Apart(Live)
    BY ListedAreNames, RowsOfApart DEF Live
  <2>2. IsFiniteSet(kept)
    BY <1>1, <2>1, FS_Subset DEF Apart
  <2>3. \A d \in Live : \E m \in Names : d \in rows[m]
    BY ListedAreNames DEF Live
  <2>4. \A d \in Live : d.id < added
    BY <2>3 DEF RowsApart
  <2> QED BY <1>1, <2>1, <2>2, <2>4 DEF Apart
<1>4. RowsApart'
  <2>1. segments' \in Seq(Names) /\ Len(segments') = 1 /\ IsInjective(segments')
    BY <1>2 DEF IsInjective
  <2>2. added \in 0 .. MaxDocs /\ Len(segments) <= added /\ Len(segments) \in Nat
    BY DEF RowsApart
  <2>3. 1 <= added
    BY <1>2, <2>2
  <2>4. rows'[n] = kept /\ \A m \in Names \ {n} : rows'[m] = {}
    BY <1>2
  <2>5. rows' \in [Names -> SUBSET Docs]
    BY <1>2, <1>3 DEF Apart
  <2>6. \A m \in Names : IsFiniteSet(rows'[m])
    BY <1>2, <1>3, FS_EmptySet DEF Apart
  <2>7. \A m \in Names : \A d \in rows'[m] : m = n /\ d \in kept
    BY <1>2
  <2> QED BY <1>2, <1>3, <2>1, <2>2, <2>3, <2>5, <2>6, <2>7 DEF RowsApart, Apart, IsInjective
<1>5. IndexesTrue'
  <2>1. PICK old : old = RemoveSidecars(Listed, index)
    OBVIOUS
  <2>2. index \in [Names -> [there : BOOLEAN, docs : SUBSET Docs]]
        /\ \A m \in Names : index[m].there => m \in Listed
    BY DEF IndexesTrue
  <2>3. Absent \in [there : BOOLEAN, docs : SUBSET Docs] /\ ~Absent.there
    BY DEF Absent
  <2>4. \A m \in Names : old[m] \in [there : BOOLEAN, docs : SUBSET Docs] /\ ~old[m].there
    <3> SUFFICES ASSUME NEW m \in Names PROVE old[m] \in [there : BOOLEAN, docs : SUBSET Docs] /\ ~old[m].there
      OBVIOUS
    <3>1. old[m] = Absent \/ (old[m] = index[m] /\ m \notin Listed)
      BY <2>1 DEF RemoveSidecars
    <3> QED BY <2>2, <2>3, <3>1
  <2>5. Built(kept) \in [there : BOOLEAN, docs : SUBSET Docs] /\ Built(kept).docs = kept
    BY <1>3 DEF Built, Apart
  <2>6. index' = [m \in Names |-> IF m = n THEN Built(kept) ELSE old[m]]
    <3>1. rows'[n] = kept
      BY <1>2
    <3>2. index' = [m \in Names |-> IF m \in {n} /\ ~old[m].there THEN Built(rows'[m]) ELSE old[m]]
      BY <1>2, <2>1 DEF Rebuilt
    <3>3. PICK new : new = index'
      OBVIOUS
    <3>4. \A m \in Names : new[m] = IF m = n THEN Built(kept) ELSE old[m]
      BY <2>4, <3>1, <3>2, <3>3
    <3>5. new = [m \in Names |-> new[m]]
      BY <3>2, <3>3
    <3> QED BY <3>3, <3>4, <3>5
  <2>7. index' \in [Names -> [there : BOOLEAN, docs : SUBSET Docs]]
    BY <2>4, <2>5, <2>6
  <2>8. \A m \in Names : index'[m].there => m = n /\ index'[m].docs = kept
    BY <2>4, <2>5, <2>6
  <2>9. Listed' = {n} /\ rows'[n] = kept
    BY <1>2 DEF Listed, ToSet
  <2> QED BY <2>7, <2>8, <2>9 DEF IndexesTrue
<1> QED BY <1>4, <1>5

LEMMA SearchKeeps ==
  ASSUME GhostInv, NEW h \in Handles, NEW w \in Queries, NEW offset \in Offsets, NEW graph, NEW cluster \in BOOLEAN,
         NEW served, Search(h, w, offset, graph, cluster, served)
  PROVE  RowsApart' /\ IndexesTrue' /\ CachesKept'
<1>1. UNCHANGED <<segments, rows, index, route, added>>
  BY DEF Search, diskVars, manifestVars
<1>2. RowsApart' /\ IndexesTrue'
  BY <1>1 DEF GhostInv, RowsApart, IndexesTrue, Listed
<1>3. DOMAIN indexCache' = Handles
  <2>1. DOMAIN indexCache = Handles
    BY DEF GhostInv, CachesKept
  <2> QED BY <2>1 DEF Search
<1>4. DOMAIN nodeCache' = 0 .. Nodes - 1
  <2>1. DOMAIN nodeCache = 0 .. Nodes - 1
    BY DEF GhostInv, CachesKept
  <2> QED BY <2>1 DEF Search
<1>5. routeCache' \in [Handles -> [there : BOOLEAN, of : [Words -> SUBSET (1 .. MaxDocs)]]]
  <2>1. PICK R : R = [there : BOOLEAN, of : [Words -> SUBSET (1 .. MaxDocs)]]
    OBVIOUS
  <2>2. routeCache \in [Handles -> R] /\ route \in R
    BY <2>1 DEF GhostInv, CachesKept
  <2>3. PICK mine : mine = RouteFor(h)
    OBVIOUS
  <2>4. mine \in R
    BY <2>2, <2>3 DEF RouteFor
  <2>5. routeCache' = routeCache \/ routeCache' = [routeCache EXCEPT ![h] = mine]
    BY <2>3 DEF Search
  <2> QED BY <2>1, <2>2, <2>4, <2>5
<1>6. CachesKept'
  <2>1. route \in [there : BOOLEAN, of : [Words -> SUBSET (1 .. MaxDocs)]]
    BY DEF GhostInv, CachesKept
  <2> QED BY <1>1, <1>3, <1>4, <1>5, <2>1 DEF CachesKept
<1> QED BY <1>2, <1>6

---------------------------------------------------------------------------
(* GhostsOnlyFromCaches *)

LEMMA GhostInit == Init => GhostInv
<1> SUFFICES ASSUME Init PROVE GhostInv
  OBVIOUS
<1>1. MaxDocs \in Nat
  BY SearchAssumption
<1>2. RowsApart
  <2>1. segments \in Seq(Names) /\ Len(segments) = 0 /\ IsInjective(segments)
    BY DEF Init, IsInjective
  <2>2. rows \in [Names -> SUBSET Docs] /\ \A n \in Names : rows[n] = {}
    BY DEF Init
  <2>3. added = 0
    BY DEF Init
  <2> QED BY <1>1, <2>1, <2>2, <2>3, FS_EmptySet DEF RowsApart, IsInjective
<1>3. IndexesTrue
  BY DEF Init, IndexesTrue, Absent
<1>4. CachesKept
  BY DEF Init, CachesKept, NoRoute
<1>5. GhostsOnlyFromCaches
  BY DEF Init, GhostsOnlyFromCaches, Answered, NoAnswer
<1> QED BY <1>2, <1>3, <1>4, <1>5 DEF GhostInv

LEMMA Unanswered == answer' = NoAnswer => GhostsOnlyFromCaches'
BY DEF GhostsOnlyFromCaches, Answered, NoAnswer

LEMMA GhostStep == GhostInv /\ [Next]_vars => GhostInv'
<1> SUFFICES ASSUME GhostInv, [Next]_vars PROVE GhostInv'
  OBVIOUS
<1>1. RowsApart /\ IndexesTrue /\ CachesKept
  BY DEF GhostInv
<1>2. ASSUME UNCHANGED <<segments, rows, index, added>> PROVE RowsApart' /\ IndexesTrue'
  BY <1>1, <1>2 DEF RowsApart, IndexesTrue, Listed
<1>3. ASSUME UNCHANGED <<route, indexCache, routeCache, nodeCache>> PROVE CachesKept'
  BY <1>1, <1>3 DEF CachesKept
<1>4. ASSUME NEW h \in Handles, NEW batch \in Batches[added], AddDocuments(h, batch) PROVE GhostInv'
  <2>1. FlushSegment(NewDocs(batch), TRUE) /\ UNCHANGED <<route, cacheVars>> /\ answer' = NoAnswer
    BY <1>4 DEF AddDocuments
  <2>2. RowsApart' /\ IndexesTrue'
    BY <1>1, <2>1, FlushKeeps
  <2> QED BY <1>3, <2>1, <2>2, Unanswered DEF GhostInv, cacheVars
<1>5. ASSUME NEW h \in Handles, NEW batch \in Batches[added], BulkAdd(h, batch) PROVE GhostInv'
  <2>1. FlushSegment(NewDocs(batch), FALSE) /\ UNCHANGED <<route, cacheVars>> /\ answer' = NoAnswer
    BY <1>5 DEF BulkAdd
  <2>2. RowsApart' /\ IndexesTrue'
    BY <1>1, <2>1, FlushKeeps
  <2> QED BY <1>3, <2>1, <2>2, Unanswered DEF GhostInv, cacheVars
<1>6. ASSUME NEW h \in Handles, BeginBulkIngest(h) PROVE GhostInv'
  <2>1. UNCHANGED <<segments, rows, index, added, route, cacheVars>> /\ answer' = NoAnswer
    BY <1>6 DEF BeginBulkIngest
  <2> QED BY <1>2, <1>3, <2>1, Unanswered DEF GhostInv, cacheVars
<1>7. ASSUME NEW h \in Handles, FinishBulkIngest(h) PROVE GhostInv'
  <2>1. answer' = NoAnswer
    BY <1>7 DEF FinishBulkIngest
  <2> QED BY <1>1, <1>7, <2>1, FinishKeeps, Unanswered DEF GhostInv
<1>8. ASSUME NEW h \in Handles, NEW id \in DocIds, DeleteById(h, id) PROVE GhostInv'
  <2>1. UNCHANGED <<segments, rows, index, added, route, indexCache, routeCache, nodeCache>> /\ answer' = NoAnswer
    BY <1>8 DEF DeleteById, manifestVars
  <2> QED BY <1>2, <1>3, <2>1, Unanswered DEF GhostInv
<1>9. ASSUME NEW h \in Handles, CompactTable(h) PROVE GhostInv'
  <2>1. UNCHANGED <<route, cacheVars>> /\ answer' = NoAnswer
    BY <1>9 DEF CompactTable
  <2> QED BY <1>1, <1>3, <1>9, <2>1, CompactKeeps, Unanswered DEF GhostInv, cacheVars
<1>10. ASSUME NEW h \in Handles, Reopen(h) PROVE GhostInv'
  <2>1. UNCHANGED <<segments, rows, index, added, route, nodeCache>> /\ answer' = NoAnswer
    BY <1>10 DEF Reopen, diskVars, manifestVars
  <2>2. CachesKept'
    <3>1. DOMAIN indexCache' = Handles
      BY <1>1, <1>10 DEF Reopen, CachesKept
    <3>2. NoRoute \in [there : BOOLEAN, of : [Words -> SUBSET (1 .. MaxDocs)]]
      BY DEF NoRoute
    <3>3. routeCache' \in [Handles -> [there : BOOLEAN, of : [Words -> SUBSET (1 .. MaxDocs)]]]
      BY <1>1, <1>10, <3>2 DEF Reopen, CachesKept
    <3> QED BY <1>1, <2>1, <3>1, <3>3 DEF CachesKept
  <2> QED BY <1>2, <2>1, <2>2, Unanswered DEF GhostInv
<1>11. ASSUME NEW h \in Handles, NEW w \in Queries, NEW offset \in Offsets, NEW graph \in Graphs,
              NEW cluster \in BOOLEAN, NEW served \in 0 .. NumSegments, Search(h, w, offset, graph, cluster, served)
       PROVE  GhostInv'
  BY <1>11, SearchKeeps, SearchShowsRows DEF GhostInv
<1>12. CASE UNCHANGED vars
  <2>1. UNCHANGED <<segments, rows, index, added, route, indexCache, routeCache, nodeCache, answer>>
    BY <1>12 DEF vars, diskVars, manifestVars, cacheVars
  <2>2. GhostsOnlyFromCaches'
    BY <2>1 DEF GhostInv, GhostsOnlyFromCaches, Answered, CachesTrue, CacheUsed, Ranking, Hits, Indexed, Listed
  <2> QED BY <1>2, <1>3, <2>1, <2>2 DEF GhostInv
<1> QED BY <1>4, <1>5, <1>6, <1>7, <1>8, <1>9, <1>10, <1>11, <1>12 DEF Next

\* A search of the segments shows no document that is not a row of the table with an
\* index and the word asked for, and none twice, as long as what the caches of the
\* handle or of the workers hold is what the files hold: an index file never outlives
\* the segment whose name it has, however ingests, rebuilds, deletions, compactions
\* and searches follow one another (dag.rs run, persist.rs remove_segment_sidecars and
\* rebuild_segment_sidecars, cache.rs).
THEOREM ShownAreRows == Spec => []GhostsOnlyFromCaches
<1>1. GhostInv => GhostsOnlyFromCaches
  BY DEF GhostInv
<1> QED BY <1>1, GhostInit, GhostStep, PTL DEF Spec

---------------------------------------------------------------------------
(* Searching the corpus of a handle *)

\* Every page fits into the budget of tier 2, and the corpus into that of tier 1.
PagesFit == \A offset \in Offsets : offset + PageSize <= 75
CorpusFits == MaxDocs <= LesserOf(50 * PageSize, 1000)

LEMMA PagesFitBudgets ==
  ASSUME PagesFit, NEW offset \in Offsets, NEW ctx, ctx = Budgets(offset), NEW f, f = offset + PageSize
  PROVE  /\ f \in Nat \ {0} /\ PageSize <= f /\ ctx.tier1 \in Nat /\ ctx.tier2 \in Nat
         /\ ctx.tier1 = LesserOf(50 * f, 1000) + 4 /\ ctx.tier3 = f /\ f <= ctx.tier2
         /\ SegmentK(ctx) \in Nat /\ f <= SegmentK(ctx)
<1>1. offset \in Nat /\ PageSize \in Nat \ {0}
  BY SearchAssumption
<1>2. f \in Nat \ {0} /\ f <= 75 /\ PageSize <= f /\ f = LesserOf(offset + PageSize, 1000)
  BY <1>1 DEF PagesFit, LesserOf
<1>3. f = LastPlace(offset)
  BY <1>2 DEF LastPlace
<1>4. ctx.tier1 \in Nat /\ ctx.tier2 \in Nat /\ SegmentK(ctx) \in Nat
  BY <1>1, BudgetsAre
<1>5. ctx.tier3 = f
  BY <1>1, <1>3, BudgetsAre
<1>6. ctx.tier1 = LesserOf(50 * f, 1000) + 4
  <2>1. Budgets(offset).tier1 = LesserOf(50 * LastPlace(offset), 1000) + 4
    BY <1>1, BudgetsAre
  <2> QED BY <1>3, <2>1
<1>7. ctx.tier2 \in {LesserOf(5 * f, 100), (LesserOf(5 * f, 100) * 3) \div 4}
  <2>1. Budgets(offset).tier2 \in {LesserOf(5 * LastPlace(offset), 100), (LesserOf(5 * LastPlace(offset), 100) * 3) \div 4}
    BY <1>1, BudgetsAre
  <2> QED BY <1>3, <2>1
<1>8. PICK b \in Nat : b = LesserOf(5 * f, 100)
  BY <1>2 DEF LesserOf
<1>9. b = 5 * f \/ (b = 100 /\ f > 20)
  BY <1>2, <1>8 DEF LesserOf
<1>10. f <= b /\ f <= (b * 3) \div 4
  BY <1>2, <1>9
<1>11. f <= ctx.tier2
  BY <1>7, <1>8, <1>10
<1>12. PICK n \in Nat : n = LesserOf(50 * f, 1000) + 4
  BY <1>2 DEF LesserOf
<1>13. f <= n /\ f <= 2 * f
  BY <1>2, <1>12 DEF LesserOf
<1>14. f <= SegmentK(ctx)
  BY <1>5, <1>6, <1>12, <1>13 DEF SegmentK, LesserOf
<1> QED BY <1>2, <1>4, <1>5, <1>6, <1>11, <1>14

LEMMA BudgetsFit ==
  ASSUME PagesFit, CorpusFits, NEW offset \in Offsets, NEW ctx, ctx = Budgets(offset)
  PROVE  /\ ctx.tier1 \in Nat /\ ctx.tier2 \in Nat /\ MaxDocs <= ctx.tier1
         /\ ctx.tier3 = offset + PageSize /\ offset + PageSize <= ctx.tier2
<1>1. PICK f : f = offset + PageSize
  OBVIOUS
<1>2. /\ f \in Nat \ {0} /\ PageSize <= f /\ ctx.tier1 \in Nat /\ ctx.tier2 \in Nat
      /\ ctx.tier1 = LesserOf(50 * f, 1000) + 4 /\ ctx.tier3 = f /\ f <= ctx.tier2
  BY <1>1, PagesFitBudgets
<1>3. PageSize \in Nat /\ MaxDocs \in Nat /\ MaxDocs <= LesserOf(50 * PageSize, 1000)
  BY SearchAssumption DEF CorpusFits
<1>4. LesserOf(50 * PageSize, 1000) <= LesserOf(50 * f, 1000)
  BY <1>2, <1>3 DEF LesserOf
<1>5. MaxDocs <= LesserOf(50 * f, 1000) + 4
  BY <1>2, <1>3, <1>4 DEF LesserOf
<1> QED BY <1>1, <1>2, <1>5

LEMMA SizeOfCorpus ==
  ASSUME NEW docs, Apart(docs)
  PROVE  Cardinality(docs) \in Nat /\ Cardinality(docs) <= MaxDocs
<1>1. PICK f : f = [d \in docs |-> d.id]
  OBVIOUS
<1>2. MaxDocs \in Nat
  BY SearchAssumption
<1>3. f \in Injection(docs, 0 .. MaxDocs - 1)
  BY <1>1, DocsAre DEF Apart, Injection, IsInjective
<1>4. IsFiniteSet(0 .. MaxDocs - 1) /\ Cardinality(0 .. MaxDocs - 1) = MaxDocs
  BY <1>2, FS_Interval
<1>5. Cardinality(docs) <= MaxDocs
  BY <1>3, <1>4, FS_Injection
<1> QED BY <1>5, FS_CardinalityType DEF Apart

LEMMA TruncateWhole ==
  ASSUME NEW list, IsList(list), NEW max \in Nat, Len(list) <= max
  PROVE  Truncate(list, max) = list
BY TruncateIsTaken

LEMMA TruncatedIsList ==
  ASSUME NEW list, IsList(list), NEW max \in Nat
  PROVE  IsList(Truncate(list, max))
BY TruncateIsTaken, TakenKeeps

LEMMA RemoveIsTaken ==
  ASSUME NEW list, IsList(list), NEW deleted
  PROVE  /\ TakenFrom(RemoveIds(list, deleted), list)
         /\ Ids(RemoveIds(list, deleted)) \cap deleted = {}
<1>1. PICK places : places = {i \in DOMAIN list : list[i].id \notin deleted}
  OBVIOUS
<1>2. PICK new : new = At(list, places)
  OBVIOUS
<1>3. RemoveIds(list, deleted) = new
  BY <1>1, <1>2 DEF RemoveIds
<1>4. TakenFrom(new, list)
  BY <1>1, <1>2, ListsAreTaken
<1>5. \A i \in DOMAIN new : new[i].id \notin deleted
  <2>1. PICK order : order = InOrder(places)
    OBVIOUS
  <2>2. PICK m \in Nat : list = [i \in 1 .. m |-> list[i]]
    BY DEF IsList
  <2>3. places \in SUBSET Nat /\ IsFiniteSet(places)
    <3>1. places \in SUBSET (1 .. m)
      BY <1>1, <2>2
    <3>2. IsFiniteSet(1 .. m)
      BY FS_Interval
    <3>3. IsFiniteSet(places)
      BY <3>1, <3>2, FS_Subset
    <3> QED BY <3>1, <3>3
  <2>4. \A i \in DOMAIN order : order[i] \in places
    BY <2>1, <2>3, InOrderLists DEF Lists
  <2>5. new = [i \in DOMAIN order |-> list[order[i]]]
    BY <1>2, <2>1 DEF At
  <2> QED BY <1>1, <2>4, <2>5
<1>6. Ids(new) \cap deleted = {}
  BY <1>5 DEF Ids
<1> QED BY <1>3, <1>4, <1>6

\* What of t1 has a score, cut to the budget, has no other ids.
LEMMA Tier2Adds ==
  ASSUME NEW t1, IsList(t1), NEW cap \in Nat, NEW t2, t2 = Tier2(Refine(t1, cap), <<>>, cap)
  PROVE  IsList(t2) /\ \A j \in DOMAIN t2 : \E i \in DOMAIN t1 : t1[i].id = t2[j].id
<1>1. PICK S : S = {t1[i] : i \in DOMAIN t1}
  OBVIOUS
<1>2. Within(t1, S)
  BY <1>1 DEF Within
<1>3. PICK places : places = {i \in DOMAIN t1 : t1[i].score > 0}
  OBVIOUS
<1>4. PICK scored : scored = At(t1, places)
  OBVIOUS
<1>5. TakenFrom(scored, t1)
  BY <1>3, <1>4, ListsAreTaken
<1>6. IsList(scored) /\ Within(scored, S)
  BY <1>2, <1>5, TakenKeeps
<1>7. PICK refined : refined = Truncate(scored, cap)
  OBVIOUS
<1>8. TakenFrom(refined, scored)
  BY <1>6, <1>7, TruncateIsTaken
<1>9. IsList(refined) /\ Within(refined, S)
  BY <1>6, <1>8, TakenKeeps
<1>10. refined = Refine(t1, cap)
  BY <1>3, <1>4, <1>7 DEF Refine
<1>11. refined \o <<>> = refined
  <2>1. PICK n \in Nat : refined = [i \in 1 .. n |-> refined[i]]
    BY <1>9 DEF IsList
  <2>2. refined \in Seq(S)
    BY <1>9, <2>1, ListIsSeq
  <2> QED BY <2>2, ConcatEmptySeq
<1>12. t2 = Truncate(refined, cap)
  BY <1>10, <1>11 DEF Tier2
<1>13. TakenFrom(t2, refined)
  BY <1>9, <1>12, TruncateIsTaken
<1>14. IsList(t2) /\ Within(t2, S)
  BY <1>9, <1>13, TakenKeeps
<1> QED BY <1>1, <1>14 DEF Within

LEMMA ListsOf ==
  ASSUME NEW list, IsList(list), NEW n \in Nat, DOMAIN list = 1 .. n
  PROVE  Len(list) = n /\ list = [i \in 1 .. n |-> list[i]]
<1>1. PICK m \in Nat : list = [i \in 1 .. m |-> list[i]]
  BY DEF IsList
<1>2. Len(list) = m /\ DOMAIN list = 1 .. m
  BY <1>1, ListIsSeq
<1>3. m = n
  <2>1. 1 .. m = 1 .. n
    BY <1>2
  <2> QED BY <2>1
<1> QED BY <1>1, <1>2, <1>3

LEMMA DomainOf ==
  ASSUME NEW list, IsList(list)
  PROVE  Len(list) \in Nat /\ DOMAIN list = 1 .. Len(list)
<1>1. PICK m \in Nat : list = [i \in 1 .. m |-> list[i]]
  BY DEF IsList
<1> QED BY <1>1, ListIsSeq

LEMMA NoneIsList == IsList(<<>>) /\ Len(<<>>) = 0 /\ DOMAIN <<>> = {}
<1>1. PICK list : list = <<>>
  OBVIOUS
<1>2. list = [i \in 1 .. 0 |-> list[i]] /\ Len(list) = 0 /\ DOMAIN list = {}
  BY <1>1
<1>3. IsList(list)
  BY <1>2 DEF IsList
<1> QED BY <1>1, <1>2, <1>3

LEMMA CutTwice ==
  ASSUME NEW n \in Nat, NEW list, IsList(list), DOMAIN list = 1 .. n, NEW cap \in Nat, NEW f \in Nat, f <= cap,
         NEW new, new = Truncate(Truncate(list, cap), f)
  PROVE  /\ IsList(new) /\ Len(new) = LesserOf(f, n)
         /\ \A i \in DOMAIN new : i \in 1 .. n /\ new[i] = list[i]
<1>1. PICK cut : cut = Truncate(list, cap)
  OBVIOUS
<1>2. Len(list) = n
  BY ListsOf
<1>3. PICK c \in Nat : c = LesserOf(cap, n)
  BY DEF LesserOf
<1>4. TakenFrom(cut, list) /\ Len(cut) = c /\ \A i \in 1 .. c : cut[i] = list[i]
  BY <1>1, <1>2, <1>3, TruncateIsTaken
<1>5. IsList(cut)
  BY <1>4, TakenKeeps
<1>6. PICK d \in Nat : d = LesserOf(f, c)
  BY DEF LesserOf
<1>7. new = Truncate(cut, f)
  BY <1>1
<1>8. TakenFrom(new, cut) /\ Len(new) = d /\ \A i \in 1 .. d : new[i] = cut[i]
  <2>1. LesserOf(f, Len(cut)) = d
    BY <1>4, <1>6
  <2>2. /\ TakenFrom(Truncate(cut, f), cut) /\ Len(Truncate(cut, f)) = LesserOf(f, Len(cut))
        /\ \A i \in 1 .. LesserOf(f, Len(cut)) : Truncate(cut, f)[i] = cut[i]
    BY <1>5, TruncateIsTaken
  <2> QED BY <1>7, <2>1, <2>2
<1>9. IsList(new)
  BY <1>8, TakenKeeps
<1>10. d = LesserOf(f, n) /\ d <= c /\ c <= n
  BY <1>3, <1>6 DEF LesserOf
<1>11. DOMAIN new = 1 .. d
  BY <1>8, <1>9, DomainOf
<1>12. \A i \in 1 .. d : i \in 1 .. c /\ i \in 1 .. n
  BY <1>10
<1> QED BY <1>4, <1>8, <1>9, <1>10, <1>11, <1>12

\* The page of an answer from memory that the graph has not widened, and what is ranked.
MemoryPage(h, w, offset) ==
  TablePage(Truncate(MemoryCandidates(h, w, FALSE, Budgets(offset)), Budgets(offset).tier3), <<>>, offset, PageSize)
MemoryRanking(h, w) == RemoveIds(Hits(mem[h], w), TombstonesFor(h))

LEMMA MemoryPageIsRanked ==
  ASSUME PagesFit, CorpusFits, CorporaApart, NEW h \in Handles, NEW w, NEW offset \in Offsets
  PROVE  /\ IdsOf(MemoryPage(h, w, offset)) = IdsOf(SliceRange(MemoryRanking(h, w), offset, PageSize))
         /\ Ids(MemoryPage(h, w, offset)) \cap TombstonesFor(h) = {}
<1> DEFINE ctx == Budgets(offset)
           cands == MemoryCandidates(h, w, FALSE, ctx)
           page == MemoryPage(h, w, offset)
           ranking == MemoryRanking(h, w)
<1>0. ranking = RemoveIds(Hits(mem[h], w), TombstonesFor(h))
      /\ page = TablePage(Truncate(cands, ctx.tier3), <<>>, offset, PageSize)
  BY DEF MemoryRanking, MemoryPage
<1> HIDE DEF ctx, cands, page, ranking
<1>1. offset \in Nat /\ PageSize \in Nat
  BY SearchAssumption
<1>2. PICK cap, f : cap = ctx.tier2 /\ f = offset + PageSize
  OBVIOUS
<1>3. /\ ctx.tier1 \in Nat /\ cap \in Nat /\ MaxDocs <= ctx.tier1 /\ ctx.tier3 = f /\ f <= cap /\ f \in Nat
  <2>1. /\ ctx.tier1 \in Nat /\ ctx.tier2 \in Nat /\ MaxDocs <= ctx.tier1
        /\ ctx.tier3 = offset + PageSize /\ offset + PageSize <= ctx.tier2
    BY BudgetsFit DEF ctx
  <2> QED BY <1>1, <1>2, <2>1
<1>4. PICK docs, tombstones, all : docs = mem[h] /\ tombstones = TombstonesFor(h) /\ all = Hits(docs, w)
  OBVIOUS
<1>5. Apart(docs)
  BY <1>4 DEF CorporaApart, Apart
<1>6. IsList(all) /\ DistinctIds(all) /\ Len(all) <= Cardinality(docs)
  BY <1>4, <1>5, HitsAre
<1>7. Len(all) <= ctx.tier1 /\ Len(all) \in Nat
  <2>1. Len(all) \in Nat
    BY <1>6, TruncateIsTaken
  <2>2. Cardinality(docs) \in Nat /\ Cardinality(docs) <= MaxDocs
    BY <1>5, SizeOfCorpus
  <2>3. MaxDocs \in Nat
    BY SearchAssumption
  <2> QED BY <1>3, <1>6, <2>1, <2>2, <2>3
<1>8. Truncate(all, ctx.tier1) = all
  BY <1>3, <1>6, <1>7, TruncateWhole
<1>9. ranking = RemoveIds(all, tombstones)
  BY <1>0, <1>4
<1>10. TakenFrom(ranking, all) /\ Ids(ranking) \cap tombstones = {}
  BY <1>6, <1>9, RemoveIsTaken
<1>11. IsList(ranking) /\ DistinctIds(ranking)
  BY <1>6, <1>10, TakenKeeps
<1>12. Len(ranking) \in Nat /\ Len(ranking) <= Len(all)
  BY <1>6, <1>10, TakenIsShorter
<1>13. Truncate(ranking, ctx.tier1) = ranking
  BY <1>3, <1>7, <1>11, <1>12, TruncateWhole
<1>14. PICK t2 : t2 = Tier2(Refine(ranking, cap), <<>>, cap)
  OBVIOUS
<1>15. IsList(t2) /\ \A j \in DOMAIN t2 : \E i \in DOMAIN ranking : ranking[i].id = t2[j].id
  BY <1>3, <1>11, <1>14, Tier2Adds
<1>16. PICK fused : fused = RrfMerge(ranking, t2, 60)
  OBVIOUS
<1>17. IsList(fused) /\ DOMAIN fused = DOMAIN ranking /\ \A i \in DOMAIN ranking : fused[i].id = ranking[i].id
  BY <1>11, <1>15, <1>16, FusedIsFirst
<1>18. PICK n \in Nat : ranking = [i \in 1 .. n |-> ranking[i]]
  BY <1>11 DEF IsList
<1>19. Len(ranking) = n /\ DOMAIN ranking = 1 .. n
  BY <1>18, ListIsSeq
<1>20. PICK shown : shown = Truncate(cands, f)
  OBVIOUS
<1>21. IsList(shown) /\ Len(shown) = LesserOf(f, n) /\ \A i \in DOMAIN shown : shown[i].id = ranking[i].id
  <2>1. CASE docs = {}
    <3>1. cands = <<>>
      BY <1>4, <2>1 DEF MemoryCandidates, cands
    <3>2. Cardinality(docs) = 0
      BY <2>1, FS_EmptySet
    <3>3. n = 0
      BY <1>6, <1>7, <1>12, <1>19, <3>2
    <3>4. IsList(cands) /\ Len(cands) = 0 /\ DOMAIN cands = {}
      BY <3>1, NoneIsList
    <3>5. shown = cands
      <4>1. Len(cands) <= f /\ f \in Nat
        <5>1. f \in Nat
          BY <1>3
        <5>2. 0 <= f
          BY <5>1
        <5>3. Len(cands) = 0
          BY <3>4
        <5> QED BY <5>1, <5>2, <5>3
      <4>2. Truncate(cands, f) = cands
        BY <3>4, <4>1, TruncateWhole
      <4> QED BY <1>20, <4>2
    <3>6. LesserOf(f, n) = 0
      BY <1>3, <3>3 DEF LesserOf
    <3> QED BY <3>4, <3>5, <3>6
  <2>2. CASE docs # {}
    <3>1. cands = Truncate(fused, cap)
      BY <1>2, <1>4, <1>8, <1>9, <1>13, <1>14, <1>16, <2>2 DEF MemoryCandidates, cands
    <3>2. shown = Truncate(Truncate(fused, cap), f)
      BY <1>20, <3>1
    <3>3. DOMAIN fused = 1 .. n
      BY <1>17, <1>19
    <3>4. IsList(shown) /\ Len(shown) = LesserOf(f, n) /\ \A i \in DOMAIN shown : i \in 1 .. n /\ shown[i] = fused[i]
      BY <1>3, <1>17, <3>2, <3>3, CutTwice
    <3> QED BY <1>17, <1>19, <3>4
  <2> QED BY <2>1, <2>2
<1>22. page = SliceRange(shown, offset, PageSize)
  BY <1>0, <1>3, <1>20 DEF TablePage
<1>23. /\ IdsOf(page) = IdsOf(SliceRange(ranking, offset, PageSize))
       /\ Ids(page) \subseteq Ids(ranking)
  <2>1. Len(shown) = LesserOf(offset + PageSize, Len(ranking))
    BY <1>2, <1>19, <1>21
  <2>2. /\ IdsOf(SliceRange(shown, offset, PageSize)) = IdsOf(SliceRange(ranking, offset, PageSize))
        /\ Ids(SliceRange(shown, offset, PageSize)) \subseteq Ids(ranking)
    BY <1>1, <1>11, <1>21, <2>1, PagesAgree
  <2> QED BY <1>22, <2>2
<1> QED BY <1>4, <1>10, <1>23 DEF page, ranking

---------------------------------------------------------------------------
(* MemoryAnswers *)

LEMMA NothingAnswered == answer' = NoAnswer => MemoryAnswers'
BY DEF MemoryAnswers, Answered, NoAnswer

LEMMA TombstonesStay ==
  ASSUME TombstonesKnown, UNCHANGED <<tombCache, own>>, tombs' \subseteq tombs
  PROVE  TombstonesKnown'
BY DEF TombstonesKnown

LEMMA CorporaStay ==
  ASSUME CorporaApart, RowsApart, UNCHANGED mem, added' \in Nat, added <= added'
  PROVE  CorporaApart'
<1>1. added \in Nat
  BY SearchAssumption DEF RowsApart
<1>2. ASSUME NEW h \in Handles, NEW d \in mem[h] PROVE d.id < added'
  <2>1. d.id \in Nat /\ d.id < added
    BY DocsAre DEF CorporaApart
  <2> QED BY <1>1, <2>1
<1> QED BY <1>2 DEF CorporaApart

LEMMA CorpusGrows ==
  ASSUME CorporaApart, RowsApart, NEW h \in Handles, NEW batch \in Batches[added], AddDocuments(h, batch)
  PROVE  CorporaApart'
<1>1. PICK docs, k : docs = NewDocs(batch) /\ k = Cardinality(docs)
  OBVIOUS
<1>2. /\ IsFiniteSet(docs) /\ k \in Nat \ {0}
      /\ \A d \in docs : /\ d.id \in Nat /\ added <= d.id /\ d.id < added + k
                         /\ d.word \in Words /\ d.score \in Nat \ {0}
                         /\ d = [id |-> d.id, word |-> d.word, score |-> d.score]
      /\ \A d, e \in docs : d.id = e.id => d = e
  BY <1>1, NewDocsAre
<1>3. added' = added + k /\ added + k <= MaxDocs /\ mem' = [mem EXCEPT ![h] = mem[h] \cup docs]
  BY <1>1 DEF AddDocuments, FlushSegment
<1>4. added \in Nat /\ MaxDocs \in Nat
  BY SearchAssumption DEF RowsApart
<1>5. docs \subseteq Docs
  <2>1. \A d \in docs : d.id \in DocIds
    BY <1>2, <1>3, <1>4 DEF DocIds
  <2> QED BY <1>2, <2>1 DEF Docs
<1>6. ASSUME NEW g \in Handles
      PROVE  /\ IsFiniteSet(mem'[g]) /\ mem'[g] \subseteq Docs
             /\ \A d \in mem'[g] : d.id < added'
             /\ \A d, e \in mem'[g] : d.id = e.id => d = e
  <2>1. /\ IsFiniteSet(mem[g]) /\ mem[g] \subseteq Docs
        /\ \A d \in mem[g] : d.id < added
        /\ \A d, e \in mem[g] : d.id = e.id => d = e
    BY DEF CorporaApart
  <2>2. \A d \in mem[g] : d.id \in Nat /\ d.id < added'
    <3> SUFFICES ASSUME NEW d \in mem[g] PROVE d.id \in Nat /\ d.id < added'
      OBVIOUS
    <3>1. d.id \in Nat /\ d.id < added
      BY <2>1, DocsAre
    <3> QED BY <1>2, <1>3, <1>4, <3>1
  <2>3. CASE g = h
    <3>1. mem'[g] = mem[g] \cup docs
      BY <1>3, <2>3 DEF CorporaApart
    <3>2. IsFiniteSet(mem[g] \cup docs)
      BY <1>2, <2>1, FS_Union
    <3>3. \A d \in mem[g], e \in docs : d.id # e.id
      <4> SUFFICES ASSUME NEW d \in mem[g], NEW e \in docs, d.id = e.id PROVE FALSE
        OBVIOUS
      <4>1. d.id \in Nat /\ d.id < added
        BY <2>1, <2>2
      <4>2. e.id \in Nat /\ added <= e.id
        BY <1>2
      <4> QED BY <1>4, <4>1, <4>2
    <3>4. \A d \in docs : d.id < added'
      BY <1>2, <1>3
    <3> QED BY <1>2, <1>5, <2>1, <2>2, <3>1, <3>2, <3>3, <3>4
  <2>4. CASE g # h
    <3>1. mem'[g] = mem[g]
      BY <1>3, <2>4 DEF CorporaApart
    <3> QED BY <2>1, <2>2, <3>1
  <2> QED BY <2>3, <2>4
<1>7. DOMAIN mem' = Handles
  BY <1>3 DEF CorporaApart
<1> QED BY <1>6, <1>7 DEF CorporaApart

LEMMA ReopenKeeps ==
  ASSUME CorporaApart, TombstonesKnown, RowsApart, NEW h \in Handles, Reopen(h)
  PROVE  CorporaApart' /\ TombstonesKnown'
<1>1. PICK docs : docs = IF segmentOnly THEN {} ELSE Live
  OBVIOUS
<1>2. /\ mem' = [mem EXCEPT ![h] = docs] /\ tombCache' = [tombCache EXCEPT ![h] = [known |-> FALSE, ids |-> {}]]
      /\ UNCHANGED <<added, tombs, own>>
  BY <1>1 DEF Reopen, diskVars
<1>3. Apart(docs) /\ \A d \in docs : d.id < added
  <2>1. Apart(Live)
    BY ListedAreNames, RowsOfApart DEF Live
  <2>2. \A d \in Live : \E m \in Names : d \in rows[m]
    BY ListedAreNames DEF Live
  <2>3. \A d \in Live : d.id < added
    BY <2>2 DEF RowsApart
  <2>4. Apart({})
    BY FS_EmptySet DEF Apart
  <2> QED BY <1>1, <2>1, <2>3, <2>4
<1>4. CorporaApart'
  <2>1. DOMAIN mem' = Handles /\ \A g \in Handles : mem'[g] = docs \/ mem'[g] = mem[g]
    BY <1>2 DEF CorporaApart
  <2>2. ASSUME NEW g \in Handles
        PROVE  /\ IsFiniteSet(mem'[g]) /\ mem'[g] \subseteq Docs
               /\ \A d \in mem'[g] : d.id < added
               /\ \A d, e \in mem'[g] : d.id = e.id => d = e
    <3>1. CASE mem'[g] = docs
      BY <1>3, <3>1 DEF Apart
    <3>2. CASE mem'[g] = mem[g]
      BY <3>2 DEF CorporaApart
    <3> QED BY <2>1, <3>1, <3>2
  <2> QED BY <1>2, <2>1, <2>2 DEF CorporaApart
<1>5. TombstonesKnown'
  <2>1. DOMAIN tombCache' = Handles /\ tombCache'[h].known = FALSE
        /\ \A g \in Handles \ {h} : tombCache'[g] = tombCache[g]
    BY <1>2 DEF TombstonesKnown
  <2> QED BY <1>2, <2>1 DEF TombstonesKnown
<1> QED BY <1>4, <1>5

LEMMA DeleteKeeps ==
  ASSUME TombstonesKnown, NEW h \in Handles, NEW id, DeleteById(h, id)
  PROVE  TombstonesKnown'
<1>1. /\ \A g \in Handles : id \notin own[g]
      /\ tombs' = tombs \cup {id} /\ tombCache' = [tombCache EXCEPT ![h] = [known |-> FALSE, ids |-> {}]]
      /\ own' = [own EXCEPT ![h] = own[h] \cup {id}]
  BY DEF DeleteById, Forgotten
<1>2. /\ DOMAIN tombCache' = Handles /\ DOMAIN own' = Handles /\ tombCache'[h].known = FALSE
      /\ \A g \in Handles \ {h} : tombCache'[g] = tombCache[g] /\ own'[g] = own[g]
  BY <1>1 DEF TombstonesKnown
<1>3. ASSUME NEW g \in Handles, tombCache'[g].known PROVE own'[g] \cap tombs' \subseteq tombCache'[g].ids
  <2>1. g # h
    BY <1>2, <1>3
  <2>2. own[g] \cap tombs \subseteq tombCache[g].ids
    BY <1>2, <1>3, <2>1 DEF TombstonesKnown
  <2> QED BY <1>1, <1>2, <2>1, <2>2
<1> QED BY <1>2, <1>3 DEF TombstonesKnown

LEMMA SearchKnows ==
  ASSUME TombstonesKnown, CorporaApart, NEW h \in Handles, NEW w, NEW offset \in Offsets, NEW graph,
         NEW cluster, NEW served, Search(h, w, offset, graph, cluster, served)
  PROVE  /\ CorporaApart' /\ TombstonesKnown'
         /\ PagesFit /\ CorpusFits => MemoryAnswers'
<1>1. PICK ids : ids = TombstonesFor(h)
  OBVIOUS
<1>2. tombCache' = [tombCache EXCEPT ![h] = [known |-> TRUE, ids |-> ids]]
      /\ UNCHANGED <<mem, added, tombs, own>>
  BY <1>1 DEF Search, diskVars, handleVars
<1>3. CorporaApart'
  BY <1>2 DEF CorporaApart
<1>4. DOMAIN tombCache' = Handles /\ tombCache'[h] = [known |-> TRUE, ids |-> ids]
      /\ \A g \in Handles \ {h} : tombCache'[g] = tombCache[g]
  BY <1>2 DEF TombstonesKnown
<1>5. own[h] \cap tombs \subseteq ids
  BY <1>1 DEF TombstonesFor, TombstonesKnown
<1>6. TombstonesKnown'
  <2>1. \A g \in Handles : tombCache'[g].known => own[g] \cap tombs \subseteq tombCache'[g].ids
    BY <1>4, <1>5 DEF TombstonesKnown
  <2> QED BY <1>2, <1>4, <2>1 DEF TombstonesKnown
<1>7. ASSUME PagesFit, CorpusFits PROVE MemoryAnswers'
  <2>1. PICK ctx, k, scan, active :
          /\ ctx = Budgets(offset) /\ k = SegmentK(ctx) /\ scan = (segmentOnly /\ HasSidecars)
          /\ active = ActiveSegments(h, w)
    OBVIOUS
  <2>2. PICK found, asked, memory :
          /\ found = IF ~scan THEN <<>> ELSE IF cluster THEN ClusterScan(h, w, k, served) ELSE LocalScan(h, w, k)
          /\ asked = IF cluster THEN ToSet(Truncate(InOrder(active), served)) ELSE active
          /\ memory = MemoryCandidates(h, w, graph, ctx)
    OBVIOUS
  <2>3. /\ answer'.via = (IF found # <<>> THEN "segments" ELSE IF scan THEN "fallback" ELSE "memory")
        /\ answer'.by = h /\ answer'.word = w /\ answer'.offset = offset /\ answer'.graph = graph
        /\ found = <<>> => answer'.page = TablePage(Truncate(memory, ctx.tier3), <<>>, offset, PageSize)
    BY <2>1, <2>2 DEF Search
  <2>4. SUFFICES ASSUME found = <<>>, ~graph
                 PROVE  /\ IdsOf(answer'.page) = IdsOf(SliceRange(RemoveIds(Hits(mem[h], w), ids), offset, PageSize))
                        /\ Ids(answer'.page) \cap own[h] \cap tombs = {}
    BY <1>2, <1>4, <2>3 DEF MemoryAnswers, Answered
  <2>5. PICK page : page = answer'.page
    OBVIOUS
  <2>6. page = MemoryPage(h, w, offset)
    <3>1. memory = MemoryCandidates(h, w, FALSE, ctx)
      BY <2>2, <2>4 DEF MemoryCandidates
    <3> QED BY <2>1, <2>3, <2>4, <2>5, <3>1 DEF MemoryPage
  <2>7. PICK ranking : ranking = RemoveIds(Hits(mem[h], w), ids)
    OBVIOUS
  <2>8. IdsOf(page) = IdsOf(SliceRange(ranking, offset, PageSize)) /\ Ids(page) \cap ids = {}
    <3>1. ranking = MemoryRanking(h, w)
      BY <1>1, <2>7 DEF MemoryRanking
    <3>2. IdsOf(page) = IdsOf(SliceRange(ranking, offset, PageSize)) /\ Ids(page) \cap TombstonesFor(h) = {}
      BY <1>7, <2>6, <3>1, MemoryPageIsRanked
    <3> QED BY <1>1, <3>2
  <2>9. Ids(page) \cap own[h] \cap tombs = {}
    BY <1>5, <2>8
  <2> QED BY <2>5, <2>7, <2>8, <2>9
<1> QED BY <1>3, <1>6, <1>7

LEMMA KnownInit == Init => KnownInv /\ MemoryAnswers
<1> SUFFICES ASSUME Init PROVE KnownInv /\ MemoryAnswers
  OBVIOUS
<1>1. CorporaApart
  <2>1. DOMAIN mem = Handles /\ \A h \in Handles : mem[h] = {}
    BY DEF Init
  <2> QED BY <2>1, FS_EmptySet DEF CorporaApart
<1>2. TombstonesKnown
  BY DEF Init, TombstonesKnown
<1>3. MemoryAnswers
  BY DEF Init, MemoryAnswers, Answered, NoAnswer
<1> QED BY <1>1, <1>2, <1>3 DEF KnownInv

LEMMA KnownStep ==
  ASSUME GhostInv, KnownInv, [Next]_vars
  PROVE  KnownInv' /\ (PagesFit /\ CorpusFits /\ MemoryAnswers => MemoryAnswers')
<1>1. RowsApart /\ CorporaApart /\ TombstonesKnown
  BY DEF GhostInv, KnownInv
<1>2. added \in Nat
  BY <1>1, SearchAssumption DEF RowsApart
<1>3. ASSUME UNCHANGED <<mem, added>> PROVE CorporaApart'
  BY <1>1, <1>2, <1>3, CorporaStay
<1>4. ASSUME NEW h \in Handles, NEW batch \in Batches[added], AddDocuments(h, batch)
      PROVE  KnownInv' /\ MemoryAnswers'
  <2>1. UNCHANGED <<tombs, tombCache, own>> /\ answer' = NoAnswer
    BY <1>4 DEF AddDocuments, cacheVars
  <2>2. CorporaApart'
    BY <1>1, <1>4, CorpusGrows
  <2> QED BY <1>1, <2>1, <2>2, TombstonesStay, NothingAnswered DEF KnownInv
<1>5. ASSUME NEW h \in Handles, NEW batch \in Batches[added], BulkAdd(h, batch)
      PROVE  KnownInv' /\ MemoryAnswers'
  <2>1. UNCHANGED <<mem, tombs, tombCache, own>> /\ answer' = NoAnswer
    BY <1>5 DEF BulkAdd, cacheVars, handleVars
  <2>2. added' \in Nat /\ added <= added'
    <3>1. PICK docs, k : docs = NewDocs(batch) /\ k = Cardinality(docs)
      OBVIOUS
    <3>2. k \in Nat
      BY <1>1, <3>1, NewDocsAre
    <3>3. added' = added + k
      BY <1>5, <3>1 DEF BulkAdd, FlushSegment
    <3> QED BY <1>2, <3>2, <3>3
  <2>3. CorporaApart'
    BY <1>1, <2>1, <2>2, CorporaStay
  <2> QED BY <1>1, <2>1, <2>3, TombstonesStay, NothingAnswered DEF KnownInv
<1>6. ASSUME NEW h \in Handles, BeginBulkIngest(h) PROVE KnownInv' /\ MemoryAnswers'
  <2>1. UNCHANGED <<mem, added, tombs, tombCache, own>> /\ answer' = NoAnswer
    BY <1>6 DEF BeginBulkIngest, cacheVars
  <2> QED BY <1>1, <1>3, <2>1, TombstonesStay, NothingAnswered DEF KnownInv
<1>7. ASSUME NEW h \in Handles, FinishBulkIngest(h) PROVE KnownInv' /\ MemoryAnswers'
  <2>1. UNCHANGED <<mem, added, tombs, tombCache, own>> /\ answer' = NoAnswer
    BY <1>7 DEF FinishBulkIngest, cacheVars
  <2> QED BY <1>1, <1>3, <2>1, TombstonesStay, NothingAnswered DEF KnownInv
<1>8. ASSUME NEW h \in Handles, NEW id \in DocIds, DeleteById(h, id) PROVE KnownInv' /\ MemoryAnswers'
  <2>1. UNCHANGED <<mem, added>> /\ answer' = NoAnswer
    BY <1>8 DEF DeleteById, handleVars
  <2>2. TombstonesKnown'
    BY <1>1, <1>8, DeleteKeeps
  <2> QED BY <1>3, <2>1, <2>2, NothingAnswered DEF KnownInv
<1>9. ASSUME NEW h \in Handles, CompactTable(h) PROVE KnownInv' /\ MemoryAnswers'
  <2>1. UNCHANGED <<mem, added, tombCache, own>> /\ tombs' \subseteq tombs /\ answer' = NoAnswer
    BY <1>9 DEF CompactTable, cacheVars, handleVars
  <2> QED BY <1>1, <1>3, <2>1, TombstonesStay, NothingAnswered DEF KnownInv
<1>10. ASSUME NEW h \in Handles, Reopen(h) PROVE KnownInv' /\ MemoryAnswers'
  <2>1. answer' = NoAnswer
    BY <1>10 DEF Reopen
  <2> QED BY <1>1, <1>10, <2>1, ReopenKeeps, NothingAnswered DEF KnownInv
<1>11. ASSUME NEW h \in Handles, NEW w \in Queries, NEW offset \in Offsets, NEW graph \in Graphs,
              NEW cluster \in BOOLEAN, NEW served \in 0 .. NumSegments, Search(h, w, offset, graph, cluster, served)
       PROVE  KnownInv' /\ (PagesFit /\ CorpusFits => MemoryAnswers')
  BY <1>1, <1>11, SearchKnows DEF KnownInv
<1>12. CASE UNCHANGED vars
  <2>1. UNCHANGED <<mem, added, tombs, tombCache, own, answer>>
    BY <1>12 DEF vars, diskVars, cacheVars, handleVars
  <2>2. MemoryAnswers => MemoryAnswers'
    BY <2>1 DEF MemoryAnswers, Answered
  <2> QED BY <1>1, <1>3, <2>1, <2>2, TombstonesStay DEF KnownInv
<1> QED BY <1>4, <1>5, <1>6, <1>7, <1>8, <1>9, <1>10, <1>11, <1>12 DEF Next

\* A handle that has read the tombstones knows every one of its own deletions that is
\* still on file: the copy a handle keeps is dropped with each deletion, and compaction
\* takes tombstones away but never adds any (dag.rs:545, delete_by_ids).
THEOREM OwnDeletionsKnown == Spec => []TombstonesKnown
<1>1. Init => KnownInv
  BY KnownInit
<1>2. GhostInv /\ KnownInv /\ [Next]_vars => KnownInv'
  BY KnownStep
<1>3. KnownInv => TombstonesKnown
  BY DEF KnownInv
<1> QED BY <1>1, <1>2, <1>3, GhostInit, GhostStep, PTL DEF Spec

\* As long as the corpus fits into the budget of tier 1 and the page into that of tier
\* 2, an answer from memory that the graph has not widened is the page of the ranking
\* of the documents with the word asked for without those known as deleted, and none of
\* them was deleted through the same handle while its tombstone is on file: neither
\* cutting before the tombstones are removed, nor the refinement of tier 2, nor rank
\* fusion puts another document in its place (dag.rs:620-680, fusion.rs rrf_merge).
THEOREM MemoryIsRanked ==
  ASSUME PagesFit, CorpusFits
  PROVE  Spec => []MemoryAnswers
<1>1. Init => KnownInv /\ MemoryAnswers
  BY KnownInit
<1>2. GhostInv /\ KnownInv /\ MemoryAnswers /\ [Next]_vars => KnownInv' /\ MemoryAnswers'
  BY KnownStep
<1> QED BY <1>1, <1>2, GhostInit, GhostStep, PTL DEF Spec

---------------------------------------------------------------------------
(* The best of several lists *)

IsRanking(list) == IsList(list) /\ Within(list, Candidates) /\ Best(list)

LEMMA BetterIsStrict ==
  /\ \A x \in Candidates : ~Better(x, x)
  /\ \A x, y \in Candidates : Better(x, y) => ~Better(y, x)
<1>1. \A x \in Candidates : x.id \in Nat /\ x.score \in Nat
  BY DEF Candidates
<1> QED BY <1>1 DEF Better

LEMMA RankingIsOrdered ==
  ASSUME NEW list, IsRanking(list), NEW i \in DOMAIN list, NEW j \in DOMAIN list
  PROVE  (Better(list[j], list[i]) <=> j < i) /\ (list[i] = list[j] => i = j)
<1>1. i \in Nat /\ j \in Nat /\ list[i] \in Candidates /\ list[j] \in Candidates
  BY DEF IsRanking, IsList, Within
<1>2. (i < j => Better(list[i], list[j])) /\ (j < i => Better(list[j], list[i]))
  BY DEF IsRanking, Best
<1>3. i < j \/ j < i \/ i = j
  BY <1>1
<1>4. ~(i < j /\ j < i)
  BY <1>1
<1> QED BY <1>1, <1>2, <1>3, <1>4, BetterIsStrict

\* A place is told by how many members are better.
LEMMA PlaceInRanking ==
  ASSUME NEW list, IsRanking(list), NEW i \in DOMAIN list, NEW ahead, ahead = {y \in ToSet(list) : Better(y, list[i])}
  PROVE  i \in Nat \ {0} /\ IsFiniteSet(ahead) /\ Cardinality(ahead) = i - 1
<1>1. PICK n \in Nat : list = [j \in 1 .. n |-> list[j]] /\ DOMAIN list = 1 .. n
  BY DEF IsRanking, IsList
<1>2. PICK f : f = [j \in 1 .. i - 1 |-> list[j]]
  OBVIOUS
<1>3. \A j \in 1 .. i - 1 : j \in DOMAIN list /\ j < i
  BY <1>1
<1>4. \A j \in DOMAIN list : Better(list[j], list[i]) => j \in 1 .. i - 1
  BY <1>1, RankingIsOrdered
<1>5. f \in Surjection(1 .. i - 1, ahead)
  <2>1. \A j \in 1 .. i - 1 : f[j] \in ahead
    BY <1>2, <1>3, RankingIsOrdered DEF ToSet
  <2>2. \A y \in ahead : \E j \in 1 .. i - 1 : f[j] = y
    BY <1>2, <1>4 DEF ToSet
  <2> QED BY <1>2, <2>1, <2>2 DEF Surjection
<1>6. f \in Injection(1 .. i - 1, ahead)
  <2>1. \A j, l \in 1 .. i - 1 : f[j] = f[l] => j = l
    BY <1>2, <1>3, RankingIsOrdered
  <2> QED BY <1>5, <2>1 DEF Surjection, Injection, IsInjective
<1>7. IsFiniteSet(1 .. i - 1) /\ Cardinality(1 .. i - 1) = i - 1 /\ i \in Nat \ {0}
  <2>1. i \in Nat \ {0}
    BY <1>1
  <2>2. i - 1 \in Nat
    BY <2>1
  <2> QED BY <2>1, <2>2, FS_Interval
<1> QED BY <1>5, <1>6, <1>7, FS_Surjection

LEMMA PlaceInPart ==
  ASSUME NEW part, IsRanking(part), NEW list, IsRanking(list), ToSet(part) \subseteq ToSet(list),
         NEW q \in DOMAIN part, NEW p \in DOMAIN list, part[q] = list[p]
  PROVE  q <= p
<1>1. PICK few, all : few = {y \in ToSet(part) : Better(y, list[p])} /\ all = {y \in ToSet(list) : Better(y, list[p])}
  OBVIOUS
<1>2. q \in Nat \ {0} /\ Cardinality(few) = q - 1
  BY <1>1, PlaceInRanking
<1>3. p \in Nat \ {0} /\ IsFiniteSet(all) /\ Cardinality(all) = p - 1
  BY <1>1, PlaceInRanking
<1>4. few \in SUBSET all
  BY <1>1
<1>5. Cardinality(few) <= Cardinality(all)
  BY <1>3, <1>4, FS_Subset
<1> QED BY <1>2, <1>3, <1>5

\* Two rankings, one of them with some of the members of the other and with its best m.
LEMMA SameStart ==
  ASSUME NEW part, IsRanking(part), NEW list, IsRanking(list), ToSet(part) \subseteq ToSet(list),
         NEW m \in Nat, \A p \in DOMAIN list : p <= m => list[p] \in ToSet(part),
         NEW p \in DOMAIN list, p <= m
  PROVE  p \in DOMAIN part /\ part[p] = list[p]
<1>1. PICK q \in DOMAIN part : part[q] = list[p]
  BY DEF ToSet
<1>2. PICK few, all : few = {y \in ToSet(part) : Better(y, list[p])} /\ all = {y \in ToSet(list) : Better(y, list[p])}
  OBVIOUS
<1>3. q \in Nat \ {0} /\ Cardinality(few) = q - 1
  BY <1>1, <1>2, PlaceInRanking
<1>4. p \in Nat \ {0} /\ Cardinality(all) = p - 1
  BY <1>2, PlaceInRanking
<1>5. all \subseteq few
  <2> SUFFICES ASSUME NEW y \in ToSet(list), Better(y, list[p]) PROVE y \in ToSet(part)
    BY <1>2
  <2>1. PICK l \in DOMAIN list : y = list[l]
    BY DEF ToSet
  <2>2. l < p
    BY <2>1, RankingIsOrdered
  <2>3. l \in Nat
    BY DEF IsRanking, IsList
  <2>4. l <= m
    BY <1>4, <2>2, <2>3
  <2> QED BY <2>1, <2>4
<1>6. few = all
  BY <1>2, <1>5
<1>7. q = p
  BY <1>3, <1>4, <1>6
<1> QED BY <1>1, <1>7

LEMMA PagesEqual ==
  ASSUME NEW a, IsList(a), NEW b, IsList(b), NEW offset \in Nat, NEW limit \in Nat,
         Len(a) = LesserOf(offset + limit, Len(b)), \A i \in DOMAIN a : a[i] = b[i]
  PROVE  SliceRange(a, offset, limit) = SliceRange(b, offset, limit)
<1>1. PICK m \in Nat : m = Len(a) /\ DOMAIN a = 1 .. m
  BY DomainOf
<1>2. PICK n \in Nat : n = Len(b) /\ DOMAIN b = 1 .. n
  BY DomainOf
<1>3. m = LesserOf(offset + limit, n) /\ LesserOf(offset + limit, m) = m
  BY <1>1, <1>2 DEF LesserOf
<1>4. PICK S : S = {a[i] : i \in 1 .. m}
  OBVIOUS
<1>5. \A i \in offset + 1 .. m : a[i] \in S /\ b[i] = a[i]
  <2>1. \A i \in offset + 1 .. m : i \in 1 .. m
    OBVIOUS
  <2> QED BY <1>1, <1>4, <2>1
<1>6. \A i \in offset + 1 .. m : b[i] \in S
  BY <1>5
<1>7. PICK p, q : p = SubSeq(a, offset + 1, m) /\ q = SubSeq(b, offset + 1, m)
  OBVIOUS
<1>8. PICK size : size = IF offset + 1 <= m THEN m - (offset + 1) + 1 ELSE 0
  OBVIOUS
<1>9. p \in Seq(S) /\ Len(p) = size /\ \A i \in 1 .. m - (offset + 1) + 1 : p[i] = a[offset + 1 + i - 1]
  BY <1>5, <1>7, <1>8, SubSeqProperties
<1>10. q \in Seq(S) /\ Len(q) = size /\ \A i \in 1 .. m - (offset + 1) + 1 : q[i] = b[offset + 1 + i - 1]
  BY <1>6, <1>7, <1>8, SubSeqProperties
<1>11. ASSUME NEW i \in 1 .. size PROVE p[i] = q[i]
  <2>1. i \in 1 .. m - (offset + 1) + 1 /\ offset + 1 + i - 1 \in offset + 1 .. m
    BY <1>8
  <2> QED BY <1>5, <1>9, <1>10, <2>1
<1>12. p = q
  BY <1>9, <1>10, <1>11
<1>13. SliceRange(a, offset, limit) = p /\ SliceRange(b, offset, limit) = q
  BY <1>1, <1>2, <1>3, <1>7 DEF SliceRange
<1> QED BY <1>12, <1>13

LEMMA PageLength ==
  ASSUME NEW a, IsList(a), NEW offset \in Nat, NEW limit \in Nat, Len(a) <= offset + limit
  PROVE  /\ Len(SliceRange(a, offset, limit)) \in Nat
         /\ Len(a) <= offset + Len(SliceRange(a, offset, limit))
<1>1. PICK m \in Nat : m = Len(a) /\ DOMAIN a = 1 .. m
  BY DomainOf
<1>2. LesserOf(offset + limit, m) = m
  BY <1>1 DEF LesserOf
<1>3. PICK S : S = {a[i] : i \in 1 .. m}
  OBVIOUS
<1>4. \A i \in offset + 1 .. m : a[i] \in S
  <2>1. \A i \in offset + 1 .. m : i \in 1 .. m
    OBVIOUS
  <2> QED BY <1>3, <2>1
<1>5. PICK p : p = SubSeq(a, offset + 1, m)
  OBVIOUS
<1>6. p \in Seq(S) /\ Len(p) = IF offset + 1 <= m THEN m - (offset + 1) + 1 ELSE 0
  BY <1>4, <1>5, SubSeqProperties
<1>7. SliceRange(a, offset, limit) = p
  BY <1>1, <1>2, <1>5 DEF SliceRange
<1>8. Len(p) \in Nat /\ m <= offset + Len(p)
  BY <1>6
<1> QED BY <1>1, <1>7, <1>8

\* list has the best m of the documents that have an index and this word.
Covers(list, w, m) ==
  \A p \in DOMAIN Hits(Indexed, w) : p <= m => \E x \in DOMAIN list : list[x] = Hits(Indexed, w)[p]

\* Every segment with an index that has the word is scanned, and then no place outside
\* the table is.
AllScanned(places, w) ==
  \A i \in DOMAIN segments :
    (index[segments[i]].there /\ \E d \in rows[segments[i]] : d.word = w) =>
      (i \in places /\ places \subseteq DOMAIN segments)

LEMMA IndexedIsRanking ==
  ASSUME RowsApart, NEW w
  PROVE  /\ IsRanking(Hits(Indexed, w)) /\ DistinctIds(Hits(Indexed, w))
         /\ \A p \in DOMAIN Hits(Indexed, w) : \E i \in DOMAIN segments :
              /\ index[segments[i]].there
              /\ \E d \in rows[segments[i]] : d.word = w /\ Hits(Indexed, w)[p] = Candidate(d.id, d.score)
<1>1. PICK all : all = Hits(Indexed, w)
  OBVIOUS
<1>2. /\ IsList(all) /\ Within(all, Candidates) /\ DistinctIds(all) /\ Best(all)
      /\ \A p \in DOMAIN all : \E d \in Indexed : d.word = w /\ all[p] = Candidate(d.id, d.score)
  BY <1>1, IndexedApart, HitsAre
<1>3. \A d \in Indexed : \E i \in DOMAIN segments : index[segments[i]].there /\ d \in rows[segments[i]]
  BY DEF Indexed, Listed, ToSet
<1> QED BY <1>1, <1>2, <1>3 DEF IsRanking

AreLists(lists, m) == m \in Nat /\ lists = [j \in 1 .. m |-> lists[j]] /\ \A j \in 1 .. m : IsList(lists[j])

LEMMA JoinedHas ==
  ASSUME NEW lists, NEW m, AreLists(lists, m), NEW j \in 1 .. m, NEW q \in DOMAIN lists[j]
  PROVE  \E x \in DOMAIN Joined(lists) : Joined(lists)[x] = lists[j][q]
<1>1. m \in Nat /\ lists = [i \in 1 .. m |-> lists[i]] /\ \A i \in 1 .. m : IsList(lists[i])
  BY DEF AreLists
<1> QED BY <1>1, JoinedTakes

LEMMA JoinedIsList ==
  ASSUME NEW lists, NEW m, AreLists(lists, m)
  PROVE  IsList(Joined(lists))
<1>1. m \in Nat /\ lists = [i \in 1 .. m |-> lists[i]] /\ \A i \in 1 .. m : IsList(lists[i])
  BY DEF AreLists
<1> QED BY <1>1, JoinedTakes

\* Cutting each segment to its own best k loses none of the best k.
LEMMA ScanCovers ==
  ASSUME RowsApart, IndexesTrue, NEW w, NEW places \in SUBSET Nat, IsFiniteSet(places), AllScanned(places, w),
         NEW active, active = InOrder(places), NEW k \in Nat,
         NEW lists, lists = [j \in DOMAIN active |-> lists[j]], \A j \in DOMAIN active : IsList(lists[j]),
         \A j \in DOMAIN active : active[j] \in DOMAIN segments /\ index[segments[active[j]]].there =>
           lists[j] = Truncate(Hits(rows[segments[active[j]]], w), k)
  PROVE  Covers(Joined(lists), w, k)
<1>1. PICK all : all = Hits(Indexed, w)
  OBVIOUS
<1>2. PICK m : m = Cardinality(places)
  OBVIOUS
<1>3. m \in Nat /\ DOMAIN active = 1 .. m /\ \A x \in places : \E j \in 1 .. m : active[j] = x
  BY <1>2, InOrderLists DEF Lists
<1>4. ASSUME NEW p \in DOMAIN all, p <= k PROVE \E j \in 1 .. m : \E q \in DOMAIN lists[j] : lists[j][q] = all[p]
  <2>1. PICK i \in DOMAIN segments :
          /\ index[segments[i]].there
          /\ \E d \in rows[segments[i]] : d.word = w /\ all[p] = Candidate(d.id, d.score)
    BY <1>1, IndexedIsRanking
  <2>2. PICK n \in Names : n = segments[i]
    BY DEF RowsApart
  <2>3. PICK j \in 1 .. m : active[j] = i
    BY <1>3, <2>1 DEF AllScanned
  <2>4. PICK docs : docs = rows[n]
    OBVIOUS
  <2>5. Apart(docs)
    BY <2>4 DEF RowsApart, Apart
  <2>6. PICK hits : hits = Hits(docs, w)
    OBVIOUS
  <2>7. /\ IsList(hits) /\ Within(hits, Candidates) /\ Best(hits)
        /\ \A x \in DOMAIN hits : \E d \in docs : d.word = w /\ hits[x] = Candidate(d.id, d.score)
        /\ \A d \in docs : d.word = w => \E x \in DOMAIN hits : hits[x] = Candidate(d.id, d.score)
    BY <2>5, <2>6, HitsAre
  <2>8. PICK q \in DOMAIN hits : hits[q] = all[p]
    BY <2>1, <2>2, <2>4, <2>7
  <2>9. docs \subseteq Indexed
    BY <2>1, <2>2, <2>4 DEF Indexed, Listed, ToSet
  <2>10. ToSet(hits) \subseteq ToSet(all)
    <3>1. \A d \in Indexed : d.word = w => \E x \in DOMAIN all : all[x] = Candidate(d.id, d.score)
      BY <1>1, IndexedApart, HitsAre
    <3>2. \A x \in DOMAIN hits : \E y \in DOMAIN all : all[y] = hits[x]
      BY <2>7, <2>9, <3>1
    <3> QED BY <3>2 DEF ToSet
  <2>11. IsRanking(hits) /\ IsRanking(all)
    BY <1>1, <2>7, IndexedIsRanking DEF IsRanking
  <2>12. q <= p
    BY <2>8, <2>10, <2>11, PlaceInPart
  <2>13. PICK l \in Nat : l = Len(hits) /\ DOMAIN hits = 1 .. l
    BY <2>7, DomainOf
  <2>14. q \in 1 .. LesserOf(k, l)
    <3>1. p \in Nat
      BY <2>11 DEF IsRanking, IsList
    <3> QED BY <1>4, <2>12, <2>13, <3>1 DEF LesserOf
  <2>15. lists[j] = Truncate(hits, k)
    BY <1>3, <2>1, <2>2, <2>3, <2>4, <2>6
  <2>16. /\ TakenFrom(lists[j], hits) /\ Len(lists[j]) = LesserOf(k, l)
         /\ \A x \in 1 .. LesserOf(k, l) : lists[j][x] = hits[x]
    <3>1. PICK cut : cut = Truncate(hits, k)
      OBVIOUS
    <3>2. TakenFrom(cut, hits) /\ Len(cut) = LesserOf(k, l) /\ \A x \in 1 .. LesserOf(k, l) : cut[x] = hits[x]
      BY <2>7, <2>13, <3>1, TruncateIsTaken
    <3> QED BY <2>15, <3>1, <3>2
  <2>17. DOMAIN lists[j] = 1 .. LesserOf(k, l)
    <3>1. IsList(lists[j])
      BY <1>3
    <3> QED BY <2>16, <3>1, DomainOf
  <2> QED BY <2>8, <2>14, <2>16, <2>17
<1>5. \A j \in 1 .. m : \A q \in DOMAIN lists[j] : \E x \in DOMAIN Joined(lists) : Joined(lists)[x] = lists[j][q]
  <2>1. AreLists(lists, m)
    BY <1>3 DEF AreLists
  <2> QED BY <2>1, JoinedHas
<1>6. \A p \in DOMAIN all : p <= k => \E x \in DOMAIN Joined(lists) : Joined(lists)[x] = all[p]
  <2> SUFFICES ASSUME NEW p \in DOMAIN all, p <= k PROVE \E x \in DOMAIN Joined(lists) : Joined(lists)[x] = all[p]
    OBVIOUS
  <2>1. PICK j \in 1 .. m : \E q \in DOMAIN lists[j] : lists[j][q] = all[p]
    BY <1>4
  <2> QED BY <1>5, <2>1
<1> QED BY <1>1, <1>6 DEF Covers

\* The lists together are no longer than as many lists of k.
LEMMA JoinedLength ==
  ASSUME NEW lists, NEW m \in Nat, NEW k \in Nat, lists = [j \in 1 .. m |-> lists[j]],
         \A j \in 1 .. m : IsList(lists[j]) /\ Len(lists[j]) <= k
  PROVE  Len(Joined(lists)) \in Nat /\ Len(Joined(lists)) <= m * k
<1>1. PICK new : new = Joined(lists)
  OBVIOUS
<1>2. IsList(new)
  BY <1>1, JoinedTakes
<1>3. Len(new) \in Nat /\ DOMAIN new = 1 .. Len(new)
  BY <1>2, DomainOf
<1>4. PICK places, order : /\ places = UNION {{j} \X DOMAIN lists[j] : j \in DOMAIN lists}
                           /\ order = Arranged(places, {e \in places \X places :
                                        e[1][1] < e[2][1] \/ (e[1][1] = e[2][1] /\ e[1][2] < e[2][2])})
  OBVIOUS
<1>5. DOMAIN new = 1 .. Cardinality(places)
  <2>1. DOMAIN new = DOMAIN order
    BY <1>1, <1>4 DEF Joined
  <2>2. DOMAIN order = 1 .. Cardinality(places)
    BY <1>4 DEF Arranged
  <2> QED BY <2>1, <2>2
<1>6. PICK all : all = (1 .. m) \X (1 .. k)
  OBVIOUS
<1>7. places \in SUBSET all
  <2>1. \A j \in 1 .. m : DOMAIN lists[j] \subseteq 1 .. k
    <3> SUFFICES ASSUME NEW j \in 1 .. m PROVE DOMAIN lists[j] \subseteq 1 .. k
      OBVIOUS
    <3>1. Len(lists[j]) \in Nat /\ DOMAIN lists[j] = 1 .. Len(lists[j]) /\ Len(lists[j]) <= k
      BY DomainOf
    <3> QED BY <3>1
  <2> QED BY <1>4, <1>6, <2>1
<1>8. IsFiniteSet(1 .. m) /\ Cardinality(1 .. m) = m
  BY FS_Interval
<1>9. IsFiniteSet(1 .. k) /\ Cardinality(1 .. k) = k
  BY FS_Interval
<1>10. IsFiniteSet(all) /\ Cardinality(all) = m * k
  BY <1>6, <1>8, <1>9, FS_Product
<1>11. IsFiniteSet(places) /\ Cardinality(places) <= m * k
  BY <1>7, <1>10, FS_Subset
<1>12. Cardinality(places) \in Nat
  BY <1>11, FS_CardinalityType
<1>13. Len(new) = Cardinality(places)
  BY <1>2, <1>5, <1>12, ListsOf
<1> QED BY <1>1, <1>3, <1>11, <1>13

\* The route of the handle, or of the table, is of the segments there are.
RouteTrueFor(h, w) == routed /\ route.there => RouteFor(h).of[w] = RouteOver(segments, index).of[w]

LEMMA ActiveAreAll ==
  ASSUME RowsApart, IndexesTrue, NEW h, NEW w \in Words, RouteTrueFor(h, w)
  PROVE  AllScanned(ActiveSegments(h, w), w)
<1>1. PICK n : n = Len(segments)
  OBVIOUS
<1>2. n \in Nat /\ DOMAIN segments = 1 .. n
  BY <1>1 DEF RowsApart
<1>3. PICK all : all = {i \in DOMAIN segments : w \in WordsOf(index[segments[i]])}
  OBVIOUS
<1>4. PICK active : active = ActiveSegments(h, w)
  OBVIOUS
<1>5. SUFFICES ASSUME NEW i \in DOMAIN segments, index[segments[i]].there, \E d \in rows[segments[i]] : d.word = w
               PROVE  i \in active /\ active \subseteq DOMAIN segments
  BY <1>4 DEF AllScanned
<1>6. w \in WordsOf(index[segments[i]])
  <2>1. PICK m \in Names : m = segments[i]
    BY DEF RowsApart
  <2>2. index[m].docs = rows[m]
    BY <1>5, <2>1 DEF IndexesTrue
  <2> QED BY <1>5, <2>1, <2>2 DEF WordsOf
<1>7. PICK routes : routes = IF routed /\ route.there THEN RouteFor(h).of[w] ELSE {}
  OBVIOUS
<1>8. PICK lexicons : lexicons = {l \in DOMAIN segments : /\ index[segments[l]].there
                                                         /\ w \in WordsOf(index[segments[l]])}
  OBVIOUS
<1>9. active = IF n <= 1 THEN {1} ELSE IF routes # {} THEN routes ELSE IF lexicons # {} THEN lexicons ELSE AllSegments
  BY <1>1, <1>4, <1>7, <1>8 DEF ActiveSegments
<1>10. routes # {} => routes = all
  <2>1. RouteOver(segments, index).of[w] = all
    BY <1>3 DEF RouteOver
  <2> QED BY <1>7, <2>1 DEF RouteTrueFor
<1>11. i \in all /\ all \subseteq DOMAIN segments
  BY <1>3, <1>6
<1>12. i \in lexicons /\ lexicons \subseteq DOMAIN segments
  BY <1>5, <1>6, <1>8
<1>13. CASE n <= 1
  <2>1. i = 1
    BY <1>2, <1>13
  <2> QED BY <1>9, <1>13, <2>1
<1>14. CASE ~(n <= 1) /\ routes # {}
  BY <1>9, <1>10, <1>11, <1>14
<1>15. CASE ~(n <= 1) /\ routes = {}
  BY <1>9, <1>12, <1>15
<1> QED BY <1>13, <1>14, <1>15

\* What one segment is searched with, if it is its own.
LEMMA SegmentIsRows ==
  ASSUME RowsApart, IndexesTrue, NEW cache, NEW i \in DOMAIN segments, index[segments[i]].there,
         Kept(cache, segments[i]) = index[segments[i]], NEW w, NEW k
  PROVE  SegmentHits(cache, i, w, k) = Truncate(Hits(rows[segments[i]], w), k)
<1>1. PICK n \in Names : n = segments[i]
  BY DEF RowsApart
<1>2. Kept(cache, n).docs = rows[n]
  BY <1>1 DEF IndexesTrue
<1> QED BY <1>1, <1>2 DEF SegmentHits

---------------------------------------------------------------------------
(* The best of what was scanned *)

\* The best m of the documents that have an index and this word, in their order.
BestOf(list, w, m) ==
  /\ IsList(list) /\ Len(list) = LesserOf(m, Len(Hits(Indexed, w)))
  /\ \A i \in DOMAIN list : list[i] = Hits(Indexed, w)[i]

LEMMA EqualLists ==
  ASSUME NEW a, IsList(a), NEW b, IsList(b), Len(a) = Len(b), \A i \in DOMAIN a : a[i] = b[i]
  PROVE  a = b
<1>1. PICK m \in Nat : m = Len(a) /\ DOMAIN a = 1 .. m
  BY DomainOf
<1>2. DOMAIN b = 1 .. m
  BY <1>1, DomainOf
<1>3. a = [i \in 1 .. m |-> a[i]] /\ b = [i \in 1 .. m |-> b[i]]
  BY <1>1, <1>2, ListsOf
<1> QED BY <1>1, <1>3

LEMMA TruncateOnce ==
  ASSUME NEW list, IsList(list), NEW cap \in Nat, NEW f \in Nat, f <= cap
  PROVE  Truncate(Truncate(list, cap), f) = Truncate(list, f)
<1>1. PICK n \in Nat : n = Len(list) /\ DOMAIN list = 1 .. n
  BY DomainOf
<1>2. PICK a, b : a = Truncate(Truncate(list, cap), f) /\ b = Truncate(list, f)
  OBVIOUS
<1>3. IsList(a) /\ Len(a) = LesserOf(f, n) /\ \A i \in DOMAIN a : a[i] = list[i]
  BY <1>1, <1>2, CutTwice
<1>4. TakenFrom(b, list) /\ Len(b) = LesserOf(f, n) /\ \A i \in 1 .. LesserOf(f, n) : b[i] = list[i]
  BY <1>1, <1>2, TruncateIsTaken
<1>5. IsList(b)
  BY <1>4, TakenKeeps
<1>6. DOMAIN a = 1 .. LesserOf(f, n)
  BY <1>3, DomainOf
<1>7. a = b
  BY <1>3, <1>4, <1>5, <1>6, EqualLists
<1> QED BY <1>2, <1>7

LEMMA BestCovers ==
  ASSUME RowsApart, NEW list, NEW w, NEW m \in Nat, BestOf(list, w, m)
  PROVE  Covers(list, w, m)
<1>1. PICK all : all = Hits(Indexed, w)
  OBVIOUS
<1>2. PICK n \in Nat : n = Len(all) /\ DOMAIN all = 1 .. n
  BY <1>1, IndexedIsRanking, DomainOf DEF IsRanking
<1>3. IsList(list) /\ Len(list) = LesserOf(m, n) /\ \A i \in DOMAIN list : list[i] = all[i]
  BY <1>1, <1>2 DEF BestOf
<1>4. DOMAIN list = 1 .. LesserOf(m, n)
  BY <1>3, DomainOf
<1>5. ASSUME NEW p \in DOMAIN all, p <= m PROVE \E x \in DOMAIN list : list[x] = all[p]
  <2>1. p \in 1 .. LesserOf(m, n)
    BY <1>2, <1>5 DEF LesserOf
  <2> QED BY <1>3, <1>4, <2>1
<1> QED BY <1>1, <1>5 DEF Covers

LEMMA BestCut ==
  ASSUME RowsApart, NEW list, NEW w, NEW m \in Nat, BestOf(list, w, m), NEW c \in Nat, c <= m
  PROVE  BestOf(Truncate(list, c), w, c)
<1>1. PICK all : all = Hits(Indexed, w)
  OBVIOUS
<1>2. PICK n \in Nat : n = Len(all) /\ DOMAIN all = 1 .. n
  BY <1>1, IndexedIsRanking, DomainOf DEF IsRanking
<1>3. IsList(list) /\ Len(list) = LesserOf(m, n) /\ \A i \in DOMAIN list : list[i] = all[i]
  BY <1>1, <1>2 DEF BestOf
<1>4. DOMAIN list = 1 .. LesserOf(m, n)
  BY <1>3, DomainOf
<1>5. PICK b : b = Truncate(list, c)
  OBVIOUS
<1>6. LesserOf(c, LesserOf(m, n)) = LesserOf(c, n) /\ LesserOf(c, n) <= LesserOf(m, n)
  BY DEF LesserOf
<1>7. TakenFrom(b, list) /\ Len(b) = LesserOf(c, n) /\ \A i \in 1 .. LesserOf(c, n) : b[i] = list[i]
  <2>1. /\ TakenFrom(Truncate(list, c), list) /\ Len(Truncate(list, c)) = LesserOf(c, Len(list))
        /\ \A i \in 1 .. LesserOf(c, Len(list)) : Truncate(list, c)[i] = list[i]
    BY <1>3, TruncateIsTaken
  <2> QED BY <1>3, <1>5, <1>6, <2>1
<1>8. IsList(b)
  BY <1>7, TakenKeeps
<1>9. DOMAIN b = 1 .. LesserOf(c, n)
  BY <1>7, <1>8, DomainOf
<1>10. \A i \in 1 .. LesserOf(c, n) : i \in DOMAIN list
  BY <1>4, <1>6 DEF LesserOf
<1>11. \A i \in DOMAIN b : b[i] = all[i]
  BY <1>3, <1>7, <1>9, <1>10
<1> QED BY <1>1, <1>2, <1>5, <1>7, <1>8, <1>11 DEF BestOf

\* A list with the best m is no shorter than that.
LEMMA CoversLength ==
  ASSUME RowsApart, NEW list, NEW w, IsList(list), NEW m \in Nat, Covers(list, w, m)
  PROVE  LesserOf(m, Len(Hits(Indexed, w))) <= Len(list)
<1>1. PICK all : all = Hits(Indexed, w)
  OBVIOUS
<1>2. IsRanking(all)
  BY <1>1, IndexedIsRanking
<1>3. PICK n \in Nat : n = Len(all) /\ DOMAIN all = 1 .. n
  BY <1>2, DomainOf DEF IsRanking
<1>4. PICK l \in Nat : l = Len(list) /\ DOMAIN list = 1 .. l
  BY DomainOf
<1>5. PICK c \in Nat : c = LesserOf(m, n)
  BY DEF LesserOf
<1>6. \A p \in 1 .. c : p \in DOMAIN all /\ p <= m
  BY <1>3, <1>5 DEF LesserOf
<1>7. \A p \in 1 .. c : \E x \in 1 .. l : list[x] = all[p]
  BY <1>1, <1>4, <1>6 DEF Covers
<1>8. PICK g : g = [p \in 1 .. c |-> CHOOSE x \in 1 .. l : list[x] = all[p]]
  OBVIOUS
<1>9. \A p \in 1 .. c : g[p] \in 1 .. l /\ list[g[p]] = all[p]
  BY <1>7, <1>8
<1>10. \A p, q \in 1 .. c : all[p] = all[q] => p = q
  BY <1>2, <1>6, RankingIsOrdered
<1>11. g \in Injection(1 .. c, 1 .. l)
  <2>1. \A p, q \in 1 .. c : g[p] = g[q] => p = q
    BY <1>9, <1>10
  <2>2. g \in [1 .. c -> 1 .. l]
    BY <1>8, <1>9
  <2> HIDE <1>8, <1>9, <1>10
  <2> QED BY <2>1, <2>2 DEF Injection, IsInjective
<1>12. IsFiniteSet(1 .. l) /\ Cardinality(1 .. l) = l /\ Cardinality(1 .. c) = c
  <2>1. Cardinality(1 .. c) = c
    BY FS_Interval
  <2> QED BY <2>1, FS_Interval
<1>13. c <= l
  BY <1>11, <1>12, FS_Injection
<1> QED BY <1>1, <1>3, <1>4, <1>5, <1>13

\* A list of rows that has the best m begins with them once it is sorted.
LEMMA SortedIsBest ==
  ASSUME RowsApart, NEW list, NEW w, FromRows(list, w), NEW m \in Nat, Covers(list, w, m)
  PROVE  /\ IsList(SortByScore(list)) /\ FromRows(SortByScore(list), w)
         /\ \A c \in Nat : c <= m => BestOf(Truncate(SortByScore(list), c), w, c)
<1>1. PICK all, sorted : all = Hits(Indexed, w) /\ sorted = SortByScore(list)
  OBVIOUS
<1>2. IsRanking(all)
  BY <1>1, IndexedIsRanking
<1>3. IsList(list) /\ DistinctIds(list)
  BY DEF FromRows
<1>4. Within(list, Candidates)
  BY FromRowsAreCandidates
<1>5. /\ TakenFrom(sorted, list) /\ Best(sorted)
      /\ \A i \in DOMAIN list : \E j \in DOMAIN sorted : sorted[j] = list[i]
  BY <1>1, <1>3, <1>4, SortIsTaken
<1>6. FromRows(sorted, w)
  BY <1>5, FromRowsTaken
<1>7. IsList(sorted)
  BY <1>6 DEF FromRows
<1>8. Within(sorted, Candidates)
  BY <1>6, FromRowsAreCandidates
<1>9. IsRanking(sorted)
  BY <1>5, <1>7, <1>8 DEF IsRanking
<1>10. ToSet(sorted) \subseteq ToSet(all)
  BY <1>1, <1>6, FromRowsAreRanked
<1>11. \A p \in DOMAIN all : p <= m => all[p] \in ToSet(sorted)
  <2> SUFFICES ASSUME NEW p \in DOMAIN all, p <= m PROVE all[p] \in ToSet(sorted)
    OBVIOUS
  <2>1. PICK x \in DOMAIN list : list[x] = all[p]
    BY <1>1 DEF Covers
  <2>2. PICK j \in DOMAIN sorted : sorted[j] = list[x]
    BY <1>5
  <2> QED BY <2>1, <2>2 DEF ToSet
<1>12. \A p \in DOMAIN all : p <= m => p \in DOMAIN sorted /\ sorted[p] = all[p]
  BY <1>2, <1>9, <1>10, <1>11, SameStart
<1>13. PICK n \in Nat : n = Len(all) /\ DOMAIN all = 1 .. n
  BY <1>2, DomainOf DEF IsRanking
<1>14. PICK l \in Nat : l = Len(sorted) /\ DOMAIN sorted = 1 .. l
  BY <1>7, DomainOf
<1>15. LesserOf(m, n) <= l
  <2>1. CASE LesserOf(m, n) = 0
    BY <2>1
  <2>2. CASE LesserOf(m, n) # 0
    <3>1. PICK c \in Nat : c = LesserOf(m, n)
      BY DEF LesserOf
    <3>2. c \in 1 .. n /\ c <= m
      BY <2>2, <3>1 DEF LesserOf
    <3>3. c \in 1 .. l
      BY <1>12, <1>13, <1>14, <3>2
    <3> QED BY <3>1, <3>3
  <2> QED BY <2>1, <2>2
<1>16. l <= n
  <2>1. CASE l = 0
    BY <2>1
  <2>2. CASE l # 0
    <3>1. l \in DOMAIN sorted
      BY <1>14, <2>2
    <3>2. PICK p \in DOMAIN all : sorted[l] = all[p]
      BY <1>10, <3>1 DEF ToSet
    <3>3. l <= p
      BY <1>2, <1>9, <1>10, <3>1, <3>2, PlaceInPart
    <3> QED BY <1>13, <3>2, <3>3
  <2> QED BY <2>1, <2>2
<1>17. ASSUME NEW c \in Nat, c <= m PROVE BestOf(Truncate(sorted, c), w, c)
  <2>1. PICK b : b = Truncate(sorted, c)
    OBVIOUS
  <2>2. LesserOf(c, l) = LesserOf(c, n)
    BY <1>15, <1>16, <1>17 DEF LesserOf
  <2>3. TakenFrom(b, sorted) /\ Len(b) = LesserOf(c, n) /\ \A i \in 1 .. LesserOf(c, n) : b[i] = sorted[i]
    <3>1. /\ TakenFrom(Truncate(sorted, c), sorted) /\ Len(Truncate(sorted, c)) = LesserOf(c, Len(sorted))
          /\ \A i \in 1 .. LesserOf(c, Len(sorted)) : Truncate(sorted, c)[i] = sorted[i]
      BY <1>7, TruncateIsTaken
    <3> QED BY <1>14, <2>1, <2>2, <3>1
  <2>4. IsList(b)
    BY <2>3, TakenKeeps
  <2>5. DOMAIN b = 1 .. LesserOf(c, n)
    BY <2>3, <2>4, DomainOf
  <2>6. \A i \in 1 .. LesserOf(c, n) : i \in DOMAIN all /\ i <= m
    BY <1>13, <1>17 DEF LesserOf
  <2>7. \A i \in DOMAIN b : b[i] = all[i]
    BY <1>12, <2>3, <2>5, <2>6
  <2> QED BY <1>1, <1>13, <2>1, <2>3, <2>4, <2>7 DEF BestOf
<1> QED BY <1>1, <1>6, <1>7, <1>17

\* Sorting keeps the length.
LEMMA SortedLength ==
  ASSUME RowsApart, NEW w, NEW list, FromRows(list, w)
  PROVE  IsList(SortByScore(list)) /\ Len(SortByScore(list)) = Len(list)
<1>1. PICK sorted : sorted = SortByScore(list)
  OBVIOUS
<1>2. IsList(list)
  BY DEF FromRows
<1>3. Within(list, Candidates)
  BY FromRowsAreCandidates
<1>4. TakenFrom(sorted, list)
  BY <1>1, <1>2, <1>3, SortIsTaken
<1>5. IsList(sorted)
  BY <1>4, TakenKeeps
<1>6. PICK l \in Nat : l = Len(list) /\ DOMAIN list = 1 .. l
  BY <1>2, DomainOf
<1>7. DOMAIN sorted = 1 .. l
  BY <1>1, <1>6 DEF SortByScore
<1>8. Len(sorted) = l
  BY <1>5, <1>7, ListsOf
<1> QED BY <1>1, <1>5, <1>6, <1>8

\* The lists of the workers, merged.
LEMMA MergeIsBest ==
  ASSUME RowsApart, NEW lists, NEW w, FromRows(Joined(lists), w), NEW k \in Nat, Covers(Joined(lists), w, k),
         Len(Joined(lists)) <= 4 * k
  PROVE  BestOf(CoordinatorMerge(lists, k), w, k)
<1>1. PICK a : a = Joined(lists)
  OBVIOUS
<1>2. IsList(a) /\ 4 * k \in Nat
  BY <1>1 DEF FromRows
<1>3. Truncate(a, 4 * k) = a
  BY <1>1, <1>2, TruncateWhole
<1>4. CoordinatorMerge(lists, k) = Truncate(SortByScore(a), k)
  BY <1>1, <1>3 DEF CoordinatorMerge
<1>5. BestOf(Truncate(SortByScore(a), k), w, k)
  <2>1. FromRows(a, w) /\ Covers(a, w, k) /\ k <= k
    BY <1>1
  <2> QED BY <2>1, SortedIsBest
<1> QED BY <1>4, <1>5

LEMMA MergeFills ==
  ASSUME RowsApart, NEW lists, NEW w, FromRows(Joined(lists), w), NEW k \in Nat, Covers(Joined(lists), w, k)
  PROVE  LesserOf(k, Len(Hits(Indexed, w))) <= Len(CoordinatorMerge(lists, k))
<1>1. PICK a, b : a = Joined(lists) /\ b = Truncate(a, 4 * k)
  OBVIOUS
<1>2. IsList(a) /\ 4 * k \in Nat /\ FromRows(a, w) /\ Covers(a, w, k)
  BY <1>1 DEF FromRows
<1>3. PICK n \in Nat : n = Len(Hits(Indexed, w))
  BY IndexedIsRanking, DomainOf DEF IsRanking
<1>4. PICK l \in Nat : l = Len(a)
  BY <1>2, DomainOf
<1>5. LesserOf(k, n) <= l
  BY <1>2, <1>3, <1>4, CoversLength
<1>6. TakenFrom(b, a) /\ Len(b) = LesserOf(4 * k, l)
  BY <1>1, <1>2, <1>4, TruncateIsTaken
<1>7. FromRows(b, w)
  BY <1>2, <1>6, FromRowsTaken
<1>8. IsList(SortByScore(b)) /\ Len(SortByScore(b)) = LesserOf(4 * k, l)
  BY <1>6, <1>7, SortedLength
<1>9. Len(Truncate(SortByScore(b), k)) = LesserOf(k, LesserOf(4 * k, l))
  <2>1. Len(Truncate(SortByScore(b), k)) = LesserOf(k, Len(SortByScore(b)))
    BY <1>8, TruncateIsTaken
  <2> QED BY <1>8, <2>1
<1>10. CoordinatorMerge(lists, k) = Truncate(SortByScore(b), k)
  BY <1>1 DEF CoordinatorMerge
<1>11. LesserOf(k, n) <= LesserOf(k, LesserOf(4 * k, l))
  BY <1>5 DEF LesserOf
<1> QED BY <1>3, <1>9, <1>10, <1>11

LEMMA SegmentIsCut ==
  ASSUME RowsApart, IndexesTrue, NEW cache, NEW i, NEW w, NEW k \in Nat,
         i \in DOMAIN segments /\ index[segments[i]].there =>
           Kept(cache, segments[i]) = index[segments[i]]
  PROVE  Len(SegmentHits(cache, i, w, k)) \in Nat /\ Len(SegmentHits(cache, i, w, k)) <= k
<1>1. CASE i \in DOMAIN segments /\ index[segments[i]].there
  <2>1. PICK n \in Names : n = segments[i]
    BY <1>1 DEF RowsApart
  <2>2. PICK docs : docs = rows[n]
    OBVIOUS
  <2>3. Apart(docs)
    BY <2>1, <2>2 DEF RowsApart, Apart
  <2>4. PICK all : all = Hits(docs, w)
    OBVIOUS
  <2>5. IsList(all)
    BY <2>3, <2>4, HitsAre
  <2>6. SegmentHits(cache, i, w, k) = Truncate(all, k)
    BY <1>1, <2>1, <2>2, <2>4, SegmentIsRows
  <2>7. Len(all) \in Nat /\ Len(Truncate(all, k)) = LesserOf(k, Len(all))
    BY <2>5, TruncateIsTaken
  <2> QED BY <2>6, <2>7 DEF LesserOf
<1>2. CASE ~(i \in DOMAIN segments /\ index[segments[i]].there)
  <2>1. SegmentHits(cache, i, w, k) = <<>>
    BY <1>2 DEF SegmentHits
  <2> QED BY <2>1, NoneIsList
<1> QED BY <1>1, <1>2

\* A handle's own scan has the best k.
LEMMA LocalCovers ==
  ASSUME RowsApart, IndexesTrue, CachesKept, NEW h \in Handles, NEW w \in Words, NEW k \in Nat,
         NEW kept, kept = Remember(indexCache[h], ActiveSegments(h, w)),
         \A n \in Listed : kept[n].there => kept[n] = index[n], RouteTrueFor(h, w)
  PROVE  Covers(LocalScan(h, w, k), w, k)
<1>1. PICK places, active, cache :
        places = ActiveSegments(h, w) /\ active = InOrder(places) /\ cache = indexCache[h]
  OBVIOUS
<1>2. places \in SUBSET Nat /\ IsFiniteSet(places)
  BY <1>1, PlacesAre
<1>3. \A j \in DOMAIN active : active[j] \in places
  BY <1>1, <1>2, InOrderLists DEF Lists
<1>4. PICK lists : lists = [j \in DOMAIN active |-> SegmentHits(cache, active[j], w, k)]
  OBVIOUS
<1>5. ASSUME NEW j \in DOMAIN active, active[j] \in DOMAIN segments, index[segments[active[j]]].there
      PROVE  Kept(cache, segments[active[j]]) = index[segments[active[j]]]
  <2>1. PICK i, n : i = active[j] /\ n = segments[i]
    OBVIOUS
  <2>2. n \in Listed
    BY <1>5, <2>1 DEF Listed, ToSet
  <2>3. kept = Remember(cache, places) /\ i \in places /\ (kept[n].there => kept[n] = index[n])
    BY <1>1, <1>3, <2>1, <2>2
  <2> QED BY <1>5, <2>1, <2>3, RememberedIsKept
<1>6. ASSUME NEW j \in DOMAIN active
      PROVE  /\ IsList(lists[j])
             /\ active[j] \in DOMAIN segments /\ index[segments[active[j]]].there =>
                  lists[j] = Truncate(Hits(rows[segments[active[j]]], w), k)
  <2>1. lists[j] = SegmentHits(cache, active[j], w, k)
    BY <1>4
  <2>2. IsList(lists[j])
    BY <1>5, <2>1, SegmentFound
  <2>3. active[j] \in DOMAIN segments /\ index[segments[active[j]]].there =>
          lists[j] = Truncate(Hits(rows[segments[active[j]]], w), k)
    BY <1>5, <2>1, SegmentIsRows
  <2> QED BY <2>2, <2>3
<1>7. AllScanned(places, w)
  BY <1>1, ActiveAreAll
<1>8. Covers(Joined(lists), w, k)
  <2>1. lists = [j \in DOMAIN active |-> lists[j]]
    BY <1>4
  <2> HIDE <1>4
  <2> QED BY <1>1, <1>2, <1>6, <1>7, <2>1, ScanCovers
<1> QED BY <1>1, <1>4, <1>8 DEF LocalScan

LEMMA SizeUpTo ==
  ASSUME NEW n \in Nat
  PROVE  IsFiniteSet(1 .. n) /\ Cardinality(1 .. n) = n
BY FS_Interval

LEMMA FewPlaces ==
  ASSUME RowsApart, Len(segments) <= 4, NEW places \in SUBSET DOMAIN segments
  PROVE  IsFiniteSet(places) /\ Cardinality(places) \in Nat /\ Cardinality(places) <= 4
<1>1. PICK n \in Nat : n = Len(segments) /\ DOMAIN segments = 1 .. n
  BY DEF RowsApart
<1>2. IsFiniteSet(1 .. n) /\ Cardinality(1 .. n) = n
  BY SizeUpTo
<1>3. IsFiniteSet(places) /\ Cardinality(places) <= n
  BY <1>1, <1>2, FS_Subset
<1>4. Cardinality(places) \in Nat
  BY <1>3, FS_CardinalityType
<1> QED BY <1>1, <1>3, <1>4

\* No document has the word when a place outside the table is to be scanned.
LEMMA NoneToFind ==
  ASSUME RowsApart, NEW places, NEW w, AllScanned(places, w), ~(places \subseteq DOMAIN segments), NEW k \in Nat
  PROVE  BestOf(<<>>, w, k)
<1>1. PICK all : all = Hits(Indexed, w)
  OBVIOUS
<1>2. \A i \in DOMAIN segments : ~(index[segments[i]].there /\ \E d \in rows[segments[i]] : d.word = w)
  BY DEF AllScanned
<1>3. \A p \in DOMAIN all : \E i \in DOMAIN segments :
        index[segments[i]].there /\ \E d \in rows[segments[i]] : d.word = w
  BY <1>1, IndexedIsRanking
<1>4. DOMAIN all = {}
  BY <1>2, <1>3
<1>5. IsList(all)
  BY <1>1, IndexedIsRanking DEF IsRanking
<1>6. Len(all) \in Nat /\ DOMAIN all = 1 .. Len(all)
  BY <1>5, DomainOf
<1>7. Len(all) = 0
  BY <1>4, <1>6
<1>8. LesserOf(k, Len(all)) = 0
  BY <1>7 DEF LesserOf
<1> QED BY <1>1, <1>8, NoneIsList DEF BestOf

\* The cluster answers k as long as there are as many, if no call is lost; the best k of
\* at most four segments.
LEMMA ClusterIsBest ==
  ASSUME RowsApart, IndexesTrue, CachesKept, NEW h \in Handles, NEW w \in Words, NEW k \in Nat,
         NEW served, served >= Len(InOrder(ActiveSegments(h, w))),
         NEW kept, WorkersTrue(kept, h, w), RouteTrueFor(h, w)
  PROVE  /\ LesserOf(k, Len(Hits(Indexed, w))) <= Len(ClusterScan(h, w, k, served))
         /\ Len(segments) <= 4 => BestOf(ClusterScan(h, w, k, served), w, k)
<1>1. PICK places, active : places = ActiveSegments(h, w) /\ active = InOrder(places)
  OBVIOUS
<1>2. places \in SUBSET Nat /\ IsFiniteSet(places)
  BY <1>1, PlacesAre
<1>3. PICK m : m = Cardinality(places)
  OBVIOUS
<1>4. m \in Nat /\ active \in [1 .. m -> places] /\ \A x \in places : \E j \in 1 .. m : active[j] = x
  BY <1>1, <1>2, <1>3, InOrderLists DEF Lists
<1>5. DOMAIN active = 1 .. m /\ (\A j \in DOMAIN active : active[j] \in places) /\ ToSet(active) = places
  BY <1>4 DEF ToSet
<1>6. AllScanned(places, w)
  BY <1>1, ActiveAreAll
<1>7. PICK lists : lists = [j \in DOMAIN active |->
                              SegmentHits(nodeCache[NodeOf(active[j])], active[j], w, k)]
  OBVIOUS
<1>8. CASE ~(places \subseteq DOMAIN segments)
  <2>1. ClusterScan(h, w, k, served) = <<>>
    BY <1>1, <1>5, <1>8 DEF ClusterScan
  <2>2. BestOf(ClusterScan(h, w, k, served), w, k)
    BY <1>6, <1>8, <2>1, NoneToFind
  <2>3. LesserOf(k, Len(Hits(Indexed, w))) <= Len(ClusterScan(h, w, k, served))
    <3>1. PICK n \in Nat : n = LesserOf(k, Len(Hits(Indexed, w)))
      <4>1. Len(Hits(Indexed, w)) \in Nat
        BY IndexedIsRanking, DomainOf DEF IsRanking
      <4> QED BY <4>1 DEF LesserOf
    <3> QED BY <2>2, <3>1 DEF BestOf
  <2> QED BY <2>2, <2>3
<1>9. CASE places \subseteq DOMAIN segments
  <2>1. ClusterScan(h, w, k, served) = CoordinatorMerge(lists, k)
    BY <1>1, <1>5, <1>7, <1>9 DEF ClusterScan
  <2>2. ASSUME NEW j \in DOMAIN active, active[j] \in DOMAIN segments, index[segments[active[j]]].there
        PROVE  Kept(nodeCache[NodeOf(active[j])], segments[active[j]]) = index[segments[active[j]]]
    <3>1. PICK i : i = active[j]
      OBVIOUS
    <3>2. i \in ActiveSegments(h, w) /\ i \in Nat /\ i \in DOMAIN segments /\ index[segments[i]].there
      BY <1>1, <1>2, <1>5, <2>2, <3>1
    <3>3. Kept(nodeCache[NodeOf(i)], segments[i]) = index[segments[i]]
      BY <3>2, WorkerIsTrue
    <3> QED BY <3>1, <3>3
  <2>3. ASSUME NEW j \in DOMAIN active
        PROVE  /\ IsList(lists[j]) /\ DistinctIds(lists[j])
               /\ \A x \in DOMAIN lists[j] :
                    /\ active[j] \in DOMAIN segments /\ index[segments[active[j]]].there
                    /\ \E d \in rows[segments[active[j]]] : d.word = w /\ lists[j][x] = Candidate(d.id, d.score)
               /\ active[j] \in DOMAIN segments /\ index[segments[active[j]]].there =>
                    lists[j] = Truncate(Hits(rows[segments[active[j]]], w), k)
               /\ Len(lists[j]) \in Nat /\ Len(lists[j]) <= k
    <3>1. PICK cache : cache = nodeCache[NodeOf(active[j])]
      OBVIOUS
    <3>2. lists[j] = SegmentHits(cache, active[j], w, k)
      BY <1>7, <3>1
    <3>3. active[j] \in DOMAIN segments /\ index[segments[active[j]]].there =>
            Kept(cache, segments[active[j]]) = index[segments[active[j]]]
      BY <2>2, <3>1
    <3>4. IsList(lists[j]) /\ DistinctIds(lists[j])
          /\ \A x \in DOMAIN lists[j] :
               /\ active[j] \in DOMAIN segments /\ index[segments[active[j]]].there
               /\ \E d \in rows[segments[active[j]]] : d.word = w /\ lists[j][x] = Candidate(d.id, d.score)
      BY <3>2, <3>3, SegmentFound
    <3>5. active[j] \in DOMAIN segments /\ index[segments[active[j]]].there =>
            lists[j] = Truncate(Hits(rows[segments[active[j]]], w), k)
      BY <3>2, <3>3, SegmentIsRows
    <3>6. Len(lists[j]) \in Nat /\ Len(lists[j]) <= k
      BY <3>2, <3>3, SegmentIsCut
    <3> QED BY <3>4, <3>5, <3>6
  <2>4. lists = [j \in DOMAIN active |-> lists[j]]
    BY <1>7
  <2>5. FromRows(Joined(lists), w)
    <3> HIDE <1>7
    <3> QED BY <1>1, <1>2, <2>3, <2>4, ScanFound
  <2>6. Covers(Joined(lists), w, k)
    <3> HIDE <1>7
    <3> QED BY <1>1, <1>2, <1>6, <2>3, <2>4, ScanCovers
  <2>7. ASSUME Len(segments) <= 4 PROVE Len(Joined(lists)) <= 4 * k
    <3>1. m <= 4
      BY <1>3, <1>9, <2>7, FewPlaces
    <3>2. lists = [j \in 1 .. m |-> lists[j]] /\ \A j \in 1 .. m : IsList(lists[j]) /\ Len(lists[j]) <= k
      BY <1>5, <2>3, <2>4
    <3>3. Len(Joined(lists)) \in Nat /\ Len(Joined(lists)) <= m * k
      BY <1>4, <3>2, JoinedLength
    <3>4. m * k <= 4 * k
      BY <1>4, <3>1
    <3>5. m * k \in Nat
      BY <1>4
    <3> QED BY <3>3, <3>4, <3>5
  <2>8. LesserOf(k, Len(Hits(Indexed, w))) <= Len(CoordinatorMerge(lists, k))
    BY <2>5, <2>6, MergeFills
  <2>9. Len(segments) <= 4 => BestOf(CoordinatorMerge(lists, k), w, k)
    BY <2>5, <2>6, <2>7, MergeIsBest
  <2> QED BY <2>1, <2>8, <2>9
<1> QED BY <1>8, <1>9

---------------------------------------------------------------------------
(* The page of the segments *)

LEMMA BestPage ==
  ASSUME RowsApart, NEW w, NEW offset \in Nat, NEW limit \in Nat, NEW shown, BestOf(shown, w, offset + limit)
  PROVE  SliceRange(shown, offset, limit) = SliceRange(Hits(Indexed, w), offset, limit)
<1>1. PICK all : all = Hits(Indexed, w)
  OBVIOUS
<1>2. IsList(all)
  BY <1>1, IndexedIsRanking DEF IsRanking
<1>3. IsList(shown) /\ Len(shown) = LesserOf(offset + limit, Len(all)) /\ \A i \in DOMAIN shown : shown[i] = all[i]
  BY <1>1 DEF BestOf
<1>4. SliceRange(shown, offset, limit) = SliceRange(all, offset, limit)
  BY <1>2, <1>3, PagesEqual
<1> QED BY <1>1, <1>4

LEMMA FullPage ==
  ASSUME NEW n \in Nat, NEW offset \in Nat, NEW limit \in Nat, NEW shown, IsList(shown),
         Len(shown) <= offset + limit, LesserOf(offset + limit, n) <= Len(shown)
  PROVE  Len(SliceRange(shown, offset, limit)) >= LesserOf(limit, n - offset)
<1>1. PICK l \in Nat : l = Len(shown)
  BY DomainOf
<1>2. Len(SliceRange(shown, offset, limit)) \in Nat /\ l <= offset + Len(SliceRange(shown, offset, limit))
  BY <1>1, PageLength
<1>3. PICK p \in Nat : p = Len(SliceRange(shown, offset, limit))
  BY <1>2
<1>4. l <= offset + p /\ LesserOf(offset + limit, n) <= l
  BY <1>1, <1>2, <1>3
<1>5. p >= LesserOf(limit, n - offset)
  BY <1>4 DEF LesserOf
<1> QED BY <1>3, <1>5

\* What is shown of the candidates found is no shorter for it.
LEMMA FoundIsShown ==
  ASSUME RowsApart, NEW w, NEW n \in Nat, NEW k \in Nat, NEW found, FromRows(found, w), LesserOf(k, n) <= Len(found),
         NEW cap \in Nat, NEW f \in Nat, f <= cap, f <= k, NEW shown, shown = Truncate(LocalTopK(found, cap), f)
  PROVE  IsList(shown) /\ Len(shown) <= f /\ LesserOf(f, n) <= Len(shown)
<1>1. IsList(found)
  BY DEF FromRows
<1>2. PICK l \in Nat : l = Len(found)
  BY <1>1, DomainOf
<1>3. PICK list : list = IF l <= cap THEN found ELSE SortByScore(found)
  OBVIOUS
<1>4. IsList(list) /\ Len(list) = l
  BY <1>1, <1>2, <1>3, SortedLength
<1>5. shown = Truncate(list, f)
  <2>1. CASE l <= cap
    BY <1>2, <1>3, <2>1 DEF LocalTopK
  <2>2. CASE ~(l <= cap)
    <3>1. shown = Truncate(Truncate(list, cap), f)
      BY <1>2, <1>3, <2>2 DEF LocalTopK
    <3> QED BY <1>4, <3>1, TruncateOnce
  <2> QED BY <2>1, <2>2
<1>6. Len(shown) = LesserOf(f, l)
  <2>1. Len(Truncate(list, f)) = LesserOf(f, Len(list))
    BY <1>4, TruncateIsTaken
  <2> QED BY <1>4, <1>5, <2>1
<1>7. IsList(shown)
  BY <1>4, <1>5, TruncatedIsList
<1>8. Len(shown) <= f /\ LesserOf(f, n) <= Len(shown)
  BY <1>2, <1>6 DEF LesserOf
<1> QED BY <1>7, <1>8

LEMMA BestIsShown ==
  ASSUME RowsApart, NEW w, NEW k \in Nat, NEW found, FromRows(found, w), Covers(found, w, k),
         NEW cap \in Nat, NEW f \in Nat, f <= cap, f <= k, Len(found) > cap \/ BestOf(found, w, k)
  PROVE  BestOf(Truncate(LocalTopK(found, cap), f), w, f)
<1>1. IsList(found)
  BY DEF FromRows
<1>2. PICK l \in Nat : l = Len(found)
  BY <1>1, DomainOf
<1>3. CASE l > cap
  <2>1. LocalTopK(found, cap) = Truncate(SortByScore(found), cap)
    BY <1>2, <1>3 DEF LocalTopK
  <2>2. IsList(SortByScore(found))
    BY SortedIsBest
  <2>3. Truncate(Truncate(SortByScore(found), cap), f) = Truncate(SortByScore(found), f)
    BY <2>2, TruncateOnce
  <2>4. BestOf(Truncate(SortByScore(found), f), w, f)
    BY SortedIsBest
  <2> QED BY <2>1, <2>3, <2>4
<1>4. CASE ~(l > cap)
  <2>1. LocalTopK(found, cap) = found
    BY <1>2, <1>4 DEF LocalTopK
  <2>2. BestOf(found, w, k)
    BY <1>2, <1>4
  <2>3. BestOf(Truncate(found, f), w, f)
    BY <2>2, BestCut
  <2> QED BY <2>1, <2>3
<1> QED BY <1>3, <1>4

\* The places asked for are all those to scan if and only if no call was lost.
LEMMA AllAsked ==
  ASSUME NEW active \in SUBSET Nat, IsFiniteSet(active), NEW served \in Nat
  PROVE  /\ Len(InOrder(active)) = Cardinality(active)
         /\ served >= Len(InOrder(active)) <=> ToSet(Truncate(InOrder(active), served)) = active
<1>1. PICK places, m : places = InOrder(active) /\ m = Cardinality(active)
  OBVIOUS
<1>2. m \in Nat /\ places \in [1 .. m -> active] /\ \A x \in active : \E i \in 1 .. m : places[i] = x
  BY <1>1, InOrderLists DEF Lists
<1>3. places = [i \in 1 .. m |-> places[i]] /\ IsList(places)
  BY <1>2 DEF IsList
<1>4. Len(places) = m
  BY <1>2, <1>3, ListIsSeq
<1>5. served >= m => ToSet(Truncate(places, served)) = active
  <2>1. served >= m => Truncate(places, served) = places
    BY <1>2, <1>3, <1>4, TruncateIsTaken
  <2>2. ToSet(places) = active
    BY <1>2 DEF ToSet
  <2> QED BY <2>1, <2>2
<1>6. ASSUME ToSet(Truncate(places, served)) = active PROVE served >= m
  <2>1. PICK cut : cut = Truncate(places, served)
    OBVIOUS
  <2>2. PICK c \in Nat : c = LesserOf(served, m)
    BY <1>2 DEF LesserOf
  <2>3. TakenFrom(cut, places) /\ Len(cut) = c
    BY <1>3, <1>4, <2>1, <2>2, TruncateIsTaken
  <2>4. IsList(cut)
    BY <2>3, TakenKeeps
  <2>5. DOMAIN cut = 1 .. c /\ cut = [i \in 1 .. c |-> cut[i]]
    BY <2>3, <2>4, DomainOf, ListsOf
  <2>6. \A x \in active : \E i \in 1 .. c : cut[i] = x
    BY <1>6, <2>1, <2>5 DEF ToSet
  <2>7. \A i \in 1 .. c : cut[i] \in active
    BY <1>6, <2>1, <2>5 DEF ToSet
  <2>8. cut \in Surjection(1 .. c, active)
    BY <2>5, <2>6, <2>7 DEF Surjection
  <2>9. IsFiniteSet(1 .. c) /\ Cardinality(1 .. c) = c
    BY SizeUpTo
  <2>10. m <= c
    BY <1>1, <2>8, <2>9, FS_Surjection
  <2> QED BY <1>2, <2>2, <2>10 DEF LesserOf
<1> QED BY <1>1, <1>4, <1>5, <1>6

---------------------------------------------------------------------------
(* The candidates from memory are a list, also when the graph has widened them. *)

LEMMA ConcatOfLists ==
  ASSUME NEW a, IsList(a), NEW b, IsList(b)
  PROVE  IsList(a \o b)
<1>1. PICK m \in Nat : a = [i \in 1 .. m |-> a[i]]
  BY DEF IsList
<1>2. PICK n \in Nat : b = [i \in 1 .. n |-> b[i]]
  BY DEF IsList
<1>3. a \o b = [i \in 1 .. m + n |-> (a \o b)[i]]
  BY <1>1, <1>2, ConcatIsList
<1>4. m + n \in Nat
  OBVIOUS
<1> QED BY <1>3, <1>4 DEF IsList

LEMMA PlacesOfList ==
  ASSUME NEW list, IsList(list), NEW places \in SUBSET DOMAIN list
  PROVE  places \in SUBSET Nat /\ IsFiniteSet(places)
<1>1. PICK n \in Nat : DOMAIN list = 1 .. n
  BY DomainOf
<1>2. IsFiniteSet(1 .. n)
  BY SizeUpTo
<1> QED BY <1>1, <1>2, FS_Subset

LEMMA AtMostOne ==
  ASSUME NEW x, NEW list, list \in {<<x>>, <<>>}
  PROVE  IsList(list)
<1>1. CASE list = <<x>>
  <2>1. list = [i \in 1 .. 1 |-> list[i]]
    BY <1>1
  <2> QED BY <2>1 DEF IsList
<1>2. CASE list = <<>>
  BY <1>2, NoneIsList
<1> QED BY <1>1, <1>2

LEMMA NeighboursAreList ==
  ASSUME NEW edges, NEW id
  PROVE  IsList(NeighboursOf(edges, id, 2))
<1> DEFINE side == [n \in 1 .. 2 |->
             [below |-> \A m \in 0 .. n - 1 : {id - m - 1, id - m} \in edges,
              above |-> \A m \in 0 .. n - 1 : {id + m, id + m + 1} \in edges]]
           down(n) == IF side[n].below THEN <<Candidate(id - n, NeighbourScore)>> ELSE <<>>
           up(n) == IF side[n].above THEN <<Candidate(id + n, NeighbourScore)>> ELSE <<>>
<1>1. PICK lists : lists = [n \in 1 .. 2 |-> down(n) \o up(n)]
  OBVIOUS
<1>2. NeighboursOf(edges, id, 2) = Joined(lists)
  BY <1>1 DEF NeighboursOf
<1>3. ASSUME NEW n \in 1 .. 2 PROVE IsList(lists[n])
  <2>1. PICK d, u : d = down(n) /\ u = up(n)
    OBVIOUS
  <2>2. d \in {<<Candidate(id - n, NeighbourScore)>>, <<>>} /\ u \in {<<Candidate(id + n, NeighbourScore)>>, <<>>}
    BY <2>1
  <2>3. IsList(d)
    BY <2>2, AtMostOne
  <2>4. IsList(u)
    BY <2>2, AtMostOne
  <2>5. lists[n] = d \o u
    BY <1>1, <2>1
  <2> QED BY <2>3, <2>4, <2>5, ConcatOfLists
<1>4. lists = [n \in 1 .. 2 |-> lists[n]]
  BY <1>1
<1> HIDE DEF side, down, up
<1>5. AreLists(lists, 2)
  BY <1>3, <1>4 DEF AreLists
<1>6. IsList(Joined(lists))
  BY <1>5, JoinedIsList
<1> QED BY <1>2, <1>6

LEMMA ExpandedAreList ==
  ASSUME NEW cands, IsList(cands), NEW edges
  PROVE  IsList(Expand(cands, edges, 2))
<1>1. PICK n \in Nat : DOMAIN cands = 1 .. n /\ Len(cands) = n
  BY DomainOf
<1>2. PICK lists : lists = [i \in DOMAIN cands |-> NeighboursOf(edges, cands[i].id, 2)]
  OBVIOUS
<1>3. \A i \in 1 .. n : IsList(lists[i])
  BY <1>1, <1>2, NeighboursAreList
<1>4. lists = [i \in 1 .. n |-> lists[i]]
  BY <1>1, <1>2
<1>5. PICK more : more = Joined(lists)
  OBVIOUS
<1>6. IsList(more)
  <2>1. AreLists(lists, n)
    BY <1>3, <1>4 DEF AreLists
  <2> QED BY <1>5, <2>1, JoinedIsList
<1>7. IsList(cands \o more)
  BY <1>6, ConcatOfLists
<1>8. GreaterOf(256, Len(cands)) \in Nat
  BY <1>1 DEF GreaterOf
<1>9. Expand(cands, edges, 2) = Truncate(cands \o more, GreaterOf(256, Len(cands)))
  BY <1>2, <1>5 DEF Expand
<1> QED BY <1>7, <1>8, <1>9, TruncatedIsList

LEMMA FusedAreList ==
  ASSUME NEW a, IsList(a), NEW b, IsList(b)
  PROVE  IsList(RrfMerge(a, b, 60))
<1>1. PICK all : all = a \o b
  OBVIOUS
<1>2. IsList(all)
  BY <1>1, ConcatOfLists
<1>3. PICK places : places = {i \in DOMAIN all : \A j \in 1 .. i - 1 : all[j].id # all[i].id}
  OBVIOUS
<1>4. places \in SUBSET Nat /\ IsFiniteSet(places)
  <2>1. places \in SUBSET DOMAIN all
    BY <1>3
  <2> QED BY <1>2, <2>1, PlacesOfList
<1>5. PICK first, m : first = InOrder(places) /\ m = Cardinality(places)
  OBVIOUS
<1>6. m \in Nat /\ DOMAIN first = 1 .. m
  BY <1>4, <1>5, InOrderLists DEF Lists
<1>7. PICK score : score = [n \in 1 .. m |-> RrfScore(a, b, 60, all[first[n]].id)]
  OBVIOUS
<1>8. PICK new : new = RrfMerge(a, b, 60)
  OBVIOUS
<1>9. new = [n \in 1 .. m |-> Candidate(all[first[n]].id, RrfScore(a, b, 60, all[first[n]].id))]
  BY <1>1, <1>3, <1>5, <1>6, <1>8 DEF RrfMerge
<1>10. new = [n \in 1 .. m |-> new[n]]
  BY <1>9
<1> QED BY <1>6, <1>8, <1>10 DEF IsList

LEMMA MemoryIsList ==
  ASSUME CorporaApart, NEW h \in Handles, NEW w, NEW graph, NEW ctx, ctx.tier1 \in Nat, ctx.tier2 \in Nat
  PROVE  IsList(MemoryCandidates(h, w, graph, ctx))
<1>1. PICK docs, tombstones : docs = mem[h] /\ tombstones = TombstonesFor(h)
  OBVIOUS
<1>2. PICK t0 : t0 = Truncate(Hits(docs, w), ctx.tier1)
  OBVIOUS
<1>3. IsList(t0)
  <2>1. Apart(docs)
    BY <1>1 DEF CorporaApart, Apart
  <2>2. IsList(Hits(docs, w))
    BY <2>1, HitsAre
  <2> QED BY <1>2, <2>2, TruncatedIsList
<1>4. PICK t1 : t1 = Truncate(RemoveIds(t0, tombstones), ctx.tier1)
  OBVIOUS
<1>5. IsList(t1)
  <2>1. TakenFrom(RemoveIds(t0, tombstones), t0)
    BY <1>3, RemoveIsTaken
  <2>2. IsList(RemoveIds(t0, tombstones))
    BY <2>1, TakenKeeps
  <2> QED BY <1>4, <2>2, TruncatedIsList
<1>6. PICK edges : edges = {{i - 1, i} : i \in joined[h]}
  OBVIOUS
<1>7. PICK wider : wider = IF graph THEN Expand(t1, edges, 2) ELSE <<>>
  OBVIOUS
<1>8. IsList(wider)
  BY <1>5, <1>7, ExpandedAreList, NoneIsList
<1>9. PICK refined : refined = Refine(t1, ctx.tier2)
  OBVIOUS
<1>10. IsList(refined)
  <2>1. PICK places : places = {i \in DOMAIN t1 : t1[i].score > 0}
    OBVIOUS
  <2>2. TakenFrom(At(t1, places), t1)
    BY <1>5, <2>1, ListsAreTaken
  <2>3. IsList(At(t1, places))
    BY <2>2, TakenKeeps
  <2>4. refined = Truncate(At(t1, places), ctx.tier2)
    BY <1>9, <2>1 DEF Refine
  <2> QED BY <2>3, <2>4, TruncatedIsList
<1>11. PICK t2 : t2 = Tier2(refined, wider, ctx.tier2)
  OBVIOUS
<1>12. IsList(t2)
  <2>1. IsList(refined \o wider)
    BY <1>8, <1>10, ConcatOfLists
  <2>2. t2 = Truncate(refined \o wider, ctx.tier2)
    BY <1>11 DEF Tier2
  <2> QED BY <2>1, <2>2, TruncatedIsList
<1>13. PICK fused : fused = Truncate(RrfMerge(t1, t2, 60), ctx.tier2)
  OBVIOUS
<1>14. IsList(fused)
  <2>1. IsList(RrfMerge(t1, t2, 60))
    BY <1>5, <1>12, FusedAreList
  <2> QED BY <1>13, <2>1, TruncatedIsList
<1>15. MemoryCandidates(h, w, graph, ctx) = IF docs = {} THEN <<>> ELSE fused
  BY <1>1, <1>2, <1>4, <1>6, <1>7, <1>9, <1>11, <1>13 DEF MemoryCandidates
<1> QED BY <1>14, <1>15, NoneIsList

---------------------------------------------------------------------------
(* SegmentAnswers *)

\* What a handle keeps of the segments it scans is what the files hold.
HandleTrue(kept, h, w) ==
  /\ kept = Remember(indexCache[h], ActiveSegments(h, w))
  /\ \A n \in Listed : kept[n].there => kept[n] = index[n]

LEMMA ScanIsBest ==
  ASSUME RowsApart, IndexesTrue, CachesKept, NEW h \in Handles, NEW w \in Words, NEW k \in Nat,
         RouteTrueFor(h, w), NEW cluster \in BOOLEAN, NEW served, NEW kept,
         cluster => WorkersTrue(kept, h, w) /\ served >= Len(InOrder(ActiveSegments(h, w))),
         ~cluster => HandleTrue(kept, h, w),
         NEW found, found = IF cluster THEN ClusterScan(h, w, k, served) ELSE LocalScan(h, w, k)
  PROVE  /\ FromRows(found, w) /\ LesserOf(k, Len(Hits(Indexed, w))) <= Len(found)
         /\ IF cluster THEN Len(segments) <= 4 => BestOf(found, w, k) ELSE Covers(found, w, k)
<1>1. CASE ~cluster
  <2>1. kept = Remember(indexCache[h], ActiveSegments(h, w)) /\ \A n \in Listed : kept[n].there => kept[n] = index[n]
    BY <1>1 DEF HandleTrue
  <2>2. FromRows(LocalScan(h, w, k), w)
    BY <2>1, LocalFound
  <2>3. Covers(LocalScan(h, w, k), w, k)
    BY <2>1, LocalCovers
  <2>4. IsList(LocalScan(h, w, k))
    BY <2>2 DEF FromRows
  <2>5. LesserOf(k, Len(Hits(Indexed, w))) <= Len(LocalScan(h, w, k))
    BY <2>3, <2>4, CoversLength
  <2> QED BY <1>1, <2>2, <2>3, <2>5
<1>2. CASE cluster
  <2>1. found = ClusterScan(h, w, k, served)
    BY <1>2
  <2>2. Len(segments) <= 4 => BestOf(found, w, k)
    BY <1>2, <2>1, ClusterIsBest
  <2>3. LesserOf(k, Len(Hits(Indexed, w))) <= Len(found)
    BY <1>2, <2>1, ClusterIsBest
  <2>4. FromRows(found, w)
    <3>1. CASE found = <<>>
      BY <3>1, NoneIsList DEF FromRows, DistinctIds
    <3>2. CASE found # <<>>
      BY <1>2, <2>1, <3>2, ClusterFound
    <3> QED BY <3>1, <3>2
  <2> QED BY <1>2, <2>2, <2>3, <2>4
<1> QED BY <1>1, <1>2

\* What a search answers, in the terms of the state before it.
Answers(h, w, offset, graph, cluster, served, found, page) ==
  LET ctx == Budgets(offset)
      cands == IF found # <<>> THEN LocalTopK(found, ctx.tier2) ELSE MemoryCandidates(h, w, graph, ctx)
  IN /\ found = IF cluster THEN ClusterScan(h, w, SegmentK(ctx), served) ELSE LocalScan(h, w, SegmentK(ctx))
     /\ page = TablePage(Truncate(cands, ctx.tier3), <<>>, offset, PageSize)

\* No call is lost, and what the search then keeps is what the files hold.
ScanTrue(kept, h, w, cluster, served) ==
  IF cluster THEN WorkersTrue(kept, h, w) /\ served >= Len(InOrder(ActiveSegments(h, w)))
  ELSE HandleTrue(kept, h, w)

BestAnswer(w, offset, cluster, found, page) ==
  /\ Len(page) >= LesserOf(PageSize, Len(Hits(Indexed, w)) - offset)
  /\ found # <<>> /\ (IF cluster THEN Len(segments) <= 4 ELSE Len(found) > Budgets(offset).tier2) =>
       page = SliceRange(Hits(Indexed, w), offset, PageSize)

LEMMA SearchAnswers ==
  ASSUME GhostInv, CorporaApart, PagesFit, NEW h \in Handles, NEW w \in Words,
         NEW offset \in Offsets, NEW graph, NEW cluster \in BOOLEAN, NEW served \in Nat,
         RouteTrueFor(h, w), NEW kept, ScanTrue(kept, h, w, cluster, served),
         NEW found, NEW page, Answers(h, w, offset, graph, cluster, served, found, page)
  PROVE  BestAnswer(w, offset, cluster, found, page)
<1>1. PICK ctx, f, cap, k : ctx = Budgets(offset) /\ f = offset + PageSize /\ cap = ctx.tier2 /\ k = SegmentK(ctx)
  OBVIOUS
<1>2. /\ f \in Nat \ {0} /\ ctx.tier1 \in Nat /\ cap \in Nat /\ ctx.tier3 = f /\ f <= cap /\ k \in Nat /\ f <= k
  BY <1>1, PagesFitBudgets
<1>3. offset \in Nat /\ PageSize \in Nat
  BY SearchAssumption
<1>4. RowsApart /\ IndexesTrue /\ CachesKept
  BY DEF GhostInv
<1>5. PICK all : all = Hits(Indexed, w)
  OBVIOUS
<1>6. PICK n \in Nat : n = Len(all) /\ DOMAIN all = 1 .. n
  BY <1>4, <1>5, IndexedIsRanking, DomainOf DEF IsRanking
<1>7. /\ FromRows(found, w) /\ LesserOf(k, n) <= Len(found)
      /\ IF cluster THEN Len(segments) <= 4 => BestOf(found, w, k) ELSE Covers(found, w, k)
  <2>1. found = IF cluster THEN ClusterScan(h, w, k, served) ELSE LocalScan(h, w, k)
    BY <1>1 DEF Answers
  <2>2. cluster => WorkersTrue(kept, h, w) /\ served >= Len(InOrder(ActiveSegments(h, w)))
    BY DEF ScanTrue
  <2>3. ~cluster => HandleTrue(kept, h, w)
    BY DEF ScanTrue
  <2> QED BY <1>2, <1>4, <1>5, <1>6, <2>1, <2>2, <2>3, ScanIsBest
<1>8. PICK cands, shown :
        /\ cands = IF found # <<>> THEN LocalTopK(found, cap) ELSE MemoryCandidates(h, w, graph, ctx)
        /\ shown = Truncate(cands, f)
  OBVIOUS
<1>9. page = SliceRange(shown, offset, PageSize)
  BY <1>1, <1>2, <1>8 DEF TablePage, Answers
<1>10. CASE found # <<>>
  <2>1. shown = Truncate(LocalTopK(found, cap), f)
    BY <1>8, <1>10
  <2>2. f \in Nat
    BY <1>2
  <2>3. IsList(shown) /\ Len(shown) <= f /\ LesserOf(f, n) <= Len(shown)
    BY <1>2, <1>4, <1>7, <2>1, <2>2, FoundIsShown
  <2>4. ASSUME IF cluster THEN Len(segments) <= 4 ELSE Len(found) > cap PROVE BestOf(shown, w, f)
    <3>1. k \in Nat /\ cap \in Nat /\ f <= cap /\ f <= k /\ RowsApart /\ FromRows(found, w)
      BY <1>2, <1>4, <1>7
    <3>2. Covers(found, w, k) /\ (Len(found) > cap \/ BestOf(found, w, k))
      BY <1>4, <1>7, <2>4, <3>1, BestCovers
    <3>3. BestOf(Truncate(LocalTopK(found, cap), f), w, f)
      <4> HIDE <1>1, <1>2, <1>3, <1>5, <1>6, <1>8, <1>9
      <4> QED BY <2>2, <3>1, <3>2, BestIsShown
    <3> QED BY <2>1, <3>3
  <2>5. Len(page) >= LesserOf(PageSize, n - offset)
    BY <1>1, <1>3, <1>6, <1>9, <2>3, FullPage
  <2>6. BestOf(shown, w, f) => page = SliceRange(all, offset, PageSize)
    BY <1>1, <1>3, <1>4, <1>5, <1>9, BestPage
  <2> QED BY <1>1, <1>5, <1>6, <1>7, <2>4, <2>5, <2>6 DEF BestAnswer
<1>11. CASE found = <<>>
  <2>1. n = 0
    <3>1. LesserOf(k, n) <= 0
      BY <1>7, <1>11, NoneIsList
    <3> QED BY <1>2, <1>6, <3>1 DEF LesserOf
  <2>2. cands = MemoryCandidates(h, w, graph, ctx)
    BY <1>8, <1>11
  <2>3. IsList(cands)
    BY <1>1, <1>2, <2>2, MemoryIsList
  <2>4. f \in Nat
    BY <1>2
  <2>5. IsList(shown)
    BY <1>8, <2>3, <2>4, TruncatedIsList
  <2>6. Len(shown) <= f /\ Len(shown) \in Nat
    <3>1. Len(cands) \in Nat /\ Len(shown) = LesserOf(f, Len(cands))
      BY <1>8, <2>3, <2>4, TruncateIsTaken
    <3> QED BY <2>4, <3>1 DEF LesserOf
  <2>7. LesserOf(f, n) <= Len(shown)
    BY <2>1, <2>4, <2>6 DEF LesserOf
  <2>8. Len(page) >= LesserOf(PageSize, n - offset)
    BY <1>1, <1>3, <1>6, <1>9, <2>5, <2>6, <2>7, FullPage
  <2> QED BY <1>5, <1>6, <1>11, <2>8 DEF BestAnswer
<1> QED BY <1>10, <1>11

LEMMA SearchFindsBest ==
  ASSUME GhostInv, CorporaApart, PagesFit, NEW h \in Handles, NEW w \in Queries,
         NEW offset \in Offsets, NEW graph, NEW cluster \in BOOLEAN, NEW served,
         Search(h, w, offset, graph, cluster, served)
  PROVE  SegmentAnswers'
<1>1. PICK ctx, k, scan, active :
        /\ ctx = Budgets(offset) /\ k = SegmentK(ctx) /\ scan = (segmentOnly /\ HasSidecars)
        /\ active = ActiveSegments(h, w)
  OBVIOUS
<1>2. PICK found, asked :
        /\ found = IF ~scan THEN <<>> ELSE IF cluster THEN ClusterScan(h, w, k, served) ELSE LocalScan(h, w, k)
        /\ asked = IF cluster THEN ToSet(Truncate(InOrder(active), served)) ELSE active
  OBVIOUS
<1>3. PICK cands : cands = IF found # <<>> THEN LocalTopK(found, ctx.tier2) ELSE MemoryCandidates(h, w, graph, ctx)
  OBVIOUS
<1>4. PICK page : page = TablePage(Truncate(cands, ctx.tier3), <<>>, offset, PageSize)
  OBVIOUS
<1>5. /\ answer'.via = (IF found # <<>> THEN "segments" ELSE IF scan THEN "fallback" ELSE "memory")
      /\ answer'.by = h /\ answer'.word = w /\ answer'.offset = offset /\ answer'.cluster = cluster
      /\ answer'.lost = (cluster /\ asked # active) /\ answer'.found = found /\ answer'.page = page
  BY <1>1, <1>2, <1>3, <1>4 DEF Search
<1>6. UNCHANGED <<segments, segmentOnly, routed, rows, index, route>> /\ indexCache' = (IF scan /\ ~cluster
          THEN [indexCache EXCEPT ![h] = Remember(indexCache[h], active)] ELSE indexCache)
  BY <1>1 DEF Search, diskVars, manifestVars
<1>7. nodeCache' = (IF scan /\ cluster
          THEN [v \in DOMAIN nodeCache |-> Remember(nodeCache[v], {i \in asked : NodeOf(i) = v})] ELSE nodeCache)
  BY <1>1, <1>2 DEF Search
<1>8. routeCache' = (IF scan /\ Len(segments) > 1 /\ routed /\ route.there
          THEN [routeCache EXCEPT ![h] = RouteFor(h)] ELSE routeCache)
  BY <1>1 DEF Search
<1>9. RowsApart /\ IndexesTrue /\ CachesKept /\ w \in Words
  BY SearchAssumption DEF GhostInv
<1>10. Indexed' = Indexed
  BY <1>6 DEF Indexed, Listed
<1>11. Ranking' = Hits(Indexed, w)
  BY <1>5, <1>10 DEF Ranking
<1>12. Budgets(answer.offset)' = ctx
  BY <1>1, <1>5, <1>6 DEF Budgets
<1>13. SUFFICES ASSUME CachesTrue', RouteTrue', scan
                PROVE  /\ ~(cluster /\ asked # active) => Len(page) >= LesserOf(PageSize, Len(Hits(Indexed, w)) - offset)
                       /\ found # <<>> /\ (IF cluster THEN Len(segments) <= 4 ELSE Len(found) > ctx.tier2) =>
                            page = SliceRange(Hits(Indexed, w), offset, PageSize)
  <2>1. ~scan => found = <<>>
    BY <1>2
  <2>2. Answered({"segments"})' <=> found # <<>>
    BY <1>5 DEF Answered
  <2>3. Answered({"segments", "fallback"})' => scan
    BY <1>5, <2>1 DEF Answered
  <2>4. segments' = segments
    BY <1>6
  <2> QED BY <1>5, <1>11, <1>12, <2>1, <2>2, <2>3, <2>4 DEF SegmentAnswers
<1>14. RouteTrueFor(h, w)
  <2>1. SUFFICES ASSUME routed, route.there PROVE RouteFor(h).of[w] = RouteOver(segments, index).of[w]
    BY DEF RouteTrueFor
  <2>2. RouteFor(answer.by)'.of[w] = RouteOver(segments, index).of[w]
    BY <1>5, <1>6, <1>13, <2>1 DEF RouteTrue, RouteOver
  <2>3. RouteFor(answer.by)' = IF routeCache'[h].there THEN routeCache'[h] ELSE route
    BY <1>5, <1>6 DEF RouteFor
  <2>4. PICK mine : mine = RouteFor(h)
    OBVIOUS
  <2>5. mine.there
    BY <2>1, <2>4 DEF RouteFor
  <2>6. DOMAIN routeCache = Handles
    BY <1>9 DEF CachesKept
  <2>7. CASE routeCache' = [routeCache EXCEPT ![h] = mine]
    BY <2>2, <2>3, <2>4, <2>5, <2>6, <2>7
  <2>8. CASE routeCache' = routeCache
    BY <2>2, <2>3, <2>8 DEF RouteFor
  <2> QED BY <1>8, <2>4, <2>7, <2>8
<1>15. active \in SUBSET Nat /\ IsFiniteSet(active)
  BY <1>1, <1>9, PlacesAre
<1>16. served \in Nat
  <2>1. \/ served \in {n \in LossesAfter : n < Cardinality(active)} \/ served = Cardinality(active) \/ served = 0
    BY <1>1 DEF Search
  <2>2. Cardinality(active) \in Nat
    BY <1>15, FS_CardinalityType
  <2>3. LossesAfter \subseteq Nat
    BY SearchAssumption
  <2>4. served \in LossesAfter \/ served = Cardinality(active) \/ served = 0
    BY <2>1
  <2>5. 0 \in Nat
    OBVIOUS
  <2> QED BY <2>2, <2>3, <2>4, <2>5, Zenon
<1>17. cluster => (served >= Len(InOrder(active)) <=> asked = active)
  BY <1>2, <1>15, <1>16, AllAsked
<1>18. found # <<>> => ~(cluster /\ asked # active)
  <2>1. SUFFICES ASSUME found # <<>>, cluster PROVE served >= Len(InOrder(active))
    BY <1>17
  <2>2. ClusterScan(h, w, k, served) # <<>>
    BY <1>2, <1>13, <2>1
  <2> QED BY <1>1, <2>2 DEF ClusterScan
<1>19. SUFFICES ASSUME ~(cluster /\ asked # active)
                PROVE  /\ Len(page) >= LesserOf(PageSize, Len(Hits(Indexed, w)) - offset)
                       /\ found # <<>> /\ (IF cluster THEN Len(segments) <= 4 ELSE Len(found) > ctx.tier2) =>
                            page = SliceRange(Hits(Indexed, w), offset, PageSize)
  BY <1>18
<1>20. PICK kept : kept = IF cluster THEN nodeCache' ELSE Remember(indexCache[h], active)
  OBVIOUS
<1>21. cluster => WorkersTrue(kept, h, w) /\ served >= Len(InOrder(ActiveSegments(h, w)))
  <2>1. SUFFICES ASSUME cluster PROVE WorkersTrue(kept, h, w) /\ served >= Len(InOrder(ActiveSegments(h, w)))
    OBVIOUS
  <2>2. asked = active
    BY <1>19, <2>1
  <2>3. \A v \in 0 .. Nodes - 1 : kept[v] = Remember(nodeCache[v], {i \in active : NodeOf(i) = v})
    BY <1>7, <1>9, <1>13, <1>20, <2>1, <2>2 DEF CachesKept
  <2>4. \A n \in Listed : \A v \in 0 .. Nodes - 1 : kept[v][n].there => kept[v][n] = index[n]
    BY <1>5, <1>6, <1>13, <1>20, <2>1 DEF CachesTrue, CacheUsed, Listed
  <2>5. \A v \in 0 .. Nodes - 1 :
          kept[v] = Remember(nodeCache[v], {i \in ActiveSegments(h, w) : NodeOf(i) = v})
    BY <1>1, <2>3
  <2>6. WorkersTrue(kept, h, w)
    BY <2>4, <2>5 DEF WorkersTrue
  <2> QED BY <1>1, <1>17, <2>1, <2>2, <2>6
<1>22. ~cluster => HandleTrue(kept, h, w)
  <2>1. SUFFICES ASSUME ~cluster PROVE HandleTrue(kept, h, w)
    OBVIOUS
  <2>2. kept = Remember(indexCache[h], active)
    BY <1>20, <2>1
  <2>3. indexCache'[h] = kept
    BY <1>6, <1>9, <1>13, <2>1, <2>2 DEF CachesKept
  <2>4. \A n \in Listed : kept[n].there => kept[n] = index[n]
    BY <1>5, <1>6, <1>13, <2>1, <2>3 DEF CachesTrue, CacheUsed, Listed
  <2> QED BY <1>1, <2>2, <2>4 DEF HandleTrue
<1>23. found = IF cluster THEN ClusterScan(h, w, SegmentK(Budgets(offset)), served)
               ELSE LocalScan(h, w, SegmentK(Budgets(offset)))
  BY <1>1, <1>2, <1>13
<1>24. /\ cands = IF found # <<>> THEN LocalTopK(found, Budgets(offset).tier2)
                  ELSE MemoryCandidates(h, w, graph, Budgets(offset))
       /\ page = TablePage(Truncate(cands, Budgets(offset).tier3), <<>>, offset, PageSize)
  BY <1>1, <1>3, <1>4
<1>25. Answers(h, w, offset, graph, cluster, served, found, page)
  BY <1>23, <1>24 DEF Answers
<1>26. ScanTrue(kept, h, w, cluster, served)
  BY <1>21, <1>22 DEF ScanTrue
<1>27. BestAnswer(w, offset, cluster, found, page)
  BY <1>9, <1>14, <1>16, <1>25, <1>26, SearchAnswers
<1> QED BY <1>1, <1>27 DEF BestAnswer

LEMMA NoneFound == answer' = NoAnswer => SegmentAnswers'
BY DEF SegmentAnswers, NoAnswer

LEMMA BestStep ==
  GhostInv /\ KnownInv /\ PagesFit /\ SegmentAnswers /\ [Next]_vars => SegmentAnswers'
<1> SUFFICES ASSUME GhostInv, KnownInv, PagesFit, SegmentAnswers, [Next]_vars
             PROVE  SegmentAnswers'
  OBVIOUS
<1>1. ASSUME NEW h \in Handles, NEW batch \in Batches[added], AddDocuments(h, batch) PROVE answer' = NoAnswer
  BY <1>1 DEF AddDocuments
<1>2. ASSUME NEW h \in Handles, NEW batch \in Batches[added], BulkAdd(h, batch) PROVE answer' = NoAnswer
  BY <1>2 DEF BulkAdd
<1>3. ASSUME NEW h \in Handles, BeginBulkIngest(h) PROVE answer' = NoAnswer
  BY <1>3 DEF BeginBulkIngest
<1>4. ASSUME NEW h \in Handles, FinishBulkIngest(h) PROVE answer' = NoAnswer
  BY <1>4 DEF FinishBulkIngest
<1>5. ASSUME NEW h \in Handles, NEW id \in DocIds, DeleteById(h, id) PROVE answer' = NoAnswer
  BY <1>5 DEF DeleteById
<1>6. ASSUME NEW h \in Handles, CompactTable(h) PROVE answer' = NoAnswer
  BY <1>6 DEF CompactTable
<1>7. ASSUME NEW h \in Handles, Reopen(h) PROVE answer' = NoAnswer
  BY <1>7 DEF Reopen
<1>8. ASSUME NEW h \in Handles, NEW w \in Queries, NEW offset \in Offsets, NEW graph \in Graphs,
             NEW cluster \in BOOLEAN, NEW served \in 0 .. NumSegments, Search(h, w, offset, graph, cluster, served)
      PROVE  SegmentAnswers'
  <2>1. CorporaApart
    BY DEF KnownInv
  <2> QED BY <1>8, <2>1, SearchFindsBest
<1>9. CASE UNCHANGED vars
  <2>1. UNCHANGED <<segments, segmentOnly, routed, rows, index, route, indexCache, routeCache, nodeCache, answer>>
    BY <1>9 DEF vars, diskVars, manifestVars, cacheVars
  <2>2. Ranking' = Ranking
    BY <2>1 DEF Ranking, Indexed, Listed
  <2>3. CachesTrue' = CachesTrue
    BY <2>1 DEF CachesTrue, CacheUsed, Listed
  <2>4. RouteTrue' = RouteTrue
    BY <2>1 DEF RouteTrue, RouteFor, RouteOver
  <2>5. Budgets(answer.offset)' = Budgets(answer.offset)
    BY <2>1 DEF Budgets
  <2> QED BY <2>1, <2>2, <2>3, <2>4, <2>5 DEF SegmentAnswers, Answered
<1> QED BY <1>1, <1>2, <1>3, <1>4, <1>5, <1>6, <1>7, <1>8, <1>9, NoneFound DEF Next

\* As long as pages fit into the budget of tier 2, and unless a cache is out of date or
\* the route older than the manifest, a search of the segments fills its page as long as
\* there are documents for it and no call was lost, also when it falls back to memory;
\* and its page is the best one if the cluster answered for no more segments than the
\* lists the coordinator keeps before it sorts, or the handle had more candidates than
\* the budget: skipping the segments that the route or the lexicons rule out, and
\* cutting each of the others to its own best, loses none of the page (dag.rs:837-907,
\* persist.rs filter_bm25_segment_indices, coordinator.rs:40-59).
THEOREM SegmentsAreBest ==
  ASSUME PagesFit
  PROVE  Spec => []SegmentAnswers
<1>1. Init => KnownInv /\ SegmentAnswers
  <2>1. Init => SegmentAnswers
    BY DEF Init, SegmentAnswers, NoAnswer
  <2> QED BY <2>1, KnownInit
<1>2. GhostInv /\ KnownInv /\ SegmentAnswers /\ [Next]_vars => KnownInv' /\ SegmentAnswers'
  BY KnownStep, BestStep
<1> QED BY <1>1, <1>2, GhostInit, GhostStep, PTL DEF Spec

---------------------------------------------------------------------------
(* Sums *)

LEMMA LeastExists ==
  ASSUME NEW T \in SUBSET Nat, T # {}
  PROVE  \E x \in T : \A y \in T : x <= y
<1>1. IsWellFoundedOn(OpToRel(<, Nat), Nat)
  BY NatLessThanWellFounded
<1>2. PICK x \in T : \A y \in T : <<y, x>> \notin OpToRel(<, Nat)
  BY <1>1, WFMin
<1>3. \A y \in T : ~ (y < x)
  BY <1>2 DEF OpToRel
<1>4. \A y \in T : x \in Nat /\ y \in Nat
  OBVIOUS
<1> QED BY <1>3, <1>4

\* g is the function that Total defines by recursion.
Sums(g, terms, m) == g = [n \in 0 .. m |-> IF n = 0 THEN 0 ELSE g[n - 1] + terms[n]]

\* There is such a function up to every number: there is no least number up to which
\* there is none.
LEMMA SumsExist ==
  ASSUME NEW terms, NEW L \in Nat
  PROVE  \E g : Sums(g, terms, L)
<1>1. PICK T : T = {m \in Nat : ~ \E g : Sums(g, terms, m)}
  OBVIOUS
<1>2. SUFFICES ASSUME T # {} PROVE FALSE
  BY <1>1
<1>3. PICK m \in T : \A y \in T : m <= y
  BY <1>1, <1>2, LeastExists
<1>4. m \in Nat /\ ~ \E g : Sums(g, terms, m)
  BY <1>1, <1>3
<1>5. m # 0
  <2>1. Sums([n \in 0 .. 0 |-> 0], terms, 0)
    BY DEF Sums
  <2> QED BY <1>4, <2>1
<1>6. m - 1 \in Nat /\ m - 1 \notin T
  BY <1>3, <1>4, <1>5
<1>7. PICK g : Sums(g, terms, m - 1)
  BY <1>1, <1>6
<1>8. PICK h : h = [n \in 0 .. m |-> IF n = 0 THEN 0 ELSE g[n - 1] + terms[n]]
  OBVIOUS
<1>9. \A n \in 0 .. m - 1 : h[n] = g[n]
  BY <1>4, <1>6, <1>7, <1>8 DEF Sums
<1>10. \A n \in 0 .. m : n # 0 => h[n - 1] = g[n - 1]
  BY <1>4, <1>6, <1>9
<1>11. h = [n \in 0 .. m |-> IF n = 0 THEN 0 ELSE h[n - 1] + terms[n]]
  BY <1>8, <1>10
<1> QED BY <1>4, <1>11 DEF Sums

\* A sum of numbers is a number: no least place of the list has another sum.
LEMMA TotalIsNat ==
  ASSUME NEW terms \in Seq(Nat)
  PROVE  Total(terms) \in Nat
<1>1. PICK L \in Nat : L = Len(terms)
  OBVIOUS
<1>2. PICK g : g = CHOOSE f : Sums(f, terms, L)
  OBVIOUS
<1>3. Sums(g, terms, L)
  BY <1>2, SumsExist
<1>4. Total(terms) = g[L]
  BY <1>1, <1>2 DEF Total, Sums
<1>5. PICK T : T = {n \in 0 .. L : g[n] \notin Nat}
  OBVIOUS
<1>6. T = {}
  <2> SUFFICES ASSUME T # {} PROVE FALSE
    OBVIOUS
  <2>1. T \in SUBSET Nat
    BY <1>5
  <2>2. PICK n \in T : \A y \in T : n <= y
    BY <2>1, LeastExists
  <2>3. n \in 0 .. L /\ g[n] \notin Nat
    BY <1>5, <2>2
  <2>4. g[n] = IF n = 0 THEN 0 ELSE g[n - 1] + terms[n]
    BY <1>3, <2>3 DEF Sums
  <2>5. n # 0
    BY <2>3, <2>4
  <2>6. n - 1 \in 0 .. L /\ n - 1 \notin T
    BY <2>2, <2>3, <2>5
  <2>7. g[n - 1] \in Nat /\ terms[n] \in Nat
    BY <1>1, <1>5, <2>3, <2>5, <2>6
  <2> QED BY <2>3, <2>4, <2>5, <2>7
<1> QED BY <1>4, <1>5, <1>6

---------------------------------------------------------------------------
(* What a search may show *)

Shown == [id : DocIds, score : Nat]
Typed(list) == IsList(list) /\ Within(list, Shown)

LEMMA TypedIsSeq ==
  ASSUME NEW list, Typed(list)
  PROVE  IsCandidates(list)
<1>1. PICK n \in Nat : list = [i \in 1 .. n |-> list[i]]
  BY DEF Typed, IsList
<1>2. Within(list, Shown)
  BY DEF Typed
<1>3. list \in Seq(Shown)
  BY <1>1, <1>2, ListIsSeq
<1> QED BY <1>3 DEF IsCandidates, Shown

LEMMA TypedTaken ==
  ASSUME NEW list, Typed(list), NEW new, TakenFrom(new, list)
  PROVE  Typed(new)
BY TakenKeeps DEF Typed

LEMMA TypedCut ==
  ASSUME NEW list, Typed(list), NEW max \in Nat
  PROVE  Typed(Truncate(list, max))
<1>1. IsList(list)
  BY DEF Typed
<1>2. TakenFrom(Truncate(list, max), list)
  BY <1>1, TruncateIsTaken
<1> QED BY <1>2, TypedTaken

LEMMA TypedNone == Typed(<<>>)
BY NoneIsList DEF Typed, Within

LEMMA TypedOne ==
  ASSUME NEW x \in Shown
  PROVE  Typed(<<x>>)
<1>1. IsList(<<x>>)
  BY AtMostOne
<1>2. Within(<<x>>, Shown)
  BY DEF Within
<1> QED BY <1>1, <1>2 DEF Typed

LEMMA TypedConcat ==
  ASSUME NEW a, Typed(a), NEW b, Typed(b)
  PROVE  Typed(a \o b)
<1>1. PICK m \in Nat : a = [i \in 1 .. m |-> a[i]] /\ DOMAIN a = 1 .. m
  BY DEF Typed, IsList
<1>2. PICK n \in Nat : b = [i \in 1 .. n |-> b[i]] /\ DOMAIN b = 1 .. n
  BY DEF Typed, IsList
<1>3. PICK c : c = a \o b
  OBVIOUS
<1>4. /\ DOMAIN c = 1 .. m + n
      /\ \A i \in 1 .. m : c[i] = a[i]
      /\ \A i \in m + 1 .. m + n : c[i] = b[i - m]
  BY <1>1, <1>2, <1>3, ConcatIsList
<1>5. IsList(c)
  BY <1>3, ConcatOfLists DEF Typed
<1>6. ASSUME NEW i \in 1 .. m + n PROVE c[i] \in Shown
  <2>1. CASE i \in 1 .. m
    BY <1>1, <1>4, <2>1 DEF Typed, Within
  <2>2. CASE i \notin 1 .. m
    <3>1. i \in m + 1 .. m + n /\ i - m \in 1 .. n
      BY <2>2
    <3> QED BY <1>2, <1>4, <3>1 DEF Typed, Within
  <2> QED BY <2>1, <2>2
<1> QED BY <1>3, <1>4, <1>5, <1>6 DEF Typed, Within

LEMMA TypedJoined ==
  ASSUME NEW lists, NEW m \in Nat, lists = [j \in 1 .. m |-> lists[j]], \A j \in 1 .. m : Typed(lists[j])
  PROVE  Typed(Joined(lists))
<1>1. \A j \in 1 .. m : IsList(lists[j])
  BY DEF Typed
<1>2. PICK new : new = Joined(lists)
  OBVIOUS
<1>3. IsList(new) /\ \A i \in DOMAIN new : \E j \in 1 .. m : \E k \in DOMAIN lists[j] : new[i] = lists[j][k]
  BY <1>1, <1>2, JoinedTakes
<1>4. \A i \in DOMAIN new : new[i] \in Shown
  BY <1>3 DEF Typed, Within
<1> QED BY <1>2, <1>3, <1>4 DEF Typed, Within

LEMMA ShownAreCandidates == \A x \in Shown : x \in Candidates
BY SearchAssumption DEF Shown, Candidates, DocIds

LEMMA TypedSorted ==
  ASSUME NEW list, Typed(list)
  PROVE  Typed(SortByScore(list))
<1>1. IsList(list) /\ Within(list, Candidates)
  BY ShownAreCandidates DEF Typed, Within
<1>2. TakenFrom(SortByScore(list), list)
  BY <1>1, SortIsTaken
<1> QED BY <1>2, TypedTaken

LEMMA TypedTop ==
  ASSUME NEW list, Typed(list), NEW k \in Nat
  PROVE  Typed(LocalTopK(list, k))
<1>1. Typed(Truncate(SortByScore(list), k))
  BY TypedSorted, TypedCut
<1> QED BY <1>1 DEF LocalTopK

\* The hits among any documents, also those of a stale cache.
LEMMA TypedHits ==
  ASSUME NEW docs \in SUBSET Docs, IsFiniteSet(docs), NEW w
  PROVE  Typed(Hits(docs, w))
<1>1. PICK found, set, f :
        /\ found = {d \in docs : d.word = w} /\ set = {Candidate(d.id, d.score) : d \in found}
        /\ f = [d \in found |-> Candidate(d.id, d.score)]
  OBVIOUS
<1>2. IsFiniteSet(found)
  BY <1>1, FS_Subset
<1>3. f \in Surjection(found, set)
  BY <1>1 DEF Surjection
<1>4. IsFiniteSet(set)
  BY <1>2, <1>3, FS_Surjection
<1>5. set \in SUBSET Shown
  <2>1. \A d \in Docs : d.id \in DocIds /\ d.score \in Nat
    BY DEF Docs
  <2> QED BY <1>1, <2>1 DEF Candidate, Shown
<1>6. set \in SUBSET Candidates
  BY <1>5, ShownAreCandidates
<1>7. PICK list, n : list = Ranked(set) /\ n = Cardinality(set)
  OBVIOUS
<1>8. n \in Nat /\ Lists(list, set, n)
  BY <1>4, <1>6, <1>7, RankedLists
<1>9. list = [i \in 1 .. n |-> list[i]] /\ DOMAIN list = 1 .. n /\ \A i \in 1 .. n : list[i] \in set
  BY <1>8 DEF Lists
<1>10. Typed(list)
  BY <1>5, <1>8, <1>9 DEF Typed, IsList, Within
<1> QED BY <1>1, <1>7, <1>10 DEF Hits

\* What is known of the documents of an index a cache keeps.
Known(cache) == cache \in [Names -> Indexes] /\ \A n \in Names : IsFiniteSet(cache[n].docs)

LEMMA KeptIsTyped ==
  ASSUME RowsApart, IndexesTrue, NEW cache, Known(cache), NEW n \in Names, cache[n].there \/ index[n].there
  PROVE  Kept(cache, n) \in Indexes /\ IsFiniteSet(Kept(cache, n).docs)
<1>1. CASE cache[n].there
  BY <1>1 DEF Known, Kept
<1>2. CASE ~cache[n].there
  <2>1. index[n] \in Indexes /\ index[n].docs = rows[n]
    BY <1>2 DEF IndexesTrue, Indexes
  <2>2. IsFiniteSet(rows[n])
    BY DEF RowsApart
  <2>3. Kept(cache, n) = index[n]
    BY <1>2 DEF Kept
  <2> QED BY <2>1, <2>2, <2>3
<1> QED BY <1>1, <1>2

LEMMA TypedSegment ==
  ASSUME RowsApart, IndexesTrue, NEW cache, Known(cache), NEW i, NEW w, NEW k \in Nat
  PROVE  Typed(SegmentHits(cache, i, w, k))
<1>1. CASE i \in DOMAIN segments /\ index[segments[i]].there
  <2>1. PICK n : n = segments[i]
    OBVIOUS
  <2>2. n \in Names
    BY <1>1, <2>1 DEF RowsApart
  <2>3. PICK x : x = Kept(cache, n)
    OBVIOUS
  <2>4. x \in Indexes /\ IsFiniteSet(x.docs)
    BY <1>1, <2>1, <2>2, <2>3, KeptIsTyped
  <2>5. x.docs \in SUBSET Docs
    BY <2>4 DEF Indexes
  <2>6. Typed(Hits(x.docs, w))
    BY <2>4, <2>5, TypedHits
  <2>7. SegmentHits(cache, i, w, k) = Truncate(Hits(x.docs, w), k)
    BY <1>1, <2>1, <2>3 DEF SegmentHits
  <2> QED BY <2>6, <2>7, TypedCut
<1>2. CASE ~(i \in DOMAIN segments /\ index[segments[i]].there)
  BY <1>2, TypedNone DEF SegmentHits
<1> QED BY <1>1, <1>2

LEMMA TypedLocal ==
  ASSUME RowsApart, IndexesTrue, CachesKept, NEW h \in Handles, Known(indexCache[h]), NEW w \in Words, NEW k \in Nat
  PROVE  Typed(LocalScan(h, w, k))
<1>1. PICK places, active, cache :
        places = ActiveSegments(h, w) /\ active = InOrder(places) /\ cache = indexCache[h]
  OBVIOUS
<1>2. PICK m : m = Cardinality(places)
  OBVIOUS
<1>3. m \in Nat /\ DOMAIN active = 1 .. m
  BY <1>1, <1>2, PlacesAre, InOrderLists DEF Lists
<1>4. PICK lists : lists = [j \in 1 .. m |-> SegmentHits(cache, active[j], w, k)]
  OBVIOUS
<1>5. \A j \in 1 .. m : Typed(lists[j])
  BY <1>1, <1>4, TypedSegment
<1>6. lists = [j \in 1 .. m |-> lists[j]]
  BY <1>4
<1>7. Typed(Joined(lists))
  BY <1>3, <1>5, <1>6, TypedJoined
<1> QED BY <1>1, <1>3, <1>4, <1>7 DEF LocalScan

LEMMA TypedCluster ==
  ASSUME RowsApart, IndexesTrue, CachesKept, NEW h \in Handles, \A v \in 0 .. Nodes - 1 : Known(nodeCache[v]),
         NEW w \in Words, NEW k \in Nat, NEW served
  PROVE  Typed(ClusterScan(h, w, k, served))
<1>1. PICK places, active : places = ActiveSegments(h, w) /\ active = InOrder(places)
  OBVIOUS
<1>2. PICK m : m = Cardinality(places)
  OBVIOUS
<1>3. places \in SUBSET Nat /\ IsFiniteSet(places)
  BY <1>1, PlacesAre
<1>4. m \in Nat /\ DOMAIN active = 1 .. m /\ \A j \in 1 .. m : active[j] \in Nat
  BY <1>1, <1>2, <1>3, InOrderLists DEF Lists
<1>5. PICK lists : lists = [j \in 1 .. m |-> SegmentHits(nodeCache[NodeOf(active[j])], active[j], w, k)]
  OBVIOUS
<1>6. ASSUME NEW j \in 1 .. m PROVE Typed(lists[j])
  <2>1. active[j] \in Nat
    BY <1>4
  <2>2. Known(nodeCache[NodeOf(active[j])])
    BY <2>1, NodesAre
  <2>3. Typed(SegmentHits(nodeCache[NodeOf(active[j])], active[j], w, k))
    BY <2>2, TypedSegment
  <2> QED BY <1>5, <2>3
<1>7. lists = [j \in 1 .. m |-> lists[j]]
  BY <1>5
<1>8. PICK all : all = Joined(lists)
  OBVIOUS
<1>9. Typed(all)
  BY <1>4, <1>6, <1>7, <1>8, TypedJoined
<1>10. 4 * k \in Nat
  OBVIOUS
<1>11. Typed(Truncate(SortByScore(Truncate(all, 4 * k)), k))
  BY <1>9, <1>10, TypedCut, TypedSorted
<1>12. Typed(CoordinatorMerge(lists, k))
  BY <1>8, <1>11 DEF CoordinatorMerge
<1>13. ClusterScan(h, w, k, served) \in {CoordinatorMerge(lists, k), <<>>}
  BY <1>1, <1>4, <1>5 DEF ClusterScan
<1> QED BY <1>12, <1>13, TypedNone


\* The graph joins ids that were given out one after the other.
Chain(edges) == \E ids \in SUBSET (DocIds \ {0}) : edges = {{i - 1, i} : i \in ids}

LEMMA ChainOfIds ==
  ASSUME NEW edges, Chain(edges), NEW a, NEW b, {a, b} \in edges
  PROVE  a \in DocIds /\ b \in DocIds
<1>1. PICK ids \in SUBSET (DocIds \ {0}) : edges = {{i - 1, i} : i \in ids}
  BY DEF Chain
<1>2. PICK i \in ids : {a, b} = {i - 1, i}
  BY <1>1
<1>3. i \in DocIds /\ i - 1 \in DocIds
  BY <1>1, <1>2, SearchAssumption DEF DocIds
<1>4. a \in {i - 1, i} /\ b \in {i - 1, i}
  BY <1>2
<1> QED BY <1>3, <1>4

LEMMA TypedNeighbours ==
  ASSUME NEW edges, Chain(edges), NEW id \in DocIds
  PROVE  Typed(NeighboursOf(edges, id, 2))
<1> DEFINE side == [n \in 1 .. 2 |->
             [below |-> \A m \in 0 .. n - 1 : {id - m - 1, id - m} \in edges,
              above |-> \A m \in 0 .. n - 1 : {id + m, id + m + 1} \in edges]]
           down(n) == IF side[n].below THEN <<Candidate(id - n, NeighbourScore)>> ELSE <<>>
           up(n) == IF side[n].above THEN <<Candidate(id + n, NeighbourScore)>> ELSE <<>>
<1>1. PICK lists : lists = [n \in 1 .. 2 |-> down(n) \o up(n)]
  OBVIOUS
<1>2. NeighboursOf(edges, id, 2) = Joined(lists)
  BY <1>1 DEF NeighboursOf
<1>3. id \in Nat /\ \A i \in DocIds : i \in Nat
  BY SearchAssumption DEF DocIds
<1>4. ASSUME NEW n \in 1 .. 2 PROVE Typed(lists[n])
  <2>1. PICK d, u : d = down(n) /\ u = up(n)
    OBVIOUS
  <2>2. Typed(d)
    <3>1. CASE side[n].below
      <4>1. {id - (n - 1) - 1, id - (n - 1)} \in edges
        BY <3>1
      <4>2. id - (n - 1) - 1 \in DocIds
        BY <4>1, ChainOfIds
      <4>3. id - (n - 1) - 1 = id - n
        BY <1>3
      <4>4. Candidate(id - n, NeighbourScore) \in Shown
        BY <4>2, <4>3 DEF Candidate, NeighbourScore, Shown
      <4> QED BY <2>1, <3>1, <4>4, TypedOne
    <3>2. CASE ~side[n].below
      BY <2>1, <3>2, TypedNone
    <3> QED BY <3>1, <3>2
  <2>3. Typed(u)
    <3>1. CASE side[n].above
      <4>1. {id + (n - 1), id + (n - 1) + 1} \in edges
        BY <3>1
      <4>2. id + (n - 1) + 1 \in DocIds
        BY <4>1, ChainOfIds
      <4>3. id + (n - 1) + 1 = id + n
        BY <1>3
      <4>4. Candidate(id + n, NeighbourScore) \in Shown
        BY <4>2, <4>3 DEF Candidate, NeighbourScore, Shown
      <4> QED BY <2>1, <3>1, <4>4, TypedOne
    <3>2. CASE ~side[n].above
      BY <2>1, <3>2, TypedNone
    <3> QED BY <3>1, <3>2
  <2>4. lists[n] = d \o u
    BY <1>1, <2>1
  <2> QED BY <2>2, <2>3, <2>4, TypedConcat
<1>5. lists = [n \in 1 .. 2 |-> lists[n]]
  BY <1>1
<1> HIDE DEF side, down, up
<1>6. 2 \in Nat
  OBVIOUS
<1>7. Typed(Joined(lists))
  BY <1>4, <1>5, <1>6, TypedJoined
<1> QED BY <1>2, <1>7

LEMMA TypedExpanded ==
  ASSUME NEW cands, Typed(cands), NEW edges, Chain(edges)
  PROVE  Typed(Expand(cands, edges, 2))
<1>1. PICK n \in Nat : DOMAIN cands = 1 .. n /\ Len(cands) = n
  BY DomainOf DEF Typed
<1>2. PICK lists : lists = [i \in 1 .. n |-> NeighboursOf(edges, cands[i].id, 2)]
  OBVIOUS
<1>3. ASSUME NEW i \in 1 .. n PROVE Typed(lists[i])
  <2>1. cands[i].id \in DocIds
    BY <1>1 DEF Typed, Within, Shown
  <2>2. Typed(NeighboursOf(edges, cands[i].id, 2))
    BY <2>1, TypedNeighbours
  <2> QED BY <1>2, <2>2
<1>4. lists = [i \in 1 .. n |-> lists[i]]
  BY <1>2
<1>5. PICK more : more = Joined(lists)
  OBVIOUS
<1>6. Typed(more)
  BY <1>3, <1>4, <1>5, TypedJoined
<1>7. Typed(cands \o more)
  BY <1>6, TypedConcat
<1>8. GreaterOf(256, Len(cands)) \in Nat
  BY <1>1 DEF GreaterOf
<1>9. Expand(cands, edges, 2) = Truncate(cands \o more, GreaterOf(256, Len(cands)))
  BY <1>1, <1>2, <1>5 DEF Expand
<1> QED BY <1>7, <1>8, <1>9, TypedCut

\* A rank divides the unit of rank fusion, and the sum of all of them is a number.
LEMMA ScoreIsNat ==
  ASSUME NEW a, IsList(a), NEW b, IsList(b), NEW id
  PROVE  RrfScore(a, b, 60, id) \in Nat
<1>1. PICK all, la : all = a \o b /\ la = Len(a)
  OBVIOUS
<1>2. PICK n \in Nat : DOMAIN all = 1 .. n
  <2>1. IsList(all)
    BY <1>1, ConcatOfLists
  <2> QED BY <2>1, DomainOf
<1>3. la \in Nat
  BY <1>1, DomainOf
<1>4. PICK terms : terms = [i \in 1 .. n |-> IF all[i].id = id
                              THEN RrfUnit \div (60 + (IF i <= la THEN i ELSE i - la)) ELSE 0]
  OBVIOUS
<1>5. ASSUME NEW i \in 1 .. n PROVE terms[i] \in Nat
  <2>1. PICK rank : rank = IF i <= la THEN i ELSE i - la
    OBVIOUS
  <2>2. rank \in Nat \ {0}
    BY <1>2, <1>3, <2>1
  <2>3. RrfUnit \div (60 + rank) \in Nat
    BY <2>2 DEF RrfUnit
  <2>4. terms[i] = IF all[i].id = id THEN RrfUnit \div (60 + rank) ELSE 0
    BY <1>4, <2>1
  <2> QED BY <2>3, <2>4
<1>6. terms \in Seq(Nat)
  <2>1. terms \in [1 .. n -> Nat]
    BY <1>4, <1>5
  <2> QED BY <2>1
<1>7. RrfScore(a, b, 60, id) = Total(terms)
  BY <1>1, <1>2, <1>4 DEF RrfScore
<1> QED BY <1>6, <1>7, TotalIsNat

LEMMA TypedFused ==
  ASSUME NEW a, Typed(a), NEW b, Typed(b)
  PROVE  Typed(RrfMerge(a, b, 60))
<1>1. PICK all : all = a \o b
  OBVIOUS
<1>2. Typed(all)
  BY <1>1, TypedConcat
<1>3. PICK places : places = {i \in DOMAIN all : \A j \in 1 .. i - 1 : all[j].id # all[i].id}
  OBVIOUS
<1>4. places \in SUBSET Nat /\ IsFiniteSet(places)
  <2>1. places \in SUBSET DOMAIN all
    BY <1>3
  <2> QED BY <1>2, <2>1, PlacesOfList DEF Typed
<1>5. PICK first, m : first = InOrder(places) /\ m = Cardinality(places)
  OBVIOUS
<1>6. m \in Nat /\ DOMAIN first = 1 .. m /\ \A n \in 1 .. m : first[n] \in places
  BY <1>4, <1>5, InOrderLists DEF Lists
<1>7. PICK new : new = RrfMerge(a, b, 60)
  OBVIOUS
<1>8. new = [n \in 1 .. m |-> Candidate(all[first[n]].id, RrfScore(a, b, 60, all[first[n]].id))]
  BY <1>1, <1>3, <1>5, <1>6, <1>7 DEF RrfMerge
<1>9. new = [n \in 1 .. m |-> new[n]] /\ DOMAIN new = 1 .. m
  BY <1>8
<1>10. ASSUME NEW n \in 1 .. m PROVE new[n] \in Shown
  <2>1. PICK x : x = all[first[n]].id
    OBVIOUS
  <2>2. x \in DocIds
    <3>1. first[n] \in DOMAIN all
      BY <1>3, <1>6
    <3> QED BY <1>2, <2>1, <3>1 DEF Typed, Within, Shown
  <2>3. RrfScore(a, b, 60, x) \in Nat
    BY ScoreIsNat DEF Typed
  <2>4. new[n] = Candidate(x, RrfScore(a, b, 60, x))
    BY <1>8, <2>1
  <2> QED BY <2>2, <2>3, <2>4 DEF Candidate, Shown
<1>11. IsList(new)
  BY <1>6, <1>9 DEF IsList
<1> QED BY <1>7, <1>9, <1>10, <1>11 DEF Typed, Within

LEMMA TypedMemory ==
  ASSUME CorporaApart, NEW h \in Handles, joined[h] \in SUBSET (DocIds \ {0}), NEW w, NEW graph,
         NEW ctx, ctx.tier1 \in Nat, ctx.tier2 \in Nat
  PROVE  Typed(MemoryCandidates(h, w, graph, ctx))
<1>1. PICK docs, tombstones : docs = mem[h] /\ tombstones = TombstonesFor(h)
  OBVIOUS
<1>2. PICK t0 : t0 = Truncate(Hits(docs, w), ctx.tier1)
  OBVIOUS
<1>3. Typed(t0)
  <2>1. docs \in SUBSET Docs /\ IsFiniteSet(docs)
    BY <1>1 DEF CorporaApart
  <2>2. Typed(Hits(docs, w))
    BY <2>1, TypedHits
  <2> QED BY <1>2, <2>2, TypedCut
<1>4. PICK t1 : t1 = Truncate(RemoveIds(t0, tombstones), ctx.tier1)
  OBVIOUS
<1>5. Typed(t1)
  <2>1. TakenFrom(RemoveIds(t0, tombstones), t0)
    BY <1>3, RemoveIsTaken DEF Typed
  <2>2. Typed(RemoveIds(t0, tombstones))
    BY <1>3, <2>1, TypedTaken
  <2> QED BY <1>4, <2>2, TypedCut
<1>6. PICK edges : edges = {{i - 1, i} : i \in joined[h]}
  OBVIOUS
<1>7. PICK wider : wider = IF graph THEN Expand(t1, edges, 2) ELSE <<>>
  OBVIOUS
<1>8. Typed(wider)
  <2>1. Chain(edges)
    BY <1>6 DEF Chain
  <2>2. Typed(Expand(t1, edges, 2))
    BY <1>5, <2>1, TypedExpanded
  <2> QED BY <1>7, <2>2, TypedNone
<1>9. PICK refined : refined = Refine(t1, ctx.tier2)
  OBVIOUS
<1>10. Typed(refined)
  <2>1. PICK places : places = {i \in DOMAIN t1 : t1[i].score > 0}
    OBVIOUS
  <2>2. TakenFrom(At(t1, places), t1)
    BY <1>5, <2>1, ListsAreTaken DEF Typed
  <2>3. Typed(At(t1, places))
    BY <1>5, <2>2, TypedTaken
  <2>4. refined = Truncate(At(t1, places), ctx.tier2)
    BY <1>9, <2>1 DEF Refine
  <2> QED BY <2>3, <2>4, TypedCut
<1>11. PICK t2 : t2 = Tier2(refined, wider, ctx.tier2)
  OBVIOUS
<1>12. Typed(t2)
  <2>1. Typed(refined \o wider)
    BY <1>8, <1>10, TypedConcat
  <2>2. t2 = Truncate(refined \o wider, ctx.tier2)
    BY <1>11 DEF Tier2
  <2> QED BY <2>1, <2>2, TypedCut
<1>13. PICK fused : fused = Truncate(RrfMerge(t1, t2, 60), ctx.tier2)
  OBVIOUS
<1>14. Typed(fused)
  <2>1. Typed(RrfMerge(t1, t2, 60))
    BY <1>5, <1>12, TypedFused
  <2> QED BY <1>13, <2>1, TypedCut
<1>15. MemoryCandidates(h, w, graph, ctx) = IF docs = {} THEN <<>> ELSE fused
  BY <1>1, <1>2, <1>4, <1>6, <1>7, <1>9, <1>11, <1>13 DEF MemoryCandidates
<1> QED BY <1>14, <1>15, TypedNone

\* A page of candidates is one of candidates.
LEMMA PageIsTyped ==
  ASSUME NEW list, Typed(list), NEW offset \in Nat, NEW limit \in Nat
  PROVE  IsCandidates(TablePage(list, <<>>, offset, limit))
<1>1. PICK m \in Nat : m = Len(list) /\ DOMAIN list = 1 .. m
  BY DomainOf DEF Typed
<1>2. PICK last \in Nat : last = LesserOf(offset + limit, m) /\ last <= m
  BY <1>1 DEF LesserOf
<1>3. \A i \in offset + 1 .. last : list[i] \in Shown
  <2>1. \A i \in offset + 1 .. last : i \in 1 .. m
    BY <1>2
  <2> QED BY <1>1, <2>1 DEF Typed, Within
<1>4. PICK p : p = SubSeq(list, offset + 1, last)
  OBVIOUS
<1>5. p \in Seq(Shown)
  BY <1>3, <1>4, SubSeqProperties
<1>6. TablePage(list, <<>>, offset, limit) = p
  BY <1>1, <1>2, <1>4 DEF TablePage, SliceRange
<1> QED BY <1>5, <1>6 DEF IsCandidates, Shown


LEMMA RememberIsTyped ==
  ASSUME RowsApart, IndexesTrue, NEW cache, Known(cache), NEW places
  PROVE  Known(Remember(cache, places))
<1>1. PICK new : new = Remember(cache, places)
  OBVIOUS
<1>2. ASSUME NEW n \in Names PROVE new[n] \in Indexes /\ IsFiniteSet(new[n].docs)
  <2>1. (new[n] = Kept(cache, n) /\ index[n].there) \/ new[n] = cache[n]
    BY <1>1 DEF Remember
  <2>2. CASE new[n] = Kept(cache, n) /\ index[n].there
    BY <2>2, KeptIsTyped
  <2>3. CASE new[n] = cache[n]
    BY <2>3 DEF Known
  <2> QED BY <2>1, <2>2, <2>3
<1>3. new = [n \in Names |-> new[n]]
  BY <1>1 DEF Remember
<1>4. new \in [Names -> Indexes]
  BY <1>2, <1>3
<1> QED BY <1>1, <1>2, <1>4 DEF Known

\* The form in which the lemmas above want CopiesTyped.
AllKnown == /\ DOMAIN indexCache = Handles /\ \A h \in Handles : Known(indexCache[h])
            /\ DOMAIN nodeCache = 0 .. Nodes - 1 /\ \A v \in 0 .. Nodes - 1 : Known(nodeCache[v])

LEMMA CopiesAreKnown == CopiesTyped => AllKnown
BY DEF CopiesTyped, AllKnown, Known

LEMMA SearchTyped ==
  ASSUME GhostInv, KnownInv, TypeInv, NEW h \in Handles, NEW w \in Queries, NEW offset \in Offsets,
         NEW graph, NEW cluster \in BOOLEAN, NEW served, Search(h, w, offset, graph, cluster, served)
  PROVE  TypeInv'
<1>1. RowsApart /\ IndexesTrue /\ CachesKept /\ CorporaApart /\ TableTyped /\ HandlesTyped /\ CopiesTyped
  BY DEF GhostInv, KnownInv, TypeInv
<1>2. w \in Words /\ offset \in Nat /\ PageSize \in Nat
  BY SearchAssumption
<1>3. AllKnown
  BY <1>1, CopiesAreKnown
<1>4. TableTyped'
  <2>1. UNCHANGED <<segmentOnly, routed, tombs, merges, opens>> /\ searches < MaxSearches /\ searches' = searches + 1
    BY DEF Search, diskVars, manifestVars
  <2>2. {segmentOnly', routed'} \subseteq BOOLEAN /\ tombs' \subseteq DocIds
    BY <1>1, <2>1 DEF TableTyped
  <2>3. searches' \in 0 .. MaxSearches /\ merges' \in 0 .. MaxMerges /\ opens' \in 0 .. MaxOpens
    BY <1>1, <2>1, SearchAssumption DEF TableTyped
  <2> QED BY <2>2, <2>3 DEF TableTyped
<1>5. HandlesTyped'
  <2>1. PICK ids : ids = TombstonesFor(h)
    OBVIOUS
  <2>2. UNCHANGED <<joined, session, own>> /\ tombCache' = [tombCache EXCEPT ![h] = [known |-> TRUE, ids |-> ids]]
    BY <2>1 DEF Search, handleVars
  <2>3. tombCache \in [Handles -> [known : BOOLEAN, ids : SUBSET DocIds]] /\ tombs \in SUBSET DocIds
    BY <1>1 DEF HandlesTyped, TableTyped
  <2>4. ids \in SUBSET DocIds
    BY <2>1, <2>3 DEF TombstonesFor
  <2>5. tombCache' \in [Handles -> [known : BOOLEAN, ids : SUBSET DocIds]]
    BY <2>2, <2>3, <2>4
  <2> QED BY <1>1, <2>2, <2>5 DEF HandlesTyped
<1>6. PICK ctx, k, scan, active :
        /\ ctx = Budgets(offset) /\ k = SegmentK(ctx) /\ scan = (segmentOnly /\ HasSidecars)
        /\ active = ActiveSegments(h, w)
  OBVIOUS
<1>7. PICK found, asked, memory :
        /\ found = IF ~scan THEN <<>> ELSE IF cluster THEN ClusterScan(h, w, k, served) ELSE LocalScan(h, w, k)
        /\ asked = IF cluster THEN ToSet(Truncate(InOrder(active), served)) ELSE active
        /\ memory = MemoryCandidates(h, w, graph, ctx)
  OBVIOUS
<1>8. PICK cands : cands = IF found # <<>> THEN LocalTopK(found, ctx.tier2) ELSE memory
  OBVIOUS
<1>9. /\ answer'.page = TablePage(Truncate(cands, ctx.tier3), <<>>, offset, PageSize) /\ answer'.found = found
      /\ indexCache' = IF scan /\ ~cluster
                       THEN [indexCache EXCEPT ![h] = Remember(indexCache[h], active)] ELSE indexCache
      /\ nodeCache' = IF scan /\ cluster
                      THEN [v \in DOMAIN nodeCache |->
                              Remember(nodeCache[v], {i \in asked : NodeOf(i) = v})]
                      ELSE nodeCache
  BY <1>6, <1>7, <1>8 DEF Search
<1>10. ctx.tier1 \in Nat /\ ctx.tier2 \in Nat /\ ctx.tier3 \in Nat /\ k \in Nat
  BY <1>2, <1>6, BudgetsAre
<1>11. Typed(found)
  <2>1. Typed(LocalScan(h, w, k))
    BY <1>1, <1>2, <1>3, <1>10, TypedLocal DEF AllKnown
  <2>2. Typed(ClusterScan(h, w, k, served))
    BY <1>1, <1>2, <1>3, <1>10, TypedCluster DEF AllKnown
  <2> QED BY <1>7, <2>1, <2>2, TypedNone
<1>12. Typed(memory)
  <2>1. joined[h] \in SUBSET (DocIds \ {0})
    BY <1>1 DEF HandlesTyped
  <2> QED BY <1>1, <1>7, <1>10, <2>1, TypedMemory
<1>13. Typed(cands)
  <2>1. Typed(LocalTopK(found, ctx.tier2))
    BY <1>10, <1>11, TypedTop
  <2> QED BY <1>8, <1>12, <2>1
<1>14. AnswerTyped'
  <2>1. Typed(Truncate(cands, ctx.tier3))
    BY <1>10, <1>13, TypedCut
  <2>2. IsCandidates(TablePage(Truncate(cands, ctx.tier3), <<>>, offset, PageSize))
    BY <1>2, <2>1, PageIsTyped
  <2>3. IsCandidates(found)
    BY <1>11, TypedIsSeq
  <2> QED BY <1>9, <2>2, <2>3 DEF AnswerTyped, IsCandidates
<1>15. DOMAIN indexCache' = Handles /\ \A g \in Handles : Known(indexCache'[g])
  <2>1. Known(Remember(indexCache[h], active))
    BY <1>1, <1>3, RememberIsTyped DEF AllKnown
  <2>2. PICK new : new = Remember(indexCache[h], active)
    OBVIOUS
  <2>3. indexCache' = [indexCache EXCEPT ![h] = new] \/ indexCache' = indexCache
    BY <1>9, <2>2
  <2>4. DOMAIN indexCache' = Handles /\ \A g \in Handles : indexCache'[g] \in {new, indexCache[g]}
    BY <1>3, <2>3 DEF AllKnown
  <2> QED BY <1>3, <2>1, <2>2, <2>4 DEF AllKnown
<1>16. DOMAIN nodeCache' = 0 .. Nodes - 1 /\ \A v \in 0 .. Nodes - 1 : Known(nodeCache'[v])
  <2>1. \A v \in 0 .. Nodes - 1 : Known(Remember(nodeCache[v], {i \in asked : NodeOf(i) = v}))
    BY <1>1, <1>3, RememberIsTyped DEF AllKnown
  <2>2. DOMAIN nodeCache' = 0 .. Nodes - 1
        /\ \A v \in 0 .. Nodes - 1 : nodeCache'[v] \in {Remember(nodeCache[v], {i \in asked : NodeOf(i) = v}), nodeCache[v]}
    BY <1>3, <1>9 DEF AllKnown
  <2> QED BY <1>3, <2>1, <2>2 DEF AllKnown
<1>17. CopiesTyped'
  <2>1. /\ indexCache \in [Handles -> [Names -> Indexes]]
        /\ nodeCache \in [0 .. Nodes - 1 -> [Names -> Indexes]]
    BY <1>1 DEF CopiesTyped
  <2>2. indexCache' \in [Handles -> [Names -> Indexes]]
    BY <1>9, <1>15, <2>1 DEF Known
  <2>3. nodeCache' \in [0 .. Nodes - 1 -> [Names -> Indexes]]
    BY <1>9, <1>16, <2>1 DEF Known
  <2>4. \A n \in Names : /\ \A g \in Handles : IsFiniteSet(indexCache'[g][n].docs)
                         /\ \A v \in 0 .. Nodes - 1 : IsFiniteSet(nodeCache'[v][n].docs)
    BY <1>15, <1>16 DEF Known
  <2> QED BY <2>2, <2>3, <2>4 DEF CopiesTyped
<1> QED BY <1>4, <1>5, <1>14, <1>17 DEF TypeInv


---------------------------------------------------------------------------
(* TypeOK *)

LEMMA TypedInit == Init => TypeInv
<1> SUFFICES ASSUME Init PROVE TypeInv
  OBVIOUS
<1>1. TableTyped
  <2>1. {MaxMerges, MaxSearches, MaxOpens} \subseteq Nat
    BY SearchAssumption
  <2>2. segmentOnly = FALSE /\ routed = FALSE /\ tombs = {} /\ merges = 0 /\ searches = 0 /\ opens = 0
    BY DEF Init
  <2>3. merges \in 0 .. MaxMerges /\ searches \in 0 .. MaxSearches /\ opens \in 0 .. MaxOpens
    BY <2>1, <2>2
  <2>4. {segmentOnly, routed} \subseteq BOOLEAN /\ tombs \subseteq DocIds
    BY <2>2
  <2> QED BY <2>3, <2>4 DEF TableTyped
<1>2. HandlesTyped
  BY DEF Init, HandlesTyped
<1>3. CopiesTyped
  <2>1. Absent \in Indexes /\ Absent.docs = {}
    BY DEF Absent, Indexes
  <2>2. /\ indexCache = [h \in Handles |-> [n \in Names |-> Absent]]
        /\ nodeCache = [v \in 0 .. Nodes - 1 |-> [n \in Names |-> Absent]]
    BY DEF Init
  <2>3. \A n \in Names : /\ \A h \in Handles : indexCache[h][n].docs = {}
                         /\ \A v \in 0 .. Nodes - 1 : nodeCache[v][n].docs = {}
    BY <2>1, <2>2
  <2> QED BY <2>1, <2>2, <2>3, FS_EmptySet DEF CopiesTyped
<1>4. AnswerTyped
  BY DEF Init, AnswerTyped, NoAnswer
<1> QED BY <1>1, <1>2, <1>3, <1>4 DEF TypeInv

LEMMA NoneTyped == answer' = NoAnswer => AnswerTyped'
BY DEF AnswerTyped, NoAnswer

LEMMA CopiesStay == CopiesTyped /\ UNCHANGED <<indexCache, nodeCache>> => CopiesTyped'
BY DEF CopiesTyped

LEMMA ReopenTyped ==
  ASSUME TypeInv, NEW h \in Handles, Reopen(h)
  PROVE  TypeInv'
<1>1. TableTyped'
  <2>1. UNCHANGED <<segmentOnly, routed, tombs, merges, searches>> /\ opens < MaxOpens /\ opens' = opens + 1
    BY DEF Reopen, diskVars, manifestVars
  <2>2. {segmentOnly', routed'} \subseteq BOOLEAN /\ tombs' \subseteq DocIds
    BY <2>1 DEF TypeInv, TableTyped
  <2>3. opens' \in 0 .. MaxOpens /\ merges' \in 0 .. MaxMerges /\ searches' \in 0 .. MaxSearches
    BY <2>1, SearchAssumption DEF TypeInv, TableTyped
  <2> QED BY <2>2, <2>3 DEF TableTyped
<1>2. HandlesTyped'
  <2>1. PICK none : none = [known |-> FALSE, ids |-> {}]
    OBVIOUS
  <2>2. /\ joined' = [joined EXCEPT ![h] = {}] /\ session' = [session EXCEPT ![h] = FALSE]
        /\ tombCache' = [tombCache EXCEPT ![h] = none] /\ own' = own
    BY <2>1 DEF Reopen
  <2>3. none \in [known : BOOLEAN, ids : SUBSET DocIds]
    BY <2>1
  <2>4. joined' \in [Handles -> SUBSET (DocIds \ {0})] /\ session' \in [Handles -> BOOLEAN]
    BY <2>2 DEF TypeInv, HandlesTyped
  <2>5. tombCache' \in [Handles -> [known : BOOLEAN, ids : SUBSET DocIds]]
    BY <2>2, <2>3 DEF TypeInv, HandlesTyped
  <2>6. own' \in [Handles -> SUBSET DocIds]
    BY <2>2 DEF TypeInv, HandlesTyped
  <2> QED BY <2>4, <2>5, <2>6 DEF HandlesTyped
<1>3. CopiesTyped'
  <2>1. PICK none : none = [n \in Names |-> Absent]
    OBVIOUS
  <2>2. indexCache' = [indexCache EXCEPT ![h] = none] /\ nodeCache' = nodeCache
    BY <2>1 DEF Reopen
  <2>3. Absent \in Indexes /\ Absent.docs = {}
    BY DEF Absent, Indexes
  <2>4. none \in [Names -> Indexes] /\ \A n \in Names : IsFiniteSet(none[n].docs)
    BY <2>1, <2>3, FS_EmptySet
  <2>5. indexCache \in [Handles -> [Names -> Indexes]] /\ CopiesTyped
    BY DEF TypeInv, CopiesTyped
  <2>6. indexCache' \in [Handles -> [Names -> Indexes]] /\ \A g \in Handles : indexCache'[g] \in {none, indexCache[g]}
    BY <2>2, <2>4, <2>5
  <2>7. \A n \in Names, g \in Handles : IsFiniteSet(indexCache'[g][n].docs)
    BY <2>4, <2>5, <2>6 DEF CopiesTyped
  <2> QED BY <2>2, <2>5, <2>6, <2>7 DEF CopiesTyped
<1>4. AnswerTyped'
  BY NoneTyped DEF Reopen
<1> QED BY <1>1, <1>2, <1>3, <1>4 DEF TypeInv

LEMMA AddTyped ==
  ASSUME RowsApart, TypeInv, NEW h \in Handles, NEW batch \in Batches[added], AddDocuments(h, batch)
  PROVE  TypeInv'
<1>1. PICK docs, k, ids : docs = NewDocs(batch) /\ k = Cardinality(docs) /\ ids = {d.id : d \in docs} \ {0}
  OBVIOUS
<1>2. /\ added + k <= MaxDocs /\ joined' = [joined EXCEPT ![h] = joined[h] \cup ids]
      /\ UNCHANGED <<segmentOnly, routed, tombs, counters, session, tombCache, indexCache, nodeCache, own>>
  BY <1>1 DEF AddDocuments, FlushSegment, cacheVars
<1>3. k \in Nat /\ \A d \in docs : d.id \in Nat /\ d.id < added + k
  BY <1>1, NewDocsAre
<1>4. ids \in SUBSET (DocIds \ {0})
  <2>1. added \in Nat /\ MaxDocs \in Nat
    BY SearchAssumption DEF RowsApart
  <2>2. \A d \in docs : d.id \in DocIds
    BY <1>2, <1>3, <2>1 DEF DocIds
  <2> QED BY <1>1, <2>2
<1>5. TableTyped'
  BY <1>2 DEF TypeInv, TableTyped, counters
<1>6. HandlesTyped'
  <2>1. joined' \in [Handles -> SUBSET (DocIds \ {0})]
    BY <1>2, <1>4 DEF TypeInv, HandlesTyped
  <2> QED BY <1>2, <2>1 DEF TypeInv, HandlesTyped
<1>7. CopiesTyped' /\ AnswerTyped'
  BY <1>2, CopiesStay, NoneTyped DEF TypeInv, AddDocuments
<1> QED BY <1>5, <1>6, <1>7 DEF TypeInv

LEMMA SessionTyped ==
  ASSUME TypeInv, NEW h \in Handles, NEW on \in BOOLEAN, session' = [session EXCEPT ![h] = on],
         UNCHANGED <<joined, tombCache, own>>
  PROVE  HandlesTyped'
<1>1. session' \in [Handles -> BOOLEAN]
  BY DEF TypeInv, HandlesTyped
<1> QED BY <1>1 DEF TypeInv, HandlesTyped

LEMMA DeleteTyped ==
  ASSUME TypeInv, NEW h \in Handles, NEW id \in DocIds, DeleteById(h, id)
  PROVE  TypeInv'
<1>1. PICK none : none = [known |-> FALSE, ids |-> {}]
  OBVIOUS
<1>2. /\ tombs' = tombs \cup {id} /\ tombCache' = [tombCache EXCEPT ![h] = none]
      /\ own' = [own EXCEPT ![h] = own[h] \cup {id}]
      /\ UNCHANGED <<segmentOnly, routed, counters, joined, session, indexCache, nodeCache>>
  BY <1>1 DEF DeleteById, Forgotten, manifestVars, handleVars
<1>3. TableTyped'
  BY <1>2 DEF TypeInv, TableTyped, counters
<1>4. HandlesTyped'
  <2>1. none \in [known : BOOLEAN, ids : SUBSET DocIds]
    BY <1>1
  <2>2. tombCache' \in [Handles -> [known : BOOLEAN, ids : SUBSET DocIds]]
    BY <1>2, <2>1 DEF TypeInv, HandlesTyped
  <2>3. own' \in [Handles -> SUBSET DocIds]
    BY <1>2 DEF TypeInv, HandlesTyped
  <2> QED BY <1>2, <2>2, <2>3 DEF TypeInv, HandlesTyped
<1>5. CopiesTyped' /\ AnswerTyped'
  BY <1>2, CopiesStay, NoneTyped DEF TypeInv, DeleteById
<1> QED BY <1>3, <1>4, <1>5 DEF TypeInv

LEMMA TypedStep == GhostInv /\ KnownInv /\ TypeInv /\ [Next]_vars => TypeInv'
<1> SUFFICES ASSUME GhostInv, KnownInv, TypeInv, [Next]_vars PROVE TypeInv'
  OBVIOUS
<1>1. RowsApart /\ TableTyped /\ HandlesTyped /\ CopiesTyped /\ AnswerTyped
  BY DEF GhostInv, TypeInv
<1>2. ASSUME UNCHANGED <<joined, session, tombCache, own>> PROVE HandlesTyped'
  BY <1>1, <1>2 DEF HandlesTyped
<1>3. ASSUME NEW h \in Handles, NEW batch \in Batches[added], AddDocuments(h, batch) PROVE TypeInv'
  BY <1>1, <1>3, AddTyped
<1>4. ASSUME NEW h \in Handles, NEW batch \in Batches[added], BulkAdd(h, batch) PROVE TypeInv'
  <2>1. UNCHANGED <<segmentOnly, routed, tombs, counters, handleVars, cacheVars, own>> /\ answer' = NoAnswer
    BY <1>4 DEF BulkAdd
  <2>2. TableTyped'
    BY <1>1, <2>1 DEF TableTyped, counters
  <2> QED BY <1>1, <1>2, <2>1, <2>2, CopiesStay, NoneTyped DEF TypeInv, handleVars, cacheVars
<1>5. ASSUME NEW h \in Handles, BeginBulkIngest(h) PROVE TypeInv'
  <2>1. /\ session' = [session EXCEPT ![h] = TRUE] /\ segmentOnly' = TRUE /\ answer' = NoAnswer
        /\ UNCHANGED <<routed, tombs, counters, joined, cacheVars, own>>
    BY <1>5 DEF BeginBulkIngest
  <2>2. TableTyped'
    BY <1>1, <2>1 DEF TableTyped, counters
  <2>3. HandlesTyped'
    BY <2>1, SessionTyped DEF cacheVars
  <2> QED BY <1>1, <2>1, <2>2, <2>3, CopiesStay, NoneTyped DEF TypeInv, cacheVars
<1>6. ASSUME NEW h \in Handles, FinishBulkIngest(h) PROVE TypeInv'
  <2>1. /\ session' = [session EXCEPT ![h] = FALSE] /\ routed' \in BOOLEAN /\ answer' = NoAnswer
        /\ UNCHANGED <<segmentOnly, tombs, counters, joined, cacheVars, own>>
    BY <1>6 DEF FinishBulkIngest
  <2>2. TableTyped'
    BY <1>1, <2>1 DEF TableTyped, counters
  <2>3. HandlesTyped'
    BY <2>1, SessionTyped DEF cacheVars
  <2> QED BY <1>1, <2>1, <2>2, <2>3, CopiesStay, NoneTyped DEF TypeInv, cacheVars
<1>7. ASSUME NEW h \in Handles, NEW id \in DocIds, DeleteById(h, id) PROVE TypeInv'
  BY <1>7, DeleteTyped
<1>8. ASSUME NEW h \in Handles, CompactTable(h) PROVE TypeInv'
  <2>1. /\ merges < MaxMerges /\ merges' = merges + 1 /\ tombs' \subseteq tombs /\ answer' = NoAnswer
        /\ UNCHANGED <<segmentOnly, routed, searches, opens, handleVars, cacheVars, own>>
    BY <1>8 DEF CompactTable
  <2>2. merges' \in 0 .. MaxMerges
    BY <1>1, <2>1, SearchAssumption DEF TableTyped
  <2>3. TableTyped'
    BY <1>1, <2>1, <2>2 DEF TableTyped
  <2> QED BY <1>1, <1>2, <2>1, <2>3, CopiesStay, NoneTyped DEF TypeInv, handleVars, cacheVars
<1>9. ASSUME NEW h \in Handles, Reopen(h) PROVE TypeInv'
  BY <1>9, ReopenTyped
<1>10. ASSUME NEW h \in Handles, NEW w \in Queries, NEW offset \in Offsets, NEW graph \in Graphs,
              NEW cluster \in BOOLEAN, NEW served \in 0 .. NumSegments, Search(h, w, offset, graph, cluster, served)
       PROVE  TypeInv'
  BY <1>10, SearchTyped
<1>11. CASE UNCHANGED vars
  <2>1. UNCHANGED <<segmentOnly, routed, tombs, counters, handleVars, cacheVars, own, answer>>
    BY <1>11 DEF vars, diskVars, manifestVars
  <2>2. TableTyped'
    BY <1>1, <2>1 DEF TableTyped, counters
  <2>3. AnswerTyped'
    BY <1>1, <2>1 DEF AnswerTyped
  <2> QED BY <1>1, <1>2, <2>1, <2>2, <2>3, CopiesStay DEF TypeInv, handleVars, cacheVars
<1> QED BY <1>3, <1>4, <1>5, <1>6, <1>7, <1>8, <1>9, <1>10, <1>11 DEF Next

LEMMA TypedIsOK == GhostInv /\ KnownInv /\ TypeInv => TypeOK
<1> SUFFICES ASSUME GhostInv, KnownInv, TypeInv PROVE TypeOK
  OBVIOUS
<1>1. segments \in Seq(Names) /\ Cardinality(Listed) = Len(segments)
  <2>1. segments \in Seq(Names) /\ IsInjective(segments)
    BY DEF GhostInv, RowsApart
  <2>2. PICK n \in Nat : n = Len(segments)
    BY <2>1
  <2>3. DOMAIN segments = 1 .. n /\ IsFiniteSet(1 .. n) /\ Cardinality(1 .. n) = n
    <3>1. DOMAIN segments = 1 .. n
      BY <2>1, <2>2
    <3>2. IsFiniteSet(1 .. n) /\ Cardinality(1 .. n) = n
      BY FS_Interval
    <3> QED BY <3>1, <3>2
  <2>4. segments \in Surjection(1 .. n, Listed)
    BY <2>1, <2>3 DEF Surjection, Listed, ToSet
  <2>5. segments \in Injection(1 .. n, Listed)
    BY <2>1, <2>3, <2>4 DEF Injection, Surjection, IsInjective
  <2>6. Cardinality(Listed) = n
    BY <2>3, <2>4, <2>5, FS_Surjection
  <2> QED BY <2>1, <2>2, <2>6
<1>2. {segmentOnly, routed} \subseteq BOOLEAN /\ tombs \subseteq DocIds
      /\ merges \in 0 .. MaxMerges /\ searches \in 0 .. MaxSearches /\ opens \in 0 .. MaxOpens
  BY DEF TypeInv, TableTyped
<1>3. \A n \in Names : rows[n] \subseteq Docs /\ IsIndex(index[n])
  BY DEF GhostInv, RowsApart, IndexesTrue, IsIndex
<1>4. added \in 0 .. MaxDocs
  BY DEF GhostInv, RowsApart
<1>5. IsRoute(route) /\ \A h \in Handles : IsRoute(routeCache[h])
  BY DEF GhostInv, CachesKept, IsRoute
<1>6. \A h \in Handles : mem[h] \subseteq Docs
  BY DEF KnownInv, CorporaApart
<1>7. \A h \in Handles : joined[h] \subseteq DocIds /\ own[h] \subseteq DocIds
  BY DEF TypeInv, HandlesTyped
<1>8. \A h \in Handles : session[h] \in BOOLEAN
  BY DEF TypeInv, HandlesTyped
<1>9. \A h \in Handles : tombCache[h].known \in BOOLEAN /\ tombCache[h].ids \subseteq DocIds
  BY DEF TypeInv, HandlesTyped
<1>10. \A h \in Handles : \A n \in Names : IsIndex(indexCache[h][n])
  BY DEF TypeInv, CopiesTyped, Indexes, IsIndex
<1>11. \A v \in 0 .. Nodes - 1 : \A n \in Names : IsIndex(nodeCache[v][n])
  BY DEF TypeInv, CopiesTyped, Indexes, IsIndex
<1>12. answer.via # "nothing" => IsCandidates(answer.page) /\ IsCandidates(answer.found)
  BY DEF TypeInv, AnswerTyped
<1> QED BY <1>1, <1>2, <1>3, <1>4, <1>5, <1>6, <1>7, <1>8, <1>9, <1>10, <1>11, <1>12, Zenon DEF TypeOK

\* Every variable keeps its type, for any table: the places of a route are places the
\* table has had, the index a cache keeps is one of documents, though its file be gone,
\* and a page consists of ids that were given out, with a score, also where the graph
\* widens the candidates (graph_expand) and rank fusion adds up reciprocals (fusion.rs
\* rrf_merge): an id the graph joins to a candidate is never below the first nor above
\* the last.
THEOREM SearchTypes == Spec => []TypeOK
BY GhostInit, GhostStep, KnownInit, KnownStep, TypedInit, TypedStep, TypedIsOK, PTL DEF Spec
=============================================================================
