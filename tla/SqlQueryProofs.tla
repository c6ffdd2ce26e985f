--------------------------- MODULE SqlQueryProofs ----------------------------
(***************************************************************************)
(* Proofs about SqlQuery: a table scan that runs while its table changes,  *)
(* and pulling the rows of an answer that was fixed when it was bound.     *)
(***************************************************************************)
EXTENDS SqlQuery, FiniteSetTheorems, SequenceTheorems, TLAPS

-----------------------------------------------------------------------------
\* R puts the members of S in one line.
Lines(R, S) ==
  /\ \A x \in S : <<x, x>> \notin R
  /\ \A x, y \in S : x = y \/ <<x, y>> \in R \/ <<y, x>> \in R
  /\ \A x, y, z \in S : <<x, y>> \in R /\ <<y, z>> \in R => <<x, z>> \in R

\* The places in that line, and the members of S by their places.
PlacesIn(R, S) == [x \in S |-> Cardinality({y \in S : <<y, x>> \in R}) + 1]
ListedBy(place, S) == [n \in 1 .. Cardinality(S) |-> CHOOSE x \in S : place[x] = n]

\* Places in such a line are distinct and grow along it.
LEMMA PlaceBounds ==
  ASSUME NEW R, NEW S, IsFiniteSet(S), Lines(R, S), NEW place, place = PlacesIn(R, S)
  PROVE  /\ Cardinality(S) \in Nat
         /\ \A x \in S : place[x] \in 1 .. Cardinality(S)
         /\ \A x, y \in S : <<x, y>> \in R => place[x] < place[y]
<1> DEFINE below(x) == {y \in S : <<y, x>> \in R}
<1>0. \A x \in S : place[x] = Cardinality(below(x)) + 1
  BY DEF PlacesIn
<1>1. Cardinality(S) \in Nat
  BY FS_CardinalityType
<1>2. ASSUME NEW x \in S
      PROVE  /\ IsFiniteSet(below(x)) /\ Cardinality(below(x)) \in 0 .. Cardinality(S) - 1
             /\ place[x] = Cardinality(below(x)) + 1
  <2>1. IsFiniteSet(S \ {x}) /\ Cardinality(S \ {x}) = Cardinality(S) - 1
    BY FS_RemoveElement
  <2>2. below(x) \in SUBSET (S \ {x})
    BY DEF Lines
  <2>3. IsFiniteSet(below(x)) /\ Cardinality(below(x)) <= Cardinality(S \ {x})
    BY <2>1, <2>2, FS_Subset
  <2>4. Cardinality(below(x)) \in Nat
    BY <2>3, FS_CardinalityType
  <2>5. place[x] = Cardinality(below(x)) + 1
    BY <1>0
  <2> QED
    BY <1>1, <2>1, <2>3, <2>4, <2>5
<1>3. ASSUME NEW x \in S, NEW y \in S, <<x, y>> \in R PROVE place[x] < place[y]
  <2>1. below(x) \in SUBSET below(y) /\ x \in below(y) /\ x \notin below(x)
    BY <1>3 DEF Lines
  <2>2. IsFiniteSet(below(y))
    <3> HIDE DEF below
    <3> QED
      BY ONLY <1>2, y \in S
  <2>3. Cardinality(below(x)) <= Cardinality(below(y)) /\ Cardinality(below(x)) # Cardinality(below(y))
    BY <2>1, <2>2, FS_Subset
  <2>4. /\ place[x] = Cardinality(below(x)) + 1 /\ place[y] = Cardinality(below(y)) + 1
        /\ Cardinality(below(x)) \in Int /\ Cardinality(below(y)) \in Int
    <3> HIDE DEF below
    <3> QED
      BY ONLY <1>1, <1>2, x \in S, y \in S
  <2> HIDE DEF below
  <2> QED
    BY <2>3, <2>4
<1>4. ASSUME NEW x \in S PROVE place[x] \in 1 .. Cardinality(S)
  <2> HIDE DEF below
  <2> QED
    BY <1>1, <1>2
<1> QED
  BY <1>1, <1>3, <1>4

\* A set listed by place has every member once, along the line.
LEMMA Listing ==
  ASSUME NEW R, NEW S, IsFiniteSet(S), Lines(R, S), NEW place, place = PlacesIn(R, S),
         NEW list, list = ListedBy(place, S)
  PROVE  /\ list \in Seq(S) /\ Len(list) = Cardinality(S) /\ DOMAIN list = 1 .. Len(list)
         /\ \A n \in DOMAIN list : list[n] \in S
         /\ \A m, n \in DOMAIN list : m < n => <<list[m], list[n]>> \in R
         /\ \A x \in S : \E n \in DOMAIN list : list[n] = x
<1> DEFINE T == 1 .. Cardinality(S)
<1>0. Lines(R, S) /\ DOMAIN place = S
  BY DEF PlacesIn
<1>1. Cardinality(S) \in Nat /\ (\A x \in S : place[x] \in T)
      /\ \A x, y \in S : <<x, y>> \in R => place[x] < place[y]
  <2> HIDE DEF T
  <2> QED
    BY PlaceBounds DEF T
<1>2. ASSUME NEW x \in S, NEW y \in S, place[x] = place[y] PROVE x = y
  <2>1. place[x] \in Int
    BY <1>1
  <2>2. <<x, y>> \notin R /\ <<y, x>> \notin R
    BY ONLY <1>1, <1>2, <2>1, x \in S, y \in S
  <2> QED
    BY ONLY <1>0, <2>2, x \in S, y \in S DEF Lines
<1>3. place \in Injection(S, T)
  <2>1. place \in [S -> T]
    BY <1>1 DEF PlacesIn
  <2> QED
    BY <1>2, <2>1 DEF Injection, IsInjective
<1>4. IsFiniteSet(T) /\ Cardinality(T) = Cardinality(S)
  <2>1. 1 \in Int /\ Cardinality(S) \in Int
    BY <1>1
  <2>2. IsFiniteSet(T)
        /\ Cardinality(T) = IF 1 > Cardinality(S) THEN 0 ELSE Cardinality(S) - 1 + 1
    BY <2>1, FS_Interval
  <2> QED
    BY <1>1, <2>2
<1>5. \A n \in T : \E x \in S : place[x] = n
  <2>1. place \in Surjection(S, T)
    BY <1>3, <1>4, FS_Injection
  <2> QED
    BY <2>1 DEF Surjection
<1>6. ASSUME NEW n \in T PROVE list[n] \in S /\ place[list[n]] = n
  <2>1. \E x \in S : place[x] = n
    BY <1>5
  <2>2. list[n] = CHOOSE x \in S : place[x] = n
    BY DEF ListedBy
  <2> QED
    BY <2>1, <2>2
<1>7. list \in Seq(S) /\ Len(list) = Cardinality(S) /\ DOMAIN list = T
  <2>1. list \in [T -> S]
    BY <1>6 DEF ListedBy
  <2> QED
    BY ONLY <1>1, <2>1, SeqDef, LenProperties
<1>8. ASSUME NEW m \in T, NEW n \in T, m < n PROVE <<list[m], list[n]>> \in R
  <2>1. list[m] \in S /\ list[n] \in S /\ place[list[m]] = m /\ place[list[n]] = n
    BY <1>6
  <2>2. list[m] # list[n] /\ <<list[n], list[m]>> \notin R
    BY ONLY <1>1, <1>8, <2>1, m \in T, n \in T
  <2> QED
    BY ONLY <1>0, <2>1, <2>2 DEF Lines
<1>9. ASSUME NEW x \in S PROVE \E n \in T : list[n] = x
  <2>1. place[x] \in T
    BY <1>1
  <2>2. list[place[x]] \in S /\ place[list[place[x]]] = place[x]
    BY <1>6, <2>1
  <2>3. list[place[x]] = x
    BY <1>2, <2>2
  <2> QED
    BY <2>1, <2>3
<1> QED
  BY <1>6, <1>7, <1>8, <1>9

-----------------------------------------------------------------------------
\* Tables and lists of rows.
RowValues == [DOMAIN Schema -> {Null} \cup Int]
RowSet == [id : Nat, values : RowValues]
TableOK == table \in Seq({Gone} \cup RowValues)

\* The record ids of a table are the positions of its rows.
LEMMA IdsAreFinite ==
  ASSUME TableOK
  PROVE  /\ Len(table) \in Nat /\ Ids \in SUBSET (1 .. Len(table)) /\ IsFiniteSet(Ids)
         /\ Ids \in SUBSET Nat /\ \A i \in Ids : table[i] \in RowValues
<1>1. Len(table) \in Nat /\ DOMAIN table = 1 .. Len(table)
  BY DEF TableOK
<1>2. Ids \in SUBSET (1 .. Len(table))
  BY <1>1 DEF Ids
<1>3. IsFiniteSet(1 .. Len(table))
  BY <1>1, FS_Interval
<1>4. IsFiniteSet(Ids)
  BY <1>2, <1>3, FS_Subset
<1>5. ASSUME NEW i \in Ids PROVE table[i] \in RowValues
  BY <1>1 DEF Ids, TableOK
<1> QED
  BY <1>1, <1>2, <1>4, <1>5

\* Numbers in ascending order are a line.
LEMMA NumbersLine ==
  ASSUME NEW I \in SUBSET Nat, IsFiniteSet(I),
         NEW list, list = Sorted(I, LAMBDA i, j : i < j)
  PROVE  /\ list \in Seq(I) /\ Len(list) = Cardinality(I) /\ DOMAIN list = 1 .. Len(list)
         /\ \A n \in DOMAIN list : list[n] \in I
         /\ \A m, n \in DOMAIN list : m < n => list[m] < list[n]
         /\ \A i \in I : \E n \in DOMAIN list : list[n] = i
<1> DEFINE R == {e \in I \X I : e[1] < e[2]}
           place == [x \in I |-> Cardinality({y \in I : y < x}) + 1]
<1>0. \A x \in I : x \in Int
  BY ONLY I \in SUBSET Nat
<1>1. \A x, y \in I : <<x, y>> \in R <=> x < y
  OBVIOUS
<1>2. Lines(R, I)
  <2> HIDE DEF R
  <2> QED
    BY ONLY <1>0, <1>1 DEF Lines
<1>3. \A x \in I : {y \in I : y < x} = {y \in I : <<y, x>> \in R}
  <2> HIDE DEF R
  <2> QED
    BY <1>1
<1>4. place = PlacesIn(R, I)
  <2> HIDE DEF R
  <2> QED
    BY <1>3 DEF PlacesIn
<1>5. list = ListedBy(place, I)
  BY DEF Sorted, ListedBy
<1>6. IsFiniteSet(I)
  OBVIOUS
<1> HIDE DEF R, place
<1>7. /\ list \in Seq(I) /\ Len(list) = Cardinality(I) /\ DOMAIN list = 1 .. Len(list)
      /\ \A n \in DOMAIN list : list[n] \in I
      /\ \A m, n \in DOMAIN list : m < n => <<list[m], list[n]>> \in R
      /\ \A x \in I : \E n \in DOMAIN list : list[n] = x
  BY ONLY <1>2, <1>4, <1>5, <1>6, Listing
<1> QED
  BY ONLY <1>1, <1>7

\* There is a first of them.
LEMMA SmallestNumber ==
  ASSUME NEW S \in SUBSET Nat, IsFiniteSet(S), S # {}
  PROVE  \E m \in S : \A k \in S : m <= k
<1> DEFINE list == Sorted(S, LAMBDA i, j : i < j)
<1>1. /\ list \in Seq(S) /\ Len(list) = Cardinality(S) /\ DOMAIN list = 1 .. Len(list)
      /\ \A n \in DOMAIN list : list[n] \in S
      /\ \A m, n \in DOMAIN list : m < n => list[m] < list[n]
      /\ \A i \in S : \E n \in DOMAIN list : list[n] = i
  BY NumbersLine
<1> HIDE DEF list
<1>2. PICK x \in S : TRUE
  BY ONLY S # {}
<1>3. 1 \in DOMAIN list
  BY ONLY <1>1, <1>2
<1>4. ASSUME NEW k \in S PROVE list[1] <= k
  <2>1. PICK n \in DOMAIN list : list[n] = k
    BY ONLY <1>1
  <2>2. n = 1 \/ list[1] < list[n]
    BY ONLY <1>1, <1>3
  <2>3. list[1] \in Nat /\ list[n] \in Nat
    BY ONLY <1>1, <1>3, S \in SUBSET Nat
  <2> QED
    BY ONLY <2>1, <2>2, <2>3
<1> QED
  BY ONLY <1>1, <1>3, <1>4

\* Rows listed by record id.
LEMMA ByIdLists ==
  ASSUME TableOK, NEW I \in SUBSET Ids, NEW rows, rows = ById(I)
  PROVE  /\ rows \in Seq(RowSet)
         /\ \A n \in DOMAIN rows : rows[n].id \in I /\ rows[n].values = table[rows[n].id]
         /\ \A m, n \in DOMAIN rows : m < n => rows[m].id < rows[n].id
         /\ \A i \in I : \E n \in DOMAIN rows : rows[n].id = i
<1> DEFINE ids == Sorted(I, LAMBDA i, j : i < j)
<1>1. I \in SUBSET Nat /\ IsFiniteSet(I) /\ \A i \in I : table[i] \in RowValues
  BY IdsAreFinite, FS_Subset
<1>2. rows = [n \in DOMAIN ids |-> [id |-> ids[n], values |-> table[ids[n]]]]
  BY DEF ById, RowsOf
<1> HIDE DEF ids
<1>3. /\ ids \in Seq(I) /\ Len(ids) = Cardinality(I) /\ DOMAIN ids = 1 .. Len(ids)
      /\ \A n \in DOMAIN ids : ids[n] \in I
      /\ \A m, n \in DOMAIN ids : m < n => ids[m] < ids[n]
      /\ \A i \in I : \E n \in DOMAIN ids : ids[n] = i
  BY <1>1, NumbersLine DEF ids
<1>4. Len(ids) \in Nat
  BY <1>3
<1>5. ASSUME NEW n \in DOMAIN ids
      PROVE  rows[n] \in RowSet /\ rows[n].id = ids[n] /\ rows[n].values = table[ids[n]]
  <2>1. ids[n] \in I /\ ids[n] \in Nat /\ table[ids[n]] \in RowValues
    BY <1>1, <1>3
  <2> QED
    BY <1>2, <2>1 DEF RowSet
<1>6. rows \in Seq(RowSet) /\ DOMAIN rows = DOMAIN ids
  <2>1. DOMAIN rows = 1 .. Len(ids) /\ rows \in [1 .. Len(ids) -> RowSet]
    BY <1>2, <1>3, <1>5
  <2> QED
    BY ONLY <1>3, <1>4, <2>1, SeqDef
<1> QED
  BY <1>3, <1>5, <1>6

-----------------------------------------------------------------------------
\* kept has the rows that satisfy the predicates at these places, and sorted has
\* all of them, those of smaller places first among equals.
Keeps(places, rows, kept) ==
  /\ DOMAIN places = DOMAIN kept
  /\ \A n \in DOMAIN kept :
       places[n] \in DOMAIN rows /\ kept[n] = rows[places[n]] /\ Satisfies(kept[n].values)
  /\ \A m, n \in DOMAIN kept : m < n => places[m] < places[n]
  /\ \A m \in DOMAIN rows :
       Satisfies(rows[m].values) => \E n \in DOMAIN kept : places[n] = m
Arranges(places, rows, sorted) ==
  /\ DOMAIN places = DOMAIN rows
  /\ \A n \in DOMAIN rows : places[n] \in DOMAIN rows /\ sorted[n] = rows[places[n]]
  /\ \A m, n \in DOMAIN rows : m < n =>
       \/ RowLess(sorted[m], sorted[n])
       \/ ~RowLess(sorted[n], sorted[m]) /\ places[m] < places[n]
  /\ \A m \in DOMAIN rows : \E n \in DOMAIN rows : places[n] = m

\* A filter keeps the rows that satisfy the predicates, in their order.
LEMMA FilteredLists ==
  ASSUME NEW S, NEW rows \in Seq(S), NEW kept, kept = Filtered(rows)
  PROVE  kept \in Seq(S) /\ \E places \in Seq(Nat) : Keeps(places, rows, kept)
<1> DEFINE places == Sorted(Passing(rows), LAMBDA m, n : m < n)
<1>1. Len(rows) \in Nat /\ DOMAIN rows = 1 .. Len(rows)
  BY ONLY rows \in Seq(S)
<1>2. Passing(rows) \in SUBSET (1 .. Len(rows))
  BY ONLY <1>1 DEF Passing
<1>3. IsFiniteSet(1 .. Len(rows))
  BY ONLY <1>1, FS_Interval
<1>4. Passing(rows) \in SUBSET Nat /\ IsFiniteSet(Passing(rows))
  BY ONLY <1>1, <1>2, <1>3, FS_Subset
<1>5. kept = [n \in DOMAIN places |-> rows[places[n]]]
  BY ONLY kept = Filtered(rows) DEF Filtered
<1>6. /\ places \in Seq(Passing(rows)) /\ Len(places) = Cardinality(Passing(rows))
      /\ DOMAIN places = 1 .. Len(places)
      /\ \A n \in DOMAIN places : places[n] \in Passing(rows)
      /\ \A m, n \in DOMAIN places : m < n => places[m] < places[n]
      /\ \A i \in Passing(rows) : \E n \in DOMAIN places : places[n] = i
  BY ONLY <1>4, NumbersLine
<1> HIDE DEF places
<1>7. places \in Seq(Nat) /\ Len(places) \in Nat
  BY ONLY <1>4, <1>6
<1>8. ASSUME NEW n \in DOMAIN kept
      PROVE  places[n] \in DOMAIN rows /\ kept[n] = rows[places[n]] /\ Satisfies(kept[n].values)
  BY ONLY <1>5, <1>6, <1>8 DEF Passing
<1>9. kept \in Seq(S)
  <2>1. DOMAIN kept = 1 .. Len(places) /\ kept = [n \in DOMAIN kept |-> kept[n]]
    BY ONLY <1>5, <1>6
  <2>2. \A n \in DOMAIN kept : kept[n] \in S
    BY ONLY <1>1, <1>8, rows \in Seq(S)
  <2>3. kept \in [1 .. Len(places) -> S]
    BY ONLY <2>1, <2>2
  <2> QED
    BY ONLY <1>7, <2>3, SeqDef
<1>10. \A m \in DOMAIN rows : Satisfies(rows[m].values) => m \in Passing(rows)
  BY ONLY TRUE DEF Passing
<1>11. DOMAIN places = DOMAIN kept
  BY ONLY <1>5
<1>12. Keeps(places, rows, kept)
  BY ONLY <1>6, <1>8, <1>10, <1>11 DEF Keeps
<1> QED
  BY ONLY <1>7, <1>9, <1>12

\* The order asked for puts rows in classes.
OrderOK == order.column \in Resolved
LEMMA RowLessOrder ==
  ASSUME OrderOK
  PROVE  /\ \A r, s \in RowSet : RowLess(r, s) => ~RowLess(s, r)
         /\ \A r, s, t \in RowSet : RowLess(r, t) => RowLess(r, s) \/ RowLess(s, t)
<1> DEFINE c == ColumnOf[order.column]
<1>1. c \in DOMAIN Schema
  BY DEF OrderOK, ColumnOf, Resolved
<1> HIDE DEF c
<1>2. ASSUME NEW r \in RowSet PROVE r.values[c] = Null \/ r.values[c] \in Int
  <2>1. r.values \in [DOMAIN Schema -> {Null} \cup Int]
    BY DEF RowSet, RowValues
  <2> QED
    BY ONLY <1>1, <2>1
<1>3. ASSUME NEW r, NEW s
      PROVE RowLess(r, s)
              <=> IF r.values[c] = Null \/ s.values[c] = Null THEN r.values[c] # Null /\ s.values[c] = Null
                ELSE IF order.descending THEN s.values[c] < r.values[c] ELSE r.values[c] < s.values[c]
  BY ONLY TRUE DEF RowLess, c
<1>4. ASSUME NEW r \in RowSet, NEW s \in RowSet, RowLess(r, s) PROVE ~RowLess(s, r)
  BY ONLY <1>2, <1>3, <1>4
<1>5. ASSUME NEW r \in RowSet, NEW s \in RowSet, NEW t \in RowSet, RowLess(r, t)
      PROVE  RowLess(r, s) \/ RowLess(s, t)
  BY ONLY <1>2, <1>3, <1>5
<1> QED
  BY ONLY <1>4, <1>5

\* A stable sort gives every row once; equal ones keep their order.
LEMMA StableSortLists ==
  ASSUME OrderOK, NEW rows \in Seq(RowSet), NEW sorted, sorted = StableSort(rows)
  PROVE  /\ sorted \in Seq(RowSet) /\ Len(sorted) = Len(rows)
         /\ \E places \in Seq(Nat) : Arranges(places, rows, sorted)
<1> DEFINE D == DOMAIN rows
           less(m, n) == RowLess(rows[m], rows[n])
           before(m, n) == IF m < n THEN ~RowLess(rows[n], rows[m]) ELSE RowLess(rows[m], rows[n])
           places == Sorted(D, before)
           R == {e \in D \X D : before(e[1], e[2])}
           place == [x \in D |-> Cardinality({y \in D : before(y, x)}) + 1]
<1>1. Len(rows) \in Nat /\ D = 1 .. Len(rows) /\ \A n \in D : rows[n] \in RowSet /\ n \in Int
  BY ONLY rows \in Seq(RowSet)
<1>2. IsFiniteSet(D) /\ Cardinality(D) = Len(rows)
  <2>1. /\ IsFiniteSet(1 .. Len(rows))
        /\ Cardinality(1 .. Len(rows)) = IF 1 > Len(rows) THEN 0 ELSE Len(rows) - 1 + 1
    BY ONLY <1>1, FS_Interval
  <2> QED
    BY ONLY <1>1, <2>1
<1>3. /\ \A m, n \in D : less(m, n) => ~less(n, m)
      /\ \A m, n, k \in D : less(m, k) => less(m, n) \/ less(n, k)
  <2> HIDE DEF D
  <2> QED
    BY <1>1, RowLessOrder
<1>4. \A m, n \in D : <<m, n>> \in R <=> IF m < n THEN ~less(n, m) ELSE less(m, n)
  <2> HIDE DEF D
  <2> QED
    BY ONLY TRUE DEF R
<1>5. Lines(R, D)
  <2> HIDE DEF R, D, less
  <2> QED
    BY ONLY <1>1, <1>3, <1>4 DEF Lines
<1>6. place = PlacesIn(R, D)
  <2>1. \A x \in D : {y \in D : before(y, x)} = {y \in D : <<y, x>> \in R}
    <3> HIDE DEF D, before
    <3> QED
      BY ONLY TRUE DEF R
  <2> HIDE DEF D, R, before
  <2> QED
    BY ONLY <2>1 DEF place, PlacesIn
<1>7. places = ListedBy(place, D)
  <2> HIDE DEF D
  <2> QED
    BY ONLY TRUE DEF Sorted, ListedBy
<1>8. sorted = [n \in D |-> rows[places[n]]]
  BY ONLY sorted = StableSort(rows) DEF StableSort
<1> HIDE DEF R, D, place, places, less, before
<1>9. /\ places \in Seq(D) /\ Len(places) = Cardinality(D) /\ DOMAIN places = 1 .. Len(places)
      /\ \A n \in DOMAIN places : places[n] \in D
      /\ \A m, n \in DOMAIN places : m < n => <<places[m], places[n]>> \in R
      /\ \A x \in D : \E n \in DOMAIN places : places[n] = x
  BY ONLY <1>2, <1>5, <1>6, <1>7, Listing
<1>10. DOMAIN places = D /\ places \in Seq(Nat)
  BY ONLY <1>1, <1>2, <1>9
<1>11. ASSUME NEW n \in D PROVE places[n] \in D /\ sorted[n] = rows[places[n]]
  BY ONLY <1>8, <1>9, <1>10, n \in D
<1>12. ASSUME NEW m \in D, NEW n \in D, m < n
       PROVE  \/ RowLess(sorted[m], sorted[n])
              \/ ~RowLess(sorted[n], sorted[m]) /\ places[m] < places[n]
  <2>1. places[m] \in D /\ places[n] \in D /\ <<places[m], places[n]>> \in R
    BY ONLY <1>9, <1>10, <1>12
  <2>2. IF places[m] < places[n] THEN ~less(places[n], places[m]) ELSE less(places[m], places[n])
    BY ONLY <1>4, <2>1
  <2>3. sorted[m] = rows[places[m]] /\ sorted[n] = rows[places[n]]
    BY ONLY <1>11, <1>12
  <2> QED
    BY ONLY <2>2, <2>3 DEF less
<1>13. sorted \in Seq(RowSet) /\ Len(sorted) = Len(rows)
  <2>1. sorted \in [1 .. Len(rows) -> RowSet]
    BY ONLY <1>1, <1>8, <1>11
  <2> QED
    BY ONLY <1>1, <2>1, SeqDef, LenProperties
<1>14. Arranges(places, rows, sorted)
  BY ONLY <1>9, <1>10, <1>11, <1>12 DEF Arranges, D
<1> QED
  BY ONLY <1>10, <1>13, <1>14

-----------------------------------------------------------------------------
\* kept has the rows with record ids lo .. hi that satisfy the predicates.
Brings(kept, lo, hi) ==
  /\ kept \in Seq(RowSet)
  /\ \A n \in DOMAIN kept :
       /\ kept[n].id \in Ids /\ lo <= kept[n].id /\ kept[n].id <= hi
       /\ kept[n].values = table[kept[n].id] /\ Satisfies(kept[n].values)
  /\ \A m, n \in DOMAIN kept : m < n => kept[m].id < kept[n].id
  /\ \A i \in Selected : lo <= i /\ i <= hi => \E n \in DOMAIN kept : kept[n].id = i

\* That is what the filters leave of them.
LEMMA FilterBrings ==
  ASSUME TableOK, NEW lo \in Int, NEW hi \in Int,
         NEW rows, rows = ById({i \in Ids : lo <= i /\ i <= hi}), NEW kept, kept = Filtered(rows)
  PROVE  Brings(kept, lo, hi)
<1> DEFINE I == {i \in Ids : lo <= i /\ i <= hi}
<1>1. I \in SUBSET Ids /\ rows = ById(I) /\ TableOK
  OBVIOUS
<1>2. \A i : i \in I <=> i \in Ids /\ lo <= i /\ i <= hi
  OBVIOUS
<1> HIDE DEF I
<1>3. /\ rows \in Seq(RowSet)
      /\ \A n \in DOMAIN rows : rows[n].id \in I /\ rows[n].values = table[rows[n].id]
      /\ \A m, n \in DOMAIN rows : m < n => rows[m].id < rows[n].id
      /\ \A i \in I : \E n \in DOMAIN rows : rows[n].id = i
  BY ONLY <1>1, ByIdLists
<1>4. kept \in Seq(RowSet) /\ \E places \in Seq(Nat) : Keeps(places, rows, kept)
  BY ONLY <1>3, kept = Filtered(rows), FilteredLists
<1>5. PICK places \in Seq(Nat) : Keeps(places, rows, kept)
  BY ONLY <1>4
<1>6. ASSUME NEW n \in DOMAIN kept
      PROVE  /\ kept[n].id \in Ids /\ lo <= kept[n].id /\ kept[n].id <= hi
             /\ kept[n].values = table[kept[n].id] /\ Satisfies(kept[n].values)
  <2>1. places[n] \in DOMAIN rows /\ kept[n] = rows[places[n]] /\ Satisfies(kept[n].values)
    BY ONLY <1>5, <1>6 DEF Keeps
  <2> QED
    BY ONLY <1>2, <1>3, <2>1
<1>7. ASSUME NEW m \in DOMAIN kept, NEW n \in DOMAIN kept, m < n PROVE kept[m].id < kept[n].id
  <2>1. /\ places[m] \in DOMAIN rows /\ kept[m] = rows[places[m]]
        /\ places[n] \in DOMAIN rows /\ kept[n] = rows[places[n]] /\ places[m] < places[n]
    BY ONLY <1>5, <1>7 DEF Keeps
  <2> QED
    BY ONLY <1>3, <2>1
<1>8. ASSUME NEW i \in Selected, lo <= i, i <= hi PROVE \E n \in DOMAIN kept : kept[n].id = i
  <2>1. i \in I /\ Satisfies(table[i])
    BY ONLY <1>2, <1>8 DEF Selected
  <2>2. PICK m \in DOMAIN rows : rows[m].id = i
    BY ONLY <1>3, <2>1
  <2>3. Satisfies(rows[m].values)
    <3>1. rows[m].values = table[i]
      BY ONLY <1>3, <2>2
    <3> QED
      BY ONLY <2>1, <3>1
  <2>4. PICK n \in DOMAIN kept : places[n] = m
    BY ONLY <1>5, <2>3 DEF Keeps
  <2>5. kept[n] = rows[m]
    BY ONLY <1>5, <2>4 DEF Keeps
  <2> QED
    BY ONLY <2>2, <2>4, <2>5
<1> QED
  BY ONLY <1>4, <1>6, <1>7, <1>8 DEF Brings

-----------------------------------------------------------------------------
\* G is what the query q has read of the table up to now: the rows that satisfied
\* the predicates, those nobody touched as they still are, in the order of the
\* record ids and, once they are sorted, in the order asked for.
Collects(q, G) ==
  /\ G \in Seq(RowSet)
  /\ \A n \in DOMAIN G :
       /\ G[n].id \in DOMAIN table /\ G[n].id < q.at /\ G[n].id <= q.end /\ Satisfies(G[n].values)
       /\ G[n].id \notin touched => G[n].values = table[G[n].id]
  /\ \A i \in Selected \ touched : i < q.at /\ i <= q.end => \E n \in DOMAIN G : G[n].id = i
  /\ \A m, n \in DOMAIN G : m < n => IF q.loaded THEN Precedes(G[m], G[n]) ELSE G[m].id < G[n].id

\* The cursor reads on, up to record id hi.
LEMMA ReadOn ==
  ASSUME TableOK, NEW q, NEW G, Collects(q, G), ~q.loaded, q.at \in Nat, q.end \in Nat,
         NEW hi \in Int, q.at <= hi + 1, hi <= q.end, NEW kept, Brings(kept, q.at, hi),
         NEW p, p.at = hi + 1, p.end = q.end, ~p.loaded
  PROVE  Collects(p, G \o kept)
<1> DEFINE H == G \o kept
<1>1. G \in Seq(RowSet) /\ kept \in Seq(RowSet)
  BY DEF Collects, Brings
<1>2. H \in Seq(RowSet) /\ Len(H) = Len(G) + Len(kept) /\ Len(G) \in Nat /\ Len(kept) \in Nat
      /\ DOMAIN H = 1 .. Len(H) /\ DOMAIN G = 1 .. Len(G) /\ DOMAIN kept = 1 .. Len(kept)
  BY ONLY <1>1
<1>3. \A n \in DOMAIN G : n \in DOMAIN H /\ H[n] = G[n]
  BY ONLY <1>1, <1>2
<1>4. \A n \in DOMAIN kept : n + Len(G) \in DOMAIN H /\ H[n + Len(G)] = kept[n]
  BY ONLY <1>1, <1>2
<1>5. \A n \in DOMAIN H : 
       n \in DOMAIN G \/ (n - Len(G) \in DOMAIN kept /\ H[n] = kept[n - Len(G)])
  BY ONLY <1>1, <1>2
<1> HIDE DEF H
<1>6. Len(table) \in Nat /\ Ids \in SUBSET (1 .. Len(table)) /\ DOMAIN table = 1 .. Len(table)
  BY IdsAreFinite DEF TableOK
<1>10. \A i \in Ids : i \in Int /\ i \in DOMAIN table
  BY ONLY <1>6
<1>7. ASSUME NEW n \in DOMAIN H
      PROVE  /\ H[n].id \in DOMAIN table /\ H[n].id < p.at /\ H[n].id <= p.end
             /\ Satisfies(H[n].values)
             /\ H[n].id \notin touched => H[n].values = table[H[n].id]
  <2>1. CASE n \in DOMAIN G
    <3>1. /\ H[n] = G[n] /\ G[n].id \in DOMAIN table /\ G[n].id < q.at /\ G[n].id <= q.end
          /\ Satisfies(G[n].values) /\ (G[n].id \notin touched => G[n].values = table[G[n].id])
      BY ONLY <1>3, <2>1, Collects(q, G) DEF Collects
    <3>2. G[n].id < p.at /\ G[n].id <= p.end
      BY <1>6, <3>1
    <3> QED
      BY ONLY <3>1, <3>2
  <2>2. CASE n - Len(G) \in DOMAIN kept /\ H[n] = kept[n - Len(G)]
    <3>1. /\ H[n].id \in Ids /\ H[n].id <= hi /\ H[n].values = table[H[n].id]
          /\ Satisfies(H[n].values)
      BY ONLY <2>2, Brings(kept, q.at, hi) DEF Brings
    <3>2. PICK i \in Ids : i = H[n].id
      BY ONLY <3>1
    <3>3. i < p.at /\ i <= p.end
      <4>1. p.at = hi + 1 /\ p.end = q.end /\ q.end \in Nat /\ hi \in Int /\ hi <= q.end
        OBVIOUS
      <4> QED
        BY ONLY <1>10, <3>1, <3>2, <4>1
    <3> QED
      BY ONLY <1>10, <3>1, <3>2, <3>3
  <2> QED
    BY ONLY <1>5, <1>7, <2>1, <2>2
<1>8. ASSUME NEW i \in Selected \ touched, i < p.at, i <= p.end PROVE \E n \in DOMAIN H : H[n].id = i
  <2>1. i \in Int
    BY <1>6 DEF Selected
  <2>2. CASE i < q.at
    <3>1. PICK n \in DOMAIN G : G[n].id = i
      BY <1>8, <2>2 DEF Collects
    <3> QED
      BY ONLY <1>3, <3>1
  <2>3. CASE ~(i < q.at)
    <3>1. q.at <= i /\ i <= hi
      <4>1. p.at = hi + 1 /\ hi \in Int /\ q.at \in Nat
        OBVIOUS
      <4> QED
        BY ONLY <1>8, <2>1, <2>3, <4>1
    <3>2. PICK n \in DOMAIN kept : kept[n].id = i
      BY ONLY <1>8, <3>1, Brings(kept, q.at, hi) DEF Brings
    <3> QED
      BY ONLY <1>4, <3>2
  <2> QED
    BY ONLY <2>2, <2>3
<1>9. ASSUME NEW m \in DOMAIN H, NEW n \in DOMAIN H, m < n PROVE H[m].id < H[n].id
  <2>1. CASE n \in DOMAIN G
    <3>1. m \in DOMAIN G
      BY ONLY <1>2, <1>9, <2>1
    <3>2. G[m].id < G[n].id
      BY ONLY <1>9, <2>1, <3>1, Collects(q, G), ~q.loaded DEF Collects
    <3> QED
      BY ONLY <1>3, <2>1, <3>1, <3>2
  <2>2. CASE m \in DOMAIN G /\ n - Len(G) \in DOMAIN kept /\ H[n] = kept[n - Len(G)]
    <3>1. G[m].id < q.at /\ G[m].id \in Int /\ H[m] = G[m]
      BY ONLY <1>3, <1>6, <2>2, Collects(q, G) DEF Collects
    <3>2. H[n].id >= q.at /\ H[n].id \in Int
      <4>1. H[n].id \in Ids /\ q.at <= H[n].id
        BY ONLY <2>2, Brings(kept, q.at, hi) DEF Brings
      <4>2. PICK i \in Ids : i = H[n].id
        BY ONLY <4>1
      <4> QED
        BY ONLY <1>10, <4>1, <4>2, q.at \in Nat
    <3> QED
      BY ONLY <3>1, <3>2, q.at \in Nat
  <2>3. CASE /\ m - Len(G) \in DOMAIN kept /\ H[m] = kept[m - Len(G)]
             /\ n - Len(G) \in DOMAIN kept /\ H[n] = kept[n - Len(G)]
    <3>1. m - Len(G) < n - Len(G)
      BY ONLY <1>2, <1>9
    <3> QED
      BY ONLY <2>3, <3>1, Brings(kept, q.at, hi) DEF Brings
  <2> QED
    BY ONLY <1>5, <1>9, <2>1, <2>2, <2>3
<1> QED
  BY ONLY <1>2, <1>7, <1>8, <1>9, ~p.loaded DEF Collects, H

\* All has been read, and is sorted.
LEMMA SortIt ==
  ASSUME OrderOK, order # Absent, NEW q, NEW G, Collects(q, G), ~q.loaded, TableOK,
         NEW H, H = StableSort(G), NEW p, p.at = q.at, p.end = q.end, p.loaded
  PROVE  Collects(p, H)
<1>1. G \in Seq(RowSet) /\ Len(G) \in Nat /\ DOMAIN G = 1 .. Len(G)
  BY DEF Collects
<1>2. H \in Seq(RowSet) /\ Len(H) = Len(G) /\ \E places \in Seq(Nat) : Arranges(places, G, H)
  BY ONLY <1>1, OrderOK, H = StableSort(G), StableSortLists
<1>3. PICK places \in Seq(Nat) : Arranges(places, G, H)
  BY ONLY <1>2
<1>4. DOMAIN H = DOMAIN G
  BY ONLY <1>1, <1>2
<1>5. ASSUME NEW n \in DOMAIN H
      PROVE  /\ H[n].id \in DOMAIN table /\ H[n].id < p.at /\ H[n].id <= p.end
             /\ Satisfies(H[n].values)
             /\ H[n].id \notin touched => H[n].values = table[H[n].id]
  <2>1. places[n] \in DOMAIN G /\ H[n] = G[places[n]]
    BY ONLY <1>3, <1>4, <1>5 DEF Arranges
  <2> QED
    BY ONLY <2>1, Collects(q, G), p.at = q.at, p.end = q.end DEF Collects
<1>6. ASSUME NEW i \in Selected \ touched, i < p.at, i <= p.end PROVE \E n \in DOMAIN H : H[n].id = i
  <2>1. PICK m \in DOMAIN G : G[m].id = i
    BY ONLY <1>6, Collects(q, G), p.at = q.at, p.end = q.end DEF Collects
  <2>2. PICK n \in DOMAIN G : places[n] = m
    BY ONLY <1>3, <2>1 DEF Arranges
  <2>3. H[n] = G[m]
    BY ONLY <1>3, <2>2 DEF Arranges
  <2> QED
    BY ONLY <1>4, <2>1, <2>2, <2>3
<1>7. ASSUME NEW m \in DOMAIN H, NEW n \in DOMAIN H, m < n PROVE Precedes(H[m], H[n])
  <2>1. /\ places[m] \in DOMAIN G /\ H[m] = G[places[m]] /\ places[n] \in DOMAIN G /\ H[n] = G[places[n]]
        /\ \/ RowLess(H[m], H[n])
           \/ ~RowLess(H[n], H[m]) /\ places[m] < places[n]
    BY ONLY <1>3, <1>4, <1>7 DEF Arranges
  <2>2. CASE RowLess(H[m], H[n])
    BY ONLY <2>2, order # Absent DEF Precedes
  <2>3. CASE ~RowLess(H[n], H[m]) /\ places[m] < places[n]
    <3>1. H[m].id < H[n].id
      BY ONLY <2>1, <2>3, Collects(q, G), ~q.loaded DEF Collects
    <3> QED
      BY ONLY <2>3, <3>1, order # Absent DEF Precedes
  <2> QED
    BY ONLY <2>1, <2>2, <2>3
<1> QED
  BY ONLY <1>2, <1>5, <1>6, <1>7, p.loaded DEF Collects

-----------------------------------------------------------------------------
\* A scan, and the rows it has returned, as they were read.
QueryFields == {"open", "scans", "at", "end", "rows", "sorts", "loaded", "sorted", "remaining", "ended"}
RemainingOK(remaining, count) ==
  \/ limit = Absent /\ remaining = Absent
  \/ limit \in Nat /\ remaining \in Nat /\ remaining + count = limit
Given(ret) == [n \in DOMAIN ret |-> Source(ret[n])]

\* The limit counts the rows returned; a sort returns none before it has read
\* everything; pages added since are touched; and what ends a query is its limit
\* or the end of the table.
QueryOK(q, ret) ==
  /\ DOMAIN q = QueryFields
  /\ q.at \in Nat /\ q.end \in Nat /\ q.at <= q.end + 1 /\ q.sorted \in Seq(RowSet)
  /\ q.sorts <=> order # Absent
  /\ order # Absent => OrderOK
  /\ \E S : ret \in Seq(S)
  /\ Given(ret) \in Seq(RowSet)
  /\ limit # 0
  /\ RemainingOK(q.remaining, Len(ret))
  /\ ~q.sorts => q.sorted = <<>> /\ ~q.loaded
  /\ q.sorts /\ ~q.loaded => ret = <<>>
  /\ q.loaded => q.at > q.end
  /\ \A i \in DOMAIN table : i > q.end => i \in touched
  /\ q.ended => q.remaining = 0 \/ (q.at > q.end /\ q.sorted = <<>> /\ (q.sorts => q.loaded))
ScanOK(q, ret) == QueryOK(q, ret) /\ Collects(q, Given(ret) \o q.sorted)

\* What the cursor has still to give, and what the filters leave of it.
LEMMA UpcomingBrings ==
  ASSUME TableOK, NEW q, q.scans, q.at \in Int, q.end \in Int
  PROVE  Brings(Filtered(Upcoming(q)), q.at, q.end)
<1>1. Upcoming(q) = ById({i \in Ids : q.at <= i /\ i <= q.end})
  BY DEF Upcoming
<1> QED
  BY <1>1, FilterBrings

\* The sort reads all of the table once.
LEMMA LoadScan ==
  ASSUME TableOK, NEW q, NEW ret, ScanOK(q, ret), q.scans, q.sorts, NEW p, p = Loaded(q)
  PROVE  /\ ScanOK(p, ret) /\ p.loaded /\ DOMAIN p = QueryFields /\ p.at > p.end
         /\ p.open = q.open /\ p.scans = q.scans
<1>1. QueryOK(q, ret) /\ Collects(q, Given(ret) \o q.sorted)
  BY ONLY ScanOK(q, ret) DEF ScanOK
<1>2. CASE q.loaded
  <2>1. p = q
    BY ONLY <1>2, p = Loaded(q) DEF Loaded
  <2> QED
    BY ONLY <1>1, <1>2, <2>1, ScanOK(q, ret) DEF QueryOK
<1>3. CASE ~q.loaded
  <2> DEFINE kept == Filtered(Upcoming(q))
             rows == q.sorted \o kept
             d == Drained(q)
  <2>1. /\ DOMAIN q = QueryFields /\ q.at \in Nat /\ q.end \in Nat /\ q.at <= q.end + 1
        /\ q.sorted \in Seq(RowSet) /\ ret = <<>> /\ order # Absent /\ OrderOK
    BY ONLY <1>1, <1>3, q.sorts DEF QueryOK
  <2>2. Brings(kept, q.at, q.end)
    BY <2>1, UpcomingBrings
  <2>3. p = [d EXCEPT !.loaded = TRUE, !.sorted = StableSort(rows)]
    BY ONLY <1>3, p = Loaded(q) DEF Loaded
  <2>4. /\ DOMAIN d = QueryFields /\ d.at = q.end + 1 /\ d.end = q.end /\ d.loaded = q.loaded
        /\ d.open = q.open /\ d.scans = q.scans /\ d.sorts = q.sorts /\ d.remaining = q.remaining
        /\ d.ended = q.ended
    BY ONLY <2>1 DEF Drained, QueryFields
  <2> HIDE DEF kept, d
  <2>5. /\ DOMAIN p = QueryFields /\ p.at = q.end + 1 /\ p.end = q.end /\ p.loaded
        /\ p.open = q.open /\ p.scans = q.scans /\ p.sorts = q.sorts /\ p.remaining = q.remaining
        /\ p.ended = q.ended /\ p.sorted = StableSort(rows)
    <3> HIDE DEF rows
    <3> QED
      BY ONLY <2>3, <2>4 DEF QueryFields
  <2>6. Given(ret) \o q.sorted = q.sorted
    BY ONLY <2>1 DEF Given
  <2>7. Collects(d, rows)
    <3>1. Collects(q, q.sorted)
      BY ONLY <1>1, <2>6
    <3>2. q.end \in Int /\ q.end <= q.end /\ ~d.loaded
      BY ONLY <1>3, <2>1, <2>4
    <3> HIDE DEF rows
    <3> QED
      BY ONLY <1>3, <2>1, <2>2, <2>4, <3>1, <3>2, ReadOn, TableOK DEF rows
  <2>8. Collects(p, StableSort(rows))
    <3>1. p.at = d.at /\ p.end = d.end /\ p.loaded /\ ~d.loaded
      BY ONLY <1>3, <2>4, <2>5
    <3> HIDE DEF rows
    <3> QED
      BY ONLY <2>1, <2>7, <3>1, SortIt, TableOK
  <2> HIDE DEF rows
  <2>9. p.sorted \in Seq(RowSet)
    BY ONLY <2>5, <2>8 DEF Collects
  <2>10. Given(ret) \o p.sorted = p.sorted
    BY ONLY <2>1, <2>9 DEF Given
  <2>11. QueryOK(p, ret)
    <3>1. p.at \in Nat /\ p.end \in Nat /\ p.at <= p.end + 1 /\ p.at > p.end
      BY ONLY <2>1, <2>5
    <3>2. q.ended => q.remaining = 0
      BY ONLY <1>1, <1>3, q.sorts DEF QueryOK
    <3> QED
      BY ONLY <1>1, <2>5, <2>9, <3>1, <3>2, q.sorts DEF QueryOK
  <2>12. Collects(p, Given(ret) \o p.sorted)
    BY ONLY <2>5, <2>8, <2>10
  <2>13. p.at > p.end
    BY ONLY <2>1, <2>5
  <2> QED
    BY ONLY <2>5, <2>11, <2>12, <2>13 DEF ScanOK
<1> QED
  BY ONLY <1>2, <1>3

\* A row the limit counts.
Counted(remaining) == IF remaining = Absent THEN Absent ELSE remaining - 1

\* Counting goes on until the limit is used up.
LEMMA CountedRow ==
  ASSUME NEW r, NEW count \in Nat, RemainingOK(r, count), r # 0
  PROVE  RemainingOK(Counted(r), count + 1)
<1>1. CASE limit = Absent /\ r = Absent
  BY ONLY <1>1 DEF RemainingOK, Counted
<1>2. CASE limit \in Nat /\ r \in Nat /\ r + count = limit
  <2>1. r # Absent
    BY ONLY <1>2, LimitAssumption DEF LimitAssumption
  <2>2. Counted(r) = r - 1
    BY ONLY <2>1 DEF Counted
  <2>3. r - 1 \in Nat /\ r - 1 + (count + 1) = limit
    BY ONLY <1>2, count \in Nat, r # 0
  <2> QED
    BY ONLY <1>2, <2>2, <2>3 DEF RemainingOK
<1> QED
  BY ONLY <1>1, <1>2, RemainingOK(r, count) DEF RemainingOK

\* One more row is returned.
LEMMA GivenGrows ==
  ASSUME NEW ret, \E S : ret \in Seq(S), Given(ret) \in Seq(RowSet), NEW row \in RowSet,
         NEW more, more = Append(ret, Output(row))
  PROVE  /\ \E S : more \in Seq(S)
         /\ Len(ret) \in Nat /\ Len(more) = Len(ret) + 1
         /\ Given(more) = Given(ret) \o <<row>> /\ Given(more) \in Seq(RowSet)
<1>1. PICK S : ret \in Seq(S)
  OBVIOUS
<1> DEFINE T == S \cup {Output(row)}
<1>2. ret \in Seq(T) /\ Output(row) \in T
  <2>1. S \subseteq T
    OBVIOUS
  <2> HIDE DEF T
  <2>2. ret \in Seq(T)
    BY ONLY <1>1, <2>1, SeqMonotonic
  <2> QED
    BY ONLY <2>2 DEF T
<1> HIDE DEF T
<1>3. Source(Output(row)) = row
  <2>1. row = [id |-> row.id, values |-> row.values]
    BY ONLY row \in RowSet DEF RowSet
  <2> QED
    BY ONLY <2>1 DEF Source, Output
<1>4. /\ more \in Seq(T) /\ Len(ret) \in Nat /\ Len(more) = Len(ret) + 1
      /\ DOMAIN ret = 1 .. Len(ret) /\ DOMAIN more = 1 .. Len(ret) + 1
      /\ \A n \in 1 .. Len(ret) : more[n] = ret[n]
      /\ more[Len(ret) + 1] = Output(row)
  BY ONLY <1>2, more = Append(ret, Output(row))
<1> DEFINE g == Given(ret)
<1>5. g \in Seq(RowSet) /\ DOMAIN g = 1 .. Len(ret) /\ Len(g) = Len(ret)
      /\ \A n \in 1 .. Len(ret) : g[n] = Source(ret[n])
  <2>1. DOMAIN g = 1 .. Len(ret) /\ \A n \in 1 .. Len(ret) : g[n] = Source(ret[n])
    BY ONLY <1>4 DEF Given
  <2>2. g \in Seq(RowSet)
    OBVIOUS
  <2> HIDE DEF g
  <2>3. Len(g) \in Nat /\ DOMAIN g = 1 .. Len(g)
    BY ONLY <2>2
  <2> QED
    BY ONLY <1>4, <2>1, <2>2, <2>3
<1>6. /\ DOMAIN Given(more) = 1 .. Len(ret) + 1
      /\ \A n \in 1 .. Len(ret) : Given(more)[n] = g[n]
      /\ Given(more)[Len(ret) + 1] = row
  <2>1. DOMAIN Given(more) = DOMAIN more /\ \A n \in DOMAIN more : Given(more)[n] = Source(more[n])
    BY ONLY TRUE DEF Given
  <2> HIDE DEF g
  <2> QED
    BY ONLY <1>3, <1>4, <1>5, <2>1
<1> DEFINE h == g \o <<row>>
<1>7. h \in Seq(RowSet) /\ Len(h) = Len(ret) + 1 /\ DOMAIN h = 1 .. Len(ret) + 1
      /\ (\A n \in 1 .. Len(ret) : h[n] = g[n]) /\ h[Len(ret) + 1] = row
  <2> HIDE DEF g
  <2> QED
    BY ONLY <1>4, <1>5, row \in RowSet
<1>8. Given(more) = h
  <2>1. Given(more) = [n \in DOMAIN Given(more) |-> Given(more)[n]]
    BY ONLY TRUE DEF Given
  <2>2. h = [n \in DOMAIN h |-> h[n]]
    <3> HIDE DEF h
    <3> QED
      BY ONLY <1>7
  <2>3. DOMAIN h = DOMAIN Given(more) /\ \A n \in DOMAIN h : h[n] = Given(more)[n]
    <3> HIDE DEF h, g
    <3>1. \A n \in 1 .. Len(ret) + 1 : n \in 1 .. Len(ret) \/ n = Len(ret) + 1
      BY ONLY <1>4
    <3> QED
      BY ONLY <1>6, <1>7, <3>1
  <2> HIDE DEF h, g
  <2> QED
    BY ONLY <2>1, <2>2, <2>3
<1> QED
  BY ONLY <1>4, <1>7, <1>8

\* The sort gives its first row.
LEMMA PopScan ==
  ASSUME NEW q, NEW ret, ScanOK(q, ret), q.sorts, q.loaded, q.remaining # 0, q.sorted # <<>>,
         NEW p, p = [q EXCEPT !.sorted = Tail(@), !.remaining = Counted(@)],
         NEW more, more = Append(ret, Output(Head(q.sorted)))
  PROVE  ScanOK(p, more)
<1> DEFINE row == Head(q.sorted)
<1>1. QueryOK(q, ret) /\ Collects(q, Given(ret) \o q.sorted)
  BY ONLY ScanOK(q, ret) DEF ScanOK
<1>2. /\ DOMAIN q = QueryFields /\ q.at \in Nat /\ q.end \in Nat /\ q.at <= q.end + 1
      /\ q.sorted \in Seq(RowSet) /\ (\E S : ret \in Seq(S)) /\ Given(ret) \in Seq(RowSet)
      /\ ~q.ended /\ q.at > q.end
  BY ONLY <1>1, q.loaded, q.remaining # 0, q.sorted # <<>> DEF QueryOK
<1>3. row \in RowSet /\ Tail(q.sorted) \in Seq(RowSet) /\ q.sorted = <<row>> \o Tail(q.sorted)
  <2>1. q.sorted \in Seq(RowSet) /\ q.sorted # <<>>
    BY ONLY <1>2, q.sorted # <<>>
  <2>2. Len(q.sorted) \in Nat /\ Len(q.sorted) # 0
    BY ONLY <2>1, EmptySeq
  <2>3. Head(q.sorted) = q.sorted[1] /\ Tail(q.sorted) = SubSeq(q.sorted, 2, Len(q.sorted))
    BY ONLY <2>1, TailIsSubSeq DEF Head
  <2>4. SubSeq(q.sorted, 1, Len(q.sorted)) = <<q.sorted[1]>> \o SubSeq(q.sorted, 1 + 1, Len(q.sorted))
    <3>1. 1 \in 1 .. Len(q.sorted) /\ Len(q.sorted) \in 1 .. Len(q.sorted)
      BY ONLY <2>2
    <3> QED
      BY ONLY <2>1, <3>1, SubSeqRecursiveFirst
  <2>5. SubSeq(q.sorted, 1, Len(q.sorted)) = q.sorted
    BY ONLY <2>1, SubSeqFull
  <2>6. row \in RowSet /\ Tail(q.sorted) \in Seq(RowSet)
    BY ONLY <2>1, HeadTailProperties
  <2>7. 1 + 1 = 2
    OBVIOUS
  <2> QED
    BY ONLY <2>3, <2>4, <2>5, <2>6, <2>7
<1> HIDE DEF row
<1>4. more = Append(ret, Output(row))
  BY ONLY more = Append(ret, Output(Head(q.sorted))) DEF row
<1>5. /\ \E S : more \in Seq(S)
      /\ Len(ret) \in Nat /\ Len(more) = Len(ret) + 1
      /\ Given(more) = Given(ret) \o <<row>> /\ Given(more) \in Seq(RowSet)
  BY ONLY <1>2, <1>3, <1>4, GivenGrows
<1>6. /\ DOMAIN p = QueryFields /\ p.at = q.at /\ p.end = q.end /\ p.loaded = q.loaded
      /\ p.sorts = q.sorts /\ p.ended = q.ended /\ p.sorted = Tail(q.sorted)
      /\ p.remaining = Counted(q.remaining)
  BY ONLY <1>2, p = [q EXCEPT !.sorted = Tail(@), !.remaining = Counted(@)] DEF QueryFields
<1>7. Given(more) \o p.sorted = Given(ret) \o q.sorted
  <2> DEFINE one == <<row>>
             rest == Tail(q.sorted)
             given == Given(ret)
  <2>1. one \in Seq(RowSet) /\ rest \in Seq(RowSet) /\ given \in Seq(RowSet)
    BY ONLY <1>2, <1>3
  <2> HIDE DEF one, rest, given
  <2>2. (given \o one) \o rest = given \o (one \o rest)
    BY ONLY <2>1, ConcatAssociative
  <2> QED
    BY ONLY <1>3, <1>5, <1>6, <2>2 DEF one, rest, given
<1>8. Collects(p, Given(more) \o p.sorted)
  <2>1. Collects(p, Given(ret) \o q.sorted)
    BY ONLY <1>1, <1>6 DEF Collects
  <2> QED
    BY ONLY <1>7, <2>1
<1>9. RemainingOK(p.remaining, Len(more))
  <2>1. RemainingOK(q.remaining, Len(ret))
    BY ONLY <1>1 DEF QueryOK
  <2>2. RemainingOK(Counted(q.remaining), Len(ret) + 1)
    BY ONLY <1>5, <2>1, q.remaining # 0, CountedRow
  <2> QED
    BY ONLY <1>5, <1>6, <2>2
<1>10. QueryOK(p, more)
  BY ONLY <1>1, <1>2, <1>3, <1>5, <1>6, <1>9, q.sorts, q.loaded DEF QueryOK
<1> QED
  BY ONLY <1>8, <1>10 DEF ScanOK

\* row is all the filters leave of the rows up to it.
BringsFirst(q, row) ==
  \E i \in Ids : /\ row \in RowSet /\ i = row.id /\ i \in Nat /\ q.at <= i /\ i <= q.end
                  /\ Brings(<<row>>, q.at, i)

\* The first row that passes the filters is.
LEMMA FirstBrings ==
  ASSUME TableOK, NEW q, q.scans, q.at \in Nat, q.end \in Nat,
         NEW rows, rows = Upcoming(q), NEW n \in Passing(rows), \A k \in Passing(rows) : n <= k
  PROVE  BringsFirst(q, rows[n])
<1> DEFINE I == {i \in Ids : q.at <= i /\ i <= q.end}
<1>1. q.at \in Nat /\ q.end \in Nat
  OBVIOUS
<1>2. rows = ById(I) /\ I \in SUBSET Ids
  BY ONLY rows = Upcoming(q), q.scans DEF Upcoming
<1>3. \A i : i \in I <=> i \in Ids /\ q.at <= i /\ i <= q.end
  OBVIOUS
<1> HIDE DEF I
<1>4. /\ rows \in Seq(RowSet)
      /\ \A k \in DOMAIN rows : rows[k].id \in I /\ rows[k].values = table[rows[k].id]
      /\ \A k, m \in DOMAIN rows : k < m => rows[k].id < rows[m].id
      /\ \A i \in I : \E k \in DOMAIN rows : rows[k].id = i
  BY ONLY <1>2, ByIdLists, TableOK
<1>5. \A k : k \in Passing(rows) <=> k \in DOMAIN rows /\ Satisfies(rows[k].values)
  BY ONLY TRUE DEF Passing
<1>6. Ids \in SUBSET Nat
  BY IdsAreFinite
<1>7. PICK row \in RowSet : row = rows[n]
  BY ONLY <1>4, <1>5, n \in Passing(rows)
<1>8. PICK i \in Ids : i = row.id
  BY ONLY <1>3, <1>4, <1>5, <1>7, n \in Passing(rows)
<1>9. /\ i \in Nat /\ q.at <= i /\ i <= q.end /\ row.values = table[i] /\ Satisfies(row.values)
  BY ONLY <1>3, <1>4, <1>5, <1>6, <1>7, <1>8, n \in Passing(rows)
<1>10. \A j \in Selected : q.at <= j /\ j <= i => j = i
  <2> SUFFICES ASSUME NEW j \in Selected, q.at <= j, j <= i PROVE j = i
    OBVIOUS
  <2>1. j \in Ids /\ j \in Nat /\ Satisfies(table[j])
    BY ONLY <1>6, j \in Selected DEF Selected
  <2>2. j \in I
    BY ONLY <1>1, <1>3, <1>9, <2>1, q.at <= j, j <= i
  <2>3. PICK k \in DOMAIN rows : rows[k].id = j
    BY ONLY <1>4, <2>2
  <2>4. rows[k].values = table[j]
    BY ONLY <1>4, <2>3
  <2>5. k \in Passing(rows)
    BY ONLY <1>5, <2>1, <2>3, <2>4
  <2>6. n <= k /\ n \in DOMAIN rows /\ n \in Int /\ k \in Int
    BY ONLY <1>4, <1>5, <2>3, <2>5, n \in Passing(rows), \A m \in Passing(rows) : n <= m
  <2>7. n = k \/ i < j
    <3>1. n < k => rows[n].id < rows[k].id
      BY ONLY <1>4, <2>3, <2>6
    <3> QED
      BY ONLY <1>7, <1>8, <2>3, <2>6, <3>1
  <2> QED
    BY ONLY <1>7, <1>8, <1>9, <2>1, <2>3, <2>7, j <= i
<1> DEFINE kept == <<row>>
<1>11. kept \in Seq(RowSet) /\ DOMAIN kept = {1} /\ kept[1] = row
  BY ONLY <1>7
<1> HIDE DEF kept
<1>12. Brings(kept, q.at, i)
  <2>1. \A m \in DOMAIN kept :
          /\ kept[m].id \in Ids /\ q.at <= kept[m].id /\ kept[m].id <= i
          /\ kept[m].values = table[kept[m].id] /\ Satisfies(kept[m].values)
    BY ONLY <1>8, <1>9, <1>11
  <2>2. \A m, k \in DOMAIN kept : ~(m < k)
    BY ONLY <1>11
  <2>3. \A j \in Selected : q.at <= j /\ j <= i => \E m \in DOMAIN kept : kept[m].id = j
    BY ONLY <1>8, <1>10, <1>11
  <2> QED
    BY ONLY <1>11, <2>1, <2>2, <2>3 DEF Brings
<1> QED
  BY ONLY <1>7, <1>8, <1>9, <1>12, row \in RowSet, i \in Ids DEF kept, BringsFirst

\* Without a sort, the first row that passes the filters is returned.
LEMMA PullScan ==
  ASSUME TableOK, NEW q, NEW ret, ScanOK(q, ret), q.scans, ~q.sorts, q.remaining # 0,
         NEW rows, rows = Upcoming(q), NEW n \in Passing(rows), \A k \in Passing(rows) : n <= k,
         NEW p, p = [Passed(q, n) EXCEPT !.remaining = Counted(@)],
         NEW more, more = Append(ret, Output(rows[n]))
  PROVE  ScanOK(p, more)
<1>1. QueryOK(q, ret) /\ Collects(q, Given(ret) \o q.sorted)
  BY ONLY ScanOK(q, ret) DEF ScanOK
<1>2. /\ DOMAIN q = QueryFields /\ q.at \in Nat /\ q.end \in Nat /\ q.at <= q.end + 1
      /\ q.sorted = <<>> /\ (\E S : ret \in Seq(S)) /\ Given(ret) \in Seq(RowSet)
      /\ ~q.loaded
  BY ONLY <1>1, ~q.sorts DEF QueryOK
<1>3. BringsFirst(q, rows[n])
  BY ONLY <1>2, FirstBrings, TableOK, q.scans, rows = Upcoming(q), n \in Passing(rows),
          \A k \in Passing(rows) : n <= k
<1>4. PICK row \in RowSet, i \in Ids :
        /\ row = rows[n] /\ i = row.id /\ i \in Nat /\ q.at <= i /\ i <= q.end
        /\ Brings(<<row>>, q.at, i)
  BY ONLY <1>3 DEF BringsFirst
<1>5. i \in Nat /\ q.at <= i /\ i <= q.end
  BY ONLY <1>4
<1> DEFINE kept == <<row>>
<1>6. kept \in Seq(RowSet)
  BY ONLY <1>4
<1>7. Brings(kept, q.at, i)
  BY ONLY <1>4
<1> HIDE DEF kept
<1> DEFINE d == Passed(q, n)
<1>8. /\ DOMAIN d = QueryFields /\ d.at = i + 1 /\ d.end = q.end /\ d.loaded = q.loaded
       /\ d.sorts = q.sorts /\ d.ended = q.ended /\ d.sorted = q.sorted
       /\ d.remaining = q.remaining
  BY ONLY <1>2, <1>4, rows = Upcoming(q) DEF Passed, QueryFields
<1>9. p = [d EXCEPT !.remaining = Counted(@)]
  BY ONLY p = [Passed(q, n) EXCEPT !.remaining = Counted(@)]
<1> HIDE DEF d
<1>10. /\ DOMAIN p = QueryFields /\ p.at = i + 1 /\ p.end = q.end /\ p.loaded = q.loaded
       /\ p.sorts = q.sorts /\ p.ended = q.ended /\ p.sorted = <<>>
       /\ p.remaining = Counted(q.remaining)
  BY ONLY <1>2, <1>8, <1>9 DEF QueryFields
<1>11. Given(ret) \o q.sorted = Given(ret)
  BY ONLY <1>2, ConcatEmptySeq
<1>12. Collects(p, Given(ret) \o kept)
  <2>1. Collects(q, Given(ret))
    BY ONLY <1>1, <1>11
  <2>2. i \in Int /\ q.at <= i + 1 /\ ~p.loaded
    BY ONLY <1>2, <1>5, <1>10
  <2> QED
    BY ONLY <1>2, <1>5, <1>7, <1>10, <2>1, <2>2, ReadOn, TableOK
<1>13. more = Append(ret, Output(row))
  BY ONLY <1>4, more = Append(ret, Output(rows[n]))
<1>14. /\ \E S : more \in Seq(S)
       /\ Len(ret) \in Nat /\ Len(more) = Len(ret) + 1
       /\ Given(more) = Given(ret) \o kept /\ Given(more) \in Seq(RowSet)
  BY ONLY <1>2, <1>4, <1>13, GivenGrows DEF kept
<1>15. Collects(p, Given(more) \o p.sorted)
  <2>1. Given(more) \o p.sorted = Given(more)
    BY ONLY <1>10, <1>14, ConcatEmptySeq
  <2> QED
    BY ONLY <1>12, <1>14, <2>1
<1>16. RemainingOK(p.remaining, Len(more))
  <2>1. RemainingOK(q.remaining, Len(ret))
    BY ONLY <1>1 DEF QueryOK
  <2>2. RemainingOK(Counted(q.remaining), Len(ret) + 1)
    BY ONLY <1>14, <2>1, q.remaining # 0, CountedRow
  <2> QED
    BY ONLY <1>10, <1>14, <2>2
<1>17. ~q.ended
  <2>1. ~(q.at > q.end)
    BY ONLY <1>2, <1>5
  <2> QED
    BY ONLY <1>1, <2>1, q.remaining # 0 DEF QueryOK
<1>18. QueryOK(p, more)
  <2>1. p.at \in Nat /\ p.end \in Nat /\ p.at <= p.end + 1 /\ p.sorted \in Seq(RowSet) /\ ~p.loaded
    BY ONLY <1>2, <1>5, <1>10
  <2> QED
    BY ONLY <1>1, <1>10, <1>14, <1>16, <1>17, <2>1, ~q.sorts DEF QueryOK
<1> QED
  BY ONLY <1>15, <1>18 DEF ScanOK

\* Without a sort, the source is read to its end when nothing passes any more.
LEMMA DrainScan ==
  ASSUME TableOK, NEW q, NEW ret, ScanOK(q, ret), q.scans, ~q.sorts, Passing(Upcoming(q)) = {},
         NEW p, p = Drained(q)
  PROVE  /\ ScanOK(p, ret) /\ DOMAIN p = QueryFields /\ p.at > p.end /\ p.sorted = <<>>
         /\ p.sorts = q.sorts /\ p.open = q.open /\ p.scans = q.scans
<1>1. QueryOK(q, ret) /\ Collects(q, Given(ret) \o q.sorted)
  BY ONLY ScanOK(q, ret) DEF ScanOK
<1>2. /\ DOMAIN q = QueryFields /\ q.at \in Nat /\ q.end \in Nat /\ q.at <= q.end + 1
      /\ q.sorted = <<>> /\ Given(ret) \in Seq(RowSet) /\ ~q.loaded
  BY ONLY <1>1, ~q.sorts DEF QueryOK
<1> DEFINE rows == Upcoming(q)
           I == {i \in Ids : q.at <= i /\ i <= q.end}
<1>3. rows = ById(I) /\ I \in SUBSET Ids
  BY ONLY q.scans DEF Upcoming
<1>4. \A i : i \in I <=> i \in Ids /\ q.at <= i /\ i <= q.end
  OBVIOUS
<1>5. Passing(rows) = {}
  OBVIOUS
<1> HIDE DEF I, rows
<1>6. /\ \A k \in DOMAIN rows : rows[k].values = table[rows[k].id]
      /\ \A i \in I : \E k \in DOMAIN rows : rows[k].id = i
  BY ONLY <1>3, ByIdLists, TableOK
<1>7. ASSUME NEW i \in Selected, q.at <= i, i <= q.end PROVE FALSE
  <2>1. i \in I /\ Satisfies(table[i])
    BY ONLY <1>4, <1>7 DEF Selected
  <2>2. PICK k \in DOMAIN rows : rows[k].id = i
    BY ONLY <1>6, <2>1
  <2>3. rows[k].values = table[i]
    BY ONLY <1>6, <2>2
  <2>4. k \in Passing(rows)
    BY ONLY <2>1, <2>2, <2>3 DEF Passing
  <2> QED
    BY ONLY <1>5, <2>4
<1> DEFINE none == << >>
<1>8. none \in Seq(RowSet) /\ DOMAIN none = {} /\ none = q.sorted
  BY ONLY <1>2
<1> HIDE DEF none
<1>9. Brings(none, q.at, q.end)
  BY ONLY <1>7, <1>8 DEF Brings
<1>10. /\ DOMAIN p = QueryFields /\ p.at = q.end + 1 /\ p.end = q.end /\ p.loaded = q.loaded
       /\ p.sorts = q.sorts /\ p.ended = q.ended /\ p.sorted = <<>> /\ p.sorted = none
       /\ p.remaining = q.remaining /\ p.open = q.open /\ p.scans = q.scans
  BY ONLY <1>2, <1>8, p = Drained(q) DEF Drained, QueryFields
<1>11. Collects(p, Given(ret) \o none)
  <2>1. Collects(q, Given(ret))
    BY ONLY <1>1, <1>2, ConcatEmptySeq
  <2>2. q.end \in Int /\ q.end <= q.end /\ ~p.loaded
    BY ONLY <1>2, <1>10
  <2> QED
    BY ONLY <1>2, <1>9, <1>10, <2>1, <2>2, ReadOn, TableOK
<1>12. p.at \in Nat /\ p.end \in Nat /\ p.at <= p.end + 1 /\ p.at > p.end /\ p.sorted \in Seq(RowSet)
  BY ONLY <1>2, <1>8, <1>10
<1>13. QueryOK(p, ret)
  BY ONLY <1>1, <1>2, <1>10, <1>12, ~q.sorts DEF QueryOK
<1> QED
  BY ONLY <1>10, <1>11, <1>12, <1>13 DEF ScanOK

\* A page cannot be read: what was read before it is kept by the sort.
LEMMA FailScan ==
  ASSUME TableOK, NEW q, NEW ret, ScanOK(q, ret), q.scans, q.remaining # 0, ~q.loaded,
         NEW i \in q.at .. q.end,
         NEW kept, kept = Filtered(Upcoming([q EXCEPT !.end = i - 1])), q.sorts \/ kept = <<>>,
         NEW p, p = [q EXCEPT !.at = i, !.sorted = @ \o kept]
  PROVE  ScanOK(p, ret)
<1>1. QueryOK(q, ret) /\ Collects(q, Given(ret) \o q.sorted)
  BY ONLY ScanOK(q, ret) DEF ScanOK
<1>2. /\ DOMAIN q = QueryFields /\ q.at \in Nat /\ q.end \in Nat /\ q.at <= q.end + 1
      /\ q.sorted \in Seq(RowSet) /\ Given(ret) \in Seq(RowSet)
  BY ONLY <1>1 DEF QueryOK
<1>3. i \in Int /\ q.at <= i /\ i <= q.end
  BY ONLY <1>2, i \in q.at .. q.end
<1>4. PICK d : d = [q EXCEPT !.end = i - 1]
  OBVIOUS
<1>5. d.at = q.at /\ d.end = i - 1 /\ d.scans
  BY ONLY <1>2, <1>4, q.scans DEF QueryFields
<1>6. Brings(kept, q.at, i - 1)
  <2>1. d.at \in Int /\ d.end \in Int
    BY ONLY <1>2, <1>3, <1>5
  <2>2. Brings(Filtered(Upcoming(d)), d.at, d.end)
    BY ONLY <1>5, <2>1, UpcomingBrings, TableOK
  <2>3. kept = Filtered(Upcoming(d))
    BY ONLY <1>4, kept = Filtered(Upcoming([q EXCEPT !.end = i - 1]))
  <2> QED
    BY ONLY <1>5, <2>2, <2>3
<1>7. kept \in Seq(RowSet)
  BY ONLY <1>6 DEF Brings
<1>8. /\ DOMAIN p = QueryFields /\ p.at = i /\ p.end = q.end /\ p.loaded = q.loaded
      /\ p.sorts = q.sorts /\ p.ended = q.ended /\ p.sorted = q.sorted \o kept
      /\ p.remaining = q.remaining
  BY ONLY <1>2, p = [q EXCEPT !.at = i, !.sorted = @ \o kept] DEF QueryFields
<1>9. PICK given \in Seq(RowSet) : given = Given(ret)
  BY ONLY <1>2
<1>10. PICK old \in Seq(RowSet) : old = q.sorted
  BY ONLY <1>2
<1>11. PICK G : G = given \o old
  OBVIOUS
<1>12. Collects(p, G \o kept)
  <2>1. Collects(q, G)
    BY ONLY <1>1, <1>9, <1>10, <1>11
  <2>2. i - 1 \in Int /\ q.at <= i - 1 + 1 /\ i - 1 <= q.end /\ p.at = i - 1 + 1 /\ ~p.loaded
    BY ONLY <1>2, <1>3, <1>8, ~q.loaded
  <2> QED
    BY ONLY <1>2, <1>6, <1>8, <2>1, <2>2, ReadOn, TableOK, ~q.loaded
<1>13. Collects(p, Given(ret) \o p.sorted)
  <2>1. G \o kept = given \o (old \o kept)
    BY ONLY <1>7, <1>11, ConcatAssociative
  <2>2. p.sorted = old \o kept
    BY ONLY <1>8, <1>10
  <2> QED
    BY ONLY <1>9, <1>12, <2>1, <2>2
<1>14. p.at \in Nat /\ p.end \in Nat /\ p.at <= p.end + 1 /\ p.sorted \in Seq(RowSet)
  BY ONLY <1>2, <1>3, <1>7, <1>8
<1>15. ~q.ended
  <2>1. ~(q.at > q.end)
    BY ONLY <1>2, <1>3
  <2> QED
    BY ONLY <1>1, <2>1, q.remaining # 0 DEF QueryOK
<1>16. ASSUME ~p.sorts PROVE p.sorted = <<>>
  <2>0. ~q.sorts
    BY ONLY <1>8, <1>16
  <2>1. q.sorted = <<>> /\ kept = <<>>
    BY ONLY <1>1, <2>0, q.sorts \/ kept = <<>> DEF QueryOK
  <2>2. old = <<>> /\ p.sorted = old \o kept
    BY ONLY <1>8, <1>10, <2>1
  <2> QED
    BY ONLY <2>1, <2>2, ConcatEmptySeq, old \in Seq(RowSet)
<1>17. QueryOK(p, ret)
  BY ONLY <1>1, <1>8, <1>14, <1>15, <1>16, ~q.loaded DEF QueryOK
<1> QED
  BY ONLY <1>13, <1>17 DEF ScanOK

\* A query that has just been bound has read nothing.
LEMMA BindScan ==
  ASSUME TableOK, limit = Absent \/ limit \in Nat, touched = {}, Binds,
         NEW q, q = NewQuery(ChosenAccess), q.scans, NEW ret, ret = <<>>
  PROVE  ScanOK(q, ret)
<1> DEFINE a == ChosenAccess
<1>1. /\ DOMAIN q = QueryFields /\ q.scans = (limit # 0 /\ ~UsesIndex(a)) /\ q.at = 1
      /\ q.end = Len(table) /\ q.sorts = SortsRows(a) /\ ~q.loaded /\ q.sorted = <<>>
      /\ q.remaining = limit /\ ~q.ended
  BY ONLY q = NewQuery(ChosenAccess) DEF NewQuery, QueryFields
<1>2. limit # 0 /\ ~UsesIndex(a)
  BY ONLY <1>1, q.scans
<1>3. q.sorts <=> order # Absent
  BY ONLY <1>1, <1>2 DEF SortsRows
<1>4. order # Absent => OrderOK
  BY ONLY Binds DEF Binds, OrderOK
<1>5. Len(table) \in Nat /\ Ids \in SUBSET (1 .. Len(table)) /\ DOMAIN table = 1 .. Len(table)
  BY IdsAreFinite DEF TableOK
<1>6. Given(ret) = <<>> /\ ret \in Seq({}) /\ Len(ret) = 0
  BY ONLY ret = <<>> DEF Given
<1>7. Given(ret) \in Seq(RowSet) /\ q.sorted \in Seq(RowSet)
  BY ONLY <1>1, <1>6
<1>8. Given(ret) \o q.sorted = <<>>
  BY ONLY <1>1, <1>6
<1>9. RemainingOK(q.remaining, Len(ret))
  BY ONLY <1>1, <1>6, limit = Absent \/ limit \in Nat DEF RemainingOK
<1>10. q.at \in Nat /\ q.end \in Nat /\ q.at <= q.end + 1 /\ \A i \in DOMAIN table : ~(i > q.end)
  BY ONLY <1>1, <1>5
<1>11. QueryOK(q, ret)
  BY ONLY <1>1, <1>2, <1>3, <1>4, <1>6, <1>7, <1>9, <1>10, ret = <<>> DEF QueryOK
<1>12. Collects(q, <<>>)
  <2>1. \A i \in Selected : ~(i < q.at)
    BY ONLY <1>1, <1>5 DEF Selected
  <2> QED
    BY ONLY <2>1 DEF Collects
<1> QED
  BY ONLY <1>8, <1>11, <1>12 DEF ScanOK

\* What ends a query.
LEMMA EndScan ==
  ASSUME NEW q, NEW ret, ScanOK(q, ret),
         q.remaining = 0 \/ (q.at > q.end /\ q.sorted = <<>> /\ (q.sorts => q.loaded)),
         NEW p, p = [q EXCEPT !.ended = TRUE]
  PROVE  ScanOK(p, ret)
<1>1. QueryOK(q, ret) /\ Collects(q, Given(ret) \o q.sorted)
  BY ONLY ScanOK(q, ret) DEF ScanOK
<1>2. DOMAIN q = QueryFields
  BY ONLY <1>1 DEF QueryOK
<1>3. /\ DOMAIN p = QueryFields /\ p.at = q.at /\ p.end = q.end /\ p.loaded = q.loaded
      /\ p.sorts = q.sorts /\ p.sorted = q.sorted /\ p.remaining = q.remaining
  BY ONLY <1>2, p = [q EXCEPT !.ended = TRUE] DEF QueryFields
<1>4. Collects(p, Given(ret) \o p.sorted)
  <2>1. Collects(p, Given(ret) \o q.sorted)
    BY ONLY <1>1, <1>3 DEF Collects
  <2> QED
    BY ONLY <1>3, <2>1
<1>5. QueryOK(p, ret)
  BY ONLY <1>1, <1>3,
          q.remaining = 0 \/ (q.at > q.end /\ q.sorted = <<>> /\ (q.sorts => q.loaded)) DEF QueryOK
<1> QED
  BY ONLY <1>4, <1>5 DEF ScanOK

\* A pull leaves the statement and the table alone, and what is true of the query
\* it makes is so in the next state.
LEMMA CarryScan ==
  ASSUME UNCHANGED <<statement, table, touched>>, NEW q, NEW ret, q = query', ret = returned',
         ScanOK(q, ret)
  PROVE  ScanOK(query, returned)'
<1>1. /\ predicates' = predicates /\ order' = order /\ limit' = limit
      /\ table' = table /\ touched' = touched
  BY DEF statement
<1>2. QueryOK(q, ret) /\ Collects(q, Given(ret) \o q.sorted)
  BY ONLY ScanOK(q, ret) DEF ScanOK
<1>3. QueryOK(query, returned)'
  BY ONLY <1>1, <1>2, q = query', ret = returned' DEF QueryOK, RemainingOK, OrderOK
<1>4. Collects(query, Given(returned) \o query.sorted)'
  <2>1. PICK G : G = Given(ret) \o q.sorted
    OBVIOUS
  <2>2. G = (Given(returned) \o query.sorted)'
    BY ONLY <2>1, q = query', ret = returned'
  <2>3. \A v : Satisfies(v)' <=> Satisfies(v)
    BY ONLY <1>1 DEF Satisfies
  <2>4. \A r, s : Precedes(r, s)' <=> Precedes(r, s)
    BY ONLY <1>1 DEF Precedes, RowLess
  <2>5. Selected' = Selected
    BY ONLY <1>1 DEF Selected, Ids, Satisfies
  <2>6. Collects(q, G)
    BY ONLY <1>2, <2>1
  <2>7. /\ G \in Seq(RowSet)
        /\ \A n \in DOMAIN G :
             /\ G[n].id \in DOMAIN table' /\ G[n].id < query'.at /\ G[n].id <= query'.end
             /\ Satisfies(G[n].values)'
             /\ G[n].id \notin touched' => G[n].values = table'[G[n].id]
        /\ \A m, n \in DOMAIN G :
             m < n => IF query'.loaded THEN Precedes(G[m], G[n])' ELSE G[m].id < G[n].id
    BY ONLY <1>1, <2>3, <2>4, <2>6, q = query' DEF Collects
  <2>8. \A j \in (Selected \ touched)' :
          j < query'.at /\ j <= query'.end => \E n \in DOMAIN G : G[n].id = j
    BY ONLY <1>1, <2>5, <2>6, q = query' DEF Collects
  <2> QED
    BY ONLY <2>2, <2>7, <2>8 DEF Collects
<1> QED
  BY ONLY <1>3, <1>4 DEF ScanOK

\* The caller inserts or erases a row.
LEMMA ChangeScan ==
  ASSUME TableOK, NEW i \in 1 .. Len(table) + 1, NEW row \in {Gone} \cup RowValues, Change(i, row)
  PROVE  TableOK' /\ (ScanOK(query, returned) => ScanOK(query, returned)')
<1>1. /\ touched' = touched \cup {i} /\ query' = query /\ returned' = returned
      /\ predicates' = predicates /\ order' = order /\ limit' = limit
      /\ table' = IF i > Len(table) THEN Append(table, row) ELSE [table EXCEPT ![i] = row]
  BY DEF Change, statement
<1>2. Len(table) \in Nat /\ DOMAIN table = 1 .. Len(table) /\ table \in Seq({Gone} \cup RowValues)
  BY DEF TableOK
<1>3. table' \in Seq({Gone} \cup RowValues)
  <2> DEFINE T == {Gone} \cup RowValues
  <2>1. table \in Seq(T) /\ row \in T /\ Len(table) \in Nat /\ DOMAIN table = 1 .. Len(table)
    BY ONLY <1>2, row \in {Gone} \cup RowValues
  <2> HIDE DEF T
  <2>2. ASSUME i > Len(table) PROVE table' \in Seq(T)
    BY ONLY <1>1, <2>1, <2>2
  <2>3. ASSUME ~(i > Len(table)) PROVE table' \in Seq(T)
    <3>1. table' = [table EXCEPT ![i] = row] /\ i \in 1 .. Len(table)
      BY ONLY <1>1, <2>1, <2>3, i \in 1 .. Len(table) + 1
    <3> QED
      BY ONLY <2>1, <3>1, ExceptSeq
  <2> QED
    BY ONLY <2>2, <2>3 DEF T
<1>4. TableOK'
  BY ONLY <1>3 DEF TableOK, RowValues
<1>5. /\ \A j \in DOMAIN table : j \in DOMAIN table' /\ (j # i => table'[j] = table[j])
      /\ \A j \in DOMAIN table' : j = i \/ j \in DOMAIN table
  <2>1. CASE i > Len(table)
    <3>1. table' = Append(table, row) /\ i = Len(table) + 1
      BY ONLY <1>1, <1>2, <2>1, i \in 1 .. Len(table) + 1
    <3> QED
      BY ONLY <1>2, <3>1, row \in {Gone} \cup RowValues
  <2>2. CASE ~(i > Len(table))
    BY ONLY <1>1, <1>2, <2>2
  <2> QED
    BY ONLY <2>1, <2>2
<1>6. ASSUME ScanOK(query, returned) PROVE ScanOK(query, returned)'
  <2>1. QueryOK(query, returned) /\ Collects(query, Given(returned) \o query.sorted)
    BY ONLY <1>6 DEF ScanOK
  <2>2. QueryOK(query, returned)'
    BY ONLY <1>1, <1>5, <2>1 DEF QueryOK, RemainingOK, OrderOK
  <2>3. PICK G : G = Given(returned) \o query.sorted
    OBVIOUS
  <2>4. G = (Given(returned) \o query.sorted)'
    BY ONLY <1>1, <2>3
  <2>5. \A v : Satisfies(v)' <=> Satisfies(v)
    BY ONLY <1>1 DEF Satisfies
  <2>6. \A r, s : Precedes(r, s)' <=> Precedes(r, s)
    BY ONLY <1>1 DEF Precedes, RowLess
  <2>7. ASSUME NEW j \in (Selected \ touched)' PROVE j \in Selected \ touched /\ table'[j] = table[j]
    <3>1. j \in DOMAIN table' /\ table'[j] # Gone /\ Satisfies(table[j])' /\ j \notin touched /\ j # i
      BY ONLY <1>1, <2>7 DEF Selected, Ids
    <3>2. j \in DOMAIN table /\ table'[j] = table[j]
      BY ONLY <1>5, <3>1
    <3>3. Satisfies(table[j])
      BY ONLY <1>1, <3>1, <3>2 DEF Satisfies
    <3> QED
      BY ONLY <3>1, <3>2, <3>3 DEF Selected, Ids
  <2>8. Collects(query, G)
    BY ONLY <2>1, <2>3
  <2>9. /\ G \in Seq(RowSet)
        /\ \A n \in DOMAIN G :
             /\ G[n].id \in DOMAIN table' /\ G[n].id < query'.at /\ G[n].id <= query'.end
             /\ Satisfies(G[n].values)'
             /\ G[n].id \notin touched' => G[n].values = table'[G[n].id]
        /\ \A m, n \in DOMAIN G :
             m < n => IF query'.loaded THEN Precedes(G[m], G[n])' ELSE G[m].id < G[n].id
    BY ONLY <1>1, <1>5, <2>5, <2>6, <2>8 DEF Collects
  <2>10. \A j \in (Selected \ touched)' :
           j < query'.at /\ j <= query'.end => \E n \in DOMAIN G : G[n].id = j
    BY ONLY <1>1, <2>7, <2>8 DEF Collects
  <2>11. Collects(query, Given(returned) \o query.sorted)'
    BY ONLY <2>4, <2>9, <2>10 DEF Collects
  <2> QED
    BY ONLY <2>2, <2>11 DEF ScanOK
<1> QED
  BY ONLY <1>4, <1>6

-----------------------------------------------------------------------------
\* Nothing has happened before a query is open; a scan is as ScanOK says.
ScanInv ==
  /\ TableOK
  /\ limit = Absent \/ limit \in Nat
  /\ ~query.open => returned = <<>> /\ touched = {}
  /\ query.open => DOMAIN query = QueryFields
  /\ query.open /\ query.scans => ScanOK(query, returned)

\* The operators' state is written field by field.
LEMMA ShapeStays ==
  ASSUME NEW q, DOMAIN q = QueryFields
  PROVE  /\ DOMAIN Loaded(q) = QueryFields /\ Loaded(q).open = q.open /\ Loaded(q).scans = q.scans
         /\ Loaded(q).sorts = q.sorts /\ Loaded(q).remaining = q.remaining
         /\ DOMAIN Drained(q) = QueryFields /\ Drained(q).open = q.open
         /\ Drained(q).scans = q.scans /\ Drained(q).remaining = q.remaining
         /\ \A n : /\ DOMAIN Passed(q, n) = QueryFields /\ Passed(q, n).open = q.open
                   /\ Passed(q, n).scans = q.scans /\ Passed(q, n).remaining = q.remaining
<1>1. /\ DOMAIN Drained(q) = QueryFields /\ Drained(q).open = q.open
      /\ Drained(q).scans = q.scans /\ Drained(q).remaining = q.remaining
      /\ Drained(q).sorts = q.sorts
  BY DEF Drained, QueryFields
<1>2. ASSUME NEW n
      PROVE  /\ DOMAIN Passed(q, n) = QueryFields /\ Passed(q, n).open = q.open
             /\ Passed(q, n).scans = q.scans /\ Passed(q, n).remaining = q.remaining
  <2>1. PICK at, rows : Passed(q, n) = [q EXCEPT !.at = at, !.rows = rows]
    BY ONLY TRUE DEF Passed
  <2> QED
    BY ONLY <2>1, DOMAIN q = QueryFields DEF QueryFields
<1>3. PICK d, sorted : d = Drained(q)
                       /\ Loaded(q) = IF q.loaded THEN q ELSE [d EXCEPT !.loaded = TRUE, !.sorted = sorted]
  BY ONLY TRUE DEF Loaded
<1>4. /\ DOMAIN Loaded(q) = QueryFields /\ Loaded(q).open = q.open /\ Loaded(q).scans = q.scans
      /\ Loaded(q).sorts = q.sorts /\ Loaded(q).remaining = q.remaining
  BY ONLY <1>1, <1>3, DOMAIN q = QueryFields DEF QueryFields
<1> QED
  BY ONLY <1>1, <1>2, <1>4

\* A pull keeps the invariant if the query it makes is as ScanOK says.
LEMMA PullKeeps ==
  ASSUME ScanInv, UNCHANGED <<statement, table, touched>>, query.open,
         NEW q, NEW ret, q = query', ret = returned',
         DOMAIN q = QueryFields, q.open = query.open, q.scans = query.scans,
         query.scans => ScanOK(q, ret)
  PROVE  ScanInv'
<1>1. limit' = limit /\ table' = table
  BY DEF statement
<1>2. TableOK' /\ (limit = Absent \/ limit \in Nat)'
  BY ONLY <1>1, ScanInv DEF ScanInv, TableOK, RowValues
<1>3. query'.open /\ DOMAIN query' = QueryFields
  BY ONLY q = query', q.open = query.open, query.open, DOMAIN q = QueryFields
<1>4. ASSUME query'.scans PROVE ScanOK(query, returned)'
  <2>1. ScanOK(q, ret)
    BY ONLY <1>4, q = query', q.scans = query.scans, query.scans => ScanOK(q, ret)
  <2> QED
    BY <2>1, CarryScan
<1> QED
  BY ONLY <1>2, <1>3, <1>4 DEF ScanInv, QueryFields

\* A table starts as its rows are given, with no query.
LEMMA ScanInit == Init => ScanInv
<1> SUFFICES ASSUME Init PROVE ScanInv
  OBVIOUS
<1>1. TableOK
  BY RowsAssumption DEF Init, StatementInit, TableOK, RowValues, RowsAssumption
<1>2. limit = Absent \/ limit \in Nat
  BY LimitAssumption DEF Init, StatementInit, LimitAssumption
<1>3. ~query.open /\ returned = <<>> /\ touched = {}
  BY DEF Init, NoQuery
<1> QED
  BY ONLY <1>1, <1>2, <1>3 DEF ScanInv

\* Every step keeps the invariant.
LEMMA ScanNext == ScanInv /\ [Next]_vars => ScanInv'
<1> SUFFICES ASSUME ScanInv, [Next]_vars PROVE ScanInv'
  OBVIOUS
<1>1. CASE Grow
  <2>1. /\ ~query.open /\ query' = query /\ returned' = returned /\ touched' = touched
        /\ limit' = limit /\ table' = table
    BY <1>1 DEF Grow, AddPredicate, history
  <2>2. TableOK' /\ (limit = Absent \/ limit \in Nat)'
    BY ONLY <2>1, ScanInv DEF ScanInv, TableOK, RowValues
  <2> QED
    BY ONLY <2>1, <2>2, ScanInv DEF ScanInv
<1>2. CASE Bind
  <2>1. /\ ~query.open /\ Binds /\ query' = NewQuery(ChosenAccess)
        /\ UNCHANGED <<statement, table, touched>> /\ returned' = returned
    BY <1>2 DEF Bind
  <2>2. TableOK /\ (limit = Absent \/ limit \in Nat) /\ touched = {} /\ returned = <<>>
    BY ONLY <2>1, ScanInv DEF ScanInv
  <2>3. limit' = limit /\ table' = table
    BY ONLY <2>1 DEF statement
  <2>4. TableOK' /\ (limit = Absent \/ limit \in Nat)'
    BY ONLY <2>2, <2>3 DEF TableOK, RowValues
  <2>5. query'.open /\ DOMAIN query' = QueryFields
    BY ONLY <2>1 DEF NewQuery, QueryFields
  <2>6. ASSUME query'.scans PROVE ScanOK(query, returned)'
    <3>1. PICK q, ret : q = NewQuery(ChosenAccess) /\ ret = <<>>
      OBVIOUS
    <3>2. q.scans /\ q = query' /\ ret = returned'
      BY ONLY <2>1, <2>2, <2>6, <3>1
    <3>3. ScanOK(q, ret)
      BY ONLY <2>1, <2>2, <3>1, <3>2, BindScan
    <3> QED
      BY ONLY <2>1, <3>2, <3>3, CarryScan
  <2> QED
    BY ONLY <2>4, <2>5, <2>6 DEF ScanInv, QueryFields
<1>3. CASE PullFiltered
  <2>1. query.open /\ ~query.sorts /\ HasMore(query)
    BY <1>3 DEF PullFiltered
  <2>2. PICK rows : rows = Upcoming(query)
    OBVIOUS
  <2>3. PICK n : n = CHOOSE m \in Passing(rows) : \A k \in Passing(rows) : m <= k
    OBVIOUS
  <2>4. Return(Passed(query, n), rows[n])
    BY ONLY <1>3, <2>2, <2>3 DEF PullFiltered
  <2>5. PICK q, ret : q = [Passed(query, n) EXCEPT !.remaining = Counted(@)]
                      /\ ret = Append(returned, Output(rows[n]))
    OBVIOUS
  <2>6. q = query' /\ ret = returned' /\ UNCHANGED <<statement, table, touched>>
    BY ONLY <2>4, <2>5 DEF Return, Counted
  <2>7. DOMAIN query = QueryFields
    BY ONLY <2>1, ScanInv DEF ScanInv
  <2>8. PICK d : d = Passed(query, n)
    OBVIOUS
  <2>9. DOMAIN d = QueryFields /\ d.open = query.open /\ d.scans = query.scans
    BY ONLY <2>7, <2>8, ShapeStays
  <2>10. DOMAIN q = QueryFields /\ q.open = query.open /\ q.scans = query.scans
    BY ONLY <2>5, <2>8, <2>9 DEF QueryFields
  <2>11. ASSUME query.scans PROVE ScanOK(q, ret)
    <3>1. TableOK /\ ScanOK(query, returned) /\ query.remaining # 0
      BY ONLY <2>1, <2>11, ScanInv DEF ScanInv, HasMore
    <3>2. Passing(rows) # {}
      BY ONLY <2>1, <2>2 DEF HasMore
    <3>3. Passing(rows) \in SUBSET Nat /\ IsFiniteSet(Passing(rows))
      <4>1. QueryOK(query, returned)
        BY ONLY <3>1 DEF ScanOK
      <4>2. query.at \in Int /\ query.end \in Int
        BY ONLY <4>1 DEF QueryOK
      <4>3. PICK I \in SUBSET Ids : rows = ById(I)
        BY ONLY <2>2, <2>11 DEF Upcoming
      <4>4. rows \in Seq(RowSet)
        BY ONLY <3>1, <4>3, ByIdLists
      <4>5. Len(rows) \in Nat /\ Passing(rows) \in SUBSET (1 .. Len(rows))
        BY ONLY <4>4 DEF Passing
      <4>6. IsFiniteSet(1 .. Len(rows))
        BY ONLY <4>5, FS_Interval
      <4> QED
        BY ONLY <4>5, <4>6, FS_Subset
    <3>4. n \in Passing(rows) /\ \A k \in Passing(rows) : n <= k
      <4>1. \E m \in Passing(rows) : \A k \in Passing(rows) : m <= k
        BY ONLY <3>2, <3>3, SmallestNumber
      <4> QED
        BY ONLY <2>3, <4>1
    <3> QED
      BY ONLY <2>1, <2>2, <2>5, <2>11, <3>1, <3>4, PullScan
  <2> QED
    BY ONLY <2>1, <2>6, <2>10, <2>11, ScanInv, PullKeeps
<1>4. CASE PullSorted
  <2>1. query.open /\ query.sorts /\ HasMore(query) /\ DOMAIN query = QueryFields
    BY <1>4 DEF PullSorted, ScanInv
  <2>2. PICK d : d = Loaded(query)
    OBVIOUS
  <2>3. /\ DOMAIN d = QueryFields /\ d.open = query.open /\ d.scans = query.scans
        /\ d.sorts = query.sorts /\ d.remaining = query.remaining
    BY ONLY <2>1, <2>2, ShapeStays
  <2>4. Return([d EXCEPT !.sorted = Tail(@)], Head(d.sorted))
    BY ONLY <1>4, <2>2 DEF PullSorted
  <2>5. PICK q, ret : q = [d EXCEPT !.sorted = Tail(@), !.remaining = Counted(@)]
                      /\ ret = Append(returned, Output(Head(d.sorted)))
    OBVIOUS
  <2>6. q = query' /\ ret = returned' /\ UNCHANGED <<statement, table, touched>>
    <3>1. q = [[d EXCEPT !.sorted = Tail(@)] EXCEPT !.remaining = Counted(@)]
      BY ONLY <2>3, <2>5 DEF QueryFields
    <3> QED
      BY ONLY <2>4, <2>5, <3>1 DEF Return, Counted
  <2>7. DOMAIN q = QueryFields /\ q.open = query.open /\ q.scans = query.scans
    BY ONLY <2>3, <2>5 DEF QueryFields
  <2>8. ASSUME query.scans PROVE ScanOK(q, ret)
    <3>1. TableOK /\ ScanOK(query, returned) /\ query.remaining # 0 /\ d.sorted # <<>>
      BY ONLY <2>1, <2>2, <2>8, ScanInv DEF ScanInv, HasMore
    <3>2. ScanOK(d, returned) /\ d.loaded
      BY ONLY <2>1, <2>2, <2>8, <3>1, LoadScan
    <3>3. d.sorts /\ d.remaining # 0
      BY ONLY <2>1, <2>3, <3>1
    <3> QED
      BY ONLY <2>5, <3>1, <3>2, <3>3, PopScan
  <2> QED
    BY ONLY <2>1, <2>6, <2>7, <2>8, ScanInv, PullKeeps
<1>5. CASE PullNothing
  <2>1. query.open /\ ~HasMore(query) /\ DOMAIN query = QueryFields
    BY <1>5 DEF PullNothing, ScanInv
  <2>2. PICK d : d = IF query.remaining = 0 THEN query
                     ELSE IF query.sorts THEN Loaded(query) ELSE Drained(query)
    OBVIOUS
  <2>3. DOMAIN d = QueryFields /\ d.open = query.open /\ d.scans = query.scans
    BY ONLY <2>1, <2>2, ShapeStays
  <2>4. PICK q, ret : q = [d EXCEPT !.ended = TRUE] /\ ret = returned
    OBVIOUS
  <2>5. q = query' /\ ret = returned' /\ UNCHANGED <<statement, table, touched>>
    BY ONLY <1>5, <2>2, <2>4 DEF PullNothing, history
  <2>6. DOMAIN q = QueryFields /\ q.open = query.open /\ q.scans = query.scans
    BY ONLY <2>3, <2>4 DEF QueryFields
  <2>7. ASSUME query.scans PROVE ScanOK(q, ret)
    <3>1. TableOK /\ ScanOK(query, ret)
      BY ONLY <2>1, <2>4, <2>7, ScanInv DEF ScanInv
    <3>2. CASE query.remaining = 0
      <4>1. d = query
        BY ONLY <2>2, <3>2
      <4> QED
        BY ONLY <2>4, <3>1, <3>2, <4>1, EndScan
    <3>3. CASE query.remaining # 0 /\ query.sorts
      <4>1. d = Loaded(query) /\ d.sorted = <<>>
        BY ONLY <2>1, <2>2, <3>3 DEF HasMore
      <4>2. ScanOK(d, ret) /\ d.loaded /\ d.at > d.end
        BY ONLY <2>7, <3>1, <3>3, <4>1, LoadScan
      <4> QED
        BY ONLY <2>4, <4>1, <4>2, EndScan
    <3>4. CASE query.remaining # 0 /\ ~query.sorts
      <4>1. d = Drained(query) /\ Passing(Upcoming(query)) = {}
        BY ONLY <2>1, <2>2, <3>4 DEF HasMore
      <4>2. ScanOK(d, ret) /\ d.at > d.end /\ d.sorted = <<>> /\ ~d.sorts
        BY ONLY <2>7, <3>1, <3>4, <4>1, DrainScan
      <4> QED
        BY ONLY <2>4, <4>2, EndScan
    <3> QED
      BY ONLY <3>2, <3>3, <3>4
  <2> QED
    BY ONLY <2>1, <2>5, <2>6, <2>7, ScanInv, PullKeeps
<1>6. ASSUME NEW i \in DOMAIN table, PullFails(i) PROVE ScanInv'
  <2>1. /\ query.open /\ query.scans /\ query.remaining # 0 /\ ~query.loaded
        /\ i \in query.at .. query.end /\ DOMAIN query = QueryFields
    BY <1>6 DEF PullFails, ScanInv
  <2>2. PICK kept : kept = Filtered(Upcoming([query EXCEPT !.end = i - 1]))
    OBVIOUS
  <2>3. query.sorts \/ kept = <<>>
    BY ONLY <1>6, <2>2 DEF PullFails
  <2>4. PICK q, ret : q = [query EXCEPT !.at = i, !.sorted = @ \o kept] /\ ret = returned
    OBVIOUS
  <2>5. q = query' /\ ret = returned' /\ UNCHANGED <<statement, table, touched>>
    BY ONLY <1>6, <2>2, <2>4 DEF PullFails, history
  <2>6. DOMAIN q = QueryFields /\ q.open = query.open /\ q.scans = query.scans
    BY ONLY <2>1, <2>4 DEF QueryFields
  <2>7. TableOK /\ ScanOK(query, ret)
    BY ONLY <2>1, <2>4, ScanInv DEF ScanInv
  <2>8. ScanOK(q, ret)
    BY ONLY <2>1, <2>2, <2>3, <2>4, <2>7, FailScan
  <2> QED
    BY ONLY <2>1, <2>5, <2>6, <2>8, ScanInv, PullKeeps
<1>7. ASSUME NEW i \in 1 .. Len(table) + 1, NEW row \in {Gone} \cup RowValues, Change(i, row)
      PROVE  ScanInv'
  <2>1. TableOK
    BY DEF ScanInv
  <2>2. TableOK' /\ (ScanOK(query, returned) => ScanOK(query, returned)')
    BY ONLY <1>7, <2>1, ChangeScan
  <2>3. query.open /\ query' = query /\ limit' = limit
    BY ONLY <1>7 DEF Change, statement
  <2> QED
    BY ONLY <2>2, <2>3, ScanInv DEF ScanInv
<1>8. ASSUME NEW i \in DOMAIN table, EraseRow(i) PROVE ScanInv'
  <2>1. i \in 1 .. Len(table) + 1
    BY ONLY i \in DOMAIN table, ScanInv DEF ScanInv, TableOK
  <2>2. Change(i, Gone)
    BY ONLY <1>8 DEF EraseRow
  <2> QED
    BY ONLY <1>7, <2>1, <2>2
<1>9. ASSUME NEW row \in NewRows, InsertRow(row) PROVE ScanInv'
  <2>1. PICK i \in 1 .. Len(table) + 1 : Change(i, row)
    BY ONLY <1>9 DEF InsertRow
  <2>2. row \in {Gone} \cup RowValues
    BY NewRowsAssumption DEF NewRowsAssumption, RowValues
  <2> QED
    BY ONLY <1>7, <2>1, <2>2
<1>10. CASE UNCHANGED vars
  <2>1. /\ query' = query /\ returned' = returned /\ UNCHANGED <<statement, table, touched>>
        /\ limit' = limit /\ table' = table /\ touched' = touched
    BY <1>10 DEF vars, history, statement
  <2>2. CASE query.open
    <3>1. PICK q, ret : q = query /\ ret = returned
      OBVIOUS
    <3>2. /\ q = query' /\ ret = returned' /\ DOMAIN q = QueryFields /\ q.open = query.open
          /\ q.scans = query.scans /\ (query.scans => ScanOK(q, ret))
      BY ONLY <2>1, <2>2, <3>1, ScanInv DEF ScanInv
    <3> QED
      BY ONLY <2>1, <2>2, <3>2, ScanInv, PullKeeps
  <2>3. CASE ~query.open
    <3>1. TableOK' /\ (limit = Absent \/ limit \in Nat)'
      BY ONLY <2>1, ScanInv DEF ScanInv, TableOK, RowValues
    <3> QED
      BY ONLY <2>1, <2>3, <3>1, ScanInv DEF ScanInv
  <2> QED
    BY ONLY <2>2, <2>3
<1> QED
  BY <1>1, <1>2, <1>3, <1>4, <1>5, <1>6, <1>8, <1>9, <1>10 DEF Next, Pull

\* The invariant says of the rows returned what a scan promises.
LEMMA ScanInvIsEnough == ScanInv => ScansSeeUntouchedRows
<1> SUFFICES ASSUME ScanInv, query.open, query.scans PROVE ScansSeeUntouchedRows
  BY DEF ScansSeeUntouchedRows
<1> DEFINE rows == Given(returned)
           ids == {returned[n].id : n \in DOMAIN returned}
           missed == {i \in Selected : i \notin ids \cup touched}
           G == rows \o query.sorted
<1>1. QueryOK(query, returned) /\ Collects(query, G) /\ TableOK
  BY ONLY ScanInv, query.open, query.scans DEF ScanInv, ScanOK
<1>2. /\ query.at \in Nat /\ query.end \in Nat /\ query.sorted \in Seq(RowSet)
      /\ (query.sorts <=> order # Absent) /\ rows \in Seq(RowSet) /\ limit # 0
      /\ (\E S : returned \in Seq(S)) /\ RemainingOK(query.remaining, Len(returned))
      /\ (~query.sorts => query.sorted = <<>> /\ ~query.loaded)
      /\ (query.sorts /\ ~query.loaded => returned = <<>>)
      /\ (query.loaded => query.at > query.end)
      /\ (\A i \in DOMAIN table : i > query.end => i \in touched)
      /\ (query.ended => query.remaining = 0 \/ (query.at > query.end /\ query.sorted = <<>>))
  BY ONLY <1>1 DEF QueryOK
<1>3. /\ Len(rows) \in Nat /\ DOMAIN rows = 1 .. Len(rows) /\ Len(rows) = Len(returned)
      /\ DOMAIN rows = DOMAIN returned
  <2>1. DOMAIN rows = DOMAIN returned
    BY ONLY TRUE DEF Given
  <2>2. Len(returned) \in Nat /\ DOMAIN returned = 1 .. Len(returned)
    BY ONLY <1>2
  <2> HIDE DEF rows
  <2> QED
    BY ONLY <1>2, <2>1, <2>2
<1>4. \A i : i \in ids <=> \E n \in DOMAIN rows : rows[n].id = i
  BY ONLY <1>3 DEF Given, Source
<1>5. \A i : i \in missed <=> i \in Selected /\ i \notin ids /\ i \notin touched
  OBVIOUS
<1>6. \A i \in Ids : i \in Nat /\ i \in DOMAIN table
  BY IdsAreFinite, <1>1 DEF TableOK
<1> HIDE DEF rows, ids, missed
<1>7. /\ DOMAIN G = 1 .. Len(rows) + Len(query.sorted) /\ Len(query.sorted) \in Nat
      /\ DOMAIN query.sorted = 1 .. Len(query.sorted)
      /\ \A n \in DOMAIN rows : n \in DOMAIN G /\ G[n] = rows[n]
      /\ \A n \in DOMAIN query.sorted : Len(rows) + n \in DOMAIN G /\ G[Len(rows) + n] = query.sorted[n]
      /\ \A n \in DOMAIN G : n \in DOMAIN rows
           \/ (n - Len(rows) \in DOMAIN query.sorted /\ G[n] = query.sorted[n - Len(rows)])
  <2>1. PICK given \in Seq(RowSet) : given = rows
    BY ONLY <1>2
  <2>2. PICK sorted \in Seq(RowSet) : sorted = query.sorted
    BY ONLY <1>2
  <2>3. PICK H : H = given \o sorted
    OBVIOUS
  <2>4. H = G
    BY ONLY <2>1, <2>2, <2>3
  <2>5. DOMAIN H = 1 .. Len(given) + Len(sorted) /\ Len(sorted) \in Nat
        /\ DOMAIN sorted = 1 .. Len(sorted) /\ Len(given) \in Nat /\ DOMAIN given = 1 .. Len(given)
    BY ONLY <2>3
  <2>6. \A n \in DOMAIN given : n \in DOMAIN H /\ H[n] = given[n]
    BY ONLY <2>3, <2>5
  <2>7. \A n \in DOMAIN sorted : Len(given) + n \in DOMAIN H /\ H[Len(given) + n] = sorted[n]
    BY ONLY <2>3, <2>5
  <2>8. \A n \in DOMAIN H : n \in DOMAIN given
          \/ (n - Len(given) \in DOMAIN sorted /\ H[n] = sorted[n - Len(given)])
    BY ONLY <2>3, <2>5
  <2> HIDE DEF G
  <2> QED
    BY ONLY <2>1, <2>2, <2>4, <2>5, <2>6, <2>7, <2>8
<1> HIDE DEF G
<1>8. /\ \A n \in DOMAIN G :
           /\ G[n].id \in DOMAIN table /\ G[n].id < query.at /\ G[n].id <= query.end
           /\ Satisfies(G[n].values)
           /\ G[n].id \notin touched => G[n].values = table[G[n].id]
      /\ \A i \in Selected \ touched :
           i < query.at /\ i <= query.end => \E n \in DOMAIN G : G[n].id = i
      /\ \A m, n \in DOMAIN G :
           m < n => IF query.loaded THEN Precedes(G[m], G[n]) ELSE G[m].id < G[n].id
  BY ONLY <1>1 DEF Collects
<1>9. ASSUME NEW m \in DOMAIN G, NEW n \in DOMAIN G, m < n, DOMAIN rows # {}
      PROVE  Precedes(G[m], G[n])
  <2>1. CASE query.loaded
    BY ONLY <1>8, <1>9, <2>1
  <2>2. CASE ~query.loaded
    <3>1. order = Absent
      BY ONLY <1>2, <1>3, <1>9, <2>2
    <3>2. G[m].id < G[n].id
      BY ONLY <1>8, <1>9, <2>2
    <3> QED
      BY ONLY <3>1, <3>2 DEF Precedes
  <2> QED
    BY ONLY <2>1, <2>2
<1>10. \A m, n \in DOMAIN rows : m < n => Precedes(rows[m], rows[n])
  BY ONLY <1>7, <1>9
<1>11. \A n \in DOMAIN rows :
         /\ Satisfies(rows[n].values) /\ rows[n].id <= query.end
         /\ rows[n].id \notin touched => rows[n].values = table[rows[n].id]
  BY ONLY <1>7, <1>8
<1>12. \A i \in missed : i \in Nat /\ i <= query.end /\ i \in Selected \ touched
  BY ONLY <1>2, <1>5, <1>6 DEF Selected
\* A row that was read and not returned is still in the sort.
<1>13. ASSUME NEW i \in missed, i < query.at
       PROVE  \E n \in DOMAIN query.sorted : query.sorted[n].id = i
                /\ query.sorted[n].values = table[i] /\ G[Len(rows) + n] = query.sorted[n]
                /\ Len(rows) + n \in DOMAIN G
  <2>1. PICK n \in DOMAIN G : G[n].id = i
    BY ONLY <1>8, <1>12, <1>13
  <2>2. n \notin DOMAIN rows
    BY ONLY <1>4, <1>5, <1>7, <1>13, <2>1
  <2>3. PICK k \in DOMAIN query.sorted : k = n - Len(rows) /\ G[n] = query.sorted[k]
    BY ONLY <1>7, <2>2
  <2>4. G[n].values = table[i]
    BY ONLY <1>5, <1>8, <1>13, <2>1
  <2> QED
    BY ONLY <1>7, <2>1, <2>3, <2>4
<1>14. ASSUME query.ended, Len(rows) = limit, NEW i \in missed, NEW n \in DOMAIN rows
       PROVE  Precedes(rows[n], [id |-> i, values |-> table[i]])
  <2>1. CASE query.sorts
    <3>1. query.loaded
      BY ONLY <1>2, <1>3, <1>14, <2>1
    <3>2. i < query.at
      BY ONLY <1>2, <1>12, <1>14, <3>1
    <3>3. PICK k \in DOMAIN query.sorted : query.sorted[k].id = i
                 /\ query.sorted[k].values = table[i] /\ G[Len(rows) + k] = query.sorted[k]
                 /\ Len(rows) + k \in DOMAIN G
      BY ONLY <1>13, <1>14, <3>2
    <3>4. query.sorted[k] = [id |-> i, values |-> table[i]]
      <4>1. PICK row \in RowSet : row = query.sorted[k]
        BY ONLY <1>2, <3>3
      <4>2. row = [id |-> row.id, values |-> row.values]
        BY ONLY <4>1 DEF RowSet
      <4> QED
        BY ONLY <3>3, <4>1, <4>2
    <3>5. n \in DOMAIN G /\ n < Len(rows) + k /\ G[n] = rows[n] /\ DOMAIN rows # {}
      BY ONLY <1>3, <1>7, <1>14, <3>3
    <3>6. Precedes(G[n], G[Len(rows) + k])
      BY ONLY <1>9, <3>3, <3>5
    <3> QED
      BY ONLY <3>3, <3>4, <3>5, <3>6
  <2>2. CASE ~query.sorts
    <3>1. order = Absent /\ query.sorted = <<>>
      BY ONLY <1>2, <2>2
    <3>2. ~(i < query.at)
      <4>1. DOMAIN query.sorted = {}
        BY ONLY <3>1
      <4> QED
        BY ONLY <1>13, <1>14, <4>1
    <3>3. rows[n].id \in Nat /\ rows[n].id < query.at
      <4>1. PICK row \in RowSet : row = rows[n]
        BY ONLY <1>2, <1>14
      <4>2. row.id \in Nat
        BY ONLY row \in RowSet DEF RowSet
      <4>3. G[n] = rows[n] /\ n \in DOMAIN G
        BY ONLY <1>7, <1>14
      <4> QED
        BY ONLY <1>8, <4>1, <4>2, <4>3
    <3>4. rows[n].id < i
      BY ONLY <1>2, <1>12, <1>14, <3>2, <3>3
    <3> QED
      BY ONLY <3>1, <3>4 DEF Precedes
  <2> QED
    BY ONLY <2>1, <2>2
<1>15. ASSUME query.ended, Len(rows) # limit PROVE missed = {}
  <2>1. query.remaining # 0
    <3>1. Absent # 0
      BY LimitAssumption DEF LimitAssumption
    <3> QED
      BY ONLY <1>2, <1>3, <1>15, <3>1 DEF RemainingOK
  <2>2. query.at > query.end /\ query.sorted = <<>>
    BY ONLY <1>2, <1>15, <2>1
  <2>3. DOMAIN query.sorted = {}
    BY ONLY <2>2
  <2>4. ASSUME NEW i \in missed PROVE FALSE
    <3>1. i < query.at
      BY ONLY <1>2, <1>12, <2>2, <2>4
    <3> QED
      BY ONLY <1>13, <2>3, <2>4, <3>1
  <2> QED
    BY ONLY <2>4
<1> QED
  <2>1. /\ \A m, n \in DOMAIN rows : m < n => Precedes(rows[m], rows[n])
        /\ \A n \in DOMAIN rows :
             /\ Satisfies(rows[n].values) /\ rows[n].id <= query.end
             /\ rows[n].id \notin touched => rows[n].values = table[rows[n].id]
        /\ query.ended =>
             IF Len(rows) = limit
             THEN \A i \in missed, n \in DOMAIN rows :
                    Precedes(rows[n], [id |-> i, values |-> table[i]])
             ELSE missed = {}
    BY ONLY <1>10, <1>11, <1>14, <1>15
  <2> QED
    BY ONLY <2>1 DEF ScansSeeUntouchedRows, rows, ids, missed, Given

\* In every state the pulled rows of a scan and what it has still to do are what
\* was read of the table.
THEOREM ScanInvariance == Spec => []ScanInv
  BY ScanInit, ScanNext, PTL DEF Spec

\* A scan that runs while its table changes returns no row twice, none that fails
\* a filter and none of a page added since; it keeps its order; and it misses no
\* row that nobody touched, except behind the limit: for every table, statement,
\* set of rows inserted and number of failed pulls.
THEOREM ScanCorrect == Spec => []ScansSeeUntouchedRows
  BY ScanInvariance, ScanInvIsEnough, PTL

-----------------------------------------------------------------------------
\* Pulling gives the rows of the whole answer.  First, sequences: those of some
\* elements, and those in ascending order.
IsSeq(s) == \E S : s \in Seq(S)
Ascends(s) == s \in Seq(Nat) /\ \A m, n \in DOMAIN s : m < n => s[m] < s[n]

\* Two sequences have their elements in one set.
LEMMA TogetherIn ==
  ASSUME NEW s, NEW t, IsSeq(s), IsSeq(t)
  PROVE  \E T : s \in Seq(T) /\ t \in Seq(T)
<1>1. PICK S : s \in Seq(S)
  BY DEF IsSeq
<1>2. PICK U : t \in Seq(U)
  BY DEF IsSeq
<1>3. PICK T : T = S \cup U
  OBVIOUS
<1>4. S \subseteq T /\ U \subseteq T
  BY ONLY <1>3
<1>5. s \in Seq(T)
  BY ONLY <1>1, <1>4, SeqMonotonic
<1>6. t \in Seq(T)
  BY ONLY <1>2, <1>4, SeqMonotonic
<1> QED
  BY <1>5, <1>6

\* Whatever is written element by element over 1 .. n is a sequence.
LEMMA ElementsAreSeq ==
  ASSUME NEW n \in Nat, NEW s, DOMAIN s = 1 .. n, s = [m \in DOMAIN s |-> s[m]]
  PROVE  IsSeq(s) /\ Len(s) = n
<1>1. PICK T : T = {s[m] : m \in 1 .. n}
  OBVIOUS
<1>2. s \in [1 .. n -> T]
  BY ONLY <1>1, DOMAIN s = 1 .. n, s = [m \in DOMAIN s |-> s[m]]
<1>3. s \in Seq(T) /\ Len(s) = n
  BY ONLY <1>2, n \in Nat, SeqDef, LenProperties
<1> QED
  BY <1>3 DEF IsSeq

\* What both concatenations and single elements are made of.
LEMMA Joined ==
  ASSUME NEW s, NEW t, IsSeq(s), IsSeq(t)
  PROVE  /\ IsSeq(s \o t) /\ Len(s) \in Nat /\ Len(t) \in Nat /\ Len(s \o t) = Len(s) + Len(t)
         /\ DOMAIN s = 1 .. Len(s) /\ DOMAIN t = 1 .. Len(t) /\ DOMAIN (s \o t) = 1 .. Len(s) + Len(t)
         /\ \A n \in DOMAIN s : n \in DOMAIN (s \o t) /\ (s \o t)[n] = s[n]
         /\ \A n \in DOMAIN t : n + Len(s) \in DOMAIN (s \o t) /\ (s \o t)[n + Len(s)] = t[n]
         /\ \A n \in DOMAIN (s \o t) :
              \/ n \in DOMAIN s /\ (s \o t)[n] = s[n]
              \/ n - Len(s) \in DOMAIN t /\ (s \o t)[n] = t[n - Len(s)]
         /\ s \o t = [n \in DOMAIN (s \o t) |-> (s \o t)[n]]
<1>1. PICK T : s \in Seq(T) /\ t \in Seq(T)
  BY TogetherIn
<1>2. s \o t \in Seq(T)
  BY ONLY <1>1
<1>3. /\ Len(s) \in Nat /\ Len(t) \in Nat /\ Len(s \o t) = Len(s) + Len(t)
      /\ DOMAIN s = 1 .. Len(s) /\ DOMAIN t = 1 .. Len(t) /\ DOMAIN (s \o t) = 1 .. Len(s) + Len(t)
      /\ \A n \in DOMAIN s : (s \o t)[n] = s[n]
      /\ \A n \in DOMAIN t : (s \o t)[n + Len(s)] = t[n]
  BY ONLY <1>1
<1>4. PICK r \in Seq(T) : r = s \o t
  BY ONLY <1>2
<1>5. r = [n \in DOMAIN r |-> r[n]]
  BY ONLY r \in Seq(T)
<1>6. /\ \A n \in DOMAIN s : n \in DOMAIN r
      /\ \A n \in DOMAIN t : n + Len(s) \in DOMAIN r
      /\ \A n \in DOMAIN r : n \in DOMAIN s \/ (n - Len(s) \in DOMAIN t /\ n = n - Len(s) + Len(s))
  BY ONLY <1>3, <1>4
<1>7. IsSeq(s \o t)
  BY ONLY <1>2 DEF IsSeq
<1> QED
  BY ONLY <1>3, <1>4, <1>5, <1>6, <1>7

\* A sequence is what its elements are.
LEMMA SameElements ==
  ASSUME NEW s, NEW t, IsSeq(s), IsSeq(t), DOMAIN s = DOMAIN t, \A n \in DOMAIN s : s[n] = t[n]
  PROVE  s = t
<1>1. PICK T : s \in Seq(T) /\ t \in Seq(T)
  BY TogetherIn
<1>2. s = [n \in DOMAIN s |-> s[n]] /\ t = [n \in DOMAIN t |-> t[n]]
  BY ONLY <1>1
<1> QED
  BY ONLY <1>2, DOMAIN s = DOMAIN t, \A n \in DOMAIN s : s[n] = t[n]

\* An ascending sequence agrees with one that has the same numbers.
LEMMA AscendingAgrees ==
  ASSUME NEW s, NEW t, Ascends(s), Ascends(t),
         \A n \in DOMAIN s : \E m \in DOMAIN t : t[m] = s[n],
         \A m \in DOMAIN t : \E n \in DOMAIN s : s[n] = t[m]
  PROVE  \A n \in DOMAIN s : n \in DOMAIN t /\ t[n] = s[n]
<1> DEFINE Differs == {n \in DOMAIN s : ~(n \in DOMAIN t /\ t[n] = s[n])}
<1>1. /\ Len(s) \in Nat /\ DOMAIN s = 1 .. Len(s) /\ \A n \in DOMAIN s : s[n] \in Nat
      /\ Len(t) \in Nat /\ DOMAIN t = 1 .. Len(t) /\ \A n \in DOMAIN t : t[n] \in Nat
  BY ONLY Ascends(s), Ascends(t) DEF Ascends
<1>2. /\ \A m, n \in DOMAIN s : m < n => s[m] < s[n]
      /\ \A m, n \in DOMAIN t : m < n => t[m] < t[n]
  BY ONLY Ascends(s), Ascends(t) DEF Ascends
<1>3. \A n : n \in Differs <=> n \in DOMAIN s /\ ~(n \in DOMAIN t /\ t[n] = s[n])
  OBVIOUS
<1>4. Differs \in SUBSET (1 .. Len(s))
  BY <1>1
<1>5. IsFiniteSet(1 .. Len(s))
  BY ONLY <1>1, FS_Interval
<1> HIDE DEF Differs
<1>6. Differs \in SUBSET Nat /\ IsFiniteSet(Differs)
  <2>1. PICK D : D = Differs
    OBVIOUS
  <2>2. PICK N : N = 1 .. Len(s)
    OBVIOUS
  <2>3. IsFiniteSet(D)
    BY ONLY <1>4, <1>5, <2>1, <2>2, FS_Subset
  <2> QED
    BY ONLY <1>1, <1>4, <2>1, <2>3
<1>7. ASSUME Differs # {} PROVE FALSE
  <2>1. PICK n \in Differs : \A k \in Differs : n <= k
    BY ONLY <1>6, <1>7, SmallestNumber
  <2>2. n \in DOMAIN s /\ n \in Nat /\ ~(n \in DOMAIN t /\ t[n] = s[n])
    BY ONLY <1>1, <1>3, <2>1
  <2>3. \A k \in DOMAIN s : k < n => k \in DOMAIN t /\ t[k] = s[k]
    <3> SUFFICES ASSUME NEW k \in DOMAIN s, k < n PROVE k \in DOMAIN t /\ t[k] = s[k]
      OBVIOUS
    <3>1. k \notin Differs
      BY ONLY <1>1, <2>1, <2>2, k \in DOMAIN s, k < n
    <3> QED
      BY ONLY <1>3, <3>1, k \in DOMAIN s
  <2>4. PICK m \in DOMAIN t : t[m] = s[n]
    BY <2>2
  <2>5. ~(m < n)
    <3>1. ASSUME m < n PROVE FALSE
      <4>1. m \in DOMAIN s
        BY ONLY <1>1, <2>2, <3>1, m \in DOMAIN t
      <4>2. t[m] = s[m] /\ s[m] < s[n]
        BY ONLY <1>2, <2>2, <2>3, <3>1, <4>1
      <4> QED
        BY ONLY <1>1, <2>2, <2>4, <4>1, <4>2
    <3> QED
      BY ONLY <3>1
  <2>6. n < m /\ n \in DOMAIN t
    BY ONLY <1>1, <2>2, <2>4, <2>5
  <2>7. t[n] < s[n]
    BY ONLY <1>2, <2>4, <2>6
  <2>8. PICK k \in DOMAIN s : s[k] = t[n]
    BY <2>6
  <2>9. k < n
    <3>1. ~(n < k) /\ n # k
      BY ONLY <1>1, <1>2, <2>2, <2>7, <2>8
    <3> QED
      BY ONLY <1>1, <2>2, <3>1, k \in DOMAIN s
  <2>10. k \in DOMAIN t /\ t[k] = t[n] /\ t[k] < t[n]
    BY ONLY <1>2, <2>3, <2>6, <2>8, <2>9
  <2> QED
    BY ONLY <1>1, <2>6, <2>10
<1> QED
  BY ONLY <1>3, <1>7

\* So that it is the only one.
LEMMA AscendingIsOne ==
  ASSUME NEW s, NEW t, Ascends(s), Ascends(t),
         \A n \in DOMAIN s : \E m \in DOMAIN t : t[m] = s[n],
         \A m \in DOMAIN t : \E n \in DOMAIN s : s[n] = t[m]
  PROVE  DOMAIN s = DOMAIN t /\ \A n \in DOMAIN s : s[n] = t[n]
<1>1. \A n \in DOMAIN s : n \in DOMAIN t /\ t[n] = s[n]
  BY AscendingAgrees
<1>2. \A n \in DOMAIN t : n \in DOMAIN s /\ s[n] = t[n]
  BY AscendingAgrees
<1> QED
  BY ONLY <1>1, <1>2

-----------------------------------------------------------------------------
\* There is one sequence of rows with these record ids that passes the filters.
LEMMA BringsOne ==
  ASSUME TableOK, NEW lo, NEW hi, NEW k, NEW l, Brings(k, lo, hi), Brings(l, lo, hi)
  PROVE  k = l
<1> DEFINE s == [n \in DOMAIN k |-> k[n].id]
           t == [n \in DOMAIN l |-> l[n].id]
<1>0. Ids \in SUBSET Nat
  BY IdsAreFinite
<1>1. ASSUME NEW g, Brings(g, lo, hi), NEW r, r = [n \in DOMAIN g |-> g[n].id]
      PROVE  /\ Ascends(r) /\ DOMAIN r = DOMAIN g /\ \A n \in DOMAIN g : r[n] = g[n].id
             /\ IsSeq(g)
             /\ \A n \in DOMAIN g : g[n] = [id |-> g[n].id, values |-> table[g[n].id]]
             /\ \A n \in DOMAIN g : g[n].id \in Selected /\ lo <= g[n].id /\ g[n].id <= hi
  <2>1. /\ g \in Seq(RowSet)
        /\ \A n \in DOMAIN g :
             /\ g[n].id \in Ids /\ lo <= g[n].id /\ g[n].id <= hi
             /\ g[n].values = table[g[n].id] /\ Satisfies(g[n].values)
        /\ \A m, n \in DOMAIN g : m < n => g[m].id < g[n].id
    BY ONLY <1>1 DEF Brings
  <2>2. Len(g) \in Nat /\ DOMAIN g = 1 .. Len(g) /\ \A n \in DOMAIN g : g[n] \in RowSet
    BY ONLY <2>1
  <2>3. DOMAIN r = DOMAIN g /\ \A n \in DOMAIN g : r[n] = g[n].id /\ r[n] \in Nat
    BY ONLY <1>0, <1>1, <2>1
  <2>4. r \in Seq(Nat)
    <3>1. r \in [1 .. Len(g) -> Nat]
      BY ONLY <1>1, <2>2, <2>3
    <3> QED
      BY ONLY <2>2, <3>1, SeqDef
  <2>5. Ascends(r)
    BY ONLY <2>1, <2>3, <2>4 DEF Ascends
  <2>6. ASSUME NEW n \in DOMAIN g PROVE g[n] = [id |-> g[n].id, values |-> table[g[n].id]]
    <3>1. PICK row \in RowSet : row = g[n]
      BY ONLY <2>2, <2>6
    <3>2. row = [id |-> row.id, values |-> row.values]
      BY ONLY row \in RowSet DEF RowSet
    <3> QED
      BY ONLY <2>1, <2>6, <3>1, <3>2
  <2>7. \A n \in DOMAIN g : g[n].id \in Selected
    BY ONLY <2>1 DEF Selected
  <2>8. IsSeq(g)
    BY ONLY <2>1 DEF IsSeq
  <2> QED
    BY ONLY <2>1, <2>3, <2>5, <2>6, <2>7, <2>8
<1>2. PICK a : a = s
  OBVIOUS
<1>3. PICK b : b = t
  OBVIOUS
<1>4. /\ Ascends(a) /\ DOMAIN a = DOMAIN k /\ \A n \in DOMAIN k : a[n] = k[n].id
      /\ IsSeq(k)
      /\ \A n \in DOMAIN k : k[n] = [id |-> k[n].id, values |-> table[k[n].id]]
      /\ \A n \in DOMAIN k : k[n].id \in Selected /\ lo <= k[n].id /\ k[n].id <= hi
  BY ONLY <1>1, <1>2, Brings(k, lo, hi)
<1>5. /\ Ascends(b) /\ DOMAIN b = DOMAIN l /\ \A n \in DOMAIN l : b[n] = l[n].id
      /\ IsSeq(l)
      /\ \A n \in DOMAIN l : l[n] = [id |-> l[n].id, values |-> table[l[n].id]]
      /\ \A n \in DOMAIN l : l[n].id \in Selected /\ lo <= l[n].id /\ l[n].id <= hi
  BY ONLY <1>1, <1>3, Brings(l, lo, hi)
<1>6. \A n \in DOMAIN a : \E m \in DOMAIN b : b[m] = a[n]
  BY ONLY <1>4, <1>5, Brings(l, lo, hi) DEF Brings
<1>7. \A m \in DOMAIN b : \E n \in DOMAIN a : a[n] = b[m]
  BY ONLY <1>4, <1>5, Brings(k, lo, hi) DEF Brings
<1>8. DOMAIN a = DOMAIN b /\ \A n \in DOMAIN a : a[n] = b[n]
  BY ONLY <1>4, <1>5, <1>6, <1>7, AscendingIsOne
<1>9. DOMAIN k = DOMAIN l /\ \A n \in DOMAIN k : k[n] = l[n]
  BY ONLY <1>4, <1>5, <1>8
<1> QED
  BY ONLY <1>4, <1>5, <1>9, SameElements

\* Rows of some record ids, followed by those of later ones.
LEMMA BringsOn ==
  ASSUME TableOK, NEW lo \in Int, NEW i \in Int, NEW hi \in Int, lo <= i + 1, i <= hi,
         NEW k, NEW l, Brings(k, lo, i), Brings(l, i + 1, hi)
  PROVE  Brings(k \o l, lo, hi)
<1>0. Ids \in SUBSET Nat
  BY IdsAreFinite
<1>1. k \in Seq(RowSet) /\ l \in Seq(RowSet)
  BY ONLY Brings(k, lo, i), Brings(l, i + 1, hi) DEF Brings
<1>2. IsSeq(k) /\ IsSeq(l)
  BY ONLY <1>1 DEF IsSeq
<1>3. PICK H : H = k \o l
  OBVIOUS
<1>4. /\ Len(k) \in Nat /\ Len(l) \in Nat /\ DOMAIN k = 1 .. Len(k) /\ DOMAIN l = 1 .. Len(l)
      /\ DOMAIN H = 1 .. Len(k) + Len(l)
      /\ \A n \in DOMAIN k : n \in DOMAIN H /\ H[n] = k[n]
      /\ \A n \in DOMAIN l : n + Len(k) \in DOMAIN H /\ H[n + Len(k)] = l[n]
      /\ \A n \in DOMAIN H :
           \/ n \in DOMAIN k /\ H[n] = k[n]
           \/ n - Len(k) \in DOMAIN l /\ H[n] = l[n - Len(k)]
  BY ONLY <1>2, <1>3, Joined
<1>5. H \in Seq(RowSet)
  BY ONLY <1>1, <1>3
<1>6. /\ \A n \in DOMAIN k :
           /\ k[n].id \in Ids /\ lo <= k[n].id /\ k[n].id <= i
           /\ k[n].values = table[k[n].id] /\ Satisfies(k[n].values)
      /\ \A m, n \in DOMAIN k : m < n => k[m].id < k[n].id
      /\ \A j \in Selected : lo <= j /\ j <= i => \E n \in DOMAIN k : k[n].id = j
  BY ONLY Brings(k, lo, i) DEF Brings
<1>7. /\ \A n \in DOMAIN l :
           /\ l[n].id \in Ids /\ i + 1 <= l[n].id /\ l[n].id <= hi
           /\ l[n].values = table[l[n].id] /\ Satisfies(l[n].values)
      /\ \A m, n \in DOMAIN l : m < n => l[m].id < l[n].id
      /\ \A j \in Selected : i + 1 <= j /\ j <= hi => \E n \in DOMAIN l : l[n].id = j
  BY ONLY Brings(l, i + 1, hi) DEF Brings
<1>8. \A j \in Ids : j \in Int /\ (j <= i => j <= hi) /\ (i + 1 <= j => lo <= j /\ i < j)
  BY ONLY <1>0, lo \in Int, i \in Int, hi \in Int, lo <= i + 1, i <= hi
<1>9. ASSUME NEW n \in DOMAIN H
      PROVE  /\ H[n].id \in Ids /\ lo <= H[n].id /\ H[n].id <= hi
             /\ H[n].values = table[H[n].id] /\ Satisfies(H[n].values)
  <2>1. CASE n \in DOMAIN k /\ H[n] = k[n]
    BY ONLY <1>6, <1>8, <2>1
  <2>2. CASE n - Len(k) \in DOMAIN l /\ H[n] = l[n - Len(k)]
    BY ONLY <1>7, <1>8, <2>2
  <2> QED
    BY ONLY <1>4, <1>9, <2>1, <2>2
<1>10. ASSUME NEW m \in DOMAIN H, NEW n \in DOMAIN H, m < n PROVE H[m].id < H[n].id
  <2>1. CASE n \in DOMAIN k
    <3>1. m \in DOMAIN k
      BY ONLY <1>4, <1>10, <2>1
    <3> QED
      BY ONLY <1>4, <1>6, <1>10, <2>1, <3>1
  <2>2. CASE m \in DOMAIN k /\ n - Len(k) \in DOMAIN l /\ H[n] = l[n - Len(k)]
    <3>1. PICK x \in Ids : x = H[m].id /\ x <= i
      BY ONLY <1>4, <1>6, <2>2
    <3>2. PICK y \in Ids : y = H[n].id /\ i + 1 <= y
      BY ONLY <1>7, <2>2
    <3>3. x \in Int /\ y \in Int /\ i < y
      BY ONLY <1>8, <3>2, x \in Ids, y \in Ids
    <3> QED
      BY ONLY <3>1, <3>2, <3>3, i \in Int
  <2>3. CASE /\ m - Len(k) \in DOMAIN l /\ H[m] = l[m - Len(k)]
             /\ n - Len(k) \in DOMAIN l /\ H[n] = l[n - Len(k)]
    <3>1. m - Len(k) < n - Len(k)
      BY ONLY <1>4, <1>10
    <3> QED
      BY ONLY <1>7, <2>3, <3>1
  <2> QED
    BY ONLY <1>4, <1>10, <2>1, <2>2, <2>3
<1>11. ASSUME NEW j \in Selected, lo <= j, j <= hi PROVE \E n \in DOMAIN H : H[n].id = j
  <2>1. j \in Int
    BY ONLY <1>8, j \in Selected DEF Selected
  <2>2. j <= i \/ i + 1 <= j
    BY ONLY <2>1, i \in Int
  <2>3. CASE j <= i
    <3>1. PICK n \in DOMAIN k : k[n].id = j
      BY ONLY <1>6, <1>11, <2>3
    <3> QED
      BY ONLY <1>4, <3>1
  <2>4. CASE i + 1 <= j
    <3>1. PICK n \in DOMAIN l : l[n].id = j
      BY ONLY <1>7, <1>11, <2>4
    <3> QED
      BY ONLY <1>4, <3>1
  <2> QED
    BY ONLY <2>2, <2>3, <2>4
<1>12. Brings(H, lo, hi)
  BY ONLY <1>5, <1>9, <1>10, <1>11 DEF Brings
<1> QED
  BY ONLY <1>3, <1>12

\* Where nothing passes, nothing is kept.
LEMMA FilteredNone ==
  ASSUME NEW rows, IsSeq(rows), Passing(rows) = {}
  PROVE  Filtered(rows) = <<>>
<1>1. PICK S : rows \in Seq(S)
  BY DEF IsSeq
<1>2. PICK kept : kept = Filtered(rows)
  OBVIOUS
<1>3. kept \in Seq(S) /\ \E places \in Seq(Nat) : Keeps(places, rows, kept)
  BY ONLY <1>1, <1>2, FilteredLists
<1>4. PICK places \in Seq(Nat) : Keeps(places, rows, kept)
  BY ONLY <1>3
<1>5. ASSUME NEW n \in DOMAIN kept PROVE FALSE
  <2>1. places[n] \in DOMAIN rows /\ kept[n] = rows[places[n]] /\ Satisfies(kept[n].values)
    BY ONLY <1>4, <1>5 DEF Keeps
  <2>2. places[n] \in Passing(rows)
    BY ONLY <2>1 DEF Passing
  <2> QED
    BY ONLY <2>2, Passing(rows) = {}
<1>6. kept = <<>>
  <2>1. Len(kept) \in Nat /\ DOMAIN kept = 1 .. Len(kept)
    BY ONLY <1>3
  <2>2. Len(kept) = 0
    <3>1. Len(kept) > 0 => 1 \in DOMAIN kept
      BY ONLY <2>1
    <3> QED
      BY ONLY <1>5, <2>1, <3>1
  <2> QED
    BY ONLY <1>3, <2>2, EmptySeq
<1> QED
  BY ONLY <1>2, <1>6

\* The rows after the n-th.
Follow(rows, n, rest) == rest = SubSeq(rows, n + 1, Len(rows))

\* The rows kept are those at the first place that passes and of the rest.
LEMMA FilteredTail ==
  ASSUME NEW rows, IsSeq(rows), NEW n \in Passing(rows), \A k \in Passing(rows) : n <= k,
         NEW rest, Follow(rows, n, rest)
  PROVE  IsSeq(rest) /\ Filtered(rows) = <<rows[n]>> \o Filtered(rest)
<1>1. PICK S : rows \in Seq(S)
  BY DEF IsSeq
<1>2. /\ Len(rows) \in Nat /\ DOMAIN rows = 1 .. Len(rows) /\ n \in DOMAIN rows /\ n \in Nat
      /\ Satisfies(rows[n].values) /\ rows[n] \in S
  BY ONLY <1>1, n \in Passing(rows) DEF Passing
<1>3. /\ rest \in Seq(S) /\ Len(rest) = Len(rows) - n /\ DOMAIN rest = 1 .. Len(rows) - n
      /\ \A m \in DOMAIN rest : rest[m] = rows[m + n]
  <2>1. rest \in Seq(S)
    BY ONLY <1>1, <1>2, Follow(rows, n, rest) DEF Follow
  <2>2. Len(rest) = Len(rows) - n
    BY ONLY <1>1, <1>2, Follow(rows, n, rest) DEF Follow
  <2>3. DOMAIN rest = 1 .. Len(rows) - n
    BY ONLY <1>2, <2>1, <2>2
  <2>4. \A m \in 1 .. Len(rows) - n : rest[m] = rows[m + n]
    BY ONLY <1>1, <1>2, Follow(rows, n, rest) DEF Follow
  <2> QED
    BY ONLY <2>1, <2>2, <2>3, <2>4
<1>4. PICK kept, tail : kept = Filtered(rows) /\ tail = Filtered(rest)
  OBVIOUS
<1>5. kept \in Seq(S) /\ \E places \in Seq(Nat) : Keeps(places, rows, kept)
  BY ONLY <1>1, <1>4, FilteredLists
<1>6. tail \in Seq(S) /\ \E places \in Seq(Nat) : Keeps(places, rest, tail)
  BY ONLY <1>3, <1>4, FilteredLists
<1>7. PICK P \in Seq(Nat) : Keeps(P, rows, kept)
  BY ONLY <1>5
<1>8. PICK Q \in Seq(Nat) : Keeps(Q, rest, tail)
  BY ONLY <1>6
<1>9. PICK R : R = [m \in 1 .. Len(tail) + 1 |-> IF m = 1 THEN n ELSE Q[m - 1] + n]
  OBVIOUS
<1>10. /\ DOMAIN P = DOMAIN kept
       /\ \A m \in DOMAIN kept :
            P[m] \in DOMAIN rows /\ kept[m] = rows[P[m]] /\ Satisfies(kept[m].values)
       /\ \A k, m \in DOMAIN kept : k < m => P[k] < P[m]
       /\ \A m \in DOMAIN rows : Satisfies(rows[m].values) => \E k \in DOMAIN kept : P[k] = m
  BY ONLY <1>7 DEF Keeps
<1>11. /\ DOMAIN Q = DOMAIN tail
       /\ \A m \in DOMAIN tail :
            Q[m] \in DOMAIN rest /\ tail[m] = rest[Q[m]] /\ Satisfies(tail[m].values)
       /\ \A k, m \in DOMAIN tail : k < m => Q[k] < Q[m]
       /\ \A m \in DOMAIN rest : Satisfies(rest[m].values) => \E k \in DOMAIN tail : Q[k] = m
  BY ONLY <1>8 DEF Keeps
<1>12. Len(tail) \in Nat /\ DOMAIN tail = 1 .. Len(tail) /\ Len(kept) \in Nat /\ DOMAIN kept = 1 .. Len(kept)
  BY ONLY <1>5, <1>6
<1>13. /\ DOMAIN R = 1 .. Len(tail) + 1 /\ R[1] = n
       /\ \A m \in DOMAIN tail : m + 1 \in DOMAIN R /\ R[m + 1] = Q[m] + n
       /\ \A m \in DOMAIN R : m = 1 \/ (m - 1 \in DOMAIN tail /\ R[m] = Q[m - 1] + n)
  BY ONLY <1>9, <1>12
<1>14. \A m \in DOMAIN tail :
         /\ Q[m] \in Nat /\ Q[m] > 0 /\ Q[m] + n \in DOMAIN rows /\ Q[m] + n > n
         /\ tail[m] = rows[Q[m] + n] /\ Satisfies(rows[Q[m] + n].values)
  <2> SUFFICES ASSUME NEW m \in DOMAIN tail
               PROVE  /\ Q[m] \in Nat /\ Q[m] > 0 /\ Q[m] + n \in DOMAIN rows /\ Q[m] + n > n
                      /\ tail[m] = rows[Q[m] + n] /\ Satisfies(rows[Q[m] + n].values)
    OBVIOUS
  <2>1. PICK q \in DOMAIN rest : q = Q[m] /\ tail[m] = rest[q] /\ Satisfies(tail[m].values)
    BY ONLY <1>11, m \in DOMAIN tail
  <2>2. rest[q] = rows[q + n] /\ q \in Nat /\ q > 0 /\ q + n \in DOMAIN rows /\ q + n > n
    BY ONLY <1>2, <1>3, q \in DOMAIN rest
  <2> QED
    BY ONLY <2>1, <2>2
<1>15. Ascends(P)
  BY ONLY <1>7, <1>10, P \in Seq(Nat) DEF Ascends
<1>16. Ascends(R)
  <2>1. ASSUME NEW m \in 1 .. Len(tail) + 1 PROVE R[m] \in Nat
    <3>1. m = 1 \/ (m - 1 \in DOMAIN tail /\ R[m] = Q[m - 1] + n)
      BY ONLY <1>13, m \in 1 .. Len(tail) + 1
    <3>2. ASSUME m - 1 \in DOMAIN tail PROVE Q[m - 1] \in Nat
      BY ONLY <1>14, <3>2
    <3> QED
      BY ONLY <1>2, <1>13, <3>1, <3>2
  <2>2. R \in Seq(Nat)
    <3>1. R = [m \in 1 .. Len(tail) + 1 |-> R[m]]
      BY ONLY <1>9
    <3>2. R \in [1 .. Len(tail) + 1 -> Nat]
      BY ONLY <2>1, <3>1
    <3>3. PICK length \in Nat : length = Len(tail) + 1
      BY ONLY <1>12
    <3>4. R \in [1 .. length -> Nat]
      BY ONLY <3>2, <3>3
    <3> QED
      BY ONLY <3>4, length \in Nat, SeqDef
  <2>3. ASSUME NEW k \in DOMAIN R, NEW m \in DOMAIN R, k < m PROVE R[k] < R[m]
    <3>1. m - 1 \in DOMAIN tail /\ R[m] = Q[m - 1] + n /\ k \in Int /\ m \in Int
      BY ONLY <1>12, <1>13, <2>3
    <3>2. CASE k = 1
      BY ONLY <1>13, <1>14, <3>1, <3>2
    <3>3. CASE k - 1 \in DOMAIN tail /\ R[k] = Q[k - 1] + n
      <4>1. k - 1 < m - 1
        BY ONLY <2>3, <3>1
      <4>2. Q[k - 1] < Q[m - 1] /\ Q[k - 1] \in Nat /\ Q[m - 1] \in Nat
        BY ONLY <1>11, <1>14, <3>1, <3>3, <4>1
      <4> QED
        BY ONLY <1>2, <3>1, <3>3, <4>2
    <3> QED
      BY ONLY <1>13, <2>3, <3>2, <3>3
  <2> QED
    BY ONLY <2>2, <2>3 DEF Ascends
<1>17. ASSUME NEW m \in DOMAIN P PROVE \E k \in DOMAIN R : R[k] = P[m]
  <2>1. PICK x \in DOMAIN rows : x = P[m] /\ Satisfies(rows[x].values)
    BY ONLY <1>10, <1>17
  <2>2. x \in Passing(rows) /\ x \in Nat
    BY ONLY <1>2, <2>1 DEF Passing
  <2>3. n <= x
    BY ONLY <2>2, \A k \in Passing(rows) : n <= k
  <2>4. CASE x = n
    <3>1. 1 \in DOMAIN R /\ R[1] = n
      BY ONLY <1>12, <1>13
    <3> QED
      BY ONLY <2>1, <2>4, <3>1
  <2>5. CASE x # n
    <3>1. x - n \in DOMAIN rest /\ x - n + n = x
      BY ONLY <1>2, <1>3, <2>2, <2>3, <2>5, x \in DOMAIN rows
    <3>2. rest[x - n] = rows[x]
      BY ONLY <1>3, <3>1
    <3>3. PICK k \in DOMAIN tail : Q[k] = x - n
      BY ONLY <1>11, <2>1, <3>1, <3>2
    <3>4. k + 1 \in DOMAIN R /\ R[k + 1] = x
      BY ONLY <1>13, <3>1, <3>3
    <3> QED
      BY ONLY <2>1, <3>4
  <2> QED
    BY ONLY <2>4, <2>5
<1>18. ASSUME NEW k \in DOMAIN R PROVE \E m \in DOMAIN P : P[m] = R[k]
  <2>1. R[k] \in DOMAIN rows /\ Satisfies(rows[R[k]].values)
    BY ONLY <1>2, <1>13, <1>14, <1>18
  <2> QED
    BY ONLY <1>10, <2>1
<1>19. DOMAIN P = DOMAIN R /\ \A m \in DOMAIN P : P[m] = R[m]
  BY ONLY <1>15, <1>16, <1>17, <1>18, AscendingIsOne
<1>20. PICK one : one = <<rows[n]>>
  OBVIOUS
<1>21. IsSeq(one) /\ IsSeq(tail) /\ IsSeq(kept) /\ Len(one) = 1 /\ one[1] = rows[n]
  BY ONLY <1>2, <1>5, <1>6, <1>20 DEF IsSeq
<1>22. PICK H : H = one \o tail
  OBVIOUS
<1>23. /\ IsSeq(H) /\ DOMAIN H = 1 .. 1 + Len(tail) /\ DOMAIN one = 1 .. 1
       /\ \A m \in DOMAIN one : H[m] = one[m]
       /\ \A m \in DOMAIN tail : H[m + 1] = tail[m]
  <2>1. /\ IsSeq(H) /\ DOMAIN H = 1 .. Len(one) + Len(tail) /\ DOMAIN one = 1 .. Len(one)
        /\ \A m \in DOMAIN one : H[m] = one[m]
        /\ \A m \in DOMAIN tail : H[m + Len(one)] = tail[m]
    <3>1. IsSeq(one) /\ IsSeq(tail)
      BY ONLY <1>21
    <3>2. /\ Len(one) \in Nat /\ Len(tail) \in Nat /\ DOMAIN one = 1 .. Len(one) /\ DOMAIN tail = 1 .. Len(tail)
          /\ DOMAIN H = 1 .. Len(one) + Len(tail)
          /\ \A m \in DOMAIN one : m \in DOMAIN H /\ H[m] = one[m]
          /\ \A m \in DOMAIN tail : m + Len(one) \in DOMAIN H /\ H[m + Len(one)] = tail[m]
      BY ONLY <1>22, <3>1, Joined
    <3>3. IsSeq(H)
      BY ONLY <1>22, <3>1, Joined
    <3> QED
      BY ONLY <3>2, <3>3
  <2>2. \A m : m + Len(one) = m + 1
    BY ONLY <1>21
  <2>3. Len(one) + Len(tail) = 1 + Len(tail) /\ 1 .. Len(one) = 1 .. 1
    BY ONLY <1>21
  <2>4. \A m \in DOMAIN tail : H[m + 1] = tail[m]
    BY ONLY <2>1, <2>2
  <2> QED
    BY ONLY <2>1, <2>3, <2>4
<1>24. DOMAIN kept = DOMAIN H
  <2>1. DOMAIN kept = 1 .. Len(tail) + 1
    BY ONLY <1>10, <1>13, <1>19
  <2>2. Len(tail) + 1 = 1 + Len(tail)
    BY ONLY <1>12
  <2> QED
    BY ONLY <1>23, <2>1, <2>2
<1>25. ASSUME NEW m \in DOMAIN kept PROVE kept[m] = H[m]
  <2>1. kept[m] = rows[R[m]] /\ m \in DOMAIN R
    BY ONLY <1>10, <1>19, <1>25
  <2>2. CASE m = 1
    BY ONLY <1>13, <1>21, <1>23, <2>1, <2>2
  <2>3. CASE m - 1 \in DOMAIN tail /\ R[m] = Q[m - 1] + n
    <3>1. m - 1 + 1 = m
      BY ONLY <1>12, <1>13, <2>1
    <3>2. H[m - 1 + 1] = tail[m - 1] /\ tail[m - 1] = rows[Q[m - 1] + n]
      BY ONLY <1>14, <1>23, <2>3
    <3> QED
      BY ONLY <2>1, <2>3, <3>1, <3>2
  <2> QED
    BY ONLY <1>13, <2>1, <2>2, <2>3
<1>26. kept = H
  BY ONLY <1>21, <1>23, <1>24, <1>25, SameElements
<1>27. IsSeq(rest)
  BY ONLY <1>3 DEF IsSeq
<1> QED
  BY ONLY <1>4, <1>20, <1>22, <1>26, <1>27

-----------------------------------------------------------------------------
\* The limit k lets as many of n rows pass.
LimitOK(k) == k = Absent \/ k \in Nat
UpTo(k, n) == IF k = Absent \/ k >= n THEN n ELSE k

\* answer is what has been returned followed by rows that are still to come, each
\* put out, as far as the limit k goes.
OutputBy(sel, row) ==
  [id |-> row.id, source |-> row.values,
   values |-> IF sel.all THEN row.values
              ELSE [n \in DOMAIN sel.columns |-> row.values[ColumnOf[sel.columns[n]]]]]
Continues(sel, ret, rest, k, answer) ==
  /\ IsSeq(ret) /\ IsSeq(rest) /\ IsSeq(answer) /\ LimitOK(k)
  /\ Len(answer) = Len(ret) + UpTo(k, Len(rest))
  /\ \A n \in DOMAIN ret : answer[n] = ret[n]
  /\ \A m \in 1 .. UpTo(k, Len(rest)) : answer[Len(ret) + m] = OutputBy(sel, rest[m])

\* It is written the way the caller gets a row.
LEMMA OutputIs == \A row : Output(row) = OutputBy(select, row)
  BY DEF Output, OutputBy, Projected

\* The domain of a sequence.
LEMMA SeqDomain == ASSUME NEW s, IsSeq(s) PROVE Len(s) \in Nat /\ DOMAIN s = 1 .. Len(s)
<1>1. PICK S : s \in Seq(S)
  BY DEF IsSeq
<1> QED
  BY ONLY <1>1

\* One element more at the front, and at the end.
Fronted(row, s, t) == t = <<row>> \o s
Backed(s, e, t) == t = Append(s, e)

\* The first element and the others after it.
LEMMA FrontRow ==
  ASSUME NEW row, NEW s, IsSeq(s), NEW t, Fronted(row, s, t)
  PROVE  /\ IsSeq(t) /\ Len(t) = Len(s) + 1 /\ t[1] = row
         /\ \A m \in 1 .. Len(s) : t[m + 1] = s[m]
<1>1. PICK S : s \in Seq(S)
  BY DEF IsSeq
<1>2. PICK T : T = S \cup {row}
  OBVIOUS
<1>3. s \in Seq(T) /\ row \in T
  <2>1. S \subseteq T /\ row \in T
    BY ONLY <1>2
  <2> QED
    BY ONLY <1>1, <2>1, SeqMonotonic
<1>4. t \in Seq(T) /\ Len(t) = Len(s) + 1 /\ t[1] = row
  BY ONLY <1>3, Fronted(row, s, t) DEF Fronted
<1>5. \A m \in 1 .. Len(s) : t[m + 1] = s[m]
  BY ONLY <1>3, Fronted(row, s, t) DEF Fronted
<1> QED
  BY ONLY <1>4, <1>5 DEF IsSeq

\* The last element after the others.
LEMMA BackRow ==
  ASSUME NEW e, NEW s, IsSeq(s), NEW t, Backed(s, e, t)
  PROVE  /\ IsSeq(t) /\ Len(t) = Len(s) + 1 /\ t[Len(s) + 1] = e
         /\ \A m \in 1 .. Len(s) : t[m] = s[m]
<1>1. PICK S : s \in Seq(S)
  BY DEF IsSeq
<1>2. PICK T : T = S \cup {e}
  OBVIOUS
<1>3. s \in Seq(T) /\ e \in T
  <2>1. S \subseteq T /\ e \in T
    BY ONLY <1>2
  <2> QED
    BY ONLY <1>1, <2>1, SeqMonotonic
<1>4. t \in Seq(T) /\ Len(t) = Len(s) + 1 /\ t[Len(s) + 1] = e
  BY ONLY <1>3, Backed(s, e, t) DEF Backed
<1>5. \A m \in 1 .. Len(s) : t[m] = s[m]
  BY ONLY <1>3, Backed(s, e, t) DEF Backed
<1> QED
  BY ONLY <1>4, <1>5 DEF IsSeq

\* The row returned and those still to come are together what was to come.
LEMMA RowReturned ==
  ASSUME NEW sel, NEW ret, NEW row, NEW s, IsSeq(s), NEW k, k # 0, NEW t, Fronted(row, s, t),
         NEW answer, Continues(sel, ret, t, k, answer),
         NEW more, more = Append(ret, OutputBy(sel, row))
  PROVE  Continues(sel, more, s, Counted(k), answer)
<1>1. /\ IsSeq(ret) /\ IsSeq(answer) /\ LimitOK(k)
      /\ Len(answer) = Len(ret) + UpTo(k, Len(t))
      /\ \A n \in DOMAIN ret : answer[n] = ret[n]
      /\ \A m \in 1 .. UpTo(k, Len(t)) : answer[Len(ret) + m] = OutputBy(sel, t[m])
  BY ONLY Continues(sel, ret, t, k, answer) DEF Continues
<1>2. /\ IsSeq(t) /\ Len(t) = Len(s) + 1 /\ t[1] = row
      /\ \A m \in 1 .. Len(s) : t[m + 1] = s[m]
  BY ONLY IsSeq(s), Fronted(row, s, t), FrontRow
<1>3. PICK e : e = OutputBy(sel, row)
  OBVIOUS
<1>4. /\ IsSeq(more) /\ Len(more) = Len(ret) + 1 /\ more[Len(ret) + 1] = e
      /\ \A m \in 1 .. Len(ret) : more[m] = ret[m]
  <2>1. IsSeq(ret) /\ Backed(ret, e, more)
    BY ONLY <1>1, <1>3, more = Append(ret, OutputBy(sel, row)) DEF Backed
  <2> QED
    BY ONLY <2>1, BackRow
<1>5. Len(s) \in Nat /\ Len(ret) \in Nat /\ DOMAIN ret = 1 .. Len(ret) /\ DOMAIN more = 1 .. Len(more)
  BY ONLY <1>1, <1>4, IsSeq(s), SeqDomain
<1>6. PICK u : u = UpTo(Counted(k), Len(s))
  OBVIOUS
<1>7. LimitOK(Counted(k)) /\ UpTo(k, Len(t)) = u + 1 /\ u \in Nat /\ u <= Len(s)
  <2>1. CASE k = Absent
    BY ONLY <1>2, <1>5, <1>6, <2>1 DEF UpTo, Counted, LimitOK
  <2>2. CASE k \in Nat
    <3>1. k # Absent /\ Counted(k) = k - 1 /\ k - 1 \in Nat /\ k - 1 # Absent
      BY ONLY <2>2, k # 0, LimitAssumption DEF LimitAssumption, Counted
    <3> QED
      BY ONLY <1>2, <1>5, <1>6, <2>2, <3>1 DEF UpTo, LimitOK
  <2> QED
    BY ONLY <1>1, <2>1, <2>2 DEF LimitOK
<1>8. Len(answer) = Len(more) + u
  BY ONLY <1>1, <1>4, <1>5, <1>7
<1>9. \A n \in DOMAIN more : answer[n] = more[n]
  <2>1. ASSUME NEW n \in 1 .. Len(ret) PROVE answer[n] = more[n]
    BY ONLY <1>1, <1>4, <1>5
  <2>2. answer[Len(ret) + 1] = more[Len(ret) + 1]
    <3>1. 1 \in 1 .. UpTo(k, Len(t))
      BY ONLY <1>7
    <3>2. answer[Len(ret) + 1] = OutputBy(sel, t[1])
      BY ONLY <1>1, <3>1
    <3> QED
      BY ONLY <1>2, <1>3, <1>4, <3>2
  <2>3. \A n \in DOMAIN more : n \in 1 .. Len(ret) \/ n = Len(ret) + 1
    BY ONLY <1>4, <1>5
  <2> QED
    BY ONLY <2>1, <2>2, <2>3
<1>10. ASSUME NEW m \in 1 .. u PROVE answer[Len(more) + m] = OutputBy(sel, s[m])
  <2>1. m + 1 \in 1 .. UpTo(k, Len(t)) /\ Len(more) + m = Len(ret) + (m + 1) /\ m \in 1 .. Len(s)
    BY ONLY <1>4, <1>5, <1>7, m \in 1 .. u
  <2>2. answer[Len(ret) + (m + 1)] = OutputBy(sel, t[m + 1]) /\ t[m + 1] = s[m]
    BY ONLY <1>1, <1>2, <2>1
  <2> QED
    BY ONLY <2>1, <2>2
<1> QED
  BY ONLY <1>1, <1>4, <1>6, <1>7, <1>8, <1>9, <1>10, IsSeq(s) DEF Continues

\* When no more comes, that was the answer; and before, it is the start of it.
LEMMA NoMore ==
  ASSUME NEW sel, NEW ret, NEW rest, NEW k, NEW answer, Continues(sel, ret, rest, k, answer)
  PROVE  IsPrefix(ret, answer) /\ (k = 0 \/ rest = <<>> => ret = answer)
<1>1. /\ IsSeq(ret) /\ IsSeq(rest) /\ IsSeq(answer) /\ LimitOK(k)
      /\ Len(answer) = Len(ret) + UpTo(k, Len(rest))
      /\ \A n \in DOMAIN ret : answer[n] = ret[n]
  BY ONLY Continues(sel, ret, rest, k, answer) DEF Continues
<1>2. /\ Len(ret) \in Nat /\ DOMAIN ret = 1 .. Len(ret)
      /\ Len(answer) \in Nat /\ DOMAIN answer = 1 .. Len(answer) /\ Len(rest) \in Nat
  BY ONLY <1>1, SeqDomain
<1>3. UpTo(k, Len(rest)) \in Nat
  BY ONLY <1>1, <1>2 DEF UpTo, LimitOK
<1>4. IsPrefix(ret, answer)
  <2>1. PICK S : ret \in Seq(S) /\ answer \in Seq(S)
    BY ONLY <1>1, TogetherIn
  <2>2. Len(ret) <= Len(answer)
    BY ONLY <1>1, <1>2, <1>3
  <2>3. PICK p : p = SubSeq(answer, 1, Len(ret))
    OBVIOUS
  <2>4. p \in Seq(S) /\ DOMAIN p = 1 .. Len(ret) /\ \A n \in 1 .. Len(ret) : p[n] = answer[n]
    BY ONLY <1>2, <2>1, <2>2, <2>3
  <2>5. IsSeq(p) /\ DOMAIN p = DOMAIN ret /\ \A n \in DOMAIN p : p[n] = ret[n]
    BY ONLY <1>1, <1>2, <2>4 DEF IsSeq
  <2>6. p = ret
    BY ONLY <1>1, <2>5, SameElements
  <2>7. PICK r : r = SubSeq(ret, 1, Len(ret))
    OBVIOUS
  <2>8. r \in Seq(S) /\ DOMAIN r = 1 .. Len(ret) /\ \A n \in 1 .. Len(ret) : r[n] = ret[n]
    BY ONLY <1>2, <2>1, <2>7
  <2>9. IsSeq(r) /\ DOMAIN r = DOMAIN ret /\ \A n \in DOMAIN r : r[n] = ret[n]
    BY ONLY <1>2, <2>8 DEF IsSeq
  <2>10. r = ret
    BY ONLY <1>1, <2>9, SameElements
  <2> QED
    BY ONLY <2>2, <2>3, <2>6, <2>7, <2>10 DEF IsPrefix
<1>5. ASSUME k = 0 \/ rest = <<>> PROVE ret = answer
  <2>1. UpTo(k, Len(rest)) = 0
    <3>1. CASE k = 0
      <4>1. k # Absent
        BY ONLY <3>1, LimitAssumption DEF LimitAssumption
      <4> QED
        BY ONLY <1>2, <3>1, <4>1 DEF UpTo
    <3>2. CASE rest = <<>>
      <4>1. Len(rest) = 0
        BY ONLY <3>2
      <4> QED
        BY ONLY <1>1, <4>1 DEF UpTo, LimitOK
    <3> QED
      BY ONLY <1>5, <3>1, <3>2
  <2>2. DOMAIN ret = DOMAIN answer
    BY ONLY <1>1, <1>2, <2>1
  <2> QED
    BY ONLY <1>1, <2>2, SameElements
<1> QED
  BY ONLY <1>4, <1>5

-----------------------------------------------------------------------------
\* What a query has still to return, but for the limit; and what a sort has read
\* or has still to read.
ToSort(q) == q.sorted \o Filtered(Upcoming(q))
Rest(q) ==
  IF ~q.sorts THEN Filtered(Upcoming(q))
  ELSE IF q.loaded THEN q.sorted ELSE StableSort(ToSort(q))

\* It is the same as long as the statement is, and the table if it is scanned.
LEMMA RestStays ==
  ASSUME predicates' = predicates, order' = order, NEW q, q = query',
         table' = table \/ ~q.scans
  PROVE  Rest(query)' = Rest(q)
<1>1. Filtered(Upcoming(query))' = Filtered(Upcoming(q))
  <2>1. CASE table' = table
    BY ONLY <2>1, predicates' = predicates, q = query'
       DEF Upcoming, ById, RowsOf, Ids, Sorted, Filtered, Passing, Satisfies
  <2>2. CASE ~q.scans
    <3>1. PICK rows : rows = q.rows
      OBVIOUS
    <3>2. Upcoming(q) = rows /\ Upcoming(query)' = rows
      BY ONLY <2>2, <3>1, q = query' DEF Upcoming
    <3>3. Filtered(Upcoming(query))' = Filtered(rows)
      BY ONLY <3>2, predicates' = predicates DEF Sorted, Filtered, Passing, Satisfies
    <3> QED
      BY ONLY <3>2, <3>3
  <2> QED
    BY ONLY <2>1, <2>2, table' = table \/ ~q.scans
<1>2. PICK rows : rows = ToSort(q)
  OBVIOUS
<1>3. ToSort(query)' = rows
  BY ONLY <1>1, <1>2, q = query' DEF ToSort
<1>4. StableSort(ToSort(query))' = StableSort(rows)
  BY ONLY <1>3, order' = order DEF StableSort, RowLess, Sorted
<1> QED
  BY ONLY <1>1, <1>2, <1>4, q = query' DEF Rest

\* The source holds record ids or rows, and the sort rows.
SourceOK(q) ==
  /\ DOMAIN q = QueryFields
  /\ q.scans => q.at \in Nat /\ q.end \in Nat
  /\ ~q.scans => IsSeq(q.rows)
  /\ IsSeq(q.sorted)

\* What the cursor has still to give is a sequence.
LEMMA UpcomingIsSeq ==
  ASSUME TableOK, NEW q, SourceOK(q), NEW rows, rows = Upcoming(q)
  PROVE  IsSeq(rows)
<1>1. CASE q.scans
  <2>1. PICK I \in SUBSET Ids : rows = ById(I)
    BY ONLY <1>1, rows = Upcoming(q) DEF Upcoming
  <2>2. rows \in Seq(RowSet)
    BY ONLY <2>1, TableOK, ByIdLists
  <2> QED
    BY ONLY <2>2 DEF IsSeq
<1>2. CASE ~q.scans
  <2>1. rows = q.rows /\ IsSeq(q.rows)
    BY ONLY <1>2, SourceOK(q), rows = Upcoming(q) DEF Upcoming, SourceOK
  <2> QED
    BY ONLY <2>1
<1> QED
  BY ONLY <1>1, <1>2

\* The filters and the sort make sequences of sequences.
LEMMA StagesAreSeq ==
  ASSUME NEW rows, IsSeq(rows)
  PROVE  IsSeq(Filtered(rows)) /\ IsSeq(StableSort(rows))
<1>1. PICK S : rows \in Seq(S)
  BY DEF IsSeq
<1>2. PICK kept : kept = Filtered(rows)
  OBVIOUS
<1>3. kept \in Seq(S)
  BY ONLY <1>1, <1>2, FilteredLists
<1>4. IsSeq(kept)
  BY ONLY <1>3 DEF IsSeq
<1>5. PICK sorted : sorted = StableSort(rows)
  OBVIOUS
<1>6. DOMAIN sorted = DOMAIN rows /\ sorted = [n \in DOMAIN sorted |-> sorted[n]]
  <2>1. PICK line : sorted = [n \in DOMAIN rows |-> rows[line[n]]]
    BY ONLY <1>5 DEF StableSort
  <2> QED
    BY ONLY <2>1
<1>7. Len(rows) \in Nat /\ DOMAIN sorted = 1 .. Len(rows)
  BY ONLY <1>1, <1>6
<1>8. IsSeq(sorted)
  BY ONLY <1>6, <1>7, ElementsAreSeq
<1> QED
  BY ONLY <1>2, <1>4, <1>5, <1>8

\* So is all that comes out of them.
LEMMA RestIsSeq ==
  ASSUME TableOK, NEW q, SourceOK(q)
  PROVE  IsSeq(Rest(q))
<1>1. PICK rows : rows = Upcoming(q)
  OBVIOUS
<1>2. IsSeq(rows)
  BY ONLY <1>1, TableOK, SourceOK(q), UpcomingIsSeq
<1>3. PICK kept : kept = Filtered(rows)
  OBVIOUS
<1>4. IsSeq(kept) /\ IsSeq(q.sorted)
  BY ONLY <1>2, <1>3, SourceOK(q), StagesAreSeq DEF SourceOK
<1>5. PICK input : input = q.sorted \o kept
  OBVIOUS
<1>6. IsSeq(input)
  <2>1. PICK s : s = q.sorted
    OBVIOUS
  <2>2. IsSeq(s) /\ IsSeq(kept)
    BY ONLY <1>4, <2>1
  <2>3. PICK T : s \in Seq(T) /\ kept \in Seq(T)
    BY ONLY <2>2, TogetherIn
  <2>4. input \in Seq(T)
    BY ONLY <1>5, <2>1, <2>3
  <2> QED
    BY ONLY <2>4 DEF IsSeq
<1>7. IsSeq(StableSort(input))
  BY ONLY <1>6, StagesAreSeq
<1> QED
  BY ONLY <1>1, <1>3, <1>4, <1>5, <1>7 DEF Rest, ToSort

\* It depends on the state of the source and the sort alone.
LEMMA SameRest ==
  ASSUME NEW q, NEW p, p.scans = q.scans, p.at = q.at, p.end = q.end, p.rows = q.rows,
         p.sorts = q.sorts, p.loaded = q.loaded, p.sorted = q.sorted
  PROVE  Rest(p) = Rest(q)
<1>1. Upcoming(p) = Upcoming(q)
  BY DEF Upcoming
<1>2. ToSort(p) = ToSort(q)
  BY <1>1 DEF ToSort
<1> QED
  BY <1>1, <1>2 DEF Rest

\* p is q after its source has given the n-th row, which the limit counts; after
\* its sort has; and after page i could not be read.
TakesRow(q, n, p) == p = [Passed(q, n) EXCEPT !.remaining = Counted(@)]
PopsRow(q, p) == p = [q EXCEPT !.sorted = Tail(@), !.remaining = Counted(@)]
FailsAt(q, i, kept, p) ==
  /\ i \in q.at .. q.end
  /\ kept = Filtered(Upcoming([q EXCEPT !.end = i - 1])) /\ (q.sorts \/ kept = <<>>)
  /\ p = [q EXCEPT !.at = i, !.sorted = @ \o kept]

\* A pull without a sort takes the first row of what was to come.
LEMMA RestPulled ==
  ASSUME TableOK, NEW q, SourceOK(q), ~q.sorts,
         NEW rows, rows = Upcoming(q), NEW n \in Passing(rows), \A k \in Passing(rows) : n <= k,
         NEW p, TakesRow(q, n, p)
  PROVE  /\ SourceOK(p) /\ p.remaining = Counted(q.remaining) /\ p.ended = q.ended
         /\ p.scans = q.scans /\ IsSeq(Rest(p)) /\ Fronted(rows[n], Rest(p), Rest(q))
<1>1. /\ DOMAIN q = QueryFields /\ (q.scans => q.at \in Nat /\ q.end \in Nat)
      /\ ~q.scans => IsSeq(q.rows)
      /\ IsSeq(q.sorted)
  BY ONLY SourceOK(q) DEF SourceOK
<1>2. PICK row : row = rows[n]
  OBVIOUS
<1>3. PICK rest : rest = SubSeq(q.rows, n + 1, Len(q.rows))
  OBVIOUS
<1>4. /\ p.at = row.id + 1 /\ p.end = q.end /\ p.rows = rest /\ p.scans = q.scans
      /\ p.sorts = q.sorts /\ p.loaded = q.loaded /\ p.sorted = q.sorted
      /\ p.remaining = Counted(q.remaining) /\ p.ended = q.ended /\ DOMAIN p = QueryFields
  <2>1. p = [[q EXCEPT !.at = row.id + 1, !.rows = rest] EXCEPT !.remaining = Counted(@)]
    BY ONLY <1>2, <1>3, rows = Upcoming(q), TakesRow(q, n, p) DEF TakesRow, Passed
  <2> QED
    BY ONLY <1>1, <2>1 DEF QueryFields
<1>5. Rest(q) = Filtered(rows) /\ Rest(p) = Filtered(Upcoming(p))
  BY ONLY <1>4, ~q.sorts, rows = Upcoming(q) DEF Rest
<1>6. CASE q.scans
  <2>1. BringsFirst(q, row)
    BY ONLY <1>1, <1>2, <1>6, TableOK, rows = Upcoming(q), n \in Passing(rows),
            \A k \in Passing(rows) : n <= k, FirstBrings
  <2>2. PICK i \in Ids : /\ row \in RowSet /\ i = row.id /\ i \in Nat /\ q.at <= i /\ i <= q.end
                         /\ Brings(<<row>>, q.at, i)
    BY ONLY <2>1 DEF BringsFirst
  <2>3. SourceOK(p) /\ p.at = i + 1 /\ p.at \in Nat /\ p.end = q.end /\ p.scans
    BY ONLY <1>1, <1>4, <1>6, <2>2 DEF SourceOK
  <2>4. PICK kept : kept = Filtered(Upcoming(p))
    OBVIOUS
  <2>5. Brings(kept, i + 1, q.end)
    <3>1. p.scans /\ p.at \in Int /\ p.end \in Int
      BY ONLY <1>1, <1>6, <2>3
    <3>2. Brings(Filtered(Upcoming(p)), p.at, p.end)
      BY ONLY <3>1, TableOK, UpcomingBrings
    <3> QED
      BY ONLY <2>3, <2>4, <3>2
  <2>6. PICK one : one = <<row>>
    OBVIOUS
  <2>7. PICK both : both = one \o kept
    OBVIOUS
  <2>8. Brings(both, q.at, q.end)
    <3>1. /\ q.at \in Int /\ i \in Int /\ q.end \in Int /\ q.at <= i + 1 /\ i <= q.end
          /\ Brings(one, q.at, i) /\ Brings(kept, i + 1, q.end)
      BY ONLY <1>1, <1>6, <2>2, <2>5, <2>6
    <3>2. Brings(one \o kept, q.at, q.end)
      BY ONLY <3>1, TableOK, BringsOn
    <3> QED
      BY ONLY <2>7, <3>2
  <2>9. PICK all : all = Filtered(rows)
    OBVIOUS
  <2>10. Brings(all, q.at, q.end)
    <3>1. q.scans /\ q.at \in Int /\ q.end \in Int
      BY ONLY <1>1, <1>6
    <3>2. Brings(Filtered(Upcoming(q)), q.at, q.end)
      BY ONLY <3>1, TableOK, UpcomingBrings
    <3> QED
      BY ONLY <2>9, <3>2, rows = Upcoming(q)
  <2>11. all = both
    BY ONLY <2>8, <2>10, TableOK, BringsOne
  <2>12. IsSeq(kept)
    BY ONLY <2>5 DEF Brings, IsSeq
  <2> QED
    BY ONLY <1>2, <1>4, <1>5, <2>3, <2>4, <2>6, <2>7, <2>9, <2>11, <2>12 DEF Fronted
<1>7. CASE ~q.scans
  <2>1. rows = q.rows /\ IsSeq(rows) /\ Follow(rows, n, rest)
    BY ONLY <1>1, <1>3, <1>7, rows = Upcoming(q) DEF Upcoming, Follow
  <2>2. IsSeq(rest) /\ Filtered(rows) = <<rows[n]>> \o Filtered(rest)
    <3>1. n \in Passing(rows) /\ \A k \in Passing(rows) : n <= k
      OBVIOUS
    <3> QED
      BY ONLY <2>1, <3>1, FilteredTail
  <2>3. Upcoming(p) = rest /\ SourceOK(p)
    BY ONLY <1>1, <1>4, <1>7, <2>2 DEF Upcoming, SourceOK
  <2>4. IsSeq(Filtered(rest))
    BY ONLY <2>2, StagesAreSeq
  <2> QED
    BY ONLY <1>4, <1>5, <2>2, <2>3, <2>4 DEF Fronted
<1> QED
  BY ONLY <1>4, <1>6, <1>7

\* Nothing is between two neighbours.
LEMMA BringsNone ==
  ASSUME NEW lo \in Int, NEW hi \in Int, lo > hi, NEW kept, Brings(kept, lo, hi), TableOK
  PROVE  kept = <<>>
<1>1. kept \in Seq(RowSet) /\ \A n \in DOMAIN kept : kept[n].id \in Ids /\ lo <= kept[n].id /\ kept[n].id <= hi
  BY ONLY Brings(kept, lo, hi) DEF Brings
<1>2. Ids \in SUBSET Nat
  BY IdsAreFinite
<1>3. ASSUME NEW n \in DOMAIN kept PROVE FALSE
  <2>1. PICK i \in Ids : i = kept[n].id
    BY ONLY <1>1
  <2>2. i \in Int /\ lo <= i /\ i <= hi
    BY ONLY <1>1, <1>2, <2>1
  <2> QED
    BY ONLY <2>2, lo \in Int, hi \in Int, lo > hi
<1> QED
  BY ONLY <1>1, <1>3

\* A sort that has read its input has the same rows to give as before.
LEMMA RestLoaded ==
  ASSUME TableOK, NEW q, SourceOK(q), q.sorts, NEW d, d = Loaded(q)
  PROVE  /\ SourceOK(d) /\ d.remaining = q.remaining /\ d.ended = q.ended /\ d.sorts
         /\ d.scans = q.scans /\ d.loaded /\ Rest(d) = d.sorted /\ Rest(d) = Rest(q)
<1>1. /\ DOMAIN q = QueryFields /\ (q.scans => q.at \in Nat /\ q.end \in Nat)
      /\ ~q.scans => IsSeq(q.rows)
      /\ IsSeq(q.sorted)
  BY ONLY SourceOK(q) DEF SourceOK
<1>2. CASE q.loaded
  <2>1. d = q
    BY ONLY <1>2, d = Loaded(q) DEF Loaded
  <2> QED
    BY ONLY <1>2, <2>1, q.sorts, SourceOK(q) DEF Rest
<1>3. CASE ~q.loaded
  <2>1. PICK all : all = StableSort(ToSort(q))
    OBVIOUS
  <2>2. Rest(q) = all
    BY ONLY <1>3, <2>1, q.sorts DEF Rest
  <2>3. IsSeq(all)
    BY ONLY <2>2, TableOK, SourceOK(q), RestIsSeq
  <2>4. PICK none : none = <<>>
    OBVIOUS
  <2>5. IsSeq(none)
    <3>1. none \in Seq({})
      BY ONLY <2>4
    <3> QED
      BY ONLY <3>1 DEF IsSeq
  <2>6. d = [[q EXCEPT !.at = q.end + 1, !.rows = none] EXCEPT !.loaded = TRUE, !.sorted = all]
    BY ONLY <1>3, <2>1, <2>4, d = Loaded(q) DEF Loaded, Drained, ToSort
  <2>7. /\ d.at = q.end + 1 /\ d.end = q.end /\ d.rows = none /\ d.scans = q.scans /\ d.sorts = q.sorts
        /\ d.loaded = TRUE /\ d.sorted = all /\ d.remaining = q.remaining /\ d.ended = q.ended
        /\ DOMAIN d = QueryFields
    BY ONLY <1>1, <2>6 DEF QueryFields
  <2>8. SourceOK(d)
    BY ONLY <1>1, <2>3, <2>5, <2>7 DEF SourceOK
  <2>9. Rest(d) = all
    BY ONLY <2>7, q.sorts DEF Rest
  <2> QED
    BY ONLY <2>2, <2>7, <2>8, <2>9, q.sorts
<1> QED
  BY ONLY <1>2, <1>3

\* It gives the first of them.
LEMMA RestPopped ==
  ASSUME NEW d, SourceOK(d), d.sorts, d.loaded, d.sorted # <<>>,
         NEW row, row = Head(d.sorted), NEW p, PopsRow(d, p)
  PROVE  /\ SourceOK(p) /\ p.remaining = Counted(d.remaining) /\ p.ended = d.ended
         /\ p.scans = d.scans /\ IsSeq(Rest(p)) /\ Fronted(row, Rest(p), Rest(d))
<1>1. /\ DOMAIN d = QueryFields /\ (d.scans => d.at \in Nat /\ d.end \in Nat)
      /\ ~d.scans => IsSeq(d.rows)
      /\ IsSeq(d.sorted)
  BY ONLY SourceOK(d) DEF SourceOK
<1>2. PICK s : s = d.sorted
  OBVIOUS
<1>3. PICK tail : tail = Tail(s)
  OBVIOUS
<1>4. PICK S : s \in Seq(S)
  BY ONLY <1>1, <1>2 DEF IsSeq
<1>5. s # <<>>
  BY ONLY <1>2, d.sorted # <<>>
<1>6. tail \in Seq(S) /\ Head(s) \in S /\ s = <<Head(s)>> \o tail
  BY ONLY <1>3, <1>4, <1>5, HeadTailProperties
<1>7. IsSeq(tail)
  BY ONLY <1>6 DEF IsSeq
<1>8. /\ p.at = d.at /\ p.end = d.end /\ p.rows = d.rows /\ p.scans = d.scans /\ p.sorts = d.sorts
      /\ p.loaded = d.loaded /\ p.sorted = tail /\ p.remaining = Counted(d.remaining)
      /\ p.ended = d.ended /\ DOMAIN p = QueryFields
  BY ONLY <1>1, <1>2, <1>3, PopsRow(d, p) DEF PopsRow, QueryFields
<1>9. SourceOK(p)
  BY ONLY <1>1, <1>7, <1>8 DEF SourceOK
<1>10. Rest(p) = tail /\ Rest(d) = s
  BY ONLY <1>2, <1>8, d.sorts, d.loaded DEF Rest
<1> QED
  BY ONLY <1>2, <1>6, <1>7, <1>8, <1>9, <1>10, row = Head(d.sorted) DEF Fronted

\* Without a sort nothing is to come when no row passes.
LEMMA RestDrained ==
  ASSUME TableOK, NEW q, SourceOK(q), ~q.sorts, Passing(Upcoming(q)) = {}, NEW d, d = Drained(q)
  PROVE  /\ SourceOK(d) /\ d.remaining = q.remaining /\ d.scans = q.scans
         /\ Rest(d) = <<>> /\ Rest(q) = <<>>
<1>1. /\ DOMAIN q = QueryFields /\ (q.scans => q.at \in Nat /\ q.end \in Nat)
      /\ ~q.scans => IsSeq(q.rows)
      /\ IsSeq(q.sorted)
  BY ONLY SourceOK(q) DEF SourceOK
<1>2. PICK none : none = <<>>
  OBVIOUS
<1>3. IsSeq(none) /\ Passing(none) = {}
  <2>1. none \in Seq({})
    BY ONLY <1>2
  <2>2. DOMAIN none = {}
    BY ONLY <1>2
  <2> QED
    BY ONLY <2>1, <2>2 DEF IsSeq, Passing
<1>4. /\ d.at = q.end + 1 /\ d.end = q.end /\ d.rows = none /\ d.scans = q.scans /\ d.sorts = q.sorts
      /\ d.loaded = q.loaded /\ d.sorted = q.sorted /\ d.remaining = q.remaining
      /\ DOMAIN d = QueryFields
  BY ONLY <1>1, <1>2, d = Drained(q) DEF Drained, QueryFields
<1>5. SourceOK(d)
  BY ONLY <1>1, <1>3, <1>4 DEF SourceOK
<1>6. Rest(q) = <<>>
  <2>1. PICK rows : rows = Upcoming(q)
    OBVIOUS
  <2>2. IsSeq(rows) /\ Passing(rows) = {}
    BY ONLY <2>1, TableOK, SourceOK(q), Passing(Upcoming(q)) = {}, UpcomingIsSeq
  <2>3. Filtered(rows) = <<>>
    BY ONLY <2>2, FilteredNone
  <2> QED
    BY ONLY <2>1, <2>3, ~q.sorts DEF Rest
<1>7. Rest(d) = <<>>
  <2>1. Rest(d) = Filtered(Upcoming(d))
    BY ONLY <1>4, ~q.sorts DEF Rest
  <2>2. CASE q.scans
    <3>1. d.scans /\ d.at \in Int /\ d.end \in Int /\ d.at > d.end
      BY ONLY <1>1, <1>4, <2>2
    <3>2. PICK kept : kept = Filtered(Upcoming(d))
      OBVIOUS
    <3>3. Brings(kept, d.at, d.end)
      BY ONLY <3>1, <3>2, TableOK, UpcomingBrings
    <3>4. kept = <<>>
      BY ONLY <3>1, <3>3, TableOK, BringsNone
    <3> QED
      BY ONLY <2>1, <3>2, <3>4
  <2>3. CASE ~q.scans
    <3>1. Upcoming(d) = none
      BY ONLY <1>4, <2>3 DEF Upcoming
    <3>2. Filtered(none) = <<>>
      BY ONLY <1>3, FilteredNone
    <3> QED
      BY ONLY <2>1, <3>1, <3>2
  <2> QED
    BY ONLY <2>2, <2>3
<1> QED
  BY ONLY <1>4, <1>5, <1>6, <1>7

\* A page that cannot be read takes nothing away: a sort keeps what it has read,
\* and without one no row before the page passed.
LEMMA RestFails ==
  ASSUME TableOK, NEW q, SourceOK(q), q.scans, ~q.loaded,
         NEW i, NEW kept, NEW p, FailsAt(q, i, kept, p)
  PROVE  /\ SourceOK(p) /\ p.remaining = q.remaining /\ p.ended = q.ended
         /\ p.scans = q.scans /\ Rest(p) = Rest(q)
<1>1. /\ DOMAIN q = QueryFields /\ q.at \in Nat /\ q.end \in Nat /\ IsSeq(q.sorted)
  BY ONLY SourceOK(q), q.scans DEF SourceOK
<1>2. i \in Int /\ i \in Nat /\ q.at <= i /\ i <= q.end
  BY ONLY <1>1, FailsAt(q, i, kept, p) DEF FailsAt
<1>3. PICK e : e = [q EXCEPT !.end = i - 1]
  OBVIOUS
<1>4. e.scans /\ e.at = q.at /\ e.end = i - 1 /\ e.at \in Int /\ e.end \in Int
  BY ONLY <1>1, <1>2, <1>3, q.scans DEF QueryFields
<1>5. Brings(kept, q.at, i - 1)
  <2>1. Brings(Filtered(Upcoming(e)), e.at, e.end)
    BY ONLY <1>4, TableOK, UpcomingBrings
  <2>2. kept = Filtered(Upcoming(e))
    BY ONLY <1>3, FailsAt(q, i, kept, p) DEF FailsAt
  <2> QED
    BY ONLY <1>4, <2>1, <2>2
<1>6. PICK s : s = q.sorted
  OBVIOUS
<1>7. PICK sk : sk = s \o kept
  OBVIOUS
<1>8. /\ p.at = i /\ p.end = q.end /\ p.rows = q.rows /\ p.scans = q.scans /\ p.sorts = q.sorts
      /\ p.loaded = q.loaded /\ p.sorted = sk /\ p.remaining = q.remaining /\ p.ended = q.ended
      /\ DOMAIN p = QueryFields
  BY ONLY <1>1, <1>6, <1>7, FailsAt(q, i, kept, p) DEF FailsAt, QueryFields
<1>9. PICK after : after = Filtered(Upcoming(p))
  OBVIOUS
<1>10. Brings(after, i, q.end)
  <2>1. p.scans /\ p.at \in Int /\ p.end \in Int /\ p.at = i /\ p.end = q.end
    BY ONLY <1>1, <1>2, <1>8, q.scans
  <2>2. Brings(Filtered(Upcoming(p)), p.at, p.end)
    BY ONLY <2>1, TableOK, UpcomingBrings
  <2> QED
    BY ONLY <1>9, <2>1, <2>2
<1>11. PICK all : all = Filtered(Upcoming(q))
  OBVIOUS
<1>12. all = kept \o after
  <2>1. PICK h \in Int : h = i - 1 /\ h + 1 = i
    BY ONLY <1>2
  <2>2. /\ q.at \in Int /\ q.end \in Int /\ q.at <= h + 1 /\ h <= q.end
        /\ Brings(kept, q.at, h) /\ Brings(after, h + 1, q.end)
    BY ONLY <1>1, <1>2, <1>5, <1>10, <2>1
  <2>3. PICK both : both = kept \o after
    OBVIOUS
  <2>4. Brings(kept \o after, q.at, q.end)
    BY ONLY <2>1, <2>2, TableOK, BringsOn
  <2>5. Brings(all, q.at, q.end)
    <3>1. q.scans /\ q.at \in Int /\ q.end \in Int
      BY ONLY <1>1, q.scans
    <3> QED
      BY ONLY <1>11, <3>1, TableOK, UpcomingBrings
  <2>6. Brings(both, q.at, q.end)
    BY ONLY <2>3, <2>4
  <2> QED
    BY ONLY <2>3, <2>5, <2>6, TableOK, BringsOne
<1>13. PICK T : s \in Seq(T) /\ kept \in Seq(T) /\ after \in Seq(T)
  <2>1. kept \in Seq(RowSet) /\ after \in Seq(RowSet) /\ IsSeq(s)
    BY ONLY <1>1, <1>5, <1>6, <1>10 DEF Brings
  <2>2. PICK S : s \in Seq(S)
    BY ONLY <2>1 DEF IsSeq
  <2>3. PICK T : T = S \cup RowSet
    OBVIOUS
  <2>4. S \subseteq T /\ RowSet \subseteq T
    BY ONLY <2>3
  <2> QED
    BY ONLY <2>1, <2>2, <2>4, SeqMonotonic
<1>14. SourceOK(p)
  <2>1. IsSeq(sk)
    <3>1. sk \in Seq(T)
      BY ONLY <1>7, <1>13
    <3> QED
      BY ONLY <3>1 DEF IsSeq
  <2> QED
    BY ONLY <1>1, <1>2, <1>8, <2>1, q.scans DEF SourceOK
<1>15. Rest(p) = Rest(q)
  <2>1. CASE q.sorts
    <3>1. (s \o kept) \o after = s \o (kept \o after)
      BY ONLY <1>13, ConcatAssociative
    <3>2. ToSort(p) = ToSort(q)
      BY ONLY <1>6, <1>7, <1>8, <1>9, <1>11, <1>12, <3>1 DEF ToSort
    <3> QED
      BY ONLY <1>8, <2>1, <3>2, ~q.loaded DEF Rest
  <2>2. CASE ~q.sorts
    <3>1. kept = <<>>
      BY ONLY <2>2, FailsAt(q, i, kept, p) DEF FailsAt
    <3>2. all = after
      BY ONLY <1>12, <1>13, <3>1, ConcatEmptySeq
    <3> QED
      BY ONLY <1>8, <1>9, <1>11, <2>2, <3>2 DEF Rest
  <2> QED
    BY ONLY <2>1, <2>2
<1> QED
  BY ONLY <1>8, <1>14, <1>15

-----------------------------------------------------------------------------
\* The rows returned and those still to come are the answer; nothing ends a query
\* but its limit and having no more.
PullOK(q, ret, answer) ==
  /\ SourceOK(q)
  /\ Continues(select, ret, Rest(q), q.remaining, answer)
  /\ q.ended => q.remaining = 0 \/ Rest(q) = <<>>

\* A row is pulled.
LEMMA PullRow ==
  ASSUME NEW q, NEW ret, NEW answer, PullOK(q, ret, answer), q.remaining # 0,
         NEW p, SourceOK(p), p.remaining = Counted(q.remaining), p.ended = q.ended,
         NEW row, IsSeq(Rest(p)), Fronted(row, Rest(p), Rest(q)),
         NEW more, more = Append(ret, Output(row))
  PROVE  PullOK(p, more, answer)
<1>1. /\ Continues(select, ret, Rest(q), q.remaining, answer)
      /\ q.ended => q.remaining = 0 \/ Rest(q) = <<>>
  BY ONLY PullOK(q, ret, answer) DEF PullOK
<1>2. PICK s, t, k, sel : s = Rest(p) /\ t = Rest(q) /\ k = q.remaining /\ sel = select
  OBVIOUS
<1>3. more = Append(ret, OutputBy(sel, row))
  BY ONLY <1>2, more = Append(ret, Output(row)), OutputIs
<1>4. IsSeq(s) /\ k # 0 /\ Fronted(row, s, t) /\ Continues(sel, ret, t, k, answer)
  BY ONLY <1>1, <1>2, q.remaining # 0, IsSeq(Rest(p)), Fronted(row, Rest(p), Rest(q))
<1>5. Continues(sel, more, s, Counted(k), answer)
  BY ONLY <1>3, <1>4, RowReturned
<1>6. t # <<>>
  <2>1. Len(t) = Len(s) + 1 /\ Len(s) \in Nat
    BY ONLY <1>4, FrontRow, SeqDomain
  <2>2. Len(t) # 0
    BY ONLY <2>1
  <2> QED
    BY ONLY <2>2
<1>7. ~q.ended
  BY ONLY <1>1, <1>2, <1>6, q.remaining # 0
<1> QED
  BY ONLY <1>2, <1>5, <1>7, SourceOK(p), p.remaining = Counted(q.remaining), p.ended = q.ended
     DEF PullOK

\* Nothing is pulled: the same rows are still to come.
LEMMA PullSame ==
  ASSUME NEW q, NEW ret, NEW answer, PullOK(q, ret, answer),
         NEW p, SourceOK(p), p.remaining = q.remaining, Rest(p) = Rest(q),
         p.ended => q.ended \/ q.remaining = 0 \/ Rest(q) = <<>>
  PROVE  PullOK(p, ret, answer)
  BY DEF PullOK

\* A step leaves the statement alone, and the table if it is scanned.
LEMMA CarryPull ==
  ASSUME UNCHANGED statement, NEW q, NEW ret, NEW answer, table' = table \/ ~q.scans,
         q = query', ret = returned', answer = promised', PullOK(q, ret, answer)
  PROVE  PullOK(query, returned, promised)'
<1>1. predicates' = predicates /\ order' = order /\ select' = select
  BY DEF statement
<1>2. Rest(query)' = Rest(q)
  BY ONLY <1>1, q = query', table' = table \/ ~q.scans, RestStays
<1>3. /\ SourceOK(q) /\ Continues(select, ret, Rest(q), q.remaining, answer)
      /\ q.ended => q.remaining = 0 \/ Rest(q) = <<>>
  BY ONLY PullOK(q, ret, answer) DEF PullOK
<1>4. SourceOK(query)'
  BY ONLY <1>3, q = query' DEF SourceOK, QueryFields
<1>5. Continues(select', returned', Rest(query)', query'.remaining, promised')
  BY ONLY <1>1, <1>2, <1>3, q = query', ret = returned', answer = promised'
<1>6. query'.ended => query'.remaining = 0 \/ Rest(query)' = <<>>
  BY ONLY <1>2, <1>3, q = query'
<1> QED
  BY ONLY <1>4, <1>5, <1>6 DEF PullOK

\* The first elements of a sequence.
LEMMA FirstIs ==
  ASSUME NEW s, IsSeq(s), NEW k, LimitOK(k), NEW f, f = First(s, k)
  PROVE  /\ IsSeq(f) /\ Len(f) = UpTo(k, Len(s))
         /\ \A m \in 1 .. UpTo(k, Len(s)) : f[m] = s[m]
<1>1. PICK S : s \in Seq(S)
  BY DEF IsSeq
<1>2. Len(s) \in Nat
  BY ONLY <1>1
<1>3. CASE k = Absent \/ k >= Len(s)
  <2>1. f = s /\ UpTo(k, Len(s)) = Len(s)
    BY ONLY <1>3, f = First(s, k) DEF First, UpTo
  <2> QED
    BY ONLY <2>1, IsSeq(s)
<1>4. CASE ~(k = Absent \/ k >= Len(s))
  <2>1. f = SubSeq(s, 1, k) /\ UpTo(k, Len(s)) = k /\ k \in Nat /\ k <= Len(s)
    BY ONLY <1>2, <1>4, LimitOK(k), f = First(s, k) DEF First, UpTo, LimitOK
  <2>2. f \in Seq(S) /\ Len(f) = k /\ \A m \in 1 .. k : f[m] = s[m]
    BY ONLY <1>1, <1>2, <2>1
  <2> QED
    BY ONLY <2>1, <2>2 DEF IsSeq
<1> QED
  BY ONLY <1>3, <1>4

\* The source of an index has a sequence of rows.
LEMMA CandidatesAreSeq ==
  ASSUME TableOK, NEW a, NEW k, LimitOK(k), NEW rows, rows = Candidates(a, k)
  PROVE  IsSeq(rows)
<1>1. ASSUME NEW set \in SUBSET Ids PROVE IsSeq(ById(set))
  <2>1. PICK list : list = ById(set)
    OBVIOUS
  <2>2. list \in Seq(RowSet)
    BY ONLY <2>1, TableOK, set \in SUBSET Ids, ByIdLists
  <2> QED
    BY ONLY <2>1, <2>2 DEF IsSeq
<1>2. ASSUME NEW list, list = RangeRows(a, Reverses(a), k) PROVE IsSeq(list)
  <2> DEFINE set == {i \in Ids : InRange(table[i][a.column], a)}
             ids == Sorted(set, LAMBDA i, j : KeyOrder(a.column, Reverses(a), i, j))
  <2>1. set \in SUBSET Ids
    OBVIOUS
  <2>2. DOMAIN ids = 1 .. Cardinality(set)
    BY ONLY TRUE DEF Sorted
  <2>3. list = First(RowsOf(ids), k)
    BY ONLY <1>2 DEF RangeRows
  <2> HIDE DEF set, ids
  <2>4. Cardinality(set) \in Nat
    BY <2>1, IdsAreFinite, FS_Subset, FS_CardinalityType
  <2>5. PICK all : all = RowsOf(ids)
    OBVIOUS
  <2>6. DOMAIN all = 1 .. Cardinality(set) /\ all = [n \in DOMAIN all |-> all[n]]
    BY ONLY <2>2, <2>5 DEF RowsOf
  <2>7. IsSeq(all)
    BY ONLY <2>4, <2>6, ElementsAreSeq
  <2> QED
    BY ONLY <2>3, <2>5, <2>7, LimitOK(k), FirstIs
<1>3. ASSUME NEW list, list = LookupRows(a, k) PROVE IsSeq(list)
  <2>1. PICK set \in SUBSET Ids : set = {i \in Ids : table[i][a.column] = a.key}
    OBVIOUS
  <2>2. PICK all : all = ById(set)
    OBVIOUS
  <2>3. IsSeq(all)
    BY ONLY <1>1, <2>2
  <2>4. list = First(all, k)
    BY ONLY <1>3, <2>1, <2>2 DEF LookupRows
  <2> QED
    BY ONLY <2>3, <2>4, LimitOK(k), FirstIs
<1>4. IsSeq(<<>>)
  <2>1. <<>> \in Seq({})
    OBVIOUS
  <2> QED
    BY ONLY <2>1 DEF IsSeq
<1>5. Ids \in SUBSET Ids
  OBVIOUS
<1>6. \/ rows = ById(Ids) \/ rows = <<>> \/ rows = LookupRows(a, k)
      \/ rows = RangeRows(a, Reverses(a), k)
  BY ONLY rows = Candidates(a, k) DEF Candidates
<1> QED
  BY ONLY <1>1, <1>2, <1>3, <1>4, <1>5, <1>6

\* When a query is bound, all of its answer is to come.
LEMMA BindPull ==
  ASSUME TableOK, LimitOK(limit), NEW q, q = NewQuery(ChosenAccess),
         NEW rows, rows = Answer(ChosenAccess),
         NEW answer, answer = [n \in DOMAIN rows |-> Output(rows[n])]
  PROVE  PullOK(q, <<>>, answer)
<1>1. PICK a : a = ChosenAccess
  OBVIOUS
<1>2. PICK none : none = <<>>
  OBVIOUS
<1>3. IsSeq(none) /\ Len(none) = 0 /\ DOMAIN none = {}
  <2>1. none \in Seq({}) /\ Len(none) = 0 /\ DOMAIN none = {}
    BY ONLY <1>2
  <2> QED
    BY ONLY <2>1 DEF IsSeq
<1>4. PICK loads : loads = IF limit = 0 \/ ~UsesIndex(a) THEN none ELSE Candidates(a, CandidateLimit(a))
  OBVIOUS
<1>5. LimitOK(CandidateLimit(a))
  BY ONLY LimitOK(limit) DEF LimitOK, CandidateLimit
<1>6. Len(table) \in Nat
  BY IdsAreFinite
<1>7. /\ q.scans = (limit # 0 /\ ~UsesIndex(a)) /\ q.at = 1 /\ q.end = Len(table) /\ q.rows = loads
      /\ q.sorts = SortsRows(a) /\ q.loaded = FALSE /\ q.sorted = none /\ q.remaining = limit
      /\ q.ended = FALSE /\ DOMAIN q = QueryFields
  BY ONLY <1>1, <1>2, <1>4, q = NewQuery(ChosenAccess) DEF NewQuery, QueryFields
<1>8. SourceOK(q)
  <2>1. IsSeq(loads)
    BY ONLY <1>3, <1>4, <1>5, TableOK, CandidatesAreSeq
  <2> QED
    BY ONLY <1>3, <1>6, <1>7, <2>1 DEF SourceOK
<1>9. PICK rest : rest = Rest(q)
  OBVIOUS
<1>10. IsSeq(rest)
  BY ONLY <1>8, <1>9, TableOK, RestIsSeq
<1>11. /\ IsSeq(rows) /\ Len(rows) = UpTo(limit, Len(rest))
       /\ \A m \in 1 .. UpTo(limit, Len(rest)) : rows[m] = rest[m]
  <2>1. CASE limit = 0
    <3>1. rows = none
      BY ONLY <1>2, <2>1, rows = Answer(ChosenAccess) DEF Answer
    <3>2. Len(rest) \in Nat
      BY ONLY <1>10, SeqDomain
    <3>3. UpTo(limit, Len(rest)) = 0
      <4>1. limit # Absent
        BY ONLY <2>1, LimitAssumption DEF LimitAssumption
      <4> QED
        BY ONLY <2>1, <3>2, <4>1 DEF UpTo
    <3> QED
      BY ONLY <1>3, <3>1, <3>3
  <2>2. CASE limit # 0
    <3>1. PICK cand : cand = Candidates(a, CandidateLimit(a))
      OBVIOUS
    <3>2. Upcoming(q) = cand
      <4>1. CASE UsesIndex(a)
        BY ONLY <1>4, <1>7, <2>2, <3>1, <4>1 DEF Upcoming
      <4>2. CASE ~UsesIndex(a)
        <5>1. cand = ById(Ids)
          BY ONLY <3>1, <4>2 DEF Candidates, UsesIndex
        <5>2. \A i \in Ids : i \in 1 .. Len(table)
          BY IdsAreFinite
        <5>3. {i \in Ids : q.at <= i /\ i <= q.end} = Ids
          BY ONLY <1>6, <1>7, <5>2
        <5> QED
          BY ONLY <1>7, <2>2, <4>2, <5>1, <5>3 DEF Upcoming
      <4> QED
        BY ONLY <4>1, <4>2
    <3>3. PICK kept : kept = Filtered(cand)
      OBVIOUS
    <3>4. IsSeq(kept)
      <4>1. IsSeq(cand)
        BY ONLY <1>5, <3>1, TableOK, CandidatesAreSeq
      <4> QED
        BY ONLY <3>3, <4>1, StagesAreSeq
    <3>5. ToSort(q) = kept
      <4>1. PICK S : kept \in Seq(S)
        BY ONLY <3>4 DEF IsSeq
      <4>2. <<>> \o kept = kept
        BY ONLY <4>1, ConcatEmptySeq
      <4> QED
        BY ONLY <1>2, <1>7, <3>2, <3>3, <4>2 DEF ToSort
    <3>6. rest = IF SortsRows(a) THEN StableSort(kept) ELSE kept
      BY ONLY <1>7, <1>9, <3>2, <3>3, <3>5 DEF Rest
    <3>7. rows = First(rest, limit)
      BY ONLY <1>1, <2>2, <3>1, <3>3, <3>6, rows = Answer(ChosenAccess) DEF Answer
    <3>8. PICK k : k = limit
      OBVIOUS
    <3>9. LimitOK(k) /\ rows = First(rest, k)
      BY ONLY <3>7, <3>8, LimitOK(limit)
    <3> QED
      BY ONLY <1>10, <3>8, <3>9, FirstIs
  <2> QED
    BY ONLY <2>1, <2>2
<1>12. Len(rows) \in Nat /\ DOMAIN rows = 1 .. Len(rows)
  BY ONLY <1>11, SeqDomain
<1>13. IsSeq(answer) /\ Len(answer) = Len(rows)
  <2>1. DOMAIN answer = 1 .. Len(rows) /\ answer = [n \in DOMAIN answer |-> answer[n]]
    BY ONLY <1>12, answer = [n \in DOMAIN rows |-> Output(rows[n])]
  <2> QED
    BY ONLY <1>12, <2>1, ElementsAreSeq
<1>14. ASSUME NEW m \in 1 .. UpTo(limit, Len(rest)) PROVE answer[m] = OutputBy(select, rest[m])
  <2>1. m \in DOMAIN rows /\ rows[m] = rest[m]
    BY ONLY <1>11, <1>12, m \in 1 .. UpTo(limit, Len(rest))
  <2>2. answer[m] = Output(rows[m])
    BY ONLY <2>1, answer = [n \in DOMAIN rows |-> Output(rows[n])]
  <2> QED
    BY ONLY <2>1, <2>2, OutputIs
<1>15. PICK u : u = UpTo(limit, Len(rest))
  OBVIOUS
<1>16. u \in Nat /\ Len(answer) = Len(none) + u
  BY ONLY <1>3, <1>11, <1>12, <1>13, <1>15
<1>17. ASSUME NEW m \in 1 .. u PROVE answer[Len(none) + m] = OutputBy(select, rest[m])
  <2>1. Len(none) + m = m
    BY ONLY <1>3, <1>16, m \in 1 .. u
  <2> QED
    BY ONLY <1>14, <1>15, <2>1
<1>18. Continues(select, none, rest, limit, answer)
  BY ONLY <1>3, <1>10, <1>13, <1>15, <1>16, <1>17, LimitOK(limit) DEF Continues
<1> QED
  BY ONLY <1>2, <1>7, <1>8, <1>9, <1>18 DEF PullOK

-----------------------------------------------------------------------------
\* Where no later change can be seen, the rows pulled and to come are the answer.
PullInv ==
  query.open /\ (touched = {} \/ ~query.scans) => PullOK(query, returned, promised)

\* A pull keeps that if it does so for the query it makes.
LEMMA PullMoves ==
  ASSUME PullInv, UNCHANGED <<statement, table, touched>>, promised' = promised, query.open,
         NEW q, NEW ret, q = query', ret = returned', q.scans = query.scans,
         PullOK(query, returned, promised) => PullOK(q, ret, promised)
  PROVE  PullInv'
<1> SUFFICES ASSUME query'.open, touched' = {} \/ ~query'.scans PROVE PullOK(query, returned, promised)'
  BY DEF PullInv
<1>1. touched = {} \/ ~query.scans
  BY ONLY UNCHANGED <<statement, table, touched>>, q = query', q.scans = query.scans,
          touched' = {} \/ ~query'.scans
<1>2. PICK answer : answer = promised
  OBVIOUS
<1>3. PullOK(q, ret, answer)
  BY ONLY <1>1, <1>2, PullInv, query.open,
          PullOK(query, returned, promised) => PullOK(q, ret, promised) DEF PullInv
<1>4. answer = promised' /\ UNCHANGED statement /\ (table' = table \/ ~q.scans)
  BY ONLY <1>2, promised' = promised, UNCHANGED <<statement, table, touched>>
<1> QED
  BY ONLY <1>3, <1>4, q = query', ret = returned', CarryPull

\* Every step keeps it.
LEMMA PullNext == ScanInv /\ PullInv /\ [Next]_vars => PullInv'
<1> SUFFICES ASSUME ScanInv, PullInv, [Next]_vars PROVE PullInv'
  OBVIOUS
<1>0. TableOK /\ LimitOK(limit)
  BY ONLY ScanInv DEF ScanInv, LimitOK
<1>1. CASE Grow
  <2>1. ~query.open /\ query' = query
    BY ONLY <1>1 DEF Grow
  <2> QED
    BY ONLY <2>1 DEF PullInv
<1>2. CASE Bind
  <2>1. PICK q, ret : q = NewQuery(ChosenAccess) /\ ret = <<>>
    OBVIOUS
  <2>2. PICK rows : rows = Answer(ChosenAccess)
    OBVIOUS
  <2>3. PICK answer : answer = [n \in DOMAIN rows |-> Output(rows[n])]
    OBVIOUS
  <2>4. ~query.open /\ q = query' /\ answer = promised' /\ returned' = returned
    BY ONLY <1>2, <2>1, <2>2, <2>3 DEF Bind
  <2>5. UNCHANGED statement /\ (table' = table \/ ~q.scans)
    BY ONLY <1>2 DEF Bind
  <2>6. ret = returned'
    BY ONLY <2>1, <2>4, ScanInv DEF ScanInv
  <2>7. PullOK(q, ret, answer)
    BY ONLY <1>0, <2>1, <2>2, <2>3, BindPull
  <2>8. PullOK(query, returned, promised)'
    BY ONLY <2>4, <2>5, <2>6, <2>7, CarryPull
  <2> QED
    BY ONLY <2>8 DEF PullInv
<1>3. CASE PullFiltered
  <2>1. query.open /\ ~query.sorts /\ HasMore(query)
    BY ONLY <1>3 DEF PullFiltered
  <2>2. PICK rows : rows = Upcoming(query)
    OBVIOUS
  <2>3. PICK n : n = CHOOSE m \in Passing(rows) : \A k \in Passing(rows) : m <= k
    OBVIOUS
  <2>4. Return(Passed(query, n), rows[n])
    BY ONLY <1>3, <2>2, <2>3 DEF PullFiltered
  <2>5. PICK q, ret : q = [Passed(query, n) EXCEPT !.remaining = Counted(@)]
                      /\ ret = Append(returned, Output(rows[n]))
    OBVIOUS
  <2>6. q = query' /\ ret = returned' /\ UNCHANGED <<statement, table, touched>> /\ promised' = promised
    BY ONLY <2>4, <2>5 DEF Return, Counted
  <2>7. q.scans = query.scans
    <3>1. PICK d : d = Passed(query, n)
      OBVIOUS
    <3>2. DOMAIN query = QueryFields
      BY ONLY <2>1, ScanInv DEF ScanInv
    <3>3. DOMAIN d = QueryFields /\ d.scans = query.scans
      BY ONLY <3>1, <3>2, ShapeStays
    <3> QED
      BY ONLY <2>5, <3>1, <3>3 DEF QueryFields
  <2>8. ASSUME PullOK(query, returned, promised) PROVE PullOK(q, ret, promised)
    <3>1. SourceOK(query) /\ query.remaining # 0 /\ Passing(rows) # {}
      BY ONLY <2>1, <2>2, <2>8 DEF PullOK, HasMore
    <3>2. IsSeq(rows)
      BY ONLY <1>0, <2>2, <3>1, UpcomingIsSeq
    <3>3. Passing(rows) \in SUBSET Nat /\ IsFiniteSet(Passing(rows))
      <4>1. Len(rows) \in Nat /\ Passing(rows) \in SUBSET (1 .. Len(rows))
        BY ONLY <3>2, SeqDomain DEF Passing
      <4>2. IsFiniteSet(1 .. Len(rows))
        BY ONLY <4>1, FS_Interval
      <4> QED
        BY ONLY <4>1, <4>2, FS_Subset
    <3>4. n \in Passing(rows) /\ \A k \in Passing(rows) : n <= k
      <4>1. \E m \in Passing(rows) : \A k \in Passing(rows) : m <= k
        BY ONLY <3>1, <3>3, SmallestNumber
      <4> QED
        BY ONLY <2>3, <4>1
    <3>5. PICK old, was, answer : old = query /\ was = returned /\ answer = promised
      OBVIOUS
    <3>6. /\ SourceOK(old) /\ ~old.sorts /\ rows = Upcoming(old)
          /\ TakesRow(old, n, q)
          /\ PullOK(old, was, answer) /\ old.remaining # 0 /\ ret = Append(was, Output(rows[n]))
      BY ONLY <2>1, <2>2, <2>5, <2>8, <3>1, <3>5 DEF TakesRow
    <3>7. /\ SourceOK(q) /\ q.remaining = Counted(old.remaining) /\ q.ended = old.ended
          /\ IsSeq(Rest(q)) /\ Fronted(rows[n], Rest(q), Rest(old))
      BY ONLY <1>0, <3>4, <3>6, RestPulled
    <3>8. PICK row : row = rows[n]
      OBVIOUS
    <3>9. PullOK(q, ret, answer)
      BY ONLY <3>6, <3>7, <3>8, PullRow
    <3> QED
      BY ONLY <3>5, <3>9
  <2> QED
    BY ONLY <2>1, <2>6, <2>7, <2>8, PullInv, PullMoves
<1>4. CASE PullSorted
  <2>1. query.open /\ query.sorts /\ HasMore(query) /\ DOMAIN query = QueryFields
    BY ONLY <1>4, ScanInv DEF PullSorted, ScanInv
  <2>2. PICK d : d = Loaded(query)
    OBVIOUS
  <2>3. DOMAIN d = QueryFields /\ d.scans = query.scans
    BY ONLY <2>1, <2>2, ShapeStays
  <2>4. Return([d EXCEPT !.sorted = Tail(@)], Head(d.sorted))
    BY ONLY <1>4, <2>2 DEF PullSorted
  <2>5. PICK q, ret : q = [d EXCEPT !.sorted = Tail(@), !.remaining = Counted(@)]
                      /\ ret = Append(returned, Output(Head(d.sorted)))
    OBVIOUS
  <2>6. q = query' /\ ret = returned' /\ UNCHANGED <<statement, table, touched>> /\ promised' = promised
    <3>1. q = [[d EXCEPT !.sorted = Tail(@)] EXCEPT !.remaining = Counted(@)]
      BY ONLY <2>3, <2>5 DEF QueryFields
    <3> QED
      BY ONLY <2>4, <2>5, <3>1 DEF Return, Counted
  <2>7. q.scans = query.scans
    BY ONLY <2>3, <2>5 DEF QueryFields
  <2>8. ASSUME PullOK(query, returned, promised) PROVE PullOK(q, ret, promised)
    <3>1. PICK old, was, answer : old = query /\ was = returned /\ answer = promised
      OBVIOUS
    <3>2. /\ SourceOK(old) /\ old.sorts /\ d = Loaded(old) /\ d.sorted # <<>>
          /\ PullOK(old, was, answer) /\ old.remaining # 0
      BY ONLY <2>1, <2>2, <2>8, <3>1 DEF PullOK, HasMore
    <3>3. /\ SourceOK(d) /\ d.remaining = old.remaining /\ d.ended = old.ended /\ d.sorts
          /\ d.loaded /\ Rest(d) = Rest(old)
      BY ONLY <1>0, <3>2, RestLoaded
    <3>4. PullOK(d, was, answer)
      BY ONLY <3>2, <3>3, PullSame
    <3>5. PICK row : row = Head(d.sorted)
      OBVIOUS
    <3>6. /\ SourceOK(q) /\ q.remaining = Counted(d.remaining) /\ q.ended = d.ended
          /\ IsSeq(Rest(q)) /\ Fronted(row, Rest(q), Rest(d))
      <4>1. PopsRow(d, q)
        BY ONLY <2>5 DEF PopsRow
      <4> QED
        BY ONLY <3>2, <3>3, <3>5, <4>1, RestPopped
    <3>7. ret = Append(was, Output(row)) /\ d.remaining # 0
      BY ONLY <2>5, <3>1, <3>2, <3>3, <3>5
    <3>8. PullOK(q, ret, answer)
      BY ONLY <3>4, <3>6, <3>7, PullRow
    <3> QED
      BY ONLY <3>1, <3>8
  <2> QED
    BY ONLY <2>1, <2>6, <2>7, <2>8, PullInv, PullMoves
<1>5. CASE PullNothing
  <2>1. query.open /\ ~HasMore(query) /\ DOMAIN query = QueryFields
    BY ONLY <1>5, ScanInv DEF PullNothing, ScanInv
  <2>2. PICK d : d = IF query.remaining = 0 THEN query
                     ELSE IF query.sorts THEN Loaded(query) ELSE Drained(query)
    OBVIOUS
  <2>3. DOMAIN d = QueryFields /\ d.scans = query.scans
    BY ONLY <2>1, <2>2, ShapeStays
  <2>4. PICK q, ret : q = [d EXCEPT !.ended = TRUE] /\ ret = returned
    OBVIOUS
  <2>5. q = query' /\ ret = returned' /\ UNCHANGED <<statement, table, touched>> /\ promised' = promised
    BY ONLY <1>5, <2>2, <2>4 DEF PullNothing, history
  <2>6. /\ q.scans = d.scans /\ q.at = d.at /\ q.end = d.end /\ q.rows = d.rows /\ q.sorts = d.sorts
        /\ q.loaded = d.loaded /\ q.sorted = d.sorted /\ q.remaining = d.remaining
        /\ DOMAIN q = QueryFields
    BY ONLY <2>3, <2>4 DEF QueryFields
  <2>7. ASSUME PullOK(query, returned, promised) PROVE PullOK(q, ret, promised)
    <3>1. PICK old, was, answer : old = query /\ was = returned /\ answer = promised
      OBVIOUS
    <3>2. /\ SourceOK(old) /\ PullOK(old, was, answer) /\ ~HasMore(old)
          /\ d = IF old.remaining = 0 THEN old
                 ELSE IF old.sorts THEN Loaded(old) ELSE Drained(old)
      BY ONLY <2>1, <2>2, <2>7, <3>1 DEF PullOK
    <3>3. /\ SourceOK(d) /\ d.remaining = old.remaining /\ Rest(d) = Rest(old)
          /\ old.remaining = 0 \/ Rest(old) = <<>>
      <4>1. CASE old.remaining = 0
        BY ONLY <3>2, <4>1
      <4>2. CASE old.remaining # 0 /\ old.sorts
        <5>1. d = Loaded(old) /\ d.sorted = <<>>
          BY ONLY <3>2, <4>2 DEF HasMore
        <5>2. /\ SourceOK(d) /\ d.remaining = old.remaining /\ Rest(d) = d.sorted
              /\ Rest(d) = Rest(old)
          BY ONLY <1>0, <3>2, <4>2, <5>1, RestLoaded
        <5> QED
          BY ONLY <5>1, <5>2
      <4>3. CASE old.remaining # 0 /\ ~old.sorts
        <5>1. d = Drained(old) /\ Passing(Upcoming(old)) = {}
          BY ONLY <3>2, <4>3 DEF HasMore
        <5>2. /\ SourceOK(d) /\ d.remaining = old.remaining
              /\ Rest(d) = <<>> /\ Rest(old) = <<>>
          BY ONLY <1>0, <3>2, <4>3, <5>1, RestDrained
        <5> QED
          BY ONLY <5>2
      <4> QED
        BY ONLY <4>1, <4>2, <4>3
    <3>4. SourceOK(q) /\ q.remaining = old.remaining
      BY ONLY <2>6, <3>3 DEF SourceOK
    <3>5. Rest(q) = Rest(old)
      BY ONLY <2>6, <3>3, SameRest
    <3>6. PullOK(q, was, answer)
      BY ONLY <3>2, <3>3, <3>4, <3>5, PullSame
    <3> QED
      BY ONLY <2>4, <3>1, <3>6
  <2>8. q.scans = query.scans
    BY ONLY <2>3, <2>6
  <2> QED
    BY ONLY <2>1, <2>5, <2>7, <2>8, PullInv, PullMoves
<1>6. ASSUME NEW i \in DOMAIN table, PullFails(i) PROVE PullInv'
  <2>1. /\ query.open /\ query.scans /\ ~query.loaded
        /\ i \in query.at .. query.end /\ DOMAIN query = QueryFields
    BY ONLY <1>6, ScanInv DEF PullFails, ScanInv
  <2>2. PICK kept : kept = Filtered(Upcoming([query EXCEPT !.end = i - 1]))
    OBVIOUS
  <2>3. query.sorts \/ kept = <<>>
    BY ONLY <1>6, <2>2 DEF PullFails
  <2>4. PICK q, ret : q = [query EXCEPT !.at = i, !.sorted = @ \o kept] /\ ret = returned
    OBVIOUS
  <2>5. q = query' /\ ret = returned' /\ UNCHANGED <<statement, table, touched>> /\ promised' = promised
    BY ONLY <1>6, <2>2, <2>4 DEF PullFails, history
  <2>6. q.scans = query.scans
    BY ONLY <2>1, <2>4 DEF QueryFields
  <2>7. ASSUME PullOK(query, returned, promised) PROVE PullOK(q, ret, promised)
    <3>1. PICK old, was, answer : old = query /\ was = returned /\ answer = promised
      OBVIOUS
    <3>2. /\ SourceOK(old) /\ PullOK(old, was, answer) /\ old.scans /\ ~old.loaded
          /\ FailsAt(old, i, kept, q)
      BY ONLY <2>1, <2>2, <2>3, <2>4, <2>7, <3>1 DEF PullOK, FailsAt
    <3>3. /\ SourceOK(q) /\ q.remaining = old.remaining /\ q.ended = old.ended
          /\ Rest(q) = Rest(old)
      BY ONLY <1>0, <3>2, RestFails
    <3>4. PullOK(q, was, answer)
      BY ONLY <3>2, <3>3, PullSame
    <3> QED
      BY ONLY <2>4, <3>1, <3>4
  <2> QED
    BY ONLY <2>1, <2>5, <2>6, <2>7, PullInv, PullMoves
<1>7. ASSUME NEW i, NEW row, Change(i, row) PROVE PullInv'
  <2>1. /\ query' = query /\ returned' = returned /\ promised' = promised /\ query.open
        /\ i \in touched' /\ UNCHANGED statement
    BY ONLY <1>7 DEF Change
  <2>2. CASE query.scans
    <3>1. touched' # {} /\ query'.scans
      BY ONLY <2>1, <2>2
    <3> QED
      BY ONLY <3>1 DEF PullInv
  <2>3. CASE ~query.scans
    <3>1. PICK q, ret, answer : q = query /\ ret = returned /\ answer = promised
      OBVIOUS
    <3>2. PullOK(q, ret, answer) /\ ~q.scans
      BY ONLY <2>1, <2>3, <3>1, PullInv DEF PullInv
    <3>3. PullOK(query, returned, promised)'
      BY ONLY <2>1, <3>1, <3>2, CarryPull
    <3> QED
      BY ONLY <3>3 DEF PullInv
  <2> QED
    BY ONLY <2>2, <2>3
<1>8. CASE UNCHANGED vars
  <2>1. /\ query' = query /\ returned' = returned /\ UNCHANGED <<statement, table, touched>>
        /\ promised' = promised
    BY ONLY <1>8 DEF vars, history
  <2>2. CASE query.open
    <3>1. PICK q, ret : q = query /\ ret = returned
      OBVIOUS
    <3>2. /\ q = query' /\ ret = returned' /\ q.scans = query.scans
          /\ PullOK(query, returned, promised) => PullOK(q, ret, promised)
      BY ONLY <2>1, <3>1
    <3> QED
      BY ONLY <2>1, <2>2, <3>2, PullInv, PullMoves
  <2>3. CASE ~query.open
    BY ONLY <2>1, <2>3 DEF PullInv
  <2> QED
    BY ONLY <2>2, <2>3
<1>9. ASSUME NEW i \in DOMAIN table, EraseRow(i) PROVE PullInv'
  BY ONLY <1>7, <1>9 DEF EraseRow
<1>10. ASSUME NEW row \in NewRows, InsertRow(row) PROVE PullInv'
  BY ONLY <1>7, <1>10 DEF InsertRow
<1> QED
  BY <1>1, <1>2, <1>3, <1>4, <1>5, <1>6, <1>8, <1>9, <1>10 DEF Next, Pull

\* It holds of every state a query is in.
THEOREM PullInvariance == Spec => []PullInv
<1>1. Init => PullInv
  BY DEF Init, NoQuery, PullInv
<1> QED
  BY <1>1, ScanInvariance, PullNext, PTL DEF Spec

\* Pulling gives the rows of the whole answer one by one and then nothing: for
\* every table, statement, chosen access and number of failed pulls.
THEOREM PullCorrect == Spec => []PullsGiveTheAnswer
<1>1. PullInv => PullsGiveTheAnswer
  <2> SUFFICES ASSUME PullInv, query.open, touched = {} \/ ~query.scans
               PROVE  IsPrefix(returned, promised) /\ (query.ended => returned = promised)
    BY DEF PullsGiveTheAnswer
  <2>1. /\ Continues(select, returned, Rest(query), query.remaining, promised)
        /\ query.ended => query.remaining = 0 \/ Rest(query) = <<>>
    BY ONLY PullInv, query.open, touched = {} \/ ~query.scans DEF PullInv, PullOK
  <2>2. PICK sel, ret, rest, k, answer :
          /\ sel = select /\ ret = returned /\ rest = Rest(query) /\ k = query.remaining
          /\ answer = promised
    OBVIOUS
  <2>3. Continues(sel, ret, rest, k, answer)
    BY ONLY <2>1, <2>2
  <2>4. IsPrefix(ret, answer) /\ (k = 0 \/ rest = <<>> => ret = answer)
    BY ONLY <2>3, NoMore
  <2> QED
    BY ONLY <2>1, <2>2, <2>4
<1> QED
  BY <1>1, PullInvariance, PTL
=============================================================================
