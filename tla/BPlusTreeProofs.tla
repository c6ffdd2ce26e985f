--------------------------- MODULE BPlusTreeProofs ----------------------------
(***************************************************************************)
(* Proofs about BPlusTree, and about BPlusTreeCrash at the end, for all    *)
(* capacities and all sets of entries.                                     *)
(*                                                                         *)
(* The inductive invariant says which tree the store is: there are leaves  *)
(* `ids` with entry sets `es`, in order, linked, with the separators in    *)
(* the root and no other records.  Every operation is a change of the two  *)
(* sequences -- an element replaced, split into two, or removed -- and the *)
(* records it writes, put behind one another, leave the tree of the        *)
(* changed sequences.  That find, range and open read it right is proved   *)
(* of any such tree.                                                       *)
(***************************************************************************)
EXTENDS BPlusTreeCrash, SpaceProofs, SequenceTheorems

\* What entries are.
Pairs == Int \X Int

\* The records of the index, with what NodeOK says of each kind.
EntrySets == {S \in SUBSET Universe : IsFiniteSet(S) /\ Cardinality(S) <= LeafCapacity}
Roots == {c \in Seq([high : Universe, id : Nat]) : Len(c) \in 2 .. InternalCapacity}
Nodes == {Dead} \cup [kind : {"header"}, height : {1, 2}, root : Nat, first : Nat]
                \cup [kind : {"leaf"}, entries : EntrySets, next : Nat]
                \cup [kind : {"internal"}, children : Roots]

\* A smaller pair of two comes first; all pairs are comparable.
LEMMA LessOrder ==
  /\ \A e \in Pairs : ~Less(e, e)
  /\ \A e, f \in Pairs : Less(e, f) => ~Less(f, e)
  /\ \A e, f \in Pairs : e = f \/ Less(e, f) \/ Less(f, e)
  /\ \A e, f, g \in Pairs : Less(e, f) /\ Less(f, g) => Less(e, g)
  /\ \A e, f \in Pairs : Less(e, f) => e[1] <= f[1]
<1>1. \A e \in Pairs : e[1] \in Int /\ e[2] \in Int /\ e = <<e[1], e[2]>>
  BY DEF Pairs
<1> QED
  BY <1>1 DEF Less

\* Ranks are distinct, grow with the order, and end below the number of entries.
LEMMA RankBounds ==
  ASSUME NEW S \in SUBSET Pairs, IsFiniteSet(S)
  PROVE  /\ Cardinality(S) \in Nat
         /\ \A e \in S : Rank(S, e) \in 0 .. Cardinality(S) - 1
         /\ \A e, f \in S : Less(e, f) => Rank(S, e) < Rank(S, f)
<1> DEFINE below(e) == {f \in S : Less(f, e)}
<1>1. Cardinality(S) \in Nat
  BY FS_CardinalityType
<1>2. ASSUME NEW e \in S
      PROVE  /\ IsFiniteSet(below(e)) /\ Rank(S, e) = Cardinality(below(e))
             /\ Rank(S, e) \in 0 .. Cardinality(S) - 1 /\ Rank(S, e) \in Nat
  <2>1. IsFiniteSet(S \ {e}) /\ Cardinality(S \ {e}) = Cardinality(S) - 1
    BY FS_RemoveElement
  <2>2. below(e) \in SUBSET (S \ {e})
    BY LessOrder
  <2>3. IsFiniteSet(below(e)) /\ Cardinality(below(e)) <= Cardinality(S \ {e})
    BY <2>1, <2>2, FS_Subset
  <2>4. Cardinality(below(e)) \in Nat
    BY <2>3, FS_CardinalityType
  <2>5. Rank(S, e) = Cardinality(below(e))
    BY DEF Rank
  <2> QED
    BY <1>1, <2>1, <2>3, <2>4, <2>5
<1>3. ASSUME NEW e \in S, NEW f \in S, Less(e, f) PROVE Rank(S, e) < Rank(S, f)
  <2>1. IsFiniteSet(below(f)) /\ Rank(S, f) = Cardinality(below(f))
    BY <1>2
  <2>2. below(e) \in SUBSET below(f) /\ e \in below(f) /\ e \notin below(e)
    BY <1>3, LessOrder
  <2>3. Cardinality(below(e)) <= Cardinality(below(f)) /\ Cardinality(below(e)) # Cardinality(below(f))
    BY <2>1, <2>2, FS_Subset
  <2>4. Rank(S, e) = Cardinality(below(e)) /\ Rank(S, e) \in Nat /\ Rank(S, f) \in Nat
    BY <1>2
  <2> HIDE DEF below
  <2> QED
    BY <2>1, <2>3, <2>4
<1> QED
  BY <1>1, <1>2, <1>3

\* Every rank is taken.
LEMMA RanksAreTaken ==
  ASSUME NEW S \in SUBSET Pairs, IsFiniteSet(S)
  PROVE  \A k \in 0 .. Cardinality(S) - 1 : \E e \in S : Rank(S, e) = k
<1> DEFINE rank == [e \in S |-> Rank(S, e)]
           T == 0 .. Cardinality(S) - 1
<1>1. Cardinality(S) \in Nat /\ (\A e \in S : Rank(S, e) \in T)
      /\ \A e, f \in S : Less(e, f) => Rank(S, e) < Rank(S, f)
  BY RankBounds
<1>2. rank \in Injection(S, T)
  <2>1. rank \in [S -> T]
    BY <1>1
  <2>2. ASSUME NEW e \in S, NEW f \in S, rank[e] = rank[f] PROVE e = f
    <3>1. Rank(S, e) = Rank(S, f) /\ Rank(S, e) \in Int
      BY <1>1, <2>2
    <3>2. ~Less(e, f) /\ ~Less(f, e)
      BY <1>1, <3>1
    <3> QED
      BY <3>2, LessOrder
  <2> QED
    BY <2>1, <2>2 DEF Injection, IsInjective
<1>3. IsFiniteSet(T) /\ Cardinality(T) = Cardinality(S)
  <2>1. 0 \in Int /\ Cardinality(S) - 1 \in Int
    BY <1>1
  <2>2. IsFiniteSet(T)
        /\ Cardinality(T) = IF 0 > Cardinality(S) - 1 THEN 0 ELSE Cardinality(S) - 1 - 0 + 1
    BY <2>1, FS_Interval
  <2> QED
    BY <1>1, <2>2
<1>4. rank \in Surjection(S, T)
  BY <1>2, <1>3, FS_Injection
<1> QED
  BY <1>4 DEF Surjection

\* Sorted lists a set in the order of Less, every entry once.
LEMMA SortedIsSorted ==
  ASSUME NEW S \in SUBSET Pairs, IsFiniteSet(S)
  PROVE  /\ Sorted(S) \in Seq(S) /\ Len(Sorted(S)) = Cardinality(S)
         /\ \A i \in 1 .. Len(Sorted(S)) : Sorted(S)[i] \in S
         /\ \A i, j \in 1 .. Len(Sorted(S)) : i < j => Less(Sorted(S)[i], Sorted(S)[j])
         /\ \A e \in S : \E i \in 1 .. Len(Sorted(S)) : Sorted(S)[i] = e
<1> DEFINE n == Cardinality(S)
<1>1. n \in Nat /\ (\A e \in S : Rank(S, e) \in 0 .. n - 1)
      /\ \A e, f \in S : Less(e, f) => Rank(S, e) < Rank(S, f)
  BY RankBounds
<1>2. \A k \in 0 .. n - 1 : \E e \in S : Rank(S, e) = k
  BY RanksAreTaken
<1>3. ASSUME NEW i \in 1 .. n PROVE Sorted(S)[i] \in S /\ Rank(S, Sorted(S)[i]) = i - 1
  <2>1. i - 1 \in 0 .. n - 1
    BY <1>1
  <2>2. \E e \in S : Rank(S, e) = i - 1
    BY <1>2, <2>1
  <2>3. Sorted(S)[i] = CHOOSE e \in S : Rank(S, e) = i - 1
    BY DEF Sorted
  <2> QED
    BY <2>2, <2>3
<1>4. Sorted(S) = [i \in 1 .. n |-> Sorted(S)[i]]
  BY DEF Sorted
<1>5. Sorted(S) \in [1 .. n -> S]
  BY <1>3, <1>4
<1>6. Sorted(S) \in Seq(S) /\ Len(Sorted(S)) = n
  BY <1>1, <1>5, SeqDef, LenProperties
<1>7. ASSUME NEW i \in 1 .. n, NEW j \in 1 .. n, i < j PROVE Less(Sorted(S)[i], Sorted(S)[j])
  <2>1. Sorted(S)[i] \in S /\ Sorted(S)[j] \in S
        /\ Rank(S, Sorted(S)[i]) = i - 1 /\ Rank(S, Sorted(S)[j]) = j - 1
    BY <1>3
  <2>2. Sorted(S)[i] # Sorted(S)[j] /\ ~Less(Sorted(S)[j], Sorted(S)[i])
    BY <1>1, <1>7, <2>1
  <2> QED
    BY <2>1, <2>2, LessOrder
<1>8. ASSUME NEW e \in S PROVE \E i \in 1 .. n : Sorted(S)[i] = e
  <2> DEFINE i == Rank(S, e) + 1
  <2>1. i \in 1 .. n /\ Rank(S, e) \in Int
    BY <1>1
  <2>2. Sorted(S)[i] \in S /\ Rank(S, Sorted(S)[i]) = i - 1
    BY <1>3, <2>1
  <2>3. Rank(S, Sorted(S)[i]) = Rank(S, e)
    BY <2>1, <2>2
  <2>4. ~Less(Sorted(S)[i], e) /\ ~Less(e, Sorted(S)[i])
    BY <1>1, <2>1, <2>2, <2>3
  <2>5. Sorted(S)[i] = e
    BY <2>2, <2>4, LessOrder
  <2> QED
    BY <2>1, <2>5
<1> QED
  BY <1>3, <1>6, <1>7, <1>8

\* A sequence that lists the elements of a set in the order of Less is the sorted one: at
\* the first place where the two differ, each would have the other's element further on.
LEMMA SortedIsOnlyOne ==
  ASSUME NEW S \in SUBSET Pairs, IsFiniteSet(S), NEW c \in Seq(S),
         \A i, j \in 1 .. Len(c) : i < j => Less(c[i], c[j]),
         \A e \in S : \E i \in 1 .. Len(c) : c[i] = e
  PROVE  c = Sorted(S)
<1> DEFINE s == Sorted(S)
           m == Len(c)
           n == Len(s)
<1>1. /\ s \in Seq(S) /\ n \in Nat /\ \A i \in 1 .. n : s[i] \in S
      /\ \A i, j \in 1 .. n : i < j => Less(s[i], s[j])
      /\ \A e \in S : \E i \in 1 .. n : s[i] = e
  BY SortedIsSorted, LenProperties
<1>2. m \in Nat /\ \A i \in 1 .. m : c[i] \in S
  BY LenProperties, ElementOfSeq
<1> HIDE DEF s, n, m
<1>3. /\ \A i, j \in 1 .. m : i < j => Less(c[i], c[j])
      /\ \A e \in S : \E i \in 1 .. m : c[i] = e
  BY DEF m
<1>4. \A e \in S : ~Less(e, e)
  BY LessOrder
<1>5. \A e, f \in S : Less(e, f) => ~Less(f, e)
  BY LessOrder
<1> DEFINE D == {i \in Nat : i \in 1 .. m /\ i \in 1 .. n /\ c[i] # s[i]}
<1>6. ASSUME D # {} PROVE FALSE
  <2>1. PICK i \in D : \A k \in D : i <= k
    <3>1. D \in SUBSET Nat
      OBVIOUS
    <3> HIDE DEF D
    <3> QED
      BY <1>6, <3>1, MinIsLeast
  <2>2. i \in 1 .. m /\ i \in 1 .. n /\ c[i] # s[i] /\ i \in Nat
    OBVIOUS
  <2>3. \A k \in 1 .. m : k < i => c[k] = s[k] /\ k \in 1 .. n
    BY <1>1, <1>2, <2>1, <2>2
  <2> HIDE DEF D
  <2>4. PICK j \in 1 .. m : c[j] = s[i]
    BY <1>1, <1>3, <2>2
  <2>5. PICK k \in 1 .. n : s[k] = c[i]
    BY <1>1, <1>2, <2>2
  <2>6. j > i
    <3>1. j # i
      BY <2>2, <2>4
    <3>2. ASSUME j < i PROVE FALSE
      <4>1. s[j] = s[i] /\ j \in 1 .. n
        BY <2>3, <2>4, <3>2
      <4> QED
        BY <1>1, <1>4, <2>2, <3>2, <4>1
    <3> QED
      BY <1>2, <2>2, <3>1, <3>2
  <2>7. Less(c[i], s[i])
    BY <1>3, <2>2, <2>4, <2>6
  <2>8. k < i
    <3>1. k # i
      BY <2>2, <2>5
    <3>2. ASSUME i < k PROVE FALSE
      <4>1. Less(s[i], c[i])
        BY <1>1, <2>2, <2>5, <3>2
      <4> QED
        BY <1>1, <1>2, <1>5, <2>2, <2>7, <4>1
    <3> QED
      BY <1>1, <2>2, <3>1, <3>2
  <2>9. k \in 1 .. m /\ c[k] = c[i]
    <3>1. k \in 1 .. m
      BY <1>1, <1>2, <2>2, <2>8
    <3> QED
      BY <2>3, <2>5, <2>8, <3>1
  <2>10. Less(c[k], c[i])
    BY <1>3, <2>2, <2>8, <2>9
  <2> QED
    BY <1>2, <1>4, <2>2, <2>9, <2>10
<1>7. ASSUME NEW i \in 1 .. m, i \in 1 .. n PROVE c[i] = s[i]
  <2>1. i \in Nat /\ i \notin D
    BY <1>2, <1>6
  <2> QED
    BY <1>7, <2>1
<1>8. ASSUME n < m PROVE FALSE
  <2>1. n + 1 \in 1 .. m
    BY <1>1, <1>2, <1>8
  <2>2. PICK j \in 1 .. n : s[j] = c[n + 1]
    BY <1>1, <1>2, <2>1
  <2>3. j \in 1 .. m /\ j < n + 1
    BY <1>1, <1>2, <1>8
  <2>4. c[j] = c[n + 1] /\ Less(c[j], c[n + 1])
    BY <1>3, <1>7, <2>1, <2>2, <2>3
  <2> QED
    BY <1>2, <1>4, <2>1, <2>4
<1>9. ASSUME m < n PROVE FALSE
  <2>1. m + 1 \in 1 .. n
    BY <1>1, <1>2, <1>9
  <2>2. PICK j \in 1 .. m : c[j] = s[m + 1]
    BY <1>1, <1>3, <2>1
  <2>3. j \in 1 .. n /\ j < m + 1
    BY <1>1, <1>2, <1>9
  <2>4. s[j] = s[m + 1] /\ Less(s[j], s[m + 1])
    BY <1>1, <1>7, <2>1, <2>2, <2>3
  <2> QED
    BY <1>1, <1>4, <2>1, <2>4
<1>10. m = n
  BY <1>1, <1>2, <1>8, <1>9
<1> QED
  BY <1>1, <1>2, <1>7, <1>10, SeqEqual DEF m, n, s

\* The empty set and a set of one entry, sorted; and two sets, one before the other.
LEMMA SortedEmpty == Sorted({}) = <<>>
BY FS_EmptySet DEF Sorted

LEMMA SortedJoined ==
  ASSUME NEW A \in SUBSET Pairs, IsFiniteSet(A), NEW B \in SUBSET Pairs, IsFiniteSet(B),
         \A e \in A, f \in B : Less(e, f)
  PROVE  Sorted(A \cup B) = Sorted(A) \o Sorted(B)
<1> DEFINE S == A \cup B
           a == Sorted(A)
           b == Sorted(B)
           m == Len(a)
           n == Len(b)
           c == a \o b
<1>1. S \in SUBSET Pairs /\ IsFiniteSet(S)
  BY FS_Union
<1>2. /\ a \in Seq(A) /\ m \in Nat /\ \A i \in 1 .. m : a[i] \in A
      /\ \A i, j \in 1 .. m : i < j => Less(a[i], a[j])
      /\ \A e \in A : \E i \in 1 .. m : a[i] = e
  BY SortedIsSorted, LenProperties
<1>3. /\ b \in Seq(B) /\ n \in Nat /\ \A i \in 1 .. n : b[i] \in B
      /\ \A i, j \in 1 .. n : i < j => Less(b[i], b[j])
      /\ \A e \in B : \E i \in 1 .. n : b[i] = e
  BY SortedIsSorted, LenProperties
<1>4. a \in Seq(S) /\ b \in Seq(S)
  BY <1>2, <1>3
<1>5. /\ c \in Seq(S) /\ Len(c) = m + n
      /\ \A i \in 1 .. m + n : c[i] = IF i <= m THEN a[i] ELSE b[i - m]
  BY <1>4, ConcatProperties
<1> HIDE DEF a, b, m, n, c
<1>6. ASSUME NEW i \in 1 .. m + n
      PROVE  \/ i \in 1 .. m /\ c[i] = a[i]
             \/ i > m /\ i - m \in 1 .. n /\ c[i] = b[i - m]
  BY <1>2, <1>3, <1>5
<1>7. ASSUME NEW i \in 1 .. m + n, NEW j \in 1 .. m + n, i < j PROVE Less(c[i], c[j])
  <2>1. CASE i \in 1 .. m /\ j \in 1 .. m /\ c[i] = a[i] /\ c[j] = a[j]
    BY <1>2, <1>7, <2>1
  <2>2. CASE i \in 1 .. m /\ j - m \in 1 .. n /\ c[i] = a[i] /\ c[j] = b[j - m]
    BY <1>2, <1>3, <2>2
  <2>3. CASE i - m \in 1 .. n /\ j - m \in 1 .. n /\ c[i] = b[i - m] /\ c[j] = b[j - m]
    <3>1. i - m < j - m
      BY <1>2, <1>7
    <3> QED
      BY <1>3, <2>3, <3>1
  <2>4. CASE i > m /\ j \in 1 .. m
    BY <1>2, <1>7, <2>4
  <2> QED
    BY <1>6, <2>1, <2>2, <2>3, <2>4
<1>8. ASSUME NEW e \in S PROVE \E i \in 1 .. m + n : c[i] = e
  <2>1. CASE e \in A
    <3>1. PICK i \in 1 .. m : a[i] = e
      BY <1>2, <2>1
    <3>2. i \in 1 .. m + n /\ i <= m
      BY <1>2, <1>3
    <3>3. c[i] = a[i]
      BY <1>5, <3>2
    <3> QED
      BY <3>1, <3>2, <3>3
  <2>2. CASE e \in B
    <3>1. PICK i \in 1 .. n : b[i] = e
      BY <1>3, <2>2
    <3>2. PICK j \in 1 .. m + n : ~(j <= m) /\ j - m = i
      <4>1. i + m \in 1 .. m + n /\ ~(i + m <= m) /\ (i + m) - m = i
        BY <1>2, <1>3
      <4> QED
        BY <4>1
    <3>3. c[j] = b[j - m]
      BY <1>5, <3>2
    <3> QED
      BY <3>1, <3>2, <3>3
  <2> QED
    BY <2>1, <2>2
<1>9. c = Sorted(S)
  <2>1. \A i, j \in 1 .. Len(c) : i < j => Less(c[i], c[j])
    BY <1>5, <1>7
  <2>2. \A e \in S : \E i \in 1 .. Len(c) : c[i] = e
    BY <1>5, <1>8
  <2> HIDE DEF S
  <2> QED
    BY <1>1, <1>5, <2>1, <2>2, SortedIsOnlyOne
<1> QED
  BY <1>9 DEF c, a, b

LEMMA SortedAppended ==
  ASSUME NEW A \in SUBSET Pairs, IsFiniteSet(A), NEW e \in Pairs, \A f \in A : Less(f, e)
  PROVE  Sorted(A \cup {e}) = Append(Sorted(A), e)
<1>1. {e} \in SUBSET Pairs /\ IsFiniteSet({e})
  BY FS_Singleton
<1>2. <<e>> \in Seq({e}) /\ Len(<<e>>) = 1 /\ <<e>>[1] = e
  OBVIOUS
<1>3. <<e>> = Sorted({e})
  <2>1. \A i, j \in 1 .. Len(<<e>>) : i < j => Less(<<e>>[i], <<e>>[j])
    BY <1>2
  <2>2. \A f \in {e} : \E i \in 1 .. Len(<<e>>) : <<e>>[i] = f
    BY <1>2
  <2> QED
    BY <1>1, <1>2, <2>1, <2>2, SortedIsOnlyOne
<1>4. Sorted(A \cup {e}) = Sorted(A) \o Sorted({e})
  BY <1>1, SortedJoined
<1>5. Sorted(A) \in Seq(Pairs)
  BY SortedIsSorted
<1> QED
  BY <1>3, <1>4, <1>5, AppendIsConcat

\* A nonempty set has a last and a first entry, which High and Low are.
LEMMA Extremes ==
  ASSUME NEW S \in SUBSET Pairs, IsFiniteSet(S), S # {}
  PROVE  /\ High(S) \in S /\ \A f \in S : f = High(S) \/ Less(f, High(S))
         /\ Low(S) \in S /\ \A f \in S : f = Low(S) \/ Less(Low(S), f)
<1> DEFINE n == Cardinality(S)
<1>1. n \in Nat /\ (\A e \in S : Rank(S, e) \in 0 .. n - 1)
      /\ \A e, f \in S : Less(e, f) => Rank(S, e) < Rank(S, f)
  BY RankBounds
<1>2. n # 0
  BY FS_EmptySet
<1>3. PICK e \in S : Rank(S, e) = n - 1
  BY <1>1, <1>2, RanksAreTaken
<1>4. \A f \in S : ~Less(e, f)
  BY <1>1, <1>3
<1>5. High(S) \in S /\ \A f \in S : ~Less(High(S), f)
  BY <1>4 DEF High
<1>6. PICK d \in S : Rank(S, d) = 0
  BY <1>1, <1>2, RanksAreTaken
<1>7. \A f \in S : ~Less(f, d)
  BY <1>1, <1>6
<1>8. Low(S) \in S /\ \A f \in S : ~Less(f, Low(S))
  BY <1>7 DEF Low
<1> QED
  BY <1>5, <1>8, LessOrder
-----------------------------------------------------------------------------
(***************************************************************************)
(* Records.                                                                *)
(***************************************************************************)

\* The kinds of node, told apart.
LEMMA NodeKinds ==
  /\ Dead \in Nodes
  /\ \A S, next : /\ Leaf(S, next).kind = "leaf" /\ Leaf(S, next) # Dead
                  /\ Leaf(S, next).entries = S /\ Leaf(S, next).next = next
                  /\ S \in EntrySets /\ next \in Nat => Leaf(S, next) \in Nodes
  /\ \A c : /\ Internal(c).kind = "internal" /\ Internal(c) # Dead /\ Internal(c).children = c
            /\ c \in Roots => Internal(c) \in Nodes
  /\ \A n, r, f : /\ Header(n, r, f).kind = "header" /\ Header(n, r, f) # Dead
                  /\ Header(n, r, f).height = n /\ Header(n, r, f).root = r /\ Header(n, r, f).first = f
                  /\ n \in {1, 2} /\ r \in Nat /\ f \in Nat => Header(n, r, f) \in Nodes
  /\ Dead.kind = "dead"
<1>1. Dead \in Nodes /\ Dead.kind = "dead"
  BY DEF Nodes, Dead
<1>2. ASSUME NEW S, NEW next
      PROVE  /\ Leaf(S, next).kind = "leaf" /\ Leaf(S, next) # Dead
             /\ Leaf(S, next).entries = S /\ Leaf(S, next).next = next
             /\ S \in EntrySets /\ next \in Nat => Leaf(S, next) \in Nodes
  <2>1. Leaf(S, next).kind = "leaf" /\ Leaf(S, next).entries = S /\ Leaf(S, next).next = next
    BY DEF Leaf
  <2>2. Leaf(S, next) # Dead
    BY <1>1, <2>1
  <2>3. S \in EntrySets /\ next \in Nat
        => Leaf(S, next) \in [kind : {"leaf"}, entries : EntrySets, next : Nat]
    BY DEF Leaf
  <2> QED
    BY <2>1, <2>2, <2>3 DEF Nodes
<1>3. ASSUME NEW c
      PROVE  /\ Internal(c).kind = "internal" /\ Internal(c) # Dead /\ Internal(c).children = c
             /\ c \in Roots => Internal(c) \in Nodes
  <2>1. Internal(c).kind = "internal" /\ Internal(c).children = c
    BY DEF Internal
  <2>2. Internal(c) # Dead
    BY <1>1, <2>1
  <2>3. c \in Roots => Internal(c) \in [kind : {"internal"}, children : Roots]
    BY DEF Internal
  <2> QED
    BY <2>1, <2>2, <2>3 DEF Nodes
<1>4. ASSUME NEW n, NEW r, NEW f
      PROVE  /\ Header(n, r, f).kind = "header" /\ Header(n, r, f) # Dead
             /\ Header(n, r, f).height = n /\ Header(n, r, f).root = r /\ Header(n, r, f).first = f
             /\ n \in {1, 2} /\ r \in Nat /\ f \in Nat => Header(n, r, f) \in Nodes
  <2>1. /\ Header(n, r, f).kind = "header"
        /\ Header(n, r, f).height = n /\ Header(n, r, f).root = r /\ Header(n, r, f).first = f
    BY DEF Header
  <2>2. Header(n, r, f) # Dead
    BY <1>1, <2>1
  <2>3. n \in {1, 2} /\ r \in Nat /\ f \in Nat
        => Header(n, r, f) \in [kind : {"header"}, height : {1, 2}, root : Nat, first : Nat]
    BY DEF Header
  <2> QED
    BY <2>1, <2>2, <2>3 DEF Nodes
<1> QED
  BY <1>1, <1>2, <1>3, <1>4

\* NodeOK holds of them.
LEMMA NodesAreOK == \A n \in Nodes : NodeOK(n)
<1>1. Dead.kind = "dead"
  BY NodeKinds
<1>2. ASSUME NEW n \in [kind : {"header"}, height : {1, 2}, root : Nat, first : Nat] PROVE NodeOK(n)
  <2>1. n.kind = "header" /\ n.height \in {1, 2}
    OBVIOUS
  <2> QED
    BY <2>1 DEF NodeOK
<1>3. ASSUME NEW n \in [kind : {"leaf"}, entries : EntrySets, next : Nat] PROVE NodeOK(n)
  <2>1. n.kind = "leaf" /\ n.entries \in EntrySets
    OBVIOUS
  <2> QED
    BY <2>1 DEF NodeOK, EntrySets
<1>4. ASSUME NEW n \in [kind : {"internal"}, children : Roots] PROVE NodeOK(n)
  <2>1. n.kind = "internal" /\ n.children \in Roots
    OBVIOUS
  <2> QED
    BY <2>1 DEF NodeOK, Roots
<1>5. NodeOK(Dead)
  BY <1>1 DEF NodeOK
<1> QED
  BY <1>2, <1>3, <1>4, <1>5 DEF Nodes

\* No record has the id Nil, or an id behind the last one.
LEMMA NodeFacts ==
  ASSUME NEW st \in Seq(Nodes)
  PROVE  /\ Len(st) \in Nat /\ DOMAIN st = 1 .. Len(st)
         /\ \A id : Node(st, id) \in Nodes
         /\ \A id : Node(st, id) # Dead => id \in 1 .. Len(st) /\ id # Nil
         /\ \A id \in 1 .. Len(st) : Node(st, id) = st[id]
<1>1. Len(st) \in Nat /\ DOMAIN st = 1 .. Len(st) /\ \A id \in 1 .. Len(st) : st[id] \in Nodes
  BY LenProperties, ElementOfSeq
<1>2. Dead \in Nodes
  BY NodeKinds
<1> QED
  BY <1>1, <1>2 DEF Node, Nil

\* Replacing a record changes no other.
LEMMA PutNode ==
  ASSUME NEW st \in Seq(Nodes), NEW id, Node(st, id) # Dead, NEW node \in Nodes
  PROVE  /\ Put(st, id, node) \in Seq(Nodes)
         /\ \A j : Node(Put(st, id, node), j) = IF j = id THEN node ELSE Node(st, j)
<1>1. Len(st) \in Nat /\ DOMAIN st = 1 .. Len(st) /\ id \in 1 .. Len(st)
      /\ \A j \in 1 .. Len(st) : st[j] \in Nodes
  BY NodeFacts, LenProperties, ElementOfSeq
<1>2. /\ DOMAIN Put(st, id, node) = 1 .. Len(st)
      /\ \A j \in 1 .. Len(st) : Put(st, id, node)[j] = IF j = id THEN node ELSE st[j]
      /\ Put(st, id, node) \in [1 .. Len(st) -> Nodes]
  BY <1>1 DEF Put
<1>3. Put(st, id, node) \in Seq(Nodes)
  BY <1>1, <1>2, SeqDef
<1> QED
  BY <1>1, <1>2, <1>3 DEF Node

\* A new record takes an id that names none.
LEMMA NewIdIsFree ==
  ASSUME NEW st \in Seq(Nodes)
  PROVE  NewId(st) \in 1 .. Len(st) + 1 /\ Node(st, NewId(st)) = Dead
<1> DEFINE free == {id \in 1 .. Len(st) + 1 : Node(st, id) = Dead}
<1>1. Len(st) \in Nat /\ Len(st) + 1 \notin DOMAIN st
  BY NodeFacts
<1>2. Len(st) + 1 \in free /\ free \in SUBSET Nat
  BY <1>1 DEF Node
<1>3. Min(free) \in free
  BY <1>2, MinIsLeast
<1> QED
  BY <1>3 DEF NewId

\* A new record changes no other.
LEMMA AddNode ==
  ASSUME NEW st \in Seq(Nodes), NEW node \in Nodes
  PROVE  /\ Add(st, node) \in Seq(Nodes)
         /\ \A j : Node(Add(st, node), j) = IF j = NewId(st) THEN node ELSE Node(st, j)
<1> DEFINE id == NewId(st)
<1>1. id \in 1 .. Len(st) + 1 /\ Node(st, id) = Dead
  BY NewIdIsFree
<1>2. Len(st) \in Nat /\ DOMAIN st = 1 .. Len(st) /\ \A j \in 1 .. Len(st) : st[j] \in Nodes
  BY NodeFacts, LenProperties, ElementOfSeq
<1>3. CASE id > Len(st)
  <2>1. Add(st, node) = Append(st, node) /\ id = Len(st) + 1
    BY <1>1, <1>2, <1>3 DEF Add
  <2>2. /\ Append(st, node) \in Seq(Nodes) /\ Len(Append(st, node)) = Len(st) + 1
        /\ DOMAIN Append(st, node) = 1 .. Len(st) + 1
        /\ \A j \in 1 .. Len(st) + 1 :
             Append(st, node)[j] = IF j = Len(st) + 1 THEN node ELSE st[j]
    BY <1>2, AppendProperties, LenProperties
  <2> QED
    BY <1>2, <2>1, <2>2 DEF Node
<1>4. CASE ~(id > Len(st))
  <2>1. Add(st, node) = Put(st, id, node) /\ id \in 1 .. Len(st)
    BY <1>1, <1>2, <1>4 DEF Add
  <2>2. /\ DOMAIN Put(st, id, node) = 1 .. Len(st)
        /\ \A j \in 1 .. Len(st) : Put(st, id, node)[j] = IF j = id THEN node ELSE st[j]
        /\ Put(st, id, node) \in [1 .. Len(st) -> Nodes]
    BY <1>2, <2>1 DEF Put
  <2>3. Put(st, id, node) \in Seq(Nodes)
    BY <1>2, <2>2, SeqDef
  <2> QED
    BY <1>2, <2>1, <2>2, <2>3 DEF Node
<1> QED
  BY <1>3, <1>4

-----------------------------------------------------------------------------
(***************************************************************************)
(* Chains of leaves.                                                       *)
(***************************************************************************)

\* A part of a sequence.
LEMMA PartOfSeq ==
  ASSUME NEW S, NEW c \in Seq(S), NEW a \in 1 .. Len(c) + 1, NEW b \in a - 1 .. Len(c)
  PROVE  /\ SubSeq(c, a, b) \in Seq(S) /\ Len(SubSeq(c, a, b)) = b - a + 1
         /\ \A i \in 1 .. b - a + 1 : SubSeq(c, a, b)[i] = c[a + i - 1]
         /\ DOMAIN SubSeq(c, a, b) = 1 .. b - a + 1
<1>1. Len(c) \in Nat /\ a \in Int /\ b \in Int /\ a - 1 <= b /\ b <= Len(c) /\ 1 <= a
  BY LenProperties
<1>2. \A i \in a .. b : c[i] \in S
  BY <1>1, ElementOfSeq
<1>3. /\ SubSeq(c, a, b) \in Seq(S)
      /\ Len(SubSeq(c, a, b)) = IF a <= b THEN b - a + 1 ELSE 0
      /\ \A i \in 1 .. b - a + 1 : SubSeq(c, a, b)[i] = c[a + i - 1]
  BY <1>1, <1>2, SubSeqProperties
<1>4. Len(SubSeq(c, a, b)) = b - a + 1
  BY <1>1, <1>3
<1> QED
  BY <1>3, <1>4, LenProperties

\* The leaf that follows the i-th one.
NextOf(ids, i) == IF i < Len(ids) THEN ids[i + 1] ELSE Nil

\* Leaves linked in this order, the last one to the record with the id `after`.
NextOr(ids, i, after) == IF i < Len(ids) THEN ids[i + 1] ELSE after
Linked(st, ids, after) ==
  /\ ids \in Seq(Nat) /\ ids # <<>>
  /\ \A i, j \in 1 .. Len(ids) : ids[i] = ids[j] => i = j
  /\ \A i \in 1 .. Len(ids) : IsLeaf(st, ids[i]) /\ Node(st, ids[i]).next = NextOr(ids, i, after)

\* One more step along the chain, and the chain as the function of the number of steps
\* that Chain chooses.
Step(st, first, path, n) ==
  IF n = 0 THEN IF IsLeaf(st, first) THEN <<first>> ELSE <<>>
  ELSE LET ids == path[n - 1]
           next == IF ids = <<>> THEN Nil ELSE Node(st, Last(ids)).next IN
       IF next # Nil /\ IsLeaf(st, next) /\ next \notin ToSet(ids)
       THEN Append(ids, next) ELSE ids
Path(st, first) == CHOOSE path : path = [n \in Nat |-> Step(st, first, path, n)]

\* Chain takes as many steps as there are records.
LEMMA ChainIsPath ==
  ASSUME NEW st, NEW first
  PROVE  Chain(st, first) = Path(st, first)[Len(st)]
BY Zenon DEF Chain, Path, Step

\* A function that satisfies the equation is the only one: the first step at which
\* two could differ depends on the step before.
LEMMA PathIsUnique ==
  ASSUME NEW st, NEW first, NEW g, g = [n \in Nat |-> Step(st, first, g, n)]
  PROVE  \A n \in Nat : Path(st, first)[n] = g[n]
<1> DEFINE p == Path(st, first)
           D == {n \in Nat : p[n] # g[n]}
<1>1. p = [n \in Nat |-> Step(st, first, p, n)]
  BY DEF Path
<1> HIDE DEF p
<1>2. \A n \in Nat : p[n] = Step(st, first, p, n) /\ g[n] = Step(st, first, g, n)
  <2>1. \A n \in Nat : p[n] = Step(st, first, p, n)
    BY <1>1, Zenon
  <2>2. \A n \in Nat : g[n] = Step(st, first, g, n)
    BY Zenon
  <2> QED
    BY <2>1, <2>2
<1>3. p[0] = g[0]
  <2>1. p[0] = Step(st, first, p, 0) /\ g[0] = Step(st, first, g, 0)
    BY <1>2
  <2> QED
    BY <2>1 DEF Step
<1>4. ASSUME NEW n \in Nat, n # 0, p[n - 1] = g[n - 1] PROVE p[n] = g[n]
  <2>1. p[n] = Step(st, first, p, n) /\ g[n] = Step(st, first, g, n)
    BY <1>2
  <2>2. Step(st, first, p, n) = Step(st, first, g, n)
    BY <1>4, Zenon DEF Step
  <2> QED
    BY <2>1, <2>2
<1>5. ASSUME D # {} PROVE FALSE
  <2>1. D \in SUBSET Nat
    OBVIOUS
  <2>2. Min(D) \in D /\ \A y \in D : Min(D) <= y
    BY <1>5, <2>1, MinIsLeast
  <2> DEFINE m == Min(D)
  <2> HIDE DEF m
  <2>3. m \in Nat /\ p[m] # g[m] /\ \A y \in D : m <= y
    BY <2>2 DEF m
  <2>4. m # 0
    BY <1>3, <2>3
  <2>5. m - 1 \in Nat /\ ~(m <= m - 1)
    BY <2>3, <2>4
  <2>6. p[m - 1] = g[m - 1]
    BY <2>3, <2>5
  <2> QED
    BY <1>4, <2>3, <2>4, <2>6
<1> QED
  BY <1>5 DEF p

\* The chain from the first of linked leaves is those leaves, if the last one has no next
\* or one that is not a leaf.
LEMMA ChainIsLinked ==
  ASSUME NEW st \in Seq(Nodes), NEW ids, NEW after, Linked(st, ids, after), after = Nil \/ ~IsLeaf(st, after)
  PROVE  Chain(st, ids[1]) = ids
<1> DEFINE m == Len(ids)
           steps(n) == IF n < m THEN n + 1 ELSE m
           g == [n \in Nat |-> SubSeq(ids, 1, steps(n))]
<1>1. ids \in Seq(Nat) /\ m \in Nat /\ m >= 1 /\ DOMAIN ids = 1 .. m
  <2>1. ids \in Seq(Nat) /\ ids # <<>>
    BY DEF Linked
  <2> QED
    BY <2>1, EmptySeq, LenProperties
<1>2. /\ \A i, j \in 1 .. m : ids[i] = ids[j] => i = j
      /\ \A i \in 1 .. m : IsLeaf(st, ids[i]) /\ Node(st, ids[i]).next = NextOr(ids, i, after)
  BY DEF Linked
<1>3. \A i \in 1 .. m : ids[i] \in 1 .. Len(st) /\ ids[i] # Nil
  BY <1>2, NodeFacts, NodeKinds DEF IsLeaf
<1>4. m <= Len(st)
  <2>1. ids \in [1 .. m -> 1 .. Len(st)]
    BY <1>1, <1>3, LenProperties
  <2>2. ids \in Injection(1 .. m, 1 .. Len(st))
    BY <1>2, <2>1 DEF Injection, IsInjective
  <2>3. Len(st) \in Nat
    BY NodeFacts
  <2>4. IsFiniteSet(1 .. Len(st)) /\ Cardinality(1 .. Len(st)) = Len(st)
    <3>1. IsFiniteSet(1 .. Len(st))
          /\ Cardinality(1 .. Len(st)) = IF 1 > Len(st) THEN 0 ELSE Len(st) - 1 + 1
      BY <2>3, FS_Interval
    <3> QED
      BY <2>3, <3>1
  <2>5. IsFiniteSet(1 .. m) /\ Cardinality(1 .. m) = m
    <3>1. IsFiniteSet(1 .. m)
          /\ Cardinality(1 .. m) = IF 1 > m THEN 0 ELSE m - 1 + 1
      BY <1>1, FS_Interval
    <3> QED
      BY <1>1, <3>1
  <2>6. Cardinality(1 .. m) <= Cardinality(1 .. Len(st))
    BY <2>2, <2>4, FS_Injection
  <2> QED
    BY <2>4, <2>5, <2>6
<1>5. ASSUME NEW n \in Nat
      PROVE  /\ steps(n) \in 1 .. m /\ g[n] = SubSeq(ids, 1, steps(n))
             /\ g[n] \in Seq(Nat) /\ Len(g[n]) = steps(n) /\ DOMAIN g[n] = 1 .. steps(n)
             /\ \A i \in 1 .. steps(n) : g[n][i] = ids[i]
  <2>1. steps(n) \in 1 .. m /\ g[n] = SubSeq(ids, 1, steps(n))
    BY <1>1
  <2> DEFINE k == steps(n)
  <2> HIDE DEF steps, g, k, m
  <2>2. k \in 1 .. m
    BY <2>1 DEF k
  <2>3. 1 \in 1 .. Len(ids) + 1 /\ k \in 1 - 1 .. Len(ids)
    BY <1>1, <2>2 DEF m
  <2>4. /\ SubSeq(ids, 1, k) \in Seq(Nat) /\ Len(SubSeq(ids, 1, k)) = k - 1 + 1
        /\ \A i \in 1 .. k - 1 + 1 : SubSeq(ids, 1, k)[i] = ids[1 + i - 1]
        /\ DOMAIN SubSeq(ids, 1, k) = 1 .. k - 1 + 1
    BY <1>1, <2>3, PartOfSeq
  <2>5. k - 1 + 1 = k /\ \A i \in 1 .. k : 1 + i - 1 = i
    BY <2>2
  <2> QED
    BY <2>1, <2>4, <2>5 DEF k
<1>6. ASSUME NEW n \in Nat PROVE g[n] = Step(st, ids[1], g, n)
  <2>1. CASE n = 0
    <3>1. g[n] \in Seq(Nat) /\ Len(g[n]) = 1 /\ g[n][1] = ids[1]
      BY <1>1, <1>5, <2>1
    <3> DEFINE s == g[n]
    <3> HIDE DEF g, s
    <3>2. g[n] = <<ids[1]>>
      <4>1. ids[1] \in Nat
        BY <1>1, ElementOfSeq
      <4>2. <<ids[1]>> \in Seq(Nat) /\ Len(<<ids[1]>>) = 1 /\ <<ids[1]>>[1] = ids[1]
        BY <4>1
      <4>3. s \in Seq(Nat) /\ Len(s) = 1 /\ s[1] = ids[1]
        BY <3>1 DEF s
      <4>4. \A i \in 1 .. Len(s) : s[i] = <<ids[1]>>[i]
        BY <4>2, <4>3
      <4>5. s = <<ids[1]>>
        BY <4>2, <4>3, <4>4, SeqEqual
      <4> QED
        BY <4>5 DEF s
    <3>3. IsLeaf(st, ids[1])
      BY <1>1, <1>2
    <3> QED
      BY <2>1, <3>2, <3>3 DEF Step
  <2>2. CASE n # 0
    <3> DEFINE k == steps(n - 1)
               part == g[n - 1]
               next == NextOr(ids, k, after)
    <3>1. n - 1 \in Nat
      BY <2>2
    <3>2. /\ k \in 1 .. m /\ part = SubSeq(ids, 1, k)
          /\ part \in Seq(Nat) /\ Len(part) = k /\ DOMAIN part = 1 .. k
          /\ \A i \in 1 .. k : part[i] = ids[i]
      BY <1>5, <3>1
    <3>3. steps(n) = IF k < m THEN k + 1 ELSE m
      BY <1>1, <2>2
    <3>4. g[n] = SubSeq(ids, 1, steps(n))
      BY <1>5
    <3> HIDE DEF g, steps, k, part, next, m
    <3>5. part # <<>> /\ Last(part) = ids[k]
      <4>1. Len(part) # 0
        BY <3>2
      <4>2. part # <<>>
        BY <4>1, EmptySeq
      <4> QED
        BY <3>2, <4>2 DEF Last
    <3>6. Node(st, Last(part)).next = next
      BY <1>2, <3>2, <3>5 DEF next
    <3>7. CASE k < m
      <4>1. next = ids[k + 1] /\ k + 1 \in 1 .. m
        BY <1>1, <3>2, <3>7 DEF next, NextOr, m
      <4>2. next # Nil /\ IsLeaf(st, next)
        BY <1>2, <1>3, <4>1
      <4>3. next \notin ToSet(part)
        <5>1. ASSUME NEW i \in 1 .. k PROVE part[i] # next
          <6>1. i \in 1 .. m /\ i # k + 1 /\ part[i] = ids[i]
            BY <1>1, <3>2
          <6> QED
            BY <1>2, <4>1, <6>1
        <5> QED
          BY <3>2, <5>1 DEF ToSet
      <4>4. g[n] = Append(part, next)
        <5>1. PICK b : b = k + 1
          OBVIOUS
        <5>2. PICK N : N = Nat
          OBVIOUS
        <5>3. ids \in Seq(N) /\ 1 \in 1 .. Len(ids) /\ b \in 1 .. Len(ids)
          BY <1>1, <4>1, <5>1, <5>2 DEF m
        <5>4. SubSeq(ids, 1, b) = SubSeq(ids, 1, b - 1) \o <<ids[b]>>
          BY ONLY <5>3, SubSeqRecursiveSecond
        <5>5. b - 1 = k /\ g[n] = SubSeq(ids, 1, b) /\ ids[b] = next
          BY <3>2, <3>3, <3>4, <3>7, <4>1, <5>1
        <5>6. next \in Nat
          BY <1>1, <4>1, ElementOfSeq DEF m
        <5>7. Append(part, next) = part \o <<next>>
          BY <3>2, <5>6, AppendIsConcat
        <5> QED
          BY <3>2, <5>4, <5>5, <5>7
      <4>5. Step(st, ids[1], g, n) = Append(part, next)
        BY <2>2, <3>5, <3>6, <4>2, <4>3 DEF Step, part
      <4> QED
        BY <4>4, <4>5
    <3>8. CASE ~(k < m)
      <4>1. next = Nil \/ ~IsLeaf(st, next)
        BY <1>1, <3>2, <3>8 DEF next, NextOr, m
      <4>2. k = m
        BY <1>1, <3>2, <3>8
      <4>3. g[n] = part
        BY <3>2, <3>3, <3>4, <3>8, <4>2
      <4>4. Step(st, ids[1], g, n) = part
        BY <2>2, <3>5, <3>6, <4>1 DEF Step, part
      <4> QED
        BY <4>3, <4>4
    <3> QED
      BY <3>7, <3>8
  <2> QED
    BY <2>1, <2>2
<1>7. g = [n \in Nat |-> Step(st, ids[1], g, n)]
  <2> DEFINE h == [n \in Nat |-> Step(st, ids[1], g, n)]
  <2>1. \A n \in Nat : g[n] = h[n]
    BY <1>6
  <2>2. g = [n \in Nat |-> g[n]] /\ h = [n \in Nat |-> h[n]]
    OBVIOUS
  <2> HIDE DEF g, h
  <2>3. g = h
    BY <2>1, <2>2
  <2> QED
    BY <2>3 DEF h
<1>8. Len(st) \in Nat
  BY NodeFacts
<1>9. steps(Len(st)) = m
  <2> DEFINE size == Len(st)
  <2> HIDE DEF m, size
  <2>1. size \in Nat /\ m \in Nat /\ m <= size
    BY <1>1, <1>4, <1>8 DEF size
  <2>2. (IF size < m THEN size + 1 ELSE m) = m
    BY <2>1
  <2> QED
    BY <2>2 DEF size
<1>10. g[Len(st)] = SubSeq(ids, 1, m)
  BY <1>5, <1>8, <1>9
<1> HIDE DEF g, steps
<1>11. Chain(st, ids[1]) = g[Len(st)]
  BY <1>7, <1>8, ChainIsPath, PathIsUnique
<1>12. SubSeq(ids, 1, m) = ids
  BY <1>1, SubSeqFull
<1> QED
  BY <1>10, <1>11, <1>12

-----------------------------------------------------------------------------
(***************************************************************************)
(* Sequences with an element more, and with one less.                      *)
(***************************************************************************)

\* InsertAt puts x at position i and moves what follows.
LEMMA InsertedAt ==
  ASSUME NEW S, NEW c \in Seq(S), NEW i \in 1 .. Len(c) + 1, NEW x \in S
  PROVE  /\ InsertAt(c, i, x) \in Seq(S) /\ Len(InsertAt(c, i, x)) = Len(c) + 1
         /\ \A j \in 1 .. Len(c) + 1 : /\ j < i => InsertAt(c, i, x)[j] = c[j]
                                       /\ j = i => InsertAt(c, i, x)[j] = x
                                       /\ j > i => InsertAt(c, i, x)[j] = c[j - 1]
<1> DEFINE n == Len(c)
           a == SubSeq(c, 1, i - 1)
           b == SubSeq(c, i, n)
<1>1. n \in Nat /\ i \in Int /\ 1 <= i /\ i <= n + 1
  BY LenProperties
<1>2. a \in Seq(S) /\ Len(a) = i - 1 /\ \A j \in 1 .. i - 1 : a[j] = c[j]
  <2>1. 1 \in 1 .. n + 1 /\ i - 1 \in 1 - 1 .. n
    BY <1>1
  <2>2. /\ SubSeq(c, 1, i - 1) \in Seq(S) /\ Len(SubSeq(c, 1, i - 1)) = i - 1 - 1 + 1
        /\ \A j \in 1 .. i - 1 - 1 + 1 : SubSeq(c, 1, i - 1)[j] = c[1 + j - 1]
    BY <2>1, PartOfSeq
  <2>3. i - 1 - 1 + 1 = i - 1 /\ \A j \in 1 .. i - 1 : 1 + j - 1 = j
    BY <1>1
  <2> QED
    BY <2>2, <2>3
<1>3. b \in Seq(S) /\ Len(b) = n - i + 1 /\ \A j \in 1 .. n - i + 1 : b[j] = c[i + j - 1]
  <2>1. i \in 1 .. n + 1 /\ n \in i - 1 .. n
    BY <1>1
  <2> QED
    BY <2>1, PartOfSeq
<1>4. <<x>> \in Seq(S) /\ Len(<<x>>) = 1 /\ <<x>>[1] = x
  OBVIOUS
<1>5. InsertAt(c, i, x) = a \o <<x>> \o b
  BY DEF InsertAt
<1> HIDE DEF a, b, n
<1> DEFINE ax == a \o <<x>>
<1>6. /\ ax \in Seq(S) /\ Len(ax) = i - 1 + 1
      /\ \A j \in 1 .. i - 1 + 1 : ax[j] = IF j <= i - 1 THEN a[j] ELSE <<x>>[j - (i - 1)]
  BY <1>2, <1>4, ConcatProperties
<1>7. Len(ax) = i /\ \A j \in 1 .. i : ax[j] = IF j < i THEN c[j] ELSE x
  <2>1. i - 1 + 1 = i
    BY <1>1
  <2>2. ASSUME NEW j \in 1 .. i PROVE ax[j] = IF j < i THEN c[j] ELSE x
    <3>1. CASE j < i
      <4>1. j <= i - 1 /\ j \in 1 .. i - 1
        BY <1>1, <3>1
      <4> QED
        BY <1>2, <1>6, <2>1, <3>1, <4>1
    <3>2. CASE ~(j < i)
      <4>1. j = i /\ ~(j <= i - 1) /\ j - (i - 1) = 1
        BY <1>1, <3>2
      <4> QED
        BY <1>4, <1>6, <2>1, <3>2, <4>1
    <3> QED
      BY <3>1, <3>2
  <2> QED
    BY <1>6, <2>1, <2>2
<1> HIDE DEF ax
<1>8. /\ ax \o b \in Seq(S) /\ Len(ax \o b) = i + (n - i + 1)
      /\ \A j \in 1 .. i + (n - i + 1) : (ax \o b)[j] = IF j <= i THEN ax[j] ELSE b[j - i]
  <2>1. /\ ax \o b \in Seq(S) /\ Len(ax \o b) = Len(ax) + Len(b)
        /\ \A j \in 1 .. Len(ax) + Len(b) : (ax \o b)[j] = IF j <= Len(ax) THEN ax[j] ELSE b[j - Len(ax)]
    BY <1>3, <1>6, ConcatProperties
  <2>2. Len(ax) = i /\ Len(b) = n - i + 1
    BY <1>3, <1>7
  <2> QED
    BY <2>1, <2>2
<1>9. i + (n - i + 1) = n + 1
  BY <1>1
<1>10. ASSUME NEW j \in 1 .. n + 1
       PROVE  /\ j < i => (ax \o b)[j] = c[j]
              /\ j = i => (ax \o b)[j] = x
              /\ j > i => (ax \o b)[j] = c[j - 1]
  <2>1. (ax \o b)[j] = IF j <= i THEN ax[j] ELSE b[j - i]
    BY <1>8, <1>9
  <2>2. CASE j <= i
    <3>1. j \in 1 .. i
      BY <1>1, <2>2
    <3>2. (j < i => ax[j] = c[j]) /\ (j = i => ax[j] = x)
      BY <1>1, <1>7, <3>1
    <3>3. ~(j > i) /\ (ax \o b)[j] = ax[j]
      BY <1>1, <2>1, <2>2
    <3> QED
      BY <3>2, <3>3
  <2>3. CASE ~(j <= i)
    <3>1. j - i \in 1 .. n - i + 1 /\ i + (j - i) - 1 = j - 1 /\ ~(j < i) /\ j # i
      BY <1>1, <2>3
    <3>2. b[j - i] = c[j - 1]
      BY <1>3, <3>1
    <3> QED
      BY <2>1, <2>3, <3>1, <3>2
  <2> QED
    BY <2>2, <2>3
<1> QED
  BY <1>5, <1>8, <1>9, <1>10 DEF ax, n

\* RemoveAt takes out position i and moves what follows.
LEMMA RemovedAt ==
  ASSUME NEW S, NEW c \in Seq(S), NEW i \in 1 .. Len(c)
  PROVE  /\ RemoveAt(c, i) \in Seq(S) /\ Len(RemoveAt(c, i)) = Len(c) - 1
         /\ \A j \in 1 .. Len(c) - 1 : /\ j < i => RemoveAt(c, i)[j] = c[j]
                                       /\ j >= i => RemoveAt(c, i)[j] = c[j + 1]
<1> DEFINE n == Len(c)
           a == SubSeq(c, 1, i - 1)
           b == SubSeq(c, i + 1, n)
<1>1. n \in Nat /\ i \in Int /\ 1 <= i /\ i <= n
  BY LenProperties
<1>2. a \in Seq(S) /\ Len(a) = i - 1 /\ \A j \in 1 .. i - 1 : a[j] = c[j]
  <2>1. 1 \in 1 .. n + 1 /\ i - 1 \in 1 - 1 .. n
    BY <1>1
  <2>2. /\ SubSeq(c, 1, i - 1) \in Seq(S) /\ Len(SubSeq(c, 1, i - 1)) = i - 1 - 1 + 1
        /\ \A j \in 1 .. i - 1 - 1 + 1 : SubSeq(c, 1, i - 1)[j] = c[1 + j - 1]
    BY <2>1, PartOfSeq
  <2>3. i - 1 - 1 + 1 = i - 1 /\ \A j \in 1 .. i - 1 : 1 + j - 1 = j
    BY <1>1
  <2> QED
    BY <2>2, <2>3
<1>3. b \in Seq(S) /\ Len(b) = n - i /\ \A j \in 1 .. n - i : b[j] = c[i + j]
  <2>1. i + 1 \in 1 .. n + 1 /\ n \in i + 1 - 1 .. n
    BY <1>1
  <2>2. /\ SubSeq(c, i + 1, n) \in Seq(S) /\ Len(SubSeq(c, i + 1, n)) = n - (i + 1) + 1
        /\ \A j \in 1 .. n - (i + 1) + 1 : SubSeq(c, i + 1, n)[j] = c[i + 1 + j - 1]
    BY <2>1, PartOfSeq
  <2>3. n - (i + 1) + 1 = n - i /\ \A j \in 1 .. n - i : i + 1 + j - 1 = i + j
    BY <1>1
  <2> QED
    BY <2>2, <2>3
<1>4. RemoveAt(c, i) = a \o b
  BY DEF RemoveAt
<1> HIDE DEF a, b, n
<1>5. /\ a \o b \in Seq(S) /\ Len(a \o b) = i - 1 + (n - i)
      /\ \A j \in 1 .. i - 1 + (n - i) : (a \o b)[j] = IF j <= i - 1 THEN a[j] ELSE b[j - (i - 1)]
  <2>1. /\ a \o b \in Seq(S) /\ Len(a \o b) = Len(a) + Len(b)
        /\ \A j \in 1 .. Len(a) + Len(b) : (a \o b)[j] = IF j <= Len(a) THEN a[j] ELSE b[j - Len(a)]
    BY <1>2, <1>3, ConcatProperties
  <2>2. Len(a) = i - 1 /\ Len(b) = n - i
    BY <1>2, <1>3
  <2> QED
    BY <2>1, <2>2
<1>6. i - 1 + (n - i) = n - 1
  BY <1>1
<1>7. ASSUME NEW j \in 1 .. n - 1 PROVE (j < i => (a \o b)[j] = c[j]) /\ (j >= i => (a \o b)[j] = c[j + 1])
  <2>1. (a \o b)[j] = IF j <= i - 1 THEN a[j] ELSE b[j - (i - 1)]
    BY <1>5, <1>6
  <2>2. CASE j < i
    <3>1. j \in 1 .. i - 1 /\ j <= i - 1
      BY <1>1, <2>2
    <3> QED
      BY <1>2, <2>1, <2>2, <3>1
  <2>3. CASE ~(j < i)
    <3>1. j - (i - 1) \in 1 .. n - i /\ i + (j - (i - 1)) = j + 1 /\ ~(j <= i - 1)
      BY <1>1, <2>3
    <3>2. b[j - (i - 1)] = c[j + 1]
      BY <1>3, <3>1
    <3> QED
      BY <2>1, <2>3, <3>1, <3>2
  <2> QED
    BY <2>2, <2>3
<1> QED
  BY <1>4, <1>5, <1>6, <1>7 DEF n

-----------------------------------------------------------------------------
(***************************************************************************)
(* The tree between two operations.                                        *)
(***************************************************************************)

\* Entry sets in the order of their leaves, none empty unless there is only one.
Ordered(es) ==
  /\ es \in Seq(EntrySets) /\ es # <<>>
  /\ \A i, j \in 1 .. Len(es) : i < j => \A e \in es[i], f \in es[j] : Less(e, f)
  /\ Len(es) > 1 => \A i \in 1 .. Len(es) : es[i] # {}
AllOf(es) == UNION {es[i] : i \in 1 .. Len(es)}

\* The leaves ids, linked in this order, with these entries.
LeavesAre(st, ids, es) ==
  /\ ids \in Seq(Nat) /\ Len(ids) = Len(es)
  /\ \A i, j \in 1 .. Len(ids) : ids[i] = ids[j] => i = j
  /\ \A i \in 1 .. Len(ids) : Node(st, ids[i]) = Leaf(es[i], NextOf(ids, i))

\* The children of the root.
Separators(ids, es) == [i \in 1 .. Len(ids) |-> Child(High(es[i]), ids[i])]

\* A single leaf, or a root above at least two.
RootIs(st, h, ids, es) ==
  \/ h.height = 1 /\ Len(ids) = 1 /\ h.root = ids[1]
  \/ /\ h.height = 2 /\ Len(ids) \in 2 .. InternalCapacity
     /\ Node(st, h.root) = Internal(Separators(ids, es))

Handles == [height : {1, 2}, root : Nat, first : Nat]

\* The store and the handle are a tree of these leaves.
TreeAt(st, h, ids, es) ==
  /\ Ordered(es) /\ LeavesAre(st, ids, es)
  /\ h \in Handles /\ h.first = ids[1]
  /\ Node(st, HeaderId) = Header(h.height, h.root, h.first)
  /\ RootIs(st, h, ids, es)

\* A record that is not one of the tree's, as crashes leave them.
Outside(st, h, ids, id) ==
  Node(st, id) # Dead /\ id # HeaderId /\ id # h.root /\ \A i \in 1 .. Len(ids) : id # ids[i]
Whole(st, h, ids) == \A id : ~Outside(st, h, ids, id)

\* A tree with the entries m, and no other records.
IsTree(st, h, m) ==
  /\ st \in Seq(Nodes)
  /\ \E ids \in Seq(Nat), es \in Seq(EntrySets) :
       TreeAt(st, h, ids, es) /\ Whole(st, h, ids) /\ m = AllOf(es)

\* Entries are pairs of numbers, and a leaf has finitely many.
LEMMA EntrySetFacts ==
  \A S \in EntrySets : S \in SUBSET Universe /\ S \in SUBSET Pairs /\ IsFiniteSet(S) /\ Cardinality(S) <= LeafCapacity
BY UniverseAssumption DEF EntrySets, Pairs

\* The leaves of a tree, one by one.
LEMMA LeafFacts ==
  ASSUME NEW st, NEW ids, NEW es, Ordered(es), LeavesAre(st, ids, es)
  PROVE  /\ ids \in Seq(Nat) /\ Len(ids) \in Nat /\ Len(ids) >= 1 /\ DOMAIN ids = 1 .. Len(ids)
         /\ es \in Seq(EntrySets) /\ Len(es) = Len(ids) /\ ids # <<>>
         /\ \A i \in 1 .. Len(ids) :
              /\ ids[i] \in Nat /\ es[i] \in EntrySets
              /\ Node(st, ids[i]) = Leaf(es[i], NextOf(ids, i))
              /\ IsLeaf(st, ids[i]) /\ Entries(st, ids[i]) = es[i] /\ Node(st, ids[i]).next = NextOf(ids, i)
              /\ Node(st, ids[i]) # Dead /\ Node(st, ids[i]).kind = "leaf"
<1>1. ids \in Seq(Nat) /\ Len(ids) = Len(es) /\ es \in Seq(EntrySets) /\ es # <<>>
  BY DEF LeavesAre, Ordered
<1>2. Len(es) \in Nat /\ Len(es) >= 1
  BY <1>1, EmptySeq
<1>3. DOMAIN ids = 1 .. Len(ids) /\ \A i \in 1 .. Len(ids) : ids[i] \in Nat /\ es[i] \in EntrySets
  BY <1>1, LenProperties, ElementOfSeq
<1>4. ids # <<>>
  BY <1>1, <1>2, EmptySeq
<1>5. ASSUME NEW i \in 1 .. Len(ids)
      PROVE  /\ Node(st, ids[i]) = Leaf(es[i], NextOf(ids, i))
             /\ IsLeaf(st, ids[i]) /\ Entries(st, ids[i]) = es[i] /\ Node(st, ids[i]).next = NextOf(ids, i)
             /\ Node(st, ids[i]) # Dead /\ Node(st, ids[i]).kind = "leaf"
  <2>1. Node(st, ids[i]) = Leaf(es[i], NextOf(ids, i))
    BY DEF LeavesAre
  <2> QED
    BY <2>1, NodeKinds DEF IsLeaf, Entries
<1> QED
  BY <1>1, <1>2, <1>3, <1>4, <1>5

\* The chain from any leaf is this leaf and those behind it.
LEMMA ChainOfTree ==
  ASSUME NEW st \in Seq(Nodes), NEW ids, NEW es, Ordered(es), LeavesAre(st, ids, es)
  PROVE  /\ \A k \in 1 .. Len(ids) : Chain(st, ids[k]) = SubSeq(ids, k, Len(ids))
         /\ Chain(st, ids[1]) = ids
<1> DEFINE n == Len(ids)
<1>1. ids \in Seq(Nat) /\ n \in Nat /\ n >= 1
  BY LeafFacts
<1>2. \A i \in 1 .. n : IsLeaf(st, ids[i]) /\ Node(st, ids[i]).next = NextOf(ids, i)
  BY LeafFacts
<1>3. \A i, j \in 1 .. n : ids[i] = ids[j] => i = j
  BY DEF LeavesAre
<1>4. ASSUME NEW k \in 1 .. n PROVE Chain(st, ids[k]) = SubSeq(ids, k, n)
  <2> DEFINE c == SubSeq(ids, k, n)
             m == n - k + 1
  <2>1. m \in Nat /\ m >= 1 /\ k \in Nat
    BY <1>1
  <2>2. c \in Seq(Nat) /\ Len(c) = m /\ \A i \in 1 .. m : c[i] = ids[k + i - 1]
    <3>1. k \in 1 .. n + 1 /\ n \in k - 1 .. n
      BY <1>1
    <3> QED
      BY <1>1, <3>1, PartOfSeq
  <2>3. \A i \in 1 .. m : k + i - 1 \in 1 .. n
    BY <1>1, <2>1
  <2> HIDE DEF c
  <2>4. c # <<>>
    BY <2>1, <2>2, EmptySeq
  <2>5. ASSUME NEW i \in 1 .. m PROVE NextOf(c, i) = NextOf(ids, k + i - 1)
    <3>1. CASE i < m
      <4>1. i + 1 \in 1 .. m /\ k + (i + 1) - 1 = k + i - 1 + 1 /\ k + i - 1 < n
        BY <1>1, <2>1, <3>1
      <4>2. c[i + 1] = ids[k + i - 1 + 1]
        BY <2>2, <4>1
      <4> QED
        BY <2>2, <3>1, <4>1, <4>2 DEF NextOf
    <3>2. CASE ~(i < m)
      <4>1. ~(k + i - 1 < n)
        BY <1>1, <2>1, <3>2
      <4> QED
        BY <2>2, <3>2, <4>1 DEF NextOf
    <3> QED
      BY <3>1, <3>2
  <2>6. \A i \in 1 .. m : IsLeaf(st, c[i]) /\ Node(st, c[i]).next = NextOf(c, i)
    BY <1>2, <2>2, <2>3, <2>5
  <2>7. ASSUME NEW i \in 1 .. m, NEW j \in 1 .. m, c[i] = c[j] PROVE i = j
    <3>1. ids[k + i - 1] = ids[k + j - 1] /\ k + i - 1 \in 1 .. n /\ k + j - 1 \in 1 .. n
      BY <2>2, <2>3, <2>7
    <3>2. k + i - 1 = k + j - 1
      BY <1>3, <3>1
    <3> QED
      BY <2>1, <3>2
  <2>8. Linked(st, c, Nil)
    BY <2>2, <2>4, <2>6, <2>7 DEF Linked, NextOf, NextOr
  <2>9. Chain(st, c[1]) = c
    BY <2>8, ChainIsLinked
  <2>10. c[1] = ids[k]
    <3>1. 1 \in 1 .. m /\ k + 1 - 1 = k
      BY <2>1
    <3> QED
      BY <2>2, <3>1
  <2> QED
    BY <2>9, <2>10 DEF c
<1>5. Chain(st, ids[1]) = ids
  <2>1. 1 \in 1 .. n
    BY <1>1
  <2>2. SubSeq(ids, 1, n) = ids
    BY <1>1, SubSeqFull
  <2> QED
    BY <1>4, <2>1, <2>2
<1> QED
  BY <1>4, <1>5

\* Its leaves hold the tree's entries.
LEMMA ContentsOfTree ==
  ASSUME NEW st \in Seq(Nodes), NEW ids, NEW es, Ordered(es), LeavesAre(st, ids, es)
  PROVE  Contents(st, ids[1]) = AllOf(es)
<1>1. Chain(st, ids[1]) = ids
  BY ChainOfTree
<1>2. DOMAIN ids = 1 .. Len(ids) /\ Len(es) = Len(ids)
      /\ \A i \in 1 .. Len(ids) : Entries(st, ids[i]) = es[i]
  BY LeafFacts
<1>3. ToSet(ids) = {ids[i] : i \in 1 .. Len(ids)}
  BY <1>2 DEF ToSet
<1>4. Contents(st, ids[1]) = UNION {Entries(st, id) : id \in {ids[i] : i \in 1 .. Len(ids)}}
  BY <1>1, <1>3 DEF Contents
<1>5. ASSUME NEW e PROVE e \in Contents(st, ids[1]) <=> \E i \in 1 .. Len(ids) : e \in Entries(st, ids[i])
  BY <1>4
<1>6. ASSUME NEW e PROVE e \in AllOf(es) <=> \E i \in 1 .. Len(ids) : e \in es[i]
  BY <1>2 DEF AllOf
<1> QED
  BY <1>2, <1>5, <1>6

\* The last leaf has no next.
LEMMA LastLeaf ==
  ASSUME NEW st, NEW ids, NEW es, Ordered(es), LeavesAre(st, ids, es)
  PROVE  Node(st, Last(ids)).next = Nil
<1> DEFINE n == Len(ids)
<1>1. n \in Nat /\ n >= 1 /\ \A i \in 1 .. n : Node(st, ids[i]).next = NextOf(ids, i)
  BY LeafFacts
<1>2. n \in 1 .. n /\ ~(n < n)
  BY <1>1
<1> QED
  BY <1>1, <1>2 DEF Last, NextOf

\* validate_tree accepts it.
LEMMA TreeIsValid ==
  ASSUME NEW st \in Seq(Nodes), NEW h, NEW ids, NEW es, TreeAt(st, h, ids, es)
  PROVE  TreeValid(st, h)
<1> DEFINE n == Len(ids)
<1>1. Ordered(es) /\ LeavesAre(st, ids, es) /\ h.first = ids[1] /\ RootIs(st, h, ids, es)
  BY DEF TreeAt
<1>2. /\ ids # <<>> /\ n \in Nat /\ n >= 1 /\ Len(es) = n /\ DOMAIN ids = 1 .. n
      /\ \A i \in 1 .. n : es[i] \in EntrySets /\ Entries(st, ids[i]) = es[i]
  BY <1>1, LeafFacts
<1>3. Chain(st, h.first) = ids
  BY <1>1, ChainOfTree
<1>4. \A i \in 1 .. n : es[i] = {} => n = 1
  BY <1>1, <1>2 DEF Ordered
<1>5. ASSUME NEW i \in 1 .. n, i > 1 PROVE Less(High(es[i - 1]), Low(es[i]))
  <2>1. i - 1 \in 1 .. n /\ i - 1 < i /\ n # 1
    BY <1>2, <1>5
  <2>2. es[i - 1] # {} /\ es[i] # {} /\ es[i - 1] \in EntrySets /\ es[i] \in EntrySets
    BY <1>2, <1>4, <2>1
  <2>3. High(es[i - 1]) \in es[i - 1] /\ Low(es[i]) \in es[i]
    BY <2>2, EntrySetFacts, Extremes
  <2> QED
    BY <1>1, <1>2, <2>1, <2>3 DEF Ordered
<1>6. ChainValid(st, h.first)
  <2>1. Node(st, Last(ids)).next = Nil
    BY <1>1, LastLeaf
  <2>2. \A i \in DOMAIN ids : Entries(st, ids[i]) = {} => Len(ids) = 1
    BY <1>2, <1>4
  <2>3. ASSUME NEW i \in DOMAIN ids, i > 1 PROVE Less(High(Entries(st, ids[i - 1])), Low(Entries(st, ids[i])))
    <3>1. i \in 1 .. n /\ i - 1 \in 1 .. n
      BY <1>2, <2>3
    <3> QED
      BY <1>2, <1>5, <2>3, <3>1
  <2> QED
    BY <1>2, <1>3, <2>1, <2>2, <2>3 DEF ChainValid
<1>7. CASE h.height = 1
  <2>1. Len(ids) = 1 /\ h.root = ids[1]
    BY <1>1, <1>7 DEF RootIs
  <2> QED
    BY <1>1, <1>3, <1>6, <1>7, <2>1 DEF TreeValid
<1>8. CASE h.height # 1
  <2>1. h.height = 2 /\ n >= 2 /\ Node(st, h.root) = Internal(Separators(ids, es))
    BY <1>1, <1>8 DEF RootIs
  <2>2. Node(st, h.root).kind = "internal" /\ Node(st, h.root).children = Separators(ids, es)
    BY <2>1, NodeKinds
  <2>3. Len(Separators(ids, es)) = n
    BY <1>2 DEF Separators
  <2>4. ASSUME NEW i \in DOMAIN ids
        PROVE  /\ Entries(st, ids[i]) # {}
               /\ Node(st, h.root).children[i] = Child(High(Entries(st, ids[i])), ids[i])
    BY <1>2, <1>4, <2>1, <2>2 DEF Separators
  <2> QED
    BY <1>3, <1>6, <1>8, <2>2, <2>3, <2>4 DEF TreeValid
<1> QED
  BY <1>7, <1>8

\* The header says what the handle says.
LEMMA OpenedIsHandle ==
  ASSUME NEW st, NEW h, NEW ids, NEW es, TreeAt(st, h, ids, es)
  PROVE  Opened(Node(st, HeaderId)) = h
<1>1. h \in Handles /\ Node(st, HeaderId) = Header(h.height, h.root, h.first)
  BY DEF TreeAt
<1>2. h = [height |-> h.height, root |-> h.root, first |-> h.first]
  BY <1>1 DEF Handles
<1> QED
  BY <1>1, <1>2, NodeKinds DEF Opened

\* Every record is reachable.
LEMMA NothingElse ==
  ASSUME NEW st \in Seq(Nodes), NEW h, NEW ids, NEW es, TreeAt(st, h, ids, es), Whole(st, h, ids)
  PROVE  {id \in DOMAIN st : Node(st, id) # Dead} = {HeaderId, h.root} \cup ToSet(Chain(st, h.first))
<1>1. Ordered(es) /\ LeavesAre(st, ids, es) /\ h.first = ids[1] /\ RootIs(st, h, ids, es)
      /\ Node(st, HeaderId) = Header(h.height, h.root, h.first)
      /\ \A id : Node(st, id) # Dead => id = HeaderId \/ id = h.root \/ \E i \in 1 .. Len(ids) : id = ids[i]
  BY DEF TreeAt, Whole, Outside
<1>2. Chain(st, h.first) = ids
  BY <1>1, ChainOfTree
<1>3. DOMAIN ids = 1 .. Len(ids) /\ 1 \in 1 .. Len(ids) /\ \A i \in 1 .. Len(ids) : Node(st, ids[i]) # Dead
  BY <1>1, LeafFacts
<1>4. \A id : id \in ToSet(ids) <=> \E i \in 1 .. Len(ids) : id = ids[i]
  BY <1>3 DEF ToSet
<1>5. Node(st, HeaderId) # Dead
  BY <1>1, NodeKinds
<1>6. Node(st, h.root) # Dead
  <2>1. CASE h.root = ids[1]
    BY <1>3, <2>1
  <2>2. CASE h.root # ids[1]
    BY <1>1, <2>2, NodeKinds DEF RootIs
  <2> QED
    BY <2>1, <2>2
<1>7. \A id : Node(st, id) # Dead => id \in DOMAIN st
  BY NodeFacts
<1>8. ASSUME NEW id
      PROVE  id \in {j \in DOMAIN st : Node(st, j) # Dead} <=> id \in {HeaderId, h.root} \cup ToSet(ids)
  BY <1>1, <1>3, <1>4, <1>5, <1>6, <1>7
<1> QED
  BY <1>2, <1>8

-----------------------------------------------------------------------------
(***************************************************************************)
(* Routing and lookups.                                                    *)
(***************************************************************************)

\* An entry of the tree is an entry of one of its leaves.
LEMMA AllOfMeaning ==
  ASSUME NEW es
  PROVE  \A e : e \in AllOf(es) <=> \E i \in 1 .. Len(es) : e \in es[i]
BY DEF AllOf

\* The children of the root name the leaves and their last entries.
LEMMA SeparatorFacts ==
  ASSUME NEW st, NEW ids, NEW es, Ordered(es), LeavesAre(st, ids, es)
  PROVE  /\ Len(Separators(ids, es)) = Len(ids) /\ DOMAIN Separators(ids, es) = 1 .. Len(ids)
         /\ \A i \in 1 .. Len(ids) : /\ Separators(ids, es)[i] = Child(High(es[i]), ids[i])
                                     /\ Separators(ids, es)[i].high = High(es[i])
                                     /\ Separators(ids, es)[i].id = ids[i]
         /\ Len(ids) \in 2 .. InternalCapacity => Separators(ids, es) \in Roots
<1> DEFINE n == Len(ids)
           seps == Separators(ids, es)
           Kids == [high : Universe, id : Nat]
<1>1. /\ n \in Nat /\ Len(es) = n
      /\ \A i \in 1 .. n : ids[i] \in Nat /\ es[i] \in EntrySets
  BY LeafFacts
<1>2. DOMAIN seps = 1 .. n /\ seps = [i \in 1 .. n |-> Child(High(es[i]), ids[i])]
      /\ \A i \in 1 .. n : seps[i] = Child(High(es[i]), ids[i])
  BY DEF Separators
<1>3. \A i \in 1 .. n : seps[i].high = High(es[i]) /\ seps[i].id = ids[i]
  BY <1>2 DEF Child
<1>4. Len(seps) = n
  BY <1>1, <1>2
<1>5. ASSUME n \in 2 .. InternalCapacity PROVE seps \in Roots
  <2>1. ASSUME NEW i \in 1 .. n PROVE seps[i] \in Kids
    <3>1. n > 1 /\ n \in Nat
      BY <1>1, <1>5
    <3>2. es[i] # {} /\ es[i] \in EntrySets
      BY <1>1, <3>1 DEF Ordered
    <3>3. High(es[i]) \in es[i] /\ es[i] \in SUBSET Universe
      BY <3>2, EntrySetFacts, Extremes
    <3>4. High(es[i]) \in Universe /\ ids[i] \in Nat
      BY <1>1, <3>3
    <3> QED
      BY <1>2, <3>4 DEF Child
  <2>2. seps \in [1 .. n -> Kids]
    BY <1>2, <2>1
  <2>3. seps \in Seq(Kids)
    BY <1>1, <2>2, SeqDef
  <2> QED
    BY <1>4, <1>5, <2>3 DEF Roots
<1> QED
  BY <1>2, <1>3, <1>4, <1>5

\* Routing goes to the first candidate, or to the last child.
LEMMA RouteFacts ==
  ASSUME NEW children, NEW candidates \in SUBSET (1 .. Len(children)), Len(children) \in Nat, Len(children) >= 1
  PROVE  /\ Route(children, candidates) \in 1 .. Len(children)
         /\ candidates = {} => Route(children, candidates) = Len(children)
         /\ candidates # {} => /\ Route(children, candidates) \in candidates
                               /\ \A j \in candidates : Route(children, candidates) <= j
<1>1. CASE candidates = {}
  BY <1>1 DEF Route
<1>2. CASE candidates # {}
  <2>1. candidates \in SUBSET Nat
    OBVIOUS
  <2>2. Min(candidates) \in candidates /\ \A j \in candidates : Min(candidates) <= j
    BY <1>2, <2>1, MinIsLeast
  <2>3. Route(children, candidates) = Min(candidates)
    BY <1>2 DEF Route
  <2> QED
    BY <1>2, <2>2, <2>3
<1> QED
  BY <1>1, <1>2

\* What is in no leaf in front of the one a key routes to: an entry with this key or a
\* greater one.
LEMMA RoutedKey ==
  ASSUME NEW st, NEW ids, NEW es, Ordered(es), LeavesAre(st, ids, es), Len(ids) > 1, NEW key \in Int
  PROVE  LET k == RouteKey(Separators(ids, es), key) IN
         k \in 1 .. Len(ids) /\ \A j \in 1 .. Len(ids) : \A e : j < k /\ e \in es[j] => e[1] < key
<1> DEFINE n == Len(ids)
           seps == Separators(ids, es)
           candidates == {i \in DOMAIN seps : seps[i].high[1] >= key}
           k == Route(seps, candidates)
<1>1. n \in Nat /\ n > 1 /\ Len(es) = n /\ \A i \in 1 .. n : es[i] \in EntrySets
  BY LeafFacts
<1>2. Len(seps) = n /\ DOMAIN seps = 1 .. n /\ \A i \in 1 .. n : seps[i].high = High(es[i])
  BY SeparatorFacts
<1>3. \A i : i \in candidates <=> i \in 1 .. n /\ High(es[i])[1] >= key
  BY <1>2
<1>4. RouteKey(seps, key) = k
  BY DEF RouteKey
<1> HIDE DEF candidates, seps
<1>5. /\ k \in 1 .. n
      /\ candidates # {} => \A j \in candidates : k <= j
      /\ candidates = {} => k = n
  BY <1>1, <1>2, <1>3, RouteFacts
<1> HIDE DEF k
<1>6. ASSUME NEW j \in 1 .. n, j < k, NEW e \in es[j] PROVE e[1] < key
  <2>1. es[j] # {} /\ es[j] \in EntrySets
    BY <1>1
  <2>2. es[j] \in SUBSET Pairs /\ High(es[j]) \in es[j] /\ (e = High(es[j]) \/ Less(e, High(es[j])))
    BY <2>1, EntrySetFacts, Extremes
  <2>3. e \in Pairs /\ High(es[j]) \in Pairs
    BY <2>2
  <2>4. e[1] \in Int /\ High(es[j])[1] \in Int /\ e[1] <= High(es[j])[1]
    BY <2>2, <2>3, LessOrder DEF Pairs
  <2>5. j \notin candidates
    BY <1>1, <1>5, <1>6
  <2>6. ~(High(es[j])[1] >= key)
    BY <1>3, <2>5
  <2> QED
    BY <2>4, <2>6
<1> QED
  BY <1>4, <1>5, <1>6 DEF seps

\* The same for an entry: those in front of its leaf are less, those behind it are greater.
LEMMA RoutedEntry ==
  ASSUME NEW st, NEW ids, NEW es, Ordered(es), LeavesAre(st, ids, es), Len(ids) > 1, NEW e \in Pairs
  PROVE  LET k == RouteEntry(Separators(ids, es), e) IN
         /\ k \in 1 .. Len(ids)
         /\ \A j \in 1 .. Len(ids) : \A f : j < k /\ f \in es[j] => Less(f, e)
         /\ \A j \in 1 .. Len(ids) : \A f : j > k /\ f \in es[j] => Less(e, f)
<1> DEFINE n == Len(ids)
           seps == Separators(ids, es)
           candidates == {i \in DOMAIN seps : ~Less(seps[i].high, e)}
           k == Route(seps, candidates)
<1>1. n \in Nat /\ n > 1 /\ Len(es) = n /\ \A i \in 1 .. n : es[i] \in EntrySets
  BY LeafFacts
<1>2. Len(seps) = n /\ DOMAIN seps = 1 .. n /\ \A i \in 1 .. n : seps[i].high = High(es[i])
  BY SeparatorFacts
<1>3. \A i : i \in candidates <=> i \in 1 .. n /\ ~Less(High(es[i]), e)
  BY <1>2
<1>4. RouteEntry(seps, e) = k
  BY DEF RouteEntry
<1> HIDE DEF candidates, seps
<1>5. /\ k \in 1 .. n
      /\ candidates # {} => k \in candidates /\ \A j \in candidates : k <= j
      /\ candidates = {} => k = n
  BY <1>1, <1>2, <1>3, RouteFacts
<1> HIDE DEF k
<1>6. ASSUME NEW j \in 1 .. n
      PROVE  /\ es[j] \in SUBSET Pairs /\ (es[j] # {} => High(es[j]) \in es[j])
             /\ \A f \in es[j] : f = High(es[j]) \/ Less(f, High(es[j]))
  <2>1. es[j] \in SUBSET Pairs /\ IsFiniteSet(es[j])
    BY <1>1, EntrySetFacts
  <2> QED
    BY <2>1, Extremes
<1>7. ASSUME NEW j \in 1 .. n, j < k, NEW f \in es[j] PROVE Less(f, e)
  <2>1. j \notin candidates
    BY <1>1, <1>5, <1>7
  <2>2. Less(High(es[j]), e)
    BY <1>3, <2>1
  <2>3. f \in Pairs /\ High(es[j]) \in Pairs /\ (f = High(es[j]) \/ Less(f, High(es[j])))
    BY <1>6
  <2> QED
    BY <2>2, <2>3, LessOrder
<1>8. ASSUME NEW j \in 1 .. n, j > k, NEW f \in es[j] PROVE Less(e, f)
  <2>1. k # n /\ k \in candidates
    BY <1>1, <1>5, <1>8
  <2>2. ~Less(High(es[k]), e) /\ k \in 1 .. n
    BY <1>3, <2>1
  <2>3. es[k] # {}
    BY <1>1, <2>2 DEF Ordered
  <2>4. High(es[k]) \in es[k] /\ High(es[k]) \in Pairs /\ f \in Pairs
    BY <1>6, <2>2, <2>3
  <2>5. Less(High(es[k]), f)
    BY <1>1, <1>8, <2>2, <2>4 DEF Ordered
  <2> QED
    BY <2>2, <2>4, <2>5, LessOrder
<1> QED
  BY <1>4, <1>5, <1>7, <1>8 DEF seps

\* Children are the separators.
LEMMA ChildrenAre ==
  ASSUME NEW ids, NEW es, TreeAt(store, handle, ids, es)
  PROVE  /\ handle.height \in {1, 2}
         /\ handle.height = 2 <=> Len(ids) > 1
         /\ handle.height = 2 => Children = Separators(ids, es)
         /\ handle.height = 1 => Len(ids) = 1 /\ handle.root = ids[1]
         /\ handle.first = ids[1] /\ Ordered(es) /\ LeavesAre(store, ids, es)
<1>1. /\ handle \in Handles /\ RootIs(store, handle, ids, es)
      /\ handle.first = ids[1] /\ Ordered(es) /\ LeavesAre(store, ids, es)
  BY DEF TreeAt
<1>2. handle.height \in {1, 2}
  BY <1>1 DEF Handles
<1>3. CASE handle.height = 1
  <2>1. Len(ids) = 1 /\ handle.root = ids[1]
    BY <1>1, <1>3 DEF RootIs
  <2>2. ~(Len(ids) > 1) /\ handle.height # 2
    BY <1>3, <2>1
  <2> QED
    BY <1>1, <1>2, <1>3, <2>1, <2>2
<1>4. CASE handle.height = 2
  <2>1. Len(ids) \in 2 .. InternalCapacity /\ Node(store, handle.root) = Internal(Separators(ids, es))
    BY <1>1, <1>4 DEF RootIs
  <2>2. Children = Separators(ids, es)
    BY <2>1, NodeKinds DEF Children
  <2>3. Len(ids) > 1
    BY <2>1
  <2> QED
    BY <1>1, <1>2, <1>4, <2>2, <2>3
<1> QED
  BY <1>2, <1>3, <1>4

\* find and range start at a leaf in front of which no entry has the key or a greater one.
LEMMA LookupStarts ==
  ASSUME NEW ids, NEW es, TreeAt(store, handle, ids, es), NEW key \in Int
  PROVE  /\ \E k \in 1 .. Len(ids) :
              FindFrom(key) = ids[k] /\ \A j \in 1 .. Len(ids) : \A e : j < k /\ e \in es[j] => e[1] < key
         /\ \E k \in 1 .. Len(ids) :
              RangeFrom({key}) = ids[k] /\ \A j \in 1 .. Len(ids) : \A e : j < k /\ e \in es[j] => e[1] < key
<1>1. /\ handle.height \in {1, 2} /\ handle.first = ids[1] /\ Ordered(es) /\ LeavesAre(store, ids, es)
      /\ handle.height = 2 => Len(ids) > 1 /\ Children = Separators(ids, es)
      /\ handle.height = 1 => Len(ids) = 1 /\ handle.root = ids[1]
  BY ChildrenAre
<1>2. CASE handle.height = 1
  <2>1. FindFrom(key) = ids[1] /\ RangeFrom({key}) = ids[1]
    BY <1>1, <1>2 DEF FindFrom, RangeFrom
  <2>2. 1 \in 1 .. Len(ids) /\ \A j \in 1 .. Len(ids) : ~(j < 1)
    <3>1. Len(ids) \in Nat /\ Len(ids) >= 1
      BY <1>1, LeafFacts
    <3> QED
      BY <3>1
  <2> QED
    BY <2>1, <2>2
<1>3. CASE handle.height = 2
  <2> DEFINE seps == Separators(ids, es)
             k == RouteKey(seps, key)
  <2>1. k \in 1 .. Len(ids) /\ \A j \in 1 .. Len(ids) : \A e : j < k /\ e \in es[j] => e[1] < key
    BY <1>1, <1>3, RoutedKey
  <2>2. seps[k].id = ids[k]
    BY <1>1, <2>1, SeparatorFacts
  <2>3. FindFrom(key) = seps[k].id
    BY <1>1, <1>3 DEF FindFrom
  <2>4. (CHOOSE x \in {key} : TRUE) = key /\ {key} # Absent
    BY DEF Absent
  <2>5. RangeFrom({key}) = seps[k].id
    BY <1>1, <1>3, <2>4 DEF RangeFrom
  <2> HIDE DEF k
  <2> QED
    BY <2>1, <2>2, <2>3, <2>5
<1> QED
  BY <1>1, <1>2, <1>3

\* The entries of leaf k and those behind it.
LEMMA LeavesBehind ==
  ASSUME store \in Seq(Nodes), NEW ids, NEW es, Ordered(es), LeavesAre(store, ids, es), NEW k \in 1 .. Len(ids)
  PROVE  \A e : e \in Leaves(Chain(store, ids[k])) <=> \E j \in k .. Len(ids) : e \in es[j]
<1> DEFINE n == Len(ids)
           c == Chain(store, ids[k])
<1>1. ids \in Seq(Nat) /\ n \in Nat /\ \A i \in 1 .. n : Entries(store, ids[i]) = es[i]
  BY LeafFacts
<1>2. c = SubSeq(ids, k, n)
  BY ChainOfTree
<1>3. /\ DOMAIN SubSeq(ids, k, n) = 1 .. n - k + 1
      /\ \A i \in 1 .. n - k + 1 : SubSeq(ids, k, n)[i] = ids[k + i - 1]
  <2>1. k \in 1 .. n + 1 /\ n \in k - 1 .. n
    BY <1>1
  <2> QED
    BY <1>1, <2>1, PartOfSeq
<1>4. DOMAIN c = 1 .. n - k + 1 /\ \A i \in 1 .. n - k + 1 : c[i] = ids[k + i - 1]
  BY <1>2, <1>3
<1> HIDE DEF c
<1>5. \A e : e \in Leaves(c) <=> \E i \in 1 .. n - k + 1 : e \in Entries(store, c[i])
  BY <1>4 DEF Leaves, ToSet
<1>6. ASSUME NEW e, NEW i \in 1 .. n - k + 1, e \in Entries(store, c[i])
      PROVE  \E j \in k .. n : e \in es[j]
  <2>1. k + i - 1 \in k .. n /\ k + i - 1 \in 1 .. n
    BY <1>1
  <2>2. Entries(store, c[i]) = es[k + i - 1]
    BY <1>1, <1>4, <2>1
  <2> QED
    BY <1>6, <2>1, <2>2
<1>7. ASSUME NEW e, NEW j \in k .. n, e \in es[j]
      PROVE  \E i \in 1 .. n - k + 1 : e \in Entries(store, c[i])
  <2>1. j - k + 1 \in 1 .. n - k + 1 /\ k + (j - k + 1) - 1 = j /\ j \in 1 .. n
    BY <1>1
  <2>2. Entries(store, c[j - k + 1]) = es[j]
    BY <1>1, <1>4, <2>1
  <2> QED
    BY <1>7, <2>1, <2>2
<1> QED
  BY <1>5, <1>6, <1>7 DEF c

\* Listed, step by step, as the function it chooses.
ListStep(ids, list, n) == IF n = 0 THEN <<>> ELSE list[n - 1] \o Sorted(Entries(store, ids[n]))
List(ids) == CHOOSE list : list = [n \in 0 .. Len(ids) |-> ListStep(ids, list, n)]

LEMMA ListedIsList ==
  ASSUME NEW ids
  PROVE  Listed(ids) = List(ids)[Len(ids)]
BY Zenon DEF Listed, List, ListStep

\* Leaves in order list their entries in order.
LEMMA ListedIsSorted ==
  ASSUME NEW ids \in Seq(Nat), \A i \in 1 .. Len(ids) : Entries(store, ids[i]) \in EntrySets,
         \A i, j \in 1 .. Len(ids) : i < j =>
            \A e \in Entries(store, ids[i]), f \in Entries(store, ids[j]) : Less(e, f)
  PROVE  /\ Listed(ids) = Sorted(Leaves(ids))
         /\ Leaves(ids) \in SUBSET Pairs /\ IsFiniteSet(Leaves(ids))
<1> DEFINE m == Len(ids)
           E(i) == Entries(store, ids[i])
           First(n) == UNION {E(i) : i \in 1 .. n}
           g == [n \in 0 .. m |-> Sorted(First(n))]
           p == List(ids)
<1>1. m \in Nat /\ DOMAIN ids = 1 .. m
  BY LenProperties
<1>2. \A i \in 1 .. m : E(i) \in SUBSET Pairs /\ IsFiniteSet(E(i))
  BY EntrySetFacts
<1>3. \A i, j \in 1 .. m : i < j => \A e \in E(i), f \in E(j) : Less(e, f)
  OBVIOUS
<1>4. Leaves(ids) = First(m)
  BY <1>1 DEF Leaves, ToSet
<1> HIDE DEF E, m
<1>5. First(0) = {}
  <2>1. 1 .. 0 = {}
    OBVIOUS
  <2> QED
    BY <2>1
<1>6. ASSUME NEW n \in 1 .. m PROVE First(n) = First(n - 1) \cup E(n) /\ n - 1 \in 0 .. m /\ n - 1 \in Nat
  <2>1. 1 .. n = (1 .. n - 1) \cup {n} /\ n - 1 \in 0 .. m /\ n - 1 \in Nat
    BY <1>1
  <2>2. \A e : e \in First(n) <=> \E i \in 1 .. n : e \in E(i)
    OBVIOUS
  <2>3. \A e : e \in First(n - 1) <=> \E i \in 1 .. n - 1 : e \in E(i)
    OBVIOUS
  <2> HIDE DEF First
  <2>4. \A e : e \in First(n) <=> e \in First(n - 1) \/ e \in E(n)
    BY <2>1, <2>2, <2>3
  <2> QED
    BY <2>1, <2>4
<1>7. ASSUME NEW n \in 1 .. m
      PROVE  \A e \in First(n - 1), f \in E(n) : Less(e, f)
  <2>1. \A i \in 1 .. n - 1 : i \in 1 .. m /\ i < n
    BY <1>1
  <2>2. \A e : e \in First(n - 1) <=> \E i \in 1 .. n - 1 : e \in E(i)
    OBVIOUS
  <2> HIDE DEF First
  <2> QED
    BY <1>3, <2>1, <2>2
<1>8. \A n \in 0 .. m : First(n) \in SUBSET Pairs
  <2>1. ASSUME NEW n \in 0 .. m, NEW e \in First(n) PROVE e \in Pairs
    <3>1. PICK i \in 1 .. n : e \in E(i)
      BY <2>1
    <3>2. i \in 1 .. m
      BY <1>1
    <3> QED
      BY <1>2, <3>1, <3>2
  <2> QED
    BY <2>1
<1> HIDE DEF First
<1>9. \A n \in 0 .. m : IsFiniteSet(First(n))
  <2> DEFINE D == {n \in Nat : n \in 0 .. m /\ ~IsFiniteSet(First(n))}
  <2>1. ASSUME D # {} PROVE FALSE
    <3>1. PICK n \in D : \A k \in D : n <= k
      <4>1. D \in SUBSET Nat
        OBVIOUS
      <4> HIDE DEF D
      <4> QED
        BY <2>1, <4>1, MinIsLeast
    <3>2. n # 0
      BY <1>5, FS_EmptySet
    <3>3. n \in 1 .. m
      BY <1>1, <3>2
    <3>4. n - 1 \in 0 .. m /\ n - 1 \in Nat /\ ~(n <= n - 1)
      BY <1>6, <3>3
    <3>5. IsFiniteSet(First(n - 1))
      BY <3>1, <3>4
    <3>6. IsFiniteSet(First(n - 1) \cup E(n))
      BY <1>2, <3>3, <3>5, FS_Union
    <3> QED
      BY <1>6, <3>3, <3>6
  <2>2. \A n \in 0 .. m : n \in Nat
    BY <1>1
  <2> QED
    BY <2>1, <2>2
<1>10. \A n \in 0 .. m : g[n] = Sorted(First(n))
  OBVIOUS
<1>11. ASSUME NEW n \in 0 .. m PROVE Sorted(First(n)) = ListStep(ids, g, n)
  <2>1. CASE n = 0
    BY <1>5, <2>1, SortedEmpty DEF ListStep
  <2>2. CASE n # 0
    <3>1. n \in 1 .. m
      BY <1>1, <2>2
    <3>2. /\ First(n) = First(n - 1) \cup E(n) /\ n - 1 \in 0 .. m
          /\ \A e \in First(n - 1), f \in E(n) : Less(e, f)
      BY <1>6, <1>7, <3>1
    <3>3. First(n - 1) \in SUBSET Pairs /\ IsFiniteSet(First(n - 1)) /\ E(n) \in SUBSET Pairs /\ IsFiniteSet(E(n))
      BY <1>2, <1>8, <1>9, <3>1, <3>2
    <3>4. Sorted(First(n - 1) \cup E(n)) = Sorted(First(n - 1)) \o Sorted(E(n))
      BY <3>2, <3>3, SortedJoined
    <3>5. ListStep(ids, g, n) = g[n - 1] \o Sorted(E(n))
      BY <2>2, Zenon DEF ListStep, E
    <3> QED
      BY <1>10, <3>2, <3>4, <3>5
  <2> QED
    BY <2>1, <2>2
<1>12. g = [n \in 0 .. m |-> ListStep(ids, g, n)]
  <2>1. g = [n \in 0 .. m |-> Sorted(First(n))]
    OBVIOUS
  <2> HIDE DEF g
  <2>2. \A n \in 0 .. m : Sorted(First(n)) = ListStep(ids, g, n)
    BY <1>11 DEF g
  <2> QED
    BY <2>1, <2>2, Zenon
<1> HIDE DEF g
<1>13. p = [n \in 0 .. m |-> ListStep(ids, p, n)]
  BY <1>12, Zenon DEF List, m
<1> HIDE DEF p
<1>14. \A n \in 0 .. m : p[n] = ListStep(ids, p, n) /\ g[n] = ListStep(ids, g, n)
  <2>1. \A n \in 0 .. m : p[n] = ListStep(ids, p, n)
    BY <1>13, Zenon
  <2>2. \A n \in 0 .. m : g[n] = ListStep(ids, g, n)
    BY <1>12, Zenon
  <2> QED
    BY <2>1, <2>2
<1>15. \A n \in 0 .. m : p[n] = g[n]
  <2> DEFINE D == {n \in Nat : n \in 0 .. m /\ p[n] # g[n]}
  <2>1. ASSUME D # {} PROVE FALSE
    <3>1. PICK n \in D : \A k \in D : n <= k
      <4>1. D \in SUBSET Nat
        OBVIOUS
      <4> HIDE DEF D
      <4> QED
        BY <2>1, <4>1, MinIsLeast
    <3>2. n \in 0 .. m /\ p[n] # g[n]
      OBVIOUS
    <3>3. n # 0
      <4>1. ASSUME n = 0 PROVE p[n] = g[n]
        <5>1. ListStep(ids, p, n) = <<>> /\ ListStep(ids, g, n) = <<>>
          BY <4>1 DEF ListStep
        <5> QED
          BY <1>14, <3>2, <5>1
      <4> QED
        BY <3>2, <4>1
    <3>4. n - 1 \in 0 .. m /\ n - 1 \in Nat /\ ~(n <= n - 1)
      BY <1>1, <3>2, <3>3
    <3>5. p[n - 1] = g[n - 1]
      BY <3>1, <3>4
    <3>6. ListStep(ids, p, n) = ListStep(ids, g, n)
      BY <3>3, <3>5, Zenon DEF ListStep
    <3> QED
      BY <1>14, <3>2, <3>6
  <2>2. \A n \in 0 .. m : n \in Nat
    BY <1>1
  <2> QED
    BY <2>1, <2>2
<1>16. m \in 0 .. m
  BY <1>1
<1>17. Listed(ids) = p[m]
  BY ListedIsList DEF p, m
<1>18. Listed(ids) = Sorted(First(m))
  BY <1>10, <1>15, <1>16, <1>17
<1> QED
  BY <1>4, <1>8, <1>9, <1>16, <1>18

\* What Take leaves of a sequence that is short enough, and of one that goes on.
IsLimit(limit) == limit = Absent \/ \E k \in Nat \ {0} : limit = {k}

LEMMA TakeFacts ==
  ASSUME NEW S, NEW c \in Seq(S), NEW limit, IsLimit(limit)
  PROVE  /\ (\A k \in limit : Len(c) <= k) => Take(c, limit) = c
         /\ \A e \in S : (\E k \in limit : k <= Len(c)) => Take(Append(c, e), limit) = Take(c, limit)
<1> DEFINE n == Len(c)
<1>1. n \in Nat
  BY LenProperties
<1>2. \A m \in Nat : Min({m}) = m
  <2>1. ASSUME NEW m \in Nat PROVE Min({m}) = m
    <3>1. {m} \in SUBSET Nat /\ {m} # {}
      OBVIOUS
    <3>2. Min({m}) \in {m}
      BY <3>1, MinIsLeast
    <3> QED
      BY <3>2
  <2> QED
    BY <2>1
<1>3. ASSUME NEW m \in Nat, NEW k \in Nat
      PROVE  Min({m} \cup {k}) = IF m <= k THEN m ELSE k
  <2>1. {m} \cup {k} \in SUBSET Nat /\ {m} \cup {k} # {}
    OBVIOUS
  <2>2. Min({m} \cup {k}) \in {m} \cup {k} /\ \A y \in {m} \cup {k} : Min({m} \cup {k}) <= y
    BY <2>1, MinIsLeast
  <2>3. Min({m} \cup {k}) \in {m, k} /\ Min({m} \cup {k}) <= m /\ Min({m} \cup {k}) <= k
    BY <2>2
  <2> QED
    BY <2>3
<1>4. ASSUME \A k \in limit : n <= k PROVE Take(c, limit) = c
  <2>1. Min({n} \cup limit) = n
    <3>1. CASE limit = Absent
      <4>1. {n} \cup limit = {n}
        BY <3>1 DEF Absent
      <4> QED
        BY <1>1, <1>2, <4>1
    <3>2. CASE \E k \in Nat \ {0} : limit = {k}
      <4>1. PICK k \in Nat : limit = {k}
        BY <3>2
      <4> QED
        BY <1>1, <1>3, <1>4, <4>1
    <3> QED
      BY <3>1, <3>2 DEF IsLimit
  <2> QED
    BY <2>1, SubSeqFull DEF Take
<1>5. ASSUME NEW e \in S, \E k \in limit : k <= n PROVE Take(Append(c, e), limit) = Take(c, limit)
  <2>1. PICK k \in Nat : limit = {k} /\ k <= n
    BY <1>5 DEF IsLimit, Absent
  <2> DEFINE d == Append(c, e)
  <2>2. d \in Seq(S) /\ Len(d) = n + 1 /\ \A i \in 1 .. n : d[i] = c[i]
    BY AppendProperties
  <2> HIDE DEF d
  <2>3. Min({n} \cup limit) = k /\ Min({n + 1} \cup limit) = k
    BY <1>1, <1>3, <2>1
  <2>4. Take(c, limit) = SubSeq(c, 1, k) /\ Take(d, limit) = SubSeq(d, 1, k)
    BY <2>2, <2>3 DEF Take
  <2>5. k \in 1 - 1 .. Len(c) /\ k \in 1 - 1 .. Len(d) /\ 1 \in 1 .. Len(c) + 1 /\ 1 \in 1 .. Len(d) + 1
    BY <1>1, <2>1, <2>2
  <2>6. /\ SubSeq(c, 1, k) \in Seq(S) /\ Len(SubSeq(c, 1, k)) = k - 1 + 1
        /\ \A i \in 1 .. k - 1 + 1 : SubSeq(c, 1, k)[i] = c[1 + i - 1]
    BY <2>5, PartOfSeq
  <2>7. /\ SubSeq(d, 1, k) \in Seq(S) /\ Len(SubSeq(d, 1, k)) = k - 1 + 1
        /\ \A i \in 1 .. k - 1 + 1 : SubSeq(d, 1, k)[i] = d[1 + i - 1]
    BY <2>2, <2>5, PartOfSeq
  <2>8. \A i \in 1 .. k - 1 + 1 : i \in 1 .. n /\ 1 + i - 1 = i
    BY <1>1, <2>1
  <2>9. \A i \in 1 .. k - 1 + 1 : SubSeq(c, 1, k)[i] = SubSeq(d, 1, k)[i]
    BY <2>2, <2>6, <2>7, <2>8
  <2>10. SubSeq(c, 1, k) = SubSeq(d, 1, k)
    BY <2>6, <2>7, <2>9, SeqEqual
  <2> QED
    BY <2>4, <2>10 DEF d
<1> QED
  BY <1>4, <1>5

\* Collect, step by step, as the function it chooses.
CollectStep(met, passed, beyond, limit, walk, n) ==
  IF n = 0 THEN [found |-> <<>>, done |-> FALSE]
  ELSE LET w == walk[n - 1] IN
       IF w.done \/ met[n] \in passed THEN w
       ELSE IF met[n] \in beyond THEN [found |-> w.found, done |-> TRUE]
       ELSE [found |-> Append(w.found, met[n]), done |-> limit = {Len(w.found) + 1}]
Walk(met, passed, beyond, limit) ==
  CHOOSE walk : walk = [n \in 0 .. Len(met) |-> CollectStep(met, passed, beyond, limit, walk, n)]

LEMMA CollectIsWalk ==
  ASSUME NEW met, NEW passed, NEW beyond, NEW limit
  PROVE  Collect(met, passed, beyond, limit) = Walk(met, passed, beyond, limit)[Len(met)]
BY Zenon DEF Collect, Walk, CollectStep

\* A walk over sorted entries keeps the first of those neither passed nor beyond, if no
\* entry to be kept comes after one beyond.
LEMMA CollectTakes ==
  ASSUME NEW S \in SUBSET Pairs, IsFiniteSet(S), NEW passed, NEW beyond, NEW limit, IsLimit(limit),
         \A e, f \in S : e \in beyond /\ e \notin passed /\ Less(e, f) => f \in beyond \cup passed
  PROVE  Collect(Sorted(S), passed, beyond, limit).found = Take(Sorted(S \ (passed \cup beyond)), limit)
<1> DEFINE s == Sorted(S)
           m == Len(s)
           Got(n) == {e \in S : e \notin passed /\ e \notin beyond /\ \E i \in 1 .. n : s[i] = e}
           Kept(n) == Sorted(Got(n))
           Ended(n) == \E i \in 1 .. n : s[i] \in beyond /\ s[i] \notin passed
           Enough(n) == \E k \in limit : k <= Len(Kept(n))
           Visit(w, n) == CollectStep(s, passed, beyond, limit, w, n)
           g == [n \in 0 .. m |-> [found |-> Take(Kept(n), limit),
                                   done |-> IF Ended(n) \/ Enough(n) THEN TRUE ELSE FALSE]]
           p == Walk(s, passed, beyond, limit)
<1>1. /\ m \in Nat /\ \A i \in 1 .. m : s[i] \in S
      /\ \A i, j \in 1 .. m : i < j => Less(s[i], s[j])
      /\ \A e \in S : \E i \in 1 .. m : s[i] = e
  BY SortedIsSorted, LenProperties
<1> HIDE DEF s, m
<1>2. \A n : Got(n) \in SUBSET Pairs /\ IsFiniteSet(Got(n))
  <2>1. \A n : Got(n) \in SUBSET S
    OBVIOUS
  <2> HIDE DEF Got
  <2> QED
    BY <2>1, FS_Subset
<1>3. \A n : Kept(n) \in Seq(Pairs) /\ Len(Kept(n)) \in Nat
  <2>1. ASSUME NEW n PROVE Kept(n) \in Seq(Pairs) /\ Len(Kept(n)) \in Nat
    <3>1. Got(n) \in SUBSET Pairs /\ IsFiniteSet(Got(n))
      BY <1>2
    <3> HIDE DEF Got
    <3>2. Sorted(Got(n)) \in Seq(Got(n))
      BY <3>1, SortedIsSorted
    <3> QED
      BY <3>1, <3>2, LenProperties
  <2> QED
    BY <2>1
<1>4. ASSUME NEW n \in 1 .. m
      PROVE  /\ n - 1 \in 0 .. m /\ n - 1 \in Nat /\ s[n] \in S
             /\ \A e \in Got(n - 1) : Less(e, s[n])
             /\ s[n] \in passed \cup beyond => Got(n) = Got(n - 1)
             /\ s[n] \notin passed \cup beyond => Got(n) = Got(n - 1) \cup {s[n]}
             /\ Ended(n) <=> Ended(n - 1) \/ (s[n] \in beyond /\ s[n] \notin passed)
             /\ Ended(n - 1) => s[n] \in passed \cup beyond
  <2>1. n - 1 \in 0 .. m /\ n - 1 \in Nat /\ n \in 1 .. n
    BY <1>1
  <2>2. \A i : i \in 1 .. n <=> i \in 1 .. n - 1 \/ i = n
    BY <1>1
  <2>3. \A i \in 1 .. n - 1 : i \in 1 .. m /\ i < n
    BY <1>1
  <2>4. s[n] \in S /\ \A i \in 1 .. n - 1 : s[i] \in S /\ Less(s[i], s[n])
    BY <1>1, <2>3
  <2>5. Ended(n) <=> Ended(n - 1) \/ (s[n] \in beyond /\ s[n] \notin passed)
    BY <2>2
  <2>6. Ended(n - 1) => s[n] \in passed \cup beyond
    BY <2>4
  <2>7. \A e \in Got(n - 1) : Less(e, s[n])
    BY <2>4
  <2>8. \A e : e \in Got(n) <=> e \in Got(n - 1) \/ (e = s[n] /\ e \notin passed /\ e \notin beyond)
    BY <2>2, <2>4
  <2> HIDE DEF Got, Ended
  <2>9. s[n] \in passed \cup beyond => Got(n) = Got(n - 1)
    BY <2>8
  <2>10. s[n] \notin passed \cup beyond => Got(n) = Got(n - 1) \cup {s[n]}
    BY <2>8
  <2> QED
    BY <2>1, <2>4, <2>5, <2>6, <2>7, <2>9, <2>10
<1>5. Got(0) = {} /\ ~Ended(0)
  <2>1. 1 .. 0 = {}
    OBVIOUS
  <2> QED
    BY <2>1
<1>6. Got(m) = S \ (passed \cup beyond)
  BY <1>1
<1>7. ASSUME NEW n \in 1 .. m, s[n] \notin passed \cup beyond
      PROVE  Kept(n) = Append(Kept(n - 1), s[n]) /\ Len(Kept(n)) = Len(Kept(n - 1)) + 1 /\ s[n] \in Pairs
  <2>1. Got(n) = Got(n - 1) \cup {s[n]} /\ s[n] \in Pairs /\ \A e \in Got(n - 1) : Less(e, s[n])
    BY <1>4, <1>7
  <2>2. Got(n - 1) \in SUBSET Pairs /\ IsFiniteSet(Got(n - 1))
    BY <1>2
  <2>3. Kept(n - 1) \in Seq(Pairs)
    BY <1>3
  <2> HIDE DEF Got
  <2>4. Kept(n) = Append(Kept(n - 1), s[n])
    BY <2>1, <2>2, SortedAppended
  <2> HIDE DEF Kept
  <2> QED
    BY <2>1, <2>3, <2>4, AppendProperties
<1> HIDE DEF Got, Ended
<1>8. ASSUME NEW n \in 1 .. m, s[n] \in passed \cup beyond
      PROVE  Kept(n) = Kept(n - 1) /\ (Enough(n) <=> Enough(n - 1))
  BY <1>4, <1>8
<1>9. ASSUME NEW n \in 1 .. m, Enough(n - 1)
      PROVE  Enough(n) /\ Take(Kept(n), limit) = Take(Kept(n - 1), limit)
  <2>1. CASE s[n] \in passed \cup beyond
    BY <1>8, <1>9, <2>1
  <2>2. CASE s[n] \notin passed \cup beyond
    <3>1. Kept(n) = Append(Kept(n - 1), s[n]) /\ Len(Kept(n)) = Len(Kept(n - 1)) + 1 /\ s[n] \in Pairs
      BY <1>7, <2>2
    <3>2. Kept(n - 1) \in Seq(Pairs) /\ Len(Kept(n - 1)) \in Nat
      BY <1>3
    <3> HIDE DEF Kept
    <3>3. Take(Kept(n), limit) = Take(Kept(n - 1), limit)
      BY <1>9, <3>1, <3>2, TakeFacts
    <3>4. PICK k \in Nat : k \in limit /\ k <= Len(Kept(n - 1))
      BY <1>9 DEF IsLimit, Absent
    <3>5. k <= Len(Kept(n))
      BY <3>1, <3>2, <3>4
    <3> QED
      BY <3>3, <3>4, <3>5
  <2> QED
    BY <2>1, <2>2
<1>10. ASSUME NEW n \in 0 .. m, ~Enough(n) PROVE Take(Kept(n), limit) = Kept(n)
  <2>1. Kept(n) \in Seq(Pairs) /\ Len(Kept(n)) \in Nat
    BY <1>3
  <2> HIDE DEF Kept
  <2>2. \A k \in limit : Len(Kept(n)) <= k
    BY <1>10, <2>1 DEF IsLimit, Absent
  <2> QED
    BY <2>1, <2>2, TakeFacts
<1>11. ASSUME NEW n \in 1 .. m, ~Enough(n - 1), s[n] \notin passed \cup beyond
       PROVE  /\ Take(Kept(n), limit) = Append(Kept(n - 1), s[n])
              /\ Enough(n) <=> limit = {Len(Kept(n - 1)) + 1}
  <2>1. Kept(n) = Append(Kept(n - 1), s[n]) /\ Len(Kept(n)) = Len(Kept(n - 1)) + 1
    BY <1>7, <1>11
  <2>2. Kept(n - 1) \in Seq(Pairs) /\ Len(Kept(n - 1)) \in Nat /\ Kept(n) \in Seq(Pairs)
    BY <1>3
  <2> HIDE DEF Kept
  <2>3. \A k \in limit : k \in Nat /\ Len(Kept(n - 1)) < k
    BY <1>11, <2>2 DEF IsLimit, Absent
  <2>4. \A k \in limit : Len(Kept(n)) <= k
    BY <2>1, <2>2, <2>3
  <2>5. Take(Kept(n), limit) = Kept(n)
    BY <2>2, <2>4, TakeFacts
  <2>6. Enough(n) <=> limit = {Len(Kept(n - 1)) + 1}
    <3>1. CASE limit = Absent
      BY <3>1 DEF Absent
    <3>2. CASE limit # Absent
      <4>1. PICK k \in Nat : limit = {k}
        BY <3>2 DEF IsLimit
      <4>2. Len(Kept(n - 1)) < k
        BY <2>3, <4>1
      <4>3. Enough(n) <=> k <= Len(Kept(n - 1)) + 1
        BY <2>1, <4>1
      <4>4. k <= Len(Kept(n - 1)) + 1 <=> k = Len(Kept(n - 1)) + 1
        BY <2>2, <4>2
      <4>5. limit = {Len(Kept(n - 1)) + 1} <=> k = Len(Kept(n - 1)) + 1
        BY <4>1
      <4> QED
        BY <4>3, <4>4, <4>5
    <3> QED
      BY <3>1, <3>2
  <2> QED
    BY <2>1, <2>5, <2>6
<1>12. ~Enough(0) /\ Take(Kept(0), limit) = <<>>
  <2>1. Kept(0) = <<>>
    BY <1>5, SortedEmpty
  <2>2. Len(Kept(0)) = 0 /\ <<>> \in Seq(Pairs)
    BY <2>1
  <2> HIDE DEF Kept
  <2>3. ~Enough(0)
    BY <2>2 DEF IsLimit, Absent
  <2>4. \A k \in limit : Len(<<>>) <= k
    BY DEF IsLimit, Absent
  <2>5. Take(<<>>, limit) = <<>>
    BY <2>2, <2>4, TakeFacts
  <2> QED
    BY <2>1, <2>3, <2>5
<1> HIDE DEF Kept, Enough
<1>13. \A n \in 0 .. m : /\ g[n].found = Take(Kept(n), limit)
                         /\ g[n].done = IF Ended(n) \/ Enough(n) THEN TRUE ELSE FALSE
                         /\ g[n] = [found |-> g[n].found, done |-> g[n].done]
  OBVIOUS
<1>14. ASSUME NEW n \in 0 .. m PROVE g[n] = Visit(g, n)
  <2>1. CASE n = 0
    <3>1. Visit(g, n) = [found |-> <<>>, done |-> FALSE]
      BY <2>1 DEF CollectStep
    <3>2. g[n].found = <<>> /\ g[n].done = FALSE
      BY <1>5, <1>12, <1>13, <2>1
    <3> HIDE DEF g
    <3> QED
      BY <1>13, <3>1, <3>2
  <2>2. CASE n # 0
    <3>1. n \in 1 .. m
      BY <1>1, <2>2
    <3>2. n - 1 \in 0 .. m
      BY <1>4, <3>1
    <3> DEFINE w == g[n - 1]
    <3>3. Visit(g, n) = IF w.done \/ s[n] \in passed THEN w
                       ELSE IF s[n] \in beyond THEN [found |-> w.found, done |-> TRUE]
                       ELSE [found |-> Append(w.found, s[n]), done |-> limit = {Len(w.found) + 1}]
      BY <2>2, Zenon DEF CollectStep
    <3>4. /\ w.found = Take(Kept(n - 1), limit)
          /\ w.done = IF Ended(n - 1) \/ Enough(n - 1) THEN TRUE ELSE FALSE
          /\ w = [found |-> w.found, done |-> w.done]
      BY <1>13, <3>2
    <3>5. /\ g[n].found = Take(Kept(n), limit)
          /\ g[n].done = IF Ended(n) \/ Enough(n) THEN TRUE ELSE FALSE
          /\ g[n] = [found |-> g[n].found, done |-> g[n].done]
      BY <1>13
    <3> HIDE DEF g, w, Visit
    <3>6. CASE Enough(n - 1)
      <4>1. w.done = TRUE /\ g[n].done = TRUE /\ g[n].found = w.found
        BY <1>9, <3>1, <3>4, <3>5, <3>6
      <4>2. g[n] = w
        BY <3>4, <3>5, <4>1
      <4> QED
        BY <3>3, <4>1, <4>2
    <3>7. CASE ~Enough(n - 1) /\ Ended(n - 1)
      <4>1. s[n] \in passed \cup beyond /\ Ended(n)
        BY <1>4, <3>1, <3>7
      <4>2. w.done = TRUE /\ g[n].done = TRUE /\ g[n].found = w.found
        BY <1>8, <3>1, <3>4, <3>5, <3>7, <4>1
      <4>3. g[n] = w
        BY <3>4, <3>5, <4>2
      <4> QED
        BY <3>3, <4>2, <4>3
    <3>8. CASE ~Enough(n - 1) /\ ~Ended(n - 1) /\ s[n] \in passed
      <4>1. ~Ended(n) /\ ~Enough(n) /\ Kept(n) = Kept(n - 1)
        BY <1>4, <1>8, <3>1, <3>8
      <4>2. w.done = FALSE /\ g[n].done = FALSE /\ g[n].found = w.found
        BY <3>4, <3>5, <3>8, <4>1
      <4>3. g[n] = w
        BY <3>4, <3>5, <4>2
      <4> QED
        BY <3>3, <3>8, <4>3
    <3>9. CASE ~Enough(n - 1) /\ ~Ended(n - 1) /\ s[n] \notin passed /\ s[n] \in beyond
      <4>1. Ended(n) /\ Kept(n) = Kept(n - 1)
        BY <1>4, <1>8, <3>1, <3>9
      <4>2. w.done = FALSE /\ g[n].done = TRUE /\ g[n].found = w.found
        BY <3>4, <3>5, <3>9, <4>1
      <4> QED
        BY <3>3, <3>5, <3>9, <4>2
    <3>10. CASE ~Enough(n - 1) /\ ~Ended(n - 1) /\ s[n] \notin passed /\ s[n] \notin beyond
      <4>1. ~Ended(n)
        BY <1>4, <3>1, <3>10
      <4>2. /\ Take(Kept(n), limit) = Append(Kept(n - 1), s[n])
            /\ Enough(n) <=> limit = {Len(Kept(n - 1)) + 1}
        BY <1>11, <3>1, <3>10
      <4>3. w.done = FALSE /\ w.found = Kept(n - 1)
        BY <1>10, <3>2, <3>4, <3>10
      <4>4. Visit(g, n) = [found |-> Append(Kept(n - 1), s[n]), done |-> limit = {Len(Kept(n - 1)) + 1}]
        BY <3>3, <3>10, <4>3
      <4>5. g[n].found = Append(Kept(n - 1), s[n])
        BY <3>5, <4>2
      <4>6. CASE limit = {Len(Kept(n - 1)) + 1}
        <5>1. g[n].done = TRUE
          BY <3>5, <4>2, <4>6
        <5>2. (limit = {Len(Kept(n - 1)) + 1}) = TRUE
          BY <4>6
        <5> QED
          BY <3>5, <4>4, <4>5, <5>1, <5>2
      <4>7. CASE limit # {Len(Kept(n - 1)) + 1}
        <5>1. g[n].done = FALSE
          BY <3>5, <4>1, <4>2, <4>7
        <5>2. (limit = {Len(Kept(n - 1)) + 1}) = FALSE
          BY <4>7
        <5> QED
          BY <3>5, <4>4, <4>5, <5>1, <5>2
      <4> QED
        BY <4>6, <4>7
    <3> QED
      BY <3>6, <3>7, <3>8, <3>9, <3>10
  <2> QED
    BY <2>1, <2>2
<1>15. g = [n \in 0 .. m |-> Visit(g, n)]
  <2>1. g = [n \in 0 .. m |-> g[n]]
    OBVIOUS
  <2> HIDE DEF g, Visit
  <2> QED
    BY <1>14, <2>1, Zenon
<1> HIDE DEF g
<1>16. p = [n \in 0 .. m |-> Visit(p, n)]
  BY <1>15, Zenon DEF Walk, m
<1> HIDE DEF p
<1>17. \A n \in 0 .. m : p[n] = Visit(p, n) /\ g[n] = Visit(g, n)
  <2> HIDE DEF Visit
  <2>1. \A n \in 0 .. m : p[n] = Visit(p, n)
    BY <1>16, Zenon
  <2> QED
    BY <1>14, <2>1
<1>18. \A n \in 0 .. m : p[n] = g[n]
  <2> DEFINE D == {n \in Nat : n \in 0 .. m /\ p[n] # g[n]}
  <2>1. ASSUME D # {} PROVE FALSE
    <3>1. PICK n \in D : \A k \in D : n <= k
      <4>1. D \in SUBSET Nat
        OBVIOUS
      <4> HIDE DEF D
      <4> QED
        BY <2>1, <4>1, MinIsLeast
    <3>2. n \in 0 .. m /\ p[n] # g[n]
      OBVIOUS
    <3>3. n # 0
      <4>1. ASSUME n = 0 PROVE p[n] = g[n]
        <5>1. Visit(p, n) = [found |-> <<>>, done |-> FALSE] /\ Visit(g, n) = [found |-> <<>>, done |-> FALSE]
          BY <4>1, Zenon DEF CollectStep
        <5> HIDE DEF Visit
        <5> QED
          BY <1>17, <3>2, <5>1
      <4> QED
        BY <3>2, <4>1
    <3>4. n - 1 \in 0 .. m /\ n - 1 \in Nat /\ ~(n <= n - 1)
      BY <1>1, <3>2, <3>3
    <3>5. p[n - 1] = g[n - 1]
      BY <3>1, <3>4
    <3>6. Visit(p, n) = Visit(g, n)
      BY <3>3, <3>5, Zenon DEF CollectStep
    <3> HIDE DEF Visit
    <3> QED
      BY <1>17, <3>2, <3>6
  <2>2. \A n \in 0 .. m : n \in Nat
    BY <1>1
  <2> QED
    BY <2>1, <2>2
<1>19. m \in 0 .. m
  BY <1>1
<1>20. Collect(s, passed, beyond, limit) = p[m]
  BY CollectIsWalk DEF p, m
<1>21. p[m].found = Take(Kept(m), limit)
  BY <1>13, <1>18, <1>19 DEF g
<1> QED
  BY <1>6, <1>20, <1>21 DEF s, Kept

\* The chain from leaf k on: the entries of the tree's leaves from there, in order, to the
\* end.
LeavesFrom(c, ids, es, k) ==
  /\ c \in Seq(Nat) /\ Len(c) = Len(ids) - k + 1 /\ DOMAIN c = 1 .. Len(c) /\ ~Breaks(c)
  /\ \A i \in 1 .. Len(c) : /\ k + i - 1 \in k .. Len(ids) /\ k + i - 1 \in 1 .. Len(ids)
                            /\ Entries(store, c[i]) = es[k + i - 1] /\ es[k + i - 1] \in EntrySets
  /\ \A i, j \in 1 .. Len(c) : i < j =>
        \A e \in Entries(store, c[i]), f \in Entries(store, c[j]) : Less(e, f)

LEMMA ChainBehind ==
  ASSUME store \in Seq(Nodes), NEW ids, NEW es, Ordered(es), LeavesAre(store, ids, es), NEW k \in 1 .. Len(ids)
  PROVE  LeavesFrom(Chain(store, ids[k]), ids, es, k)
<1> DEFINE n == Len(ids)
           m == n - k + 1
           c == Chain(store, ids[k])
<1>1. /\ ids \in Seq(Nat) /\ n \in Nat /\ Len(es) = n
      /\ \A i \in 1 .. n : es[i] \in EntrySets /\ Entries(store, ids[i]) = es[i]
  BY LeafFacts
<1>2. \A i, j \in 1 .. n : i < j => \A e \in es[i], f \in es[j] : Less(e, f)
  BY <1>1 DEF Ordered
<1>3. c = SubSeq(ids, k, n)
  BY ChainOfTree
<1> HIDE DEF c
<1>4. k \in 1 .. n + 1 /\ n \in k - 1 .. n /\ m \in Nat /\ m \in 1 .. m
  BY <1>1
<1>5. /\ c \in Seq(Nat) /\ Len(c) = m /\ DOMAIN c = 1 .. m
      /\ \A i \in 1 .. m : c[i] = ids[k + i - 1]
  BY <1>1, <1>3, <1>4, PartOfSeq
<1>6. \A i \in 1 .. m : k + i - 1 \in k .. n /\ k + i - 1 \in 1 .. n
  BY <1>1
<1>7. \A i \in 1 .. m : Entries(store, c[i]) = es[k + i - 1] /\ es[k + i - 1] \in EntrySets
  BY <1>1, <1>5, <1>6
<1>8. ASSUME NEW i \in 1 .. m, NEW j \in 1 .. m, i < j
      PROVE  \A e \in Entries(store, c[i]), f \in Entries(store, c[j]) : Less(e, f)
  <2>1. k + i - 1 < k + j - 1
    BY <1>4, <1>8
  <2> QED
    BY <1>2, <1>6, <1>7, <2>1
<1>9. ~Breaks(c)
  <2>1. k + m - 1 = n
    BY <1>1
  <2>2. Last(c) = Last(ids)
    BY <1>4, <1>5, <2>1 DEF Last
  <2>3. Node(store, Last(ids)).next = Nil
    BY LastLeaf
  <2>4. c # <<>>
    BY <1>4, <1>5, EmptySeq
  <2> QED
    BY <2>2, <2>3, <2>4 DEF Breaks
<1> QED
  BY <1>5, <1>6, <1>7, <1>8, <1>9 DEF LeavesFrom, c

\* A lookup that meets the entries of S in order returns those to be kept.
StaysBeyond(S, passed, beyond) ==
  \A e, f \in S : e \in beyond /\ e \notin passed /\ Less(e, f) => f \in beyond \cup passed

LEMMA LookupReturns ==
  ASSUME NEW S \in SUBSET Pairs, IsFiniteSet(S), NEW passed, NEW beyond, NEW limit \in Limits,
         StaysBeyond(S, passed, beyond)
  PROVE  IF limit = {0} THEN <<>> = Take(Sorted(S \ (passed \cup beyond)), limit)
         ELSE Collect(Sorted(S), passed, beyond, limit).found = Take(Sorted(S \ (passed \cup beyond)), limit)
<1> DEFINE rest == S \ (passed \cup beyond)
<1>1. CASE limit = {0}
  <2>1. rest \in SUBSET Pairs /\ IsFiniteSet(rest)
    <3>1. rest \in SUBSET S
      OBVIOUS
    <3> HIDE DEF rest
    <3> QED
      BY <3>1, FS_Subset
  <2>2. Sorted(rest) \in Seq(Pairs) /\ Len(Sorted(rest)) \in Nat
    <3>1. Sorted(rest) \in Seq(rest)
      BY <2>1, SortedIsSorted
    <3> QED
      BY <2>1, <3>1, LenProperties
  <2>3. ASSUME NEW n \in Nat PROVE Min({n} \cup {0}) = 0
    <3>1. {n} \cup {0} \in SUBSET Nat /\ {n} \cup {0} # {}
      OBVIOUS
    <3>2. Min({n} \cup {0}) \in {n, 0} /\ Min({n} \cup {0}) <= 0
      BY <3>1, MinIsLeast
    <3> QED
      BY <3>2
  <2>4. Take(Sorted(rest), limit) = <<>>
    <3>1. Take(Sorted(rest), limit) = SubSeq(Sorted(rest), 1, 0)
      BY <1>1, <2>2, <2>3 DEF Take
    <3> QED
      BY <3>1, SubSeqEmpty
  <2> QED
    BY <1>1, <2>4
<1>2. CASE limit # {0}
  <2>1. IsLimit(limit)
    BY <1>2 DEF Limits, IsLimit
  <2>2. Collect(Sorted(S), passed, beyond, limit).found = Take(Sorted(rest), limit)
    BY <2>1, CollectTakes DEF StaysBeyond
  <2> QED
    BY <1>2, <2>2
<1> QED
  BY <1>1, <1>2

\* Keys are numbers.
LEMMA KeysAreInts == Keys \subseteq Int
BY UniverseAssumption DEF Keys

\* The leaves find reads have every entry of the key: it starts early enough, and what lies
\* behind a leaf that ends with a greater key has greater keys.
LEMMA FindTree ==
  ASSUME store \in Seq(Nodes), NEW ids, NEW es, TreeAt(store, handle, ids, es),
         NEW key \in Int, NEW limit \in Limits
  PROVE  Find(key, limit) = Returns(Take(Sorted({e \in AllOf(es) : e[1] = key}), limit))
<1> DEFINE n == Len(ids)
           c == Chain(store, FindFrom(key))
           m == Len(c)
           stops == {i \in DOMAIN c : Entries(store, c[i]) # {} /\ High(Entries(store, c[i]))[1] > key}
           visited == IF stops = {} THEN c ELSE SubSeq(c, 1, Min(stops))
<1>1. Ordered(es) /\ LeavesAre(store, ids, es)
  BY DEF TreeAt
<1>2. n \in Nat /\ Len(es) = n /\ \A i \in 1 .. n : es[i] \in EntrySets
  BY <1>1, LeafFacts
<1>3. PICK k \in 1 .. n : /\ FindFrom(key) = ids[k]
                          /\ \A j \in 1 .. n : \A e : j < k /\ e \in es[j] => e[1] < key
  BY LookupStarts
<1>4. c = Chain(store, ids[k])
  BY <1>3
<1> HIDE DEF c
<1>5. /\ c \in Seq(Nat) /\ m = n - k + 1 /\ DOMAIN c = 1 .. m /\ ~Breaks(c)
      /\ \A i \in 1 .. m : /\ k + i - 1 \in k .. n /\ k + i - 1 \in 1 .. n
                           /\ Entries(store, c[i]) = es[k + i - 1] /\ es[k + i - 1] \in EntrySets
      /\ \A i, j \in 1 .. m : i < j =>
            \A e \in Entries(store, c[i]), f \in Entries(store, c[j]) : Less(e, f)
  <2>1. LeavesFrom(c, ids, es, k)
    BY <1>1, <1>4, ChainBehind
  <2> QED
    BY <2>1 DEF LeavesFrom
<1>6. m \in Nat /\ k \in Nat
  BY <1>2, <1>5
<1> HIDE DEF m
\* The leaves visited are the first so many.
<1>7. PICK t \in 0 .. m : /\ visited \in Seq(Nat) /\ Len(visited) = t /\ DOMAIN visited = 1 .. t
                          /\ \A i \in 1 .. t : i \in 1 .. m /\ visited[i] = c[i]
                          /\ \/ t = m
                             \/ t \in 1 .. m /\ Entries(store, c[t]) # {} /\ High(Entries(store, c[t]))[1] > key
  <2>1. CASE stops = {}
    <3>1. visited = c
      BY <2>1
    <3>2. m \in 0 .. m
      BY <1>6
    <3> HIDE DEF visited
    <3> QED
      BY <1>5, <3>1, <3>2 DEF m
  <2>2. CASE stops # {}
    <3> DEFINE t == Min(stops)
    <3>1. stops \in SUBSET Nat
      BY <1>5
    <3>2. t \in stops
      BY <2>2, <3>1, MinIsLeast
    <3>3. t \in 1 .. m /\ Entries(store, c[t]) # {} /\ High(Entries(store, c[t]))[1] > key
      BY <1>5, <3>2
    <3>4. visited = SubSeq(c, 1, t)
      BY <2>2
    <3> HIDE DEF stops, visited, t
    <3>5. 1 \in 1 .. Len(c) + 1 /\ t \in 1 - 1 .. Len(c) /\ t \in 0 .. m
      BY <1>6, <3>3 DEF m
    <3>6. /\ visited \in Seq(Nat) /\ Len(visited) = t - 1 + 1 /\ DOMAIN visited = 1 .. t - 1 + 1
          /\ \A i \in 1 .. t - 1 + 1 : visited[i] = c[1 + i - 1]
      <4>1. c \in Seq(Nat)
        BY <1>5
      <4>2. /\ SubSeq(c, 1, t) \in Seq(Nat) /\ Len(SubSeq(c, 1, t)) = t - 1 + 1
            /\ \A i \in 1 .. t - 1 + 1 : SubSeq(c, 1, t)[i] = c[1 + i - 1]
            /\ DOMAIN SubSeq(c, 1, t) = 1 .. t - 1 + 1
        BY ONLY <3>5, <4>1, PartOfSeq
      <4> QED
        BY <3>4, <4>2
    <3>7. t - 1 + 1 = t /\ \A i \in 1 .. t : 1 + i - 1 = i /\ i \in 1 .. m
      BY <1>6, <3>3
    <3>8. Len(visited) = t /\ DOMAIN visited = 1 .. t /\ \A i \in 1 .. t : i \in 1 .. m /\ visited[i] = c[i]
      BY <3>6, <3>7
    <3> QED
      BY <3>3, <3>5, <3>6, <3>8
  <2> QED
    BY <2>1, <2>2
<1> HIDE DEF visited
<1>8. ASSUME NEW e PROVE e \in Leaves(visited) <=> \E i \in 1 .. t : e \in Entries(store, c[i])
  <2>1. e \in Leaves(visited) <=> \E i \in 1 .. t : e \in Entries(store, visited[i])
    BY <1>7 DEF Leaves, ToSet
  <2> QED
    BY <1>7, <2>1
<1>9. ASSUME NEW e, e \in AllOf(es), e[1] = key
      PROVE  \E i \in 1 .. m : e \in es[k + i - 1] /\ e \in Entries(store, c[i])
  <2>1. PICK j \in 1 .. n : e \in es[j]
    BY <1>2, <1>9, AllOfMeaning
  <2>2. e[1] \in Int
    BY <1>9
  <2>3. ~(j < k)
    BY <1>3, <1>9, <2>1, <2>2
  <2>4. j - k + 1 \in 1 .. m /\ k + (j - k + 1) - 1 = j
    BY <1>2, <1>5, <1>6, <2>3 DEF m
  <2>5. Entries(store, c[j - k + 1]) = es[j]
    BY <1>5, <2>4
  <2> QED
    BY <2>1, <2>4, <2>5
<1>10. ASSUME NEW e, e \in Leaves(visited) PROVE e \in AllOf(es)
  <2>1. PICK i \in 1 .. t : e \in Entries(store, c[i])
    BY <1>8, <1>10
  <2>2. e \in es[k + i - 1] /\ k + i - 1 \in 1 .. n
    BY <1>5, <1>7, <2>1
  <2> QED
    BY <1>2, <2>2, AllOfMeaning
<1>11. ASSUME NEW e, e[1] = key, e \in AllOf(es) PROVE e \in Leaves(visited)
  <2>1. PICK i \in 1 .. m : e \in es[k + i - 1] /\ e \in Entries(store, c[i])
    BY <1>9, <1>11
  <2>2. CASE t = m
    BY <1>8, <2>1, <2>2
  <2>3. CASE t \in 1 .. m /\ Entries(store, c[t]) # {} /\ High(Entries(store, c[t]))[1] > key
    <3>1. ASSUME i > t PROVE FALSE
      <4>1. Entries(store, c[t]) \in EntrySets /\ Entries(store, c[i]) \in EntrySets
        BY <1>5, <2>3
      <4> DEFINE h == High(Entries(store, c[t]))
      <4>2. h \in Entries(store, c[t]) /\ h \in Pairs /\ e \in Pairs
        BY <2>1, <2>3, <4>1, EntrySetFacts, Extremes
      <4>3. Less(h, e)
        BY <1>5, <1>6, <2>1, <2>3, <3>1, <4>2
      <4>4. h[1] > key
        BY <2>3
      <4> HIDE DEF h
      <4>5. h[1] <= e[1] /\ h[1] \in Int
        BY <4>2, <4>3, LessOrder DEF Pairs
      <4> QED
        BY <1>11, <4>4, <4>5
    <3>2. i \in 1 .. t
      BY <1>6, <2>3, <3>1
    <3> QED
      BY <1>8, <2>1, <3>2
  <2> QED
    BY <1>7, <2>2, <2>3
<1>12. Listed(visited) = Sorted(Leaves(visited)) /\ Leaves(visited) \in SUBSET Pairs /\ IsFiniteSet(Leaves(visited))
  <2>1. \A i \in 1 .. Len(visited) : Entries(store, visited[i]) \in EntrySets
    BY <1>5, <1>7
  <2>2. \A i, j \in 1 .. Len(visited) : i < j =>
           \A e \in Entries(store, visited[i]), f \in Entries(store, visited[j]) : Less(e, f)
    BY <1>5, <1>7
  <2> QED
    BY <1>7, <2>1, <2>2, ListedIsSorted
<1> DEFINE others == {e \in Leaves(visited) : e[1] # key}
<1>13. Leaves(visited) \ (others \cup {}) = {e \in AllOf(es) : e[1] = key}
  BY <1>10, <1>11
<1>14. ~(stops = {} /\ Breaks(c))
  BY <1>5
<1>15. Find(key, limit) = IF limit = {0} THEN Returns(<<>>)
                          ELSE Outcome(Collect(Listed(visited), others, {}, limit), stops = {} /\ Breaks(c))
  BY DEF Find, c, visited
<1> HIDE DEF stops
<1>16. Find(key, limit) = Returns(Take(Sorted(Leaves(visited) \ (others \cup {})), limit))
  <2>1. StaysBeyond(Leaves(visited), others, {})
    BY DEF StaysBeyond
  <2> HIDE DEF others
  <2> DEFINE w == Collect(Listed(visited), others, {}, limit)
             kept == Take(Sorted(Leaves(visited) \ (others \cup {})), limit)
  <2>2. IF limit = {0} THEN <<>> = kept ELSE w.found = kept
    BY <1>12, <2>1, LookupReturns
  <2>3. Outcome(w, stops = {} /\ Breaks(c)) = Returns(w.found)
    BY <1>14 DEF Outcome
  <2> HIDE DEF w, kept
  <2>4. Find(key, limit) = IF limit = {0} THEN Returns(<<>>) ELSE Outcome(w, stops = {} /\ Breaks(c))
    BY <1>15 DEF w
  <2>5. Find(key, limit) = Returns(kept)
    BY <2>2, <2>3, <2>4
  <2> QED
    BY <2>5 DEF kept
<1> QED
  BY <1>13, <1>16

\* The leaves range reads have every entry within the bounds, and its walk over them stops at
\* none: what comes after an entry above the upper bound is above it, too.
LEMMA RangeTree ==
  ASSUME store \in Seq(Nodes), NEW ids, NEW es, TreeAt(store, handle, ids, es),
         NEW lower \in Bounds, NEW upper \in Bounds, NEW limit \in Limits
  PROVE  RangeEntries(lower, upper, limit) =
           IF \A low \in lower, up \in upper : low <= up
           THEN Returns(Take(Sorted({e \in AllOf(es) : Within(e, lower, upper)}), limit))
           ELSE Throws
<1> DEFINE n == Len(ids)
           c == Chain(store, RangeFrom(lower))
           all == Leaves(c)
<1>1. Ordered(es) /\ LeavesAre(store, ids, es) /\ handle.first = ids[1]
  BY DEF TreeAt
<1>2. n \in Nat /\ n >= 1 /\ Len(es) = n /\ \A i \in 1 .. n : es[i] \in EntrySets
  BY <1>1, LeafFacts
<1>3. PICK k \in 1 .. n : /\ RangeFrom(lower) = ids[k]
                          /\ \A j \in 1 .. n : \A e : j < k /\ e \in es[j] => ~Within(e, lower, upper)
  <2>1. CASE lower = Absent
    <3>1. RangeFrom(lower) = ids[1]
      BY <1>1, <2>1 DEF RangeFrom
    <3>2. 1 \in 1 .. n /\ \A j \in 1 .. n : ~(j < 1)
      BY <1>2
    <3> QED
      BY <3>1, <3>2
  <2>2. CASE lower # Absent
    <3>1. PICK key \in Keys : lower = {key}
      BY <2>2 DEF Bounds
    <3>2. key \in Int
      BY KeysAreInts
    <3>3. PICK k \in 1 .. n : /\ RangeFrom({key}) = ids[k]
                              /\ \A j \in 1 .. n : \A e : j < k /\ e \in es[j] => e[1] < key
      BY <3>2, LookupStarts
    <3>4. ASSUME NEW j \in 1 .. n, NEW e, j < k, e \in es[j] PROVE ~Within(e, lower, upper)
      <4>1. e[1] < key
        BY <3>3, <3>4
      <4>2. e \in Pairs
        BY <1>2, EntrySetFacts, <3>4
      <4>3. e[1] \in Int
        BY <4>2 DEF Pairs
      <4>4. ~(e[1] >= key)
        BY <3>2, <4>1, <4>3
      <4>5. \E x \in lower : ~(e[1] >= x)
        BY <3>1, <4>4
      <4> QED
        BY <4>5 DEF Within
    <3> QED
      BY <3>1, <3>3, <3>4
  <2> QED
    BY <2>1, <2>2
<1>4. c = Chain(store, ids[k])
  BY <1>3
<1> HIDE DEF c
<1>5. \A e : e \in all <=> \E j \in k .. n : e \in es[j]
  BY <1>1, <1>4, LeavesBehind
<1>6. ASSUME NEW e PROVE /\ e \in all => e \in AllOf(es)
                         /\ e \in AllOf(es) /\ Within(e, lower, upper) => e \in all
  <2>1. \A j \in k .. n : j \in 1 .. n
    BY <1>2
  <2>2. e \in all => e \in AllOf(es)
    BY <1>2, <1>5, <2>1, AllOfMeaning
  <2>3. ASSUME e \in AllOf(es), Within(e, lower, upper) PROVE e \in all
    <3>1. PICK j \in 1 .. n : e \in es[j]
      BY <1>2, <2>3, AllOfMeaning
    <3>2. ~(j < k)
      BY <1>3, <2>3, <3>1
    <3>3. j \in k .. n
      BY <1>2, <3>2
    <3> QED
      BY <1>5, <3>1, <3>3
  <2> QED
    BY <2>2, <2>3
<1>7. /\ c \in Seq(Nat) /\ ~Breaks(c)
      /\ \A i \in 1 .. Len(c) : Entries(store, c[i]) \in EntrySets
      /\ \A i, j \in 1 .. Len(c) : i < j =>
            \A e \in Entries(store, c[i]), f \in Entries(store, c[j]) : Less(e, f)
  <2>1. LeavesFrom(c, ids, es, k)
    BY <1>1, <1>4, ChainBehind
  <2> QED
    BY <2>1 DEF LeavesFrom
<1>8. Listed(c) = Sorted(all) /\ all \in SUBSET Pairs /\ IsFiniteSet(all)
  BY <1>7, ListedIsSorted
<1> HIDE DEF all
<1>9. \A low \in lower : low \in Int
  BY KeysAreInts DEF Bounds, Absent
<1>10. \A up \in upper : up \in Int
  BY KeysAreInts DEF Bounds, Absent
<1> DEFINE passed == Below(all, lower)
           beyond == Above(all, upper)
<1>11. \A e \in all : e \in Pairs /\ e[1] \in Int
  BY <1>8 DEF Pairs
<1>12. ASSUME NEW e \in all, NEW f \in all, e \in beyond, Less(e, f) PROVE f \in beyond
  <2>1. PICK up \in upper : e[1] > up
    BY <1>12 DEF Above
  <2>2. e[1] <= f[1] /\ e[1] \in Int /\ f[1] \in Int /\ up \in Int
    BY <1>10, <1>11, <1>12, LessOrder
  <2>3. f[1] > up
    BY <2>1, <2>2
  <2> QED
    BY <2>3 DEF Above
<1>13. ASSUME NEW e \in all PROVE e \notin passed /\ e \notin beyond <=> Within(e, lower, upper)
  <2>1. e[1] \in Int
    BY <1>11
  <2>2. e \notin passed <=> \A low \in lower : e[1] >= low
    BY <1>9, <2>1 DEF Below
  <2>3. e \notin beyond <=> \A up \in upper : e[1] <= up
    BY <1>10, <2>1 DEF Above
  <2> QED
    BY <2>2, <2>3 DEF Within
<1> HIDE DEF passed, beyond
<1>14. all \ (passed \cup beyond) = {e \in AllOf(es) : Within(e, lower, upper)}
  <2>1. ASSUME NEW e
        PROVE  e \in all \ (passed \cup beyond) <=> e \in AllOf(es) /\ Within(e, lower, upper)
    BY <1>6, <1>13
  <2> QED
    BY <2>1
<1>15. RangeEntries(lower, upper, limit) =
         IF \E low \in lower, up \in upper : low > up THEN Throws
         ELSE IF limit = {0} THEN Returns(<<>>)
         ELSE Outcome(Collect(Listed(c), passed, beyond, limit), Breaks(c))
  BY DEF RangeEntries, c, all, passed, beyond
<1>16. (IF limit = {0} THEN Returns(<<>>) ELSE Outcome(Collect(Listed(c), passed, beyond, limit), Breaks(c)))
       = Returns(Take(Sorted(all \ (passed \cup beyond)), limit))
  <2>1. StaysBeyond(all, passed, beyond)
    BY <1>12 DEF StaysBeyond
  <2> DEFINE w == Collect(Listed(c), passed, beyond, limit)
             kept == Take(Sorted(all \ (passed \cup beyond)), limit)
  <2>2. IF limit = {0} THEN <<>> = kept ELSE w.found = kept
    BY <1>8, <2>1, LookupReturns
  <2>3. Outcome(w, Breaks(c)) = Returns(w.found)
    BY <1>7 DEF Outcome
  <2> HIDE DEF w, kept
  <2>4. (IF limit = {0} THEN Returns(<<>>) ELSE Outcome(w, Breaks(c))) = Returns(kept)
    BY <2>2, <2>3
  <2> QED
    BY <2>4 DEF w, kept
<1>17. (\E low \in lower, up \in upper : low > up) <=> ~\A low \in lower, up \in upper : low <= up
  BY <1>9, <1>10
<1>18. CASE \A low \in lower, up \in upper : low <= up
  <2>1. RangeEntries(lower, upper, limit) = Returns(Take(Sorted(all \ (passed \cup beyond)), limit))
    BY <1>15, <1>16, <1>17, <1>18
  <2> QED
    BY <1>14, <1>18, <2>1
<1>19. CASE ~\A low \in lower, up \in upper : low <= up
  <2>1. RangeEntries(lower, upper, limit) = Throws
    BY <1>15, <1>17, <1>19
  <2> QED
    BY <1>19, <2>1
<1> QED
  BY <1>18, <1>19

-----------------------------------------------------------------------------
(***************************************************************************)
(* The inductive invariant.                                                *)
(***************************************************************************)

\* Between operations the store is the tree the handle describes, with the entries of
\* the model; during one, what its last write leaves is; a closed tree is the one its
\* header describes.
Writing ==
  /\ op \in [writes : Seq(Seq(Nodes)), handle : Handles, result : SUBSET Universe]
  /\ op.writes # <<>>
  /\ IsTree(Last(op.writes), op.handle, op.result)

IInv ==
  /\ store \in Seq(Nodes) /\ model \in SUBSET Universe
  /\ \/ phase = "open" /\ op = NoOp /\ IsTree(store, handle, model)
     \/ phase = "open" /\ Writing /\ handle \in Handles
     \/ phase = "closed" /\ op = NoOp /\ handle = Closed /\ IsTree(store, Opened(HeaderNode), model)

\* A new index is an empty leaf.
LEMMA InitIInv == Init => IInv
<1> SUFFICES ASSUME Init PROVE IInv
  OBVIOUS
<1> DEFINE ids == <<1>>
           es == <<{}>>
           h == [height |-> 1, root |-> 1, first |-> 1]
<1>1. store = NewStore /\ handle = Opened(Node(NewStore, HeaderId)) /\ op = NoOp /\ phase = "open" /\ model = {}
  BY DEF Init
<1>2. {} \in EntrySets
  BY FS_EmptySet, CapacityAssumption DEF EntrySets
<1>3. Leaf({}, Nil) \in Nodes /\ Header(1, 1, 1) \in Nodes /\ Leaf({}, Nil) # Dead
  BY <1>2, NodeKinds DEF Nil
<1>4. NewStore \in Seq(Nodes) /\ Len(NewStore) = 2 /\ DOMAIN NewStore = 1 .. 2
      /\ NewStore[1] = Leaf({}, Nil) /\ NewStore[2] = Header(1, 1, 1)
  BY <1>3 DEF NewStore
<1>5. /\ Node(NewStore, 1) = Leaf({}, Nil) /\ Node(NewStore, HeaderId) = Header(1, 1, 1)
      /\ \A id : Node(NewStore, id) # Dead => id = 1 \/ id = HeaderId
  BY <1>4 DEF Node, HeaderId
<1>6. handle = h
  BY <1>1, <1>5, NodeKinds DEF Opened
<1>7. ids \in Seq(Nat) /\ es \in Seq(EntrySets) /\ Len(ids) = 1 /\ Len(es) = 1 /\ ids[1] = 1 /\ es[1] = {} /\ es # <<>>
  BY <1>2
<1> HIDE DEF ids, es
<1>8. Ordered(es)
  BY <1>7 DEF Ordered
<1>9. LeavesAre(NewStore, ids, es)
  <2>1. NextOf(ids, 1) = Nil
    BY <1>7 DEF NextOf
  <2>2. \A i \in 1 .. Len(ids) : i = 1
    BY <1>7
  <2> QED
    BY <1>5, <1>7, <2>1, <2>2 DEF LeavesAre
<1>10. TreeAt(NewStore, h, ids, es)
  <2>1. h \in Handles /\ h.height = 1 /\ h.root = 1 /\ h.first = 1
    BY DEF Handles
  <2>2. RootIs(NewStore, h, ids, es)
    BY <1>7, <2>1 DEF RootIs
  <2>3. Node(NewStore, HeaderId) = Header(h.height, h.root, h.first)
    BY <1>5, <2>1
  <2> HIDE DEF h
  <2> QED
    BY <1>7, <1>8, <1>9, <2>1, <2>2, <2>3 DEF TreeAt
<1>11. AllOf(es) = {}
  BY <1>7 DEF AllOf
<1>12. Whole(NewStore, h, ids)
  BY <1>5 DEF Whole, Outside
<1>13. IsTree(store, handle, model)
  BY <1>1, <1>4, <1>6, <1>7, <1>10, <1>11, <1>12 DEF IsTree
<1> QED
  BY <1>1, <1>4, <1>13 DEF IInv

\* A tree has its entries among those of the clients, and a handle of the right form.
LEMMA TreeTypes ==
  ASSUME NEW st, NEW h, NEW m, IsTree(st, h, m)
  PROVE  st \in Seq(Nodes) /\ m \in SUBSET Universe /\ h \in Handles
<1>1. PICK ids \in Seq(Nat), es \in Seq(EntrySets) : TreeAt(st, h, ids, es) /\ m = AllOf(es)
  BY DEF IsTree
<1>2. \A i \in 1 .. Len(es) : es[i] \in SUBSET Universe
  BY <1>1, ElementOfSeq, EntrySetFacts
<1> QED
  BY <1>1, <1>2, AllOfMeaning DEF IsTree, TreeAt

\* When the tree is at rest.
LEMMA ReadyTree ==
  ASSUME IInv, Ready
  PROVE  /\ store \in Seq(Nodes) /\ phase = "open" /\ op = NoOp
         /\ \E ids \in Seq(Nat), es \in Seq(EntrySets) :
              TreeAt(store, handle, ids, es) /\ Whole(store, handle, ids) /\ model = AllOf(es)
<1>1. NoOp.writes = <<>>
  BY DEF NoOp
<1> QED
  BY <1>1 DEF IInv, Ready, Writing, IsTree

\* The invariant gives every variable its type.
LEMMA IInvTypes == IInv => TypeOK
<1> SUFFICES ASSUME IInv PROVE TypeOK
  OBVIOUS
<1>1. \A id \in DOMAIN store : NodeOK(Node(store, id))
  BY NodeFacts, NodesAreOK DEF IInv
<1>2. NoOp.result = {} /\ Closed.height = 0
  BY DEF NoOp, Closed
<1>3. handle.height \in {0, 1, 2} /\ op.result \subseteq Universe
  <2>1. CASE phase = "open" /\ op = NoOp /\ IsTree(store, handle, model)
    BY <1>2, <2>1, TreeTypes DEF Handles
  <2>2. CASE phase = "open" /\ Writing /\ handle \in Handles
    BY <2>2 DEF Writing, Handles
  <2>3. CASE phase = "closed" /\ op = NoOp /\ handle = Closed /\ IsTree(store, Opened(HeaderNode), model)
    BY <1>2, <2>3
  <2> QED
    BY <2>1, <2>2, <2>3 DEF IInv
<1> QED
  BY <1>1, <1>3 DEF TypeOK, IInv

\* The tree at rest is valid, agrees with its header and holds the model's entries.
LEMMA IInvHoldsModel == IInv => TreeHoldsModel
<1> SUFFICES ASSUME IInv, Ready
             PROVE  TreeValid(store, handle) /\ Opened(HeaderNode) = handle /\ Contents(store, handle.first) = model
  BY DEF TreeHoldsModel
<1>1. PICK ids \in Seq(Nat), es \in Seq(EntrySets) : TreeAt(store, handle, ids, es) /\ model = AllOf(es)
  BY ReadyTree
<1>2. store \in Seq(Nodes)
  BY ReadyTree
<1>3. TreeValid(store, handle)
  BY <1>1, <1>2, TreeIsValid
<1>4. Opened(HeaderNode) = handle
  BY <1>1, OpenedIsHandle DEF HeaderNode
<1>5. Ordered(es) /\ LeavesAre(store, ids, es) /\ handle.first = ids[1]
  BY <1>1 DEF TreeAt
<1>6. Contents(store, handle.first) = model
  BY <1>1, <1>2, <1>5, ContentsOfTree
<1> QED
  BY <1>3, <1>4, <1>6

\* What find and range return are the model's entries.
LEMMA IInvLookups == IInv => FindIsComplete /\ RangeIsComplete
<1>1. ASSUME IInv, Ready, NEW k \in Keys, NEW n \in Limits
      PROVE  Find(k, n) = Returns(Take(Sorted({e \in model : e[1] = k}), n))
  <2>1. PICK ids \in Seq(Nat), es \in Seq(EntrySets) : TreeAt(store, handle, ids, es) /\ model = AllOf(es)
    BY <1>1, ReadyTree
  <2>2. store \in Seq(Nodes) /\ k \in Int
    BY <1>1, ReadyTree, KeysAreInts
  <2>3. Find(k, n) = Returns(Take(Sorted({e \in AllOf(es) : e[1] = k}), n))
    BY <2>1, <2>2, FindTree
  <2> QED
    BY <2>1, <2>3
<1>2. ASSUME IInv, Ready, NEW lower \in Bounds, NEW upper \in Bounds, NEW n \in Limits
      PROVE  RangeEntries(lower, upper, n) =
               IF \A k \in lower, m \in upper : k <= m
               THEN Returns(Take(Sorted({e \in model : Within(e, lower, upper)}), n)) ELSE Throws
  <2>1. PICK ids \in Seq(Nat), es \in Seq(EntrySets) : TreeAt(store, handle, ids, es) /\ model = AllOf(es)
    BY <1>2, ReadyTree
  <2>2. store \in Seq(Nodes)
    BY <1>2, ReadyTree
  <2>3. RangeEntries(lower, upper, n) =
          IF \A k \in lower, m \in upper : k <= m
          THEN Returns(Take(Sorted({e \in AllOf(es) : Within(e, lower, upper)}), n)) ELSE Throws
    BY <2>1, <2>2, RangeTree
  <2> QED
    BY <2>1, <2>3
<1> QED
  BY <1>1, <1>2 DEF FindIsComplete, RangeIsComplete

\* The records that are not dead are those of the tree.
LEMMA IInvNoLeaks == IInv => NoNodeLeaks
<1> SUFFICES ASSUME IInv, Ready PROVE LiveSlots = Reachable(handle)
  BY DEF NoNodeLeaks
<1>1. PICK ids \in Seq(Nat), es \in Seq(EntrySets) : TreeAt(store, handle, ids, es) /\ Whole(store, handle, ids)
  BY ReadyTree
<1>2. store \in Seq(Nodes)
  BY ReadyTree
<1> QED
  BY <1>1, <1>2, NothingElse DEF LiveSlots, Reachable

\* A write brings the store nearer to what the operation leaves; the last one leaves it.
LEMMA WriteRecordIInv == ASSUME IInv, WriteRecord PROVE IInv'
<1>1. Writing /\ phase = "open" /\ handle \in Handles /\ model \in SUBSET Universe
  BY DEF IInv, WriteRecord
<1> DEFINE w == op.writes
<1>2. w \in Seq(Seq(Nodes)) /\ w # <<>> /\ IsTree(Last(w), op.handle, op.result)
      /\ op.handle \in Handles /\ op.result \in SUBSET Universe
  BY <1>1 DEF Writing
<1>3. store' = Head(w) /\ phase' = "open"
      /\ IF Len(w) = 1 THEN op' = NoOp /\ handle' = op.handle /\ model' = op.result
         ELSE op' = [op EXCEPT !.writes = Tail(@)] /\ handle' = handle /\ model' = model
  BY <1>1 DEF WriteRecord
<1>4. Head(w) \in Seq(Nodes) /\ Tail(w) \in Seq(Seq(Nodes)) /\ Len(Tail(w)) = Len(w) - 1
      /\ (\A i \in 1 .. Len(Tail(w)) : Tail(w)[i] = w[i + 1]) /\ Len(w) \in Nat /\ Len(w) >= 1
  BY <1>2, HeadTailProperties, EmptySeq
<1>5. CASE Len(w) = 1
  <2>1. Head(w) = Last(w)
    BY <1>5 DEF Last
  <2>2. store' = Last(w) /\ phase' = "open" /\ op' = NoOp /\ handle' = op.handle /\ model' = op.result
    BY <1>3, <1>5, <2>1
  <2>3. IsTree(store', handle', model')
    BY <1>2, <2>2
  <2> QED
    BY <1>2, <1>4, <2>1, <2>2, <2>3 DEF IInv, IsTree
<1>6. CASE Len(w) # 1
  <2>1. op' = [op EXCEPT !.writes = Tail(w)] /\ handle' = handle /\ model' = model
    BY <1>3, <1>6
  <2>2. Tail(w) # <<>> /\ Last(Tail(w)) = Last(w)
    <3> DEFINE a == Len(Tail(w))
               b == Len(w)
    <3> HIDE DEF a, b
    <3>0. a = b - 1 /\ b \in Nat /\ b >= 1 /\ b # 1
      BY <1>4, <1>6 DEF a, b
    <3>1. Len(Tail(w)) \in 1 .. Len(Tail(w)) /\ Len(Tail(w)) + 1 = Len(w)
      <4>1. a \in 1 .. a /\ a + 1 = b
        BY <3>0
      <4> QED
        BY <4>1 DEF a, b
    <3>2. Tail(w)[Len(Tail(w))] = w[Len(w)]
      BY <1>4, <3>1
    <3>3. Len(Tail(w)) # 0
      BY <1>4, <1>6
    <3>4. Tail(w) # <<>>
      BY <3>3, EmptySeq
    <3> QED
      BY <3>2, <3>4 DEF Last
  <2>3. op'.writes = Tail(w) /\ op'.handle = op.handle /\ op'.result = op.result
        /\ op' \in [writes : Seq(Seq(Nodes)), handle : Handles, result : SUBSET Universe]
    BY <1>1, <1>4, <2>1 DEF Writing
  <2>4. Writing'
    BY <1>2, <2>2, <2>3 DEF Writing
  <2> QED
    BY <1>1, <1>3, <1>4, <2>1, <2>4 DEF IInv
<1> QED
  BY <1>5, <1>6

\* Closing keeps the tree; its header says what the handle said.
LEMMA CloseIInv == ASSUME IInv, Close PROVE IInv'
<1>1. Ready /\ phase' = "closed" /\ handle' = Closed /\ store' = store /\ op' = op /\ model' = model
  BY DEF Close
<1>2. PICK ids \in Seq(Nat), es \in Seq(EntrySets) :
        TreeAt(store, handle, ids, es) /\ Whole(store, handle, ids) /\ model = AllOf(es)
  BY <1>1, ReadyTree
<1>3. store \in Seq(Nodes) /\ op = NoOp
  BY <1>1, ReadyTree
<1>4. Opened(HeaderNode) = handle
  BY <1>2, OpenedIsHandle DEF HeaderNode
<1>5. HeaderNode' = HeaderNode
  BY <1>1 DEF HeaderNode
<1>6. IsTree(store', Opened(HeaderNode'), model')
  BY <1>1, <1>2, <1>3, <1>4, <1>5 DEF IsTree
<1> QED
  BY <1>1, <1>3, <1>6 DEF IInv

\* Opening finds the tree that was closed.
LEMMA OpenIInv == ASSUME IInv, Open PROVE IInv'
<1>1. /\ phase = "closed" /\ phase' = "open" /\ handle' = Opened(HeaderNode) /\ store' = store
      /\ model' = Contents(store, HeaderNode.first) /\ op' = NoOp
  BY DEF Open
<1>2. IsTree(store, Opened(HeaderNode), model) /\ store \in Seq(Nodes) /\ model \in SUBSET Universe
  BY <1>1 DEF IInv
<1>3. PICK ids \in Seq(Nat), es \in Seq(EntrySets) :
        TreeAt(store, Opened(HeaderNode), ids, es) /\ model = AllOf(es)
  BY <1>2 DEF IsTree
<1>4. Ordered(es) /\ LeavesAre(store, ids, es) /\ Opened(HeaderNode).first = ids[1]
  BY <1>3 DEF TreeAt
<1>5. Opened(HeaderNode).first = HeaderNode.first
  BY DEF Opened
<1>6. model' = model
  BY <1>1, <1>2, <1>3, <1>4, <1>5, ContentsOfTree
<1> QED
  BY <1>1, <1>2, <1>6 DEF IInv

-----------------------------------------------------------------------------
(***************************************************************************)
(* Operations: the leaf an entry belongs to, and what changing it leaves.  *)
(***************************************************************************)

\* Header, root and leaves are different records.
LEMMA Apart ==
  ASSUME NEW st, NEW h, NEW ids, NEW es, TreeAt(st, h, ids, es)
  PROVE  /\ Node(st, HeaderId) # Dead
         /\ \A i \in 1 .. Len(ids) : ids[i] # HeaderId
         /\ h.height = 2 => /\ Node(st, h.root) # Dead /\ h.root # HeaderId
                            /\ \A i \in 1 .. Len(ids) : ids[i] # h.root
<1>1. /\ Ordered(es) /\ LeavesAre(st, ids, es) /\ RootIs(st, h, ids, es)
      /\ Node(st, HeaderId) = Header(h.height, h.root, h.first)
  BY DEF TreeAt
<1>2. \A i \in 1 .. Len(ids) : Node(st, ids[i]).kind = "leaf"
  BY <1>1, LeafFacts
<1>3. Node(st, HeaderId).kind = "header" /\ Node(st, HeaderId) # Dead
  BY <1>1, NodeKinds
<1>4. ASSUME h.height = 2 PROVE Node(st, h.root).kind = "internal" /\ Node(st, h.root) # Dead
  <2>1. Node(st, h.root) = Internal(Separators(ids, es))
    BY <1>1, <1>4 DEF RootIs
  <2> QED
    BY <2>1, NodeKinds
<1> QED
  BY <1>2, <1>3, <1>4

\* The place of the leaf that insert and erase turn to.
Place(e) == IF handle.height = 2 THEN ChildIndex(e) ELSE 1

\* What they find there: the entries of the leaves in front of it are less, of those behind it greater.
LEMMA TargetFacts ==
  ASSUME NEW ids, NEW es, TreeAt(store, handle, ids, es), NEW e \in Universe
  PROVE  /\ Place(e) \in 1 .. Len(ids)
         /\ handle.height = 2 => ChildIndex(e) = Place(e)
         /\ Target(e) = ids[Place(e)] /\ TargetLeaf(e) = Leaf(es[Place(e)], NextOf(ids, Place(e)))
         /\ TargetLeaf(e).entries = es[Place(e)] /\ TargetLeaf(e).next = NextOf(ids, Place(e))
         /\ Node(store, ids[Place(e)]) # Dead /\ es[Place(e)] \in EntrySets
         /\ \A j \in 1 .. Len(ids) : \A f : j < Place(e) /\ f \in es[j] => Less(f, e)
         /\ \A j \in 1 .. Len(ids) : \A f : j > Place(e) /\ f \in es[j] => Less(e, f)
<1>1. /\ handle.height \in {1, 2} /\ Ordered(es) /\ LeavesAre(store, ids, es)
      /\ handle.height = 2 => Len(ids) > 1 /\ Children = Separators(ids, es)
      /\ handle.height = 1 => Len(ids) = 1 /\ handle.root = ids[1]
  BY ChildrenAre
<1>2. e \in Pairs /\ Len(ids) \in Nat
  BY <1>1, UniverseAssumption, LeafFacts DEF Pairs
<1>3. /\ Place(e) \in 1 .. Len(ids) /\ Target(e) = ids[Place(e)]
      /\ \A j \in 1 .. Len(ids) : \A f : j < Place(e) /\ f \in es[j] => Less(f, e)
      /\ \A j \in 1 .. Len(ids) : \A f : j > Place(e) /\ f \in es[j] => Less(e, f)
  <2>1. CASE handle.height = 2
    <3> DEFINE k == RouteEntry(Separators(ids, es), e)
    <3>1. Place(e) = k /\ ChildIndex(e) = k
      BY <1>1, <2>1 DEF Place, ChildIndex
    <3>2. /\ k \in 1 .. Len(ids)
          /\ \A j \in 1 .. Len(ids) : \A f : j < k /\ f \in es[j] => Less(f, e)
          /\ \A j \in 1 .. Len(ids) : \A f : j > k /\ f \in es[j] => Less(e, f)
      BY <1>1, <1>2, <2>1, RoutedEntry
    <3>3. Separators(ids, es)[k].id = ids[k]
      BY <1>1, <3>2, SeparatorFacts
    <3>4. Target(e) = ids[k]
      BY <1>1, <2>1, <3>1, <3>3 DEF Target
    <3> HIDE DEF k
    <3> QED
      BY <3>1, <3>2, <3>4
  <2>2. CASE handle.height = 1
    <3>1. Place(e) = 1 /\ Target(e) = ids[1]
      BY <1>1, <2>2 DEF Place, Target
    <3>2. 1 \in 1 .. Len(ids) /\ \A j \in 1 .. Len(ids) : j = 1
      <4>1. Len(ids) = 1
        BY <1>1, <2>2
      <4> QED
        BY <4>1
    <3> QED
      BY <3>1, <3>2
  <2> QED
    BY <1>1, <2>1, <2>2
<1>4. Node(store, ids[Place(e)]) = Leaf(es[Place(e)], NextOf(ids, Place(e))) /\ es[Place(e)] \in EntrySets
  BY <1>1, <1>3, LeafFacts
<1>5. TargetLeaf(e) = Leaf(es[Place(e)], NextOf(ids, Place(e)))
  BY <1>3, <1>4 DEF TargetLeaf
<1> QED
  BY <1>3, <1>4, <1>5, NodeKinds DEF Place

\* The leaf they turn to is one of the tree's.
LEMMA TargetPlace ==
  ASSUME NEW ids, NEW es, TreeAt(store, handle, ids, es), NEW e \in Universe
  PROVE  \E i \in 1 .. Len(ids) :
           /\ handle.height = 2 => ChildIndex(e) = i
           /\ Target(e) = ids[i] /\ TargetLeaf(e) = Leaf(es[i], NextOf(ids, i))
           /\ TargetLeaf(e).entries = es[i] /\ TargetLeaf(e).next = NextOf(ids, i)
           /\ es[i] \in EntrySets
           /\ \A j \in 1 .. Len(ids) : \A f : j < i /\ f \in es[j] => Less(f, e)
           /\ \A j \in 1 .. Len(ids) : \A f : j > i /\ f \in es[j] => Less(e, f)
<1> DEFINE P(i) ==
      /\ handle.height = 2 => ChildIndex(e) = i
      /\ Target(e) = ids[i] /\ TargetLeaf(e) = Leaf(es[i], NextOf(ids, i))
      /\ TargetLeaf(e).entries = es[i] /\ TargetLeaf(e).next = NextOf(ids, i)
      /\ es[i] \in EntrySets
      /\ \A j \in 1 .. Len(ids) : \A f : j < i /\ f \in es[j] => Less(f, e)
      /\ \A j \in 1 .. Len(ids) : \A f : j > i /\ f \in es[j] => Less(e, f)
<1>1. P(Place(e)) /\ Place(e) \in 1 .. Len(ids)
  BY TargetFacts
<1> HIDE DEF P
<1>2. \E i \in 1 .. Len(ids) : P(i)
  BY <1>1
<1> QED
  BY <1>2 DEF P

\* Leaves stay leaves while other records change.
LEMMA LeavesStay ==
  ASSUME NEW st, NEW new, NEW ids, NEW es, LeavesAre(st, ids, es),
         \A i \in 1 .. Len(ids) : Node(new, ids[i]) = Node(st, ids[i])
  PROVE  LeavesAre(new, ids, es)
BY DEF LeavesAre

\* The next of a leaf is an id.
LEMMA NextIsId ==
  ASSUME NEW ids \in Seq(Nat), NEW i \in 1 .. Len(ids)
  PROVE  NextOf(ids, i) \in Nat
<1>1. CASE i < Len(ids)
  <2>1. i + 1 \in 1 .. Len(ids)
    BY <1>1
  <2>2. ids[i + 1] \in Nat
    BY <2>1, ElementOfSeq
  <2> QED
    BY <1>1, <2>2 DEF NextOf
<1>2. CASE ~(i < Len(ids))
  BY <1>2 DEF NextOf, Nil
<1> QED
  BY <1>1, <1>2

\* Other entries in one leaf, still between those of its neighbours.
LEMMA ChangedEntries ==
  ASSUME NEW es, Ordered(es), NEW i \in 1 .. Len(es), NEW S \in EntrySets, Len(es) > 1 => S # {},
         \A j \in 1 .. Len(es) : \A f : \A g \in S : j < i /\ f \in es[j] => Less(f, g),
         \A j \in 1 .. Len(es) : \A f : \A g \in S : j > i /\ f \in es[j] => Less(g, f),
         NEW es2 \in Seq(EntrySets), Len(es2) = Len(es),
         \A j \in 1 .. Len(es) : es2[j] = IF j = i THEN S ELSE es[j]
  PROVE  Ordered(es2)
<1> DEFINE n == Len(es)
<1>1. es \in Seq(EntrySets) /\ es # <<>> /\ n \in Nat /\ n >= 1
      /\ (\A j, k \in 1 .. n : j < k => \A e \in es[j], f \in es[k] : Less(e, f))
      /\ (n > 1 => \A j \in 1 .. n : es[j] # {})
  BY EmptySeq DEF Ordered
<1>2. es2 \in Seq(EntrySets) /\ Len(es2) = n /\ \A j \in 1 .. n : es2[j] = IF j = i THEN S ELSE es[j]
  OBVIOUS
<1> HIDE DEF n
<1>3. es2 # <<>>
  BY <1>1, <1>2, EmptySeq
<1>4. ASSUME NEW j \in 1 .. n, NEW k \in 1 .. n, j < k, NEW e \in es2[j], NEW f \in es2[k] PROVE Less(e, f)
  <2>1. j # i \/ k # i
    BY <1>1, <1>4
  <2>2. CASE j = i
    BY <1>1, <1>2, <1>4, <2>1, <2>2 DEF n
  <2>3. CASE k = i
    BY <1>1, <1>2, <1>4, <2>1, <2>3 DEF n
  <2>4. CASE j # i /\ k # i
    BY <1>1, <1>2, <1>4, <2>4
  <2> QED
    BY <2>2, <2>3, <2>4
<1>5. n > 1 => \A j \in 1 .. n : es2[j] # {}
  BY <1>1, <1>2 DEF n
<1> QED
  BY <1>2, <1>3, <1>4, <1>5 DEF Ordered

\* One record is written, all others stay as they were.
OneWritten(st, f, a, x) == \A id : Node(f, id) = IF id = a THEN x ELSE Node(st, id)

\* A leaf is rewritten, then its separator in the root if there is one.
LEMMA ChangedLeaf ==
  ASSUME NEW st \in Seq(Nodes), NEW h, NEW ids, NEW es, TreeAt(st, h, ids, es),
         NEW i \in 1 .. Len(ids), NEW S \in EntrySets, NEW es2,
         Ordered(es2), Len(es2) = Len(es),
         \A j \in 1 .. Len(es) : es2[j] = IF j = i THEN S ELSE es[j],
         NEW s1, s1 = Put(st, ids[i], Leaf(S, NextOf(ids, i))),
         NEW s2, s2 = Put(s1, h.root, Internal(Separators(ids, es2)))
  PROVE  /\ s1 \in Seq(Nodes) /\ OneWritten(st, s1, ids[i], Leaf(S, NextOf(ids, i)))
         /\ h.height = 1 => TreeAt(s1, h, ids, es2)
         /\ h.height = 2 => /\ s2 \in Seq(Nodes) /\ TreeAt(s2, h, ids, es2)
                            /\ OneWritten(s1, s2, h.root, Internal(Separators(ids, es2)))
                            /\ \A j \in 1 .. Len(ids) : ids[j] # h.root
<1>1. /\ Ordered(es) /\ LeavesAre(st, ids, es) /\ RootIs(st, h, ids, es)
      /\ h \in Handles /\ h.first = ids[1]
      /\ Node(st, HeaderId) = Header(h.height, h.root, h.first)
  BY DEF TreeAt
<1>2. /\ ids \in Seq(Nat) /\ Len(ids) \in Nat /\ Len(es) = Len(ids)
      /\ \A j \in 1 .. Len(ids) : Node(st, ids[j]) = Leaf(es[j], NextOf(ids, j)) /\ Node(st, ids[j]) # Dead
  BY <1>1, LeafFacts
<1>3. NextOf(ids, i) \in Nat
  BY <1>2, NextIsId
<1>4. Leaf(S, NextOf(ids, i)) \in Nodes /\ Leaf(S, NextOf(ids, i)) # Dead
  BY <1>3, NodeKinds
<1>5. s1 \in Seq(Nodes) /\ \A j : Node(s1, j) = IF j = ids[i] THEN Leaf(S, NextOf(ids, i)) ELSE Node(st, j)
  BY <1>2, <1>4, PutNode
<1>6. \A j, k \in 1 .. Len(ids) : ids[j] = ids[k] => j = k
  BY <1>1 DEF LeavesAre
<1>7. LeavesAre(s1, ids, es2)
  <2>1. ASSUME NEW j \in 1 .. Len(ids) PROVE Node(s1, ids[j]) = Leaf(es2[j], NextOf(ids, j))
    BY <1>2, <1>5, <1>6
  <2> QED
    BY <1>2, <1>6, <2>1 DEF LeavesAre
<1>8. /\ \A j \in 1 .. Len(ids) : ids[j] # HeaderId
      /\ h.height = 2 => /\ Node(st, h.root) # Dead /\ h.root # HeaderId
                         /\ \A j \in 1 .. Len(ids) : ids[j] # h.root
  BY Apart
<1>9. Node(s1, HeaderId) = Header(h.height, h.root, h.first)
  BY <1>1, <1>5, <1>8
<1>10. ASSUME h.height = 1 PROVE TreeAt(s1, h, ids, es2)
  <2>1. RootIs(s1, h, ids, es2)
    BY <1>1, <1>10 DEF RootIs
  <2> QED
    BY <1>1, <1>7, <1>9, <2>1 DEF TreeAt
<1>11. ASSUME h.height = 2
       PROVE  /\ s2 \in Seq(Nodes) /\ TreeAt(s2, h, ids, es2)
              /\ OneWritten(s1, s2, h.root, Internal(Separators(ids, es2)))
              /\ \A j \in 1 .. Len(ids) : ids[j] # h.root
  <2>1. Len(ids) \in 2 .. InternalCapacity
    BY <1>1, <1>11 DEF RootIs
  <2>2. Separators(ids, es2) \in Roots
    BY <1>7, <2>1, SeparatorFacts
  <2>3. Internal(Separators(ids, es2)) \in Nodes
    BY <2>2, NodeKinds
  <2>4. Node(s1, h.root) # Dead
    BY <1>5, <1>8, <1>11
  <2>5. s2 \in Seq(Nodes)
        /\ \A j : Node(s2, j) = IF j = h.root THEN Internal(Separators(ids, es2)) ELSE Node(s1, j)
    BY <1>5, <2>3, <2>4, PutNode
  <2>6. LeavesAre(s2, ids, es2)
    BY <1>7, <1>8, <1>11, <2>5, LeavesStay
  <2>7. RootIs(s2, h, ids, es2)
    BY <1>11, <2>1, <2>5 DEF RootIs
  <2>8. Node(s2, HeaderId) = Header(h.height, h.root, h.first)
    BY <1>8, <1>9, <1>11, <2>5
  <2>9. TreeAt(s2, h, ids, es2)
    BY <1>1, <2>6, <2>7, <2>8 DEF TreeAt
  <2>10. OneWritten(s1, s2, h.root, Internal(Separators(ids, es2)))
    BY <2>5 DEF OneWritten
  <2> QED
    BY <1>8, <1>11, <2>5, <2>9, <2>10
<1>12. OneWritten(st, s1, ids[i], Leaf(S, NextOf(ids, i)))
  BY <1>5 DEF OneWritten
<1> QED
  BY <1>5, <1>10, <1>11, <1>12

\* The rewritten leaf and root, as insert and erase write them.
LEMMA LeafRewritten ==
  ASSUME NEW S, NEW T, NEW next
  PROVE  [Leaf(S, next) EXCEPT !.entries = T] = Leaf(T, next)
BY DEF Leaf

\* A store with records of two others, as interrupted writes leave it.
Mixed(s, st, f) == \A id : Node(s, id) = Node(st, id) \/ Node(s, id) = Node(f, id)
MixedWrites(w, st, f) == \A k \in 1 .. Len(w) : Mixed(w[k], st, f)

\* What an operation changes of the leaves ids, and which records it links in what order:
\* a leaf is rewritten; or split, its new right half in a record that was free; or removed,
\* its predecessor linked past it.
SameLeaves(st, f, ids, except) ==
  \A j \in 1 .. Len(ids) : j \notin except => Node(f, ids[j]) = Node(st, ids[j])
Rewritten(st, f, ids, ids2) ==
  ids2 = ids /\ \E i \in 1 .. Len(ids) : SameLeaves(st, f, ids, {i})
Divided(st, f, ids, ids2) ==
  /\ ids2[1] = ids[1]
  /\ \E i \in 1 .. Len(ids), new \in Nat \ {Nil} :
       /\ SameLeaves(st, f, ids, {i})
       /\ Node(st, new) = Dead /\ Node(f, ids[i]).next = new
       /\ \A j \in 1 .. Len(ids2) : ids2[j] = new \/ \E k \in 1 .. Len(ids) : ids2[j] = ids[k]
Removed(st, f, ids, ids2) ==
  \E i \in 1 .. Len(ids) :
    /\ SameLeaves(st, f, ids, {i - 1, i}) /\ Node(f, ids[i]) = Dead
    /\ i > 1 => ids2[1] = ids[1]
    /\ \A j \in 1 .. Len(ids2) : \E k \in 1 .. Len(ids) : k # i /\ ids2[j] = ids[k]
Changes(st, f, ids, ids2) ==
  Rewritten(st, f, ids, ids2) \/ Divided(st, f, ids, ids2) \/ Removed(st, f, ids, ids2)

\* The writes w lead from the tree of the leaves ids to one with the entries m.
NoMore(st, h, ids, f, h2, ids2) == \A id : Outside(f, h2, ids2, id) => Outside(st, h, ids, id)
Leads(w, h, m, ids) ==
  /\ w \in Seq(Seq(Nodes)) /\ w # <<>> /\ MixedWrites(w, store, Last(w))
  /\ \E ids2 \in Seq(Nat), es2 \in Seq(EntrySets) :
       /\ TreeAt(Last(w), h, ids2, es2) /\ m = AllOf(es2)
       /\ NoMore(store, handle, ids, Last(w), h, ids2)
       /\ Changes(store, Last(w), ids, ids2)
Begun(ids) == \E w, h, m : Begin(w, h, m) /\ Leads(w, h, m, ids)

\* The last element of a sequence.
LEMMA LastOfSeq ==
  ASSUME NEW S, NEW w \in Seq(S), w # <<>>
  PROVE  Last(w) \in S /\ Len(w) \in Nat /\ Len(w) \in 1 .. Len(w)
<1>1. Len(w) \in Nat /\ Len(w) # 0
  BY EmptySeq, LenProperties
<1>2. Len(w) \in 1 .. Len(w)
  BY <1>1
<1> QED
  BY <1>1, <1>2, ElementOfSeq DEF Last

\* An operation on a tree without other records begins with writes whose last one leaves
\* such a tree.
LEMMA BegunIInv ==
  ASSUME IInv, Ready, NEW ids, NEW es, TreeAt(store, handle, ids, es), Whole(store, handle, ids), Begun(ids)
  PROVE  IInv'
<1>1. PICK w, h, m : Begin(w, h, m) /\ Leads(w, h, m, ids)
  BY DEF Begun
<1>2. handle \in Handles /\ store \in Seq(Nodes) /\ phase = "open" /\ model \in SUBSET Universe
  BY ReadyTree DEF TreeAt, IInv
<1>3. op' = [writes |-> w, handle |-> h, result |-> m]
      /\ store' = store /\ handle' = handle /\ phase' = phase /\ model' = model
  BY <1>1 DEF Begin
<1>4. PICK f : f = Last(w)
  OBVIOUS
<1>5. PICK ids2 \in Seq(Nat), es2 \in Seq(EntrySets) :
        TreeAt(f, h, ids2, es2) /\ m = AllOf(es2) /\ NoMore(store, handle, ids, f, h, ids2)
  BY <1>1, <1>4 DEF Leads
<1>6. w \in Seq(Seq(Nodes)) /\ w # <<>> /\ f \in Seq(Nodes)
  BY <1>1, <1>4, LastOfSeq DEF Leads
<1>7. Whole(f, h, ids2)
  BY <1>5 DEF Whole, NoMore
<1>8. IsTree(f, h, m)
  BY <1>5, <1>6, <1>7 DEF IsTree
<1>9. h \in Handles /\ m \in SUBSET Universe
  BY <1>8, TreeTypes
<1>10. op'.writes = w /\ op'.handle = h /\ op'.result = m
       /\ op' \in [writes : Seq(Seq(Nodes)), handle : Handles, result : SUBSET Universe]
  BY <1>3, <1>6, <1>9
<1>11. Writing'
  BY <1>4, <1>6, <1>8, <1>10 DEF Writing
<1> QED
  BY <1>2, <1>3, <1>11 DEF IInv

\* One or two stores in a row.
LEMMA OneOrTwoWrites ==
  ASSUME NEW s1 \in Seq(Nodes), NEW s2 \in Seq(Nodes)
  PROVE  /\ <<s1>> \in Seq(Seq(Nodes)) /\ <<s1>> # <<>> /\ Last(<<s1>>) = s1
         /\ <<s1, s2>> \in Seq(Seq(Nodes)) /\ <<s1, s2>> # <<>> /\ Last(<<s1, s2>>) = s2
<1>1. <<s1>> \in Seq(Seq(Nodes)) /\ Len(<<s1>>) = 1 /\ <<s1>>[1] = s1
  OBVIOUS
<1>2. <<s1, s2>> \in Seq(Seq(Nodes)) /\ Len(<<s1, s2>>) = 2 /\ <<s1, s2>>[2] = s2
  OBVIOUS
<1> QED
  BY <1>1, <1>2, EmptySeq DEF Last

\* Writes that mix two stores, put together.
LEMMA MixedSequences ==
  ASSUME NEW st, NEW f
  PROVE  /\ MixedWrites(<<>>, st, f)
         /\ \A s1 : Mixed(s1, st, f) => MixedWrites(<<s1>>, st, f)
         /\ \A s1, s2 : Mixed(s1, st, f) /\ Mixed(s2, st, f) => MixedWrites(<<s1, s2>>, st, f)
         /\ \A x, v \in Seq(Seq(Nodes)) :
              MixedWrites(x, st, f) /\ MixedWrites(v, st, f) => MixedWrites(x \o v, st, f)
<1>1. MixedWrites(<<>>, st, f)
  BY DEF MixedWrites
<1>2. ASSUME NEW s1, Mixed(s1, st, f) PROVE MixedWrites(<<s1>>, st, f)
  <2>1. \A k \in 1 .. Len(<<s1>>) : k = 1 /\ <<s1>>[k] = s1
    OBVIOUS
  <2> QED
    BY <1>2, <2>1 DEF MixedWrites
<1>3. ASSUME NEW s1, NEW s2, Mixed(s1, st, f), Mixed(s2, st, f) PROVE MixedWrites(<<s1, s2>>, st, f)
  <2>1. \A k \in 1 .. Len(<<s1, s2>>) : <<s1, s2>>[k] = s1 \/ <<s1, s2>>[k] = s2
    OBVIOUS
  <2> QED
    BY <1>3, <2>1 DEF MixedWrites
<1>4. ASSUME NEW x \in Seq(Seq(Nodes)), NEW v \in Seq(Seq(Nodes)), MixedWrites(x, st, f), MixedWrites(v, st, f)
      PROVE  MixedWrites(x \o v, st, f)
  <2>1. PICK X : X = Seq(Nodes)
    OBVIOUS
  <2>2. x \in Seq(X) /\ v \in Seq(X)
    BY <2>1
  <2> DEFINE a == Len(x)
             b == Len(v)
             c == x \o v
  <2>3. a \in Nat /\ b \in Nat
    BY <2>2, LenProperties
  <2>4. Len(c) = a + b /\ \A k \in 1 .. a + b : c[k] = IF k <= a THEN x[k] ELSE v[k - a]
    BY <2>2, ConcatProperties
  <2> HIDE DEF c
  <2>5. ASSUME NEW k \in 1 .. a + b
        PROVE  (\E j \in 1 .. a : c[k] = x[j]) \/ (\E j \in 1 .. b : c[k] = v[j])
    <3> HIDE DEF a, b
    <3>1. CASE k <= a
      BY <2>3, <2>4, <3>1
    <3>2. CASE ~(k <= a)
      <4>1. k - a \in 1 .. b /\ c[k] = v[k - a]
        BY <2>3, <2>4, <3>2
      <4> QED
        BY <4>1
    <3> QED
      BY <3>1, <3>2
  <2>6. \A k \in 1 .. Len(c) : Mixed(c[k], st, f)
    BY <1>4, <2>4, <2>5 DEF MixedWrites
  <2> QED
    BY <2>6 DEF MixedWrites, c
<1> QED
  BY <1>1, <1>2, <1>3, <1>4

\* A leaf with other entries, written as insert and erase write it.
LEMMA LeafChanged ==
  ASSUME store \in Seq(Nodes), NEW e \in Universe, NEW ids \in Seq(Nat), NEW es \in Seq(EntrySets),
         TreeAt(store, handle, ids, es), NEW S \in EntrySets, Len(ids) > 1 => S # {},
         \A f \in S : f \in TargetLeaf(e).entries \/ f = e,
         NEW m, m = (model \ TargetLeaf(e).entries) \cup S, model = AllOf(es),
         NEW s1, s1 = Put(store, Target(e), [TargetLeaf(e) EXCEPT !.entries = S]),
         NEW s2, s2 = Put(s1, handle.root, Internal([Children EXCEPT ![ChildIndex(e)].high = High(S)])),
         Begin(IF handle.height = 2 THEN <<s1, s2>> ELSE <<s1>>, handle, m)
  PROVE  Begun(ids)
<1>1. store \in Seq(Nodes)
  OBVIOUS
<1>2. PICK i \in 1 .. Len(ids) :
      /\ handle.height = 2 => ChildIndex(e) = i
      /\ Target(e) = ids[i] /\ TargetLeaf(e) = Leaf(es[i], NextOf(ids, i)) /\ TargetLeaf(e).entries = es[i]
      /\ es[i] \in EntrySets
      /\ \A j \in 1 .. Len(ids) : \A f : j < i /\ f \in es[j] => Less(f, e)
      /\ \A j \in 1 .. Len(ids) : \A f : j > i /\ f \in es[j] => Less(e, f)
  BY TargetPlace
<1>3. /\ handle.height \in {1, 2} /\ Ordered(es) /\ LeavesAre(store, ids, es)
      /\ handle.height = 2 => Children = Separators(ids, es)
  BY ChildrenAre
<1>4. Len(es) = Len(ids) /\ Len(ids) \in Nat
  BY <1>3, LeafFacts
<1>5. \A j \in 1 .. Len(es) : \A f : \A g \in S : j < i /\ f \in es[j] => Less(f, g)
  BY <1>2, <1>3, <1>4 DEF Ordered
<1>6. \A j \in 1 .. Len(es) : \A f : \A g \in S : j > i /\ f \in es[j] => Less(g, f)
  BY <1>2, <1>3, <1>4 DEF Ordered
<1>7. PICK es2 : /\ Ordered(es2) /\ Len(es2) = Len(es)
                 /\ \A j \in 1 .. Len(es) : es2[j] = IF j = i THEN S ELSE es[j]
  <2>1. i \in 1 .. Len(es) /\ (Len(es) > 1 => S # {}) /\ Ordered(es)
    BY <1>3, <1>4
  <2>2. PICK es2 : es2 = [es EXCEPT ![i] = S]
    OBVIOUS
  <2>3. es2 \in Seq(EntrySets) /\ Len(es2) = Len(es) /\ \A j \in 1 .. Len(es) : es2[j] = IF j = i THEN S ELSE es[j]
    BY <2>1, <2>2, ExceptSeq
  <2>4. Ordered(es2)
    BY <1>5, <1>6, <2>1, <2>3, ChangedEntries
  <2> QED
    BY <2>3, <2>4
<1>8. s1 = Put(store, ids[i], Leaf(S, NextOf(ids, i)))
  <2>1. [TargetLeaf(e) EXCEPT !.entries = S] = Leaf(S, NextOf(ids, i))
    BY <1>2, LeafRewritten
  <2> QED
    BY <1>2, <2>1
<1>9. handle.height = 2 => s2 = Put(s1, handle.root, Internal(Separators(ids, es2)))
  <2>1. ASSUME handle.height = 2
        PROVE  [Children EXCEPT ![ChildIndex(e)].high = High(S)] = Separators(ids, es2)
    <3>1. Children = Separators(ids, es) /\ ChildIndex(e) = i
      BY <1>2, <1>3, <2>1
    <3>2. \A j \in 1 .. Len(ids) : es2[j] = IF j = i THEN S ELSE es[j]
      BY <1>4, <1>7
    <3> DEFINE a == Separators(ids, es)
               b == Separators(ids, es2)
               c == [a EXCEPT ![i].high = High(S)]
    <3>3. a = [j \in 1 .. Len(ids) |-> Child(High(es[j]), ids[j])]
          /\ b = [j \in 1 .. Len(ids) |-> Child(High(es2[j]), ids[j])]
      BY DEF Separators
    <3>4. c = [j \in 1 .. Len(ids) |-> IF j = i THEN [a[j] EXCEPT !.high = High(S)] ELSE a[j]]
      BY <3>3
    <3>5. ASSUME NEW j \in 1 .. Len(ids)
          PROVE  (IF j = i THEN [a[j] EXCEPT !.high = High(S)] ELSE a[j]) = Child(High(es2[j]), ids[j])
      <4>1. a[j] = Child(High(es[j]), ids[j])
        BY <3>3
      <4>2. [Child(High(es[j]), ids[j]) EXCEPT !.high = High(S)] = Child(High(S), ids[j])
        BY DEF Child
      <4> QED
        BY <3>2, <4>1, <4>2
    <3> HIDE DEF a, b, c
    <3>6. c = b
      BY <3>3, <3>4, <3>5
    <3> QED
      BY <3>1, <3>6 DEF a, b, c
  <2> QED
    BY <2>1
<1>10. /\ s1 \in Seq(Nodes) /\ OneWritten(store, s1, ids[i], Leaf(S, NextOf(ids, i)))
       /\ handle.height = 1 => TreeAt(s1, handle, ids, es2)
       /\ handle.height = 2 => /\ s2 \in Seq(Nodes) /\ TreeAt(s2, handle, ids, es2)
                               /\ OneWritten(s1, s2, handle.root, Internal(Separators(ids, es2)))
                               /\ \A j \in 1 .. Len(ids) : ids[j] # handle.root
  <2> DEFINE t2 == Put(s1, handle.root, Internal(Separators(ids, es2)))
  <2>1. t2 = Put(s1, handle.root, Internal(Separators(ids, es2)))
    OBVIOUS
  <2> HIDE DEF t2
  <2>2. /\ s1 \in Seq(Nodes) /\ OneWritten(store, s1, ids[i], Leaf(S, NextOf(ids, i)))
        /\ handle.height = 1 => TreeAt(s1, handle, ids, es2)
        /\ handle.height = 2 => /\ t2 \in Seq(Nodes) /\ TreeAt(t2, handle, ids, es2)
                                /\ OneWritten(s1, t2, handle.root, Internal(Separators(ids, es2)))
                                /\ \A j \in 1 .. Len(ids) : ids[j] # handle.root
    BY <1>1, <1>2, <1>7, <1>8, <2>1, ChangedLeaf
  <2> QED
    BY <1>9, <2>1, <2>2
<1>11. es2 \in Seq(EntrySets)
  BY <1>7 DEF Ordered
<1>12. AllOf(es2) = m
  <2>1. ASSUME NEW f, f \in AllOf(es2) PROVE f \in m
    <3>1. PICK j \in 1 .. Len(es) : f \in es2[j]
      BY <1>7, <2>1, AllOfMeaning
    <3>2. CASE j = i
      BY <1>7, <3>1, <3>2
    <3>3. CASE j # i
      <4>1. f \in es[j]
        BY <1>7, <3>1, <3>3
      <4>2. f \in model
        BY <4>1, AllOfMeaning
      <4>3. f \notin es[i]
        <5>1. ASSUME f \in es[i] PROVE FALSE
          <6>1. Less(f, f)
            <7>1. \A a, b \in 1 .. Len(es) : a < b => \A g \in es[a], k \in es[b] : Less(g, k)
              BY <1>3 DEF Ordered
            <7>2. i \in 1 .. Len(es) /\ (j < i \/ i < j)
              BY <1>2, <1>4, <3>3
            <7> QED
              BY ONLY <4>1, <5>1, <7>1, <7>2
          <6>2. f \in Pairs
            BY <1>2, <5>1, EntrySetFacts
          <6> QED
            BY <6>1, <6>2, LessOrder
        <5> QED
          BY <5>1
      <4> QED
        BY <1>2, <4>2, <4>3
    <3> QED
      BY <3>2, <3>3
  <2>2. ASSUME NEW f, f \in m PROVE f \in AllOf(es2)
    <3>1. CASE f \in S
      <4>1. f \in es2[i] /\ i \in 1 .. Len(es2)
        BY <1>2, <1>4, <1>7, <3>1
      <4> QED
        BY <4>1, AllOfMeaning
    <3>2. CASE f \notin S
      <4>1. f \in model /\ f \notin es[i]
        BY <1>2, <2>2, <3>2
      <4>2. PICK j \in 1 .. Len(es) : f \in es[j]
        BY <4>1, AllOfMeaning
      <4>3. f \in es2[j] /\ j \in 1 .. Len(es2)
        BY <1>7, <4>1, <4>2
      <4> QED
        BY <4>3, AllOfMeaning
    <3> QED
      BY <3>1, <3>2
  <2> QED
    BY <2>1, <2>2
<1>13. /\ \A j \in 1 .. Len(ids) : ids[j] = ids[i] => j = i
       /\ \A j \in 1 .. Len(ids) : Node(store, ids[j]) # Dead
       /\ ids[i] # HeaderId
  <2>1. \A j \in 1 .. Len(ids) : ids[j] = ids[i] => j = i
    BY <1>3 DEF LeavesAre
  <2>2. \A j \in 1 .. Len(ids) : Node(store, ids[j]) # Dead
    BY <1>3, LeafFacts
  <2> QED
    BY <2>1, <2>2, Apart
<1>14. CASE handle.height = 1
  <2>1. <<s1>> \in Seq(Seq(Nodes)) /\ <<s1>> # <<>> /\ Last(<<s1>>) = s1
    BY <1>10, OneOrTwoWrites
  <2>2. Begin(<<s1>>, handle, m)
    BY <1>14
  <2>3. Changes(store, s1, ids, ids)
    BY <1>10, <1>13 DEF OneWritten, SameLeaves, Rewritten, Changes
  <2>4. NoMore(store, handle, ids, s1, handle, ids)
    BY <1>10, <1>13 DEF OneWritten, NoMore, Outside
  <2>5. MixedWrites(<<s1>>, store, s1)
    BY MixedSequences DEF Mixed
  <2>6. Leads(<<s1>>, handle, m, ids)
    BY <1>10, <1>11, <1>12, <1>14, <2>1, <2>3, <2>4, <2>5 DEF Leads
  <2> QED
    BY <2>2, <2>6 DEF Begun
<1>15. CASE handle.height = 2
  <2>1. <<s1, s2>> \in Seq(Seq(Nodes)) /\ <<s1, s2>> # <<>> /\ Last(<<s1, s2>>) = s2
    BY <1>10, <1>15, OneOrTwoWrites
  <2>2. Begin(<<s1, s2>>, handle, m)
    BY <1>15
  <2>3. Changes(store, s2, ids, ids)
    <3>1. ASSUME NEW j \in 1 .. Len(ids), j # i PROVE Node(s2, ids[j]) = Node(store, ids[j])
      BY <1>10, <1>13, <1>15, <3>1 DEF OneWritten
    <3> QED
      BY <3>1 DEF SameLeaves, Rewritten, Changes
  <2>4. NoMore(store, handle, ids, s2, handle, ids)
    <3>1. ASSUME NEW id, Outside(s2, handle, ids, id) PROVE Outside(store, handle, ids, id)
      BY <1>10, <1>15, <3>1 DEF OneWritten, Outside
    <3> QED
      BY <3>1 DEF NoMore
  <2>5. MixedWrites(<<s1, s2>>, store, s2)
    <3>1. Mixed(s1, store, s2) /\ Mixed(s2, store, s2)
      BY <1>10, <1>15 DEF OneWritten, Mixed
    <3> QED
      BY <3>1, MixedSequences
  <2>6. Leads(<<s1, s2>>, handle, m, ids)
    BY <1>10, <1>11, <1>12, <1>15, <2>1, <2>3, <2>4, <2>5 DEF Leads
  <2> QED
    BY <2>2, <2>6 DEF Begun
<1> QED
  BY <1>3, <1>14, <1>15

\* An entry is put into a leaf with room.
LEMMA InsertInLeafLeads ==
  ASSUME store \in Seq(Nodes), NEW ids \in Seq(Nat), NEW es \in Seq(EntrySets),
         TreeAt(store, handle, ids, es), model = AllOf(es), NEW e \in Universe, InsertInLeaf(e)
  PROVE  Begun(ids)
<1>1. TreeAt(store, handle, ids, es) /\ model = AllOf(es)
  OBVIOUS
<1> DEFINE old == TargetLeaf(e).entries
           grown == old \cup {e}
           s1 == Put(store, Target(e), [TargetLeaf(e) EXCEPT !.entries = grown])
           s2 == Put(s1, handle.root, Internal([Children EXCEPT ![ChildIndex(e)].high = High(grown)]))
<1>2. /\ e \notin old /\ HasRoom(old)
      /\ Begin(IF handle.height = 2 THEN <<s1, s2>> ELSE <<s1>>, handle, model \cup {e})
  BY DEF InsertInLeaf
<1>3. old = es[Place(e)] /\ Place(e) \in 1 .. Len(ids) /\ es[Place(e)] \in EntrySets
  BY <1>1, TargetFacts
<1>4. old \in SUBSET Universe /\ IsFiniteSet(old) /\ Cardinality(old) < LeafCapacity
  BY <1>2, <1>3, EntrySetFacts DEF HasRoom
<1>5. grown \in EntrySets
  <2> HIDE DEF old
  <2>1. IsFiniteSet(grown) /\ Cardinality(grown) = Cardinality(old) + 1
    BY <1>2, <1>4, FS_AddElement
  <2>2. Cardinality(old) \in Nat /\ LeafCapacity \in Nat
    BY <1>4, FS_CardinalityType, CapacityAssumption
  <2>3. Cardinality(grown) <= LeafCapacity
    BY <1>4, <2>1, <2>2
  <2> QED
    BY <1>4, <2>1, <2>3 DEF EntrySets
<1>6. \A f \in old : f \in model
  <2>1. Ordered(es) /\ LeavesAre(store, ids, es)
    BY <1>1 DEF TreeAt
  <2>2. Len(es) = Len(ids)
    BY <2>1, LeafFacts
  <2> QED
    BY <1>1, <1>3, <2>2, AllOfMeaning
<1> HIDE DEF old
<1>7. model \cup {e} = (model \ old) \cup grown
  BY <1>6
<1>8. grown # {} /\ \A f \in grown : f \in old \/ f = e
  OBVIOUS
<1> HIDE DEF grown, s1, s2
<1>9. /\ s1 = Put(store, Target(e), [TargetLeaf(e) EXCEPT !.entries = grown])
      /\ s2 = Put(s1, handle.root, Internal([Children EXCEPT ![ChildIndex(e)].high = High(grown)]))
  BY DEF s1, s2
<1> QED
  BY <1>1, <1>2, <1>5, <1>7, <1>8, <1>9, LeafChanged DEF old

\* An entry is taken out of a leaf that keeps another, or is the only one.
LEMMA EraseInLeafLeads ==
  ASSUME store \in Seq(Nodes), NEW ids \in Seq(Nat), NEW es \in Seq(EntrySets),
         TreeAt(store, handle, ids, es), model = AllOf(es), NEW e \in Universe, EraseInLeaf(e)
  PROVE  Begun(ids)
<1>1. TreeAt(store, handle, ids, es) /\ model = AllOf(es)
  OBVIOUS
<1> DEFINE old == TargetLeaf(e).entries
           rest == old \ {e}
           s1 == Put(store, Target(e), [TargetLeaf(e) EXCEPT !.entries = rest])
           s2 == Put(s1, handle.root, Internal([Children EXCEPT ![ChildIndex(e)].high = High(rest)]))
<1>2. /\ e \in old /\ (handle.height = 1 \/ rest # {})
      /\ Begin(IF handle.height = 2 THEN <<s1, s2>> ELSE <<s1>>, handle, model \ {e})
  BY DEF EraseInLeaf
<1>3. old = es[Place(e)] /\ Place(e) \in 1 .. Len(ids) /\ es[Place(e)] \in EntrySets
  BY <1>1, TargetFacts
<1>4. old \in SUBSET Universe /\ IsFiniteSet(old) /\ Cardinality(old) <= LeafCapacity
  BY <1>3, EntrySetFacts
<1>5. rest \in EntrySets
  <2> HIDE DEF old
  <2>1. rest \in SUBSET old
    OBVIOUS
  <2>2. IsFiniteSet(rest) /\ Cardinality(rest) <= Cardinality(old)
    BY <1>4, <2>1, FS_Subset
  <2>3. Cardinality(old) \in Nat /\ Cardinality(rest) \in Nat /\ LeafCapacity \in Nat
    BY <1>4, <2>2, FS_CardinalityType, CapacityAssumption
  <2>4. Cardinality(rest) <= LeafCapacity
    BY <1>4, <2>2, <2>3
  <2> QED
    BY <1>4, <2>1, <2>2, <2>4 DEF EntrySets
<1>6. \A f \in old : f \in model
  <2>1. Ordered(es) /\ LeavesAre(store, ids, es)
    BY <1>1 DEF TreeAt
  <2>2. Len(es) = Len(ids)
    BY <2>1, LeafFacts
  <2> QED
    BY <1>1, <1>3, <2>2, AllOfMeaning
<1> HIDE DEF old
<1>7. model \ {e} = (model \ old) \cup rest
  BY <1>2, <1>6
<1>8. (Len(ids) > 1 => rest # {}) /\ \A f \in rest : f \in old \/ f = e
  BY <1>1, <1>2, ChildrenAre
<1> HIDE DEF rest, s1, s2
<1>9. /\ s1 = Put(store, Target(e), [TargetLeaf(e) EXCEPT !.entries = rest])
      /\ s2 = Put(s1, handle.root, Internal([Children EXCEPT ![ChildIndex(e)].high = High(rest)]))
  BY DEF s1, s2
<1> QED
  BY <1>1, <1>2, <1>5, <1>7, <1>8, <1>9, LeafChanged DEF old

-----------------------------------------------------------------------------
(***************************************************************************)
(* Splitting a leaf.                                                       *)
(***************************************************************************)

\* The entry sets after leaf i has been split in two.
SplitSets(es, i, left, right, es2) ==
  /\ es2 \in Seq(EntrySets) /\ Len(es2) = Len(es) + 1
  /\ \A j \in 1 .. Len(es) + 1 : /\ j < i => es2[j] = es[j]
                                 /\ j = i => es2[j] = left
                                 /\ j = i + 1 => es2[j] = right
                                 /\ j > i + 1 => es2[j] = es[j - 1]

\* The two halves of a sorted set: neither is empty, the left one is less.
LEMMA HalvesFacts ==
  ASSUME NEW S \in SUBSET Pairs, IsFiniteSet(S), NEW m \in 1 .. Cardinality(S) - 1,
         NEW left, left = ToSet(SubSeq(Sorted(S), 1, m)),
         NEW right, right = ToSet(SubSeq(Sorted(S), m + 1, Cardinality(S)))
  PROVE  /\ left \cup right = S /\ left # {} /\ right # {}
         /\ \A f \in left : \A g \in right : Less(f, g)
         /\ IsFiniteSet(left) /\ IsFiniteSet(right)
         /\ Cardinality(left) < Cardinality(S) /\ Cardinality(right) < Cardinality(S)
<1> DEFINE all == Sorted(S)
           n == Cardinality(S)
<1>1. n \in Nat /\ m \in Nat /\ m >= 1 /\ m < n
  <2>1. n \in Nat
    BY FS_CardinalityType
  <2> QED
    BY <2>1
<1>2. /\ all \in Seq(S) /\ Len(all) = n
      /\ \A i \in 1 .. n : all[i] \in S
      /\ \A i, j \in 1 .. n : i < j => Less(all[i], all[j])
      /\ \A e \in S : \E i \in 1 .. n : all[i] = e
  BY SortedIsSorted
<1> DEFINE l == SubSeq(all, 1, m)
           r == SubSeq(all, m + 1, n)
<1> HIDE DEF all, n
<1>3. DOMAIN l = 1 .. m /\ \A i \in 1 .. m : l[i] = all[i]
  BY <1>1, <1>2, PartOfSeq
<1>4. DOMAIN r = 1 .. n - m /\ \A i \in 1 .. n - m : r[i] = all[m + i]
  <2>1. m + 1 \in 1 .. Len(all) + 1 /\ n \in (m + 1) - 1 .. Len(all)
    BY <1>1, <1>2
  <2>2. DOMAIN r = 1 .. n - (m + 1) + 1 /\ \A i \in 1 .. n - (m + 1) + 1 : r[i] = all[(m + 1) + i - 1]
    BY <1>2, <2>1, PartOfSeq
  <2>3. n - (m + 1) + 1 = n - m /\ \A i \in 1 .. n - m : (m + 1) + i - 1 = m + i
    BY <1>1
  <2> QED
    BY <2>2, <2>3
<1>5. left = {all[i] : i \in 1 .. m}
  <2>1. left = {l[i] : i \in DOMAIN l}
    BY DEF ToSet, all
  <2> QED
    BY <1>3, <2>1
<1>6. right = {all[i] : i \in m + 1 .. n}
  <2>1. right = {r[i] : i \in DOMAIN r}
    BY DEF ToSet, all, n
  <2>2. ASSUME NEW x, x \in right PROVE x \in {all[i] : i \in m + 1 .. n}
    <3>1. PICK i \in 1 .. n - m : x = all[m + i]
      BY <1>4, <2>1, <2>2
    <3>2. m + i \in m + 1 .. n
      BY <1>1
    <3> QED
      BY <3>1, <3>2
  <2>3. ASSUME NEW i \in m + 1 .. n PROVE all[i] \in right
    <3>1. i - m \in 1 .. n - m /\ m + (i - m) = i
      BY <1>1
    <3>2. r[i - m] = all[i]
      BY <1>4, <3>1
    <3> QED
      BY <1>4, <2>1, <3>1, <3>2
  <2> QED
    BY <2>2, <2>3
<1>7. left \cup right = S
  <2>1. ASSUME NEW e \in S PROVE e \in left \cup right
    <3>1. PICK i \in 1 .. n : all[i] = e
      BY <1>2
    <3>2. i \in 1 .. m \/ i \in m + 1 .. n
      BY <1>1
    <3> QED
      BY <1>5, <1>6, <3>1, <3>2
  <2>2. \A i \in 1 .. m : i \in 1 .. n
    BY <1>1
  <2>3. \A i \in m + 1 .. n : i \in 1 .. n
    BY <1>1
  <2> QED
    BY <1>2, <1>5, <1>6, <2>1, <2>2, <2>3
<1>8. left # {} /\ right # {}
  <2>1. 1 \in 1 .. m /\ n \in m + 1 .. n
    BY <1>1
  <2> QED
    BY <1>5, <1>6, <2>1
<1>9. ASSUME NEW f \in left, NEW g \in right PROVE Less(f, g)
  <2>1. PICK i \in 1 .. m : f = all[i]
    BY <1>5
  <2>2. PICK j \in m + 1 .. n : g = all[j]
    BY <1>6
  <2>3. i \in 1 .. n /\ j \in 1 .. n /\ i < j
    BY <1>1
  <2> QED
    BY <1>2, <2>1, <2>2, <2>3
<1>10. left \cap right = {}
  BY <1>7, <1>9, LessOrder
<1>11. /\ IsFiniteSet(left) /\ IsFiniteSet(right)
       /\ Cardinality(left) < Cardinality(S) /\ Cardinality(right) < Cardinality(S)
  <2>1. left \subseteq S /\ right \subseteq S /\ left # S /\ right # S
    BY <1>7, <1>8, <1>10
  <2>2. /\ IsFiniteSet(left) /\ Cardinality(left) <= Cardinality(S) /\ Cardinality(left) # Cardinality(S)
        /\ IsFiniteSet(right) /\ Cardinality(right) <= Cardinality(S) /\ Cardinality(right) # Cardinality(S)
    BY <2>1, FS_Subset
  <2>3. Cardinality(left) \in Nat /\ Cardinality(right) \in Nat /\ Cardinality(S) \in Nat
    BY <2>2, FS_CardinalityType
  <2> QED
    BY <2>2, <2>3
<1> QED
  BY <1>7, <1>8, <1>9, <1>11

\* The split leaf in the sequence of all.
LEMMA SplitSequence ==
  ASSUME NEW es \in Seq(EntrySets), NEW i \in 1 .. Len(es), NEW left \in EntrySets, NEW right \in EntrySets,
         NEW es1, es1 = [es EXCEPT ![i] = left], NEW es2, es2 = InsertAt(es1, i + 1, right)
  PROVE  SplitSets(es, i, left, right, es2)
<1> DEFINE n == Len(es)
           k == i + 1
<1>1. n \in Nat /\ i \in 1 .. n /\ k \in 1 .. n + 1 /\ i \in Nat /\ k = i + 1
  OBVIOUS
<1>2. es1 \in Seq(EntrySets) /\ Len(es1) = n /\ \A j \in 1 .. n : es1[j] = IF j = i THEN left ELSE es[j]
  BY ExceptSeq
<1>3. es2 = InsertAt(es1, k, right) /\ es \in Seq(EntrySets)
  OBVIOUS
<1> HIDE DEF n, k
<1>4. /\ es2 \in Seq(EntrySets) /\ Len(es2) = n + 1
      /\ \A j \in 1 .. n + 1 : /\ j < k => es2[j] = es1[j]
                               /\ j = k => es2[j] = right
                               /\ j > k => es2[j] = es1[j - 1]
  <2>1. k \in 1 .. Len(es1) + 1 /\ es1 \in Seq(EntrySets)
    BY <1>1, <1>2
  <2>2. /\ es2 \in Seq(EntrySets) /\ Len(es2) = Len(es1) + 1
        /\ \A j \in 1 .. Len(es1) + 1 : /\ j < k => es2[j] = es1[j]
                                        /\ j = k => es2[j] = right
                                        /\ j > k => es2[j] = es1[j - 1]
    <3>1. right \in EntrySets
      OBVIOUS
    <3>2. /\ InsertAt(es1, k, right) \in Seq(EntrySets) /\ Len(InsertAt(es1, k, right)) = Len(es1) + 1
          /\ \A j \in 1 .. Len(es1) + 1 : /\ j < k => InsertAt(es1, k, right)[j] = es1[j]
                                          /\ j = k => InsertAt(es1, k, right)[j] = right
                                          /\ j > k => InsertAt(es1, k, right)[j] = es1[j - 1]
      BY ONLY <2>1, <3>1, InsertedAt
    <3> QED
      BY <1>3, <3>2
  <2> QED
    BY <1>2, <2>2
<1>5. ASSUME NEW j \in 1 .. n + 1
      PROVE  /\ j < i => es2[j] = es[j]
             /\ j = i => es2[j] = left
             /\ j = i + 1 => es2[j] = right
             /\ j > i + 1 => es2[j] = es[j - 1]
  <2>1. j < i => j < k /\ j \in 1 .. n /\ j # i
    BY <1>1
  <2>2. j = i => j < k /\ j \in 1 .. n
    BY <1>1
  <2>3. j > i + 1 => j > k /\ j - 1 \in 1 .. n /\ j - 1 # i
    BY <1>1
  <2> QED
    BY <1>1, <1>2, <1>4, <2>1, <2>2, <2>3
<1> QED
  BY <1>4, <1>5 DEF SplitSets, n

\* The split keeps the order of the leaves.
LEMMA SplitEntries ==
  ASSUME NEW es, Ordered(es), NEW i \in 1 .. Len(es), NEW left, NEW right, left # {}, right # {},
         \A f \in left : \A g \in right : Less(f, g),
         \A j \in 1 .. Len(es) : \A f : \A g \in left \cup right : j < i /\ f \in es[j] => Less(f, g),
         \A j \in 1 .. Len(es) : \A f : \A g \in left \cup right : j > i /\ f \in es[j] => Less(g, f),
         NEW es2, SplitSets(es, i, left, right, es2)
  PROVE  Ordered(es2)
<1> DEFINE n == Len(es)
<1>1. /\ es \in Seq(EntrySets) /\ n \in Nat /\ n >= 1 /\ i \in 1 .. n /\ i \in Nat
      /\ \A j, k \in 1 .. n : j < k => \A e \in es[j], f \in es[k] : Less(e, f)
      /\ n > 1 => \A j \in 1 .. n : es[j] # {}
  BY EmptySeq DEF Ordered
<1>2. /\ es2 \in Seq(EntrySets) /\ Len(es2) = n + 1
      /\ \A j \in 1 .. n + 1 : /\ j < i => es2[j] = es[j]
                               /\ j = i => es2[j] = left
                               /\ j = i + 1 => es2[j] = right
                               /\ j > i + 1 => es2[j] = es[j - 1]
  BY DEF SplitSets
<1>3. /\ \A j \in 1 .. n : \A f : \A g \in left \cup right : j < i /\ f \in es[j] => Less(f, g)
      /\ \A j \in 1 .. n : \A f : \A g \in left \cup right : j > i /\ f \in es[j] => Less(g, f)
  OBVIOUS
<1> HIDE DEF n
<1>4. es2 # <<>>
  <2>1. n + 1 > 0
    BY <1>1
  <2> QED
    BY <1>2, <2>1, EmptySeq
<1> DEFINE from(j) == IF j <= i THEN j ELSE j - 1
<1>5. ASSUME NEW j \in 1 .. n + 1
      PROVE  /\ from(j) \in 1 .. n
             /\ from(j) # i => es2[j] = es[from(j)]
             /\ from(j) = i => (j = i /\ es2[j] = left) \/ (j = i + 1 /\ es2[j] = right)
  <2>1. CASE j <= i
    <3>1. from(j) = j /\ j \in 1 .. n /\ (j # i => j < i)
      BY <1>1, <2>1
    <3> HIDE DEF from
    <3> QED
      BY <1>2, <3>1
  <2>2. CASE ~(j <= i)
    <3>1. from(j) = j - 1 /\ j - 1 \in 1 .. n /\ (j - 1 # i => j > i + 1) /\ (j - 1 = i => j = i + 1)
      BY <1>1, <2>2
    <3> HIDE DEF from
    <3> QED
      BY <1>2, <3>1
  <2> QED
    BY <2>1, <2>2
<1>6. ASSUME NEW j \in 1 .. n + 1, NEW k \in 1 .. n + 1, j < k
      PROVE  from(j) < from(k) \/ (from(j) = i /\ from(k) = i /\ j = i /\ k = i + 1)
  BY <1>1, <1>6
<1>7. \A j \in 1 .. n + 1 : from(j) \in Nat
  BY <1>1
<1> HIDE DEF from
<1>8. ASSUME NEW j \in 1 .. n + 1, NEW k \in 1 .. n + 1, j < k, NEW e \in es2[j], NEW f \in es2[k] PROVE Less(e, f)
  <2>1. CASE from(j) = i /\ from(k) = i /\ j = i /\ k = i + 1
    <3>1. es2[j] = left /\ es2[k] = right
      BY <1>2, <2>1
    <3> QED
      BY <1>8, <3>1
  <2>2. CASE from(j) < from(k)
    <3>1. from(j) \in 1 .. n /\ from(k) \in 1 .. n /\ from(j) \in Nat /\ from(k) \in Nat
      BY <1>5, <1>7
    <3>2. from(j) # i \/ from(k) # i
      BY <1>1, <2>2, <3>1
    <3>3. CASE from(j) = i
      <4>1. from(k) > i /\ from(k) # i
        BY <1>1, <2>2, <3>1, <3>3
      <4>2. es2[k] = es[from(k)] /\ e \in left \cup right
        BY <1>5, <1>8, <3>3, <4>1
      <4> QED
        BY <1>3, <1>8, <3>1, <4>1, <4>2
    <3>4. CASE from(k) = i
      <4>1. from(j) < i /\ from(j) # i
        BY <1>1, <2>2, <3>1, <3>4
      <4>2. es2[j] = es[from(j)] /\ f \in left \cup right
        BY <1>5, <1>8, <3>4, <4>1
      <4> QED
        BY <1>3, <1>8, <3>1, <4>1, <4>2
    <3>5. CASE from(j) # i /\ from(k) # i
      <4>1. es2[j] = es[from(j)] /\ es2[k] = es[from(k)]
        BY <1>5, <3>5
      <4> QED
        BY <1>1, <1>8, <2>2, <3>1, <4>1
    <3> QED
      BY <3>3, <3>4, <3>5
  <2> QED
    BY <1>6, <1>8, <2>1, <2>2
<1>9. ASSUME NEW j \in 1 .. n + 1 PROVE es2[j] # {}
  <2>1. CASE from(j) = i
    BY <1>5, <2>1
  <2>2. CASE from(j) # i
    <3>1. n > 1
      BY <1>1, <1>5, <2>2
    <3> QED
      BY <1>1, <1>5, <2>2, <3>1
  <2> QED
    BY <2>1, <2>2
<1> QED
  BY <1>2, <1>4, <1>8, <1>9 DEF Ordered

\* The leaves hold what they held, and the new entry.
LEMMA SplitContents ==
  ASSUME NEW es, es \in Seq(EntrySets), NEW i \in 1 .. Len(es), NEW left, NEW right, \A f \in es[i] : f \in left \/ f \in right,
         NEW es2, SplitSets(es, i, left, right, es2)
  PROVE  \A f : f \in AllOf(es2) <=> f \in AllOf(es) \/ f \in left \/ f \in right
<1> DEFINE n == Len(es)
<1>1. n \in Nat /\ i \in 1 .. n /\ i \in Nat
  OBVIOUS
<1>2. /\ es2 \in Seq(EntrySets) /\ Len(es2) = n + 1
      /\ \A j \in 1 .. n + 1 : /\ j < i => es2[j] = es[j]
                               /\ j = i => es2[j] = left
                               /\ j = i + 1 => es2[j] = right
                               /\ j > i + 1 => es2[j] = es[j - 1]
  BY DEF SplitSets
<1>3. /\ \A f : f \in AllOf(es) <=> \E j \in 1 .. n : f \in es[j]
      /\ \A f : f \in AllOf(es2) <=> \E j \in 1 .. n + 1 : f \in es2[j]
  BY <1>2, AllOfMeaning
<1> HIDE DEF n
<1>4. ASSUME NEW f, f \in AllOf(es2) PROVE f \in AllOf(es) \/ f \in left \/ f \in right
  <2>1. PICK j \in 1 .. n + 1 : f \in es2[j]
    BY <1>3, <1>4
  <2>2. CASE j < i
    <3>1. j \in 1 .. n /\ es2[j] = es[j]
      BY <1>1, <1>2, <2>2
    <3> QED
      BY <1>3, <2>1, <3>1
  <2>3. CASE j = i \/ j = i + 1
    BY <1>2, <2>1, <2>3
  <2>4. CASE j > i + 1
    <3>1. j - 1 \in 1 .. n /\ es2[j] = es[j - 1]
      BY <1>1, <1>2, <2>4
    <3> QED
      BY <1>3, <2>1, <3>1
  <2> QED
    BY <1>1, <2>2, <2>3, <2>4
<1>5. ASSUME NEW f, f \in left \/ f \in right PROVE f \in AllOf(es2)
  <2>1. i \in 1 .. n + 1 /\ i + 1 \in 1 .. n + 1
    BY <1>1
  <2>2. es2[i] = left /\ es2[i + 1] = right
    BY <1>2, <2>1
  <2> QED
    BY <1>3, <1>5, <2>1, <2>2
<1>6. ASSUME NEW f, f \in AllOf(es) PROVE f \in AllOf(es2)
  <2>1. PICK j \in 1 .. n : f \in es[j]
    BY <1>3, <1>6
  <2>2. CASE j = i
    BY <1>5, <2>1, <2>2
  <2>3. CASE j < i
    <3>1. j \in 1 .. n + 1 /\ es2[j] = es[j]
      BY <1>1, <1>2, <2>3
    <3> QED
      BY <1>3, <2>1, <3>1
  <2>4. CASE j > i
    <3>1. j + 1 \in 1 .. n + 1 /\ j + 1 > i + 1 /\ j + 1 - 1 = j
      BY <1>1, <2>4
    <3>2. es2[j + 1] = es[j]
      BY <1>2, <3>1
    <3> QED
      BY <1>3, <2>1, <3>1, <3>2
  <2> QED
    BY <1>1, <2>2, <2>3, <2>4
<1> QED
  BY <1>4, <1>5, <1>6

\* The ids after leaf i has been split, the right half being a new record.
SplitIds(ids, i, new, ids2) ==
  /\ ids2 \in Seq(Nat) /\ Len(ids2) = Len(ids) + 1
  /\ \A j \in 1 .. Len(ids) + 1 : /\ j < i + 1 => ids2[j] = ids[j]
                                  /\ j = i + 1 => ids2[j] = new
                                  /\ j > i + 1 => ids2[j] = ids[j - 1]

\* The new record in the sequence of all.
LEMMA SplitIdSequence ==
  ASSUME NEW ids \in Seq(Nat), NEW i \in 1 .. Len(ids), NEW new \in Nat, NEW ids2, ids2 = InsertAt(ids, i + 1, new)
  PROVE  SplitIds(ids, i, new, ids2)
<1>1. PICK m : m = i + 1
  OBVIOUS
<1>2. PICK N : N = Nat
  OBVIOUS
<1>3. ids \in Seq(N) /\ m \in 1 .. Len(ids) + 1 /\ new \in N
  BY <1>1, <1>2
<1>4. /\ InsertAt(ids, m, new) \in Seq(N) /\ Len(InsertAt(ids, m, new)) = Len(ids) + 1
      /\ \A j \in 1 .. Len(ids) + 1 : /\ j < m => InsertAt(ids, m, new)[j] = ids[j]
                                      /\ j = m => InsertAt(ids, m, new)[j] = new
                                      /\ j > m => InsertAt(ids, m, new)[j] = ids[j - 1]
  BY ONLY <1>3, InsertedAt
<1> QED
  BY <1>1, <1>2, <1>4 DEF SplitIds

\* Two records are written, all others stay as they were.
TwoWritten(st, w, a, x, b, y) ==
  \A id : Node(w, id) = IF id = a THEN x ELSE IF id = b THEN y ELSE Node(st, id)
OneMore(ids2, ids, id) ==
  /\ \A j \in 1 .. Len(ids2) : ids2[j] = id \/ \E k \in 1 .. Len(ids) : ids2[j] = ids[k]
  /\ \E j \in 1 .. Len(ids2) : ids2[j] = id
  /\ \A k \in 1 .. Len(ids) : \E j \in 1 .. Len(ids2) : ids2[j] = ids[k]
IsNoneOf(id, ids) == \A j \in 1 .. Len(ids) : ids[j] # id

\* The leaves after the two halves of leaf i have been written.
LEMMA SplitLeaves ==
  ASSUME NEW st, NEW ids, NEW es, Ordered(es), LeavesAre(st, ids, es), NEW i \in 1 .. Len(ids),
         NEW left, NEW right, NEW es2, SplitSets(es, i, left, right, es2),
         NEW new, new \in Nat, IsNoneOf(new, ids),
         NEW ids2, SplitIds(ids, i, new, ids2), NEW w2,
         TwoWritten(st, w2, ids[i], Leaf(left, new), new, Leaf(right, NextOf(ids, i)))
  PROVE  /\ LeavesAre(w2, ids2, es2) /\ Len(ids2) = Len(ids) + 1 /\ ids2[1] = ids[1]
         /\ OneMore(ids2, ids, new)
<1> DEFINE n == Len(ids)
           m == i + 1
<1>1. /\ n \in Nat /\ n >= 1 /\ i \in 1 .. n /\ i \in Nat /\ m = i + 1 /\ m \in 1 .. n + 1 /\ ids \in Seq(Nat)
      /\ Len(es) = n
      /\ \A j \in 1 .. n : Node(st, ids[j]) = Leaf(es[j], NextOf(ids, j))
      /\ \A j, k \in 1 .. n : ids[j] = ids[k] => j = k
  BY LeafFacts DEF LeavesAre
<1>2. /\ es2 \in Seq(EntrySets) /\ Len(es2) = n + 1
      /\ \A j \in 1 .. n + 1 : /\ j < i => es2[j] = es[j]
                               /\ j = i => es2[j] = left
                               /\ j = i + 1 => es2[j] = right
                               /\ j > i + 1 => es2[j] = es[j - 1]
  BY <1>1 DEF SplitSets
<1>3. /\ ids2 \in Seq(Nat) /\ Len(ids2) = n + 1
      /\ \A j \in 1 .. n + 1 : /\ j < m => ids2[j] = ids[j]
                               /\ j = m => ids2[j] = new
                               /\ j > m => ids2[j] = ids[j - 1]
  BY DEF SplitIds
<1>4. \A j \in 1 .. n : ids[j] # new
  BY DEF IsNoneOf
<1>5. /\ \A id : Node(w2, id) = IF id = ids[i] THEN Leaf(left, new)
                                ELSE IF id = new THEN Leaf(right, NextOf(ids, i)) ELSE Node(st, id)
      /\ \A j : NextOf(ids, j) = IF j < n THEN ids[j + 1] ELSE Nil
      /\ \A j : NextOf(ids2, j) = IF j < n + 1 THEN ids2[j + 1] ELSE Nil
  BY <1>3 DEF NextOf, TwoWritten
<1> HIDE DEF n, m
<1>6. ASSUME NEW j \in 1 .. n + 1
      PROVE  \/ j < m /\ j \in 1 .. n /\ ids2[j] = ids[j]
             \/ j = m /\ ids2[j] = new
             \/ j > m /\ j - 1 \in 1 .. n /\ ids2[j] = ids[j - 1]
  <2>1. (j < m => j \in 1 .. n) /\ (j > m => j - 1 \in 1 .. n) /\ (j < m \/ j = m \/ j > m)
    BY <1>1
  <2> QED
    BY <1>3, <2>1
<1>7. ASSUME NEW j \in 1 .. n + 1, NEW k \in 1 .. n + 1, ids2[j] = ids2[k] PROVE j = k
  <2>1. CASE j < m
    <3>1. j \in 1 .. n /\ ids2[j] = ids[j] /\ k # m
      BY <1>1, <1>4, <1>6, <1>7, <2>1
    <3>2. CASE k < m
      <4>1. k \in 1 .. n /\ ids2[k] = ids[k]
        BY <1>1, <1>6, <3>2
      <4> QED
        BY <1>1, <1>7, <3>1, <4>1
    <3>3. CASE k > m
      <4>1. k - 1 \in 1 .. n /\ ids2[k] = ids[k - 1] /\ k - 1 # j
        BY <1>1, <1>6, <2>1, <3>3
      <4> QED
        BY <1>1, <1>7, <3>1, <4>1
    <3> QED
      BY <1>1, <3>1, <3>2, <3>3
  <2>2. CASE j = m
    <3>1. ids2[k] = new
      BY <1>6, <1>7, <2>2
    <3>2. k = m
      BY <1>4, <1>6, <3>1
    <3> QED
      BY <2>2, <3>2
  <2>3. CASE j > m
    <3>1. j - 1 \in 1 .. n /\ ids2[j] = ids[j - 1] /\ k # m
      BY <1>1, <1>4, <1>6, <1>7, <2>3
    <3>2. CASE k < m
      <4>1. k \in 1 .. n /\ ids2[k] = ids[k] /\ k # j - 1
        BY <1>1, <1>6, <2>3, <3>2
      <4> QED
        BY <1>1, <1>7, <3>1, <4>1
    <3>3. CASE k > m
      <4>1. k - 1 \in 1 .. n /\ ids2[k] = ids[k - 1]
        BY <1>1, <1>6, <3>3
      <4>2. j - 1 = k - 1
        BY <1>1, <1>7, <3>1, <4>1
      <4> QED
        BY <4>2
    <3> QED
      BY <1>1, <3>1, <3>2, <3>3
  <2> QED
    BY <1>1, <2>1, <2>2, <2>3
<1>8. ASSUME NEW j \in 1 .. n + 1 PROVE Node(w2, ids2[j]) = Leaf(es2[j], NextOf(ids2, j))
  <2>1. CASE j < i
    <3>1. j \in 1 .. n /\ j + 1 \in 1 .. n + 1 /\ j < m /\ j + 1 < m /\ j # i /\ j < n /\ j < n + 1
      BY <1>1, <2>1
    <3>2. ids2[j] = ids[j] /\ es2[j] = es[j] /\ NextOf(ids2, j) = NextOf(ids, j)
      BY <1>2, <1>3, <1>5, <2>1, <3>1
    <3>3. Node(w2, ids2[j]) = Node(st, ids[j])
      BY <1>1, <1>4, <1>5, <3>1, <3>2
    <3> QED
      BY <1>1, <3>1, <3>2, <3>3
  <2>2. CASE j = i
    <3>1. j < m /\ j < n + 1 /\ j + 1 \in 1 .. n + 1 /\ j + 1 = m
      BY <1>1, <2>2
    <3>2. ids2[j] = ids[i] /\ es2[j] = left /\ NextOf(ids2, j) = new
      BY <1>2, <1>3, <1>5, <2>2, <3>1
    <3> QED
      BY <1>5, <3>2
  <2>3. CASE j = m
    <3>1. ids2[j] = new /\ es2[j] = right
      BY <1>1, <1>2, <1>3, <2>3
    <3>2. NextOf(ids2, j) = NextOf(ids, i)
      <4>1. CASE i < n
        <5>1. j < n + 1 /\ j + 1 \in 1 .. n + 1 /\ j + 1 > m /\ j + 1 - 1 = i + 1
          BY <1>1, <2>3, <4>1
        <5>2. ids2[j + 1] = ids[i + 1]
          BY <1>3, <5>1
        <5> QED
          BY <1>5, <4>1, <5>1, <5>2
      <4>2. CASE ~(i < n)
        <5>1. ~(j < n + 1)
          BY <1>1, <2>3, <4>2
        <5> QED
          BY <1>5, <4>2, <5>1
      <4> QED
        BY <4>1, <4>2
    <3> QED
      BY <1>1, <1>4, <1>5, <3>1, <3>2
  <2>4. CASE j > m
    <3>1. j - 1 \in 1 .. n /\ j - 1 # i /\ j > i + 1
      BY <1>1, <2>4
    <3>2. ids2[j] = ids[j - 1] /\ es2[j] = es[j - 1]
      BY <1>2, <1>3, <2>4, <3>1
    <3>3. NextOf(ids2, j) = NextOf(ids, j - 1)
      <4>1. CASE j < n + 1
        <5>1. j + 1 \in 1 .. n + 1 /\ j + 1 > m /\ j + 1 - 1 = j /\ j - 1 < n /\ j - 1 + 1 = j
          BY <1>1, <2>4, <4>1
        <5>2. ids2[j + 1] = ids[j]
          BY <1>3, <5>1
        <5> QED
          BY <1>5, <4>1, <5>1, <5>2
      <4>2. CASE ~(j < n + 1)
        <5>1. ~(j - 1 < n)
          BY <1>1, <4>2
        <5> QED
          BY <1>5, <4>2, <5>1
      <4> QED
        BY <4>1, <4>2
    <3>4. Node(w2, ids2[j]) = Node(st, ids[j - 1])
      BY <1>1, <1>4, <1>5, <3>1, <3>2
    <3> QED
      BY <1>1, <3>1, <3>2, <3>3, <3>4
  <2> QED
    BY <1>1, <2>1, <2>2, <2>3, <2>4
<1>9. LeavesAre(w2, ids2, es2)
  BY <1>2, <1>3, <1>7, <1>8 DEF LeavesAre
<1>10. ids2[1] = ids[1]
  <2>1. 1 \in 1 .. n + 1 /\ 1 < m
    BY <1>1
  <2> QED
    BY <1>3, <2>1
<1>11. \A j \in 1 .. n + 1 : ids2[j] = new \/ \E k \in 1 .. n : ids2[j] = ids[k]
  BY <1>6
<1>12. \E j \in 1 .. n + 1 : ids2[j] = new
  BY <1>1, <1>3
<1>13. ASSUME NEW k \in 1 .. n PROVE \E j \in 1 .. n + 1 : ids2[j] = ids[k]
  <2>1. CASE k < m
    <3>1. k \in 1 .. n + 1
      BY <1>1
    <3> QED
      BY <1>3, <2>1, <3>1
  <2>2. CASE ~(k < m)
    <3>1. k + 1 \in 1 .. n + 1 /\ k + 1 > m /\ k + 1 - 1 = k
      BY <1>1, <2>2
    <3>2. ids2[k + 1] = ids[k]
      BY <1>3, <3>1
    <3> QED
      BY <3>1, <3>2
  <2> QED
    BY <2>1, <2>2
<1>14. OneMore(ids2, ids, new)
  BY <1>3, <1>11, <1>12, <1>13 DEF n, OneMore
<1> QED
  BY <1>3, <1>9, <1>10, <1>14 DEF n

\* The children after the split: the left half's separator is put in place of the old one
\* and the right half's behind it.
LEMMA SplitSeparators ==
  ASSUME NEW C, NEW ids, NEW es, Separators(ids, es) \in Seq(C), Len(Separators(ids, es)) = Len(ids),
         Len(ids) \in Nat, Len(es) = Len(ids), NEW i \in 1 .. Len(ids),
         NEW left, NEW right, NEW es2, SplitSets(es, i, left, right, es2),
         NEW new, NEW ids2, SplitIds(ids, i, new, ids2),
         Child(High(left), ids[i]) \in C, Child(High(right), new) \in C
  PROVE  InsertAt([Separators(ids, es) EXCEPT ![i] = Child(High(left), ids[i])], i + 1, Child(High(right), new))
           = Separators(ids2, es2)
<1> DEFINE n == Len(ids)
           x == Child(High(left), ids[i])
           y == Child(High(right), new)
<1>1. PICK a : a = Separators(ids, es)
  OBVIOUS
<1>2. PICK a1 : a1 = [a EXCEPT ![i] = x]
  OBVIOUS
<1>3. PICK m : m = i + 1
  OBVIOUS
<1>4. PICK a2 : a2 = InsertAt(a1, m, y)
  OBVIOUS
<1>5. PICK b : b = Separators(ids2, es2)
  OBVIOUS
<1>6. n \in Nat /\ i \in 1 .. n /\ i \in Nat /\ m = i + 1 /\ m \in 1 .. n + 1
  BY <1>3
<1>7. /\ a \in Seq(C) /\ Len(a) = n /\ x \in C /\ y \in C
      /\ \A j \in 1 .. n : a[j] = Child(High(es[j]), ids[j])
  BY <1>1 DEF Separators
<1>8. /\ Len(ids2) = n + 1
      /\ \A j \in 1 .. n + 1 : /\ j < m => ids2[j] = ids[j]
                               /\ j = m => ids2[j] = new
                               /\ j > m => ids2[j] = ids[j - 1]
  BY <1>3 DEF SplitIds
<1>9. \A j \in 1 .. n + 1 : /\ j < i => es2[j] = es[j]
                            /\ j = i => es2[j] = left
                            /\ j = m => es2[j] = right
                            /\ j > m => es2[j] = es[j - 1]
  BY <1>3 DEF SplitSets
<1>10. x = Child(High(left), ids[i]) /\ y = Child(High(right), new)
  OBVIOUS
<1> HIDE DEF n, x, y
<1>11. a1 \in Seq(C) /\ Len(a1) = n /\ \A j \in 1 .. n : a1[j] = IF j = i THEN x ELSE a[j]
  <2>1. i \in 1 .. Len(a) /\ a \in Seq(C) /\ x \in C
    BY <1>6, <1>7
  <2>2. /\ [a EXCEPT ![i] = x] \in Seq(C) /\ Len([a EXCEPT ![i] = x]) = Len(a)
        /\ \A j \in 1 .. Len(a) : [a EXCEPT ![i] = x][j] = IF j = i THEN x ELSE a[j]
    BY ONLY <2>1, ExceptSeq
  <2> QED
    BY <1>2, <1>7, <2>2
<1>12. /\ a2 \in Seq(C) /\ Len(a2) = n + 1
       /\ \A j \in 1 .. n + 1 : /\ j < m => a2[j] = a1[j]
                                /\ j = m => a2[j] = y
                                /\ j > m => a2[j] = a1[j - 1]
  <2>1. a1 \in Seq(C) /\ m \in 1 .. Len(a1) + 1 /\ y \in C
    BY <1>6, <1>7, <1>11
  <2>2. /\ InsertAt(a1, m, y) \in Seq(C) /\ Len(InsertAt(a1, m, y)) = Len(a1) + 1
        /\ \A j \in 1 .. Len(a1) + 1 : /\ j < m => InsertAt(a1, m, y)[j] = a1[j]
                                       /\ j = m => InsertAt(a1, m, y)[j] = y
                                       /\ j > m => InsertAt(a1, m, y)[j] = a1[j - 1]
    BY ONLY <2>1, InsertedAt
  <2> QED
    BY <1>4, <1>11, <2>2
<1>13. b = [j \in 1 .. n + 1 |-> Child(High(es2[j]), ids2[j])]
  BY <1>5, <1>8 DEF Separators
<1>14. ASSUME NEW j \in 1 .. n + 1 PROVE a2[j] = Child(High(es2[j]), ids2[j])
  <2>1. CASE j < i
    <3>1. j < m /\ j # i /\ j \in 1 .. n
      BY <1>6, <2>1
    <3> QED
      BY <1>7, <1>8, <1>9, <1>11, <1>12, <2>1, <3>1
  <2>2. CASE j = i
    <3>1. j < m /\ j \in 1 .. n
      BY <1>6, <2>2
    <3> QED
      BY <1>8, <1>9, <1>10, <1>11, <1>12, <2>2, <3>1
  <2>3. CASE j = m
    BY <1>8, <1>9, <1>10, <1>12, <2>3
  <2>4. CASE j > m
    <3>1. PICK p : p = j - 1
      OBVIOUS
    <3>2. p # i /\ p \in 1 .. n
      BY <1>6, <2>4, <3>1
    <3>3. a2[j] = a1[p] /\ ids2[j] = ids[p] /\ es2[j] = es[p]
      BY <1>8, <1>9, <1>12, <2>4, <3>1
    <3>4. a1[p] = Child(High(es[p]), ids[p])
      BY <1>7, <1>11, <3>2
    <3> QED
      BY <3>3, <3>4
  <2> QED
    BY <1>6, <2>1, <2>2, <2>3, <2>4
<1>15. a2 = [j \in 1 .. n + 1 |-> a2[j]]
  <2>1. a2 = [j \in 1 .. Len(a2) |-> a2[j]]
    BY <1>12
  <2> QED
    BY <1>12, <2>1
<1>16. a2 = b
  BY <1>13, <1>14, <1>15
<1> QED
  BY <1>1, <1>2, <1>3, <1>4, <1>5, <1>16 DEF x, y

\* Writes put behind others: the last one is still the last.
LEMMA LastWrite ==
  ASSUME NEW x \in Seq(Seq(Nodes)), NEW v \in Seq(Seq(Nodes)), v # <<>>
  PROVE  x \o v \in Seq(Seq(Nodes)) /\ x \o v # <<>> /\ Last(x \o v) = Last(v)
<1>1. PICK X : X = Seq(Nodes)
  OBVIOUS
<1>2. x \in Seq(X) /\ v \in Seq(X)
  BY <1>1
<1> DEFINE a == Len(x)
           b == Len(v)
           c == x \o v
<1>3. a \in Nat /\ b \in Nat /\ b > 0
  BY <1>2, EmptySeq, LenProperties
<1>4. /\ c \in Seq(X) /\ Len(c) = a + b
      /\ \A j \in 1 .. a + b : c[j] = IF j <= a THEN x[j] ELSE v[j - a]
  BY <1>2, ConcatProperties
<1>5. Last(v) = v[b] /\ Last(c) = c[Len(c)]
  BY DEF Last
<1> HIDE DEF a, b, c
<1>6. a + b \in 1 .. a + b /\ ~(a + b <= a) /\ a + b - a = b /\ a + b > 0
  BY <1>3
<1>7. c[a + b] = v[b]
  BY <1>3, <1>4, <1>6
<1>8. c # <<>>
  BY <1>4, <1>6, EmptySeq
<1> QED
  BY <1>1, <1>4, <1>5, <1>7, <1>8 DEF c

\* Records that are not leaves do not matter to what an operation changes of the leaves.
LEMMA ChangesStay ==
  ASSUME NEW st, NEW f, NEW g, NEW ids, NEW ids2, Changes(st, f, ids, ids2),
         \A j \in 1 .. Len(ids) : Node(g, ids[j]) = Node(f, ids[j])
  PROVE  Changes(st, g, ids, ids2)
<1>1. CASE Rewritten(st, f, ids, ids2)
  BY <1>1 DEF Rewritten, SameLeaves, Changes
<1>2. CASE Divided(st, f, ids, ids2)
  <2>1. PICK i \in 1 .. Len(ids), new \in Nat \ {Nil} :
          /\ SameLeaves(st, f, ids, {i})
          /\ Node(st, new) = Dead /\ Node(f, ids[i]).next = new
          /\ \A j \in 1 .. Len(ids2) : ids2[j] = new \/ \E k \in 1 .. Len(ids) : ids2[j] = ids[k]
    BY <1>2 DEF Divided
  <2>2. SameLeaves(st, g, ids, {i}) /\ Node(g, ids[i]).next = new
    BY <2>1 DEF SameLeaves
  <2>3. ids2[1] = ids[1]
    BY <1>2 DEF Divided
  <2> QED
    BY <2>1, <2>2, <2>3 DEF Divided, Changes
<1>3. CASE Removed(st, f, ids, ids2)
  <2>1. PICK i \in 1 .. Len(ids) :
          /\ SameLeaves(st, f, ids, {i - 1, i}) /\ Node(f, ids[i]) = Dead
          /\ i > 1 => ids2[1] = ids[1]
          /\ \A j \in 1 .. Len(ids2) : \E k \in 1 .. Len(ids) : k # i /\ ids2[j] = ids[k]
    BY <1>3 DEF Removed
  <2>2. SameLeaves(st, g, ids, {i - 1, i}) /\ Node(g, ids[i]) = Dead
    BY <2>1 DEF SameLeaves
  <2> QED
    BY <2>1, <2>2 DEF Removed, Changes
<1> QED
  BY <1>1, <1>2, <1>3 DEF Changes

\* A leaf is split: the right half becomes a new record, and the root gains a separator or is made.
LEMMA InsertSplittingLeads ==
  ASSUME store \in Seq(Nodes), NEW ids \in Seq(Nat), NEW es \in Seq(EntrySets),
         TreeAt(store, handle, ids, es), model = AllOf(es), NEW e \in Universe, InsertSplitting(e)
  PROVE  Begun(ids)
<1>1. TreeAt(store, handle, ids, es) /\ model = AllOf(es)
  OBVIOUS
<1>2. PICK i \in 1 .. Len(ids) :
      /\ handle.height = 2 => ChildIndex(e) = i
      /\ Target(e) = ids[i] /\ TargetLeaf(e) = Leaf(es[i], NextOf(ids, i))
      /\ TargetLeaf(e).entries = es[i] /\ TargetLeaf(e).next = NextOf(ids, i)
      /\ es[i] \in EntrySets
      /\ \A j \in 1 .. Len(ids) : \A f : j < i /\ f \in es[j] => Less(f, e)
      /\ \A j \in 1 .. Len(ids) : \A f : j > i /\ f \in es[j] => Less(e, f)
  BY <1>1, TargetPlace
<1>3. /\ handle.height \in {1, 2} /\ Ordered(es) /\ LeavesAre(store, ids, es) /\ store \in Seq(Nodes)
      /\ handle.height = 2 => Children = Separators(ids, es) /\ Len(ids) > 1
      /\ handle.height = 1 => Len(ids) = 1 /\ handle.root = ids[1]
      /\ handle.first = ids[1] /\ handle \in Handles
      /\ Node(store, HeaderId) = Header(handle.height, handle.root, handle.first)
      /\ \A id : Node(store, id) # Dead => \/ id = HeaderId \/ id = handle.root
                                           \/ (\E j \in 1 .. Len(ids) : id = ids[j])
                                           \/ Outside(store, handle, ids, id)
  BY <1>1, ChildrenAre DEF TreeAt, Outside
<1>4. /\ Len(ids) \in Nat /\ Len(es) = Len(ids) /\ i \in 1 .. Len(es)
      /\ \A j \in 1 .. Len(ids) : Node(store, ids[j]) # Dead /\ ids[j] \in Nat
  BY <1>2, <1>3, LeafFacts
<1>5. /\ Node(store, HeaderId) # Dead /\ \A j \in 1 .. Len(ids) : ids[j] # HeaderId
      /\ handle.height = 2 => /\ Node(store, handle.root) # Dead /\ handle.root # HeaderId
                              /\ \A j \in 1 .. Len(ids) : ids[j] # handle.root
  BY <1>1, Apart
<1> DEFINE all == Sorted(TargetLeaf(e).entries \cup {e})
           middle == Len(all) \div 2
<1>6. PICK S : S = es[i] \cup {e}
  OBVIOUS
<1>7. PICK left, right : /\ left = ToSet(SubSeq(all, 1, middle))
                         /\ right = ToSet(SubSeq(all, middle + 1, Len(all)))
  OBVIOUS
<1>8. e \notin es[i] /\ ~(Cardinality(es[i]) < LeafCapacity)
  BY <1>2 DEF InsertSplitting, HasRoom
<1>9. /\ S \in SUBSET Pairs /\ S \subseteq Universe /\ IsFiniteSet(S)
      /\ Cardinality(S) = LeafCapacity + 1 /\ LeafCapacity \in Nat /\ LeafCapacity >= 1
  <2>1. es[i] \in SUBSET Universe /\ IsFiniteSet(es[i]) /\ Cardinality(es[i]) <= LeafCapacity
    BY <1>2, EntrySetFacts
  <2>2. IsFiniteSet(S) /\ Cardinality(S) = Cardinality(es[i]) + 1
    BY <1>6, <1>8, <2>1, FS_AddElement
  <2>3. Cardinality(es[i]) \in Nat /\ LeafCapacity \in Nat /\ LeafCapacity >= 1
    BY <2>1, FS_CardinalityType, CapacityAssumption
  <2>4. Cardinality(S) = LeafCapacity + 1
    BY <1>8, <2>1, <2>2, <2>3
  <2> QED
    BY <1>6, <2>1, <2>2, <2>3, <2>4, UniverseAssumption DEF Pairs
<1>10. /\ left \cup right = S /\ left # {} /\ right # {}
       /\ \A f \in left : \A g \in right : Less(f, g)
       /\ left \in EntrySets /\ right \in EntrySets
  <2>1. PICK n, m : n = Cardinality(S) /\ m = n \div 2
    OBVIOUS
  <2>2. m \in 1 .. Cardinality(S) - 1
    BY <1>9, <2>1
  <2>3. all = Sorted(S) /\ Len(all) = Cardinality(S)
    <3>1. all = Sorted(S)
      BY <1>2, <1>6
    <3> QED
      BY <1>9, <3>1, SortedIsSorted
  <2>4. left = ToSet(SubSeq(Sorted(S), 1, m)) /\ right = ToSet(SubSeq(Sorted(S), m + 1, Cardinality(S)))
    BY <1>7, <2>1, <2>3
  <2> HIDE DEF all, middle
  <2>5. /\ left \cup right = S /\ left # {} /\ right # {}
        /\ \A f \in left : \A g \in right : Less(f, g)
        /\ IsFiniteSet(left) /\ IsFiniteSet(right)
        /\ Cardinality(left) < Cardinality(S) /\ Cardinality(right) < Cardinality(S)
    <3>1. S \in SUBSET Pairs /\ IsFiniteSet(S)
      BY <1>9
    <3> QED
      BY ONLY <2>2, <2>4, <3>1, HalvesFacts
  <2>6. Cardinality(left) \in Nat /\ Cardinality(right) \in Nat
    BY <2>5, FS_CardinalityType
  <2>7. Cardinality(left) <= LeafCapacity /\ Cardinality(right) <= LeafCapacity
    BY <1>9, <2>5, <2>6
  <2> QED
    BY <1>9, <2>5, <2>7 DEF EntrySets
<1>11. PICK new : new = NewId(store)
  OBVIOUS
<1>12. new \in Nat /\ new # Nil /\ Node(store, new) = Dead
  BY <1>3, <1>11, NewIdIsFree, NodeFacts DEF Nil
<1>13. /\ \A j \in 1 .. Len(ids) : ids[j] # new
       /\ new # HeaderId /\ (handle.height = 2 => new # handle.root)
  BY <1>4, <1>5, <1>12
<1>14. PICK w1, w2 : /\ w1 = Add(store, Leaf(right, NextOf(ids, i)))
                     /\ w2 = Put(w1, ids[i], Leaf(left, new))
  OBVIOUS
<1>15. /\ w1 \in Seq(Nodes) /\ w2 \in Seq(Nodes)
       /\ \A id : Node(w1, id) = IF id = new THEN Leaf(right, NextOf(ids, i)) ELSE Node(store, id)
       /\ \A id : Node(w2, id) = IF id = ids[i] THEN Leaf(left, new)
                                 ELSE IF id = new THEN Leaf(right, NextOf(ids, i)) ELSE Node(store, id)
  <2>1. NextOf(ids, i) \in Nat
    BY <1>2, NextIsId
  <2>2. Leaf(right, NextOf(ids, i)) \in Nodes /\ Leaf(left, new) \in Nodes
    BY <1>10, <1>12, <2>1, NodeKinds
  <2>3. /\ w1 \in Seq(Nodes)
        /\ \A id : Node(w1, id) = IF id = new THEN Leaf(right, NextOf(ids, i)) ELSE Node(store, id)
    <3>1. PICK node : node = Leaf(right, NextOf(ids, i))
      OBVIOUS
    <3>2. store \in Seq(Nodes) /\ node \in Nodes
      BY <1>3, <2>2, <3>1
    <3>3. /\ Add(store, node) \in Seq(Nodes)
          /\ \A id : Node(Add(store, node), id) = IF id = NewId(store) THEN node ELSE Node(store, id)
      BY ONLY <3>2, AddNode
    <3> QED
      BY <1>11, <1>14, <3>1, <3>3
  <2>4. Node(w1, ids[i]) # Dead
    BY <1>2, <1>4, <1>13, <2>3
  <2>5. w2 \in Seq(Nodes) /\ \A id : Node(w2, id) = IF id = ids[i] THEN Leaf(left, new) ELSE Node(w1, id)
    BY <1>14, <2>2, <2>3, <2>4, PutNode
  <2> QED
    BY <2>3, <2>5
<1>16. PICK ids2 : ids2 = InsertAt(ids, i + 1, new)
  OBVIOUS
<1>17. SplitIds(ids, i, new, ids2)
  BY <1>2, <1>12, <1>16, SplitIdSequence
<1>18. PICK es2 : es2 = InsertAt([es EXCEPT ![i] = left], i + 1, right)
  OBVIOUS
<1>19. SplitSets(es, i, left, right, es2)
  BY <1>4, <1>10, <1>18, SplitSequence
<1>20. Ordered(es2)
  <2>1. \A j \in 1 .. Len(es) : \A f : \A g \in left \cup right : j < i /\ f \in es[j] => Less(f, g)
    BY <1>2, <1>3, <1>4, <1>6, <1>10 DEF Ordered
  <2>2. \A j \in 1 .. Len(es) : \A f : \A g \in left \cup right : j > i /\ f \in es[j] => Less(g, f)
    BY <1>2, <1>3, <1>4, <1>6, <1>10 DEF Ordered
  <2> QED
    BY <1>3, <1>4, <1>10, <1>19, <2>1, <2>2, SplitEntries
<1>21. /\ LeavesAre(w2, ids2, es2) /\ Len(ids2) = Len(ids) + 1 /\ ids2[1] = ids[1]
       /\ \A j \in 1 .. Len(ids2) : ids2[j] = new \/ \E k \in 1 .. Len(ids) : ids2[j] = ids[k]
       /\ \E j \in 1 .. Len(ids2) : ids2[j] = new
       /\ \A k \in 1 .. Len(ids) : \E j \in 1 .. Len(ids2) : ids2[j] = ids[k]
  <2>1. PICK st : st = store
    OBVIOUS
  <2>2. Ordered(es) /\ LeavesAre(st, ids, es) /\ i \in 1 .. Len(ids)
    BY <1>2, <1>3, <2>1
  <2>3. /\ SplitSets(es, i, left, right, es2)
        /\ new \in Nat /\ IsNoneOf(new, ids)
    BY <1>12, <1>13, <1>19 DEF IsNoneOf
  <2>4. TwoWritten(st, w2, ids[i], Leaf(left, new), new, Leaf(right, NextOf(ids, i)))
    BY <1>15, <2>1 DEF TwoWritten
  <2>5. LeavesAre(w2, ids2, es2) /\ Len(ids2) = Len(ids) + 1 /\ ids2[1] = ids[1] /\ OneMore(ids2, ids, new)
    BY ONLY <1>17, <2>2, <2>3, <2>4, SplitLeaves
  <2> QED
    BY <2>5 DEF OneMore
<1>22. AllOf(es2) = model \cup {e}
  <2>1. es \in Seq(EntrySets) /\ i \in 1 .. Len(es) /\ \A f \in es[i] : f \in left \/ f \in right
    BY <1>4, <1>6, <1>10
  <2>2. \A f : f \in AllOf(es2) <=> f \in AllOf(es) \/ f \in left \/ f \in right
    BY ONLY <1>19, <2>1, SplitContents
  <2>3. \A f : f \in left \/ f \in right <=> f \in es[i] \/ f = e
    BY <1>6, <1>10
  <2>4. \A f \in es[i] : f \in AllOf(es)
    BY <1>4, AllOfMeaning
  <2> QED
    BY <1>1, <2>2, <2>3, <2>4
<1>23. ids2 \in Seq(Nat) /\ es2 \in Seq(EntrySets) /\ Len(es2) = Len(ids2)
  BY <1>4, <1>17, <1>19, <1>21 DEF SplitIds, SplitSets
<1>24. /\ Node(w2, HeaderId) = Node(store, HeaderId)
       /\ handle.height = 2 => Node(w2, handle.root) = Node(store, handle.root)
       /\ \A id : Node(w2, id) # Dead => \/ id = HeaderId \/ id = handle.root
                                         \/ (\E j \in 1 .. Len(ids2) : id = ids2[j])
                                         \/ Outside(store, handle, ids, id)
       /\ \A j \in 1 .. Len(ids2) : ids2[j] # HeaderId /\ (handle.height = 2 => ids2[j] # handle.root)
  <2>1. Node(w2, HeaderId) = Node(store, HeaderId)
    BY <1>2, <1>5, <1>13, <1>15
  <2>2. handle.height = 2 => Node(w2, handle.root) = Node(store, handle.root)
    BY <1>2, <1>5, <1>13, <1>15
  <2>3. ASSUME NEW id, Node(w2, id) # Dead
        PROVE  \/ id = HeaderId \/ id = handle.root \/ (\E j \in 1 .. Len(ids2) : id = ids2[j])
               \/ Outside(store, handle, ids, id)
    <3>1. id = new \/ Node(store, id) # Dead
      BY <1>4, <1>15, <2>3
    <3>2. CASE id = new
      BY <1>21, <3>2
    <3>3. CASE \E k \in 1 .. Len(ids) : id = ids[k]
      BY <1>21, <3>3
    <3> QED
      BY <1>3, <3>1, <3>2, <3>3
  <2>4. ASSUME NEW j \in 1 .. Len(ids2)
        PROVE  ids2[j] # HeaderId /\ (handle.height = 2 => ids2[j] # handle.root)
    <3>1. CASE ids2[j] = new
      BY <1>13, <3>1
    <3>2. CASE \E k \in 1 .. Len(ids) : ids2[j] = ids[k]
      BY <1>5, <3>2
    <3> QED
      BY <1>21, <3>1, <3>2
  <2> QED
    BY <2>1, <2>2, <2>3, <2>4
<1>25. Changes(store, w2, ids, ids2)
  <2>1. SameLeaves(store, w2, ids, {i})
    <3>1. \A j \in 1 .. Len(ids) : ids[j] = ids[i] => j = i
      BY <1>2, <1>3 DEF LeavesAre
    <3> QED
      BY <1>13, <1>15, <3>1 DEF SameLeaves
  <2>2. Node(w2, ids[i]).next = new
    BY <1>15, NodeKinds
  <2> QED
    BY <1>2, <1>12, <1>21, <2>1, <2>2 DEF Divided, Changes
<1>26. Halves(Target(e), left, right, TargetLeaf(e).next) = <<w1, w2>>
  BY <1>2, <1>11, <1>14 DEF Halves
<1> DEFINE leftChild == Child(High(left), Target(e))
           rightChild == Child(High(right), NewId(store))
           newRoot == Internal(<<leftChild, rightChild>>)
           rootId == NewId(w2)
           s3 == Add(w2, newRoot)
           s4 == Put(s3, HeaderId, Header(2, rootId, handle.first))
           h2 == [handle EXCEPT !.height = 2, !.root = rootId]
           grownRoot == Internal(InsertAt([Children EXCEPT ![ChildIndex(e)] = leftChild],
                                          ChildIndex(e) + 1, rightChild))
           s5 == Put(w2, handle.root, grownRoot)
<1>27. /\ handle.height = 1 => Begin(<<w1, w2>> \o <<s3, s4>>, h2, model \cup {e})
       /\ handle.height = 2 => Len(Children) < InternalCapacity /\ Begin(Append(<<w1, w2>>, s5), handle, model \cup {e})
  <2> DEFINE w == Halves(Target(e), ToSet(SubSeq(all, 1, middle)), ToSet(SubSeq(all, middle + 1, Len(all))),
                         TargetLeaf(e).next)
             l == ToSet(SubSeq(all, 1, middle))
             r == ToSet(SubSeq(all, middle + 1, Len(all)))
             lc == Child(High(l), Target(e))
             rc == Child(High(r), NewId(store))
             t3 == Add(w[2], Internal(<<lc, rc>>))
             id == NewId(w[2])
             t4 == Put(t3, HeaderId, Header(2, id, handle.first))
             gr == Internal(InsertAt([Children EXCEPT ![ChildIndex(e)] = lc], ChildIndex(e) + 1, rc))
  <2>1. IF handle.height = 1
        THEN Begin(w \o <<t3, t4>>, [handle EXCEPT !.height = 2, !.root = id], model \cup {e})
        ELSE /\ Len(Children) < InternalCapacity
             /\ Begin(Append(w, Put(w[2], handle.root, gr)), handle, model \cup {e})
    BY DEF InsertSplitting
  <2>2. w = <<w1, w2>> /\ w[2] = w2
    BY <1>7, <1>26
  <2>3. lc = leftChild /\ rc = rightChild
    BY <1>7
  <2> HIDE DEF w, lc, rc
  <2>4. t3 = s3 /\ id = rootId /\ gr = grownRoot
    BY <2>2, <2>3
  <2>5. t4 = s4
    BY <2>4
  <2> HIDE DEF t3, t4, id, gr, s3, s4, rootId, grownRoot
  <2> QED
    BY <2>1, <2>2, <2>4, <2>5
<1>28. leftChild = Child(High(left), ids[i]) /\ rightChild = Child(High(right), new)
  BY <1>2, <1>11
<1> HIDE DEF all, middle, leftChild, rightChild
<1>29. CASE handle.height = 1
  <2>1. Len(ids) = 1 /\ i = 1 /\ Len(ids2) = 2 /\ Len(ids) \in Nat
    <3>1. Len(ids) = 1
      BY <1>3, <1>29
    <3> QED
      BY <1>2, <1>21, <3>1
  <2>2. /\ ids2[1] = ids[i] /\ ids2[2] = new /\ es2[1] = left /\ es2[2] = right
    <3>1. 1 \in 1 .. Len(ids) + 1 /\ 2 \in 1 .. Len(ids) + 1 /\ Len(es) = Len(ids) /\ 2 = i + 1 /\ 1 < i + 1 /\ 1 = i
      BY <1>4, <2>1
    <3> QED
      BY <1>17, <1>19, <3>1 DEF SplitIds, SplitSets
  <2>3. <<leftChild, rightChild>> = Separators(ids2, es2)
    <3>1. Separators(ids2, es2) = [j \in 1 .. 2 |-> Child(High(es2[j]), ids2[j])]
      BY <2>1 DEF Separators
    <3>2. <<leftChild, rightChild>> = [j \in 1 .. 2 |-> IF j = 1 THEN leftChild ELSE rightChild]
      OBVIOUS
    <3>3. ASSUME NEW j \in 1 .. 2
          PROVE  Child(High(es2[j]), ids2[j]) = IF j = 1 THEN leftChild ELSE rightChild
      <4>1. j = 1 \/ j = 2
        OBVIOUS
      <4> QED
        BY <1>28, <2>2, <4>1
    <3> QED
      BY <3>1, <3>2, <3>3
  <2>4. PICK root : root = rootId
    OBVIOUS
  <2>5. PICK q3 : q3 = Add(w2, Internal(Separators(ids2, es2)))
    OBVIOUS
  <2>6. PICK q4 : q4 = Put(q3, HeaderId, Header(2, root, handle.first))
    OBVIOUS
  <2>7. s3 = q3
    BY <2>3, <2>5
  <2>8. s4 = q4
    BY <2>4, <2>6, <2>7
  <2>9. root \in Nat /\ Node(w2, root) = Dead
    BY <1>15, <2>4, NewIdIsFree, NodeFacts
  <2>10. Separators(ids2, es2) \in Roots
    <3>1. Len(ids2) \in 2 .. InternalCapacity
      BY <2>1, CapacityAssumption
    <3> QED
      BY <1>20, <1>21, <3>1, SeparatorFacts
  <2>11. /\ q3 \in Seq(Nodes)
         /\ \A id : Node(q3, id) = IF id = root THEN Internal(Separators(ids2, es2)) ELSE Node(w2, id)
    <3>1. PICK node : node = Internal(Separators(ids2, es2))
      OBVIOUS
    <3>2. w2 \in Seq(Nodes) /\ node \in Nodes
      BY <1>15, <2>10, <3>1, NodeKinds
    <3>3. /\ Add(w2, node) \in Seq(Nodes)
          /\ \A id : Node(Add(w2, node), id) = IF id = NewId(w2) THEN node ELSE Node(w2, id)
      BY ONLY <3>2, AddNode
    <3> QED
      BY <2>4, <2>5, <3>1, <3>3 DEF rootId
  <2>12. root # HeaderId /\ \A j \in 1 .. Len(ids2) : Node(w2, ids2[j]) # Dead /\ ids2[j] # root
    <3>1. \A j \in 1 .. Len(ids2) : Node(w2, ids2[j]) # Dead
      <4>1. Ordered(es2) /\ LeavesAre(w2, ids2, es2)
        BY <1>20, <1>21
      <4> QED
        BY ONLY <4>1, LeafFacts
    <3> QED
      BY <1>5, <1>24, <2>9, <3>1
  <2>13. /\ q4 \in Seq(Nodes)
         /\ \A id : Node(q4, id) = IF id = HeaderId THEN Header(2, root, handle.first) ELSE Node(q3, id)
    <3>1. Node(q3, HeaderId) # Dead
      BY <1>5, <1>24, <2>11, <2>12
    <3>2. Header(2, root, handle.first) \in Nodes
      <4>1. handle.first \in Nat
        BY <1>3 DEF Handles
      <4> QED
        BY <2>9, <4>1, NodeKinds
    <3> QED
      BY <2>6, <2>11, <3>1, <3>2, PutNode
  <2>14. PICK h : h = [height |-> 2, root |-> root, first |-> handle.first]
    OBVIOUS
  <2>15. h = h2
    <3>1. handle = [height |-> handle.height, root |-> handle.root, first |-> handle.first]
      BY <1>3 DEF Handles
    <3>2. [handle EXCEPT !.height = 2] = [height |-> 2, root |-> handle.root, first |-> handle.first]
      BY <3>1
    <3>3. PICK r : r = [handle EXCEPT !.height = 2]
      OBVIOUS
    <3>4. [r EXCEPT !.root = root] = [height |-> 2, root |-> root, first |-> handle.first]
      <4>1. r = [height |-> 2, root |-> handle.root, first |-> handle.first]
        BY <3>2, <3>3
      <4> QED
        BY ONLY <4>1
    <3>5. h2 = [r EXCEPT !.root = root]
      BY <2>4, <3>3
    <3> HIDE DEF h2
    <3> QED
      BY <2>14, <3>4, <3>5
  <2>16. h.height = 2 /\ h.root = root /\ h.first = handle.first /\ h \in Handles
    BY <1>3, <2>9, <2>14 DEF Handles
  <2>17. LeavesAre(q4, ids2, es2)
    <3>1. \A j \in 1 .. Len(ids2) : Node(q4, ids2[j]) = Node(w2, ids2[j])
      BY <1>24, <2>11, <2>12, <2>13
    <3> QED
      BY <1>21, <3>1, LeavesStay
  <2>18. RootIs(q4, h, ids2, es2)
    <3>1. Node(q4, root) = Internal(Separators(ids2, es2))
      BY <2>11, <2>12, <2>13
    <3>2. Len(ids2) \in 2 .. InternalCapacity
      BY <2>1, CapacityAssumption
    <3> QED
      BY <2>16, <3>1, <3>2 DEF RootIs
  <2>19. ASSUME NEW id, Node(q4, id) # Dead
         PROVE  \/ id = HeaderId \/ id = root \/ (\E j \in 1 .. Len(ids2) : id = ids2[j])
                \/ Outside(store, handle, ids, id)
    <3>1. id = HeaderId \/ id = root \/ Node(w2, id) # Dead
      BY <2>11, <2>13, <2>19
    <3>2. handle.root = ids2[1] /\ 1 \in 1 .. Len(ids2)
      BY <1>3, <1>21, <1>29, <2>1
    <3> QED
      BY <1>24, <3>1, <3>2
  <2>20. TreeAt(q4, h, ids2, es2)
    BY <1>3, <1>20, <1>21, <2>13, <2>16, <2>17, <2>18 DEF TreeAt
  <2>21. NoMore(store, handle, ids, q4, h, ids2)
    <3>1. ASSUME NEW id, Outside(q4, h, ids2, id) PROVE Outside(store, handle, ids, id)
      <4>1. Node(q4, id) # Dead /\ id # HeaderId /\ id # root /\ \A j \in 1 .. Len(ids2) : id # ids2[j]
        BY <2>16, <3>1 DEF Outside
      <4> QED
        BY <2>19, <4>1
    <3> QED
      BY <3>1 DEF NoMore
  <2>22. /\ <<w1, w2>> \o <<q3, q4>> \in Seq(Seq(Nodes)) /\ <<w1, w2>> \o <<q3, q4>> # <<>>
         /\ Last(<<w1, w2>> \o <<q3, q4>>) = q4
    <3>1. <<w1, w2>> \in Seq(Seq(Nodes)) /\ <<q3, q4>> \in Seq(Seq(Nodes)) /\ <<q3, q4>> # <<>> /\ Last(<<q3, q4>>) = q4
      BY <1>15, <2>11, <2>13, OneOrTwoWrites
    <3> QED
      BY <3>1, LastWrite
  <2>23. Begin(<<w1, w2>> \o <<q3, q4>>, h, model \cup {e})
    BY <1>27, <1>29, <2>7, <2>8, <2>15
  <2>24. PICK w, m : w = <<w1, w2>> \o <<q3, q4>> /\ m = model \cup {e}
    OBVIOUS
  <2>25. Changes(store, q4, ids, ids2)
    <3>1. \A j \in 1 .. Len(ids) : Node(q4, ids[j]) = Node(w2, ids[j])
      BY <1>5, <1>21, <2>11, <2>12, <2>13
    <3> QED
      BY <1>25, <3>1, ChangesStay
  <2>26. MixedWrites(w, store, q4)
    <3>1. \A id : id # HeaderId /\ id # root => Node(q4, id) = Node(w2, id)
      BY <2>11, <2>13
    <3>2. Node(w2, new) # Dead
      BY <1>13, <1>15, NodeKinds
    <3>3. new # HeaderId /\ new # root /\ ids[i] # HeaderId /\ ids[i] # root
      BY <1>5, <1>13, <1>21, <2>9, <2>12, <3>2
    <3>4. Mixed(w1, store, q4)
      BY <1>13, <1>15, <3>1, <3>3 DEF Mixed
    <3>5. Mixed(w2, store, q4)
      BY <1>15, <3>1, <3>3 DEF Mixed
    <3>6. \A id : Node(q3, id) = Node(w2, id) \/ Node(q3, id) = Node(q4, id)
      BY <2>11, <2>12, <2>13
    <3>7. \A id : id = HeaderId \/ id = root \/ Node(q3, id) = Node(w2, id)
      BY <2>11
    <3>8. Node(q3, HeaderId) = Node(store, HeaderId)
      BY <1>24, <2>11, <2>12
    <3>9. Node(q3, root) = Node(q4, root)
      BY <2>12, <2>13
    <3>10. Mixed(q3, store, q4) /\ Mixed(q4, store, q4)
      BY <3>1, <3>7, <3>8, <3>9 DEF Mixed
    <3>11. MixedWrites(<<w1, w2>>, store, q4) /\ MixedWrites(<<q3, q4>>, store, q4)
      BY <3>4, <3>5, <3>10, MixedSequences
    <3>12. <<w1, w2>> \in Seq(Seq(Nodes)) /\ <<q3, q4>> \in Seq(Seq(Nodes))
      BY <1>15, <2>11, <2>13, OneOrTwoWrites
    <3> QED
      BY <2>24, <3>11, <3>12, MixedSequences
  <2>27. w \in Seq(Seq(Nodes)) /\ w # <<>> /\ Last(w) = q4 /\ m = AllOf(es2)
    BY <1>22, <2>22, <2>24
  <2>28. Leads(w, h, m, ids)
    BY <1>23, <2>20, <2>21, <2>25, <2>26, <2>27 DEF Leads
  <2> QED
    BY <2>23, <2>24, <2>28 DEF Begun
<1>30. CASE handle.height = 2
  <2>1. Children = Separators(ids, es) /\ ChildIndex(e) = i /\ Len(Separators(ids, es)) = Len(ids) /\ Len(ids) > 1
    BY <1>2, <1>3, <1>30, SeparatorFacts
  <2>2. Len(ids) < InternalCapacity /\ Begin(Append(<<w1, w2>>, s5), handle, model \cup {e})
    BY <1>27, <1>30, <2>1
  <2>3. Len(ids) \in 2 .. InternalCapacity /\ Len(ids2) \in 2 .. InternalCapacity
    BY <1>4, <1>21, <2>1, <2>2, CapacityAssumption
  <2>4. PICK C : C = [high : Universe, id : Nat]
    OBVIOUS
  <2>5. Separators(ids, es) \in Seq(C)
    <3>1. Separators(ids, es) \in Roots
      BY <1>3, <2>3, SeparatorFacts
    <3> QED
      BY <2>4, <3>1 DEF Roots
  <2>6. Child(High(left), ids[i]) \in C /\ Child(High(right), new) \in C
    <3>1. High(left) \in Universe /\ High(right) \in Universe
      <4>1. left \in SUBSET Universe /\ right \in SUBSET Universe /\ left \in SUBSET Pairs /\ right \in SUBSET Pairs
            /\ IsFiniteSet(left) /\ IsFiniteSet(right)
        BY <1>10, EntrySetFacts
      <4>2. High(left) \in left /\ High(right) \in right
        BY <1>10, <4>1, Extremes
      <4> QED
        BY <4>1, <4>2
    <3> QED
      BY <1>2, <1>4, <1>12, <2>4, <3>1 DEF Child
  <2>7. InsertAt([Separators(ids, es) EXCEPT ![i] = Child(High(left), ids[i])], i + 1, Child(High(right), new))
          = Separators(ids2, es2)
    <3>1. Len(Separators(ids, es)) = Len(ids) /\ i \in 1 .. Len(ids) /\ Len(ids) \in Nat /\ Len(es) = Len(ids)
      BY <1>2, <1>4, <2>1
    <3>2. SplitSets(es, i, left, right, es2) /\ SplitIds(ids, i, new, ids2)
      BY <1>17, <1>19
    <3> QED
      BY ONLY <2>5, <2>6, <3>1, <3>2, SplitSeparators
  <2>8. grownRoot = Internal(Separators(ids2, es2))
    BY <1>28, <2>1, <2>7
  <2>9. PICK q : q = Put(w2, handle.root, Internal(Separators(ids2, es2)))
    OBVIOUS
  <2>10. s5 = q
    BY <2>8, <2>9
  <2>11. Separators(ids2, es2) \in Roots
    BY <1>20, <1>21, <2>3, SeparatorFacts
  <2>12. /\ q \in Seq(Nodes)
         /\ \A id : Node(q, id) = IF id = handle.root THEN Internal(Separators(ids2, es2)) ELSE Node(w2, id)
    <3>1. Node(w2, handle.root) # Dead
      BY <1>5, <1>24, <1>30
    <3> QED
      BY <1>15, <2>9, <2>11, <3>1, PutNode, NodeKinds
  <2>13. LeavesAre(q, ids2, es2)
    <3>1. \A j \in 1 .. Len(ids2) : Node(q, ids2[j]) = Node(w2, ids2[j])
      BY <1>24, <1>30, <2>12
    <3> QED
      BY <1>21, <3>1, LeavesStay
  <2>14. RootIs(q, handle, ids2, es2)
    BY <1>30, <2>3, <2>12 DEF RootIs
  <2>15. Node(q, HeaderId) = Header(handle.height, handle.root, handle.first)
    BY <1>3, <1>5, <1>24, <1>30, <2>12
  <2>16. NoMore(store, handle, ids, q, handle, ids2)
    <3>1. ASSUME NEW id, Outside(q, handle, ids2, id) PROVE Outside(store, handle, ids, id)
      <4>1. Node(q, id) # Dead /\ id # HeaderId /\ id # handle.root /\ \A j \in 1 .. Len(ids2) : id # ids2[j]
        BY <3>1 DEF Outside
      <4> QED
        BY <1>24, <2>12, <4>1
    <3> QED
      BY <3>1 DEF NoMore
  <2>17. TreeAt(q, handle, ids2, es2)
    BY <1>3, <1>20, <1>21, <2>13, <2>14, <2>15 DEF TreeAt
  <2>18. Changes(store, q, ids, ids2)
    <3>1. \A j \in 1 .. Len(ids) : Node(q, ids[j]) = Node(w2, ids[j])
      BY <1>5, <1>30, <2>12
    <3> QED
      BY <1>25, <3>1, ChangesStay
  <2>19. PICK w, m : w = Append(<<w1, w2>>, q) /\ m = model \cup {e}
    OBVIOUS
  <2>20. w \in Seq(Seq(Nodes)) /\ w # <<>> /\ Last(w) = q
    <3>1. w = <<w1, w2>> \o <<q>>
      BY <1>15, <2>12, <2>19
    <3>2. <<w1, w2>> \in Seq(Seq(Nodes)) /\ <<q>> \in Seq(Seq(Nodes)) /\ <<q>> # <<>> /\ Last(<<q>>) = q
      BY <1>15, <2>12, OneOrTwoWrites
    <3> QED
      BY <3>1, <3>2, LastWrite
  <2>21. Begin(w, handle, m)
    BY <2>2, <2>10, <2>19
  <2>22. MixedWrites(w, store, q)
    <3>1. \A id : id # handle.root => Node(q, id) = Node(w2, id)
      BY <2>12
    <3>2. new # handle.root /\ ids[i] # handle.root
      BY <1>5, <1>13, <1>30
    <3>3. Mixed(w1, store, q)
      BY <1>13, <1>15, <3>1, <3>2 DEF Mixed
    <3>4. Mixed(w2, store, q)
      BY <1>15, <3>1, <3>2 DEF Mixed
    <3>5. Mixed(q, store, q)
      BY DEF Mixed
    <3>6. MixedWrites(<<w1, w2>>, store, q) /\ MixedWrites(<<q>>, store, q)
      BY <3>3, <3>4, <3>5, MixedSequences
    <3>7. w = <<w1, w2>> \o <<q>> /\ <<w1, w2>> \in Seq(Seq(Nodes)) /\ <<q>> \in Seq(Seq(Nodes))
      BY <1>15, <2>12, <2>19, OneOrTwoWrites
    <3> QED
      BY <3>6, <3>7, MixedSequences
  <2>23. m = AllOf(es2)
    BY <1>22, <2>19
  <2>24. Leads(w, handle, m, ids)
    BY <1>23, <2>16, <2>17, <2>18, <2>20, <2>22, <2>23 DEF Leads
  <2> QED
    BY <2>21, <2>24 DEF Begun
<1> QED
  BY <1>3, <1>29, <1>30

-----------------------------------------------------------------------------
(***************************************************************************)
(* Taking a leaf out.                                                      *)
(***************************************************************************)

\* A sequence without its i-th element.
Dropped(c, i, c2) ==
  /\ Len(c2) = Len(c) - 1
  /\ \A j \in 1 .. Len(c) - 1 : /\ j < i => c2[j] = c[j]
                                /\ j >= i => c2[j] = c[j + 1]

\* What RemoveAt leaves.
LEMMA DroppedIsRemoved ==
  ASSUME NEW S, NEW c \in Seq(S), NEW i \in 1 .. Len(c), NEW c2, c2 = RemoveAt(c, i)
  PROVE  c2 \in Seq(S) /\ Dropped(c, i, c2)
<1>1. /\ RemoveAt(c, i) \in Seq(S) /\ Len(RemoveAt(c, i)) = Len(c) - 1
      /\ \A j \in 1 .. Len(c) - 1 : /\ j < i => RemoveAt(c, i)[j] = c[j]
                                    /\ j >= i => RemoveAt(c, i)[j] = c[j + 1]
  BY RemovedAt
<1> QED
  BY <1>1 DEF Dropped

\* Where the remaining elements come from, and where they go.
LEMMA DroppedFrom ==
  ASSUME NEW c, Len(c) \in Nat, NEW i \in 1 .. Len(c), NEW c2, Dropped(c, i, c2)
  PROVE  /\ \A j \in 1 .. Len(c2) : \E k \in 1 .. Len(c) : k # i /\ c2[j] = c[k]
         /\ \A k \in 1 .. Len(c) : k # i => \E j \in 1 .. Len(c2) : c2[j] = c[k]
<1> DEFINE n == Len(c)
<1>1. n \in Nat /\ i \in 1 .. n /\ i \in Nat
  OBVIOUS
<1>2. /\ Len(c2) = n - 1
      /\ \A j \in 1 .. n - 1 : (j < i => c2[j] = c[j]) /\ (j >= i => c2[j] = c[j + 1])
  BY DEF Dropped
<1> HIDE DEF n
<1>3. ASSUME NEW j \in 1 .. n - 1 PROVE \E k \in 1 .. n : k # i /\ c2[j] = c[k]
  <2>1. CASE j < i
    <3>1. j \in 1 .. n /\ j # i
      BY <1>1, <2>1
    <3> QED
      BY <1>2, <2>1, <3>1
  <2>2. CASE j >= i
    <3>1. j + 1 \in 1 .. n /\ j + 1 # i
      BY <1>1, <2>2
    <3> QED
      BY <1>2, <2>2, <3>1
  <2> QED
    BY <1>1, <2>1, <2>2
<1>4. ASSUME NEW k \in 1 .. n, k # i PROVE \E j \in 1 .. n - 1 : c2[j] = c[k]
  <2>1. CASE k < i
    <3>1. k \in 1 .. n - 1
      BY <1>1, <2>1
    <3> QED
      BY <1>2, <2>1, <3>1
  <2>2. CASE k > i
    <3>1. k - 1 \in 1 .. n - 1 /\ k - 1 >= i /\ k - 1 + 1 = k
      BY <1>1, <2>2
    <3>2. c2[k - 1] = c[k]
      BY <1>2, <3>1
    <3> QED
      BY <3>1, <3>2
  <2> QED
    BY <1>1, <1>4, <2>1, <2>2
<1> QED
  BY <1>2, <1>3, <1>4 DEF n

\* The remaining leaves are in order.
LEMMA DropEntries ==
  ASSUME NEW es, Ordered(es), Len(es) > 1, NEW i \in 1 .. Len(es),
         NEW es2, es2 \in Seq(EntrySets), Dropped(es, i, es2)
  PROVE  Ordered(es2)
<1> DEFINE n == Len(es)
<1>1. /\ es \in Seq(EntrySets) /\ n \in Nat /\ n > 1 /\ i \in 1 .. n /\ i \in Nat
      /\ \A j, k \in 1 .. n : j < k => \A e \in es[j], f \in es[k] : Less(e, f)
      /\ \A j \in 1 .. n : es[j] # {}
  BY DEF Ordered
<1>2. /\ Len(es2) = n - 1
      /\ \A j \in 1 .. n - 1 : (j < i => es2[j] = es[j]) /\ (j >= i => es2[j] = es[j + 1])
  BY DEF Dropped
<1> HIDE DEF n
<1> DEFINE from(j) == IF j < i THEN j ELSE j + 1
<1>3. ASSUME NEW j \in 1 .. n - 1 PROVE from(j) \in 1 .. n /\ es2[j] = es[from(j)]
  <2>1. CASE j < i
    <3>1. from(j) = j /\ j \in 1 .. n
      BY <1>1, <2>1
    <3> HIDE DEF from
    <3> QED
      BY <1>2, <2>1, <3>1
  <2>2. CASE ~(j < i)
    <3>1. from(j) = j + 1 /\ j + 1 \in 1 .. n /\ j >= i
      BY <1>1, <2>2
    <3> HIDE DEF from
    <3> QED
      BY <1>2, <3>1
  <2> QED
    BY <2>1, <2>2
<1>4. \A j, k \in 1 .. n - 1 : j < k => from(j) < from(k)
  BY <1>1
<1> HIDE DEF from
<1>5. es2 # <<>>
  <2>1. n - 1 > 0
    BY <1>1
  <2> QED
    BY <1>2, <2>1, EmptySeq
<1>6. \A j, k \in 1 .. n - 1 : j < k => \A e \in es2[j], f \in es2[k] : Less(e, f)
  BY <1>1, <1>3, <1>4
<1>7. \A j \in 1 .. n - 1 : es2[j] # {}
  BY <1>1, <1>3
<1> QED
  BY <1>2, <1>5, <1>6, <1>7 DEF Ordered

\* They hold the entries of the other leaves.
LEMMA DropContents ==
  ASSUME NEW es, Ordered(es), NEW i \in 1 .. Len(es), NEW es2, Dropped(es, i, es2)
  PROVE  \A f : f \in AllOf(es2) <=> f \in AllOf(es) /\ f \notin es[i]
<1>1. /\ es \in Seq(EntrySets)
      /\ \A j, k \in 1 .. Len(es) : j < k => \A e \in es[j], f \in es[k] : Less(e, f)
  BY DEF Ordered
<1>2. /\ \A j \in 1 .. Len(es2) : \E k \in 1 .. Len(es) : k # i /\ es2[j] = es[k]
      /\ \A k \in 1 .. Len(es) : k # i => \E j \in 1 .. Len(es2) : es2[j] = es[k]
  <2>1. Len(es) \in Nat /\ i \in 1 .. Len(es) /\ Dropped(es, i, es2)
    BY ONLY <1>1, i \in 1 .. Len(es), Dropped(es, i, es2)
  <2>2. \A j \in 1 .. Len(es2) : \E k \in 1 .. Len(es) : k # i /\ es2[j] = es[k]
    BY ONLY <2>1, DroppedFrom, SMTT(60)
  <2>3. \A k \in 1 .. Len(es) : k # i => \E j \in 1 .. Len(es2) : es2[j] = es[k]
    BY ONLY <2>1, DroppedFrom, SMTT(60)
  <2> QED
    BY ONLY <2>2, <2>3
<1>3. ASSUME NEW k \in 1 .. Len(es), k # i, NEW f, f \in es[k] PROVE f \notin es[i]
  <2>1. SUFFICES ASSUME f \in es[i] PROVE FALSE
    OBVIOUS
  <2>2. Less(f, f)
    <3>1. k < i \/ k > i
      BY <1>3
    <3> QED
      BY <1>1, <1>3, <2>1, <3>1
  <2>3. f \in Pairs
    BY <1>1, <2>1, ElementOfSeq, EntrySetFacts
  <2> QED
    BY <2>2, <2>3, LessOrder
<1>4. ASSUME NEW f, f \in AllOf(es2) PROVE f \in AllOf(es) /\ f \notin es[i]
  <2>1. PICK j \in 1 .. Len(es2) : f \in es2[j]
    BY <1>4, AllOfMeaning
  <2>2. PICK k \in 1 .. Len(es) : k # i /\ es2[j] = es[k]
    BY <1>2
  <2> QED
    BY <1>3, <2>1, <2>2, AllOfMeaning
<1>5. ASSUME NEW f, f \in AllOf(es), f \notin es[i] PROVE f \in AllOf(es2)
  <2>1. PICK k \in 1 .. Len(es) : f \in es[k]
    BY <1>5, AllOfMeaning
  <2>2. PICK j \in 1 .. Len(es2) : es2[j] = es[k]
    BY <1>2, <1>5, <2>1
  <2> QED
    BY <2>1, <2>2, AllOfMeaning
<1> QED
  BY <1>4, <1>5

\* The leaf in front of leaf i is linked past it.
Relinked(st, ids, es, i, w) ==
  /\ \A j \in 1 .. Len(ids) : j # i /\ j + 1 # i => Node(w, ids[j]) = Node(st, ids[j])
  /\ i > 1 => Node(w, ids[i - 1]) = Leaf(es[i - 1], NextOf(ids, i))

\* The other leaves remain, in order and linked.
LEMMA DropLeaves ==
  ASSUME NEW st, NEW ids, NEW es, Ordered(es), LeavesAre(st, ids, es), Len(ids) > 1, NEW i \in 1 .. Len(ids),
         NEW es2, es2 \in Seq(EntrySets), Dropped(es, i, es2),
         NEW ids2, ids2 \in Seq(Nat), Dropped(ids, i, ids2),
         NEW w, Relinked(st, ids, es, i, w)
  PROVE  /\ LeavesAre(w, ids2, es2)
         /\ ids2[1] = IF i = 1 THEN NextOf(ids, 1) ELSE ids[1]
<1> DEFINE n == Len(ids)
<1>1. /\ n \in Nat /\ n > 1 /\ i \in 1 .. n /\ i \in Nat /\ Len(es) = n /\ ids \in Seq(Nat)
      /\ \A j \in 1 .. n : Node(st, ids[j]) = Leaf(es[j], NextOf(ids, j))
      /\ \A j, k \in 1 .. n : ids[j] = ids[k] => j = k
  BY LeafFacts DEF LeavesAre
<1>2. /\ Len(es2) = n - 1
      /\ \A j \in 1 .. n - 1 : (j < i => es2[j] = es[j]) /\ (j >= i => es2[j] = es[j + 1])
  BY <1>1 DEF Dropped
<1>3. /\ Len(ids2) = n - 1
      /\ \A j \in 1 .. n - 1 : (j < i => ids2[j] = ids[j]) /\ (j >= i => ids2[j] = ids[j + 1])
  BY <1>1 DEF Dropped
<1>4. /\ \A j \in 1 .. n : j # i /\ j + 1 # i => Node(w, ids[j]) = Node(st, ids[j])
      /\ i > 1 => Node(w, ids[i - 1]) = Leaf(es[i - 1], NextOf(ids, i))
  BY DEF Relinked
<1>5. /\ \A j : NextOf(ids, j) = IF j < n THEN ids[j + 1] ELSE Nil
      /\ \A j : NextOf(ids2, j) = IF j < n - 1 THEN ids2[j + 1] ELSE Nil
  BY <1>3 DEF NextOf
<1> HIDE DEF n
<1>6. ASSUME NEW j \in 1 .. n - 1, NEW k \in 1 .. n - 1, j < k PROVE ids2[j] # ids2[k]
  <2>1. CASE k < i
    <3>1. j < i /\ j \in 1 .. n /\ k \in 1 .. n /\ j # k
      BY <1>1, <1>6, <2>1
    <3> QED
      BY <1>1, <1>3, <2>1, <3>1
  <2>2. CASE j < i /\ k >= i
    <3>1. j \in 1 .. n /\ k + 1 \in 1 .. n /\ j # k + 1
      BY <1>1, <1>6, <2>2
    <3> QED
      BY <1>1, <1>3, <2>2, <3>1
  <2>3. CASE j >= i
    <3>1. k >= i /\ j + 1 \in 1 .. n /\ k + 1 \in 1 .. n /\ j + 1 # k + 1
      BY <1>1, <1>6, <2>3
    <3> QED
      BY <1>1, <1>3, <2>3, <3>1
  <2> QED
    BY <1>1, <2>1, <2>2, <2>3
<1>7. ASSUME NEW j \in 1 .. n - 1 PROVE Node(w, ids2[j]) = Leaf(es2[j], NextOf(ids2, j))
  <2>1. CASE j + 1 < i
    <3>1. j < i /\ j \in 1 .. n /\ j + 1 \in 1 .. n - 1 /\ j # i /\ j + 1 # i /\ j < n /\ j < n - 1
      BY <1>1, <2>1
    <3>2. ids2[j] = ids[j] /\ es2[j] = es[j] /\ NextOf(ids2, j) = NextOf(ids, j)
      BY <1>2, <1>3, <1>5, <2>1, <3>1
    <3> QED
      BY <1>1, <1>4, <3>1, <3>2
  <2>2. CASE j + 1 = i
    <3>1. j < i /\ i > 1 /\ i - 1 = j
      BY <1>1, <2>2
    <3>2. ids2[j] = ids[i - 1] /\ es2[j] = es[i - 1]
      BY <1>2, <1>3, <3>1
    <3>3. NextOf(ids2, j) = NextOf(ids, i)
      <4>1. CASE i < n
        <5>1. j < n - 1 /\ i \in 1 .. n - 1 /\ i >= i
          BY <1>1, <2>2, <4>1
        <5>2. ids2[i] = ids[i + 1]
          BY <1>3, <5>1
        <5> QED
          BY <1>5, <2>2, <4>1, <5>1, <5>2
      <4>2. CASE ~(i < n)
        <5>1. ~(j < n - 1)
          BY <1>1, <2>2, <4>2
        <5> QED
          BY <1>5, <4>2, <5>1
      <4> QED
        BY <4>1, <4>2
    <3> QED
      BY <1>4, <3>1, <3>2, <3>3
  <2>3. CASE j >= i
    <3>1. j + 1 \in 1 .. n /\ j + 1 # i /\ j + 1 + 1 # i
      BY <1>1, <2>3
    <3>2. ids2[j] = ids[j + 1] /\ es2[j] = es[j + 1]
      BY <1>2, <1>3, <2>3
    <3>3. NextOf(ids2, j) = NextOf(ids, j + 1)
      <4>1. CASE j < n - 1
        <5>1. j + 1 < n /\ j + 1 \in 1 .. n - 1 /\ j + 1 >= i
          BY <1>1, <2>3, <4>1
        <5>2. ids2[j + 1] = ids[j + 1 + 1]
          BY <1>3, <5>1
        <5> QED
          BY <1>5, <4>1, <5>1, <5>2
      <4>2. CASE ~(j < n - 1)
        <5>1. ~(j + 1 < n)
          BY <1>1, <4>2
        <5> QED
          BY <1>5, <4>2, <5>1
      <4> QED
        BY <4>1, <4>2
    <3> QED
      BY <1>1, <1>4, <3>1, <3>2, <3>3
  <2> QED
    BY <1>1, <2>1, <2>2, <2>3
<1>8. ASSUME NEW j \in 1 .. n - 1, NEW k \in 1 .. n - 1, ids2[j] = ids2[k] PROVE j = k
  <2>1. j < k \/ k < j \/ j = k
    BY <1>1
  <2> QED
    BY <1>6, <1>8, <2>1
<1>9. LeavesAre(w, ids2, es2)
  BY <1>2, <1>3, <1>7, <1>8 DEF LeavesAre
<1>10. ids2[1] = IF i = 1 THEN NextOf(ids, 1) ELSE ids[1]
  <2>1. 1 \in 1 .. n - 1 /\ 1 < n
    BY <1>1
  <2>2. CASE i = 1
    BY <1>3, <1>5, <2>1, <2>2
  <2>3. CASE i # 1
    <3>1. 1 < i
      BY <1>1, <2>3
    <3> QED
      BY <1>3, <2>1, <2>3, <3>1
  <2> QED
    BY <2>2, <2>3
<1> QED
  BY <1>9, <1>10

\* The children that remain.
LEMMA DropSeparators ==
  ASSUME NEW C, NEW ids, NEW es, Separators(ids, es) \in Seq(C), Len(Separators(ids, es)) = Len(ids),
         Len(ids) \in Nat, Len(es) = Len(ids), NEW i \in 1 .. Len(ids),
         NEW es2, Dropped(es, i, es2), NEW ids2, Dropped(ids, i, ids2)
  PROVE  RemoveAt(Separators(ids, es), i) = Separators(ids2, es2)
<1> DEFINE n == Len(ids)
<1>1. PICK a : a = Separators(ids, es)
  OBVIOUS
<1>2. PICK a2 : a2 = RemoveAt(a, i)
  OBVIOUS
<1>3. PICK b : b = Separators(ids2, es2)
  OBVIOUS
<1>4. n \in Nat /\ i \in 1 .. n /\ i \in Nat
  OBVIOUS
<1>5. /\ a \in Seq(C) /\ Len(a) = n
      /\ \A j \in 1 .. n : a[j] = Child(High(es[j]), ids[j])
  BY <1>1 DEF Separators
<1>6. /\ Len(ids2) = n - 1
      /\ \A j \in 1 .. n - 1 : (j < i => ids2[j] = ids[j]) /\ (j >= i => ids2[j] = ids[j + 1])
  BY DEF Dropped
<1>7. \A j \in 1 .. n - 1 : (j < i => es2[j] = es[j]) /\ (j >= i => es2[j] = es[j + 1])
  BY DEF Dropped
<1> HIDE DEF n
<1>8. /\ a2 \in Seq(C) /\ Len(a2) = n - 1
      /\ \A j \in 1 .. n - 1 : (j < i => a2[j] = a[j]) /\ (j >= i => a2[j] = a[j + 1])
  <2>1. a \in Seq(C) /\ i \in 1 .. Len(a)
    BY <1>4, <1>5
  <2>2. a2 \in Seq(C) /\ Dropped(a, i, a2)
    BY ONLY <1>2, <2>1, DroppedIsRemoved
  <2> QED
    BY <1>5, <2>2 DEF Dropped
<1>9. b = [j \in 1 .. n - 1 |-> Child(High(es2[j]), ids2[j])]
  BY <1>3, <1>6 DEF Separators
<1>10. ASSUME NEW j \in 1 .. n - 1 PROVE a2[j] = Child(High(es2[j]), ids2[j])
  <2>1. CASE j < i
    <3>1. j \in 1 .. n
      BY <1>4
    <3> QED
      BY <1>5, <1>6, <1>7, <1>8, <2>1, <3>1
  <2>2. CASE j >= i
    <3>1. j + 1 \in 1 .. n
      BY <1>4
    <3> QED
      BY <1>5, <1>6, <1>7, <1>8, <2>2, <3>1
  <2> QED
    BY <1>4, <2>1, <2>2
<1>11. a2 = [j \in 1 .. n - 1 |-> a2[j]]
  <2>1. a2 = [j \in 1 .. Len(a2) |-> a2[j]]
    BY <1>8
  <2> QED
    BY <1>8, <2>1
<1>12. a2 = b
  BY <1>9, <1>10, <1>11
<1> QED
  BY <1>1, <1>2, <1>3, <1>12

\* What erase finds when it empties a leaf, and the store after the leaf has been unlinked.
Emptied(e, ids, es, i) ==
  /\ ChildIndex(e) = i /\ Target(e) = ids[i] /\ TargetLeaf(e).next = NextOf(ids, i) /\ es[i] = {e}
  /\ Unlinked(e) \in Seq(Seq(Nodes)) /\ LastOr(Unlinked(e), store) \in Seq(Nodes)
  /\ Unlinked(e) = <<>> \/ Unlinked(e) = <<LastOr(Unlinked(e), store)>>
  /\ \A id : (i > 1 /\ id = ids[i - 1]) => Node(LastOr(Unlinked(e), store), id) = Leaf(es[i - 1], NextOf(ids, i))
  /\ \A id : ~(i > 1 /\ id = ids[i - 1]) => Node(LastOr(Unlinked(e), store), id) = Node(store, id)

\* It empties one of the tree's leaves.
LEMMA EmptiedFacts ==
  ASSUME NEW e \in Universe, Empties(e), store \in Seq(Nodes), NEW ids, NEW es, TreeAt(store, handle, ids, es)
  PROVE  \E i \in 1 .. Len(ids) : Emptied(e, ids, es, i)
<1>1. handle.height = 2 /\ TargetLeaf(e).entries = {e}
  BY DEF Empties
<1>2. PICK i \in 1 .. Len(ids) :
      /\ ChildIndex(e) = i /\ Target(e) = ids[i]
      /\ TargetLeaf(e).entries = es[i] /\ TargetLeaf(e).next = NextOf(ids, i)
  BY <1>1, TargetPlace
<1>3. /\ Ordered(es) /\ LeavesAre(store, ids, es) /\ Len(ids) > 1 /\ Children = Separators(ids, es)
  BY <1>1, ChildrenAre
<1>4. ids \in Seq(Nat) /\ Len(ids) \in Nat
  BY <1>3, LeafFacts
<1>5. es[i] = {e}
  BY <1>1, <1>2
<1>6. CASE i = 1
  <2>1. Unlinked(e) = <<>>
    BY <1>2, <1>6 DEF Unlinked
  <2>2. LastOr(Unlinked(e), store) = store /\ Unlinked(e) \in Seq(Seq(Nodes))
    BY <2>1 DEF LastOr
  <2>3. ~(i > 1)
    BY <1>6
  <2> QED
    BY <1>2, <1>5, <2>1, <2>2, <2>3 DEF Emptied
<1>7. CASE i # 1
  <2>1. i > 1 /\ i - 1 \in 1 .. Len(ids)
    BY <1>4, <1>7
  <2>2. PICK p : p = ids[i - 1]
    OBVIOUS
  <2>3. Predecessor(e) = p
    BY <1>2, <1>3, <2>1, <2>2, SeparatorFacts DEF Predecessor
  <2>4. /\ Node(store, p) = Leaf(es[i - 1], NextOf(ids, i - 1)) /\ Node(store, p) # Dead
        /\ es[i - 1] \in EntrySets
    BY <1>3, <2>1, <2>2, LeafFacts
  <2>5. PICK n : n = Leaf(es[i - 1], NextOf(ids, i))
    OBVIOUS
  <2>6. [Node(store, p) EXCEPT !.next = TargetLeaf(e).next] = n
    BY <1>2, <2>4, <2>5 DEF Leaf
  <2>7. n \in Nodes
    BY <1>2, <1>4, <2>4, <2>5, NextIsId, NodeKinds
  <2>8. PICK s : s = Put(store, p, n)
    OBVIOUS
  <2>9. s \in Seq(Nodes) /\ \A id : Node(s, id) = IF id = p THEN n ELSE Node(store, id)
    BY <2>4, <2>7, <2>8, PutNode
  <2>10. Unlinked(e) = <<s>>
    BY <1>2, <1>7, <2>3, <2>6, <2>8 DEF Unlinked
  <2>11. Unlinked(e) \in Seq(Seq(Nodes)) /\ Unlinked(e) # <<>> /\ Last(Unlinked(e)) = s
    BY <2>9, <2>10, OneOrTwoWrites
  <2>12. LastOr(Unlinked(e), store) = s
    BY <2>11 DEF LastOr
  <2> QED
    BY <1>2, <1>5, <2>1, <2>2, <2>5, <2>9, <2>10, <2>11, <2>12 DEF Emptied
<1> QED
  BY <1>6, <1>7

\* A leaf goes, and its separator with it.
LEMMA EraseLeafLeads ==
  ASSUME store \in Seq(Nodes), NEW ids \in Seq(Nat), NEW es \in Seq(EntrySets),
         TreeAt(store, handle, ids, es), model = AllOf(es), NEW e \in Universe, EraseLeaf(e)
  PROVE  Begun(ids)
<1>1. TreeAt(store, handle, ids, es) /\ model = AllOf(es)
  OBVIOUS
<1>2. store \in Seq(Nodes) /\ Empties(e) /\ Len(Children) > 2 /\ handle.height = 2
  BY DEF EraseLeaf, Empties
<1>3. /\ Ordered(es) /\ LeavesAre(store, ids, es) /\ RootIs(store, handle, ids, es)
      /\ Children = Separators(ids, es) /\ handle.first = ids[1] /\ handle \in Handles
      /\ Node(store, HeaderId) = Header(handle.height, handle.root, handle.first)
      /\ \A id : Node(store, id) # Dead => \/ id = HeaderId \/ id = handle.root
                                           \/ (\E j \in 1 .. Len(ids) : id = ids[j])
                                           \/ Outside(store, handle, ids, id)
  BY <1>1, <1>2, ChildrenAre DEF TreeAt, Outside
<1>4. PICK i \in 1 .. Len(ids) : Emptied(e, ids, es, i)
  BY <1>1, <1>2, EmptiedFacts
<1>5. PICK u, s : u = Unlinked(e) /\ s = LastOr(Unlinked(e), store)
  OBVIOUS
<1>6. /\ u \in Seq(Seq(Nodes)) /\ s \in Seq(Nodes)
      /\ \A id : (i > 1 /\ id = ids[i - 1]) => Node(s, id) = Leaf(es[i - 1], NextOf(ids, i))
      /\ \A id : ~(i > 1 /\ id = ids[i - 1]) => Node(s, id) = Node(store, id)
      /\ ChildIndex(e) = i /\ Target(e) = ids[i] /\ TargetLeaf(e).next = NextOf(ids, i) /\ es[i] = {e}
      /\ u = <<>> \/ u = <<s>>
  BY <1>4, <1>5 DEF Emptied
<1>7. /\ Len(ids) \in Nat /\ Len(es) = Len(ids) /\ Len(ids) > 2 /\ Len(Separators(ids, es)) = Len(ids)
      /\ Len(ids) \in 2 .. InternalCapacity /\ InternalCapacity \in Nat
      /\ \A j \in 1 .. Len(ids) : Node(store, ids[j]) # Dead
      /\ \A j, k \in 1 .. Len(ids) : ids[j] = ids[k] => j = k
  <2>1. Len(Separators(ids, es)) = Len(ids)
    BY <1>3, SeparatorFacts
  <2>2. Len(ids) \in 2 .. InternalCapacity
    BY <1>2, <1>3 DEF RootIs
  <2>3. \A j, k \in 1 .. Len(ids) : ids[j] = ids[k] => j = k
    BY <1>3 DEF LeavesAre
  <2>4. Len(ids) \in Nat /\ Len(es) = Len(ids) /\ \A j \in 1 .. Len(ids) : Node(store, ids[j]) # Dead
    BY <1>3, LeafFacts
  <2> QED
    BY <1>2, <1>3, <2>1, <2>2, <2>3, <2>4, CapacityAssumption
<1>8. /\ \A j \in 1 .. Len(ids) : ids[j] # HeaderId /\ ids[j] # handle.root
      /\ handle.root # HeaderId /\ Node(store, handle.root) # Dead /\ Node(store, HeaderId) # Dead
  BY <1>1, <1>2, Apart
<1>9. PICK ids2, es2 : ids2 = RemoveAt(ids, i) /\ es2 = RemoveAt(es, i)
  OBVIOUS
<1>10. ids2 \in Seq(Nat) /\ Dropped(ids, i, ids2) /\ es2 \in Seq(EntrySets) /\ Dropped(es, i, es2)
  BY <1>7, <1>9, DroppedIsRemoved
<1>11. Len(ids2) = Len(ids) - 1
  BY <1>10 DEF Dropped
<1>12. Ordered(es2)
  <2>1. Ordered(es) /\ Len(es) > 1 /\ i \in 1 .. Len(es)
    BY <1>3, <1>7
  <2> QED
    BY ONLY <1>10, <2>1, DropEntries
<1>13. PICK q1 : q1 = Put(s, handle.root, Internal(Separators(ids2, es2)))
  OBVIOUS
<1>14. PICK first : first = IF i = 1 THEN NextOf(ids, 1) ELSE ids[1]
  OBVIOUS
<1>15. PICK h : h = [height |-> 2, root |-> handle.root, first |-> first]
  OBVIOUS
<1>16. PICK q2 : q2 = IF i = 1 THEN Put(q1, HeaderId, Header(2, handle.root, first)) ELSE q1
  OBVIOUS
<1>17. PICK v : v = IF i = 1 THEN <<q2>> ELSE <<>>
  OBVIOUS
<1>18. PICK f : f = Put(q2, ids[i], Dead)
  OBVIOUS
<1>19. RemoveAt(Children, i) = Separators(ids2, es2)
  <2>1. PICK C : C = [high : Universe, id : Nat]
    OBVIOUS
  <2>2. Separators(ids, es) \in Seq(C)
    <3>1. Separators(ids, es) \in Roots
      BY <1>3, <1>7, SeparatorFacts
    <3> QED
      BY <2>1, <3>1 DEF Roots
  <2>3. RemoveAt(Separators(ids, es), i) = Separators(ids2, es2)
    BY <1>7, <1>10, <2>2, DropSeparators
  <2> QED
    BY <1>3, <2>3
<1>20. first \in Nat
  BY <1>4, <1>7, <1>14, NextIsId
<1>21. Begin(u \o <<q1>> \o v \o <<f>>, h, model \ {e})
  <2> DEFINE s1 == Put(LastOr(Unlinked(e), store), handle.root, Internal(RemoveAt(Children, ChildIndex(e))))
             fst == IF ChildIndex(e) = 1 THEN TargetLeaf(e).next ELSE handle.first
             s2 == IF ChildIndex(e) = 1 THEN <<Put(s1, HeaderId, Header(2, handle.root, fst))>> ELSE <<>>
             h1 == [handle EXCEPT !.first = fst]
  <2>1. Begin(Unlinked(e) \o <<s1>> \o s2 \o <<Delete(LastOr(s2, s1), Target(e))>>, h1, model \ {e})
    BY DEF EraseLeaf
  <2>2. s1 = q1
    BY <1>5, <1>6, <1>13, <1>19
  <2>3. fst = first
    BY <1>3, <1>6, <1>14
  <2> HIDE DEF s1, fst
  <2>4. s2 = v
    BY <1>6, <1>16, <1>17, <2>2, <2>3
  <2>5. LastOr(s2, s1) = q2
    <3>1. CASE i = 1
      <4>1. s2 = <<q2>>
        BY <1>17, <2>4, <3>1
      <4>2. s2 # <<>> /\ Last(s2) = q2
        BY <4>1 DEF Last
      <4> QED
        BY <4>2 DEF LastOr
    <3>2. CASE i # 1
      BY <1>16, <1>17, <2>2, <2>4, <3>2 DEF LastOr
    <3> QED
      BY <3>1, <3>2
  <2> HIDE DEF s2
  <2>6. Delete(LastOr(s2, s1), Target(e)) = f
    BY <1>6, <1>18, <2>5 DEF Delete
  <2>7. h1 = h
    <3>1. handle = [height |-> 2, root |-> handle.root, first |-> handle.first]
      BY <1>2, <1>3 DEF Handles
    <3>2. [handle EXCEPT !.first = first] = [height |-> 2, root |-> handle.root, first |-> first]
      BY <3>1
    <3> QED
      BY <1>15, <2>3, <3>2
  <2> HIDE DEF h1
  <2> QED
    BY <1>5, <2>1, <2>2, <2>4, <2>6, <2>7
<1>22. /\ LeavesAre(s, ids2, es2) /\ ids2[1] = first
       /\ \A j \in 1 .. Len(ids) : j # i /\ j + 1 # i => Node(s, ids[j]) = Node(store, ids[j])
  <2>1. PICK st : st = store
    OBVIOUS
  <2>2. Relinked(st, ids, es, i, s)
    <3>1. ASSUME i > 1 PROVE Node(s, ids[i - 1]) = Leaf(es[i - 1], NextOf(ids, i))
      BY <1>6, <3>1
    <3>2. ASSUME NEW j \in 1 .. Len(ids), j # i, j + 1 # i PROVE Node(s, ids[j]) = Node(st, ids[j])
      <4>1. ~(i > 1 /\ ids[j] = ids[i - 1])
        <5>1. ASSUME i > 1, ids[j] = ids[i - 1] PROVE FALSE
          <6>1. i - 1 \in 1 .. Len(ids) /\ j # i - 1
            BY <1>7, <3>2, <5>1
          <6> QED
            BY <1>7, <5>1, <6>1
        <5> QED
          BY <5>1
      <4> QED
        BY <1>6, <2>1, <4>1
    <3> QED
      BY <3>1, <3>2 DEF Relinked
  <2>3. Ordered(es) /\ LeavesAre(st, ids, es) /\ Len(ids) > 1 /\ i \in 1 .. Len(ids)
    BY <1>3, <1>7, <2>1
  <2>4. LeavesAre(s, ids2, es2) /\ ids2[1] = IF i = 1 THEN NextOf(ids, 1) ELSE ids[1]
    BY ONLY <1>10, <2>2, <2>3, DropLeaves
  <2> QED
    BY <1>14, <2>1, <2>2, <2>4 DEF Relinked
<1>23. Len(ids2) \in 2 .. InternalCapacity
  BY <1>7, <1>11
<1>24. Internal(Separators(ids2, es2)) \in Nodes
  <2>1. Ordered(es2) /\ LeavesAre(s, ids2, es2)
    BY <1>12, <1>22
  <2>2. Separators(ids2, es2) \in Roots
    BY <1>23, <2>1, SeparatorFacts
  <2> QED
    BY <2>2, NodeKinds
<1>25. /\ Node(s, handle.root) # Dead
       /\ Node(s, HeaderId) = Header(2, handle.root, handle.first)
       /\ Node(s, ids[i]) # Dead
       /\ \A id : Node(s, id) # Dead => \/ id = HeaderId \/ id = handle.root
                                        \/ (\E j \in 1 .. Len(ids) : id = ids[j])
                                        \/ Outside(store, handle, ids, id)
       /\ \A id : Node(s, id) = Node(store, id) \/ (id # handle.root /\ id # HeaderId /\ id # ids[i])
  <2>1. ASSUME NEW id, i > 1, id = ids[i - 1]
        PROVE  id # handle.root /\ id # HeaderId /\ id # ids[i] /\ \E j \in 1 .. Len(ids) : id = ids[j]
    <3>1. i - 1 \in 1 .. Len(ids) /\ i - 1 # i
      BY <1>7, <2>1
    <3> QED
      BY <1>7, <1>8, <2>1, <3>1
  <2>2. \A id : id = handle.root \/ id = HeaderId \/ id = ids[i] => Node(s, id) = Node(store, id)
    BY <1>6, <2>1
  <2>3. ASSUME NEW id, Node(s, id) # Dead
        PROVE  \/ id = HeaderId \/ id = handle.root \/ (\E j \in 1 .. Len(ids) : id = ids[j])
               \/ Outside(store, handle, ids, id)
    <3>1. CASE i > 1 /\ id = ids[i - 1]
      BY <2>1, <3>1
    <3>2. CASE ~(i > 1 /\ id = ids[i - 1])
      BY <1>3, <1>6, <2>3, <3>2
    <3> QED
      BY <3>1, <3>2
  <2>4. \A id : Node(s, id) = Node(store, id) \/ (id # handle.root /\ id # HeaderId /\ id # ids[i])
    BY <2>2
  <2>5. Node(store, HeaderId) = Header(2, handle.root, handle.first)
    BY <1>2, <1>3
  <2>6. /\ Node(s, handle.root) = Node(store, handle.root) /\ Node(s, HeaderId) = Node(store, HeaderId)
        /\ Node(s, ids[i]) = Node(store, ids[i])
    BY <2>2
  <2>7. Node(store, handle.root) # Dead /\ Node(store, ids[i]) # Dead
    BY <1>7, <1>8
  <2> QED
    BY <2>3, <2>4, <2>5, <2>6, <2>7
<1>26. /\ q1 \in Seq(Nodes)
       /\ \A id : Node(q1, id) = IF id = handle.root THEN Internal(Separators(ids2, es2)) ELSE Node(s, id)
  <2>1. s \in Seq(Nodes) /\ Node(s, handle.root) # Dead /\ Internal(Separators(ids2, es2)) \in Nodes
    BY <1>6, <1>24, <1>25
  <2> QED
    BY ONLY <1>13, <2>1, PutNode
<1>27. /\ q2 \in Seq(Nodes) /\ Node(q2, HeaderId) = Header(2, handle.root, first)
       /\ \A id : id # HeaderId => Node(q2, id) = Node(q1, id)
  <2>1. Node(q1, HeaderId) = Header(2, handle.root, handle.first) /\ Node(q1, HeaderId) # Dead
    BY <1>8, <1>25, <1>26, NodeKinds
  <2>2. CASE i = 1
    <3>1. q2 = Put(q1, HeaderId, Header(2, handle.root, first))
      BY <1>16, <2>2
    <3>2. Header(2, handle.root, first) \in Nodes
      <4>1. handle.root \in Nat
        BY <1>3 DEF Handles
      <4> QED
        BY <1>20, <4>1, NodeKinds
    <3> QED
      BY <1>26, <2>1, <3>1, <3>2, PutNode
  <2>3. CASE i # 1
    BY <1>3, <1>14, <1>16, <1>26, <2>1, <2>3
  <2> QED
    BY <2>2, <2>3
<1>28. f \in Seq(Nodes) /\ \A id : Node(f, id) = IF id = ids[i] THEN Dead ELSE Node(q2, id)
  <2>1. Node(q2, ids[i]) # Dead
    BY <1>8, <1>25, <1>26, <1>27
  <2>2. Dead \in Nodes
    BY NodeKinds
  <2> QED
    BY <1>18, <1>27, <2>1, <2>2, PutNode
<1>29. /\ \A j \in 1 .. Len(ids2) : \E k \in 1 .. Len(ids) : k # i /\ ids2[j] = ids[k]
       /\ \A k \in 1 .. Len(ids) : k # i => \E j \in 1 .. Len(ids2) : ids2[j] = ids[k]
  <2>1. Len(ids) \in Nat /\ i \in 1 .. Len(ids) /\ Dropped(ids, i, ids2)
    BY <1>7, <1>10
  <2> QED
    BY ONLY <2>1, DroppedFrom
<1>30. LeavesAre(f, ids2, es2)
  <2>1. ASSUME NEW j \in 1 .. Len(ids2) PROVE Node(f, ids2[j]) = Node(s, ids2[j])
    <3>1. PICK k \in 1 .. Len(ids) : k # i /\ ids2[j] = ids[k]
      BY <1>29
    <3>2. ids2[j] # ids[i] /\ ids2[j] # HeaderId /\ ids2[j] # handle.root
      BY <1>7, <1>8, <3>1
    <3> QED
      BY <1>26, <1>27, <1>28, <3>2
  <2> QED
    BY <1>22, <2>1, LeavesStay
<1>31. RootIs(f, h, ids2, es2) /\ Node(f, HeaderId) = Header(h.height, h.root, h.first)
  <2>1. Node(f, handle.root) = Internal(Separators(ids2, es2)) /\ Node(f, HeaderId) = Header(2, handle.root, first)
    BY <1>8, <1>26, <1>27, <1>28
  <2>2. h.height = 2 /\ h.root = handle.root /\ h.first = first
    BY <1>15
  <2> QED
    BY <1>23, <2>1, <2>2 DEF RootIs
<1>32. h \in Handles /\ h.first = ids2[1] /\ h.root = handle.root
  BY <1>3, <1>15, <1>20, <1>22 DEF Handles
<1>33. ASSUME NEW id, Node(f, id) # Dead
       PROVE  \/ id = HeaderId \/ id = h.root \/ (\E j \in 1 .. Len(ids2) : id = ids2[j])
              \/ Outside(store, handle, ids, id)
  <2>1. id # ids[i] /\ (id = HeaderId \/ id = handle.root \/ Node(s, id) # Dead)
    BY <1>26, <1>27, <1>28, <1>33
  <2>2. \/ id = HeaderId \/ id = handle.root \/ (\E k \in 1 .. Len(ids) : id = ids[k] /\ k # i)
        \/ Outside(store, handle, ids, id)
    BY <1>25, <2>1
  <2>3. ASSUME NEW k \in 1 .. Len(ids), id = ids[k], k # i PROVE \E j \in 1 .. Len(ids2) : id = ids2[j]
    <3>1. PICK j \in 1 .. Len(ids2) : ids2[j] = ids[k]
      BY <1>29, <2>3
    <3> QED
      BY <2>3, <3>1
  <2> QED
    BY <1>32, <2>2, <2>3
<1>34. TreeAt(f, h, ids2, es2)
  BY <1>12, <1>30, <1>31, <1>32 DEF TreeAt
<1>35. AllOf(es2) = model \ {e}
  <2>1. i \in 1 .. Len(es) /\ Ordered(es)
    BY <1>3, <1>7
  <2>2. \A g : g \in AllOf(es2) <=> g \in AllOf(es) /\ g \notin es[i]
    BY ONLY <1>10, <2>1, DropContents
  <2> QED
    BY <1>1, <1>6, <2>2
<1>36. PICK x, m : x = u \o <<q1>> \o v \o <<f>> /\ m = model \ {e}
  OBVIOUS
<1>37. NoMore(store, handle, ids, f, h, ids2)
  <2>1. ASSUME NEW id, Outside(f, h, ids2, id) PROVE Outside(store, handle, ids, id)
    <3>1. Node(f, id) # Dead /\ id # HeaderId /\ id # h.root /\ \A j \in 1 .. Len(ids2) : id # ids2[j]
      BY <2>1 DEF Outside
    <3> QED
      BY <1>33, <3>1
  <2> QED
    BY <2>1 DEF NoMore
<1>38. x \in Seq(Seq(Nodes)) /\ x # <<>> /\ Last(x) = f
  <2>1. /\ <<q1>> \in Seq(Seq(Nodes)) /\ <<q1>> # <<>> /\ <<f>> \in Seq(Seq(Nodes)) /\ <<f>> # <<>> /\ Last(<<f>>) = f
        /\ <<q2>> \in Seq(Seq(Nodes))
    BY <1>26, <1>27, <1>28, OneOrTwoWrites
  <2>2. v \in Seq(Seq(Nodes))
    BY <1>17, <2>1
  <2>3. PICK y : y = u \o <<q1>> \o v
    OBVIOUS
  <2>4. y \in Seq(Seq(Nodes))
    <3>1. u \o <<q1>> \in Seq(Seq(Nodes))
      BY <1>6, <2>1, LastWrite
    <3>2. CASE v = <<>>
      BY <2>3, <3>1, <3>2
    <3>3. CASE v # <<>>
      BY <2>2, <2>3, <3>1, <3>3, LastWrite
    <3> QED
      BY <3>2, <3>3
  <2> QED
    BY <1>36, <2>1, <2>3, <2>4, LastWrite
<1>39. Changes(store, f, ids, ids2)
  <2>1. ASSUME NEW j \in 1 .. Len(ids), j \notin {i - 1, i} PROVE Node(f, ids[j]) = Node(store, ids[j])
    <3>1. j # i /\ j + 1 # i
      BY <1>7, <2>1
    <3>2. ids[j] # ids[i] /\ ids[j] # HeaderId /\ ids[j] # handle.root
      BY <1>7, <1>8, <3>1
    <3> QED
      BY <1>22, <1>26, <1>27, <1>28, <3>1, <3>2
  <2>2. Node(f, ids[i]) = Dead
    BY <1>28
  <2>3. i > 1 => ids2[1] = ids[1]
    BY <1>14, <1>22
  <2>4. SameLeaves(store, f, ids, {i - 1, i})
    BY <2>1 DEF SameLeaves
  <2> QED
    BY <1>29, <2>2, <2>3, <2>4 DEF Removed, Changes
<1>40. MixedWrites(x, store, f)
  <2>1. \A id : id # ids[i] /\ id # HeaderId => Node(f, id) = Node(q1, id)
    BY <1>27, <1>28
  <2>2. Mixed(s, store, f)
    BY <1>25, <1>26, <2>1 DEF Mixed
  <2>3. Mixed(q1, store, f)
    <3>1. Node(q1, handle.root) = Node(f, handle.root)
      BY <1>7, <1>8, <2>1
    <3> QED
      BY <1>26, <2>2, <3>1 DEF Mixed
  <2>4. Mixed(q2, store, f)
    <3>1. Node(q2, HeaderId) = Node(f, HeaderId)
      BY <1>8, <1>28
    <3> QED
      BY <1>27, <2>3, <3>1 DEF Mixed
  <2>5. Mixed(f, store, f)
    BY DEF Mixed
  <2>6. MixedWrites(u, store, f) /\ MixedWrites(<<q1>>, store, f) /\ MixedWrites(v, store, f)
        /\ MixedWrites(<<f>>, store, f)
    BY <1>6, <1>17, <2>2, <2>3, <2>4, <2>5, MixedSequences
  <2>7. /\ u \in Seq(Seq(Nodes)) /\ <<q1>> \in Seq(Seq(Nodes)) /\ <<f>> \in Seq(Seq(Nodes)) /\ <<q2>> \in Seq(Seq(Nodes))
    BY <1>6, <1>26, <1>27, <1>28, OneOrTwoWrites
  <2>8. v \in Seq(Seq(Nodes))
    BY <1>17, <2>7
  <2>9. PICK y1 : y1 = u \o <<q1>>
    OBVIOUS
  <2>10. PICK y2 : y2 = y1 \o v
    OBVIOUS
  <2>11. y1 \in Seq(Seq(Nodes)) /\ MixedWrites(y1, store, f)
    BY <2>6, <2>7, <2>9, MixedSequences, LastWrite
  <2>12. y2 \in Seq(Seq(Nodes)) /\ MixedWrites(y2, store, f)
    BY <2>6, <2>8, <2>10, <2>11, MixedSequences, ConcatProperties
  <2> QED
    BY <1>36, <2>6, <2>7, <2>9, <2>10, <2>12, MixedSequences
<1>41. m = AllOf(es2)
  BY <1>35, <1>36
<1>42. Leads(x, h, m, ids)
  BY <1>10, <1>34, <1>37, <1>38, <1>39, <1>40, <1>41 DEF Leads
<1> QED
  BY <1>21, <1>36, <1>42 DEF Begun

\* A third write behind two.
LEMMA ThreeWrites ==
  ASSUME NEW X, NEW a \in X, NEW b \in X, NEW c \in X
  PROVE  <<a, b, c>> = <<a, b>> \o <<c>>
<1> DEFINE l == <<a, b, c>>
           s == <<a, b>>
           t == <<c>>
<1>1. l \in Seq(X) /\ s \in Seq(X) /\ t \in Seq(X) /\ Len(l) = 3 /\ Len(s) = 2 /\ Len(t) = 1
  OBVIOUS
<1>2. l[1] = a /\ l[2] = b /\ l[3] = c /\ s[1] = a /\ s[2] = b /\ t[1] = c
  OBVIOUS
<1> HIDE DEF l, s, t
<1>3. /\ s \o t \in Seq(X) /\ Len(s \o t) = 3
      /\ \A i \in 1 .. 3 : (s \o t)[i] = IF i <= 2 THEN s[i] ELSE t[i - 2]
  <2>1. /\ s \o t \in Seq(X) /\ Len(s \o t) = Len(s) + Len(t)
        /\ \A i \in 1 .. Len(s) + Len(t) : (s \o t)[i] = IF i <= Len(s) THEN s[i] ELSE t[i - Len(s)]
    BY <1>1, ConcatProperties
  <2> QED
    BY <1>1, <2>1
<1>4. \A i \in 1 .. 3 : (s \o t)[i] = l[i]
  <2>1. \A i \in 1 .. 3 : i = 1 \/ i = 2 \/ i = 3
    OBVIOUS
  <2>2. (s \o t)[1] = s[1] /\ (s \o t)[2] = s[2]
    BY <1>3
  <2>3. (s \o t)[3] = t[3 - 2]
    BY <1>3
  <2>4. 3 - 2 = 1
    OBVIOUS
  <2> QED
    BY <1>2, <2>1, <2>2, <2>3, <2>4
<1>5. s \o t = l
  BY <1>1, <1>3, <1>4, SeqEqual
<1> QED
  BY <1>5 DEF l, s, t

\* The last leaf but one goes, and the root with it: the leaf that remains is the tree.
LEMMA CollapseLeads ==
  ASSUME store \in Seq(Nodes), NEW ids \in Seq(Nat), NEW es \in Seq(EntrySets),
         TreeAt(store, handle, ids, es), model = AllOf(es), NEW e \in Universe, Collapse(e)
  PROVE  Begun(ids)
<1>1. TreeAt(store, handle, ids, es) /\ model = AllOf(es)
  OBVIOUS
<1>2. store \in Seq(Nodes) /\ Empties(e) /\ Len(Children) = 2 /\ handle.height = 2
  BY DEF Collapse, Empties
<1>3. /\ Ordered(es) /\ LeavesAre(store, ids, es)
      /\ Children = Separators(ids, es) /\ handle.first = ids[1] /\ handle \in Handles
      /\ Node(store, HeaderId) = Header(handle.height, handle.root, handle.first)
      /\ \A id : Node(store, id) # Dead => \/ id = HeaderId \/ id = handle.root
                                           \/ (\E j \in 1 .. Len(ids) : id = ids[j])
                                           \/ Outside(store, handle, ids, id)
  BY <1>1, <1>2, ChildrenAre DEF TreeAt, Outside
<1>4. PICK i \in 1 .. Len(ids) : Emptied(e, ids, es, i)
  BY <1>1, <1>2, EmptiedFacts
<1>5. PICK u, s : u = Unlinked(e) /\ s = LastOr(Unlinked(e), store)
  OBVIOUS
<1>6. /\ u \in Seq(Seq(Nodes)) /\ s \in Seq(Nodes)
      /\ \A id : (i > 1 /\ id = ids[i - 1]) => Node(s, id) = Leaf(es[i - 1], NextOf(ids, i))
      /\ \A id : ~(i > 1 /\ id = ids[i - 1]) => Node(s, id) = Node(store, id)
      /\ ChildIndex(e) = i /\ Target(e) = ids[i] /\ es[i] = {e}
      /\ u = <<>> \/ u = <<s>>
  BY <1>4, <1>5 DEF Emptied
<1>7. /\ Len(ids) = 2 /\ Len(es) = 2 /\ i \in {1, 2}
      /\ \A j \in {1, 2} : Node(store, ids[j]) # Dead /\ ids[j] \in Nat
      /\ \A j \in {1, 2} : es[j] # {}
      /\ ids[1] # ids[2]
  <2>1. Len(ids) = 2
    BY <1>2, <1>3, SeparatorFacts
  <2>2. Len(es) = Len(ids) /\ \A j \in 1 .. Len(ids) : Node(store, ids[j]) # Dead /\ ids[j] \in Nat
    BY <1>3, LeafFacts
  <2>3. \A j, k \in 1 .. Len(ids) : ids[j] = ids[k] => j = k
    BY <1>3 DEF LeavesAre
  <2>4. 1 .. Len(ids) = {1, 2}
    BY <2>1
  <2>5. Len(es) = 2 /\ Len(es) > 1
    BY <2>1, <2>2
  <2>6. \A j \in 1 .. Len(es) : es[j] # {}
    BY <1>3, <2>5 DEF Ordered
  <2>7. Len(ids) = 2 /\ Len(es) = 2 /\ i \in {1, 2}
    BY <2>1, <2>4, <2>5
  <2>8. \A j \in {1, 2} : Node(store, ids[j]) # Dead /\ ids[j] \in Nat
    BY <2>2, <2>4
  <2>9. \A j \in {1, 2} : es[j] # {}
    BY <2>2, <2>4, <2>6
  <2>10. ids[1] # ids[2]
    BY <2>3, <2>4
  <2> QED
    BY <2>7, <2>8, <2>9, <2>10
<1>8. /\ \A j \in {1, 2} : ids[j] # HeaderId /\ ids[j] # handle.root
      /\ handle.root # HeaderId /\ Node(store, handle.root) # Dead /\ Node(store, HeaderId) # Dead
  <2>1. {1, 2} = 1 .. Len(ids)
    BY <1>7
  <2>2. /\ Node(store, HeaderId) # Dead
        /\ \A j \in 1 .. Len(ids) : ids[j] # HeaderId
        /\ handle.height = 2 => /\ Node(store, handle.root) # Dead /\ handle.root # HeaderId
                                /\ \A j \in 1 .. Len(ids) : ids[j] # handle.root
    BY ONLY <1>1, Apart
  <2> QED
    BY <1>2, <2>1, <2>2
<1>9. PICK k : k = 3 - i
  OBVIOUS
<1>10. k \in {1, 2} /\ k # i /\ \A j \in {1, 2} : j = i \/ j = k
  BY <1>7, <1>9
<1>11. PICK ids2, es2 : ids2 = RemoveAt(ids, i) /\ es2 = RemoveAt(es, i)
  OBVIOUS
<1>12. ids2 \in Seq(Nat) /\ Dropped(ids, i, ids2) /\ es2 \in Seq(EntrySets) /\ Dropped(es, i, es2)
  BY <1>7, <1>11, DroppedIsRemoved
<1>13. Len(ids2) = 1 /\ ids2[1] = ids[k] /\ 1 .. Len(ids2) = {1}
  <2>1. Len(ids2) = 2 - 1 /\ \A j \in 1 .. 2 - 1 : (j < i => ids2[j] = ids[j]) /\ (j >= i => ids2[j] = ids[j + 1])
    BY <1>7, <1>12 DEF Dropped
  <2>2. Len(ids2) = 1 /\ (1 < i => ids2[1] = ids[1]) /\ (1 >= i => ids2[1] = ids[2])
    BY <2>1
  <2> QED
    BY <1>7, <1>9, <2>2
<1>14. Ordered(es2)
  <2>1. Ordered(es) /\ Len(es) > 1 /\ i \in 1 .. Len(es)
    BY <1>3, <1>7
  <2> QED
    BY ONLY <1>12, <2>1, DropEntries
<1>15. PICK id2 : id2 = ids[k]
  OBVIOUS
<1>16. id2 \in Nat /\ id2 # ids[i] /\ id2 # HeaderId /\ id2 # handle.root /\ ids[i] # HeaderId /\ ids[i] # handle.root
  BY <1>7, <1>8, <1>10, <1>15
<1>17. PICK h : h = [height |-> 1, root |-> id2, first |-> id2]
  OBVIOUS
<1>18. PICK q1 : q1 = Put(s, HeaderId, Header(1, id2, id2))
  OBVIOUS
<1>19. PICK q2 : q2 = Put(q1, handle.root, Dead)
  OBVIOUS
<1>20. PICK f : f = Put(q2, ids[i], Dead)
  OBVIOUS
<1>21. Begin(u \o <<q1, q2, f>>, h, model \ {e})
  <2> DEFINE remaining == Children[3 - ChildIndex(e)].id
             fst == IF ChildIndex(e) = 1 THEN remaining ELSE handle.first
             s1 == Put(LastOr(Unlinked(e), store), HeaderId, Header(1, remaining, fst))
             s2 == Delete(s1, handle.root)
             h1 == [height |-> 1, root |-> remaining, first |-> fst]
  <2>1. Begin(Unlinked(e) \o <<s1, s2, Delete(s2, Target(e))>>, h1, model \ {e})
    BY DEF Collapse
  <2>2. remaining = id2
    <3>1. k \in 1 .. Len(ids)
      BY <1>7, <1>10
    <3>2. Separators(ids, es)[k].id = ids[k]
      BY <1>3, <3>1, SeparatorFacts
    <3>3. remaining = Children[k].id
      BY <1>6, <1>9
    <3> QED
      BY <1>3, <1>15, <3>2, <3>3
  <2> HIDE DEF remaining
  <2>3. fst = id2
    <3>1. i # 1 => k = 1
      BY <1>7, <1>10
    <3> QED
      BY <1>3, <1>6, <1>15, <2>2, <3>1
  <2> HIDE DEF fst
  <2>4. s1 = q1
    BY <1>5, <1>18, <2>2, <2>3
  <2> HIDE DEF s1
  <2>5. s2 = q2
    BY <1>19, <2>4 DEF Delete
  <2> HIDE DEF s2
  <2>6. Delete(s2, Target(e)) = f
    BY <1>6, <1>20, <2>5 DEF Delete
  <2>7. h1 = h
    BY <1>17, <2>2, <2>3
  <2> HIDE DEF h1
  <2> QED
    BY <1>5, <2>1, <2>4, <2>5, <2>6, <2>7
<1>22. LeavesAre(s, ids2, es2)
  <2>1. PICK st : st = store
    OBVIOUS
  <2>2. Relinked(st, ids, es, i, s)
    <3>1. ASSUME i > 1 PROVE Node(s, ids[i - 1]) = Leaf(es[i - 1], NextOf(ids, i))
      BY <1>6, <3>1
    <3>2. ASSUME NEW j \in 1 .. Len(ids), j # i, j + 1 # i PROVE Node(s, ids[j]) = Node(st, ids[j])
      <4>1. j \in {1, 2}
        BY <1>7
      <4>2. j = 2 /\ i = 1
        BY <1>7, <3>2, <4>1
      <4>3. ~(i > 1 /\ ids[j] = ids[i - 1])
        BY <4>2
      <4> QED
        BY <1>6, <2>1, <4>3
    <3> QED
      BY <3>1, <3>2 DEF Relinked
  <2>3. Ordered(es) /\ LeavesAre(st, ids, es) /\ Len(ids) > 1 /\ i \in 1 .. Len(ids)
    BY <1>3, <1>7, <2>1
  <2> QED
    BY ONLY <1>12, <2>2, <2>3, DropLeaves
<1>23. /\ Node(s, handle.root) # Dead /\ Node(s, HeaderId) # Dead /\ Node(s, ids[i]) # Dead
       /\ \A id : Node(s, id) # Dead => \/ id = HeaderId \/ id = handle.root \/ id = ids[i] \/ id = id2
                                        \/ Outside(store, handle, ids, id)
       /\ \A id : id # id2 => Node(s, id) = Node(store, id)
  <2>1. ASSUME NEW id, i > 1, id = ids[i - 1] PROVE id = id2
    <3>1. i = 2 /\ i - 1 = 1 /\ k = 1
      BY <1>7, <1>10, <2>1
    <3> QED
      BY <1>15, <2>1, <3>1
  <2>2. \A id : id # id2 => Node(s, id) = Node(store, id)
    BY <1>6, <2>1
  <2>3. \A id : Node(store, id) # Dead => \/ id = HeaderId \/ id = handle.root \/ id = ids[i] \/ id = id2
                                          \/ Outside(store, handle, ids, id)
    <3>1. \A j \in 1 .. Len(ids) : ids[j] = ids[i] \/ ids[j] = id2
      <4>1. 1 .. Len(ids) = {1, 2}
        BY <1>7
      <4> QED
        BY <1>10, <1>15, <4>1
    <3> QED
      BY <1>3, <3>1
  <2>4. /\ Node(s, handle.root) = Node(store, handle.root) /\ Node(s, HeaderId) = Node(store, HeaderId)
        /\ Node(s, ids[i]) = Node(store, ids[i])
    BY <1>16, <2>2
  <2>5. Node(store, ids[i]) # Dead
    BY <1>7
  <2>6. ASSUME NEW id, Node(s, id) # Dead
        PROVE  \/ id = HeaderId \/ id = handle.root \/ id = ids[i] \/ id = id2
               \/ Outside(store, handle, ids, id)
    <3>1. CASE id = id2
      BY <3>1
    <3>2. CASE id # id2
      BY <2>2, <2>3, <2>6, <3>2
    <3> QED
      BY <3>1, <3>2
  <2> QED
    BY <1>8, <2>2, <2>4, <2>5, <2>6
<1>24. q1 \in Seq(Nodes) /\ \A id : Node(q1, id) = IF id = HeaderId THEN Header(1, id2, id2) ELSE Node(s, id)
  <2>1. Header(1, id2, id2) \in Nodes
    BY <1>16, NodeKinds
  <2>2. s \in Seq(Nodes) /\ Node(s, HeaderId) # Dead
    BY <1>6, <1>23
  <2> QED
    BY ONLY <1>18, <2>1, <2>2, PutNode
<1>25. Dead \in Nodes
  BY NodeKinds
<1>26. q2 \in Seq(Nodes) /\ \A id : Node(q2, id) = IF id = handle.root THEN Dead ELSE Node(q1, id)
  <2>1. Node(q1, handle.root) # Dead
    BY <1>8, <1>23, <1>24
  <2>2. q1 \in Seq(Nodes)
    BY <1>24
  <2> QED
    BY ONLY <1>19, <1>25, <2>1, <2>2, PutNode
<1>27. f \in Seq(Nodes) /\ \A id : Node(f, id) = IF id = ids[i] THEN Dead ELSE Node(q2, id)
  <2>1. Node(q2, ids[i]) # Dead
    BY <1>16, <1>23, <1>24, <1>26
  <2>2. q2 \in Seq(Nodes)
    BY <1>26
  <2> QED
    BY ONLY <1>20, <1>25, <2>1, <2>2, PutNode
<1>28. LeavesAre(f, ids2, es2)
  <2>1. Node(f, id2) = Node(s, id2)
    BY <1>16, <1>24, <1>26, <1>27
  <2>2. \A j \in 1 .. Len(ids2) : Node(f, ids2[j]) = Node(s, ids2[j])
    BY <1>13, <1>15, <2>1
  <2> QED
    BY <1>22, <2>2, LeavesStay
<1>29. h \in Handles /\ h.height = 1 /\ h.root = id2 /\ h.first = id2
  BY <1>16, <1>17 DEF Handles
<1>30. ids2[1] = id2
  BY <1>13, <1>15
<1>31. RootIs(f, h, ids2, es2)
  BY <1>13, <1>29, <1>30 DEF RootIs
<1>32. Node(f, HeaderId) = Header(h.height, h.root, h.first)
  <2>1. Node(f, HeaderId) = Header(1, id2, id2)
    BY <1>8, <1>16, <1>24, <1>26, <1>27
  <2> QED
    BY <1>29, <2>1
<1>33. ASSUME NEW id, Node(f, id) # Dead
       PROVE  \/ id = HeaderId \/ id = h.root \/ (\E j \in 1 .. Len(ids2) : id = ids2[j])
              \/ Outside(store, handle, ids, id)
  <2>1. id # ids[i] /\ id # handle.root /\ (id = HeaderId \/ Node(s, id) # Dead)
    BY <1>24, <1>26, <1>27, <1>33
  <2> QED
    BY <1>23, <1>29, <2>1
<1>34. TreeAt(f, h, ids2, es2)
  BY <1>14, <1>28, <1>29, <1>30, <1>31, <1>32 DEF TreeAt
<1>35. AllOf(es2) = model \ {e}
  <2>1. i \in 1 .. Len(es) /\ Ordered(es)
    BY <1>3, <1>7
  <2>2. \A g : g \in AllOf(es2) <=> g \in AllOf(es) /\ g \notin es[i]
    BY ONLY <1>12, <2>1, DropContents
  <2> QED
    BY <1>1, <1>6, <2>2
<1>36. PICK x, m : x = u \o <<q1, q2, f>> /\ m = model \ {e}
  OBVIOUS
<1>37. NoMore(store, handle, ids, f, h, ids2)
  <2>1. ASSUME NEW id, Outside(f, h, ids2, id) PROVE Outside(store, handle, ids, id)
    <3>1. Node(f, id) # Dead /\ id # HeaderId /\ id # h.root /\ \A j \in 1 .. Len(ids2) : id # ids2[j]
      BY <2>1 DEF Outside
    <3> QED
      BY <1>33, <3>1
  <2> QED
    BY <2>1 DEF NoMore
<1>38. x \in Seq(Seq(Nodes)) /\ x # <<>> /\ Last(x) = f
  <2>1. /\ <<q1, q2>> \in Seq(Seq(Nodes)) /\ <<f>> \in Seq(Seq(Nodes)) /\ <<f>> # <<>> /\ Last(<<f>>) = f
    BY <1>24, <1>26, <1>27, OneOrTwoWrites
  <2>2. PICK w : w = <<q1, q2>> \o <<f>>
    OBVIOUS
  <2>3. w \in Seq(Seq(Nodes)) /\ w # <<>> /\ Last(w) = f
    BY <2>1, <2>2, LastWrite
  <2>4. w = <<q1, q2, f>>
    <3>1. PICK X : X = Seq(Nodes)
      OBVIOUS
    <3>2. q1 \in X /\ q2 \in X /\ f \in X
      BY <1>24, <1>26, <1>27, <3>1
    <3>3. <<q1, q2, f>> = <<q1, q2>> \o <<f>>
      BY ONLY <3>2, ThreeWrites
    <3> QED
      BY <2>2, <3>3
  <2>5. x = u \o w
    BY <1>36, <2>4
  <2> QED
    BY <1>6, <2>3, <2>5, LastWrite
<1>39. Changes(store, f, ids, ids2)
  <2>1. 1 .. Len(ids) = {1, 2}
    BY <1>7
  <2>2. ASSUME NEW j \in 1 .. Len(ids), j \notin {i - 1, i} PROVE Node(f, ids[j]) = Node(store, ids[j])
    <3>1. i = 1 /\ j = 2 /\ j = k
      BY <1>7, <1>9, <2>1, <2>2
    <3>2. Node(f, id2) = Node(s, id2)
      BY <1>16, <1>24, <1>26, <1>27
    <3>3. ~(i > 1 /\ id2 = ids[i - 1])
      BY <3>1
    <3> QED
      BY <1>6, <1>15, <3>1, <3>2, <3>3
  <2>3. Node(f, ids[i]) = Dead
    BY <1>27
  <2>4. i > 1 => ids2[1] = ids[1]
    BY <1>7, <1>9, <1>13
  <2>5. SameLeaves(store, f, ids, {i - 1, i})
    BY <2>2 DEF SameLeaves
  <2>6. \A j \in 1 .. Len(ids2) : k \in 1 .. Len(ids) /\ k # i /\ ids2[j] = ids[k]
    BY <1>10, <1>13, <2>1
  <2> QED
    BY <2>3, <2>4, <2>5, <2>6 DEF Removed, Changes
<1>40. MixedWrites(x, store, f)
  <2>1. \A id : Node(s, id) = Node(store, id) \/ Node(s, id) = Node(f, id)
    <3>1. Node(f, id2) = Node(s, id2)
      BY <1>16, <1>24, <1>26, <1>27
    <3> QED
      BY <1>23, <3>1
  <2>2. Mixed(s, store, f) /\ Mixed(f, store, f)
    BY <2>1 DEF Mixed
  <2>3. Mixed(q1, store, f)
    <3>1. Node(q1, HeaderId) = Node(f, HeaderId)
      BY <1>8, <1>16, <1>26, <1>27
    <3> QED
      BY <1>24, <2>1, <3>1 DEF Mixed
  <2>4. Mixed(q2, store, f)
    <3>1. Node(q2, handle.root) = Node(f, handle.root)
      BY <1>16, <1>27
    <3> QED
      BY <1>26, <2>3, <3>1 DEF Mixed
  <2>5. MixedWrites(u, store, f) /\ MixedWrites(<<q1, q2>>, store, f) /\ MixedWrites(<<f>>, store, f)
    BY <1>6, <2>2, <2>3, <2>4, MixedSequences
  <2>6. u \in Seq(Seq(Nodes)) /\ <<q1, q2>> \in Seq(Seq(Nodes)) /\ <<f>> \in Seq(Seq(Nodes)) /\ <<f>> # <<>>
    BY <1>6, <1>24, <1>26, <1>27, OneOrTwoWrites
  <2>7. PICK w : w = <<q1, q2>> \o <<f>>
    OBVIOUS
  <2>8. w \in Seq(Seq(Nodes)) /\ MixedWrites(w, store, f)
    BY <2>5, <2>6, <2>7, LastWrite, MixedSequences
  <2>9. w = <<q1, q2, f>>
    <3>1. PICK X : X = Seq(Nodes)
      OBVIOUS
    <3>2. q1 \in X /\ q2 \in X /\ f \in X
      BY <1>24, <1>26, <1>27, <3>1
    <3>3. <<q1, q2, f>> = <<q1, q2>> \o <<f>>
      BY ONLY <3>2, ThreeWrites
    <3> QED
      BY <2>7, <3>3
  <2> QED
    BY <1>36, <2>5, <2>6, <2>8, <2>9, MixedSequences
<1>41. m = AllOf(es2)
  BY <1>35, <1>36
<1>42. Leads(x, h, m, ids)
  BY <1>12, <1>34, <1>37, <1>38, <1>39, <1>40, <1>41 DEF Leads
<1> QED
  BY <1>21, <1>36, <1>42 DEF Begun

-----------------------------------------------------------------------------
(***************************************************************************)
(* The theorems.                                                           *)
(***************************************************************************)

\* Every insertion and deletion leads from a tree to a tree.
LEMMA OperationLeads ==
  ASSUME store \in Seq(Nodes), NEW ids \in Seq(Nat), NEW es \in Seq(EntrySets),
         TreeAt(store, handle, ids, es), model = AllOf(es), NEW e \in Universe, Insert(e) \/ Erase(e)
  PROVE  Begun(ids)
<1>1. CASE InsertInLeaf(e)
  BY <1>1, InsertInLeafLeads
<1>2. CASE InsertSplitting(e)
  BY <1>2, InsertSplittingLeads
<1>3. CASE EraseInLeaf(e)
  BY <1>3, EraseInLeafLeads
<1>4. CASE EraseLeaf(e)
  BY <1>4, EraseLeafLeads
<1>5. CASE Collapse(e)
  BY <1>5, CollapseLeads
<1> QED
  BY <1>1, <1>2, <1>3, <1>4, <1>5 DEF Insert, Erase

\* The invariant is a formula about the five variables.
LEMMA StutterIInv == ASSUME IInv, UNCHANGED vars PROVE IInv'
<1>1. store' = store /\ handle' = handle /\ op' = op /\ phase' = phase /\ model' = model
  BY DEF vars
<1> QED
  BY <1>1 DEF IInv, Writing, HeaderNode

\* Every step keeps the invariant.
LEMMA NextIInv == IInv /\ [Next]_vars => IInv'
<1> SUFFICES ASSUME IInv, [Next]_vars PROVE IInv'
  OBVIOUS
<1>1. ASSUME NEW e \in Universe, Insert(e) \/ Erase(e) PROVE IInv'
  <2>1. Ready
    BY <1>1 DEF Insert, Erase
  <2>2. PICK ids \in Seq(Nat), es \in Seq(EntrySets) :
          TreeAt(store, handle, ids, es) /\ Whole(store, handle, ids) /\ model = AllOf(es)
    BY <2>1, ReadyTree
  <2>3. store \in Seq(Nodes)
    BY DEF IInv
  <2>4. Begun(ids)
    BY <1>1, <2>2, <2>3, OperationLeads
  <2> QED
    BY <2>1, <2>2, <2>4, BegunIInv
<1>2. CASE WriteRecord
  BY <1>2, WriteRecordIInv
<1>3. CASE Close
  BY <1>3, CloseIInv
<1>4. CASE Open
  BY <1>4, OpenIInv
<1>5. CASE UNCHANGED vars
  BY <1>5, StutterIInv
<1> QED
  BY <1>1, <1>2, <1>3, <1>4, <1>5 DEF Next

\* The store is the tree of the entries inserted and not erased whenever no operation is
\* in progress, and what remains of an operation leads to such a tree.
THEOREM Invariance == Spec => []IInv
<1>1. Init => IInv
  BY InitIInv
<1>2. IInv /\ [Next]_vars => IInv'
  BY NextIInv
<1> QED
  BY <1>1, <1>2, PTL DEF Spec

\* The records are nodes of the right form: no leaf has more than LeafCapacity entries,
\* and no root fewer than two children or more than InternalCapacity.
THEOREM TypeCorrect == Spec => []TypeOK
<1>1. IInv => TypeOK
  BY IInvTypes
<1> QED
  BY <1>1, Invariance, PTL

\* Between two operations open would accept the tree, its header names the handle's root
\* and first leaf, and its leaves hold exactly the entries inserted and not erased.
THEOREM TreeCorrect == Spec => []TreeHoldsModel
<1>1. IInv => TreeHoldsModel
  BY IInvHoldsModel
<1> QED
  BY <1>1, Invariance, PTL

\* find returns the entries of its key, in order, up to its limit, however duplicates are
\* spread over leaves.
THEOREM FindCorrect == Spec => []FindIsComplete
<1>1. IInv => FindIsComplete
  BY IInvLookups
<1> QED
  BY <1>1, Invariance, PTL

\* range returns the entries within its bounds, in order, up to its limit.
THEOREM RangeCorrect == Spec => []RangeIsComplete
<1>1. IInv => RangeIsComplete
  BY IInvLookups
<1> QED
  BY <1>1, Invariance, PTL

\* The records that are not dead are the header, the root and the leaves of the chain.
THEOREM LeaksCorrect == Spec => []NoNodeLeaks
<1>1. IInv => NoNodeLeaks
  BY IInvNoLeaks
<1> QED
  BY <1>1, Invariance, PTL

-----------------------------------------------------------------------------
(***************************************************************************)
(* Crashes, when at most one operation lies between two calls of           *)
(* flush_all.  With two the property fails, as the run BPlusTreeCrash2     *)
(* shows.                                                                  *)
(*                                                                         *)
(* An operation writes each record at most once, so whatever the file and  *)
(* the pool hold of it, each record is as it was before or as it will be   *)
(* afterwards.  For each of the three ways in which an operation changes   *)
(* the leaves such a mixture either links the leaves from before, or those *)
(* from afterwards, or breaks off at a leaf whose next is gone; and open   *)
(* refuses a chain that breaks off.                                        *)
(***************************************************************************)

-----------------------------------------------------------------------------
(***************************************************************************)
(* Mixtures of two trees.                                                  *)
(***************************************************************************)

\* A chain that ends at a leaf whose next cannot be read is refused.
LEMMA BrokenChain ==
  ASSUME NEW st \in Seq(Nodes), NEW c, NEW after, Linked(st, c, after), after # Nil, ~IsLeaf(st, after)
  PROVE  ~ChainValid(st, c[1])
<1>1. Chain(st, c[1]) = c
  BY ChainIsLinked
<1>2. c \in Seq(Nat) /\ c # <<>>
  BY DEF Linked
<1>3. Len(c) \in 1 .. Len(c)
  BY <1>2, LastOfSeq
<1>4. Node(st, c[Len(c)]).next = NextOr(c, Len(c), after)
  BY <1>3 DEF Linked
<1>5. NextOr(c, Len(c), after) = after
  BY <1>2, LenProperties DEF NextOr
<1>6. Node(st, Last(c)).next # Nil
  BY <1>4, <1>5 DEF Last
<1> QED
  BY <1>1, <1>6 DEF ChainValid

\* So is one whose first leaf cannot be read.
LEMMA NoChain ==
  ASSUME NEW st \in Seq(Nodes), NEW first, ~IsLeaf(st, first)
  PROVE  ~ChainValid(st, first)
<1> DEFINE g == [n \in Nat |-> <<>>]
<1>1. ASSUME NEW n \in Nat PROVE g[n] = Step(st, first, g, n)
  <2>1. n # 0 => n - 1 \in Nat
    OBVIOUS
  <2> QED
    BY <2>1 DEF Step
<1>2. g = [n \in Nat |-> Step(st, first, g, n)]
  BY <1>1
<1>3. Len(st) \in Nat
  BY NodeFacts
<1>4. Path(st, first)[Len(st)] = <<>>
  <2>1. g[Len(st)] = <<>>
    BY <1>3
  <2> HIDE DEF g
  <2> QED
    BY <1>2, <1>3, <2>1, PathIsUnique
<1>5. Chain(st, first) = <<>>
  BY <1>4, ChainIsPath
<1> QED
  BY <1>5 DEF ChainValid

\* The leaves in front of leaf i, and what the last of them links to.
LEMMA ChainInFront ==
  ASSUME NEW st \in Seq(Nodes), NEW d \in Seq(Nodes), NEW ids, NEW es, Ordered(es), LeavesAre(st, ids, es),
         NEW i \in 1 .. Len(ids), \A j \in 1 .. i - 1 : Node(d, ids[j]) = Node(st, ids[j]),
         IsLeaf(d, ids[i]), Node(d, ids[i]).next # Nil, ~IsLeaf(d, Node(d, ids[i]).next)
  PROVE  ~ChainValid(d, ids[1])
<1> DEFINE c == SubSeq(ids, 1, i)
<1>1. PICK after : after = Node(d, ids[i]).next
  OBVIOUS
<1>2. /\ ids \in Seq(Nat) /\ Len(ids) \in Nat
      /\ \A j \in 1 .. Len(ids) : IsLeaf(st, ids[j]) /\ Node(st, ids[j]).next = NextOf(ids, j)
  BY LeafFacts
<1>3. \A j, k \in 1 .. Len(ids) : ids[j] = ids[k] => j = k
  BY DEF LeavesAre
<1>4. c \in Seq(Nat) /\ Len(c) = i /\ \A j \in 1 .. i : c[j] = ids[j]
  <2>1. 1 \in 1 .. Len(ids) + 1 /\ i \in 1 - 1 .. Len(ids) /\ i - 1 + 1 = i
    BY <1>2
  <2>2. /\ c \in Seq(Nat) /\ Len(c) = i - 1 + 1
        /\ \A j \in 1 .. i - 1 + 1 : c[j] = ids[1 + j - 1]
    BY <1>2, <2>1, PartOfSeq
  <2>3. \A j \in 1 .. i : 1 + j - 1 = j
    BY <1>2
  <2> QED
    BY <2>1, <2>2, <2>3
<1> HIDE DEF c
<1>5. c # <<>>
  BY <1>2, <1>4, EmptySeq
<1>6. ASSUME NEW j \in 1 .. i PROVE IsLeaf(d, c[j]) /\ Node(d, c[j]).next = NextOr(c, j, after)
  <2>1. CASE j = i
    BY <1>1, <1>4, <2>1 DEF NextOr
  <2>2. CASE j # i
    <3>1. j \in 1 .. i - 1 /\ j + 1 \in 1 .. i /\ j \in 1 .. Len(ids) /\ j < Len(ids) /\ j < i
      BY <1>2, <2>2
    <3>2. Node(d, ids[j]) = Node(st, ids[j])
      BY <3>1
    <3>3. IsLeaf(st, ids[j]) /\ Node(st, ids[j]).next = ids[j + 1]
      BY <1>2, <3>1 DEF NextOf
    <3>4. c[j] = ids[j] /\ c[j + 1] = ids[j + 1]
      BY <1>4, <3>1
    <3>5. NextOr(c, j, after) = ids[j + 1]
      BY <1>4, <3>1, <3>4 DEF NextOr
    <3> QED
      BY <3>2, <3>3, <3>4, <3>5 DEF IsLeaf
  <2> QED
    BY <2>1, <2>2
<1>7. ASSUME NEW j \in 1 .. i, NEW k \in 1 .. i, c[j] = c[k] PROVE j = k
  <2>1. j \in 1 .. Len(ids) /\ k \in 1 .. Len(ids)
    BY <1>2
  <2> QED
    BY <1>3, <1>4, <1>7, <2>1
<1>8. Linked(d, c, after)
  BY <1>4, <1>5, <1>6, <1>7 DEF Linked
<1>9. c[1] = ids[1]
  BY <1>2, <1>4
<1> QED
  BY <1>1, <1>8, <1>9, BrokenChain

\* And one in which a leaf cannot be read.
LEMMA ChainBreaks ==
  ASSUME NEW st \in Seq(Nodes), NEW d \in Seq(Nodes), NEW ids, NEW es, Ordered(es), LeavesAre(st, ids, es),
         NEW i \in 1 .. Len(ids), \A j \in 1 .. i - 1 : Node(d, ids[j]) = Node(st, ids[j]),
         ~IsLeaf(d, ids[i])
  PROVE  ~ChainValid(d, ids[1])
<1>1. CASE i = 1
  BY <1>1, NoChain
<1>2. CASE i # 1
  <2>1. PICK k : k = i - 1
    OBVIOUS
  <2>2. Len(ids) \in Nat /\ \A j \in 1 .. Len(ids) : IsLeaf(st, ids[j]) /\ Node(st, ids[j]).next = NextOf(ids, j)
    BY LeafFacts
  <2>3. k \in 1 .. Len(ids) /\ k \in 1 .. i - 1 /\ k < Len(ids) /\ k + 1 = i /\ (\A j \in 1 .. k - 1 : j \in 1 .. i - 1)
    BY <1>2, <2>1, <2>2
  <2>4. Node(d, ids[k]) = Node(st, ids[k]) /\ \A j \in 1 .. k - 1 : Node(d, ids[j]) = Node(st, ids[j])
    BY <2>3
  <2>5. IsLeaf(d, ids[k]) /\ Node(d, ids[k]).next = ids[i]
    BY <2>2, <2>3, <2>4 DEF IsLeaf, NextOf
  <2>6. ids[i] # Nil
    BY <2>2, NodeFacts, NodeKinds DEF IsLeaf
  <2> QED
    BY <2>3, <2>4, <2>5, <2>6, ChainInFront
<1> QED
  BY <1>1, <1>2

\* The header of d names the first of the leaves ids.
Starts(d, ids, es) == Ordered(es) /\ LeavesAre(d, ids, es) /\ Node(d, HeaderId).first = ids[1]

\* Where the mixture agrees with one of the two trees on all its leaves.
LEMMA StartsThere ==
  ASSUME NEW st, NEW h, NEW d, NEW ids, NEW es, TreeAt(st, h, ids, es),
         \A j \in 1 .. Len(ids) : Node(d, ids[j]) = Node(st, ids[j]), Node(d, HeaderId).first = ids[1]
  PROVE  Starts(d, ids, es)
<1>1. Ordered(es) /\ LeavesAre(st, ids, es)
  BY DEF TreeAt
<1>2. LeavesAre(d, ids, es)
  BY <1>1, LeavesStay
<1> QED
  BY <1>1, <1>2 DEF Starts

\* The header of a mixture is one of the two.
LEMMA MixedHeader ==
  ASSUME NEW st, NEW f, NEW d, NEW h, NEW h2, NEW ids, NEW es, NEW ids2, NEW es2,
         TreeAt(st, h, ids, es), TreeAt(f, h2, ids2, es2), Mixed(d, st, f)
  PROVE  /\ Node(d, HeaderId).first = ids[1] \/ Node(d, HeaderId).first = ids2[1]
         /\ Node(d, HeaderId).kind = "header"
<1>1. Node(st, HeaderId) = Header(h.height, h.root, h.first) /\ h.first = ids[1]
  BY DEF TreeAt
<1>2. Node(f, HeaderId) = Header(h2.height, h2.root, h2.first) /\ h2.first = ids2[1]
  BY DEF TreeAt
<1>3. Node(d, HeaderId) = Node(st, HeaderId) \/ Node(d, HeaderId) = Node(f, HeaderId)
  BY DEF Mixed
<1> QED
  BY <1>1, <1>2, <1>3, NodeKinds

\* A mixture of a tree and the one an operation makes of it, if open accepts its chain,
\* links the leaves of one of them.
LEMMA MixedLeaves ==
  ASSUME NEW st \in Seq(Nodes), NEW f \in Seq(Nodes), NEW d \in Seq(Nodes), NEW h, NEW h2,
         NEW ids, NEW es, NEW ids2, NEW es2, TreeAt(st, h, ids, es), TreeAt(f, h2, ids2, es2),
         Changes(st, f, ids, ids2), Mixed(d, st, f), ChainValid(d, Node(d, HeaderId).first)
  PROVE  Starts(d, ids, es) \/ Starts(d, ids2, es2)
<1>1. PICK first : first = Node(d, HeaderId).first
  OBVIOUS
<1>2. (first = ids[1] \/ first = ids2[1]) /\ ChainValid(d, first)
  BY <1>1, MixedHeader
<1>3. Ordered(es) /\ LeavesAre(st, ids, es)
  BY DEF TreeAt
<1>4. Len(ids) \in Nat
  BY <1>3, LeafFacts
<1>5. \A id : Node(d, id) = Node(st, id) \/ Node(d, id) = Node(f, id)
  BY DEF Mixed
<1>6. (\A j \in 1 .. Len(ids) : Node(d, ids[j]) = Node(st, ids[j])) /\ first = ids[1] => Starts(d, ids, es)
  BY <1>1, StartsThere
<1>7. (\A j \in 1 .. Len(ids2) : Node(d, ids2[j]) = Node(f, ids2[j])) /\ first = ids2[1] => Starts(d, ids2, es2)
  BY <1>1, StartsThere
<1>8. ASSUME NEW i \in 1 .. Len(ids), \A j \in 1 .. i - 1 : Node(d, ids[j]) = Node(st, ids[j]),
             ~IsLeaf(d, ids[i]), first = ids[1]
      PROVE  FALSE
  <2>1. ~ChainValid(d, ids[1])
    BY <1>3, <1>8, ChainBreaks
  <2> QED
    BY <1>2, <1>8, <2>1
<1>9. CASE Rewritten(st, f, ids, ids2)
  <2>1. PICK i \in 1 .. Len(ids) : SameLeaves(st, f, ids, {i})
    BY <1>9 DEF Rewritten
  <2>2. ids2 = ids /\ first = ids[1] /\ \A j \in 1 .. Len(ids) : j # i => Node(f, ids[j]) = Node(st, ids[j])
    BY <1>2, <1>9, <2>1 DEF Rewritten, SameLeaves
  <2>3. CASE Node(d, ids[i]) = Node(st, ids[i])
    BY <1>5, <1>6, <2>2, <2>3
  <2>4. CASE Node(d, ids[i]) # Node(st, ids[i])
    BY <1>5, <1>7, <2>2, <2>4
  <2> QED
    BY <2>3, <2>4
<1>10. CASE Divided(st, f, ids, ids2)
  <2>1. PICK i \in 1 .. Len(ids), new \in Nat \ {Nil} :
          /\ SameLeaves(st, f, ids, {i})
          /\ Node(st, new) = Dead /\ Node(f, ids[i]).next = new
          /\ \A j \in 1 .. Len(ids2) : ids2[j] = new \/ \E k \in 1 .. Len(ids) : ids2[j] = ids[k]
    BY <1>10 DEF Divided
  <2>2. first = ids[1] /\ first = ids2[1]
    BY <1>2, <1>10 DEF Divided
  <2>3. \A j \in 1 .. Len(ids) : j # i => Node(f, ids[j]) = Node(st, ids[j])
    BY <2>1 DEF SameLeaves
  <2>4. CASE Node(d, ids[i]) = Node(st, ids[i])
    BY <1>5, <1>6, <2>2, <2>3, <2>4
  <2>5. CASE Node(d, ids[i]) # Node(st, ids[i]) /\ Node(d, new) = Node(f, new)
    <3>1. \A k \in 1 .. Len(ids) : Node(d, ids[k]) = Node(f, ids[k])
      BY <1>5, <2>3, <2>5
    <3>2. \A j \in 1 .. Len(ids2) : Node(d, ids2[j]) = Node(f, ids2[j])
      BY <2>1, <2>5, <3>1
    <3> QED
      BY <1>7, <2>2, <3>2
  <2>6. CASE Node(d, ids[i]) # Node(st, ids[i]) /\ Node(d, new) # Node(f, new)
    <3>1. Node(d, new) = Dead /\ Node(d, ids[i]).next = new
      BY <1>5, <2>1, <2>6
    <3>2. ~IsLeaf(d, new) /\ new # Nil
      BY <2>1, <3>1, NodeKinds DEF IsLeaf
    <3>3. \A j \in 1 .. i - 1 : j \in 1 .. Len(ids) /\ j # i
      BY <1>4
    <3>4. \A j \in 1 .. i - 1 : Node(d, ids[j]) = Node(st, ids[j])
      BY <1>5, <2>3, <3>3
    <3>5. IsLeaf(d, ids[i])
      BY <1>8, <2>2, <3>4
    <3>6. ~ChainValid(d, ids[1])
      BY <1>3, <3>1, <3>2, <3>4, <3>5, ChainInFront
    <3> QED
      BY <1>2, <2>2, <3>6
  <2> QED
    BY <2>4, <2>5, <2>6
<1>11. CASE Removed(st, f, ids, ids2)
  <2>1. PICK i \in 1 .. Len(ids) :
          /\ SameLeaves(st, f, ids, {i - 1, i}) /\ Node(f, ids[i]) = Dead
          /\ i > 1 => ids2[1] = ids[1]
          /\ \A j \in 1 .. Len(ids2) : \E k \in 1 .. Len(ids) : k # i /\ ids2[j] = ids[k]
    BY <1>11 DEF Removed
  <2>2. \A j \in 1 .. Len(ids) : j # i /\ j # i - 1 => Node(f, ids[j]) = Node(st, ids[j])
    BY <2>1 DEF SameLeaves
  <2>3. CASE first = ids2[1] /\ (i > 1 => Node(d, ids[i - 1]) = Node(f, ids[i - 1]))
    <3>1. ASSUME NEW k \in 1 .. Len(ids), k # i PROVE Node(d, ids[k]) = Node(f, ids[k])
      <4>1. CASE k = i - 1
        <5>1. i > 1
          BY <1>4, <4>1
        <5> QED
          BY <2>3, <4>1, <5>1
      <4>2. CASE k # i - 1
        BY <1>5, <2>2, <3>1, <4>2
      <4> QED
        BY <4>1, <4>2
    <3>2. \A j \in 1 .. Len(ids2) : Node(d, ids2[j]) = Node(f, ids2[j])
      BY <2>1, <3>1
    <3> QED
      BY <1>7, <2>3, <3>2
  <2>4. CASE ~(first = ids2[1] /\ (i > 1 => Node(d, ids[i - 1]) = Node(f, ids[i - 1])))
    <3>1. first = ids[1]
      BY <1>2, <2>1, <2>4
    <3>2. i > 1 => Node(d, ids[i - 1]) = Node(st, ids[i - 1])
      BY <1>2, <1>5, <2>1, <2>4
    <3>3. ASSUME NEW j \in 1 .. Len(ids), j # i PROVE Node(d, ids[j]) = Node(st, ids[j])
      <4>1. CASE j = i - 1
        <5>1. i > 1
          BY <1>4, <4>1
        <5> QED
          BY <3>2, <4>1, <5>1
      <4>2. CASE j # i - 1
        BY <1>5, <2>2, <3>3, <4>2
      <4> QED
        BY <4>1, <4>2
    <3>4. Node(d, ids[i]) = Node(st, ids[i])
      <4>1. ASSUME Node(d, ids[i]) # Node(st, ids[i]) PROVE FALSE
        <5>1. Node(d, ids[i]) = Dead
          BY <1>5, <2>1, <4>1
        <5>2. ~IsLeaf(d, ids[i])
          BY <5>1, NodeKinds DEF IsLeaf
        <5>3. \A j \in 1 .. i - 1 : j \in 1 .. Len(ids) /\ j # i
          BY <1>4
        <5>4. \A j \in 1 .. i - 1 : Node(d, ids[j]) = Node(st, ids[j])
          BY <3>3, <5>3
        <5> QED
          BY <1>8, <3>1, <5>2, <5>4
      <4> QED
        BY <4>1
    <3>5. \A j \in 1 .. Len(ids) : Node(d, ids[j]) = Node(st, ids[j])
      BY <3>3, <3>4
    <3> QED
      BY <1>6, <3>1, <3>5
  <2> QED
    BY <2>3, <2>4
<1> QED
  BY <1>9, <1>10, <1>11 DEF Changes

-----------------------------------------------------------------------------
(***************************************************************************)
(* What open accepts.                                                      *)
(***************************************************************************)

\* The records st, read through the handle h, are a tree with the entries m.
TreeOf(st, h, m) ==
  /\ st \in Seq(Nodes)
  /\ \E ids \in Seq(Nat), es \in Seq(EntrySets) : TreeAt(st, h, ids, es) /\ m = AllOf(es)

\* If open accepts the records d, they are a tree with one of the sets V of entries.
AcceptedTree(d, V) ==
  Node(d, HeaderId).kind = "header" /\ TreeValid(d, Node(d, HeaderId)) =>
    \E m \in V : TreeOf(d, Opened(Node(d, HeaderId)), m)

\* So it is of every mixture of st and f.
Sound(st, f, V) == \A d \in Seq(Nodes) : Mixed(d, st, f) => AcceptedTree(d, V)

\* The same records, whatever the lengths of the sequences.
SameRecords(d, st) == \A id : Node(d, id) = Node(st, id)

\* What a header and a root are.
LEMMA NodesByKind ==
  ASSUME NEW n \in Nodes
  PROVE  /\ n.kind = "header" => /\ n.height \in {1, 2} /\ n.root \in Nat /\ n.first \in Nat
                                 /\ n = Header(n.height, n.root, n.first)
         /\ n.kind = "internal" => n.children \in Roots /\ n = Internal(n.children)
<1>1. CASE n = Dead
  BY <1>1, NodeKinds
<1>2. CASE n \in [kind : {"header"}, height : {1, 2}, root : Nat, first : Nat]
  BY <1>2 DEF Header
<1>3. CASE n \in [kind : {"leaf"}, entries : EntrySets, next : Nat]
  BY <1>3
<1>4. CASE n \in [kind : {"internal"}, children : Roots]
  BY <1>4 DEF Internal
<1> QED
  BY <1>1, <1>2, <1>3, <1>4 DEF Nodes

\* Leaves in order that the header and the root fit are a tree.
LEMMA ValidIsTree ==
  ASSUME NEW d \in Seq(Nodes), NEW ids, NEW es, Starts(d, ids, es),
         Node(d, HeaderId).kind = "header", TreeValid(d, Node(d, HeaderId))
  PROVE  TreeAt(d, Opened(Node(d, HeaderId)), ids, es)
<1>1. PICK n : n = Node(d, HeaderId)
  OBVIOUS
<1>2. PICK h : h = Opened(n)
  OBVIOUS
<1>3. n \in Nodes
  BY <1>1, NodeFacts
<1>4. n.height \in {1, 2} /\ n.root \in Nat /\ n.first \in Nat /\ n = Header(n.height, n.root, n.first)
  BY <1>1, <1>3, NodesByKind
<1>5. h.height = n.height /\ h.root = n.root /\ h.first = n.first /\ h \in Handles
  BY <1>2, <1>4 DEF Opened, Handles
<1>6. Ordered(es) /\ LeavesAre(d, ids, es) /\ n.first = ids[1]
  BY <1>1 DEF Starts
<1>7. Chain(d, n.first) = ids
  BY <1>6, ChainOfTree
<1>8. /\ Len(ids) \in Nat /\ DOMAIN ids = 1 .. Len(ids)
      /\ \A i \in 1 .. Len(ids) : Entries(d, ids[i]) = es[i]
  BY <1>6, LeafFacts
<1>9. PICK root : root = Node(d, n.root)
  OBVIOUS
<1>10. n.height = 1 => n.root = n.first /\ Len(ids) = 1
  BY <1>1, <1>7 DEF TreeValid
<1>11. n.height # 1 => /\ root.kind = "internal" /\ Len(root.children) = Len(ids)
                       /\ \A i \in DOMAIN ids : root.children[i] = Child(High(Entries(d, ids[i])), ids[i])
  BY <1>1, <1>7, <1>9 DEF TreeValid
<1>12. CASE n.height = 1
  <2>1. RootIs(d, h, ids, es)
    BY <1>5, <1>6, <1>10, <1>12 DEF RootIs
  <2> QED
    BY <1>1, <1>2, <1>4, <1>5, <1>6, <2>1 DEF TreeAt
<1>13. CASE n.height # 1
  <2>1. root \in Nodes
    BY <1>9, NodeFacts
  <2>2. root.children \in Roots /\ root = Internal(root.children)
    BY <1>11, <1>13, <2>1, NodesByKind
  <2>3. PICK c : c = root.children
    OBVIOUS
  <2>4. c \in Seq([high : Universe, id : Nat]) /\ Len(c) \in 2 .. InternalCapacity /\ Len(c) = Len(ids)
    BY <1>11, <1>13, <2>2, <2>3 DEF Roots
  <2>5. c = [i \in 1 .. Len(ids) |-> c[i]]
    BY <2>4
  <2>6. \A i \in 1 .. Len(ids) : c[i] = Child(High(es[i]), ids[i])
    BY <1>8, <1>11, <1>13, <2>3
  <2>7. c = Separators(ids, es)
    BY <2>5, <2>6 DEF Separators
  <2>8. RootIs(d, h, ids, es)
    BY <1>4, <1>5, <1>9, <1>13, <2>2, <2>3, <2>4, <2>7 DEF RootIs
  <2> QED
    BY <1>1, <1>2, <1>4, <1>5, <1>6, <2>8 DEF TreeAt
<1> QED
  BY <1>12, <1>13

\* Whatever of an operation's writes has reached the file: if open accepts it, it is the
\* tree from before or the one from afterwards.
LEMMA MixturesAreSound ==
  ASSUME NEW st \in Seq(Nodes), NEW f \in Seq(Nodes), NEW h, NEW h2,
         NEW ids \in Seq(Nat), NEW es \in Seq(EntrySets), NEW ids2 \in Seq(Nat), NEW es2 \in Seq(EntrySets),
         TreeAt(st, h, ids, es), TreeAt(f, h2, ids2, es2), Changes(st, f, ids, ids2),
         NEW V, AllOf(es) \in V, AllOf(es2) \in V
  PROVE  Sound(st, f, V)
<1>1. ASSUME NEW d \in Seq(Nodes), Mixed(d, st, f), Node(d, HeaderId).kind = "header",
             TreeValid(d, Node(d, HeaderId))
      PROVE  \E m \in V : TreeOf(d, Opened(Node(d, HeaderId)), m)
  <2>1. ChainValid(d, Node(d, HeaderId).first)
    BY <1>1 DEF TreeValid
  <2>2. Starts(d, ids, es) \/ Starts(d, ids2, es2)
    BY <1>1, <2>1, MixedLeaves
  <2>3. CASE Starts(d, ids, es)
    <3>1. TreeAt(d, Opened(Node(d, HeaderId)), ids, es)
      BY <1>1, <2>3, ValidIsTree
    <3> QED
      BY <3>1 DEF TreeOf
  <2>4. CASE Starts(d, ids2, es2)
    <3>1. TreeAt(d, Opened(Node(d, HeaderId)), ids2, es2)
      BY <1>1, <2>4, ValidIsTree
    <3> QED
      BY <3>1 DEF TreeOf
  <2> QED
    BY <2>2, <2>3, <2>4
<1> QED
  BY <1>1 DEF Sound, AcceptedTree

\* A tree is one of its records, whatever sequence they stand in.
LEMMA SameTree ==
  ASSUME NEW st, NEW d \in Seq(Nodes), NEW h, NEW m, TreeOf(st, h, m), SameRecords(d, st)
  PROVE  TreeOf(d, h, m)
<1>1. PICK ids \in Seq(Nat), es \in Seq(EntrySets) : TreeAt(st, h, ids, es) /\ m = AllOf(es)
  BY DEF TreeOf
<1>2. LeavesAre(st, ids, es) /\ RootIs(st, h, ids, es)
  BY <1>1 DEF TreeAt
<1>3. LeavesAre(d, ids, es)
  BY <1>2, LeavesStay DEF SameRecords
<1>4. RootIs(d, h, ids, es)
  BY <1>2 DEF RootIs, SameRecords
<1>5. Node(d, HeaderId) = Node(st, HeaderId)
  BY DEF SameRecords
<1>6. TreeAt(d, h, ids, es)
  BY <1>1, <1>3, <1>4, <1>5 DEF TreeAt
<1> QED
  BY <1>1, <1>6 DEF TreeOf

\* The entries of a tree, as open reads them.
LEMMA TreeOfFacts ==
  ASSUME NEW st, NEW h, NEW m, TreeOf(st, h, m)
  PROVE  /\ st \in Seq(Nodes) /\ h \in Handles /\ m \in SUBSET Universe
         /\ Opened(Node(st, HeaderId)) = h /\ Contents(st, h.first) = m
<1>1. PICK ids \in Seq(Nat), es \in Seq(EntrySets) : TreeAt(st, h, ids, es) /\ m = AllOf(es)
  BY DEF TreeOf
<1>2. Ordered(es) /\ LeavesAre(st, ids, es) /\ h.first = ids[1] /\ h \in Handles
  BY <1>1 DEF TreeAt
<1>3. st \in Seq(Nodes)
  BY DEF TreeOf
<1>4. Opened(Node(st, HeaderId)) = h
  BY <1>1, OpenedIsHandle
<1>5. Contents(st, h.first) = m
  BY <1>1, <1>2, <1>3, ContentsOfTree
<1>6. \A i \in 1 .. Len(es) : es[i] \in SUBSET Universe
  BY ElementOfSeq, EntrySetFacts
<1>7. m \in SUBSET Universe
  BY <1>1, <1>6, AllOfMeaning
<1> QED
  BY <1>2, <1>3, <1>4, <1>5, <1>7

-----------------------------------------------------------------------------
(***************************************************************************)
(* The inductive invariant.                                                *)
(***************************************************************************)

\* The operation in progress leads to f; or has led there.
Pending(st, f) ==
  /\ op \in [writes : Seq(Seq(Nodes)), handle : Handles, result : SUBSET Universe]
  /\ op.writes # <<>> /\ Last(op.writes) = f /\ MixedWrites(op.writes, st, f)
  /\ TreeOf(f, op.handle, op.result)
Finished(f) == op = NoOp /\ store = f /\ TreeOf(f, handle, model)

\* All is in the file; or one operation has begun since, and both the store and the file
\* are mixtures of the records from before it and those from afterwards.
Settled ==
  /\ op = NoOp /\ TreeOf(store, handle, model)
  /\ SameRecords(durable, store) /\ versions = {model} /\ unflushed = 0
Underway ==
  /\ unflushed = 1
  /\ \E st, f \in Seq(Nodes) :
       /\ Sound(st, f, versions) /\ Mixed(store, st, f) /\ Mixed(durable, st, f)
       /\ Pending(st, f) \/ Finished(f)

\* The process is gone.
Gone == store = durable /\ AcceptedTree(store, versions)

CInv ==
  /\ store \in Seq(Nodes) /\ durable \in Seq(Nodes)
  /\ phase \in {"open", "closed", "rejected"}
  /\ phase = "open" => Settled \/ Underway
  /\ phase = "closed" => Gone

\* A new index has been flushed.
LEMMA CrashInitCInv == CrashInit => CInv
<1> SUFFICES ASSUME CrashInit PROVE CInv
  OBVIOUS
<1>1. Init /\ durable = store /\ unflushed = 0 /\ versions = {{}}
  BY DEF CrashInit
<1>2. phase = "open" /\ op = NoOp /\ model = {}
  BY <1>1 DEF Init
<1>3. IInv /\ Ready
  BY <1>1, <1>2, InitIInv DEF Ready
<1>4. TreeOf(store, handle, model) /\ store \in Seq(Nodes)
  BY <1>3, ReadyTree DEF TreeOf
<1>5. Settled
  BY <1>1, <1>2, <1>4 DEF Settled, SameRecords
<1> QED
  BY <1>1, <1>2, <1>4, <1>5 DEF CInv

\* The first operation after a flush puts the records of two trees side by side.
LEMMA OperateCInv ==
  ASSUME MaxUnflushed <= 1, CInv, Operate
  PROVE  CInv'
<1>1. unflushed < MaxUnflushed /\ unflushed' = unflushed + 1 /\ durable' = durable
      /\ versions' = versions \cup {op'.result}
  BY DEF Operate
<1>2. PICK e \in Universe : Insert(e) \/ Erase(e)
  BY DEF Operate
<1>3. Ready /\ phase = "open" /\ op = NoOp /\ store \in Seq(Nodes) /\ durable \in Seq(Nodes)
  BY <1>2 DEF Insert, Erase, Ready, CInv
<1>4. ~Underway
  <2>1. ASSUME unflushed = 1 PROVE FALSE
    BY <1>1, <2>1, CrashAssumption
  <2> QED
    BY <2>1 DEF Underway
<1>5. TreeOf(store, handle, model) /\ SameRecords(durable, store) /\ versions = {model} /\ unflushed = 0
  BY <1>3, <1>4 DEF CInv, Settled
<1>6. PICK ids \in Seq(Nat), es \in Seq(EntrySets) : TreeAt(store, handle, ids, es) /\ model = AllOf(es)
  BY <1>5 DEF TreeOf
<1>7. Begun(ids)
  BY <1>2, <1>3, <1>6, OperationLeads
<1>8. PICK w, h, m : Begin(w, h, m) /\ Leads(w, h, m, ids)
  BY <1>7 DEF Begun
<1>9. PICK f : f = Last(w)
  OBVIOUS
<1>10. w \in Seq(Seq(Nodes)) /\ w # <<>> /\ MixedWrites(w, store, f)
  BY <1>8, <1>9 DEF Leads
<1>11. PICK ids2 \in Seq(Nat), es2 \in Seq(EntrySets) :
         TreeAt(f, h, ids2, es2) /\ m = AllOf(es2) /\ Changes(store, f, ids, ids2)
  BY <1>8, <1>9 DEF Leads
<1>12. f \in Seq(Nodes)
  BY <1>9, <1>10, LastOfSeq
<1>13. op' = [writes |-> w, handle |-> h, result |-> m]
       /\ store' = store /\ handle' = handle /\ phase' = phase /\ model' = model
  BY <1>8 DEF Begin
<1>14. TreeOf(f, h, m)
  BY <1>11, <1>12 DEF TreeOf
<1>15. h \in Handles /\ m \in SUBSET Universe
  BY <1>14, TreeOfFacts
<1>16. op'.writes = w /\ op'.handle = h /\ op'.result = m
       /\ op' \in [writes : Seq(Seq(Nodes)), handle : Handles, result : SUBSET Universe]
  BY <1>10, <1>13, <1>15
<1>17. AllOf(es) \in versions' /\ AllOf(es2) \in versions'
  BY <1>1, <1>5, <1>6, <1>11, <1>16
<1>18. Sound(store, f, versions')
  BY <1>3, <1>6, <1>11, <1>12, <1>17, MixturesAreSound
<1>19. Mixed(store', store, f) /\ Mixed(durable', store, f)
  BY <1>1, <1>5, <1>13 DEF Mixed, SameRecords
<1>20. Pending(store, f)'
  BY <1>9, <1>10, <1>12, <1>13, <1>14, <1>16 DEF Pending
<1>21. unflushed' = 1
  BY <1>1, <1>5
<1>22. \E st, g \in Seq(Nodes) :
         /\ Sound(st, g, versions') /\ Mixed(store', st, g) /\ Mixed(durable', st, g)
         /\ Pending(st, g)' \/ Finished(g)'
  BY <1>3, <1>12, <1>13, <1>18, <1>19, <1>20
<1>23. Underway'
  BY <1>21, <1>22 DEF Underway
<1> QED
  BY <1>1, <1>3, <1>13, <1>23 DEF CInv

\* What is left of an operation after its next write, which is a mixture as well.
LEMMA WriteCInv ==
  ASSUME CInv, Write
  PROVE  CInv'
<1>1. WriteRecord /\ durable' = durable /\ unflushed' = unflushed /\ versions' = versions
  BY DEF Write
<1>2. phase = "open" /\ op # NoOp /\ phase' = "open" /\ store' = Head(op.writes)
  BY <1>1 DEF WriteRecord
<1>3. Underway /\ durable \in Seq(Nodes)
  BY <1>2 DEF CInv, Settled
<1>4. PICK st \in Seq(Nodes), f \in Seq(Nodes) :
        /\ Sound(st, f, versions) /\ Mixed(store, st, f) /\ Mixed(durable, st, f)
        /\ Pending(st, f) \/ Finished(f)
  BY <1>3 DEF Underway
<1>5. Pending(st, f)
  BY <1>2, <1>4 DEF Finished
<1>6. PICK w : w = op.writes
  OBVIOUS
<1>7. w \in Seq(Seq(Nodes)) /\ w # <<>> /\ Last(w) = f /\ MixedWrites(w, st, f)
      /\ TreeOf(f, op.handle, op.result) /\ op.handle \in Handles /\ op.result \in SUBSET Universe
      /\ op \in [writes : Seq(Seq(Nodes)), handle : Handles, result : SUBSET Universe]
  BY <1>5, <1>6 DEF Pending
<1>8. Head(w) \in Seq(Nodes) /\ Head(w) = w[1] /\ Tail(w) \in Seq(Seq(Nodes)) /\ Len(Tail(w)) = Len(w) - 1
      /\ (\A i \in 1 .. Len(Tail(w)) : Tail(w)[i] = w[i + 1]) /\ Len(w) \in Nat /\ Len(w) >= 1
  BY <1>7, HeadTailProperties, EmptySeq
<1>9. PICK n : n = Len(w)
  OBVIOUS
<1>10. PICK t : t = Tail(w)
  OBVIOUS
<1>11. n \in Nat /\ n >= 1 /\ Len(t) = n - 1 /\ t \in Seq(Seq(Nodes)) /\ \A i \in 1 .. Len(t) : t[i] = w[i + 1]
  BY <1>8, <1>9, <1>10
<1>12. Mixed(store', st, f) /\ store' \in Seq(Nodes)
  <2>1. 1 \in 1 .. Len(w)
    BY <1>9, <1>11
  <2> QED
    BY <1>2, <1>6, <1>7, <1>8, <2>1 DEF MixedWrites
<1>13. IF n = 1 THEN op' = NoOp /\ handle' = op.handle /\ model' = op.result
       ELSE op' = [op EXCEPT !.writes = t] /\ handle' = handle /\ model' = model
  BY <1>1, <1>6, <1>9, <1>10 DEF WriteRecord
<1>14. CASE n = 1
  <2>1. store' = f
    BY <1>2, <1>6, <1>7, <1>8, <1>9, <1>14 DEF Last
  <2>2. Finished(f)'
    BY <1>7, <1>13, <1>14, <2>1 DEF Finished
  <2>3. \E s, g \in Seq(Nodes) :
          /\ Sound(s, g, versions') /\ Mixed(store', s, g) /\ Mixed(durable', s, g)
          /\ Pending(s, g)' \/ Finished(g)'
    BY <1>1, <1>4, <1>12, <2>2
  <2>4. Underway'
    BY <1>1, <1>3, <2>3 DEF Underway
  <2> QED
    BY <1>1, <1>2, <1>3, <1>12, <2>4 DEF CInv
<1>15. CASE n # 1
  <2>1. op'.writes = t /\ op'.handle = op.handle /\ op'.result = op.result
        /\ op' \in [writes : Seq(Seq(Nodes)), handle : Handles, result : SUBSET Universe]
    BY <1>7, <1>11, <1>13, <1>15
  <2>2. Len(t) \in 1 .. Len(t) /\ Len(t) + 1 = n /\ Len(t) # 0
    BY <1>11, <1>15
  <2>3. t # <<>> /\ Last(t) = f
    BY <1>7, <1>9, <1>11, <2>2, EmptySeq DEF Last
  <2>4. MixedWrites(t, st, f)
    <3>1. \A i \in 1 .. Len(t) : i + 1 \in 1 .. Len(w) /\ t[i] = w[i + 1]
      BY <1>9, <1>11
    <3> QED
      BY <1>7, <3>1 DEF MixedWrites
  <2>5. Pending(st, f)'
    BY <1>7, <2>1, <2>3, <2>4 DEF Pending
  <2>6. \E s, g \in Seq(Nodes) :
          /\ Sound(s, g, versions') /\ Mixed(store', s, g) /\ Mixed(durable', s, g)
          /\ Pending(s, g)' \/ Finished(g)'
    BY <1>1, <1>4, <1>12, <2>5
  <2>7. Underway'
    BY <1>1, <1>3, <2>6 DEF Underway
  <2> QED
    BY <1>1, <1>2, <1>3, <1>12, <2>7 DEF CInv
<1> QED
  BY <1>14, <1>15

\* The greater of two numbers.
LEMMA MaxOfTwo ==
  ASSUME NEW a \in Nat, NEW b \in Nat
  PROVE  Max({a, b}) \in {a, b} /\ a <= Max({a, b}) /\ b <= Max({a, b})
<1> DEFINE P(x) == x \in {a, b} /\ \A y \in {a, b} : x >= y
<1>1. P(a) \/ P(b)
  OBVIOUS
<1>2. Max({a, b}) = CHOOSE x : P(x)
  BY DEF Max
<1>3. P(CHOOSE x : P(x))
  BY <1>1
<1> QED
  BY <1>2, <1>3

\* The page of one record is written: the file has the store's record, and the others as
\* before.
LEMMA PersistedNodes ==
  ASSUME store \in Seq(Nodes), durable \in Seq(Nodes), NEW id \in DOMAIN store, Persist(id)
  PROVE  /\ durable' \in Seq(Nodes)
         /\ \A j : Node(durable', j) = IF j = id THEN Node(store, id) ELSE Node(durable, j)
<1> DEFINE n == Max({Len(durable), id})
<1>1. id \in 1 .. Len(store) /\ Len(store) \in Nat /\ Node(store, id) = store[id]
  BY NodeFacts
<1>2. Len(durable) \in Nat /\ DOMAIN durable = 1 .. Len(durable)
      /\ (\A j : Node(durable, j) \in Nodes) /\ \A j : Node(store, j) \in Nodes
  BY NodeFacts
<1>3. id \in Nat /\ id >= 1
  BY <1>1
<1>4. n \in {Len(durable), id} /\ Len(durable) <= n /\ id <= n
  BY <1>2, <1>3, MaxOfTwo
<1>5. durable' = [i \in 1 .. n |-> IF i = id THEN store[id] ELSE Node(durable, i)]
  BY DEF Persist
<1> HIDE DEF n
<1>6. n \in Nat
  BY <1>2, <1>3, <1>4
<1>7. \A i \in 1 .. n : (IF i = id THEN store[id] ELSE Node(durable, i)) \in Nodes
  BY <1>1, <1>2
<1>8. durable' \in [1 .. n -> Nodes]
  BY <1>5, <1>7
<1>9. durable' \in Seq(Nodes)
  BY <1>6, <1>8, SeqDef
<1>10. DOMAIN durable' = 1 .. n
  BY <1>5
<1>11. id \in 1 .. n /\ \A i \in 1 .. Len(durable) : i \in 1 .. n
  <2>1. PICK k : k = Len(durable)
    OBVIOUS
  <2>2. k \in Nat /\ k <= n /\ id <= n
    BY <1>2, <1>4, <2>1
  <2>3. \A i \in 1 .. k : i \in 1 .. n
    BY ONLY <1>6, <2>2
  <2> QED
    BY <1>3, <1>6, <2>1, <2>2, <2>3
<1>12. ASSUME NEW j PROVE Node(durable', j) = IF j = id THEN Node(store, id) ELSE Node(durable, j)
  <2>1. CASE j \in 1 .. n
    BY <1>1, <1>5, <1>10, <2>1 DEF Node
  <2>2. CASE j \notin 1 .. n
    <3>1. j \notin 1 .. Len(durable) /\ j # id
      BY <1>11, <2>2
    <3> QED
      BY <1>2, <1>10, <2>2, <3>1 DEF Node
  <2> QED
    BY <2>1, <2>2
<1> QED
  BY <1>9, <1>12

\* A mixture of mixtures is a mixture.
LEMMA PersistCInv ==
  ASSUME CInv, NEW id \in DOMAIN store, Persist(id)
  PROVE  CInv'
<1>1. /\ phase = "open" /\ Node(store, id) # Node(durable, id)
      /\ store' = store /\ handle' = handle /\ op' = op /\ phase' = phase /\ model' = model
      /\ unflushed' = unflushed /\ versions' = versions
  BY DEF Persist, vars
<1>2. store \in Seq(Nodes) /\ durable \in Seq(Nodes)
  BY DEF CInv
<1>3. /\ durable' \in Seq(Nodes)
      /\ \A j : Node(durable', j) = IF j = id THEN Node(store, id) ELSE Node(durable, j)
  BY <1>2, PersistedNodes
<1>4. Underway
  BY <1>1 DEF CInv, Settled, SameRecords
<1>5. PICK st \in Seq(Nodes), f \in Seq(Nodes) :
        /\ Sound(st, f, versions) /\ Mixed(store, st, f) /\ Mixed(durable, st, f)
        /\ Pending(st, f) \/ Finished(f)
  BY <1>4 DEF Underway
<1>6. Mixed(durable', st, f)
  BY <1>3, <1>5 DEF Mixed
<1>7. Pending(st, f)' \/ Finished(f)'
  BY <1>1, <1>5 DEF Pending, Finished
<1>8. \E s, g \in Seq(Nodes) :
        /\ Sound(s, g, versions') /\ Mixed(store', s, g) /\ Mixed(durable', s, g)
        /\ Pending(s, g)' \/ Finished(g)'
  BY <1>1, <1>5, <1>6, <1>7
<1>9. Underway'
  BY <1>1, <1>4, <1>8 DEF Underway
<1> QED
  BY <1>1, <1>2, <1>3, <1>9 DEF CInv

\* When flush_all has returned, the file holds the store.
LEMMA FlushAllCInv ==
  ASSUME CInv, FlushAll
  PROVE  CInv'
<1>1. /\ phase = "open" /\ op = NoOp
      /\ \A id \in DOMAIN store \cup DOMAIN durable : Node(store, id) = Node(durable, id)
      /\ unflushed' = 0 /\ versions' = {model} /\ durable' = durable
      /\ store' = store /\ handle' = handle /\ op' = op /\ phase' = phase /\ model' = model
  BY DEF FlushAll, Ready, vars
<1>2. store \in Seq(Nodes) /\ durable \in Seq(Nodes)
  BY DEF CInv
<1>3. SameRecords(durable, store)
  BY <1>1 DEF SameRecords, Node
<1>4. TreeOf(store, handle, model)
  <2>1. CASE Settled
    BY <2>1 DEF Settled
  <2>2. CASE Underway
    <3>1. PICK st \in Seq(Nodes), f \in Seq(Nodes) : Pending(st, f) \/ Finished(f)
      BY <2>2 DEF Underway
    <3>2. ~Pending(st, f)
      <4>1. NoOp.writes = <<>>
        BY DEF NoOp
      <4> QED
        BY <1>1, <4>1 DEF Pending
    <3> QED
      BY <3>1, <3>2 DEF Finished
  <2> QED
    BY <1>1, <2>1, <2>2 DEF CInv
<1>5. Settled'
  BY <1>1, <1>3, <1>4 DEF Settled, SameRecords
<1> QED
  BY <1>1, <1>2, <1>5 DEF CInv

\* A crash leaves what the file holds: the tree that was flushed, or a mixture.
LEMMA CrashCInv ==
  ASSUME CInv, Crash
  PROVE  CInv'
<1>1. /\ phase = "open" /\ phase' = "closed" /\ store' = durable /\ durable' = durable
      /\ versions' = versions
  BY DEF Crash
<1>2. durable \in Seq(Nodes)
  BY DEF CInv
<1>3. AcceptedTree(durable, versions)
  <2>1. CASE Settled
    <3>1. TreeOf(durable, handle, model) /\ versions = {model}
      BY <1>2, <2>1, SameTree DEF Settled
    <3>2. Opened(Node(durable, HeaderId)) = handle
      BY <3>1, TreeOfFacts
    <3> QED
      BY <3>1, <3>2 DEF AcceptedTree
  <2>2. CASE Underway
    <3>1. PICK st \in Seq(Nodes), f \in Seq(Nodes) : Sound(st, f, versions) /\ Mixed(durable, st, f)
      BY <2>2 DEF Underway
    <3> QED
      BY <1>2, <3>1 DEF Sound
  <2> QED
    BY <1>1, <2>1, <2>2 DEF CInv
<1>4. Gone'
  BY <1>1, <1>3 DEF Gone
<1> QED
  BY <1>1, <1>2, <1>4 DEF CInv

\* What open accepts is a tree, and the model starts anew from its entries.
LEMMA AcceptedIsTree ==
  ASSUME CInv, phase = "closed", Openable
  PROVE  /\ Contents(store, HeaderNode.first) \in versions
         /\ TreeOf(store, Opened(HeaderNode), Contents(store, HeaderNode.first))
         /\ store \in Seq(Nodes) /\ store = durable
<1>1. store \in Seq(Nodes) /\ store = durable /\ AcceptedTree(store, versions)
  BY DEF CInv, Gone
<1>2. PICK m \in versions : TreeOf(store, Opened(HeaderNode), m)
  BY <1>1 DEF AcceptedTree, Openable, HeaderNode
<1>3. Opened(HeaderNode).first = HeaderNode.first
  BY DEF Opened
<1>4. Contents(store, HeaderNode.first) = m
  BY <1>2, <1>3, TreeOfFacts
<1> QED
  BY <1>1, <1>2, <1>4

\* Opening takes over what the file holds.
LEMMA ReopenCInv ==
  ASSUME CInv, Reopen
  PROVE  CInv'
<1>1. /\ phase = "closed" /\ Openable /\ phase' = "open" /\ handle' = Opened(HeaderNode)
      /\ model' = Contents(store, HeaderNode.first) /\ op' = NoOp /\ store' = store
      /\ unflushed' = 0 /\ versions' = {model'} /\ durable' = durable
  BY DEF Reopen, Open
<1>2. /\ TreeOf(store, Opened(HeaderNode), Contents(store, HeaderNode.first))
      /\ store \in Seq(Nodes) /\ store = durable
  BY <1>1, AcceptedIsTree
<1>3. TreeOf(store', handle', model')
  BY <1>1, <1>2
<1>4. SameRecords(durable', store')
  BY <1>1, <1>2 DEF SameRecords
<1>5. Settled'
  BY <1>1, <1>3, <1>4 DEF Settled
<1> QED
  BY <1>1, <1>2, <1>5 DEF CInv

\* A rejected index stays as it is.
LEMMA RejectCInv ==
  ASSUME CInv, Reject
  PROVE  CInv'
BY DEF CInv, Reject

\* The invariant is a formula about these variables.
LEMMA StutterCInv ==
  ASSUME CInv, UNCHANGED crashVars
  PROVE  CInv'
<1>1. /\ store' = store /\ handle' = handle /\ op' = op /\ phase' = phase /\ model' = model
      /\ durable' = durable /\ unflushed' = unflushed /\ versions' = versions
  BY DEF crashVars, vars
<1> QED
  BY <1>1 DEF CInv, Settled, Underway, Pending, Finished, Gone

\* Every step keeps the invariant.
LEMMA CrashNextCInv ==
  ASSUME MaxUnflushed <= 1, CInv, [CrashNext]_crashVars
  PROVE  CInv'
<1>1. CASE Operate
  BY <1>1, OperateCInv
<1>2. CASE Write
  BY <1>2, WriteCInv
<1>3. CASE FlushAll
  BY <1>3, FlushAllCInv
<1>4. CASE Crash
  BY <1>4, CrashCInv
<1>5. CASE Reopen
  BY <1>5, ReopenCInv
<1>6. CASE Reject
  BY <1>6, RejectCInv
<1>7. ASSUME NEW id \in DOMAIN store, Persist(id) PROVE CInv'
  BY <1>7, PersistCInv
<1>8. CASE UNCHANGED crashVars
  BY <1>8, StutterCInv
<1> QED
  BY <1>1, <1>2, <1>3, <1>4, <1>5, <1>6, <1>7, <1>8 DEF CrashNext

-----------------------------------------------------------------------------
(***************************************************************************)
(* The theorems.                                                           *)
(***************************************************************************)

\* The store and the file are one tree, or mixtures of the records of two trees of which
\* open accepts none that is not one of the two.
THEOREM CrashInvariance ==
  ASSUME MaxUnflushed <= 1
  PROVE  CrashSpec => []CInv
<1>1. CrashInit => CInv
  BY CrashInitCInv
<1>2. CInv /\ [CrashNext]_crashVars => CInv'
  BY CrashNextCInv
<1> QED
  BY <1>1, <1>2, PTL DEF CrashSpec

\* An index that open accepts holds what it held at the last flush_all, or what the one
\* operation begun since then leaves: nothing in between.
AcceptedIndexIsAVersion ==
  phase = "closed" /\ Openable => Contents(store, HeaderNode.first) \in versions

\* One operation between two flushes is there wholly or not at all, wherever the process
\* was lost and whatever pages had been written, or open refuses the index.
THEOREM OperationIsAtomic ==
  ASSUME MaxUnflushed <= 1
  PROVE  CrashSpec => []AcceptedIndexIsAVersion
<1>1. CInv => AcceptedIndexIsAVersion
  BY AcceptedIsTree DEF AcceptedIndexIsAVersion
<1> QED
  BY <1>1, CrashInvariance, PTL

\* An accepted index holds every entry that was there at the last flush_all and since,
\* and none that was never there.
THEOREM CrashCorrect ==
  ASSUME MaxUnflushed <= 1
  PROVE  CrashSpec => []AcceptedIndexIsWhole
<1>1. ASSUME CInv PROVE AcceptedIndexIsWhole
  <2>1. ASSUME phase = "closed", Openable, NEW found, found = Contents(store, HeaderNode.first)
        PROVE  /\ \A e \in Universe : (\A v \in versions : e \in v) => e \in found
               /\ found \subseteq UNION versions
    <3>1. found \in versions
      BY <1>1, <2>1, AcceptedIsTree
    <3> QED
      BY <3>1
  <2> QED
    BY <2>1 DEF AcceptedIndexIsWhole
<1> QED
  BY <1>1, CrashInvariance, PTL
====
