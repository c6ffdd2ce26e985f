----------------------------- MODULE SpaceProofs ------------------------------
(***************************************************************************)
(* What the proofs about pages need to know about sums of sizes, and about *)
(* least elements.                                                         *)
(***************************************************************************)
EXTENDS Space, FiniteSetsExt, FiniteSetTheorems, WellFoundedInduction, TLAPS

\* A nonempty set of naturals has a least element, and Min is it.
LEMMA MinIsLeast ==
  ASSUME NEW S \in SUBSET Nat, S # {}
  PROVE  Min(S) \in S /\ \A y \in S : Min(S) <= y
<1>1. IsWellFoundedOn(OpToRel(<, Nat), Nat)
  BY NatLessThanWellFounded
<1>2. PICK x \in S : \A y \in S : ~(<<y, x>> \in OpToRel(<, Nat))
  BY <1>1, WFMin
<1>3. \A y \in S : ~ (y < x)
  BY <1>2 DEF OpToRel
<1>4. \A y \in S : x <= y
  BY <1>3
<1> QED
  BY <1>4 DEF Min

\* A byte is a record and a position in it.
LEMMA ByteMeaning ==
  ASSUME NEW size
  PROVE  \A b : b \in BytesOf(size)
           <=> \E s \in DOMAIN size : \E i \in 1 .. size[s] : b = <<s, i>>
BY DEF BytesOf

\* The bytes of one record are as many as its size.
LEMMA RecordBytes ==
  ASSUME NEW s, NEW n \in Nat
  PROVE  IsFiniteSet({s} \X (1 .. n)) /\ Cardinality({s} \X (1 .. n)) = n
<1>1. IsFiniteSet({s}) /\ Cardinality({s}) = 1
  BY FS_Singleton
<1>2. IsFiniteSet(1 .. n) /\ Cardinality(1 .. n) = n
  <2>1. IsFiniteSet(1 .. n) /\ Cardinality(1 .. n) = IF 1 > n THEN 0 ELSE n - 1 + 1
    BY FS_Interval
  <2> QED
    BY <2>1
<1>3. IsFiniteSet({s} \X (1 .. n))
      /\ Cardinality({s} \X (1 .. n)) = Cardinality({s}) * Cardinality(1 .. n)
  <2>1. \A A, B : IsFiniteSet(A) /\ IsFiniteSet(B)
          => IsFiniteSet(A \X B) /\ Cardinality(A \X B) = Cardinality(A) * Cardinality(B)
    BY FS_Product
  <2> QED
    BY <1>1, <1>2, <2>1, Zenon
<1> QED
  BY <1>1, <1>2, <1>3

\* Finitely many records have finitely many bytes.
LEMMA TotalIsNat ==
  ASSUME NEW S, IsFiniteSet(S), NEW f \in [S -> Nat]
  PROVE  IsFiniteSet(BytesOf(f)) /\ Total(f) \in Nat
<1> DEFINE block == [s \in S |-> {s} \X (1 .. f[s])]
<1>1. IsFiniteSet({block[s] : s \in S})
  <2>1. block \in Surjection(S, {block[s] : s \in S})
    BY DEF Surjection
  <2> QED
    BY <2>1, FS_Surjection
<1>2. \A T \in {block[s] : s \in S} : IsFiniteSet(T)
  <2> SUFFICES ASSUME NEW s \in S PROVE IsFiniteSet(block[s])
    OBVIOUS
  <2>1. IsFiniteSet({s} \X (1 .. f[s]))
    BY RecordBytes
  <2> QED
    BY <2>1
<1>3. IsFiniteSet(UNION {block[s] : s \in S})
  BY <1>1, <1>2, FS_UNION
<1>4. UNION {block[s] : s \in S} = BytesOf(f)
  BY DEF BytesOf
<1> QED
  BY <1>3, <1>4, FS_CardinalityType DEF Total

\* One more record counts with its size.
LEMMA TotalOfAdded ==
  ASSUME NEW S, IsFiniteSet(S), NEW x, x \notin S,
         NEW f \in [S -> Nat], NEW g \in [S \cup {x} -> Nat], \A s \in S : g[s] = f[s]
  PROVE  Total(g) = Total(f) + g[x]
<1>1. g[x] \in Nat
  OBVIOUS
<1>2. \A b : b \in BytesOf(g) <=> \E s \in S \cup {x} : \E i \in 1 .. g[s] : b = <<s, i>>
  BY ByteMeaning
<1>3. \A b : b \in BytesOf(f) <=> \E s \in S : \E i \in 1 .. f[s] : b = <<s, i>>
  BY ByteMeaning
<1>4. \A b : b \in {x} \X (1 .. g[x]) <=> \E i \in 1 .. g[x] : b = <<x, i>>
  OBVIOUS
<1>5. BytesOf(g) = BytesOf(f) \cup ({x} \X (1 .. g[x]))
  <2>1. ASSUME NEW b PROVE b \in BytesOf(g) <=> b \in BytesOf(f) \/ b \in {x} \X (1 .. g[x])
    BY <1>2, <1>3, <1>4
  <2> QED
    BY <2>1
<1>6. BytesOf(f) \cap ({x} \X (1 .. g[x])) = {}
  <2>1. ASSUME NEW b, b \in BytesOf(f), b \in {x} \X (1 .. g[x]) PROVE FALSE
    BY <2>1, <1>3, <1>4
  <2> QED
    BY <2>1
<1>7. IsFiniteSet({x} \X (1 .. g[x])) /\ Cardinality({x} \X (1 .. g[x])) = g[x]
  BY <1>1, RecordBytes
<1>8. IsFiniteSet(BytesOf(f)) /\ Cardinality(BytesOf(f)) \in Nat
  BY TotalIsNat DEF Total
<1>9. Cardinality(BytesOf(f) \cup ({x} \X (1 .. g[x])))
        = Cardinality(BytesOf(f)) + Cardinality({x} \X (1 .. g[x]))
            - Cardinality(BytesOf(f) \cap ({x} \X (1 .. g[x])))
  BY <1>7, <1>8, FS_Union
<1>10. Cardinality(BytesOf(f) \cap ({x} \X (1 .. g[x]))) = 0
  BY <1>6, FS_EmptySet
<1> QED
  BY <1>1, <1>5, <1>7, <1>8, <1>9, <1>10 DEF Total

\* A record of another size counts with the difference.
LEMMA TotalOfChanged ==
  ASSUME NEW S, IsFiniteSet(S), NEW x \in S,
         NEW f \in [S -> Nat], NEW g \in [S -> Nat], \A s \in S \ {x} : g[s] = f[s]
  PROVE  Total(g) = Total(f) - f[x] + g[x]
<1> DEFINE R == S \ {x}
           h == [s \in R |-> f[s]]
<1>1. IsFiniteSet(R) /\ x \notin R /\ S = R \cup {x}
  BY FS_RemoveElement
<1>2. h \in [R -> Nat] /\ (\A s \in R : f[s] = h[s]) /\ (\A s \in R : g[s] = h[s])
  OBVIOUS
<1> HIDE DEF R, h
<1>3. Total(f) = Total(h) + f[x] /\ Total(g) = Total(h) + g[x]
  <2>1. f \in [R \cup {x} -> Nat] /\ g \in [R \cup {x} -> Nat]
    BY <1>1
  <2> QED
    BY <1>1, <1>2, <2>1, TotalOfAdded
<1>4. Total(h) \in Nat /\ f[x] \in Nat /\ g[x] \in Nat
  BY <1>1, <1>2, TotalIsNat
<1> QED
  BY <1>3, <1>4

\* Some of the records take no more than all; as much, if the others are empty.
LEMMA TotalOfPart ==
  ASSUME NEW S, IsFiniteSet(S), NEW T \in SUBSET S,
         NEW f \in [S -> Nat], NEW g \in [T -> Nat], \A s \in T : g[s] = f[s]
  PROVE  /\ Total(g) <= Total(f)
         /\ (\A s \in S \ T : f[s] = 0) => Total(g) = Total(f)
<1>1. \A b : b \in BytesOf(f) <=> \E s \in S : \E i \in 1 .. f[s] : b = <<s, i>>
  BY ByteMeaning
<1>2. \A b : b \in BytesOf(g) <=> \E s \in T : \E i \in 1 .. g[s] : b = <<s, i>>
  BY ByteMeaning
<1>3. BytesOf(g) \in SUBSET BytesOf(f)
  BY <1>1, <1>2
<1>4. Total(g) <= Total(f)
  BY <1>3, TotalIsNat, FS_Subset DEF Total
<1>5. ASSUME \A s \in S \ T : f[s] = 0 PROVE BytesOf(f) = BytesOf(g)
  <2>1. ASSUME NEW b, b \in BytesOf(f) PROVE b \in BytesOf(g)
    <3>1. PICK s \in S : \E i \in 1 .. f[s] : b = <<s, i>>
      BY <1>1, <2>1
    <3>2. s \in T
      BY <1>5, <3>1
    <3> QED
      BY <1>2, <3>1, <3>2
  <2> QED
    BY <1>3, <2>1
<1> QED
  BY <1>4, <1>5 DEF Total

\* Records of no size at all take none.
LEMMA TotalOfNone ==
  ASSUME NEW f, DOMAIN f = {}
  PROVE  Total(f) = 0
<1>1. BytesOf(f) = {}
  BY DEF BytesOf
<1> QED
  BY <1>1, FS_EmptySet DEF Total

\* Leaving out empty records changes nothing.
LEMMA TotalWithoutEmpty ==
  \A S, T, f, g :
    /\ IsFiniteSet(S) /\ T \in SUBSET S /\ f \in [S -> Nat] /\ g \in [T -> Nat]
    /\ \A s \in T : g[s] = f[s]
    /\ \A s \in S \ T : f[s] = 0
    => Total(g) = Total(f)
BY TotalOfPart

\* Records that lie side by side in an interval take no more than it has.
LEMMA TotalInInterval ==
  ASSUME NEW S, IsFiniteSet(S), NEW f \in [S -> Nat], NEW at \in [S -> Int],
         NEW low \in Int, NEW high \in Int, low <= high,
         \A s \in S : f[s] > 0 => low <= at[s] /\ at[s] + f[s] <= high,
         \A s, t \in S : s # t => (at[s] .. at[s] + f[s] - 1) \cap (at[t] .. at[t] + f[t] - 1) = {}
  PROVE  Total(f) <= high - low
<1> DEFINE pos == [b \in BytesOf(f) |-> at[b[1]] + b[2] - 1]
<1>1. \A b : b \in BytesOf(f) <=> \E s \in S : \E i \in 1 .. f[s] : b = <<s, i>>
  BY ByteMeaning
<1>2. ASSUME NEW b \in BytesOf(f)
      PROVE  /\ b[1] \in S /\ b[2] \in 1 .. f[b[1]] /\ b = <<b[1], b[2]>>
             /\ pos[b] \in low .. high - 1
             /\ pos[b] \in at[b[1]] .. at[b[1]] + f[b[1]] - 1
  <2>1. PICK s \in S, i \in Nat : b = <<s, i>> /\ i \in 1 .. f[s]
    BY <1>1
  <2>2. at[s] \in Int /\ f[s] \in Nat /\ i \in Nat /\ 1 <= i /\ i <= f[s]
    BY <2>1
  <2>3. low <= at[s] /\ at[s] + f[s] <= high
    BY <2>2
  <2>4. pos[b] = at[s] + i - 1
    BY <2>1
  <2>5. pos[b] \in low .. high - 1 /\ pos[b] \in at[s] .. at[s] + f[s] - 1
    BY <2>2, <2>3, <2>4
  <2> QED
    BY <2>1, <2>2, <2>5
<1>3. \A b \in BytesOf(f) : pos[b] = at[b[1]] + b[2] - 1
  OBVIOUS
<1>4. pos \in [BytesOf(f) -> low .. high - 1]
  BY <1>2
<1> HIDE DEF pos
<1>5. ASSUME NEW b \in BytesOf(f), NEW c \in BytesOf(f), pos[b] = pos[c] PROVE b = c
  <2>1. b[1] = c[1]
    BY <1>2, <1>5
  <2>2. b[2] = c[2]
    <3>1. at[b[1]] \in Int /\ b[2] \in Int /\ c[2] \in Int
      BY <1>2
    <3>2. at[b[1]] + b[2] - 1 = at[b[1]] + c[2] - 1
      BY <1>3, <1>5, <2>1
    <3> QED
      BY <3>1, <3>2
  <2> QED
    BY <1>2, <2>1, <2>2
<1>6. pos \in Injection(BytesOf(f), low .. high - 1)
  BY <1>4, <1>5 DEF Injection, IsInjective
<1>7. IsFiniteSet(low .. high - 1)
      /\ Cardinality(low .. high - 1) = IF low > high - 1 THEN 0 ELSE high - 1 - low + 1
  BY FS_Interval
<1>8. IsFiniteSet(BytesOf(f))
  BY TotalIsNat
<1>9. Cardinality(BytesOf(f)) <= Cardinality(low .. high - 1)
  BY <1>6, <1>7, <1>8, FS_Injection
<1> QED
  BY <1>7, <1>9, <1>8, FS_CardinalityType DEF Total
=============================================================================
