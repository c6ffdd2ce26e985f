-------------------------- MODULE SlottedPageProofs ---------------------------
(***************************************************************************)
(* Proofs about the slotted page, for every page size and all records:     *)
(* every page the operations build passes validate, and the page keeps the *)
(* promises of SlotMap.  What has to be shown is where bytes lie: that a   *)
(* packed page holds each payload where its directory says, and that       *)
(* writing a slot or a payload touches no other.                           *)
(***************************************************************************)
EXTENDS SlottedPage, SpaceProofs, SequenceTheorems

\* A page with its types, which validate accepts.
PageOK(p) ==
  /\ p \in [slots : Seq(Entries), freeStart : Nat, freeEnd : 0 .. PageSize, bytes : [Offsets -> Bytes]]
  /\ Validate(p)

IInv == PageOK(page)

-----------------------------------------------------------------------------
(***************************************************************************)
(* The directory.                                                          *)
(***************************************************************************)

\* Directory entries follow each other.
LEMMA DirectoryGrows ==
  /\ HeaderSize \in Nat /\ SlotSize \in Nat /\ SlotSize > 0 /\ PageSize \in Nat
  /\ DirectoryEnd(0) = HeaderSize
  /\ \A n \in Nat : DirectoryEnd(n) \in Nat /\ DirectoryEnd(n + 1) = DirectoryEnd(n) + SlotSize
  /\ \A m, n \in Nat : m <= n => DirectoryEnd(m) <= DirectoryEnd(n)
<1>1. HeaderSize \in Nat /\ SlotSize \in Nat /\ SlotSize > 0 /\ PageSize \in Nat
  BY SizesAssumption
<1>2. DirectoryEnd(0) = HeaderSize
  BY <1>1 DEF DirectoryEnd
<1>3. \A n \in Nat : DirectoryEnd(n) \in Nat /\ DirectoryEnd(n + 1) = DirectoryEnd(n) + SlotSize
  BY <1>1 DEF DirectoryEnd
<1>4. ASSUME NEW m \in Nat, NEW n \in Nat, m <= n PROVE DirectoryEnd(m) <= DirectoryEnd(n)
  <2>1. PICK d \in Nat : n = m + d
    <3>1. n - m \in Nat /\ n = m + (n - m)
      BY <1>4
    <3> QED
      BY <3>1
  <2>2. (m + d) * SlotSize = m * SlotSize + d * SlotSize /\ d * SlotSize >= 0
    BY <1>1
  <2>3. m * SlotSize \in Nat /\ d * SlotSize \in Nat
    BY <1>1
  <2> QED
    BY <1>1, <2>1, <2>2, <2>3 DEF DirectoryEnd
<1> QED
  BY <1>1, <1>2, <1>3, <1>4

\* An entry of the directory lies in front of its end.
LEMMA SlotInDirectory ==
  ASSUME NEW n \in Nat, NEW s \in 1 .. n, NEW o, InSlot(s, o)
  PROVE  o \in Nat /\ o < DirectoryEnd(n)
<1>1. s - 1 \in Nat /\ s \in Nat /\ s <= n
  OBVIOUS
<1>2. DirectoryEnd(s - 1) \in Nat /\ DirectoryEnd(s) \in Nat /\ DirectoryEnd(s) <= DirectoryEnd(n)
  BY <1>1, DirectoryGrows
<1>3. DirectoryEnd(n) \in Nat
  BY DirectoryGrows
<1>4. o \in DirectoryEnd(s - 1) .. DirectoryEnd(s) - 1
  BY DEF InSlot
<1> QED
  BY <1>2, <1>3, <1>4

-----------------------------------------------------------------------------
(***************************************************************************)
(* What validate says of a page.                                           *)
(***************************************************************************)

\* The bounds of the free space and the places of the payloads.
LEMMA ValidPage ==
  ASSUME NEW p, PageOK(p)
  PROVE  /\ SlotCount(p) \in Nat /\ DOMAIN p.slots = 1 .. SlotCount(p) /\ p.slots \in Seq(Entries)
         /\ p.bytes \in [Offsets -> Bytes]
         /\ p.freeStart = DirectoryEnd(SlotCount(p)) /\ p.freeStart \in Nat
         /\ p.freeEnd \in Nat /\ p.freeStart <= p.freeEnd /\ p.freeEnd <= PageSize
         /\ Live(p) \subseteq 1 .. SlotCount(p) /\ Dead(p) \subseteq 1 .. SlotCount(p)
         /\ \A s \in 1 .. SlotCount(p) :
              p.slots[s] \in Entries /\ (s \notin Live(p) => p.slots[s] = DeadSlot)
         /\ \A s \in Live(p) :
              /\ p.slots[s].offset \in Nat /\ p.slots[s].length \in Nat \ {0} /\ p.slots[s].live
              /\ p.freeEnd <= p.slots[s].offset
              /\ p.slots[s].offset + p.slots[s].length <= PageSize
         /\ \A s, t \in Live(p) : s # t => Extent(p.slots[s]) \cap Extent(p.slots[t]) = {}
<1>1. /\ p.slots \in Seq(Entries) /\ p.freeStart \in Nat /\ p.freeEnd \in 0 .. PageSize
      /\ p.bytes \in [Offsets -> Bytes]
  BY DEF PageOK
<1>2. SlotCount(p) \in Nat /\ DOMAIN p.slots = 1 .. SlotCount(p)
  BY <1>1 DEF SlotCount
<1>3. /\ p.freeStart = DirectoryEnd(SlotCount(p))
      /\ p.freeStart <= p.freeEnd /\ p.freeEnd <= PageSize
      /\ \A s \in 1 .. SlotCount(p) : SlotValid(p, s)
      /\ \A s, t \in Live(p) : s # t => Extent(p.slots[s]) \cap Extent(p.slots[t]) = {}
  BY <1>2 DEF PageOK, Validate
<1>4. Live(p) \subseteq 1 .. SlotCount(p) /\ Dead(p) \subseteq 1 .. SlotCount(p)
  BY <1>2 DEF Live, Dead
<1>5. \A s \in 1 .. SlotCount(p) : p.slots[s] \in Entries
  BY <1>1, <1>2
<1>6. \A s \in 1 .. SlotCount(p) : s \notin Live(p) => p.slots[s] = DeadSlot
  BY <1>2, <1>3 DEF Live, SlotValid
<1>7. \A s \in Live(p) :
        /\ p.slots[s].offset \in Nat /\ p.slots[s].length \in Nat \ {0} /\ p.slots[s].live
        /\ p.freeEnd <= p.slots[s].offset
        /\ p.slots[s].offset + p.slots[s].length <= PageSize
  <2> SUFFICES ASSUME NEW s \in Live(p)
               PROVE  /\ p.slots[s].offset \in Nat /\ p.slots[s].length \in Nat \ {0} /\ p.slots[s].live
                      /\ p.freeEnd <= p.slots[s].offset
                      /\ p.slots[s].offset + p.slots[s].length <= PageSize
    OBVIOUS
  <2>1. p.slots[s].live /\ SlotValid(p, s) /\ p.slots[s] \in Entries
    BY <1>3, <1>4, <1>5 DEF Live
  <2>2. p.slots[s].offset \in Nat /\ p.slots[s].length \in Nat
    BY <2>1, SizesAssumption DEF Entries
  <2> QED
    BY <2>1, <2>2, <1>1, SizesAssumption DEF SlotValid
<1>8. p.freeStart \in Nat /\ p.freeEnd \in Nat
  BY <1>1, SizesAssumption
<1> QED
  BY <1>1, <1>2, <1>3, <1>4, <1>5, <1>6, <1>7, <1>8

\* The bytes a live slot refers to are a sequence of the length it has.
LEMMA LivePayload ==
  ASSUME NEW p, PageOK(p), NEW s \in Live(p)
  PROVE  /\ Payload(p, s) \in Seq(Bytes) /\ Payload(p, s) # <<>>
         /\ Len(Payload(p, s)) = p.slots[s].length
         /\ \A i \in 1 .. p.slots[s].length : Payload(p, s)[i] = p.bytes[p.slots[s].offset + i - 1]
<1>1. /\ p.slots[s].offset \in Nat /\ p.slots[s].length \in Nat \ {0}
      /\ p.slots[s].offset + p.slots[s].length <= PageSize /\ p.bytes \in [Offsets -> Bytes]
  BY ValidPage
<1> DEFINE n == p.slots[s].length
           at == p.slots[s].offset
<1>2. \A i \in 1 .. n : at + i - 1 \in Offsets
  BY <1>1, SizesAssumption DEF Offsets
<1>3. \A i \in 1 .. n : p.bytes[at + i - 1] \in Bytes
  BY <1>1, <1>2
<1>4. Payload(p, s) = [i \in 1 .. n |-> p.bytes[at + i - 1]]
  BY DEF Payload
<1>5. n \in Nat /\ n > 0
  BY <1>1
<1> HIDE DEF n, at
<1>6. Payload(p, s) \in Seq(Bytes) /\ Len(Payload(p, s)) = n
  BY <1>3, <1>4, <1>5
<1>7. Payload(p, s) # <<>>
  BY <1>5, <1>6
<1> QED
  BY <1>4, <1>6, <1>7 DEF n, at

\* The payloads of a page, by slot; deleted slots have none.
LEMMA PagePayloads ==
  ASSUME NEW p, PageOK(p)
  PROVE  /\ Payloads(p) \in Seq(Seq(Bytes)) /\ Len(Payloads(p)) = SlotCount(p)
         /\ DOMAIN Payloads(p) = 1 .. SlotCount(p)
         /\ \A s \in 1 .. SlotCount(p) :
              /\ Payloads(p)[s] = IF s \in Live(p) THEN Payload(p, s) ELSE <<>>
              /\ s \in Live(p) <=> Payloads(p)[s] # <<>>
<1>1. SlotCount(p) \in Nat /\ DOMAIN p.slots = 1 .. SlotCount(p)
  BY ValidPage
<1>2. Payloads(p) = [s \in 1 .. SlotCount(p) |-> IF s \in Live(p) THEN Payload(p, s) ELSE <<>>]
  BY <1>1 DEF Payloads
<1>3. \A s \in Live(p) : Payload(p, s) \in Seq(Bytes) /\ Payload(p, s) # <<>>
  BY LivePayload
<1>4. \A s \in 1 .. SlotCount(p) : (IF s \in Live(p) THEN Payload(p, s) ELSE <<>>) \in Seq(Bytes)
  BY <1>3
<1>5. Payloads(p) \in Seq(Seq(Bytes)) /\ Len(Payloads(p)) = SlotCount(p)
  <2>1. Payloads(p) \in [1 .. SlotCount(p) -> Seq(Bytes)]
    BY <1>2, <1>4
  <2>2. Payloads(p) \in Seq(Seq(Bytes))
    BY <1>1, <2>1, SeqDef
  <2>3. DOMAIN Payloads(p) = 1 .. Len(Payloads(p)) /\ Len(Payloads(p)) \in Nat
    BY <2>2, LenProperties
  <2> QED
    BY <1>1, <2>1, <2>2, <2>3
<1> QED
  BY <1>2, <1>3, <1>5

\* The payloads, counted by their lengths in the directory, lie behind the gap.
LEMMA LiveTotal ==
  ASSUME NEW p, PageOK(p)
  PROVE  /\ IsFiniteSet(Live(p))
         /\ Total([t \in Live(p) |-> p.slots[t].length]) \in Nat
         /\ Total([t \in Live(p) |-> p.slots[t].length]) <= PageSize - p.freeEnd
<1> DEFINE f == [t \in Live(p) |-> p.slots[t].length]
           at == [t \in Live(p) |-> p.slots[t].offset]
<1>1. IsFiniteSet(Live(p))
  <2>1. IsFiniteSet(1 .. SlotCount(p))
    BY ValidPage, FS_Interval
  <2> QED
    BY <2>1, ValidPage, FS_Subset
<1>2. f \in [Live(p) -> Nat] /\ at \in [Live(p) -> Int]
  BY ValidPage
<1>3. \A s \in Live(p) : f[s] > 0 => p.freeEnd <= at[s] /\ at[s] + f[s] <= PageSize
  BY ValidPage
<1>4. \A s, t \in Live(p) : s # t => (at[s] .. at[s] + f[s] - 1) \cap (at[t] .. at[t] + f[t] - 1) = {}
  BY ValidPage DEF Extent
<1>5. p.freeEnd \in Int /\ PageSize \in Int /\ p.freeEnd <= PageSize
  BY ValidPage, SizesAssumption
<1> HIDE DEF f, at
<1>6. Total(f) <= PageSize - p.freeEnd
  BY <1>1, <1>2, <1>3, <1>4, <1>5, TotalInInterval
<1>7. Total(f) \in Nat
  BY <1>1, <1>2, TotalIsNat
<1> QED
  BY <1>1, <1>6, <1>7 DEF f

\* Deleted slots add nothing to the payloads.
LEMMA PayloadTotal ==
  ASSUME NEW p, PageOK(p)
  PROVE  Total([t \in 1 .. SlotCount(p) |-> Len(Payloads(p)[t])])
           = Total([t \in Live(p) |-> p.slots[t].length])
<1> DEFINE f == [t \in 1 .. SlotCount(p) |-> Len(Payloads(p)[t])]
           g == [t \in Live(p) |-> p.slots[t].length]
<1>1. SlotCount(p) \in Nat /\ IsFiniteSet(1 .. SlotCount(p)) /\ Live(p) \in SUBSET (1 .. SlotCount(p))
  BY ValidPage, FS_Interval
<1>2. \A t \in 1 .. SlotCount(p) : Payloads(p)[t] \in Seq(Bytes)
  BY PagePayloads
<1>3. f \in [1 .. SlotCount(p) -> Nat] /\ g \in [Live(p) -> Nat]
  BY <1>2, ValidPage
<1>4. \A t \in Live(p) : Payloads(p)[t] = Payload(p, t) /\ Len(Payload(p, t)) = p.slots[t].length
  BY <1>1, PagePayloads, LivePayload
<1>5. \A t \in Live(p) : g[t] = f[t]
  BY <1>1, <1>4
<1>6. \A t \in 1 .. SlotCount(p) \ Live(p) : f[t] = 0
  BY PagePayloads
<1> HIDE DEF f, g
<1>7. Total(g) = Total(f)
  BY <1>1, <1>3, <1>5, <1>6, TotalOfPart
<1> QED
  BY <1>7 DEF f, g


-----------------------------------------------------------------------------
(***************************************************************************)
(* A packed page.                                                          *)
(***************************************************************************)

\* Each payload ends where the one before it starts, the first at the page's end.
LEMMA PackedOrder ==
  ASSUME NEW payloads \in Seq(Seq(Bytes))
  PROVE  /\ PackedAt(payloads, 0) = PageSize
         /\ \A s \in 0 .. Len(payloads) : PackedAt(payloads, s) \in Int
         /\ \A s \in 1 .. Len(payloads) :
              PackedAt(payloads, s) + Len(payloads[s]) = PackedAt(payloads, s - 1)
         /\ \A s, t \in 0 .. Len(payloads) : s <= t => PackedAt(payloads, t) <= PackedAt(payloads, s)
<1> DEFINE sizes(s) == [t \in 1 .. s |-> Len(payloads[t])]
<1>1. Len(payloads) \in Nat /\ DOMAIN payloads = 1 .. Len(payloads) /\ PageSize \in Nat
  BY SizesAssumption
<1>2. \A t \in 1 .. Len(payloads) : Len(payloads[t]) \in Nat
  <2>1. \A t \in 1 .. Len(payloads) : payloads[t] \in Seq(Bytes)
    OBVIOUS
  <2> QED
    BY <2>1
<1>3. \A s \in 0 .. Len(payloads) : sizes(s) \in [1 .. s -> Nat] /\ IsFiniteSet(1 .. s) /\ s \in Nat
  BY <1>1, <1>2, FS_Interval
<1>4. \A s \in 0 .. Len(payloads) : Total(sizes(s)) \in Nat
  BY <1>3, TotalIsNat
<1>5. Total(sizes(0)) = 0
  BY TotalOfNone
<1>6. ASSUME NEW s \in 1 .. Len(payloads)
      PROVE  Total(sizes(s)) = Total(sizes(s - 1)) + Len(payloads[s])
  <2>1. s - 1 \in 0 .. Len(payloads) /\ s \in 0 .. Len(payloads)
    BY <1>1
  <2>2. s \notin 1 .. s - 1 /\ 1 .. s = (1 .. s - 1) \cup {s}
    BY <1>1
  <2>3. PICK f, g, S, x : f = sizes(s - 1) /\ g = sizes(s) /\ S = 1 .. s - 1 /\ x = s
    OBVIOUS
  <2>4. IsFiniteSet(S) /\ x \notin S /\ f \in [S -> Nat] /\ g \in [S \cup {x} -> Nat]
    BY <1>3, <2>1, <2>2, <2>3
  <2>5. \A t \in S : g[t] = f[t]
    BY <1>1, <2>3
  <2>6. g[x] = Len(payloads[s])
    BY <1>1, <2>3
  <2>7. Total(g) = Total(f) + g[x]
    <3>1. \A U, y : IsFiniteSet(U) /\ y \notin U => \A a \in [U -> Nat] : \A b \in [U \cup {y} -> Nat] :
            (\A t \in U : b[t] = a[t]) => Total(b) = Total(a) + b[y]
      BY TotalOfAdded, Zenon
    <3>2. \A a \in [S -> Nat] : \A b \in [S \cup {x} -> Nat] :
            (\A t \in S : b[t] = a[t]) => Total(b) = Total(a) + b[x]
      BY <2>4, <3>1
    <3>3. (\A t \in S : g[t] = f[t]) => Total(g) = Total(f) + g[x]
      BY <2>4, <3>2
    <3> QED
      BY <2>5, <3>3
  <2> QED
    BY <2>3, <2>6, <2>7
<1>7. ASSUME NEW s \in 0 .. Len(payloads), NEW t \in 0 .. Len(payloads), s <= t
      PROVE  Total(sizes(s)) <= Total(sizes(t))
  <2> DEFINE f == sizes(t)
             g == sizes(s)
             S == 1 .. t
             T == 1 .. s
  <2>1. IsFiniteSet(S) /\ T \in SUBSET S /\ f \in [S -> Nat] /\ g \in [T -> Nat]
    BY <1>3, <1>7
  <2>2. \A u \in T : g[u] = f[u]
    BY <2>1
  <2> HIDE DEF f, g, S, T
  <2>3. Total(g) <= Total(f)
    BY <2>1, <2>2, TotalOfPart
  <2> QED
    BY <2>3 DEF f, g
<1>8. \A s : PackedAt(payloads, s) = PageSize - Total(sizes(s))
  BY DEF PackedAt
<1> HIDE DEF sizes
<1>9. \A s \in 1 .. Len(payloads) :
        PackedAt(payloads, s) + Len(payloads[s]) = PackedAt(payloads, s - 1)
  <2> SUFFICES ASSUME NEW s \in 1 .. Len(payloads)
               PROVE  PackedAt(payloads, s) + Len(payloads[s]) = PackedAt(payloads, s - 1)
    OBVIOUS
  <2>1. s - 1 \in 0 .. Len(payloads) /\ s \in 0 .. Len(payloads)
    BY <1>1
  <2> QED
    <3>1. Total(sizes(s)) = Total(sizes(s - 1)) + Len(payloads[s])
      BY <1>6
    <3>2. Total(sizes(s)) \in Nat /\ Total(sizes(s - 1)) \in Nat /\ Len(payloads[s]) \in Nat
      BY <1>2, <1>4, <2>1
    <3>3. /\ PackedAt(payloads, s) = PageSize - Total(sizes(s))
          /\ PackedAt(payloads, s - 1) = PageSize - Total(sizes(s - 1))
      BY <1>8
    <3> QED
      BY <1>1, <3>1, <3>2, <3>3
<1>10. \A s, t \in 0 .. Len(payloads) : s <= t => PackedAt(payloads, t) <= PackedAt(payloads, s)
  <2> SUFFICES ASSUME NEW s \in 0 .. Len(payloads), NEW t \in 0 .. Len(payloads), s <= t
               PROVE  PackedAt(payloads, t) <= PackedAt(payloads, s)
    OBVIOUS
  <2>1. Total(sizes(s)) <= Total(sizes(t)) /\ Total(sizes(s)) \in Nat /\ Total(sizes(t)) \in Nat
    BY <1>4, <1>7
  <2> QED
    BY <1>1, <1>8, <2>1
<1>11. PackedAt(payloads, 0) = PageSize /\ \A s \in 0 .. Len(payloads) : PackedAt(payloads, s) \in Int
  BY <1>1, <1>4, <1>5, <1>8
<1> QED
  BY <1>9, <1>10, <1>11

\* When the payloads fit behind the directory, each lies in its own place there.
LEMMA PackedPlaces ==
  ASSUME NEW payloads \in Seq(Seq(Bytes)),
         DirectoryEnd(Len(payloads)) <= PackedAt(payloads, Len(payloads))
  PROVE  /\ PackedAt(payloads, Len(payloads)) \in 0 .. PageSize
         /\ \A s \in 1 .. Len(payloads) :
              /\ PackedAt(payloads, s) \in Nat /\ Len(payloads[s]) \in Nat
              /\ PackedAt(payloads, Len(payloads)) <= PackedAt(payloads, s)
              /\ PackedAt(payloads, s) + Len(payloads[s]) <= PageSize
         /\ \A s, t \in 1 .. Len(payloads) : \A o : Covers(payloads, s, o) /\ Covers(payloads, t, o) => s = t
<1> DEFINE n == Len(payloads)
           at(s) == PackedAt(payloads, s)
<1>1. n \in Nat /\ PageSize \in Nat /\ DirectoryEnd(n) \in Nat
  BY DirectoryGrows
<1>2. at(0) = PageSize /\ \A s \in 0 .. n : at(s) \in Int
  BY PackedOrder
<1>3. \A s \in 1 .. n : at(s) + Len(payloads[s]) = at(s - 1) /\ Len(payloads[s]) \in Nat
  <2>1. \A s \in 1 .. n : payloads[s] \in Seq(Bytes)
    OBVIOUS
  <2> QED
    BY <2>1, PackedOrder
<1>4. \A s, t \in 0 .. n : s <= t => at(t) <= at(s)
  BY PackedOrder
<1>5. DirectoryEnd(n) <= at(n)
  OBVIOUS
<1> HIDE DEF n, at
<1>6. \A s \in 1 .. n : at(s) \in Nat /\ at(n) <= at(s) /\ at(s) + Len(payloads[s]) <= PageSize
  <2> SUFFICES ASSUME NEW s \in 1 .. n
               PROVE  at(s) \in Nat /\ at(n) <= at(s) /\ at(s) + Len(payloads[s]) <= PageSize
    OBVIOUS
  <2>1. s \in 0 .. n /\ s - 1 \in 0 .. n /\ n \in 0 .. n /\ 0 \in 0 .. n /\ s <= n /\ 0 <= s - 1
    BY <1>1
  <2>2. at(n) <= at(s) /\ at(s - 1) <= at(0) /\ at(n) \in Int /\ at(s) \in Int /\ at(s - 1) \in Int
    BY <1>2, <1>4, <2>1
  <2> QED
    BY <1>1, <1>2, <1>3, <1>5, <2>2
<1>7. at(n) \in 0 .. PageSize
  <2>1. n \in 0 .. n /\ 0 \in 0 .. n /\ 0 <= n
    BY <1>1
  <2>2. at(n) \in Int /\ at(n) <= PageSize
    BY <1>2, <1>4, <2>1
  <2> QED
    BY <1>1, <1>5, <2>2
<1>8. ASSUME NEW s \in 1 .. n, NEW t \in 1 .. n, s < t, NEW o,
             o \in at(s) .. at(s) + Len(payloads[s]) - 1, o \in at(t) .. at(t) + Len(payloads[t]) - 1
      PROVE  FALSE
  <2>1. t - 1 \in 0 .. n /\ s \in 0 .. n /\ s <= t - 1
    BY <1>1, <1>8
  <2>2. at(t - 1) <= at(s) /\ at(t) + Len(payloads[t]) = at(t - 1)
    BY <1>3, <1>4, <2>1
  <2>3. at(s) \in Int /\ at(t) \in Int /\ at(t - 1) \in Int /\ Len(payloads[t]) \in Nat
    BY <1>2, <1>3, <1>6, <2>1
  <2> QED
    BY <1>8, <2>2, <2>3
<1>9. \A s, t \in 1 .. n : \A o : Covers(payloads, s, o) /\ Covers(payloads, t, o) => s = t
  <2> SUFFICES ASSUME NEW s \in 1 .. n, NEW t \in 1 .. n, NEW o,
                      Covers(payloads, s, o), Covers(payloads, t, o), s # t
               PROVE  FALSE
    OBVIOUS
  <2>1. o \in at(s) .. at(s) + Len(payloads[s]) - 1 /\ o \in at(t) .. at(t) + Len(payloads[t]) - 1
    BY DEF Covers, at
  <2>2. s < t \/ t < s
    BY <1>1
  <2> QED
    BY <1>8, <2>1, <2>2
<1> QED
  BY <1>3, <1>6, <1>7, <1>9 DEF n, at

\* The bytes of a packed page: each payload's at its place.
LEMMA PackedBytes ==
  ASSUME NEW payloads \in Seq(Seq(Bytes)),
         DirectoryEnd(Len(payloads)) <= PackedAt(payloads, Len(payloads))
  PROVE  /\ \A o \in Offsets : PackedByte(payloads, o) \in Bytes
         /\ \A s \in 1 .. Len(payloads) : \A i \in 1 .. Len(payloads[s]) :
              PackedByte(payloads, PackedAt(payloads, s) + i - 1) = payloads[s][i]
<1>1. DOMAIN payloads = 1 .. Len(payloads) /\ Len(payloads) \in Nat
  OBVIOUS
<1>2. \A s \in 1 .. Len(payloads) : payloads[s] \in Seq(Bytes)
  OBVIOUS
<1>3. ASSUME NEW s \in 1 .. Len(payloads), NEW o, Covers(payloads, s, o)
      PROVE  /\ PackedByte(payloads, o) = payloads[s][o - PackedAt(payloads, s) + 1]
             /\ PackedByte(payloads, o) \in Bytes
  <2>1. (CHOOSE t \in DOMAIN payloads : Covers(payloads, t, o)) = s
    <3>1. \A t \in DOMAIN payloads : Covers(payloads, t, o) => t = s
      BY <1>1, <1>3, PackedPlaces
    <3> QED
      BY <1>1, <1>3, <3>1
  <2>2. PackedByte(payloads, o) = payloads[s][o - PackedAt(payloads, s) + 1]
    BY <1>1, <1>3, <2>1 DEF PackedByte
  <2>3. o - PackedAt(payloads, s) + 1 \in 1 .. Len(payloads[s])
    <3>1. PackedAt(payloads, s) \in Nat /\ Len(payloads[s]) \in Nat
      BY PackedPlaces
    <3>2. o \in PackedAt(payloads, s) .. PackedAt(payloads, s) + Len(payloads[s]) - 1
      BY <1>3 DEF Covers
    <3> QED
      BY <3>1, <3>2
  <2>4. payloads[s][o - PackedAt(payloads, s) + 1] \in Bytes
    BY <1>2, <2>3, ElementOfSeq
  <2> QED
    BY <2>2, <2>4
<1>4. \A o \in Offsets : PackedByte(payloads, o) \in Bytes
  <2> SUFFICES ASSUME NEW o \in Offsets PROVE PackedByte(payloads, o) \in Bytes
    OBVIOUS
  <2>1. CASE \E s \in DOMAIN payloads : Covers(payloads, s, o)
    <3>1. PICK s \in 1 .. Len(payloads) : Covers(payloads, s, o)
      BY <1>1, <2>1
    <3> QED
      BY <1>3, <3>1
  <2>2. CASE ~ \E s \in DOMAIN payloads : Covers(payloads, s, o)
    BY <2>2 DEF PackedByte, Bytes
  <2> QED
    BY <2>1, <2>2
<1>5. ASSUME NEW s \in 1 .. Len(payloads), NEW i \in 1 .. Len(payloads[s])
      PROVE  PackedByte(payloads, PackedAt(payloads, s) + i - 1) = payloads[s][i]
  <2>1. PackedAt(payloads, s) \in Nat /\ Len(payloads[s]) \in Nat
    BY PackedPlaces
  <2> DEFINE o == PackedAt(payloads, s) + i - 1
  <2>2. Covers(payloads, s, o)
    BY <2>1 DEF Covers
  <2>3. o - PackedAt(payloads, s) + 1 = i
    BY <2>1
  <2> HIDE DEF o
  <2>4. PackedByte(payloads, o) = payloads[s][o - PackedAt(payloads, s) + 1]
    BY <1>3, <2>2
  <2>5. PackedByte(payloads, o) = payloads[s][i]
    BY <2>3, <2>4
  <2> QED
    BY <2>5 DEF o
<1> QED
  BY <1>4, <1>5

\* A sequence is empty when it has no element.
LEMMA EmptyMeans ==
  ASSUME NEW S, NEW q \in Seq(S)
  PROVE  (q = <<>> <=> Len(q) = 0) /\ Len(q) \in Nat
<1>1. q # <<>> => Len(q) \in Nat \ {0}
  BY EmptySeq
<1>2. q = <<>> => Len(q) = 0
  BY EmptySeq
<1>3. Len(q) \in Nat
  BY LenProperties
<1> QED
  BY <1>1, <1>2, <1>3

\* When the payloads fit behind the directory, the packed page validates, and
\* its slots hold those payloads.
LEMMA PackedPage ==
  ASSUME NEW payloads \in Seq(Seq(Bytes)),
         DirectoryEnd(Len(payloads)) <= PackedAt(payloads, Len(payloads))
  PROVE  /\ PageOK(Packed(payloads)) /\ Payloads(Packed(payloads)) = payloads
         /\ SlotCount(Packed(payloads)) = Len(payloads)
         /\ Packed(payloads).freeEnd = PackedAt(payloads, Len(payloads))
<1> DEFINE n == Len(payloads)
           q == Packed(payloads)
           entries == [s \in DOMAIN payloads |-> PackedEntry(payloads, s)]
<1>1. n \in Nat /\ DOMAIN payloads = 1 .. n
  OBVIOUS
<1>2. \A s \in 1 .. n : payloads[s] \in Seq(Bytes) /\ (payloads[s] = <<>> <=> Len(payloads[s]) = 0)
  BY EmptyMeans
<1>3. /\ q.slots = entries /\ q.freeStart = DirectoryEnd(n) /\ q.freeEnd = PackedAt(payloads, n)
      /\ q.bytes = [o \in Offsets |-> PackedByte(payloads, o)]
      /\ q = [slots |-> q.slots, freeStart |-> q.freeStart, freeEnd |-> q.freeEnd, bytes |-> q.bytes]
  BY DEF Packed
<1>4. \A s \in 1 .. n :
        /\ PackedAt(payloads, s) \in Nat /\ Len(payloads[s]) \in Nat
        /\ PackedAt(payloads, n) <= PackedAt(payloads, s)
        /\ PackedAt(payloads, s) + Len(payloads[s]) <= PageSize
  BY PackedPlaces
<1>5. PageSize \in Nat /\ PackedAt(payloads, n) \in 0 .. PageSize /\ DirectoryEnd(n) \in Nat
  BY <1>1, PackedPlaces, DirectoryGrows
<1>6. \A s \in 1 .. n : PackedEntry(payloads, s) \in Entries
  <2> SUFFICES ASSUME NEW s \in 1 .. n PROVE PackedEntry(payloads, s) \in Entries
    OBVIOUS
  <2>1. DeadSlot \in Entries
    BY <1>5 DEF DeadSlot, Entries
  <2>2. PackedAt(payloads, s) \in 0 .. PageSize /\ Len(payloads[s]) \in 0 .. PageSize
    BY <1>4, <1>5
  <2>3. [offset |-> PackedAt(payloads, s), length |-> Len(payloads[s]), live |-> TRUE] \in Entries
    BY <2>2 DEF Entries
  <2> QED
    BY <2>1, <2>3 DEF PackedEntry
<1>7. q.slots \in Seq(Entries) /\ Len(q.slots) = n
  <2>1. q.slots \in [1 .. n -> Entries]
    BY <1>1, <1>3, <1>6
  <2> HIDE DEF q, n, entries
  <2>2. q.slots \in Seq(Entries)
    BY <1>1, <2>1, SeqDef
  <2> QED
    BY <1>1, <2>1, <2>2, LenProperties
<1>8. q.bytes \in [Offsets -> Bytes]
  BY <1>3, PackedBytes
<1>9. q \in [slots : Seq(Entries), freeStart : Nat, freeEnd : 0 .. PageSize, bytes : [Offsets -> Bytes]]
  <2>1. q.freeStart \in Nat /\ q.freeEnd \in 0 .. PageSize
    BY <1>3, <1>5
  <2> QED
    BY <1>3, <1>7, <1>8, <2>1
<1>10. \A s \in 1 .. n :
         /\ payloads[s] # <<>> =>
              /\ q.slots[s].offset = PackedAt(payloads, s) /\ q.slots[s].length = Len(payloads[s])
              /\ q.slots[s].live
         /\ payloads[s] = <<>> => q.slots[s] = DeadSlot
  <2>1. \A s \in 1 .. n : q.slots[s] = PackedEntry(payloads, s)
    BY <1>1, <1>3
  <2>2. \A s : payloads[s] # <<>> =>
          /\ PackedEntry(payloads, s).offset = PackedAt(payloads, s)
          /\ PackedEntry(payloads, s).length = Len(payloads[s])
          /\ PackedEntry(payloads, s).live
    BY DEF PackedEntry
  <2>3. \A s : payloads[s] = <<>> => PackedEntry(payloads, s) = DeadSlot
    BY DEF PackedEntry
  <2> QED
    BY <2>1, <2>2, <2>3
<1>11. DOMAIN q.slots = 1 .. n
  BY <1>1, <1>3
<1> HIDE DEF n, q, entries
<1>12. \A s \in 1 .. n : s \in Live(q) <=> payloads[s] # <<>>
  BY <1>10, <1>11 DEF Live, DeadSlot
<1>13. Live(q) \subseteq 1 .. n
  BY <1>11 DEF Live
<1>14. \A s \in 1 .. n : SlotValid(q, s)
  <2> SUFFICES ASSUME NEW s \in 1 .. n PROVE SlotValid(q, s)
    OBVIOUS
  <2>1. CASE payloads[s] = <<>>
    <3>1. q.slots[s] = DeadSlot /\ ~DeadSlot.live
      BY <1>10, <2>1 DEF DeadSlot
    <3> QED
      BY <3>1 DEF SlotValid
  <2>2. CASE payloads[s] # <<>>
    <3>1. /\ q.slots[s].offset = PackedAt(payloads, s) /\ q.slots[s].length = Len(payloads[s])
          /\ q.slots[s].live
      BY <1>10, <2>2
    <3>2. Len(payloads[s]) # 0
      BY <1>2, <2>2
    <3>3. /\ PackedAt(payloads, s) >= q.freeEnd
          /\ PackedAt(payloads, s) + Len(payloads[s]) <= PageSize
      BY <1>3, <1>4, <1>5
    <3> QED
      BY <3>1, <3>2, <3>3 DEF SlotValid
  <2> QED
    BY <2>1, <2>2
<1>15. \A s, t \in Live(q) : s # t => Extent(q.slots[s]) \cap Extent(q.slots[t]) = {}
  <2> SUFFICES ASSUME NEW s \in Live(q), NEW t \in Live(q), NEW o,
                      o \in Extent(q.slots[s]), o \in Extent(q.slots[t])
               PROVE  s = t
    OBVIOUS
  <2>1. s \in 1 .. n /\ t \in 1 .. n /\ payloads[s] # <<>> /\ payloads[t] # <<>>
    BY <1>12, <1>13
  <2>2. /\ q.slots[s].offset = PackedAt(payloads, s) /\ q.slots[s].length = Len(payloads[s])
        /\ q.slots[t].offset = PackedAt(payloads, t) /\ q.slots[t].length = Len(payloads[t])
    BY <1>10, <2>1
  <2>3. Covers(payloads, s, o) /\ Covers(payloads, t, o)
    BY <2>2 DEF Extent, Covers
  <2> QED
    BY <2>1, <2>3, PackedPlaces DEF n
<1>16. SlotCount(q) = n
  BY <1>7 DEF SlotCount
<1>17. PageOK(q)
  <2>1. q.freeStart = DirectoryEnd(SlotCount(q)) /\ q.freeStart <= q.freeEnd /\ q.freeEnd <= PageSize
    BY <1>3, <1>5, <1>16 DEF n
  <2> QED
    BY <1>9, <1>11, <1>14, <1>15, <2>1 DEF PageOK, Validate
<1>18. ASSUME NEW s \in 1 .. n PROVE Payloads(q)[s] = payloads[s]
  <2>1. CASE payloads[s] = <<>>
    BY <1>12, <1>16, <1>17, <2>1, PagePayloads
  <2>2. CASE payloads[s] # <<>>
    <3>1. s \in Live(q) /\ Payloads(q)[s] = Payload(q, s)
      BY <1>12, <1>16, <1>17, <2>2, PagePayloads
    <3>2. q.slots[s].offset = PackedAt(payloads, s) /\ q.slots[s].length = Len(payloads[s])
      BY <1>10, <2>2
    <3>3. /\ Payload(q, s) \in Seq(Bytes) /\ Len(Payload(q, s)) = Len(payloads[s])
          /\ \A i \in 1 .. Len(payloads[s]) : Payload(q, s)[i] = q.bytes[PackedAt(payloads, s) + i - 1]
      BY <1>17, <3>1, <3>2, LivePayload
    <3>4. \A i \in 1 .. Len(payloads[s]) : PackedAt(payloads, s) + i - 1 \in Offsets
      BY <1>4, <1>5 DEF Offsets
    <3>5. \A i \in 1 .. Len(payloads[s]) : q.bytes[PackedAt(payloads, s) + i - 1] = payloads[s][i]
      BY <1>3, <3>4, PackedBytes DEF n
    <3>6. payloads[s] \in Seq(Bytes)
      BY <1>2
    <3>7. Payload(q, s) = payloads[s]
      BY <3>3, <3>5, <3>6, SeqEqual
    <3> QED
      BY <3>1, <3>7
  <2> QED
    BY <2>1, <2>2
<1>19. Payloads(q) = payloads
  <2>1. Payloads(q) \in Seq(Seq(Bytes)) /\ Len(Payloads(q)) = n
    BY <1>16, <1>17, PagePayloads
  <2> QED
    BY <1>18, <2>1, SeqEqual DEF n
<1> QED
  BY <1>3, <1>16, <1>17, <1>19 DEF n, q

-----------------------------------------------------------------------------
(***************************************************************************)
(* Compaction.                                                             *)
(***************************************************************************)

\* Pages with the same payloads have the same live and deleted slots.
LEMMA SameSlots ==
  ASSUME NEW p, NEW q, PageOK(p), PageOK(q), Payloads(p) = Payloads(q)
  PROVE  SlotCount(p) = SlotCount(q) /\ Live(p) = Live(q) /\ Dead(p) = Dead(q)
<1>1. SlotCount(p) = SlotCount(q)
  BY PagePayloads
<1>2. Live(p) \subseteq 1 .. SlotCount(p) /\ Live(q) \subseteq 1 .. SlotCount(q)
  BY ValidPage
<1>3. \A s \in 1 .. SlotCount(p) : s \in Live(p) <=> s \in Live(q)
  <2>1. \A s \in 1 .. SlotCount(p) : s \in Live(p) <=> Payloads(p)[s] # <<>>
    BY PagePayloads
  <2>2. \A s \in 1 .. SlotCount(q) : s \in Live(q) <=> Payloads(q)[s] # <<>>
    BY PagePayloads
  <2> QED
    BY <1>1, <2>1, <2>2
<1>4. Live(p) = Live(q)
  BY <1>1, <1>2, <1>3
<1>5. DOMAIN p.slots = 1 .. SlotCount(p) /\ DOMAIN q.slots = 1 .. SlotCount(q)
  BY ValidPage
<1> QED
  BY <1>1, <1>4, <1>5 DEF Dead

\* Compaction leaves every payload in its slot and all free space in the gap.
LEMMA CompactPage ==
  ASSUME NEW p, PageOK(p)
  PROVE  /\ PageOK(Compact(p)) /\ Payloads(Compact(p)) = Payloads(p)
         /\ SlotCount(Compact(p)) = SlotCount(p)
         /\ Live(Compact(p)) = Live(p) /\ Dead(Compact(p)) = Dead(p)
         /\ Compact(p).freeEnd = PageSize - Total([t \in Live(p) |-> p.slots[t].length])
<1> DEFINE payloads == Payloads(p)
           n == SlotCount(p)
           total == Total([t \in Live(p) |-> p.slots[t].length])
<1>1. payloads \in Seq(Seq(Bytes)) /\ Len(payloads) = n
  BY PagePayloads
<1>2. PackedAt(payloads, n) = PageSize - total
  BY PayloadTotal DEF PackedAt
<1>3. total \in Nat /\ total <= PageSize - p.freeEnd
  BY LiveTotal
<1>4. DirectoryEnd(n) <= p.freeEnd /\ DirectoryEnd(n) \in Nat /\ p.freeEnd \in Nat /\ PageSize \in Nat
  BY ValidPage, SizesAssumption
<1> HIDE DEF payloads, n, total
<1>5. DirectoryEnd(n) <= PackedAt(payloads, n)
  BY <1>2, <1>3, <1>4
<1>6. /\ PageOK(Packed(payloads)) /\ Payloads(Packed(payloads)) = payloads
      /\ Packed(payloads).freeEnd = PackedAt(payloads, n)
  BY <1>1, <1>5, PackedPage
<1>7. Compact(p) = Packed(payloads)
  BY DEF Compact, payloads
<1>8. /\ PageOK(Compact(p)) /\ Payloads(Compact(p)) = Payloads(p)
      /\ Compact(p).freeEnd = PageSize - total
  BY <1>2, <1>6, <1>7 DEF payloads
<1>9. /\ SlotCount(Compact(p)) = SlotCount(p)
      /\ Live(Compact(p)) = Live(p) /\ Dead(Compact(p)) = Dead(p)
  BY <1>8, SameSlots
<1> QED
  BY <1>8, <1>9 DEF total

-----------------------------------------------------------------------------
(***************************************************************************)
(* Writing into a page.                                                    *)
(***************************************************************************)

\* A slot keeps its payload while its entry and the bytes it refers to stay.
LEMMA SamePayload ==
  ASSUME NEW p, PageOK(p), NEW q, NEW s \in Live(p), q.slots[s] = p.slots[s],
         \A o \in Extent(p.slots[s]) : q.bytes[o] = p.bytes[o]
  PROVE  Payload(q, s) = Payload(p, s)
<1>1. p.slots[s].offset \in Nat /\ p.slots[s].length \in Nat
  BY ValidPage
<1>2. \A i \in 1 .. p.slots[s].length : p.slots[s].offset + i - 1 \in Extent(p.slots[s])
  BY <1>1 DEF Extent
<1>3. \A i \in 1 .. p.slots[s].length :
        q.bytes[p.slots[s].offset + i - 1] = p.bytes[p.slots[s].offset + i - 1]
  BY <1>2
<1> QED
  BY <1>3 DEF Payload

\* The extent of a live slot lies behind the gap, inside the page.
LEMMA ExtentBehindGap ==
  ASSUME NEW p, PageOK(p), NEW s \in Live(p), NEW o \in Extent(p.slots[s])
  PROVE  o \in Nat /\ p.freeEnd <= o /\ o < PageSize /\ o \in Offsets
<1>1. /\ p.slots[s].offset \in Nat /\ p.slots[s].length \in Nat \ {0}
      /\ p.freeEnd <= p.slots[s].offset /\ p.slots[s].offset + p.slots[s].length <= PageSize
      /\ p.freeEnd \in Nat
  BY ValidPage
<1>2. o \in p.slots[s].offset .. p.slots[s].offset + p.slots[s].length - 1
  BY DEF Extent
<1> QED
  BY <1>1, <1>2, SizesAssumption DEF Offsets

\* The page with record r at the end of the gap, in slot k.
NewEntry(p, r) == [offset |-> p.freeEnd - Len(r), length |-> Len(r), live |-> TRUE]
Stored(p, r, k) ==
  [slots |-> IF k \in DOMAIN p.slots THEN [p.slots EXCEPT ![k] = NewEntry(p, r)]
             ELSE Append(p.slots, NewEntry(p, r)),
   freeStart |-> IF k \in DOMAIN p.slots THEN p.freeStart ELSE DirectoryEnd(SlotCount(p) + 1),
   freeEnd |-> p.freeEnd - Len(r),
   bytes |-> [o \in Offsets |-> IF InSlot(k, o) THEN Dir
                                ELSE CopyTo(p.bytes, r, p.freeEnd - Len(r))[o]]]

\* Storing a record in a deleted or a new slot, when the gap has room for it,
\* puts it there and touches no other payload.
LEMMA StoredPage ==
  ASSUME NEW p, PageOK(p), NEW r \in Seq(Bytes), r # <<>>,
         NEW k \in 1 .. SlotCount(p) + 1, k \notin Live(p),
         Stored(p, r, k).freeStart <= p.freeEnd - Len(r)
  PROVE  /\ PageOK(Stored(p, r, k))
         /\ Payloads(Stored(p, r, k)) =
              IF k \in 1 .. SlotCount(p) THEN [Payloads(p) EXCEPT ![k] = r] ELSE Append(Payloads(p), r)
<1> DEFINE q == Stored(p, r, k)
           n == SlotCount(p)
           m == IF k \in 1 .. n THEN n ELSE n + 1
           at == p.freeEnd - Len(r)
           L == Len(r)
           entry == NewEntry(p, r)
<1>1. /\ n \in Nat /\ DOMAIN p.slots = 1 .. n /\ p.slots \in Seq(Entries) /\ Len(p.slots) = n
      /\ p.bytes \in [Offsets -> Bytes] /\ p.freeEnd \in Nat /\ p.freeEnd <= PageSize
      /\ p.freeStart = DirectoryEnd(n) /\ p.freeStart \in Nat
  BY ValidPage DEF SlotCount
<1>2. L \in Nat /\ L > 0 /\ DOMAIN r = 1 .. L /\ PageSize \in Nat
  BY EmptyMeans, SizesAssumption
<1>3. /\ q.freeStart = DirectoryEnd(m) /\ q.freeEnd = at
      /\ q.bytes = [o \in Offsets |-> IF InSlot(k, o) THEN Dir ELSE CopyTo(p.bytes, r, at)[o]]
      /\ q = [slots |-> q.slots, freeStart |-> q.freeStart, freeEnd |-> q.freeEnd, bytes |-> q.bytes]
      /\ q.slots = IF k \in 1 .. n THEN [p.slots EXCEPT ![k] = entry] ELSE Append(p.slots, entry)
  BY <1>1 DEF Stored
<1>4. m \in Nat /\ n <= m /\ k \in 1 .. m /\ DirectoryEnd(m) \in Nat /\ DirectoryEnd(m) <= at
  <2>1. m \in Nat /\ n <= m /\ k \in 1 .. m
    BY <1>1
  <2> QED
    BY <1>3, <2>1, DirectoryGrows
<1>5. at \in 0 .. PageSize /\ at + L = p.freeEnd
  BY <1>1, <1>2, <1>4
<1>6. entry.offset = at /\ entry.length = L /\ entry.live /\ entry \in Entries
  <2>1. at \in 0 .. PageSize /\ L \in 0 .. PageSize
    BY <1>1, <1>2, <1>5
  <2> QED
    BY <2>1 DEF NewEntry, Entries
<1> HIDE DEF q, n, m, at, L, entry
<1>7. /\ q.slots \in Seq(Entries) /\ Len(q.slots) = m /\ DOMAIN q.slots = 1 .. m
      /\ q.slots[k] = entry /\ \A s \in 1 .. m : s # k => s \in 1 .. n /\ q.slots[s] = p.slots[s]
  <2>1. CASE k \in 1 .. n
    <3>1. q.slots = [p.slots EXCEPT ![k] = entry] /\ m = n
      BY <1>3, <2>1 DEF m
    <3> QED
      BY <1>1, <1>6, <2>1, <3>1
  <2>2. CASE k \notin 1 .. n
    <3>1. q.slots = Append(p.slots, entry) /\ m = n + 1 /\ k = n + 1
      BY <1>1, <1>3, <2>2 DEF m, n
    <3> QED
      BY <1>1, <1>6, <3>1
  <2> QED
    BY <2>1, <2>2
<1>8. SlotCount(q) = m
  BY <1>7 DEF SlotCount
<1>9. Live(q) \subseteq 1 .. m /\ k \in Live(q) /\ \A s \in 1 .. m : s # k => (s \in Live(q) <=> s \in Live(p))
  BY <1>1, <1>4, <1>6, <1>7 DEF Live
<1>10. \A o : InSlot(k, o) => o \in Nat /\ o < at
  <2>1. \A o : InSlot(k, o) => o \in Nat /\ o < DirectoryEnd(m)
    BY <1>4, SlotInDirectory
  <2> QED
    BY <1>4, <1>5, <2>1
<1>11. \A o \in Offsets : o >= at + L => q.bytes[o] = p.bytes[o]
  <2> SUFFICES ASSUME NEW o \in Offsets, o >= at + L PROVE q.bytes[o] = p.bytes[o]
    OBVIOUS
  <2>1. ~InSlot(k, o) /\ o \notin at .. at + L - 1
    <3>1. o \in Int /\ at \in Int
      BY <1>5 DEF Offsets
    <3> QED
      BY <1>2, <1>10, <3>1
  <2>2. q.bytes[o] = CopyTo(p.bytes, r, at)[o]
    BY <1>3, <2>1
  <2>3. CopyTo(p.bytes, r, at)[o] = p.bytes[o]
    BY <2>1 DEF CopyTo, L
  <2> QED
    BY <2>2, <2>3
<1>12. \A i \in 1 .. L : q.bytes[at + i - 1] = r[i]
  <2> SUFFICES ASSUME NEW i \in 1 .. L PROVE q.bytes[at + i - 1] = r[i]
    OBVIOUS
  <2> DEFINE o == at + i - 1
  <2>1. o \in Offsets /\ o \in at .. at + L - 1 /\ o - at + 1 = i /\ o >= at
    BY <1>1, <1>2, <1>5 DEF Offsets
  <2> HIDE DEF o
  <2>2. ~InSlot(k, o)
    BY <1>5, <1>10, <2>1
  <2>3. q.bytes[o] = CopyTo(p.bytes, r, at)[o]
    BY <1>3, <2>1, <2>2
  <2>4. CopyTo(p.bytes, r, at)[o] = r[i]
    BY <2>1 DEF CopyTo, L
  <2> QED
    BY <2>3, <2>4 DEF o
<1>13. q.bytes \in [Offsets -> Bytes]
  <2>1. Dir \in Bytes
    BY DEF Bytes
  <2>2. \A o \in Offsets : CopyTo(p.bytes, r, at)[o] \in Bytes
    <3> SUFFICES ASSUME NEW o \in Offsets PROVE CopyTo(p.bytes, r, at)[o] \in Bytes
      OBVIOUS
    <3>1. CASE o \in at .. at + L - 1
      <4>1. o - at + 1 \in 1 .. L
        BY <1>2, <1>5, <3>1
      <4>2. r[o - at + 1] \in Bytes
        BY <4>1, ElementOfSeq DEF L
      <4> QED
        BY <3>1, <4>2 DEF CopyTo, L
    <3>2. CASE o \notin at .. at + L - 1
      BY <1>1, <3>2 DEF CopyTo, L
    <3> QED
      BY <3>1, <3>2
  <2> QED
    BY <1>3, <2>1, <2>2
<1>14. ASSUME NEW s \in Live(p)
       PROVE  s \in 1 .. m /\ s # k /\ q.slots[s] = p.slots[s] /\ Payload(q, s) = Payload(p, s)
  <2>1. s \in 1 .. m /\ s # k
    BY <1>1, <1>4, ValidPage DEF n
  <2>2. q.slots[s] = p.slots[s]
    BY <1>7, <2>1
  <2>3. \A o \in Extent(p.slots[s]) : q.bytes[o] = p.bytes[o]
    BY <1>5, <1>11, ExtentBehindGap
  <2> QED
    BY <2>1, <2>2, <2>3, SamePayload
<1>15. PageOK(q)
  <2>1. q \in [slots : Seq(Entries), freeStart : Nat, freeEnd : 0 .. PageSize, bytes : [Offsets -> Bytes]]
    <3>1. q.freeStart \in Nat /\ q.freeEnd \in 0 .. PageSize
      BY <1>3, <1>4, <1>5
    <3> QED
      BY <1>3, <1>7, <1>13, <3>1
  <2>2. q.freeStart = DirectoryEnd(SlotCount(q)) /\ q.freeStart <= q.freeEnd /\ q.freeEnd <= PageSize
    BY <1>3, <1>4, <1>5, <1>8
  <2>3. SlotValid(q, k)
    <3>1. q.slots[k].offset = at /\ q.slots[k].length = L /\ q.slots[k].live
      BY <1>6, <1>7
    <3>2. L # 0 /\ at >= q.freeEnd /\ at + L <= PageSize
      BY <1>1, <1>2, <1>3, <1>5
    <3> QED
      BY <3>1, <3>2 DEF SlotValid
  <2>4. \A s \in 1 .. m : s # k => SlotValid(q, s)
    <3> SUFFICES ASSUME NEW s \in 1 .. m, s # k PROVE SlotValid(q, s)
      OBVIOUS
    <3>1. q.slots[s] = p.slots[s] /\ s \in 1 .. n
      BY <1>7
    <3>2. CASE s \in Live(p)
      <4>1. /\ p.slots[s].offset \in Nat /\ p.slots[s].length \in Nat \ {0} /\ p.slots[s].live
            /\ p.freeEnd <= p.slots[s].offset /\ p.slots[s].offset + p.slots[s].length <= PageSize
        BY <3>2, ValidPage
      <4>2. p.slots[s].offset >= q.freeEnd
        BY <1>1, <1>2, <1>3, <1>5, <4>1
      <4> QED
        BY <3>1, <4>1, <4>2 DEF SlotValid
    <3>3. CASE s \notin Live(p)
      <4>1. p.slots[s] = DeadSlot /\ ~p.slots[s].live
        BY <3>1, <3>3, ValidPage DEF DeadSlot, n
      <4> QED
        BY <3>1, <4>1 DEF SlotValid
    <3> QED
      BY <3>2, <3>3
  <2>5. \A s \in Live(p) : Extent(q.slots[k]) \cap Extent(q.slots[s]) = {}
    <3> SUFFICES ASSUME NEW s \in Live(p), NEW o, o \in Extent(q.slots[k]), o \in Extent(q.slots[s])
                 PROVE  FALSE
      OBVIOUS
    <3>1. o \in at .. at + L - 1
      BY <1>6, <1>7 DEF Extent
    <3>2. o \in Nat /\ p.freeEnd <= o
      BY <1>14, ExtentBehindGap
    <3> QED
      BY <1>1, <1>2, <1>5, <3>1, <3>2
  <2>6. \A s, t \in Live(q) : s # t => Extent(q.slots[s]) \cap Extent(q.slots[t]) = {}
    <3> SUFFICES ASSUME NEW s \in Live(q), NEW t \in Live(q), s # t
                 PROVE  Extent(q.slots[s]) \cap Extent(q.slots[t]) = {}
      OBVIOUS
    <3>1. s \in 1 .. m /\ t \in 1 .. m
      BY <1>9
    <3>2. CASE s = k
      BY <1>9, <2>5, <3>1, <3>2
    <3>3. CASE t = k
      BY <1>9, <2>5, <3>1, <3>3
    <3>4. CASE s # k /\ t # k
      <4>1. s \in Live(p) /\ t \in Live(p) /\ q.slots[s] = p.slots[s] /\ q.slots[t] = p.slots[t]
        BY <1>7, <1>9, <3>1, <3>4
      <4> QED
        BY <4>1, ValidPage
    <3> QED
      BY <3>2, <3>3, <3>4
  <2> QED
    BY <1>7, <2>1, <2>2, <2>3, <2>4, <2>6 DEF PageOK, Validate
<1>16. Payload(q, k) = r
  <2>1. /\ Payload(q, k) \in Seq(Bytes) /\ Len(Payload(q, k)) = L
        /\ \A i \in 1 .. L : Payload(q, k)[i] = q.bytes[at + i - 1]
    BY <1>6, <1>7, <1>9, <1>15, LivePayload
  <2> QED
    BY <1>12, <2>1, SeqEqual DEF L
<1>17. /\ Payloads(q) \in Seq(Seq(Bytes)) /\ Len(Payloads(q)) = m /\ Payloads(q)[k] = r
       /\ \A s \in 1 .. m : s # k => Payloads(q)[s] = Payloads(p)[s]
  <2>1. Payloads(q) \in Seq(Seq(Bytes)) /\ Len(Payloads(q)) = m
    BY <1>8, <1>15, PagePayloads
  <2>2. \A s \in 1 .. m : Payloads(q)[s] = IF s \in Live(q) THEN Payload(q, s) ELSE <<>>
    BY <1>8, <1>15, PagePayloads
  <2>3. \A s \in 1 .. n : Payloads(p)[s] = IF s \in Live(p) THEN Payload(p, s) ELSE <<>>
    BY PagePayloads DEF n
  <2> QED
    BY <1>4, <1>7, <1>9, <1>14, <1>16, <2>1, <2>2, <2>3
<1>18. Payloads(p) \in Seq(Seq(Bytes)) /\ Len(Payloads(p)) = n
  BY PagePayloads DEF n
<1>19. Payloads(q) = IF k \in 1 .. n THEN [Payloads(p) EXCEPT ![k] = r] ELSE Append(Payloads(p), r)
  <2> DEFINE old == Payloads(p)
             new == Payloads(q)
  <2> HIDE DEF old, new
  <2>1. CASE k \in 1 .. n
    <3>1. m = n
      BY <2>1 DEF m
    <3>2. [old EXCEPT ![k] = r] \in Seq(Seq(Bytes)) /\ Len([old EXCEPT ![k] = r]) = n
      BY <1>18, <2>1 DEF old
    <3>3. \A s \in 1 .. n : [old EXCEPT ![k] = r][s] = IF s = k THEN r ELSE old[s]
      BY <1>18, <2>1 DEF old
    <3>4. \A s \in 1 .. n : new[s] = [old EXCEPT ![k] = r][s]
      BY <1>17, <3>1, <3>3 DEF old, new
    <3>5. new = [old EXCEPT ![k] = r]
      BY <1>17, <3>1, <3>2, <3>4, SeqEqual DEF new
    <3> QED
      BY <2>1, <3>5 DEF old, new
  <2>2. CASE k \notin 1 .. n
    <3>1. m = n + 1 /\ k = n + 1
      BY <1>1, <2>2 DEF m, n
    <3>2. Append(old, r) \in Seq(Seq(Bytes)) /\ Len(Append(old, r)) = n + 1
      BY <1>18 DEF old
    <3>3. \A s \in 1 .. n + 1 : Append(old, r)[s] = IF s = n + 1 THEN r ELSE old[s]
      BY <1>1, <1>18 DEF old
    <3>4. \A s \in 1 .. n + 1 : new[s] = Append(old, r)[s]
      BY <1>17, <3>1, <3>3 DEF old, new
    <3>5. new = Append(old, r)
      BY <1>17, <3>1, <3>2, <3>4, SeqEqual DEF new
    <3> QED
      BY <2>2, <3>5 DEF old, new
  <2> QED
    BY <2>1, <2>2
<1> QED
  BY <1>15, <1>19 DEF q, n

\* What Insert writes into the page it chose is Stored, for the slot it chose.
LEMMA InsertWrites ==
  ASSUME NEW p, PageOK(p), NEW r, NEW k \in 1 .. SlotCount(p) + 1, NEW reusing \in BOOLEAN,
         reusing <=> k \in 1 .. SlotCount(p), NEW at, at = p.freeEnd - Len(r), NEW q,
         q = WriteSlot([p EXCEPT !.bytes = CopyTo(@, r, at)], k,
                       [offset |-> at, length |-> Len(r), live |-> TRUE])
  PROVE  [slots |-> q.slots, bytes |-> q.bytes, freeEnd |-> at,
          freeStart |-> IF reusing THEN q.freeStart ELSE DirectoryEnd(SlotCount(q))] = Stored(p, r, k)
<1> DEFINE slots == IF k \in DOMAIN p.slots THEN [p.slots EXCEPT ![k] = NewEntry(p, r)]
                    ELSE Append(p.slots, NewEntry(p, r))
           bytes == [o \in Offsets |-> IF InSlot(k, o) THEN Dir ELSE CopyTo(p.bytes, r, at)[o]]
<1>1. p = [slots |-> p.slots, freeStart |-> p.freeStart, freeEnd |-> p.freeEnd, bytes |-> p.bytes]
  BY DEF PageOK
<1>2. [p EXCEPT !.bytes = CopyTo(@, r, at)] =
        [slots |-> p.slots, freeStart |-> p.freeStart, freeEnd |-> p.freeEnd, bytes |-> CopyTo(p.bytes, r, at)]
  BY <1>1
<1>3. NewEntry(p, r) = [offset |-> at, length |-> Len(r), live |-> TRUE]
  BY DEF NewEntry
<1>4. q = [slots |-> slots, freeStart |-> p.freeStart, freeEnd |-> p.freeEnd, bytes |-> bytes]
  BY <1>2, <1>3 DEF WriteSlot
<1>5. SlotCount(p) \in Nat /\ DOMAIN p.slots = 1 .. SlotCount(p) /\ p.slots \in Seq(Entries)
  BY ValidPage
<1>6. Stored(p, r, k) =
        [slots |-> slots,
         freeStart |-> IF reusing THEN p.freeStart ELSE DirectoryEnd(SlotCount(p) + 1),
         freeEnd |-> at, bytes |-> bytes]
  BY <1>5 DEF Stored
<1>7. ~reusing => slots = Append(p.slots, NewEntry(p, r))
  BY <1>5
<1> HIDE DEF slots, bytes
<1>8. q.slots = slots /\ q.bytes = bytes /\ q.freeStart = p.freeStart
  BY <1>4
<1>9. ~reusing => SlotCount(q) = SlotCount(p) + 1
  BY <1>5, <1>7, <1>8 DEF SlotCount
<1>10. CASE reusing
  BY <1>6, <1>8, <1>10
<1>11. CASE ~reusing
  BY <1>6, <1>8, <1>9, <1>11
<1> QED
  BY <1>10, <1>11

\* Deleting a slot touches no other payload.
LEMMA ErasedPage ==
  ASSUME NEW p, PageOK(p), NEW k \in Live(p)
  PROVE  /\ PageOK(WriteSlot(p, k, DeadSlot))
         /\ Payloads(WriteSlot(p, k, DeadSlot)) = [Payloads(p) EXCEPT ![k] = <<>>]
<1> DEFINE q == WriteSlot(p, k, DeadSlot)
           n == SlotCount(p)
<1>1. /\ n \in Nat /\ DOMAIN p.slots = 1 .. n /\ p.slots \in Seq(Entries) /\ Len(p.slots) = n
      /\ p.bytes \in [Offsets -> Bytes] /\ k \in 1 .. n
      /\ p.freeEnd \in Nat /\ p.freeEnd <= PageSize
      /\ p.freeStart = DirectoryEnd(n) /\ p.freeStart \in Nat /\ p.freeStart <= p.freeEnd
  BY ValidPage DEF SlotCount
<1>2. p = [slots |-> p.slots, freeStart |-> p.freeStart, freeEnd |-> p.freeEnd, bytes |-> p.bytes]
  BY DEF PageOK
<1>3. /\ q = [slots |-> q.slots, freeStart |-> q.freeStart, freeEnd |-> q.freeEnd, bytes |-> q.bytes]
      /\ q.slots = [p.slots EXCEPT ![k] = DeadSlot]
      /\ q.freeStart = p.freeStart /\ q.freeEnd = p.freeEnd
      /\ q.bytes = [o \in Offsets |-> IF InSlot(k, o) THEN Dir ELSE p.bytes[o]]
  <2> DEFINE slots == [p.slots EXCEPT ![k] = DeadSlot]
             bytes == [o \in Offsets |-> IF InSlot(k, o) THEN Dir ELSE p.bytes[o]]
  <2>1. k \in DOMAIN p.slots
    BY <1>1
  <2>2. q = [p EXCEPT !.slots = slots, !.bytes = bytes]
    BY <2>1 DEF WriteSlot
  <2> HIDE DEF slots, bytes
  <2>3. q = [slots |-> slots, freeStart |-> p.freeStart, freeEnd |-> p.freeEnd, bytes |-> bytes]
    BY <1>2, <2>2
  <2> HIDE DEF q
  <2> QED
    BY <2>3 DEF slots, bytes
<1>4. DeadSlot \in Entries /\ ~DeadSlot.live
  BY SizesAssumption DEF DeadSlot, Entries
<1> HIDE DEF q, n
<1>5. /\ q.slots \in Seq(Entries) /\ Len(q.slots) = n /\ DOMAIN q.slots = 1 .. n
      /\ q.slots[k] = DeadSlot /\ \A s \in 1 .. n : s # k => q.slots[s] = p.slots[s]
  BY <1>1, <1>3, <1>4
<1>6. SlotCount(q) = n
  BY <1>5 DEF SlotCount
<1>7. Live(q) \subseteq Live(p) /\ k \notin Live(q) /\ \A s \in 1 .. n : s # k => (s \in Live(q) <=> s \in Live(p))
  BY <1>1, <1>4, <1>5 DEF Live
<1>8. \A o \in Offsets : p.freeEnd <= o => q.bytes[o] = p.bytes[o]
  <2>1. \A o : InSlot(k, o) => o \in Nat /\ o < DirectoryEnd(n)
    BY <1>1, SlotInDirectory
  <2> SUFFICES ASSUME NEW o \in Offsets, p.freeEnd <= o PROVE q.bytes[o] = p.bytes[o]
    OBVIOUS
  <2>2. ~InSlot(k, o)
    <3>1. o \in Int
      BY DEF Offsets
    <3> QED
      BY <1>1, <2>1, <3>1
  <2> QED
    BY <1>3, <2>2
<1>9. ASSUME NEW s \in Live(q)
      PROVE  s \in Live(p) /\ s \in 1 .. n /\ q.slots[s] = p.slots[s] /\ Payload(q, s) = Payload(p, s)
  <2>1. s \in Live(p) /\ s # k /\ s \in 1 .. n
    BY <1>7, ValidPage DEF n
  <2>2. q.slots[s] = p.slots[s]
    BY <1>5, <2>1
  <2>3. \A o \in Extent(p.slots[s]) : q.bytes[o] = p.bytes[o]
    BY <1>8, <2>1, ExtentBehindGap
  <2> QED
    BY <2>1, <2>2, <2>3, SamePayload
<1>10. PageOK(q)
  <2>1. q.bytes \in [Offsets -> Bytes]
    <3>1. Dir \in Bytes
      BY DEF Bytes
    <3> QED
      BY <1>1, <1>3, <3>1
  <2>2. q \in [slots : Seq(Entries), freeStart : Nat, freeEnd : 0 .. PageSize, bytes : [Offsets -> Bytes]]
    <3>1. q.freeStart \in Nat /\ q.freeEnd \in 0 .. PageSize
      BY <1>1, <1>3, SizesAssumption
    <3> QED
      BY <1>3, <1>5, <2>1, <3>1
  <2>3. \A s \in 1 .. n : SlotValid(q, s)
    <3> SUFFICES ASSUME NEW s \in 1 .. n PROVE SlotValid(q, s)
      OBVIOUS
    <3>1. CASE s = k
      BY <1>4, <1>5, <3>1 DEF SlotValid
    <3>2. CASE s # k
      <4>1. q.slots[s] = p.slots[s] /\ q.freeEnd = p.freeEnd
        BY <1>3, <1>5, <3>2
      <4>2. SlotValid(p, s)
        BY <1>1 DEF PageOK, Validate
      <4> QED
        BY <4>1, <4>2 DEF SlotValid
    <3> QED
      BY <3>1, <3>2
  <2>4. \A s, t \in Live(q) : s # t => Extent(q.slots[s]) \cap Extent(q.slots[t]) = {}
    <3> SUFFICES ASSUME NEW s \in Live(q), NEW t \in Live(q), s # t
                 PROVE  Extent(q.slots[s]) \cap Extent(q.slots[t]) = {}
      OBVIOUS
    <3>1. s \in Live(p) /\ t \in Live(p) /\ q.slots[s] = p.slots[s] /\ q.slots[t] = p.slots[t]
      BY <1>9
    <3> QED
      BY <3>1, ValidPage
  <2> QED
    BY <1>1, <1>3, <1>5, <1>6, <2>2, <2>3, <2>4 DEF PageOK, Validate
<1>11. /\ Payloads(q) \in Seq(Seq(Bytes)) /\ Len(Payloads(q)) = n
       /\ \A s \in 1 .. n : Payloads(q)[s] = IF s \in Live(q) THEN Payload(q, s) ELSE <<>>
  BY <1>6, <1>10, PagePayloads
<1>12. /\ Payloads(p) \in Seq(Seq(Bytes)) /\ Len(Payloads(p)) = n
       /\ \A s \in 1 .. n : Payloads(p)[s] = IF s \in Live(p) THEN Payload(p, s) ELSE <<>>
  BY PagePayloads DEF n
<1>13. Payloads(q) = [Payloads(p) EXCEPT ![k] = <<>>]
  <2>1. <<>> \in Seq(Bytes)
    BY EmptySeq
  <2>2. /\ [Payloads(p) EXCEPT ![k] = <<>>] \in Seq(Seq(Bytes))
        /\ Len([Payloads(p) EXCEPT ![k] = <<>>]) = n
        /\ \A s \in 1 .. n : [Payloads(p) EXCEPT ![k] = <<>>][s] = IF s = k THEN <<>> ELSE Payloads(p)[s]
    BY <1>1, <1>12, <2>1, ExceptSeq
  <2>3. \A s \in 1 .. n : Payloads(q)[s] = [Payloads(p) EXCEPT ![k] = <<>>][s]
    BY <1>7, <1>9, <1>11, <1>12, <2>2
  <2> QED
    BY <1>11, <2>2, <2>3, SeqEqual
<1> QED
  BY <1>10, <1>13 DEF q

\* The room replace counts is the place the packed page takes.
LEMMA RoomIsPlace ==
  ASSUME NEW p, PageOK(p), NEW k \in Live(p), NEW r \in Seq(Bytes)
  PROVE  LET payloads == [Payloads(p) EXCEPT ![k] = r] IN
         /\ payloads \in Seq(Seq(Bytes)) /\ Len(payloads) = SlotCount(p)
         /\ Total([t \in Live(p) \ {k} |-> p.slots[t].length]) \in Nat
         /\ PackedAt(payloads, SlotCount(p))
              = PageSize - Total([t \in Live(p) \ {k} |-> p.slots[t].length]) - Len(r)
<1> DEFINE payloads == [Payloads(p) EXCEPT ![k] = r]
           n == SlotCount(p)
           rest == [t \in Live(p) \ {k} |-> p.slots[t].length]
           sizes == [t \in 1 .. n |-> Len(payloads[t])]
           others == [t \in (1 .. n) \ {k} |-> Len(Payloads(p)[t])]
<1>1. /\ n \in Nat /\ k \in 1 .. n /\ Live(p) \subseteq 1 .. n /\ PageSize \in Nat
      /\ \A t \in Live(p) : p.slots[t].length \in Nat
  BY ValidPage, SizesAssumption
<1>2. /\ Payloads(p) \in Seq(Seq(Bytes)) /\ Len(Payloads(p)) = n
      /\ \A t \in 1 .. n : Payloads(p)[t] = IF t \in Live(p) THEN Payload(p, t) ELSE <<>>
  BY PagePayloads
<1> HIDE DEF n
<1>3. /\ payloads \in Seq(Seq(Bytes)) /\ Len(payloads) = n
      /\ \A t \in 1 .. n : payloads[t] = IF t = k THEN r ELSE Payloads(p)[t]
  BY <1>1, <1>2, ExceptSeq
<1>4. \A t \in 1 .. n : payloads[t] \in Seq(Bytes) /\ Payloads(p)[t] \in Seq(Bytes)
  BY <1>2, <1>3, ElementOfSeq
<1>5. \A t \in 1 .. n : Len(payloads[t]) \in Nat /\ Len(Payloads(p)[t]) \in Nat
  BY <1>4, LenProperties
<1> HIDE DEF payloads
<1>6. /\ sizes \in [1 .. n -> Nat] /\ others \in [(1 .. n) \ {k} -> Nat]
      /\ rest \in [Live(p) \ {k} -> Nat] /\ sizes[k] = Len(r)
  BY <1>1, <1>3, <1>5
<1>7. \A t \in (1 .. n) \ {k} : sizes[t] = others[t]
  BY <1>3
<1>8. \A t \in Live(p) \ {k} : rest[t] = others[t]
  <2>1. \A t \in Live(p) : Len(Payload(p, t)) = p.slots[t].length
    BY LivePayload
  <2> QED
    BY <1>1, <1>2, <2>1
<1>9. \A t \in ((1 .. n) \ {k}) \ (Live(p) \ {k}) : others[t] = 0
  <2>1. \A t \in ((1 .. n) \ {k}) \ (Live(p) \ {k}) : Payloads(p)[t] = <<>>
    BY <1>2
  <2>2. Len(<<>>) = 0
    OBVIOUS
  <2> QED
    BY <2>1, <2>2
<1> HIDE DEF sizes, others, rest
<1>10. Total(sizes) = Total(others) + Len(r) /\ Total(others) \in Nat
  <2>1. PICK S, x : S = (1 .. n) \ {k} /\ x = k
    OBVIOUS
  <2>2. IsFiniteSet(S) /\ x \notin S /\ 1 .. n = S \cup {x}
    <3>1. IsFiniteSet(1 .. n)
      BY <1>1, FS_Interval
    <3>2. S \in SUBSET (1 .. n)
      BY <2>1
    <3>3. IsFiniteSet(S)
      BY <3>1, <3>2, FS_Subset
    <3> QED
      BY <1>1, <2>1, <3>3
  <2>3. others \in [S -> Nat] /\ sizes \in [S \cup {x} -> Nat] /\ \A t \in S : sizes[t] = others[t]
    BY <1>6, <1>7, <2>1, <2>2
  <2>4. \A U, y : IsFiniteSet(U) /\ y \notin U => \A a \in [U -> Nat] : \A b \in [U \cup {y} -> Nat] :
          (\A t \in U : b[t] = a[t]) => Total(b) = Total(a) + b[y]
    BY TotalOfAdded, Zenon
  <2>5. \A a \in [S -> Nat] : \A b \in [S \cup {x} -> Nat] :
          (\A t \in S : b[t] = a[t]) => Total(b) = Total(a) + b[x]
    BY <2>2, <2>4
  <2>6. Total(sizes) = Total(others) + sizes[x]
    BY <2>3, <2>5
  <2>7. Total(others) \in Nat
    BY <2>2, <2>3, TotalIsNat
  <2> QED
    BY <1>6, <2>1, <2>6, <2>7
<1>11. Total(rest) = Total(others)
  <2>1. PICK S, T : S = (1 .. n) \ {k} /\ T = Live(p) \ {k}
    OBVIOUS
  <2>2. IsFiniteSet(S)
    <3>1. IsFiniteSet(1 .. n)
      BY <1>1, FS_Interval
    <3>2. S \in SUBSET (1 .. n)
      BY <2>1
    <3> QED
      BY <3>1, <3>2, FS_Subset
  <2>3. T \in SUBSET S /\ others \in [S -> Nat] /\ rest \in [T -> Nat]
    BY <1>1, <1>6, <2>1
  <2>4. (\A t \in T : rest[t] = others[t]) /\ (\A t \in S \ T : others[t] = 0)
    BY <1>8, <1>9, <2>1
  <2> QED
    <3>1. \A f, g :
            /\ f \in [S -> Nat] /\ g \in [T -> Nat]
            /\ \A t \in T : g[t] = f[t]
            /\ \A t \in S \ T : f[t] = 0
            => Total(g) = Total(f)
      BY <2>2, <2>3, TotalWithoutEmpty
    <3> QED
      BY <2>3, <2>4, <3>1, Zenon
<1>12. PackedAt(payloads, n) = PageSize - Total(sizes)
  BY DEF PackedAt, sizes
<1>13. Len(r) \in Nat
  BY LenProperties
<1>14. Total(rest) \in Nat /\ PackedAt(payloads, n) = PageSize - Total(rest) - Len(r)
  BY <1>1, <1>10, <1>11, <1>12, <1>13
<1> QED
  BY <1>3, <1>14 DEF payloads, n, rest

\* Replacing keeps every other payload, when replace found room.
LEMMA ReplacedPage ==
  ASSUME NEW p, PageOK(p), NEW k \in Live(p), NEW r \in Seq(Bytes), Room(p, k, r)
  PROVE  /\ PageOK(Packed([Payloads(p) EXCEPT ![k] = r]))
         /\ Payloads(Packed([Payloads(p) EXCEPT ![k] = r])) = [Payloads(p) EXCEPT ![k] = r]
<1> DEFINE payloads == [Payloads(p) EXCEPT ![k] = r]
           n == SlotCount(p)
           rest == Total([t \in Live(p) \ {k} |-> p.slots[t].length])
<1>1. /\ payloads \in Seq(Seq(Bytes)) /\ Len(payloads) = n /\ rest \in Nat
      /\ PackedAt(payloads, n) = PageSize - rest - Len(r)
  BY RoomIsPlace
<1>2. DirectoryEnd(n) + rest + Len(r) <= PageSize
  BY DEF Room
<1>3. n \in Nat /\ DirectoryEnd(n) \in Nat /\ PageSize \in Nat /\ Len(r) \in Nat
  <2>1. n \in Nat
    BY ValidPage
  <2> QED
    BY <2>1, DirectoryGrows, LenProperties
<1> HIDE DEF payloads, n, rest
<1>4. DirectoryEnd(n) <= PackedAt(payloads, n)
  BY <1>1, <1>2, <1>3
<1>5. PageOK(Packed(payloads)) /\ Payloads(Packed(payloads)) = payloads
  BY <1>1, <1>4, PackedPage
<1> QED
  BY <1>5 DEF payloads

-----------------------------------------------------------------------------
(***************************************************************************)
(* The operations.                                                         *)
(***************************************************************************)

\* Records are sequences of bytes, none of them empty.
LEMMA RecordsAreBytes ==
  ASSUME NEW r \in Records
  PROVE  r \in Seq(Bytes) /\ r # <<>> /\ Len(r) \in Nat
<1>1. r \in Seq(Range(r)) /\ Len(r) > 0
  BY RecordsAssumption
<1>2. Range(r) \subseteq Bytes
  BY DEF Bytes
<1>3. r \in Seq(Bytes)
  BY <1>1, <1>2, SeqMonotonic
<1> QED
  BY <1>1, <1>3, EmptyMeans

\* The page an insertion writes to: compacted, when the gap is too small.
Chosen(p, r) == IF Need(p, r) > FreeSpace(p) THEN Compact(p) ELSE p
\* The slot it takes.
Target(p) == IF Dead(p) # {} THEN Min(Dead(p)) ELSE SlotCount(p) + 1

\* That page holds the same records, and the record fits into its gap exactly
\* when it fits beside the live records in some arrangement.
LEMMA InsertFits ==
  ASSUME NEW p, PageOK(p), NEW r \in Records
  PROVE  /\ PageOK(Chosen(p, r)) /\ Payloads(Chosen(p, r)) = Payloads(p)
         /\ SlotCount(Chosen(p, r)) = SlotCount(p)
         /\ Live(Chosen(p, r)) = Live(p) /\ Dead(Chosen(p, r)) = Dead(p)
         /\ Need(p, r) \in Nat /\ FreeSpace(Chosen(p, r)) \in Nat
         /\ Need(p, r) <= FreeSpace(Chosen(p, r))
              <=> DirectoryEnd(SlotCount(p)) + Total([t \in Live(p) |-> p.slots[t].length]) + Need(p, r)
                    <= PageSize
<1> DEFINE q == Chosen(p, r)
           n == SlotCount(p)
           total == Total([t \in Live(p) |-> p.slots[t].length])
           need == Need(p, r)
<1>1. /\ PageOK(Compact(p)) /\ Payloads(Compact(p)) = Payloads(p) /\ SlotCount(Compact(p)) = n
      /\ Live(Compact(p)) = Live(p) /\ Dead(Compact(p)) = Dead(p)
      /\ Compact(p).freeEnd = PageSize - total
  BY CompactPage
<1>2. /\ PageOK(q) /\ Payloads(q) = Payloads(p) /\ SlotCount(q) = n
      /\ Live(q) = Live(p) /\ Dead(q) = Dead(p)
  BY <1>1 DEF Chosen
<1>3. need \in Nat
  BY RecordsAreBytes, SizesAssumption DEF Need
<1>4. total \in Nat /\ total <= PageSize - p.freeEnd
  BY LiveTotal
<1>5. /\ q.freeStart = DirectoryEnd(n) /\ q.freeStart \in Nat /\ q.freeEnd \in Nat
      /\ q.freeStart <= q.freeEnd
  BY <1>2, ValidPage
<1>6. p.freeStart = DirectoryEnd(n) /\ p.freeEnd \in Nat /\ p.freeStart \in Nat /\ PageSize \in Nat
  BY ValidPage, SizesAssumption
<1>7. FreeSpace(q) = q.freeEnd - q.freeStart /\ FreeSpace(p) = p.freeEnd - p.freeStart
  BY DEF FreeSpace
<1>8. /\ need > FreeSpace(p) => q = Compact(p)
      /\ ~(need > FreeSpace(p)) => q = p
  BY DEF Chosen
<1> HIDE DEF q, n, total, need
<1>9. need <= FreeSpace(q) <=> DirectoryEnd(n) + total + need <= PageSize
  <2>1. CASE need > FreeSpace(p)
    <3>1. q.freeEnd = PageSize - total
      BY <1>1, <1>8, <2>1
    <3> QED
      BY <1>3, <1>4, <1>5, <1>6, <1>7, <3>1
  <2>2. CASE ~(need > FreeSpace(p))
    <3>1. q.freeEnd = p.freeEnd /\ need <= FreeSpace(q)
      BY <1>3, <1>6, <1>7, <1>8, <2>2
    <3> QED
      BY <1>3, <1>4, <1>5, <1>6, <1>7, <3>1
  <2> QED
    BY <2>1, <2>2
<1>10. FreeSpace(q) \in Nat
  BY <1>5, <1>7
<1> QED
  BY <1>2, <1>3, <1>9, <1>10 DEF q, n, total, need

\* The slot an insertion takes is not live.
LEMMA TargetIsFree ==
  ASSUME NEW p, PageOK(p)
  PROVE  /\ Target(p) \in 1 .. SlotCount(p) + 1 /\ Target(p) \notin Live(p)
         /\ Dead(p) # {} <=> Target(p) \in 1 .. SlotCount(p)
<1>1. /\ SlotCount(p) \in Nat /\ Live(p) \subseteq 1 .. SlotCount(p)
      /\ Dead(p) \subseteq 1 .. SlotCount(p)
  BY ValidPage
<1>2. CASE Dead(p) # {}
  <2>1. Dead(p) \in SUBSET Nat
    BY <1>1
  <2>2. Min(Dead(p)) \in Dead(p)
    BY <1>2, <2>1, MinIsLeast
  <2>3. Target(p) \in Dead(p)
    BY <1>2, <2>2 DEF Target
  <2>4. Target(p) \notin Live(p)
    BY <2>3 DEF Dead
  <2> QED
    BY <1>1, <1>2, <2>3, <2>4
<1>3. CASE Dead(p) = {}
  BY <1>1, <1>3 DEF Target
<1> QED
  BY <1>2, <1>3

\* What SlotMap counts, in terms of the page.
LEMMA SlotsMeaning ==
  ASSUME IInv
  PROVE  /\ Slots!Live = Live(page) /\ Slots!Dead = Dead(page)
         /\ Len(Payloads(page)) = SlotCount(page) /\ DOMAIN Payloads(page) = 1 .. SlotCount(page)
         /\ \A S \in SUBSET Live(page) : \A d, r :
              Slots!Needs(d, S, r) = DirectoryEnd(d) + Total([t \in S |-> page.slots[t].length]) + Len(r)
<1>1. PageOK(page)
  BY DEF IInv
<1>2. /\ DOMAIN Payloads(page) = 1 .. SlotCount(page) /\ Len(Payloads(page)) = SlotCount(page)
      /\ \A s \in 1 .. SlotCount(page) : s \in Live(page) <=> Payloads(page)[s] # <<>>
      /\ \A s \in 1 .. SlotCount(page) : s \in Live(page) => Payloads(page)[s] = Payload(page, s)
  BY <1>1, PagePayloads
<1>3. Live(page) \subseteq 1 .. SlotCount(page) /\ DOMAIN page.slots = 1 .. SlotCount(page)
  BY <1>1, ValidPage
<1>4. Slots!Live = Live(page)
  BY <1>2, <1>3 DEF Slots!Live
<1>5. Slots!Dead = Dead(page)
  BY <1>2, <1>3, <1>4 DEF Slots!Dead, Dead
<1>6. ASSUME NEW S \in SUBSET Live(page)
      PROVE  [t \in S |-> Len(Payloads(page)[t])] = [t \in S |-> page.slots[t].length]
  <2>1. \A t \in Live(page) : Len(Payload(page, t)) = page.slots[t].length
    BY <1>1, LivePayload
  <2>2. \A t \in S : Len(Payloads(page)[t]) = page.slots[t].length
    BY <1>2, <1>3, <2>1
  <2> QED
    BY <2>2
<1>7. ASSUME NEW S \in SUBSET Live(page), NEW d, NEW r
      PROVE  Slots!Needs(d, S, r) = DirectoryEnd(d) + Total([t \in S |-> page.slots[t].length]) + Len(r)
  <2>1. \A size : Slots!Total(size) = Total(size)
    BY Zenon DEF Slots!Total, Slots!BytesOf, Slots!Cardinality, Total, BytesOf, Cardinality
  <2>2. Slots!LiveBytes(S) = Slots!Total([t \in S |-> Len(Payloads(page)[t])])
    BY Zenon DEF Slots!LiveBytes
  <2>3. Slots!LiveBytes(S) = Total([t \in S |-> page.slots[t].length])
    BY <1>6, <2>1, <2>2, Zenon
  <2> QED
    BY <2>3 DEF Slots!Needs, DirectoryEnd
<1> QED
  BY <1>2, <1>4, <1>5, <1>7

\* An insertion keeps the page valid, and is one of SlotMap.
LEMMA InsertStep ==
  ASSUME IInv, NEW r \in Records, Insert(r)
  PROVE  IInv' /\ Slots!Insert(r)
<1> DEFINE chosen == Chosen(page, r)
           target == Target(page)
           need == Need(page, r)
           n == SlotCount(page)
           reusing == Dead(page) # {}
           total == Total([t \in Live(page) |-> page.slots[t].length])
           directory == IF Dead(page) = {} THEN n + 1 ELSE n
<1>1. PageOK(page)
  BY DEF IInv
<1>2. /\ PageOK(chosen) /\ Payloads(chosen) = Payloads(page) /\ SlotCount(chosen) = n
      /\ Live(chosen) = Live(page) /\ Dead(chosen) = Dead(page)
      /\ need \in Nat /\ FreeSpace(chosen) \in Nat
      /\ need <= FreeSpace(chosen) <=> DirectoryEnd(n) + total + need <= PageSize
  BY <1>1, InsertFits
<1>3. r \in Seq(Bytes) /\ r # <<>> /\ Len(r) \in Nat
  BY RecordsAreBytes
<1>4. target \in 1 .. n + 1 /\ target \notin Live(page) /\ (reusing <=> target \in 1 .. n)
  BY <1>1, TargetIsFree
<1>5. total \in Nat /\ n \in Nat
  BY <1>1, LiveTotal, ValidPage
<1>6. need = Len(r) + IF reusing THEN 0 ELSE SlotSize
  BY DEF Need
<1>7. /\ DirectoryEnd(n) \in Nat /\ DirectoryEnd(n + 1) = DirectoryEnd(n) + SlotSize
      /\ SlotSize \in Nat /\ PageSize \in Nat
  BY <1>5, DirectoryGrows
<1>8. /\ Slots!Live = Live(page) /\ Slots!Dead = Dead(page) /\ Len(Payloads(page)) = n
      /\ Slots!Needs(directory, Slots!Live, r) = DirectoryEnd(directory) + total + Len(r)
  <2>1. Live(page) \in SUBSET Live(page)
    OBVIOUS
  <2>2. \A d : Slots!Needs(d, Live(page), r) = DirectoryEnd(d) + total + Len(r)
    BY <2>1, SlotsMeaning
  <2> QED
    BY <2>2, SlotsMeaning, Zenon
<1>9. Slots!Needs(directory, Slots!Live, r) <= PageSize <=> need <= FreeSpace(chosen)
  <2>1. DirectoryEnd(directory) + Len(r) = DirectoryEnd(n) + need
    BY <1>3, <1>6, <1>7
  <2>2. DirectoryEnd(directory) \in Nat
    BY <1>7
  <2> HIDE DEF chosen, need, total, directory, n
  <2>3. DirectoryEnd(directory) + total + Len(r) = DirectoryEnd(n) + total + need
    <3>1. PICK d, e \in Nat : d = DirectoryEnd(directory) /\ e = DirectoryEnd(n)
      BY <1>7, <2>2
    <3>2. d + Len(r) = e + need /\ need \in Nat /\ total \in Nat /\ Len(r) \in Nat
      BY <1>2, <1>3, <1>5, <2>1, <3>1
    <3>3. d + total + Len(r) = e + total + need
      BY <3>2
    <3> QED
      BY <3>1, <3>3
  <2> QED
    BY <1>2, <1>8, <2>3
<1>10. CASE need > FreeSpace(chosen)
  <2>1. page' = chosen /\ result' = <<"not inserted", r>>
    BY <1>10 DEF Insert, Chosen
  <2>2. IInv'
    BY <1>2, <2>1 DEF IInv
  <2>3. Payloads(page)' = Payloads(page)
    BY <1>2, <2>1
  <2>4. ~(Slots!Needs(directory, Slots!Live, r) <= PageSize)
    <3> HIDE DEF chosen, need, directory
    <3> QED
      BY <1>2, <1>9, <1>10
  <2>5. Slots!Insert(r)
    BY <1>8, <2>1, <2>3, <2>4 DEF Slots!Insert
  <2> QED
    BY <2>2, <2>5
<1>11. CASE ~(need > FreeSpace(chosen))
  <2> DEFINE at == chosen.freeEnd - Len(r)
             q == WriteSlot([chosen EXCEPT !.bytes = CopyTo(@, r, at)], target,
                            [offset |-> at, length |-> Len(r), live |-> TRUE])
  <2>1. /\ page' = [slots |-> q.slots, bytes |-> q.bytes, freeEnd |-> at,
                    freeStart |-> IF reusing THEN q.freeStart ELSE DirectoryEnd(SlotCount(q))]
        /\ result' = <<"inserted", r, target>>
    BY <1>11 DEF Insert, Chosen, Target
  <2> HIDE DEF q, chosen, target, n, need, total, directory, at
  <2>2. /\ chosen.freeStart = DirectoryEnd(n) /\ chosen.freeEnd \in Nat /\ chosen.freeStart \in Nat
        /\ DOMAIN chosen.slots = 1 .. n
    BY <1>2, ValidPage
  <2>3. page' = Stored(chosen, r, target)
    <3>1. target \in 1 .. SlotCount(chosen) + 1 /\ (reusing <=> target \in 1 .. SlotCount(chosen))
      BY <1>2, <1>4
    <3>2. reusing \in BOOLEAN
      OBVIOUS
    <3> HIDE DEF reusing
    <3> QED
      BY <1>2, <2>1, <3>1, <3>2, InsertWrites DEF at, q
  <2>4. Stored(chosen, r, target).freeStart <= chosen.freeEnd - Len(r)
    <3>1. Stored(chosen, r, target).freeStart
            = IF target \in 1 .. n THEN chosen.freeStart ELSE DirectoryEnd(n + 1)
      BY <1>2, <2>2 DEF Stored
    <3>2. FreeSpace(chosen) = chosen.freeEnd - chosen.freeStart
      BY DEF FreeSpace
    <3>3. need <= FreeSpace(chosen)
      BY <1>2, <1>11
    <3>4. CASE reusing
      <4>1. need = Len(r) /\ Stored(chosen, r, target).freeStart = chosen.freeStart
        BY <1>3, <1>4, <1>6, <3>1, <3>4
      <4> QED
        BY <1>3, <2>2, <3>2, <3>3, <4>1
    <3>5. CASE ~reusing
      <4>1. need = Len(r) + SlotSize /\ Stored(chosen, r, target).freeStart = chosen.freeStart + SlotSize
        BY <1>3, <1>4, <1>6, <1>7, <2>2, <3>1, <3>5
      <4> QED
        BY <1>3, <1>7, <2>2, <3>2, <3>3, <4>1
    <3> QED
      BY <3>4, <3>5
  <2>5. /\ PageOK(Stored(chosen, r, target))
        /\ Payloads(Stored(chosen, r, target)) =
             IF target \in 1 .. n THEN [Payloads(page) EXCEPT ![target] = r] ELSE Append(Payloads(page), r)
    <3>1. target \in 1 .. SlotCount(chosen) + 1 /\ target \notin Live(chosen)
      BY <1>2, <1>4
    <3>2. /\ PageOK(Stored(chosen, r, target))
          /\ Payloads(Stored(chosen, r, target)) =
               IF target \in 1 .. SlotCount(chosen) THEN [Payloads(chosen) EXCEPT ![target] = r]
               ELSE Append(Payloads(chosen), r)
      BY <1>2, <1>3, <2>4, <3>1, StoredPage
    <3> QED
      BY <1>2, <3>2
  <2>6. IInv'
    BY <2>3, <2>5 DEF IInv
  <2>7. Payloads(page)' = IF Dead(page) = {} THEN Append(Payloads(page), r)
                          ELSE [Payloads(page) EXCEPT ![target] = r]
    BY <1>4, <2>3, <2>5
  <2>8. Slots!Needs(directory, Slots!Live, r) <= PageSize
    BY <1>2, <1>9, <1>11
  <2>9. target = IF Dead(page) = {} THEN n + 1 ELSE Slots!Min(Dead(page))
    BY DEF target, n, Target, Slots!Min, Min
  <2>10. Slots!Insert(r)
    BY <1>8, <2>1, <2>7, <2>8, <2>9 DEF Slots!Insert, directory
  <2> QED
    BY <2>6, <2>10
<1> QED
  BY <1>10, <1>11

\* A replacement keeps the page valid, and is one of SlotMap.
LEMMA ReplaceStep ==
  ASSUME IInv, NEW r \in Records, NEW s \in 1 .. SlotCount(page) + 1, Replace(s, r)
  PROVE  IInv' /\ (Slots!Missing(s) \/ Slots!Replace(s, r))
<1>1. PageOK(page)
  BY DEF IInv
<1>2. Slots!Live = Live(page) /\ Len(Payloads(page)) = SlotCount(page)
  BY SlotsMeaning
<1>3. r \in Seq(Bytes)
  BY RecordsAreBytes
<1>4. CASE s \notin Live(page)
  <2>1. result' = <<"missing", s>> /\ page' = page
    BY <1>4 DEF Replace, Contains
  <2> QED
    BY <1>2, <1>4, <2>1 DEF IInv, PageOK, Slots!Missing
<1>5. CASE s \in Live(page)
  <2>1. Slots!Needs(Len(Payloads(page)), Slots!Live \ {s}, r) <= PageSize <=> Room(page, s, r)
    <3>1. Live(page) \ {s} \in SUBSET Live(page)
      OBVIOUS
    <3>2. Slots!Needs(SlotCount(page), Live(page) \ {s}, r)
            = DirectoryEnd(SlotCount(page)) + Total([t \in Live(page) \ {s} |-> page.slots[t].length]) + Len(r)
      BY <3>1, SlotsMeaning
    <3> QED
      BY <1>2, <3>2 DEF Room
  <2>2. CASE ~Room(page, s, r)
    <3>1. result' = <<"not replaced", s, r>> /\ page' = page
      BY <1>5, <2>2 DEF Replace, Contains
    <3>2. IInv'
      BY <3>1 DEF IInv
    <3>3. Payloads(page)' = Payloads(page)
      BY <3>1
    <3> QED
      BY <1>2, <1>5, <2>1, <2>2, <3>1, <3>2, <3>3 DEF Slots!Replace
  <2>3. CASE Room(page, s, r)
    <3>1. result' = <<"replaced", s, r>> /\ page' = Packed([Payloads(page) EXCEPT ![s] = r])
      BY <1>5, <2>3 DEF Replace, Contains
    <3>2. /\ PageOK(Packed([Payloads(page) EXCEPT ![s] = r]))
          /\ Payloads(Packed([Payloads(page) EXCEPT ![s] = r])) = [Payloads(page) EXCEPT ![s] = r]
      BY <1>1, <1>3, <1>5, <2>3, ReplacedPage
    <3>3. IInv'
      BY <3>1, <3>2 DEF IInv
    <3>4. Payloads(page)' = [Payloads(page) EXCEPT ![s] = r]
      BY <3>1, <3>2
    <3> QED
      BY <1>2, <1>5, <2>1, <2>3, <3>1, <3>3, <3>4 DEF Slots!Replace
  <2> QED
    BY <2>2, <2>3
<1> QED
  BY <1>4, <1>5

\* A deletion keeps the page valid, and is one of SlotMap.
LEMMA EraseStep ==
  ASSUME IInv, NEW s \in 1 .. SlotCount(page) + 1, Erase(s)
  PROVE  IInv' /\ (Slots!Missing(s) \/ Slots!Erase(s))
<1>1. PageOK(page) /\ Slots!Live = Live(page)
  BY SlotsMeaning DEF IInv
<1>2. CASE s \notin Live(page)
  <2>1. result' = <<"missing", s>> /\ page' = page
    BY <1>2 DEF Erase, Contains
  <2> QED
    BY <1>1, <1>2, <2>1 DEF IInv, Slots!Missing
<1>3. CASE s \in Live(page)
  <2>1. result' = <<"erased", s>> /\ page' = WriteSlot(page, s, DeadSlot)
    BY <1>3 DEF Erase, Contains
  <2>2. /\ PageOK(WriteSlot(page, s, DeadSlot))
        /\ Payloads(WriteSlot(page, s, DeadSlot)) = [Payloads(page) EXCEPT ![s] = <<>>]
    BY <1>1, <1>3, ErasedPage
  <2>3. IInv'
    BY <2>1, <2>2 DEF IInv
  <2>4. Payloads(page)' = [Payloads(page) EXCEPT ![s] = <<>>]
    BY <2>1, <2>2
  <2> QED
    BY <1>1, <1>3, <2>1, <2>3, <2>4 DEF Slots!Erase
<1> QED
  BY <1>2, <1>3

\* A read changes nothing, and is one of SlotMap.
LEMMA ReadStep ==
  ASSUME IInv, NEW s \in 1 .. SlotCount(page) + 1, Read(s)
  PROVE  IInv' /\ (Slots!Missing(s) \/ Slots!Read(s))
<1>1. PageOK(page) /\ Slots!Live = Live(page)
  BY SlotsMeaning DEF IInv
<1>2. page' = page
  BY DEF Read
<1>3. IInv' /\ Payloads(page)' = Payloads(page)
  BY <1>2 DEF IInv
<1>4. CASE s \notin Live(page)
  <2>1. result' = <<"missing", s>>
    BY <1>4 DEF Read, Contains
  <2> QED
    BY <1>1, <1>3, <1>4, <2>1 DEF Slots!Missing
<1>5. CASE s \in Live(page)
  <2>1. result' = <<"read", s, Payload(page, s)>>
    BY <1>5 DEF Read, Contains
  <2>2. Payloads(page)[s] = Payload(page, s)
    BY <1>1, <1>5, PagePayloads, ValidPage
  <2> QED
    BY <1>1, <1>3, <1>5, <2>1, <2>2 DEF Slots!Read
<1> QED
  BY <1>4, <1>5

\* Every step keeps the page valid, and is a step of SlotMap or invisible in it.
LEMMA Step ==
  ASSUME IInv, [Next]_vars
  PROVE  IInv' /\ [Slots!Next]_(Slots!slotVars)
<1>1. PageOK(page) /\ Len(Payloads(page)) = SlotCount(page)
  BY SlotsMeaning DEF IInv
<1>2. ASSUME NEW r \in Records, Insert(r) PROVE IInv' /\ Slots!Next
  BY <1>2, InsertStep DEF Slots!Next
<1>3. ASSUME NEW s \in 1 .. SlotCount(page) + 1, Erase(s) PROVE IInv' /\ Slots!Next
  BY <1>1, <1>3, EraseStep DEF Slots!Next
<1>4. ASSUME NEW s \in 1 .. SlotCount(page) + 1, Read(s) PROVE IInv' /\ Slots!Next
  BY <1>1, <1>4, ReadStep DEF Slots!Next
<1>5. ASSUME NEW s \in 1 .. SlotCount(page) + 1, NEW r \in Records, Replace(s, r) PROVE IInv' /\ Slots!Next
  BY <1>1, <1>5, ReplaceStep DEF Slots!Next
<1>6. ASSUME Compaction PROVE IInv' /\ UNCHANGED Slots!slotVars
  <2>1. page' = Compact(page) /\ result' = result
    BY <1>6 DEF Compaction
  <2>2. PageOK(Compact(page)) /\ Payloads(Compact(page)) = Payloads(page)
    BY <1>1, CompactPage
  <2>3. IInv' /\ Payloads(page)' = Payloads(page)
    BY <2>1, <2>2 DEF IInv
  <2> QED
    BY <2>1, <2>3 DEF Slots!slotVars
<1>7. ASSUME UNCHANGED vars PROVE IInv' /\ UNCHANGED Slots!slotVars
  <2>1. page' = page /\ result' = result
    BY <1>7 DEF vars
  <2>2. IInv' /\ Payloads(page)' = Payloads(page)
    BY <2>1 DEF IInv
  <2> QED
    BY <2>1, <2>2 DEF Slots!slotVars
<1> QED
  BY <1>2, <1>3, <1>4, <1>5, <1>6, <1>7 DEF Next

-----------------------------------------------------------------------------
(***************************************************************************)
(* The theorems.                                                           *)
(***************************************************************************)

\* A fresh page is valid and holds nothing.
LEMMA FreshPage == PageOK(Initialize) /\ Payloads(Initialize) = <<>>
<1>1. HeaderSize \in Nat /\ PageSize \in Nat /\ HeaderSize <= PageSize /\ DirectoryEnd(0) = HeaderSize
  BY SizesAssumption, DirectoryGrows
<1>2. /\ Initialize.slots = <<>> /\ Initialize.freeStart = HeaderSize
      /\ Initialize.freeEnd = PageSize
  BY DEF Initialize
<1>3. Initialize \in [slots : Seq(Entries), freeStart : Nat, freeEnd : 0 .. PageSize, bytes : [Offsets -> Bytes]]
  <2>1. <<>> \in Seq(Entries) /\ Zero \in Bytes
    BY EmptySeq DEF Bytes
  <2> QED
    BY <1>1, <2>1 DEF Initialize
<1>4. DOMAIN Initialize.slots = {} /\ SlotCount(Initialize) = 0 /\ Live(Initialize) = {}
  BY <1>2 DEF SlotCount, Live
<1>5. PageOK(Initialize)
  BY <1>1, <1>2, <1>3, <1>4 DEF PageOK, Validate
<1>6. Payloads(Initialize) \in Seq(Seq(Bytes)) /\ Len(Payloads(Initialize)) = 0
  BY <1>4, <1>5, PagePayloads
<1>7. Payloads(Initialize) = <<>>
  BY <1>6, EmptyMeans
<1> QED
  BY <1>5, <1>7

\* Every reachable page is typed and valid, whatever the page size and records.
THEOREM Invariance == Spec => []IInv
<1>1. Init => IInv
  BY FreshPage DEF Init, IInv
<1>2. IInv /\ [Next]_vars => IInv'
  BY Step
<1> QED
  BY <1>1, <1>2, PTL DEF Spec

\* Type correctness of the page.
THEOREM TypeCorrect == Spec => []TypeOK
<1>1. IInv => TypeOK
  <2> SUFFICES ASSUME IInv PROVE TypeOK
    OBVIOUS
  <2>1. PageOK(page)
    BY DEF IInv
  <2>2. /\ page.slots \in Seq(Entries) /\ page.freeEnd \in 0 .. PageSize
        /\ page.bytes \in [Offsets -> Bytes]
    BY <2>1 DEF PageOK
  <2>3. /\ SlotCount(page) \in Nat /\ page.freeStart = DirectoryEnd(SlotCount(page))
        /\ page.freeStart <= page.freeEnd
    BY <2>1, ValidPage
  <2>4. /\ HeaderSize \in Nat /\ HeaderSize <= DirectoryEnd(SlotCount(page))
        /\ DirectoryEnd(SlotCount(page)) \in Nat
    <3>1. 0 \in Nat /\ 0 <= SlotCount(page)
      BY <2>3
    <3>2. DirectoryEnd(0) <= DirectoryEnd(SlotCount(page))
      BY <2>3, <3>1, DirectoryGrows
    <3> QED
      BY <2>3, <3>2, DirectoryGrows
  <2>5. page.freeStart \in HeaderSize .. page.freeEnd
    BY <2>2, <2>3, <2>4, SizesAssumption
  <2> QED
    BY <2>2, <2>5 DEF TypeOK
<1> QED
  BY <1>1, Invariance, PTL

\* HeapFile never refuses to write or read a page that the operations built:
\* validate accepts it, however records were inserted, deleted and replaced.
THEOREM ValidCorrect == Spec => []PagesValidate
<1>1. IInv => PagesValidate
  BY DEF IInv, PageOK, PagesValidate
<1> QED
  BY <1>1, Invariance, PTL

\* The page implements SlotMap: slots read back what was stored in them, keep
\* their numbers, and space is refused only when no arrangement would fit.
THEOREM Refinement == Spec => ImplementsSlotMap
<1>1. Init => Slots!Init
  BY FreshPage DEF Init, Slots!Init
<1>2. IInv /\ [Next]_vars => [Slots!Next]_(Slots!slotVars)
  BY Step
<1> QED
  BY <1>1, <1>2, Invariance, PTL DEF Spec, Slots!Spec, ImplementsSlotMap

=============================================================================
