-------------------------- MODULE RecordStoreProofs ---------------------------
(***************************************************************************)
(* Proofs about the record store.  Two invariants carry them: no page is   *)
(* overfilled, counted byte by byte, and what a cursor still owes lies in  *)
(* front of it.  That the file grows only when it must is a fact about the *)
(* probing order alone.                                                    *)
(***************************************************************************)
EXTENDS RecordStore, SpaceProofs

-----------------------------------------------------------------------------
\* The space of a page.

\* What is in the page, as far as its space is concerned.
Contents == Seq(Sizes \cup {0})

\* Sizes are natural numbers.
LEMMA SizesAreNat ==
  /\ Sizes \cup {0} \subseteq Nat
  /\ \A n \in Sizes : n \in Nat /\ n > 0
BY SizesAssumption

\* A page is a finite family of sizes.
LEMMA ContentsAreFamilies ==
  ASSUME NEW content \in Contents
  PROVE  /\ Len(content) \in Nat /\ DOMAIN content = 1 .. Len(content)
         /\ IsFiniteSet(1 .. Len(content))
         /\ content \in [1 .. Len(content) -> Nat]
         /\ Total(content) \in Nat
<1>1. Len(content) \in Nat /\ DOMAIN content = 1 .. Len(content)
  BY DEF Contents
<1>2. content \in [1 .. Len(content) -> Nat]
  BY SizesAreNat DEF Contents
<1>3. IsFiniteSet(1 .. Len(content))
  BY <1>1, FS_Interval
<1> QED
  BY <1>1, <1>2, <1>3, TotalIsNat

\* A page whose slot s is replaced counts the new size in place of the old one.
LEMMA UsedOfReplaced ==
  ASSUME NEW content \in Contents, NEW s \in DOMAIN content, NEW n \in Sizes \cup {0}
  PROVE  /\ [content EXCEPT ![s] = n] \in Contents
         /\ Len([content EXCEPT ![s] = n]) = Len(content)
         /\ Total([content EXCEPT ![s] = n]) = Total(content) - content[s] + n
<1> DEFINE new == [content EXCEPT ![s] = n]
<1>1. new \in Contents /\ Len(new) = Len(content)
  BY DEF Contents
<1>2. new[s] = n /\ \A t \in 1 .. Len(content) \ {s} : new[t] = content[t]
  BY ContentsAreFamilies
<1> HIDE DEF new
<1>3. /\ new \in [1 .. Len(content) -> Nat] /\ content \in [1 .. Len(content) -> Nat]
      /\ IsFiniteSet(1 .. Len(content)) /\ s \in 1 .. Len(content)
  <2>1. new \in [1 .. Len(new) -> Nat]
    BY <1>1, ContentsAreFamilies
  <2> QED
    BY <1>1, <2>1, ContentsAreFamilies
<1>4. Total(new) = Total(content) - content[s] + new[s]
  BY <1>2, <1>3, TotalOfChanged
<1> QED
  BY <1>1, <1>2, <1>4 DEF new

\* A page with one more slot counts the record in it.
LEMMA UsedOfAppended ==
  ASSUME NEW content \in Contents, NEW n \in Sizes
  PROVE  /\ Append(content, n) \in Contents
         /\ Len(Append(content, n)) = Len(content) + 1
         /\ Total(Append(content, n)) = Total(content) + n
<1> DEFINE new == Append(content, n)
           k == Len(content) + 1
<1>1. new \in Contents /\ Len(new) = k
  BY DEF Contents
<1>2. new[k] = n /\ \A t \in 1 .. Len(content) : new[t] = content[t]
  BY DEF Contents
<1>3. k \notin 1 .. Len(content) /\ 1 .. k = 1 .. Len(content) \cup {k}
  <2>1. Len(content) \in Nat
    BY ContentsAreFamilies
  <2> QED
    BY <2>1
<1> HIDE DEF new, k
<1>4. /\ new \in [1 .. Len(content) \cup {k} -> Nat] /\ content \in [1 .. Len(content) -> Nat]
      /\ IsFiniteSet(1 .. Len(content))
  <2>1. new \in [1 .. Len(new) -> Nat]
    BY <1>1, ContentsAreFamilies
  <2> QED
    BY <1>1, <1>3, <2>1, ContentsAreFamilies
<1>5. Total(new) = Total(content) + new[k]
  <2> DEFINE S == 1 .. Len(content)
  <2>1. IsFiniteSet(S) /\ k \notin S /\ content \in [S -> Nat] /\ new \in [S \cup {k} -> Nat]
    BY <1>3, <1>4
  <2>2. \A t \in S : new[t] = content[t]
    BY <1>2
  <2> HIDE DEF S
  <2> QED
    BY <2>1, <2>2, TotalOfAdded
<1> QED
  BY <1>1, <1>2, <1>5 DEF new, k

\* The space in use is a number, and no page has more slots than bytes.
LEMMA UsedIsNat ==
  ASSUME NEW content \in Contents
  PROVE  Used(content) \in Nat /\ (Used(content) <= PageSize => Len(content) <= PageSize)
<1>1. Len(content) \in Nat
  BY DEF Contents
<1>2. Total(content) \in Nat
  BY ContentsAreFamilies
<1>3. SlotSize \in Nat /\ HeaderSize \in Nat /\ PageSize \in Nat /\ SlotSize >= 1
  BY SizesAssumption
<1>4. Len(content) * SlotSize \in Nat /\ Len(content) * SlotSize >= Len(content)
  BY <1>1, <1>3
<1> QED
  BY <1>1, <1>2, <1>3, <1>4 DEF Used

\* An empty page takes every record that insert lets through.
LEMMA EmptyPageFits ==
  ASSUME NEW n \in Sizes, n <= MaxRecord
  PROVE  /\ <<>> \in Contents
         /\ Used(<<>>) <= PageSize
         /\ Fits(<<>>, n)
<1>1. Total(<<>>) = 0
  BY TotalOfNone
<1>2. Dead(<<>>) = {}
  BY DEF Dead
<1>3. Used(<<>>) = HeaderSize
  BY <1>1, SizesAssumption DEF Used
<1> QED
  BY <1>2, <1>3, SizesAssumption, SizesAreNat DEF Fits, MaxRecord, Contents

\* A record that fits goes into a slot that has none; the other records stay.
LEMMA InsertedRecord ==
  ASSUME NEW content \in Contents, NEW n \in Sizes, Fits(content, n)
  PROVE  /\ WithRecord(content, n) \in Contents
         /\ Used(WithRecord(content, n)) <= PageSize
         /\ Live(content) \subseteq Live(WithRecord(content, n))
<1>1. /\ Used(content) \in Nat /\ n \in Nat /\ n # 0 /\ Len(content) \in Nat
      /\ Total(content) \in Nat /\ DOMAIN content = 1 .. Len(content)
      /\ HeaderSize \in Nat /\ SlotSize \in Nat /\ PageSize \in Nat
  BY UsedIsNat, SizesAreNat, ContentsAreFamilies, SizesAssumption DEF Contents
<1>2. CASE Dead(content) = {}
  <2>1. WithRecord(content, n) = Append(content, n)
    BY <1>2 DEF WithRecord
  <2>2. Used(content) + n + SlotSize <= PageSize
    BY <1>2 DEF Fits
  <2>3. /\ Append(content, n) \in Contents
        /\ Len(Append(content, n)) = Len(content) + 1
        /\ Total(Append(content, n)) = Total(content) + n
    BY UsedOfAppended
  <2>4. (Len(content) + 1) * SlotSize = Len(content) * SlotSize + SlotSize
    BY <1>1
  <2>5. Len(content) * SlotSize \in Nat
    BY <1>1
  <2>6. Used(Append(content, n)) <= PageSize
    BY <1>1, <2>2, <2>3, <2>4, <2>5 DEF Used
  <2>7. Live(content) \subseteq Live(Append(content, n))
    BY <1>1, <2>3 DEF Live, Contents
  <2> QED
    BY <2>1, <2>3, <2>6, <2>7
<1>3. CASE Dead(content) # {}
  <2> DEFINE k == Min(Dead(content))
  <2>1. Dead(content) \in SUBSET Nat
    BY <1>1 DEF Dead
  <2>2. k \in Dead(content)
    BY <1>3, <2>1, MinIsLeast
  <2>3. k \in DOMAIN content /\ content[k] = 0
    BY <2>2 DEF Dead, Live
  <2> HIDE DEF k
  <2>4. /\ [content EXCEPT ![k] = n] \in Contents
        /\ Len([content EXCEPT ![k] = n]) = Len(content)
        /\ Total([content EXCEPT ![k] = n]) = Total(content) - content[k] + n
    BY <2>3, UsedOfReplaced
  <2>5. Used(content) + n <= PageSize
    BY <1>1, <1>3 DEF Fits
  <2>6. Len(content) * SlotSize \in Nat
    BY <1>1
  <2>7. Used([content EXCEPT ![k] = n]) <= PageSize
    BY <1>1, <2>3, <2>4, <2>5, <2>6 DEF Used
  <2>8. Live(content) \subseteq Live([content EXCEPT ![k] = n])
    BY <1>1, <2>3 DEF Live
  <2>9. WithRecord(content, n) = [content EXCEPT ![k] = n]
    BY <1>3 DEF WithRecord, k
  <2> QED
    BY <2>4, <2>7, <2>8, <2>9
<1> QED
  BY <1>2, <1>3

\* Writing over a live record, or deleting it, needs the difference of the sizes.
LEMMA ReplacedRecord ==
  ASSUME NEW content \in Contents, NEW s \in Live(content), NEW n \in Sizes \cup {0},
         Used(content) - content[s] + n <= PageSize
  PROVE  /\ [content EXCEPT ![s] = n] \in Contents
         /\ Used([content EXCEPT ![s] = n]) <= PageSize
         /\ Live([content EXCEPT ![s] = n]) = IF n = 0 THEN Live(content) \ {s} ELSE Live(content)
<1>1. /\ s \in DOMAIN content /\ content[s] \in Nat /\ content[s] # 0 /\ n \in Nat
      /\ Len(content) \in Nat /\ Total(content) \in Nat
      /\ HeaderSize \in Nat /\ SlotSize \in Nat /\ PageSize \in Nat
  <2>1. Total(content) \in Nat
    BY ContentsAreFamilies
  <2>2. s \in DOMAIN content /\ content[s] # 0
    BY DEF Live
  <2>3. content[s] \in Sizes \cup {0} /\ Len(content) \in Nat
    BY <2>2 DEF Contents
  <2> QED
    BY <2>1, <2>2, <2>3, SizesAreNat, SizesAssumption
<1>2. Len(content) * SlotSize \in Nat
  BY <1>1
<1>3. /\ [content EXCEPT ![s] = n] \in Contents
      /\ Len([content EXCEPT ![s] = n]) = Len(content)
      /\ Total([content EXCEPT ![s] = n]) = Total(content) - content[s] + n
  BY <1>1, UsedOfReplaced
<1>4. Used([content EXCEPT ![s] = n]) <= PageSize
  BY <1>1, <1>2, <1>3 DEF Used
<1>5. Live([content EXCEPT ![s] = n]) = IF n = 0 THEN Live(content) \ {s} ELSE Live(content)
  BY <1>1 DEF Live
<1> QED
  BY <1>3, <1>4, <1>5

-----------------------------------------------------------------------------
(***************************************************************************)
(* The probing order.                                                      *)
(***************************************************************************)

\* A remainder of a number below twice the divisor.
LEMMA Remainder ==
  \A a, k \in Nat : a < k + k => a % k = IF a < k THEN a ELSE a - k
<1> SUFFICES ASSUME NEW a \in Nat, NEW k \in Nat, a < k + k
             PROVE  a % k = IF a < k THEN a ELSE a - k
  OBVIOUS
<1>1. CASE a < k
  BY <1>1
<1>2. CASE k <= a
  BY <1>2
<1> QED
  BY <1>1, <1>2

\* insert tries pages of the file, and each of them.
LEMMA EveryPageIsTried ==
  ASSUME pageCount \in Nat, hint \in Nat
  PROVE  /\ \A i \in Allocated : Probe(i) \in Allocated
         /\ \A p \in Allocated : \E i \in Allocated : Probe(i) = p
<1>1. Start \in Nat /\ (pageCount > 0 => Start < pageCount)
  BY DEF Start
<1>2. \A i \in Allocated : Probe(i) = IF Start + i < pageCount THEN Start + i ELSE Start + i - pageCount
  <2> SUFFICES ASSUME NEW i \in Allocated
               PROVE  Probe(i) = IF Start + i < pageCount THEN Start + i ELSE Start + i - pageCount
    OBVIOUS
  <2>1. i \in Nat /\ Start + i \in Nat /\ Start + i < pageCount + pageCount
    BY <1>1 DEF Allocated
  <2>2. PICK a \in Nat : a = Start + i
    BY <2>1
  <2>3. a % pageCount = IF a < pageCount THEN a ELSE a - pageCount
    BY <2>1, <2>2, Remainder
  <2>4. Probe(i) = a % pageCount
    BY <2>2 DEF Probe
  <2>5. Probe(i) = IF a < pageCount THEN a ELSE a - pageCount
    BY <2>3, <2>4
  <2> QED
    BY <1>1, <2>1, <2>2, <2>5
<1>3. \A i \in Allocated : Probe(i) \in Allocated
  BY <1>1, <1>2 DEF Allocated
<1>4. ASSUME NEW p \in Allocated PROVE \E i \in Allocated : Probe(i) = p
  <2>1. CASE Start <= p
    <3>1. p - Start \in Allocated /\ Start + (p - Start) = p /\ p < pageCount
      BY <1>1, <2>1 DEF Allocated
    <3> QED
      BY <1>2, <3>1
  <2>2. CASE p < Start
    <3>1. PICK i \in Allocated : i = p - Start + pageCount
      BY <1>1, <2>2 DEF Allocated
    <3>2. ~(Start + i < pageCount) /\ Start + i - pageCount = p
      BY <1>1, <2>2, <3>1 DEF Allocated
    <3> QED
      BY <1>2, <3>2
  <2> QED
    BY <1>1, <2>1, <2>2 DEF Allocated
<1> QED
  BY <1>3, <1>4

\* The page insert stops at has room.
LEMMA FirstFitting ==
  ASSUME pageCount \in Nat, hint \in Nat, NEW n, Fitting(n) # {}
  PROVE  /\ Probe(Min(Fitting(n))) \in Allocated
         /\ Fits(pages[Probe(Min(Fitting(n)))], n)
<1>1. Fitting(n) \in SUBSET Nat
  BY DEF Fitting, Allocated
<1>2. Min(Fitting(n)) \in Fitting(n)
  BY <1>1, MinIsLeast
<1> QED
  BY <1>2, EveryPageIsTried DEF Fitting

\* When insert stops at none, none has.
LEMMA NoneFitting ==
  ASSUME pageCount \in Nat, hint \in Nat, NEW n, Fitting(n) = {}
  PROVE  \A p \in Allocated : ~Fits(pages[p], n)
BY EveryPageIsTried DEF Fitting


-----------------------------------------------------------------------------
(***************************************************************************)
(* The inductive invariant.  Nothing but the position of a cursor says     *)
(* which records it still has to return: they have to lie in front of it,  *)
(* on the pages up to its end, and that is what every operation on the     *)
(* store and on the other cursors preserves.                               *)
(***************************************************************************)

\* Record s of page p is one the cursor will come to.
Ahead(c, p, s) ==
  /\ p < cursor[c].end
  /\ p > cursor[c].page \/ (p = cursor[c].page /\ s >= cursor[c].slot)

OwedAreAhead ==
  \A c \in Cursors : \A p, s : <<p, s>> \in owed[c] =>
    p \in Allocated /\ s \in Live(pages[p]) /\ Ahead(c, p, s)
EndsAreInside == \A c \in Cursors : cursor[c].end <= pageCount
DoneAtEnd == \A c \in Cursors : done[c] => ~(cursor[c].page < cursor[c].end)

IInv == TypeOK /\ OwedAreAhead /\ EndsAreInside /\ DoneAtEnd

\* A cursor that was dropped or never made points nowhere.
LEMMA NoCursorFields == NoCursor.page = 0 /\ NoCursor.slot = 1 /\ NoCursor.end = -1
BY DEF NoCursor

\* A cursor has pages to read when its page is before its end.
LEMMA ReadingMeaning ==
  ASSUME NEW c \in Cursors
  PROVE  Reading(c) <=> cursor[c].page < cursor[c].end
BY NoCursorFields DEF Reading, Reaches, Active

\* The pages of the file satisfy what insert and replace go by.
LEMMA PageFacts ==
  ASSUME TypeOK, NEW p \in PageIds
  PROVE  /\ pages[p] \in Contents
         /\ p \in Allocated => Used(pages[p]) <= PageSize
         /\ p \notin Allocated => pages[p] = <<>>
BY MaxPagesAssumption DEF TypeOK, Contents, Allocated, PageIds

\* The counts the store keeps are small naturals.
LEMMA CountFacts ==
  ASSUME TypeOK
  PROVE  /\ pageCount \in Nat /\ pageCount <= MaxPages /\ hint \in Nat
         /\ Allocated \subseteq PageIds /\ PageIds \subseteq Nat
BY MaxPagesAssumption DEF TypeOK, Allocated, PageIds

\* The types of a cursor in use.
LEMMA CursorFacts ==
  ASSUME TypeOK, NEW c \in Cursors
  PROVE  /\ cursor[c].page \in Nat /\ cursor[c].page <= MaxPages
         /\ cursor[c].slot \in Nat /\ 1 <= cursor[c].slot /\ cursor[c].slot <= PageSize + 1
         /\ cursor[c].end \in Int /\ cursor[c].end <= MaxPages
         /\ c \in Active => cursor[c] \in Positions /\ cursor[c].end \in Nat
BY NoCursorFields, MaxPagesAssumption, SizesAssumption DEF TypeOK, Positions, Active

\* Initially no page holds a record and no cursor is open.
LEMMA InitIInv ==
  ASSUME Init
  PROVE  IInv
<1>1. \A p \in PageIds : ~(p < pageCount) /\ pages[p] = <<>>
  BY MaxPagesAssumption DEF Init, PageIds
<1>2. pageCount \in 0 .. MaxPages /\ hint \in PageIds \cup {0}
  BY MaxPagesAssumption DEF Init
<1>3. pages \in [PageIds -> Seq(Sizes \cup {0})]
  BY DEF Init
<1>4. cursor \in [Cursors -> Positions \cup {NoCursor}]
  BY DEF Init
<1>5. owed \in [Cursors -> SUBSET (PageIds \X (1 .. PageSize))] /\ done \in [Cursors -> BOOLEAN]
  BY DEF Init
<1>6. TypeOK
  BY <1>1, <1>2, <1>3, <1>4, <1>5 DEF TypeOK
<1>7. OwedAreAhead /\ DoneAtEnd
  BY DEF Init, OwedAreAhead, DoneAtEnd
<1>8. EndsAreInside
  BY NoCursorFields DEF Init, EndsAreInside
<1> QED
  BY <1>6, <1>7, <1>8 DEF IInv

\* A step that leaves the cursors alone and the records in their slots keeps what
\* they owe in front of them.
LEMMA RecordsStay ==
  ASSUME IInv, UNCHANGED cursorVars, pageCount <= pageCount', pageCount' \in Nat,
         \A p \in Allocated : Live(pages[p]) \subseteq Live(pages'[p])
  PROVE  OwedAreAhead' /\ EndsAreInside' /\ DoneAtEnd'
<1>1. \A p \in Allocated : p \in Allocated'
  <2>1. pageCount \in Nat
    BY CountFacts DEF IInv
  <2>2. Allocated' = 0 .. pageCount' - 1
    BY DEF Allocated
  <2>3. 0 .. pageCount - 1 \subseteq 0 .. pageCount' - 1
    BY <2>1
  <2> QED
    BY <2>2, <2>3 DEF Allocated
<1>2. OwedAreAhead'
  BY <1>1 DEF IInv, OwedAreAhead, Ahead, cursorVars
<1>3. EndsAreInside'
  <2> SUFFICES ASSUME NEW c \in Cursors PROVE cursor'[c].end <= pageCount'
    BY DEF EndsAreInside
  <2>1. cursor[c].end \in Int /\ cursor[c].end <= pageCount /\ pageCount \in Nat
    BY CountFacts, CursorFacts DEF IInv, EndsAreInside
  <2>2. cursor'[c] = cursor[c]
    BY DEF cursorVars
  <2> QED
    BY <2>1, <2>2
<1>4. DoneAtEnd'
  BY DEF IInv, DoneAtEnd, cursorVars
<1> QED
  BY <1>2, <1>3, <1>4

\* Storing a record that fits, on a page of the file or on one just added.
LEMMA StoreIInv ==
  ASSUME IInv, UNCHANGED cursorVars, NEW p \in PageIds, NEW n \in Sizes, Store(p, n),
         Fits(pages[p], n), pageCount' \in 0 .. MaxPages, p < pageCount',
         pageCount' = pageCount \/ (pageCount' = pageCount + 1 /\ p = pageCount)
  PROVE  IInv'
<1>1. TypeOK
  BY DEF IInv
<1>2. pages' = [pages EXCEPT ![p] = WithRecord(pages[p], n)] /\ hint' = p
  BY DEF Store
<1>3. pages \in [PageIds -> Seq(Sizes \cup {0})]
  BY <1>1 DEF TypeOK
<1>4. /\ WithRecord(pages[p], n) \in Contents
      /\ Used(WithRecord(pages[p], n)) <= PageSize
      /\ Live(pages[p]) \subseteq Live(WithRecord(pages[p], n))
  BY <1>1, PageFacts, InsertedRecord
<1>5. pages'[p] = WithRecord(pages[p], n) /\ \A q \in PageIds \ {p} : pages'[q] = pages[q]
  BY <1>2, <1>3
<1>6. pages' \in [PageIds -> Seq(Sizes \cup {0})]
  BY <1>2, <1>3, <1>4 DEF Contents
<1>7. \A q \in PageIds : IF q < pageCount' THEN Used(pages'[q]) <= PageSize ELSE pages'[q] = <<>>
  <2> SUFFICES ASSUME NEW q \in PageIds
               PROVE  IF q < pageCount' THEN Used(pages'[q]) <= PageSize ELSE pages'[q] = <<>>
    OBVIOUS
  <2>1. CASE q = p
    BY <2>1, <1>4, <1>5
  <2>2. CASE q # p
    <3>1. q < pageCount' <=> q < pageCount
      BY <2>2, <1>1, CountFacts
    <3>2. IF q < pageCount THEN Used(pages[q]) <= PageSize ELSE pages[q] = <<>>
      BY <1>1 DEF TypeOK
    <3> QED
      BY <2>2, <3>1, <3>2, <1>5
  <2> QED
    BY <2>1, <2>2
<1>8. TypeOK'
  BY <1>1, <1>2, <1>6, <1>7 DEF TypeOK, cursorVars
<1>9. \A q \in Allocated : Live(pages[q]) \subseteq Live(pages'[q])
  BY <1>1, <1>4, <1>5, CountFacts
<1>10. pageCount <= pageCount' /\ pageCount' \in Nat
  BY <1>1, CountFacts, MaxPagesAssumption
<1> QED
  BY <1>8, <1>9, <1>10, RecordsStay DEF IInv


-----------------------------------------------------------------------------
(***************************************************************************)
(* The operations of the store.                                            *)
(***************************************************************************)

\* A record goes to the first page with room.
LEMMA InsertIInv ==
  ASSUME IInv, NEW n \in Sizes, Insert(n)
  PROVE  IInv'
<1> DEFINE p == Probe(Min(Fitting(n)))
<1>1. pageCount \in Nat /\ pageCount <= MaxPages /\ hint \in Nat /\ Allocated \subseteq PageIds
  BY CountFacts DEF IInv
<1>2. p \in Allocated /\ Fits(pages[p], n)
  BY <1>1, FirstFitting DEF Insert
<1>3. Store(p, n) /\ pageCount' = pageCount /\ UNCHANGED cursorVars
  BY DEF Insert
<1> HIDE DEF p
<1>4. p < pageCount' /\ pageCount' \in 0 .. MaxPages /\ p \in PageIds
  BY <1>1, <1>2, <1>3, MaxPagesAssumption DEF Allocated
<1> QED
  BY <1>2, <1>3, <1>4, StoreIInv

\* Or to a page the file grows by.
LEMMA InsertIntoNewPageIInv ==
  ASSUME IInv, NEW n \in Sizes, InsertIntoNewPage(n)
  PROVE  IInv'
<1>1. pageCount \in Nat /\ pageCount < MaxPages
  BY CountFacts, MaxPagesAssumption DEF IInv, InsertIntoNewPage, MayGrow
<1>2. pageCount \in PageIds /\ pageCount \notin Allocated
  BY <1>1, MaxPagesAssumption DEF PageIds, Allocated
<1>3. pages[pageCount] = <<>>
  BY <1>2, PageFacts DEF IInv
<1>4. Fits(pages[pageCount], n)
  BY <1>3, EmptyPageFits DEF InsertIntoNewPage
<1>5. /\ Store(pageCount, n) /\ pageCount' = pageCount + 1 /\ UNCHANGED cursorVars
      /\ pageCount' \in 0 .. MaxPages /\ pageCount < pageCount'
  BY <1>1, MaxPagesAssumption DEF InsertIntoNewPage
<1> QED
  BY <1>2, <1>4, <1>5, StoreIInv

\* A growth cut short adds an empty page.
LEMMA AllocationFailsIInv ==
  ASSUME IInv, NEW n \in Sizes, AllocationFails(n)
  PROVE  IInv'
<1>1. TypeOK
  BY DEF IInv
<1>2. pageCount \in Nat /\ pageCount < MaxPages
  BY CountFacts, MaxPagesAssumption DEF IInv, AllocationFails, MayGrow
<1>3. /\ pageCount' = pageCount + 1 /\ pageCount' \in 0 .. MaxPages /\ pageCount' \in Nat
      /\ pages' = pages /\ hint' = hint /\ UNCHANGED cursorVars
  BY <1>2, MaxPagesAssumption DEF AllocationFails
<1>4. \A q \in PageIds : IF q < pageCount' THEN Used(pages'[q]) <= PageSize ELSE pages'[q] = <<>>
  <2> SUFFICES ASSUME NEW q \in PageIds
               PROVE  IF q < pageCount' THEN Used(pages[q]) <= PageSize ELSE pages[q] = <<>>
    BY <1>3
  <2>1. IF q < pageCount THEN Used(pages[q]) <= PageSize ELSE pages[q] = <<>>
    BY <1>1 DEF TypeOK
  <2>2. Used(<<>>) <= PageSize
    BY EmptyPageFits DEF AllocationFails
  <2>3. q < pageCount => q < pageCount'
    BY <1>1, <1>2, <1>3, CountFacts
  <2> QED
    BY <2>1, <2>2, <2>3
<1>5. TypeOK'
  BY <1>1, <1>3, <1>4 DEF TypeOK, cursorVars
<1>6. OwedAreAhead' /\ EndsAreInside' /\ DoneAtEnd'
  BY <1>2, <1>3, RecordsStay
<1> QED
  BY <1>5, <1>6 DEF IInv

\* Every RecordId that names a record is on a page of the file.
LEMMA LiveIdMeaning ==
  ASSUME NEW id \in LiveIds
  PROVE  /\ id[1] \in Allocated /\ id[2] \in Live(pages[id[1]]) /\ id = <<id[1], id[2]>>
BY DEF LiveIds

\* What an id names when its page is typed.
LEMMA RecordsAreTyped ==
  ASSUME TypeOK
  PROVE  LiveIds \subseteq PageIds \X (1 .. PageSize)
<1> SUFFICES ASSUME NEW p \in Allocated, NEW s \in Live(pages[p])
             PROVE  p \in PageIds /\ s \in 1 .. PageSize
  BY DEF LiveIds
<1>1. p \in PageIds
  BY CountFacts
<1>2. pages[p] \in Contents /\ Used(pages[p]) <= PageSize
  BY <1>1, PageFacts
<1>3. Len(pages[p]) <= PageSize
  BY <1>2, UsedIsNat
<1>4. Len(pages[p]) \in Nat /\ s \in 1 .. Len(pages[p])
  BY <1>2 DEF Live, Contents
<1> QED
  BY <1>1, <1>3, <1>4, SizesAssumption

\* The types after a change of one slot of one page.
LEMMA SlotChangeTyped ==
  ASSUME TypeOK, NEW p \in Allocated, NEW s \in Live(pages[p]), NEW n \in Sizes \cup {0},
         Used(pages[p]) - pages[p][s] + n <= PageSize,
         pages' = [pages EXCEPT ![p][s] = n],
         UNCHANGED <<pageCount, hint, cursor, done>>,
         owed' \in [Cursors -> SUBSET (PageIds \X (1 .. PageSize))]
  PROVE  /\ TypeOK'
         /\ \A q \in Allocated :
              Live(pages'[q]) = IF q = p /\ n = 0 THEN Live(pages[q]) \ {s} ELSE Live(pages[q])
<1>1. p \in PageIds /\ Allocated \subseteq PageIds
  BY CountFacts
<1>2. pages \in [PageIds -> Seq(Sizes \cup {0})]
  BY DEF TypeOK
<1>3. pages' = [pages EXCEPT ![p] = [pages[p] EXCEPT ![s] = n]]
  BY <1>1, <1>2
<1> DEFINE new == [pages[p] EXCEPT ![s] = n]
<1>4. /\ new \in Contents
      /\ Used(new) <= PageSize
      /\ Live(new) = IF n = 0 THEN Live(pages[p]) \ {s} ELSE Live(pages[p])
  <2>1. pages[p] \in Contents
    BY <1>1, PageFacts
  <2>2. \A content \in Contents : \A t \in Live(content) :
          Used(content) - content[t] + n <= PageSize
            => /\ [content EXCEPT ![t] = n] \in Contents
               /\ Used([content EXCEPT ![t] = n]) <= PageSize
               /\ Live([content EXCEPT ![t] = n]) = IF n = 0 THEN Live(content) \ {t} ELSE Live(content)
    BY ReplacedRecord, Zenon
  <2> QED
    BY <2>1, <2>2, Zenon
<1> HIDE DEF new
<1>5. pages'[p] = new /\ \A q \in PageIds \ {p} : pages'[q] = pages[q]
  BY <1>1, <1>2, <1>3 DEF new
<1>6. pages' \in [PageIds -> Seq(Sizes \cup {0})]
  BY <1>2, <1>3, <1>4 DEF Contents, new
<1>7. \A q \in PageIds : IF q < pageCount' THEN Used(pages'[q]) <= PageSize ELSE pages'[q] = <<>>
  <2> SUFFICES ASSUME NEW q \in PageIds
               PROVE  IF q < pageCount THEN Used(pages'[q]) <= PageSize ELSE pages'[q] = <<>>
    OBVIOUS
  <2>1. CASE q = p
    <3>1. p < pageCount
      BY CountFacts DEF Allocated
    <3> QED
      BY <2>1, <3>1, <1>4, <1>5
  <2>2. CASE q # p
    BY <2>2, <1>5 DEF TypeOK
  <2> QED
    BY <2>1, <2>2
<1>8. TypeOK'
  BY <1>6, <1>7 DEF TypeOK
<1>9. \A q \in Allocated :
        Live(pages'[q]) = IF q = p /\ n = 0 THEN Live(pages[q]) \ {s} ELSE Live(pages[q])
  <2> SUFFICES ASSUME NEW q \in Allocated
               PROVE  Live(pages'[q]) = IF q = p /\ n = 0 THEN Live(pages[q]) \ {s} ELSE Live(pages[q])
    OBVIOUS
  <2>1. CASE q = p
    BY <2>1, <1>4, <1>5
  <2>2. CASE q # p
    BY <2>2, <1>1, <1>5
  <2> QED
    BY <2>1, <2>2
<1> QED
  BY <1>8, <1>9

\* A record is written over in its slot.
LEMMA ReplaceIInv ==
  ASSUME IInv, NEW id \in LiveIds, NEW n \in Sizes, Replace(id, n)
  PROVE  IInv'
<1>1. TypeOK
  BY DEF IInv
<1>2. PICK p, s : p \in Allocated /\ s \in Live(pages[p]) /\ id[1] = p /\ id[2] = s
  BY LiveIdMeaning
<1>3. /\ Used(pages[p]) - pages[p][s] + n <= PageSize
      /\ pages' = [pages EXCEPT ![p][s] = n]
      /\ UNCHANGED <<pageCount, hint, cursorVars>>
  BY <1>2 DEF Replace
<1>4. owed' \in [Cursors -> SUBSET (PageIds \X (1 .. PageSize))]
  BY <1>1, <1>3 DEF TypeOK, cursorVars
<1>5. UNCHANGED <<pageCount, hint, cursor, done>> /\ n \in Sizes \cup {0} /\ n # 0
  BY <1>3, SizesAreNat DEF cursorVars
<1>6. TypeOK' /\ \A q \in Allocated : Live(pages'[q]) = Live(pages[q])
  <2>1. /\ TypeOK'
        /\ \A q \in Allocated :
             Live(pages'[q]) = IF q = p /\ n = 0 THEN Live(pages[q]) \ {s} ELSE Live(pages[q])
    <3>1. /\ p \in Allocated /\ s \in Live(pages[p]) /\ n \in Sizes \cup {0}
          /\ Used(pages[p]) - pages[p][s] + n <= PageSize
          /\ pages' = [pages EXCEPT ![p][s] = n]
          /\ UNCHANGED <<pageCount, hint, cursor, done>>
      BY <1>2, <1>3, <1>5
    <3> QED
      BY <1>1, <1>4, <3>1, SlotChangeTyped
  <2> QED
    BY <1>5, <2>1
<1>7. OwedAreAhead' /\ EndsAreInside' /\ DoneAtEnd'
  BY <1>1, <1>3, <1>6, CountFacts, RecordsStay
<1> QED
  BY <1>6, <1>7 DEF IInv

\* A record is deleted, and no cursor owes it any more.
LEMMA EraseIInv ==
  ASSUME IInv, NEW id \in LiveIds, Erase(id)
  PROVE  IInv'
<1>1. TypeOK
  BY DEF IInv
<1>2. PICK p, s : p \in Allocated /\ s \in Live(pages[p]) /\ id[1] = p /\ id[2] = s /\ id = <<p, s>>
  BY LiveIdMeaning
<1>3. /\ pages' = [pages EXCEPT ![p][s] = 0]
      /\ owed' = [c \in Cursors |-> owed[c] \ {<<p, s>>}]
      /\ UNCHANGED <<pageCount, hint, cursor, done>>
  BY <1>2 DEF Erase
<1>4. owed' \in [Cursors -> SUBSET (PageIds \X (1 .. PageSize))]
  BY <1>1, <1>3 DEF TypeOK
<1>5. Used(pages[p]) - pages[p][s] + 0 <= PageSize
  <2>1. p \in PageIds
    BY <1>1, <1>2, CountFacts
  <2>2. pages[p] \in Contents /\ Used(pages[p]) <= PageSize
    BY <1>1, <1>2, <2>1, PageFacts
  <2>3. pages[p][s] \in Nat
    BY <1>2, <2>2, SizesAreNat DEF Contents, Live
  <2>4. Used(pages[p]) \in Nat
    BY <2>2, UsedIsNat
  <2> QED
    BY <2>2, <2>3, <2>4, SizesAssumption
<1>6. /\ TypeOK'
      /\ \A q \in Allocated : Live(pages'[q]) = IF q = p THEN Live(pages[q]) \ {s} ELSE Live(pages[q])
  BY <1>1, <1>2, <1>3, <1>4, <1>5, SlotChangeTyped
<1>7. OwedAreAhead'
  <2> SUFFICES ASSUME NEW c \in Cursors, NEW q, NEW t, <<q, t>> \in owed'[c]
               PROVE  (q \in Allocated /\ t \in Live(pages[q]) /\ Ahead(c, q, t))'
    BY DEF OwedAreAhead
  <2>1. <<q, t>> \in owed[c] /\ ~(q = p /\ t = s)
    BY <1>3
  <2>2. q \in Allocated /\ t \in Live(pages[q]) /\ Ahead(c, q, t)
    BY <2>1 DEF IInv, OwedAreAhead
  <2>3. t \in Live(pages'[q])
    BY <1>6, <2>1, <2>2
  <2> QED
    BY <1>3, <2>2, <2>3 DEF Ahead, Allocated
<1>8. EndsAreInside' /\ DoneAtEnd'
  BY <1>3 DEF IInv, EndsAreInside, DoneAtEnd
<1> QED
  BY <1>6, <1>7, <1>8 DEF IInv


-----------------------------------------------------------------------------
(***************************************************************************)
(* The operations of the cursors.                                          *)
(***************************************************************************)

\* A cursor is made at the first page and owes every record there is.
LEMMA OpenCursorIInv ==
  ASSUME IInv, NEW c \in Cursors, OpenCursor(c)
  PROVE  IInv'
<1>1. TypeOK /\ UNCHANGED storeVars
  BY DEF IInv, OpenCursor
<1>2. /\ cursor' = [cursor EXCEPT ![c] = [page |-> 0, slot |-> 1, end |-> pageCount]]
      /\ owed' = [owed EXCEPT ![c] = LiveIds]
      /\ done' = [done EXCEPT ![c] = FALSE]
  BY DEF OpenCursor
<1>3. pageCount \in Nat /\ pageCount <= MaxPages
  BY <1>1, CountFacts
<1>4. TypeOK'
  <2>1. [page |-> 0, slot |-> 1, end |-> pageCount] \in Positions
    BY <1>3, SizesAssumption, MaxPagesAssumption DEF Positions
  <2>2. cursor' \in [Cursors -> Positions \cup {NoCursor}]
    BY <1>1, <1>2, <2>1 DEF TypeOK
  <2>3. owed' \in [Cursors -> SUBSET (PageIds \X (1 .. PageSize))]
    BY <1>1, <1>2, RecordsAreTyped DEF TypeOK
  <2>4. done' \in [Cursors -> BOOLEAN]
    BY <1>1, <1>2 DEF TypeOK
  <2> QED
    BY <1>1, <2>2, <2>3, <2>4 DEF TypeOK, storeVars
<1>5. /\ cursor'[c].page = 0 /\ cursor'[c].slot = 1 /\ cursor'[c].end = pageCount
      /\ owed'[c] = LiveIds /\ done'[c] = FALSE
  BY <1>1, <1>2 DEF TypeOK
<1>6. \A d \in Cursors \ {c} : cursor'[d] = cursor[d] /\ owed'[d] = owed[d] /\ done'[d] = done[d]
  BY <1>1, <1>2 DEF TypeOK
<1>7. OwedAreAhead'
  <2> SUFFICES ASSUME NEW d \in Cursors, NEW p, NEW s, <<p, s>> \in owed'[d]
               PROVE  p \in Allocated /\ s \in Live(pages[p]) /\ Ahead(d, p, s)'
    BY <1>1 DEF OwedAreAhead, Allocated, storeVars
  <2>1. CASE d = c
    <3>1. p \in Allocated /\ s \in Live(pages[p])
      BY <2>1, <1>5 DEF LiveIds
    <3>2. p \in Nat /\ p < pageCount /\ s \in Nat /\ 1 <= s
      <4>1. p \in Nat /\ p < pageCount
        BY <1>3, <3>1 DEF Allocated
      <4>2. pages[p] \in Contents
        BY <1>1, <3>1, CountFacts, PageFacts
      <4> QED
        BY <3>1, <4>1, <4>2 DEF Live, Contents
    <3> QED
      BY <2>1, <1>5, <3>1, <3>2 DEF Ahead
  <2>2. CASE d # c
    BY <2>2, <1>6 DEF IInv, OwedAreAhead, Ahead
  <2> QED
    BY <2>1, <2>2
<1>8. EndsAreInside'
  BY <1>1, <1>3, <1>5, <1>6 DEF IInv, EndsAreInside, storeVars
<1>9. DoneAtEnd'
  BY <1>5, <1>6 DEF IInv, DoneAtEnd
<1> QED
  BY <1>4, <1>7, <1>8, <1>9 DEF IInv

\* A move hands the position and what is owed to another cursor.
LEMMA MoveCursorIInv ==
  ASSUME IInv, NEW c \in Cursors, NEW d \in Cursors, MoveCursor(c, d)
  PROVE  IInv'
<1>1. TypeOK /\ UNCHANGED storeVars
  BY DEF IInv, MoveCursor
<1>2. c \in Active /\ c # d
  BY DEF MoveCursor
<1>3. /\ cursor' = [cursor EXCEPT ![d] = cursor[c], ![c].page = cursor[c].end]
      /\ owed' = [owed EXCEPT ![d] = owed[c], ![c] = {}]
      /\ done' = [done EXCEPT ![d] = done[c]]
  BY DEF MoveCursor
<1>4. cursor[c] \in Positions /\ cursor[c].end \in Nat /\ cursor[c].end <= MaxPages
  BY <1>1, <1>2, CursorFacts
<1>5. cursor'[c] = [cursor[c] EXCEPT !.page = cursor[c].end] /\ cursor'[d] = cursor[c]
  BY <1>1, <1>2, <1>3 DEF TypeOK
<1>6. cursor'[c] \in Positions /\ cursor'[c].page = cursor[c].end /\ cursor'[c].end = cursor[c].end
  BY <1>4, <1>5, MaxPagesAssumption DEF Positions
<1>7. /\ owed'[d] = owed[c] /\ owed'[c] = {} /\ done'[d] = done[c] /\ done'[c] = done[c]
      /\ \A e \in Cursors \ {c, d} : cursor'[e] = cursor[e] /\ owed'[e] = owed[e] /\ done'[e] = done[e]
  BY <1>1, <1>2, <1>3 DEF TypeOK
<1>8. TypeOK'
  <2>1. cursor' \in [Cursors -> Positions \cup {NoCursor}]
    <3>1. DOMAIN cursor' = Cursors /\ cursor' = [e \in Cursors |-> cursor'[e]]
      BY <1>1, <1>3 DEF TypeOK
    <3>2. \A e \in Cursors : cursor'[e] \in Positions \cup {NoCursor}
      BY <1>1, <1>4, <1>5, <1>6, <1>7 DEF TypeOK
    <3> QED
      BY <3>1, <3>2
  <2>2. owed' \in [Cursors -> SUBSET (PageIds \X (1 .. PageSize))]
    BY <1>1, <1>3 DEF TypeOK
  <2>3. done' \in [Cursors -> BOOLEAN]
    BY <1>1, <1>3 DEF TypeOK
  <2> QED
    BY <1>1, <2>1, <2>2, <2>3 DEF TypeOK, storeVars
<1>9. OwedAreAhead'
  <2> SUFFICES ASSUME NEW e \in Cursors, NEW p, NEW s, <<p, s>> \in owed'[e]
               PROVE  p \in Allocated /\ s \in Live(pages[p]) /\ Ahead(e, p, s)'
    BY <1>1 DEF OwedAreAhead, Allocated, storeVars
  <2>1. CASE e = d
    BY <2>1, <1>5, <1>7 DEF IInv, OwedAreAhead, Ahead
  <2>2. CASE e = c
    BY <2>2, <1>7
  <2>3. CASE e \notin {c, d}
    BY <2>3, <1>7 DEF IInv, OwedAreAhead, Ahead
  <2> QED
    BY <2>1, <2>2, <2>3
<1>10. EndsAreInside'
  BY <1>1, <1>5, <1>6, <1>7 DEF IInv, EndsAreInside, storeVars
<1>11. DoneAtEnd'
  <2> SUFFICES ASSUME NEW e \in Cursors, done'[e] PROVE ~(cursor'[e].page < cursor'[e].end)
    BY DEF DoneAtEnd
  <2>1. CASE e = c
    BY <2>1, <1>4, <1>6
  <2>2. CASE e = d
    BY <2>2, <1>5, <1>7 DEF IInv, DoneAtEnd
  <2>3. CASE e \notin {c, d}
    BY <2>3, <1>7 DEF IInv, DoneAtEnd
  <2> QED
    BY <2>1, <2>2, <2>3
<1> QED
  BY <1>8, <1>9, <1>10, <1>11 DEF IInv

\* A dropped cursor owes nothing.
LEMMA DropCursorIInv ==
  ASSUME IInv, NEW c \in Cursors, DropCursor(c)
  PROVE  IInv'
<1>1. TypeOK /\ UNCHANGED storeVars
  BY DEF IInv, DropCursor
<1>2. /\ cursor' = [cursor EXCEPT ![c] = NoCursor]
      /\ owed' = [owed EXCEPT ![c] = {}]
      /\ done' = [done EXCEPT ![c] = FALSE]
  BY DEF DropCursor
<1>3. TypeOK'
  BY <1>1, <1>2 DEF TypeOK, storeVars
<1>4. /\ cursor'[c] = NoCursor /\ owed'[c] = {} /\ done'[c] = FALSE
      /\ \A d \in Cursors \ {c} : cursor'[d] = cursor[d] /\ owed'[d] = owed[d] /\ done'[d] = done[d]
  BY <1>1, <1>2 DEF TypeOK
<1>5. OwedAreAhead'
  BY <1>1, <1>4 DEF IInv, OwedAreAhead, Ahead, Allocated, storeVars
<1>6. EndsAreInside'
  BY <1>1, <1>4, CountFacts, NoCursorFields DEF IInv, EndsAreInside, storeVars
<1>7. DoneAtEnd'
  BY <1>4 DEF IInv, DoneAtEnd
<1> QED
  BY <1>3, <1>5, <1>6, <1>7 DEF IInv

\* What a cursor comes to next is a slot of its page.
LEMMA RemainingSlots ==
  ASSUME TypeOK, EndsAreInside, NEW c \in Cursors, Reading(c)
  PROVE  /\ cursor[c].page \in Allocated
         /\ Remaining(c) \in SUBSET Nat
         /\ \A s \in Remaining(c) : 1 <= s /\ s <= PageSize
<1>1. cursor[c].page \in Nat /\ cursor[c].page < cursor[c].end /\ cursor[c].end \in Int
  BY CursorFacts, ReadingMeaning
<1>2. cursor[c].page \in Allocated
  BY <1>1, CountFacts DEF EndsAreInside, Allocated
<1>3. pages[cursor[c].page] \in Contents /\ Used(pages[cursor[c].page]) <= PageSize
  BY <1>2, CountFacts, PageFacts
<1>4. Len(pages[cursor[c].page]) <= PageSize
  BY <1>3, UsedIsNat
<1>5. \A s \in Remaining(c) : s \in 1 .. Len(pages[cursor[c].page])
  BY <1>3 DEF Remaining, Live, Contents
<1>6. Len(pages[cursor[c].page]) \in Nat /\ PageSize \in Nat
  BY <1>3, SizesAssumption DEF Contents
<1> QED
  BY <1>2, <1>4, <1>5, <1>6

\* Only the position, the debt and the end mark of one cursor change; its end does
\* not.
LEMMA CursorAdvances ==
  ASSUME IInv, UNCHANGED storeVars, NEW c \in Cursors,
         cursor' \in [Cursors -> Positions \cup {NoCursor}], done' \in [Cursors -> BOOLEAN],
         owed' \in [Cursors -> SUBSET (PageIds \X (1 .. PageSize))],
         \A d \in Cursors \ {c} : cursor'[d] = cursor[d] /\ owed'[d] = owed[d] /\ done'[d] = done[d],
         cursor'[c].end = cursor[c].end,
         owed'[c] \subseteq owed[c],
         \A p, s : <<p, s>> \in owed'[c] => Ahead(c, p, s)',
         done'[c] => ~(cursor'[c].page < cursor'[c].end)
  PROVE  IInv'
<1>1. TypeOK'
  BY DEF IInv, TypeOK, storeVars
<1>2. OwedAreAhead'
  <2> SUFFICES ASSUME NEW d \in Cursors, NEW p, NEW s, <<p, s>> \in owed'[d]
               PROVE  p \in Allocated /\ s \in Live(pages[p]) /\ Ahead(d, p, s)'
    BY DEF OwedAreAhead, Allocated, storeVars
  <2>1. CASE d = c
    BY <2>1 DEF IInv, OwedAreAhead
  <2>2. CASE d # c
    BY <2>2 DEF IInv, OwedAreAhead, Ahead
  <2> QED
    BY <2>1, <2>2
<1>3. EndsAreInside'
  BY DEF IInv, EndsAreInside, storeVars
<1>4. DoneAtEnd'
  BY DEF IInv, DoneAtEnd
<1> QED
  BY <1>1, <1>2, <1>3, <1>4 DEF IInv


\* The next record: the first of those that remain, and the cursor moves past it.
LEMMA ReturnRecordIInv ==
  ASSUME IInv, NEW c \in Cursors, ReturnRecord(c)
  PROVE  IInv'
<1> DEFINE s == Min(Remaining(c))
<1>1. TypeOK /\ UNCHANGED storeVars /\ Reading(c) /\ Remaining(c) # {}
  BY DEF IInv, ReturnRecord
<1>2. /\ cursor[c].page \in Allocated
      /\ Remaining(c) \in SUBSET Nat
      /\ \A t \in Remaining(c) : 1 <= t /\ t <= PageSize
  BY <1>1, RemainingSlots DEF IInv
<1>3. s \in Remaining(c) /\ s \in Nat /\ \A t \in Remaining(c) : s <= t
  BY <1>1, <1>2, MinIsLeast
<1>4. /\ cursor' = [cursor EXCEPT ![c].slot = s + 1]
      /\ owed' = [owed EXCEPT ![c] = owed[c] \ {<<cursor[c].page, s>>}]
      /\ done' = done
  BY DEF ReturnRecord
<1> HIDE DEF s
<1>5. c \in Active
  BY <1>1 DEF Reading
<1>6. cursor[c] \in Positions
  BY <1>1, <1>5, CursorFacts
<1>7. cursor'[c] = [cursor[c] EXCEPT !.slot = s + 1]
  BY <1>1, <1>4 DEF TypeOK
<1>8. /\ cursor'[c] \in Positions /\ cursor'[c].slot = s + 1
      /\ cursor'[c].page = cursor[c].page /\ cursor'[c].end = cursor[c].end
  BY <1>2, <1>3, <1>6, <1>7, SizesAssumption DEF Positions
<1>9. cursor' \in [Cursors -> Positions \cup {NoCursor}]
  <2>1. DOMAIN cursor' = Cursors /\ cursor' = [d \in Cursors |-> cursor'[d]]
    BY <1>1, <1>4 DEF TypeOK
  <2>2. \A d \in Cursors : cursor'[d] \in Positions \cup {NoCursor}
    BY <1>1, <1>4, <1>8 DEF TypeOK
  <2> QED
    BY <2>1, <2>2
<1>10. owed' \in [Cursors -> SUBSET (PageIds \X (1 .. PageSize))] /\ done' \in [Cursors -> BOOLEAN]
  BY <1>1, <1>4 DEF TypeOK
<1>11. \A d \in Cursors \ {c} : cursor'[d] = cursor[d] /\ owed'[d] = owed[d] /\ done'[d] = done[d]
  BY <1>1, <1>4 DEF TypeOK
<1>12. owed'[c] = owed[c] \ {<<cursor[c].page, s>>}
  BY <1>1, <1>4 DEF TypeOK
<1>13. ASSUME NEW p, NEW t, <<p, t>> \in owed'[c] PROVE Ahead(c, p, t)'
  <2>1. <<p, t>> \in owed[c] /\ ~(p = cursor[c].page /\ t = s)
    BY <1>12, <1>13
  <2>2. p \in Allocated /\ t \in Live(pages[p]) /\ Ahead(c, p, t)
    BY <2>1 DEF IInv, OwedAreAhead
  <2>3. CASE p = cursor[c].page
    <3>1. p \in Nat
      BY <1>1, <2>2, CountFacts
    <3>2. t >= cursor[c].slot
      BY <2>2, <2>3, <3>1 DEF Ahead
    <3>3. t \in Remaining(c) /\ t # s
      BY <2>1, <2>2, <2>3, <3>2 DEF Remaining
    <3>4. t >= s + 1
      BY <1>2, <1>3, <3>3
    <3> QED
      BY <1>8, <2>2, <2>3, <3>4 DEF Ahead
  <2>4. CASE p # cursor[c].page
    BY <1>8, <2>2, <2>4 DEF Ahead
  <2> QED
    BY <2>3, <2>4
<1>14. ~done'[c]
  BY <1>1, <1>4, ReadingMeaning DEF IInv, DoneAtEnd
<1> QED
  BY <1>1, <1>8, <1>9, <1>10, <1>11, <1>12, <1>13, <1>14, CursorAdvances

\* A page with nothing left is one on which nothing is owed.
LEMMA SkipPageIInv ==
  ASSUME IInv, NEW c \in Cursors, SkipPage(c)
  PROVE  IInv'
<1>1. TypeOK /\ UNCHANGED storeVars /\ Reading(c) /\ Remaining(c) = {}
  BY DEF IInv, SkipPage
<1>2. /\ cursor' = [cursor EXCEPT ![c].page = cursor[c].page + 1, ![c].slot = 1]
      /\ owed' = owed /\ done' = done
  BY DEF SkipPage
<1>3. c \in Active
  BY <1>1 DEF Reading
<1>4. /\ cursor[c] \in Positions /\ cursor[c].page \in Nat /\ cursor[c].end \in Nat
      /\ cursor[c].page < cursor[c].end /\ cursor[c].end <= MaxPages
  BY <1>1, <1>3, CursorFacts, ReadingMeaning
<1>5. cursor'[c] = [page |-> cursor[c].page + 1, slot |-> 1, end |-> cursor[c].end]
  <2>1. cursor'[c] = [cursor[c] EXCEPT !.page = cursor[c].page + 1, !.slot = 1]
    BY <1>1, <1>2 DEF TypeOK
  <2> QED
    BY <1>4, <2>1 DEF Positions
<1>6. /\ cursor'[c] \in Positions /\ cursor'[c].slot = 1
      /\ cursor'[c].page = cursor[c].page + 1 /\ cursor'[c].end = cursor[c].end
  BY <1>4, <1>5, SizesAssumption, MaxPagesAssumption DEF Positions
<1>7. cursor' \in [Cursors -> Positions \cup {NoCursor}]
  <2>1. DOMAIN cursor' = Cursors /\ cursor' = [d \in Cursors |-> cursor'[d]]
    BY <1>1, <1>2 DEF TypeOK
  <2>2. \A d \in Cursors : cursor'[d] \in Positions \cup {NoCursor}
    BY <1>1, <1>2, <1>6 DEF TypeOK
  <2> QED
    BY <2>1, <2>2
<1>8. owed' \in [Cursors -> SUBSET (PageIds \X (1 .. PageSize))] /\ done' \in [Cursors -> BOOLEAN]
  BY <1>1, <1>2 DEF TypeOK
<1>9. \A d \in Cursors \ {c} : cursor'[d] = cursor[d] /\ owed'[d] = owed[d] /\ done'[d] = done[d]
  BY <1>1, <1>2 DEF TypeOK
<1>10. ASSUME NEW p, NEW t, <<p, t>> \in owed'[c] PROVE Ahead(c, p, t)'
  <2>1. p \in Allocated /\ t \in Live(pages[p]) /\ Ahead(c, p, t)
    BY <1>2, <1>10 DEF IInv, OwedAreAhead
  <2>2. p \in Nat /\ t \in Nat /\ 1 <= t
    <3>1. p \in Nat /\ pages[p] \in Contents
      BY <1>1, <2>1, CountFacts, PageFacts
    <3> QED
      BY <2>1, <3>1 DEF Live, Contents
  <2>3. p # cursor[c].page
    BY <1>1, <1>4, <2>1, <2>2 DEF Ahead, Remaining
  <2>4. p > cursor[c].page /\ p < cursor[c].end
    BY <1>4, <2>1, <2>2, <2>3 DEF Ahead
  <2>5. p > cursor[c].page + 1 \/ p = cursor[c].page + 1
    BY <1>4, <2>2, <2>4
  <2> QED
    BY <1>6, <2>2, <2>4, <2>5 DEF Ahead
<1>11. ~done'[c]
  BY <1>1, <1>2, ReadingMeaning DEF IInv, DoneAtEnd
<1> QED
  BY <1>1, <1>2, <1>6, <1>7, <1>8, <1>9, <1>10, <1>11, CursorAdvances

\* next() returns nothing only where there is nothing in front of the cursor.
LEMMA ReturnNothingIInv ==
  ASSUME IInv, NEW c \in Cursors, ReturnNothing(c)
  PROVE  IInv'
<1>1. TypeOK /\ UNCHANGED storeVars /\ ~Reading(c)
  BY DEF IInv, ReturnNothing
<1>2. cursor' = cursor /\ owed' = owed /\ done' = [done EXCEPT ![c] = TRUE]
  BY DEF ReturnNothing
<1>3. TypeOK'
  BY <1>1, <1>2 DEF TypeOK, storeVars
<1>4. OwedAreAhead' /\ EndsAreInside'
  BY <1>1, <1>2 DEF IInv, OwedAreAhead, EndsAreInside, Ahead, Allocated, storeVars
<1>5. DoneAtEnd'
  BY <1>1, <1>2, ReadingMeaning DEF IInv, DoneAtEnd, TypeOK
<1> QED
  BY <1>3, <1>4, <1>5 DEF IInv

\* Reopening sets the hint to the last page, or to 0 in an empty file.
LEMMA ReopenIInv ==
  ASSUME IInv, Reopen
  PROVE  IInv'
<1>1. TypeOK
  BY DEF IInv
<1>2. hint' \in PageIds \cup {0} /\ pageCount' = pageCount /\ pages' = pages /\ UNCHANGED cursorVars
  <2>1. pageCount \in Nat /\ pageCount <= MaxPages
    BY <1>1, CountFacts
  <2>2. pageCount # 0 => pageCount - 1 \in PageIds
    BY <2>1, MaxPagesAssumption DEF PageIds
  <2> QED
    BY <2>2 DEF Reopen
<1>3. TypeOK'
  BY <1>1, <1>2 DEF TypeOK, cursorVars
<1>4. OwedAreAhead' /\ EndsAreInside' /\ DoneAtEnd'
  BY <1>1, <1>2, CountFacts, RecordsStay
<1> QED
  BY <1>3, <1>4 DEF IInv

-----------------------------------------------------------------------------
(***************************************************************************)
(* The theorems.                                                           *)
(***************************************************************************)

\* Every step preserves the invariant.
LEMMA NextIInv ==
  ASSUME IInv, [Next]_vars
  PROVE  IInv'
<1>1. ASSUME NEW n \in Sizes, Insert(n) \/ InsertIntoNewPage(n) \/ AllocationFails(n) PROVE IInv'
  BY <1>1, InsertIInv, InsertIntoNewPageIInv, AllocationFailsIInv
<1>2. ASSUME NEW id \in LiveIds, Erase(id) PROVE IInv'
  BY <1>2, EraseIInv
<1>3. ASSUME NEW id \in LiveIds, NEW n \in Sizes, Replace(id, n) PROVE IInv'
  BY <1>3, ReplaceIInv
<1>4. ASSUME NEW c \in Cursors, OpenCursor(c) \/ DropCursor(c) PROVE IInv'
  BY <1>4, OpenCursorIInv, DropCursorIInv
<1>5. ASSUME NEW c \in Cursors, Advance(c) PROVE IInv'
  BY <1>5, ReturnRecordIInv, SkipPageIInv, ReturnNothingIInv DEF Advance
<1>6. ASSUME NEW c \in Cursors, NEW d \in Cursors, MoveCursor(c, d) PROVE IInv'
  BY <1>6, MoveCursorIInv
<1>7. ASSUME Reopen PROVE IInv'
  BY <1>7, ReopenIInv
<1>8. ASSUME UNCHANGED vars PROVE IInv'
  BY <1>8 DEF IInv, TypeOK, OwedAreAhead, EndsAreInside, DoneAtEnd, Ahead, Allocated, vars
<1> QED
  BY <1>1, <1>2, <1>3, <1>4, <1>5, <1>6, <1>7, <1>8 DEF Next

\* The invariant holds in every state the record store can be in.
THEOREM Invariance == Spec => []IInv
<1>1. Init => IInv
  BY InitIInv
<1>2. IInv /\ [Next]_vars => IInv'
  BY NextIInv
<1> QED
  BY <1>1, <1>2, PTL DEF Spec

\* No sequence of insertions, replacements and deletions overfills a page, and no
\* record lies outside the file.
THEOREM TypeCorrect == Spec => []TypeOK
<1>1. IInv => TypeOK
  BY DEF IInv
<1> QED
  BY <1>1, Invariance, PTL

\* A scan that has ended owes nothing: what was live when its cursor was made was
\* returned or has been deleted, whatever happened to the store in between.
THEOREM ScanCorrect == Spec => []ScanIsComplete
<1>1. IInv => ScanIsComplete
  <2> SUFFICES ASSUME IInv, NEW c \in Cursors, done[c], NEW e \in owed[c] PROVE FALSE
    BY DEF ScanIsComplete
  <2>1. TypeOK
    BY DEF IInv
  <2>2. PICK p, s : e = <<p, s>>
    BY <2>1 DEF TypeOK
  <2>3. p \in Allocated /\ Ahead(c, p, s)
    BY <2>2 DEF IInv, OwedAreAhead
  <2>4. p \in Nat /\ cursor[c].page \in Nat /\ cursor[c].end \in Int
    BY <2>1, <2>3, CountFacts, CursorFacts
  <2>5. cursor[c].page < cursor[c].end
    BY <2>3, <2>4 DEF Ahead
  <2> QED
    BY <2>5 DEF IInv, DoneAtEnd
<1> QED
  BY <1>1, Invariance, PTL

\* The file grows only for a record that no page of it could take: the probe visits
\* every page, wherever the hint stands.
THEOREM GrowthCorrect == Spec => GrowsOnlyWhenFull
<1>1. ASSUME IInv, NEW n \in Sizes, InsertIntoNewPage(n)
      PROVE  \A p \in Allocated : ~Fits(pages[p], n)
  <2>1. pageCount \in Nat /\ hint \in Nat
    BY <1>1, CountFacts DEF IInv
  <2>2. Fitting(n) = {}
    BY <1>1 DEF InsertIntoNewPage
  <2> QED
    BY <2>1, <2>2, NoneFitting
<1>2. IInv => \A n \in Sizes : InsertIntoNewPage(n) => \A p \in Allocated : ~Fits(pages[p], n)
  BY <1>1
<1> QED
  BY <1>2, Invariance, PTL DEF Spec, GrowsOnlyWhenFull

\* A cursor in use before and after a step keeps its end and does not go back, and a call of
\* next that reads goes on; or it was moved from, and has come to its end.
OnFrom(c) ==
  \/ cursor[c].page < cursor'[c].page
  \/ cursor[c].page = cursor'[c].page /\ cursor[c].slot < cursor'[c].slot
\* A call that returns a record goes past its slot; one that comes to the end of a page goes on
\* to the next.
LEMMA CallGoesOn ==
  ASSUME IInv, NEW c \in Cursors, ReturnRecord(c) \/ SkipPage(c)
  PROVE  cursor'[c].end = cursor[c].end /\ OnFrom(c)
<1>1. TypeOK /\ Reading(c) /\ c \in Active
  BY DEF IInv, ReturnRecord, SkipPage, Reading
<1>2. cursor[c] \in Positions /\ cursor[c].page \in Nat /\ cursor \in [Cursors -> Positions \cup {NoCursor}]
  BY <1>1, CursorFacts DEF TypeOK, Active
<1>3. CASE ReturnRecord(c)
  <2>1. PICK s : s = Min(Remaining(c)) /\ cursor' = [cursor EXCEPT ![c].slot = s + 1]
    BY <1>3 DEF ReturnRecord
  <2>2. s \in Nat /\ s >= cursor[c].slot
    <3>1. Remaining(c) \in SUBSET Nat /\ Remaining(c) # {}
      BY <1>1, <1>3, RemainingSlots DEF IInv, ReturnRecord
    <3>2. s \in Remaining(c) /\ s \in Nat
      BY <2>1, <3>1, MinIsLeast
    <3> QED
      BY <3>2 DEF Remaining
  <2>3. cursor'[c] = [cursor[c] EXCEPT !.slot = s + 1]
    BY <1>2, <2>1
  <2> QED
    BY <1>2, <2>2, <2>3 DEF Positions, OnFrom
<1>4. CASE SkipPage(c)
  <2>1. cursor' = [cursor EXCEPT ![c].page = cursor[c].page + 1, ![c].slot = 1]
    BY <1>4 DEF SkipPage
  <2>2. cursor'[c] = [cursor[c] EXCEPT !.page = cursor[c].page + 1, !.slot = 1]
    BY <1>2, <2>1
  <2> QED
    BY <1>2, <2>2 DEF Positions, OnFrom
<1> QED
  BY <1>3, <1>4

LEMMA CursorGoesOn ==
  ASSUME IInv, Next, NEW c \in Active, c \in Active'
  PROVE  \/ cursor'[c].end = cursor[c].end /\ (OnFrom(c) \/ cursor'[c] = cursor[c])
         \/ cursor'[c].page = cursor'[c].end
<1>1. TypeOK /\ c \in Cursors
  BY DEF IInv, Active
<1>2. cursor[c] \in Positions /\ cursor[c].page \in Nat
  BY <1>1, CursorFacts
<1>3. cursor \in [Cursors -> Positions \cup {NoCursor}]
  BY <1>1 DEF TypeOK
<1>4. CASE cursor'[c] = cursor[c]
  BY <1>2, <1>4
<1>5. ASSUME NEW d \in Cursors, OpenCursor(d) PROVE cursor'[c] = cursor[c]
  <2>1. c # d /\ cursor' = [cursor EXCEPT ![d] = [page |-> 0, slot |-> 1, end |-> pageCount]]
    BY <1>5 DEF OpenCursor
  <2> QED
    BY <1>1, <1>3, <2>1
<1>6. ASSUME NEW d \in Cursors, DropCursor(d) PROVE cursor'[c] = cursor[c]
  <2>1. cursor' = [cursor EXCEPT ![d] = NoCursor]
    BY <1>6 DEF DropCursor
  <2>2. c # d
    BY <1>1, <1>3, <2>1 DEF Active
  <2> QED
    BY <1>1, <1>3, <2>1, <2>2
<1>7. ASSUME NEW d \in Cursors, ReturnRecord(d) \/ SkipPage(d), d # c PROVE cursor'[c] = cursor[c]
  BY <1>1, <1>3, <1>7 DEF ReturnRecord, SkipPage
<1>8. ASSUME ReturnRecord(c) \/ SkipPage(c) PROVE cursor'[c].end = cursor[c].end /\ OnFrom(c)
  BY <1>1, <1>8, CallGoesOn
<1>9. ASSUME NEW d \in Cursors, NEW e \in Cursors, MoveCursor(d, e)
      PROVE  cursor'[c] = cursor[c] \/ cursor'[c].page = cursor'[c].end
  <2>1. c # e /\ d # e /\ cursor' = [cursor EXCEPT ![e] = cursor[d], ![d].page = cursor[d].end]
    BY <1>9 DEF MoveCursor
  <2>2. cursor'[c] = IF c = d THEN [cursor[c] EXCEPT !.page = cursor[c].end] ELSE cursor[c]
    BY <1>1, <1>3, <2>1
  <2> QED
    BY <1>2, <2>2 DEF Positions
<1>10. CASE cursor' = cursor
  BY <1>2, <1>10
<1>11. CASE \E n \in Sizes : Insert(n) \/ InsertIntoNewPage(n) \/ AllocationFails(n)
  BY <1>10, <1>11 DEF Insert, InsertIntoNewPage, AllocationFails, cursorVars
<1>12. CASE \E id \in LiveIds : Erase(id) \/ \E n \in Sizes : Replace(id, n)
  BY <1>10, <1>12 DEF Erase, Replace, cursorVars
<1>13. CASE \E d \in Cursors : OpenCursor(d) \/ DropCursor(d) \/ Advance(d)
  <2>1. PICK d \in Cursors : OpenCursor(d) \/ DropCursor(d) \/ Advance(d)
    BY <1>13
  <2>2. CASE ReturnNothing(d)
    BY <1>10, <2>2 DEF ReturnNothing
  <2> QED
    BY <1>4, <1>5, <1>6, <1>7, <1>8, <2>1, <2>2 DEF Advance
<1>14. CASE \E d, e \in Cursors : MoveCursor(d, e)
  BY <1>4, <1>9, <1>14
<1>15. CASE Reopen
  BY <1>10, <1>15 DEF Reopen, cursorVars
<1> QED
  BY <1>11, <1>12, <1>13, <1>14, <1>15 DEF Next

\* No step puts a place before a scan under way, and every call that reads takes one away, so
\* that insertions between its calls cannot keep it going.
THEOREM ScanBounded == Spec => ScansRunOut
<1>1. ASSUME IInv, IInv', Next, NEW c \in Active \cap Active'
      PROVE  PlacesAhead(c)' \subseteq PlacesAhead(c) /\ (Reading(c) /\ Advance(c) => PlacesAhead(c)' # PlacesAhead(c))
  <2>1. TypeOK /\ TypeOK' /\ c \in Cursors /\ c \in Active /\ c \in Active'
    BY <1>1 DEF IInv, Active
  <2>0. PICK p, s, q, t : p = cursor[c].page /\ s = cursor[c].slot /\ q = cursor'[c].page /\ t = cursor'[c].slot
    OBVIOUS
  <2> DEFINE Places == PageIds \X (1 .. PageSize + 1)
  <2>2. /\ p \in Nat /\ q \in Nat /\ cursor[c].end \in Int /\ cursor'[c].end \in Int
        /\ s \in 1 .. PageSize + 1 /\ t \in 1 .. PageSize + 1
    <3>1. cursor[c] \in Positions /\ cursor'[c] \in Positions
      BY <2>1 DEF TypeOK, Active
    <3> QED
      BY <2>0, <3>1, MaxPagesAssumption DEF Positions
  <2>3. \A x \in Places : x[1] \in Nat /\ x[2] \in Int
    BY MaxPagesAssumption DEF PageIds
  <2>4. \/ cursor'[c].end = cursor[c].end /\ (OnFrom(c) \/ cursor'[c] = cursor[c])
        \/ q = cursor'[c].end
    BY <1>1, <2>0, <2>1, CursorGoesOn
  <2>5. PlacesAhead(c)' = {x \in Places : x[1] < cursor'[c].end /\ (x[1] > q \/ (x[1] = q /\ x[2] >= t))}
    BY <2>0 DEF PlacesAhead, Reaches, PageIds
  <2>6. PlacesAhead(c) = {x \in Places : x[1] < cursor[c].end /\ (x[1] > p \/ (x[1] = p /\ x[2] >= s))}
    BY <2>0 DEF PlacesAhead, Reaches
  <2>7. PlacesAhead(c)' \subseteq PlacesAhead(c)
    <3>1. CASE q = cursor'[c].end
      BY <2>2, <2>3, <2>5, <3>1
    <3>2. CASE cursor'[c].end = cursor[c].end /\ OnFrom(c)
      BY <2>0, <2>2, <2>3, <2>5, <2>6, <3>2 DEF OnFrom
    <3>3. CASE cursor'[c].end = cursor[c].end /\ cursor'[c] = cursor[c]
      BY <2>0, <2>5, <2>6, <3>3
    <3> QED
      BY <2>4, <3>1, <3>2, <3>3
  <2>8. ASSUME Reading(c), Advance(c) PROVE PlacesAhead(c)' # PlacesAhead(c)
    <3>1. ReturnRecord(c) \/ SkipPage(c)
      BY <2>8 DEF Advance, ReturnNothing
    <3>2. OnFrom(c)
      BY <1>1, <2>1, <3>1, CallGoesOn
    <3>3. p \in PageIds /\ p < cursor[c].end
      BY <2>0, <2>1, <2>2, <2>8, CursorFacts, ReadingMeaning, MaxPagesAssumption DEF PageIds
    <3>4. <<p, s>> \in PlacesAhead(c)
      BY <2>2, <2>6, <3>3
    <3>5. <<p, s>> \notin PlacesAhead(c)'
      BY <2>0, <2>2, <2>5, <3>2 DEF OnFrom
    <3> QED
      BY <3>4, <3>5
  <2> QED
    BY <2>7, <2>8
<1>2. IInv /\ IInv' /\ Next =>
        \A c \in Active \cap Active' :
          /\ PlacesAhead(c)' \subseteq PlacesAhead(c)
          /\ Reading(c) /\ Advance(c) => PlacesAhead(c)' # PlacesAhead(c)
  BY <1>1
<1> QED
  BY <1>2, Invariance, PTL DEF Spec, ScansRunOut
=============================================================================
