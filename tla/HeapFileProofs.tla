--------------------------- MODULE HeapFileProofs ---------------------------
(***************************************************************************)
(* Proofs about HeapFile, for every bound on the pages and every set of    *)
(* images: its invariant is inductive, files left by a successful          *)
(* allocation can be opened, and opening never changes the page count.     *)
(***************************************************************************)
EXTENDS HeapFile, TLAPS

USE MaxPagesAssumption, ContentsAssumption DEF PageIds

\* The new process finds no file and no page.
LEMMA InitIInv == Init => IInv
<1> SUFFICES ASSUME Init PROVE IInv OBVIOUS
<1>1. 0 \in 0 .. MaxPages OBVIOUS
<1>2. TypeOK BY <1>1 DEF Init, TypeOK
<1>3. ~Openable BY DEF Init, Openable
<1> QED BY <1>2, <1>3 DEF Init, IInv

\* Only the number of blocks decides whether a length fits.
LEMMA LengthUnique ==
  ASSUME NEW n \in 0 .. MaxPages, NEW m \in 0 .. MaxPages, HasLength(n), HasLength(m)
  PROVE  n = m
<1>1. ~(n < m)
  <2> SUFFICES ASSUME n < m PROVE FALSE OBVIOUS
  <2>1. n \in PageIds OBVIOUS
  <2> QED BY <2>1 DEF HasLength
<1>2. ~(m < n)
  <2> SUFFICES ASSUME m < n PROVE FALSE OBVIOUS
  <2>1. m \in PageIds OBVIOUS
  <2> QED BY <2>1 DEF HasLength
<1> QED BY <1>1, <1>2
\* create starts from an empty file that no header makes acceptable yet.
LEMMA CreateInv == ASSUME IInv, Create PROVE IInv'
<1>1. 0 \in 0 .. MaxPages OBVIOUS
<1>2. TypeOK' BY <1>1 DEF Create, TypeOK
<1>3. ~Openable' BY DEF Create, Openable
<1> QED BY <1>2, <1>3 DEF Create, IInv, HasLength

\* Only a header write that returned settles the file.
LEMMA WriteHeaderInv == ASSUME IInv, WriteHeader PROVE IInv'
<1> USE DEF IInv
<1>1. /\ pc = "header" /\ HasLength(pageCount) /\ pageCount \in 0 .. MaxPages
      /\ UNCHANGED <<blocks, pageCount>>
  BY DEF WriteHeader, TypeOK
<1>2. HasLength(pageCount)' BY <1>1 DEF HasLength
<1>3. header' \in {header, pageCount, Torn} /\ pc' \in {"idle", "closed"}
      /\ (settled' => header' = pageCount) /\ settled' \in BOOLEAN
  BY DEF WriteHeader, Written, Failed
<1>4. TypeOK' BY <1>1, <1>3 DEF TypeOK
<1>5. header' \in Nat => header' <= pageCount' BY <1>1, <1>3
<1>6. Openable' => header' = pageCount'
  <2> SUFFICES ASSUME Openable' PROVE header' = pageCount' OBVIOUS
  <2>1. header' \in Nat /\ header' \in {header, pageCount} BY <1>3 DEF Openable
  <2>2. CASE header' = pageCount BY <1>1, <2>2
  <2>3. CASE header' = header
    <3>1. Openable BY <1>1, <2>1, <2>3 DEF Openable, HasLength
    <3> QED BY <1>1, <2>3, <3>1
  <2> QED BY <2>1, <2>2, <2>3
<1> QED BY <1>1, <1>2, <1>3, <1>4, <1>5, <1>6

\* Growing the file begins: nothing is written yet.
LEMMA AllocateInv == ASSUME IInv, Allocate PROVE IInv'
BY DEF IInv, Allocate, TypeOK, Openable, HasLength

\* The block at the end is there, the header still tells the old length.
LEMMA WriteNewBlockInv == ASSUME IInv, WriteNewBlock PROVE IInv'
<1> USE DEF IInv, WriteNewBlock
<1>1. /\ pageCount \in PageIds /\ pageCount' = pageCount + 1 /\ pageCount + 1 \in 0 .. MaxPages
      /\ blocks \in [PageIds -> Contents \cup {Torn, Absent}] /\ ~settled
      /\ UNCHANGED <<header, settled>> /\ pc' = "header"
  BY DEF TypeOK
<1>2. \A p \in PageIds : blocks'[p] = IF p = pageCount THEN Blank ELSE blocks[p] BY <1>1
<1>3. TypeOK' BY <1>1 DEF TypeOK
<1>4. \A p \in PageIds : blocks'[p] # Absent <=> p < pageCount + 1
  <2> TAKE p \in PageIds
  <2>1. p \in Int /\ pageCount \in Int BY <1>1
  <2>2. CASE p = pageCount BY <1>2, <2>1, <2>2
  <2>3. CASE p # pageCount
    <3>1. p < pageCount + 1 <=> p < pageCount BY <2>1, <2>3
    <3>2. blocks'[p] = blocks[p] BY <1>2, <2>3
    <3>3. (p < pageCount => blocks[p] # Absent) /\ (p > pageCount => blocks[p] = Absent)
      OBVIOUS
    <3> QED BY <2>1, <2>3, <3>1, <3>2, <3>3
  <2> QED BY <2>2, <2>3
<1>5. header \in Nat => header <= pageCount /\ header \in 0 .. MaxPages
  BY <1>1 DEF TypeOK
<1>6. ~Openable'
  <2> SUFFICES ASSUME header \in Nat, \A p \in PageIds : blocks'[p] # Absent <=> p < header
      PROVE FALSE
    BY <1>1 DEF Openable, HasLength
  <2>1. header <= pageCount BY <1>5
  <2>2. ~(pageCount < header) BY <1>1, <2>1
  <2>3. pageCount < pageCount + 1 BY <1>1
  <2> QED BY <1>1, <1>4, <2>2, <2>3
<1>7. \A p \in PageIds : /\ p < pageCount + 1 => blocks'[p] # Absent
                         /\ p > pageCount + 1 => blocks'[p] = Absent
  BY <1>1, <1>4
<1>8. header' \in Nat => header' <= pageCount' BY <1>1, <1>5
<1>9. HasLength(pageCount)' BY <1>1, <1>4 DEF HasLength
<1> QED BY <1>1, <1>3, <1>6, <1>7, <1>8, <1>9

\* A block cut short beyond the declared pages makes the file longer than its
\* header says, unless nothing of it was written.
LEMMA NewBlockFailsInv == ASSUME IInv, NewBlockFails PROVE IInv'
<1> USE DEF IInv, NewBlockFails
<1>1. /\ pageCount \in PageIds /\ UNCHANGED <<header, pageCount, settled>>
      /\ blocks \in [PageIds -> Contents \cup {Torn, Absent}] /\ ~settled
      /\ pc' \in {"idle", "closed"}
  BY DEF TypeOK, Failed
<1>2. PICK left \in {blocks[pageCount], Blank, Torn} : blocks' = [blocks EXCEPT ![pageCount] = left]
  BY DEF Written
<1>3. \A p \in PageIds : blocks'[p] = IF p = pageCount THEN left ELSE blocks[p] BY <1>1, <1>2
<1>4. TypeOK' BY <1>1, <1>2 DEF TypeOK
<1>5. Openable' => header' = pageCount'
  <2> SUFFICES ASSUME Openable' PROVE header = pageCount BY <1>1
  <2>1. header \in 0 .. MaxPages /\ header <= pageCount /\ HasLength(header)'
    BY <1>1 DEF Openable, TypeOK, HasLength
  <2>2. CASE left = blocks[pageCount]
    <3>1. blocks' = blocks BY <1>1, <1>2, <2>2
    <3> QED BY <2>1, <3>1 DEF Openable, HasLength
  <2>3. CASE left # blocks[pageCount]
    <3>1. left # Absent BY <1>2, <2>3
    <3>2. blocks'[pageCount] # Absent BY <1>1, <1>3, <3>1
    <3>3. pageCount < header BY <1>1, <2>1, <3>2 DEF HasLength
    <3> QED BY <1>1, <2>1, <3>3
  <2> QED BY <2>2, <2>3
<1>6. \A p \in PageIds : /\ p < pageCount => blocks'[p] # Absent
                         /\ p > pageCount => blocks'[p] = Absent
  BY <1>1, <1>3
<1> QED BY <1>1, <1>4, <1>5, <1>6

\* A page write, complete or not, changes no length.
LEMMA WritePageInv ==
  ASSUME IInv, NEW p \in PageIds, NEW image \in Contents, WritePage(p, image) PROVE IInv'
<1> USE DEF IInv, WritePage
<1>1. /\ blocks \in [PageIds -> Contents \cup {Torn, Absent}] /\ blocks[p] # Absent
      /\ UNCHANGED <<header, pageCount, settled>> /\ pc' \in {"idle", "closed"}
      /\ pageCount \in 0 .. MaxPages
  BY DEF TypeOK, Failed
<1>2. PICK left \in {blocks[p], image, Torn} : blocks' = [blocks EXCEPT ![p] = left]
  BY DEF Written
<1>3. left # Absent /\ left \in Contents \cup {Torn} BY <1>1, <1>2
<1>4. \A q \in PageIds : blocks'[q] = Absent <=> blocks[q] = Absent BY <1>1, <1>2, <1>3
<1>5. TypeOK' BY <1>1, <1>2 DEF TypeOK
<1>6. \A n : HasLength(n)' <=> HasLength(n) BY <1>4 DEF HasLength
<1>7. Openable' <=> Openable BY <1>1, <1>4 DEF Openable, HasLength
<1>8. HasLength(pageCount)' <=> HasLength(pageCount) BY <1>1, <1>4 DEF HasLength
<1> QED BY <1>1, <1>4, <1>5, <1>7, <1>8

\* Closing and opening touch only the process.
LEMMA CloseOpenInv == ASSUME IInv, Close \/ Open PROVE IInv'
<1>1. /\ UNCHANGED <<header, blocks, settled>> /\ pageCount' = pageCount
      /\ pc' \in {"idle", "closed"}
  BY DEF IInv, Close, Open
<1> QED BY <1>1 DEF IInv, TypeOK, Openable, HasLength

\* Every step preserves the invariant.
LEMMA NextIInv == ASSUME IInv, [Next]_vars PROVE IInv'
<1>1. CASE UNCHANGED vars BY <1>1 DEF vars, IInv, TypeOK, Openable, HasLength
<1>2. CASE Next
  BY <1>2, CreateInv, WriteHeaderInv, AllocateInv, WriteNewBlockInv, NewBlockFailsInv,
     WritePageInv, CloseOpenInv DEF Next
<1> QED BY <1>1, <1>2

\* The invariant holds in every reachable state of file and process.
THEOREM Invariance == Spec => []IInv
<1> QED BY InitIInv, NextIInv, PTL DEF Spec

\* Every variable keeps its type: no block beyond the bound, no header that is
\* neither a page count nor damaged.
THEOREM TypeCorrect == Spec => []TypeOK
<1>1. IInv => TypeOK BY DEF IInv
<1> QED BY <1>1, Invariance, PTL

\* A file whose last create or allocate_page returned is accepted by open,
\* whatever failed before or since.
THEOREM SettledCorrect == Spec => []SettledFilesOpen
<1>1. IInv => SettledFilesOpen BY DEF IInv, TypeOK, SettledFilesOpen, Openable
<1> QED BY <1>1, Invariance, PTL

\* open returns with the page count of the process that wrote the file.
THEOREM OpenCorrect == Spec => OpenKeepsPageCount
<1>1. IInv /\ [Next]_vars => [Open => pageCount' = pageCount]_vars
  BY DEF IInv, Open
<1> QED BY <1>1, Invariance, PTL DEF Spec, OpenKeepsPageCount
=============================================================================
