----------------------------- MODULE RecordStore ------------------------------
(***************************************************************************)
(* The record store (src/record_store.cpp): records of any size in the     *)
(* slots of many pages, insertion from a page hint that wraps once over    *)
(* the pages, and cursors that hold no page between two calls while the    *)
(* store changes under them.  A page is what SlotMap.tla promises of it:   *)
(* a sequence of slots, full when header, directory and live records would *)
(* exceed it; a record is reduced to its size, 0 in a deleted slot.  Any   *)
(* fetch or allocation of the pool may fail.                               *)
(***************************************************************************)
EXTENDS Integers, Sequences, FiniteSetsExt, Space

CONSTANTS
  PageSize, HeaderSize, SlotSize,
  Sizes,     \* sizes of the records clients store
  MaxPages,  \* bound: page identifiers are 0 .. MaxPages - 1
  Cursors,   \* RecordCursor objects of the client
  MaxScanned \* bound: pages of the file while cursors are in use

ASSUME SizesAssumption ==
  /\ HeaderSize \in Nat /\ SlotSize \in Nat \ {0} /\ PageSize \in Nat
  /\ Sizes \subseteq Nat \ {0}
ASSUME MaxPagesAssumption == MaxPages \in Nat /\ MaxScanned \in 0 .. MaxPages

VARIABLES
  pageCount,  \* BufferPool::page_count()
  pages,      \* pages[p][s]: the size of the record in slot s of page p
  hint,       \* RecordStore::insertion_page_hint_
  cursor,     \* cursor[c]: position and end of cursor c, or NoCursor
  owed,       \* owed[c]: records live since c was made, not yet returned
  done        \* done[c]: c has returned nullopt

vars == <<pageCount, pages, hint, cursor, owed, done>>
storeVars == <<pageCount, pages, hint>>
cursorVars == <<cursor, owed, done>>

PageIds == 0 .. MaxPages - 1
Allocated == 0 .. pageCount - 1
\* Mutant: the directory entry of the record is forgotten.
MaxRecordAlone == PageSize - HeaderSize
\* The largest record an empty page can hold.
MaxRecord == PageSize - HeaderSize - SlotSize
NoCursor == [page |-> 0, slot |-> 1, end |-> -1]
Active == {c \in Cursors : cursor[c] # NoCursor}
\* Mutant: the pages the file has by now.
ReachesNow(c, p) == p < pageCount
Reaches(c, p) == p < cursor[c].end
Reading(c) == c \in Active /\ Reaches(c, cursor[c].page)

\* A page as SlotMap has it.
Live(content) == {s \in DOMAIN content : content[s] # 0}
Dead(content) == DOMAIN content \ Live(content)
Used(content) == HeaderSize + Len(content) * SlotSize + Total(content)
Fits(content, n) == Used(content) + n + (IF Dead(content) = {} THEN SlotSize ELSE 0) <= PageSize
Slot(content) == IF Dead(content) = {} THEN Len(content) + 1 ELSE Min(Dead(content))
WithRecord(content, n) ==
  IF Dead(content) = {} THEN Append(content, n) ELSE [content EXCEPT ![Min(Dead(content))] = n]

\* The RecordIds that name a record.
LiveIds == UNION {{<<p, s>> : s \in Live(pages[p])} : p \in Allocated}

Init ==
  /\ pageCount = 0
  /\ pages = [p \in PageIds |-> <<>>]
  /\ hint = 0
  /\ cursor = [c \in Cursors |-> NoCursor]
  /\ owed = [c \in Cursors |-> {}]
  /\ done = [c \in Cursors |-> FALSE]

-----------------------------------------------------------------------------
\* insert: the pages from the hint on, wrapping once, then a new page.
Start == IF hint < pageCount THEN hint ELSE 0
\* Mutant: the pages before the hint are not tried.
ProbeToEnd(i) == IF Start + i < pageCount THEN Start + i ELSE pageCount - 1
Probe(i) == (Start + i) % pageCount
Fitting(n) == {i \in Allocated : Fits(pages[Probe(i)], n)}
Store(p, n) ==
  /\ pages' = [pages EXCEPT ![p] = WithRecord(@, n)]
  /\ hint' = p

Insert(n) ==
  /\ n <= MaxRecord
  /\ Fitting(n) # {}
  /\ Store(Probe(Min(Fitting(n))), n)
  /\ UNCHANGED <<pageCount, cursorVars>>

\* bounds
MayGrow == pageCount < (IF Active = {} THEN MaxPages ELSE MaxScanned)
InsertIntoNewPage(n) ==
  /\ n <= MaxRecord
  /\ Fitting(n) = {} /\ MayGrow
  /\ Store(pageCount, n)
  /\ pageCount' = pageCount + 1
  /\ UNCHANGED cursorVars

\* A fetch that fails, or an allocation that fails before the file has grown,
\* changes nothing; one that fails afterwards leaves an empty page behind.
AllocationFails(n) ==
  /\ n <= MaxRecord
  /\ Fitting(n) = {} /\ MayGrow
  /\ pageCount' = pageCount + 1
  /\ UNCHANGED <<pages, hint, cursorVars>>

\* replace; PageFull or an unknown id leave everything as it was.
Replace(id, n) ==
  /\ id \in LiveIds
  /\ Used(pages[id[1]]) - pages[id[1]][id[2]] + n <= PageSize
  /\ pages' = [pages EXCEPT ![id[1]][id[2]] = n]
  /\ UNCHANGED <<pageCount, hint, cursorVars>>

Erase(id) ==
  /\ id \in LiveIds
  /\ pages' = [pages EXCEPT ![id[1]][id[2]] = 0]
  /\ owed' = [c \in Cursors |-> owed[c] \ {id}]
  /\ UNCHANGED <<pageCount, hint, cursor, done>>

-----------------------------------------------------------------------------
\* Opening and moving a cursor, and its end.  The slots a cursor counts from 0
\* are counted from 1 here.
OpenCursor(c) ==
  /\ c \notin Active /\ pageCount <= MaxScanned
  /\ cursor' = [cursor EXCEPT ![c] = [page |-> 0, slot |-> 1, end |-> pageCount]]
  /\ owed' = [owed EXCEPT ![c] = LiveIds]
  /\ done' = [done EXCEPT ![c] = FALSE]
  /\ UNCHANGED storeVars

\* The source of a move is left at its end.
MoveCursor(c, d) ==
  /\ c \in Active /\ d \notin Active
  /\ cursor' = [cursor EXCEPT ![d] = cursor[c], ![c].page = cursor[c].end]
  /\ owed' = [owed EXCEPT ![d] = owed[c], ![c] = {}]
  /\ done' = [done EXCEPT ![d] = done[c]]
  /\ UNCHANGED storeVars

DropCursor(c) ==
  /\ c \in Active
  /\ cursor' = [cursor EXCEPT ![c] = NoCursor]
  /\ owed' = [owed EXCEPT ![c] = {}]
  /\ done' = [done EXCEPT ![c] = FALSE]
  /\ UNCHANGED storeVars

\* Mutant: the cursor's own slot is taken for one already returned.
RemainingAfter(c) == {s \in Live(pages[cursor[c].page]) : s > cursor[c].slot}
\* next(): the live slots of the current page still before the cursor.
Remaining(c) == {s \in Live(pages[cursor[c].page]) : s >= cursor[c].slot}

ReturnRecord(c) ==
  /\ Reading(c) /\ Remaining(c) # {}
  /\ LET s == Min(Remaining(c)) IN
       /\ cursor' = [cursor EXCEPT ![c].slot = s + 1]
       /\ owed' = [owed EXCEPT ![c] = @ \ {<<cursor[c].page, s>>}]
  /\ UNCHANGED <<storeVars, done>>

\* The page is exhausted.  The call goes on to the next page, or ends there
\* when the fetch throws, with the position kept for the next call.
SkipPage(c) ==
  /\ Reading(c) /\ Remaining(c) = {}
  /\ cursor' = [cursor EXCEPT ![c].page = @ + 1, ![c].slot = 1]
  /\ UNCHANGED <<storeVars, owed, done>>

ReturnNothing(c) ==
  /\ c \in Active /\ ~Reading(c) /\ ~done[c]
  /\ done' = [done EXCEPT ![c] = TRUE]
  /\ UNCHANGED <<storeVars, cursor, owed>>

Advance(c) == ReturnRecord(c) \/ SkipPage(c) \/ ReturnNothing(c)

\* A new RecordStore over the same pages; no cursor outlives its pool.
Reopen ==
  /\ Active = {}
  /\ hint' = IF pageCount # 0 THEN pageCount - 1 ELSE 0
  /\ UNCHANGED <<pageCount, pages, cursorVars>>

-----------------------------------------------------------------------------
Next ==
  \/ \E n \in Sizes : Insert(n) \/ InsertIntoNewPage(n) \/ AllocationFails(n)
  \/ \E id \in LiveIds : Erase(id) \/ \E n \in Sizes : Replace(id, n)
  \/ \E c \in Cursors : OpenCursor(c) \/ DropCursor(c) \/ Advance(c)
  \/ \E c, d \in Cursors : MoveCursor(c, d)
  \/ Reopen

Spec == Init /\ [][Next]_vars

-----------------------------------------------------------------------------
Positions == [page : 0 .. MaxPages, slot : 1 .. PageSize + 1, end : 0 .. MaxPages]

\* No sequence of insertions, replacements and deletions overfills a page, so
\* every page can be written back; and no record lies outside the file.
TypeOK ==
  /\ pageCount \in 0 .. MaxPages
  /\ pages \in [PageIds -> Seq(Sizes \cup {0})]
  /\ \A p \in PageIds : IF p < pageCount THEN Used(pages[p]) <= PageSize ELSE pages[p] = <<>>
  /\ hint \in PageIds \cup {0}
  /\ cursor \in [Cursors -> Positions \cup {NoCursor}]
  /\ owed \in [Cursors -> SUBSET (PageIds \X (1 .. PageSize))]
  /\ done \in [Cursors -> BOOLEAN]

\* The file grows only for a record that no page could take, wherever the hint
\* stood, after deletions behind it and after a growth that failed half-way.
GrowsOnlyWhenFull ==
  [][\A n \in Sizes : InsertIntoNewPage(n) => \A p \in Allocated : ~Fits(pages[p], n)]_vars

\* A scan misses nothing: when next() has returned nullopt, every record that
\* was live when the cursor was made was returned or has been deleted since,
\* whatever was inserted, replaced or deleted between the calls and whichever
\* fetches failed.
ScanIsComplete == \A c \in Cursors : done[c] => owed[c] = {}

\* A scan comes to an end although records are inserted while it runs.  A place is a slot
\* a page has or could have, or the end of a page.  No step puts a place before a scan
\* under way that was not before it already: not the growth of the file between its
\* calls, nor the move of the cursor.  And every step of next that reads takes one away, so
\* that a caller who inserts a record for each one it is given still is done in the end.
PlacesAhead(c) ==
  {x \in PageIds \X (1 .. PageSize + 1) :
     /\ Reaches(c, x[1])
     /\ x[1] > cursor[c].page \/ (x[1] = cursor[c].page /\ x[2] >= cursor[c].slot)}
ScansRunOut ==
  [][\A c \in Active \cap Active' :
       /\ PlacesAhead(c)' \subseteq PlacesAhead(c)
       /\ Reading(c) /\ Advance(c) => PlacesAhead(c)' # PlacesAhead(c)]_vars
=============================================================================
