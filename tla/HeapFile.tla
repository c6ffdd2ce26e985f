------------------------------ MODULE HeapFile ------------------------------
(***************************************************************************)
(* The heap file (src/heap_file.cpp): a header block with the page count   *)
(* and the pages after it, written through one stream.  Growing the file   *)
(* takes two writes, the new block and then the header; either may fail,   *)
(* leaving the block as it was, complete or cut short, and the process may *)
(* end during any write.  open accepts a file only when header and length  *)
(* agree.  Writes reach the operating system in the order they are made:   *)
(* a stream that holds a block back delays them but does not reorder them, *)
(* and losing the machine itself is not modelled (sync flushes the stream, *)
(* it does not force the disk).                                            *)
(***************************************************************************)
EXTENDS Integers

CONSTANTS
  MaxPages,  \* bound: page identifiers are 0 .. MaxPages - 1
  Contents,  \* images a page can have
  Blank,     \* the image SlottedPage::initialize gives
  Torn,      \* a block, or the header, whose checksum does not match
  Absent     \* a block the file does not have

ASSUME MaxPagesAssumption == MaxPages \in Nat
ASSUME ContentsAssumption ==
  Blank \in Contents /\ Torn \notin Contents /\ Absent \notin Contents /\ Torn # Absent
  /\ Torn \notin Nat /\ Absent \notin Nat

VARIABLES
  header,     \* the page count in the file's header, Torn, or Absent
  blocks,     \* blocks[p]: block p of the file
  pageCount,  \* page_count_; of the last HeapFile object while there is none
  pc,         \* "closed", "idle", or the write in progress: "block", "header"
  settled     \* the last create or allocate_page returned normally

vars == <<header, blocks, pageCount, pc, settled>>

PageIds == 0 .. MaxPages - 1

\* A block after the last declared page that was cut short is Torn, too: it
\* makes the file longer than the header says.
HasLength(n) == \A p \in PageIds : blocks[p] # Absent <=> p < n

\* Mutant: only the header is looked at.
OpenableByHeader == header \in Nat

\* read_header
Openable == header \in Nat /\ HasLength(header)

\* What a write of `new` over `old` leaves: ok when it returned normally.
Written(old, new, ok) == IF ok THEN {new} ELSE {old, new, Torn}

\* After a write that failed the caller sees an exception, or the process ended.
Failed == pc' \in {"idle", "closed"}

Init ==
  /\ header = Absent
  /\ blocks = [p \in PageIds |-> Absent]
  /\ pageCount = 0
  /\ pc = "closed"
  /\ settled = FALSE

\* HeapFile::create truncates whatever the path held.
Create ==
  /\ pc = "closed"
  /\ header' = Absent
  /\ blocks' = [p \in PageIds |-> Absent]
  /\ pageCount' = 0
  /\ pc' = "header"
  /\ settled' = FALSE

\* Mutant: the header counts one page too many.
WriteHeaderTooFar ==
  /\ pc = "header"
  /\ \E ok \in BOOLEAN :
       /\ header' \in Written(header, pageCount + 1, ok)
       /\ IF ok THEN pc' = "idle" ELSE IF header = Absent THEN pc' = "closed" ELSE Failed
       /\ settled' = ok
  /\ UNCHANGED <<blocks, pageCount>>

\* write_header, the end of create and of allocate_page.  A create that fails
\* gives no HeapFile object.
WriteHeader ==
  /\ pc = "header"
  /\ \E ok \in BOOLEAN :
       /\ header' \in Written(header, pageCount, ok)
       /\ IF ok THEN pc' = "idle" ELSE IF header = Absent THEN pc' = "closed" ELSE Failed
       /\ settled' = ok
  /\ UNCHANGED <<blocks, pageCount>>

\* allocate_page up to its first write; MaxPages bounds the file.
Allocate ==
  /\ pc = "idle" /\ pageCount < MaxPages
  /\ pc' = "block"
  /\ settled' = FALSE
  /\ UNCHANGED <<header, blocks, pageCount>>

\* Mutant: page_count_ does not follow the file.
WriteNewBlockUncounted ==
  /\ pc = "block"
  /\ blocks' = [blocks EXCEPT ![pageCount] = Blank]
  /\ pc' = "header"
  /\ UNCHANGED <<header, pageCount, settled>>

\* The new block, written at the offset page_count_ gives.
WriteNewBlock ==
  /\ pc = "block"
  /\ blocks' = [blocks EXCEPT ![pageCount] = Blank]
  /\ pageCount' = pageCount + 1
  /\ pc' = "header"
  /\ UNCHANGED <<header, settled>>

NewBlockFails ==
  /\ pc = "block"
  /\ \E left \in Written(blocks[pageCount], Blank, FALSE) :
       blocks' = [blocks EXCEPT ![pageCount] = left]
  /\ Failed
  /\ UNCHANGED <<header, pageCount, settled>>

WritePage(p, image) ==
  /\ pc = "idle" /\ p < pageCount
  /\ \E ok \in BOOLEAN :
       /\ \E left \in Written(blocks[p], image, ok) : blocks' = [blocks EXCEPT ![p] = left]
       /\ IF ok THEN UNCHANGED pc ELSE Failed
  /\ UNCHANGED <<header, pageCount, settled>>

\* The destructor, or the process ending between two writes.
Close ==
  /\ pc # "closed"
  /\ pc' = "closed"
  /\ UNCHANGED <<header, blocks, pageCount, settled>>

\* HeapFile::open; a file it refuses stays closed.
Open ==
  /\ pc = "closed" /\ Openable
  /\ pageCount' = header
  /\ pc' = "idle"
  /\ UNCHANGED <<header, blocks, settled>>

Next ==
  \/ Create \/ Open \/ Close
  \/ Allocate \/ WriteNewBlock \/ NewBlockFails \/ WriteHeader
  \/ \E p \in PageIds, image \in Contents : WritePage(p, image)

Spec == Init /\ [][Next]_vars

-----------------------------------------------------------------------------
TypeOK ==
  /\ header \in 0 .. MaxPages \cup {Torn, Absent}
  /\ blocks \in [PageIds -> Contents \cup {Torn, Absent}]
  /\ pageCount \in 0 .. MaxPages
  /\ pc \in {"closed", "idle", "block", "header"}
  /\ settled \in BOOLEAN

\* Once create or allocate_page has returned the file can be opened, whatever
\* page writes failed since and however many earlier attempts to grow it were
\* cut short: the next successful allocation repairs length and header.
SettledFilesOpen == settled => Openable

\* open never disagrees with the process that wrote the file about how many
\* pages it has: a file left by a failed or interrupted allocation is either
\* refused or has exactly the pages that process counted, so no page whose
\* allocation returned is dropped and none appears.
OpenKeepsPageCount == [][Open => pageCount' = pageCount]_vars

\* The inductive invariant: at most one block beyond page_count_, left by a
\* failed attempt to grow the file; a header never ahead of page_count_; and
\* lengths that agree whenever page_count_ and the header do.
IInv ==
  /\ TypeOK
  /\ \A p \in PageIds : (p < pageCount => blocks[p] # Absent) /\ (p > pageCount => blocks[p] = Absent)
  /\ header \in Nat => header <= pageCount
  /\ Openable => header = pageCount
  /\ settled => header = pageCount /\ HasLength(pageCount) /\ pc \in {"idle", "closed"}
  /\ pc = "block" => pageCount < MaxPages
  /\ pc = "header" => HasLength(pageCount)
=============================================================================
