----------------------------- MODULE BufferPool -----------------------------
(***************************************************************************)
(* The buffer pool (src/buffer_pool.cpp) over a heap file                  *)
(* (src/heap_file.cpp), used by one thread.  Clients hold PageGuard        *)
(* objects; every guard pins the frame it refers to.  A call that misses   *)
(* runs the clock sweep one frame at a time and may fail at each of its    *)
(* later steps; between calls the client reads and writes through its      *)
(* guards, moves them, releases them and flushes.  The process may end at  *)
(* any moment, orderly (the destructor flushes what it can) or not.        *)
(*                                                                         *)
(* A page is reduced to its image: what happens inside a page is the       *)
(* subject of SlottedPage.tla.  A write to the file that fails leaves the  *)
(* block as it was, complete, or Torn.  A block the file holds beyond      *)
(* page_count_ cannot be read and counts as Absent; headerOk says whether  *)
(* HeapFile::open would accept the file (HeapFile.tla).                    *)
(***************************************************************************)
EXTENDS Integers, FiniteSets

CONSTANTS
  Capacity,  \* number of frames
  MaxPages,  \* bound: page identifiers are 0 .. MaxPages - 1
  Contents,  \* images a page can have
  Blank,     \* the image SlottedPage::initialize gives
  Torn,      \* a block whose checksum does not match
  Absent,    \* a block the file does not have
  Guards     \* PageGuard objects of the client

ASSUME CapacityAssumption == Capacity \in Nat \ {0}
ASSUME MaxPagesAssumption == MaxPages \in Nat
ASSUME ContentsAssumption ==
  Blank \in Contents /\ Torn \notin Contents /\ Absent \notin Contents /\ Torn # Absent
ASSUME GuardsAssumption == IsFiniteSet(Guards)

VARIABLES
  pageCount,  \* HeapFile::page_count_
  disk,       \* disk[p]: block p of the file
  headerOk,   \* HeapFile::open would accept the file
  frames,     \* BufferPool::frames_
  table,      \* BufferPool::page_table_
  hand,       \* BufferPool::clock_hand_
  guard,      \* guard[g]: frame_index_ of guard g, NoFrame while pool_ is null
  call        \* the pool operation in progress and its local variables

heapVars == <<pageCount, disk, headerOk>>
poolVars == <<frames, table, hand>>
vars == <<heapVars, poolVars, guard, call>>

PageIds == 0 .. MaxPages - 1
Frames == 0 .. Capacity - 1
NoPage == -1
NoFrame == -1

EmptyFrame == [page |-> NoPage, image |-> Blank, pin |-> 0, ref |-> FALSE, dirty |-> FALSE]
Occupied(f) == frames[f].page # NoPage
Pinned(f) == frames[f].pin # 0
Resident(p) == table[p] # NoFrame
Allocated == 0 .. pageCount - 1
Holding == {g \in Guards : guard[g] # NoFrame}

\* `frame` is choose_victim's result or flush_all's index, `incoming` the page
\* read or allocated before it is installed.
Idle == [pc |-> "idle", op |-> "none", page |-> NoPage, frame |-> NoFrame,
         examined |-> 0, incoming |-> Blank]
At(pc) == call.pc = pc
Goto(pc) == call' = [call EXCEPT !.pc = pc]
Return == call' = Idle

NoFrames == [f \in Frames |-> EmptyFrame]
NoTable == [p \in PageIds |-> NoFrame]
NoGuards == [g \in Guards |-> NoFrame]

Init ==
  /\ pageCount = 0
  /\ disk = [p \in PageIds |-> Absent]
  /\ headerOk = TRUE
  /\ frames = NoFrames
  /\ table = NoTable
  /\ hand = 0
  /\ guard = NoGuards
  /\ call = Idle

-----------------------------------------------------------------------------
\* The pool's internal steps.

\* A call that succeeds hands its guard to a PageGuard that holds nothing.
GiveGuard(f) == \E g \in Guards \ Holding : guard' = [guard EXCEPT ![g] = f]

\* HeapFile::write_page; ok says whether it returns normally.
WriteBlock(p, image, ok) ==
  \E left \in IF ok THEN {image} ELSE {disk[p], image, Torn} :
    disk' = [disk EXCEPT ![p] = left]

\* flush_frame of a frame that needs writing.
MustFlush(f) == Occupied(f) /\ frames[f].dirty
\* Mutant: the dirty bit is cleared before the write is known to have worked.
FlushFrameClearsFirst(f, ok) ==
  /\ MustFlush(f)
  /\ WriteBlock(frames[f].page, frames[f].image, ok)
  /\ frames' = [frames EXCEPT ![f].dirty = FALSE]
  /\ UNCHANGED <<pageCount, headerOk, table, hand, guard>>

FlushFrame(f, ok) ==
  /\ MustFlush(f)
  /\ WriteBlock(frames[f].page, frames[f].image, ok)
  /\ frames' = IF ok THEN [frames EXCEPT ![f].dirty = FALSE] ELSE frames
  /\ UNCHANGED <<pageCount, headerOk, table, hand, guard>>

\* Mutant: a hit hands out a guard without a pin of its own.
FetchHitUnpinned(p) ==
  /\ At("idle") /\ Resident(p)
  /\ GiveGuard(table[p])
  /\ frames' = [frames EXCEPT ![table[p]].ref = TRUE]
  /\ UNCHANGED <<heapVars, table, hand, call>>
\* fetch of a resident page.
FetchHit(p) ==
  /\ At("idle") /\ Resident(p)
  /\ GiveGuard(table[p])
  /\ frames' = [frames EXCEPT ![table[p]].pin = @ + 1, ![table[p]].ref = TRUE]
  /\ UNCHANGED <<heapVars, table, hand, call>>

BeginFetch(p) ==
  /\ At("idle") /\ ~Resident(p) /\ Holding # Guards
  /\ call' = [Idle EXCEPT !.pc = "sweep", !.op = "fetch", !.page = p]
  /\ UNCHANGED <<heapVars, poolVars, guard>>

\* pageCount < MaxPages bounds the file.
BeginAllocate ==
  /\ At("idle") /\ pageCount < MaxPages /\ Holding # Guards
  /\ call' = [Idle EXCEPT !.pc = "sweep", !.op = "allocate", !.page = pageCount]
  /\ UNCHANGED <<heapVars, poolVars, guard>>

\* Mutant: the hand does not wrap at the last frame but one later.
AdvancePastEnd == hand' = IF hand = Capacity THEN 0 ELSE hand + 1

\* choose_victim, one iteration of its loop.
Advance == hand' = IF hand + 1 = Capacity THEN 0 ELSE hand + 1
Evictable(f) == ~Occupied(f) \/ (~Pinned(f) /\ ~frames[f].ref)

\* Mutants: no second chance is ever used up; the sweep does not count its steps.
PassOverKeepsReference ==
  /\ At("sweep") /\ call.examined < 2 * Capacity /\ ~Evictable(hand)
  /\ Advance
  /\ call' = [call EXCEPT !.examined = @ + 1]
  /\ UNCHANGED <<heapVars, frames, table, guard>>
PassOverUncounted ==
  /\ At("sweep") /\ call.examined < 2 * Capacity /\ ~Evictable(hand)
  /\ frames' = IF Pinned(hand) THEN frames ELSE [frames EXCEPT ![hand].ref = FALSE]
  /\ Advance
  /\ UNCHANGED <<heapVars, table, guard, call>>

PassOver ==
  /\ At("sweep") /\ call.examined < 2 * Capacity /\ ~Evictable(hand)
  /\ frames' = IF Pinned(hand) THEN frames ELSE [frames EXCEPT ![hand].ref = FALSE]
  /\ Advance
  /\ call' = [call EXCEPT !.examined = @ + 1]
  /\ UNCHANGED <<heapVars, table, guard>>

PickVictim ==
  /\ At("sweep") /\ call.examined < 2 * Capacity /\ Evictable(hand)
  /\ Advance
  /\ call' = [call EXCEPT !.frame = hand,
                          !.pc = IF call.op = "fetch" THEN "read" ELSE "writeback"]
  /\ UNCHANGED <<heapVars, frames, table, guard>>

\* BufferPoolExhausted
Exhausted ==
  /\ At("sweep") /\ call.examined = 2 * Capacity
  /\ Return
  /\ UNCHANGED <<heapVars, poolVars, guard>>

\* HeapFile::read_page, before the victim is written back.
ReadPage ==
  /\ At("read") /\ call.page < pageCount /\ disk[call.page] # Torn
  /\ call' = [call EXCEPT !.pc = "writeback", !.incoming = disk[call.page]]
  /\ UNCHANGED <<heapVars, poolVars, guard>>

\* The page is outside the file, corrupt, or cannot be read.
ReadFails == At("read") /\ Return /\ UNCHANGED <<heapVars, poolVars, guard>>

AfterWriteBack == IF call.op = "fetch" THEN "install" ELSE "extend"
\* Mutant: the victim is dropped without looking at its dirty bit.
SkipWriteBackAlways ==
  /\ At("writeback")
  /\ Goto(AfterWriteBack)
  /\ UNCHANGED <<heapVars, poolVars, guard>>

SkipWriteBack ==
  /\ At("writeback") /\ ~MustFlush(call.frame)
  /\ Goto(AfterWriteBack)
  /\ UNCHANGED <<heapVars, poolVars, guard>>
WriteBack == At("writeback") /\ FlushFrame(call.frame, TRUE) /\ Goto(AfterWriteBack)
WriteBackFails == At("writeback") /\ FlushFrame(call.frame, FALSE) /\ Return

\* HeapFile::allocate_page: the block, page_count_, then the header.
Extend ==
  /\ At("extend")
  /\ disk' = [disk EXCEPT ![pageCount] = Blank]
  /\ pageCount' = pageCount + 1
  /\ headerOk' = TRUE
  /\ call' = [call EXCEPT !.pc = "install", !.incoming = Blank]
  /\ UNCHANGED <<poolVars, guard>>

\* Either write fails; only the second one has page_count_ already advanced.
ExtendFails ==
  /\ At("extend")
  /\ \/ headerOk' \in {headerOk, FALSE} /\ UNCHANGED <<pageCount, disk>>
     \/ /\ disk' = [disk EXCEPT ![pageCount] = Blank]
        /\ pageCount' = pageCount + 1
        /\ headerOk' \in BOOLEAN
  /\ Return
  /\ UNCHANGED <<poolVars, guard>>

\* Mutant: the evicted page keeps its entry in the page table.
InstallKeepsOldEntry ==
  LET f == call.frame IN
  /\ At("install")
  /\ frames' = [frames EXCEPT ![f] = [page |-> call.page, image |-> call.incoming,
                                      pin |-> 1, ref |-> TRUE, dirty |-> FALSE]]
  /\ table' = [table EXCEPT ![call.page] = f]
  /\ GiveGuard(f)
  /\ Return
  /\ UNCHANGED <<heapVars, hand>>

Install ==
  LET f == call.frame
      evicted == {frames[f].page} IN
  /\ At("install")
  /\ frames' = [frames EXCEPT ![f] = [page |-> call.page, image |-> call.incoming,
                                      pin |-> 1, ref |-> TRUE, dirty |-> FALSE]]
  /\ table' = [p \in PageIds |-> IF p = call.page THEN f
                                 ELSE IF p \in evicted THEN NoFrame ELSE table[p]]
  /\ GiveGuard(f)
  /\ Return
  /\ UNCHANGED <<heapVars, hand>>

\* flush_all and the destructor write the frames in order; the destructor
\* swallows the first failure and what is left in memory is lost.
BeginFlushAll(op) ==
  /\ At("idle")
  /\ op = "destroy" => Holding = {}
  /\ call' = [Idle EXCEPT !.pc = "flushall", !.op = op, !.frame = 0]
  /\ UNCHANGED <<heapVars, poolVars, guard>>

NextFrame == call' = [call EXCEPT !.frame = @ + 1]
FlushAllSkip ==
  /\ At("flushall") /\ call.frame < Capacity /\ ~MustFlush(call.frame)
  /\ NextFrame
  /\ UNCHANGED <<heapVars, poolVars, guard>>
FlushAllWrite ==
  /\ At("flushall") /\ call.frame < Capacity
  /\ FlushFrame(call.frame, TRUE)
  /\ NextFrame
FlushAllFails ==
  /\ At("flushall") /\ call.frame < Capacity
  /\ FlushFrame(call.frame, FALSE)
  /\ IF call.op = "destroy" THEN Goto("lost") ELSE Return
FlushAllReturns ==
  /\ At("flushall") /\ call.frame = Capacity
  /\ IF call.op = "destroy" THEN Goto("lost") ELSE Return
  /\ UNCHANGED <<heapVars, poolVars, guard>>

-----------------------------------------------------------------------------
\* What the client does between calls.

\* The client assigns through mutable_page() of a guard.
Write(g, image) ==
  /\ At("idle") /\ g \in Holding
  /\ frames' = [frames EXCEPT ![guard[g]].dirty = TRUE, ![guard[g]].image = image]
  /\ UNCHANGED <<heapVars, table, hand, guard, call>>

Unpinned(f) == [frames EXCEPT ![f].pin = IF @ > 0 THEN @ - 1 ELSE @]

Release(g) ==
  /\ At("idle") /\ g \in Holding
  /\ frames' = Unpinned(guard[g])
  /\ guard' = [guard EXCEPT ![g] = NoFrame]
  /\ UNCHANGED <<heapVars, table, hand, call>>

\* Mutant: assigning over a guard forgets to release what it held.
MoveLeaksPin(g, h) ==
  /\ At("idle") /\ g # h
  /\ guard' = [guard EXCEPT ![h] = guard[g], ![g] = NoFrame]
  /\ UNCHANGED <<heapVars, poolVars, call>>

\* Move assignment h = std::move(g), and move construction when h holds nothing.
Move(g, h) ==
  /\ At("idle") /\ g # h
  /\ frames' = IF h \in Holding THEN Unpinned(guard[h]) ELSE frames
  /\ guard' = [guard EXCEPT ![h] = guard[g], ![g] = NoFrame]
  /\ UNCHANGED <<heapVars, table, hand, call>>

\* flush(p) of a resident page; of any other page it returns at once.
Flush(p) ==
  /\ At("idle") /\ Resident(p)
  /\ \E ok \in BOOLEAN : FlushFrame(table[p], ok)
  /\ UNCHANGED call

\* The process ends, by a crash at any point or after the destructor, and the
\* next one opens the file.  What open does when it refuses the file is in
\* HeapFile.tla; no pool exists then.
Restart ==
  /\ headerOk
  /\ frames' = NoFrames
  /\ table' = NoTable
  /\ hand' = 0
  /\ guard' = NoGuards
  /\ call' = Idle
  /\ UNCHANGED heapVars

-----------------------------------------------------------------------------
CallStep ==
  \/ PassOver \/ PickVictim \/ Exhausted
  \/ ReadPage \/ ReadFails
  \/ SkipWriteBack \/ WriteBack \/ WriteBackFails
  \/ Extend \/ ExtendFails \/ Install
  \/ FlushAllSkip \/ FlushAllWrite \/ FlushAllFails \/ FlushAllReturns

ClientStep ==
  \/ \E p \in PageIds : FetchHit(p) \/ BeginFetch(p) \/ Flush(p)
  \/ BeginAllocate
  \/ \E op \in {"flush_all", "destroy"} : BeginFlushAll(op)
  \/ \E g \in Guards, image \in Contents : Write(g, image)
  \/ \E g \in Guards : Release(g) \/ \E h \in Guards : Move(g, h)

Next == CallStep \/ ClientStep \/ Restart

Spec == Init /\ [][Next]_vars

\* The calling thread keeps running while a pool operation is in progress;
\* nothing is assumed about the client between operations.
FairSpec == Spec /\ WF_vars(CallStep)

-----------------------------------------------------------------------------
\* Types of the variables (buffer_pool.hpp:69-88).
FrameRecords == [page : PageIds \cup {NoPage}, image : Contents, pin : Nat,
                 ref : BOOLEAN, dirty : BOOLEAN]
Pcs == {"idle", "sweep", "read", "writeback", "extend", "install", "flushall", "lost"}
Ops == {"none", "fetch", "allocate", "flush_all", "destroy"}
Calls == [pc : Pcs, op : Ops, page : PageIds \cup {NoPage},
          frame : 0 .. Capacity \cup {NoFrame},
          examined : 0 .. 2 * Capacity, incoming : Contents]

TypeOK ==
  /\ pageCount \in 0 .. MaxPages
  /\ disk \in [PageIds -> Contents \cup {Torn, Absent}]
  /\ headerOk \in BOOLEAN
  /\ frames \in [Frames -> FrameRecords]
  /\ table \in [PageIds -> Frames \cup {NoFrame}]
  /\ hand \in Frames
  /\ guard \in [Guards -> Frames \cup {NoFrame}]
  /\ call \in Calls

\* page_table_ and frames_ are inverse to each other, so that no page is
\* resident in two frames and a lookup never finds a frame that was reused
\* (install, after failed and successful evictions).
TableMatchesFrames ==
  /\ \A f \in Frames : Occupied(f) => table[frames[f].page] = f
  /\ \A p \in PageIds : Resident(p) => frames[table[p]].page = p

\* pin_count is the number of live guards on the frame whatever sequence of
\* fetches, moves and releases ran: no leaked pin makes a frame unevictable
\* and none is dropped early (PageGuard's move operations, unpin's clamp).
GuardsOn(f) == {g \in Guards : guard[g] = f}
PinsMatchGuards == \A f \in Frames : frames[f].pin = Cardinality(GuardsOn(f))

\* A frame not marked dirty equals its block of the file, so evicting it
\* without a write loses nothing, also after a write that failed.
CleanFramesMatchHeap ==
  \A f \in Frames : Occupied(f) /\ ~frames[f].dirty => disk[frames[f].page] = frames[f].image

\* choose_victim gives up only when every frame really is pinned: two passes
\* of the hand are enough whatever reference bits it started from.
ExhaustedOnlyWhenAllPinned ==
  At("sweep") /\ call.examined = 2 * Capacity => \A f \in Frames : Occupied(f) /\ Pinned(f)

\* As long as a guard keeps its frame, the frame keeps its page: no eviction
\* under a live guard.
GuardsKeepPage ==
  [][\A g \in Holding : guard'[g] = guard[g] => frames'[guard[g]].page = frames[guard[g]].page]_vars

\* The pool over the file is a page store: clients see one current image per
\* page through evictions, reloads, failed reads, writes and allocations, and
\* the process ending costs at most what had not been written back.
Current(p) == IF Resident(p) THEN frames[table[p]].image ELSE disk[p]
Store == INSTANCE PageStore WITH
  current <- [p \in PageIds |-> Current(p)], durable <- disk
ImplementsPageStore == Store!Spec

\* Every pool operation returns, with a guard or an exception, and the destructor
\* ends.
CallsReturn == ~At("idle") ~> At("idle") \/ At("lost")

-----------------------------------------------------------------------------
\* The inductive invariant behind the safety properties.

\* The file has exactly the blocks below page_count_, and frames hold only those.
FileInv == \A p \in PageIds : disk[p] = Absent <=> p >= pageCount
FramesInv == \A f \in Frames : Occupied(f) => frames[f].page < pageCount

\* A guard's frame is occupied and pinned.
GuardInv == \A g \in Holding : Occupied(guard[g])

\* How many steps ago the hand passed frame f, counted from 0.
Behind(f) == IF f < hand THEN hand - 1 - f ELSE hand - 1 - f + Capacity

\* During a sweep every frame passed is occupied and pinned or without its
\* reference bit, and every frame passed twice is pinned.
SweepInv ==
  At("sweep") =>
    \A f \in Frames :
      /\ Behind(f) < call.examined => Occupied(f) /\ (Pinned(f) \/ ~frames[f].ref)
      /\ Behind(f) + Capacity < call.examined => Pinned(f)

\* The victim stays unpinned until install replaces it, clean once it has been
\* written back, and the wanted page is resident nowhere.
Missing == call.pc \in {"sweep", "read", "writeback", "extend", "install"}
Chosen == call.pc \in {"read", "writeback", "extend", "install"}
MissInv ==
  /\ Missing => /\ call.op \in {"fetch", "allocate"}
                /\ call.page \in PageIds
                /\ ~Resident(call.page)
                /\ Holding # Guards
  /\ Chosen => call.frame \in Frames /\ ~Pinned(call.frame)
  /\ call.pc \in {"extend", "install"} => ~MustFlush(call.frame)
  /\ At("read") => call.op = "fetch"
  /\ Missing /\ call.op = "allocate" /\ ~At("install") => call.page = pageCount
  /\ At("extend") => call.op = "allocate"
  /\ (At("writeback") /\ call.op = "fetch") \/ At("install") =>
       call.page < pageCount /\ call.incoming = disk[call.page]
  /\ At("flushall") => call.op \in {"flush_all", "destroy"} /\ call.frame \in 0 .. Capacity
  /\ At("lost") \/ (At("flushall") /\ call.op = "destroy") => Holding = {}

IInv ==
  /\ TypeOK
  /\ FileInv
  /\ FramesInv
  /\ GuardInv
  /\ TableMatchesFrames
  /\ PinsMatchGuards
  /\ CleanFramesMatchHeap
  /\ SweepInv
  /\ MissInv
=============================================================================
