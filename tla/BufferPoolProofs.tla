-------------------------- MODULE BufferPoolProofs --------------------------
(***************************************************************************)
(* Proofs about BufferPool: the invariant IInv is inductive for every      *)
(* capacity, file bound, set of images and finite set of guards, and the   *)
(* safety properties of the pool follow from it.                           *)
(***************************************************************************)
EXTENDS BufferPool, FiniteSetTheorems, TLAPS

USE DEF NoPage, NoFrame, At, PageIds, Frames

-----------------------------------------------------------------------------
\* Counting guards.

On(gd, f) == {g \in Guards : gd[g] = f}
Count(b) == IF b THEN 1 ELSE 0

\* The number of guards on a frame is a natural number, 0 just when no guard is.
LEMMA OnFinite ==
  ASSUME NEW gd, NEW f
  PROVE  /\ IsFiniteSet(On(gd, f))
         /\ Cardinality(On(gd, f)) \in Nat
         /\ Cardinality(On(gd, f)) = 0 <=> On(gd, f) = {}
<1>1. On(gd, f) \subseteq Guards BY DEF On
<1>2. IsFiniteSet(On(gd, f)) BY <1>1, GuardsAssumption, FS_Subset
<1> QED BY <1>2, FS_CardinalityType, FS_EmptySet

\* Counting a guard on top of the others.
LEMMA CountOne ==
  ASSUME NEW rest, NEW gd, NEW g \in Guards, NEW x,
         \A k : k \in rest <=> k \in On(gd, x) /\ k # g
  PROVE  /\ Cardinality(rest) \in Nat
         /\ Cardinality(On(gd, x)) = Cardinality(rest) + Count(gd[g] = x)
<1>1. g \notin rest /\ rest \subseteq On(gd, x) OBVIOUS
<1>2. IsFiniteSet(rest) /\ Cardinality(rest) \in Nat
  BY <1>1, OnFinite, FS_Subset, FS_CardinalityType
<1>3. CASE gd[g] = x
  <2>1. On(gd, x) = rest \cup {g} BY <1>3 DEF On
  <2>2. Cardinality(rest \cup {g}) = Cardinality(rest) + 1
    BY <1>1, <1>2, FS_AddElement
  <2> QED BY <1>2, <1>3, <2>1, <2>2 DEF Count
<1>4. CASE gd[g] # x
  <2>1. On(gd, x) = rest BY <1>4 DEF On
  <2> QED BY <1>2, <1>4, <2>1 DEF Count
<1> QED BY <1>3, <1>4

\* Repointing one guard moves one count from its old frame to its new one.
LEMMA Repoint ==
  ASSUME NEW gd \in [Guards -> Frames \cup {NoFrame}],
         NEW new \in [Guards -> Frames \cup {NoFrame}],
         NEW g \in Guards, NEW x,
         \A k \in Guards \ {g} : new[k] = gd[k]
  PROVE  Cardinality(On(new, x)) + Count(gd[g] = x)
           = Cardinality(On(gd, x)) + Count(new[g] = x)
<1>1. PICK rest : rest = On(gd, x) \ {g} OBVIOUS
<1>2. \A k : k \in rest <=> k \in On(gd, x) /\ k # g BY <1>1
<1>3. \A k : k \in rest <=> k \in On(new, x) /\ k # g BY <1>1 DEF On
<1>4. Cardinality(rest) \in Nat /\ Cardinality(On(gd, x)) = Cardinality(rest) + Count(gd[g] = x)
  BY <1>2, CountOne
<1>5. Cardinality(On(new, x)) = Cardinality(rest) + Count(new[g] = x)
  BY <1>3, CountOne
<1> QED BY <1>4, <1>5 DEF Count

-----------------------------------------------------------------------------
\* Every initial state satisfies IInv.
LEMMA InitIInv == Init => IInv
<1> SUFFICES ASSUME Init PROVE IInv OBVIOUS
<1> USE DEF Init, NoFrames, NoTable, NoGuards, EmptyFrame, Idle, Occupied, Resident, Holding
<1>1. TypeOK
  BY CapacityAssumption, MaxPagesAssumption, ContentsAssumption
     DEF TypeOK, FrameRecords, Calls, Pcs, Ops
<1>2. FileInv BY MaxPagesAssumption DEF FileInv
<1>3. FramesInv /\ GuardInv /\ TableMatchesFrames /\ CleanFramesMatchHeap
  BY DEF FramesInv, GuardInv, TableMatchesFrames, CleanFramesMatchHeap
<1>4. PinsMatchGuards
  <2> SUFFICES ASSUME NEW f \in Frames PROVE Cardinality(GuardsOn(f)) = 0
    BY DEF PinsMatchGuards
  <2>1. GuardsOn(f) = {} BY CapacityAssumption DEF GuardsOn
  <2> QED BY <2>1, FS_EmptySet
<1>5. SweepInv /\ MissInv BY DEF SweepInv, MissInv, Missing, Chosen
<1> QED BY <1>1, <1>2, <1>3, <1>4, <1>5 DEF IInv

-----------------------------------------------------------------------------
\* Facts the steps share.

\* Pins are still right when neither the guards nor the pin counts changed.
LEMMA SamePins ==
  ASSUME PinsMatchGuards, UNCHANGED guard,
         \A f \in Frames : frames'[f].pin = frames[f].pin
  PROVE  PinsMatchGuards'
BY DEF PinsMatchGuards, GuardsOn

\* An unpinned frame has no guard.
LEMMA NoGuardOnUnpinned ==
  ASSUME PinsMatchGuards, NEW f \in Frames, ~Pinned(f)
  PROVE  \A g \in Guards : guard[g] # f
<1>1. Cardinality(On(guard, f)) = 0 BY DEF PinsMatchGuards, GuardsOn, On, Pinned
<1>2. On(guard, f) = {} BY <1>1, OnFinite
<1> QED BY <1>2 DEF On

\* The hand passed every frame at most Capacity - 1 steps ago.
LEMMA BehindType ==
  ASSUME NEW f \in Frames, hand \in Frames
  PROVE  Behind(f) \in 0 .. Capacity - 1
BY CapacityAssumption DEF Behind

\* The state between calls is well typed.
LEMMA IdleType == Idle \in Calls
<1>1. 0 \in 0 .. 2 * Capacity BY CapacityAssumption
<1>2. NoFrame \in 0 .. Capacity \cup {NoFrame} BY CapacityAssumption
<1> QED BY <1>1, <1>2, ContentsAssumption DEF Idle, Calls, Pcs, Ops

\* No frame has been passed when a call begins.
LEMMA BeginSweep ==
  ASSUME TypeOK, UNCHANGED hand, call'.examined = 0
  PROVE  SweepInv'
<1> SUFFICES ASSUME NEW f \in Frames PROVE Behind(f)' >= 0 /\ Behind(f)' + Capacity >= 0
  BY CapacityAssumption, BehindType DEF SweepInv, TypeOK, Behind
<1>1. Behind(f)' = Behind(f) BY DEF Behind
<1> QED BY <1>1, BehindType, CapacityAssumption DEF TypeOK

\* A step that changes only `call` leaves the parts about the pool alone.
LEMMA CallOnly ==
  ASSUME IInv, UNCHANGED <<heapVars, poolVars, guard>>
  PROVE  /\ FileInv' /\ FramesInv' /\ GuardInv' /\ TableMatchesFrames'
         /\ PinsMatchGuards' /\ CleanFramesMatchHeap'
         /\ call' \in Calls => TypeOK'
<1> USE DEF IInv, heapVars, poolVars, Occupied, Resident, Holding
<1>1. FileInv' /\ FramesInv' BY DEF FileInv, FramesInv
<1>2. GuardInv' /\ TableMatchesFrames' BY DEF GuardInv, TableMatchesFrames
<1>3. PinsMatchGuards' BY SamePins
<1>4. CleanFramesMatchHeap' BY DEF CleanFramesMatchHeap
<1>5. call' \in Calls => TypeOK' BY DEF TypeOK
<1> QED BY <1>1, <1>2, <1>3, <1>4, <1>5

-----------------------------------------------------------------------------
\* The steps of a call that change nothing but `call`.

\* fetch of a page that is not resident starts the sweep.
LEMMA BeginFetchInv == ASSUME IInv, NEW p \in PageIds, BeginFetch(p) PROVE IInv'
<1> USE DEF IInv
<1>1. UNCHANGED <<heapVars, poolVars, guard>> BY DEF BeginFetch
<1>2. call' \in Calls BY IdleType DEF BeginFetch, Calls, Pcs, Ops
<1>3. SweepInv' BY <1>1, BeginSweep DEF BeginFetch, Idle, poolVars
<1>4. MissInv'
  BY <1>1 DEF BeginFetch, Idle, MissInv, Missing, Chosen, Resident, Holding, poolVars
<1> QED BY <1>1, <1>2, <1>3, <1>4, CallOnly

\* allocate starts the sweep; the page at the end of the file is not resident.
LEMMA BeginAllocateInv == ASSUME IInv, BeginAllocate PROVE IInv'
<1> USE DEF IInv
<1>1. UNCHANGED <<heapVars, poolVars, guard>> BY DEF BeginAllocate
<1>2. pageCount \in PageIds BY MaxPagesAssumption DEF TypeOK, BeginAllocate
<1>3. call' \in Calls BY <1>2, IdleType DEF BeginAllocate, Calls, Pcs, Ops
<1>4. SweepInv' BY <1>1, BeginSweep DEF BeginAllocate, Idle, poolVars
<1>5. ~Resident(pageCount)
  BY <1>2 DEF TypeOK, TableMatchesFrames, FramesInv, Resident, Occupied, FrameRecords
<1>6. MissInv'
  BY <1>1, <1>2, <1>5
     DEF BeginAllocate, Idle, MissInv, Missing, Chosen, Resident, Holding, heapVars, poolVars
<1> QED BY <1>1, <1>3, <1>4, <1>6, CallOnly

\* A call that returns without changing the pool (exhaustion, a failed read).
LEMMA ReturnInv ==
  ASSUME IInv, Exhausted \/ ReadFails \/ (FlushAllReturns /\ Return)
  PROVE  IInv'
<1> USE DEF IInv
<1>1. UNCHANGED <<heapVars, poolVars, guard>> BY DEF Exhausted, ReadFails, FlushAllReturns
<1>2. call' = Idle BY DEF Exhausted, ReadFails, Return
<1>3. SweepInv' /\ MissInv' BY <1>2 DEF Idle, SweepInv, MissInv, Missing, Chosen
<1> QED BY <1>1, <1>2, <1>3, CallOnly, IdleType

\* The page read is what the file holds.
LEMMA ReadPageInv == ASSUME IInv, ReadPage PROVE IInv'
<1> USE DEF IInv
<1>1. UNCHANGED <<heapVars, poolVars, guard>> BY DEF ReadPage
<1>2. disk[call.page] \in Contents
  BY DEF ReadPage, TypeOK, MissInv, Missing, FileInv
<1>3. call' \in Calls BY <1>2 DEF ReadPage, TypeOK, Calls, Pcs
<1>4. SweepInv' BY DEF ReadPage, SweepInv, TypeOK, Calls
<1>5. MissInv'
  BY <1>1 DEF ReadPage, MissInv, Missing, Chosen, Resident, Holding, Pinned, MustFlush,
              Occupied, TypeOK, Calls, heapVars, poolVars
<1> QED BY <1>1, <1>3, <1>4, <1>5, CallOnly

\* A clean or empty victim needs no write.
LEMMA SkipWriteBackInv == ASSUME IInv, SkipWriteBack PROVE IInv'
<1> USE DEF IInv, Goto, AfterWriteBack
<1>1. UNCHANGED <<heapVars, poolVars, guard>> BY DEF SkipWriteBack
<1>2. call' \in Calls BY DEF SkipWriteBack, TypeOK, Calls, Pcs
<1>3. SweepInv' BY DEF SkipWriteBack, SweepInv, TypeOK, Calls
<1>4. MissInv'
  BY <1>1 DEF SkipWriteBack, MissInv, Missing, Chosen, Resident, Holding, Pinned, MustFlush,
              Occupied, TypeOK, Calls, heapVars, poolVars
<1> QED BY <1>1, <1>2, <1>3, <1>4, CallOnly

\* flush_all and the destructor start at the first frame.
LEMMA BeginFlushAllInv ==
  ASSUME IInv, NEW op \in {"flush_all", "destroy"}, BeginFlushAll(op) PROVE IInv'
<1> USE DEF IInv
<1>1. UNCHANGED <<heapVars, poolVars, guard>> BY DEF BeginFlushAll
<1>2. 0 \in 0 .. Capacity BY CapacityAssumption
<1>3. call' \in Calls BY <1>2, IdleType DEF BeginFlushAll, Calls, Pcs, Ops
<1>4. SweepInv' BY <1>1, BeginSweep DEF BeginFlushAll, Idle, poolVars
<1>5. MissInv' BY <1>1, <1>2 DEF BeginFlushAll, Idle, MissInv, Missing, Chosen, Holding
<1> QED BY <1>1, <1>3, <1>4, <1>5, CallOnly

\* flush_all passes a frame with nothing to write.
LEMMA FlushAllSkipInv == ASSUME IInv, FlushAllSkip PROVE IInv'
<1> USE DEF IInv, NextFrame
<1>1. UNCHANGED <<heapVars, poolVars, guard>> BY DEF FlushAllSkip
<1>2. call.frame + 1 \in 0 .. Capacity BY CapacityAssumption DEF FlushAllSkip, MissInv
<1>3. call' \in Calls BY <1>2 DEF FlushAllSkip, TypeOK, Calls
<1>4. SweepInv' BY DEF FlushAllSkip, SweepInv, TypeOK, Calls
<1>5. MissInv'
  BY <1>1, <1>2 DEF FlushAllSkip, MissInv, Missing, Chosen, Holding, TypeOK, Calls
<1> QED BY <1>1, <1>3, <1>4, <1>5, CallOnly

\* flush_all is done, or the destructor is about to drop the frames.
LEMMA FlushAllReturnsInv == ASSUME IInv, FlushAllReturns PROVE IInv'
<1>1. CASE Return BY <1>1, ReturnInv
<1>2. CASE ~Return
  <2> USE DEF IInv, Goto
  <2>1. UNCHANGED <<heapVars, poolVars, guard>> BY DEF FlushAllReturns
  <2>2. call' \in Calls BY <1>2 DEF FlushAllReturns, TypeOK, Calls, Pcs
  <2>3. SweepInv' BY <1>2 DEF FlushAllReturns, SweepInv, TypeOK, Calls
  <2>4. MissInv'
    BY <1>2, <2>1 DEF FlushAllReturns, MissInv, Missing, Chosen, Holding, TypeOK, Calls
  <2> QED BY <2>1, <2>2, <2>3, <2>4, CallOnly
<1> QED BY <1>1, <1>2

-----------------------------------------------------------------------------
\* The clock sweep.

\* The hand passes a pinned or recently referenced frame.
LEMMA PassOverInv == ASSUME IInv, PassOver PROVE IInv'
<1> USE DEF IInv, PassOver
<1>1. /\ call.pc = "sweep" /\ call.examined \in 0 .. 2 * Capacity /\ call.examined < 2 * Capacity
      /\ call' = [call EXCEPT !.examined = call.examined + 1]
      /\ Capacity \in Nat /\ Capacity > 0 /\ hand \in 0 .. Capacity - 1
  BY CapacityAssumption DEF TypeOK, Calls
<1>2. call.examined + 1 \in 0 .. 2 * Capacity BY <1>1
<1>3. hand' \in Frames BY <1>1 DEF Advance
<1>4. frames \in [Frames -> FrameRecords] BY DEF TypeOK
<1>5. \A f \in Frames : /\ frames'[f].page = frames[f].page
                        /\ frames'[f].image = frames[f].image
                        /\ frames'[f].pin = frames[f].pin
                        /\ frames'[f].dirty = frames[f].dirty
                        /\ frames'[f].ref = (frames[f].ref /\ (f = hand => Pinned(hand)))
  BY <1>1, <1>4 DEF FrameRecords
<1>6. frames' \in [Frames -> FrameRecords] BY <1>1, <1>4 DEF FrameRecords
<1>7. TypeOK' BY <1>2, <1>3, <1>6 DEF TypeOK, Calls, heapVars
<1>8. FileInv' /\ FramesInv' BY <1>5 DEF FileInv, FramesInv, Occupied, heapVars
<1>9. GuardInv' /\ TableMatchesFrames'
  BY <1>5 DEF GuardInv, TableMatchesFrames, Occupied, Resident, Holding, TypeOK
<1>10. PinsMatchGuards' BY <1>5, SamePins
<1>11. CleanFramesMatchHeap' BY <1>5 DEF CleanFramesMatchHeap, Occupied, heapVars
<1>12. SweepInv'
  <2> SUFFICES ASSUME NEW f \in Frames
               PROVE /\ Behind(f)' < call.examined + 1 =>
                          Occupied(f)' /\ (Pinned(f)' \/ ~frames'[f].ref)
                     /\ Behind(f)' + Capacity < call.examined + 1 => Pinned(f)'
    BY <1>1, <1>2 DEF SweepInv, TypeOK, Calls
  <2>1. Behind(f) \in 0 .. Capacity - 1 BY <1>1, BehindType
  <2>2. Occupied(f)' = Occupied(f) /\ Pinned(f)' = Pinned(f)
    BY <1>5 DEF Occupied, Pinned
  <2>3. CASE f = hand
    <3>1. Behind(f) = Capacity - 1 BY <1>1, <2>3 DEF Behind
    <3>2. Behind(f)' = 0 BY <1>1, <2>3 DEF Behind, Advance
    <3>3. Occupied(f) /\ (Pinned(f) \/ frames[f].ref) BY <2>3 DEF Evictable
    <3>4. Pinned(f)' \/ ~frames'[f].ref BY <1>5, <2>2, <2>3
    <3>5. Capacity < call.examined + 1 => Pinned(f)
      BY <1>1, <3>1, <3>3 DEF SweepInv
    <3> QED BY <1>1, <2>2, <3>2, <3>3, <3>4, <3>5
  <2>4. CASE f # hand
    <3>1. Behind(f)' = Behind(f) + 1
      <4>1. CASE hand + 1 = Capacity BY <1>1, <2>4, <4>1 DEF Behind, Advance
      <4>2. CASE hand + 1 # Capacity BY <1>1, <2>4, <4>2 DEF Behind, Advance
      <4> QED BY <4>1, <4>2
    <3>2. frames'[f].ref = frames[f].ref BY <1>5, <2>4
    <3>3. /\ Behind(f) < call.examined => Occupied(f) /\ (Pinned(f) \/ ~frames[f].ref)
          /\ Behind(f) + Capacity < call.examined => Pinned(f)
      BY <1>1 DEF SweepInv
    <3> QED BY <1>1, <2>1, <2>2, <3>1, <3>2, <3>3
  <2> QED BY <2>3, <2>4
<1>13. MissInv'
  BY <1>1, <1>5 DEF MissInv, Missing, Chosen, Resident, Holding, TypeOK, Calls, heapVars
<1> QED BY <1>7, <1>8, <1>9, <1>10, <1>11, <1>12, <1>13

\* The hand finds an empty frame, or one neither pinned nor referenced.
LEMMA PickVictimInv == ASSUME IInv, PickVictim PROVE IInv'
<1> USE DEF IInv, PickVictim
<1>1. hand \in 0 .. Capacity - 1 /\ Capacity \in Nat /\ Capacity > 0
  BY CapacityAssumption DEF TypeOK
<1>2. hand' \in Frames /\ hand \in 0 .. Capacity \cup {NoFrame}
  BY <1>1 DEF Advance
<1>3. call' \in Calls BY <1>2 DEF TypeOK, Calls, Pcs
<1>4. TypeOK' BY <1>2, <1>3 DEF TypeOK, heapVars
<1>5. FileInv' /\ FramesInv' BY DEF FileInv, FramesInv, Occupied, heapVars
<1>6. GuardInv' /\ TableMatchesFrames'
  BY DEF GuardInv, TableMatchesFrames, Occupied, Resident, Holding
<1>7. PinsMatchGuards' BY SamePins
<1>8. CleanFramesMatchHeap' BY DEF CleanFramesMatchHeap, Occupied, heapVars
<1>9. SweepInv' BY DEF SweepInv, TypeOK, Calls
<1>10. ~Pinned(hand)
  <2>1. CASE Occupied(hand) BY <2>1 DEF Evictable
  <2>2. CASE ~Occupied(hand)
    <3>1. On(guard, hand) = {} BY <1>1, <2>2 DEF GuardInv, Holding, On
    <3>2. Cardinality(On(guard, hand)) = 0 BY <3>1, OnFinite
    <3> QED BY <1>1, <3>2 DEF PinsMatchGuards, GuardsOn, On, Pinned
  <2> QED BY <2>1, <2>2
<1>11. MissInv'
  BY <1>1, <1>10 DEF MissInv, Missing, Chosen, Resident, Holding, Pinned, TypeOK, Calls, heapVars
<1> QED BY <1>4, <1>5, <1>6, <1>7, <1>8, <1>9, <1>11

-----------------------------------------------------------------------------
\* Writing a frame back.  A page resident nowhere keeps its block; whatever
\* the outcome, a frame left clean equals its block.
LEMMA FlushFrameInv ==
  ASSUME IInv, NEW f \in Frames, NEW ok \in BOOLEAN, FlushFrame(f, ok)
  PROVE  /\ call' \in Calls => TypeOK'
         /\ FileInv' /\ FramesInv' /\ GuardInv' /\ TableMatchesFrames'
         /\ PinsMatchGuards' /\ CleanFramesMatchHeap'
         /\ \A p \in PageIds : ~Resident(p) => disk'[p] = disk[p]
         /\ \A h \in Frames : /\ frames'[h].page = frames[h].page
                              /\ frames'[h].pin = frames[h].pin
         /\ ok => ~MustFlush(f)'
<1> USE DEF IInv, FlushFrame
<1> DEFINE p == frames[f].page
<1>1. frames \in [Frames -> FrameRecords] /\ Occupied(f) BY DEF TypeOK, MustFlush
<1>2. p \in PageIds /\ table[p] = f /\ p < pageCount /\ frames[f].image \in Contents
  BY <1>1 DEF Occupied, FrameRecords, TableMatchesFrames, FramesInv
<1>3. PICK left : /\ left \in IF ok THEN {frames[f].image} ELSE {disk[p], frames[f].image, Torn}
                  /\ disk' = [disk EXCEPT ![p] = left]
  BY DEF WriteBlock
<1>4. disk \in [PageIds -> Contents \cup {Torn, Absent}] /\ disk[p] # Absent
  BY <1>2 DEF TypeOK, FileInv
<1>5. left \in Contents \cup {Torn} /\ left # Absent
  BY <1>2, <1>3, <1>4, ContentsAssumption
<1>6. \A h \in Frames : /\ frames'[h].page = frames[h].page
                        /\ frames'[h].image = frames[h].image
                        /\ frames'[h].pin = frames[h].pin
                        /\ frames'[h].ref = frames[h].ref
                        /\ frames'[h].dirty = (frames[h].dirty /\ ~(h = f /\ ok))
  BY <1>1 DEF FrameRecords
<1>7. frames' \in [Frames -> FrameRecords] BY <1>1 DEF FrameRecords
<1>8. disk' \in [PageIds -> Contents \cup {Torn, Absent}] BY <1>3, <1>4, <1>5
<1>9. call' \in Calls => TypeOK' BY <1>7, <1>8 DEF TypeOK
<1>10. FileInv' BY <1>2, <1>3, <1>4, <1>5 DEF FileInv
<1>11. FramesInv' BY <1>6 DEF FramesInv, Occupied
<1>12. GuardInv' /\ TableMatchesFrames'
  BY <1>6 DEF GuardInv, TableMatchesFrames, Occupied, Resident, Holding, TypeOK
<1>13. PinsMatchGuards' BY <1>6, SamePins
<1>14. CleanFramesMatchHeap'
  <2> SUFFICES ASSUME NEW h \in Frames, Occupied(h)', ~frames'[h].dirty
               PROVE disk'[frames[h].page] = frames[h].image
    BY <1>6 DEF CleanFramesMatchHeap
  <2>1. Occupied(h) /\ frames[h].page \in PageIds
    BY <1>1, <1>6 DEF Occupied, FrameRecords
  <2>2. CASE h = f
    <3>1. ok BY <1>6, <2>2 DEF MustFlush
    <3> QED BY <1>2, <1>3, <1>4, <2>2, <3>1
  <2>3. CASE h # f
    <3>1. frames[h].page # p BY <1>2, <2>1, <2>3 DEF TableMatchesFrames
    <3>2. ~frames[h].dirty BY <1>6, <2>3
    <3>3. disk[frames[h].page] = frames[h].image BY <2>1, <3>2 DEF CleanFramesMatchHeap
    <3> QED BY <1>3, <1>4, <2>1, <3>1, <3>3
  <2> QED BY <2>2, <2>3
<1>15. \A q \in PageIds : ~Resident(q) => disk'[q] = disk[q]
  BY <1>2, <1>3, <1>4 DEF Resident
<1>16. ok => ~MustFlush(f)' BY <1>6 DEF MustFlush
<1> QED BY <1>6, <1>9, <1>10, <1>11, <1>12, <1>13, <1>14, <1>15, <1>16

\* The victim's image reaches the file.
LEMMA WriteBackInv == ASSUME IInv, WriteBack PROVE IInv'
<1> USE DEF IInv, WriteBack, Goto, AfterWriteBack
<1>1. PICK f \in Frames : f = call.frame BY DEF MissInv, Chosen
<1>2. call' \in Calls BY DEF TypeOK, Calls, Pcs
<1>3. /\ TypeOK'
      /\ FileInv' /\ FramesInv' /\ GuardInv' /\ TableMatchesFrames'
      /\ PinsMatchGuards' /\ CleanFramesMatchHeap'
      /\ \A p \in PageIds : ~Resident(p) => disk'[p] = disk[p]
      /\ frames'[f].pin = frames[f].pin
      /\ ~MustFlush(f)'
  BY <1>1, <1>2, FlushFrameInv
<1>4. SweepInv' BY DEF SweepInv, TypeOK, Calls
<1>5. /\ call'.frame = f /\ call'.page = call.page /\ call'.op = call.op
      /\ call'.incoming = call.incoming
      /\ call'.pc = IF call.op = "fetch" THEN "install" ELSE "extend"
  BY <1>1 DEF TypeOK, Calls
<1>6. ~Pinned(f)' BY <1>1, <1>3 DEF MissInv, Chosen, Pinned
<1>7. UNCHANGED <<pageCount, table, guard>> BY DEF FlushFrame
<1>8. MissInv'
  BY <1>1, <1>3, <1>5, <1>6, <1>7 DEF MissInv, Missing, Chosen, Resident, Holding
<1> QED BY <1>3, <1>4, <1>8

\* Writing the victim fails; it stays resident and dirty.
LEMMA WriteBackFailsInv == ASSUME IInv, WriteBackFails PROVE IInv'
<1> USE DEF IInv, WriteBackFails, Return
<1>1. call.frame \in Frames BY DEF MissInv, Chosen
<1>2. SweepInv' /\ MissInv' BY DEF Idle, SweepInv, MissInv, Missing, Chosen
<1> QED BY <1>1, <1>2, IdleType, FlushFrameInv

\* flush_all writes one frame.
LEMMA FlushAllWriteInv == ASSUME IInv, FlushAllWrite PROVE IInv'
<1> USE DEF IInv, FlushAllWrite, NextFrame
<1>1. call.frame \in Frames /\ call.frame + 1 \in 0 .. Capacity
  BY CapacityAssumption DEF MissInv
<1>2. call' \in Calls BY <1>1 DEF TypeOK, Calls
<1>3. SweepInv' BY DEF SweepInv, TypeOK, Calls
<1>4. UNCHANGED guard BY DEF FlushFrame
<1>5. MissInv' BY <1>1, <1>4 DEF MissInv, Missing, Chosen, Holding, TypeOK, Calls
<1> QED BY <1>1, <1>2, <1>3, <1>5, FlushFrameInv

\* flush_all stops at a frame it cannot write.
LEMMA FlushAllFailsInv == ASSUME IInv, FlushAllFails PROVE IInv'
<1> USE DEF IInv, FlushAllFails, Goto, Return
<1>1. call.frame \in Frames BY CapacityAssumption DEF MissInv
<1>2. call' \in Calls BY IdleType DEF TypeOK, Calls, Pcs
<1>3. SweepInv' BY DEF SweepInv, TypeOK, Calls, Idle
<1>4. UNCHANGED guard BY DEF FlushFrame
<1>5. MissInv' BY <1>1, <1>4 DEF MissInv, Missing, Chosen, Holding, TypeOK, Calls, Idle
<1> QED BY <1>1, <1>2, <1>3, <1>5, FlushFrameInv

\* flush writes one resident page.
LEMMA FlushInv == ASSUME IInv, NEW p \in PageIds, Flush(p) PROVE IInv'
<1> USE DEF IInv, Flush
<1>1. table[p] \in Frames BY DEF TypeOK, Resident
<1>2. PICK ok \in BOOLEAN : FlushFrame(table[p], ok) OBVIOUS
<1>3. call' \in Calls BY DEF TypeOK
<1>4. SweepInv' /\ MissInv' BY DEF SweepInv, MissInv, Missing, Chosen
<1> QED BY <1>1, <1>2, <1>3, <1>4, FlushFrameInv

-----------------------------------------------------------------------------
\* Growing the file and installing the incoming page.

\* The file gains a blank block at its end.
LEMMA Grow ==
  ASSUME IInv, pageCount < MaxPages, disk' = [disk EXCEPT ![pageCount] = Blank],
         pageCount' = pageCount + 1, UNCHANGED <<poolVars, guard>>
  PROVE  /\ call' \in Calls /\ headerOk' \in BOOLEAN => TypeOK'
         /\ FileInv' /\ FramesInv' /\ GuardInv' /\ TableMatchesFrames'
         /\ PinsMatchGuards' /\ CleanFramesMatchHeap'
         /\ disk'[pageCount] = Blank
<1> USE DEF IInv, poolVars
<1>1. pageCount \in PageIds /\ pageCount + 1 \in 0 .. MaxPages
  BY MaxPagesAssumption DEF TypeOK
<1>2. disk \in [PageIds -> Contents \cup {Torn, Absent}] BY DEF TypeOK
<1>3. disk' \in [PageIds -> Contents \cup {Torn, Absent}]
  BY <1>1, <1>2, ContentsAssumption
<1>4. call' \in Calls /\ headerOk' \in BOOLEAN => TypeOK' BY <1>1, <1>3 DEF TypeOK
<1>5. FileInv' BY <1>1, <1>2, ContentsAssumption DEF FileInv
<1>6. FramesInv' BY <1>1 DEF FramesInv, Occupied, TypeOK, FrameRecords
<1>7. GuardInv' /\ TableMatchesFrames'
  BY DEF GuardInv, TableMatchesFrames, Occupied, Resident, Holding
<1>8. PinsMatchGuards' BY SamePins
<1>9. CleanFramesMatchHeap'
  BY <1>1, <1>2 DEF CleanFramesMatchHeap, FramesInv, Occupied, TypeOK, FrameRecords
<1>10. disk'[pageCount] = Blank BY <1>1, <1>2
<1> QED BY <1>4, <1>5, <1>6, <1>7, <1>8, <1>9, <1>10

\* HeapFile::allocate_page succeeds.
LEMMA ExtendInv == ASSUME IInv, Extend PROVE IInv'
<1> USE DEF IInv, Extend
<1>1. /\ call.page = pageCount /\ call.page \in PageIds /\ ~Resident(call.page)
      /\ call.frame \in Frames /\ ~Pinned(call.frame) /\ ~MustFlush(call.frame)
      /\ call.op \in {"fetch", "allocate"} /\ Holding # Guards
  BY DEF MissInv, Missing, Chosen
<1>2. pageCount < MaxPages /\ pageCount \in Nat
  BY <1>1, MaxPagesAssumption DEF TypeOK
<1>3. call' \in Calls BY ContentsAssumption DEF TypeOK, Calls, Pcs
<1>4. SweepInv' BY DEF SweepInv, TypeOK, Calls
<1>5. disk'[pageCount] = Blank BY <1>2, Grow
<1>6. /\ call'.frame = call.frame /\ call'.page = call.page /\ call'.op = call.op
      /\ call'.incoming = Blank /\ call'.pc = "install"
  BY DEF TypeOK, Calls
<1>7. MissInv'
  BY <1>1, <1>2, <1>5, <1>6
     DEF MissInv, Missing, Chosen, Resident, Holding, Pinned, MustFlush, Occupied, poolVars
<1> QED BY <1>2, <1>3, <1>4, <1>7, Grow

\* HeapFile::allocate_page fails before or after page_count_ advanced.
LEMMA ExtendFailsInv == ASSUME IInv, ExtendFails PROVE IInv'
<1> USE DEF IInv, ExtendFails, Return
<1>1. pageCount < MaxPages
  BY MaxPagesAssumption DEF MissInv, Missing, TypeOK
<1>2. call' \in Calls BY IdleType
<1>3. headerOk' \in BOOLEAN BY DEF TypeOK
<1>4. SweepInv' /\ MissInv' BY DEF Idle, SweepInv, MissInv, Missing, Chosen
<1>5. CASE pageCount' = pageCount + 1 /\ disk' = [disk EXCEPT ![pageCount] = Blank]
  BY <1>1, <1>2, <1>3, <1>4, <1>5, Grow
<1>6. CASE UNCHANGED <<pageCount, disk>>
  <2> USE <1>6 DEF poolVars, Occupied, Resident, Holding
  <2>1. TypeOK' BY <1>2, <1>3 DEF TypeOK
  <2>2. FileInv' /\ FramesInv' BY DEF FileInv, FramesInv
  <2>3. GuardInv' /\ TableMatchesFrames' BY DEF GuardInv, TableMatchesFrames
  <2>4. PinsMatchGuards' BY SamePins
  <2>5. CleanFramesMatchHeap' BY DEF CleanFramesMatchHeap
  <2> QED BY <1>4, <2>1, <2>2, <2>3, <2>4, <2>5
<1> QED BY <1>5, <1>6

\* A guard that held nothing now refers to frame f, whose pin count says so.
LEMMA GivenPins ==
  ASSUME TypeOK, PinsMatchGuards, NEW f \in Frames, GiveGuard(f),
         frames'[f].pin = frames[f].pin + 1,
         \A h \in Frames \ {f} : frames'[h].pin = frames[h].pin
  PROVE  /\ PinsMatchGuards'
         /\ guard' \in [Guards -> Frames \cup {NoFrame}]
         /\ \E g \in Guards : guard'[g] = f /\ \A k \in Guards \ {g} : guard'[k] = guard[k]
<1>1. PICK g \in Guards : guard[g] = NoFrame /\ guard' = [guard EXCEPT ![g] = f]
  BY DEF GiveGuard, Holding
<1>2. /\ guard \in [Guards -> Frames \cup {NoFrame}]
      /\ guard' \in [Guards -> Frames \cup {NoFrame}]
  BY <1>1 DEF TypeOK
<1>3. guard'[g] = f /\ \A k \in Guards \ {g} : guard'[k] = guard[k] BY <1>1, <1>2
<1>4. ASSUME NEW h \in Frames PROVE frames'[h].pin = Cardinality(On(guard', h))
  <2>1. Cardinality(On(guard', h)) + Count(guard[g] = h)
          = Cardinality(On(guard, h)) + Count(guard'[g] = h)
    BY <1>2, <1>3, Repoint
  <2>2. Cardinality(On(guard', h)) \in Nat BY OnFinite
  <2>3. frames[h].pin = Cardinality(On(guard, h)) BY DEF PinsMatchGuards, GuardsOn, On
  <2>4. guard[g] # h BY <1>1
  <2>5. frames[h].pin \in Nat BY <2>3, OnFinite
  <2> QED BY <1>3, <2>1, <2>2, <2>3, <2>4, <2>5 DEF Count
<1> QED BY <1>2, <1>3, <1>4 DEF PinsMatchGuards, GuardsOn, On

\* install replaces the victim by the incoming page and pins it once.
LEMMA InstallInv == ASSUME IInv, Install PROVE IInv'
<1> USE DEF IInv, Install
<1> DEFINE f == call.frame
           old == frames[f].page
           p == call.page
<1>1. /\ f \in Frames /\ ~Pinned(f) /\ ~MustFlush(f)
      /\ p \in PageIds /\ ~Resident(p) /\ p < pageCount /\ call.incoming = disk[p]
  BY DEF MissInv, Missing, Chosen
<1>2. /\ frames \in [Frames -> FrameRecords] /\ guard \in [Guards -> Frames \cup {NoFrame}]
      /\ table \in [PageIds -> Frames \cup {NoFrame}] /\ call.incoming \in Contents
      /\ call' = Idle
  BY DEF TypeOK, Calls, Return
<1>3. /\ frames'[f] = [page |-> p, image |-> call.incoming, pin |-> 1, ref |-> TRUE, dirty |-> FALSE]
      /\ \A h \in Frames \ {f} : frames'[h] = frames[h]
  BY <1>1, <1>2
<1>4. frames' \in [Frames -> FrameRecords] BY <1>1, <1>2 DEF FrameRecords
<1>5. \A q \in PageIds : table'[q] = IF q = p THEN f ELSE IF q = old THEN NoFrame ELSE table[q]
  OBVIOUS
<1>6. table' \in [PageIds -> Frames \cup {NoFrame}] BY <1>1, <1>2, <1>5
<1>7. frames[f].pin = 0 BY <1>1 DEF Pinned
<1>8. PICK k \in Frames : k = f BY <1>1
<1>9. /\ PinsMatchGuards'
      /\ guard' \in [Guards -> Frames \cup {NoFrame}]
      /\ \E g \in Guards : guard'[g] = k /\ \A j \in Guards \ {g} : guard'[j] = guard[j]
  BY <1>1, <1>3, <1>7, <1>8, GivenPins
<1>10. TypeOK' BY <1>2, <1>4, <1>6, <1>9, IdleType DEF TypeOK, heapVars
<1>11. FileInv' BY DEF FileInv, heapVars
<1>12. FramesInv' BY <1>1, <1>3 DEF FramesInv, Occupied, heapVars
<1>13. GuardInv'
  BY <1>1, <1>3, <1>8, <1>9 DEF GuardInv, Occupied, Holding
<1>14. TableMatchesFrames'
  <2>1. ASSUME NEW h \in Frames, Occupied(h)' PROVE table'[frames'[h].page] = h
    <3>1. CASE h = f BY <1>1, <1>3, <1>5, <3>1
    <3>2. CASE h # f
      <4>1. frames'[h].page = frames[h].page /\ Occupied(h) /\ frames[h].page \in PageIds
        BY <1>2, <1>3, <2>1, <3>2 DEF Occupied, FrameRecords
      <4>2. table[frames[h].page] = h BY <4>1 DEF TableMatchesFrames
      <4>3. frames[h].page # p BY <1>1, <4>2 DEF Resident
      <4>4. frames[h].page # old
        <5> SUFFICES ASSUME frames[h].page = old PROVE FALSE OBVIOUS
        <5>1. Occupied(f) BY <4>1 DEF Occupied
        <5>2. table[old] = f BY <1>1, <5>1 DEF TableMatchesFrames
        <5> QED BY <3>2, <4>2, <5>2
      <4> QED BY <1>5, <4>1, <4>2, <4>3, <4>4
    <3> QED BY <3>1, <3>2
  <2>2. ASSUME NEW q \in PageIds, Resident(q)' PROVE frames'[table'[q]].page = q
    <3>1. CASE q = p BY <1>3, <1>5, <3>1
    <3>2. CASE q # p
      <4>1. q # old /\ table'[q] = table[q] /\ table[q] # NoFrame
        BY <1>5, <2>2, <3>2 DEF Resident
      <4>2. frames[table[q]].page = q BY <4>1 DEF TableMatchesFrames, Resident
      <4>3. table[q] # f /\ table[q] \in Frames BY <1>2, <4>1, <4>2
      <4> QED BY <1>3, <4>1, <4>2, <4>3
    <3> QED BY <3>1, <3>2
  <2> QED BY <2>1, <2>2 DEF TableMatchesFrames
<1>15. CleanFramesMatchHeap'
  BY <1>1, <1>3 DEF CleanFramesMatchHeap, Occupied, heapVars
<1>16. SweepInv' /\ MissInv' BY <1>2 DEF Idle, SweepInv, MissInv, Missing, Chosen
<1> QED BY <1>9, <1>10, <1>11, <1>12, <1>13, <1>14, <1>15, <1>16
-----------------------------------------------------------------------------
\* What the client does.

\* A client step changes neither the file nor which page a frame holds.
LEMMA ClientInv ==
  ASSUME IInv, call.pc = "idle", UNCHANGED <<heapVars, table, hand, call>>,
         frames' \in [Frames -> FrameRecords],
         guard' \in [Guards -> Frames \cup {NoFrame}],
         PinsMatchGuards',
         \A f \in Frames : /\ frames'[f].page = frames[f].page
                           /\ ~frames'[f].dirty => /\ frames'[f].image = frames[f].image
                                                   /\ ~frames[f].dirty,
         \A g \in Guards : guard'[g] # NoFrame => \E h \in Guards : guard'[g] = guard[h]
  PROVE  IInv'
<1> USE DEF IInv, heapVars
<1>1. TypeOK' BY DEF TypeOK
<1>2. FileInv' /\ FramesInv' BY DEF FileInv, FramesInv, Occupied
<1>3. GuardInv' BY DEF GuardInv, Occupied, Holding, TypeOK
<1>4. TableMatchesFrames' BY DEF TableMatchesFrames, Occupied, Resident, TypeOK
<1>5. CleanFramesMatchHeap' BY DEF CleanFramesMatchHeap, Occupied
<1>6. SweepInv' /\ MissInv' BY DEF SweepInv, MissInv, Missing, Chosen
<1> QED BY <1>1, <1>2, <1>3, <1>4, <1>5, <1>6

\* A frame whose pin count and reference bit change keeps everything else.
LEMMA FrameEdit ==
  ASSUME frames \in [Frames -> FrameRecords], NEW f \in Frames, NEW r \in FrameRecords,
         r.page = frames[f].page, r.image = frames[f].image, r.dirty = frames[f].dirty,
         frames' = [frames EXCEPT ![f] = r]
  PROVE  /\ frames' \in [Frames -> FrameRecords]
         /\ \A h \in Frames : /\ frames'[h].page = frames[h].page
                              /\ frames'[h].image = frames[h].image
                              /\ frames'[h].dirty = frames[h].dirty
                              /\ frames'[h].pin = IF h = f THEN r.pin ELSE frames[h].pin
<1>1. frames'[f] = r /\ \A h \in Frames \ {f} : frames'[h] = frames[h] OBVIOUS
<1>2. frames' \in [Frames -> FrameRecords] OBVIOUS
<1> QED BY <1>1, <1>2

\* fetch of a resident page adds one pin.
LEMMA FetchHitInv == ASSUME IInv, NEW p \in PageIds, FetchHit(p) PROVE IInv'
<1> USE DEF IInv, FetchHit
<1>1. PICK f \in Frames : f = table[p] BY DEF TypeOK, Resident
<1>2. frames \in [Frames -> FrameRecords] /\ frames[f].page = p
  BY <1>1 DEF TypeOK, TableMatchesFrames
<1>3. frames[f].pin + 1 \in Nat BY <1>2 DEF FrameRecords
<1>4. PICK r : r = [frames[f] EXCEPT !.pin = frames[f].pin + 1, !.ref = TRUE] OBVIOUS
<1>5. /\ r \in FrameRecords /\ r.page = frames[f].page /\ r.image = frames[f].image
       /\ r.dirty = frames[f].dirty /\ r.pin = frames[f].pin + 1
  BY <1>2, <1>3, <1>4 DEF FrameRecords
<1>6. frames' = [frames EXCEPT ![f] = r] BY <1>1, <1>2, <1>4 DEF FrameRecords
<1>7. /\ frames' \in [Frames -> FrameRecords]
      /\ \A h \in Frames : /\ frames'[h].page = frames[h].page
                           /\ frames'[h].image = frames[h].image
                           /\ frames'[h].dirty = frames[h].dirty
                           /\ frames'[h].pin = IF h = f THEN frames[f].pin + 1 ELSE frames[h].pin
  BY <1>2, <1>5, <1>6, FrameEdit
<1>8. /\ PinsMatchGuards'
      /\ guard' \in [Guards -> Frames \cup {NoFrame}]
      /\ \E g \in Guards : guard'[g] = f /\ \A k \in Guards \ {g} : guard'[k] = guard[k]
  BY <1>1, <1>7, GivenPins
<1>9. TypeOK' BY <1>7, <1>8 DEF TypeOK, heapVars
<1>10. FileInv' /\ FramesInv' BY <1>7 DEF FileInv, FramesInv, Occupied, heapVars
<1>11. GuardInv' BY <1>2, <1>7, <1>8 DEF GuardInv, Occupied, Holding, TypeOK
<1>12. TableMatchesFrames'
  BY <1>7 DEF TableMatchesFrames, Occupied, Resident, TypeOK
<1>13. CleanFramesMatchHeap' BY <1>7 DEF CleanFramesMatchHeap, Occupied, heapVars
<1>14. SweepInv' /\ MissInv' BY DEF SweepInv, MissInv, Missing, Chosen
<1> QED BY <1>8, <1>9, <1>10, <1>11, <1>12, <1>13, <1>14

\* An assignment through mutable_page leaves its frame dirty.
LEMMA WriteInv ==
  ASSUME IInv, NEW g \in Guards, NEW image \in Contents, Write(g, image) PROVE IInv'
<1> USE DEF IInv, Write
<1>1. PICK f \in Frames : f = guard[g] BY DEF TypeOK, Holding
<1>2. frames \in [Frames -> FrameRecords] BY DEF TypeOK
<1>3. frames' \in [Frames -> FrameRecords] BY <1>1, <1>2 DEF FrameRecords
<1>4. \A h \in Frames : /\ frames'[h].page = frames[h].page
                        /\ frames'[h].pin = frames[h].pin
                        /\ h = f => frames'[h].dirty
                        /\ h # f => frames'[h] = frames[h]
  BY <1>1, <1>2 DEF FrameRecords
<1>5. PinsMatchGuards' BY <1>4, SamePins
<1>6. guard' \in [Guards -> Frames \cup {NoFrame}] BY DEF TypeOK
<1> QED BY <1>3, <1>4, <1>5, <1>6, ClientInv

\* Unpinning the frame of a guard takes exactly one from its count.
LEMMA UnpinnedFrames ==
  ASSUME IInv, NEW f \in Frames, frames' = Unpinned(f), \E g \in Guards : guard[g] = f
  PROVE  /\ frames' \in [Frames -> FrameRecords]
         /\ \A h \in Frames : /\ frames'[h].page = frames[h].page
                              /\ frames'[h].image = frames[h].image
                              /\ frames'[h].dirty = frames[h].dirty
                              /\ frames'[h].pin + Count(h = f) = frames[h].pin
<1> USE DEF IInv
<1>1. frames \in [Frames -> FrameRecords] BY DEF TypeOK
<1>2. On(guard, f) # {} BY DEF On
<1>3. frames[f].pin \in Nat /\ frames[f].pin # 0
  BY <1>2, OnFinite DEF PinsMatchGuards, GuardsOn, On
<1>4. PICK r : r = [frames[f] EXCEPT !.pin = frames[f].pin - 1] OBVIOUS
<1>5. /\ r \in FrameRecords /\ r.page = frames[f].page /\ r.image = frames[f].image
      /\ r.dirty = frames[f].dirty /\ r.pin = frames[f].pin - 1
  BY <1>1, <1>3, <1>4 DEF FrameRecords
<1>6. frames' = [frames EXCEPT ![f] = r]
  <2>1. frames[f].pin > 0 BY <1>3
  <2>2. frames' = [frames EXCEPT ![f].pin = frames[f].pin - 1] BY <2>1 DEF Unpinned
  <2> QED BY <1>1, <1>4, <2>2
<1>7. /\ frames' \in [Frames -> FrameRecords]
      /\ \A h \in Frames : /\ frames'[h].page = frames[h].page
                           /\ frames'[h].image = frames[h].image
                           /\ frames'[h].dirty = frames[h].dirty
                           /\ frames'[h].pin = IF h = f THEN frames[f].pin - 1 ELSE frames[h].pin
  BY <1>1, <1>5, <1>6, FrameEdit
<1>8. \A h \in Frames : frames[h].pin \in Nat BY <1>1 DEF FrameRecords
<1> QED BY <1>3, <1>7, <1>8 DEF Count

\* Releasing a guard drops its pin.
LEMMA ReleaseInv == ASSUME IInv, NEW g \in Guards, Release(g) PROVE IInv'
<1> USE DEF IInv, Release
<1>1. PICK f \in Frames : f = guard[g] BY DEF TypeOK, Holding
<1>2. /\ guard \in [Guards -> Frames \cup {NoFrame}]
      /\ guard' \in [Guards -> Frames \cup {NoFrame}]
      /\ guard'[g] = NoFrame /\ \A k \in Guards \ {g} : guard'[k] = guard[k]
  BY DEF TypeOK
<1>3. /\ frames' \in [Frames -> FrameRecords]
      /\ \A h \in Frames : /\ frames'[h].page = frames[h].page
                           /\ frames'[h].image = frames[h].image
                           /\ frames'[h].dirty = frames[h].dirty
                           /\ frames'[h].pin + Count(h = f) = frames[h].pin
  BY <1>1, UnpinnedFrames
<1>4. ASSUME NEW h \in Frames PROVE frames'[h].pin = Cardinality(On(guard', h))
  <2>1. Cardinality(On(guard', h)) + Count(guard[g] = h)
          = Cardinality(On(guard, h)) + Count(guard'[g] = h)
    <3> HIDE DEF IInv, Release
    <3> QED BY <1>2, Repoint
  <2>2. Cardinality(On(guard', h)) \in Nat /\ Cardinality(On(guard, h)) \in Nat BY OnFinite
  <2>3. frames[h].pin = Cardinality(On(guard, h)) BY DEF PinsMatchGuards, GuardsOn, On
  <2>4. frames'[h].pin \in Nat BY <1>3 DEF FrameRecords
  <2>5. guard'[g] # h BY <1>2
  <2> QED BY <1>1, <1>3, <2>1, <2>2, <2>3, <2>4, <2>5 DEF Count
<1>5. PinsMatchGuards' BY <1>4 DEF PinsMatchGuards, GuardsOn, On
<1> QED BY <1>2, <1>3, <1>5, ClientInv
\* Moving a guard onto another: one count leaves the target's old frame, the
\* source's frame keeps its count.
LEMMA MoveInv ==
  ASSUME IInv, NEW g \in Guards, NEW h \in Guards, Move(g, h) PROVE IInv'
<1>1. /\ call.pc = "idle" /\ g # h /\ UNCHANGED <<heapVars, table, hand, call>>
      /\ frames' = IF h \in Holding THEN Unpinned(guard[h]) ELSE frames
      /\ guard' = [guard EXCEPT ![h] = guard[g], ![g] = NoFrame]
  BY DEF Move
<1>2. TypeOK /\ PinsMatchGuards BY DEF IInv
<1>3. guard \in [Guards -> Frames \cup {NoFrame}] /\ frames \in [Frames -> FrameRecords]
  BY <1>2 DEF TypeOK
<1>4. PICK mid : mid = [guard EXCEPT ![h] = guard[g]] OBVIOUS
<1>5. /\ mid \in [Guards -> Frames \cup {NoFrame}]
      /\ mid[h] = guard[g] /\ \A k \in Guards \ {h} : mid[k] = guard[k]
  BY <1>3, <1>4
<1>6. /\ guard' \in [Guards -> Frames \cup {NoFrame}]
      /\ guard'[g] = NoFrame /\ \A k \in Guards \ {g} : guard'[k] = mid[k]
  BY <1>1, <1>3, <1>5
<1>7. ASSUME NEW f \in Frames
      PROVE Cardinality(On(guard', f)) + Count(guard[h] = f) = Cardinality(On(guard, f))
  <2>1. Cardinality(On(mid, f)) + Count(guard[h] = f) = Cardinality(On(guard, f)) + Count(mid[h] = f)
    BY <1>3, <1>5, Repoint
  <2>2. Cardinality(On(guard', f)) + Count(mid[g] = f) = Cardinality(On(mid, f)) + Count(guard'[g] = f)
    BY <1>5, <1>6, Repoint
  <2>3. mid[g] = guard[g] /\ mid[h] = guard[g] /\ guard'[g] # f BY <1>1, <1>5, <1>6
  <2>4. /\ Cardinality(On(mid, f)) \in Nat /\ Cardinality(On(guard, f)) \in Nat
        /\ Cardinality(On(guard', f)) \in Nat
    BY OnFinite
  <2> QED BY <2>1, <2>2, <2>3, <2>4 DEF Count
<1>8. ASSUME NEW f \in Frames
      PROVE frames[f].pin = Cardinality(On(guard, f)) /\ frames[f].pin \in Nat
  BY <1>2, <1>3 DEF PinsMatchGuards, GuardsOn, On, FrameRecords
<1>9. /\ frames' \in [Frames -> FrameRecords]
      /\ \A f \in Frames : /\ frames'[f].page = frames[f].page
                           /\ frames'[f].image = frames[f].image
                           /\ frames'[f].dirty = frames[f].dirty
                           /\ frames'[f].pin + Count(guard[h] = f) = frames[f].pin
  <2>1. CASE guard[h] = NoFrame
    <3>1. frames' = frames BY <1>1, <2>1 DEF Holding
    <3>2. \A f \in Frames : guard[h] # f BY <2>1
    <3> QED BY <1>3, <1>8, <3>1, <3>2 DEF Count
  <2>2. CASE guard[h] # NoFrame
    <3>1. PICK k \in Frames : k = guard[h] BY <1>3, <2>2
    <3>2. frames' = Unpinned(k) BY <1>1, <2>2, <3>1 DEF Holding
    <3>3. \A f \in Frames : (guard[h] = f) = (f = k) BY <3>1
    <3>4. /\ frames' \in [Frames -> FrameRecords]
          /\ \A f \in Frames : /\ frames'[f].page = frames[f].page
                               /\ frames'[f].image = frames[f].image
                               /\ frames'[f].dirty = frames[f].dirty
                               /\ frames'[f].pin + Count(f = k) = frames[f].pin
      BY <3>1, <3>2, UnpinnedFrames
    <3> QED BY <3>3, <3>4 DEF Count
  <2> QED BY <2>1, <2>2
<1>10. ASSUME NEW f \in Frames PROVE frames'[f].pin = Cardinality(On(guard', f))
  <2>1. frames'[f].pin \in Nat BY <1>9 DEF FrameRecords
  <2>2. Cardinality(On(guard', f)) \in Nat BY OnFinite
  <2> QED BY <1>7, <1>8, <1>9, <2>1, <2>2 DEF Count
<1>11. PinsMatchGuards' BY <1>10 DEF PinsMatchGuards, GuardsOn, On
<1>12. \A k \in Guards : guard'[k] # NoFrame => \E j \in Guards : guard'[k] = guard[j]
  BY <1>5, <1>6
<1> QED BY <1>1, <1>6, <1>9, <1>11, <1>12, ClientInv

\* A new process starts with an empty pool over the same file.
LEMMA RestartInv == ASSUME IInv, Restart PROVE IInv'
<1> USE DEF IInv, Restart, NoFrames, NoTable, NoGuards, EmptyFrame, heapVars, Occupied,
            Resident, Holding
<1>1. 0 \in Frames BY CapacityAssumption
<1>2. NoFrames \in [Frames -> FrameRecords] BY ContentsAssumption DEF FrameRecords
<1>3. TypeOK' BY <1>1, <1>2, IdleType DEF TypeOK
<1>4. FileInv' BY DEF FileInv
<1>5. FramesInv' /\ GuardInv' /\ TableMatchesFrames' /\ CleanFramesMatchHeap'
  BY DEF FramesInv, GuardInv, TableMatchesFrames, CleanFramesMatchHeap
<1>6. PinsMatchGuards'
  <2>1. \A f \in Frames : On(guard', f) = {} BY DEF On
  <2>2. \A f \in Frames : Cardinality(On(guard', f)) = 0 BY <2>1, OnFinite
  <2> QED BY <2>2 DEF PinsMatchGuards, GuardsOn, On
<1>7. SweepInv' /\ MissInv' BY DEF Idle, SweepInv, MissInv, Missing, Chosen
<1> QED BY <1>3, <1>4, <1>5, <1>6, <1>7

-----------------------------------------------------------------------------
\* IInv is inductive: every step of the pool, its client or a restart keeps it.
LEMMA NextIInv == ASSUME IInv, [Next]_vars PROVE IInv'
<1>1. CASE CallStep
  BY <1>1, ReturnInv, ReadPageInv, SkipWriteBackInv, FlushAllSkipInv, FlushAllReturnsInv,
     PassOverInv, PickVictimInv, WriteBackInv, WriteBackFailsInv, FlushAllWriteInv,
     FlushAllFailsInv, ExtendInv, ExtendFailsInv, InstallInv, RestartInv
     DEF CallStep
<1>2. CASE ClientStep
  BY <1>2, FetchHitInv, BeginFetchInv, FlushInv, BeginAllocateInv, BeginFlushAllInv,
     WriteInv, ReleaseInv, MoveInv
     DEF ClientStep
<1>3. CASE Restart BY <1>3, RestartInv
<1>4. CASE UNCHANGED vars
  <2>1. UNCHANGED <<heapVars, poolVars, guard, call>> BY <1>4 DEF vars
  <2>2. /\ FileInv' /\ FramesInv' /\ GuardInv' /\ TableMatchesFrames'
        /\ PinsMatchGuards' /\ CleanFramesMatchHeap' /\ TypeOK'
    BY <2>1, CallOnly DEF IInv, TypeOK
  <2>3. SweepInv'
    BY <2>1 DEF IInv, SweepInv, Behind, Occupied, Pinned, poolVars
  <2>4. MissInv'
    BY <2>1 DEF IInv, MissInv, Missing, Chosen, Resident, Holding, Pinned, MustFlush,
                Occupied, poolVars, heapVars
  <2> QED BY <2>2, <2>3, <2>4 DEF IInv
<1> QED BY <1>1, <1>2, <1>3, <1>4 DEF Next

\* IInv holds in every reachable state: what fetch, allocate, flush, flush_all,
\* the guards and a restart do to the pool keeps all its parts together.
THEOREM Invariance == Spec => []IInv
<1>1. Init => IInv BY InitIInv
<1>2. IInv /\ [Next]_vars => IInv' BY NextIInv
<1> QED BY <1>1, <1>2, PTL DEF Spec
-----------------------------------------------------------------------------
\* The safety properties.

\* Every variable keeps its type: indices stay inside frames_, pages inside the file.
THEOREM TypeCorrect == Spec => []TypeOK
<1>1. IInv => TypeOK BY DEF IInv
<1> QED BY <1>1, Invariance, PTL

\* page_table_ and frames_ stay inverse to each other through evictions.
THEOREM TableCorrect == Spec => []TableMatchesFrames
<1>1. IInv => TableMatchesFrames BY DEF IInv
<1> QED BY <1>1, Invariance, PTL

\* pin_count is the number of live guards on the frame.
THEOREM PinsCorrect == Spec => []PinsMatchGuards
<1>1. IInv => PinsMatchGuards BY DEF IInv
<1> QED BY <1>1, Invariance, PTL

\* A frame that is not dirty equals its block of the file, after any failure.
THEOREM CleanCorrect == Spec => []CleanFramesMatchHeap
<1>1. IInv => CleanFramesMatchHeap BY DEF IInv
<1> QED BY <1>1, Invariance, PTL

\* After two passes the hand has seen every frame twice.
THEOREM ExhaustionCorrect == Spec => []ExhaustedOnlyWhenAllPinned
<1>1. IInv => ExhaustedOnlyWhenAllPinned
  <2> SUFFICES ASSUME IInv, At("sweep"), call.examined = 2 * Capacity, NEW f \in Frames
               PROVE Occupied(f) /\ Pinned(f)
    BY DEF ExhaustedOnlyWhenAllPinned
  <2>1. Behind(f) \in 0 .. Capacity - 1 BY BehindType DEF IInv, TypeOK
  <2>2. Behind(f) < 2 * Capacity /\ Behind(f) + Capacity < 2 * Capacity
    BY <2>1, CapacityAssumption
  <2> QED BY <2>2 DEF IInv, SweepInv
<1> QED BY <1>1, Invariance, PTL

\* The steps sorted by what they do to the file, the frames and the table.
LEMMA StepKinds ==
  ASSUME IInv, [Next]_vars
  PROVE  \/ Install \/ Restart \/ PassOver \/ Extend \/ ExtendFails
         \/ \E f \in Frames, ok \in BOOLEAN : FlushFrame(f, ok)
         \/ \E p \in PageIds : FetchHit(p)
         \/ \E g \in Guards, image \in Contents : Write(g, image)
         \/ \E g \in Guards : frames' = Unpinned(guard[g]) /\ UNCHANGED <<heapVars, table>>
         \/ UNCHANGED <<heapVars, frames, table>>
<1> USE DEF IInv, poolVars
<1>1. CASE CallStep
  <2>1. CASE WriteBack \/ WriteBackFails
    BY <2>1 DEF WriteBack, WriteBackFails, MissInv, Chosen
  <2>2. CASE FlushAllWrite \/ FlushAllFails
    <3>1. call.pc = "flushall" /\ call.frame < Capacity
      BY <2>2 DEF FlushAllWrite, FlushAllFails
    <3>2. call.frame \in 0 .. Capacity BY <3>1 DEF MissInv
    <3>3. call.frame \in Frames BY <3>1, <3>2, CapacityAssumption
    <3> QED BY <2>2, <3>3 DEF FlushAllWrite, FlushAllFails
  <2>3. CASE PickVictim \/ Exhausted \/ ReadPage \/ ReadFails \/ SkipWriteBack
             \/ FlushAllSkip \/ FlushAllReturns
    BY <2>3 DEF PickVictim, Exhausted, ReadPage, ReadFails, SkipWriteBack,
                FlushAllSkip, FlushAllReturns
  <2> QED BY <1>1, <2>1, <2>2, <2>3 DEF CallStep
<1>2. CASE ClientStep
  <2>1. CASE \E p \in PageIds : Flush(p)
    <3>1. PICK p \in PageIds : Flush(p) BY <2>1
    <3>2. table[p] \in Frames BY <3>1 DEF Flush, Resident, TypeOK
    <3> QED BY <3>1, <3>2 DEF Flush
  <2>2. CASE \E p \in PageIds : BeginFetch(p) BY <2>2 DEF BeginFetch
  <2>3. CASE BeginAllocate \/ \E op \in {"flush_all", "destroy"} : BeginFlushAll(op)
    BY <2>3 DEF BeginAllocate, BeginFlushAll
  <2>4. CASE \E g \in Guards : Release(g) BY <2>4 DEF Release
  <2>5. CASE \E g \in Guards, h \in Guards : Move(g, h) BY <2>5 DEF Move
  <2> QED BY <1>2, <2>1, <2>2, <2>3, <2>4, <2>5 DEF ClientStep
<1>3. CASE Restart BY <1>3
<1>4. CASE UNCHANGED vars BY <1>4 DEF vars, heapVars
<1> QED BY <1>1, <1>2, <1>3, <1>4 DEF Next

\* Only install and a restart change the page of a frame, and install takes an
\* unpinned one.
THEOREM GuardsCorrect == Spec => GuardsKeepPage
<1> DEFINE A == \A g \in Holding : guard'[g] = guard[g] =>
                  frames'[guard[g]].page = frames[guard[g]].page
<1>1. ASSUME IInv, [Next]_vars PROVE [A]_vars
  <2> SUFFICES ASSUME NEW g \in Holding, guard'[g] = guard[g]
               PROVE frames'[guard[g]].page = frames[guard[g]].page
    OBVIOUS
  <2>1. PICK f \in Frames : f = guard[g] BY <1>1 DEF IInv, TypeOK, Holding
  <2>2. frames \in [Frames -> FrameRecords] BY <1>1 DEF IInv, TypeOK
  <2>3. CASE Install
    <3>1. call.frame \in Frames /\ ~Pinned(call.frame) /\ PinsMatchGuards
      BY <1>1, <2>3 DEF Install, IInv, MissInv, Chosen
    <3>2. guard[g] # call.frame BY <3>1, NoGuardOnUnpinned DEF Holding
    <3>3. call.frame # f BY <2>1, <3>2
    <3> QED BY <2>1, <2>2, <2>3, <3>1, <3>3 DEF Install
  <2>4. CASE Restart BY <2>1, <2>4 DEF Restart, NoGuards, Holding
  <2>5. CASE UNCHANGED frames BY <2>5
  <2>6. CASE PassOver BY <2>1, <2>2, <2>6 DEF PassOver, FrameRecords
  <2>7. CASE \E h \in Frames, ok \in BOOLEAN : FlushFrame(h, ok)
    BY <2>1, <2>2, <2>7 DEF FlushFrame, FrameRecords
  <2>8. CASE \E p \in PageIds : FetchHit(p)
    BY <2>1, <2>2, <2>8 DEF FetchHit, FrameRecords
  <2>9. CASE \E h \in Guards, image \in Contents : Write(h, image)
    BY <2>1, <2>2, <2>9 DEF Write, FrameRecords
  <2>10. CASE \E h \in Guards : frames' = Unpinned(guard[h])
    BY <2>1, <2>2, <2>10 DEF Unpinned, FrameRecords
  <2>11. Extend \/ ExtendFails => UNCHANGED frames BY DEF Extend, ExtendFails, poolVars
  <2> QED
    BY <1>1, <2>3, <2>4, <2>5, <2>6, <2>7, <2>8, <2>9, <2>10, <2>11, StepKinds
<1> QED BY <1>1, Invariance, PTL DEF Spec, GuardsKeepPage
-----------------------------------------------------------------------------
\* The pool implements PageStore.

Cur == [p \in PageIds |-> Current(p)]

\* A step that changes no image in the pool and no block is invisible.
LEMMA CurUnchanged ==
  ASSUME TypeOK, UNCHANGED <<disk, table>>,
         \A f \in Frames : frames'[f].image = frames[f].image
  PROVE  UNCHANGED <<Cur, disk>>
BY DEF Cur, Current, Resident, TypeOK

\* Writing a frame back makes its page durable, or tears it, and shows clients
\* nothing.
LEMMA FlushPersists ==
  ASSUME IInv, NEW f \in Frames, NEW ok \in BOOLEAN, FlushFrame(f, ok)
  PROVE  \/ UNCHANGED <<Cur, disk>>
         \/ \E p \in PageIds : /\ Cur[p] \in Contents
                               /\ \E image \in {Cur[p], Torn} : disk' = [disk EXCEPT ![p] = image]
                               /\ UNCHANGED Cur
<1> USE DEF IInv, FlushFrame
<1> DEFINE p == frames[f].page
<1>1. frames \in [Frames -> FrameRecords] /\ disk \in [PageIds -> Contents \cup {Torn, Absent}]
  BY DEF TypeOK
<1>2. p \in PageIds /\ table[p] = f /\ frames[f].image \in Contents
  BY <1>1 DEF MustFlush, Occupied, FrameRecords, TableMatchesFrames
<1>3. PICK left \in {disk[p], frames[f].image, Torn} : disk' = [disk EXCEPT ![p] = left]
  BY DEF WriteBlock
<1>4. Cur[p] = frames[f].image BY <1>2 DEF Cur, Current, Resident
<1>5. Cur' = Cur
  <2>1. \A h \in Frames : frames'[h].image = frames[h].image BY <1>1 DEF FrameRecords
  <2>2. UNCHANGED table OBVIOUS
  <2>3. \A q \in PageIds : Current(q)' = Current(q)
    BY <1>1, <1>2, <1>3, <2>1, <2>2 DEF Current, Resident, TypeOK
  <2> QED BY <2>3 DEF Cur
<1>6. CASE left = disk[p]
  <2>1. disk' = disk BY <1>1, <1>2, <1>3, <1>6
  <2> QED BY <1>5, <2>1
<1>7. CASE left \in {Cur[p], Torn} BY <1>2, <1>3, <1>4, <1>5, <1>7
<1> QED BY <1>3, <1>4, <1>6, <1>7

\* The block at the end of the file becomes the image of a new page.
LEMMA GrowAllocates ==
  ASSUME IInv, pageCount \in PageIds, disk' = [disk EXCEPT ![pageCount] = Blank],
         UNCHANGED <<frames, table>>
  PROVE  \E p \in PageIds : /\ Cur[p] = Absent
                            /\ \A q \in PageIds : q < p => Cur[q] # Absent
                            /\ Cur' = [Cur EXCEPT ![p] = Blank]
                            /\ disk' = [disk EXCEPT ![p] = Blank]
<1> USE DEF IInv
<1>1. /\ frames \in [Frames -> FrameRecords] /\ disk \in [PageIds -> Contents \cup {Torn, Absent}]
      /\ table \in [PageIds -> Frames \cup {NoFrame}]
  BY DEF TypeOK
<1>2. ~Resident(pageCount)
  BY <1>1 DEF TableMatchesFrames, FramesInv, Resident, Occupied, FrameRecords
<1>3. Cur[pageCount] = Absent BY <1>2 DEF Cur, Current, FileInv
<1>4. ASSUME NEW q \in PageIds, q < pageCount PROVE Cur[q] # Absent
  <2>1. CASE Resident(q)
    BY <1>1, <2>1, ContentsAssumption DEF Cur, Current, Resident, FrameRecords
  <2>2. CASE ~Resident(q) BY <1>4, <2>2 DEF Cur, Current, FileInv
  <2> QED BY <2>1, <2>2
<1>5. \A q \in PageIds : Current(q)' = IF q = pageCount THEN Blank ELSE Current(q)
  BY <1>1, <1>2 DEF Current, Resident
<1>6. Cur' = [Cur EXCEPT ![pageCount] = Blank] BY <1>5 DEF Cur
<1> QED BY <1>3, <1>4, <1>6

\* Replacing the victim shows clients nothing: what it held is in the file.
LEMMA InstallInvisible == ASSUME IInv, Install PROVE UNCHANGED <<Cur, disk>>
<1> USE DEF IInv, Install
<1>1. PICK f \in Frames : f = call.frame /\ ~MustFlush(f) BY DEF MissInv, Chosen
<1>2. PICK p \in PageIds : p = call.page /\ ~Resident(p) /\ call.incoming = disk[p]
  BY DEF MissInv, Missing
<1>3. /\ frames \in [Frames -> FrameRecords] /\ table \in [PageIds -> Frames \cup {NoFrame}]
  BY DEF TypeOK
<1>4. frames'[f].image = disk[p] /\ \A h \in Frames \ {f} : frames'[h] = frames[h]
  BY <1>1, <1>2, <1>3
<1>5. \A q \in PageIds : table'[q] = IF q = p THEN f ELSE IF q = frames[f].page THEN NoFrame ELSE table[q]
  BY <1>1, <1>2
<1>6. disk' = disk BY DEF heapVars
<1>7. ASSUME NEW q \in PageIds PROVE Current(q)' = Current(q)
  <2>1. CASE q = p BY <1>2, <1>4, <1>5, <1>6, <2>1 DEF Current, Resident
  <2>2. CASE q # p /\ q = frames[f].page
    <3>1. Occupied(f) BY <2>2 DEF Occupied
    <3>2. table[q] = f /\ disk[q] = frames[f].image
      BY <1>1, <2>2, <3>1 DEF TableMatchesFrames, CleanFramesMatchHeap, MustFlush
    <3> QED BY <1>5, <1>6, <2>2, <3>2 DEF Current, Resident
  <2>3. CASE q # p /\ q # frames[f].page
    <3>1. table'[q] = table[q] BY <1>5, <2>3
    <3>2. table[q] # f BY <2>3 DEF TableMatchesFrames, Resident
    <3> QED BY <1>3, <1>4, <1>6, <3>1, <3>2 DEF Current, Resident
  <2> QED BY <2>1, <2>2, <2>3
<1> QED BY <1>6, <1>7 DEF Cur

\* A client's assignment replaces the current image of one page.
LEMMA WriteWrites ==
  ASSUME IInv, NEW g \in Guards, NEW image \in Contents, Write(g, image)
  PROVE  \E p \in PageIds : /\ Cur[p] \in Contents
                            /\ Cur' = [Cur EXCEPT ![p] = image]
                            /\ UNCHANGED disk
<1> USE DEF IInv, Write
<1>1. PICK f \in Frames : f = guard[g] /\ Occupied(f) BY DEF TypeOK, Holding, GuardInv
<1>2. /\ frames \in [Frames -> FrameRecords] /\ table \in [PageIds -> Frames \cup {NoFrame}]
  BY DEF TypeOK
<1>3. PICK p \in PageIds : p = frames[f].page /\ table[p] = f /\ frames[f].image \in Contents
  BY <1>1, <1>2 DEF Occupied, FrameRecords, TableMatchesFrames
<1>4. /\ frames'[f].image = image
      /\ \A h \in Frames \ {f} : frames'[h] = frames[h]
  BY <1>1, <1>2 DEF FrameRecords
<1>5. UNCHANGED <<disk, table>> BY DEF heapVars
<1>6. ASSUME NEW q \in PageIds PROVE Current(q)' = IF q = p THEN image ELSE Current(q)
  <2>1. CASE q = p BY <1>3, <1>4, <1>5, <2>1 DEF Current, Resident
  <2>2. CASE q # p
    <3>1. table[q] # f BY <1>3, <2>2 DEF TableMatchesFrames, Resident
    <3>2. Resident(q) => frames'[table[q]] = frames[table[q]]
      BY <1>2, <1>4, <3>1 DEF Resident
    <3>3. Current(q)' = IF Resident(q) THEN frames'[table[q]].image ELSE disk[q]
      BY <1>5 DEF Current, Resident
    <3>4. Current(q) = IF Resident(q) THEN frames[table[q]].image ELSE disk[q] BY DEF Current
    <3>5. Current(q)' = Current(q)
      <4>1. CASE Resident(q) BY ONLY <3>2, <3>3, <3>4, <4>1
      <4>2. CASE ~Resident(q) BY ONLY <3>3, <3>4, <4>2
      <4> QED BY <4>1, <4>2
    <3> QED BY <2>2, <3>5
  <2> QED BY <2>1, <2>2
<1>7. Cur' = [Cur EXCEPT ![p] = image] BY <1>6 DEF Cur
<1>8. Cur[p] \in Contents BY <1>3 DEF Cur, Current, Resident
<1> QED BY <1>5, <1>7, <1>8

\* Every step of the pool is a step of PageStore or invisible in it.
THEOREM Refinement == Spec => ImplementsPageStore
<1>1. Init => Store!Init
  BY DEF Init, Store!Init, Store!PageIds, Current, Resident, NoTable
<1>2. ASSUME IInv, [Next]_vars PROVE [Store!Next]_(Store!storeVars)
  <2>1. TypeOK /\ frames \in [Frames -> FrameRecords] BY <1>2 DEF IInv, TypeOK
  <2>2. UNCHANGED <<Cur, disk>> => UNCHANGED Store!storeVars BY DEF Cur, Store!storeVars
  <2>3. CASE \E f \in Frames, ok \in BOOLEAN : FlushFrame(f, ok)
    BY <1>2, <2>2, <2>3, FlushPersists
       DEF Cur, Store!Next, Store!Persist, Store!PageIds, Store!storeVars
  <2>4. CASE Extend \/ ExtendFails
    <3>1. pageCount \in PageIds
      BY <1>2, <2>4 DEF IInv, Extend, ExtendFails, MissInv, Missing
    <3>2. CASE disk' = [disk EXCEPT ![pageCount] = Blank]
      BY <1>2, <2>4, <3>1, <3>2, GrowAllocates
         DEF Cur, Extend, ExtendFails, poolVars, Store!Next, Store!Allocate, Store!PageIds
    <3>3. CASE UNCHANGED disk
      BY <2>1, <2>2, <2>4, <3>3, CurUnchanged DEF Extend, ExtendFails, poolVars
    <3> QED BY <2>4, <3>2, <3>3 DEF Extend, ExtendFails
  <2>5. CASE Install BY <1>2, <2>2, <2>5, InstallInvisible
  <2>6. CASE \E g \in Guards, image \in Contents : Write(g, image)
    BY <1>2, <2>6, WriteWrites
       DEF Cur, Store!Next, Store!Write, Store!PageIds
  <2>7. CASE Restart
    <3>1. disk \in [PageIds -> Contents \cup {Torn, Absent}] BY <2>1 DEF TypeOK
    <3>2. \A p \in PageIds : Current(p)' = disk[p]
      BY <2>7 DEF Restart, heapVars, NoTable, Current, Resident
    <3>3. Cur' = disk /\ disk' = disk BY <2>7, <3>1, <3>2 DEF Cur, Restart, heapVars
    <3> QED BY <3>3 DEF Cur, Store!Next, Store!Lose
  <2>8. CASE PassOver
    BY <2>1, <2>2, <2>8, CurUnchanged DEF PassOver, FrameRecords, heapVars
  <2>9. CASE \E p \in PageIds : FetchHit(p)
    BY <2>1, <2>2, <2>9, CurUnchanged DEF FetchHit, FrameRecords, heapVars
  <2>10. CASE \E g \in Guards : frames' = Unpinned(guard[g]) /\ UNCHANGED <<heapVars, table>>
    BY <2>1, <2>2, <2>10, CurUnchanged DEF Unpinned, FrameRecords, heapVars
  <2>11. CASE UNCHANGED <<heapVars, frames, table>>
    BY <2>1, <2>2, <2>11, CurUnchanged DEF heapVars
  <2> QED
    BY <1>2, <2>3, <2>4, <2>5, <2>6, <2>7, <2>8, <2>9, <2>10, <2>11, StepKinds
<1> QED BY <1>1, <1>2, Invariance, PTL DEF Spec, Store!Spec, ImplementsPageStore
=============================================================================
