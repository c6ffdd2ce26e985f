---------------------------- MODULE SlottedPage -----------------------------
(***************************************************************************)
(* One slotted page (src/page.cpp): a directory of slots growing up from   *)
(* the header, payloads growing down from the end of the page, and a gap   *)
(* of contiguous free space between them.  Deleting leaves a hole among    *)
(* the payloads that only compaction closes.  The header's magic, version, *)
(* page id, reserved fields and checksum never change or follow from the   *)
(* rest and are left out; slot s of the model is slot s - 1 of the code.   *)
(***************************************************************************)
EXTENDS Integers, Sequences, FiniteSetsExt, Functions, Space

CONSTANTS
  PageSize, HeaderSize, SlotSize,
  Records,   \* the records clients store, each a non-empty sequence of bytes
  Zero, Dir  \* a byte never written since the page was rebuilt; a directory byte

ASSUME SizesAssumption ==
  /\ HeaderSize \in Nat /\ SlotSize \in Nat \ {0}
  /\ PageSize \in Nat /\ HeaderSize + SlotSize <= PageSize
ASSUME RecordsAssumption == \A r \in Records : r \in Seq(Range(r)) /\ Len(r) > 0

VARIABLES
  page,    \* bytes_: directory entries, free-space bounds, and the bytes themselves
  result   \* the last operation and what it returned or threw

vars == <<page, result>>

Offsets == 0 .. PageSize - 1
DeadSlot == [offset |-> 0, length |-> 0, live |-> FALSE]
SlotCount(p) == Len(p.slots)
Live(p) == {s \in DOMAIN p.slots : p.slots[s].live}
Dead(p) == DOMAIN p.slots \ Live(p)
DirectoryEnd(n) == HeaderSize + n * SlotSize

Initialize == [slots |-> <<>>, freeStart |-> HeaderSize, freeEnd |-> PageSize,
               bytes |-> [o \in Offsets |-> Zero]]

Contains(p, s) == s \in Live(p)
FreeSpace(p) == p.freeEnd - p.freeStart

\* The bytes slot s refers to, whatever they now are.
Payload(p, s) == [i \in 1 .. p.slots[s].length |-> p.bytes[p.slots[s].offset + i - 1]]

\* write_slot: the entry, and the directory bytes it occupies.
InSlot(s, o) == o \in DirectoryEnd(s - 1) .. DirectoryEnd(s) - 1
WriteSlot(p, s, entry) ==
  [p EXCEPT !.slots = IF s \in DOMAIN @ THEN [@ EXCEPT ![s] = entry] ELSE Append(@, entry),
            !.bytes = [o \in Offsets |-> IF InSlot(s, o) THEN Dir ELSE @[o]]]

\* std::copy of a payload to offset `at`.
CopyTo(bytes, payload, at) ==
  [o \in Offsets |-> IF o \in at .. at + Len(payload) - 1 THEN payload[o - at + 1] ELSE bytes[o]]

\* A page rebuilt with these payloads, packed in slot order from the page's end
\* downwards; the empty payload stands for a deleted slot.
PackedAt(payloads, s) == PageSize - Total([t \in 1 .. s |-> Len(payloads[t])])
PackedEntry(payloads, s) ==
  IF payloads[s] = <<>> THEN DeadSlot
  ELSE [offset |-> PackedAt(payloads, s), length |-> Len(payloads[s]), live |-> TRUE]
Covers(payloads, s, o) ==
  o \in PackedAt(payloads, s) .. PackedAt(payloads, s) + Len(payloads[s]) - 1
PackedByte(payloads, o) ==
  IF \E s \in DOMAIN payloads : Covers(payloads, s, o)
  THEN LET s == CHOOSE s \in DOMAIN payloads : Covers(payloads, s, o)
       IN payloads[s][o - PackedAt(payloads, s) + 1]
  ELSE IF \E s \in DOMAIN payloads : InSlot(s, o) THEN Dir ELSE Zero
Packed(payloads) ==
  [slots |-> [s \in DOMAIN payloads |-> PackedEntry(payloads, s)],
   freeStart |-> DirectoryEnd(Len(payloads)),
   freeEnd |-> PackedAt(payloads, Len(payloads)),
   bytes |-> [o \in Offsets |-> PackedByte(payloads, o)]]

Payloads(p) == [s \in DOMAIN p.slots |-> IF s \in Live(p) THEN Payload(p, s) ELSE <<>>]

Compact(p) == Packed(Payloads(p))

-----------------------------------------------------------------------------
Init == page = Initialize /\ result = <<"none">>

\* Mutant: a new directory entry is thought to cost nothing.
NeedIgnoresSlot(p, r) == Len(r)
\* What an insertion takes from the gap.
Need(p, r) == Len(r) + IF Dead(p) # {} THEN 0 ELSE SlotSize

\* The lowest deleted slot is reused; the page is compacted when the gap is too
\* small, and stays compacted even if the record still does not fit.
Insert(r) ==
  LET reusing == Dead(page) # {}
      target == IF reusing THEN Min(Dead(page)) ELSE SlotCount(page) + 1
      need == Need(page, r)
      p == IF need > FreeSpace(page) THEN Compact(page) ELSE page
      newEnd == p.freeEnd - Len(r)
      q == WriteSlot([p EXCEPT !.bytes = CopyTo(@, r, newEnd)], target,
                     [offset |-> newEnd, length |-> Len(r), live |-> TRUE]) IN
  IF need > FreeSpace(p)
  THEN page' = p /\ result' = <<"not inserted", r>>
  ELSE /\ page' = [slots |-> q.slots, bytes |-> q.bytes, freeEnd |-> newEnd,
                   freeStart |-> IF reusing THEN q.freeStart ELSE DirectoryEnd(SlotCount(q))]
       /\ result' = <<"inserted", r, target>>

\* Mutants: the old record is thought to stay; the directory is forgotten.
RoomWithOldRecord(p, s, r) ==
  DirectoryEnd(SlotCount(p)) + Total([t \in Live(p) |-> p.slots[t].length]) + Len(r)
    <= PageSize
RoomWithoutDirectory(p, s, r) ==
  Total([t \in Live(p) \ {s} |-> p.slots[t].length]) + Len(r) <= PageSize
\* Whether replace finds room for r beside the other live records.
Room(p, s, r) ==
  DirectoryEnd(SlotCount(p)) + Total([t \in Live(p) \ {s} |-> p.slots[t].length]) + Len(r)
    <= PageSize

\* Replacing always rebuilds the page, once it is known to have room.
Replace(s, r) ==
  IF ~Contains(page, s) THEN result' = <<"missing", s>> /\ UNCHANGED page
  ELSE IF ~Room(page, s, r) THEN result' = <<"not replaced", s, r>> /\ UNCHANGED page
  ELSE page' = Packed([Payloads(page) EXCEPT ![s] = r]) /\ result' = <<"replaced", s, r>>

Erase(s) ==
  IF ~Contains(page, s) THEN result' = <<"missing", s>> /\ UNCHANGED page
  ELSE page' = WriteSlot(page, s, DeadSlot) /\ result' = <<"erased", s>>

Read(s) ==
  /\ result' = IF Contains(page, s) THEN <<"read", s, Payload(page, s)>> ELSE <<"missing", s>>
  /\ UNCHANGED page

\* compact() called directly.
Compaction == page' = Compact(page) /\ UNCHANGED result

Next ==
  \/ \E r \in Records : Insert(r)
  \/ \E s \in 1 .. SlotCount(page) + 1 :
       Erase(s) \/ Read(s) \/ \E r \in Records : Replace(s, r)
  \/ Compaction

Spec == Init /\ [][Next]_vars

-----------------------------------------------------------------------------
Entries == [offset : 0 .. PageSize, length : 0 .. PageSize, live : BOOLEAN]
Bytes == {Zero, Dir} \cup UNION {Range(r) : r \in Records}

TypeOK ==
  /\ page.slots \in Seq(Entries)
  /\ page.freeEnd \in 0 .. PageSize /\ page.freeStart \in HeaderSize .. page.freeEnd
  /\ page.bytes \in [Offsets -> Bytes]

\* SlottedPage::validate, what HeapFile requires of a page before it writes it
\* and after it reads it.
SlotValid(p, s) ==
  LET e == p.slots[s] IN
  IF ~e.live THEN e = DeadSlot
  ELSE e.length # 0 /\ e.offset >= p.freeEnd /\ e.offset + e.length <= PageSize
Extent(e) == e.offset .. e.offset + e.length - 1
Validate(p) ==
  /\ p.freeStart = DirectoryEnd(SlotCount(p))
  /\ p.freeStart <= p.freeEnd /\ p.freeEnd <= PageSize
  /\ \A s \in DOMAIN p.slots : SlotValid(p, s)
  /\ \A s, t \in Live(p) : s # t => Extent(p.slots[s]) \cap Extent(p.slots[t]) = {}

\* Every page the operations can build passes validate, so that a page a client
\* changed can always be written and read back (HeapFile::write_page throws
\* otherwise): holes, reuse of slots and rebuilds never make payloads overlap
\* each other or the directory.
PagesValidate == Validate(page)

\* The page keeps the promises of SlotMap: a live slot reads back the record
\* last stored in it, its number never changes, and an insertion or replacement
\* is refused only when the page could not hold it in any arrangement.
Slots == INSTANCE SlotMap WITH
  content <- Payloads(page), Deleted <- <<>>
ImplementsSlotMap == Slots!Spec
=============================================================================
