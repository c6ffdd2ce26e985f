-------------------------- MODULE TableStoreProofs --------------------------
(***************************************************************************)
(* Proofs about TableStore, for all tables, columns, indexes, keys, values *)
(* and record ids: an inductive invariant about one entry at a time, and   *)
(* from it the agreement of lookups with scans and the containment of      *)
(* damage.                                                                 *)
(***************************************************************************)
EXTENDS TableStore, TLAPS

-----------------------------------------------------------------------------
(***************************************************************************)
(* The inductive invariant.                                                *)
(***************************************************************************)

\* Row id of the catalog's table of index i has a key for index i.
HasKey(i, id) == IsRow(id, indexes[i].table) /\ Key(i, rows[id]) # Null
EntryOf(i, id) == <<Key(i, rows[id]), id>>

\* What the local variables of an operation mean while its row is in the store:
\* the trees it still has to change open, and those it has changed hold its entry
\* or do not, according to the direction.
RowInv ==
  /\ op.id \in Ids /\ op.row \in Rows
  /\ op.done \subseteq Keyed(op.row)
  /\ \A i \in op.done : trees[i].sound
  /\ op.pc = "erased" => rows[op.id] = NoRow
  /\ op.pc # "erased" => rows[op.id] = op.row
  /\ op.pc \in {"add", "remove"} => /\ op.pending = Keyed(op.row) \ op.done
                                    /\ \A i \in op.pending : trees[i].sound
  /\ op.pc \in {"add", "inserted", "undo"} => \A i \in op.done : OwnEntry(i) \in trees[i].entries
  /\ op.pc = "inserted" => op.done = Keyed(op.row)
  /\ op.pc = "remove" => \A i \in op.done : OwnEntry(i) \notin trees[i].entries

\* An index being built is not yet in the catalog, and its tree has the entries of
\* the rows taken so far.
Built == {id \in Ids : IsRow(id, op.table) /\ rows[id].values[op.column] # Null /\ id \notin op.todo}
BuildInv ==
  /\ op.index \in Indexes /\ op.index \notin Registered
  /\ op.table \in tables /\ op.column \in Columns
  /\ op.todo \subseteq ToIndex(op.table, op.column)
  /\ trees[op.index].sound
  /\ \A k \in Keys, id \in Ids :
       <<k, id>> \in trees[op.index].entries <=> id \in Built /\ rows[id].values[op.column] = k

OperationInv ==
  /\ op.pc \notin {"idle", "build", "created"} => RowInv
  /\ op.pc = "build" => BuildInv
  /\ op.pc = "created" => op.index \in Indexes

\* The entry of row id in index i is missing because the operation has not added it
\* yet, or has taken it out and may put it back.
Underway(i, id) ==
  /\ id = op.id
  /\ \/ op.pc \in {"add", "undo"} /\ i \notin op.done
     \/ op.pc \in {"remove", "restore"} /\ i \in op.done

\* However damaged: a tree that opens has every row of its table with a key, but
\* for rows whose own writing was cut short.
RowsAreFound ==
  \A i \in Registered, id \in Ids :
    trees[i].sound /\ HasKey(i, id) =>
      EntryOf(i, id) \in trees[i].entries \/ <<i, id>> \in cut \/ Underway(i, id)

\* Undamaged: the catalog can be read, every tree opens and has no other entry.
EntriesHaveRows ==
  \A i \in Registered :
    /\ indexes[i].table \in tables /\ trees[i].sound
    /\ \A k \in Keys, id \in Ids :
         <<k, id>> \in trees[i].entries => HasKey(i, id) /\ Key(i, rows[id]) = k
    /\ op.pc \in {"add", "undo"} /\ i \in Keyed(op.row) \ op.done => OwnEntry(i) \notin trees[i].entries
Undamaged == cut = {} /\ EntriesHaveRows

IInv == TypeOK /\ OperationInv /\ RowsAreFound /\ (~disturbed => Undamaged)

-----------------------------------------------------------------------------
\* An instance of the invariant: an entry of an undamaged tree names its row.
LEMMA EntryHasRow ==
  ASSUME EntriesHaveRows, NEW j \in Registered, NEW k \in Keys, NEW r \in Ids,
         <<k, r>> \in trees[j].entries
  PROVE  HasKey(j, r) /\ Key(j, rows[r]) = k
BY DEF EntriesHaveRows

\* An instance of the invariant: a row at rest has its entry, or is marked.
LEMMA RowIsFound ==
  ASSUME RowsAreFound, NEW j \in Registered, NEW r \in Ids, trees[j].sound, HasKey(j, r),
         ~Underway(j, r)
  PROVE  EntryOf(j, r) \in trees[j].entries \/ <<j, r>> \in cut
BY DEF RowsAreFound

USE ValuesAssumption, RowsAssumption, IndexesAssumption
  DEF At, Rows, Registered, Owned, Key, Keyed, IsRow, OwnEntry, HasKey, EntryOf, history

\* The empty store.
LEMMA InitIInv == Init => IInv
<1> SUFFICES ASSUME Init PROVE IInv OBVIOUS
<1> USE DEF Init, NoOp, Sound
<1>1. TypeOK BY DEF TypeOK, Operations, Pcs
<1>2. OperationInv BY DEF OperationInv
<1>3. RowsAreFound BY DEF RowsAreFound
<1>4. Undamaged BY DEF Undamaged, EntriesHaveRows
<1> QED BY <1>1, <1>2, <1>3, <1>4 DEF IInv

\* An index a row has a key for exists, and its entry for the row is of the right type.
LEMMA EntryType ==
  ASSUME TypeOK, op.row \in Rows, op.id \in Ids, NEW i \in Keyed(op.row)
  PROVE  i \in Registered /\ OwnEntry(i) \in Keys \X Ids
<1>1. indexes[i] \in [table : Tables, column : Columns] BY DEF TypeOK
<1>2. op.row.values \in [Columns -> Keys \cup {Null}] OBVIOUS
<1> QED BY <1>1, <1>2

\* One tree is written.
LEMMA OneTree ==
  ASSUME TypeOK, NEW i \in Indexes, NEW entries \in SUBSET (Keys \X Ids), NEW sound \in BOOLEAN,
         SetTree(i, [entries |-> entries, sound |-> sound])
  PROVE  /\ trees' \in [Indexes -> [entries : SUBSET (Keys \X Ids), sound : BOOLEAN]]
         /\ trees'[i].entries = entries /\ trees'[i].sound = sound
         /\ \A j \in Indexes \ {i} : trees'[j] = trees[j]
BY DEF TypeOK, SetTree

\* The entries of one tree are updated.
LEMMA UpdatedTree ==
  ASSUME TypeOK, NEW i \in Indexes, NEW entries \in SUBSET (Keys \X Ids), Updated(i, entries)
  PROVE  /\ trees' \in [Indexes -> [entries : SUBSET (Keys \X Ids), sound : BOOLEAN]]
         /\ trees'[i].entries = entries /\ trees'[i].sound = trees[i].sound
         /\ \A j \in Indexes \ {i} : trees'[j] = trees[j]
<1>1. trees[i] \in [entries : SUBSET (Keys \X Ids), sound : BOOLEAN] BY DEF TypeOK
<1>2. [trees[i] EXCEPT !.entries = entries] = [entries |-> entries, sound |-> trees[i].sound]
  BY <1>1
<1> QED BY <1>1, <1>2, OneTree DEF Updated

\* A write of a tree that fails leaves the tree as it was or was to be, unless it
\* no longer opens.
LEMMA InterruptedTree ==
  ASSUME TypeOK, NEW i \in Indexes, NEW entries \in SUBSET (Keys \X Ids), Interrupted(i, entries)
  PROVE  /\ trees' \in [Indexes -> [entries : SUBSET (Keys \X Ids), sound : BOOLEAN]]
         /\ trees'[i].sound => \/ trees'[i] = trees[i]
                               \/ trees'[i].entries = entries
         /\ \A j \in Indexes \ {i} : trees'[j] = trees[j]
<1>1. PICK left \in {trees[i], Sound(entries), Broken} : SetTree(i, left) BY DEF Interrupted
<1>2. CASE left = trees[i] BY <1>1, <1>2 DEF SetTree, TypeOK
<1>3. CASE left = Sound(entries) BY <1>1, <1>3, OneTree DEF Sound
<1>4. CASE left = Broken BY <1>1, <1>4, OneTree DEF Broken
<1> QED BY <1>1, <1>2, <1>3, <1>4

\* The fields an operation changes as it goes on keep their types.
LEMMA OperationType ==
  ASSUME op \in Operations, NEW pc \in Pcs, NEW pending \in SUBSET Indexes,
         NEW done \in SUBSET Indexes, NEW todo \in SUBSET Ids,
         op' = [op EXCEPT !.pc = pc, !.pending = pending, !.done = done, !.todo = todo]
  PROVE  /\ op' \in Operations
         /\ op'.pc = pc /\ op'.pending = pending /\ op'.done = done /\ op'.todo = todo
         /\ op'.row = op.row /\ op'.id = op.id
         /\ op'.index = op.index /\ op'.table = op.table /\ op'.column = op.column
BY DEF Operations

\* An operation ends.
LEMMA Returned == Return => op' \in Operations /\ op'.pc = "idle"
BY DEF Return, NoOp, Operations, Pcs

-----------------------------------------------------------------------------
\* A step of an operation on a row that is in the store: no tree opens less than before,
\* and none but those of the row get an entry, and that the row's own.
LEMMA RowStepUndamaged ==
  ASSUME IInv, RowInv, rows[op.id] = op.row,
         UNCHANGED <<tables, indexes, rows, disturbed, cut>>, op'.row = op.row, op'.id = op.id,
         \A j \in Registered : trees'[j].sound = trees[j].sound,
         \A j \in Registered, k \in Keys, r \in Ids :
           <<k, r>> \in trees'[j].entries =>
             \/ <<k, r>> \in trees[j].entries
             \/ j \in Keyed(op.row) /\ k = Key(j, op.row) /\ r = op.id,
         op'.pc \in {"add", "undo"} =>
           \A j \in Keyed(op.row) \ op'.done : OwnEntry(j) \notin trees'[j].entries
  PROVE  ~disturbed' => Undamaged'
<1> SUFFICES ASSUME ~disturbed PROVE EntriesHaveRows' /\ cut' = {} BY DEF Undamaged
<1>1. EntriesHaveRows /\ cut' = {} BY DEF IInv, Undamaged
<1>2. ASSUME NEW j \in Registered, NEW k \in Keys, NEW r \in Ids, <<k, r>> \in trees'[j].entries
      PROVE  HasKey(j, r) /\ Key(j, rows[r]) = k
  <2>1. CASE <<k, r>> \in trees[j].entries
    BY <1>1, <2>1, EntryHasRow
  <2>2. CASE j \in Keyed(op.row) /\ k = Key(j, op.row) /\ r = op.id
    <3>1. rows[r] = op.row /\ op.row \in Rows BY <2>2 DEF RowInv
    <3>2. op.row \notin {NoRow, Raw} BY <3>1
    <3> QED BY <2>2, <3>1, <3>2
  <2> QED BY <1>2, <2>1, <2>2
<1> QED BY <1>1, <1>2 DEF EntriesHaveRows

\* An insertion begins: the new row has no entry anywhere.
LEMMA InsertRowInv ==
  ASSUME IInv, NEW t \in Tables, NEW values \in Values, NEW id \in Ids, InsertRow(t, values, id)
  PROVE  IInv'
<1> USE DEF IInv
<1>1. PICK row \in Rows, pending \in SUBSET Indexes :
        /\ row = [table |-> t, values |-> values] /\ pending = Keyed(row)
        /\ op' = [NoOp EXCEPT !.pc = "add", !.row = row, !.id = id, !.pending = pending]
  BY DEF InsertRow
<1>2. /\ op'.pc = "add" /\ op'.row = row /\ op'.id = id /\ op'.pending = pending /\ op'.done = {}
      /\ op' \in Operations
  <2>1. op' = [pc |-> "add", row |-> row, id |-> id, index |-> Null, table |-> Null,
               column |-> Null, pending |-> pending, done |-> {}, todo |-> {}]
    BY <1>1 DEF NoOp
  <2> QED BY <2>1 DEF Operations, Pcs
<1>3. /\ UNCHANGED <<tables, indexes, trees, disturbed>>
      /\ op.pc = "idle" /\ rows[id] = NoRow /\ IndexesOpen(t) /\ CatalogReads /\ t \in tables
      /\ rows' \in [Ids -> Rows \cup {NoRow, Raw}] /\ cut' = cut \ (Indexes \X {id})
      /\ rows'[id] = row /\ \A r \in Ids \ {id} : rows'[r] = rows[r]
  BY <1>1 DEF InsertRow, SetRow, TypeOK
<1>4. row \notin {NoRow, Raw} /\ row.table = t BY <1>1
<1>5. TypeOK' BY <1>2, <1>3 DEF TypeOK
<1>6. OperationInv' BY <1>1, <1>2, <1>3, <1>4 DEF OperationInv, RowInv, IndexesOpen
<1>7. RowsAreFound'
  <2> SUFFICES ASSUME NEW i \in Registered', NEW r \in Ids, trees'[i].sound, HasKey(i, r)'
               PROVE  EntryOf(i, r)' \in trees'[i].entries \/ <<i, r>> \in cut' \/ Underway(i, r)'
    BY DEF RowsAreFound
  <2>1. CASE r = id BY <1>2, <2>1 DEF Underway
  <2>2. CASE r # id BY <1>2, <1>3, <2>2 DEF RowsAreFound, Underway
  <2> QED BY <2>1, <2>2
<1>8. ~disturbed' => Undamaged'
  <2> SUFFICES ASSUME ~disturbed' PROVE Undamaged' OBVIOUS
  <2>1. cut' = {} BY <1>3 DEF Undamaged
  <2>2. ASSUME NEW i \in Registered, NEW k \in Keys, NEW r \in Ids, <<k, r>> \in trees[i].entries
        PROVE  r # id /\ HasKey(i, r) /\ Key(i, rows[r]) = k
    BY <1>3, <2>2 DEF Undamaged, EntriesHaveRows
  <2>3. EntriesHaveRows'
    BY <1>1, <1>2, <1>3, <1>4, <2>2 DEF EntriesHaveRows, Undamaged, TypeOK
  <2> QED BY <2>1, <2>3 DEF Undamaged
<1> QED BY <1>5, <1>6, <1>7, <1>8

\* An entry is added.
LEMMA AddEntryInv == ASSUME IInv, NEW i \in Indexes, AddEntry(i) PROVE IInv'
<1> USE DEF IInv
<1>1. /\ op.pc = "add" /\ RowInv /\ i \in Keyed(op.row) /\ i \in op.pending /\ i \notin op.done
      /\ UNCHANGED <<tables, indexes, rows, disturbed, cut>>
  BY DEF AddEntry, OperationInv, RowInv
<1>2. /\ op' \in Operations /\ op'.pc = "add" /\ op'.row = op.row /\ op'.id = op.id
      /\ op'.pending = op.pending \ {i} /\ op'.done = op.done \cup {i}
  BY <1>1 DEF AddEntry, Progress, TypeOK, Operations
<1>3. i \in Registered /\ OwnEntry(i) \in Keys \X Ids BY <1>1, EntryType DEF RowInv
<1>4. /\ trees' \in [Indexes -> [entries : SUBSET (Keys \X Ids), sound : BOOLEAN]]
      /\ trees'[i].entries = trees[i].entries \cup {OwnEntry(i)} /\ trees'[i].sound = trees[i].sound
      /\ \A j \in Indexes \ {i} : trees'[j] = trees[j]
  <2>1. With(i) \in SUBSET (Keys \X Ids) BY <1>3 DEF With, TypeOK
  <2> QED BY <2>1, UpdatedTree DEF AddEntry, With
<1>5. TypeOK' BY <1>1, <1>2, <1>4 DEF TypeOK
<1>6. OperationInv' BY <1>1, <1>2, <1>4 DEF OperationInv, RowInv
<1>7. RowsAreFound'
  <2> SUFFICES ASSUME NEW j \in Registered', NEW r \in Ids, trees'[j].sound, HasKey(j, r)'
               PROVE  EntryOf(j, r)' \in trees'[j].entries \/ <<j, r>> \in cut' \/ Underway(j, r)'
    BY DEF RowsAreFound
  <2> QED BY <1>1, <1>2, <1>4 DEF RowsAreFound, Underway, RowInv

<1>8. ~disturbed' => Undamaged'
  <2>1. rows[op.id] = op.row BY <1>1 DEF RowInv
  <2> QED BY <1>1, <1>2, <1>4, <2>1, RowStepUndamaged DEF Undamaged, EntriesHaveRows, RowInv
<1> QED BY <1>5, <1>6, <1>7, <1>8

\* An entry is refused, or the insertion is done: no tree is touched.
LEMMA InsertTurnsInv ==
  ASSUME IInv, InsertReturns \/ \E i \in Indexes : AddEntryRefused(i) PROVE IInv'
<1> USE DEF IInv
<1>1. /\ op.pc = "add" /\ RowInv /\ rows[op.id] = op.row
      /\ UNCHANGED <<tables, indexes, trees, rows, disturbed, cut>>
  BY DEF InsertReturns, AddEntryRefused, OperationInv, RowInv
<1>2. /\ op' \in Operations /\ op'.row = op.row /\ op'.id = op.id
      /\ op'.pending = op.pending /\ op'.done = op.done
      /\ \/ op'.pc = "undo"
         \/ op'.pc = "inserted" /\ op.pending = {}
  BY <1>1 DEF InsertReturns, AddEntryRefused, Goto, TypeOK, Operations, Pcs
<1>3. TypeOK' BY <1>1, <1>2 DEF TypeOK
<1>4. OperationInv' BY <1>1, <1>2 DEF OperationInv, RowInv
<1>5. RowsAreFound'
  <2> SUFFICES ASSUME NEW j \in Registered', NEW r \in Ids, trees'[j].sound, HasKey(j, r)'
               PROVE  EntryOf(j, r)' \in trees'[j].entries \/ <<j, r>> \in cut' \/ Underway(j, r)'
    BY DEF RowsAreFound
  <2> QED BY <1>1, <1>2 DEF RowsAreFound, Underway, RowInv
<1>6. ~disturbed' => Undamaged'
  BY <1>1, <1>2, RowStepUndamaged DEF Undamaged, EntriesHaveRows
<1> QED BY <1>3, <1>4, <1>5, <1>6

\* Adding an entry fails half-way: the row is about to be taken back.
LEMMA AddEntryFailsInv == ASSUME IInv, NEW i \in Indexes, AddEntryFails(i) PROVE IInv'
<1> USE DEF IInv
<1>1. /\ op.pc = "add" /\ RowInv /\ i \in Keyed(op.row) /\ i \in op.pending /\ i \notin op.done
      /\ UNCHANGED <<tables, indexes, rows, cut>> /\ disturbed' = TRUE
      /\ trees[i].sound
  BY DEF AddEntryFails, OperationInv, RowInv, LeavesEntries, CutShort
<1>2. /\ op' \in Operations /\ op'.pc = "undo" /\ op'.row = op.row /\ op'.id = op.id
      /\ op'.pending = op.pending /\ op'.done = op.done
  BY DEF AddEntryFails, Goto, TypeOK, Operations, Pcs
<1>3. i \in Registered /\ OwnEntry(i) \in Keys \X Ids BY <1>1, EntryType DEF RowInv
<1>4. /\ trees' \in [Indexes -> [entries : SUBSET (Keys \X Ids), sound : BOOLEAN]]
      /\ trees'[i].sound => \/ trees'[i] = trees[i]
                            \/ trees'[i].entries = trees[i].entries \cup {OwnEntry(i)}
      /\ \A j \in Indexes \ {i} : trees'[j] = trees[j]
  <2>1. With(i) \in SUBSET (Keys \X Ids) BY <1>3 DEF With, TypeOK
  <2> QED BY <2>1, InterruptedTree DEF AddEntryFails, With
<1>5. TypeOK' BY <1>1, <1>2, <1>4 DEF TypeOK
<1>6. OperationInv' BY <1>1, <1>2, <1>4 DEF OperationInv, RowInv
<1>7. RowsAreFound'
  <2> SUFFICES ASSUME NEW j \in Registered', NEW r \in Ids, trees'[j].sound, HasKey(j, r)'
               PROVE  EntryOf(j, r)' \in trees'[j].entries \/ <<j, r>> \in cut' \/ Underway(j, r)'
    BY DEF RowsAreFound
  <2> QED BY <1>1, <1>2, <1>4 DEF RowsAreFound, Underway, RowInv
<1> QED BY <1>1, <1>5, <1>6, <1>7

\* An entry is taken back.
LEMMA UndoEntryInv == ASSUME IInv, NEW i \in Indexes, UndoEntry(i) PROVE IInv'
<1> USE DEF IInv
<1>1. /\ op.pc = "undo" /\ RowInv /\ rows[op.id] = op.row /\ i \in Keyed(op.row) /\ i \in op.done
      /\ UNCHANGED <<tables, indexes, rows, disturbed, cut>>
  BY DEF UndoEntry, OperationInv, RowInv
<1>2. /\ op' \in Operations /\ op'.pc = "undo" /\ op'.row = op.row /\ op'.id = op.id
      /\ op'.pending = op.pending /\ op'.done = op.done \ {i}
  BY <1>1 DEF UndoEntry, Undone, TypeOK, Operations
<1>3. i \in Registered /\ OwnEntry(i) \in Keys \X Ids BY <1>1, EntryType DEF RowInv
<1>4. /\ trees' \in [Indexes -> [entries : SUBSET (Keys \X Ids), sound : BOOLEAN]]
      /\ trees'[i].entries = trees[i].entries \ {OwnEntry(i)} /\ trees'[i].sound = trees[i].sound
      /\ \A j \in Indexes \ {i} : trees'[j] = trees[j]
  <2>1. Without(i) \in SUBSET (Keys \X Ids) BY <1>3 DEF Without, TypeOK
  <2> QED BY <2>1, UpdatedTree DEF UndoEntry, Without
<1>5. TypeOK' BY <1>1, <1>2, <1>4 DEF TypeOK
<1>6. OperationInv' BY <1>1, <1>2, <1>4 DEF OperationInv, RowInv
<1>7. RowsAreFound'
  <2> SUFFICES ASSUME NEW j \in Registered', NEW r \in Ids, trees'[j].sound, HasKey(j, r)'
               PROVE  EntryOf(j, r)' \in trees'[j].entries \/ <<j, r>> \in cut' \/ Underway(j, r)'
    BY DEF RowsAreFound
  <2> QED BY <1>1, <1>2, <1>4 DEF RowsAreFound, Underway, RowInv
<1>8. ~disturbed' => Undamaged'
  BY <1>1, <1>2, <1>4, RowStepUndamaged DEF Undamaged, EntriesHaveRows, RowInv
<1> QED BY <1>5, <1>6, <1>7, <1>8

\* Taking an entry back fails half-way, which is given up.
LEMMA UndoEntryFailsInv == ASSUME IInv, NEW i \in Indexes, UndoEntryFails(i) PROVE IInv'
<1> USE DEF IInv
<1>1. /\ op.pc = "undo" /\ RowInv /\ rows[op.id] = op.row /\ i \in Keyed(op.row) /\ i \in op.done
      /\ UNCHANGED <<tables, indexes, rows, cut>> /\ disturbed' = TRUE /\ trees[i].sound
  BY DEF UndoEntryFails, OperationInv, RowInv, LeavesEntries, CutShort
<1>2. /\ op' \in Operations /\ op'.pc = "undo" /\ op'.row = op.row /\ op'.id = op.id
      /\ op'.pending = op.pending /\ op'.done = op.done \ {i}
  BY <1>1 DEF UndoEntryFails, Undone, TypeOK, Operations
<1>3. i \in Registered /\ OwnEntry(i) \in Keys \X Ids BY <1>1, EntryType DEF RowInv
<1>4. /\ trees' \in [Indexes -> [entries : SUBSET (Keys \X Ids), sound : BOOLEAN]]
      /\ trees'[i].sound => \/ trees'[i] = trees[i]
                            \/ trees'[i].entries = trees[i].entries \ {OwnEntry(i)}
      /\ \A j \in Indexes \ {i} : trees'[j] = trees[j]
  <2>1. Without(i) \in SUBSET (Keys \X Ids) BY <1>3 DEF Without, TypeOK
  <2> QED BY <2>1, InterruptedTree DEF UndoEntryFails, Without
<1>5. TypeOK' BY <1>1, <1>2, <1>4 DEF TypeOK
<1>6. OperationInv' BY <1>1, <1>2, <1>4 DEF OperationInv, RowInv
<1>7. RowsAreFound'
  <2> SUFFICES ASSUME NEW j \in Registered', NEW r \in Ids, trees'[j].sound, HasKey(j, r)'
               PROVE  EntryOf(j, r)' \in trees'[j].entries \/ <<j, r>> \in cut' \/ Underway(j, r)'
    BY DEF RowsAreFound
  <2> QED BY <1>1, <1>2, <1>4 DEF RowsAreFound, Underway, RowInv
<1> QED BY <1>1, <1>5, <1>6, <1>7

\* The row is taken back after its entries, so that no entry is left.
LEMMA UndoRowInv == ASSUME IInv, UndoRow PROVE IInv'
<1> USE DEF IInv
<1>1. /\ op.pc = "undo" /\ RowInv /\ op.done = {} /\ op.id \in Ids
      /\ UNCHANGED <<tables, indexes, trees, disturbed>>
      /\ rows' \in [Ids -> Rows \cup {NoRow, Raw}] /\ cut' = cut \ (Indexes \X {op.id})
      /\ rows'[op.id] = NoRow /\ \A r \in Ids \ {op.id} : rows'[r] = rows[r]
      /\ rows[op.id] = op.row
  BY DEF UndoRow, OperationInv, RowInv, SetRow, TypeOK
<1>2. op' \in Operations /\ op'.pc = "idle" BY Returned DEF UndoRow
<1>3. TypeOK' BY <1>1, <1>2 DEF TypeOK
<1>4. OperationInv' BY <1>2 DEF OperationInv
<1>5. RowsAreFound'
  <2> SUFFICES ASSUME NEW j \in Registered', NEW r \in Ids, trees'[j].sound, HasKey(j, r)'
               PROVE  EntryOf(j, r)' \in trees'[j].entries \/ <<j, r>> \in cut' \/ Underway(j, r)'
    BY DEF RowsAreFound
  <2> QED BY <1>1, <1>2 DEF RowsAreFound, Underway
<1>6. ~disturbed' => Undamaged'
  <2> SUFFICES ASSUME ~disturbed PROVE EntriesHaveRows' /\ cut' = {} BY <1>1 DEF Undamaged
  <2>1. ASSUME NEW j \in Registered, NEW k \in Keys, NEW r \in Ids, <<k, r>> \in trees[j].entries
        PROVE  r # op.id /\ HasKey(j, r) /\ Key(j, rows[r]) = k
    <3>1. HasKey(j, r) /\ Key(j, rows[r]) = k
      BY <2>1, EntryHasRow DEF Undamaged
    <3> QED BY <1>1, <2>1, <3>1 DEF Undamaged, EntriesHaveRows
  <2>2. EntriesHaveRows /\ cut = {} BY DEF Undamaged
  <2>3. ASSUME NEW j \in Registered, NEW k \in Keys, NEW r \in Ids, <<k, r>> \in trees'[j].entries
        PROVE  HasKey(j, r)' /\ Key(j, rows[r])' = k
    BY <1>1, <2>1, <2>3
  <2> QED BY <1>1, <1>2, <2>2, <2>3 DEF EntriesHaveRows
<1> QED BY <1>3, <1>4, <1>5, <1>6

\* Taking the row back fails: it stays, with none of its entries.
LEMMA UndoRowFailsInv == ASSUME IInv, UndoRowFails PROVE IInv'
<1> USE DEF IInv
<1>1. /\ op.pc = "undo" /\ RowInv /\ rows[op.id] = op.row /\ op.id \in Ids
      /\ UNCHANGED <<tables, indexes, trees, rows>> /\ disturbed' = TRUE
      /\ cut' = cut \cup OwnPairs
  BY DEF UndoRowFails, OperationInv, RowInv, CutShort
<1>2. op' \in Operations /\ op'.pc = "idle" BY Returned DEF UndoRowFails
<1>3. TypeOK' BY <1>1, <1>2 DEF TypeOK, OwnPairs
<1>4. OperationInv' BY <1>2 DEF OperationInv
<1>5. RowsAreFound'
  <2> SUFFICES ASSUME NEW j \in Registered', NEW r \in Ids, trees'[j].sound, HasKey(j, r)'
               PROVE  EntryOf(j, r)' \in trees'[j].entries \/ <<j, r>> \in cut' \/ Underway(j, r)'
    BY DEF RowsAreFound
  <2> QED BY <1>1, <1>2 DEF RowsAreFound, Underway, OwnPairs
<1> QED BY <1>1, <1>3, <1>4, <1>5

-----------------------------------------------------------------------------
\* A deletion begins.
LEMMA EraseInv == ASSUME IInv, NEW t \in Tables, NEW id \in Ids, Erase(t, id) PROVE IInv'
<1> USE DEF IInv
<1>1. PICK row \in Rows, pending \in SUBSET Indexes :
        /\ row = rows[id] /\ pending = Keyed(row)
        /\ op' = [NoOp EXCEPT !.pc = "remove", !.row = row, !.id = id, !.pending = pending]
  BY DEF Erase, TypeOK
<1>2. /\ op'.pc = "remove" /\ op'.row = row /\ op'.id = id /\ op'.pending = pending /\ op'.done = {}
      /\ op' \in Operations
  <2>1. op' = [pc |-> "remove", row |-> row, id |-> id, index |-> Null, table |-> Null,
               column |-> Null, pending |-> pending, done |-> {}, todo |-> {}]
    BY <1>1 DEF NoOp
  <2> QED BY <2>1 DEF Operations, Pcs
<1>3. /\ op.pc = "idle" /\ IndexesOpen(t) /\ row.table = t
      /\ UNCHANGED <<tables, indexes, trees, rows, disturbed, cut>>
  BY <1>1 DEF Erase
<1>4. TypeOK' BY <1>2, <1>3 DEF TypeOK
<1>5. OperationInv' BY <1>1, <1>2, <1>3 DEF OperationInv, RowInv, IndexesOpen
<1>6. RowsAreFound'
  <2> SUFFICES ASSUME NEW j \in Registered', NEW r \in Ids, trees'[j].sound, HasKey(j, r)'
               PROVE  EntryOf(j, r)' \in trees'[j].entries \/ <<j, r>> \in cut' \/ Underway(j, r)'
    BY DEF RowsAreFound
  <2> QED BY <1>2, <1>3 DEF RowsAreFound, Underway
<1>7. ~disturbed' => Undamaged' BY <1>2, <1>3 DEF Undamaged, EntriesHaveRows
<1> QED BY <1>4, <1>5, <1>6, <1>7

\* An entry is removed.
LEMMA RemoveEntryInv == ASSUME IInv, NEW i \in Indexes, RemoveEntry(i) PROVE IInv'
<1> USE DEF IInv
<1>1. /\ op.pc = "remove" /\ RowInv /\ rows[op.id] = op.row
      /\ i \in Keyed(op.row) /\ i \in op.pending /\ i \notin op.done
      /\ UNCHANGED <<tables, indexes, rows, disturbed, cut>>
  BY DEF RemoveEntry, OperationInv, RowInv
<1>2. /\ op' \in Operations /\ op'.pc = "remove" /\ op'.row = op.row /\ op'.id = op.id
      /\ op'.pending = op.pending \ {i} /\ op'.done = op.done \cup {i}
  BY <1>1 DEF RemoveEntry, Progress, TypeOK, Operations
<1>3. i \in Registered /\ OwnEntry(i) \in Keys \X Ids BY <1>1, EntryType DEF RowInv
<1>4. /\ trees' \in [Indexes -> [entries : SUBSET (Keys \X Ids), sound : BOOLEAN]]
      /\ trees'[i].entries = trees[i].entries \ {OwnEntry(i)} /\ trees'[i].sound = trees[i].sound
      /\ \A j \in Indexes \ {i} : trees'[j] = trees[j]
  <2>1. Without(i) \in SUBSET (Keys \X Ids) BY <1>3 DEF Without, TypeOK
  <2> QED BY <2>1, UpdatedTree DEF RemoveEntry, Without
<1>5. TypeOK' BY <1>1, <1>2, <1>4 DEF TypeOK
<1>6. OperationInv' BY <1>1, <1>2, <1>4 DEF OperationInv, RowInv
<1>7. RowsAreFound'
  <2> SUFFICES ASSUME NEW j \in Registered', NEW r \in Ids, trees'[j].sound, HasKey(j, r)'
               PROVE  EntryOf(j, r)' \in trees'[j].entries \/ <<j, r>> \in cut' \/ Underway(j, r)'
    BY DEF RowsAreFound
  <2> QED BY <1>1, <1>2, <1>4 DEF RowsAreFound, Underway, RowInv
<1>8. ~disturbed' => Undamaged' BY <1>1, <1>2, <1>4, RowStepUndamaged
<1> QED BY <1>5, <1>6, <1>7, <1>8

\* The entry is missing, or the deletion gives up: what was removed is put back.
LEMMA RestoreBeginsInv ==
  ASSUME IInv, EraseRowFails \/ \E i \in Indexes : RemoveEntryMissing(i) PROVE IInv'
<1> USE DEF IInv
<1>1. /\ op.pc = "remove" /\ RowInv /\ rows[op.id] = op.row
      /\ UNCHANGED <<tables, indexes, trees, rows, cut>>
      /\ disturbed' \in BOOLEAN /\ (~disturbed' => ~disturbed)
  BY DEF EraseRowFails, RemoveEntryMissing, OperationInv, RowInv, TypeOK
<1>2. /\ op' \in Operations /\ op'.row = op.row /\ op'.id = op.id /\ op'.pc = "restore"
      /\ op'.pending = op.pending /\ op'.done = op.done
  BY <1>1 DEF EraseRowFails, RemoveEntryMissing, Goto, TypeOK, Operations, Pcs
<1>3. TypeOK' BY <1>1, <1>2 DEF TypeOK
<1>4. OperationInv' BY <1>1, <1>2 DEF OperationInv, RowInv
<1>5. RowsAreFound'
  <2> SUFFICES ASSUME NEW j \in Registered', NEW r \in Ids, trees'[j].sound, HasKey(j, r)'
               PROVE  EntryOf(j, r)' \in trees'[j].entries \/ <<j, r>> \in cut' \/ Underway(j, r)'
    BY DEF RowsAreFound
  <2> QED BY <1>1, <1>2 DEF RowsAreFound, Underway, RowInv
<1>6. ~disturbed' => Undamaged' BY <1>1, <1>2 DEF Undamaged, EntriesHaveRows
<1> QED BY <1>3, <1>4, <1>5, <1>6

\* Removing an entry fails half-way.
LEMMA RemoveEntryFailsInv == ASSUME IInv, NEW i \in Indexes, RemoveEntryFails(i) PROVE IInv'
<1> USE DEF IInv
<1>1. /\ op.pc = "remove" /\ RowInv /\ rows[op.id] = op.row
      /\ i \in Keyed(op.row) /\ i \in op.pending /\ i \notin op.done
      /\ UNCHANGED <<tables, indexes, rows>> /\ disturbed' = TRUE
      /\ cut' = cut \cup {<<i, op.id>>} /\ trees[i].sound /\ op.id \in Ids
  BY DEF RemoveEntryFails, OperationInv, RowInv, CutShort
<1>2. /\ op' \in Operations /\ op'.pc = "restore" /\ op'.row = op.row /\ op'.id = op.id
      /\ op'.pending = op.pending /\ op'.done = op.done
  BY DEF RemoveEntryFails, Goto, TypeOK, Operations, Pcs
<1>3. i \in Registered /\ OwnEntry(i) \in Keys \X Ids BY <1>1, EntryType DEF RowInv
<1>4. /\ trees' \in [Indexes -> [entries : SUBSET (Keys \X Ids), sound : BOOLEAN]]
      /\ trees'[i].sound => \/ trees'[i] = trees[i]
                            \/ trees'[i].entries = trees[i].entries \ {OwnEntry(i)}
      /\ \A j \in Indexes \ {i} : trees'[j] = trees[j]
  <2>1. Without(i) \in SUBSET (Keys \X Ids) BY <1>3 DEF Without, TypeOK
  <2> QED BY <2>1, InterruptedTree DEF RemoveEntryFails, Without
<1>5. TypeOK' BY <1>1, <1>2, <1>4 DEF TypeOK
<1>6. OperationInv' BY <1>1, <1>2, <1>4 DEF OperationInv, RowInv
<1>7. RowsAreFound'
  <2> SUFFICES ASSUME NEW j \in Registered', NEW r \in Ids, trees'[j].sound, HasKey(j, r)'
               PROVE  EntryOf(j, r)' \in trees'[j].entries \/ <<j, r>> \in cut' \/ Underway(j, r)'
    BY DEF RowsAreFound
  <2> QED BY <1>1, <1>2, <1>4 DEF RowsAreFound, Underway, RowInv
<1> QED BY <1>1, <1>5, <1>6, <1>7

\* The row is erased after its entries, so that no entry is left.
LEMMA EraseRowInv == ASSUME IInv, EraseRow PROVE IInv'
<1> USE DEF IInv
<1>1. /\ op.pc = "remove" /\ RowInv /\ op.done = Keyed(op.row) /\ op.id \in Ids
      /\ UNCHANGED <<tables, indexes, trees, disturbed>>
      /\ rows' \in [Ids -> Rows \cup {NoRow, Raw}] /\ cut' = cut \ (Indexes \X {op.id})
      /\ rows'[op.id] = NoRow /\ \A r \in Ids \ {op.id} : rows'[r] = rows[r]
      /\ rows[op.id] = op.row
  BY DEF EraseRow, OperationInv, RowInv, SetRow, TypeOK
<1>2. /\ op' \in Operations /\ op'.pc = "erased" /\ op'.row = op.row /\ op'.id = op.id
      /\ op'.pending = op.pending /\ op'.done = op.done
  BY DEF EraseRow, Goto, TypeOK, Operations, Pcs
<1>3. TypeOK' BY <1>1, <1>2 DEF TypeOK
<1>4. OperationInv' BY <1>1, <1>2 DEF OperationInv, RowInv
<1>5. RowsAreFound'
  <2> SUFFICES ASSUME NEW j \in Registered', NEW r \in Ids, trees'[j].sound, HasKey(j, r)'
               PROVE  EntryOf(j, r)' \in trees'[j].entries \/ <<j, r>> \in cut' \/ Underway(j, r)'
    BY DEF RowsAreFound
  <2> QED BY <1>1, <1>2 DEF RowsAreFound, Underway
<1>6. ~disturbed' => Undamaged'
  <2> SUFFICES ASSUME ~disturbed PROVE EntriesHaveRows' /\ cut' = {} BY <1>1 DEF Undamaged
  <2>1. ASSUME NEW j \in Registered, NEW k \in Keys, NEW r \in Ids, <<k, r>> \in trees[j].entries
        PROVE  r # op.id /\ HasKey(j, r) /\ Key(j, rows[r]) = k
    <3>1. HasKey(j, r) /\ Key(j, rows[r]) = k
      BY <2>1, EntryHasRow DEF Undamaged
    <3>2. j \in Keyed(op.row) => OwnEntry(j) \notin trees[j].entries BY <1>1 DEF RowInv
    <3> QED BY <1>1, <2>1, <3>1, <3>2
  <2>2. EntriesHaveRows /\ cut = {} BY DEF Undamaged
  <2>3. ASSUME NEW j \in Registered, NEW k \in Keys, NEW r \in Ids, <<k, r>> \in trees'[j].entries
        PROVE  HasKey(j, r)' /\ Key(j, rows[r])' = k
    BY <1>1, <2>1, <2>3
  <2> QED BY <1>1, <1>2, <2>2, <2>3 DEF EntriesHaveRows
<1> QED BY <1>3, <1>4, <1>5, <1>6

\* A removed entry is put back.
LEMMA RestoreEntryInv == ASSUME IInv, NEW i \in Indexes, RestoreEntry(i) PROVE IInv'
<1> USE DEF IInv
<1>1. /\ op.pc = "restore" /\ RowInv /\ rows[op.id] = op.row /\ i \in Keyed(op.row) /\ i \in op.done
      /\ UNCHANGED <<tables, indexes, rows, disturbed, cut>>
  BY DEF RestoreEntry, OperationInv, RowInv
<1>2. /\ op' \in Operations /\ op'.pc = "restore" /\ op'.row = op.row /\ op'.id = op.id
      /\ op'.pending = op.pending /\ op'.done = op.done \ {i}
  BY <1>1 DEF RestoreEntry, Undone, TypeOK, Operations
<1>3. i \in Registered /\ OwnEntry(i) \in Keys \X Ids BY <1>1, EntryType DEF RowInv
<1>4. /\ trees' \in [Indexes -> [entries : SUBSET (Keys \X Ids), sound : BOOLEAN]]
      /\ trees'[i].entries = trees[i].entries \cup {OwnEntry(i)} /\ trees'[i].sound = trees[i].sound
      /\ \A j \in Indexes \ {i} : trees'[j] = trees[j]
  <2>1. With(i) \in SUBSET (Keys \X Ids) BY <1>3 DEF With, TypeOK
  <2> QED BY <2>1, UpdatedTree DEF RestoreEntry, With
<1>5. TypeOK' BY <1>1, <1>2, <1>4 DEF TypeOK
<1>6. OperationInv' BY <1>1, <1>2, <1>4 DEF OperationInv, RowInv
<1>7. RowsAreFound'
  <2> SUFFICES ASSUME NEW j \in Registered', NEW r \in Ids, trees'[j].sound, HasKey(j, r)'
               PROVE  EntryOf(j, r)' \in trees'[j].entries \/ <<j, r>> \in cut' \/ Underway(j, r)'
    BY DEF RowsAreFound
  <2> QED BY <1>1, <1>2, <1>4 DEF RowsAreFound, Underway, RowInv
<1>8. ~disturbed' => Undamaged' BY <1>1, <1>2, <1>4, RowStepUndamaged
<1> QED BY <1>5, <1>6, <1>7, <1>8

\* Putting an entry back fails half-way, which is given up.
LEMMA RestoreEntryFailsInv == ASSUME IInv, NEW i \in Indexes, RestoreEntryFails(i) PROVE IInv'
<1> USE DEF IInv
<1>1. /\ op.pc = "restore" /\ RowInv /\ rows[op.id] = op.row /\ i \in Keyed(op.row) /\ i \in op.done
      /\ UNCHANGED <<tables, indexes, rows>> /\ disturbed' = TRUE /\ trees[i].sound
      /\ cut' = cut \cup {<<i, op.id>>} /\ op.id \in Ids
  BY DEF RestoreEntryFails, OperationInv, RowInv, CutShort
<1>2. /\ op' \in Operations /\ op'.pc = "restore" /\ op'.row = op.row /\ op'.id = op.id
      /\ op'.pending = op.pending /\ op'.done = op.done \ {i}
  BY <1>1 DEF RestoreEntryFails, Undone, TypeOK, Operations
<1>3. i \in Registered /\ OwnEntry(i) \in Keys \X Ids BY <1>1, EntryType DEF RowInv
<1>4. /\ trees' \in [Indexes -> [entries : SUBSET (Keys \X Ids), sound : BOOLEAN]]
      /\ trees'[i].sound => \/ trees'[i] = trees[i]
                            \/ trees'[i].entries = trees[i].entries \cup {OwnEntry(i)}
      /\ \A j \in Indexes \ {i} : trees'[j] = trees[j]
  <2>1. With(i) \in SUBSET (Keys \X Ids) BY <1>3 DEF With, TypeOK
  <2> QED BY <2>1, InterruptedTree DEF RestoreEntryFails, With
<1>5. TypeOK' BY <1>1, <1>2, <1>4 DEF TypeOK
<1>6. OperationInv' BY <1>1, <1>2, <1>4 DEF OperationInv, RowInv
<1>7. RowsAreFound'
  <2> SUFFICES ASSUME NEW j \in Registered', NEW r \in Ids, trees'[j].sound, HasKey(j, r)'
               PROVE  EntryOf(j, r)' \in trees'[j].entries \/ <<j, r>> \in cut' \/ Underway(j, r)'
    BY DEF RowsAreFound
  <2> QED BY <1>1, <1>2, <1>4 DEF RowsAreFound, Underway, RowInv
<1> QED BY <1>1, <1>5, <1>6, <1>7

\* A step that is none of an operation on a row, and neither changes a row or a tree
\* nor makes an index: what it takes away harms no other.
LEMMA StepAsideFound ==
  ASSUME IInv, op.pc \notin {"add", "undo", "remove"}, op.pc = "restore" => op.done = {},
         \A j \in Registered' : j \in Registered /\ indexes'[j] = indexes[j] /\ trees'[j] = trees[j],
         \A r \in Ids : rows'[r] \notin {NoRow, Raw} => rows'[r] = rows[r],
         \A j \in Registered', r \in Ids :
           <<j, r>> \in cut => <<j, r>> \in cut' \/ rows'[r] \in {NoRow, Raw}
  PROVE  RowsAreFound'
<1> SUFFICES ASSUME NEW j \in Registered', NEW r \in Ids, trees'[j].sound, HasKey(j, r)'
             PROVE  EntryOf(j, r)' \in trees'[j].entries \/ <<j, r>> \in cut'
  BY DEF RowsAreFound
<1>1. j \in Registered /\ trees[j].sound /\ rows'[r] = rows[r] /\ indexes'[j] = indexes[j]
      /\ trees'[j] = trees[j] /\ HasKey(j, r)
  OBVIOUS
<1>2. EntryOf(j, r) \in trees[j].entries \/ <<j, r>> \in cut \/ Underway(j, r)
  BY <1>1, RowIsFound DEF IInv
<1>3. ~Underway(j, r) BY DEF Underway
<1> QED BY <1>1, <1>2, <1>3

\* Nor does it add an entry, or take a row from one.
LEMMA StepAsideUndamaged ==
  ASSUME IInv, op'.pc \notin {"add", "undo"}, ~disturbed' => ~disturbed, cut = {} => cut' = {},
         ~disturbed' => tables \subseteq tables',
         \A j \in Registered' : j \in Registered /\ indexes'[j] = indexes[j] /\ trees'[j] = trees[j],
         ~disturbed' => \A r \in Ids : rows[r] \notin {NoRow, Raw} => rows'[r] = rows[r]
  PROVE  ~disturbed' => Undamaged'
<1> SUFFICES ASSUME ~disturbed' PROVE EntriesHaveRows' /\ cut' = {} BY DEF Undamaged
<1>1. EntriesHaveRows /\ cut = {} BY DEF IInv, Undamaged
<1>2. ASSUME NEW j \in Registered, NEW k \in Keys, NEW r \in Ids, <<k, r>> \in trees[j].entries
      PROVE  HasKey(j, r) /\ Key(j, rows[r]) = k
  BY <1>1, <1>2, EntryHasRow
<1>3. ASSUME NEW j \in Registered', NEW k \in Keys, NEW r \in Ids, <<k, r>> \in trees'[j].entries
      PROVE  HasKey(j, r)' /\ Key(j, rows[r])' = k
  <2>1. <<k, r>> \in trees[j].entries /\ j \in Registered /\ indexes'[j] = indexes[j] BY <1>3
  <2>2. HasKey(j, r) /\ Key(j, rows[r]) = k BY <1>2, <2>1
  <2> QED BY <2>1, <2>2
<1>4. ASSUME NEW j \in Registered' PROVE indexes'[j].table \in tables' /\ trees'[j].sound
  <2>1. indexes[j].table \in tables /\ trees[j].sound BY <1>1 DEF EntriesHaveRows
  <2> QED BY <2>1
<1>5. cut' = {} BY <1>1
<1> QED BY <1>3, <1>4, <1>5 DEF EntriesHaveRows

\* Everything removed has been put back or given up, or what returned is flushed.
LEMMA ReturnsInv == ASSUME IInv, RestoreReturns \/ Flush PROVE IInv'
<1> USE DEF IInv
<1>1. /\ op.pc \in {"inserted", "erased", "created"} \/ (op.pc = "restore" /\ op.done = {})
      /\ UNCHANGED <<tables, indexes, trees, rows, disturbed, cut>>
  BY DEF RestoreReturns, Flush
<1>2. op' \in Operations /\ op'.pc = "idle" BY Returned DEF RestoreReturns, Flush
<1>3. TypeOK' BY <1>1, <1>2 DEF TypeOK
<1>4. OperationInv' BY <1>2 DEF OperationInv
<1>5. RowsAreFound' BY <1>1, StepAsideFound
<1>6. ~disturbed' => Undamaged' BY <1>1, <1>2, StepAsideUndamaged
<1> QED BY <1>3, <1>4, <1>5, <1>6

-----------------------------------------------------------------------------
\* An index begins to be created with an empty tree, which has no row yet.
LEMMA CreateIndexInv ==
  ASSUME IInv, NEW i \in Indexes, NEW t \in Tables, NEW c \in Columns, CreateIndex(i, t, c)
  PROVE  IInv'
<1> USE DEF IInv
<1>1. PICK todo \in SUBSET Ids :
        /\ todo = ToIndex(t, c)
        /\ op' = [NoOp EXCEPT !.pc = "build", !.index = i, !.table = t, !.column = c, !.todo = todo]
  BY DEF CreateIndex, ToIndex
<1>2. /\ op'.pc = "build" /\ op'.index = i /\ op'.table = t /\ op'.column = c /\ op'.todo = todo
      /\ op' \in Operations
  <2>1. op' = [pc |-> "build", row |-> NoRow, id |-> Null, index |-> i, table |-> t,
               column |-> c, pending |-> {}, done |-> {}, todo |-> todo]
    BY <1>1 DEF NoOp
  <2> QED BY <2>1 DEF Operations, Pcs
<1>3. /\ op.pc = "idle" /\ i \notin Registered /\ t \in tables
      /\ UNCHANGED <<tables, indexes, rows, disturbed, cut>>
  BY DEF CreateIndex
<1>4. /\ trees' \in [Indexes -> [entries : SUBSET (Keys \X Ids), sound : BOOLEAN]]
      /\ trees'[i].entries = {} /\ trees'[i].sound = TRUE
      /\ \A j \in Indexes \ {i} : trees'[j] = trees[j]
  BY OneTree DEF CreateIndex, Sound
<1>5. TypeOK' BY <1>2, <1>3, <1>4 DEF TypeOK
<1>6. OperationInv'
  <2>1. \A r \in Ids : r \notin Built' BY <1>1, <1>2, <1>3 DEF Built, ToIndex
  <2> QED BY <1>1, <1>2, <1>3, <1>4, <2>1 DEF OperationInv, BuildInv, ToIndex
<1>7. RowsAreFound' BY <1>3, <1>4, StepAsideFound
<1>8. ~disturbed' => Undamaged' BY <1>2, <1>3, <1>4, StepAsideUndamaged
<1> QED BY <1>5, <1>6, <1>7, <1>8

\* One more row is put into the new tree.
LEMMA BackfillRowInv == ASSUME IInv, NEW id \in Ids, BackfillRow(id) PROVE IInv'
<1> USE DEF IInv
<1> DEFINE i == op.index
           k == rows[id].values[op.column]
<1>1. /\ op.pc = "build" /\ BuildInv /\ id \in op.todo /\ op.todo \subseteq Ids
      /\ i \in Indexes /\ i \notin Registered
      /\ UNCHANGED <<tables, indexes, rows, disturbed, cut>>
  BY DEF BackfillRow, OperationInv, BuildInv, ToIndex
<1>2. /\ op' \in Operations /\ op'.pc = "build" /\ op'.index = i /\ op'.table = op.table
      /\ op'.column = op.column /\ op'.todo = op.todo \ {id}
  BY <1>1 DEF BackfillRow, TypeOK, Operations
<1>3. IsRow(id, op.table) /\ k \in Keys
  <2>1. IsRow(id, op.table) /\ k # Null /\ op.column \in Columns BY <1>1 DEF BuildInv, ToIndex
  <2>2. rows[id] \in Rows BY <2>1 DEF TypeOK
  <2>3. rows[id].values \in [Columns -> Keys \cup {Null}] BY <2>2
  <2> QED BY <2>1, <2>3
<1>4. /\ trees' \in [Indexes -> [entries : SUBSET (Keys \X Ids), sound : BOOLEAN]]
      /\ trees'[i].entries = trees[i].entries \cup {<<k, id>>} /\ trees'[i].sound = trees[i].sound
      /\ \A j \in Indexes \ {i} : trees'[j] = trees[j]
  <2>1. trees[i].entries \cup {<<k, id>>} \in SUBSET (Keys \X Ids) BY <1>1, <1>3 DEF TypeOK
  <2> QED BY <1>1, <2>1, UpdatedTree DEF BackfillRow
<1>5. TypeOK' BY <1>1, <1>2, <1>4 DEF TypeOK
<1>6. OperationInv'
  <2>1. \A r \in Ids : r \in Built' <=> r \in Built \/ r = id
    BY <1>1, <1>2, <1>3 DEF Built, BuildInv, ToIndex
  <2>2. ASSUME NEW m \in Keys, NEW r \in Ids
        PROVE  <<m, r>> \in trees'[op'.index].entries
                 <=> r \in Built' /\ rows'[r].values[op'.column] = m
    <3>1. <<m, r>> \in trees'[i].entries <=> <<m, r>> \in trees[i].entries \/ (m = k /\ r = id)
      BY <1>4
    <3>2. <<m, r>> \in trees[i].entries <=> r \in Built /\ rows[r].values[op.column] = m
      BY <1>1 DEF BuildInv
    <3> QED BY <1>1, <1>2, <2>1, <3>1, <3>2
  <2>3. (op.todo \subseteq ToIndex(op.table, op.column))' BY <1>1, <1>2 DEF BuildInv, ToIndex
  <2>4. op.table \in tables /\ op.column \in Columns /\ trees[i].sound BY <1>1 DEF BuildInv
  <2>5. op'.index \notin Registered' BY <1>1, <1>2
  <2>6. BuildInv' BY <1>1, <1>2, <1>4, <2>2, <2>3, <2>4, <2>5 DEF BuildInv
  <2> QED BY <1>2, <2>6 DEF OperationInv
<1>7. RowsAreFound' BY <1>1, <1>4, StepAsideFound
<1>8. ~disturbed' => Undamaged' BY <1>1, <1>2, <1>4, StepAsideUndamaged
<1> QED BY <1>5, <1>6, <1>7, <1>8

\* The catalog entry is made when every row with a key is in the tree.
LEMMA RegisterInv == ASSUME IInv, Register PROVE IInv'
<1> USE DEF IInv
<1> DEFINE i == op.index
           definition == [table |-> op.table, column |-> op.column]
<1>1. /\ op.pc = "build" /\ BuildInv /\ op.todo = {} /\ i \in Indexes /\ i \notin Registered
      /\ op.table \in tables /\ op.table \in Tables /\ op.column \in Columns /\ trees[i].sound
      /\ UNCHANGED <<tables, trees, rows, disturbed, cut>>
  BY DEF Register, OperationInv, BuildInv, TypeOK
<1>2. /\ op' \in Operations /\ op'.pc = "created" /\ op'.index = i
  BY DEF Register, Goto, TypeOK, Operations, Pcs
<1>3. /\ indexes' \in [Indexes -> [table : Tables, column : Columns] \cup {NoIndex}]
      /\ indexes'[i].table = op.table /\ indexes'[i].column = op.column
      /\ \A j \in Indexes \ {i} : indexes'[j] = indexes[j]
  BY <1>1 DEF Register, SetIndex, TypeOK
<1>4. \A j \in Registered' : j = i \/ (j \in Registered /\ indexes'[j] = indexes[j]) BY <1>3
<1>5. \A k \in Keys, r \in Ids :
        <<k, r>> \in trees[i].entries <=> IsRow(r, op.table) /\ rows[r].values[op.column] = k
  <2> SUFFICES ASSUME NEW k \in Keys, NEW r \in Ids
               PROVE  <<k, r>> \in trees[i].entries
                        <=> IsRow(r, op.table) /\ rows[r].values[op.column] = k
    OBVIOUS
  <2>1. <<k, r>> \in trees[i].entries <=> r \in Built /\ rows[r].values[op.column] = k
    BY <1>1 DEF BuildInv
  <2>2. k # Null OBVIOUS
  <2> QED BY <1>1, <2>1, <2>2 DEF Built
<1>6. TypeOK' BY <1>1, <1>2, <1>3 DEF TypeOK
<1>7. OperationInv' BY <1>1, <1>2 DEF OperationInv
<1>8. RowsAreFound'
  <2> SUFFICES ASSUME NEW j \in Registered', NEW r \in Ids, trees'[j].sound, HasKey(j, r)'
               PROVE  EntryOf(j, r)' \in trees'[j].entries \/ <<j, r>> \in cut'
    BY DEF RowsAreFound
  <2>1. CASE j = i
    <3>1. IsRow(r, op.table) /\ rows[r].values[op.column] # Null BY <1>1, <1>3, <2>1
    <3>2. rows[r] \in Rows /\ op.column \in Columns BY <1>1, <3>1 DEF TypeOK
    <3>3. rows[r].values \in [Columns -> Keys \cup {Null}] BY <3>2
    <3>4. rows[r].values[op.column] \in Keys BY <3>1, <3>2, <3>3
    <3> QED BY <1>1, <1>3, <1>5, <2>1, <3>1, <3>4
  <2>2. CASE j # i
    <3>1. j \in Registered /\ trees[j].sound /\ HasKey(j, r) BY <1>1, <1>4, <2>2
    <3>2. ~Underway(j, r) BY <1>1 DEF Underway
    <3>3. EntryOf(j, r) \in trees[j].entries \/ <<j, r>> \in cut
      BY <3>1, <3>2, RowIsFound
    <3> QED BY <1>1, <1>4, <2>2, <3>3
  <2> QED BY <2>1, <2>2
<1>9. ~disturbed' => Undamaged'
  <2> SUFFICES ASSUME ~disturbed PROVE EntriesHaveRows' /\ cut' = {} BY <1>1 DEF Undamaged
  <2>1. EntriesHaveRows /\ cut = {} BY DEF Undamaged
  <2>2. ASSUME NEW j \in Registered', NEW k \in Keys, NEW r \in Ids, <<k, r>> \in trees'[j].entries
        PROVE  HasKey(j, r)' /\ Key(j, rows[r])' = k
    <3>1. CASE j = i BY <1>1, <1>3, <1>5, <2>2, <3>1
    <3>2. CASE j # i
      <4>1. j \in Registered /\ indexes'[j] = indexes[j] BY <1>4, <3>2
      <4>2. HasKey(j, r) /\ Key(j, rows[r]) = k
        BY <1>1, <2>1, <2>2, <4>1, EntryHasRow
      <4> QED BY <1>1, <4>1, <4>2
    <3> QED BY <3>1, <3>2
  <2>3. ASSUME NEW j \in Registered' PROVE indexes'[j].table \in tables' /\ trees'[j].sound
    <3>1. CASE j = i BY <1>1, <1>3, <3>1
    <3>2. CASE j # i
      <4>1. j \in Registered /\ indexes'[j] = indexes[j] BY <1>4, <3>2
      <4>2. indexes[j].table \in tables /\ trees[j].sound BY <2>1, <4>1 DEF EntriesHaveRows
      <4> QED BY <1>1, <4>1, <4>2
    <3> QED BY <3>1, <3>2
  <2> QED BY <1>1, <1>2, <2>1, <2>2, <2>3 DEF EntriesHaveRows
<1> QED BY <1>6, <1>7, <1>8, <1>9

\* What was built for an index that is given up belongs to no index.
LEMMA CreateIndexFailsInv == ASSUME IInv, CreateIndexFails PROVE IInv'
<1> USE DEF IInv
<1>1. /\ op.pc = "build" /\ op.index \in Indexes /\ op.index \notin Registered
      /\ UNCHANGED <<tables, indexes, rows, disturbed, cut>>
  BY DEF CreateIndexFails, OperationInv, BuildInv
<1>2. op' \in Operations /\ op'.pc = "idle" BY Returned DEF CreateIndexFails
<1>3. /\ trees' \in [Indexes -> [entries : SUBSET (Keys \X Ids), sound : BOOLEAN]]
      /\ \A j \in Indexes \ {op.index} : trees'[j] = trees[j]
  BY <1>1, OneTree DEF CreateIndexFails, Sound
<1>4. TypeOK' BY <1>1, <1>2, <1>3 DEF TypeOK
<1>5. OperationInv' BY <1>2 DEF OperationInv
<1>6. RowsAreFound' BY <1>1, <1>3, StepAsideFound
<1>7. ~disturbed' => Undamaged' BY <1>1, <1>2, <1>3, StepAsideUndamaged
<1> QED BY <1>4, <1>5, <1>6, <1>7

\* A tree registered without its rows has all of them marked as cut short.
LEMMA RegisterTreeInv ==
  ASSUME IInv, NEW i \in Indexes, NEW t \in Tables, NEW c \in Columns, RegisterTree(i, t, c)
  PROVE  IInv'
<1> USE DEF IInv
<1>1. /\ op.pc = "idle" /\ UNCHANGED <<tables, rows, op>>
      /\ disturbed' = TRUE /\ cut' = cut \cup ({i} \X RowIds)
  BY DEF RegisterTree, CutShort
<1>2. /\ indexes' \in [Indexes -> [table : Tables, column : Columns] \cup {NoIndex}]
      /\ \A j \in Indexes \ {i} : indexes'[j] = indexes[j]
  BY DEF RegisterTree, SetIndex, TypeOK
<1>3. /\ trees' \in [Indexes -> [entries : SUBSET (Keys \X Ids), sound : BOOLEAN]]
      /\ \A j \in Indexes \ {i} : trees'[j] = trees[j]
  BY OneTree DEF RegisterTree, Sound
<1>4. TypeOK' BY <1>1, <1>2, <1>3 DEF TypeOK, RowIds
<1>5. OperationInv' BY <1>1 DEF OperationInv
<1>6. RowsAreFound'
  <2> SUFFICES ASSUME NEW j \in Registered', NEW r \in Ids, trees'[j].sound, HasKey(j, r)'
               PROVE  EntryOf(j, r)' \in trees'[j].entries \/ <<j, r>> \in cut'
    BY DEF RowsAreFound
  <2>1. CASE j = i BY <1>1, <2>1 DEF RowIds
  <2>2. CASE j # i
    <3>1. j \in Registered /\ trees[j].sound /\ HasKey(j, r) /\ indexes'[j] = indexes[j]
      BY <1>1, <1>2, <1>3, <2>2
    <3>2. ~Underway(j, r) BY <1>1 DEF Underway
    <3>3. EntryOf(j, r) \in trees[j].entries \/ <<j, r>> \in cut
      BY <3>1, <3>2, RowIsFound
    <3> QED BY <1>1, <1>3, <2>2, <3>1, <3>3
  <2> QED BY <2>1, <2>2
<1> QED BY <1>1, <1>4, <1>5, <1>6

-----------------------------------------------------------------------------
\* After a crash a tree is as the operation has it, as it was before, or does not open.
LEMMA CrashedTrees ==
  ASSUME TypeOK, NEW before \in [op.done -> SUBSET (Keys \X Ids)], CrashTrees(before)
  PROVE  /\ trees' \in [Indexes -> [entries : SUBSET (Keys \X Ids), sound : BOOLEAN]]
         /\ \A j \in Indexes : trees'[j].sound =>
              \/ trees'[j] = trees[j]
              \/ j \in op.done /\ trees'[j].entries = before[j]
<1>1. PICK old \in SUBSET op.done : \E broken \in SUBSET (op.done \ old) :
        trees' = [j \in Indexes |-> CASE j \in old -> Sound(before[j])
                                      [] j \in broken -> Broken
                                      [] OTHER -> trees[j]]
  BY DEF CrashTrees
<1>2. PICK broken \in SUBSET (op.done \ old) :
        trees' = [j \in Indexes |-> CASE j \in old -> Sound(before[j])
                                      [] j \in broken -> Broken
                                      [] OTHER -> trees[j]]
  BY <1>1
<1>3. ASSUME NEW j \in Indexes
      PROVE  /\ trees'[j] \in [entries : SUBSET (Keys \X Ids), sound : BOOLEAN]
             /\ \/ trees'[j] = trees[j]
                \/ trees'[j] = Broken
                \/ (j \in op.done /\ trees'[j] = Sound(before[j]))
  <2>1. CASE j \in old
    <3>1. trees'[j] = Sound(before[j]) /\ j \in op.done BY <1>2, <2>1
    <3>2. before[j] \in SUBSET (Keys \X Ids) BY <3>1
    <3> QED BY <3>1, <3>2 DEF Sound
  <2>2. CASE j \in broken
    <3>1. trees'[j] = Broken BY <1>2, <2>2
    <3> QED BY <3>1 DEF Broken
  <2>3. CASE j \notin old \cup broken
    <3>1. trees'[j] = trees[j] BY <1>2, <2>3
    <3> QED BY <3>1 DEF TypeOK
  <2> QED BY <2>1, <2>2, <2>3
<1>4. trees' = [j \in Indexes |-> trees'[j]] BY <1>2
<1>5. trees' \in [Indexes -> [entries : SUBSET (Keys \X Ids), sound : BOOLEAN]] BY <1>3, <1>4
<1>6. ASSUME NEW j \in Indexes, trees'[j].sound
      PROVE  trees'[j] = trees[j] \/ (j \in op.done /\ trees'[j].entries = before[j])
  <2>1. trees'[j] # Broken BY <1>6 DEF Broken
  <2>2. CASE j \in op.done /\ trees'[j] = Sound(before[j]) BY <2>2 DEF Sound
  <2> QED BY <1>3, <2>1, <2>2
<1> QED BY <1>5, <1>6

\* A crash loses at most entries of the operation's row, all of which it marks.
LEMMA CrashOnRow ==
  ASSUME IInv, RowInv, op.pc \in {"add", "inserted", "remove", "erased"},
         NEW before \in [op.done -> SUBSET (Keys \X Ids)], CrashTrees(before),
         \A j \in op.done : trees[j].entries \ {OwnEntry(j)} \subseteq before[j],
         NEW record \in Rows \cup {NoRow}, record \in {NoRow, op.row},
         rows' = [rows EXCEPT ![op.id] = record],
         CutShort(OwnPairs), Return, UNCHANGED <<tables, indexes>>
  PROVE  IInv'
<1> USE DEF IInv
<1>1. /\ trees' \in [Indexes -> [entries : SUBSET (Keys \X Ids), sound : BOOLEAN]]
      /\ \A j \in Indexes : trees'[j].sound =>
           \/ trees'[j] = trees[j]
           \/ j \in op.done /\ trees'[j].entries = before[j]
  BY CrashedTrees
<1>2. /\ disturbed' = TRUE /\ cut' = cut \cup OwnPairs /\ op.id \in Ids /\ op.row \in Rows
      /\ rows' \in [Ids -> Rows \cup {NoRow, Raw}] /\ rows'[op.id] = record
      /\ \A r \in Ids \ {op.id} : rows'[r] = rows[r]
  BY DEF CutShort, RowInv, TypeOK
<1>3. op' \in Operations /\ op'.pc = "idle" BY Returned
<1>4. TypeOK' BY <1>1, <1>2, <1>3 DEF TypeOK, OwnPairs
<1>5. OperationInv' BY <1>3 DEF OperationInv
<1>6. RowsAreFound'
  <2> SUFFICES ASSUME NEW j \in Registered', NEW r \in Ids, trees'[j].sound, HasKey(j, r)'
               PROVE  EntryOf(j, r)' \in trees'[j].entries \/ <<j, r>> \in cut'
    BY DEF RowsAreFound
  <2>1. CASE r = op.id
    <3>1. rows'[r] = op.row BY <1>2, <2>1
    <3>2. j \in Owned(op.row.table) BY <3>1
    <3> QED BY <1>2, <2>1, <3>2 DEF OwnPairs
  <2>2. CASE r # op.id
    <3>1. j \in Registered /\ rows'[r] = rows[r] /\ HasKey(j, r) BY <1>2, <2>2
    <3>2. EntryOf(j, r) = EntryOf(j, r)' /\ EntryOf(j, r) # OwnEntry(j) BY <2>2, <3>1
    <3>3. ~Underway(j, r) BY <2>2 DEF Underway
    <3>4. trees[j].sound BY <1>1, <3>1 DEF RowInv
    <3>5. EntryOf(j, r) \in trees[j].entries \/ <<j, r>> \in cut
      BY <3>1, <3>3, <3>4, RowIsFound
    <3>6. trees'[j] = trees[j] \/ (j \in op.done /\ trees'[j].entries = before[j]) BY <1>1, <3>1
    <3> QED BY <1>2, <3>2, <3>5, <3>6
  <2> QED BY <2>1, <2>2
<1> QED BY <1>2, <1>4, <1>5, <1>6

\* A crash in an insertion takes entries away.
LEMMA CrashInInsertInv == ASSUME IInv, CrashInInsert PROVE IInv'
<1> USE DEF IInv
<1>1. /\ op.pc \in {"add", "inserted"} /\ RowInv /\ op.done \subseteq Keyed(op.row)
      /\ op.row \in Rows /\ op.id \in Ids
  BY DEF CrashInInsert, OperationInv, RowInv
<1> DEFINE before == [i \in op.done |-> Without(i)]
<1>2. \A j \in op.done : before[j] = trees[j].entries \ {OwnEntry(j)} BY DEF Without
<1>3. before \in [op.done -> SUBSET (Keys \X Ids)]
  <2>1. \A j \in op.done : Without(j) \in SUBSET (Keys \X Ids) BY <1>1 DEF Without, TypeOK
  <2> QED BY <2>1
<1>4. PICK record \in {NoRow, op.row} : rows' = [rows EXCEPT ![op.id] = record]
  BY DEF CrashInInsert
<1>5. record \in Rows \cup {NoRow} BY <1>1, <1>4
<1>6. CrashTrees(before) /\ CutShort(OwnPairs) /\ Return /\ UNCHANGED <<tables, indexes>>
  BY DEF CrashInInsert
<1> HIDE DEF before, IInv
<1> QED BY <1>1, <1>2, <1>3, <1>4, <1>5, <1>6, CrashOnRow

\* A crash in a deletion brings entries back.
LEMMA CrashInEraseInv == ASSUME IInv, CrashInErase PROVE IInv'
<1> USE DEF IInv
<1>1. /\ op.pc \in {"remove", "erased"} /\ RowInv /\ op.done \subseteq Keyed(op.row)
      /\ op.row \in Rows /\ op.id \in Ids /\ rows[op.id] \in {NoRow, op.row}
  BY DEF CrashInErase, OperationInv, RowInv
<1> DEFINE before == [i \in op.done |-> With(i)]
<1>2. \A j \in op.done : before[j] = trees[j].entries \cup {OwnEntry(j)} BY DEF With
<1>3. before \in [op.done -> SUBSET (Keys \X Ids)]
  <2>1. ASSUME NEW j \in op.done PROVE With(j) \in SUBSET (Keys \X Ids)
    <3>1. OwnEntry(j) \in Keys \X Ids /\ j \in Indexes BY <1>1, EntryType
    <3> QED BY <3>1 DEF With, TypeOK
  <2> QED BY <2>1
<1>4. PICK record \in {NoRow, op.row} : rows' = [rows EXCEPT ![op.id] = record]
  BY <1>1 DEF CrashInErase
<1>5. record \in Rows \cup {NoRow} BY <1>1, <1>4
<1>6. CrashTrees(before) /\ CutShort(OwnPairs) /\ Return /\ UNCHANGED <<tables, indexes>>
  BY DEF CrashInErase
<1> HIDE DEF before, IInv
<1> QED BY <1>1, <1>2, <1>3, <1>4, <1>5, <1>6, CrashOnRow

\* After a crash on its creation an index is gone, or any part of its rows is marked.
LEMMA CrashInCreateIndexInv == ASSUME IInv, CrashInCreateIndex PROVE IInv'
<1> USE DEF IInv
<1> DEFINE i == op.index
<1>1. op.pc = "created" /\ i \in Indexes /\ UNCHANGED <<tables, rows>>
  BY DEF CrashInCreateIndex, OperationInv
<1>2. op' \in Operations /\ op'.pc = "idle" BY Returned DEF CrashInCreateIndex
<1>3. OperationInv' BY <1>2 DEF OperationInv
<1>4. CASE SetTree(i, Sound({})) /\ SetIndex(i, NoIndex) /\ UNCHANGED history
  <2>1. /\ trees' \in [Indexes -> [entries : SUBSET (Keys \X Ids), sound : BOOLEAN]]
        /\ \A j \in Indexes \ {i} : trees'[j] = trees[j]
    BY <1>1, <1>4, OneTree DEF Sound
  <2>2. /\ indexes' \in [Indexes -> [table : Tables, column : Columns] \cup {NoIndex}]
        /\ indexes'[i] = NoIndex /\ \A j \in Indexes \ {i} : indexes'[j] = indexes[j]
    BY <1>1, <1>4 DEF SetIndex, TypeOK
  <2>3. TypeOK' BY <1>1, <1>2, <1>4, <2>1, <2>2 DEF TypeOK
  <2>4. RowsAreFound' BY <1>1, <1>4, <2>1, <2>2, StepAsideFound
  <2>5. ~disturbed' => Undamaged' BY <1>1, <1>2, <1>4, <2>1, <2>2, StepAsideUndamaged
  <2> QED BY <1>3, <2>3, <2>4, <2>5
<1>5. CASE /\ \E left \in {Sound(part) : part \in SUBSET trees[i].entries} \cup {Broken} : SetTree(i, left)
           /\ CutShort({i} \X RowIds) /\ UNCHANGED indexes
  <2>1. /\ trees' \in [Indexes -> [entries : SUBSET (Keys \X Ids), sound : BOOLEAN]]
        /\ \A j \in Indexes \ {i} : trees'[j] = trees[j]
    <3>1. PICK left \in {Sound(part) : part \in SUBSET trees[i].entries} \cup {Broken} : SetTree(i, left)
      BY <1>5
    <3>2. CASE left = Broken BY <1>1, <3>1, <3>2, OneTree DEF Broken
    <3>3. CASE left \in {Sound(part) : part \in SUBSET trees[i].entries}
      <4>1. PICK part \in SUBSET trees[i].entries : left = Sound(part) BY <3>3
      <4>2. part \in SUBSET (Keys \X Ids) BY <1>1, <4>1 DEF TypeOK
      <4> QED BY <1>1, <3>1, <4>1, <4>2, OneTree DEF Sound
    <3> QED BY <3>1, <3>2, <3>3
  <2>2. disturbed' = TRUE /\ cut' = cut \cup ({i} \X RowIds) BY <1>5 DEF CutShort
  <2>3. TypeOK' BY <1>1, <1>2, <1>5, <2>1, <2>2 DEF TypeOK, RowIds
  <2>4. RowsAreFound'
    <3> SUFFICES ASSUME NEW j \in Registered', NEW r \in Ids, trees'[j].sound, HasKey(j, r)'
                 PROVE  EntryOf(j, r)' \in trees'[j].entries \/ <<j, r>> \in cut'
      BY DEF RowsAreFound
    <3>1. CASE j = i BY <1>1, <2>2, <3>1 DEF RowIds
    <3>2. CASE j # i
      <4>1. j \in Registered /\ trees[j].sound /\ HasKey(j, r) BY <1>1, <1>5, <2>1, <3>2
      <4>2. ~Underway(j, r) BY <1>1 DEF Underway
      <4>3. EntryOf(j, r) \in trees[j].entries \/ <<j, r>> \in cut
        BY <4>1, <4>2, RowIsFound
      <4> QED BY <1>1, <1>5, <2>1, <2>2, <3>2, <4>3
    <3> QED BY <3>1, <3>2
  <2> QED BY <1>3, <2>2, <2>3, <2>4
<1> QED BY <1>4, <1>5 DEF CrashInCreateIndex

-----------------------------------------------------------------------------
\* A table more, which no index is on yet.
LEMMA CreateTableInv == ASSUME IInv, NEW t \in Tables, CreateTable(t) PROVE IInv'
<1> USE DEF IInv
<1>1. /\ op.pc = "idle" /\ tables' = tables \cup {t}
      /\ UNCHANGED <<indexes, trees, rows, op, disturbed, cut>>
  BY DEF CreateTable
<1>2. TypeOK' BY <1>1 DEF TypeOK
<1>3. OperationInv' BY <1>1 DEF OperationInv
<1>4. RowsAreFound' BY <1>1, StepAsideFound
<1>5. ~disturbed' => Undamaged' BY <1>1, StepAsideUndamaged
<1> QED BY <1>2, <1>3, <1>4, <1>5

\* A record that is no row comes or goes, or a row goes behind the back of its indexes.
LEMMA PutOrEraseRecordInv ==
  ASSUME IInv, NEW id \in Ids, Put(id) \/ EraseRecord(id) PROVE IInv'
<1> USE DEF IInv
<1>1. /\ op.pc = "idle" /\ UNCHANGED <<tables, indexes, trees, op>>
      /\ disturbed' \in BOOLEAN /\ (~disturbed' => ~disturbed)
      /\ rows' \in [Ids -> Rows \cup {NoRow, Raw}] /\ cut' = cut \ (Indexes \X {id})
      /\ rows'[id] \in {NoRow, Raw} /\ \A r \in Ids \ {id} : rows'[r] = rows[r]
      /\ ~disturbed' => rows[id] \in {NoRow, Raw}
  BY DEF Put, EraseRecord, SetRow, TypeOK
<1>2. TypeOK' BY <1>1 DEF TypeOK
<1>3. OperationInv' BY <1>1 DEF OperationInv
<1>4. RowsAreFound' BY <1>1, StepAsideFound
<1>5. ~disturbed' => Undamaged' BY <1>1, StepAsideUndamaged
<1> QED BY <1>2, <1>3, <1>4, <1>5

\* A table definition erased while an index needs it makes the catalog unreadable.
LEMMA EraseTableRecordInv == ASSUME IInv, NEW t \in Tables, EraseTableRecord(t) PROVE IInv'
<1> USE DEF IInv
<1>1. /\ op.pc = "idle" /\ tables' = tables \ {t}
      /\ UNCHANGED <<indexes, trees, rows, op, cut>>
      /\ disturbed' \in BOOLEAN /\ (~disturbed' => ~disturbed /\ Owned(t) = {})
  BY DEF EraseTableRecord, TypeOK
<1>2. TypeOK' BY <1>1 DEF TypeOK
<1>3. OperationInv' BY <1>1 DEF OperationInv
<1>4. RowsAreFound' BY <1>1, StepAsideFound
<1>5. ~disturbed' => Undamaged'
  <2> SUFFICES ASSUME ~disturbed' PROVE EntriesHaveRows' /\ cut' = {} BY DEF Undamaged
  <2>1. EntriesHaveRows /\ cut = {} BY <1>1 DEF Undamaged
  <2>2. ASSUME NEW j \in Registered, NEW k \in Keys, NEW r \in Ids, <<k, r>> \in trees[j].entries
        PROVE  HasKey(j, r) /\ Key(j, rows[r]) = k
    BY <2>1, <2>2, EntryHasRow
  <2>3. ASSUME NEW j \in Registered', NEW k \in Keys, NEW r \in Ids, <<k, r>> \in trees'[j].entries
        PROVE  HasKey(j, r)' /\ Key(j, rows[r])' = k
    BY <1>1, <2>2, <2>3
  <2>4. ASSUME NEW j \in Registered' PROVE indexes'[j].table \in tables' /\ trees'[j].sound
    <3>1. indexes[j].table \in tables /\ trees[j].sound BY <1>1, <2>1 DEF EntriesHaveRows
    <3> QED BY <1>1, <3>1
  <2> QED BY <1>1, <2>1, <2>3, <2>4 DEF EntriesHaveRows
<1> QED BY <1>2, <1>3, <1>4, <1>5

\* An index definition erased takes its tree with it.
LEMMA EraseIndexRecordInv == ASSUME IInv, NEW i \in Indexes, EraseIndexRecord(i) PROVE IInv'
<1> USE DEF IInv
<1>1. /\ op.pc = "idle" /\ cut' = cut \ ({i} \X Ids) /\ UNCHANGED <<tables, rows, op, disturbed>>
  BY DEF EraseIndexRecord
<1>2. /\ trees' \in [Indexes -> [entries : SUBSET (Keys \X Ids), sound : BOOLEAN]]
      /\ \A j \in Indexes \ {i} : trees'[j] = trees[j]
  BY OneTree DEF EraseIndexRecord, Sound
<1>3. /\ indexes' \in [Indexes -> [table : Tables, column : Columns] \cup {NoIndex}]
      /\ indexes'[i] = NoIndex /\ \A j \in Indexes \ {i} : indexes'[j] = indexes[j]
  BY DEF EraseIndexRecord, SetIndex, TypeOK
<1>4. TypeOK' BY <1>1, <1>2, <1>3 DEF TypeOK
<1>5. OperationInv' BY <1>1 DEF OperationInv
<1>6. RowsAreFound' BY <1>1, <1>2, <1>3, StepAsideFound
<1>7. ~disturbed' => Undamaged' BY <1>1, <1>2, <1>3, StepAsideUndamaged
<1> QED BY <1>4, <1>5, <1>6, <1>7

-----------------------------------------------------------------------------
\* Every step preserves the invariant.
LEMMA NextIInv == ASSUME IInv, [Next]_vars PROVE IInv'
<1>1. CASE UNCHANGED vars
  <2>1. /\ UNCHANGED <<tables, indexes, trees, rows, op, disturbed, cut>> BY <1>1 DEF vars
  <2> QED
    BY <2>1 DEF IInv, TypeOK, OperationInv, RowInv, BuildInv, Built, ToIndex, RowsAreFound,
                Underway, Undamaged, EntriesHaveRows
<1>2. CASE \E t \in Tables : CreateTable(t) BY <1>2, CreateTableInv
<1>3. CASE OperationStarts
  BY <1>3, EraseInv, InsertRowInv, CreateIndexInv, RegisterTreeInv DEF OperationStarts
<1>4. CASE OperationGoesOn
  BY <1>4, AddEntryInv, InsertTurnsInv, AddEntryFailsInv, UndoEntryInv, UndoEntryFailsInv,
     RemoveEntryInv, RestoreBeginsInv, RemoveEntryFailsInv, RestoreEntryInv,
     RestoreEntryFailsInv, UndoRowInv, UndoRowFailsInv, EraseRowInv, ReturnsInv,
     BackfillRowInv, RegisterInv, CreateIndexFailsInv
     DEF OperationGoesOn
<1>5. CASE Flush BY <1>5, ReturnsInv
<1>6. CASE Crash BY <1>6, CrashInInsertInv, CrashInEraseInv, CrashInCreateIndexInv DEF Crash
<1>7. CASE RawCommand
  BY <1>7, PutOrEraseRecordInv, EraseTableRecordInv, EraseIndexRecordInv DEF RawCommand
<1> QED BY <1>1, <1>2, <1>3, <1>4, <1>5, <1>6, <1>7 DEF Next

\* The invariant holds whatever operations succeed, fail or are lost in a crash.
THEOREM Invariance == Spec => []IInv
<1> QED BY InitIInv, NextIInv, PTL DEF Spec

\* Every variable keeps its type: no entry without a key, no index on a missing column.
THEOREM TypeCorrect == Spec => []TypeOK
<1>1. IInv => TypeOK BY DEF IInv
<1> QED BY <1>1, Invariance, PTL

\* Lookups and scans agree between operations as long as nothing has failed.
THEOREM LookupsCorrect == Spec => []LookupsMatchScans
<1>1. IInv => LookupsMatchScans
  <2> SUFFICES ASSUME IInv, op.pc = "idle", ~disturbed, NEW i \in Registered, NEW k \in Keys
               PROVE  /\ ~LookupThrows(i, k)
                      /\ Hits(i, k) = Scan(indexes[i].table, indexes[i].column, k)
    BY DEF LookupsMatchScans
  <2>1. cut = {} /\ EntriesHaveRows BY DEF IInv, Undamaged
  <2>2. \A j \in Registered : indexes[j].table \in tables /\ trees[j].sound
    BY <2>1 DEF EntriesHaveRows
  <2>3. ASSUME NEW id \in Ids, <<k, id>> \in trees[i].entries
        PROVE  HasKey(i, id) /\ Key(i, rows[id]) = k
    BY <2>1, <2>3, EntryHasRow
  <2>4. ASSUME NEW id \in Ids, IsRow(id, indexes[i].table), Key(i, rows[id]) = k
        PROVE  <<k, id>> \in trees[i].entries
    <3>1. HasKey(i, id) BY <2>4
    <3>2. ~Underway(i, id) BY DEF Underway
    <3>3. EntryOf(i, id) \in trees[i].entries
      BY <2>1, <2>2, <3>1, <3>2, RowIsFound DEF IInv
    <3> QED BY <2>4, <3>3
  <2>5. ~LookupThrows(i, k) BY <2>2, <2>3 DEF LookupThrows, CatalogReads, Hits, Checks
  <2> QED BY <2>3, <2>4, <2>5 DEF Hits, Scan
<1> QED BY <1>1, Invariance, PTL

\* After any damage a lookup throws, or returns what a scan returns but for rows whose own
\* writing was cut short.
THEOREM DamageCorrect == Spec => []DamageIsContained
<1>1. IInv => DamageIsContained
  <2> SUFFICES ASSUME IInv, op.pc = "idle", NEW i \in Registered, NEW k \in Keys,
                      ~LookupThrows(i, k)
               PROVE  LET found == Hits(i, k)
                          scanned == Scan(indexes[i].table, indexes[i].column, k)
                      IN found \subseteq scanned /\ \A id \in scanned \ found : <<i, id>> \in cut
    BY DEF DamageIsContained
  <2>1. trees[i].sound /\ \A id \in Hits(i, k) : Checks(i, k, id) BY DEF LookupThrows
  <2>2. ASSUME NEW id \in Ids, IsRow(id, indexes[i].table), Key(i, rows[id]) = k
        PROVE  <<k, id>> \in trees[i].entries \/ <<i, id>> \in cut
    <3>1. HasKey(i, id) BY <2>2
    <3>2. ~Underway(i, id) BY DEF Underway
    <3>3. EntryOf(i, id) \in trees[i].entries \/ <<i, id>> \in cut
      BY <2>1, <3>1, <3>2, RowIsFound DEF IInv
    <3> QED BY <2>2, <3>3
  <2>3. \A id \in Hits(i, k) : id \in Scan(indexes[i].table, indexes[i].column, k)
    BY <2>1 DEF Hits, Checks, Scan
  <2>4. \A id \in Scan(indexes[i].table, indexes[i].column, k) :
          id \in Hits(i, k) \/ <<i, id>> \in cut
    BY <2>2 DEF Hits, Scan
  <2> QED BY <2>3, <2>4
<1> QED BY <1>1, Invariance, PTL

\* An insertion or deletion returns only when it is done in every index of the table.
THEOREM CompletionCorrect == Spec => CompletedWritesAreIndexed
<1>1. ASSUME IInv, [Next]_vars
      PROVE  /\ InsertReturns => \A i \in Keyed(op.row) :
                                   trees[i].sound /\ OwnEntry(i) \in trees[i].entries
             /\ EraseRow => \A i \in Keyed(op.row) :
                              trees[i].sound /\ OwnEntry(i) \notin trees[i].entries
  BY <1>1 DEF IInv, OperationInv, RowInv, InsertReturns, EraseRow
<1>2. IInv /\ [Next]_vars =>
        [/\ InsertReturns => \A i \in Keyed(op.row) :
                               trees[i].sound /\ OwnEntry(i) \in trees[i].entries
         /\ EraseRow => \A i \in Keyed(op.row) :
                          trees[i].sound /\ OwnEntry(i) \notin trees[i].entries]_vars
  BY <1>1
<1> QED BY <1>2, Invariance, PTL DEF Spec, CompletedWritesAreIndexed
=============================================================================
