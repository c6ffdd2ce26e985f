------------------------------ MODULE TableStore ------------------------------
(***************************************************************************)
(* Typed tables and their indexes (src/table_store.cpp over                *)
(* src/catalog.cpp): a row is a record of its own, and every index of its  *)
(* table with a key in it has an entry for it in its B+ tree.  An          *)
(* operation writes row and entries one after the other; when one of them  *)
(* is refused or fails it takes back what it has done, and what fails then *)
(* is given up; the process goes on.  An operation that returns is flushed *)
(* before the next one starts (src/cli.cpp), and a crash before that keeps *)
(* any of its changes.  The raw commands erase rows and catalog entries    *)
(* without regard to indexes.                                              *)
(*                                                                         *)
(* A B+ tree is the set of its entries (BPlusTree.tla); an operation on it *)
(* that fails half-way leaves the entries it had or was to have, or a tree *)
(* that no longer opens (BPlusTreeCrash.tla).  A record id is named by what *)
(* it identifies, and the record store gives a new row any id no record    *)
(* has (RecordStore.tla).  Names are taken case-folded, as the catalog     *)
(* compares them; columns are the integer ones.                            *)
(***************************************************************************)
CONSTANTS
  Tables, Columns, Indexes,  \* names
  Keys,                      \* integers
  Null,                      \* the null value, and no name
  Values,                    \* values of a row
  Ids,                       \* record ids of rows
  NoRow, Raw,                \* no record; a record that is no row
  NoIndex                    \* a name the catalog does not have

ASSUME ValuesAssumption == Null \notin Keys
ASSUME RowsAssumption == /\ Values \subseteq [Columns -> Keys \cup {Null}]
                         /\ {NoRow, Raw} \cap [table : Tables, values : Values] = {}
ASSUME IndexesAssumption == NoIndex \notin [table : Tables, column : Columns]

VARIABLES
  tables,   \* tables the catalog has
  indexes,  \* indexes[i]: table and column of index i in the catalog
  trees,    \* trees[i]: entries of the tree of index i, and whether it opens
  rows,     \* rows[id]: the row or raw record with this record id
  op,       \* the operation in progress and its local variables
  disturbed,\* a write has failed, a crash has come, a record in use was erased
  cut       \* <<i, id>>: what was to put row id into index i, or take it out, was cut short

vars == <<tables, indexes, trees, rows, op, disturbed, cut>>
history == <<disturbed, cut>>

Sound(entries) == [entries |-> entries, sound |-> TRUE]
Broken == [entries |-> {}, sound |-> FALSE]

\* `row` is inserted as, or erased from, record `id`; `pending` and `done`: indexes
\* still to be changed, and changed so far; `todo`: rows not yet in the new
\* index `index` on `column`.
NoOp == [pc |-> "idle", row |-> NoRow, id |-> Null, index |-> Null, table |-> Null,
         column |-> Null, pending |-> {}, done |-> {}, todo |-> {}]
At(pc) == op.pc = pc
Goto(pc) == op' = [op EXCEPT !.pc = pc]
Return == op' = NoOp

IsRow(id, t) == rows[id] \notin {NoRow, Raw} /\ rows[id].table = t
Registered == {i \in Indexes : indexes[i] # NoIndex}
Owned(t) == {i \in Registered : indexes[i].table = t}
Key(i, row) == row.values[indexes[i].column]
OwnEntry(i) == <<Key(i, op.row), op.id>>
\* Mutant: rows without a key are indexed, too.
KeyedWithNulls(row) == Owned(row.table)
\* The indexes that have an entry for a row.
Keyed(row) == {i \in Owned(row.table) : Key(i, row) # Null}

\* list_indexes throws when the table of an index is not in the catalog.
CatalogReads == \A i \in Registered : indexes[i].table \in tables

\* open_indexes validates every tree of the table, or throws.
\* Mutant: the trees are opened without being validated.
IndexesOpenAlways(t) == TRUE
IndexesOpen(t) == \A i \in Owned(t) : trees[i].sound

Init ==
  /\ tables = {}
  /\ indexes = [i \in Indexes |-> NoIndex]
  /\ trees = [i \in Indexes |-> Sound({})]
  /\ rows = [id \in Ids |-> NoRow]
  /\ op = NoOp
  /\ disturbed = FALSE
  /\ cut = {}

\* Catalog::create_table
CreateTable(t) ==
  /\ At("idle") /\ t \notin tables
  /\ tables' = tables \cup {t}
  /\ UNCHANGED <<indexes, trees, rows, op, history>>

-----------------------------------------------------------------------------
\* What becomes of a tree.
SetTree(i, tree) == trees' = [trees EXCEPT ![i] = tree]
With(i) == trees[i].entries \cup {OwnEntry(i)}
Without(i) == trees[i].entries \ {OwnEntry(i)}
Updated(i, entries) == SetTree(i, [trees[i] EXCEPT !.entries = entries])
Interrupted(i, entries) == \E left \in {trees[i], Sound(entries), Broken} : SetTree(i, left)

\* A failure that may leave the row of the operation without its entries, and
\* one that may only leave entries without their row.
OwnPairs == Owned(op.row.table) \X {op.id}
CutShort(pairs) == disturbed' = TRUE /\ cut' = cut \cup pairs
LeavesEntries == CutShort({})
SetRow(id, record) ==
  /\ rows' = [rows EXCEPT ![id] = record]
  /\ cut' = cut \ (Indexes \X {id})

\* insert: the row, then its entries.  A row that cannot be stored changes nothing.
InsertRow(t, values, id) ==
  /\ At("idle") /\ t \in tables /\ CatalogReads /\ IndexesOpen(t) /\ rows[id] = NoRow
  /\ LET row == [table |-> t, values |-> values] IN
     /\ SetRow(id, row)
     /\ op' = [NoOp EXCEPT !.pc = "add", !.row = row, !.id = id, !.pending = Keyed(row)]
  /\ UNCHANGED <<tables, indexes, trees, disturbed>>

Progress(i) == op' = [op EXCEPT !.pending = @ \ {i}, !.done = @ \cup {i}]
AddEntry(i) ==
  /\ At("add") /\ i \in op.pending /\ OwnEntry(i) \notin trees[i].entries
  /\ Updated(i, With(i))
  /\ Progress(i)
  /\ UNCHANGED <<tables, indexes, rows, history>>

\* The tree has no room (PageFull, before it writes anything), or already holds
\* the entry.
AddEntryRefused(i) ==
  /\ At("add") /\ i \in op.pending
  /\ Goto("undo")
  /\ UNCHANGED <<tables, indexes, trees, rows, history>>

AddEntryFails(i) ==
  /\ At("add") /\ i \in op.pending
  /\ Interrupted(i, With(i))
  /\ Goto("undo")
  /\ LeavesEntries
  /\ UNCHANGED <<tables, indexes, rows>>

InsertReturns ==
  /\ At("add") /\ op.pending = {}
  /\ Goto("inserted")
  /\ UNCHANGED <<tables, indexes, trees, rows, history>>

\* The entries made so far are taken back, and then the row; the insertion throws.
Undone(i) == op' = [op EXCEPT !.done = @ \ {i}]
UndoEntry(i) ==
  /\ At("undo") /\ i \in op.done
  /\ Updated(i, Without(i))
  /\ Undone(i)
  /\ UNCHANGED <<tables, indexes, rows, history>>
UndoEntryFails(i) ==
  /\ At("undo") /\ i \in op.done
  /\ Interrupted(i, Without(i))
  /\ Undone(i)
  /\ LeavesEntries
  /\ UNCHANGED <<tables, indexes, rows>>
\* Mutant: the entries are forgotten when the row is taken back.
UndoRowAtOnce ==
  /\ At("undo")
  /\ SetRow(op.id, NoRow)
  /\ Return
  /\ UNCHANGED <<tables, indexes, trees, disturbed>>
UndoRow ==
  /\ At("undo") /\ op.done = {}
  /\ SetRow(op.id, NoRow)
  /\ Return
  /\ UNCHANGED <<tables, indexes, trees, disturbed>>
UndoRowFails ==
  /\ At("undo") /\ op.done = {}
  /\ Return
  /\ CutShort(OwnPairs)
  /\ UNCHANGED <<tables, indexes, trees, rows>>

-----------------------------------------------------------------------------
\* erase: the entries, then the row.
Erase(t, id) ==
  /\ At("idle") /\ t \in tables /\ IsRow(id, t) /\ CatalogReads /\ IndexesOpen(t)
  /\ op' = [NoOp EXCEPT !.pc = "remove", !.row = rows[id], !.id = id, !.pending = Keyed(rows[id])]
  /\ UNCHANGED <<tables, indexes, trees, rows, history>>

RemoveEntry(i) ==
  /\ At("remove") /\ i \in op.pending /\ OwnEntry(i) \in trees[i].entries
  /\ Updated(i, Without(i))
  /\ Progress(i)
  /\ UNCHANGED <<tables, indexes, rows, history>>

\* TableCorruption: the index is missing the table row.
RemoveEntryMissing(i) ==
  /\ At("remove") /\ i \in op.pending /\ OwnEntry(i) \notin trees[i].entries
  /\ Goto("restore")
  /\ UNCHANGED <<tables, indexes, trees, rows, history>>
RemoveEntryFails(i) ==
  /\ At("remove") /\ i \in op.pending
  /\ Interrupted(i, Without(i))
  /\ Goto("restore")
  /\ CutShort({<<i, op.id>>})
  /\ UNCHANGED <<tables, indexes, rows>>
EraseRow ==
  /\ At("remove") /\ op.pending = {}
  /\ SetRow(op.id, NoRow)
  /\ Goto("erased")
  /\ UNCHANGED <<tables, indexes, trees, disturbed>>
EraseRowFails ==
  /\ At("remove") /\ op.pending = {}
  /\ Goto("restore")
  /\ disturbed' = TRUE
  /\ UNCHANGED <<tables, indexes, trees, rows, cut>>

\* Mutant: only the last entry removed is put back.
RestoreOnlyOne(i) ==
  /\ At("restore") /\ i \in op.done
  /\ Updated(i, With(i))
  /\ op' = [op EXCEPT !.done = {}]
  /\ UNCHANGED <<tables, indexes, rows, history>>
\* The entries removed so far are put back; the deletion throws.
RestoreEntry(i) ==
  /\ At("restore") /\ i \in op.done
  /\ Updated(i, With(i))
  /\ Undone(i)
  /\ UNCHANGED <<tables, indexes, rows, history>>
RestoreEntryFails(i) ==
  /\ At("restore") /\ i \in op.done
  /\ Interrupted(i, With(i))
  /\ Undone(i)
  /\ CutShort({<<i, op.id>>})
  /\ UNCHANGED <<tables, indexes, rows>>
RestoreReturns ==
  /\ At("restore") /\ op.done = {}
  /\ Return
  /\ UNCHANGED <<tables, indexes, trees, rows, history>>

-----------------------------------------------------------------------------
\* create_index: a new tree, an entry for every row with a key, and only then
\* the catalog entry.
ToIndex(t, c) == {id \in Ids : IsRow(id, t) /\ rows[id].values[c] # Null}
CreateIndex(i, t, c) ==
  /\ At("idle") /\ i \notin Registered /\ t \in tables /\ CatalogReads
  /\ SetTree(i, Sound({}))
  /\ op' = [NoOp EXCEPT !.pc = "build", !.index = i, !.table = t, !.column = c, !.todo = ToIndex(t, c)]
  /\ UNCHANGED <<tables, indexes, rows, history>>
BackfillRow(id) ==
  /\ At("build") /\ id \in op.todo
  /\ Updated(op.index, trees[op.index].entries \cup {<<rows[id].values[op.column], id>>})
  /\ op' = [op EXCEPT !.todo = @ \ {id}]
  /\ UNCHANGED <<tables, indexes, rows, history>>
SetIndex(i, definition) == indexes' = [indexes EXCEPT ![i] = definition]
Register ==
  /\ At("build") /\ op.todo = {}
  /\ SetIndex(op.index, [table |-> op.table, column |-> op.column])
  /\ Goto("created")
  /\ UNCHANGED <<tables, trees, rows, history>>
\* Refused or failed at any of its writes, or lost in a crash before the catalog
\* entry is made: what was built is out of reach.
CreateIndexFails ==
  /\ At("build")
  /\ SetTree(op.index, Sound({}))
  /\ Return
  /\ UNCHANGED <<tables, indexes, rows, history>>

\* Catalog::register_index called with a tree just made: no row is put into it.
RowIds == {id \in Ids : rows[id] \notin {NoRow, Raw}}
RegisterTree(i, t, c) ==
  /\ At("idle") /\ i \notin Registered /\ t \in tables /\ CatalogReads
  /\ SetTree(i, Sound({}))
  /\ SetIndex(i, [table |-> t, column |-> c])
  /\ CutShort({i} \X RowIds)
  /\ UNCHANGED <<tables, rows, op>>

-----------------------------------------------------------------------------
\* flush_all after an operation that has returned.
Flush ==
  /\ op.pc \in {"inserted", "erased", "created"}
  /\ Return
  /\ UNCHANGED <<tables, indexes, trees, rows, history>>

\* The process is lost before that.  A tree with one update not yet flushed is
\* found as it was before or after, or no longer opens.
CrashTrees(before) ==
  \E old \in SUBSET op.done : \E broken \in SUBSET (op.done \ old) :
    trees' = [i \in Indexes |-> CASE i \in old -> Sound(before[i])
                                  [] i \in broken -> Broken
                                  [] OTHER -> trees[i]]
CrashInInsert ==
  /\ op.pc \in {"add", "inserted"}
  /\ CrashTrees([i \in op.done |-> Without(i)])
  /\ \E record \in {NoRow, op.row} : rows' = [rows EXCEPT ![op.id] = record]
  /\ CutShort(OwnPairs)
  /\ Return
  /\ UNCHANGED <<tables, indexes>>
CrashInErase ==
  /\ op.pc \in {"remove", "erased"}
  /\ CrashTrees([i \in op.done |-> With(i)])
  /\ \E record \in {rows[op.id], op.row} : rows' = [rows EXCEPT ![op.id] = record]
  /\ CutShort(OwnPairs)
  /\ Return
  /\ UNCHANGED <<tables, indexes>>
\* The catalog entry and any part of the new tree may be in the file.
CrashInCreateIndex ==
  /\ At("created")
  /\ \/ /\ SetTree(op.index, Sound({}))
        /\ SetIndex(op.index, NoIndex)
        /\ UNCHANGED history
     \/ /\ \E left \in {Sound(part) : part \in SUBSET trees[op.index].entries} \cup {Broken} :
             SetTree(op.index, left)
        /\ CutShort({op.index} \X RowIds)
        /\ UNCHANGED indexes
  /\ Return
  /\ UNCHANGED <<tables, rows>>

-----------------------------------------------------------------------------
\* The commands on raw records, which know nothing of tables: put, and erase of
\* a record of a row, of a table definition and of an index definition.
Put(id) ==
  /\ At("idle") /\ rows[id] = NoRow
  /\ SetRow(id, Raw)
  /\ UNCHANGED <<tables, indexes, trees, op, disturbed>>
EraseRecord(id) ==
  /\ At("idle") /\ rows[id] # NoRow
  /\ SetRow(id, NoRow)
  /\ disturbed' = (disturbed \/ rows[id] # Raw)
  /\ UNCHANGED <<tables, indexes, trees, op>>
EraseTableRecord(t) ==
  /\ At("idle") /\ t \in tables
  /\ tables' = tables \ {t}
  /\ disturbed' = (disturbed \/ Owned(t) # {})
  /\ UNCHANGED <<indexes, trees, rows, op, cut>>
EraseIndexRecord(i) ==
  /\ At("idle") /\ i \in Registered
  /\ SetIndex(i, NoIndex)
  /\ SetTree(i, Sound({}))
  /\ cut' = cut \ ({i} \X Ids)
  /\ UNCHANGED <<tables, rows, op, disturbed>>

-----------------------------------------------------------------------------
\* Scans and lookups between operations.
Scan(t, c, k) == {id \in Ids : IsRow(id, t) /\ rows[id].values[c] = k}
Hits(i, k) == {id \in Ids : <<k, id>> \in trees[i].entries}
\* read_index_row
Checks(i, k, id) == IsRow(id, indexes[i].table) /\ Key(i, rows[id]) = k
LookupThrows(i, k) ==
  ~CatalogReads \/ ~trees[i].sound \/ \E id \in Hits(i, k) : ~Checks(i, k, id)

OperationStarts ==
  \/ \E t \in Tables, id \in Ids : Erase(t, id) \/ \E values \in Values : InsertRow(t, values, id)
  \/ \E i \in Indexes, t \in Tables, c \in Columns : CreateIndex(i, t, c) \/ RegisterTree(i, t, c)
OperationGoesOn ==
  \/ \E i \in Indexes : AddEntry(i) \/ AddEntryRefused(i) \/ AddEntryFails(i)
  \/ \E i \in Indexes : UndoEntry(i) \/ UndoEntryFails(i)
  \/ \E i \in Indexes : RemoveEntry(i) \/ RemoveEntryMissing(i) \/ RemoveEntryFails(i)
  \/ \E i \in Indexes : RestoreEntry(i) \/ RestoreEntryFails(i)
  \/ InsertReturns \/ UndoRow \/ UndoRowFails
  \/ EraseRow \/ EraseRowFails \/ RestoreReturns
  \/ \E id \in Ids : BackfillRow(id)
  \/ Register \/ CreateIndexFails
Crash == CrashInInsert \/ CrashInErase \/ CrashInCreateIndex
RawCommand ==
  \/ \E id \in Ids : Put(id) \/ EraseRecord(id)
  \/ \E t \in Tables : EraseTableRecord(t)
  \/ \E i \in Indexes : EraseIndexRecord(i)

Next ==
  \/ \E t \in Tables : CreateTable(t)
  \/ OperationStarts \/ OperationGoesOn \/ Flush \/ Crash \/ RawCommand

Spec == Init /\ [][Next]_vars

-----------------------------------------------------------------------------
Rows == [table : Tables, values : Values]
Pcs == {"idle", "add", "inserted", "undo", "remove", "erased", "restore", "build", "created"}
Operations == [pc : Pcs, row : Rows \cup {NoRow}, id : Ids \cup {Null},
               index : Indexes \cup {Null}, table : Tables \cup {Null}, column : Columns \cup {Null},
               pending : SUBSET Indexes, done : SUBSET Indexes, todo : SUBSET Ids]

TypeOK ==
  /\ tables \in SUBSET Tables
  /\ indexes \in [Indexes -> [table : Tables, column : Columns] \cup {NoIndex}]
  /\ trees \in [Indexes -> [entries : SUBSET (Keys \X Ids), sound : BOOLEAN]]
  /\ rows \in [Ids -> Rows \cup {NoRow, Raw}]
  /\ op \in Operations
  /\ disturbed \in BOOLEAN
  /\ cut \in SUBSET (Indexes \X Ids)

\* Between operations every registered index finds exactly the rows a scan finds,
\* whatever insertions the trees have refused part of the way through several
\* indexes, whichever rows existed when an index was created, and whichever
\* tables and indexes were dropped with the raw commands, as long as no write
\* has failed, no process was lost and no record in use was erased.
LookupsMatchScans ==
  At("idle") /\ ~disturbed =>
    \A i \in Registered, k \in Keys :
      ~LookupThrows(i, k) /\ Hits(i, k) = Scan(indexes[i].table, indexes[i].column, k)

\* Damage stays where it was done: after any failed writes, lost processes and
\* raw deletions, a lookup throws, or returns what a scan returns except for
\* rows whose own insertion, deletion or indexing was cut short.  Not even a
\* record id given to another row brings an entry left behind back to life, and
\* no later operation on the same index makes another row disappear.
DamageIsContained ==
  At("idle") =>
    \A i \in Registered, k \in Keys :
      \/ LookupThrows(i, k)
      \/ LET found == Hits(i, k)
             scanned == Scan(indexes[i].table, indexes[i].column, k)
         IN found \subseteq scanned /\ \A id \in scanned \ found : <<i, id>> \in cut

\* An insertion that returns has its row in every index of its table, and a
\* deletion that returns has removed it from each, whatever failed before: no
\* operation goes through on a table with a tree that does not open.
CompletedWritesAreIndexed ==
  [][/\ InsertReturns => \A i \in Keyed(op.row) :
                           trees[i].sound /\ OwnEntry(i) \in trees[i].entries
     /\ EraseRow => \A i \in Keyed(op.row) :
                      trees[i].sound /\ OwnEntry(i) \notin trees[i].entries]_vars
=============================================================================
