# pageforge: TLA+ models, model checking and proofs

pageforge is a single-threaded storage engine in C++: a paged heap file, a
buffer pool, slotted pages, a record store, a persistent B+ tree, a catalog and
typed tables, and a SQL SELECT statement's way from its text to its answer above them. This directory holds
TLA+ models of it, TLC configurations that check them on small instances, and
TLAPS proofs of what matters most about its storage layers (heap file, buffer pool, page,
record store, B+ tree, tables) and about table scans that run while their table changes. Source paths below are relative to the repository (`src/buffer_pool.cpp`, `docs/BPLUS_TREE.md`).

Contents: [inventory](#inventory), [modules](#modules),
[runs](#runs), [fairness and deadlock](#fairness-and-deadlock),
[proofs](#proofs), [disagreements found](#disagreements-found),
[what is not modelled](#what-is-not-modelled), [plan](#plan).

To repeat a check: `tlc -config BufferPool.cfg MCBufferPool.tla`; to repeat a
proof: `tlapm BufferPoolProofs.tla`.

## Inventory

One process opens one file; there are no threads. What makes the code hard is
not parallelism but **partial failure** (nearly every call below can throw, from an I/O
error or for want of a frame, in the middle of an operation that writes
several things), **process loss** (pages reach the file in whatever order
they are evicted), **references and cursors kept between calls** while the
data under them changes, and **several hidden caches of the same fact** (page table and
frames, pin counts and guards, header and file length, tree handle and tree
records, index entries and rows).

    cli ──> sql_executor ──> query operators
      │          │
      ├──> table_store ──> catalog
      │          └───────> bplus_tree
      │                       │  (catalog, rows and tree nodes are all records)
      └──────────────────> record_store
                              │
                          buffer_pool ──> heap_file ──> std::fstream
                              └─ page (slotted page)

| Component | State | Operations | What makes it correct |
|---|---|---|---|
| Heap file `heap_file.cpp` | stream, `page_count_`; on disk a header block and pages | create, open, allocate_page, read_page, write_page, sync | After any failure or crash, open either refuses the file or finds exactly the pages the last process counted; once an allocation has returned, it opens |
| Slotted page `page.cpp` | 4096 bytes: header, slot directory, payloads | initialize, insert, replace, erase, compact, validate, read | Behaves as a map from stable slot numbers to records, refused for space exactly when the live records do not fit, wherever the holes are |
| Buffer pool `buffer_pool.cpp` | frames, page table, clock hand; guards held by callers | fetch, allocate_page, flush, flush_all, PageGuard move/release/mutable_page, destructor | No page is replaced under a guard; every pin is dropped exactly once; no change is lost except by losing the process; exhausted only if everything is pinned; every call ends |
| Record store `record_store.cpp` | insertion page hint; cursors with a position and an end | insert, get, replace, erase, scan, open_cursor, next | The file grows only when no page has room; a scan over a changing store misses nothing that was there from beginning to end, and ends |
| B+ tree `bplus_tree.cpp` | in records: header, linked leaves, one internal root; in the handle: root, first leaf, height | create, open (validates), insert, erase, find, range | The tree is the set of its entries after any sequence of splits, promotions, unlinks and collapses; nothing leaks; what open accepts after a crash is whole |
| Catalog `catalog.cpp` | records naming tables and indexes | create_table, list, find, register_index | Names are unique; an index in the catalog resolves to an integer column; only what the encoder writes is read as an entry |
| Table store `table_store.cpp` | none of its own | insert, erase, read, scan, create_index, lookup_index, lookup_index_range | Every lookup equals the filtered scan, or throws, after any failure and rollback; a crash or a dropped rollback harms the one row it concerns |
| SQL executor `sql_executor.cpp` | none between statements | bind, choose_index, execute, explain | Whatever access path is chosen, the answer is what the scan gives |
| Query operators `query.cpp` | iterator positions, rows loaded, rows left to the limit | scan, filter, project, sort, limit | Pulling them gives the rows of the whole answer one by one, also after a failed read; a scan over a changing table misses no row nobody touched |
| Tuple codec `tuple.cpp` | offset in the bytes | encode, decode | What is written is read back; every value has one encoding and nothing else is read |
| SQL lexer `sql_lexer.cpp` | offset, line and column in the text | lex_sql | The tokens tile the text, each as long as it can be, at the positions reported |
| SQL parser `sql_parser.cpp` | index of the current token, the plan so far | parse_select, parse_sql_statement | Accepts the grammar and nothing else, fails at the first wrong token, and the plan says what the statement says |
| Command line `cli.cpp` | one pool of 16 frames, one command per process, or a shell | every command | Flushes after each successful change; ends at an exception |
| Benchmark `benchmark.cpp` | none of the system | | Not part of the system |

How they interact, as far as the properties care:

* The pool reads and writes pages of the heap file; it owns frames and hands
  out guards. `allocate_page` finds a frame *before* it extends the file.
* The record store takes one guard at a time and holds none between two calls; a cursor
  holds only a position.
* The tree handle caches what the header record says, and rewrites several
  records for one operation, in an order of its own.
* The table store opens a new tree handle for every index of the table in every
  operation, after listing the indexes in the catalog; it undoes finished
  steps when a later one throws, and swallows what the undoing throws.
* The executor sees a table through `lookup_index`, `lookup_index_range` and
  a cursor; each of them re-checks the rows an index names.

The list of hazards with their lines is in `PROJECT.json`.

## Modules

| Module | Models | Extends / instantiates |
|---|---|---|
| `HeapFile` | `heap_file.cpp`: growth, writes, crash, reopening | |
| `HeapFileProofs` | proofs about it | `HeapFile`, TLAPS |
| `Space` | the space records take together, as pages add it up | |
| `SpaceProofs` | lemmas on such sums, and on least elements | `Space`, TLAPS |
| `SlotMap` | abstract: what a slotted page promises | `Space` |
| `SlottedPage` | `page.cpp`, byte by byte as far as holes and overlaps go | `Space`; instantiates `SlotMap` |
| `SlottedPageProofs` | proofs about it | `SlottedPage`, `SpaceProofs` |
| `PageStore` | abstract: what a cache over a file promises | |
| `BufferPool` | `buffer_pool.cpp` over `heap_file.cpp` | instantiates `PageStore` |
| `BufferPoolProofs` | proofs about it | `BufferPool`, TLAPS |
| `RecordStore` | `record_store.cpp`, pages as `SlotMap` has them | `Space` |
| `RecordStoreProofs` | proofs about it | `RecordStore`, `SpaceProofs` |
| `BPlusTree` | `bplus_tree.cpp` while the process lives | |
| `BPlusTreeCrash` | the same when the process is lost and pages reach the file in any order | `BPlusTree` |
| `BPlusTreeProofs` | proofs about both | `BPlusTreeCrash`, `SpaceProofs` |
| `TableStore` | `table_store.cpp` over the directory of `catalog.cpp`, trees as sets of entries; crashes and raw commands | |
| `TableStoreProofs` | proofs about it | `TableStore`, TLAPS |
| `RecordFormats` | `tuple.cpp`, the row envelope of `table_store.cpp`, the entries of `catalog.cpp` | |
| `SqlLexer` | `sql_lexer.cpp`, a character at a time | |
| `SqlParser` | `sql_parser.cpp`, a phrase at a time | `SqlLexer` |
| `SqlText` | abstract: tiling, positions, the grammar of `docs/SQL_PARSER.md`, the text of a plan; the properties of the two | `SqlParser` |
| `SqlPlanner` | `sql_executor.cpp`: binding, planning, EXPLAIN, with the range lookups of `table_store.cpp` | |
| `SqlQuery` | `query.cpp`: an opened query, pulled row by row while its table changes | `SqlPlanner` |
| `SqlQueryProofs` | proofs about it | `SqlQuery`, TLAPS |
| `MC...` | instances for TLC: values for constants, symmetry | the module named |

The layers are composed by promise, not by product. `PageStore` is what
the pool is shown to implement, and it is what `BPlusTreeCrash` relies on when it
says that a record's page reaches the file whole, at any time, or not at all.
`SlotMap` is what a page is shown to implement, and a page of `RecordStore` is a
`SlotMap` with records reduced to their sizes. The record store's promise
(an id names one live record) is what `BPlusTree` takes its node ids from, and
`TableStore` takes a tree to be the set of entries `BPlusTree` shows it to be,
or, after a failed write or a crash, one of the outcomes `BPlusTreeCrash` shows:
as before, as intended, or refused by open. A row of `TableStore` is what
`RecordFormats` shows to be read back, and the plan `SqlParser` makes is the
statement `SqlPlanner` starts from. The cursor `SqlQuery` scans with is the one of
`RecordStore`, which ends at the last page there was when it was made.

Definitions that are called "Mutant" in a comment are plausible wrong versions of
the definition that follows them; nothing uses them except to see that the
properties fail when the code is wrong in that way.

### HeapFile

`header` and `blocks` are the file, `pageCount` is `page_count_`; `pc` says
which of the two writes of `allocate_page` is next. `settled` is a history
variable: the last create or allocation returned. `NewBlockFails`, the failing
branch of `WriteHeader` and `Close` in the middle give every point at which the
process can stop, with the block untouched, complete or torn. `Openable` is what
`read_header` checks: header readable and file length as declared. Writes
reach the operating system in program order; losing the machine is not modelled,
as `sync` only flushes the stream.

### SlottedPage and SlotMap

`page` holds the directory, the two free-space bounds and every byte, so that an
overlap or a lost byte is visible. `Insert` reuses the lowest tombstone and
compacts when the gap is too small; `Replace` rebuilds the page once it
is known to have room; `Erase` leaves a tombstone, and a hole. `result` is the
operation and what it returned, so that the refinement of `SlotMap` also says that
an operation is refused exactly when it must be. Magic, checksum and page id
never interact with this and are left out.

### BufferPool and PageStore

`frames`, `table` and `hand` are the members of the same names; `guard[g]` is
the frame index of a `PageGuard`. One call runs in steps, kept in `call`:

    BeginFetch / BeginAllocate
      -> PassOver*  (clears a reference bit, or passes a pinned frame)
      -> PickVictim | Exhausted
      -> ReadPage | ReadFails          fetch only: read before anything is evicted
      -> WriteBack | WriteBackFails | SkipWriteBack
      -> Extend | ExtendFails          allocate only
      -> Install

`FlushAll...` writes the dirty frames in turn and stops at the first failure; the
destructor does the same and swallows it. Between calls the client moves and
releases guards, writes through `mutable_page`, flushes a page, or the process
`Restart`s, orderly or not. A failing write leaves the block as it was, complete,
or `Torn`. `PageStore` has one `current` and one `durable` image per page;
the mapping is `current[p]` = the frame's image where p is resident, the file's
otherwise, and `durable` = the file.

### RecordStore

`pages[p][s]` is the size of the record in slot s, 0 for a tombstone; `hint` is
`insertion_page_hint_`. `Insert` probes from the hint, wrapping once;
`InsertIntoNewPage` is the growth, `AllocationFails` the two ways it ends early.
A cursor is a page, a slot and the page count it saw first. `owed[c]` is a
history variable: records that were live when c was made, still live, and not yet
returned. `MoveCursor`, `DropCursor` and `Reopen` are the remaining ways a
cursor's life can go.

### BPlusTree and BPlusTreeCrash

`store` maps record ids to node records; `handle` is the tree object; `op` holds the
store after each of the writes still to come, in the order the code makes them,
and `WriteRecord` performs one. `InsertInLeaf`, `InsertSplitting`, `EraseInLeaf`,
`EraseLeaf` and `Collapse` are the paths of insert and erase; `TreeValid` is
`validate_tree`; an empty leaf goes only if its neighbours link as the root says (`Empties`).
`Find` and `RangeEntries` are the lookups as the code makes them: bounds that cross are refused and a limit of 0 returns
before anything is read. Otherwise `FindFrom` and `RangeFrom` route to the first leaf, `Listed` is what `visit_from`
meets along the links, entry by entry, and `Collect` the visitor: it passes entries over, stops for good at the first one
above the upper bound or when it has enough. A chain that breaks before the visitor stops throws (`Outcome`).
`model` is the set of entries that completed operations leave.

In `BPlusTreeCrash`, `durable` is what the file has of each record. `Persist`
writes any record at any time (an eviction), `FlushAll` is over when everything
is written, `Crash` replaces the store by `durable`, `Reopen`
validates. Each record has a page of its own here, which allows more mixtures of
old and new records than the real packing does. An operation that throws between
two writes ends the process (the CLI reports and exits), so it is a crash.

### TableStore

`tables` and `indexes` are the catalog, `trees[i]` is the entries of a tree and
whether it still opens, `rows[id]` is the record with that id: a row, a raw record or
none. The actions follow the loops: `AddEntry`, `AddEntryRefused` (tree full) and
`AddEntryFails` (I/O), then `UndoEntry`, `UndoRow` and their failures; `RemoveEntry` and
`RestoreEntry` for erasing; `BackfillRow` and `Register` for create_index;
`RegisterTree` for a direct call of `register_index`. A tree write that fails leaves the
tree as it was, as intended, or broken.

An operation that returns leaves `op.pc` at `inserted`, `erased` or `created` until
`Flush`, which the command line calls after each one. The `CrashIn...` actions take the
process away in the middle: the row, each tree the operation has begun to change and the
catalog entry are in the file or not, independently of each other, and a tree is as
before, as intended or broken. `Put`, `EraseRecord`, `EraseTableRecord` and
`EraseIndexRecord` are the raw commands. `CatalogReads` is the condition under which
`list_indexes` does not throw: every index entry refers to a table the catalog has.

`disturbed` and `cut` are history variables. `disturbed` says that anything beyond a
refused entry has happened; `cut` has the pairs of index and row whose own change was cut
short, which is exactly the damage that may be visible (`DamageIsContained`).

What is assumed: a tree holds the changes of one operation when the process is lost, as
each command flushes; while an operation that failed is being taken back a tree would hold two
changes (the case of `BPlusTreeCrash2`), so no crash comes there. The raw `erase` is not
applied to the records of a tree. A table created again under an old name has the same
columns. `put` cannot make a row or a catalog entry, as a command line argument
holds no NUL byte.

### RecordFormats

`item` is the value encoded (a row of a table, a table definition, an index definition, valid or
not), `bytes` its record. `Encode` refuses or writes it; `Replace` is a record store's
`replace` by a record that differs in one byte, lacks an end or has one byte more; the
reading actions are the decoders, one action per field or group of fields that is checked together,
with `offset` and the value so far. A byte has `BitsPerByte` bits, so that three columns
need two bytes of null bits; 16-bit numbers take one byte, 32- and 64-bit numbers two, and
a magic number is one cell of its own.

### SqlLexer, SqlParser, SqlText

`at` is `offset_`, `line_` and `column_`; `mode` says what the lexer is in the middle of. Each
action takes one character, or two where the code does. `place` is where in the
procedures the parser stands, so that each action is one `match` or `expect` with what it
does to `plan`. A keyword is one letter and can be written as a capital or a small
letter, as far as `Small` says so. `SqlText` describes the result without reference to how it is
reached: `Ignorable` and `Longest` for the lexer, `IsStatement` for the parser, and
`TextOf`, which writes a plan as text again. Whether a prefix can be continued is decided
with `Closings`, a set of ends that complete every kind of beginning.

### SqlPlanner

A statement is `select` (the table and the columns), `predicates`, `order` and `limit`; `indexed`
says which columns have an index. Names are written one way or another and resolved
by `ColumnOf`; `Binds` is everything `analyze_select` requires before it plans. The
planner is a chain of pure operators, named after the functions: `Matches`, `Lookups`, `Ranges`,
`ChosenAccess`, `MatchesOrder`, `CandidateLimit`, `Explanation`. `Answer` is what the operators do
when they are applied to all rows at once. A statement grows by one predicate at a
time, so that TLC enumerates every WHERE clause up to the bound. Integers end at `MinKey`
and `MaxKey`: the bound a strict comparison moves by one may not exist. A text or a
boolean is a number in its order, and `type` tells the literals apart.

### SqlQuery

`Bind` opens a statement, which fixes the rows of an index source, or makes a table cursor (`at`,
`end`). `PullFiltered` and `PullSorted` are one `next` that returns a row, `PullNothing` one that
returns none, and `PullFails(i)` one that throws as page i cannot be read: the cursor stays
before it, and a sort keeps the rows it has got so far (`sorted`, with `loaded` still false), as
`SortOperator::load` does. `InsertRow` and `EraseRow` come between two pulls. A page has room for one
record, so that record ids are page numbers. `promised` and `touched` are history variables: the
answer when the query was opened, and the record ids changed since. A lookup that fails while the
query is opened opens none; nothing is left of it.

## Runs

| Run | Instance | States | What it shows |
|---|---|---|---|
| `HeapFile` | 3 pages, 2 images | 800 | A file whose last growth returned opens, and opens with the number of pages its writer counted, over any number of failed growths |
| `SlottedPage` | 12-byte page, 2-byte slots, records of 1, 2 and 3 bytes | 13 000 | All sequences of page operations implement the slot map, which has an operation refused only if the live records leave no room; validate accepts every page |
| `BufferPool` | 2 frames, 3 pages, 2 images, 3 guards | 650 000 | The pool invariants, no replacement under a guard, and the refinement of `PageStore` |
| `BufferPoolLive` | the same with 1 image | 167 000 | Every call returns or throws |
| `RecordStore` | 5-byte pages, sizes 1, 3, 4, 3 pages, 2 cursors over up to 2 pages | 78 000 | The file grows only when no page has room, no page is overfilled; scans over a changing store are complete; nothing inserted meanwhile lengthens them, each call shortens them |
| `BPlusTree` | leaves of 2, root of 3, 6 entries, 3 of them under one key | 29 000 | Trees equal the set; lookups and ranges return its entries in order under every limit, 0 included, and crossed bounds are refused; no leaked node |
| `BPlusTreeCrash1` | the same, 1 operation per flush | 3 100 000 | What open accepts after a crash is whole |
| `BPlusTreeCrash2` | the same, 2 operations per flush | | A counterexample, see below |
| `TableStore` | 2 tables, 2 columns, 2 indexes, 2 keys and null, 2 row ids | 2 100 000 | Lookups agree with scans while refused insertions are rolled back; after failures, crashes and raw deletions a lookup throws or may silently miss rows whose writing was cut short, but no others; no write completes without its entries |
| `RecordFormats` | 2-bit bytes, 350 values, up to 2 changes | 300 000 | Rows and catalog entries are read back as written, and nothing is read that the encoder would not write |
| `SqlText` | 17 800 texts: all short ones, and statements with one word changed | 650 000 | Tokens tile the text at the positions reported; the grammar decides; errors are at the first wrong token; plans say what statements say |
| `SqlQuery` | 18 predicates that bind and 3 that do not, up to 3 in a clause, 7 record ids, keys 0..2 and null; 2 clauses executed, 2 ids changed | 290 000 | Every plan gives the rows, the order and the prefix a scan gives, and EXPLAIN says what is so; pulling gives the answer row by row; scans see what nobody touched |

Why these bounds are enough for the cases to happen:

* *Pool.* Two frames and three pages force replacement of dirty, clean, pinned and
  referenced frames. Three guards are one more than the frames, so
  a full pool can be asked for one more page (`Exhausted`), and two guards can share a frame. Two images
  tell a lost change from a kept one. Guards are symmetric.
* *Heap file.* Three pages: one below, one at and one above the count when a
  growth is interrupted.
* *Page.* Three record sizes and twelve bytes: holes too small for the next record,
  reuse of a tombstone when the directory cannot grow, replacement that needs
  compaction.
* *Record store.* A page holds one record of three bytes or two of one byte, and none of four
  (a record too large for any page). Three pages are the least for which the hint can
  leave a page with room behind it while the file may still grow. `MaxScanned` keeps the file at two
  pages while a cursor is in use: one page behind the cursor, or one ahead. Either cursor may be moved into the other once that is dropped.
* *B+ tree.* Three leaves of two make every kind of split, unlinking at the
  front, middle and end, promotion and collapse; the key with three ids spreads
  over two leaves. The root is full with three children, so the refusal of a further split is reached.
* *Crash.* `MaxOrphans = 1` stops crashes once one record lies outside the tree; orphans only
  shift record ids. `MaxUnflushed` is the parameter the two runs differ in.
* *Planner.* Three predicates are enough for a lower and an upper bound and a third
  that tightens, contradicts or crosses them. The table repeats keys out of
  order and has nulls in every column.
* *Query.* One record id is free at first: two changes fill it and add a page, empty a place and fill
  it with another row, or take rows away before and behind the cursor. The statements
  executed scan, look up a range forward, backward and with a limit, sort by a key and by a text, and choose columns.
* *Table store.* Two ids let an id be reused by a row of the other table; two indexes let the
  second fail after the first has succeeded, in both orders. `FewValues` leaves rows with a
  key in one column, or different keys in both, which tell the columns apart and have every mixture of keyed and null.
* *Formats.* Schemas of one, two and three columns: fewer than a byte's bits, exactly as many,
  and more. One change damages any single check; two changes make a length and what it
  measures agree again.
* *Texts.* Three characters open and close every token and comment with one to spare; longer
  texts enclose every sequence of up to three quotes, stars, slashes, breaks and NULs in a comment or a
  string. In the statements every word is left out, doubled or exchanged for each of the
  others, with keywords for names. Integers end at 7 and -8, sizes at 15, and the texts have -8, +7, 8, 15 and 16.

All bounds are constants that appear in guards: `MaxPages`, `MaxUnflushed`,
`MaxOrphans`, `MaxPredicates`, `RunClauses`, `MaxTouched`, `MaxScanned`, `MaxChanges`; everything else is finite by the sets given.

## Fairness and deadlock

* `BufferPool!FairSpec`: weak fairness of `CallStep`. A call runs in the
  caller's thread; once begun it goes on unless the process is lost, which
  `CallsReturn` allows for. Client steps have no fairness.

That scans end needs no fairness: `ScansRunOut` says that no step, of whomever, puts a slot or page before a cursor that was not
before it already, and that each step of `next` takes one away. The places are finite, so every loop that calls
`next` until it returns nothing ends, as those in `record_store.cpp`, `catalog.cpp` and `table_store.cpp` do. A liveness property would
say less here: in an instance of a few pages a scan also ends if its end moves with the file, because the file stops growing.

Deadlock is checked where the system can always go on (HeapFile, SlottedPage,
RecordStore, BPlusTree). `CHECK_DEADLOCK FALSE` stands where it may stop: a
process that has ended over a file that will not open (`BufferPool`), an index
that open refused (`BPlusTreeCrash`), a statement that is refused or complete (`SqlQuery`), a text or record that has been read (`SqlText`, `RecordFormats`),
tables whose trees are all broken, which refuse every write (`TableStore`).

## Proofs

TLAPS checks seven modules with results (and `SpaceProofs`, which holds lemmas only). The assumptions are
those on the constants, named in the module that declares them; every run evaluates them.

| Proofs | Assumed of the constants |
|---|---|
| `HeapFileProofs`, `BufferPoolProofs` | `Capacity` is a positive number, `MaxPages` a number, `Guards` a finite set; `Torn` and `Absent` differ from each other and from every image |
| `SlottedPageProofs` | `SizesAssumption`: a page has room for its header and one slot entry; `RecordsAssumption`: a record is a nonempty byte string |
| `RecordStoreProofs` | `SizesAssumption`: sizes of records and slot entries are positive; `MaxPagesAssumption`: `MaxScanned` does not exceed `MaxPages` |
| `BPlusTreeProofs` | `CapacityAssumption`: a leaf has room for an entry and a root for two children; `UniverseAssumption`: entries are pairs of numbers; for the theorems on crashes also that `MaxUnflushed` and `MaxOrphans` are numbers, and as their hypothesis `MaxUnflushed <= 1` |
| `TableStoreProofs` | `Null` is no key, `NoRow` and `Raw` are no rows, `NoIndex` is no index |
| `SqlQueryProofs` | `RowsAssumption`, `NewRowsAssumption`: a row has a value, null or an integer, in each column; `LimitAssumption`: a limit is absent or a number |

Each of these models has an inductive invariant (`IInv`; `CInv` for crashes of the tree, `ScanInv` and `PullInv` for queries), one lemma per action that says the action preserves it
(with lemmas below it for the parts an action disturbs), and a final case split over `Next`.
`Invariance` (`CrashInvariance`, `ScanInvariance`) says that it holds in every state; the listed theorems follow from it.

**BufferPoolProofs.** For every capacity, file size, set of guards and contents:

* `Invariance`: the properties are not inductive as they stand.
  `IInv` adds: the file has exactly the pages below `pageCount` (`FileInv`) and
  a resident page is one of them (`FramesInv`); a guard refers to an
  occupied frame (`GuardInv`); what the local variables of a call in progress mean
  (`MissInv`: the page asked for is not resident, the victim is unpinned and
  unreferenced, still in the table until `Install`, and clean after the write back);
  and the argument for the sweep (`SweepInv`). There, `Behind(f)` is the distance of frame f behind
  the hand: a frame the hand has passed once in this sweep has no reference bit or is pinned; one
  it has passed twice is pinned, as nothing sets a reference bit during a sweep. After 2 x Capacity
  frames every frame is pinned, which is `ExhaustionCorrect`.
* `TypeCorrect`, `TableCorrect`, `PinsCorrect`, `CleanCorrect`, `ExhaustionCorrect` follow from it.
  `PinsCorrect` rests on three lemmas on cardinalities (`OnFinite`, `CountOne`, `Repoint`): what
  moving one guard does to the number of guards on each frame.
* `GuardsCorrect`: no step puts another page under a guard. Only `Install` replaces
  a frame's page, and its frame has no pin, hence no guard.
* `Refinement`: `Spec => ImplementsPageStore`. Every step is a write, a persist, an
  allocation or the loss of all current images of `PageStore`, or a
  stutter; the replacement itself is invisible (`InstallInvisible`), as the victim
  is clean and the page read in is the one in the file.

**HeapFileProofs.** `IInv` has at most one block beyond
`page_count_`, a header never ahead of it, and lengths that agree whenever header and
count do; from it `TypeCorrect`, `SettledCorrect` and `OpenCorrect`.

**SlottedPageProofs.** For every page size and set of records:

* `IInv` (`PageOK` of the page) is `TypeOK` and `PagesValidate` together, which is inductive as it stands; the work is in the
  layout. `PackedAt` says where a rebuilt page puts the payload of a slot; the payloads lie one below the other
  (`PackedOrder`, `PackedPlaces`), so that a page rebuilt from payloads that fit gives
  them back (`PackedPage`). Storing a payload in the free gap, or erasing one, leaves the bytes of every other slot as they
  were, because validate has them in disjoint places outside the gap.
* `Refinement`: `Spec => ImplementsSlotMap`. Reading the page gives the map before, and the changed map
  after, each step; a compaction on the way changes no payload. An
  insertion is refused for space exactly when the live records leave too little (`InsertFits`): the room the code
  reckons with, page size less the directory and the sum of the payload lengths, is the room a rebuilt page has.

**RecordStoreProofs.** For every page size, set of sizes, number of pages and set of cursors:

* `IInv`: the file and the cursors have their types, a page is never overfilled, and what a cursor owes is
  allocated, live, at or after its position and before its end
  (`OwedAreAhead`); its end is inside the file and a finished cursor stands at its end. That a record owed lies *ahead* is
  what makes `ScanIsComplete` inductive: erasing a record drops the debt, inserting adds none, advancing pays the first one.
* `GrowthCorrect`: the file grows only when the probe has refused every page. The probe goes from
  the hint with wrap-around, so the proof shows that these positions modulo the page count are all the pages.
* `ScanBounded` is `ScansRunOut`, for scans and files of every length: a cursor's end is fixed when it is made, and no step takes its
  position back (`CursorGoesOn`); a call that reads moves it past the slot it returns or the page it has finished (`CallGoesOn`).

**BPlusTreeProofs.** For every capacity of leaves and roots and every set of entries:

* `IInv` says which tree the store is. `TreeAt(store, handle, ids, es)`: the leaves are the records `ids`, linked in this order
  and distinct, with the entry sets `es`, each wholly before the next and none empty unless it is the only one; the header
  names the first of them and the root; the root is the single leaf or has exactly their `Separators`. No other record is
  alive (`Whole`). At rest the store is such a tree with the model's entries. While an operation is under way the store between two of
  its records is *not* one, so the invariant is about what remains to be written: the last of `op.writes` is the
  tree of `op.handle` with `op.result` (`Writing`). `WriteRecordIInv` then only moves along this list,
  and the work is in what each operation begins (`Leads`): writes whose last one leaves a tree with the new entries.
* Each operation is a change of the two sequences: an element replaced (`InsertInLeafLeads`, `EraseInLeafLeads`), one split in two
  (`InsertSplittingLeads`: `SplitEntries`, `SplitContents`, `SplitLeaves` and `SplitSeparators` are its parts) or one removed
  (`EraseLeafLeads`, `CollapseLeads`: `DropEntries` and so on). These lemmas need of the store only that it is a
  tree, not that nothing lies beside it, so that they hold of an index that crashes have left orphans in as well; and they
  say of every store on the way that each of its records is as before the operation or as after it (`Mixed`). That the place an entry is routed to is the right
  one, with every entry before it less and every one behind it greater, is `RoutedEntry`.
* Reading: `Chain` is a recursive function; `PathIsUnique` shows by the least number argument, without
  induction, that it is the only function with its equation, and `ChainIsLinked` that in a tree its value is the
  sequence of the leaves. `Sorted` lists a set by ranks, which are distinct and all taken (`RankBounds`, `RanksAreTaken`).
* `TypeCorrect`, `TreeCorrect`, `FindCorrect`, `RangeCorrect` and `LeaksCorrect` are all the invariants of the run `BPlusTree`. For
  lookups, `RoutedKey` says that no entry of the key, or greater, is in front of the leaf a lookup starts at; `FindTree` that the
  leaf it stops at has nothing of the key behind it. What a walk meets is `Sorted` as a whole, because each leaf is and the leaves are
  ordered (`SortedJoined`, `ListedIsSorted`). The visitor is a recursive function over it, followed entry by entry (`CollectIsWalk`):
  it keeps what is neither passed over nor beyond, up to the limit (`CollectTakes`), and stopping loses nothing as all that
  follows an entry above the bound is above it too (`StaysBeyond`). `LookupReturns` adds that the chain of a tree does not break.

**Crashes, in BPlusTreeProofs.** For every capacity and set of entries, whatever pages have been written when the process is lost,
over any number of crashes, if at most one operation begins between two calls of `flush_all` (`MaxUnflushed <= 1`):

* `CrashCorrect` is the property of the runs, and `OperationIsAtomic` more: what open accepts holds *exactly* the entries of the last
  flush, or exactly those the operation leaves, `AcceptedIndexIsAVersion`. The hypothesis is not
  for convenience: with two operations it is false, as `BPlusTreeCrash2` shows, because a record can be retired by the first and
  used again by the second, and then there are three contents it can have.
* `CInv` is the invariant. Either everything is in the file (`Settled`), or there are two stores `st` and
  `f`, from before the operation and from after it, and both the pool and the file have of each record what `st` or `f`
  has (`Underway`). Evictions and writes keep that, in whatever order they come. What has to be shown is that open
  accepts no mixture that is not one of the two trees (`Sound`); which records are in the file it need not know.
* `MixedLeaves` shows this of the chain of leaves, by the three ways in which an operation changes it (`Changes`). If
  a leaf is rewritten, its record decides which of the two chains it is. If it is split, an old left half gives the old chain; a
  new one whose right half is not in the file links to a dead record. If it is removed, an old predecessor
  still links it: if it is dead, the chain breaks there (`ChainBreaks`), otherwise it is the old chain. A chain that breaks off has
  a last leaf with a next, and `validate_tree` refuses it. This is where the order of the links matters: the
  mutant that cuts the left half before it links the right one loses entries.
* `ValidIsTree`: over a chain of one of the two trees, the checks of heights, number of children and separators leave no
  choice for the root, so that what is accepted is a tree, and the next operation finds it as if it had never crashed. That is why the
  invariant survives any number of crashes, with records outside the tree that no one refers to.

**TableStoreProofs.** For all tables, columns, indexes, keys and record ids, and every mixture of failures,
crashes, rollbacks and raw commands:

* `IInv` says what the local variables of the operation in progress mean: which of the trees it has to change it has changed, that
  these open and hold its entry or do not, according to the direction (`RowInv`); that an index being built has the entries of the
  rows taken so far and is not in the catalog (`BuildInv`). Then, one index and one row at a time: a tree that opens has
  the entry of every row with a key, but for a row in `cut` and for the row under way (`RowsAreFound`); as long as nothing but refused
  entries has gone wrong, nothing is in `cut`, every tree opens and has no other entries (`Undamaged`).
* `TypeCorrect`, `LookupsCorrect` (a lookup is the filtered scan as long as nothing but refused entries has gone wrong), `DamageCorrect` (otherwise
  it differs from it at most in the rows of `cut`) and `CompletionCorrect` (an operation that returns has made
  all its entries, or removed them all).

**SqlQueryProofs.** For every schema, table, statement and set of rows to insert, and any number of failed pulls:

* `ScanCorrect` is `ScansSeeUntouchedRows`. The cursor does not see the table of any one moment, so the invariant `ScanInv` is not
  about a table but about what has been *read*: the rows returned followed by the rows in the sort (`Collects`). They satisfy the
  predicates and lie before the cursor; those nobody touched are as they still are; every untouched row
  before the cursor that the statement selects is among them; and they are in the order of the record ids or, once they have been sorted, in
  the order asked for (`Precedes`). The rest of it (`QueryOK`) says what ends a query, that the limit and the
  rows returned add up, that a sort returns nothing before it has read everything, and that pages beyond the cursor's end are touched.
* `ReadOn` is the step they all take: a cursor that has read up to a record id has added what the filters leave of the rows in between
  (`Brings`), whether it comes to a row, to the end or to a page that cannot be read (`PullScan`, `DrainScan`, `FailScan`).
  `SortIt` is the sort over what was read, `PopScan` the row it gives, `ChangeScan` an insertion or deletion between two pulls.
* `Filtered`, `StableSort` and `ById` list sets by ranks. `Listing` says of any relation that puts a finite set in one line that this list has every member
  once and along the line; it is used for record ids, for the places that pass a filter, and for the order of a stable sort,
  which `RowLessOrder` shows to be one: nulls last in both directions, rows of equal keys by their places.
* `PullCorrect` is `PullsGiveTheAnswer`. The invariant `PullInv` says that the rows returned and then, as far as the limit goes,
  those still to come are the answer promised when the query was bound (`Continues`). Still to come is a function of the operators' state
  (`Rest`): what the filters leave of the source, sorted together with what the sort has read of it, or what a loaded sort has left.
  It starts as the whole answer (`BindPull`), whichever access was chosen; a pull takes its first row (`RestPulled`, `RestPopped`),
  and loading a sort, running out and a failed read leave it as it is (`RestLoaded`, `RestDrained`, `RestFails`): a sort that failed half way goes on with what it has read,
  and filtering in two parts is filtering at once. `BringsOne` makes these equalities of sequences: the rows that pass
  between two record ids, in their order, are one sequence.
  It depends on the table only where the source is a cursor (`RestStays`), which is why only there a change of the table
  ends what the invariant promises.

`Space` counts the bytes of records as a set, not by a recursive sum, so that what one more, one fewer or one changed record does to the
total is a fact about cardinalities (`TotalOfAdded`, `TotalOfChanged`, `TotalOfPart`) and
needs no induction.

**Only model-checked**:

* The choice of an access path and what comes of it (`AnswersSelected`, `AnswersLikeScan`, `ExplanationHolds`):
  the planner folds over the predicates, and what it has found after all of them is a statement by induction over their sequence.
* `SqlText` and `RecordFormats`: a grammar and an encoding for every input are recursive definitions. Induction over data is out of reach,
  as the library's induction theorems take operator parameters that the provers cannot instantiate.
* `BPlusTreeCrash2`, a counterexample.
* Liveness (`CallsReturn`), which needs ENABLED.

## Disagreements found

* `BPlusTreeCrash2`. `docs/BPLUS_TREE.md:74-75` says that a crash between record rewrites may leave "an
  unreachable node or a separator mismatch that reopen validation rejects".
  With one operation between two flushes this is so (`BPlusTreeCrash1`). With two
  it is not: an erasure empties leaf Z and retires its record, the next insertion
  splits a leaf and reuses the record for the right half, and a crash leaves
  every record but that one in the file. The old Z stands where the right half should be, with a highest
  entry that is the new separator, and open accepts an index that has lost entries.

Two smaller ones were read off the source and need no run. `docs/TABLE_STORE.md:103-104` says strict
comparisons include the boundary key in the candidate range and leave it to the filter; `sql_executor.cpp`
moves the bound by one, as `docs/SQL_EXECUTION.md:120-121` says, and the answers are the same.
`docs/SQL_LEXER.md:30-31` has NUL bytes refused rather than skipped; a NUL byte inside a comment is skipped
with it (`SkipLineComment`, `SkipBlockComment`).

## What is not modelled

* The benchmark, and the text the command line prints and parses.
* The text of EXPLAIN, and names that are ambiguous: the catalog refuses names that differ only in case.
* Loss of the machine: nothing in the code forces data to disk.
* Errors a `std::fstream` reports later than the write they belong to.
* A reference from `mutable_page` kept across a flush, and a second handle on a tree that has changed:
  documented as the caller's affair, and absent from `src/`.
* Records of a tree whose `create_index` failed: they stay in the file, out of reach of every operation, as
  `docs/TABLE_STORE.md:91-93` says.
* A crash while the table store takes back a failed operation, and raw deletion of a tree's own
  records (see TableStore above).
* Raw records that begin like a row or a catalog entry: reserved by `docs/TABLE_STORE.md`.
* A row that no longer decodes while a query reads it: only damage to the file makes one.

## Plan

Done: all models named above; proofs about HeapFile, BufferPool (with the refinement of PageStore), SlottedPage (with the
refinement of SlotMap), RecordStore, BPlusTree, BPlusTreeCrash (one operation between flushes), TableStore and SqlQuery.

Open: that each access the planner may choose brings the rows a scan would (`AnswersSelected`), for a given access; that the
choice is sound for every sequence of predicates stays with TLC.
