------------------------------ MODULE SqlQuery -------------------------------
(***************************************************************************)
(* The life of one SELECT (src/sql_executor.cpp, src/query.cpp): it is     *)
(* bound, and then its rows are pulled one at a time through the source,   *)
(* the filters, the sort, the projection and the limit, while the caller   *)
(* changes the table between two pulls and a page may fail to be read.     *)
(*                                                                         *)
(* An index source holds its rows from the moment it is bound; a table     *)
(* cursor reads them as it goes, up to the last page the file had when it  *)
(* was made, and a sort reads everything at the first pull.  A page has    *)
(* room for one record, so that a record id is the number of its page; a   *)
(* new page comes only when no other has room (RecordStore.tla).           *)
(***************************************************************************)
EXTENDS SqlPlanner

CONSTANTS
  NewRows,     \* rows that may be inserted while a query is open
  RunClauses,  \* bound: the WHERE clauses of statements that are executed
  MaxTouched   \* bound: record ids changed while a query is open

VARIABLES
  query,     \* the query, once it is open
  returned,  \* history: the rows pulled so far
  promised,  \* history: the rows of the whole answer when the query was bound
  touched    \* history: record ids inserted or erased since then

ASSUME NewRowsAssumption == NewRows \subseteq [DOMAIN Schema -> {Null} \cup Int]

history == <<returned, promised, touched>>
vars == <<statement, table, query, history>>

\* The state of the operators: of the table cursor (at, end) or the loaded rows
\* of the source, of the sort, and of the limit; ended once next has returned nothing.
NoQuery == [open |-> FALSE]
NewQuery(a) ==
  [open |-> TRUE, scans |-> limit # 0 /\ ~UsesIndex(a), at |-> 1, end |-> Len(table),
   rows |-> IF limit = 0 \/ ~UsesIndex(a) THEN <<>> ELSE Candidates(a, CandidateLimit(a)),
   sorts |-> SortsRows(a), loaded |-> FALSE, sorted |-> <<>>,
   remaining |-> limit, ended |-> FALSE]

\* ProjectOperator: the row as the caller gets it; source is what it was made from.
Output(row) == [id |-> row.id, values |-> Projected(row.values), source |-> row.values]

Init ==
  /\ StatementInit
  /\ query = NoQuery /\ returned = <<>> /\ promised = <<>> /\ touched = {}

Grow == \E p \in Predicates : ~query.open /\ AddPredicate(p) /\ UNCHANGED <<query, history>>

\* bind_select.
Bind ==
  /\ ~query.open /\ Binds /\ predicates \in RunClauses
  /\ query' = NewQuery(ChosenAccess)
  /\ promised' = LET answer == Answer(ChosenAccess) IN [n \in DOMAIN answer |-> Output(answer[n])]
  /\ UNCHANGED <<statement, table, returned, touched>>

-----------------------------------------------------------------------------
\* What the source has still to give, in its order.
\* Mutant: the cursor goes on to pages that were added after it was made.
UpcomingToLastPage(q) == IF q.scans THEN ById({i \in Ids : q.at <= i}) ELSE q.rows
Upcoming(q) == IF q.scans THEN ById({i \in Ids : q.at <= i /\ i <= q.end}) ELSE q.rows
\* The query after its source has given the first count of these rows.
Passed(q, count) ==
  [q EXCEPT !.at = Upcoming(q)[count].id + 1, !.rows = SubSeq(@, count + 1, Len(@))]
\* And when it has no more to give.
Drained(q) == [q EXCEPT !.at = q.end + 1, !.rows = <<>>]

Loaded(q) ==
  IF q.loaded THEN q
  ELSE [Drained(q) EXCEPT !.loaded = TRUE, !.sorted = StableSort(q.sorted \o Filtered(Upcoming(q)))]
HasMore(q) ==
  q.remaining # 0 /\ IF q.sorts THEN Loaded(q).sorted # <<>> ELSE Passing(Upcoming(q)) # {}

\* LimitOperator counts the row, which the caller gets.
Return(q, row) ==
  /\ query' = [q EXCEPT !.remaining = IF @ = Absent THEN Absent ELSE @ - 1]
  /\ returned' = Append(returned, Output(row))
  /\ UNCHANGED <<statement, table, promised, touched>>

\* Query::next without a sort: the source is read up to the first row that
\* passes every filter.
PullFiltered ==
  /\ query.open /\ ~query.sorts /\ HasMore(query)
  /\ LET rows == Upcoming(query)
         n == CHOOSE m \in Passing(rows) : \A k \in Passing(rows) : m <= k IN
     Return(Passed(query, n), rows[n])

\* SortOperator::next, which loads its input when it is first called.
PullSorted ==
  /\ query.open /\ query.sorts /\ HasMore(query)
  /\ LET q == Loaded(query) IN
     Return([q EXCEPT !.sorted = Tail(@)], Head(q.sorted))

\* next returns nothing: the limit is used up, which asks for no row, or the
\* source is.
PullNothing ==
  /\ query.open /\ ~HasMore(query)
  /\ LET q == IF query.remaining = 0 THEN query
              ELSE IF query.sorts THEN Loaded(query) ELSE Drained(query) IN
     query' = [q EXCEPT !.ended = TRUE]
  /\ UNCHANGED <<statement, table, history>>

\* The cursor cannot read page i and next throws.  The cursor stays before the
\* page, and a sort keeps what it has read; the caller may call next again.
\* Mutant: the sort forgets it, and the cursor does not go back.
PullFailsForgetting(i) ==
  /\ query.open /\ query.scans /\ query.remaining # 0 /\ ~query.loaded
  /\ i \in query.at .. query.end
  /\ LET kept == Filtered(Upcoming([query EXCEPT !.end = i - 1])) IN
     /\ query.sorts \/ kept = <<>>
     /\ query' = [query EXCEPT !.at = i, !.sorted = <<>>]
  /\ UNCHANGED <<statement, table, history>>
PullFails(i) ==
  /\ query.open /\ query.scans /\ query.remaining # 0 /\ ~query.loaded
  /\ i \in query.at .. query.end
  /\ LET kept == Filtered(Upcoming([query EXCEPT !.end = i - 1])) IN
     /\ query.sorts \/ kept = <<>>
     /\ query' = [query EXCEPT !.at = i, !.sorted = @ \o kept]
  /\ UNCHANGED <<statement, table, history>>

-----------------------------------------------------------------------------
\* TableStore::insert and erase between two pulls.
Change(i, row) ==
  /\ query.open
  /\ Cardinality(touched \cup {i}) <= MaxTouched
  /\ touched' = touched \cup {i}
  /\ table' = IF i > Len(table) THEN Append(table, row) ELSE [table EXCEPT ![i] = row]
  /\ UNCHANGED <<statement, query, returned, promised>>
InsertRow(row) ==
  \E i \in 1 .. Len(table) + 1 :
    /\ i \in DOMAIN table => table[i] = Gone
    /\ i \notin DOMAIN table => \A j \in DOMAIN table : table[j] # Gone
    /\ Change(i, row)
EraseRow(i) == i \in Ids /\ Change(i, Gone)

Pull == PullFiltered \/ PullSorted \/ PullNothing
Next ==
  \/ Grow
  \/ Bind
  \/ Pull
  \/ \E i \in DOMAIN table : PullFails(i) \/ EraseRow(i)
  \/ \E row \in NewRows : InsertRow(row)

Spec == Init /\ [][Next]_vars

-----------------------------------------------------------------------------
\* Pulling gives the rows of the answer one by one, and then nothing: the
\* operators together do what filtering, sorting and cutting off all rows at once
\* does, over any number of failed pulls.  That the answer of an index is fixed
\* when the query is bound, and only a scan sees later changes, is part of it.
PullsGiveTheAnswer ==
  query.open /\ (touched = {} \/ ~query.scans) =>
    /\ IsPrefix(returned, promised)
    /\ query.ended => returned = promised

\* A returned row as it was read, and the order a scan returns rows in.
Source(row) == [id |-> row.id, values |-> row.source]
Precedes(r, s) ==
  IF order = Absent THEN r.id < s.id ELSE RowLess(r, s) \/ (~RowLess(s, r) /\ r.id < s.id)

\* A scan that runs while its table changes gives no row twice, none that fails
\* a filter and none of a page added since, so that it ends; it keeps its order;
\* and it misses none of the rows nobody touched: with a limit, those it leaves
\* out come after every row it has returned.
ScansSeeUntouchedRows ==
  query.open /\ query.scans =>
    LET rows == [n \in DOMAIN returned |-> Source(returned[n])]
        ids == {returned[n].id : n \in DOMAIN returned}
        missed == {i \in Selected : i \notin ids \cup touched} IN
    /\ \A m, n \in DOMAIN rows : m < n => Precedes(rows[m], rows[n])
    /\ \A n \in DOMAIN rows :
         /\ Satisfies(rows[n].values) /\ rows[n].id <= query.end
         /\ rows[n].id \notin touched => rows[n].values = table[rows[n].id]
    /\ query.ended =>
         IF Len(rows) = limit
         THEN \A i \in missed, n \in DOMAIN rows :
                Precedes(rows[n], [id |-> i, values |-> table[i]])
         ELSE missed = {}
=============================================================================
