----------------------------- MODULE SqlPlanner ------------------------------
(***************************************************************************)
(* Binding and planning of one SELECT (src/sql_executor.cpp over the       *)
(* lookups of src/table_store.cpp): names and types are resolved,          *)
(* comparisons on integer columns become an index lookup or range, an      *)
(* index may save the sort, and a limit may be pushed into the index       *)
(* access.  SqlQuery opens and pulls the query that is planned here.       *)
(*                                                                         *)
(* A value is an integer of the machine's range MinKey .. MaxKey, a number *)
(* that stands for a text or a boolean in their order, or Null.  The       *)
(* catalog has one table, as it refuses names that differ only in case;    *)
(* an index holds every row whose key is not null (BPlusTree and           *)
(* TableStore keep it so) and is named by its column: of two on one column *)
(* the code only ever takes the first.                                     *)
(***************************************************************************)
EXTENDS Integers, Sequences, SequencesExt, FiniteSets

CONSTANTS
  MinKey, MaxKey,   \* the range of a 64-bit integer
  Null,             \* the null value and literal
  Absent,           \* an optional that holds nothing
  Names,            \* names as they may be written
  Fold,             \* Fold[name]: the name with its capitals made small
  TableName,        \* the table's name
  Schema,           \* its columns: [name, type]
  Rows,             \* the rows, by record id, before anything changes them
  Gone,             \* a record id that has no row
  Statements,       \* SELECT statements without their predicates
  Predicates,       \* predicates a WHERE clause may be built from
  MaxPredicates     \* bound: predicates in one WHERE clause

ASSUME KeysAssumption == MinKey \in Int /\ MaxKey \in Int /\ MinKey <= MaxKey
ASSUME SchemaAssumption ==
  \A c, d \in DOMAIN Schema : c # d => Fold[Schema[c].name] # Fold[Schema[d].name]
ASSUME RowsAssumption == Rows \in Seq({Gone} \cup [DOMAIN Schema -> {Null} \cup Int])
ASSUME LimitAssumption ==
  Absent \notin Int /\ \A s \in Statements : s.limit = Absent \/ s.limit \in Nat

VARIABLES
  indexed,     \* the columns of the table that have an index
  select,      \* SelectPlan::table, select_all and columns
  predicates,  \* SelectPlan::predicates
  order,       \* SelectPlan::order
  limit,       \* SelectPlan::limit
  table        \* table[id]: the row with this record id, or Gone

statement == <<indexed, select, predicates, order, limit>>

Keys == MinKey .. MaxKey

-----------------------------------------------------------------------------
\* equal_name and resolve_column.
SameName(left, right) == Fold[left] = Fold[right]
Resolved == {name \in Names : \E c \in DOMAIN Schema : SameName(Schema[c].name, name)}
ColumnOf == [name \in Resolved |-> CHOOSE c \in DOMAIN Schema : SameName(Schema[c].name, name)]
TypeOf(name) == Schema[ColumnOf[name]].type

\* literal_matches: a literal of the column's type, or null.
LiteralMatches(p) == p.literal = Null \/ p.type = TypeOf(p.column)

\* bind_predicate, as far as it can refuse; booleans have no order.
PredicateBinds(p) ==
  /\ p.column \in Resolved
  /\ p.kind = "comparison" =>
       /\ LiteralMatches(p)
       /\ TypeOf(p.column) = "boolean" => p.comparison \in {"=", "!="}

\* analyze_select up to the choice of an index: anything else is a SqlBindError.
TableResolves == SameName(TableName, select.from)
Binds ==
  /\ select.all = (select.columns = <<>>)
  /\ TableResolves
  /\ \A n \in DOMAIN predicates : PredicateBinds(predicates[n])
  /\ order # Absent => order.column \in Resolved
  /\ \A n \in DOMAIN select.columns : select.columns[n] \in Resolved

\* The values of a row that the statement returns.
Projected(values) ==
  IF select.all THEN values
  ELSE [n \in DOMAIN select.columns |-> values[ColumnOf[select.columns[n]]]]

\* compare.
Compare(left, comparison, right) ==
  CASE comparison = "=" -> left = right
    [] comparison = "!=" -> left # right
    [] comparison = "<" -> left < right
    [] comparison = "<=" -> left <= right
    [] comparison = ">" -> left > right
    [] comparison = ">=" -> left >= right

\* The function bind_predicate returns.
Holds(p, values) ==
  LET value == values[ColumnOf[p.column]] IN
  CASE p.kind = "is null" -> value = Null
    [] p.kind = "is not null" -> value # Null
    [] OTHER -> value # Null /\ p.literal # Null /\ Compare(value, p.comparison, p.literal)
Satisfies(values) == \A n \in DOMAIN predicates : Holds(predicates[n], values)

\* bind_order: nulls sort last in both directions.
RowLess(r, s) ==
  LET column == ColumnOf[order.column]
      left == r.values[column]
      right == s.values[column] IN
  IF left = Null \/ right = Null THEN left # Null /\ right = Null
  ELSE IF order.descending THEN right < left ELSE left < right

-----------------------------------------------------------------------------
\* choose_index.  An access is a record of these fields.
Access(path, column, key, lower, upper, selected, covered, empty) ==
  [path |-> path, column |-> column, key |-> key, lower |-> lower, upper |-> upper,
   selected |-> selected, covered |-> covered, empty |-> empty]

\* matching_index
Matches(p) ==
  /\ p.kind = "comparison" /\ p.literal # Null /\ p.type = "integer"
  /\ TypeOf(p.column) = "integer"
  /\ ColumnOf[p.column] \in indexed
OnColumn(column) == SelectSeq(predicates, LAMBDA p : Matches(p) /\ ColumnOf[p.column] = column)

\* The first equality on each indexed column, checked against all its
\* comparisons.
Lookup(p) ==
  LET same == OnColumn(ColumnOf[p.column])
      contradicted == \E i \in DOMAIN same :
        ~Compare(p.literal, same[i].comparison, same[i].literal) IN
  Access("lookup", ColumnOf[p.column], p.literal, Absent, Absent, Len(same), Len(same), contradicted)
HasAccess(accesses, column) == \E i \in DOMAIN accesses : accesses[i].column = column
Lookups ==
  FoldLeft(LAMBDA found, p :
             IF p.kind = "comparison" /\ p.comparison = "=" /\ Matches(p) /\ ~HasAccess(found, ColumnOf[p.column])
             THEN Append(found, Lookup(p)) ELSE found,
           <<>>, predicates)

\* The bound a comparison sets; a strict one moves by one where it can.
SetsLower(p) == p.comparison \in {">", ">="}
\* Mutant: nothing lies beyond the strictest bound, but it is taken for a bound.
NeverImpossible(p) == FALSE
Impossible(p) ==
  (p.comparison = ">" /\ p.literal = MaxKey) \/ (p.comparison = "<" /\ p.literal = MinKey)
Bound(p) ==
  IF Impossible(p) \/ p.comparison \in {">=", "<="} THEN p.literal
  ELSE IF p.comparison = ">" THEN p.literal + 1 ELSE p.literal - 1

NewRange(p) ==
  Access("range", ColumnOf[p.column], Absent, IF SetsLower(p) THEN Bound(p) ELSE Absent,
         IF SetsLower(p) THEN Absent ELSE Bound(p), 1, 1, Impossible(p))

Tighter(old, p) ==
  CASE old = Absent -> Bound(p)
    [] old # Absent /\ SetsLower(p) -> IF Bound(p) > old THEN Bound(p) ELSE old
    [] old # Absent /\ ~SetsLower(p) -> IF Bound(p) < old THEN Bound(p) ELSE old

Cross(lower, upper) == lower # Absent /\ upper # Absent /\ lower > upper
Merge(r, p) ==
  LET lower == IF SetsLower(p) THEN Tighter(r.lower, p) ELSE r.lower
      upper == IF SetsLower(p) THEN r.upper ELSE Tighter(r.upper, p)
      emptied == [r EXCEPT !.selected = @ + 1, !.covered = r.selected + 1, !.empty = TRUE] IN
  IF r.empty \/ Impossible(p) THEN emptied
  ELSE IF Cross(lower, upper) THEN [emptied EXCEPT !.lower = lower, !.upper = upper]
  ELSE [r EXCEPT !.lower = lower, !.upper = upper, !.selected = @ + 1, !.covered = @ + 1]
Ranges ==
  FoldLeft(LAMBDA found, p :
             IF p.kind = "comparison" /\ p.comparison \notin {"=", "!="} /\ Matches(p)
             THEN IF HasAccess(found, ColumnOf[p.column])
                  THEN [i \in DOMAIN found |->
                          IF found[i].column = ColumnOf[p.column] THEN Merge(found[i], p) ELSE found[i]]
                  ELSE Append(found, NewRange(p))
             ELSE found,
           <<>>, predicates)

\* The access max_element picks, the first of the best: empty ones, then, among
\* ranges, two-sided ones, then those on more comparisons, then the order.
BoundCount(a) == Cardinality({b \in {"lower", "upper"} : a[b] # Absent})
ReusesOrder(a) == order # Absent /\ SameName(Schema[a.column].name, order.column)
Worse(a, b) ==
  IF a.empty # b.empty THEN b.empty
  ELSE IF BoundCount(a) # BoundCount(b) THEN BoundCount(a) < BoundCount(b)
  ELSE IF a.selected # b.selected THEN a.selected < b.selected
  ELSE ~ReusesOrder(a) /\ ReusesOrder(b)
Best(accesses) ==
  FoldLeft(LAMBDA best, a : IF Worse(best, a) THEN a ELSE best, Head(accesses), accesses)

TableScan == Access("scan", Absent, Absent, Absent, Absent, 0, 0, FALSE)
ChosenAccess ==
  IF Lookups # <<>> THEN Best(Lookups) ELSE IF Ranges # <<>> THEN Best(Ranges) ELSE TableScan

\* analyze_select, for the chosen access a.
UsesIndex(a) == a.path # "scan"
MatchesOrder(a) == UsesIndex(a) /\ ReusesOrder(a)
\* Mutant: a lookup on any column is thought to bring the order along.
SortsNoLookup(a) == order # Absent /\ ~(UsesIndex(a) /\ (a.empty \/ a.path = "lookup" \/ MatchesOrder(a)))
SortsRows(a) == order # Absent /\ ~(UsesIndex(a) /\ (a.empty \/ MatchesOrder(a)))
Reverses(a) == MatchesOrder(a) /\ order.descending /\ a.path = "range" /\ ~a.empty
CandidateLimit(a) ==
  IF /\ limit # Absent /\ limit > 0 /\ UsesIndex(a) /\ ~a.empty /\ ~SortsRows(a)
     /\ a.covered = Len(predicates)
  THEN limit ELSE Absent

\* explain_select
Explanation(a) ==
  [path |-> a.path, column |-> a.column, key |-> a.key, lower |-> a.lower, upper |-> a.upper,
   direction |-> IF a.path # "range" \/ a.empty THEN Absent
                 ELSE IF Reverses(a) THEN "reverse" ELSE "forward",
   empty |-> limit = 0 \/ a.empty,
   residual |-> Len(predicates) - a.covered,
   sorts |-> SortsRows(a), candidates |-> CandidateLimit(a)]

-----------------------------------------------------------------------------
\* The rows an access loads.  Record ids are numbers.
Ids == {i \in DOMAIN table : table[i] # Gone}
First(sequence, count) ==
  IF count = Absent \/ count >= Len(sequence) THEN sequence ELSE SubSeq(sequence, 1, count)
Sorted(set, before(_, _)) ==
  LET place == [x \in set |-> Cardinality({y \in set : before(y, x)}) + 1] IN
  [n \in 1 .. Cardinality(set) |-> CHOOSE x \in set : place[x] = n]
RowsOf(ids) == [n \in DOMAIN ids |-> [id |-> ids[n], values |-> table[ids[n]]]]
ById(ids) == RowsOf(Sorted(ids, LAMBDA i, j : i < j))

\* lookup_index and lookup_index_range: ascending key groups, or descending
\* ones, with ascending record ids in each.
InRange(key, a) ==
  key # Null /\ (a.lower = Absent \/ key >= a.lower) /\ (a.upper = Absent \/ key <= a.upper)
\* Mutant: the entries are reversed one by one.
KeyOrderAllReversed(column, reversed, i, j) ==
  IF table[i][column] = table[j][column] THEN IF reversed THEN j < i ELSE i < j
  ELSE (table[i][column] < table[j][column]) # reversed
KeyOrder(column, reversed, i, j) ==
  IF table[i][column] = table[j][column] THEN i < j
  ELSE (table[i][column] < table[j][column]) # reversed
LookupRows(a, count) == First(ById({i \in Ids : table[i][a.column] = a.key}), count)
RangeRows(a, reversed, count) ==
  First(RowsOf(Sorted({i \in Ids : InRange(table[i][a.column], a)},
                      LAMBDA i, j : KeyOrder(a.column, reversed, i, j))), count)

\* make_query in bind_select: the source.
Candidates(a, count) ==
  CASE a.path = "scan" -> ById(Ids)
    [] a.path # "scan" /\ a.empty -> <<>>
    [] a.path = "lookup" /\ ~a.empty -> LookupRows(a, count)
    [] OTHER -> RangeRows(a, Reverses(a), count)

\* The operators on all rows at once: the filters, the sort and the limit.
Passing(rows) == {n \in DOMAIN rows : Satisfies(rows[n].values)}
Filtered(rows) ==
  LET places == Sorted(Passing(rows), LAMBDA m, n : m < n) IN
  [n \in DOMAIN places |-> rows[places[n]]]
StableSort(rows) ==
  LET before(m, n) ==
        IF m < n THEN ~RowLess(rows[n], rows[m]) ELSE RowLess(rows[m], rows[n])
      sorted == Sorted(DOMAIN rows, before) IN
  [n \in DOMAIN rows |-> rows[sorted[n]]]
Answer(a) ==
  LET kept == Filtered(Candidates(a, CandidateLimit(a))) IN
  IF limit = 0 THEN <<>> ELSE First(IF SortsRows(a) THEN StableSort(kept) ELSE kept, limit)

-----------------------------------------------------------------------------
\* A WHERE clause grows by one predicate.  One that is refused would be refused
\* with more predicates as well.
StatementInit ==
  /\ \E s \in Statements :
       indexed = s.indexed /\ select = s.select /\ order = s.order /\ limit = s.limit
  /\ predicates = <<>>
  /\ table = Rows

AddPredicate(p) ==
  /\ Len(predicates) < MaxPredicates /\ Binds
  /\ predicates' = Append(predicates, p)
  /\ UNCHANGED <<indexed, select, order, limit, table>>

-----------------------------------------------------------------------------
\* The rows a statement selects, in the order a table scan and a stable sort
\* give them.
Selected == {i \in Ids : Satisfies(table[i])}
Reference == IF order = Absent THEN ById(Selected) ELSE StableSort(ById(Selected))

\* Whatever access is chosen, the answer has the rows the predicates select,
\* each once, and as many of them as the limit allows; it is in the order asked
\* for, and a limit keeps the first rows of that order: no row left out belongs
\* before one returned, also where an index replaced the sort or the limit went
\* into the index access.
AnswersSelected ==
  Binds =>
    LET answer == Answer(ChosenAccess)
        ids == {answer[n].id : n \in DOMAIN answer}
        selected == Selected IN
    /\ ids \subseteq selected
    /\ Cardinality(ids) = Len(answer)
    /\ Len(answer) = IF limit = Absent \/ limit > Cardinality(selected)
                    THEN Cardinality(selected) ELSE limit
    /\ order # Absent =>
         /\ \A m, n \in DOMAIN answer : m < n => ~RowLess(answer[n], answer[m])
         /\ \A n \in DOMAIN answer, i \in selected \ ids :
              ~RowLess([id |-> i, values |-> table[i]], answer[n])

\* Where no index is used, or the index of the ORDER BY column, the answer is
\* exactly the one of a scan and a stable sort, rows of equal keys included.
AnswersLikeScan ==
  Binds =>
    LET a == ChosenAccess IN
    ~UsesIndex(a) \/ MatchesOrder(a) => Answer(a) = First(Reference, limit)

\* The explanation e of an access that gives these candidates.
EmptyIsEmpty(e) ==
  e.empty /\ limit # 0 =>
    \A key \in Keys : \E n \in DOMAIN predicates :
      /\ ColumnOf[predicates[n].column] = e.column
      /\ ~Holds(predicates[n], [c \in DOMAIN Schema |-> key])
BoundsAreValid(e) ==
  e.direction # Absent =>
    /\ e.lower # Absent \/ e.upper # Absent
    /\ {e.lower, e.upper} \subseteq Keys \cup {Absent}
    /\ e.lower = Absent \/ e.upper = Absent \/ e.lower <= e.upper
OnlyResidualFilter(e, candidates) ==
  Cardinality({n \in DOMAIN predicates :
                 \E m \in DOMAIN candidates : ~Holds(predicates[n], candidates[m].values)})
    <= e.residual
NeedsNoMore(e, candidates, kept) ==
  /\ order # Absent /\ ~e.sorts => StableSort(kept) = kept
  /\ e.candidates # Absent => kept = candidates

\* What EXPLAIN says of a statement is so: an empty result is one no row could
\* be in; the bounds neither cross nor leave the range of the integers, so that
\* lookup_index_range never throws; the predicates not counted as residual hold
\* of every candidate; without a sort the candidates kept are in order; and a
\* limit on the candidates takes away none that a filter could still refuse.
ExplanationHolds ==
  Binds =>
    LET a == ChosenAccess
        candidates == Candidates(a, Absent) IN
    /\ EmptyIsEmpty(Explanation(a))
    /\ BoundsAreValid(Explanation(a))
    /\ OnlyResidualFilter(Explanation(a), candidates)
    /\ NeedsNoMore(Explanation(a), candidates, Filtered(candidates))
=============================================================================
