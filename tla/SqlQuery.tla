------------------------------- MODULE SqlQuery -------------------------------
(***************************************************************************)
(* What a SELECT answers.                                                  *)
(* (toradb-engine sql_exec.rs, metadata_filter.rs, olap.rs, join.rs;       *)
(*  toradb-core typed_compare.rs, candidate.rs)                            *)
(*                                                                         *)
(* A table is a map from ids to rows.  A row has one column, whose value   *)
(* may be missing, and the score it has for the text searched for, zero if *)
(* it does not contain it; how a search finds the best rows is the matter  *)
(* of SegmentSearch.  Values are numbered in the order of strings, and     *)
(* Parsed says what number each type reads from a value.                   *)
(***************************************************************************)
EXTENDS Integers, Sequences, FiniteSets, FiniteSetsExt, SequencesExt, Functions

CONSTANTS
  Ids,            \* row ids, 1 .. n
  Values,         \* values of the column, 1 .. n in the order of strings
  Parsed,         \* "int" and "date" -> the numbers of the values that parse
  RightValues,    \* the values of the key column of the table joined
  KeyOf,          \* tuple of group values (0 is "_null") -> the joined key, in order
  Scores,         \* [Ids -> 0 .. ] functions to choose from
  Tombstones,     \* sets of deleted ids to choose from
  Statements,     \* SELECT statements to choose from
  WindowFactor,   \* 20
  WindowCap       \* 1000

VARIABLES
  row,      \* id -> value of the row stored, 0 if it has none, or NoRow
  score,    \* id -> score for the text searched for
  tombs,    \* ids with a tombstone
  hot,      \* whether the rows are in memory, or in segments only
  type,     \* declared type of the column
  stmt,     \* the SELECT being run
  answer

vars == <<row, score, tombs, hot, type, stmt, answer>>

NoRow == -1
None == [cte |-> [kind |-> "none"]]
Stored == {d \in Ids : row[d] # NoRow}
Live == Stored \ tombs

---------------------------------------------------------------------------
(* Comparing values *)

Compare(x, y) == IF x < y THEN "less" ELSE IF x = y THEN "equal" ELSE "greater"

\* untyped_cmp: as numbers, if both are
UntypedCmp(a, b) ==
  IF {a, b} \subseteq DOMAIN Parsed["int"]
  THEN Compare(Parsed["int"][a], Parsed["int"][b]) ELSE "none"

\* typed_cmp: as the type reads them; a text column as strings
TypedCmp(ty, a, b) ==
  IF ty = "text" THEN Compare(a, b)
  ELSE IF {a, b} \subseteq DOMAIN Parsed[ty] THEN Compare(Parsed[ty][a], Parsed[ty][b])
  ELSE "none"

OrElse(x, y) == IF x = "none" THEN y ELSE x

\* ordered: of a text column only numbers have an order
Ordered(ty, a, b) ==
  IF ty = "text" THEN UntypedCmp(a, b) ELSE OrElse(TypedCmp(ty, a, b), UntypedCmp(a, b))

\* ordered_ty: of the value of a function, strings do as well
OrderedTy(ty, a, b) == IF ty = "text" THEN OrElse(UntypedCmp(a, b), Compare(a, b)) ELSE Ordered(ty, a, b)

TypedEq(ty, a, b) == OrElse(Ordered(ty, a, b), Compare(a, b)) = "equal"

Meets(op, order) ==
  CASE op = "=" -> order = "equal"
    [] op = "#" -> order # "equal"
    [] op = "<" -> order = "less"
    [] op = "<=" -> order \in {"less", "equal"}
    [] op = ">" -> order = "greater"
    [] op = ">=" -> order \in {"greater", "equal"}

(* WHERE *)

\* The value a predicate sees; 0 if the row has no such column.
FieldOf(p, fields) == IF p.col = "id" THEN fields.id ELSE fields.value

\* A leaf of metadata_matches.  Ids compare as numbers; a pattern is the set of
\* the values that match it.
LeafMatches(p, fields) ==
  LET v == FieldOf(p, fields)
      Order(x) == IF p.col = "id" THEN Compare(v, x) ELSE Ordered(type, v, x)
      Equal(x) == IF p.col = "id" THEN v = x ELSE TypedEq(type, v, x)
  IN CASE p.kind = "compare" ->
            v # 0 /\ (CASE p.op = "=" -> Equal(p.value)
                        [] p.op = "#" -> ~Equal(p.value)
                        [] OTHER -> Meets(p.op, Order(p.value)))
       [] p.kind = "in" -> v # 0 /\ \E i \in DOMAIN p.values : Equal(p.values[i])
       [] p.kind = "between" ->
            v # 0 /\ (p.negated # (Meets(">=", Order(p.low)) /\ Meets("<=", Order(p.high))))
       [] p.kind = "like" -> v # 0 /\ (p.negated # (v \in p.pattern))
       [] p.kind = "coalesce" ->   \* a function: compare_typed on what it returns
            Meets(p.op, OrderedTy("text", IF v = 0 THEN p.default ELSE v, p.value))

Matches(p, fields) ==
  CASE p.kind = "true" -> TRUE
    [] p.kind = "and" -> \A i \in DOMAIN p.parts : LeafMatches(p.parts[i], fields)
    [] p.kind = "or" -> \E i \in DOMAIN p.parts : LeafMatches(p.parts[i], fields)
    [] OTHER -> LeafMatches(p, fields)

\* fetch_documents finds no deleted row; the id is made a column of the row.
FilterByWhere(p, ids) ==
  IF p.kind = "true" THEN ids
  ELSE SelectSeq(ids, LAMBDA d : d \in Live /\ Matches(p, [id |-> d, value |-> row[d]]))

---------------------------------------------------------------------------
(* Rows in order *)

\* Sorted by a relation, the first of equals first.
StableSort(s, before) ==
  LET Rank(i) == Cardinality({j \in DOMAIN s : \/ <<s[j], s[i]>> \in before
                                               \/ <<s[i], s[j]>> \notin before /\ j <= i})
  IN [k \in DOMAIN s |-> s[CHOOSE i \in DOMAIN s : Rank(i) = k]]

Pairs(ids) == ToSet(ids) \X ToSet(ids)

\* sort_by_score
SortByScore(ids, descending) ==
  StableSort(ids, {p \in Pairs(ids) :
    \/ IF descending THEN score[p[1]] > score[p[2]] ELSE score[p[1]] < score[p[2]]
    \/ score[p[1]] = score[p[2]] /\ p[1] < p[2]})

\* order_by_metadata_sort: a missing value is the empty string, before all.
KeyOrder(a, b) == OrElse(IF 0 \in {a, b} THEN "none" ELSE TypedCmp(type, a, b), Compare(a, b))

OrderByMetadataSort(ids, descending) ==
  StableSort(ids, {p \in Pairs(ids) :
    KeyOrder(row[p[1]], row[p[2]]) = IF descending THEN "greater" ELSE "less"})

Projected(items, d) == IF items = "value" THEN row[d] ELSE d

\* apply_distinct: the first of those that look the same
ApplyDistinct(items, ids) ==
  LET first == {i \in DOMAIN ids :
                  \A j \in DOMAIN ids : j < i => Projected(items, ids[j]) # Projected(items, ids[i])}
      In(k) == CHOOSE i \in first : Cardinality({j \in first : j <= i}) = k
  IN [k \in 1 .. Cardinality(first) |-> ids[In(k)]]

\* slice_range
SliceRange(ids, offset, limit) ==
  IF offset >= Len(ids) THEN <<>> ELSE SubSeq(ids, offset + 1, Min({offset + limit, Len(ids)}))

AtLeast1(n) == Max({n, 1})

\* apply_metadata_join looks at the rows in memory only.
ApplyJoin(sel, ids) ==
  IF sel.join THEN SelectSeq(ids, LAMBDA d : hot /\ d \in Stored /\ row[d] \in RightValues \ {0}) ELSE ids

---------------------------------------------------------------------------
(* SELECT without a search *)

IsIdLookup(p) == p.kind \in {"compare", "in"} /\ p.col = "id" /\ (p.kind = "compare" => p.op = "=")

\* The ids a leaf names.
NamedIds(p) == IF p.kind = "compare" THEN <<p.value>> ELSE p.values

\* direct_id_lookup applies.
Direct(p) ==
  IF p.kind = "or" THEN \A i \in DOMAIN p.parts : IsIdLookup(p.parts[i]) ELSE IsIdLookup(p)

DirectIds(p) ==
  IF p.kind = "or" THEN FlattenSeq([i \in DOMAIN p.parts |-> NamedIds(p.parts[i])]) ELSE NamedIds(p)

\* (mutant) ids that were looked up are not filtered again
RunScanTrusting(sel) ==
  LET ids == SortSeq(IF Direct(sel.where) THEN DirectIds(sel.where) ELSE SetToSeq(Live), <)
      kept == ApplyJoin(sel, IF Direct(sel.where) THEN ids ELSE FilterByWhere(sel.where, ids))
      sorted == IF sel.order = "value" THEN OrderByMetadataSort(kept, sel.descending) ELSE kept
      shown == IF sel.distinct THEN ApplyDistinct(sel.items, sorted) ELSE sorted
  IN SliceRange(shown, sel.offset, AtLeast1(sel.limit))

\* run_scan
RunScan(sel) ==
  LET ids == SortSeq(IF Direct(sel.where) THEN DirectIds(sel.where) ELSE SetToSeq(Live), <)
      kept == ApplyJoin(sel, FilterByWhere(sel.where, ids))
      sorted == IF sel.order = "value" THEN OrderByMetadataSort(kept, sel.descending) ELSE kept
      shown == IF sel.distinct THEN ApplyDistinct(sel.items, sorted) ELSE sorted
  IN SliceRange(shown, sel.offset, AtLeast1(sel.limit))

---------------------------------------------------------------------------
(* SELECT with a search *)

\* The rows asked of the search: what the page needs, or a window of it when
\* rows are put in another order, left out or counted.
PageSize(sel) ==
  LET base == AtLeast1(sel.offset + AtLeast1(sel.limit))
      window == sel.order # "none" \/ sel.distinct \/ sel.facets
  IN IF window THEN Max({Min({base * WindowFactor, WindowCap}), base}) ELSE base

\* The best rows with the text, as DagRunner::run gives them.
Found(n) == SliceRange(SortByScore(SetToSeq({d \in Live : score[d] > 0}), TRUE), 0, n)

\* What is left of them, in the order asked for.
Candidates(sel) ==
  LET kept == ApplyJoin(sel, FilterByWhere(sel.where, Found(PageSize(sel))))
      sorted == CASE sel.order = "none" -> SortByScore(kept, TRUE)
                  [] sel.order = "score" -> SortByScore(kept, sel.descending)
                  [] OTHER -> OrderByMetadataSort(kept, sel.descending)
  IN IF sel.distinct THEN ApplyDistinct(sel.items, sorted) ELSE sorted

\* count_facets_for_ids: the value of each fetched row, 0 for "_null"
CountFacets(ids) ==
  [v \in {row[d] : d \in Range(ids)} |-> Cardinality({i \in DOMAIN ids : row[ids[i]] = v})]

\* Facets are counted before the page is cut.
Facets(sel) == IF sel.facets THEN CountFacets(Candidates(sel)) ELSE <<>>

\* run_search
RunSearch(sel) == SliceRange(Candidates(sel), sel.offset, AtLeast1(sel.limit))

---------------------------------------------------------------------------
(* SELECT with groups *)

\* table_row_count: what is in memory, or the width of the segments' id range,
\* less the tombstones there are.
TableRowCount ==
  LET n == IF Stored = {} THEN 0 ELSE IF hot THEN Cardinality(Stored) ELSE Max(Stored) - Min(Stored) + 1
  IN Max({n - Cardinality(tombs), 0})

\* The rows a search lets in are those of one page.
FilterIds(sel) == IF sel.search THEN Range(RunSearch([sel EXCEPT !.items = "id"])) ELSE Ids

\* The rows that are scanned; a predicate sees no id.
Scanned(sel) == {d \in FilterIds(sel) \cap Live : Matches(sel.where, [id |-> 0, value |-> row[d]])}

\* group_key_eval: the values joined by a bar
GroupKey(sel, d) == KeyOf[[i \in 1 .. sel.group |-> row[d]]]

\* GroupAccum over the rows of a group: those whose value is a number
Accumulate(func, rows) ==
  LET numbers == {d \in rows : row[d] \in DOMAIN Parsed["int"]}
      Number(d) == Parsed["int"][row[d]]
      sum == MapThenSumSet(Number, numbers)
  IN CASE func = "count" -> Cardinality(rows)
       [] numbers = {} -> 0
       [] func = "sum" -> sum
       [] func = "avg" -> sum \div Cardinality(numbers)
       [] func = "min" -> Min({Number(d) : d \in numbers})
       [] func = "max" -> Max({Number(d) : d \in numbers})

\* having_matches: a comparison of the aggregate, or = and # of the group key
HavingMatches(h, key, value) ==
  CASE h.kind = "true" -> TRUE
    [] h.kind = "value" -> Meets(h.op, Compare(value, h.value))
    [] h.kind = "group" -> h.op \in {"=", "#"} /\ Meets(h.op, Compare(key, h.value))

\* run_aggregate: without a group, a search or a WHERE rows are not scanned.
RunAggregate(sel) ==
  LET whole == sel.group = 0 /\ ~sel.search /\ sel.where.kind = "true"
      keys == IF whole \/ (sel.group = 0 /\ Scanned(sel) # {}) THEN {0}
              ELSE IF sel.group = 0 THEN {}
              ELSE {GroupKey(sel, d) : d \in Scanned(sel)}
      Value(k) ==
        IF whole THEN TableRowCount
        ELSE IF sel.group = 0 THEN Cardinality(Scanned(sel))
        ELSE Accumulate(sel.func, {d \in Scanned(sel) : GroupKey(sel, d) = k})
      kept == SortSeq(SetToSeq({k \in keys : HavingMatches(sel.having, k, Value(k))}), <)
      page == SliceRange(kept, sel.offset, IF sel.limit = 0 THEN Len(kept) ELSE sel.limit)
  IN [i \in DOMAIN page |-> [key |-> page[i], value |-> Value(page[i])]]

---------------------------------------------------------------------------
(* Statements *)

\* expand_cte_select: SELECT outer FROM (inner)
ExpandCte(outer, inner) ==
  [outer EXCEPT !.distinct = outer.distinct \/ inner.distinct,
                !.search = outer.search \/ inner.search]

Expanded(sel) == IF sel.cte.kind = "none" THEN sel ELSE ExpandCte(sel, sel.cte)

Analytics(sel) == sel.func # "none" \/ sel.group > 0 \/ sel.having.kind # "true"

\* aggregate_specs, run_aggregate: groups without an aggregate, or one other
\* than COUNT without groups
Refused(sel) == Analytics(sel) /\ (sel.func = "none" \/ (sel.group = 0 /\ sel.func # "count"))

Unanswered == [ids |-> <<>>, groups |-> <<>>, facets |-> <<>>]

\* The rows of a SELECT without groups.
RunRetrieval(e) == IF e.search THEN RunSearch(e) ELSE RunScan(e)

\* run_select
RunSelect(sel) ==
  LET e == Expanded(sel)
  IN CASE Refused(e) -> Unanswered
       [] Analytics(e) /\ ~Refused(e) -> [Unanswered EXCEPT !.groups = RunAggregate(e)]
       [] OTHER -> [Unanswered EXCEPT !.ids = RunRetrieval(e),
                                      !.facets = IF e.search THEN Facets(e) ELSE <<>>]

\* The first page that is short.
LastPage(page, n) == Min({k \in DOMAIN page : Len(page[k]) < n})

\* sql_stream, of a SELECT without groups: pages of n rows until one is short
Stream(sel, n) ==
  LET page == [k \in 0 .. Cardinality(Ids) |->
                 RunRetrieval([Expanded(sel) EXCEPT !.limit = n, !.offset = sel.offset + k * n])]
  IN FlattenSeq([k \in 1 .. LastPage(page, n) + 1 |-> page[k - 1]])

Init ==
  /\ row \in [Ids -> Values \cup {0, NoRow}]
  /\ score \in Scores /\ tombs \in Tombstones
  /\ hot \in BOOLEAN /\ type \in DOMAIN Parsed \cup {"text"}
  /\ stmt = None /\ answer = Unanswered

\* A statement is run.
Execute(sel) ==
  /\ stmt = None
  /\ stmt' = sel /\ answer' = RunSelect(sel)
  /\ UNCHANGED <<row, score, tombs, hot, type>>

Next == \E sel \in Statements : Execute(sel)

Spec == Init /\ [][Next]_vars

---------------------------------------------------------------------------
(* Properties *)

\* The rows a statement is about, whatever their order.
Meant(e) ==
  {d \in Live : /\ Matches(e.where, [id |-> d, value |-> row[d]])
                /\ e.join => hot /\ row[d] \in RightValues \ {0}
                /\ e.search => score[d] > 0}

\* Which of two rows comes first.
Precedes(e, a, b) ==
  LET byId == IF e.order = "value" /\ e.search
              THEN score[a] > score[b] \/ (score[a] = score[b] /\ a < b)
              ELSE a < b
      byScore == IF e.order = "score" /\ ~e.descending THEN score[a] < score[b] ELSE score[a] > score[b]
  IN CASE e.order = "value" ->
            \/ KeyOrder(row[a], row[b]) = (IF e.descending THEN "greater" ELSE "less")
            \/ KeyOrder(row[a], row[b]) = "equal" /\ byId
       [] e.order # "value" /\ e.search -> byScore \/ (score[a] = score[b] /\ a < b)
       [] OTHER -> a < b

\* The rows shown: of those that look the same the first.
Shown(e) ==
  IF ~e.distinct THEN Meant(e)
  ELSE {d \in Meant(e) : \A c \in Meant(e) \ {d} :
          Projected(e.items, c) = Projected(e.items, d) => Precedes(e, d, c)}

IsPage(e, ids) ==
  /\ Len(ids) = Min({AtLeast1(e.limit), Max({Cardinality(Shown(e)) - e.offset, 0})})
  /\ \A i \in DOMAIN ids :
       ids[i] \in Shown(e) /\ Cardinality({d \in Shown(e) : Precedes(e, d, ids[i])}) = e.offset + i - 1

\* The ids named in a lookup are different.
NoRepeats(e) == e.search \/ ~Direct(e.where) \/ IsInjective(DirectIds(e.where))

\* The search gave all there was, or was not cut by what came after it.
InWindow(e) ==
  \/ ~e.search
  \/ Cardinality({d \in Live : score[d] > 0}) <= PageSize(e)
  \/ /\ e.where.kind = "true" /\ ~e.join /\ ~e.distinct /\ ~e.facets
     /\ e.order = "none" \/ (e.order = "score" /\ e.descending)

Answered == stmt # None /\ ~Refused(Expanded(stmt))

\* A SELECT answers the page of the rows it is about that it asks for, in the
\* order it asks for, whether rows are looked up, scanned or searched, with the
\* counts of all of them (sql_exec.rs:453, 693), if no id is named twice and the
\* search reaches what the filters leave.
PagesExact ==
  LET e == Expanded(stmt)
  IN Answered /\ ~Analytics(e) /\ NoRepeats(e) /\ InWindow(e) =>
       /\ IsPage(e, answer.ids)
       /\ e.facets /\ e.search =>
            answer.facets = [v \in {row[d] : d \in Shown(e)} |-> Cardinality({d \in Shown(e) : row[d] = v})]

\* Every row a GROUP BY is about is counted in one group and no other row is,
\* by the shortcut and by the scan (olap.rs:335), if no id is asked for, no
\* tombstone is of a row that is not there, and no row is missing in a segment.
RECURSIVE SumSeq(_)
SumSeq(s) == IF s = <<>> THEN 0 ELSE Head(s) + SumSeq(Tail(s))

RowsCountable == tombs \subseteq Stored /\ (hot \/ Stored = {} \/ Min(Stored) .. Max(Stored) \subseteq Stored)

GroupsPartition ==
  LET e == Expanded(stmt)
      values == [i \in DOMAIN answer.groups |-> answer.groups[i].value]
  IN Answered /\ Analytics(e) /\ ~e.search /\ e.having.kind = "true" /\ e.limit = 0 /\ e.offset = 0 =>
       /\ e.func = "count" /\ RowsCountable => SumSeq(values) = Cardinality(Meant(e))
       /\ e.func = "sum" => SumSeq(values) = Accumulate("sum", Meant(e))
       /\ \A i, j \in DOMAIN values : i < j => answer.groups[i].key < answer.groups[j].key

\* Reading a scan page by page gives each of its rows once, in order, while the
\* table stays as it is (database.rs sql_stream).
StreamComplete ==
  LET e == Expanded(stmt)
  IN Answered /\ ~Analytics(e) /\ ~e.search =>
       \A n \in 1 .. 2 : Stream(stmt, n) = RunScan([e EXCEPT !.limit = Cardinality(Ids) * 2])

\* Claim that does not hold: a search with a WHERE answers the page of the rows
\* that match both. WHERE is applied to what the search returned
\* (sql_exec.rs:775).
WhereComplete ==
  LET e == Expanded(stmt)
  IN Answered /\ ~Analytics(e) /\ e.search => IsPage(e, answer.ids)

\* Claim that does not hold: the groups of a search count every row that it finds.
\* They are of one page of it (olap.rs:348).
GroupsOfSearch ==
  LET e == Expanded(stmt)
      values == [i \in DOMAIN answer.groups |-> answer.groups[i].value]
  IN Answered /\ Analytics(e) /\ e.search /\ e.func = "count" /\ e.having.kind = "true"
       /\ e.group = 1 /\ Cardinality({row[d] : d \in Meant(e)}) <= e.limit /\ e.offset = 0 =>
       SumSeq(values) = Cardinality(Meant(e))

\* Claim that does not hold: COUNT(*) is the number of rows. Tombstones of no row
\* are subtracted, and holes in id ranges are counted (persist.rs:1289).
CountExact ==
  LET e == Expanded(stmt)
  IN Answered /\ Analytics(e) /\ e.group = 0 /\ ~e.search /\ answer.groups # <<>> =>
       answer.groups[1].value = Cardinality(Meant(e))

\* Claim that does not hold: a row is shown once. WHERE id IN (1, 1) shows it
\* twice (sql_exec.rs:522).
RowsOnce == IsInjective(answer.ids)

\* Claim that does not hold: every row of a statement over a CTE passes the WHERE
\* of its inner SELECT. That WHERE is dropped (sql_exec.rs:173).
CteFilters ==
  Answered /\ stmt.cte.kind # "none" =>
    \A i \in DOMAIN answer.ids :
      Matches(stmt.cte.where, [id |-> answer.ids[i], value |-> row[answer.ids[i]]])

\* Claim that does not hold: ORDER BY compares by an order. Numbers are compared
\* as numbers and everything else as strings, which may go round (sql_exec.rs:63).
OrderTotal ==
  \A a, b, c \in Values : KeyOrder(a, b) = "less" /\ KeyOrder(b, c) = "less" => KeyOrder(a, c) = "less"
=============================================================================
