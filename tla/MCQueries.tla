------------------------------- MODULE MCQueries -------------------------------
(***************************************************************************)
(* The parts of a statement that share nothing, checked side by side:      *)
(* SELECT over a table, and its grammar.  Each is an instance of its       *)
(* module on a part of the states: part names it, and x1 to x7 stand for   *)
(* its variables.                                                          *)
(***************************************************************************)
EXTENDS Integers, Sequences

CONSTANTS
  Parts,          \* the parts to check
  Parsed          \* of SqlQuery

VARIABLES part, x1, x2, x3, x4, x5, x6, x7

slots == <<part, x1, x2, x3, x4, x5, x6, x7>>
Unused == "unused"

-----------------------------------------------------------------------------
(* SELECT over three rows: the values "10", "2" and "a" *)

RowIds == 1 .. 3
RowValues == 1 .. 3
NumbersOf == [int |-> <<10, 2>>]
GroupKeys == [t \in {<<v>> : v \in 0 .. 3} \cup {<<v, w>> : v, w \in 0 .. 3} |->
              IF Len(t) = 1 THEN IF t[1] = 0 THEN 4 ELSE t[1] ELSE 4 * t[1] + t[2]]
RowScores == {<<1, 2, 1>>, <<2, 0, 1>>, <<0, 1, 2>>}
RowTombstones == {{}, {2}, {1, 3}}

True == [kind |-> "true"]
Leaf(col, op, v) == [kind |-> "compare", col |-> col, op |-> op, value |-> v]
In(col, vs) == [kind |-> "in", col |-> col, values |-> vs]
Some(junction, p, q) == [kind |-> junction, parts |-> <<p, q>>]

Wheres ==
  {True, In("id", <<3, 1>>), In("id", <<2, 2>>), Some("or", Leaf("id", "=", 3), In("id", <<1>>)),
   Leaf("value", "=", 2), Leaf("value", "<=", 1), In("value", <<1, 3>>),
   Some("and", Leaf("id", ">", 1), Leaf("value", "#", 2)),
   [kind |-> "between", col |-> "value", low |-> 2, high |-> 1, negated |-> TRUE],
   [kind |-> "like", col |-> "value", pattern |-> {1, 3}, negated |-> FALSE],
   [kind |-> "coalesce", col |-> "value", default |-> 3, op |-> ">", value |-> 2]}

Select ==
  [search |-> FALSE, where |-> True, join |-> FALSE, order |-> "none", descending |-> FALSE,
   distinct |-> FALSE, items |-> "id", limit |-> 2, offset |-> 0, facets |-> FALSE,
   group |-> 0, func |-> "none", having |-> True, cte |-> [kind |-> "none"]]

Ordered2 == {[Select EXCEPT !.order = o, !.descending = d] : o \in {"none", "score", "value"}, d \in BOOLEAN}

Scans == {[Select EXCEPT !.where = w, !.offset = o] : w \in Wheres, o \in {0, 1}}
         \cup {[s EXCEPT !.distinct = TRUE, !.items = "value", !.offset = o] : s \in Ordered2, o \in {0, 1}}
         \cup {[Select EXCEPT !.join = TRUE]}
Searches == {[Select EXCEPT !.search = TRUE, !.where = w, !.limit = 1, !.facets = f] : w \in Wheres, f \in BOOLEAN}
            \cup {[s EXCEPT !.search = TRUE, !.limit = 1, !.offset = 1] : s \in Ordered2}
            \cup {[Select EXCEPT !.search = TRUE, !.distinct = TRUE, !.items = "value", !.order = "value"]}
Groups == {[Select EXCEPT !.limit = 0, !.group = g, !.func = f] : g \in 0 .. 2, f \in {"count", "sum", "avg", "min", "max"}}
          \cup {[Select EXCEPT !.limit = 0, !.func = "count", !.group = g, !.where = w] :
                  g \in {0, 1}, w \in {Leaf("value", ">", 2), In("value", <<2, 3>>)}}
          \cup {[Select EXCEPT !.limit = 1, !.offset = 1, !.func = "count", !.group = 1, !.having = h] :
                  h \in {[kind |-> "value", op |-> ">", value |-> 1], [kind |-> "group", op |-> "#", value |-> 2]}}
          \cup {[Select EXCEPT !.search = TRUE, !.limit = 1, !.func = "count", !.group = 1]}
Nested == {[Select EXCEPT !.cte = [kind |-> "select", search |-> s, distinct |-> TRUE, where |-> Leaf("value", "=", 2)]] :
             s \in BOOLEAN}
RowStatements == Scans \cup Searches \cup Groups \cup Nested

OfNumbers == [int |-> <<10, 2>>]
NoOrder == [int |-> [v \in {1, 3} |-> IF v = 1 THEN 10 ELSE 2]]   \* "10", "1a", "2"

Sql == INSTANCE SqlQuery WITH
  Ids <- RowIds, Values <- RowValues, RightValues <- {1, 3}, KeyOf <- GroupKeys, Scores <- RowScores,
  Tombstones <- RowTombstones, Statements <- RowStatements, WindowFactor <- 2, WindowCap <- 2,
  row <- x1, score <- x2, tombs <- x3, hot <- x4, type <- x5, stmt <- x6, answer <- x7

-----------------------------------------------------------------------------
(* The grammar *)

Plain ==
  [search |-> FALSE, k1 |-> 0, vector |-> <<>>, where |-> "none", order |-> "none", descending |-> FALSE,
   boosts |-> {}, fusion |-> 60, limit |-> 20, offset |-> 0]
Boosted(field, factor) == [field |-> field, factor |-> factor]

WrittenSelects ==
  {[Plain EXCEPT !.search = s.search, !.k1 = s.k1, !.vector = v, !.where = w, !.order = o.column,
                    !.descending = o.descending, !.boosts = b, !.fusion = p.fusion, !.limit = p.limit,
                    !.offset = p.offset] :
     s \in {[search |-> FALSE, k1 |-> 0], [search |-> TRUE, k1 |-> 0], [search |-> TRUE, k1 |-> 2]},
     v \in {<<>>, <<1, 2>>, <<-1, 2>>},
     w \in {"none", "p"},
     o \in {[column |-> "none", descending |-> FALSE], [column |-> "score", descending |-> TRUE],
            [column |-> "score", descending |-> FALSE], [column |-> "a", descending |-> TRUE]},
     b \in {{}, {Boosted("a", 2)}, {Boosted("a", 2), Boosted("b", 3)}},
     p \in {[fusion |-> 60, limit |-> 20, offset |-> 0], [fusion |-> 10, limit |-> 5, offset |-> 3],
            [fusion |-> 60, limit |-> 300, offset |-> 0]}}

Grammar == INSTANCE SqlGrammar WITH
  Chars <- {"a", "q", "w"}, Quote <- "q", Wide <- {"w"}, MaxLength <- 4, MaxNumber <- 255,
  Leaves <- {"p", "r", "b"}, Betweens <- {"b"}, Selects <- WrittenSelects, input <- x1, read <- x2

-----------------------------------------------------------------------------
Init ==
  /\ part \in Parts
  /\ \/ part = "sql" /\ Sql!Init
     \/ /\ part = "grammar" /\ Grammar!Init
        /\ x3 = Unused /\ x4 = Unused /\ x5 = Unused /\ x6 = Unused /\ x7 = Unused

Next ==
  /\ UNCHANGED part
  /\ \/ part = "sql" /\ Sql!Next
     \/ part = "grammar" /\ Grammar!Next /\ UNCHANGED <<x3, x4, x5, x6, x7>>

Spec == Init /\ [][Next]_slots

-----------------------------------------------------------------------------
(* Properties: each module's, of its part *)

\* SELECT gives the page asked for, a stream gives each row once, and each row is
\* counted in one group (sql_exec.rs:453, 693, olap.rs:335).
SelectExact == part = "sql" => Sql!PagesExact /\ Sql!StreamComplete /\ Sql!GroupsPartition

\* What is written is read as it was meant (parser.rs:425, 865, lexer.rs:33).
RoundTrips ==
  part = "grammar" => Grammar!StringsRoundTrip /\ Grammar!PredicatesParse /\ Grammar!ClausesRoundTrip

-----------------------------------------------------------------------------
(* Claims that do not hold: each is to be checked in place of the invariants, *)
(* with Parts the part it is about.                                          *)

\* sql: a filter is applied before the page of a search is cut, groups are of the
\* whole search, rows are counted, a row is shown once, a CTE filters, and values
\* have an order (sql_exec.rs:775, olap.rs:348, persist.rs:1289, sql_exec.rs:522,
\* 173, 63).
WhereComplete == Sql!WhereComplete
GroupsOfSearch == Sql!GroupsOfSearch
CountExact == Sql!CountExact
RowsOnce == Sql!RowsOnce
CteFilters == Sql!CteFilters
OrderTotal == Sql!OrderTotal

\* grammar: statements and texts are kept as they were given (format.rs:3, 20,
\* lexer.rs:48, 117).
KeptWhole == Grammar!KeptWhole
QuotesKept == Grammar!QuotesKept
TextKept == Grammar!TextKept
SignsKept == Grammar!SignsKept

=============================================================================
