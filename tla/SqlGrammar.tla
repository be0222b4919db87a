------------------------------ MODULE SqlGrammar ------------------------------
(***************************************************************************)
(* From text to statements and back.                                       *)
(* (toradb-sql lexer.rs, parser.rs, format.rs)                             *)
(*                                                                         *)
(* Three readers that do not depend on each other are looked at one at a   *)
(* time: of a string in quotes and of a number, of a predicate, and of a   *)
(* SELECT, which is a sequence of clauses.                                 *)
(***************************************************************************)
EXTENDS Integers, Sequences, FiniteSets, FiniteSetsExt, SequencesExt

CONSTANTS
  Chars,        \* characters of a string, Quote among them
  Quote,
  Wide,         \* the characters that take two bytes
  MaxLength,    \* bound: characters of a string
  MaxNumber,    \* 2^32 - 1
  Leaves,       \* predicates without AND, OR and parentheses
  Betweens,     \* those of them that are a BETWEEN
  Selects       \* SELECT statements, as records

VARIABLES
  input,        \* what is written, with its kind
  read          \* what has been read of it

vars == <<input, read>>

---------------------------------------------------------------------------
(* Literals *)

\* The bytes of a text.
Bytes(s) == FlattenSeq([i \in DOMAIN s |-> IF s[i] \in Wide THEN <<<<s[i], 1>>, <<s[i], 2>>>> ELSE <<s[i]>>])

\* (mutant) a quote that is doubled ends the string
ReadStringSingle(s) ==
  LET ends == {i \in DOMAIN s : s[i] = Quote}
  IN [text |-> SubSeq(s, 1, IF ends = {} THEN Len(s) ELSE Min(ends) - 1), ended |-> ends # {}]

\* What follows the opening quote, from byte i on: two quotes are one, and one
\* ends it; every byte becomes a character.
ReadString(s) ==
  LET From[i \in 1 .. Len(s) + 2] ==
        IF i > Len(s) THEN [text |-> <<>>, ended |-> FALSE]
        ELSE IF s[i] # Quote
             THEN LET rest == From[i + 1] IN [rest EXCEPT !.text = <<s[i]>> \o @]
        ELSE IF i < Len(s) /\ s[i + 1] = Quote
             THEN LET rest == From[i + 2] IN [rest EXCEPT !.text = <<Quote>> \o @]
        ELSE [text |-> <<>>, ended |-> TRUE]
  IN From[1]

\* A string as a client has to write it: each quote twice, and one at the end.
Quoted(s) == FlattenSeq([i \in DOMAIN s |-> IF s[i] = Quote THEN <<Quote, Quote>> ELSE <<s[i]>>]) \o <<Quote>>

\* format_select writes a string as it is.
Formatted(s) == s \o <<Quote>>

\* The tokens of a whole number: a sign is no token, nor is a number too large.
ReadNumber(n) ==
  LET size == IF n < 0 THEN -n ELSE n IN IF size > MaxNumber THEN <<>> ELSE <<size>>

---------------------------------------------------------------------------
(* Predicates *)

Failed == [tree |-> <<"none">>, next |-> 0]

\* The tree of a junction of two, one more part if the first is such a junction.
Join(op, left, right) ==
  IF left[1] = op THEN <<op, Append(left[2], right)>> ELSE <<op, <<left, right>>>>

TokenAt(s, i) == IF i \in DOMAIN s THEN s[i] ELSE "end"

RECURSIVE ParseOr(_, _), ParseAnd(_, _), ParsePrimary(_, _), MoreOr(_, _), MoreAnd(_, _)

\* parse_primary_predicate: a group in parentheses or a leaf; x BETWEEN low is one
\* token here, and an AND and the upper bound follow it.
ParsePrimary(s, i) ==
  CASE TokenAt(s, i) = "(" ->
         LET group == ParseOr(s, i + 1)
         IN IF group.next # 0 /\ TokenAt(s, group.next) = ")"
            THEN [group EXCEPT !.next = @ + 1] ELSE Failed
    [] TokenAt(s, i) \in Betweens ->
         IF TokenAt(s, i + 1) = "AND" THEN [tree |-> <<"leaf", s[i]>>, next |-> i + 3] ELSE Failed
    [] TokenAt(s, i) \in Leaves -> [tree |-> <<"leaf", s[i]>>, next |-> i + 1]
    [] OTHER -> Failed

\* An AND in front of the next clause is left for the caller.
MoreAnd(s, left) ==
  IF \/ left.next = 0
     \/ TokenAt(s, left.next) # "AND"
     \/ TokenAt(s, left.next + 1) = "LIMIT"
  THEN left
  ELSE LET right == ParsePrimary(s, left.next + 1)
       IN IF right.next = 0 THEN Failed
          ELSE MoreAnd(s, [tree |-> Join("AND", left.tree, right.tree), next |-> right.next])

\* parse_and_predicate
ParseAnd(s, i) == MoreAnd(s, ParsePrimary(s, i))

MoreOr(s, left) ==
  IF left.next = 0 \/ TokenAt(s, left.next) # "OR" THEN left
  ELSE LET right == ParseAnd(s, left.next + 1)
       IN IF right.next = 0 THEN Failed
          ELSE MoreOr(s, [tree |-> Join("OR", left.tree, right.tree), next |-> right.next])

\* parse_or_predicate
ParseOr(s, i) == MoreOr(s, ParseAnd(s, i))

RECURSIVE Holds(_, _)

\* The value of a tree when the leaves of a set hold.
Holds(tree, set) ==
  CASE tree[1] = "leaf" -> tree[2] \in set
    [] tree[1] = "AND" -> \A i \in DOMAIN tree[2] : Holds(tree[2][i], set)
    [] tree[1] = "OR" -> \E i \in DOMAIN tree[2] : Holds(tree[2][i], set)

\* A tree as a client writes it: parentheses around an OR below an AND only.
RECURSIVE Text(_)
Text(tree) ==
  IF tree[1] = "leaf" THEN IF tree[2] \in Betweens THEN <<tree[2], "AND", "high">> ELSE <<tree[2]>>
  ELSE LET parts == [i \in DOMAIN tree[2] |->
                       IF tree[1] = "AND" /\ tree[2][i][1] = "OR"
                       THEN <<"(">> \o Text(tree[2][i]) \o <<")">> ELSE Text(tree[2][i])]
       IN FoldLeft(LAMBDA all, part : all \o <<tree[1]>> \o part, parts[1], Tail(parts))

---------------------------------------------------------------------------
(* SELECT *)

When(holds, clause) == IF holds THEN <<clause>> ELSE <<>>

Clause(word, value) == [word |-> word, value |-> value]

\* parse_order_by: by score, the highest first
DefaultDescending(column) == column = "score"
Way(descending) == IF descending THEN "DESC" ELSE "ASC"

\* The clauses after FROM that a client writes for a statement.
Written(sel) ==
     When(sel.search, Clause("SPARSE", sel.k1))
  \o When(sel.vector # <<>>, Clause("VECTOR", sel.vector))
  \o When(sel.where # "none", Clause("WHERE", sel.where))
  \o When(sel.order # "none",
          Clause("ORDER", [column |-> sel.order, way |-> IF sel.descending = DefaultDescending(sel.order)
                                                         THEN "" ELSE Way(sel.descending)]))
  \o [i \in 1 .. Len(SetToSeq(sel.boosts)) |-> Clause("BOOST", SetToSeq(sel.boosts)[i])]
  \o When(sel.fusion # 60, Clause("FUSION", sel.fusion))
  \o When(sel.limit # 20, Clause("LIMIT", sel.limit))
  \o When(sel.offset > 0, Clause("OFFSET", sel.offset))

\* format_select: what is kept of a statement, without WHERE and FUSION.
FormatSelect(sel) ==
     When(sel.search, Clause("SPARSE", sel.k1))
  \o When(sel.vector # <<>>, Clause("VECTOR", sel.vector))
  \o When(sel.order # "none", Clause("ORDER", [column |-> sel.order, way |-> Way(sel.descending)]))
  \o [i \in 1 .. Len(SetToSeq(sel.boosts)) |-> Clause("BOOST", SetToSeq(sel.boosts)[i])]
  \o <<Clause("LIMIT", sel.limit)>>
  \o When(sel.offset > 0, Clause("OFFSET", sel.offset))

Defaults ==
  [search |-> FALSE, k1 |-> 0, vector |-> <<>>, where |-> "none", order |-> "none", descending |-> FALSE,
   boosts |-> {}, fusion |-> 60, limit |-> 20, offset |-> 0]

\* parse_sparse_search: a parameter that is not given keeps its value
ReadSparse(sel, k1) == [sel EXCEPT !.search = TRUE, !.k1 = IF k1 = 0 THEN @ ELSE k1]

\* parse_float_list
ReadVector(sel, numbers) == [sel EXCEPT !.vector = FlattenSeq([i \in DOMAIN numbers |-> ReadNumber(numbers[i])])]

ReadOrder(sel, by) ==
  [sel EXCEPT !.order = by.column,
              !.descending = IF by.way = "" THEN DefaultDescending(by.column) ELSE by.way = "DESC"]

\* Boosts add up by field.
ReadBoost(sel, boost) == [sel EXCEPT !.boosts = {b \in @ : b.field # boost.field} \cup {boost}]

\* One turn of the loop of parse_select_stmt: of two clauses the later counts, and
\* a number that is no token leaves the default.
ReadClause(sel, c) ==
  LET Number(default) == IF ReadNumber(c.value) = <<>> THEN default ELSE ReadNumber(c.value)[1]
  IN CASE c.word = "SPARSE" -> ReadSparse(sel, c.value)
       [] c.word = "VECTOR" -> ReadVector(sel, c.value)
       [] c.word = "WHERE" -> [sel EXCEPT !.where = c.value]
       [] c.word = "ORDER" -> ReadOrder(sel, c.value)
       [] c.word = "BOOST" -> ReadBoost(sel, c.value)
       [] c.word = "FUSION" -> [sel EXCEPT !.fusion = Number(@)]
       [] c.word = "LIMIT" -> [sel EXCEPT !.limit = Number(@)]
       [] c.word = "OFFSET" -> [sel EXCEPT !.offset = Number(@)]

\* (mutant) a boost takes the place of the ones before it
ReadBoostOnly(sel, c) == IF c.word = "BOOST" THEN [sel EXCEPT !.boosts = {c.value}] ELSE ReadClause(sel, c)

ParseSelectOneBoost(clauses) == FoldLeft(ReadBoostOnly, Defaults, clauses)

ParseSelect(clauses) == FoldLeft(ReadClause, Defaults, clauses)

---------------------------------------------------------------------------
(* The machine: something is written, and then read *)

Strings == BoundedSeq(Chars, MaxLength)

Trees0 == {<<"leaf", leaf>> : leaf \in Leaves}
Pairs(trees) == {<<op, <<left, right>>>> : op \in {"AND", "OR"}, left \in trees, right \in trees}
Trees == LET one == Trees0 \cup Pairs(Trees0) IN one \cup Pairs(one)

Nothing == [kind |-> "none"]

Init ==
  /\ input \in [kind : {"string"}, of : Strings] \cup [kind : {"predicate"}, of : Trees]
              \cup [kind : {"select"}, of : Selects, reversed : BOOLEAN]
  /\ read = Nothing

Tokenize ==
  /\ input.kind = "string" /\ read = Nothing
  /\ read' = [kind |-> "string", text |-> ReadString(Bytes(Quoted(input.of))), kept |-> ReadString(Bytes(Formatted(input.of)))]
  /\ UNCHANGED input

ParseWhere ==
  /\ input.kind = "predicate" /\ read = Nothing
  /\ read' = [kind |-> "predicate", of |-> ParseOr(Text(input.of) \o <<"LIMIT">>, 1)]
  /\ UNCHANGED input

\* A statement is read, and written and read again for a view that is refreshed.
Parse ==
  /\ input.kind = "select" /\ read = Nothing
  /\ LET clauses == IF input.reversed THEN Reverse(Written(input.of)) ELSE Written(input.of)
     IN read' = [kind |-> "select", of |-> ParseSelect(clauses), kept |-> ParseSelect(FormatSelect(ParseSelect(clauses)))]
  /\ UNCHANGED input

Next == Tokenize \/ ParseWhere \/ Parse

Spec == Init /\ [][Next]_vars

---------------------------------------------------------------------------
(* Properties *)

TypeOK ==
  /\ input.kind \in {"string", "predicate", "select"}
  /\ read.kind \in {"none", input.kind}

\* A string of characters of one byte that is written with its quotes doubled is
\* read as it was, up to its last quote (lexer.rs:33).
StringsRoundTrip ==
  read.kind = "string" /\ ToSet(input.of) \cap Wide = {} => read.text = [text |-> input.of, ended |-> TRUE]

\* A predicate written with the parentheses that are needed is read to its end,
\* and what is read is true of the same rows: AND binds closer than OR, the AND
\* of a BETWEEN joins nothing, and groups keep together (parser.rs:425).
PredicatesParse ==
  read.kind = "predicate" =>
    /\ read.of.next = Len(Text(input.of)) + 1
    /\ \A set \in SUBSET Leaves : Holds(read.of.tree, set) <=> Holds(input.of, set)

\* The numbers the lexer has tokens for: not negative and below 2^32.
Plain(sel) ==
  \A n \in ToSet(sel.vector) \cup {sel.limit, sel.offset, sel.fusion} : n \in 0 .. MaxNumber

\* A statement is read as it was meant, whatever the order of its clauses
\* (parser.rs:865).
ClausesRoundTrip == read.kind = "select" /\ Plain(input.of) => read.of = input.of

\* Claim that does not hold: a statement kept for a view is the one that was
\* given, "Format a parsed retrieval SELECT back into SQL (for materialized view
\* refresh)" (format.rs:3).  WHERE and FUSION K are not written, nor are
\* DISTINCT, HYDE, CRAG, GRAPH EXPAND and DISTRIBUTED.
KeptWhole == read.kind = "select" => read.kept = read.of

\* Claim that does not hold: a search text with a quote can be kept (format.rs:20).
QuotesKept == read.kind = "string" => read.kept.text = input.of

\* Claim that does not hold: any text can be written as a string.  The lexer
\* takes each byte of a character for a character of its own (lexer.rs:48).
TextKept == read.kind = "string" => read.text.text = input.of

\* Claim that does not hold: a vector can be given with its signs (lexer.rs:117).
SignsKept == read.kind = "select" => read.of.vector = input.of.vector

=============================================================================
