------------------------------ MODULE TextSearch ------------------------------
(***************************************************************************)
(* Ranking documents by their text: the scan of the posting lists of a     *)
(* query that skips documents which cannot be among the k best.            *)
(* (toradb-index sparse/bm25.rs: bm25_search over an index in memory;      *)
(*  sparse/bm25_tbm3.rs: Bm25Tbm3View::search over a TBM3 file)            *)
(*                                                                         *)
(* A turn of the loop is a step.  A posting list is the function tf; a     *)
(* cursor is the smallest id it may still stand on, so that a search for   *)
(* the next id by doubling, by halving or by blocks is the same operator.  *)
(* Scores are numbers: only that they grow with tf, fall with the length   *)
(* of the document and with the number of documents of the term, and stay  *)
(* below the bound, is what the scan relies on.                            *)
(***************************************************************************)
EXTENDS Integers, Sequences, FiniteSets, FiniteSetsExt, Functions

CONSTANTS
  MaxId,        \* bound: the largest id of a document
  Terms,        \* terms, numbered in the order of their names
  Tfs,          \* texts: term -> id -> how often
  Queries,      \* term -> how often the query has it
  Ks,           \* numbers of results
  MaxTerms,     \* MAX_QUERY_TERMS, 32
  BlockSize,    \* BLOCK_SIZE, 128
  DeltaWidth,   \* 2^32: a gap between two ids is kept in as many bits
  Workers,      \* threads a large scan is cut for, at most 8
  Scale         \* (k1 + 1): the bound of what a term adds, per weight

VARIABLES
  kind,      \* "memory" or "file"
  texts,     \* term -> document -> how often, of the documents that were indexed
  tf,        \* the same, of the index that is searched
  query, k,
  terms,     \* terms of the query that are scanned
  spans,     \* the ranges of ids the scan is cut into, still to be scanned
  at,        \* term -> where its cursor is
  heap,      \* the best documents of this range
  found      \* the best documents of the ranges before

vars == <<kind, texts, tf, query, k, terms, spans, at, heap, found>>

Ids == 0 .. MaxId
Top == MaxId + 1   \* beyond every id: a cursor at its end, DocId::MAX

---------------------------------------------------------------------------
(* Posting lists on file *)

\* Blocks of a posting list, in the order of ids (append_posting_blob).
Listed(list) == {d \in Ids : list[d] > 0}
BlockOf(list, d) == Cardinality({e \in Listed(list) : e < d}) \div BlockSize
Block(list, b) == {d \in Listed(list) : BlockOf(list, d) = b}

\* The last id of the block before, from which the gaps of a block start.
BlockStart(list, b) == IF b = 0 THEN 0 ELSE Max(Block(list, b - 1))

\* The gap to the id before, in the width of the file.
Delta(list, d) == (d - Max({0} \cup {e \in Listed(list) : e < d})) % DeltaWidth

\* decode_block_at
DecodedId(list, d) ==
  LET b == BlockOf(list, d)
  IN BlockStart(list, b)
       + SumFunctionOnSet([e \in Ids |-> Delta(list, e)], {e \in Block(list, b) : e <= d})

\* encode_tbm3, and what is read from it (ids that fall together are not told
\* apart)
OnFile(lists) ==
  [t \in Terms |-> [i \in Ids |->
     SumFunctionOnSet(lists[t], {d \in Listed(lists[t]) : DecodedId(lists[t], d) = i})]]

---------------------------------------------------------------------------
(* Weights and scores *)

Posted(t) == Listed(tf[t])
DocFreq(t) == Cardinality(Posted(t))

\* ln((n - df + 0.5) / (df + 0.5) + 1): positive, falls with df
Idf(t) == 1 + Cardinality(Ids) - DocFreq(t)

DocLen(d) == SumFunctionOnSet([t \in Terms |-> tf[t][d]], Terms)

\* At most MAX_QUERY_TERMS terms are kept, the rarest; of equal ones the first
\* by name (memory) or in the query, which both are the smaller number here.
Rarest(set, n) ==
  {t \in set : Cardinality({u \in set : Idf(u) > Idf(t) \/ (Idf(u) = Idf(t) /\ u < t)}) < n}

\* Terms of the query with a posting list, each once (cursors_for, bm25_search).
QueryTerms == Rarest({t \in Terms : query[t] > 0 /\ Posted(t) # {}}, MaxTerms)

\* A term the query repeats weighs more in memory, and not on file.
Weight(t) == IF kind = "memory" THEN Idf(t) * query[t] ELSE Idf(t)

\* term_doc_score normalises by the length of the document, tf_component, which
\* does not know it, by tf itself.
TermDocScore(t, d) ==
  (Weight(t) * Scale * tf[t][d])
     \div (tf[t][d] + (IF kind = "memory" THEN DocLen(d) ELSE 1))

Score(d, set) == SumFunctionOnSet([t \in Terms |-> TermDocScore(t, d)], {t \in set : d \in Posted(t)})

\* (mutant) the maximum of the last block stands for all
BlockMaxOfLast(t, d) ==
  Max({TermDocScore(t, e) : e \in Block(tf[t], BlockOf(tf[t], Max(Posted(t))))})

\* block_max_tf times idf
BlockMax(t, d) == Max({TermDocScore(t, e) : e \in Block(tf[t], BlockOf(tf[t], d))})

\* The bound of what the term may add to any document: max_contrib, term_max.
TermMax(t) ==
  IF kind = "memory" THEN Weight(t) * Scale
  ELSE Max({BlockMax(t, d) : d \in Posted(t)})

---------------------------------------------------------------------------
(* The k best *)

Item(d) == [doc |-> d, score |-> Score(d, terms)]

\* HeapItem, ScoredDoc: the larger score, of equal ones the smaller id
Beats(x, y) == x.score > y.score \/ (x.score = y.score /\ x.doc < y.doc)

Worst(set) == CHOOSE x \in set : \A y \in set : ~Beats(x, y)

\* push_topk
PushTopK(set, item) ==
  IF Cardinality(set) < k THEN set \cup {item}
  ELSE IF Beats(item, Worst(set)) THEN (set \ {Worst(set)}) \cup {item} ELSE set

MergeTopK(set, items) == FoldSet(LAMBDA x, acc : PushTopK(acc, x), set, items)

Full == Cardinality(heap) >= k
Threshold == Worst(heap).score

---------------------------------------------------------------------------
(* Cursors *)

Rest(t) == {d \in Posted(t) : d >= at[t]}
Open == {t \in terms : Rest(t) # {}}
Current(t) == Min(Rest(t))

\* advance_to, in memory and over blocks
AdvanceTo(set, target) == [t \in Terms |-> IF t \in set /\ at[t] < target THEN target ELSE at[t]]

\* The bound of all terms whose cursor is at d or before it.
BoundUpTo(d) == SumFunctionOnSet([t \in Open |-> TermMax(t)], {t \in Open : Current(t) <= d})

\* A single term on file is read from its first document to its last.
Linear == kind = "file" /\ Cardinality(terms) = 1

\* In memory a tie is lost, as ids ascend; on file it is looked at.
Reaches(bound) ==
  \/ ~Full \/ Linear
  \/ IF kind = "memory" THEN bound > Threshold ELSE bound >= Threshold

\* The pivot is the first of these: documents that may be among the k best.
Pivots == {d \in {Current(t) : t \in Open} : Reaches(BoundUpTo(d))}
Pivot == Min(Pivots)

Lo == Head(spans)[1]
Hi == Head(spans)[2]

Scanning == spans # <<>>

\* Documents left to look at in this range; none, and the range is done.
Scannable == Scanning /\ Pivots # {} /\ (kind = "file" => Pivot < Hi)

Matching == {t \in Open : Current(t) = Pivot}
First == Min({Current(t) : t \in Open})

\* The blocks the pivot is in may show that it is not good enough.
SkipsBlock ==
  /\ kind = "file" /\ ~Linear /\ Full
  /\ SumFunctionOnSet([t \in Matching |-> BlockMax(t, Pivot)], Matching) < Threshold

---------------------------------------------------------------------------
(* The scan *)

\* Equal ranges of ids for the threads, the last one open.
Ranges(parts) ==
  LET last == Max(UNION {Posted(t) : t \in terms})
      span == Max({1, last \div parts})
  IN [w \in 1 .. parts |-> <<(w - 1) * span, IF w = parts THEN Top ELSE w * span>>]

\* The blocks of a single term, in runs of the same number.
BlockRanges(parts) ==
  LET t == CHOOSE u \in terms : TRUE
      blocks == 1 + BlockOf(tf[t], Max(Posted(t)))
      each == (blocks + parts - 1) \div parts
      from(w) == IF w * each >= blocks THEN Top ELSE Min(Block(tf[t], w * each))
  IN [w \in 1 .. parts |-> <<from(w - 1), from(w)>>]

\* The cursors of a range start with it.
Start(parts) == [t \in Terms |-> IF parts = <<>> THEN Top ELSE Head(parts)[1]]

Init ==
  /\ kind \in {"memory", "file"} /\ query \in Queries /\ k \in Ks
  /\ texts \in Tfs /\ tf = IF kind = "memory" THEN texts ELSE OnFile(texts)
  /\ terms = QueryTerms
  /\ IF terms = {} THEN spans = <<>>
     ELSE \E parts \in IF kind = "memory" THEN {1} ELSE {1, Workers} :
            spans = IF parts = 1 THEN << <<0, Top>> >>
                    ELSE IF Linear THEN BlockRanges(parts) ELSE Ranges(parts)
  /\ at = Start(spans) /\ heap = {} /\ found = {}

\* The pivot has every cursor before it: it is scored and the cursors on it move.
ScorePivot ==
  /\ Scannable /\ First = Pivot /\ ~SkipsBlock
  /\ heap' = PushTopK(heap, [doc |-> Pivot, score |-> Score(Pivot, Matching)])
  /\ at' = AdvanceTo(Matching, Pivot + 1)
  /\ UNCHANGED <<kind, texts, tf, query, k, terms, spans, found>>

SkipPivot ==
  /\ Scannable /\ First = Pivot /\ SkipsBlock
  /\ at' = AdvanceTo(Matching, Pivot + 1)
  /\ UNCHANGED <<kind, texts, tf, query, k, terms, spans, heap, found>>

\* Every cursor before the pivot moves to it.
MoveToPivot ==
  /\ Scannable /\ First # Pivot
  /\ at' = AdvanceTo(Open, Pivot)
  /\ UNCHANGED <<kind, texts, tf, query, k, terms, spans, heap, found>>

\* The range is done; the next one starts with cursors of its own.
EndRange ==
  /\ Scanning /\ ~Scannable
  /\ found' = MergeTopK(found, heap) /\ heap' = {}
  /\ spans' = Tail(spans)
  /\ at' = Start(Tail(spans))
  /\ UNCHANGED <<kind, texts, tf, query, k, terms>>

Next == ScorePivot \/ SkipPivot \/ MoveToPivot \/ EndRange

Spec == Init /\ [][Next]_vars

---------------------------------------------------------------------------
(* Properties *)

\* The k best of all documents with a term of the query, one by one
\* (bm25_tbm3.rs:518, brute_search).
BestOf(items) ==
  {x \in items : Cardinality({y \in items : Beats(y, x)}) < k}

TypeOK ==
  /\ tf \in [Terms -> [Ids -> Nat]] /\ at \in [Terms -> Nat]
  /\ \A x \in heap \cup found : x.doc \in Ids /\ x.score \in Nat
  /\ Cardinality(heap) <= k /\ Cardinality(found) <= k

\* Whatever was skipped on the way, the result is the one of a full scan: bounds
\* of terms and of blocks are never too low, ties go to the smaller id although
\* the ranges of a file are scanned apart, and a file gives back the lists it was
\* written from (bm25_tbm3.rs:936, bm25.rs:425).
ScanExact ==
  ~Scanning => found = BestOf({Item(d) : d \in UNION {Listed(texts[t]) : t \in terms}})

\* A document the cursors of a range have passed is among its k best so far, or
\* k better ones are: no document is given up before the heap is full.
PassedAreBeaten ==
  Scanning =>
    \A t \in terms : \A d \in Posted(t) :
      d >= Lo /\ d < at[t] => \/ Item(d) \in heap
                              \/ Full /\ Beats(Worst(heap), Item(d))

---------------------------------------------------------------------------
(* Inductive strengthening of TypeOK, PassedAreBeaten and ScanExact *)

TextConstants ==
  /\ MaxId \in Nat /\ Terms \subseteq Nat /\ IsFiniteSet(Terms)
  /\ Tfs \subseteq [Terms -> [Ids -> Nat]] /\ Queries \subseteq [Terms -> Nat] /\ Ks \subseteq Nat \ {0}
  /\ {BlockSize, DeltaWidth, Workers} \subseteq Nat \ {0} /\ {MaxTerms, Scale} \subseteq Nat

\* What a search does not change.
QueryInv ==
  /\ kind \in {"memory", "file"} /\ texts \in Tfs /\ tf = IF kind = "memory" THEN texts ELSE OnFile(texts)
  /\ query \in Queries /\ k \in Ks
  /\ terms \subseteq Terms /\ \A t \in terms : Posted(t) # {}

\* Ranges follow each other, and the last one is open; in memory there is one.
SpansInv ==
  /\ kind = "memory" => Len(spans) <= 1
  /\ spans \in Seq(Nat \X Nat)
  /\ \A i \in 1 .. Len(spans) - 1 : spans[i][1] <= spans[i][2] /\ spans[i][2] = spans[i + 1][1]
  /\ Scanning => spans[Len(spans)][2] = Top

Docs == UNION {Posted(t) : t \in terms}
Items(docs) == {Item(d) : d \in docs}

\* The items of top are the k best of those of items.
IsTop(top, items) ==
  /\ top \subseteq items /\ Cardinality(top) <= k
  /\ \A x \in items \ top : Cardinality(top) = k /\ \A y \in top : Beats(y, x)

\* Documents of this range that a cursor has passed.
Passed == UNION {{d \in Posted(t) : Lo <= d /\ d < at[t]} : t \in terms}

\* The documents that were passed come before those that were not.
CursorsInv ==
  /\ at \in [Terms -> Nat]
  /\ Scanning => \A t \in terms : Lo <= at[t] /\ (at[t] = Lo \/ at[t] <= Hi)
  /\ Scanning => \A d \in Passed, t \in terms : \A e \in Rest(t) : d < e

TopInv ==
  /\ Scanning => IsTop(heap, Items(Passed)) /\ IsTop(found, Items({d \in Docs : d < Lo}))
  /\ ~Scanning => heap = {} /\ IsTop(found, Items(Docs))

ScanInv == QueryInv /\ SpansInv /\ CursorsInv /\ TopInv
=============================================================================
