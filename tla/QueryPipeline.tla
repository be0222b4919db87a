----------------------------- MODULE QueryPipeline -----------------------------
(***************************************************************************)
(* The pure part of a search: what each tier does to the candidates.       *)
(* (toradb-core candidate.rs, exec_ctx.rs; toradb-index runtime.rs, graph/ *)
(*  and filter/; toradb-engine table_search.rs, adaptive.rs, fusion.rs,    *)
(*  advanced.rs, lowering.rs, operator.rs, rerank.rs, join.rs,             *)
(*  scheduler.rs; toradb-distributed coordinator.rs)                       *)
(*                                                                         *)
(* A candidate is a record of an id and a score.  Scores are integers; a   *)
(* reciprocal 1/n of rank fusion is RrfUnit \div n.                        *)
(***************************************************************************)
EXTENDS Integers, Sequences, FiniteSets, SequencesExt

Candidate(id, score) == [id |-> id, score |-> score]
Ids(cands) == {cands[i].id : i \in DOMAIN cands}

LesserOf(a, b) == IF a < b THEN a ELSE b
GreaterOf(a, b) == IF a > b THEN a ELSE b

---------------------------------------------------------------------------
(* Lists: SortSeq, SelectSeq and FlattenSeq, by the places of their elements. *)

\* The members of S as a list, in a strict order of them all.
Arranged(S, order) ==
  [n \in 1 .. Cardinality(S) |-> CHOOSE x \in S : Cardinality({y \in S : <<y, x>> \in order}) = n - 1]

InOrder(places) == Arranged(places, {e \in places \X places : e[1] < e[2]})

\* What a list has at these places.
At(list, places) ==
  LET order == InOrder(places) IN [n \in DOMAIN order |-> list[order[n]]]

\* One list after the other.
Joined(lists) ==
  LET places == UNION {{j} \X DOMAIN lists[j] : j \in DOMAIN lists}
      order == Arranged(places, {e \in places \X places :
                                   e[1][1] < e[2][1] \/ (e[1][1] = e[2][1] /\ e[1][2] < e[2][2])})
  IN [n \in DOMAIN order |-> lists[order[n][1]][order[n][2]]]

---------------------------------------------------------------------------
(* CandidateSet *)

Truncate(cands, max) == SubSeq(cands, 1, LesserOf(max, Len(cands)))

\* Best score first, ties by the smaller id; equal candidates keep their order.
Better(a, b) == a.score > b.score \/ (a.score = b.score /\ a.id < b.id)
SortByScore(cands) ==
  LET places == DOMAIN cands
      order == Arranged(places, {e \in places \X places :
                                   \/ Better(cands[e[1]], cands[e[2]])
                                   \/ ~Better(cands[e[2]], cands[e[1]]) /\ e[1] < e[2]})
  IN [n \in places |-> cands[order[n]]]

\* A set of candidates, the best first.
Ranked(set) == Arranged(set, {e \in set \X set : Better(e[1], e[2])})

RemoveIds(cands, deleted) == At(cands, {i \in DOMAIN cands : cands[i].id \notin deleted})

SliceRange(cands, offset, limit) ==
  SubSeq(cands, offset + 1, LesserOf(offset + limit, Len(cands)))

---------------------------------------------------------------------------
(* Budgets *)

DenseStrategies == {"dense", "vector", "hnsw", "diskann", "ann"}
SparseStrategies == {"sparse", "bm25", "text"}

\* exec_ctx: a page fetches its offset as well, and twenty times as much when
\* facets or ranking knobs need more than the page.
Fetch(k, offset, widen) ==
  LET fetch == LesserOf(offset + k, 1000)
  IN IF widen THEN GreaterOf(LesserOf(20 * fetch, 1000), fetch) ELSE fetch

ExecCtx(fetch) ==
  [tier1 |-> LesserOf(50 * fetch, 1000), tier2 |-> LesserOf(5 * fetch, 100),
   tier3 |-> fetch]

TuneCtx(base, words, strategy) ==
  LET ctx == [base EXCEPT !.tier1 = @ + LesserOf(8 * GreaterOf(words, 1), 400) \div 2]
  IN CASE strategy \in {"sparse", "bm25"}    -> [ctx EXCEPT !.tier2 = (@ * 3) \div 4]
       [] strategy \in DenseStrategies       -> [ctx EXCEPT !.tier1 = LesserOf(2 * @, 2000)]
       [] strategy \in {"graph", "hybrid"}   -> [ctx EXCEPT !.tier2 = LesserOf(2 * @, 500)]
       [] strategy \in {"hyde", "crag"}      -> [ctx EXCEPT !.tier2 = (@ * 3) \div 2]
       [] OTHER                              -> ctx

\* configure_batch: which tiers a search runs.  A table in segment-only mode
\* is searched by text alone unless the caller picks a strategy; the dense tier
\* wants a vector, the caller's or one made from the words of the query.
Configure(strategy, segmentOnly, hasVector, dimKnown) ==
  LET s == IF strategy = "none" /\ segmentOnly THEN "sparse" ELSE strategy
      dense == s \notin SparseStrategies
  IN [strategy |-> s,
      sparse   |-> s \notin DenseStrategies,
      dense    |-> dense /\ (hasVector \/ dimKnown),
      vector   |-> hasVector \/ (dense /\ dimKnown),
      hyde     |-> s = "hyde",
      crag     |-> s = "crag",
      graph    |-> s \in {"graph", "hybrid"},
      distributed |-> s = "distributed"]

---------------------------------------------------------------------------
(* Tiers 1 and 2 in memory *)

\* push_cap in run_tier1: the lists of the index searches one after the other,
\* up to the budget; nothing removes an id that two of them found.
PushCap(lists, cap) == Truncate(Joined(lists), cap)

\* acorn::refine without a field filter: drops what does not score.
Refine(cands, cap) == Truncate(At(cands, {i \in DOMAIN cands : cands[i].score > 0}), cap)

\* acorn::refine with a field filter: only documents in memory can pass it.
RefineFiltered(cands, matching, cap) ==
  Truncate(At(cands, {i \in DOMAIN cands : cands[i].id \in matching}), cap)

NeighbourScore == 4   \* 0.4, in tenths

\* CsrGraph: ids added one after the other are joined.  The walk from one id
\* visits breadth first, the smaller neighbour before the larger, as far as
\* depth edges.
NeighboursOf(edges, id, depth) ==
  LET side[n \in 1 .. depth] ==
        [below |-> \A m \in 0 .. n - 1 : {id - m - 1, id - m} \in edges,
         above |-> \A m \in 0 .. n - 1 : {id + m, id + m + 1} \in edges]
      at(n) == (IF side[n].below THEN <<Candidate(id - n, NeighbourScore)>> ELSE <<>>)
               \o (IF side[n].above THEN <<Candidate(id + n, NeighbourScore)>> ELSE <<>>)
  IN Joined([n \in 1 .. depth |-> at(n)])

\* graph_expand::expand: the candidates, then what the graph joins to them; no
\* id is looked at twice and no tombstone is asked for.
Expand(cands, edges, depth) ==
  Truncate(cands \o Joined([i \in DOMAIN cands |-> NeighboursOf(edges, cands[i].id, depth)]),
           GreaterOf(256, Len(cands)))

\* run_tier2: the refined candidates, then the expanded ones, up to the budget.
Tier2(refined, expanded, cap) == Truncate(refined \o expanded, cap)

RrfUnit == 1000000

\* The sum of a list of numbers.
Total(terms) ==
  LET sum[n \in 0 .. Len(terms)] == IF n = 0 THEN 0 ELSE sum[n - 1] + terms[n]
  IN sum[Len(terms)]

\* The sum of 1 / (k + rank) over all the places in a and in b where an id is met.
RrfScore(a, b, k, id) ==
  LET all == a \o b
      rank(i) == IF i <= Len(a) THEN i ELSE i - Len(a)
  IN Total([i \in DOMAIN all |-> IF all[i].id = id THEN RrfUnit \div (k + rank(i)) ELSE 0])

\* rrf_merge: every id once, in the order it is first met in a, then in b.
RrfMerge(a, b, k) ==
  LET all == a \o b
      first == InOrder({i \in DOMAIN all : \A j \in 1 .. i - 1 : all[j].id # all[i].id})
  IN [n \in DOMAIN first |-> Candidate(all[first[n]].id, RrfScore(a, b, k, all[first[n]].id))]

\* apply_crag: keep what scores at least the upper median.
ApplyCrag(cands) ==
  IF Len(cands) <= 1 THEN cands
  ELSE LET scores == SortSeq([i \in DOMAIN cands |-> cands[i].score],
                             LAMBDA x, y : x < y)
           median == scores[Len(scores) \div 2 + 1]
       IN At(cands, {i \in DOMAIN cands : cands[i].score >= median})

---------------------------------------------------------------------------
(* Segments, tier 3 and what is done to the page *)

SegmentK(ctx) == LesserOf(2 * ctx.tier3, ctx.tier1)

\* SegmentScheduler: a list that fits is left as it is, in the order the
\* segments were scanned; only a longer one is sorted before it is cut.
LocalTopK(cands, k) ==
  IF Len(cands) <= k THEN cands ELSE Truncate(SortByScore(cands), k)

GlobalMerge(locals, k) ==
  LocalTopK(Joined([i \in DOMAIN locals |-> LocalTopK(locals[i], k)]), k)

\* Coordinator::search_segments: the lists of the workers in the order of the
\* segments, cut at four times k before they are sorted.
CoordinatorMerge(locals, k) ==
  Truncate(SortByScore(Truncate(Joined(locals), 4 * k)), k)

\* tier3_rescore: only with a query vector; a candidate whose vector is not at
\* hand keeps the score of another kind it had.
Tier3Rescore(cands, exact, cap) ==
  Truncate(SortByScore([i \in DOMAIN cands |->
             IF cands[i].id \in DOMAIN exact
             THEN Candidate(cands[i].id, exact[cands[i].id]) ELSE cands[i]]), cap)

\* apply_ranking_knobs_with_docs: a factor for each boosted field and for the
\* age of the document, 1 for a document that was not found.
RankingKnobs(cands, factor) ==
  SortByScore([i \in DOMAIN cands |->
    IF cands[i].id \in DOMAIN factor
    THEN Candidate(cands[i].id, cands[i].score * factor[cands[i].id]) ELSE cands[i]])

\* run_table_search: the knobs, which need the documents of all candidates, come
\* before the page is cut.
TablePage(cands, factor, offset, limit) ==
  SliceRange(IF factor = <<>> THEN cands ELSE RankingKnobs(cands, factor), offset, limit)

\* apply_metadata_join: left rows whose value some right row has; a candidate
\* that is not in memory, or has no value, is dropped.
MetadataJoin(cands, leftValue, rightValues) ==
  At(cands, {i \in DOMAIN cands : /\ cands[i].id \in DOMAIN leftValue
                                  /\ leftValue[cands[i].id] \in rightValues})
=============================================================================
