----------------------------- MODULE SegmentSearch -----------------------------
(***************************************************************************)
(* Searching a table: the corpus of the handle, the indexes beside the     *)
(* segments, the route file, and what handles and workers keep of them.    *)
(* (toradb-engine dag.rs: run, tombstones_for, delete_by_ids;              *)
(*  persist.rs: the BM25 sidecars and the route; toradb-storage cache.rs;  *)
(*  toradb-distributed coordinator.rs, worker.rs)                          *)
(*                                                                         *)
(* Several handles share the directory; a file is replaced by renaming, so *)
(* what a cache maps keeps the old content.  Each call is one step: what a *)
(* crash does to the files is in SegmentStore, overlapping ingests are in  *)
(* BulkIngest.  A document has one word, and one score for it.             *)
(***************************************************************************)
EXTENDS QueryPipeline

CONSTANTS
  Handles,        \* handles open on the directory
  Searchers,      \* those that searches go through (what a search leaves in a
                  \* handle no other handle reads)
  Loaders,        \* those that ingest in bulk
  Nodes,          \* number of workers of the cluster
  Words,          \* the words of documents
  Queries,        \* the words searched for
  Batches,        \* what one call may ingest when so many documents have been
                  \* added: sequences of [word, score]
  MaxDocs,        \* bound: documents ever added
  MaxMerges,      \* bound: compactions
  MaxDeletes,     \* bound: documents deleted
  MaxSearches,    \* bound: searches
  MaxOpens,       \* bound: times a handle is opened anew
  RoutedMin,      \* ROUTED_QUERY_MIN_SEGMENTS
  PageSize,       \* top_k of every search
  Offsets,        \* the offsets searches ask for
  LossesAfter,    \* bound: after how many calls of one search one may be lost
  Graphs          \* whether they ask for the neighbours in the graph

ASSUME SearchAssumption ==
  /\ DOMAIN Batches = 0 .. MaxDocs
  /\ Nodes \in Nat \ {0} /\ RoutedMin \in Nat \ {0} /\ PageSize \in Nat \ {0}
  /\ {MaxDocs, MaxMerges, MaxDeletes, MaxSearches, MaxOpens} \subseteq Nat /\ Offsets \subseteq Nat
  /\ Graphs \subseteq BOOLEAN /\ LossesAfter \subseteq Nat
  /\ Queries \subseteq Words /\ {Searchers, Loaders} \subseteq SUBSET Handles
  /\ \A n \in DOMAIN Batches : \A b \in Batches[n] : b \in Seq([word : Words, score : Nat \ {0}]) /\ b # <<>>

VARIABLES
  segments,    \* manifest: names of the segments in order
  segmentOnly, \* manifest: index mode
  routed,      \* manifest: query mode
  rows,        \* name -> documents of the Parquet file
  index,       \* name -> <name>.bm25.bin and its lexicon
  route,       \* bm25.route.bin
  tombs,       \* tombstones.bin
  added,       \* documents added so far; the next gets the next id
  merges, searches, opens,
  mem,         \* handle -> documents of its corpus
  joined,      \* handle -> ids its corpus has joined to the one before
  session,     \* handle -> whether it is in a bulk ingest
  tombCache, indexCache, routeCache,   \* handle -> what it keeps of the files
  nodeCache,   \* worker -> indexes it keeps
  own,         \* history: handle -> ids deleted through it
  answer       \* the last search and what came of it

manifestVars == <<segments, segmentOnly, routed>>
diskVars == <<manifestVars, rows, index, route, tombs, added>>
counters == <<merges, searches, opens>>
handleVars == <<mem, joined, session>>
cacheVars == <<tombCache, indexCache, routeCache, nodeCache>>
vars == <<diskVars, counters, handleVars, cacheVars, own, answer>>

Names == 1 .. MaxDocs + MaxMerges
DocIds == 0 .. MaxDocs - 1
Absent == [there |-> FALSE, docs |-> {}]
Built(docs) == [there |-> TRUE, docs |-> docs]
NoRoute == [there |-> FALSE, of |-> [w \in Words |-> {}]]
NoAnswer == [via |-> "nothing"]

Listed == ToSet(segments)
Live == UNION {rows[n] : n \in Listed}

Init ==
  /\ segments = <<>> /\ segmentOnly = FALSE /\ routed = FALSE
  /\ rows = [n \in Names |-> {}] /\ index = [n \in Names |-> Absent]
  /\ route = NoRoute /\ tombs = {} /\ added = 0
  /\ merges = 0 /\ searches = 0 /\ opens = 0
  /\ mem = [h \in Handles |-> {}] /\ joined = [h \in Handles |-> {}]
  /\ session = [h \in Handles |-> FALSE]
  /\ tombCache = [h \in Handles |-> [known |-> FALSE, ids |-> {}]]
  /\ indexCache = [h \in Handles |-> [n \in Names |-> Absent]]
  /\ routeCache = [h \in Handles |-> NoRoute]
  /\ nodeCache = [w \in 0 .. Nodes - 1 |-> [n \in Names |-> Absent]]
  /\ own = [h \in Handles |-> {}] /\ answer = NoAnswer

---------------------------------------------------------------------------
(* Ingest, deletion and compaction *)

\* The next documents get the next ids (that ids are fresh is the subject of
\* SegmentStore and BulkIngest).
NewDocs(batch) == {[id |-> added + i - 1, word |-> batch[i].word, score |-> batch[i].score]
                   : i \in DOMAIN batch}

\* flush_batch_with_opts names the segment after the number of segments (what
\* becomes of a live segment of that name is in SegmentStore).
FlushSegment(docs, built) ==
  LET n == Len(segments) + 1
  IN /\ n \notin Listed /\ added + Cardinality(docs) <= MaxDocs
     /\ segments' = Append(segments, n)
     /\ rows' = [rows EXCEPT ![n] = docs]
     /\ index' = IF built THEN [index EXCEPT ![n] = Built(docs)] ELSE index
     /\ added' = added + Cardinality(docs)

\* add_documents outside a bulk ingest: the corpus of this handle has them, and
\* the segment gets its index at once.
AddDocuments(h, batch) ==
  LET docs == NewDocs(batch)
  IN /\ ~session[h]
     /\ FlushSegment(docs, TRUE)
     /\ mem' = [mem EXCEPT ![h] = @ \cup docs]
     /\ joined' = [joined EXCEPT ![h] = @ \cup ({d.id : d \in docs} \ {0})]
     /\ answer' = NoAnswer
     /\ UNCHANGED <<segmentOnly, routed, route, tombs, counters, session, cacheVars, own>>

BeginBulkIngest(h) ==
  /\ ~session[h]
  /\ session' = [session EXCEPT ![h] = TRUE]
  /\ segmentOnly' = TRUE
  /\ answer' = NoAnswer
  /\ UNCHANGED <<segments, routed, rows, index, route, tombs, added, counters, mem, joined,
                 cacheVars, own>>

\* flush_ingest_batch_disk_only: a segment without an index, and nothing in memory.
BulkAdd(h, batch) ==
  /\ session[h]
  /\ FlushSegment(NewDocs(batch), FALSE)
  /\ answer' = NoAnswer
  /\ UNCHANGED <<segmentOnly, routed, route, tombs, counters, handleVars, cacheVars, own>>

\* (mutant) the places are counted from 0
RouteOverFromZero(order, idx) ==
  [there |-> TRUE,
   of |-> [w \in Words |-> {i - 1 : i \in {j \in DOMAIN order :
                                          w \in {d.word : d \in idx[order[j]].docs}}}]]

\* rebuild_segment_sidecars: an index for every segment of the manifest that
\* has none (skip_unchanged keeps the ones there are).
Rebuilt(names, idx, files) ==
  [n \in Names |-> IF n \in names /\ ~idx[n].there THEN Built(files[n]) ELSE idx[n]]

WordsOf(idx) == {d.word : d \in idx.docs}

\* build_bm25_route_index: the segments of each word, by their place.
RouteOver(order, idx) ==
  [there |-> TRUE,
   of |-> [w \in Words |-> {i \in DOMAIN order : w \in WordsOf(idx[order[i]])}]]

\* finish_bulk_ingest, finalize_bulk_table_indexes.  The query mode is set when
\* there are enough segments and never taken back.
FinishBulkIngest(h) ==
  /\ session[h]
  /\ session' = [session EXCEPT ![h] = FALSE]
  /\ index' = Rebuilt(Listed, index, rows)
  /\ route' = RouteOver(segments, index')
  /\ routed' = (routed \/ Len(segments) >= RoutedMin)
  /\ answer' = NoAnswer
  /\ UNCHANGED <<segments, segmentOnly, rows, tombs, added, counters, mem, joined, cacheVars,
                 own>>

\* (mutant) nothing is forgotten
KeptTombstones(h) == tombCache

\* self.tombstones.remove: the next search of this handle reads the file again.
Forgotten(h) == [tombCache EXCEPT ![h] = [known |-> FALSE, ids |-> {}]]

\* delete_by_ids
DeleteById(h, id) ==
  /\ id < added /\ id \notin tombs /\ \A g \in Handles : id \notin own[g]
  /\ Cardinality(UNION {own[g] : g \in Handles}) < MaxDeletes
  /\ tombs' = tombs \cup {id}
  /\ tombCache' = Forgotten(h)
  /\ own' = [own EXCEPT ![h] = @ \cup {id}]
  /\ answer' = NoAnswer
  /\ UNCHANGED <<manifestVars, rows, index, route, added, counters, handleVars,
                 indexCache, routeCache, nodeCache>>

\* (mutant) the sidecars of the old segments are left behind
LeftSidecars(names, idx) == idx

\* remove_segment_sidecars
RemoveSidecars(names, idx) == [n \in Names |-> IF n \in names THEN Absent ELSE idx[n]]

MergedName == 1 + CHOOSE n \in Listed : \A m \in Listed : m <= n

\* compact_table FULL: one segment without the deleted rows, whose tombstones
\* go; the sidecars of the old segments are removed and one is built.  The
\* route stays as it is, and so do the indexes that handles and workers keep
\* (caches.invalidate_* are other caches).
CompactTable(h) ==
  LET kept == {d \in Live : d.id \notin tombs}
      span == {d.id : d \in Live}
      n == MergedName
  IN /\ Len(segments) >= 2 /\ merges < MaxMerges /\ n \in Names
     /\ segments' = <<n>>
     /\ rows' = [m \in Names |-> IF m = n THEN kept ELSE {}]
     /\ index' = Rebuilt({n}, RemoveSidecars(Listed, index), rows')
     /\ tombs' = {id \in tombs : \/ \A i \in span : id < i
                                 \/ \A i \in span : id > i}
     /\ merges' = merges + 1
     /\ answer' = NoAnswer
     /\ UNCHANGED <<segmentOnly, routed, route, added, searches, opens, handleVars, cacheVars, own>>

\* A handle is opened anew: load_table reads every row of a merged table into
\* the corpus, the deleted ones too, and none of a segment-only one.
Reopen(h) ==
  /\ opens < MaxOpens /\ opens' = opens + 1
  /\ mem' = [mem EXCEPT ![h] = IF segmentOnly THEN {} ELSE Live]
  /\ joined' = [joined EXCEPT ![h] = {}]
  /\ session' = [session EXCEPT ![h] = FALSE]
  /\ tombCache' = [tombCache EXCEPT ![h] = [known |-> FALSE, ids |-> {}]]
  /\ indexCache' = [indexCache EXCEPT ![h] = [n \in Names |-> Absent]]
  /\ routeCache' = [routeCache EXCEPT ![h] = NoRoute]
  /\ answer' = NoAnswer
  /\ UNCHANGED <<diskVars, merges, searches, nodeCache, own>>

---------------------------------------------------------------------------
(* What a search sees *)

Hits(docs, w) ==
  Ranked({Candidate(d.id, d.score) : d \in {e \in docs : e.word = w}})

TombstonesFor(h) == IF tombCache[h].known THEN tombCache[h].ids ELSE tombs

RouteFor(h) == IF routeCache[h].there THEN routeCache[h] ELSE route

\* table_segment_count: at least four, whether or not there are as many.
NumSegments == GreaterOf(Len(segments), 4)
AllSegments == 1 .. NumSegments

\* (mutant) of two segments only the first is scanned
ActiveSegmentsOfThree(h, w) ==
  IF Len(segments) <= 2 THEN {1}
  ELSE {i \in DOMAIN segments : w \in WordsOf(index[segments[i]])}

\* filter_bm25_segment_indices: the places of the segments to scan.
ActiveSegments(h, w) ==
  LET routes == IF routed /\ route.there THEN RouteFor(h).of[w] ELSE {}
      lexicons == {i \in DOMAIN segments : /\ index[segments[i]].there
                                           /\ w \in WordsOf(index[segments[i]])}
  IN IF Len(segments) <= 1 THEN {1}
     ELSE IF routes # {} THEN routes
     ELSE IF lexicons # {} THEN lexicons
     ELSE AllSegments

\* search_segment_bm25_at_path and Worker::search_segment: the file must be
\* there, but what is searched is what the cache holds under its name.
Kept(cache, n) == IF cache[n].there THEN cache[n] ELSE index[n]
SegmentHits(cache, i, w, k) ==
  IF i \in DOMAIN segments /\ index[segments[i]].there
  THEN Truncate(Hits(Kept(cache, segments[i]).docs, w), k) ELSE <<>>

Remember(cache, places) ==
  [n \in Names |-> IF /\ \E i \in places \cap DOMAIN segments : segments[i] = n
                      /\ index[n].there
                   THEN Kept(cache, n) ELSE cache[n]]

\* The list of all the segments scanned, in their order.
LocalScan(h, w, k) ==
  LET active == InOrder(ActiveSegments(h, w))
  IN Joined([j \in DOMAIN active |-> SegmentHits(indexCache[h], active[j], w, k)])

NodeOf(i) == (i - 1) % Nodes

\* A worker refuses a segment that its manifest does not have; one refusal or
\* lost call (served is the number of calls before it), and the coordinator
\* answers nothing.
ClusterScan(h, w, k, served) ==
  LET active == InOrder(ActiveSegments(h, w))
  IN IF ToSet(active) \subseteq DOMAIN segments /\ served >= Len(active)
     THEN CoordinatorMerge([j \in DOMAIN active |->
                              SegmentHits(nodeCache[NodeOf(active[j])], active[j], w, k)], k)
     ELSE <<>>

\* DagRunner::run up to the segments: the corpus of the handle, without the
\* tombstones the handle knows of; the graph may bring any of its ids.
MemoryCandidates(h, w, graph, ctx) ==
  LET t1 == Truncate(RemoveIds(Truncate(Hits(mem[h], w), ctx.tier1), TombstonesFor(h)), ctx.tier1)
      edges == {{i - 1, i} : i \in joined[h]}
      t2 == Tier2(Refine(t1, ctx.tier2), IF graph THEN Expand(t1, edges, 2) ELSE <<>>,
                  ctx.tier2)
  IN IF mem[h] = {} THEN <<>>
     ELSE Truncate(RrfMerge(t1, t2, 60), ctx.tier2)

HasSidecars == \E n \in Listed : index[n].there

Budgets(offset) ==
  TuneCtx(ExecCtx(Fetch(PageSize, offset, FALSE)), 1,
          Configure("none", segmentOnly, FALSE, FALSE).strategy)

\* The segments are searched in a segment-only table, and their candidates, if
\* there are any, take the place of those from memory.  In a merged table each
\* segment is a part of the corpus, and only an empty one gets this far.
Search(h, w, offset, graph, cluster, served) ==
  LET ctx == Budgets(offset)
      scan == segmentOnly /\ HasSidecars
      k == SegmentK(ctx)
      found == IF ~scan THEN <<>>
               ELSE IF cluster THEN ClusterScan(h, w, k, served)
               ELSE LocalScan(h, w, k)
      cands == IF found # <<>> THEN LocalTopK(found, ctx.tier2)
               ELSE MemoryCandidates(h, w, graph, ctx)
      active == ActiveSegments(h, w)
      asked == IF cluster THEN ToSet(Truncate(InOrder(active), served)) ELSE active
  IN /\ searches < MaxSearches /\ searches' = searches + 1
     /\ ~session[h] /\ (cluster => scan)
     /\ served \in IF cluster THEN {n \in LossesAfter : n < Cardinality(active)}
                                  \cup {Cardinality(active)}
                    ELSE {0}
     /\ answer' = [via |-> IF found # <<>> THEN "segments"
                           ELSE IF scan THEN "fallback" ELSE "memory",
                   by |-> h, word |-> w, offset |-> offset, graph |-> graph,
                   cluster |-> cluster, lost |-> cluster /\ asked # active, found |-> found,
                   page |-> TablePage(Truncate(cands, ctx.tier3), <<>>, offset, PageSize)]
     /\ tombCache' = [tombCache EXCEPT ![h] = [known |-> TRUE, ids |-> TombstonesFor(h)]]
     /\ routeCache' = IF scan /\ Len(segments) > 1 /\ routed /\ route.there
                      THEN [routeCache EXCEPT ![h] = RouteFor(h)] ELSE routeCache
     /\ indexCache' = IF scan /\ ~cluster
                      THEN [indexCache EXCEPT ![h] = Remember(@, active)] ELSE indexCache
     /\ nodeCache' = IF scan /\ cluster
                     THEN [v \in DOMAIN nodeCache |->
                             Remember(nodeCache[v], {i \in asked : NodeOf(i) = v})]
                     ELSE nodeCache
     /\ UNCHANGED <<diskVars, merges, opens, handleVars, own>>

Next ==
  \E h \in Handles :
    \/ \E batch \in Batches[added] : AddDocuments(h, batch) \/ BulkAdd(h, batch)
    \/ h \in Loaders /\ BeginBulkIngest(h)
    \/ FinishBulkIngest(h)
    \/ \E id \in DocIds : DeleteById(h, id)
    \/ CompactTable(h)
    \/ h \in Searchers /\ Reopen(h)
    \/ h \in Searchers /\ \E w \in Queries, offset \in Offsets, graph \in Graphs, cluster \in BOOLEAN :
         \E served \in 0 .. NumSegments : Search(h, w, offset, graph, cluster, served)

Spec == Init /\ [][Next]_vars

---------------------------------------------------------------------------
(* Properties *)

Docs == [id : DocIds, word : Words, score : Nat \ {0}]
IsIndex(x) == x.there \in BOOLEAN /\ x.docs \subseteq Docs
IsRoute(x) == x.there \in BOOLEAN /\ \A w \in Words : x.of[w] \subseteq 1 .. MaxDocs
IsCandidates(s) == s \in Seq([id : DocIds, score : Nat])

\* Every variable keeps its type; in particular no place in a route or in an
\* answer is outside what the table ever had.
TypeOK ==
  /\ segments \in Seq(Names) /\ Cardinality(Listed) = Len(segments)
  /\ {segmentOnly, routed} \subseteq BOOLEAN
  /\ \A n \in Names : rows[n] \subseteq Docs /\ IsIndex(index[n])
  /\ IsRoute(route) /\ tombs \subseteq DocIds
  /\ added \in 0 .. MaxDocs /\ merges \in 0 .. MaxMerges
  /\ searches \in 0 .. MaxSearches /\ opens \in 0 .. MaxOpens
  /\ \A h \in Handles :
       /\ mem[h] \subseteq Docs /\ joined[h] \subseteq DocIds /\ session[h] \in BOOLEAN
       /\ tombCache[h].known \in BOOLEAN /\ tombCache[h].ids \subseteq DocIds
       /\ \A n \in Names : IsIndex(indexCache[h][n])
       /\ IsRoute(routeCache[h]) /\ own[h] \subseteq DocIds
  /\ \A v \in 0 .. Nodes - 1 : \A n \in Names : IsIndex(nodeCache[v][n])
  /\ answer.via # "nothing" => IsCandidates(answer.page) /\ IsCandidates(answer.found)

Answered(via) == answer.via \in via
IdsOf(cands) == [i \in DOMAIN cands |-> cands[i].id]

\* An answer from memory that the graph has not widened is the page of the ranking
\* of the matching documents without those known as deleted: neither tier, nor
\* fusion, nor a budget (dag.rs:620-680) puts another document in its place.  None
\* of them was deleted through the same handle while its tombstone is on file: the
\* copy of the tombstones a handle keeps (dag.rs:545) is never older than its own
\* deletions.
MemoryAnswers ==
  Answered({"memory", "fallback"}) /\ ~answer.graph =>
    LET ranking == RemoveIds(Hits(mem[answer.by], answer.word), tombCache[answer.by].ids)
    IN /\ IdsOf(answer.page) = IdsOf(SliceRange(ranking, answer.offset, PageSize))
       /\ Ids(answer.page) \cap own[answer.by] \cap tombs = {}

CacheUsed(n) == IF answer.cluster THEN {nodeCache[v][n] : v \in 0 .. Nodes - 1}
                ELSE {indexCache[answer.by][n]}

\* What the search had in its caches is what the files hold.
CachesTrue == \A n \in Listed : \A c \in CacheUsed(n) : c.there => c = index[n]

RouteTrue ==
  routed /\ route.there =>
    RouteFor(answer.by).of[answer.word] = RouteOver(segments, index).of[answer.word]

\* Ranking of the documents a search of the segments should find.
Indexed == UNION {rows[n] : n \in {m \in Listed : index[m].there}}
Ranking == Hits(Indexed, answer.word)

\* A document that a search of the segments shows is a row of the table and is
\* shown once, or a cache answered from an index whose file is gone (cache.rs:272): an index
\* file is never older than the segment of its name.
GhostsOnlyFromCaches ==
  Answered({"segments"}) /\ CachesTrue =>
    /\ ToSet(answer.found) \subseteq ToSet(Ranking)
    /\ IsInjective(IdsOf(answer.found))

\* Unless a cache is out of date or the route is older than the manifest
\* (persist.rs:876), skipping segments and cutting each to its own best loses
\* nothing: a search fills its page as long as there are documents for it and no
\* call was lost.  The page is the best one if the cluster answered for no more
\* segments than the lists the coordinator keeps before it sorts, or the handle had
\* more candidates than the budget of tier 2 (dag.rs:881, coordinator.rs:53).
SegmentAnswers ==
  answer.via # "nothing" /\ CachesTrue /\ RouteTrue =>
    /\ Answered({"segments", "fallback"}) /\ ~answer.lost =>
         Len(answer.page) >= LesserOf(PageSize, Len(Ranking) - answer.offset)
    /\ /\ Answered({"segments"})
       /\ IF answer.cluster THEN Len(segments) <= 4
          ELSE Len(answer.found) > Budgets(answer.offset).tier2
       => answer.page = SliceRange(Ranking, answer.offset, PageSize)

\* Claim that does not hold: a page of the segments is the best one whenever no
\* call was lost. Candidates that fit into the budget of tier 2 are cut unsorted
\* (dag.rs:881).
PageIsBest ==
  (Answered({"segments"}) /\ CachesTrue /\ RouteTrue /\ ~answer.lost) =>
    answer.page = SliceRange(Ranking, answer.offset, PageSize)

\* Claim that does not hold: no document with a tombstone is shown. The candidates
\* of the segments replace those from which the tombstones were removed
\* (dag.rs:907).
DeletedNotFound == answer.via # "nothing" => Ids(answer.page) \cap tombs = {}

\* Claim that does not hold: a document that is found is a row of the table. A
\* cache answers for a file that was written anew (cache.rs:272).
FoundIsStored ==
  Answered({"segments"}) => Ids(answer.found) \subseteq {d.id : d \in Live}

\* Claim that does not hold: a page is filled as long as there are rows for it. A
\* route older than the segments skips them (persist.rs:876).
StoredIsFound ==
  (Answered({"segments", "fallback"}) /\ ~answer.lost) =>
    Len(answer.page) >= LesserOf(PageSize, Len(Ranking) - answer.offset)

---------------------------------------------------------------------------
(* Inductive strengthening of GhostsOnlyFromCaches *)

\* A segment has rows of its own, under ids of their own, and no more segments are
\* listed than documents were added.
RowsApart ==
  /\ segments \in Seq(Names) /\ IsInjective(segments) /\ Len(segments) <= added
  /\ added \in 0 .. MaxDocs
  /\ rows \in [Names -> SUBSET Docs] /\ \A n \in Names : IsFiniteSet(rows[n])
  /\ \A n \in Names : \A d \in rows[n] : d.id < added
  /\ \A n, m \in Names : \A d \in rows[n], e \in rows[m] : d.id = e.id => n = m /\ d = e

\* An index file is one of a listed segment, and is of its rows.
IndexesTrue ==
  /\ index \in [Names -> [there : BOOLEAN, docs : SUBSET Docs]]
  /\ \A n \in Names : index[n].there => n \in Listed /\ index[n].docs = rows[n]

\* What handles and workers keep, by its form alone.
CachesKept ==
  /\ DOMAIN indexCache = Handles /\ DOMAIN nodeCache = 0 .. Nodes - 1
  /\ routeCache \in [Handles -> [there : BOOLEAN, of : [Words -> SUBSET (1 .. MaxDocs)]]]
  /\ route \in [there : BOOLEAN, of : [Words -> SUBSET (1 .. MaxDocs)]]

GhostInv == RowsApart /\ IndexesTrue /\ CachesKept /\ GhostsOnlyFromCaches

---------------------------------------------------------------------------
(* Inductive strengthening of MemoryAnswers *)

\* A corpus has documents that were added, under ids of their own.
CorporaApart ==
  /\ DOMAIN mem = Handles
  /\ \A h \in Handles :
       /\ IsFiniteSet(mem[h]) /\ mem[h] \subseteq Docs
       /\ \A d \in mem[h] : d.id < added
       /\ \A d, e \in mem[h] : d.id = e.id => d = e

\* A handle that knows tombstones knows those of its own deletions.
TombstonesKnown ==
  /\ DOMAIN tombCache = Handles /\ DOMAIN own = Handles
  /\ \A h \in Handles : tombCache[h].known => own[h] \cap tombs \subseteq tombCache[h].ids

KnownInv == CorporaApart /\ TombstonesKnown

---------------------------------------------------------------------------
(* Inductive strengthening of TypeOK *)

Indexes == [there : BOOLEAN, docs : SUBSET Docs]

TableTyped ==
  /\ {segmentOnly, routed} \subseteq BOOLEAN /\ tombs \subseteq DocIds
  /\ merges \in 0 .. MaxMerges /\ searches \in 0 .. MaxSearches /\ opens \in 0 .. MaxOpens

\* No id is joined to one before the first.
HandlesTyped ==
  /\ joined \in [Handles -> SUBSET (DocIds \ {0})] /\ session \in [Handles -> BOOLEAN]
  /\ tombCache \in [Handles -> [known : BOOLEAN, ids : SUBSET DocIds]]
  /\ own \in [Handles -> SUBSET DocIds]

\* The index a cache keeps, also of a segment that is gone, is of finitely many documents.
CopiesTyped ==
  /\ indexCache \in [Handles -> [Names -> Indexes]]
  /\ nodeCache \in [0 .. Nodes - 1 -> [Names -> Indexes]]
  /\ \A n \in Names : /\ \A h \in Handles : IsFiniteSet(indexCache[h][n].docs)
                      /\ \A v \in 0 .. Nodes - 1 : IsFiniteSet(nodeCache[v][n].docs)

AnswerTyped == answer.via # "nothing" => IsCandidates(answer.page) /\ IsCandidates(answer.found)

\* What GhostInv and KnownInv do not say of the types.
TypeInv == TableTyped /\ HandlesTyped /\ CopiesTyped /\ AnswerTyped
=============================================================================
