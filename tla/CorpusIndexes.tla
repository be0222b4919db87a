----------------------------- MODULE CorpusIndexes -----------------------------
(***************************************************************************)
(* The indexes of the corpus a handle has in memory, and the files of the  *)
(* table they are saved to and restored from.                              *)
(* (toradb-index corpus.rs, dense/hnsw_index.rs; toradb-engine persist.rs: *)
(*  save_table_indexes, load_table and the restore_* functions, dag.rs:    *)
(*  add_documents, create_index, compact_table)                            *)
(*                                                                         *)
(* One handle, one table in merged mode.  An index is the set of documents *)
(* it holds; a graph is taken to find every vector it holds.  The corpus   *)
(* is cut into parts for the dense search, the vectors of a large part are *)
(* joined in a graph of its own (a shard).  Segments are too few for an    *)
(* automatic compaction, whose effect is the one of CompactTable.          *)
(***************************************************************************)
EXTENDS Integers, Sequences, FiniteSets, FiniteSetsExt, SequencesExt

CONSTANTS
  HnswMin,      \* HNSW_MIN_DOCS, 32
  ShardMin,     \* SEGMENT_HNSW_MIN_DOCS, 8
  MinParts,     \* parts of a table with few segments, 4
  WithVector,   \* documents that carry a vector, by their number
  WithSparse,   \* documents that carry a sparse vector
  BatchSizes,   \* how many documents one call may add
  MaxDocs,      \* bound: documents ever added
  MaxDeletes,   \* bound: documents deleted
  MaxMerges,    \* bound: compactions
  MaxOpens,     \* bound: times the table is opened anew
  MaxBuilds     \* bound: indexes created by hand

ASSUME IndexAssumption ==
  /\ {HnswMin, ShardMin, MinParts} \subseteq Nat \ {0}
  /\ {MaxDocs, MaxDeletes, MaxMerges, MaxOpens, MaxBuilds} \subseteq Nat
  /\ BatchSizes \subseteq Nat \ {0} /\ WithVector \cup WithSparse \subseteq Nat

VARIABLES
  segments,    \* documents of each Parquet segment, in the order of the manifest
  mergedName,  \* number of the segment the last compaction wrote
  tombs,       \* ids in tombstones.bin
  vectorsFile, hnswFile, diskannFile, sparseFile,   \* <table>.*.bin; {} is no file
  shardFiles,  \* part -> shard_<part>.hnsw.bin
  docs,        \* documents in memory
  part,        \* document -> the part it was put in
  sparseKept,  \* documents whose sparse vector is in memory
  bm25, sparse, hnsw, diskann, shards,   \* the indexes in memory
  saved,       \* history: whether the indexes were saved since the last opening
  born, deletes, merges, opens, builds

fileVars == <<vectorsFile, hnswFile, diskannFile, sparseFile, shardFiles>>
tableVars == <<segments, mergedName, tombs>>
memVars == <<docs, part, sparseKept, bm25, sparse, hnsw, diskann, shards>>
counters == <<born, deletes, merges, opens, builds>>
vars == <<tableVars, fileVars, memVars, saved, counters>>

\* A document is its id and its number; ids may come back, numbers do not.
Docs == [id : 0 .. MaxDocs - 1, no : 0 .. MaxDocs - 1]
Live == UNION ToSet(segments)
Parts == 0 .. MaxDocs + MinParts
None == [p \in Parts |-> {}]

Vectors(set) == {d \in set : d.no \in WithVector}

Init ==
  /\ segments = <<>> /\ mergedName = 0 /\ tombs = {}
  /\ vectorsFile = {} /\ hnswFile = {} /\ diskannFile = {} /\ sparseFile = {}
  /\ shardFiles = None
  /\ docs = {} /\ part = <<>> /\ sparseKept = {}
  /\ bm25 = {} /\ sparse = {} /\ hnsw = {} /\ diskann = {} /\ shards = None
  /\ saved = TRUE
  /\ born = 0 /\ deletes = 0 /\ merges = 0 /\ opens = 0 /\ builds = 0

---------------------------------------------------------------------------
(* The indexes *)

\* num_segments_hint, table_segment_count
PartCount(segs) == IF Len(segs) > MinParts THEN Len(segs) ELSE MinParts

ShouldUseHnsw(index) == Cardinality(index) >= HnswMin
ShouldUseSegmentHnsw(index) == Cardinality(index) >= ShardMin

HasVectors(set) == Vectors(set) # {}

PartOf(set, where, p) == {d \in Vectors(set) : where[d] = p}

\* (mutant) the shards there were are not cleared
RebuildSegmentHnswUncleared(set, where, n) ==
  [p \in Parts |-> IF p < n /\ ShouldUseSegmentHnsw(PartOf(set, where, p))
                   THEN PartOf(set, where, p) ELSE shards[p]]

\* rebuild_segment_hnsw: the parts below n, by the part each document was put
\* in when it was inserted; small parts get no shard.
RebuildSegmentHnsw(set, where, n) ==
  [p \in Parts |-> IF p < n /\ ShouldUseSegmentHnsw(PartOf(set, where, p))
                   THEN PartOf(set, where, p) ELSE {}]

\* (mutant) the sparse index is built anew from the documents in memory
SparseToSaveRebuilt(index, kept) == kept

\* save_table_indexes builds the sparse index only when there is none.
SparseToSave(index, kept) == IF index = {} THEN kept ELSE index

Saved(file, index) == IF index = {} THEN file ELSE index

\* save_table_indexes: every index of the corpus that is not empty, and not too
\* small, takes the place of its file; the other files stay.
SaveTableIndexes(set, where, sp, kept, graph, n) ==
  LET dense == HasVectors(set)
      newShards == IF dense THEN RebuildSegmentHnsw(set, where, n) ELSE shards
      newDiskann == IF dense THEN Vectors(set) ELSE diskann
  IN /\ sparse' = SparseToSave(sp, kept)
     /\ sparseFile' = Saved(sparseFile, sparse')
     /\ vectorsFile' = Saved(vectorsFile, Vectors(set))
     /\ shards' = newShards /\ diskann' = newDiskann
     /\ shardFiles' = IF dense THEN [p \in Parts |-> Saved(shardFiles[p], newShards[p])]
                      ELSE shardFiles
     /\ hnswFile' = IF dense /\ ShouldUseHnsw(graph) THEN graph ELSE hnswFile
     /\ diskannFile' = IF dense /\ ShouldUseHnsw(newDiskann) THEN newDiskann ELSE diskannFile
     /\ saved' = TRUE

---------------------------------------------------------------------------
(* Operations *)

\* CorpusStore::add_documents: the graph is built anew with every batch of a
\* corpus that is large enough, counting the documents without a vector too.
HnswAfterAdd(set, index) ==
  IF HasVectors(set) /\ ShouldUseHnsw(set) THEN Vectors(set) ELSE index

NextId == IF docs = {} THEN 0 ELSE 1 + Max({d.id : d \in docs})

\* insert_at, for one document after the other
NewDocs(n) == {[id |-> NextId + i, no |-> born + i] : i \in 0 .. n - 1}

\* add_documents and flush_new_docs
AddDocuments(n) ==
  LET new == NewDocs(n)
      all == docs \cup new
      parts == PartCount(segments)
      where == [d \in all |-> IF d \in new THEN d.id % parts ELSE part[d]]
      newSparse == {d \in new : d.no \in WithSparse}
  IN /\ born + n <= MaxDocs /\ NextId + n <= MaxDocs
     /\ Len(segments) + 1 # mergedName   \* a reused name is in SegmentStore
     /\ docs' = all /\ part' = where
     /\ sparseKept' = sparseKept \cup newSparse
     /\ bm25' = bm25 \cup new
     /\ hnsw' = HnswAfterAdd(all, hnsw)
     /\ segments' = Append(segments, new)
     /\ SaveTableIndexes(all, where, sparse \cup newSparse, sparseKept', hnsw', parts)
     /\ born' = born + n
     /\ UNCHANGED <<mergedName, tombs, deletes, merges, opens, builds>>

DeleteById(d) ==
  /\ d \in Live /\ d.id \notin tombs /\ deletes < MaxDeletes
  /\ tombs' = tombs \cup {d.id} /\ deletes' = deletes + 1
  /\ UNCHANGED <<segments, mergedName, fileVars, memVars, saved, born, merges, opens, builds>>

\* compact_table FULL: the corpus in memory stays as it is, and its indexes are
\* saved for as many parts as the table now has.
CompactTable ==
  LET kept == {d \in Live : d.id \notin tombs}
      span == {d.id : d \in Live}
  IN /\ Len(segments) >= 2 /\ merges < MaxMerges /\ kept # {}
     /\ segments' = <<kept>>
     /\ mergedName' = 1 + (IF mergedName > Len(segments) THEN mergedName ELSE Len(segments))
     /\ tombs' = {id \in tombs : id > Max(span) \/ id < Min(span)}
     /\ SaveTableIndexes(docs, part, sparse, sparseKept, hnsw, PartCount(segments'))
     /\ merges' = merges + 1
     /\ UNCHANGED <<docs, part, sparseKept, bm25, hnsw, born, deletes, opens, builds>>

Kinds == {"BM25", "HNSW", "DISKANN", "HYBRID"}

\* create_index; rebuilding the text index rebuilds the graph with it.
CreateIndex(kind) ==
  /\ docs # {} /\ builds < MaxBuilds
  /\ bm25' = IF kind \in {"BM25", "HYBRID"} THEN docs ELSE bm25
  /\ hnsw' = IF kind = "DISKANN" THEN hnsw ELSE Vectors(docs)
  /\ SaveTableIndexes(docs, part, sparse, sparseKept, hnsw', PartCount(segments))
  /\ builds' = builds + 1
  /\ UNCHANGED <<tableVars, docs, part, sparseKept, born, deletes, merges, opens>>

\* restore_hnsw_index: the shards below n that are on file; the graph on file,
\* or a new one if there is neither; new shards if there is none.
RestoreHnswIndex(set, where, n) ==
  LET onFile == [p \in Parts |-> IF p < n /\ ShouldUseSegmentHnsw(shardFiles[p])
                                 THEN shardFiles[p] ELSE {}]
      sharded == \E p \in Parts : onFile[p] # {}
      rebuilt == hnswFile = {} /\ ~sharded
  IN /\ hnsw' = IF rebuilt THEN Vectors(set) ELSE hnswFile
     /\ hnswFile' = IF rebuilt /\ ShouldUseHnsw(Vectors(set)) THEN Vectors(set) ELSE hnswFile
     /\ shards' = IF sharded THEN onFile ELSE RebuildSegmentHnsw(set, where, n)
     /\ shardFiles' = IF sharded THEN shardFiles
                      ELSE [p \in Parts |-> Saved(shardFiles[p], shards'[p])]

\* restore_diskann_index: the graph on file, or one of the vectors on file, or
\* one of the corpus.
RestoreDiskannIndex(set) ==
  LET source == IF vectorsFile # {} THEN vectorsFile ELSE Vectors(set)
      large == IF ShouldUseHnsw(source) THEN source ELSE {}
  IN IF diskannFile # {} THEN diskann' = diskannFile /\ UNCHANGED diskannFile
     ELSE diskann' = large /\ diskannFile' = large

\* (mutant) the table is loaded beside the documents that are there
LoadedBeside == docs \cup Live

\* reload_from_disk loads the tables into a new corpus.
Loaded == Live

\* load_table into an empty corpus: every row, the deleted ones too, without
\* its sparse vector, put in the part its id has now.
Reopen ==
  LET parts == PartCount(segments)
      where == [d \in Live |-> d.id % parts]
  IN /\ opens < MaxOpens /\ Live # {}
     /\ docs' = Loaded /\ part' = where /\ sparseKept' = {}
     /\ bm25' = Live          \* restore_bm25_index: the indexes of the segments
     /\ sparse' = sparseFile
     /\ RestoreHnswIndex(Live, where, parts)
     /\ RestoreDiskannIndex(Live)
     /\ saved' = FALSE /\ opens' = opens + 1
     /\ UNCHANGED <<tableVars, vectorsFile, sparseFile, born, deletes, merges, builds>>

Next ==
  \/ \E n \in BatchSizes : AddDocuments(n)
  \/ \E d \in Docs : DeleteById(d)
  \/ CompactTable
  \/ \E kind \in Kinds : CreateIndex(kind)
  \/ Reopen

Spec == Init /\ [][Next]_vars

---------------------------------------------------------------------------
(* Searches: the documents a search can find, whatever its query *)

\* vector_search
VectorSearch ==
  IF ShouldUseHnsw(hnsw) THEN hnsw
  ELSE IF \E p \in Parts : shards[p] # {} THEN UNION {shards[p] : p \in Parts}
  ELSE Vectors(docs)

\* diskann_vector_search
DiskannVectorSearch == IF ShouldUseHnsw(diskann) THEN diskann ELSE VectorSearch

\* segment_vector_search
SegmentVectorSearch(p) == IF shards[p] # {} THEN shards[p] ELSE PartOf(docs, part, p)

\* The scan of all the parts in DagRunner::run, which takes the place of every
\* other candidate when a shard is on file.
ScannedParts == 0 .. PartCount(segments) - 1
ScansShards == \E p \in Parts : shardFiles[p] # {}
DenseAnswer == IF ScansShards THEN UNION {SegmentVectorSearch(p) : p \in ScannedParts}
               ELSE VectorSearch

---------------------------------------------------------------------------
(* Properties *)

TypeOK ==
  /\ segments \in Seq(SUBSET Docs) /\ mergedName \in Nat /\ tombs \subseteq 0 .. MaxDocs - 1
  /\ {vectorsFile, hnswFile, diskannFile, sparseFile, docs, sparseKept, bm25, sparse, hnsw,
      diskann} \subseteq SUBSET Docs
  /\ {shards, shardFiles} \subseteq [Parts -> SUBSET Docs]
  /\ part \in [docs -> Parts] /\ saved \in BOOLEAN
  /\ <<born, deletes, merges, opens, builds>> \in
       (0 .. MaxDocs) \X (0 .. MaxDeletes) \X (0 .. MaxMerges) \X (0 .. MaxOpens) \X (0 .. MaxBuilds)

\* The graphs that a search would use of a corpus with enough vectors know them all
\* (corpus.rs:639), although they may come from a file that was written before a
\* compaction, and are rebuilt on some paths only.
GraphsComplete ==
  ShouldUseHnsw(Vectors(docs)) =>
    /\ ShouldUseHnsw(hnsw) => Vectors(docs) \subseteq hnsw
    /\ ShouldUseHnsw(diskann) => Vectors(docs) \subseteq diskann

\* Once its indexes were saved, a handle that scans the parts meets every vector
\* of a part that is still scanned, and meets it once (corpus.rs:233): shards
\* and small parts neither overlap nor leave a gap.
PartsDisjoint ==
  saved =>
    \A d \in Vectors(docs) :
      Cardinality({p \in ScannedParts : d \in SegmentVectorSearch(p)})
        = IF part[d] \in ScannedParts THEN 1 ELSE 0

\* A dense search meets the vectors it should: all of a graph, each of a part once.
VectorsMet == GraphsComplete /\ PartsDisjoint

\* A document keeps its sparse vector over openings, which read no sparse vector
\* from the rows (persist.rs:1665): the file is never written with less.
SparseSurvives == {d \in Live : d.no \in WithSparse} \subseteq sparse

\* Claim that does not hold: a handle whose indexes are saved meets every vector.
\* A corpus of less than thirty-two vectors with eight in some part is searched
\* without its small parts (corpus.rs:366).
VectorSearchComplete == saved => Vectors(docs) \subseteq VectorSearch

\* Claim that does not hold: a dense search meets the vector of every document
\* that was not deleted. Parts change their number while shards stay
\* (persist.rs:1553).
DenseComplete == Vectors(Live) \subseteq DenseAnswer

\* Claim that does not hold: what a dense search shows is a row of the table. A
\* compaction drops tombstone and row, and the files keep the vector
\* (persist.rs:2132).
DenseFindsRows == {d \in DenseAnswer : d.id \notin tombs} \subseteq docs

\* Claim that does not hold: a graph that a search uses knows every vector of the
\* corpus. One from a file may be larger than the corpus has become
\* (corpus.rs:639).
GraphsAlwaysComplete == ShouldUseHnsw(hnsw) => Vectors(docs) \subseteq hnsw

---------------------------------------------------------------------------
(* Inductive strengthening of VectorsMet *)

\* While the rows of the table have vectors enough for a graph, the graphs on file know
\* them all, so a handle that opens the table has complete ones; and a shard is either
\* its part or not there. Memory holds every row, and a segment at least one.
VectorInv ==
  /\ Live \subseteq docs /\ Len(segments) <= born
  /\ ShouldUseHnsw(Vectors(docs)) => Vectors(docs) \subseteq hnsw \cap diskann
  /\ ShouldUseHnsw(Vectors(Live)) => Vectors(Live) \subseteq hnswFile \cap diskannFile
  /\ saved /\ HasVectors(docs) => \A p \in Parts : shards[p] \in {{}, PartOf(docs, part, p)}
=============================================================================
