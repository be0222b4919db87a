-------------------------- MODULE CorpusIndexesProofs --------------------------
(***************************************************************************)
(* Theorems about CorpusIndexes: for any number of documents, segments,    *)
(* deletions, compactions and openings.                                    *)
(***************************************************************************)
EXTENDS CorpusIndexes, FiniteSetTheorems, WellFoundedInduction, TLAPS

\* The documents among set that were given a sparse vector.
Sparse(set) == {d \in set : d.no \in WithSparse}

\* The file knows what the index in memory must know, as an opening reads nothing else.
SparseInv ==
  /\ \E S : segments \in Seq(S)
  /\ Sparse(Live) \subseteq sparse
  /\ Sparse(Live) \subseteq sparseFile

LEMMA LiveAppended ==
  ASSUME NEW S, segments \in Seq(S), NEW new, segments' = Append(segments, new)
  PROVE  Live' = Live \cup new /\ \E T : segments' \in Seq(T)
<1>1. segments \in Seq(S \cup {new}) /\ segments' \in Seq(S \cup {new})
  OBVIOUS
<1>2. /\ Len(segments) \in Nat /\ DOMAIN segments = 1 .. Len(segments)
      /\ DOMAIN segments' = 1 .. Len(segments) + 1
      /\ \A i \in 1 .. Len(segments) : segments'[i] = segments[i]
      /\ segments'[Len(segments) + 1] = new
  BY <1>1
<1>3. ToSet(segments') = ToSet(segments) \cup {new}
  <2>1. ToSet(segments) = {segments[i] : i \in 1 .. Len(segments)}
    BY <1>2 DEF ToSet
  <2>2. ToSet(segments') = {segments'[i] : i \in 1 .. Len(segments) + 1}
    BY <1>2 DEF ToSet
  <2>3. 1 .. Len(segments) + 1 = (1 .. Len(segments)) \cup {Len(segments) + 1}
    BY <1>2
  <2> QED BY <1>2, <2>1, <2>2, <2>3
<1>4. Live' = Live \cup new
  BY <1>3 DEF Live
<1> QED BY <1>1, <1>4

\* What is saved is not less than what the index or the documents know.
LEMMA SaveKeepsSparse ==
  ASSUME NEW set, NEW where, NEW sp, NEW kept, NEW graph, NEW n,
         SaveTableIndexes(set, where, sp, kept, graph, n),
         NEW D, D \subseteq sp
  PROVE  D \subseteq sparse' /\ D \subseteq sparseFile'
BY DEF SaveTableIndexes, SparseToSave, Saved

LEMMA SparseStep == SparseInv /\ [Next]_vars => SparseInv'
<1> SUFFICES ASSUME SparseInv, [Next]_vars PROVE SparseInv'
  OBVIOUS
<1>1. PICK S : segments \in Seq(S)
  BY DEF SparseInv
<1>2. ASSUME NEW n \in BatchSizes, AddDocuments(n) PROVE SparseInv'
  <2> DEFINE new == NewDocs(n)
             sp == sparse \cup Sparse(new)
  <2>1. segments' = Append(segments, new)
    BY <1>2 DEF AddDocuments
  <2>2. Live' = Live \cup new /\ \E T : segments' \in Seq(T)
    BY <1>1, <2>1, LiveAppended
  <2>3. Sparse(Live') = Sparse(Live) \cup Sparse(new)
    BY <2>2 DEF Sparse
  <2>4. Sparse(Live') \subseteq sp
    BY <2>3 DEF SparseInv
  <2>5. PICK D : D = Sparse(Live')
    OBVIOUS
  <2>6. PICK index, kept, file : index = sp /\ kept = sparseKept' /\ file = sparseFile
    OBVIOUS
  <2>7. sparse' = SparseToSave(index, kept) /\ sparseFile' = Saved(file, sparse')
    BY <1>2, <2>6 DEF AddDocuments, SaveTableIndexes, Sparse
  <2>8. D \subseteq index
    BY <2>4, <2>5, <2>6
  <2>9. D \subseteq sparse' /\ D \subseteq sparseFile'
    <3>1. CASE index = {}
      BY <2>8, <3>1
    <3>2. CASE index # {}
      BY <2>7, <2>8, <3>2 DEF SparseToSave, Saved
    <3> QED BY <3>1, <3>2
  <2> QED BY <2>2, <2>5, <2>9 DEF SparseInv, Sparse
<1>3. ASSUME NEW d \in Docs, DeleteById(d) PROVE SparseInv'
  BY <1>3 DEF DeleteById, fileVars, memVars, SparseInv, Sparse, Live
<1>4. CASE CompactTable
  <2> DEFINE kept == {d \in Live : d.id \notin tombs}
  <2>1. segments' = <<kept>>
    BY <1>4 DEF CompactTable
  <2>2. Live' = kept /\ segments' \in Seq({kept})
    <3>1. PICK k : k = kept
      OBVIOUS
    <3>2. segments' = <<k>>
      BY <2>1, <3>1
    <3>3. DOMAIN segments' = {1} /\ segments'[1] = k /\ segments' \in Seq({k})
      BY <3>2
    <3>4. ToSet(segments') = {k}
      BY <3>3 DEF ToSet
    <3> QED BY <3>1, <3>3, <3>4 DEF Live
  <2>3. Sparse(Live') \subseteq sparse
    BY <2>2 DEF SparseInv, Sparse
  <2>4. Sparse(Live') \subseteq sparse' /\ Sparse(Live') \subseteq sparseFile'
    BY <1>4, <2>3, SaveKeepsSparse DEF CompactTable
  <2> QED BY <2>2, <2>4 DEF SparseInv, Sparse
<1>5. ASSUME NEW kind \in Kinds, CreateIndex(kind) PROVE SparseInv'
  <2>1. segments' = segments /\ Live' = Live
    BY <1>5 DEF CreateIndex, tableVars, Live
  <2>2. Sparse(Live) \subseteq sparse' /\ Sparse(Live) \subseteq sparseFile'
    BY <1>5, SaveKeepsSparse DEF CreateIndex, SparseInv
  <2> QED BY <1>1, <2>1, <2>2 DEF SparseInv, Sparse
<1>6. CASE Reopen
  <2>1. segments' = segments /\ Live' = Live /\ sparse' = sparseFile /\ sparseFile' = sparseFile
    BY <1>6 DEF Reopen, tableVars, Live
  <2> QED BY <1>1, <2>1 DEF SparseInv, Sparse
<1>7. CASE UNCHANGED vars
  BY <1>7 DEF vars, tableVars, fileVars, memVars, SparseInv, Sparse, Live
<1> QED BY <1>2, <1>3, <1>4, <1>5, <1>6, <1>7 DEF Next

LEMMA SparseStart == Init => SparseInv
<1> SUFFICES ASSUME Init PROVE SparseInv
  OBVIOUS
<1>1. segments = <<>> /\ segments \in Seq({})
  BY DEF Init
<1>2. ToSet(segments) = {} /\ Live = {}
  BY <1>1 DEF ToSet, Live
<1> QED BY <1>1, <1>2 DEF SparseInv, Sparse

\* No row of the table loses its sparse vector: not by a compaction, by an index
\* created by hand, or by a handle that opens the table, finds the vectors in no row
\* and saves what it has.  (save_table_indexes, restore_sparse_index)
THEOREM SparseKept == Spec => []SparseSurvives
<1>1. SparseInv => SparseSurvives
  BY DEF SparseInv, SparseSurvives, Sparse
<1> QED BY <1>1, SparseStart, SparseStep, PTL DEF Spec

---------------------------------------------------------------------------
(* Types *)

\* The rows of a table after a batch, a compaction, or nothing.
LEMMA SegmentsAppended ==
  ASSUME segments \in Seq(SUBSET Docs), NEW new \in SUBSET Docs, segments' = Append(segments, new)
  PROVE  segments' \in Seq(SUBSET Docs) /\ Live' = Live \cup new /\ Len(segments') = Len(segments) + 1
<1>1. segments' \in Seq(SUBSET Docs) /\ Len(segments') = Len(segments) + 1
  OBVIOUS
<1> QED BY <1>1, LiveAppended

LEMMA SegmentsMerged ==
  ASSUME NEW kept \in SUBSET Docs, segments' = <<kept>>
  PROVE  segments' \in Seq(SUBSET Docs) /\ Live' = kept /\ Len(segments') = 1
<1>1. DOMAIN segments' = {1} /\ segments'[1] = kept /\ segments' \in Seq(SUBSET Docs) /\ Len(segments') = 1
  OBVIOUS
<1>2. ToSet(segments') = {kept}
  BY <1>1 DEF ToSet
<1> QED BY <1>1, <1>2 DEF Live

LEMMA LiveType ==
  ASSUME segments \in Seq(SUBSET Docs)
  PROVE  Live \subseteq Docs /\ Len(segments) \in Nat
<1>1. DOMAIN segments = 1 .. Len(segments) /\ \A i \in 1 .. Len(segments) : segments[i] \subseteq Docs
  OBVIOUS
<1> QED BY <1>1 DEF Live, ToSet

\* The maximum of ids is one of them.
LEMMA MaxIsMember ==
  ASSUME NEW T, T \subseteq 0 .. MaxDocs - 1, T # {}
  PROVE  Max(T) \in T
<1>0. MaxDocs \in Nat
  BY IndexAssumption
<1> DEFINE U == {MaxDocs - x : x \in T}
<1>1. \A x \in T : MaxDocs - x \in Nat
  BY <1>0
<1>2. U \subseteq Nat /\ U # {}
  BY <1>1
<1>3. PICK R : R = OpToRel(<, Nat)
  OBVIOUS
<1>4. IsWellFoundedOn(R, Nat)
  BY <1>3, NatLessThanWellFounded
<1>5. PICK u \in U : \A v \in U : ~(<<v, u>> \in R)
  BY <1>2, <1>4, WFMin
<1>6. \A y, z \in Nat : y < z => <<y, z>> \in R
  BY <1>3 DEF OpToRel
<1>7. \A v \in U : ~(v < u)
  BY <1>2, <1>5, <1>6
<1>8. PICK x \in T : u = MaxDocs - x
  BY <1>5
<1>9. \A y \in T : x >= y
  <2> SUFFICES ASSUME NEW y \in T PROVE x >= y
    OBVIOUS
  <2>1. MaxDocs - y \in U
    OBVIOUS
  <2>2. ~ (MaxDocs - y < MaxDocs - x)
    BY <1>7, <1>8, <2>1
  <2> QED BY <1>0, <2>2
<1> QED BY <1>9 DEF Max

LEMMA NewDocsType ==
  ASSUME TypeOK, NEW n \in BatchSizes, born + n <= MaxDocs, NextId + n <= MaxDocs
  PROVE  NewDocs(n) \subseteq Docs /\ n \in Nat \ {0}
<1>1. n \in Nat \ {0} /\ MaxDocs \in Nat /\ born \in Nat
  BY IndexAssumption DEF TypeOK
<1>2. NextId \in Nat
  <2>1. CASE docs = {}
    BY <2>1 DEF NextId
  <2>2. CASE docs # {}
    <3>1. {d.id : d \in docs} \subseteq 0 .. MaxDocs - 1 /\ {d.id : d \in docs} # {}
      BY <2>2 DEF TypeOK, Docs
    <3>2. Max({d.id : d \in docs}) \in 0 .. MaxDocs - 1
      BY <3>1, MaxIsMember
    <3> QED BY <1>1, <2>2, <3>2 DEF NextId
  <2> QED BY <2>1, <2>2
<1>3. ASSUME NEW i \in 0 .. n - 1 PROVE [id |-> NextId + i, no |-> born + i] \in Docs
  BY <1>1, <1>2, <1>3 DEF Docs
<1> QED BY <1>1, <1>3 DEF NewDocs

LEMMA PartsAre ==
  ASSUME TypeOK, Len(segments) <= MaxDocs
  PROVE  /\ PartCount(segments) \in Nat \ {0} /\ PartCount(segments) - 1 <= MaxDocs + MinParts
         /\ \A i \in Nat : i % PartCount(segments) \in Parts
         /\ ScannedParts \subseteq Parts
<1>1. /\ MinParts \in Nat \ {0} /\ MaxDocs \in Nat
      /\ Len(segments) \in Nat
  BY IndexAssumption, LiveType DEF TypeOK
<1>2. PartCount(segments) \in Nat \ {0} /\ PartCount(segments) - 1 <= MaxDocs + MinParts
  BY <1>1 DEF PartCount
<1>3. \A i \in Nat : i % PartCount(segments) \in 0 .. PartCount(segments) - 1
  BY <1>2
<1>4. PICK c : c = PartCount(segments)
  OBVIOUS
<1>5. 0 .. c - 1 \subseteq 0 .. MaxDocs + MinParts
  BY <1>1, <1>2, <1>4
<1>6. \A i \in Nat : i % PartCount(segments) \in Parts
  BY <1>3, <1>4, <1>5 DEF Parts
<1> QED BY <1>2, <1>4, <1>5, <1>6 DEF Parts, ScannedParts

\* What saving leaves in memory and on file.
LEMMA SaveTypes ==
  ASSUME TypeOK, NEW set \in SUBSET Docs, NEW where, NEW sp \in SUBSET Docs, NEW kept \in SUBSET Docs,
         NEW graph \in SUBSET Docs, NEW n, SaveTableIndexes(set, where, sp, kept, graph, n)
  PROVE  /\ {sparse', sparseFile', vectorsFile', diskann', diskannFile', hnswFile'} \subseteq SUBSET Docs
         /\ {shards', shardFiles'} \subseteq [Parts -> SUBSET Docs]
         /\ saved' \in BOOLEAN
<1>1. Vectors(set) \subseteq Docs /\ \A p \in Parts : PartOf(set, where, p) \subseteq Docs
  BY DEF Vectors, PartOf
<1>2. RebuildSegmentHnsw(set, where, n) \in [Parts -> SUBSET Docs]
  BY <1>1 DEF RebuildSegmentHnsw
<1>3. sparse' \subseteq Docs /\ sparseFile' \subseteq Docs /\ vectorsFile' \subseteq Docs
  BY <1>1 DEF SaveTableIndexes, SparseToSave, Saved, TypeOK
<1>4. diskann' \subseteq Docs /\ diskannFile' \subseteq Docs /\ hnswFile' \subseteq Docs
  BY <1>1 DEF SaveTableIndexes, TypeOK
<1>5. shards' \in [Parts -> SUBSET Docs]
  BY <1>2 DEF SaveTableIndexes, TypeOK
<1>6. shardFiles' \in [Parts -> SUBSET Docs]
  BY <1>2 DEF SaveTableIndexes, Saved, TypeOK
<1> QED BY <1>3, <1>4, <1>5, <1>6 DEF SaveTableIndexes

Counters ==
  /\ born \in 0 .. MaxDocs /\ deletes \in 0 .. MaxDeletes /\ merges \in 0 .. MaxMerges
  /\ opens \in 0 .. MaxOpens /\ builds \in 0 .. MaxBuilds

LEMMA CountersAre ==
  /\ {MaxDocs, MaxDeletes, MaxMerges, MaxOpens, MaxBuilds} \subseteq Nat
  /\ TypeOK => Counters
BY IndexAssumption DEF TypeOK, Counters

\* One step up, below the bound.
LEMMA CountUp ==
  ASSUME NEW m \in Nat, NEW c \in 0 .. m, NEW n \in Nat, c + n <= m
  PROVE  c + n \in 0 .. m
OBVIOUS

LEMMA CountersTuple ==
  ASSUME Counters'
  PROVE  <<born', deletes', merges', opens', builds'>> \in
        (0 .. MaxDocs) \X (0 .. MaxDeletes) \X (0 .. MaxMerges) \X (0 .. MaxOpens) \X (0 .. MaxBuilds)
BY DEF Counters

LEMMA TypeStart == Init => TypeOK
<1> SUFFICES ASSUME Init PROVE TypeOK
  OBVIOUS
<1>1. segments \in Seq(SUBSET Docs) /\ mergedName \in Nat
  BY DEF Init
<1>2. part \in [docs -> Parts]
  <2>1. DOMAIN part = {} /\ part = [i \in {} |-> 0]
    BY DEF Init
  <2> QED BY <2>1 DEF Init
<1>3. {shards, shardFiles} \subseteq [Parts -> SUBSET Docs]
  BY DEF Init, None
<1>4. <<born, deletes, merges, opens, builds>> \in
        (0 .. MaxDocs) \X (0 .. MaxDeletes) \X (0 .. MaxMerges) \X (0 .. MaxOpens) \X (0 .. MaxBuilds)
  BY IndexAssumption DEF Init
<1> QED BY <1>1, <1>2, <1>3, <1>4 DEF Init, TypeOK

\* What memory holds after a batch: every new document in a part there is.
LEMMA TypeAdd ==
  ASSUME TypeOK, Len(segments) <= MaxDocs, NEW n \in BatchSizes, AddDocuments(n)
  PROVE  TypeOK'
<1> DEFINE new == NewDocs(n)
           newSparse == {d \in new : d.no \in WithSparse}
<1>1. /\ born + n <= MaxDocs /\ NextId + n <= MaxDocs /\ docs' = docs \cup new
      /\ part' = [d \in docs \cup new |-> IF d \in new THEN d.id % PartCount(segments) ELSE part[d]]
      /\ sparseKept' = sparseKept \cup newSparse /\ bm25' = bm25 \cup new
      /\ hnsw' = HnswAfterAdd(docs \cup new, hnsw) /\ segments' = Append(segments, new)
      /\ SaveTableIndexes(docs \cup new, part', sparse \cup newSparse, sparseKept', hnsw', PartCount(segments))
      /\ born' = born + n /\ UNCHANGED <<mergedName, tombs, deletes, merges, opens, builds>>
  BY DEF AddDocuments
<1>2. new \subseteq Docs /\ n \in Nat \ {0}
  BY <1>1, NewDocsType
<1> HIDE DEF new
<1>3. docs' \subseteq Docs /\ bm25' \subseteq Docs /\ sparseKept' \subseteq Docs /\ sparse \cup newSparse \subseteq Docs
  BY <1>1, <1>2 DEF TypeOK
<1>4. hnsw' \subseteq Docs
  BY <1>1, <1>3 DEF HnswAfterAdd, Vectors, TypeOK
<1>5. part' \in [docs' -> Parts]
  <2>1. \A d \in new : d.id \in Nat
    BY <1>2 DEF Docs
  <2>2. \A d \in new : d.id % PartCount(segments) \in Parts
    BY <2>1, PartsAre
  <2>3. \A d \in docs : part[d] \in Parts
    BY DEF TypeOK
  <2> QED BY <1>1, <2>2, <2>3
<1>6. segments' \in Seq(SUBSET Docs)
  BY <1>1, <1>2, SegmentsAppended DEF TypeOK
<1>7. /\ {sparse', sparseFile', vectorsFile', diskann', diskannFile', hnswFile'} \subseteq SUBSET Docs
      /\ {shards', shardFiles'} \subseteq [Parts -> SUBSET Docs]
      /\ saved' \in BOOLEAN
  BY <1>1, <1>3, <1>4, SaveTypes
<1>8. <<born', deletes', merges', opens', builds'>> \in
        (0 .. MaxDocs) \X (0 .. MaxDeletes) \X (0 .. MaxMerges) \X (0 .. MaxOpens) \X (0 .. MaxBuilds)
  <2>1. born' \in 0 .. MaxDocs /\ UNCHANGED <<deletes, merges, opens, builds>>
    <3>1. born \in 0 .. MaxDocs /\ MaxDocs \in Nat
      BY CountersAre DEF Counters
    <3> QED BY <1>1, <1>2, <3>1, CountUp
  <2> QED BY <2>1, CountersAre, CountersTuple DEF Counters
<1> QED BY <1>1, <1>3, <1>4, <1>5, <1>6, <1>7, <1>8 DEF TypeOK

LEMMA TypeCompact == TypeOK /\ CompactTable => TypeOK'
<1> SUFFICES ASSUME TypeOK, CompactTable PROVE TypeOK'
  OBVIOUS
<1> DEFINE kept == {d \in Live : d.id \notin tombs}
<1>1. /\ segments' = <<kept>> /\ merges' = merges + 1 /\ merges < MaxMerges /\ tombs' \subseteq tombs
      /\ mergedName' = 1 + (IF mergedName > Len(segments) THEN mergedName ELSE Len(segments))
      /\ SaveTableIndexes(docs, part, sparse, sparseKept, hnsw, PartCount(segments'))
      /\ UNCHANGED <<docs, part, sparseKept, bm25, hnsw, born, deletes, opens, builds>>
  BY DEF CompactTable
<1>2. Live \subseteq Docs /\ Len(segments) \in Nat
  BY LiveType DEF TypeOK
<1>3. kept \subseteq Docs
  BY <1>2
<1>4. segments' \in Seq(SUBSET Docs)
  BY <1>1, <1>3, SegmentsMerged
<1>5. /\ {sparse', sparseFile', vectorsFile', diskann', diskannFile', hnswFile'} \subseteq SUBSET Docs
      /\ {shards', shardFiles'} \subseteq [Parts -> SUBSET Docs] /\ saved' \in BOOLEAN
  BY <1>1, SaveTypes DEF TypeOK
<1>6. mergedName' \in Nat
  BY <1>1, <1>2 DEF TypeOK
<1>7. <<born', deletes', merges', opens', builds'>> \in
        (0 .. MaxDocs) \X (0 .. MaxDeletes) \X (0 .. MaxMerges) \X (0 .. MaxOpens) \X (0 .. MaxBuilds)
  <2>1. merges' \in 0 .. MaxMerges /\ UNCHANGED <<born, deletes, opens, builds>>
    <3>1. merges \in 0 .. MaxMerges /\ MaxMerges \in Nat
      BY CountersAre DEF Counters
    <3> QED BY <1>1, <3>1, CountUp
  <2> QED BY <2>1, CountersAre, CountersTuple DEF Counters
<1> QED BY <1>1, <1>4, <1>5, <1>6, <1>7 DEF TypeOK

LEMMA TypeCreate ==
  ASSUME TypeOK, NEW kind \in Kinds, CreateIndex(kind)
  PROVE  TypeOK'
<1>1. /\ bm25' \in {docs, bm25} /\ hnsw' \in {hnsw, Vectors(docs)} /\ builds' = builds + 1 /\ builds < MaxBuilds
      /\ SaveTableIndexes(docs, part, sparse, sparseKept, hnsw', PartCount(segments))
      /\ UNCHANGED <<tableVars, docs, part, sparseKept, born, deletes, merges, opens>>
  BY DEF CreateIndex
<1>2. hnsw' \subseteq Docs
  BY <1>1 DEF Vectors, TypeOK
<1>3. /\ {sparse', sparseFile', vectorsFile', diskann', diskannFile', hnswFile'} \subseteq SUBSET Docs
      /\ {shards', shardFiles'} \subseteq [Parts -> SUBSET Docs] /\ saved' \in BOOLEAN
  BY <1>1, <1>2, SaveTypes DEF TypeOK
<1>4. <<born', deletes', merges', opens', builds'>> \in
        (0 .. MaxDocs) \X (0 .. MaxDeletes) \X (0 .. MaxMerges) \X (0 .. MaxOpens) \X (0 .. MaxBuilds)
  <2>1. builds' \in 0 .. MaxBuilds /\ UNCHANGED <<born, deletes, merges, opens>>
    <3>1. builds \in 0 .. MaxBuilds /\ MaxBuilds \in Nat
      BY CountersAre DEF Counters
    <3> QED BY <1>1, <3>1, CountUp
  <2> QED BY <2>1, CountersAre, CountersTuple DEF Counters
<1> QED BY <1>1, <1>2, <1>3, <1>4 DEF TypeOK, tableVars

LEMMA TypeReopen ==
  ASSUME TypeOK, Len(segments) <= MaxDocs, Reopen
  PROVE  TypeOK'
<1> DEFINE parts == PartCount(segments)
           where == [d \in Live |-> d.id % parts]
<1>1. /\ docs' = Live /\ part' = where /\ sparseKept' = {} /\ bm25' = Live /\ sparse' = sparseFile
      /\ RestoreHnswIndex(Live, where, parts) /\ RestoreDiskannIndex(Live) /\ saved' = FALSE
      /\ opens' = opens + 1 /\ opens < MaxOpens
      /\ UNCHANGED <<tableVars, vectorsFile, sparseFile, born, deletes, merges, builds>>
  BY DEF Reopen, Loaded
<1>2. Live \subseteq Docs /\ Vectors(Live) \subseteq Docs
  BY LiveType DEF TypeOK, Vectors
<1>3. where \in [Live -> Parts]
  <2>1. \A d \in Live : d.id \in Nat
    BY <1>2 DEF Docs
  <2> QED BY <2>1, PartsAre
<1> HIDE DEF where, parts
<1>4. RebuildSegmentHnsw(Live, where, parts) \in [Parts -> SUBSET Docs]
  BY <1>2 DEF RebuildSegmentHnsw, PartOf
<1>5. hnsw' \subseteq Docs /\ hnswFile' \subseteq Docs
  BY <1>1, <1>2 DEF RestoreHnswIndex, TypeOK
<1>6. shards' \in [Parts -> SUBSET Docs]
  BY <1>1, <1>4 DEF RestoreHnswIndex, TypeOK
<1>7. shardFiles' \in [Parts -> SUBSET Docs]
  BY <1>1, <1>6 DEF RestoreHnswIndex, Saved, TypeOK
<1>8. diskann' \subseteq Docs /\ diskannFile' \subseteq Docs
  BY <1>1, <1>2 DEF RestoreDiskannIndex, TypeOK
<1>9. <<born', deletes', merges', opens', builds'>> \in
        (0 .. MaxDocs) \X (0 .. MaxDeletes) \X (0 .. MaxMerges) \X (0 .. MaxOpens) \X (0 .. MaxBuilds)
  <2>1. opens' \in 0 .. MaxOpens /\ UNCHANGED <<born, deletes, merges, builds>>
    <3>1. opens \in 0 .. MaxOpens /\ MaxOpens \in Nat
      BY CountersAre DEF Counters
    <3> QED BY <1>1, <3>1, CountUp
  <2> QED BY <2>1, CountersAre, CountersTuple DEF Counters
<1>10. {vectorsFile', hnswFile', diskannFile', sparseFile', docs', sparseKept', bm25', sparse', hnsw',
        diskann'} \subseteq SUBSET Docs
  BY <1>1, <1>2, <1>5, <1>8 DEF TypeOK
<1> QED BY <1>1, <1>3, <1>6, <1>7, <1>9, <1>10 DEF TypeOK, tableVars

LEMMA TypeStep ==
  ASSUME TypeOK, Len(segments) <= born, [Next]_vars
  PROVE  TypeOK'
<1>1. Len(segments) <= MaxDocs
  <2>1. Len(segments) \in Nat /\ born \in 0 .. MaxDocs /\ MaxDocs \in Nat
    BY LiveType, IndexAssumption DEF TypeOK
  <2> QED BY <2>1
<1>2. ASSUME NEW d \in Docs, DeleteById(d) PROVE TypeOK'
  <2>1. /\ tombs' = tombs \cup {d.id} /\ deletes' = deletes + 1 /\ deletes < MaxDeletes
        /\ UNCHANGED <<segments, mergedName, fileVars, memVars, saved, born, merges, opens, builds>>
    BY <1>2 DEF DeleteById
  <2>2. tombs' \subseteq 0 .. MaxDocs - 1
    BY <2>1 DEF TypeOK, Docs
  <2>3. <<born', deletes', merges', opens', builds'>> \in
        (0 .. MaxDocs) \X (0 .. MaxDeletes) \X (0 .. MaxMerges) \X (0 .. MaxOpens) \X (0 .. MaxBuilds)
    <3>1. deletes' \in 0 .. MaxDeletes /\ UNCHANGED <<born, merges, opens, builds>>
      <4>1. deletes \in 0 .. MaxDeletes /\ MaxDeletes \in Nat
        BY CountersAre DEF Counters
      <4> QED BY <2>1, <4>1, CountUp
    <3> QED BY <3>1, CountersAre, CountersTuple DEF Counters
  <2> QED BY <2>1, <2>2, <2>3 DEF TypeOK, fileVars, memVars
<1>3. CASE UNCHANGED vars
  BY <1>3 DEF TypeOK, vars, tableVars, fileVars, memVars, counters
<1> QED BY <1>1, <1>2, <1>3, TypeAdd, TypeCompact, TypeCreate, TypeReopen DEF Next

---------------------------------------------------------------------------
(* The vectors a dense search meets *)

LEMMA DocsFinite == IsFiniteSet(Docs)
<1> DEFINE Ids == 0 .. MaxDocs - 1
           pairs == Ids \X Ids
           f == [p \in pairs |-> [id |-> p[1], no |-> p[2]]]
<1>1. IsFiniteSet(Ids)
  BY IndexAssumption, FS_Interval
<1>2. IsFiniteSet(pairs)
  BY <1>1, FS_Product
<1>3. f \in [pairs -> Docs]
  BY DEF Docs
<1>4. ASSUME NEW d \in Docs PROVE \E p \in pairs : f[p] = d
  <2>1. d.id \in Ids /\ d.no \in Ids /\ d = [id |-> d.id, no |-> d.no]
    BY DEF Docs
  <2>2. <<d.id, d.no>> \in pairs /\ f[<<d.id, d.no>>] = [id |-> d.id, no |-> d.no]
    BY <2>1
  <2> QED BY <2>1, <2>2
<1> HIDE DEF f, pairs
<1>5. f \in Surjection(pairs, Docs)
  BY <1>3, <1>4 DEF Surjection
<1> QED BY <1>2, <1>5, FS_Surjection

\* More documents are not too small for a graph when fewer are not.
LEMMA LargerIsLarge ==
  ASSUME NEW B \in SUBSET Docs, NEW A \in SUBSET B, ShouldUseHnsw(A)
  PROVE  ShouldUseHnsw(B) /\ A # {}
<1>1. IsFiniteSet(B) /\ IsFiniteSet(A)
  BY DocsFinite, FS_Subset
<1>2. Cardinality(A) <= Cardinality(B) /\ Cardinality(A) \in Nat /\ Cardinality(B) \in Nat
  BY <1>1, FS_Subset, FS_CardinalityType
<1>3. HnswMin \in Nat \ {0}
  BY IndexAssumption
<1>4. ShouldUseHnsw(B)
  BY <1>2, <1>3 DEF ShouldUseHnsw
<1>5. A # {}
  <2>1. Cardinality({}) = 0
    BY FS_EmptySet
  <2> QED BY <1>3, <2>1 DEF ShouldUseHnsw
<1> QED BY <1>4, <1>5

LEMMA VectorsWithin ==
  ASSUME NEW B, NEW A \in SUBSET B
  PROVE  Vectors(A) \subseteq Vectors(B) /\ Vectors(B) \subseteq B
BY DEF Vectors

\* What saving a corpus leaves: complete graphs on file when it is large, whatever the
\* documents among them that are still rows of the table.
LEMMA SaveKeepsVectors ==
  ASSUME NEW set \in SUBSET Docs, NEW where, NEW sp, NEW kept, NEW graph \in SUBSET Docs, NEW n,
         SaveTableIndexes(set, where, sp, kept, graph, n),
         ShouldUseHnsw(Vectors(set)) => Vectors(set) \subseteq graph
  PROVE  /\ ShouldUseHnsw(Vectors(set)) => Vectors(set) \subseteq diskann' \cap hnswFile' \cap diskannFile'
         /\ HasVectors(set) => \A p \in Parts : shards'[p] \in {{}, PartOf(set, where, p)}
         /\ ~HasVectors(set) => UNCHANGED <<hnswFile, diskannFile>>
<1>1. ASSUME ShouldUseHnsw(Vectors(set))
      PROVE  Vectors(set) \subseteq diskann' \cap hnswFile' \cap diskannFile'
  <2>1. Vectors(set) \in SUBSET Docs
    BY VectorsWithin
  <2>2. HasVectors(set) /\ ShouldUseHnsw(graph)
    BY <1>1, <2>1, LargerIsLarge DEF HasVectors
  <2> QED BY <1>1, <2>2 DEF SaveTableIndexes
<1>2. HasVectors(set) => \A p \in Parts : shards'[p] \in {{}, PartOf(set, where, p)}
  BY DEF SaveTableIndexes, RebuildSegmentHnsw
<1> QED BY <1>1, <1>2 DEF SaveTableIndexes

\* After a save of all the documents in memory.
LEMMA VectorsSaved ==
  ASSUME NEW D \in SUBSET Docs, docs' = D, Live' \subseteq D, Len(segments') <= born',
         NEW where, part' = where, NEW graph \in SUBSET Docs, hnsw' = graph,
         ShouldUseHnsw(Vectors(D)) => Vectors(D) \subseteq graph,
         NEW sp, NEW kept, NEW n, SaveTableIndexes(D, where, sp, kept, graph, n)
  PROVE  VectorInv'
<1>1. /\ ShouldUseHnsw(Vectors(D)) => Vectors(D) \subseteq diskann' \cap hnswFile' \cap diskannFile'
      /\ HasVectors(D) => \A p \in Parts : shards'[p] \in {{}, PartOf(D, where, p)}
  BY SaveKeepsVectors
<1>2. PICK L : L = Live' /\ L \subseteq D
  OBVIOUS
<1>3. Vectors(L) \subseteq Vectors(D) /\ Vectors(D) \in SUBSET Docs
  BY <1>2, VectorsWithin
<1>4. ShouldUseHnsw(Vectors(L)) => Vectors(L) \subseteq hnswFile' \cap diskannFile'
  BY <1>1, <1>3, LargerIsLarge
<1>5. Vectors(Live)' = Vectors(L) /\ ShouldUseHnsw(Vectors(Live))' = ShouldUseHnsw(Vectors(L))
  BY <1>2 DEF Vectors, ShouldUseHnsw
<1>6. Vectors(docs)' = Vectors(D) /\ ShouldUseHnsw(Vectors(docs))' = ShouldUseHnsw(Vectors(D))
      /\ HasVectors(docs)' = HasVectors(D)
  BY DEF Vectors, ShouldUseHnsw, HasVectors
<1>7. \A p \in Parts : PartOf(docs, part, p)' = PartOf(D, where, p)
  BY DEF PartOf, Vectors
<1>8. Live' \subseteq docs' /\ Len(segments') <= born'
  OBVIOUS
<1> QED BY <1>1, <1>4, <1>5, <1>6, <1>7, <1>8 DEF VectorInv

LEMMA VectorStart == Init => VectorInv
<1> SUFFICES ASSUME Init PROVE VectorInv
  OBVIOUS
<1>1. segments = <<>> /\ docs = {} /\ Len(segments) = 0 /\ born = 0
  BY DEF Init
<1>2. Live = {}
  BY <1>1 DEF Live, ToSet
<1>3. Vectors({}) = {} /\ ~HasVectors({})
  BY DEF Vectors, HasVectors
<1> QED BY <1>1, <1>2, <1>3 DEF VectorInv

LEMMA VectorAdd ==
  ASSUME TypeOK, VectorInv, NEW n \in BatchSizes, AddDocuments(n)
  PROVE  VectorInv'
<1> DEFINE new == NewDocs(n)
           newSparse == {d \in new : d.no \in WithSparse}
<1>1. /\ born + n <= MaxDocs /\ NextId + n <= MaxDocs /\ docs' = docs \cup new
      /\ hnsw' = HnswAfterAdd(docs \cup new, hnsw) /\ segments' = Append(segments, new)
      /\ SaveTableIndexes(docs \cup new, part', sparse \cup newSparse, sparseKept', hnsw', PartCount(segments))
      /\ born' = born + n
  BY DEF AddDocuments
<1>2. new \subseteq Docs /\ n \in Nat \ {0}
  BY <1>1, NewDocsType
<1> HIDE DEF new, newSparse
<1>3. PICK D : D = docs \cup new
  OBVIOUS
<1>4. D \in SUBSET Docs /\ docs' = D
  BY <1>1, <1>2, <1>3 DEF TypeOK
<1>5. Live' \subseteq D /\ Len(segments') = Len(segments) + 1
  BY <1>1, <1>2, <1>3, SegmentsAppended DEF TypeOK, VectorInv
<1>6. Len(segments') <= born'
  <2>1. Len(segments) \in Nat /\ born \in Nat /\ Len(segments) <= born
    BY LiveType DEF TypeOK, VectorInv
  <2> QED BY <1>1, <1>2, <1>5, <2>1
<1>7. ShouldUseHnsw(Vectors(D)) => hnsw' = Vectors(D)
  <2> SUFFICES ASSUME ShouldUseHnsw(Vectors(D)) PROVE hnsw' = Vectors(D)
    OBVIOUS
  <2>1. ShouldUseHnsw(D) /\ HasVectors(D)
    BY <1>4, VectorsWithin, LargerIsLarge DEF HasVectors
  <2> QED BY <1>1, <1>3, <2>1 DEF HnswAfterAdd
<1>8. hnsw' \in SUBSET Docs
  <2>1. Vectors(D) \subseteq Docs /\ hnsw \subseteq Docs
    BY <1>4, VectorsWithin DEF TypeOK
  <2> QED BY <1>1, <1>3, <2>1 DEF HnswAfterAdd
<1>9. PICK where, graph, sp, kept, m :
        where = part' /\ graph = hnsw' /\ sp = sparse \cup newSparse /\ kept = sparseKept' /\ m = PartCount(segments)
  OBVIOUS
<1>10. SaveTableIndexes(D, where, sp, kept, graph, m)
  BY <1>1, <1>3, <1>9
<1>11. ShouldUseHnsw(Vectors(D)) => Vectors(D) \subseteq graph
  BY <1>7, <1>9
<1> QED BY <1>4, <1>5, <1>6, <1>8, <1>9, <1>10, <1>11, VectorsSaved

\* A compaction or an index created by hand saves the corpus as it is.
LEMMA VectorsSavedAgain ==
  ASSUME TypeOK, VectorInv, NEW graph \in {hnsw, Vectors(docs)}, hnsw' = graph, UNCHANGED <<docs, part, born>>,
         Live' \subseteq Live, Len(segments') \in Nat, Len(segments') <= Len(segments),
         NEW n, SaveTableIndexes(docs, part, sparse, sparseKept, graph, n)
  PROVE  VectorInv'
<1>1. PICK D, where, sp, kept : D = docs /\ where = part /\ sp = sparse /\ kept = sparseKept
  OBVIOUS
<1>2. D \in SUBSET Docs /\ docs' = D /\ part' = where /\ Live' \subseteq D
  BY <1>1 DEF TypeOK, VectorInv
<1>3. Len(segments') <= born'
  <2>1. Len(segments) \in Nat /\ born \in Nat /\ Len(segments) <= born
    BY LiveType DEF TypeOK, VectorInv
  <2> QED BY <2>1
<1>4. graph \in SUBSET Docs /\ (ShouldUseHnsw(Vectors(D)) => Vectors(D) \subseteq graph)
  BY <1>1, VectorsWithin DEF TypeOK, VectorInv
<1>5. SaveTableIndexes(D, where, sp, kept, graph, n)
  BY <1>1
<1> QED BY <1>2, <1>3, <1>4, <1>5, VectorsSaved

LEMMA VectorReopen ==
  ASSUME TypeOK, VectorInv, Reopen
  PROVE  VectorInv'
<1> DEFINE parts == PartCount(segments)
           where == [d \in Live |-> d.id % parts]
<1>1. /\ docs' = Live /\ saved' = FALSE /\ segments' = segments /\ born' = born
      /\ RestoreHnswIndex(Live, where, parts) /\ RestoreDiskannIndex(Live)
  BY DEF Reopen, Loaded, tableVars
<1> HIDE DEF where, parts
<1>2. PICK L : L = Live
  OBVIOUS
<1>3. Live' = L /\ docs' = L /\ Vectors(L) \in SUBSET Docs
  BY <1>1, <1>2, LiveType, VectorsWithin DEF Live, TypeOK
<1>4. ASSUME ShouldUseHnsw(Vectors(L))
      PROVE  Vectors(L) \subseteq hnsw' \cap diskann' \cap hnswFile' \cap diskannFile'
  <2>1. Vectors(L) \subseteq hnswFile \cap diskannFile /\ Vectors(L) # {}
    BY <1>2, <1>3, <1>4, LargerIsLarge DEF VectorInv
  <2>2. hnswFile # {} /\ diskannFile # {}
    BY <2>1
  <2>3. hnsw' = hnswFile /\ hnswFile' = hnswFile
    BY <1>1, <2>2 DEF RestoreHnswIndex
  <2>4. diskann' = diskannFile /\ diskannFile' = diskannFile
    BY <1>1, <2>2 DEF RestoreDiskannIndex
  <2> QED BY <2>1, <2>3, <2>4
<1>5. /\ Vectors(docs)' = Vectors(L) /\ ShouldUseHnsw(Vectors(docs))' = ShouldUseHnsw(Vectors(L))
      /\ Vectors(Live)' = Vectors(L) /\ ShouldUseHnsw(Vectors(Live))' = ShouldUseHnsw(Vectors(L))
  BY <1>3 DEF Vectors, ShouldUseHnsw
<1>6. Live' \subseteq docs' /\ Len(segments') <= born'
  BY <1>1, <1>3 DEF VectorInv
<1> QED BY <1>1, <1>4, <1>5, <1>6 DEF VectorInv

LEMMA VectorStep ==
  ASSUME TypeOK, VectorInv, [Next]_vars
  PROVE  VectorInv'
<1>1. Len(segments) \in Nat
  BY LiveType DEF TypeOK
<1>2. ASSUME NEW d \in Docs, DeleteById(d) PROVE VectorInv'
  BY <1>2 DEF DeleteById, fileVars, memVars, VectorInv, Live, Vectors, PartOf, HasVectors, ShouldUseHnsw
<1>3. CASE CompactTable
  <2> DEFINE kept == {d \in Live : d.id \notin tombs}
  <2>1. /\ segments' = <<kept>> /\ Len(segments) >= 2
        /\ SaveTableIndexes(docs, part, sparse, sparseKept, hnsw, PartCount(segments'))
        /\ UNCHANGED <<docs, part, sparseKept, hnsw, born>>
    BY <1>3 DEF CompactTable
  <2>2. kept \in SUBSET Docs /\ kept \subseteq Live
    BY LiveType DEF TypeOK
  <2> HIDE DEF kept
  <2>3. Live' \subseteq Live /\ Len(segments') = 1
    BY <2>1, <2>2, SegmentsMerged
  <2>4. PICK n : n = PartCount(segments')
    OBVIOUS
  <2>5. SaveTableIndexes(docs, part, sparse, sparseKept, hnsw, n)
    BY <2>1, <2>4
  <2> QED BY <1>1, <2>1, <2>3, <2>5, VectorsSavedAgain
<1>4. ASSUME NEW kind \in Kinds, CreateIndex(kind) PROVE VectorInv'
  <2>1. /\ hnsw' \in {hnsw, Vectors(docs)} /\ segments' = segments /\ UNCHANGED <<docs, part, born>>
        /\ SaveTableIndexes(docs, part, sparse, sparseKept, hnsw', PartCount(segments))
    BY <1>4 DEF CreateIndex, tableVars
  <2>2. PICK graph \in {hnsw, Vectors(docs)} : graph = hnsw'
    BY <2>1
  <2>3. Live' \subseteq Live /\ SaveTableIndexes(docs, part, sparse, sparseKept, graph, PartCount(segments))
    BY <2>1, <2>2 DEF Live
  <2> QED BY <1>1, <2>1, <2>2, <2>3, VectorsSavedAgain
<1>5. CASE UNCHANGED vars
  BY <1>5 DEF vars, tableVars, fileVars, memVars, counters, VectorInv, Live, Vectors, PartOf, HasVectors, ShouldUseHnsw
<1> QED BY <1>2, <1>3, <1>4, <1>5, VectorAdd, VectorReopen DEF Next

\* A document of one part is met in that part, by its shard or by a scan, and in no other.
LEMMA MetOnce ==
  ASSUME TypeOK, VectorInv, saved
  PROVE  PartsDisjoint
<1> SUFFICES ASSUME NEW d \in Vectors(docs)
             PROVE  Cardinality({p \in ScannedParts : d \in SegmentVectorSearch(p)})
                      = IF part[d] \in ScannedParts THEN 1 ELSE 0
  BY DEF PartsDisjoint
<1>1. ScannedParts \subseteq Parts
  <2>1. Len(segments) \in Nat /\ born \in 0 .. MaxDocs /\ MaxDocs \in Nat /\ Len(segments) <= born
    BY LiveType, IndexAssumption DEF TypeOK, VectorInv
  <2> QED BY <2>1, PartsAre
<1>2. HasVectors(docs)
  BY DEF HasVectors
<1>3. ASSUME NEW p \in ScannedParts PROVE SegmentVectorSearch(p) = PartOf(docs, part, p)
  <2>1. p \in Parts
    BY <1>1
  <2>2. shards[p] \in {{}, PartOf(docs, part, p)}
    BY <1>2, <2>1 DEF VectorInv
  <2> QED BY <2>2 DEF SegmentVectorSearch
<1>4. {p \in ScannedParts : d \in SegmentVectorSearch(p)} = {p \in ScannedParts : part[d] = p}
  BY <1>3 DEF PartOf
<1>5. CASE part[d] \in ScannedParts
  <2>1. {p \in ScannedParts : part[d] = p} = {part[d]}
    BY <1>5
  <2>2. Cardinality({part[d]}) = 1
    BY FS_Singleton
  <2> QED BY <1>4, <1>5, <2>1, <2>2
<1>6. CASE part[d] \notin ScannedParts
  <2>1. {p \in ScannedParts : part[d] = p} = {}
    BY <1>6
  <2>2. Cardinality({}) = 0
    BY FS_EmptySet
  <2> QED BY <1>4, <1>6, <2>1, <2>2
<1> QED BY <1>5, <1>6

\* Every state has its types, so that the part a document is put in is one there is and
\* no number of a document, a part or a segment is used past its bound.  (load_table,
\* insert_at, save_table_indexes)
THEOREM IndexTypes == Spec => []TypeOK
<1>1. TypeOK /\ VectorInv /\ [Next]_vars => (TypeOK /\ VectorInv)'
  BY TypeStep, VectorStep DEF VectorInv
<1> QED BY <1>1, TypeStart, VectorStart, PTL DEF Spec

\* A graph that is used for a corpus with enough vectors knows every one of them, even
\* one read from a file that was written before a compaction; and the scan of the parts
\* meets every vector of a scanned part once.  (rebuild_segment_hnsw, restore_hnsw_index,
\* restore_diskann_index, save_table_indexes)
THEOREM VectorsAreMet == Spec => []VectorsMet
<1>1. TypeOK /\ VectorInv => VectorsMet
  <2>1. VectorInv => GraphsComplete
    BY DEF VectorInv, GraphsComplete
  <2> QED BY <2>1, MetOnce DEF VectorsMet, PartsDisjoint
<1>2. TypeOK /\ VectorInv /\ [Next]_vars => (TypeOK /\ VectorInv)'
  BY TypeStep, VectorStep DEF VectorInv
<1> QED BY <1>1, <1>2, TypeStart, VectorStart, PTL DEF Spec
=============================================================================
