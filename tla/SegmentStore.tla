----------------------------- MODULE SegmentStore -----------------------------
(***************************************************************************)
(* The life of one table behind one DagRunner handle: ingest, DELETE,      *)
(* compaction, process crashes and the replay of the logs when the         *)
(* database is opened again.  (toradb-engine: dag.rs, persist.rs;          *)
(* toradb-storage: wal.rs, compaction.rs, columnar/manifest.rs)            *)
(*                                                                         *)
(* A handle is `&mut self`, so operations do not overlap; `pc` is the      *)
(* place the one running operation has reached, and each step does one     *)
(* write to disk.  Crash may come between any two of them: the disk stays, *)
(* memory is lost.  Written data is assumed to survive a process crash,    *)
(* and one file write to be atomic, except for the rewrite of the          *)
(* tombstone file in compaction, which the code truncates first.           *)
(***************************************************************************)
EXTENDS TableManifest

CONSTANTS
  MaxDocs,        \* bound: documents ever offered to the table
  BatchSizes,     \* sizes of the batches handed to add_documents
  CompactModes,   \* modes COMPACT TABLE is called with
  DeletableIds,   \* bound: the ids DELETE names
  DeleteAhead,    \* how far past the last assigned id a DELETE may reach
  SizeTiers,      \* tiers a written segment's byte size can fall in
  MaxCrashes      \* bound: process crashes

ASSUME BoundsAssumption ==
  /\ MaxDocs \in Nat
  /\ BatchSizes \subseteq Nat \ {0}
  /\ CompactModes \subseteq {"normal", "full"}
  /\ DeletableIds \subseteq Nat
  /\ DeleteAhead \in Nat
  /\ SizeTiers \subseteq Tiers
  /\ MaxCrashes \in Nat

VARIABLES
  \* on disk
  files,       \* segments/: name -> documents of the Parquet file
  manifest,    \* manifest.json: name -> metadata
  flushWal,    \* wal/flush.jsonl
  compWal,     \* wal/compaction.jsonl
  tombs,       \* indexes/tombstones.bin
  \* in memory
  mem,         \* the corpus: documents of the table
  nextId,      \* the corpus: next document id
  pc,          \* the place the running operation has reached
  batch,       \* documents being flushed
  plan,        \* merge groups still to do
  wm,          \* compaction's manifest, saved when all groups are merged
  snap,        \* the tombstones compaction read when it started
  reclaimed,   \* the tombstones it will drop
  group,       \* the group being merged
  buf,         \* the rows written so far to its output
  report,      \* names removed and added (with tiers), for the compaction log
  \* history
  nextUid,     \* documents offered so far
  committed,   \* documents whose flush reached the WAL
  deleted,     \* documents a DELETE named
  clobbered,   \* documents in a segment file that was overwritten
  orphaned,    \* documents in a merge output no manifest names
  bornDead,    \* documents given an id that was already tombstoned
  crashes

disk == <<files, manifest, flushWal, compWal, tombs>>
work == <<plan, wm, snap, reclaimed, group, buf, report>>
history == <<nextUid, committed, deleted, clobbered, orphaned, bornDead, crashes>>
vars == <<disk, mem, nextId, pc, batch, work, history>>

\* A document: the id the table gave it, and its identity.  Two documents
\* can be given one id when the table forgets the first.
Docs == [id: Nat, uid: Nat]

FlushRecords == [seg: Nat, since: Nat, count: Nat]
CompactionRecords == [removed: SUBSET Nat, added: SUBSET (Nat \X Tiers)]

NoFiles == [s \in {} |-> {}]
NoGroup == [segments |-> {}, tier |-> 0]
NoReport == [removed |-> {}, added |-> {}]

Ids(D) == {d.id : d \in D}
InFiles(F, S) == UNION {F[s] : s \in S \cap DOMAIN F}

\* The documents a reader of the manifest finds.
Stored == InFiles(files, DOMAIN manifest)

\* The rows the running merge has taken from its sources.
InMerge == buf \cup InFiles(files, DOMAIN wm \ DOMAIN manifest)

\* What a reader of the manifest, a replay of the log or the running merge
\* can still bring back.
Recoverable == Stored \cup InFiles(files, {r.seg : r \in flushWal}) \cup InMerge

Init ==
  /\ files = NoFiles /\ manifest = NoSegments
  /\ flushWal = {} /\ compWal = {} /\ tombs = {}
  /\ mem = {} /\ nextId = 0 /\ pc = "idle" /\ batch = {}
  /\ plan = {} /\ wm = NoSegments /\ snap = {} /\ reclaimed = {}
  /\ group = NoGroup /\ buf = {} /\ report = NoReport
  /\ nextUid = 0 /\ committed = {} /\ deleted = {}
  /\ clobbered = {} /\ orphaned = {} /\ bornDead = {} /\ crashes = 0

-----------------------------------------------------------------------------
(* Ingest: add_documents -> flush_new_docs -> flush_batch_with_opts *)

\* add_documents: the corpus takes the documents first.
AddDocuments(k) ==
  /\ pc = "idle" /\ nextUid + k <= MaxDocs
  /\ batch' = {[id |-> nextId + i, uid |-> nextUid + i] : i \in 0..(k - 1)}
  /\ mem' = mem \cup batch'
  /\ nextId' = nextId + k /\ nextUid' = nextUid + k
  /\ bornDead' = bornDead \cup {d \in batch' : d.id \in tombs}
  /\ pc' = "write_segment"
  /\ UNCHANGED <<disk, work, committed, deleted, clobbered, orphaned, crashes>>

WriteSegment ==
  /\ pc = "write_segment"
  /\ files' = Put(files, FlushName(manifest), batch)
  /\ clobbered' = clobbered \cup InFiles(files, {FlushName(manifest)})
  /\ pc' = "append_flush"
  /\ UNCHANGED <<manifest, flushWal, compWal, tombs, mem, nextId, batch, work,
                 nextUid, committed, deleted, orphaned, bornDead, crashes>>

FlushSince == MinOf(Ids(batch))

AppendFlush ==
  /\ pc = "append_flush"
  /\ flushWal' = flushWal \cup {[seg |-> FlushName(manifest),
                                 since |-> FlushSince,
                                 count |-> Cardinality(batch)]}
  /\ committed' = committed \cup batch
  /\ pc' = "commit_manifest"
  /\ UNCHANGED <<files, manifest, compWal, tombs, mem, nextId, batch, work,
                 nextUid, deleted, clobbered, orphaned, bornDead, crashes>>

\* (mutant) the range of a batch taken to be its first id.
CommitManifestFirstId(t) ==
  /\ pc = "commit_manifest"
  /\ manifest' = PushSegmentMeta(manifest, FlushName(manifest),
                   [lo |-> FlushSince, hi |-> FlushSince,
                    tier |-> t, gen |-> NextGeneration(manifest)])
  /\ batch' = {}
  /\ pc' = "checkpoint"
  /\ UNCHANGED <<files, flushWal, compWal, tombs, mem, nextId, work, history>>

CommitManifest(t) ==
  /\ pc = "commit_manifest"
  /\ manifest' = PushSegmentMeta(manifest, FlushName(manifest),
                   [lo |-> FlushSince, hi |-> MaxOf(Ids(batch)),
                    tier |-> t, gen |-> NextGeneration(manifest)])
  /\ batch' = {}
  /\ pc' = "checkpoint"
  /\ UNCHANGED <<files, flushWal, compWal, tombs, mem, nextId, work, history>>

\* checkpoint_after_manifest: the log goes when every record is durable.
Checkpointed(wal, m, F) ==
  IF \A r \in wal : r.seg \in DOMAIN m \cap DOMAIN F THEN {} ELSE wal

\* ... and maybe_compact_after_flush.
CheckpointFlush ==
  /\ pc = "checkpoint"
  /\ flushWal' = Checkpointed(flushWal, manifest, files)
  /\ pc' = IF ShouldCompactTiered(manifest) THEN "maybe_compact" ELSE "idle"
  /\ UNCHANGED <<files, manifest, compWal, tombs, mem, nextId, batch, work, history>>

-----------------------------------------------------------------------------
(* DELETE: delete_by_ids -> add_tombstones (no check that the id exists) *)

DeleteById(id) ==
  /\ pc = "idle" /\ id < nextId + DeleteAhead
  /\ tombs' = tombs \cup {id}
  /\ deleted' = deleted \cup {d \in mem : d.id = id}
  /\ UNCHANGED <<files, manifest, flushWal, compWal, mem, nextId, pc, batch, work,
                 nextUid, committed, clobbered, orphaned, bornDead, crashes>>

-----------------------------------------------------------------------------
(* Compaction: compact_table -> compact_table_segments *)

\* replay_compaction_wal: removed names leave the manifest when their file is
\* gone; added ones enter it, with their tier, when their file is there.
CompactionReplayed(m, F) ==
  LET gone == {s \in (UNION {r.removed : r \in compWal}) \cap DOMAIN m :
                 s \notin DOMAIN F}
      added == UNION {r.added : r \in compWal}
      here == PushSegments(RemoveSegments(m, gone),
                           {a[1] : a \in added} \cap DOMAIN F)
      TierOf(s) == MaxOf({a[2] : a \in {b \in added : b[1] = s}})
  IN  [s \in DOMAIN here |->
         IF here[s].tier = 0 THEN [here[s] EXCEPT !.tier = TierOf(s)] ELSE here[s]]

ReplayCompactionWal ==
  /\ manifest' = CompactionReplayed(manifest, files)
  /\ compWal' = IF DOMAIN manifest' \subseteq DOMAIN files THEN {} ELSE compWal

\* The replay, then the early returns, the candidates and the tombstones.
StartCompaction(mode) ==
  /\ ReplayCompactionWal
  /\ plan' = MergeGroups(manifest', mode)
  /\ pc' = IF plan' = {} THEN "idle" ELSE "merge"
  /\ IF plan' = {}
     THEN wm' = NoSegments /\ snap' = {}
     ELSE wm' = manifest' /\ snap' = tombs
  /\ UNCHANGED <<files, flushWal, tombs, mem, nextId, batch, reclaimed,
                 group, buf, report, history>>

CompactTable(mode) == pc = "idle" /\ StartCompaction(mode)
MaybeCompactAfterFlush == pc = "maybe_compact" /\ StartCompaction("auto")

\* compact_table_segments returns: its locals are gone.  The outputs it has
\* written are lost unless the manifest on disk already names them.
DropWork ==
  /\ plan' = {} /\ wm' = NoSegments /\ snap' = {} /\ reclaimed' = {}
  /\ group' = NoGroup /\ buf' = {} /\ report' = NoReport
  /\ orphaned' = orphaned \cup InMerge

\* (mutant) only the upper end of the range looked at.
InRangeUpperOnly(id, m, S) == id <= MaxOf({m[s].hi : s \in S})

\* Tombstones in the id range of the group are taken to be in the group.
InRange(id, m, S) ==
  /\ MinOf({m[s].lo : s \in S}) <= id
  /\ id <= MaxOf({m[s].hi : s \in S})

\* Create the output file, after checking that every source is there.
OpenGroup(g) ==
  /\ pc = "merge" /\ group = NoGroup /\ g \in plan
  /\ g.segments \subseteq DOMAIN files
  /\ group' = g /\ plan' = plan \ {g}
  /\ reclaimed' = reclaimed \cup {id \in snap : InRange(id, wm, g.segments)}
  /\ files' = Without(files, {NextSegmentName(wm)})
  /\ clobbered' = clobbered \cup InFiles(files, {NextSegmentName(wm)})
  /\ UNCHANGED <<manifest, flushWal, compWal, tombs, mem, nextId, pc, batch, wm, snap,
                 buf, report, nextUid, committed, deleted, orphaned, bornDead, crashes>>

\* (mutant) compaction tried again at once when it fails.
MissingSourceRetry(g) ==
  /\ pc = "merge" /\ group = NoGroup /\ g \in plan
  /\ ~ (g.segments \subseteq DOMAIN files)
  /\ DropWork
  /\ pc' = "maybe_compact"
  /\ UNCHANGED <<disk, mem, nextId, batch, nextUid, committed, deleted, clobbered,
                 bornDead, crashes>>

\* "missing segment file": the whole compaction fails, the groups already
\* merged included.
MissingSource(g) ==
  /\ pc = "merge" /\ group = NoGroup /\ g \in plan
  /\ ~ (g.segments \subseteq DOMAIN files)
  /\ DropWork
  /\ pc' = "idle"
  /\ UNCHANGED <<disk, mem, nextId, batch, nextUid, committed, deleted, clobbered, bornDead, crashes>>

Sources == {s \in group.segments \cap DOMAIN files : files[s] # {}}

\* (mutant) split_batch_at losing the last row of a source.
ConsumeSourceLosingLast(s) ==
  /\ pc = "merge" /\ s \in Sources
  /\ \A t \in Sources : MaxOf(Ids(files[s])) <= MaxOf(Ids(files[t]))
  /\ buf' = buf \cup {d \in files[s] : d.id \notin snap /\ d.id < MaxOf(Ids(files[s]))}
  /\ files' = Without(files, {s})
  /\ UNCHANGED <<manifest, flushWal, compWal, tombs, mem, nextId, pc, batch, plan, wm,
                 snap, reclaimed, group, report, history>>

\* The merge is by id, so the source with the smallest last id is used up
\* first; take_batch deletes its file at once.
ConsumeSource(s) ==
  /\ pc = "merge" /\ s \in Sources
  /\ \A t \in Sources : MaxOf(Ids(files[s])) <= MaxOf(Ids(files[t]))
  /\ buf' = buf \cup {d \in files[s] : d.id \notin snap}
  /\ files' = Without(files, {s})
  /\ UNCHANGED <<manifest, flushWal, compWal, tombs, mem, nextId, pc, batch, plan, wm,
                 snap, reclaimed, group, report, history>>

\* Close the output, delete what is left of the sources (empty files), and
\* bring the manifest in memory up to date.
CloseGroup(t) ==
  LET new == NextSegmentName(wm)
      tier == IF t > group.tier THEN t ELSE group.tier
  IN
  /\ pc = "merge" /\ group # NoGroup /\ Sources = {}
  /\ files' = Put(Without(files, group.segments), new, buf)
  /\ wm' = PushSegmentMeta(RemoveSegments(wm, group.segments), new,
             [lo |-> MinOf(Ids(buf)), hi |-> MaxOf(Ids(buf)),
              tier |-> tier, gen |-> NextGeneration(wm)])
  /\ report' = [removed |-> report.removed \cup group.segments,
                added |-> report.added \cup {<<new, tier>>}]
  /\ group' = NoGroup /\ buf' = {}
  /\ UNCHANGED <<manifest, flushWal, compWal, tombs, mem, nextId, pc, batch, plan,
                 snap, reclaimed, history>>

SaveCompactedManifest ==
  /\ pc = "merge" /\ group = NoGroup /\ plan = {}
  /\ manifest' = wm
  /\ pc' = IF reclaimed = {} THEN "append_compaction" ELSE "drop_tombstones"
  /\ UNCHANGED <<files, flushWal, compWal, tombs, mem, nextId, batch, work, history>>

\* remove_file when none remain, else fs::write, which truncates first; a
\* tombstone file that does not parse reads as no tombstones.
DropTombstones ==
  /\ pc = "drop_tombstones"
  /\ tombs' = {}
  /\ pc' = IF snap \subseteq reclaimed THEN "append_compaction" ELSE "rewrite_tombstones"
  /\ UNCHANGED <<files, manifest, flushWal, compWal, mem, nextId, batch, work, history>>

RewriteTombstones ==
  /\ pc = "rewrite_tombstones"
  /\ tombs' = snap \ reclaimed
  /\ pc' = "append_compaction"
  /\ UNCHANGED <<files, manifest, flushWal, compWal, mem, nextId, batch, work, history>>

AppendCompaction ==
  /\ pc = "append_compaction"
  /\ compWal' = compWal \cup {report}
  /\ pc' = "trim"
  /\ UNCHANGED <<files, manifest, flushWal, tombs, mem, nextId, batch, work, history>>

\* checkpoint_after_manifest and truncate_compactions.
TrimWals ==
  /\ pc = "trim"
  /\ flushWal' = Checkpointed(flushWal, manifest, files)
  /\ compWal' = {}
  /\ pc' = "rebuild_ranges"
  /\ UNCHANGED <<files, manifest, tombs, mem, nextId, batch, work, history>>

\* rebuild_segment_id_ranges: from the flush log if it has records, else from
\* the files; a segment without rows is an error and nothing is saved.
RebuiltRanges(m, F) ==
  IF flushWal # {}
  THEN [s \in DOMAIN m |->
          LET recs == {r \in flushWal : r.seg = s}
          IN  IF recs = {} THEN m[s]
              ELSE LET r == CHOOSE r \in recs : TRUE
                   IN  [m[s] EXCEPT !.lo = r.since,
                                    !.hi = MaxOf({0, r.since + r.count - 1})]]
  ELSE IF \E s \in DOMAIN m \cap DOMAIN F : F[s] = {} THEN m
  ELSE [s \in DOMAIN m |->
          IF s \in DOMAIN F
          THEN [m[s] EXCEPT !.lo = MinOf(Ids(F[s])), !.hi = MaxOf(Ids(F[s]))]
          ELSE m[s]]

RebuildIdRanges ==
  /\ pc = "rebuild_ranges"
  /\ manifest' = RebuiltRanges(manifest, files)
  /\ plan' = {} /\ wm' = NoSegments /\ snap' = {} /\ reclaimed' = {}
  /\ group' = NoGroup /\ buf' = {} /\ report' = NoReport
  /\ pc' = "idle"
  /\ UNCHANGED <<files, flushWal, compWal, tombs, mem, nextId, batch, history>>

-----------------------------------------------------------------------------
(* A crash of the process, and DagRunner::open: reload_from_disk -> load_table *)

Crash ==
  /\ pc # "down" /\ crashes < MaxCrashes
  /\ crashes' = crashes + 1
  /\ mem' = {} /\ nextId' = 0 /\ batch' = {} /\ DropWork
  /\ pc' = "down"
  /\ UNCHANGED <<disk, nextUid, committed, deleted, clobbered, bornDead>>

\* replay_flush_wal: records whose file exists and the manifest lacks.
ReplayFlushWal ==
  /\ pc = "down"
  /\ manifest' = PushSegments(manifest, {r.seg : r \in flushWal} \cap DOMAIN files)
  /\ pc' = "replay_checkpoint"
  /\ UNCHANGED <<files, flushWal, compWal, tombs, mem, nextId, batch, work, history>>

\* (mutant) replay_flush_wal returning early when it recovered nothing.
ReplayCheckpointOnlyIfRecovered ==
  /\ pc = "replay_checkpoint"
  /\ flushWal' = IF \E r \in flushWal : r.seg \in DOMAIN manifest
                                       /\ manifest[r.seg] = UnknownMeta
                 THEN Checkpointed(flushWal, manifest, files) ELSE flushWal
  /\ pc' = "replay_compaction"
  /\ UNCHANGED <<files, manifest, compWal, tombs, mem, nextId, batch, work, history>>

ReplayCheckpoint ==
  /\ pc = "replay_checkpoint"
  /\ flushWal' = Checkpointed(flushWal, manifest, files)
  /\ pc' = "replay_compaction"
  /\ UNCHANGED <<files, manifest, compWal, tombs, mem, nextId, batch, work, history>>

\* (mutant) the next id taken to be the last one.
LoadTableNoIncrement ==
  /\ pc = "replay_compaction"
  /\ ReplayCompactionWal
  /\ mem' = InFiles(files, DOMAIN manifest')
  /\ nextId' = MaxOf(Ids(mem'))
  /\ pc' = "idle"
  /\ UNCHANGED <<files, flushWal, tombs, batch, work, history>>

\* (mutant) the next id taken to be the number of documents.
LoadTableCounting ==
  /\ pc = "replay_compaction"
  /\ ReplayCompactionWal
  /\ mem' = InFiles(files, DOMAIN manifest')
  /\ nextId' = Cardinality(mem')
  /\ pc' = "idle"
  /\ UNCHANGED <<files, flushWal, tombs, batch, work, history>>

\* replay_compaction_wal, then every document of the manifest's files.
LoadTable ==
  /\ pc = "replay_compaction"
  /\ ReplayCompactionWal
  /\ mem' = InFiles(files, DOMAIN manifest')
  /\ nextId' = IF mem' = {} THEN 0 ELSE MaxOf(Ids(mem')) + 1
  /\ pc' = "idle"
  /\ UNCHANGED <<files, flushWal, tombs, batch, work, history>>

-----------------------------------------------------------------------------
Flush == WriteSegment \/ AppendFlush \/ (\E t \in SizeTiers : CommitManifest(t))
         \/ CheckpointFlush

Compaction ==
  \/ MaybeCompactAfterFlush
  \/ \E g \in plan : OpenGroup(g) \/ MissingSource(g)
  \/ \E s \in DOMAIN files : ConsumeSource(s)
  \/ \E t \in SizeTiers : CloseGroup(t)
  \/ SaveCompactedManifest \/ DropTombstones \/ RewriteTombstones
  \/ AppendCompaction \/ TrimWals \/ RebuildIdRanges

Reopen == ReplayFlushWal \/ ReplayCheckpoint \/ LoadTable

\* The steps an operation takes once it has been called.
Proceed == Flush \/ Compaction \/ Reopen

\* The calls a user makes.
Call ==
  \/ \E k \in BatchSizes : AddDocuments(k)
  \/ \E id \in DeletableIds : DeleteById(id)
  \/ \E m \in CompactModes : CompactTable(m)

Next == Call \/ Proceed \/ Crash

Spec == Init /\ [][Next]_vars

\* A thread that runs an operation finishes it, and the database is opened
\* again after a crash; nobody has to call anything.
FairSpec == Spec /\ WF_vars(Proceed)

-----------------------------------------------------------------------------
(* Types *)

PCs == {"idle", "write_segment", "append_flush", "commit_manifest", "checkpoint",
        "maybe_compact", "merge", "drop_tombstones", "rewrite_tombstones",
        "append_compaction", "trim", "rebuild_ranges",
        "down", "replay_checkpoint", "replay_compaction"}

\* A manifest names finitely many numbered segments.
IsManifest(m) ==
  /\ DOMAIN m \subseteq Nat /\ IsFiniteSet(DOMAIN m)
  /\ m \in [DOMAIN m -> Meta]

Groups == [segments: SUBSET Nat, tier: Tiers]

\* Every variable has its type; names, ids and generations stay natural
\* numbers whatever crash and replay leave behind.
TypeOK ==
  /\ DOMAIN files \subseteq Nat /\ IsFiniteSet(DOMAIN files)
  /\ files \in [DOMAIN files -> SUBSET Docs]
  /\ IsManifest(manifest) /\ IsManifest(wm)
  /\ flushWal \subseteq FlushRecords /\ compWal \subseteq CompactionRecords
  /\ report \in CompactionRecords
  /\ tombs \subseteq Nat /\ snap \subseteq Nat /\ reclaimed \subseteq Nat
  /\ mem \subseteq Docs /\ buf \subseteq Docs
  /\ batch \subseteq Docs /\ IsFiniteSet(batch)
  /\ nextId \in Nat /\ nextUid \in Nat /\ crashes \in Nat
  /\ pc \in PCs
  /\ group \in Groups /\ plan \subseteq Groups
  /\ committed \subseteq Docs /\ deleted \subseteq Docs
  /\ clobbered \subseteq Docs /\ orphaned \subseteq Docs /\ bornDead \subseteq Docs

-----------------------------------------------------------------------------
(* Properties *)

Flushing == {"write_segment", "append_flush", "commit_manifest"}

Lost == deleted \cup clobbered \cup orphaned \cup bornDead

\* The accounting of every document: one whose flush reached the log is found
\* again through the manifest, the log or the running merge, unless it was
\* deleted, its file was overwritten (flush_batch_with_opts and compaction
\* name files differently), it was in the output of a merge that a crash or an
\* error cut off, or its id had a tombstone that outlived an earlier row.
\* There is no other way to lose a document, whatever the crash points.
OnlyKnownLosses == committed \ Lost \subseteq Recoverable

\* Two rows the manifest reaches never share an id, nor is one row in two segments:
\* replaying a log after a crash brings back a merge output or its sources but not
\* both, and the id counter is recomputed from the files at every open.  Ids are the
\* keys of tombstones, indexes and the merge, which does not end on equal ids.
\* (replay_flush_wal, replay_compaction_wal, load_table)
RowsDistinct ==
  \A s, t \in DOMAIN manifest \cap DOMAIN files : \A d \in files[s], e \in files[t] :
    d.id = e.id => s = t /\ d = e

\* When no operation runs, the next id the corpus gives is above every id on
\* disk: reopening after any crash never hands out an id that is in use.
FreshIds ==
  pc = "idle" => \A d \in Stored \cup mem : d.id < nextId

\* When no operation runs, the flush log is empty: whichever step a crash
\* interrupted, one open is enough to reconcile every record.
LogReconciled ==
  pc = "idle" => flushWal = {}

CoversRows(m) ==
  \A s \in DOMAIN m \cap DOMAIN files : \A d \in files[s] : m[s].lo <= d.id /\ d.id <= m[s].hi

\* Without a crash, every segment of the manifest has its file unless the merge is
\* consuming it, so no compaction fails half-way; and its id range covers its rows,
\* also in the manifest a compaction is building: fetching by id and the reclaiming
\* of tombstones rely on the range alone.
ManifestCoversFiles ==
  /\ pc # "merge" => DOMAIN manifest \subseteq DOMAIN files
  /\ pc \notin Flushing => CoversRows(manifest)
  /\ CoversRows(wm)

\* Without a crash, compaction drops a tombstone only once the row is gone:
\* a deleted document still in a segment still has its tombstone.
DeletedStaysTombstoned ==
  pc # "rewrite_tombstones" =>
    \A d \in deleted \cap Stored : d.id \in tombs

\* Every operation, compaction included, comes to an end, and the table is
\* ready again after every crash.
OperationsFinish == pc # "idle" ~> pc = "idle"

-----------------------------------------------------------------------------
(* The table as its users see it *)

\* The documents a crash at this moment would leave in the table.
Durable == InFiles(files, DOMAIN manifest \cup {r.seg : r \in flushWal})

\* While nothing is merged, the table is the durable table: whatever the crash
\* points, only ingest adds documents, only DELETE takes them away, and a deleted
\* one never comes back.
Table == INSTANCE DurableTable WITH
  live <- {d \in Durable : d.id \notin tombs},
  gone <- {d \in Durable : d.id \in tombs}

ImplementsDurableTable == Table!Spec

-----------------------------------------------------------------------------
(* Inductive strengthenings *)

\* Where the flush log may have records, and what is known of them there.
LogInv ==
  /\ pc \in {"append_flush", "commit_manifest"} => FlushName(manifest) \in DOMAIN files
  /\ pc = "append_flush" => files[FlushName(manifest)] = batch
  /\ pc = "commit_manifest" => \A r \in flushWal : r.seg = FlushName(manifest)
  /\ pc \in {"checkpoint", "replay_checkpoint"} =>
       \A r \in flushWal : r.seg \in DOMAIN manifest \cap DOMAIN files
  /\ pc = "down" => \A r \in flushWal : r.seg \in DOMAIN files
  /\ pc \notin {"commit_manifest", "checkpoint", "down", "replay_checkpoint"} => flushWal = {}

Compacted == {"drop_tombstones", "rewrite_tombstones", "append_compaction", "trim",
              "rebuild_ranges"}
Reopening == {"down", "replay_checkpoint", "replay_compaction"}

\* While a merge runs: a segment it took out of its manifest has no file any
\* more, and nothing is in the way of the output.
MergeInv ==
  /\ pc \notin Compacted \cup {"merge"} => wm = NoSegments /\ snap = {}
  /\ pc \in Compacted => wm = manifest
  /\ pc = "merge" => (DOMAIN manifest \ DOMAIN wm) \cap DOMAIN files = {}
  /\ pc # "merge" => group = NoGroup
  /\ group = NoGroup => buf = {}
  /\ group # NoGroup => NextSegmentName(wm) \notin DOMAIN files

\* A document is given up for deleted before its id is in the tombstone file:
\* DELETE finds it in memory, or it was born with a dead id.
TombInv ==
  /\ pc \in Flushing => batch \subseteq mem /\ \A d \in batch : d.id \in tombs => d \in bornDead
  /\ pc \notin Reopening => committed \ Lost \subseteq mem
  /\ \A d \in committed \ Lost : d.id \notin tombs \cup snap

\* The names under which a manifest has a file, or may come to have one.
Named == DOMAIN manifest \cup DOMAIN wm
         \cup {a[1] : a \in UNION {r.added : r \in compWal}} \cup {a[1] : a \in report.added}
         \cup IF pc \in {"append_flush", "commit_manifest"} THEN {FlushName(manifest)} ELSE {}

\* Every row there is, and those that are held or can be reached by a name.
Rows == mem \cup batch \cup buf \cup InFiles(files, DOMAIN files)
Reached == mem \cup batch \cup buf \cup InFiles(files, Named)

\* A merge takes its sources from the manifest on disk; reopening starts with nothing.
GroupInv ==
  /\ \A g \in plan \cup {group} : g.segments \subseteq DOMAIN manifest
  /\ pc # "merge" => plan = {} /\ group = NoGroup
  /\ pc \in Reopening => batch = {} /\ report = NoReport

\* A file that no manifest names may have larger ids, so the next id is above
\* them only as long as nothing brings such a file back.
IdInv ==
  /\ nextId <= nextUid /\ \A d \in Rows : d.id < nextUid
  /\ pc \notin Reopening => \A d \in Reached : d.id < nextId

\* Where each row is that is held or may be found again: in a file by its name, in
\* the output being written, or in the batch about to be written.
Held == Named \cup {r.seg : r \in flushWal}
InBuffer == -1
InBatch == -2
Places ==
  (UNION {{<<s, d>> : d \in files[s]} : s \in Held \cap DOMAIN files})
  \cup {<<InBuffer, d>> : d \in buf}
  \cup {<<InBatch, d>> : d \in IF pc = "write_segment" THEN batch ELSE {}}

\* A row is moved, never copied: no id is in two places.
PlacesInv == \A p, q \in Places : p[2].id = q[2].id => p = q

FreshInv == GroupInv /\ IdInv /\ PlacesInv

\* Without merges the segments are numbered without gaps, so a flush never takes a
\* name that is in use; and a tombstone is never above the largest durable id, so no
\* document is born deleted, although the next id is computed anew at each open.
Consecutive == DOMAIN manifest = 1..Cardinality(DOMAIN manifest)
BeingWritten == IF pc \in {"write_segment", "append_flush"} THEN batch ELSE {}
DurableInv ==
  /\ pc \notin Compacted \cup {"merge"} /\ compWal = {}
  /\ Consecutive
  /\ \A r \in flushWal : r.seg \in DOMAIN manifest \cup {FlushName(manifest)}
  /\ pc = "commit_manifest" => \E r \in flushWal : r.seg = FlushName(manifest)
  /\ \A id \in tombs : \E d \in Durable : id <= d.id
  /\ \A d \in BeingWritten, id \in tombs : id < d.id
  /\ pc \notin Reopening => nextId = 0 \/ \E d \in Durable \cup BeingWritten : d.id + 1 = nextId

\* While no process crashes: the manifest that is built has every file but those of the
\* group being merged, the groups still to do share no segment, and the names of
\* outputs are above all others.
CoverInv ==
  /\ pc \notin Reopening
  /\ compWal # {} => pc = "trim"
  /\ pc = "commit_manifest" => files[FlushName(manifest)] = batch
  /\ \A s \in DOMAIN manifest \cap DOMAIN files : \A d \in files[s] :
       \/ manifest[s].lo <= d.id /\ d.id <= manifest[s].hi
       \/ pc \in Flushing /\ s = FlushName(manifest)
  /\ CoversRows(wm)
  /\ pc # "merge" => DOMAIN manifest \subseteq DOMAIN files
  /\ pc = "merge" => DOMAIN wm \ group.segments \subseteq DOMAIN files
  /\ pc = "merge" => \A s \in DOMAIN manifest : s <= MaxOf(DOMAIN wm)
  /\ \A g \in plan : g # NoGroup /\ g.segments \subseteq DOMAIN wm /\ g.segments \cap group.segments = {}
  /\ \A g, h \in plan : g # h => g.segments \cap h.segments = {}

\* No deleted row of another segment is in the id range of the group being merged.
GroupIsWhole ==
  group # NoGroup =>
    \A s \in (DOMAIN wm \cap DOMAIN files) \ group.segments : \A d \in files[s] \cap deleted :
      ~ InRange(d.id, wm, group.segments)

\* While no process crashes and groups are whole: a deleted row that the manifest being
\* built will reach has a tombstone that is kept.
DeletedInv ==
  /\ \A d \in mem \cup deleted : d.uid < nextUid
  /\ pc \in Flushing => batch \cap deleted = {}
  /\ pc \in {"merge", "drop_tombstones"} => snap = tombs
  /\ pc \notin Compacted \cup {"merge"} => reclaimed = {}
  /\ DeletedStaysTombstoned
  /\ pc \in {"merge", "drop_tombstones", "rewrite_tombstones"} =>
       \A s \in (DOMAIN wm \cap DOMAIN files) \ group.segments :
         \A d \in files[s] \cap deleted : d.id \in snap \ reclaimed
  /\ buf \cap deleted = {}

LossInv == TypeOK /\ LogInv /\ MergeInv /\ TombInv /\ OnlyKnownLosses
=============================================================================
