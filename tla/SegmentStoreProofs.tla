-------------------------- MODULE SegmentStoreProofs --------------------------
(***************************************************************************)
(* Theorems about SegmentStore, for every value of its constants.          *)
(***************************************************************************)
EXTENDS SegmentStore, FiniteSetTheorems, WellFoundedInduction, TLAPS

-----------------------------------------------------------------------------
(* The helpers of TableManifest *)

\* max().unwrap_or(0) is an element of the set or the default.
LEMMA MaxOfMember ==
  ASSUME NEW S
  PROVE  MaxOf(S) \in S \cup {0}
BY DEF MaxOf

LEMMA MinOfMember ==
  ASSUME NEW S
  PROVE  MinOf(S) \in S \cup {0}
BY DEF MinOf

LEMMA BoundsAreNat ==
  ASSUME NEW S, S \subseteq Nat
  PROVE  MaxOf(S) \in Nat /\ MinOf(S) \in Nat
<1>1. MaxOf(S) \in S \cup {0}
  BY MaxOfMember
<1>2. MinOf(S) \in S \cup {0}
  BY MinOfMember
<1>3. S \cup {0} \subseteq Nat
  OBVIOUS
<1> QED BY <1>1, <1>2, <1>3

\* Setting and dropping keys keeps a finite map with numbered keys one.
LEMMA PutType ==
  ASSUME NEW f, NEW k \in Nat, NEW T, NEW v \in T,
         f \in [DOMAIN f -> T], DOMAIN f \subseteq Nat, IsFiniteSet(DOMAIN f)
  PROVE  /\ DOMAIN Put(f, k, v) = DOMAIN f \cup {k}
         /\ DOMAIN Put(f, k, v) \subseteq Nat
         /\ IsFiniteSet(DOMAIN Put(f, k, v))
         /\ Put(f, k, v) \in [DOMAIN Put(f, k, v) -> T]
<1>1. DOMAIN Put(f, k, v) = DOMAIN f \cup {k}
  BY DEF Put
<1>2. IsFiniteSet(DOMAIN f \cup {k})
  BY FS_AddElement
<1>3. Put(f, k, v) \in [DOMAIN f \cup {k} -> T]
  BY DEF Put
<1> QED BY <1>1, <1>2, <1>3

LEMMA WithoutType ==
  ASSUME NEW f, NEW S, NEW T,
         f \in [DOMAIN f -> T], DOMAIN f \subseteq Nat, IsFiniteSet(DOMAIN f)
  PROVE  /\ DOMAIN Without(f, S) = DOMAIN f \ S
         /\ DOMAIN Without(f, S) \subseteq Nat
         /\ IsFiniteSet(DOMAIN Without(f, S))
         /\ Without(f, S) \in [DOMAIN Without(f, S) -> T]
<1>1. DOMAIN Without(f, S) = DOMAIN f \ S
  BY DEF Without
<1>2. IsFiniteSet(DOMAIN f \ S)
  BY FS_Subset
<1>3. Without(f, S) \in [DOMAIN f \ S -> T]
  BY DEF Without
<1> QED BY <1>1, <1>2, <1>3

LEMMA PushSegmentsType ==
  ASSUME NEW m, IsManifest(m), NEW S, S \subseteq Nat, IsFiniteSet(S)
  PROVE  /\ DOMAIN PushSegments(m, S) = DOMAIN m \cup S
         /\ IsManifest(PushSegments(m, S))
<1>1. DOMAIN PushSegments(m, S) = DOMAIN m \cup S
  BY DEF PushSegments
<1>2. IsFiniteSet(DOMAIN m \cup S)
  BY FS_Union DEF IsManifest
<1>3. UnknownMeta \in Meta
  BY DEF UnknownMeta, Meta, Tiers
<1>4. PushSegments(m, S) \in [DOMAIN m \cup S -> Meta]
  BY <1>3 DEF PushSegments, IsManifest
<1> QED BY <1>1, <1>2, <1>4 DEF IsManifest

\* The names and generations handed out are natural numbers.
LEMMA NamesAreNat ==
  ASSUME NEW m, IsManifest(m)
  PROVE  FlushName(m) \in Nat /\ NextSegmentName(m) \in Nat /\ NextGeneration(m) \in Nat
<1>1. Cardinality(DOMAIN m) \in Nat
  BY FS_CardinalityType DEF IsManifest
<1>2. {m[s].gen : s \in DOMAIN m} \subseteq Nat
  BY DEF IsManifest, Meta
<1>3. MaxOf(DOMAIN m) \in Nat /\ MaxOf({m[s].gen : s \in DOMAIN m}) \in Nat
  BY <1>2, BoundsAreNat DEF IsManifest
<1> QED BY <1>1, <1>3 DEF FlushName, NextSegmentName, NextGeneration

\* The policy picks groups of segments of the manifest.
LEMMA MergeGroupsType ==
  ASSUME NEW m, IsManifest(m), NEW mode \in Modes
  PROVE  MergeGroups(m, mode) \subseteq Groups
<1>1. [segments |-> DOMAIN m, tier |-> 3] \in Groups
  BY DEF IsManifest, Groups, Tiers
<1>2. TierGroups(m) \subseteq Groups
  <2> SUFFICES ASSUME NEW t \in Tiers, NEW c \in FullChunks(m, AtTier(m, t), Threshold)
               PROVE  [segments |-> c, tier |-> OutputTier(t)] \in Groups
    BY DEF TierGroups
  <2>1. c \subseteq DOMAIN m
    BY DEF FullChunks, AtTier
  <2>2. OutputTier(t) \in Tiers
    BY DEF OutputTier, Tiers
  <2> QED BY <2>1, <2>2 DEF IsManifest, Groups
<1>3. OldestGroup(m) \in Groups
  <2> DEFINE n == IF MinMerge > 2 THEN MinMerge ELSE 2
  <2> DEFINE oldest == {s \in DOMAIN m : Rank(m, DOMAIN m, s) < n}
  <2>1. OldestGroup(m) = [segments |-> oldest,
                          tier |-> OutputTier(MaxOf({m[s].tier : s \in oldest}))]
    BY DEF OldestGroup
  <2>2. {m[s].tier : s \in oldest} \subseteq Tiers
    BY DEF IsManifest, Meta
  <2>3. MaxOf({m[s].tier : s \in oldest}) \in Tiers
    BY <2>2, MaxOfMember DEF Tiers
  <2>4. OutputTier(MaxOf({m[s].tier : s \in oldest})) \in Tiers
    BY <2>3 DEF OutputTier, Tiers
  <2>5. oldest \subseteq Nat
    BY DEF IsManifest
  <2> HIDE DEF oldest
  <2> QED BY <2>1, <2>4, <2>5 DEF Groups
<1> QED BY <1>1, <1>2, <1>3 DEF MergeGroups, Modes

LEMMA InFilesType ==
  ASSUME NEW F, F \in [DOMAIN F -> SUBSET Docs], NEW S
  PROVE  InFiles(F, S) \subseteq Docs
BY DEF InFiles

LEMMA IdsAreNat ==
  ASSUME NEW D, D \subseteq Docs
  PROVE  Ids(D) \subseteq Nat
BY DEF Ids, Docs

\* What a segment is entered into the manifest with.
LEMMA MetaType ==
  ASSUME NEW lo \in Nat, NEW hi \in Nat, NEW t \in Tiers, NEW g \in Nat
  PROVE  [lo |-> lo, hi |-> hi, tier |-> t, gen |-> g] \in Meta
BY DEF Meta

\* A replay of the compaction log leaves a manifest.
LEMMA CompactionReplayedType ==
  ASSUME TypeOK
  PROVE  IsManifest(CompactionReplayed(manifest, files))
<1> DEFINE gone == {s \in (UNION {r.removed : r \in compWal}) \cap DOMAIN manifest :
                      s \notin DOMAIN files}
           added == UNION {r.added : r \in compWal}
           names == {a[1] : a \in added} \cap DOMAIN files
           here == PushSegments(RemoveSegments(manifest, gone), names)
           TierOf(s) == MaxOf({a[2] : a \in {b \in added : b[1] = s}})
<1>1. IsManifest(RemoveSegments(manifest, gone))
  BY WithoutType DEF TypeOK, IsManifest, RemoveSegments
<1>2. names \subseteq Nat /\ IsFiniteSet(names)
  BY FS_Subset DEF TypeOK
<1>3. IsManifest(here)
  BY <1>1, <1>2, PushSegmentsType
<1>4. \A s : TierOf(s) \in Tiers
  <2> TAKE s
  <2>1. added \subseteq Nat \X Tiers
    BY DEF TypeOK, CompactionRecords
  <2>2. {a[2] : a \in {b \in added : b[1] = s}} \subseteq Tiers
    BY <2>1
  <2>3. TierOf(s) \in {a[2] : a \in {b \in added : b[1] = s}} \cup {0}
    BY MaxOfMember
  <2> QED BY <2>2, <2>3 DEF Tiers
<1>5. CompactionReplayed(manifest, files) =
        [s \in DOMAIN here |->
           IF here[s].tier = 0 THEN [here[s] EXCEPT !.tier = TierOf(s)] ELSE here[s]]
  BY DEF CompactionReplayed
<1> HIDE DEF here, TierOf
<1>6. \A s \in DOMAIN here :
        (IF here[s].tier = 0 THEN [here[s] EXCEPT !.tier = TierOf(s)] ELSE here[s]) \in Meta
  BY <1>3, <1>4 DEF IsManifest, Meta
<1> QED BY <1>3, <1>5, <1>6 DEF IsManifest

\* So does the rebuilding of the id ranges.
LEMMA RebuiltRangesType ==
  ASSUME TypeOK
  PROVE  IsManifest(RebuiltRanges(manifest, files))
<1> DEFINE Recs(s) == {r \in flushWal : r.seg = s}
           R(s) == CHOOSE r \in Recs(s) : TRUE
<1>1. ASSUME NEW s \in DOMAIN manifest, Recs(s) # {}
      PROVE  R(s).since \in Nat /\ MaxOf({0, R(s).since + R(s).count - 1}) \in Nat
  <2>1. R(s) \in FlushRecords
    BY <1>1 DEF TypeOK
  <2>2. R(s).since \in Nat /\ R(s).count \in Nat
    BY <2>1 DEF FlushRecords
  <2> DEFINE n == R(s).since + R(s).count - 1
  <2>3. n \in Int
    BY <2>2
  <2> HIDE DEF n
  <2>4. MaxOf({0, n}) \in Nat
    <3>1. CASE n >= 0
      BY <3>1, <2>3, BoundsAreNat
    <3>2. CASE ~ (n >= 0)
      <4>1. \A x \in {0, n} : (\A y \in {0, n} : y <= x) => x = 0
        BY <3>2, <2>3
      <4> QED BY <4>1 DEF MaxOf
    <3> QED BY <3>1, <3>2
  <2> QED BY <2>2, <2>4 DEF n
<1>2. CASE flushWal # {}
  <2>1. RebuiltRanges(manifest, files) =
          [s \in DOMAIN manifest |->
             IF Recs(s) = {} THEN manifest[s]
             ELSE [manifest[s] EXCEPT !.lo = R(s).since,
                                      !.hi = MaxOf({0, R(s).since + R(s).count - 1})]]
    BY <1>2 DEF RebuiltRanges
  <2> HIDE DEF Recs, R
  <2>2. \A s \in DOMAIN manifest :
          (IF Recs(s) = {} THEN manifest[s]
           ELSE [manifest[s] EXCEPT !.lo = R(s).since,
                                    !.hi = MaxOf({0, R(s).since + R(s).count - 1})]) \in Meta
    BY <1>1 DEF TypeOK, IsManifest, Meta
  <2> QED BY <2>1, <2>2 DEF TypeOK, IsManifest
<1>3. CASE flushWal = {}
  <2>1. CASE \E s \in DOMAIN manifest \cap DOMAIN files : files[s] = {}
    BY <1>3, <2>1 DEF RebuiltRanges, TypeOK
  <2>2. CASE ~ \E s \in DOMAIN manifest \cap DOMAIN files : files[s] = {}
    <3>1. RebuiltRanges(manifest, files) =
            [s \in DOMAIN manifest |->
               IF s \in DOMAIN files
               THEN [manifest[s] EXCEPT !.lo = MinOf(Ids(files[s])),
                                        !.hi = MaxOf(Ids(files[s]))]
               ELSE manifest[s]]
      BY <1>3, <2>2 DEF RebuiltRanges
    <3>2. ASSUME NEW s \in DOMAIN files
          PROVE  MinOf(Ids(files[s])) \in Nat /\ MaxOf(Ids(files[s])) \in Nat
      <4>1. Ids(files[s]) \subseteq Nat
        BY IdsAreNat DEF TypeOK
      <4> QED BY <4>1, BoundsAreNat
    <3>3. \A s \in DOMAIN manifest :
            (IF s \in DOMAIN files
             THEN [manifest[s] EXCEPT !.lo = MinOf(Ids(files[s])),
                                      !.hi = MaxOf(Ids(files[s]))]
             ELSE manifest[s]) \in Meta
      BY <3>2 DEF TypeOK, IsManifest, Meta
    <3> QED BY <3>1, <3>3 DEF TypeOK, IsManifest
  <2> QED BY <2>1, <2>2
<1> QED BY <1>2, <1>3

-----------------------------------------------------------------------------
(* Type correctness *)

LEMMA EmptyTypes ==
  /\ IsManifest(NoSegments)
  /\ NoGroup \in Groups
  /\ NoReport \in CompactionRecords
  /\ DOMAIN NoFiles = {} /\ NoFiles \in [{} -> SUBSET Docs]
<1>1. DOMAIN NoSegments = {} /\ NoSegments \in [{} -> Meta]
  BY DEF NoSegments
<1>2. IsManifest(NoSegments)
  BY <1>1, FS_EmptySet DEF IsManifest
<1> QED BY <1>2 DEF NoGroup, Groups, Tiers, NoReport, CompactionRecords, NoFiles

LEMMA TypeInit == Init => TypeOK
BY EmptyTypes, FS_EmptySet DEF Init, TypeOK, PCs

\* The variables an operation works on, when it drops its work.
LEMMA DropWorkType ==
  ASSUME TypeOK, DropWork
  PROVE  /\ plan' \subseteq Groups /\ IsManifest(wm') /\ snap' \subseteq Nat
         /\ reclaimed' \subseteq Nat /\ group' \in Groups /\ buf' \subseteq Docs
         /\ report' \in CompactionRecords /\ orphaned' \subseteq Docs
<1>1. InMerge \subseteq Docs
  BY InFilesType DEF TypeOK, InMerge
<1> QED BY <1>1, EmptyTypes DEF TypeOK, DropWork

LEMMA StartCompactionType ==
  ASSUME TypeOK, NEW mode \in Modes, StartCompaction(mode)
  PROVE  TypeOK'
<1>1. manifest' = CompactionReplayed(manifest, files)
  BY DEF StartCompaction, ReplayCompactionWal
<1>2. IsManifest(manifest')
  BY <1>1, CompactionReplayedType
<1>3. plan' \subseteq Groups
  BY <1>2, MergeGroupsType DEF StartCompaction
<1>4. compWal' \subseteq CompactionRecords
  BY DEF StartCompaction, ReplayCompactionWal, TypeOK
<1>5. IsManifest(wm') /\ snap' \subseteq Nat /\ pc' \in PCs
  BY <1>2, EmptyTypes DEF StartCompaction, TypeOK, PCs
<1> QED BY <1>2, <1>3, <1>4, <1>5 DEF StartCompaction, TypeOK, history

LEMMA TypeStep == TypeOK /\ [Next]_vars => TypeOK'
<1> SUFFICES ASSUME TypeOK, [Next]_vars PROVE TypeOK'
  OBVIOUS
<1> USE BoundsAssumption
<1>1. ASSUME NEW k \in BatchSizes, AddDocuments(k) PROVE TypeOK'
  <2>1. batch' = {[id |-> nextId + i, uid |-> nextUid + i] : i \in 0..(k - 1)}
    BY <1>1 DEF AddDocuments
  <2>2. batch' \subseteq Docs
    BY <2>1 DEF TypeOK, Docs
  <2>3. IsFiniteSet(batch')
    <3>1. IsFiniteSet(0..(k - 1))
      BY FS_Interval
    <3> DEFINE doc == [i \in 0..(k - 1) |-> [id |-> nextId + i, uid |-> nextUid + i]]
    <3>2. doc \in Surjection(0..(k - 1), batch')
      BY <2>1 DEF Surjection
    <3> QED BY <3>1, <3>2, FS_Surjection
  <2>4. nextId' \in Nat /\ nextUid' \in Nat
    BY <1>1 DEF AddDocuments, TypeOK
  <2> QED BY <1>1, <2>2, <2>3, <2>4
        DEF AddDocuments, TypeOK, PCs, disk, work
<1>2. ASSUME WriteSegment PROVE TypeOK'
  <2>1. FlushName(manifest) \in Nat
    BY NamesAreNat DEF TypeOK
  <2>2. /\ DOMAIN files' \subseteq Nat /\ IsFiniteSet(DOMAIN files')
        /\ files' \in [DOMAIN files' -> SUBSET Docs]
    BY <1>2, <2>1, PutType DEF WriteSegment, TypeOK
  <2>3. clobbered' \subseteq Docs
    BY <1>2, InFilesType DEF WriteSegment, TypeOK
  <2> QED BY <1>2, <2>2, <2>3 DEF WriteSegment, TypeOK, PCs, work
<1>3. ASSUME AppendFlush PROVE TypeOK'
  <2>1. FlushName(manifest) \in Nat
    BY NamesAreNat DEF TypeOK
  <2>2. FlushSince \in Nat
    BY IdsAreNat, BoundsAreNat DEF FlushSince, TypeOK
  <2>3. Cardinality(batch) \in Nat
    BY FS_CardinalityType DEF TypeOK
  <2>4. flushWal' \subseteq FlushRecords
    BY <1>3, <2>1, <2>2, <2>3 DEF AppendFlush, TypeOK, FlushRecords
  <2> QED BY <1>3, <2>4 DEF AppendFlush, TypeOK, PCs, work
<1>4. ASSUME NEW t \in SizeTiers, CommitManifest(t) PROVE TypeOK'
  <2>1. FlushName(manifest) \in Nat /\ NextGeneration(manifest) \in Nat
    BY NamesAreNat DEF TypeOK
  <2>2. FlushSince \in Nat /\ MaxOf(Ids(batch)) \in Nat
    BY IdsAreNat, BoundsAreNat DEF FlushSince, TypeOK
  <2>3. [lo |-> FlushSince, hi |-> MaxOf(Ids(batch)), tier |-> t,
         gen |-> NextGeneration(manifest)] \in Meta
    BY <2>1, <2>2, MetaType
  <2>4. IsManifest(manifest')
    BY <1>4, <2>1, <2>3, PutType DEF CommitManifest, PushSegmentMeta, IsManifest, TypeOK
  <2> QED BY <1>4, <2>4, FS_EmptySet DEF CommitManifest, TypeOK, PCs, work, history
<1>5. ASSUME CheckpointFlush PROVE TypeOK'
  BY <1>5 DEF CheckpointFlush, Checkpointed, TypeOK, PCs, work, history
<1>6. ASSUME NEW id \in DeletableIds, DeleteById(id) PROVE TypeOK'
  BY <1>6 DEF DeleteById, TypeOK, work
<1>7. ASSUME NEW m \in CompactModes, CompactTable(m) PROVE TypeOK'
  BY <1>7, StartCompactionType DEF CompactTable, Modes
<1>8. ASSUME MaybeCompactAfterFlush PROVE TypeOK'
  BY <1>8, StartCompactionType DEF MaybeCompactAfterFlush, Modes
<1>9. ASSUME NEW g \in plan, OpenGroup(g) PROVE TypeOK'
  <2>1. /\ DOMAIN files' \subseteq Nat /\ IsFiniteSet(DOMAIN files')
        /\ files' \in [DOMAIN files' -> SUBSET Docs]
    BY <1>9, WithoutType DEF OpenGroup, TypeOK
  <2>2. clobbered' \subseteq Docs
    BY <1>9, InFilesType DEF OpenGroup, TypeOK
  <2>3. reclaimed' \subseteq Nat /\ plan' \subseteq Groups /\ group' \in Groups
    BY <1>9 DEF OpenGroup, TypeOK
  <2> QED BY <1>9, <2>1, <2>2, <2>3 DEF OpenGroup, TypeOK
<1>10. ASSUME NEW g \in plan, MissingSource(g) PROVE TypeOK'
  <2>1. DropWork
    BY <1>10 DEF MissingSource
  <2> QED BY <1>10, <2>1, DropWorkType DEF MissingSource, TypeOK, PCs, disk
<1>11. ASSUME NEW s \in DOMAIN files, ConsumeSource(s) PROVE TypeOK'
  <2>1. /\ DOMAIN files' \subseteq Nat /\ IsFiniteSet(DOMAIN files')
        /\ files' \in [DOMAIN files' -> SUBSET Docs]
    BY <1>11, WithoutType DEF ConsumeSource, TypeOK
  <2>2. buf' \subseteq Docs
    BY <1>11 DEF ConsumeSource, TypeOK
  <2> QED BY <1>11, <2>1, <2>2 DEF ConsumeSource, TypeOK, history
<1>12. ASSUME NEW t \in SizeTiers, CloseGroup(t) PROVE TypeOK'
  <2> DEFINE new == NextSegmentName(wm)
             tier == IF t > group.tier THEN t ELSE group.tier
             meta == [lo |-> MinOf(Ids(buf)), hi |-> MaxOf(Ids(buf)),
                      tier |-> tier, gen |-> NextGeneration(wm)]
  <2>1. new \in Nat /\ NextGeneration(wm) \in Nat
    BY NamesAreNat DEF TypeOK
  <2>2. tier \in Tiers
    BY DEF TypeOK, Groups
  <2>3. MinOf(Ids(buf)) \in Nat /\ MaxOf(Ids(buf)) \in Nat
    BY IdsAreNat, BoundsAreNat DEF TypeOK
  <2>4. meta \in Meta
    BY <2>1, <2>2, <2>3, MetaType
  <2>5. /\ files' = Put(Without(files, group.segments), new, buf)
        /\ wm' = PushSegmentMeta(RemoveSegments(wm, group.segments), new, meta)
        /\ report' = [removed |-> report.removed \cup group.segments,
                      added |-> report.added \cup {<<new, tier>>}]
    BY <1>12 DEF CloseGroup
  <2> HIDE DEF new, tier, meta
  <2>6. /\ DOMAIN files' \subseteq Nat /\ IsFiniteSet(DOMAIN files')
        /\ files' \in [DOMAIN files' -> SUBSET Docs]
    <3> DEFINE rest == Without(files, group.segments)
    <3>1. /\ DOMAIN rest \subseteq Nat /\ IsFiniteSet(DOMAIN rest)
          /\ rest \in [DOMAIN rest -> SUBSET Docs]
      BY WithoutType DEF TypeOK
    <3>2. buf \in SUBSET Docs
      BY DEF TypeOK
    <3> HIDE DEF rest
    <3>3. /\ DOMAIN Put(rest, new, buf) \subseteq Nat
          /\ IsFiniteSet(DOMAIN Put(rest, new, buf))
          /\ Put(rest, new, buf) \in [DOMAIN Put(rest, new, buf) -> SUBSET Docs]
      BY <2>1, <3>1, <3>2, PutType
    <3> QED BY <2>5, <3>3 DEF rest
  <2>7. IsManifest(wm')
    <3> DEFINE rest == RemoveSegments(wm, group.segments)
    <3>1. IsManifest(rest)
      BY WithoutType DEF TypeOK, IsManifest, RemoveSegments
    <3> HIDE DEF rest
    <3>2. IsManifest(PushSegmentMeta(rest, new, meta))
      BY <2>1, <2>4, <3>1, PutType DEF PushSegmentMeta, IsManifest
    <3> QED BY <2>5, <3>2 DEF rest
  <2>8. report' \in CompactionRecords
    BY <2>1, <2>2, <2>5 DEF TypeOK, CompactionRecords, Groups
  <2>9. group' \in Groups /\ buf' \subseteq Docs
    BY <1>12, EmptyTypes DEF CloseGroup
  <2> QED BY <1>12, <2>6, <2>7, <2>8, <2>9 DEF CloseGroup, TypeOK, history
<1>13. ASSUME SaveCompactedManifest PROVE TypeOK'
  BY <1>13 DEF SaveCompactedManifest, TypeOK, PCs, work, history
<1>14. ASSUME DropTombstones PROVE TypeOK'
  BY <1>14 DEF DropTombstones, TypeOK, PCs, work, history
<1>15. ASSUME RewriteTombstones PROVE TypeOK'
  BY <1>15 DEF RewriteTombstones, TypeOK, PCs, work, history
<1>16. ASSUME AppendCompaction PROVE TypeOK'
  BY <1>16 DEF AppendCompaction, TypeOK, PCs, work, history
<1>17. ASSUME TrimWals PROVE TypeOK'
  BY <1>17 DEF TrimWals, Checkpointed, TypeOK, PCs, work, history
<1>18. ASSUME RebuildIdRanges PROVE TypeOK'
  <2>1. IsManifest(manifest')
    BY <1>18, RebuiltRangesType DEF RebuildIdRanges
  <2> QED BY <1>18, <2>1, EmptyTypes DEF RebuildIdRanges, TypeOK, PCs, history
<1>19. ASSUME Crash PROVE TypeOK'
  <2>1. DropWork
    BY <1>19 DEF Crash
  <2>2. crashes' \in Nat
    BY <1>19 DEF Crash, TypeOK
  <2> QED BY <1>19, <2>1, <2>2, DropWorkType, FS_EmptySet DEF Crash, TypeOK, PCs, disk
<1>20. ASSUME ReplayFlushWal PROVE TypeOK'
  <2> DEFINE S == {r.seg : r \in flushWal} \cap DOMAIN files
  <2>1. S \subseteq Nat /\ IsFiniteSet(S)
    BY FS_Subset DEF TypeOK
  <2>2. manifest' = PushSegments(manifest, S)
    BY <1>20 DEF ReplayFlushWal
  <2> HIDE DEF S
  <2>3. IsManifest(manifest')
    BY <2>1, <2>2, PushSegmentsType DEF TypeOK
  <2> QED BY <1>20, <2>3 DEF ReplayFlushWal, TypeOK, PCs, work, history
<1>21. ASSUME ReplayCheckpoint PROVE TypeOK'
  BY <1>21 DEF ReplayCheckpoint, Checkpointed, TypeOK, PCs, work, history
<1>22. ASSUME LoadTable PROVE TypeOK'
  <2>1. IsManifest(manifest')
    BY <1>22, CompactionReplayedType DEF LoadTable, ReplayCompactionWal
  <2>2. compWal' \subseteq CompactionRecords
    BY <1>22 DEF LoadTable, ReplayCompactionWal, TypeOK
  <2>3. mem' \subseteq Docs
    BY <1>22, InFilesType DEF LoadTable, TypeOK
  <2>4. MaxOf(Ids(mem')) \in Nat
    BY <2>3, IdsAreNat, BoundsAreNat
  <2>5. nextId' \in Nat
    BY <1>22, <2>4 DEF LoadTable
  <2> QED BY <1>22, <2>1, <2>2, <2>3, <2>5 DEF LoadTable, TypeOK, PCs, work, history
<1>23. CASE UNCHANGED vars
  BY <1>23 DEF vars, disk, work, history, TypeOK
<1> QED
  BY <1>1, <1>2, <1>3, <1>4, <1>5, <1>6, <1>7, <1>8, <1>9, <1>10, <1>11, <1>12, <1>13,
     <1>14, <1>15, <1>16, <1>17, <1>18, <1>19, <1>20, <1>21, <1>22, <1>23
     DEF Next, Call, Proceed, Flush, Compaction, Reopen

\* Every variable keeps its type, in every behaviour and for every policy: no
\* sequence of crashes and replays leaves a name, an id or a range that is not
\* a natural number.
THEOREM TypeCorrect == Spec => []TypeOK
<1>1. Init => TypeOK
  BY TypeInit
<1>2. TypeOK /\ [Next]_vars => TypeOK'
  BY TypeStep
<1> QED BY <1>1, <1>2, PTL DEF Spec

-----------------------------------------------------------------------------
(* The flush log *)

LEMMA LogInit == Init => LogInv
BY DEF Init, LogInv

LEMMA LogStep == TypeOK /\ LogInv /\ [Next]_vars => LogInv'
<1> SUFFICES ASSUME TypeOK, LogInv, [Next]_vars PROVE LogInv'
  OBVIOUS
<1>1. ASSUME NEW k \in BatchSizes, AddDocuments(k) PROVE LogInv'
  BY <1>1 DEF AddDocuments, LogInv, disk
<1>2. ASSUME WriteSegment PROVE LogInv'
  <2>1. /\ FlushName(manifest) \in DOMAIN files'
        /\ files'[FlushName(manifest)] = batch
    BY <1>2 DEF WriteSegment, Put
  <2> QED BY <1>2, <2>1 DEF WriteSegment, LogInv
<1>3. ASSUME AppendFlush PROVE LogInv'
  BY <1>3 DEF AppendFlush, LogInv
<1>4. ASSUME NEW t \in SizeTiers, CommitManifest(t) PROVE LogInv'
  <2>1. FlushName(manifest) \in DOMAIN manifest'
    BY <1>4 DEF CommitManifest, PushSegmentMeta, Put
  <2> QED BY <1>4, <2>1 DEF CommitManifest, LogInv
<1>5. ASSUME CheckpointFlush PROVE LogInv'
  BY <1>5 DEF CheckpointFlush, Checkpointed, LogInv
<1>6. ASSUME NEW id \in DeletableIds, DeleteById(id) PROVE LogInv'
  BY <1>6 DEF DeleteById, LogInv
<1>7. ASSUME NEW mode, StartCompaction(mode), pc \in {"idle", "maybe_compact"} PROVE LogInv'
  <2>1. flushWal' = {} /\ pc' \in {"idle", "merge"}
    BY <1>7 DEF StartCompaction, LogInv
  <2> QED BY <2>1 DEF LogInv
<1>8. ASSUME Compaction, pc # "maybe_compact" PROVE LogInv'
  <2>1. pc \in Compacted \cup {"merge"}
    BY <1>8 DEF Compaction, MaybeCompactAfterFlush, OpenGroup, MissingSource, ConsumeSource,
                CloseGroup, SaveCompactedManifest, DropTombstones, RewriteTombstones,
                AppendCompaction, TrimWals, RebuildIdRanges, Compacted
  <2>2. flushWal = {}
    BY <2>1 DEF LogInv, Compacted
  <2>3. flushWal' = {}
    BY <1>8, <2>2 DEF Compaction, MaybeCompactAfterFlush, OpenGroup, MissingSource,
                ConsumeSource, CloseGroup, SaveCompactedManifest, DropTombstones,
                RewriteTombstones, AppendCompaction, TrimWals, RebuildIdRanges, disk,
                Checkpointed
  <2>4. pc' \in Compacted \cup {"merge", "idle"}
    BY <1>8, <2>1 DEF Compaction, MaybeCompactAfterFlush, OpenGroup, MissingSource,
                ConsumeSource, CloseGroup, SaveCompactedManifest, DropTombstones,
                RewriteTombstones, AppendCompaction, TrimWals, RebuildIdRanges, Compacted
  <2> QED BY <2>3, <2>4 DEF LogInv, Compacted
<1>9. ASSUME Crash PROVE LogInv'
  <2>1. \A r \in flushWal : r.seg \in DOMAIN files
    BY DEF LogInv
  <2> QED BY <1>9, <2>1 DEF Crash, LogInv, disk
<1>10. ASSUME ReplayFlushWal PROVE LogInv'
  <2>1. \A r \in flushWal : r.seg \in DOMAIN files
    BY <1>10 DEF ReplayFlushWal, LogInv
  <2>2. \A r \in flushWal : r.seg \in DOMAIN manifest'
    BY <1>10, <2>1 DEF ReplayFlushWal, PushSegments
  <2> QED BY <1>10, <2>1, <2>2 DEF ReplayFlushWal, LogInv
<1>11. ASSUME ReplayCheckpoint PROVE LogInv'
  BY <1>11 DEF ReplayCheckpoint, Checkpointed, LogInv
<1>12. ASSUME LoadTable PROVE LogInv'
  BY <1>12 DEF LoadTable, LogInv
<1>13. CASE UNCHANGED vars
  BY <1>13 DEF vars, disk, LogInv
<1>14. ASSUME Compaction, pc = "maybe_compact" PROVE MaybeCompactAfterFlush
  BY <1>14 DEF Compaction, OpenGroup, MissingSource, ConsumeSource, CloseGroup,
               SaveCompactedManifest, DropTombstones, RewriteTombstones, AppendCompaction,
               TrimWals, RebuildIdRanges
<1>15. ASSUME NEW m, CompactTable(m) PROVE LogInv'
  BY <1>7, <1>15 DEF CompactTable
<1>16. ASSUME Compaction PROVE LogInv'
  BY <1>7, <1>8, <1>14, <1>16 DEF MaybeCompactAfterFlush
<1> QED
  BY <1>1, <1>2, <1>3, <1>4, <1>5, <1>6, <1>9, <1>10, <1>11, <1>12, <1>13, <1>15, <1>16
     DEF Next, Call, Proceed, Flush, Reopen

\* One open reconciles the flush log, whichever step the crash interrupted:
\* when no operation runs, no record waits.  (checkpoint_after_manifest)
THEOREM LogIsReconciled == Spec => []LogReconciled
<1>1. Init => TypeOK /\ LogInv
  BY TypeInit, LogInit
<1>2. TypeOK /\ LogInv /\ [Next]_vars => (TypeOK /\ LogInv)'
  BY TypeStep, LogStep
<1>3. TypeOK /\ LogInv => LogReconciled
  BY DEF LogInv, LogReconciled
<1> QED BY <1>1, <1>2, <1>3, PTL DEF Spec

-----------------------------------------------------------------------------
(* The accounting of documents *)

\* What a merge may rely on is kept by every step.
LEMMA MergeStep == MergeInv /\ [Next]_vars => MergeInv'
<1> SUFFICES ASSUME MergeInv, [Next]_vars PROVE MergeInv'
  OBVIOUS
<1> USE DEF Compacted
\* Outside compaction none of its variables is in use.
<1>1. ASSUME pc \notin Compacted \cup {"merge"}, pc' \notin Compacted \cup {"merge"},
             UNCHANGED <<wm, snap, group, buf>>
      PROVE  MergeInv'
  BY <1>1 DEF MergeInv
<1>2. ASSUME DropWork, pc' \notin Compacted \cup {"merge"} PROVE MergeInv'
  BY <1>2 DEF DropWork, MergeInv
<1>3. ASSUME NEW k \in BatchSizes, AddDocuments(k) PROVE MergeInv'
  BY <1>1, <1>3 DEF AddDocuments, work
<1>4. ASSUME Flush PROVE MergeInv'
  BY <1>1, <1>4 DEF Flush, WriteSegment, AppendFlush, CommitManifest, CheckpointFlush, work
<1>5. ASSUME NEW id \in DeletableIds, DeleteById(id) PROVE MergeInv'
  BY <1>1, <1>5 DEF DeleteById, work
<1>6. ASSUME NEW mode, StartCompaction(mode), pc \in {"idle", "maybe_compact"} PROVE MergeInv'
  BY <1>6 DEF StartCompaction, MergeInv
<1>7. ASSUME NEW g \in plan, OpenGroup(g) PROVE MergeInv'
  <2>1. DOMAIN files' = DOMAIN files \ {NextSegmentName(wm)}
    BY <1>7 DEF OpenGroup, Without
  <2> QED BY <1>7, <2>1 DEF OpenGroup, MergeInv
<1>8. ASSUME NEW g \in plan, MissingSource(g) PROVE MergeInv'
  BY <1>2, <1>8 DEF MissingSource
<1>9. ASSUME NEW s, ConsumeSource(s) PROVE MergeInv'
  <2>1. DOMAIN files' \subseteq DOMAIN files
    BY <1>9 DEF ConsumeSource, Without
  <2>2. group # NoGroup
    BY <1>9 DEF ConsumeSource, Sources, NoGroup
  <2> QED BY <1>9, <2>1, <2>2 DEF ConsumeSource, MergeInv
<1>10. ASSUME NEW t, CloseGroup(t) PROVE MergeInv'
  <2> DEFINE new == NextSegmentName(wm)
  <2>1. DOMAIN files' = (DOMAIN files \ group.segments) \cup {new}
    BY <1>10 DEF CloseGroup, Put, Without
  <2>2. DOMAIN wm' = (DOMAIN wm \ group.segments) \cup {new}
    BY <1>10 DEF CloseGroup, PushSegmentMeta, RemoveSegments, Put, Without
  <2>3. pc = "merge" /\ pc' = pc /\ manifest' = manifest /\ group' = NoGroup /\ buf' = {}
    BY <1>10 DEF CloseGroup
  <2> HIDE DEF new
  <2>4. (DOMAIN manifest' \ DOMAIN wm') \cap DOMAIN files' = {}
    BY <2>1, <2>2, <2>3 DEF MergeInv
  <2> QED BY <2>3, <2>4 DEF MergeInv
<1>11. ASSUME SaveCompactedManifest PROVE MergeInv'
  BY <1>11 DEF SaveCompactedManifest, MergeInv, work
<1>12. ASSUME DropTombstones \/ RewriteTombstones \/ AppendCompaction \/ TrimWals
       PROVE  MergeInv'
  BY <1>12 DEF DropTombstones, RewriteTombstones, AppendCompaction, TrimWals, MergeInv, work
<1>13. ASSUME RebuildIdRanges PROVE MergeInv'
  BY <1>13 DEF RebuildIdRanges, MergeInv
<1>14. ASSUME Crash PROVE MergeInv'
  BY <1>2, <1>14 DEF Crash
<1>15. ASSUME Reopen PROVE MergeInv'
  BY <1>1, <1>15 DEF Reopen, ReplayFlushWal, ReplayCheckpoint, LoadTable, work
<1>16. CASE UNCHANGED vars
  BY <1>16 DEF vars, disk, work, MergeInv
<1> QED
  BY <1>3, <1>4, <1>5, <1>6, <1>7, <1>8, <1>9, <1>10, <1>11, <1>12, <1>13, <1>14, <1>15, <1>16
     DEF Next, Call, Proceed, Compaction, CompactTable, MaybeCompactAfterFlush

\* Everything that can be brought back is in the merge's buffer or in a file
\* that a manifest or the log names.
LEMMA RecoverableIs ==
  \A d : d \in Recoverable <=>
          \/ d \in buf
          \/ \E s \in DOMAIN files :
               /\ s \in DOMAIN manifest \cup DOMAIN wm \cup {r.seg : r \in flushWal}
               /\ d \in files[s]
BY DEF Recoverable, Stored, InMerge, InFiles

\* Replaying the compaction log drops no segment that has a file.
LEMMA CompactionReplayedKeeps ==
  ASSUME NEW s \in DOMAIN manifest \cap DOMAIN files
  PROVE  s \in DOMAIN CompactionReplayed(manifest, files)
BY DEF CompactionReplayed, PushSegments, RemoveSegments, Without

LEMMA MergeInit == Init => MergeInv
BY DEF Init, MergeInv, Compacted

LEMMA TombInit == Init => TombInv
BY DEF Init, TombInv, Flushing, Reopening

LEMMA LossInit == Init => OnlyKnownLosses
BY DEF Init, OnlyKnownLosses

\* A compaction that starts changes nothing the tombstones are about.
LEMMA StartCompactionTombs ==
  ASSUME TombInv, NEW mode, StartCompaction(mode), pc \in {"idle", "maybe_compact"}
  PROVE  TombInv'
<1>1. pc' \in {"idle", "merge"} /\ snap' \subseteq tombs
  BY DEF StartCompaction
<1>2. UNCHANGED <<tombs, mem, history>>
  BY DEF StartCompaction
<1>3. pc' \notin Flushing /\ pc \notin Reopening
  BY <1>1 DEF Flushing, Reopening
<1>4. UNCHANGED <<committed, Lost>>
  BY <1>2 DEF history, Lost
<1> HIDE DEF Lost
<1> QED BY <1>1, <1>2, <1>3, <1>4 DEF TombInv

\* After a load, the corpus has every document that is not known to be lost.
LEMMA LoadTableLoads ==
  ASSUME LogInv, MergeInv, OnlyKnownLosses, LoadTable
  PROVE  committed \ Lost \subseteq mem'
<1>1. flushWal = {} /\ wm = NoSegments /\ buf = {}
  BY DEF LoadTable, LogInv, MergeInv, Compacted
<1>2. DOMAIN wm = {}
  BY <1>1 DEF NoSegments
<1> SUFFICES ASSUME NEW d \in Recoverable PROVE d \in mem'
  BY DEF OnlyKnownLosses
<1>3. PICK s \in DOMAIN files : s \in DOMAIN manifest /\ d \in files[s]
  BY <1>1, <1>2, RecoverableIs
<1>4. s \in DOMAIN manifest'
  BY <1>3, CompactionReplayedKeeps DEF LoadTable, ReplayCompactionWal
<1> QED BY <1>3, <1>4 DEF LoadTable, InFiles

\* A document that is given up by no step keeps an id without a tombstone.
LEMMA TombStep ==
  ASSUME TombInv, LogInv, MergeInv, OnlyKnownLosses, [Next]_vars
  PROVE  TombInv'
<1> USE DEF Flushing, Reopening
\* The steps that leave the tombstones and the history alone.
<1>1. ASSUME UNCHANGED <<tombs, snap, mem, history>>, pc' \notin Flushing,
             pc' \notin Reopening => pc \notin Reopening
      PROVE  TombInv'
  BY <1>1 DEF TombInv, history, Lost
<1>2. ASSUME DropWork, UNCHANGED <<tombs, committed, deleted, clobbered, bornDead>>,
             pc' \notin Flushing, pc' \notin Reopening => pc \notin Reopening /\ mem' = mem
      PROVE  TombInv'
  <2>1. snap' = {} /\ committed' \ Lost' \subseteq committed \ Lost
    BY <1>2 DEF DropWork, Lost
  <2> QED BY <1>2, <2>1 DEF TombInv
<1>3. ASSUME NEW k \in BatchSizes, AddDocuments(k) PROVE TombInv'
  <2>1. batch' \subseteq mem' /\ \A d \in batch' : d.id \in tombs' => d \in bornDead'
    BY <1>3 DEF AddDocuments, disk
  <2>2. /\ committed' \ Lost' \subseteq committed \ Lost
        /\ mem \subseteq mem' /\ UNCHANGED <<tombs, snap>>
    BY <1>3 DEF AddDocuments, disk, work, Lost
  <2> QED BY <1>3, <2>1, <2>2 DEF TombInv, AddDocuments
<1>4. ASSUME WriteSegment PROVE TombInv'
  <2>1. /\ committed' \ Lost' \subseteq committed \ Lost
        /\ UNCHANGED <<tombs, snap, mem, batch, bornDead>>
    BY <1>4 DEF WriteSegment, work, Lost
  <2> QED BY <1>4, <2>1 DEF TombInv, WriteSegment
<1>5. ASSUME AppendFlush PROVE TombInv'
  <2>1. UNCHANGED <<tombs, snap, mem>> /\ committed' = committed \cup batch /\ Lost' = Lost
    BY <1>5 DEF AppendFlush, work, Lost
  <2>2. /\ snap = {} /\ batch \subseteq mem
        /\ \A d \in batch \ Lost : d.id \notin tombs
    BY <1>5 DEF AppendFlush, MergeInv, Compacted, TombInv, Lost
  <2> QED BY <1>5, <2>1, <2>2 DEF TombInv, AppendFlush
<1>6. ASSUME NEW t \in SizeTiers, CommitManifest(t) PROVE TombInv'
  BY <1>1, <1>6 DEF CommitManifest, work
<1>7. ASSUME CheckpointFlush PROVE TombInv'
  BY <1>1, <1>7 DEF CheckpointFlush, work
<1>8. ASSUME NEW id \in DeletableIds, DeleteById(id) PROVE TombInv'
  <2>1. committed \ Lost \subseteq mem
    BY <1>8 DEF DeleteById, TombInv
  <2>2. \A d \in committed' \ Lost' : d \in committed \ Lost /\ d.id # id
    BY <1>8, <2>1 DEF DeleteById, Lost
  <2>3. UNCHANGED <<snap, mem, pc>> /\ tombs' = tombs \cup {id}
    BY <1>8 DEF DeleteById, work
  <2> QED BY <1>8, <2>1, <2>2, <2>3 DEF TombInv, DeleteById
<1>9. ASSUME NEW mode, StartCompaction(mode), pc \in {"idle", "maybe_compact"} PROVE TombInv'
  BY <1>9, StartCompactionTombs
<1>10. ASSUME NEW g \in plan, OpenGroup(g) PROVE TombInv'
  <2>1. /\ committed' \ Lost' \subseteq committed \ Lost
        /\ UNCHANGED <<tombs, snap, mem, pc>>
    BY <1>10 DEF OpenGroup, Lost
  <2> QED BY <1>10, <2>1 DEF TombInv, OpenGroup
<1>11. ASSUME NEW g \in plan, MissingSource(g) PROVE TombInv'
  BY <1>2, <1>11 DEF MissingSource, disk
<1>12. ASSUME NEW s, ConsumeSource(s) PROVE TombInv'
  BY <1>1, <1>12 DEF ConsumeSource
<1>13. ASSUME NEW t, CloseGroup(t) PROVE TombInv'
  BY <1>1, <1>13 DEF CloseGroup
<1>14. ASSUME SaveCompactedManifest \/ AppendCompaction \/ TrimWals PROVE TombInv'
  BY <1>1, <1>14 DEF SaveCompactedManifest, AppendCompaction, TrimWals, work
<1>15. ASSUME DropTombstones \/ RewriteTombstones PROVE TombInv'
  <2>1. tombs' \subseteq snap /\ UNCHANGED <<snap, mem, history>>
    BY <1>15 DEF DropTombstones, RewriteTombstones, work
  <2>2. pc' \notin Flushing /\ pc \notin Reopening
    BY <1>15 DEF DropTombstones, RewriteTombstones
  <2>3. UNCHANGED <<committed, Lost>>
    BY <2>1 DEF history, Lost
  <2> QED BY <2>1, <2>2, <2>3 DEF TombInv
<1>16. ASSUME RebuildIdRanges PROVE TombInv'
  <2>1. snap' = {} /\ UNCHANGED <<tombs, mem, history>>
    BY <1>16 DEF RebuildIdRanges
  <2>2. UNCHANGED <<committed, Lost>>
    BY <2>1 DEF history, Lost
  <2> QED BY <1>16, <2>1, <2>2 DEF TombInv, RebuildIdRanges
<1>17. ASSUME Crash PROVE TombInv'
  BY <1>2, <1>17 DEF Crash, disk
<1>18. ASSUME ReplayFlushWal \/ ReplayCheckpoint PROVE TombInv'
  BY <1>1, <1>18 DEF ReplayFlushWal, ReplayCheckpoint, work
<1>19. ASSUME LoadTable PROVE TombInv'
  <2>1. committed \ Lost \subseteq mem'
    BY <1>19, LoadTableLoads
  <2>2. UNCHANGED <<tombs, snap, history>> /\ pc' = "idle"
    BY <1>19 DEF LoadTable, work
  <2>3. UNCHANGED <<committed, Lost>>
    BY <2>2 DEF history, Lost
  <2> QED BY <2>1, <2>2, <2>3 DEF TombInv
<1>20. CASE UNCHANGED vars
  BY <1>20 DEF vars, disk, work, history, TombInv, Lost
<1> QED
  BY <1>3, <1>4, <1>5, <1>6, <1>7, <1>8, <1>9, <1>10, <1>11, <1>12, <1>13, <1>14, <1>15,
     <1>16, <1>17, <1>18, <1>19, <1>20
     DEF Next, Call, Proceed, Flush, Compaction, Reopen, CompactTable, MaybeCompactAfterFlush

LEMMA RecoverableIsNext ==
  \A d : d \in Recoverable' <=>
          \/ d \in buf'
          \/ \E s \in DOMAIN files' :
               /\ s \in DOMAIN manifest' \cup DOMAIN wm' \cup {r.seg : r \in flushWal'}
               /\ d \in files'[s]
BY DEF Recoverable, Stored, InMerge, InFiles

\* A step that commits nothing has to keep what it does not give up.
LEMMA KeepingIsEnough ==
  ASSUME OnlyKnownLosses, committed' = committed, Lost \subseteq Lost',
         \A d \in Recoverable : d \in committed \ Lost' => d \in Recoverable'
  PROVE  OnlyKnownLosses'
BY DEF OnlyKnownLosses

\* Files and buffer stay, and no name that has a file is forgotten.
LEMMA NamesAreEnough ==
  ASSUME UNCHANGED <<files, buf>>,
         \A s \in DOMAIN files :
            s \in DOMAIN manifest \cup DOMAIN wm \cup {r.seg : r \in flushWal} =>
            s \in DOMAIN manifest' \cup DOMAIN wm' \cup {r.seg : r \in flushWal'}
  PROVE  Recoverable \subseteq Recoverable'
<1> SUFFICES ASSUME NEW d \in Recoverable PROVE d \in Recoverable'
  OBVIOUS
<1>1. CASE d \in buf
  BY <1>1, RecoverableIsNext
<1>2. CASE d \notin buf
  <2>1. PICK s \in DOMAIN files :
               /\ s \in DOMAIN manifest \cup DOMAIN wm \cup {r.seg : r \in flushWal}
               /\ d \in files[s]
    BY <1>2, RecoverableIs
  <2> QED BY <2>1, RecoverableIsNext
<1> QED BY <1>1, <1>2

\* The flush log is dropped only when the manifest has all its segments.
LEMMA CheckpointKeeps ==
  ASSUME UNCHANGED <<files, manifest, wm, buf>>,
         flushWal' = Checkpointed(flushWal, manifest, files)
  PROVE  Recoverable \subseteq Recoverable'
BY NamesAreEnough DEF Checkpointed

\* Every step accounts for every committed document.
LEMMA LossStep ==
  ASSUME TombInv, LogInv, MergeInv, OnlyKnownLosses, [Next]_vars
  PROVE  OnlyKnownLosses'
<1>1. ASSUME UNCHANGED history, Recoverable \subseteq Recoverable' PROVE OnlyKnownLosses'
  BY <1>1, KeepingIsEnough DEF history, Lost
<1>2. ASSUME UNCHANGED <<files, manifest, flushWal, compWal>>, DropWork,
             UNCHANGED <<committed, deleted, clobbered, bornDead>>
      PROVE  OnlyKnownLosses'
  <2>1. Lost \subseteq Lost' /\ InMerge \subseteq Lost'
    BY <1>2 DEF DropWork, Lost
  <2>2. Recoverable \subseteq Recoverable' \cup InMerge
    BY <1>2 DEF Recoverable, Stored
  <2> QED BY <1>2, <2>1, <2>2, KeepingIsEnough
<1>3. ASSUME NEW k \in BatchSizes, AddDocuments(k) PROVE OnlyKnownLosses'
  <2>1. Recoverable' = Recoverable
    BY <1>3 DEF AddDocuments, disk, work, Recoverable, Stored, InMerge
  <2>2. committed' = committed /\ Lost \subseteq Lost'
    BY <1>3 DEF AddDocuments, Lost
  <2> QED BY <2>1, <2>2, KeepingIsEnough
<1>4. ASSUME WriteSegment PROVE OnlyKnownLosses'
  <2>1. /\ committed' = committed /\ Lost \subseteq Lost'
        /\ InFiles(files, {FlushName(manifest)}) \subseteq Lost'
    BY <1>4 DEF WriteSegment, Lost
  <2>2. ASSUME NEW d \in Recoverable, d \notin Lost' PROVE d \in Recoverable'
    <3>1. CASE d \in buf
      BY <1>4, <3>1, RecoverableIsNext DEF WriteSegment, work
    <3>2. CASE d \notin buf
      <4>1. PICK s \in DOMAIN files :
                   /\ s \in DOMAIN manifest \cup DOMAIN wm \cup {r.seg : r \in flushWal}
                   /\ d \in files[s]
        BY <3>2, RecoverableIs
      <4>2. s # FlushName(manifest)
        BY <2>1, <2>2, <4>1 DEF InFiles
      <4>3. s \in DOMAIN files' /\ files'[s] = files[s]
        BY <1>4, <4>2 DEF WriteSegment, Put
      <4> QED BY <1>4, <4>1, <4>3, RecoverableIsNext DEF WriteSegment, work
    <3> QED BY <3>1, <3>2
  <2> QED BY <2>1, <2>2, KeepingIsEnough
<1>5. ASSUME AppendFlush PROVE OnlyKnownLosses'
  <2> DEFINE n == FlushName(manifest)
  <2>1. n \in DOMAIN files /\ files[n] = batch
    BY <1>5 DEF AppendFlush, LogInv
  <2>2. UNCHANGED <<files, manifest, wm, buf>> /\ flushWal \subseteq flushWal'
    BY <1>5 DEF AppendFlush, work
  <2>3. \E r \in flushWal' : r.seg = n
    <3> DEFINE rec == [seg |-> n, since |-> FlushSince, count |-> Cardinality(batch)]
    <3>1. rec \in flushWal'
      BY <1>5 DEF AppendFlush
    <3>2. rec.seg = n
      OBVIOUS
    <3> QED BY <3>1, <3>2
  <2> HIDE DEF n
  <2>4. Recoverable \subseteq Recoverable'
    BY <2>2, NamesAreEnough
  <2>5. batch \subseteq Recoverable'
    BY <2>1, <2>2, <2>3, RecoverableIsNext
  <2>6. committed' = committed \cup batch /\ Lost' = Lost
    BY <1>5 DEF AppendFlush, Lost
  <2> QED BY <2>4, <2>5, <2>6 DEF OnlyKnownLosses
<1>6. ASSUME NEW t \in SizeTiers, CommitManifest(t) PROVE OnlyKnownLosses'
  <2>1. DOMAIN manifest \subseteq DOMAIN manifest'
    BY <1>6 DEF CommitManifest, PushSegmentMeta, Put
  <2>2. UNCHANGED <<files, flushWal, wm, buf, history>>
    BY <1>6 DEF CommitManifest, work
  <2> QED BY <1>1, <2>1, <2>2, NamesAreEnough
<1>7. ASSUME CheckpointFlush PROVE OnlyKnownLosses'
  BY <1>1, <1>7, CheckpointKeeps DEF CheckpointFlush, work
<1>8. ASSUME NEW id \in DeletableIds, DeleteById(id) PROVE OnlyKnownLosses'
  <2>1. Recoverable' = Recoverable
    BY <1>8 DEF DeleteById, work, Recoverable, Stored, InMerge
  <2>2. committed' = committed /\ Lost \subseteq Lost'
    BY <1>8 DEF DeleteById, Lost
  <2> QED BY <2>1, <2>2, KeepingIsEnough
\* The replay of the compaction log, when no merge is running.
<1>9. ASSUME pc \notin Compacted \cup {"merge"},
             manifest' = CompactionReplayed(manifest, files),
             UNCHANGED <<files, flushWal, buf, history>>
      PROVE  OnlyKnownLosses'
  <2>1. DOMAIN wm = {}
    BY <1>9 DEF MergeInv, NoSegments
  <2>2. \A s \in DOMAIN manifest \cap DOMAIN files : s \in DOMAIN manifest'
    BY <1>9, CompactionReplayedKeeps
  <2> QED BY <1>1, <1>9, <2>1, <2>2, NamesAreEnough
<1>10. ASSUME NEW mode, StartCompaction(mode), pc \in {"idle", "maybe_compact"}
       PROVE  OnlyKnownLosses'
  BY <1>9, <1>10 DEF StartCompaction, ReplayCompactionWal, Compacted
<1>11. ASSUME NEW g \in plan, OpenGroup(g) PROVE OnlyKnownLosses'
  <2> DEFINE n == NextSegmentName(wm)
  <2>1. /\ committed' = committed /\ Lost \subseteq Lost'
        /\ InFiles(files, {n}) \subseteq Lost'
    BY <1>11 DEF OpenGroup, Lost
  <2>2. files' = Without(files, {n}) /\ UNCHANGED <<manifest, wm, flushWal, buf>>
    BY <1>11 DEF OpenGroup
  <2> HIDE DEF n
  <2>3. ASSUME NEW d \in Recoverable, d \notin Lost' PROVE d \in Recoverable'
    <3>1. CASE d \in buf
      BY <2>2, <3>1, RecoverableIsNext
    <3>2. CASE d \notin buf
      <4>1. PICK s \in DOMAIN files :
                   /\ s \in DOMAIN manifest \cup DOMAIN wm \cup {r.seg : r \in flushWal}
                   /\ d \in files[s]
        BY <3>2, RecoverableIs
      <4>2. s # n
        BY <2>1, <2>3, <4>1 DEF InFiles
      <4>3. s \in DOMAIN files' /\ files'[s] = files[s]
        BY <2>2, <4>2 DEF Without
      <4> QED BY <2>2, <4>1, <4>3, RecoverableIsNext
    <3> QED BY <3>1, <3>2
  <2> QED BY <2>1, <2>3, KeepingIsEnough
<1>12. ASSUME NEW g \in plan, MissingSource(g) PROVE OnlyKnownLosses'
  BY <1>2, <1>12 DEF MissingSource, disk
<1>13. ASSUME NEW s, ConsumeSource(s) PROVE OnlyKnownLosses'
  <2>1. /\ buf' = buf \cup {d \in files[s] : d.id \notin snap}
        /\ files' = Without(files, {s})
        /\ UNCHANGED <<manifest, wm, flushWal, history>>
    BY <1>13 DEF ConsumeSource
  <2>2. committed' = committed /\ Lost' = Lost
    BY <2>1 DEF history, Lost
  <2>3. ASSUME NEW d \in Recoverable, d \in committed \ Lost PROVE d \in Recoverable'
    <3>1. CASE d \in buf
      BY <2>1, <3>1, RecoverableIsNext
    <3>2. CASE d \notin buf
      <4>1. PICK u \in DOMAIN files :
                   /\ u \in DOMAIN manifest \cup DOMAIN wm \cup {r.seg : r \in flushWal}
                   /\ d \in files[u]
        BY <3>2, RecoverableIs
      <4>2. CASE u = s
        <5>1. d.id \notin snap
          BY <2>3 DEF TombInv
        <5> QED BY <2>1, <4>1, <4>2, <5>1, RecoverableIsNext
      <4>3. CASE u # s
        <5>1. u \in DOMAIN files' /\ files'[u] = files[u]
          BY <2>1, <4>3 DEF Without
        <5> QED BY <2>1, <4>1, <5>1, RecoverableIsNext
      <4> QED BY <4>2, <4>3
    <3> QED BY <3>1, <3>2
  <2> QED BY <2>2, <2>3, KeepingIsEnough
<1>14. ASSUME NEW t, CloseGroup(t) PROVE OnlyKnownLosses'
  <2> DEFINE new == NextSegmentName(wm)
  <2>1. /\ files' = Put(Without(files, group.segments), new, buf)
        /\ DOMAIN wm' = (DOMAIN wm \ group.segments) \cup {new}
        /\ UNCHANGED <<manifest, flushWal, history>>
    BY <1>14 DEF CloseGroup, PushSegmentMeta, RemoveSegments, Put, Without
  <2>2. /\ new \notin DOMAIN files
        /\ \A s \in group.segments \cap DOMAIN files : files[s] = {}
    BY <1>14 DEF CloseGroup, MergeInv, Sources
  <2> HIDE DEF new
  <2>3. new \in DOMAIN files' /\ files'[new] = buf
    BY <2>1 DEF Put
  <2>4. ASSUME NEW d \in Recoverable PROVE d \in Recoverable'
    <3>1. CASE d \in buf
      BY <2>1, <2>3, <3>1, RecoverableIsNext
    <3>2. CASE d \notin buf
      <4>1. PICK s \in DOMAIN files :
                   /\ s \in DOMAIN manifest \cup DOMAIN wm \cup {r.seg : r \in flushWal}
                   /\ d \in files[s]
        BY <3>2, RecoverableIs
      <4>2. s \notin group.segments /\ s # new
        BY <2>2, <4>1
      <4>3. s \in DOMAIN files' /\ files'[s] = files[s]
        BY <2>1, <4>2 DEF Put, Without
      <4> QED BY <2>1, <4>1, <4>2, <4>3, RecoverableIsNext
    <3> QED BY <3>1, <3>2
  <2> QED BY <1>1, <2>1, <2>4
<1>15. ASSUME SaveCompactedManifest PROVE OnlyKnownLosses'
  <2>1. manifest' = wm /\ UNCHANGED <<files, flushWal, wm, buf, history>>
    BY <1>15 DEF SaveCompactedManifest, work
  <2>2. (DOMAIN manifest \ DOMAIN wm) \cap DOMAIN files = {}
    BY <1>15 DEF SaveCompactedManifest, MergeInv
  <2> QED BY <1>1, <2>1, <2>2, NamesAreEnough
<1>16. ASSUME DropTombstones \/ RewriteTombstones \/ AppendCompaction PROVE OnlyKnownLosses'
  <2>1. UNCHANGED <<files, manifest, flushWal, wm, buf, history>>
    BY <1>16 DEF DropTombstones, RewriteTombstones, AppendCompaction, work
  <2> QED BY <1>1, <2>1, NamesAreEnough
<1>17. ASSUME TrimWals PROVE OnlyKnownLosses'
  BY <1>1, <1>17, CheckpointKeeps DEF TrimWals, work
<1>18. ASSUME RebuildIdRanges PROVE OnlyKnownLosses'
  <2>1. wm = manifest /\ buf = {} /\ buf' = buf
    BY <1>18 DEF RebuildIdRanges, MergeInv, Compacted
  <2>2. DOMAIN manifest' = DOMAIN manifest /\ UNCHANGED <<files, flushWal, history>>
    BY <1>18 DEF RebuildIdRanges, RebuiltRanges
  <2> QED BY <1>1, <2>1, <2>2, NamesAreEnough
<1>19. ASSUME Crash PROVE OnlyKnownLosses'
  BY <1>2, <1>19 DEF Crash, disk
<1>20. ASSUME ReplayFlushWal PROVE OnlyKnownLosses'
  <2>1. DOMAIN manifest \subseteq DOMAIN manifest'
    BY <1>20 DEF ReplayFlushWal, PushSegments
  <2>2. UNCHANGED <<files, flushWal, wm, buf, history>>
    BY <1>20 DEF ReplayFlushWal, work
  <2> QED BY <1>1, <2>1, <2>2, NamesAreEnough
<1>21. ASSUME ReplayCheckpoint PROVE OnlyKnownLosses'
  BY <1>1, <1>21, CheckpointKeeps DEF ReplayCheckpoint, work
<1>22. ASSUME LoadTable PROVE OnlyKnownLosses'
  BY <1>9, <1>22 DEF LoadTable, ReplayCompactionWal, Compacted, work
<1>23. CASE UNCHANGED vars
  <2>1. UNCHANGED <<files, manifest, flushWal, wm, buf, history>>
    BY <1>23 DEF vars, disk, work, history
  <2> QED BY <1>1, <2>1, NamesAreEnough
<1> QED
  BY <1>3, <1>4, <1>5, <1>6, <1>7, <1>8, <1>10, <1>11, <1>12, <1>13, <1>14, <1>15, <1>16,
     <1>17, <1>18, <1>19, <1>20, <1>21, <1>22, <1>23
     DEF Next, Call, Proceed, Flush, Compaction, Reopen, CompactTable, MaybeCompactAfterFlush

\* A document whose flush reached the log is found again, whatever the order
\* of flushes, deletions, compactions and crashes, unless it was deleted, was
\* overwritten, was in a merge that was cut off, or was born with a dead id.
THEOREM LossesKnown == Spec => []OnlyKnownLosses
<1>1. Init => LossInv
  BY TypeInit, LogInit, MergeInit, TombInit, LossInit DEF LossInv
<1>2. LossInv /\ [Next]_vars => LossInv'
  BY TypeStep, LogStep, MergeStep, TombStep, LossStep DEF LossInv
<1>3. LossInv => OnlyKnownLosses
  BY DEF LossInv
<1> QED BY <1>1, <1>2, <1>3, PTL DEF Spec
-----------------------------------------------------------------------------
(* The ids *)

LEMMA LeastExists ==
  ASSUME NEW T, T \subseteq Nat, T # {}
  PROVE  \E x \in T : \A y \in T : x <= y
<1>1. PICK R : R = OpToRel(<, Nat)
  OBVIOUS
<1>2. IsWellFoundedOn(R, Nat)
  BY <1>1, NatLessThanWellFounded
<1>3. PICK x \in T : \A y \in T : ~(<<y, x>> \in R)
  BY <1>2, WFMin
<1>4. \A y, z \in Nat : y < z => <<y, z>> \in R
  BY <1>1 DEF OpToRel
<1>5. \A y \in T : ~(y < x)
  BY <1>3, <1>4
<1> QED BY <1>3, <1>5

\* The maximum of ids that are bounded is one of them and above them all.
LEMMA MaxOfBounded ==
  ASSUME NEW T, T \subseteq Nat, T # {}, NEW b \in Nat, \A x \in T : x < b
  PROVE  MaxOf(T) \in T /\ \A x \in T : x <= MaxOf(T)
<1> DEFINE U == {b - x : x \in T}
<1>1. \A x \in T : b - x \in Nat
  OBVIOUS
<1>2. U \subseteq Nat /\ U # {}
  BY <1>1
<1>3. PICK u \in U : \A v \in U : u <= v
  BY <1>2, LeastExists
<1>4. PICK x \in T : u = b - x
  OBVIOUS
<1>5. \A y \in T : b - y \in U
  OBVIOUS
<1>6. \A y \in T : y <= x
  BY <1>3, <1>4, <1>5
<1> QED BY <1>6 DEF MaxOf

\* A merge group is a part of the manifest it was planned for.
LEMMA MergeGroupsWithin ==
  ASSUME NEW m, NEW mode \in Modes, NEW g \in MergeGroups(m, mode)
  PROVE  g.segments \subseteq DOMAIN m
<1>1. ASSUME g \in TierGroups(m) PROVE g.segments \subseteq DOMAIN m
  <2>1. PICK t \in Tiers : \E c \in FullChunks(m, AtTier(m, t), Threshold) :
          g = [segments |-> c, tier |-> OutputTier(t)]
    BY <1>1 DEF TierGroups
  <2>2. PICK c \in FullChunks(m, AtTier(m, t), Threshold) : g.segments = c
    BY <2>1
  <2>3. c \subseteq AtTier(m, t)
    BY DEF FullChunks
  <2> QED BY <2>2, <2>3 DEF AtTier
<1>2. ASSUME g = OldestGroup(m) PROVE g.segments \subseteq DOMAIN m
  BY <1>2 DEF OldestGroup
<1>3. ASSUME g = [segments |-> DOMAIN m, tier |-> 3] PROVE g.segments \subseteq DOMAIN m
  BY <1>3
<1> QED BY <1>1, <1>2, <1>3 DEF MergeGroups, Modes

LEMMA GroupStart == Init => GroupInv
BY DEF Init, GroupInv, NoGroup

LEMMA GroupStep == GroupInv /\ [Next]_vars => GroupInv'
<1> SUFFICES ASSUME GroupInv, [Next]_vars PROVE GroupInv'
  OBVIOUS
<1> USE DEF Reopening
<1>1. NoGroup.segments = {}
  BY DEF NoGroup
<1>2. ASSUME plan' = {}, group' = NoGroup, report' = NoReport, batch' = {} \/ pc' \notin Reopening
      PROVE  GroupInv'
  BY <1>1, <1>2 DEF GroupInv
<1>3. ASSUME UNCHANGED <<plan, group>>, DOMAIN manifest \subseteq DOMAIN manifest', pc # "merge",
             pc' \notin Reopening \cup {"merge"} \/ (pc \in Reopening /\ UNCHANGED <<batch, report>>)
      PROVE  GroupInv'
  BY <1>3 DEF GroupInv
<1>4. ASSUME NEW k \in BatchSizes, AddDocuments(k) PROVE GroupInv'
  BY <1>3, <1>4 DEF AddDocuments, disk, work
<1>5. ASSUME WriteSegment \/ AppendFlush \/ CheckpointFlush PROVE GroupInv'
  BY <1>3, <1>5 DEF WriteSegment, AppendFlush, CheckpointFlush, work
<1>6. ASSUME NEW t, CommitManifest(t) PROVE GroupInv'
  BY <1>3, <1>6 DEF CommitManifest, PushSegmentMeta, Put, work
<1>7. ASSUME NEW id, DeleteById(id) PROVE GroupInv'
  BY <1>3, <1>7 DEF DeleteById, work
<1>8. ASSUME NEW mode \in Modes, StartCompaction(mode), pc \in {"idle", "maybe_compact"} PROVE GroupInv'
  <2>1. /\ plan' = MergeGroups(manifest', mode) /\ group' = NoGroup /\ pc' \notin Reopening
    BY <1>8 DEF StartCompaction, GroupInv
  <2>4. pc' # "merge" => plan' = {}
    BY <1>8 DEF StartCompaction
  <2>2. \A g \in plan' : g.segments \subseteq DOMAIN manifest'
    BY <2>1, MergeGroupsWithin
  <2> QED BY <1>1, <2>1, <2>2, <2>4 DEF GroupInv
<1>9. ASSUME NEW g \in plan, OpenGroup(g) PROVE GroupInv'
  BY <1>9 DEF OpenGroup, GroupInv
<1>10. ASSUME NEW g \in plan, MissingSource(g) PROVE GroupInv'
  BY <1>2, <1>10 DEF MissingSource, DropWork
<1>11. ASSUME NEW s, ConsumeSource(s) PROVE GroupInv'
  BY <1>11 DEF ConsumeSource, GroupInv
<1>12. ASSUME NEW t, CloseGroup(t) PROVE GroupInv'
  BY <1>1, <1>12 DEF CloseGroup, GroupInv
<1>13. ASSUME SaveCompactedManifest PROVE GroupInv'
  BY <1>1, <1>13 DEF SaveCompactedManifest, GroupInv, work
<1>14. ASSUME DropTombstones \/ RewriteTombstones \/ AppendCompaction \/ TrimWals PROVE GroupInv'
  BY <1>3, <1>14 DEF DropTombstones, RewriteTombstones, AppendCompaction, TrimWals, work
<1>15. ASSUME RebuildIdRanges PROVE GroupInv'
  BY <1>2, <1>15 DEF RebuildIdRanges
<1>16. ASSUME Crash PROVE GroupInv'
  BY <1>2, <1>16 DEF Crash, DropWork
<1>17. ASSUME Reopen PROVE GroupInv'
  <2>1. pc \in Reopening /\ UNCHANGED <<plan, group, batch, report>>
    BY <1>17 DEF Reopen, ReplayFlushWal, ReplayCheckpoint, LoadTable, work
  <2>2. plan' = {} /\ group' = NoGroup
    BY <2>1 DEF GroupInv
  <2> QED BY <1>1, <2>1, <2>2 DEF GroupInv
<1>18. CASE UNCHANGED vars
  BY <1>18 DEF vars, disk, work, GroupInv
<1> QED
  BY <1>4, <1>5, <1>6, <1>7, <1>8, <1>9, <1>10, <1>11, <1>12, <1>13, <1>14, <1>15, <1>16, <1>17,
     <1>18, BoundsAssumption
     DEF Next, Call, Proceed, Flush, Compaction, CompactTable, MaybeCompactAfterFlush, Modes

LEMMA IdStart == Init => IdInv
BY DEF Init, IdInv, Rows, Reached, InFiles, NoFiles

\* A step that adds no row, and no name that a row can be found under.
LEMMA NoNewRows ==
  ASSUME IdInv, UNCHANGED <<nextId, nextUid>>, Rows' \subseteq Rows,
         pc' \in Reopening \/ (pc \notin Reopening /\ Reached' \subseteq Reached)
  PROVE  IdInv'
BY DEF IdInv

LEMMA RowsAre ==
  /\ \A d : d \in Rows <=> d \in mem \cup batch \cup buf \/ \E s \in DOMAIN files : d \in files[s]
  /\ \A d : d \in Reached <=>
       d \in mem \cup batch \cup buf \/ \E s \in DOMAIN files \cap Named : d \in files[s]
  /\ \A d : d \in Rows' <=> d \in mem' \cup batch' \cup buf' \/ \E s \in DOMAIN files' : d \in files'[s]
  /\ \A d : d \in Reached' <=>
       d \in mem' \cup batch' \cup buf' \/ \E s \in DOMAIN files' \cap Named' : d \in files'[s]
BY DEF Rows, Reached, InFiles

\* What is held in memory, and the files, stay or get less.
LEMMA RowsStay ==
  ASSUME mem' \cup batch' \cup buf' \subseteq mem \cup batch \cup buf, files' = files
  PROVE  Rows' \subseteq Rows /\ (Named' \cap DOMAIN files \subseteq Named => Reached' \subseteq Reached)
BY RowsAre

\* The names a replay of the compaction log enters are in the log.
LEMMA CompactionReplayedNames ==
  DOMAIN CompactionReplayed(manifest, files) =
    (DOMAIN manifest \ {s \in (UNION {r.removed : r \in compWal}) \cap DOMAIN manifest : s \notin DOMAIN files})
    \cup ({a[1] : a \in UNION {r.added : r \in compWal}} \cap DOMAIN files)
BY DEF CompactionReplayed, PushSegments, RemoveSegments, Without

\* The next id is taken from all the rows that were loaded, and every row that can be
\* reached by a name is loaded.
LEMMA LoadTableIds ==
  ASSUME TypeOK, MergeInv, GroupInv, IdInv, LoadTable
  PROVE  IdInv'
<1>1. /\ mem' = InFiles(files, DOMAIN manifest') /\ UNCHANGED <<files, batch, work, nextUid>>
      /\ pc = "replay_compaction" /\ pc' = "idle"
      /\ nextId' = IF mem' = {} THEN 0 ELSE MaxOf(Ids(mem')) + 1
      /\ manifest' = CompactionReplayed(manifest, files) /\ compWal' \subseteq compWal
  BY DEF LoadTable, ReplayCompactionWal, history
<1>2. batch' = {} /\ buf' = {} /\ DOMAIN wm' = {} /\ report'.added = {}
  <2>1. batch = {} /\ report = NoReport /\ buf = {} /\ wm = NoSegments
    BY <1>1 DEF GroupInv, MergeInv, Reopening, Compacted
  <2> QED BY <1>1, <2>1 DEF work, NoReport, NoSegments
<1>3. Rows' \subseteq Rows
  BY <1>1, <1>2, RowsAre DEF InFiles
<1>4. Reached' \subseteq mem'
  <2>1. Named' = DOMAIN manifest' \cup {a[1] : a \in UNION {r.added : r \in compWal'}}
    BY <1>1, <1>2 DEF Named
  <2>2. {a[1] : a \in UNION {r.added : r \in compWal'}} \cap DOMAIN files \subseteq DOMAIN manifest'
    BY <1>1, CompactionReplayedNames
  <2> QED BY <1>1, <1>2, <2>1, <2>2 DEF Reached, InFiles
<1>5. mem' \subseteq Docs /\ mem' \subseteq Rows
  <2>1. mem' \subseteq Docs
    BY <1>1, InFilesType DEF TypeOK
  <2> QED BY <1>1, <2>1, RowsAre DEF InFiles
<1>6. \A d \in Rows : d.id < nextUid
  BY DEF IdInv
<1>7. nextId' <= nextUid /\ \A d \in mem' : d.id < nextId'
  <2>1. CASE mem' = {}
    BY <1>1, <2>1 DEF TypeOK
  <2>2. CASE mem' # {}
    <3>1. Ids(mem') \subseteq Nat /\ Ids(mem') # {} /\ \A i \in Ids(mem') : i < nextUid
      BY <1>5, <1>6, <2>2, IdsAreNat DEF Ids
    <3>2. MaxOf(Ids(mem')) \in Ids(mem') /\ \A i \in Ids(mem') : i <= MaxOf(Ids(mem'))
      BY <3>1, MaxOfBounded DEF TypeOK
    <3>3. nextId' = MaxOf(Ids(mem')) + 1 /\ \A d \in mem' : d.id \in Ids(mem')
      BY <1>1, <2>2 DEF Ids
    <3> QED BY <3>1, <3>2, <3>3 DEF TypeOK
  <2> QED BY <2>1, <2>2
<1>8. nextUid' = nextUid
  BY <1>1
<1> QED BY <1>3, <1>4, <1>6, <1>7, <1>8 DEF IdInv

LEMMA IdStep == TypeOK /\ MergeInv /\ GroupInv /\ IdInv /\ [Next]_vars => IdInv'
<1> SUFFICES ASSUME TypeOK, MergeInv, GroupInv, IdInv, [Next]_vars PROVE IdInv'
  OBVIOUS
<1> USE DEF Reopening
\* Nothing in memory grows, no file changes, and no name is new.
<1>1. ASSUME mem' \cup batch' \cup buf' \subseteq mem \cup batch \cup buf,
             UNCHANGED <<files, nextId, nextUid>>, Named' \cap DOMAIN files \subseteq Named,
             pc \notin Reopening
      PROVE  IdInv'
  BY <1>1, RowsStay, NoNewRows
\* A file is written with rows that are in memory, others may go.
<1>2. ASSUME NEW s, NEW rows, rows \subseteq batch \cup buf,
             \A n \in DOMAIN files' : n = s \/ n \in DOMAIN files,
             \A n \in DOMAIN files' : files'[n] = IF n = s THEN rows ELSE files[n],
             mem' \cup batch' \cup buf' \subseteq mem \cup batch \cup buf,
             UNCHANGED <<nextId, nextUid>>, Named' \subseteq Named \cup {s}, pc \notin Reopening
      PROVE  IdInv'
  <2>1. Rows' \subseteq Rows
    BY <1>2, RowsAre
  <2>2. Reached' \subseteq Reached
    BY <1>2, RowsAre
  <2> QED BY <1>2, <2>1, <2>2, NoNewRows
<1>3. ASSUME NEW k \in BatchSizes, AddDocuments(k) PROVE IdInv'
  <2>1. /\ batch' = {[id |-> nextId + i, uid |-> nextUid + i] : i \in 0..(k - 1)}
        /\ mem' = mem \cup batch' /\ nextId' = nextId + k /\ nextUid' = nextUid + k
        /\ UNCHANGED <<files, manifest, compWal, wm, report, buf>> /\ pc = "idle" /\ pc' = "write_segment"
    BY <1>3 DEF AddDocuments, disk, work
  <2>2. k \in Nat /\ nextId \in Nat /\ nextUid \in Nat
    BY BoundsAssumption DEF TypeOK
  <2>3. \A d \in batch' : d.id < nextId'
    BY <2>1, <2>2
  <2>4. Named' = Named
    BY <2>1 DEF Named
  <2>5. Rows' \subseteq Rows \cup batch' /\ Reached' \subseteq Reached \cup batch'
    BY <2>1, <2>4, RowsAre
  <2>6. Rows \subseteq Docs /\ Reached \subseteq Docs
    BY InFilesType DEF TypeOK, Rows, Reached
  <2>7. \A d \in Docs : d.id \in Nat
    BY DEF Docs
  <2>8. nextId' <= nextUid' /\ \A d \in Rows' : d.id < nextUid'
    BY <2>1, <2>2, <2>3, <2>5, <2>6, <2>7 DEF IdInv
  <2>9. \A d \in Reached' : d.id < nextId'
    BY <2>1, <2>2, <2>3, <2>5, <2>6, <2>7 DEF IdInv
  <2> QED BY <2>8, <2>9 DEF IdInv
<1>4. ASSUME WriteSegment PROVE IdInv'
  <2> DEFINE s == FlushName(manifest)
  <2>1. /\ files' = Put(files, s, batch) /\ pc \notin Reopening
        /\ UNCHANGED <<mem, batch, buf, manifest, wm, compWal, report, nextId, nextUid>>
    BY <1>4 DEF WriteSegment, work
  <2>2. Named' \subseteq Named \cup {s}
    BY <2>1 DEF Named
  <2> QED BY <1>2, <2>1, <2>2 DEF Put
<1>5. ASSUME AppendFlush PROVE IdInv'
  <2>1. Named' = Named
    BY <1>5 DEF AppendFlush, Named, work
  <2> QED BY <1>1, <1>5, <2>1 DEF AppendFlush, work
<1>6. ASSUME NEW t, CommitManifest(t) PROVE IdInv'
  <2>1. DOMAIN manifest' = DOMAIN manifest \cup {FlushName(manifest)}
    BY <1>6 DEF CommitManifest, PushSegmentMeta, Put
  <2>2. Named' \subseteq Named
    BY <1>6, <2>1 DEF CommitManifest, Named, work
  <2> QED BY <1>1, <1>6, <2>2 DEF CommitManifest, work, history
<1>7. ASSUME CheckpointFlush PROVE IdInv'
  <2>1. Named' = Named
    BY <1>7 DEF CheckpointFlush, Named, work
  <2> QED BY <1>1, <1>7, <2>1 DEF CheckpointFlush, work, history
<1>8. ASSUME NEW id, DeleteById(id) PROVE IdInv'
  <2>1. Named' = Named
    BY <1>8 DEF DeleteById, Named, work
  <2> QED BY <1>1, <1>8, <2>1 DEF DeleteById, work
<1>9. ASSUME NEW mode, StartCompaction(mode), pc \in {"idle", "maybe_compact"} PROVE IdInv'
  <2>1. /\ manifest' = CompactionReplayed(manifest, files) /\ compWal' \subseteq compWal
        /\ wm' \in {NoSegments, manifest'} /\ report' = report /\ pc' \in {"idle", "merge"}
    BY <1>9 DEF StartCompaction, ReplayCompactionWal
  <2>2. DOMAIN NoSegments = {}
    BY DEF NoSegments
  <2>3. DOMAIN manifest' \subseteq Named
    BY <2>1, CompactionReplayedNames DEF Named
  <2>4. Named' \subseteq Named
    BY <2>1, <2>2, <2>3 DEF Named
  <2> QED BY <1>1, <1>9, <2>4 DEF StartCompaction, history
<1>10. ASSUME NEW g \in plan, OpenGroup(g) PROVE IdInv'
  <2>1. Named' = Named /\ pc \notin Reopening
    BY <1>10 DEF OpenGroup, Named
  <2>2. /\ files' = Without(files, {NextSegmentName(wm)})
        /\ UNCHANGED <<mem, batch, buf, nextId, nextUid>>
    BY <1>10 DEF OpenGroup
  <2>3. \A n \in DOMAIN files' : n # NextSegmentName(wm) /\ n \in DOMAIN files /\ files'[n] = files[n]
    BY <2>2 DEF Without
  <2> QED BY <1>2, <2>1, <2>2, <2>3
<1>11. ASSUME NEW g \in plan, MissingSource(g) PROVE IdInv'
  <2>1. wm' = NoSegments /\ report' = NoReport /\ buf' = {}
    BY <1>11 DEF MissingSource, DropWork
  <2>2. Named' \subseteq Named
    BY <1>11, <2>1 DEF MissingSource, Named, NoSegments, NoReport, disk
  <2> QED BY <1>1, <1>11, <2>1, <2>2 DEF MissingSource, disk
<1>12. ASSUME NEW s \in DOMAIN files, ConsumeSource(s) PROVE IdInv'
  <2>1. Named' = Named /\ pc \notin Reopening /\ s \in Named
    BY <1>12 DEF ConsumeSource, Named, Sources, GroupInv
  <2>2. /\ files' = Without(files, {s}) /\ buf' \subseteq buf \cup files[s]
        /\ UNCHANGED <<mem, batch, nextId, nextUid>>
    BY <1>12 DEF ConsumeSource, history
  <2>3. \A n \in DOMAIN files' : n \in DOMAIN files /\ files'[n] = files[n]
    BY <2>2 DEF Without
  <2>4. Rows' \subseteq Rows /\ Reached' \subseteq Reached
    BY <2>1, <2>2, <2>3, RowsAre
  <2> QED BY <2>1, <2>2, <2>4, NoNewRows
<1>13. ASSUME NEW t, CloseGroup(t) PROVE IdInv'
  <2> DEFINE new == NextSegmentName(wm)
             tier == IF t > group.tier THEN t ELSE group.tier
  <2>1. /\ files' = Put(Without(files, group.segments), new, buf) /\ pc \notin Reopening
        /\ buf' = {} /\ report'.added = report.added \cup {<<new, tier>>}
        /\ UNCHANGED <<mem, batch, manifest, compWal, pc, nextId, nextUid>>
    BY <1>13 DEF CloseGroup, history
  <2>2. DOMAIN wm' = (DOMAIN wm \ group.segments) \cup {new}
    BY <1>13 DEF CloseGroup, PushSegmentMeta, RemoveSegments, Put, Without
  <2> HIDE DEF new, tier
  <2>3. Named' \subseteq Named \cup {new}
    BY <2>1, <2>2 DEF Named
  <2>4. \A n \in DOMAIN files' : /\ n = new \/ n \in DOMAIN files
                                 /\ files'[n] = IF n = new THEN buf ELSE files[n]
    BY <2>1 DEF Put, Without
  <2> QED BY <1>2, <2>1, <2>3, <2>4
<1>14. ASSUME SaveCompactedManifest PROVE IdInv'
  <2>1. Named' \subseteq Named
    BY <1>14 DEF SaveCompactedManifest, Named, work
  <2> QED BY <1>1, <1>14, <2>1 DEF SaveCompactedManifest, work, history
<1>15. ASSUME DropTombstones \/ RewriteTombstones \/ AppendCompaction \/ TrimWals PROVE IdInv'
  <2>1. compWal' \subseteq compWal \cup {report} /\ UNCHANGED <<manifest, wm, report>>
        /\ pc' \notin {"append_flush", "commit_manifest"}
    BY <1>15 DEF DropTombstones, RewriteTombstones, AppendCompaction, TrimWals, work
  <2>2. Named' \subseteq Named
    BY <2>1 DEF Named
  <2> QED BY <1>1, <1>15, <2>2
          DEF DropTombstones, RewriteTombstones, AppendCompaction, TrimWals, work, history
<1>16. ASSUME RebuildIdRanges PROVE IdInv'
  <2>1. DOMAIN manifest' = DOMAIN manifest
    BY <1>16 DEF RebuildIdRanges, RebuiltRanges
  <2>2. wm' = NoSegments /\ report' = NoReport /\ buf' = {} /\ compWal' = compWal /\ pc' = "idle"
    BY <1>16 DEF RebuildIdRanges
  <2>3. Named' \subseteq Named
    BY <2>1, <2>2 DEF Named, NoSegments, NoReport
  <2> QED BY <1>1, <1>16, <2>2, <2>3 DEF RebuildIdRanges, history
<1>17. ASSUME Crash PROVE IdInv'
  <2>1. /\ mem' = {} /\ batch' = {} /\ buf' = {} /\ nextId' = 0 /\ pc' = "down"
        /\ UNCHANGED <<files, nextUid>>
    BY <1>17 DEF Crash, DropWork, disk
  <2>2. Rows' \subseteq Rows
    BY <2>1, RowsAre
  <2> QED BY <2>1, <2>2 DEF IdInv, TypeOK
<1>18. ASSUME ReplayFlushWal \/ ReplayCheckpoint PROVE IdInv'
  <2>1. UNCHANGED <<files, mem, batch, buf, nextId, nextUid>> /\ pc' \in Reopening
    BY <1>18 DEF ReplayFlushWal, ReplayCheckpoint, work, history
  <2> QED BY <2>1, RowsStay, NoNewRows
<1>19. ASSUME LoadTable PROVE IdInv'
  BY <1>19, LoadTableIds
<1>20. CASE UNCHANGED vars
  BY <1>20 DEF vars, disk, work, history, IdInv, Rows, Reached, Named
<1> QED
  BY <1>3, <1>4, <1>5, <1>6, <1>7, <1>8, <1>9, <1>10, <1>11, <1>12, <1>13, <1>14, <1>15,
     <1>16, <1>17, <1>18, <1>19, <1>20
     DEF Next, Call, Proceed, Flush, Compaction, Reopen, CompactTable, MaybeCompactAfterFlush

LEMMA PlacesStart == Init => PlacesInv
BY DEF Init, PlacesInv, Places, NoFiles

LEMMA PlacesAre ==
  /\ \A p : p \in Places <=>
       \/ \E s \in Held \cap DOMAIN files : \E d \in files[s] : p = <<s, d>>
       \/ \E d \in buf : p = <<InBuffer, d>>
       \/ pc = "write_segment" /\ \E d \in batch : p = <<InBatch, d>>
  /\ \A p : p \in Places' <=>
       \/ \E s \in Held' \cap DOMAIN files' : \E d \in files'[s] : p = <<s, d>>
       \/ \E d \in buf' : p = <<InBuffer, d>>
       \/ pc' = "write_segment" /\ \E d \in batch' : p = <<InBatch, d>>
<1>1. \A p : p \in UNION {{<<s, d>> : d \in files[s]} : s \in Held \cap DOMAIN files} <=>
        \E s \in Held \cap DOMAIN files : \E d \in files[s] : p = <<s, d>>
  OBVIOUS
<1>2. \A p : p \in UNION {{<<s, d>> : d \in files'[s]} : s \in Held' \cap DOMAIN files'} <=>
        \E s \in Held' \cap DOMAIN files' : \E d \in files'[s] : p = <<s, d>>
  OBVIOUS
<1> QED BY <1>1, <1>2 DEF Places

\* Rows that change from one place to another, or go.
LEMMA Moved ==
  ASSUME PlacesInv, NEW from, NEW to,
         \A p \in Places' : \E q \in Places :
           p = <<IF q[1] = from THEN to ELSE q[1], q[2]>>
  PROVE  PlacesInv'
<1> SUFFICES ASSUME NEW p \in Places', NEW q \in Places', p[2].id = q[2].id PROVE p = q
  BY DEF PlacesInv
<1>1. PICK x \in Places : p = <<IF x[1] = from THEN to ELSE x[1], x[2]>>
  OBVIOUS
<1>2. PICK y \in Places : q = <<IF y[1] = from THEN to ELSE y[1], y[2]>>
  OBVIOUS
<1>3. x[2].id = y[2].id
  BY <1>1, <1>2
<1>4. x = y
  BY <1>3 DEF PlacesInv
<1> QED BY <1>1, <1>2, <1>4

LEMMA Unmoved ==
  ASSUME PlacesInv, Places' \subseteq Places
  PROVE  PlacesInv'
BY DEF PlacesInv

LEMMA PlacesStep == TypeOK /\ LogInv /\ GroupInv /\ IdInv /\ PlacesInv /\ [Next]_vars => PlacesInv'
<1> SUFFICES ASSUME TypeOK, LogInv, GroupInv, IdInv, PlacesInv, [Next]_vars PROVE PlacesInv'
  OBVIOUS
<1>1. DOMAIN files \subseteq Nat /\ InBuffer \notin Nat /\ InBatch \notin Nat /\ InBuffer # InBatch
  BY DEF TypeOK, InBuffer, InBatch
\* No file changes but by going, and no name is new.
<1>2. ASSUME DOMAIN files' \subseteq DOMAIN files, \A n \in DOMAIN files' : files'[n] = files[n],
             Held' \cap DOMAIN files \subseteq Held, buf' \subseteq buf, pc' # "write_segment"
      PROVE  PlacesInv'
  <2>1. Places' \subseteq Places
    BY <1>2, PlacesAre
  <2> QED BY <2>1, Unmoved
<1>3. ASSUME NEW k \in BatchSizes, AddDocuments(k) PROVE PlacesInv'
  <2>1. /\ batch' = {[id |-> nextId + i, uid |-> nextUid + i] : i \in 0..(k - 1)}
        /\ UNCHANGED <<files, manifest, flushWal, compWal, wm, report, buf>>
        /\ pc = "idle" /\ pc' = "write_segment"
    BY <1>3 DEF AddDocuments, disk, work
  <2>2. nextId \in Nat /\ nextUid \in Nat
    BY DEF TypeOK
  <2>3. \A d, e \in batch' : d.id >= nextId /\ (d.id = e.id => d = e)
    <3>1. \A d \in batch' : \E i \in 0..(k - 1) : d = [id |-> nextId + i, uid |-> nextUid + i]
      BY <2>1
    <3> SUFFICES ASSUME NEW d \in batch', NEW e \in batch' PROVE d.id >= nextId /\ (d.id = e.id => d = e)
      OBVIOUS
    <3>2. PICK i \in 0..(k - 1) : d = [id |-> nextId + i, uid |-> nextUid + i]
      BY <3>1
    <3>3. PICK j \in 0..(k - 1) : e = [id |-> nextId + j, uid |-> nextUid + j]
      BY <3>1
    <3>4. d.id = nextId + i /\ e.id = nextId + j
      BY <3>2, <3>3
    <3>5. nextId + i = nextId + j => i = j
      BY <2>2
    <3>6. nextId + i >= nextId
      BY <2>2
    <3> QED BY <3>2, <3>3, <3>4, <3>5, <3>6
  <2>4. flushWal = {} /\ Held' = Held /\ Held = Named
    BY <2>1 DEF LogInv, Held, Named
  <2>5. \A p \in Places' : p \in Places \/ (p[1] = InBatch /\ p[2] \in batch' /\ p = <<InBatch, p[2]>>)
    BY <2>1, <2>4, PlacesAre
  <2>6. \A p \in Places : p[2] \in Reached
    BY <2>1, <2>4, PlacesAre, RowsAre
  <2>7. \A p \in Places : p[2].id < nextId /\ p[2].id \in Nat
    <3>1. Reached \subseteq Docs
      BY InFilesType DEF TypeOK, Reached
    <3> QED BY <2>1, <2>6, <3>1 DEF IdInv, Reopening, Docs
  <2> SUFFICES ASSUME NEW p \in Places', NEW q \in Places', p[2].id = q[2].id PROVE p = q
    BY DEF PlacesInv
  <2>8. batch' \subseteq Docs
    BY <2>1, <2>2, BoundsAssumption DEF Docs
  <2>9. CASE p \in Places /\ q \in Places
    BY <2>9 DEF PlacesInv
  <2>10. CASE p \in Places /\ q \notin Places
    BY <2>2, <2>3, <2>5, <2>7, <2>8, <2>10 DEF Docs
  <2>11. CASE p \notin Places /\ q \in Places
    BY <2>2, <2>3, <2>5, <2>7, <2>8, <2>11 DEF Docs
  <2>12. CASE p \notin Places /\ q \notin Places
    BY <2>3, <2>5, <2>12
  <2> QED BY <2>9, <2>10, <2>11, <2>12
<1>4. ASSUME WriteSegment PROVE PlacesInv'
  <2> DEFINE s == FlushName(manifest)
  <2>1. /\ files' = Put(files, s, batch) /\ pc = "write_segment" /\ pc' = "append_flush"
        /\ UNCHANGED <<batch, buf, manifest, wm, flushWal, compWal, report>>
    BY <1>4 DEF WriteSegment, work
  <2> HIDE DEF s
  <2>2. Held' \subseteq Held \cup {s}
    BY <2>1 DEF Held, Named, s
  <2>3. \A n \in DOMAIN files' : (n = s \/ n \in DOMAIN files) /\ files'[n] = IF n = s THEN batch ELSE files[n]
    BY <2>1 DEF Put
  <2>4. \A p \in Places' : \E q \in Places : p = <<IF q[1] = InBatch THEN s ELSE q[1], q[2]>>
    <3> SUFFICES ASSUME NEW p \in Places'
                 PROVE  \E q \in Places : p = <<IF q[1] = InBatch THEN s ELSE q[1], q[2]>>
      OBVIOUS
    <3>1. CASE \E d \in batch : p = <<s, d>>
      <4>1. PICK d \in batch : p = <<s, d>>
        BY <3>1
      <4>2. <<InBatch, d>> \in Places
        BY <2>1, PlacesAre
      <4> QED BY <4>1, <4>2
    <3>2. CASE \E n \in DOMAIN files : \E d \in files[n] : p = <<n, d>> /\ p \in Places
      BY <1>1, <3>2
    <3>3. CASE \E d \in buf : p = <<InBuffer, d>>
      BY <1>1, <3>3, PlacesAre
    <3> QED BY <2>1, <2>2, <2>3, <3>1, <3>2, <3>3, PlacesAre
  <2> QED BY <2>4, Moved
<1>5. ASSUME AppendFlush PROVE PlacesInv'
  <2>1. Held' \subseteq Held
    BY <1>5 DEF AppendFlush, Held, Named, work
  <2> QED BY <1>2, <1>5, <2>1 DEF AppendFlush, work
<1>6. ASSUME NEW t, CommitManifest(t) PROVE PlacesInv'
  <2>1. DOMAIN manifest' = DOMAIN manifest \cup {FlushName(manifest)}
    BY <1>6 DEF CommitManifest, PushSegmentMeta, Put
  <2>2. Held' \subseteq Held
    BY <1>6, <2>1 DEF CommitManifest, Held, Named, work
  <2> QED BY <1>2, <1>6, <2>2 DEF CommitManifest, work
<1>7. ASSUME CheckpointFlush \/ TrimWals \/ ReplayCheckpoint PROVE PlacesInv'
  <2>1. /\ flushWal' \subseteq flushWal /\ compWal' \subseteq compWal
        /\ UNCHANGED <<files, manifest, wm, report, buf>>
        /\ pc' \notin {"write_segment", "append_flush", "commit_manifest"}
    BY <1>7 DEF CheckpointFlush, TrimWals, ReplayCheckpoint, Checkpointed, work
  <2>2. Held' \subseteq Held
    BY <2>1 DEF Held, Named
  <2> QED BY <1>2, <2>1, <2>2
<1>8. ASSUME NEW id, DeleteById(id) PROVE PlacesInv'
  <2>1. Held' = Held
    BY <1>8 DEF DeleteById, Held, Named, work
  <2> QED BY <1>2, <1>8, <2>1 DEF DeleteById, work
<1>9. ASSUME NEW mode, StartCompaction(mode), pc \in {"idle", "maybe_compact"} PROVE PlacesInv'
  <2>1. /\ manifest' = CompactionReplayed(manifest, files) /\ compWal' \subseteq compWal
        /\ wm' \in {NoSegments, manifest'} /\ report' = report /\ pc' \in {"idle", "merge"}
        /\ UNCHANGED <<files, flushWal, buf>>
    BY <1>9 DEF StartCompaction, ReplayCompactionWal
  <2>2. DOMAIN NoSegments = {}
    BY DEF NoSegments
  <2>3. DOMAIN manifest' \subseteq Held
    BY <2>1, CompactionReplayedNames DEF Held, Named
  <2>4. Held' \subseteq Held
    BY <2>1, <2>2, <2>3 DEF Held, Named
  <2> QED BY <1>2, <2>1, <2>4
<1>10. ASSUME NEW g \in plan, OpenGroup(g) PROVE PlacesInv'
  <2>1. /\ files' = Without(files, {NextSegmentName(wm)}) /\ pc' = "merge" /\ buf' = buf
        /\ UNCHANGED <<manifest, wm, flushWal, compWal, report>>
    BY <1>10 DEF OpenGroup
  <2>2. Held' \subseteq Held
    BY <1>10, <2>1 DEF Held, Named
  <2>3. \A n \in DOMAIN files' : n \in DOMAIN files /\ files'[n] = files[n]
    BY <2>1 DEF Without
  <2> QED BY <1>2, <2>1, <2>2, <2>3
<1>11. ASSUME DropWork, pc' \in {"idle", "down"}, UNCHANGED disk PROVE PlacesInv'
  <2>1. wm' = NoSegments /\ report' = NoReport /\ buf' = {}
    BY <1>11 DEF DropWork
  <2>2. Held' \subseteq Held
    BY <1>11, <2>1 DEF Held, Named, NoSegments, NoReport, disk
  <2> QED BY <1>2, <1>11, <2>1, <2>2 DEF disk
<1>12. ASSUME NEW s \in DOMAIN files, ConsumeSource(s) PROVE PlacesInv'
  <2>1. Held' = Held /\ s \in Held /\ pc = "merge" /\ pc' = pc
    BY <1>12 DEF ConsumeSource, Held, Named, Sources, GroupInv
  <2>2. files' = Without(files, {s}) /\ buf' \subseteq buf \cup files[s]
    BY <1>12 DEF ConsumeSource
  <2>3. \A n \in DOMAIN files' : n # s /\ n \in DOMAIN files /\ files'[n] = files[n]
    BY <2>2 DEF Without
  <2>4. \A p \in Places' : \E q \in Places : p = <<IF q[1] = s THEN InBuffer ELSE q[1], q[2]>>
    <3> SUFFICES ASSUME NEW p \in Places'
                 PROVE  \E q \in Places : p = <<IF q[1] = s THEN InBuffer ELSE q[1], q[2]>>
      OBVIOUS
    <3>1. CASE \E n \in Held \cap DOMAIN files' : \E d \in files'[n] : p = <<n, d>>
      <4>1. PICK n \in Held \cap DOMAIN files' : \E d \in files'[n] : p = <<n, d>>
        BY <3>1
      <4>2. PICK d \in files'[n] : p = <<n, d>>
        BY <4>1
      <4>3. p \in Places
        BY <2>3, <4>2, PlacesAre
      <4> QED BY <2>3, <4>2, <4>3
    <3>2. CASE \E d \in buf' : p = <<InBuffer, d>>
      <4>1. PICK d \in buf' : p = <<InBuffer, d>>
        BY <3>2
      <4>2. CASE d \in buf
        <5>1. p \in Places
          BY <4>1, <4>2, PlacesAre
        <5> QED BY <1>1, <4>1, <5>1
      <4>3. CASE d \in files[s]
        <5>1. <<s, d>> \in Places
          BY <2>1, <4>3, PlacesAre
        <5> QED BY <4>1, <5>1
      <4> QED BY <2>2, <4>2, <4>3
    <3> QED BY <2>1, <3>1, <3>2, PlacesAre
  <2> QED BY <2>4, Moved
<1>13. ASSUME NEW t, CloseGroup(t) PROVE PlacesInv'
  <2> DEFINE new == NextSegmentName(wm)
             tier == IF t > group.tier THEN t ELSE group.tier
  <2>1. /\ files' = Put(Without(files, group.segments), new, buf) /\ pc = "merge" /\ pc' = pc
        /\ buf' = {} /\ report'.added = report.added \cup {<<new, tier>>}
        /\ UNCHANGED <<manifest, flushWal, compWal>>
    BY <1>13 DEF CloseGroup
  <2>2. DOMAIN wm' = (DOMAIN wm \ group.segments) \cup {new}
    BY <1>13 DEF CloseGroup, PushSegmentMeta, RemoveSegments, Put, Without
  <2> HIDE DEF new, tier
  <2>3. Held' \subseteq Held \cup {new}
    BY <2>1, <2>2 DEF Held, Named
  <2>4. \A n \in DOMAIN files' : /\ n = new \/ n \in DOMAIN files
                                 /\ files'[n] = IF n = new THEN buf ELSE files[n]
    BY <2>1 DEF Put, Without
  <2>5. \A p \in Places' : \E q \in Places : p = <<IF q[1] = InBuffer THEN new ELSE q[1], q[2]>>
    <3> SUFFICES ASSUME NEW p \in Places'
                 PROVE  \E q \in Places : p = <<IF q[1] = InBuffer THEN new ELSE q[1], q[2]>>
      OBVIOUS
    <3>1. PICK n \in Held' \cap DOMAIN files' : \E d \in files'[n] : p = <<n, d>>
      BY <2>1, PlacesAre
    <3>2. PICK d \in files'[n] : p = <<n, d>>
      BY <3>1
    <3>3. CASE n = new
      <4>1. <<InBuffer, d>> \in Places
        BY <2>4, <3>2, <3>3, PlacesAre
      <4> QED BY <3>2, <3>3, <4>1
    <3>4. CASE n # new
      <4>1. n \in Held \cap DOMAIN files /\ d \in files[n]
        BY <2>3, <2>4, <3>2, <3>4
      <4>2. p \in Places
        BY <3>2, <4>1, PlacesAre
      <4> QED BY <1>1, <3>2, <4>1, <4>2
    <3> QED BY <3>3, <3>4
  <2> QED BY <2>5, Moved
<1>14. ASSUME SaveCompactedManifest PROVE PlacesInv'
  <2>1. Held' \subseteq Held
    BY <1>14 DEF SaveCompactedManifest, Held, Named, work
  <2> QED BY <1>2, <1>14, <2>1 DEF SaveCompactedManifest, work
<1>15. ASSUME DropTombstones \/ RewriteTombstones \/ AppendCompaction PROVE PlacesInv'
  <2>1. /\ compWal' \subseteq compWal \cup {report} /\ UNCHANGED <<files, flushWal, manifest, wm, report, buf>>
        /\ pc' \notin {"write_segment", "append_flush", "commit_manifest"}
    BY <1>15 DEF DropTombstones, RewriteTombstones, AppendCompaction, work
  <2>2. Held' \subseteq Held
    BY <2>1 DEF Held, Named
  <2> QED BY <1>2, <2>1, <2>2
<1>16. ASSUME RebuildIdRanges PROVE PlacesInv'
  <2>1. DOMAIN manifest' = DOMAIN manifest
    BY <1>16 DEF RebuildIdRanges, RebuiltRanges
  <2>2. wm' = NoSegments /\ report' = NoReport /\ buf' = {} /\ pc' = "idle"
        /\ UNCHANGED <<files, flushWal, compWal>>
    BY <1>16 DEF RebuildIdRanges
  <2>3. Held' \subseteq Held
    BY <2>1, <2>2 DEF Held, Named, NoSegments, NoReport
  <2> QED BY <1>2, <2>2, <2>3
<1>17. ASSUME ReplayFlushWal PROVE PlacesInv'
  <2>1. /\ DOMAIN manifest' = DOMAIN manifest \cup ({r.seg : r \in flushWal} \cap DOMAIN files)
        /\ UNCHANGED <<files, flushWal, compWal, wm, report, buf>> /\ pc' = "replay_checkpoint"
    BY <1>17 DEF ReplayFlushWal, PushSegments, work
  <2>2. Held' \subseteq Held
    BY <2>1 DEF Held, Named
  <2> QED BY <1>2, <2>1, <2>2
<1>18. ASSUME LoadTable PROVE PlacesInv'
  <2>1. /\ manifest' = CompactionReplayed(manifest, files) /\ compWal' \subseteq compWal
        /\ UNCHANGED <<files, flushWal, wm, report, buf>> /\ pc' = "idle"
    BY <1>18 DEF LoadTable, ReplayCompactionWal, work
  <2>2. DOMAIN manifest' \subseteq Held
    BY <2>1, CompactionReplayedNames DEF Held, Named
  <2>3. Held' \subseteq Held
    BY <2>1, <2>2 DEF Held, Named
  <2> QED BY <1>2, <2>1, <2>3
<1>19. CASE UNCHANGED vars
  BY <1>19 DEF vars, disk, work, PlacesInv, Places, Held, Named
<1>20. ASSUME (\E g \in plan : MissingSource(g)) \/ Crash PROVE PlacesInv'
  BY <1>11, <1>20 DEF MissingSource, Crash
<1> QED
  BY <1>3, <1>4, <1>5, <1>6, <1>7, <1>8, <1>9, <1>10, <1>12, <1>13, <1>14, <1>15,
     <1>16, <1>17, <1>18, <1>19, <1>20
     DEF Next, Call, Proceed, Flush, Compaction, Reopen, CompactTable, MaybeCompactAfterFlush

LEMMA FreshHolds == Spec => [](TypeOK /\ LogInv /\ MergeInv /\ FreshInv)
<1>1. Init => TypeOK /\ LogInv /\ MergeInv /\ FreshInv
  BY TypeInit, LogInit, MergeInit, GroupStart, IdStart, PlacesStart DEF FreshInv
<1>2. TypeOK /\ LogInv /\ MergeInv /\ FreshInv /\ [Next]_vars =>
        (TypeOK /\ LogInv /\ MergeInv /\ FreshInv)'
  BY TypeStep, LogStep, MergeStep, GroupStep, IdStep, PlacesStep DEF FreshInv
<1> QED BY <1>1, <1>2, PTL DEF Spec

\* Between operations, and after every open, the next id is above every id of the
\* table: no document is ever given an id in use, wherever crashes cut a flush or a
\* merge, and although an open may find the rows of a merge that was never recorded.
\* (CorpusStore::insert_at, DagRunner::open)
THEOREM IdsAreFresh == Spec => []FreshIds
<1>1. TypeOK /\ LogInv /\ MergeInv /\ FreshInv => FreshIds
  BY DEF FreshInv, IdInv, FreshIds, Reopening, Reached, Stored, Named, InFiles
<1> QED BY <1>1, FreshHolds, PTL

\* No two rows of the table share an id, and none is in two segments, whatever the
\* policy, and wherever crashes cut flushes, merges and their replays: an output and
\* its sources are never read together.  (replay_flush_wal, replay_compaction_wal)
THEOREM RowsAreDistinct == Spec => []RowsDistinct
<1>1. FreshInv => RowsDistinct
  <2> SUFFICES ASSUME FreshInv,
                      NEW s \in DOMAIN manifest \cap DOMAIN files, NEW d \in files[s],
                      NEW t \in DOMAIN manifest \cap DOMAIN files, NEW e \in files[t], d.id = e.id
               PROVE  s = t /\ d = e
    BY DEF RowsDistinct
  <2>1. <<s, d>> \in Places /\ <<t, e>> \in Places
    BY PlacesAre DEF Held, Named
  <2>2. <<s, d>> = <<t, e>>
    BY <2>1 DEF FreshInv, PlacesInv
  <2> QED BY <2>2
<1> QED BY <1>1, FreshHolds, PTL

-----------------------------------------------------------------------------
(* Without merges: the durable table *)

LEMMA DurableIs ==
  /\ \A d : d \in Durable <=>
       \E s \in DOMAIN files : d \in files[s] /\ s \in DOMAIN manifest \cup {r.seg : r \in flushWal}
  /\ \A d : d \in Durable' <=>
       \E s \in DOMAIN files' : d \in files'[s] /\ s \in DOMAIN manifest' \cup {r.seg : r \in flushWal'}
BY DEF Durable, InFiles

\* Only the names that have a file count.
LEMMA DurableKept ==
  ASSUME files' = files,
         \A s \in DOMAIN files :
           s \in DOMAIN manifest' \cup {r.seg : r \in flushWal'} <=>
           s \in DOMAIN manifest \cup {r.seg : r \in flushWal}
  PROVE  Durable' = Durable
<1>1. \A d : d \in Durable' <=> d \in Durable
  BY DurableIs
<1> QED BY <1>1

LEMMA DurableTypes ==
  ASSUME TypeOK
  PROVE  /\ Durable \subseteq Docs /\ \A d \in Durable : d.id \in Nat
         /\ \A d \in batch : d.id \in Nat
         /\ BeingWritten \subseteq batch
         /\ tombs \subseteq Nat /\ nextId \in Nat
         /\ FlushName(manifest) \in Nat /\ IsFiniteSet(DOMAIN manifest)
<1>1. Durable \subseteq Docs
  BY InFilesType DEF TypeOK, Durable
<1>2. FlushName(manifest) \in Nat
  BY NamesAreNat DEF TypeOK
<1> QED BY <1>1, <1>2 DEF Docs, TypeOK, BeingWritten, IsManifest

\* The next name is the first that no segment of the manifest has, and using it leaves
\* no gap.
LEMMA ConsecutiveNames ==
  ASSUME TypeOK, Consecutive
  PROVE  /\ FlushName(manifest) \notin DOMAIN manifest
         /\ DOMAIN manifest' = DOMAIN manifest => FlushName(manifest') = FlushName(manifest) /\ Consecutive'
         /\ DOMAIN manifest' = DOMAIN manifest \cup {FlushName(manifest)} => Consecutive'
<1> DEFINE n == Cardinality(DOMAIN manifest)
<1>1. n \in Nat /\ DOMAIN manifest = 1..n /\ FlushName(manifest) = n + 1
  BY FS_CardinalityType DEF TypeOK, IsManifest, Consecutive, FlushName
<1>2. Cardinality(1..(n + 1)) = n + 1
  BY <1>1, FS_Interval
<1> HIDE DEF n
<1>3. DOMAIN manifest \cup {FlushName(manifest)} = 1..(n + 1) /\ FlushName(manifest) \notin DOMAIN manifest
  BY <1>1
<1>4. ASSUME DOMAIN manifest' = DOMAIN manifest
      PROVE  FlushName(manifest') = FlushName(manifest) /\ Consecutive'
  BY <1>4 DEF Consecutive, FlushName
<1>5. ASSUME DOMAIN manifest' = DOMAIN manifest \cup {FlushName(manifest)} PROVE Consecutive'
  <2>1. DOMAIN manifest' = 1..(n + 1)
    BY <1>3, <1>5
  <2> QED BY <1>2, <2>1 DEF Consecutive
<1> QED BY <1>3, <1>4, <1>5

\* What may happen to a durable table: nothing, new documents whose ids have no
\* tombstone, or more tombstones.
TableStep ==
  \/ Durable' = Durable /\ tombs' = tombs
  \/ Durable \subseteq Durable' /\ tombs' = tombs /\ \A d \in Durable' \ Durable : d.id \notin tombs
  \/ Durable' = Durable /\ tombs \subseteq tombs'

LEMMA TableStepRefines ==
  ASSUME TableStep
  PROVE  [Table!Next]_<<{d \in Durable : d.id \notin tombs}, {d \in Durable : d.id \in tombs}>>
<1>1. CASE Durable' = Durable /\ tombs' = tombs
  BY <1>1
<1>2. CASE Durable \subseteq Durable' /\ tombs' = tombs /\ \A d \in Durable' \ Durable : d.id \notin tombs
  BY <1>2 DEF Table!Next, Table!Commit
<1>3. CASE Durable' = Durable /\ tombs \subseteq tombs'
  BY <1>3 DEF Table!Next, Table!Delete
<1> QED BY <1>1, <1>2, <1>3 DEF TableStep

\* The steps of a handle that touch neither files nor tombstones, and no name.
LEMMA QuietStep ==
  ASSUME TypeOK, DurableInv, UNCHANGED <<files, tombs, compWal>>,
         DOMAIN manifest' = DOMAIN manifest,
         flushWal' = flushWal \/ (flushWal' = {} /\ {r.seg : r \in flushWal} \cap DOMAIN files \subseteq DOMAIN manifest),
         pc' \notin Compacted \cup {"merge", "commit_manifest"}, BeingWritten' = {},
         pc' \in Reopening \/ (pc \notin Reopening /\ nextId' = nextId /\ BeingWritten = {})
  PROVE  DurableInv' /\ TableStep
<1>1. Durable' = Durable
  BY DurableKept
<1>2. FlushName(manifest') = FlushName(manifest) /\ Consecutive'
  BY ConsecutiveNames DEF DurableInv
<1>3. \A r \in flushWal' : r.seg \in DOMAIN manifest' \cup {FlushName(manifest')}
  BY <1>2 DEF DurableInv
<1>4. \A id \in tombs' : \E d \in Durable' : id <= d.id
  BY <1>1 DEF DurableInv
<1>5. pc' \notin Reopening => nextId' = 0 \/ \E d \in Durable' \cup BeingWritten' : d.id + 1 = nextId'
  BY <1>1 DEF DurableInv
<1>6. compWal' = {}
  BY DEF DurableInv
<1> QED BY <1>1, <1>2, <1>3, <1>4, <1>5, <1>6 DEF DurableInv, TableStep

\* A call of add_documents comes when nothing is on its way, so its ids are above every
\* durable one, and so above every tombstone.
LEMMA DurableAdd ==
  ASSUME TypeOK, LogInv, IdInv, DurableInv, NEW k \in BatchSizes, AddDocuments(k)
  PROVE  DurableInv' /\ TableStep
<1>1. /\ pc = "idle" /\ pc' = "write_segment" /\ nextId' = nextId + k
      /\ batch' = {[id |-> nextId + i, uid |-> nextUid + i] : i \in 0..(k - 1)}
      /\ UNCHANGED <<files, manifest, flushWal, compWal, tombs>>
  BY DEF AddDocuments, disk
<1>2. k \in Nat \ {0} /\ nextId \in Nat /\ tombs \subseteq Nat /\ \A d \in Durable : d.id \in Nat
  BY DurableTypes, BoundsAssumption
<1>3. Durable' = Durable
  BY <1>1, DurableKept
<1>4. \A d \in Durable : d.id < nextId
  BY <1>1 DEF IdInv, LogInv, Reopening, Reached, Named, Durable, InFiles
<1>5. \A id \in tombs : id < nextId
  <2> SUFFICES ASSUME NEW id \in tombs PROVE id < nextId
    OBVIOUS
  <2>1. PICK d \in Durable : id <= d.id
    BY DEF DurableInv
  <2> QED BY <1>2, <1>4, <2>1
<1>6. BeingWritten' = batch'
  BY <1>1 DEF BeingWritten
<1>7. \A d \in BeingWritten', id \in tombs' : id < d.id
  <2>1. \A d \in batch' : d.id \in Nat /\ nextId <= d.id
    BY <1>1, <1>2
  <2> QED BY <1>1, <1>2, <1>5, <1>6, <2>1
<1>8. \E d \in BeingWritten' : d.id + 1 = nextId'
  <2>1. [id |-> nextId + (k - 1), uid |-> nextUid + (k - 1)] \in batch'
    BY <1>1, <1>2
  <2> QED BY <1>1, <1>2, <1>6, <2>1
<1>9. FlushName(manifest') = FlushName(manifest) /\ Consecutive'
  BY <1>1, ConsecutiveNames DEF DurableInv
<1>10. /\ \A r \in flushWal' : r.seg \in DOMAIN manifest' \cup {FlushName(manifest')}
       /\ \A id \in tombs' : \E d \in Durable' : id <= d.id
  BY <1>1, <1>3, <1>9 DEF DurableInv
<1>11. pc' \notin Compacted \cup {"merge"} /\ compWal' = {}
  BY <1>1 DEF DurableInv, Compacted
<1> QED BY <1>1, <1>3, <1>7, <1>8, <1>9, <1>10, <1>11 DEF DurableInv, TableStep

\* The segment is written under a name that no record and no manifest has.
LEMMA DurableWrite ==
  ASSUME TypeOK, LogInv, DurableInv, WriteSegment
  PROVE  DurableInv' /\ TableStep
<1>1. /\ pc = "write_segment" /\ pc' = "append_flush"
      /\ files' = Put(files, FlushName(manifest), batch)
      /\ UNCHANGED <<manifest, flushWal, compWal, tombs, nextId, batch>>
  BY DEF WriteSegment
<1>2. flushWal = {} /\ FlushName(manifest) \notin DOMAIN manifest
  BY <1>1, ConsecutiveNames DEF LogInv, DurableInv
<1>3. \A s : /\ s \in DOMAIN files' <=> s \in DOMAIN files \cup {FlushName(manifest)}
             /\ s \in DOMAIN files /\ s # FlushName(manifest) => files'[s] = files[s]
  BY <1>1 DEF Put
<1>4. \A d : d \in Durable' <=> d \in Durable
  BY <1>1, <1>2, <1>3, DurableIs
<1>5. Durable' = Durable
  BY <1>4
<1>6. BeingWritten' = BeingWritten
  BY <1>1 DEF BeingWritten
<1>7. FlushName(manifest') = FlushName(manifest) /\ Consecutive'
  BY <1>1, ConsecutiveNames DEF DurableInv
<1>8. pc' \notin Compacted \cup {"merge"}
  BY <1>1 DEF Compacted
<1>9. pc \notin Reopening
  BY <1>1 DEF Reopening
<1> QED BY <1>1, <1>2, <1>5, <1>6, <1>7, <1>8, <1>9 DEF DurableInv, TableStep

\* The documents become durable when the log names their segment.
LEMMA DurableLog ==
  ASSUME TypeOK, LogInv, DurableInv, AppendFlush
  PROVE  DurableInv' /\ TableStep
<1>1. /\ pc = "append_flush" /\ pc' = "commit_manifest"
      /\ \E r : r.seg = FlushName(manifest) /\ flushWal' = flushWal \cup {r}
      /\ UNCHANGED <<files, manifest, compWal, tombs, nextId, batch>>
  BY DEF AppendFlush
<1>2. /\ FlushName(manifest) \in DOMAIN files /\ files[FlushName(manifest)] = batch
      /\ flushWal = {}
  BY <1>1 DEF LogInv
<1>3. \A d : d \in Durable' <=> d \in Durable \cup batch
  <2>1. {r.seg : r \in flushWal'} = {FlushName(manifest)}
    BY <1>1, <1>2
  <2> QED BY <1>1, <1>2, <2>1, DurableIs
<1>4. BeingWritten = batch /\ BeingWritten' = {}
  BY <1>1 DEF BeingWritten
<1>5. \A d \in batch : d.id \notin tombs
  BY <1>4, DurableTypes DEF DurableInv
<1>6. FlushName(manifest') = FlushName(manifest) /\ Consecutive'
  BY <1>1, ConsecutiveNames DEF DurableInv
<1>7. TableStep
  BY <1>1, <1>3, <1>5 DEF TableStep
<1>8. \A r \in flushWal' : r.seg \in DOMAIN manifest' \cup {FlushName(manifest')}
  BY <1>1, <1>2, <1>6
<1>9. \A id \in tombs' : \E d \in Durable' : id <= d.id
  BY <1>1, <1>3 DEF DurableInv
<1>10. nextId' = 0 \/ \E d \in Durable' \cup BeingWritten' : d.id + 1 = nextId'
  <2>1. pc \notin Reopening
    BY <1>1 DEF Reopening
  <2> QED BY <1>1, <1>3, <1>4, <2>1 DEF DurableInv
<1>11. pc' \notin Compacted \cup {"merge"} /\ compWal' = {}
  BY <1>1 DEF DurableInv, Compacted
<1>12. \E r \in flushWal' : r.seg = FlushName(manifest')
  BY <1>1, <1>6
<1> QED BY <1>4, <1>6, <1>7, <1>8, <1>9, <1>10, <1>11, <1>12 DEF DurableInv

\* The manifest takes the one name the log has besides its own: committing a flush,
\* and replaying one.
LEMMA DurableCommit ==
  ASSUME TypeOK, DurableInv, UNCHANGED <<files, flushWal, compWal, tombs, nextId>>,
         \A r \in flushWal : r.seg \in DOMAIN files => r.seg \in DOMAIN manifest',
         \/ DOMAIN manifest' = DOMAIN manifest
         \/ /\ DOMAIN manifest' = DOMAIN manifest \cup {FlushName(manifest)}
            /\ FlushName(manifest) \in DOMAIN files => \E r \in flushWal : r.seg = FlushName(manifest),
         {r.seg : r \in flushWal} \subseteq DOMAIN manifest',
         pc' \notin Compacted \cup {"merge", "commit_manifest"},
         BeingWritten = {}, BeingWritten' = {},
         pc' \in Reopening \/ pc \notin Reopening
  PROVE  DurableInv' /\ TableStep
<1>1. Durable' = Durable
  BY DurableKept
<1>2. Consecutive'
  BY ConsecutiveNames DEF DurableInv
<1>3. \A r \in flushWal' : r.seg \in DOMAIN manifest'
  OBVIOUS
<1> QED BY <1>1, <1>2, <1>3 DEF DurableInv, TableStep

\* A DELETE of an assigned id stays at or below the largest durable one.
LEMMA DurableDelete ==
  ASSUME DeleteAhead = 0, TypeOK, DurableInv, NEW id \in DeletableIds, DeleteById(id)
  PROVE  DurableInv' /\ TableStep
<1>1. /\ pc = "idle" /\ pc' = "idle" /\ id < nextId + DeleteAhead /\ tombs' = tombs \cup {id}
      /\ UNCHANGED <<files, manifest, flushWal, compWal, nextId, batch>>
  BY DEF DeleteById
<1>2. id \in Nat /\ nextId \in Nat /\ \A d \in Durable : d.id \in Nat
  BY DurableTypes, BoundsAssumption
<1>3. Durable' = Durable
  BY <1>1, DurableKept
<1>4. BeingWritten = {} /\ BeingWritten' = {}
  BY <1>1 DEF BeingWritten
<1>5. \E d \in Durable : d.id + 1 = nextId
  BY <1>1, <1>2, <1>4 DEF DurableInv, Reopening
<1>6. \A i \in tombs' : \E d \in Durable' : i <= d.id
  <2>1. \E d \in Durable : id <= d.id
    BY <1>1, <1>2, <1>5
  <2> QED BY <1>1, <1>3, <2>1 DEF DurableInv
<1>7. FlushName(manifest') = FlushName(manifest) /\ Consecutive'
  BY <1>1, ConsecutiveNames DEF DurableInv
<1> QED BY <1>1, <1>3, <1>4, <1>5, <1>6, <1>7 DEF DurableInv, TableStep, Compacted

\* An open loads what is durable, and takes the next id from it.
LEMMA DurableLoad ==
  ASSUME TypeOK, LogInv, IdInv, DurableInv, LoadTable
  PROVE  DurableInv' /\ TableStep
<1>1. /\ mem' = InFiles(files, DOMAIN manifest') /\ UNCHANGED <<files, flushWal, tombs>>
      /\ pc = "replay_compaction" /\ pc' = "idle"
      /\ nextId' = IF mem' = {} THEN 0 ELSE MaxOf(Ids(mem')) + 1
      /\ manifest' = CompactionReplayed(manifest, files) /\ compWal' \subseteq compWal
  BY DEF LoadTable, ReplayCompactionWal
<1>2. flushWal = {} /\ compWal = {}
  BY <1>1 DEF LogInv, DurableInv
<1>3. DOMAIN manifest' = DOMAIN manifest
  BY <1>1, <1>2, CompactionReplayedNames
<1>4. Durable' = Durable
  BY <1>1, <1>3, DurableKept
<1>5. mem' = Durable
  BY <1>1, <1>2, <1>3 DEF Durable
<1>6. nextId' = 0 \/ \E d \in Durable : d.id + 1 = nextId'
  <2>1. CASE mem' = {}
    BY <1>1, <2>1
  <2>2. CASE mem' # {}
    <3>1. Durable \subseteq Rows
      BY RowsAre DEF Durable, InFiles
    <3>2. Ids(mem') \subseteq Nat /\ Ids(mem') # {} /\ \A i \in Ids(mem') : i < nextUid
      BY <1>5, <2>2, <3>1, DurableTypes, IdsAreNat DEF Ids, IdInv
    <3>3. MaxOf(Ids(mem')) \in Ids(mem')
      BY <3>2, MaxOfBounded DEF TypeOK
    <3> QED BY <1>1, <1>5, <2>2, <3>3 DEF Ids
  <2> QED BY <2>1, <2>2
<1>7. FlushName(manifest') = FlushName(manifest) /\ Consecutive'
  BY <1>3, ConsecutiveNames DEF DurableInv
<1>8. BeingWritten' = {} /\ pc' \notin Compacted \cup {"merge"}
  BY <1>1 DEF BeingWritten, Compacted
<1> QED BY <1>1, <1>2, <1>4, <1>6, <1>7, <1>8 DEF DurableInv, TableStep

\* Every step but those of a merge.
LEMMA DurableStep ==
  ASSUME DeleteAhead = 0, TypeOK, LogInv, IdInv, DurableInv, [Next]_vars, pc' # "merge"
  PROVE  DurableInv' /\ TableStep
<1> USE DEF Compacted, Reopening, BeingWritten
<1>1. ASSUME \E t \in SizeTiers : CommitManifest(t) PROVE DurableInv' /\ TableStep
  <2>1. /\ pc = "commit_manifest" /\ pc' = "checkpoint"
        /\ DOMAIN manifest' = DOMAIN manifest \cup {FlushName(manifest)}
        /\ UNCHANGED <<files, flushWal, compWal, tombs, nextId>>
    BY <1>1 DEF CommitManifest, PushSegmentMeta, Put
  <2>2. /\ \A r \in flushWal : r.seg = FlushName(manifest)
        /\ \E r \in flushWal : r.seg = FlushName(manifest)
    BY <2>1 DEF LogInv, DurableInv
  <2>3. {r.seg : r \in flushWal} \subseteq DOMAIN manifest'
    BY <2>1, <2>2
  <2> QED BY <2>1, <2>2, <2>3, DurableCommit
<1>2. ASSUME CheckpointFlush PROVE DurableInv' /\ TableStep
  <2>1. /\ pc = "checkpoint" /\ pc' \in {"idle", "maybe_compact"}
        /\ flushWal' = Checkpointed(flushWal, manifest, files)
        /\ UNCHANGED <<files, manifest, compWal, tombs, nextId>>
    BY <1>2 DEF CheckpointFlush
  <2>2. flushWal' = {} /\ {r.seg : r \in flushWal} \subseteq DOMAIN manifest
    BY <2>1 DEF Checkpointed, LogInv
  <2> QED BY <2>1, <2>2, QuietStep
<1>3. ASSUME NEW mode, StartCompaction(mode), pc \in {"idle", "maybe_compact"}
      PROVE  DurableInv' /\ TableStep
  <2>1. /\ manifest' = CompactionReplayed(manifest, files) /\ compWal' \subseteq compWal
        /\ pc' = "idle" /\ UNCHANGED <<files, flushWal, tombs, nextId>>
    BY <1>3 DEF StartCompaction, ReplayCompactionWal
  <2>2. compWal = {} /\ compWal' = {}
    BY <2>1 DEF DurableInv
  <2>3. DOMAIN manifest' = DOMAIN manifest
    BY <2>1, <2>2, CompactionReplayedNames
  <2> QED BY <1>3, <2>1, <2>2, <2>3, QuietStep
<1>4. ASSUME Crash PROVE DurableInv' /\ TableStep
  BY <1>4, QuietStep DEF Crash, disk
<1>5. ASSUME ReplayFlushWal PROVE DurableInv' /\ TableStep
  <2>1. /\ pc = "down" /\ pc' = "replay_checkpoint"
        /\ DOMAIN manifest' = DOMAIN manifest \cup ({r.seg : r \in flushWal} \cap DOMAIN files)
        /\ UNCHANGED <<files, flushWal, compWal, tombs, nextId>>
    BY <1>5 DEF ReplayFlushWal, PushSegments
  <2>2. \A r \in flushWal : r.seg \in DOMAIN files
    BY <2>1 DEF LogInv
  <2>3. {r.seg : r \in flushWal} \subseteq DOMAIN manifest'
    BY <2>1, <2>2
  <2>4. \A r \in flushWal : r.seg \in DOMAIN manifest \cup {FlushName(manifest)}
    BY DEF DurableInv
  <2>5. \/ DOMAIN manifest' = DOMAIN manifest
        \/ /\ DOMAIN manifest' = DOMAIN manifest \cup {FlushName(manifest)}
           /\ \E r \in flushWal : r.seg = FlushName(manifest)
    BY <2>1, <2>2, <2>4
  <2> QED BY <2>1, <2>3, <2>5, DurableCommit
<1>6. ASSUME ReplayCheckpoint PROVE DurableInv' /\ TableStep
  <2>1. /\ pc = "replay_checkpoint" /\ pc' = "replay_compaction"
        /\ flushWal' = Checkpointed(flushWal, manifest, files)
        /\ UNCHANGED <<files, manifest, compWal, tombs, nextId>>
    BY <1>6 DEF ReplayCheckpoint
  <2>2. flushWal' = {} /\ {r.seg : r \in flushWal} \subseteq DOMAIN manifest
    BY <2>1 DEF Checkpointed, LogInv
  <2> QED BY <2>1, <2>2, QuietStep
<1>7. ASSUME UNCHANGED vars PROVE DurableInv' /\ TableStep
  <2>1. UNCHANGED <<files, manifest, flushWal, compWal, tombs, nextId, pc, batch>>
    BY <1>7 DEF vars, disk
  <2>2. Durable' = Durable /\ FlushName(manifest') = FlushName(manifest) /\ Consecutive'
    BY <2>1, DurableKept, ConsecutiveNames DEF DurableInv
  <2> QED BY <2>1, <2>2 DEF DurableInv, TableStep
\* The steps of a merge cannot come: its places are not reached.
<1>8. ASSUME \/ \E g \in plan : OpenGroup(g) \/ MissingSource(g)
             \/ \E s \in DOMAIN files : ConsumeSource(s)
             \/ \E t \in SizeTiers : CloseGroup(t)
             \/ SaveCompactedManifest \/ DropTombstones \/ RewriteTombstones
             \/ AppendCompaction \/ TrimWals \/ RebuildIdRanges
      PROVE  FALSE
  BY <1>8 DEF DurableInv, OpenGroup, MissingSource, ConsumeSource, CloseGroup, SaveCompactedManifest,
              DropTombstones, RewriteTombstones, AppendCompaction, TrimWals, RebuildIdRanges
<1>9. ASSUME Call PROVE DurableInv' /\ TableStep
  BY <1>3, <1>9, DurableAdd, DurableDelete DEF Call, CompactTable
<1>10. ASSUME Flush PROVE DurableInv' /\ TableStep
  BY <1>1, <1>2, <1>10, DurableWrite, DurableLog DEF Flush
<1>11. ASSUME Compaction PROVE DurableInv' /\ TableStep
  BY <1>3, <1>8, <1>11 DEF Compaction, MaybeCompactAfterFlush
<1>12. ASSUME Reopen PROVE DurableInv' /\ TableStep
  BY <1>5, <1>6, <1>12, DurableLoad DEF Reopen
<1> QED BY <1>4, <1>7, <1>9, <1>10, <1>11, <1>12 DEF Next, Proceed

\* As long as no merge runs, a table is the durable table: for every workload of
\* batches, deletions of assigned ids, compactions that find nothing to merge, crashes
\* at any write and opens, documents come only by ingest and go only by DELETE, and a
\* deleted one never comes back.
\* (flush_batch_with_opts, replay_flush_wal, load_table, add_tombstones)
THEOREM DurableWithoutMerges ==
  ASSUME DeleteAhead = 0
  PROVE  Spec /\ [](pc # "merge") => ImplementsDurableTable
<1> DEFINE Inv == TypeOK /\ LogInv /\ MergeInv /\ FreshInv
<1>1. Init => DurableInv
  BY FS_EmptySet DEF Init, DurableInv, Consecutive, BeingWritten, NoSegments, Compacted
<1>2. Init => Table!Init
  BY DEF Init, Table!Init, Durable, InFiles, NoFiles
<1>3. Inv /\ DurableInv /\ [Next]_vars /\ (pc # "merge")' =>
        DurableInv' /\ [Table!Next]_<<{d \in Durable : d.id \notin tombs}, {d \in Durable : d.id \in tombs}>>
  BY DurableStep, TableStepRefines DEF FreshInv
<1>4. Spec => []Inv
  BY FreshHolds
<1> QED BY <1>1, <1>2, <1>3, <1>4, PTL DEF Spec, ImplementsDurableTable, Table!Spec

-----------------------------------------------------------------------------
(* Without crashes: ranges cover rows, and every segment has its file *)

\* max() of a finite set of numbers is above them all.
LEMMA MaxOfFinite ==
  ASSUME NEW T, T \subseteq Nat, IsFiniteSet(T)
  PROVE  MaxOf(T) \in Nat /\ \A x \in T : x <= MaxOf(T)
<1> DEFINE Bounded(S) == \E b \in Nat : \A x \in S : x < b
           Bad == {n \in Nat : \E S \in SUBSET Nat : IsFiniteSet(S) /\ Cardinality(S) = n /\ ~Bounded(S)}
<1>1. Bad = {}
  <2> SUFFICES ASSUME Bad # {} PROVE FALSE
    OBVIOUS
  <2>1. PICK n \in Bad : \A m \in Bad : n <= m
    BY LeastExists
  <2>2. PICK S \in SUBSET Nat : IsFiniteSet(S) /\ Cardinality(S) = n /\ ~Bounded(S)
    OBVIOUS
  <2>3. PICK x \in S : TRUE
    BY <2>2
  <2>4. IsFiniteSet(S \ {x}) /\ Cardinality(S \ {x}) = n - 1 /\ Cardinality(S \ {x}) \in Nat
    BY <2>2, FS_RemoveElement, FS_CardinalityType
  <2>5. Bounded(S \ {x})
    <3> HIDE DEF Bounded
    <3> SUFFICES ASSUME ~Bounded(S \ {x}) PROVE FALSE
      OBVIOUS
    <3>1. Cardinality(S \ {x}) \in Bad
      BY <2>4
    <3>2. n <= n - 1
      BY <2>1, <2>4, <3>1
    <3> QED BY <3>2
  <2>6. PICK b \in Nat : \A y \in S \ {x} : y < b
    BY <2>5
  <2>7. \A y \in S : y < b + x + 1
    BY <2>6
  <2>8. b + x + 1 \in Nat
    OBVIOUS
  <2> QED BY <2>2, <2>7, <2>8
<1>2. Cardinality(T) \in Nat
  BY FS_CardinalityType
<1>3. PICK b \in Nat : \A x \in T : x < b
  BY <1>1, <1>2
<1>4. CASE T = {}
  BY <1>4, BoundsAreNat
<1>5. CASE T # {}
  BY <1>3, <1>5, MaxOfBounded
<1> QED BY <1>4, <1>5

\* min() of a set of numbers that is not empty is below them all.
LEMMA MinOfLeast ==
  ASSUME NEW T, T \subseteq Nat
  PROVE  \A x \in T : MinOf(T) <= x
<1> SUFFICES ASSUME NEW x \in T PROVE MinOf(T) <= x
  OBVIOUS
<1>1. \E y \in T : \A z \in T : y <= z
  BY LeastExists
<1> QED BY <1>1 DEF MinOf

\* The range a segment is given covers the rows it is taken from.
LEMMA RangeCovers ==
  ASSUME NEW D, D \subseteq Docs, NEW b \in Nat, \A d \in D : d.id < b
  PROVE  \A d \in D : MinOf(Ids(D)) <= d.id /\ d.id <= MaxOf(Ids(D))
<1> SUFFICES ASSUME NEW d \in D PROVE MinOf(Ids(D)) <= d.id /\ d.id <= MaxOf(Ids(D))
  OBVIOUS
<1>1. Ids(D) \subseteq Nat /\ d.id \in Ids(D) /\ \A i \in Ids(D) : i < b
  BY IdsAreNat DEF Ids
<1> QED BY <1>1, MinOfLeast, MaxOfBounded

\* The groups of one compaction share no segment.
LEMMA MergeGroupsDisjoint ==
  ASSUME NEW m, NEW mode \in Modes, NEW g \in MergeGroups(m, mode), NEW h \in MergeGroups(m, mode), g # h
  PROVE  g.segments \cap h.segments = {}
<1>1. g \in TierGroups(m) /\ h \in TierGroups(m)
  BY DEF MergeGroups, Modes
<1>2. PICK t \in Tiers : \E c \in FullChunks(m, AtTier(m, t), Threshold) :
        g = [segments |-> c, tier |-> OutputTier(t)]
  BY <1>1 DEF TierGroups
<1>3. PICK c \in FullChunks(m, AtTier(m, t), Threshold) : g = [segments |-> c, tier |-> OutputTier(t)]
  BY <1>2
<1>4. PICK u \in Tiers : \E c2 \in FullChunks(m, AtTier(m, u), Threshold) :
        h = [segments |-> c2, tier |-> OutputTier(u)]
  BY <1>1 DEF TierGroups
<1>5. PICK e \in FullChunks(m, AtTier(m, u), Threshold) : h = [segments |-> e, tier |-> OutputTier(u)]
  BY <1>4
<1>6. PICK j : c = {s \in AtTier(m, t) : Rank(m, AtTier(m, t), s) \div Threshold = j}
  BY <1>3 DEF FullChunks
<1>7. PICK k : e = {s \in AtTier(m, u) : Rank(m, AtTier(m, u), s) \div Threshold = k}
  BY <1>5 DEF FullChunks
<1> SUFFICES ASSUME NEW s, s \in g.segments, s \in h.segments PROVE FALSE
  OBVIOUS
<1>8. s \in c /\ s \in e
  BY <1>3, <1>5
<1>9. t = u
  BY <1>6, <1>7, <1>8 DEF AtTier
<1>10. j = k
  BY <1>6, <1>7, <1>8, <1>9
<1> QED BY <1>3, <1>5, <1>6, <1>7, <1>9, <1>10

\* No group is the empty one: the tier of an output is not the lowest.
LEMMA MergeGroupsAreGroups ==
  ASSUME NEW m, IsManifest(m), NEW mode \in Modes
  PROVE  NoGroup \notin MergeGroups(m, mode)
<1> SUFFICES ASSUME NEW g \in MergeGroups(m, mode) PROVE g.tier # 0
  BY DEF NoGroup
<1>1. ASSUME NEW t \in Tiers PROVE OutputTier(t) # 0
  BY DEF OutputTier, Tiers
<1>2. ASSUME g \in TierGroups(m) PROVE g.tier # 0
  BY <1>1, <1>2 DEF TierGroups
<1>3. ASSUME g = OldestGroup(m) PROVE g.tier # 0
  <2>1. \A s \in DOMAIN m : m[s].tier \in Tiers
    BY DEF IsManifest, Meta
  <2>2. PICK S : S \subseteq Tiers /\ g.tier = OutputTier(MaxOf(S))
    BY <1>3, <2>1 DEF OldestGroup
  <2>3. MaxOf(S) \in Tiers
    <3>1. MaxOf(S) \in S \cup {0}
      BY MaxOfMember
    <3>2. 0 \in Tiers
      BY DEF Tiers
    <3> QED BY <2>2, <3>1, <3>2
  <2> QED BY <1>1, <2>2, <2>3
<1> QED BY <1>2, <1>3 DEF MergeGroups, Modes

\* With an empty log a replay changes no name and no range.
LEMMA NothingReplayed ==
  ASSUME TypeOK, compWal = {}
  PROVE  /\ DOMAIN CompactionReplayed(manifest, files) = DOMAIN manifest
         /\ \A s \in DOMAIN manifest :
              /\ CompactionReplayed(manifest, files)[s].lo = manifest[s].lo
              /\ CompactionReplayed(manifest, files)[s].hi = manifest[s].hi
<1> DEFINE here == PushSegments(RemoveSegments(manifest, {}), {})
           Of(s) == IF here[s].tier = 0
                    THEN [here[s] EXCEPT !.tier = MaxOf({a[2] : a \in {b \in {} : b[1] = s}})] ELSE here[s]
<1>1. UNION {r.removed : r \in compWal} = {} /\ UNION {r.added : r \in compWal} = {}
  OBVIOUS
<1>2. DOMAIN CompactionReplayed(manifest, files) = DOMAIN manifest
  BY <1>1, CompactionReplayedNames
<1>3. DOMAIN here = DOMAIN manifest /\ \A s \in DOMAIN manifest : here[s] = manifest[s]
  BY DEF PushSegments, RemoveSegments, Without
<1> SUFFICES ASSUME NEW s \in DOMAIN manifest
             PROVE  /\ CompactionReplayed(manifest, files)[s].lo = manifest[s].lo
                    /\ CompactionReplayed(manifest, files)[s].hi = manifest[s].hi
  BY <1>2
<1>4. \E t : CompactionReplayed(manifest, files)[s] = here[s]
           \/ CompactionReplayed(manifest, files)[s] = [here[s] EXCEPT !.tier = t]
  BY <1>1, <1>3 DEF CompactionReplayed
<1>5. manifest[s] \in Meta
  BY DEF TypeOK, IsManifest
<1> QED BY <1>3, <1>4, <1>5 DEF Meta

LEMMA CoverStart == Init => CoverInv
BY DEF Init, CoverInv, Reopening, CoversRows, NoSegments, NoFiles, Flushing

\* The manifest, the files and the place of a handle outside flushes and merges.
LEMMA CoverQuiet ==
  ASSUME TypeOK, CoverInv, pc \notin Flushing \cup {"merge"}, pc' \notin Reopening \cup {"commit_manifest", "merge"},
         files' = files, DOMAIN manifest' = DOMAIN manifest,
         \A s \in DOMAIN manifest : manifest'[s].lo = manifest[s].lo /\ manifest'[s].hi = manifest[s].hi,
         wm' = wm \/ wm' = NoSegments, plan' = {}, compWal' = {} \/ pc' = "trim"
  PROVE  CoverInv'
<1>1. CoversRows(wm)'
  BY DEF CoverInv, CoversRows, NoSegments
<1> QED BY <1>1 DEF CoverInv

\* A compaction starts with what the manifest says.
LEMMA CoverPlan ==
  ASSUME TypeOK, CoverInv, NEW mode \in Modes, StartCompaction(mode), pc \in {"idle", "maybe_compact"},
         group = NoGroup
  PROVE  CoverInv'
<1>1. /\ manifest' = CompactionReplayed(manifest, files) /\ compWal' \subseteq compWal
      /\ plan' = MergeGroups(manifest', mode)
      /\ pc' = IF plan' = {} THEN "idle" ELSE "merge"
      /\ wm' = IF plan' = {} THEN NoSegments ELSE manifest'
      /\ UNCHANGED <<files, group>>
  BY DEF StartCompaction, ReplayCompactionWal
<1>2. compWal = {} /\ compWal' = {}
  BY <1>1 DEF CoverInv
<1>3. /\ DOMAIN manifest' = DOMAIN manifest
      /\ \A s \in DOMAIN manifest : manifest'[s].lo = manifest[s].lo /\ manifest'[s].hi = manifest[s].hi
  BY <1>1, <1>2, NothingReplayed
<1>4. CASE plan' = {}
  BY <1>1, <1>2, <1>3, <1>4, CoverQuiet DEF Flushing, Reopening
<1>5. CASE plan' # {}
  <2>1. pc' = "merge" /\ wm' = manifest'
    BY <1>1, <1>5
  <2>2. DOMAIN manifest' \subseteq Nat /\ IsFiniteSet(DOMAIN manifest')
    BY <1>3 DEF TypeOK, IsManifest
  <2>3. \A s \in DOMAIN manifest' : s <= MaxOf(DOMAIN wm')
    BY <2>1, <2>2, MaxOfFinite
  <2>4. /\ \A g \in plan' : g # NoGroup /\ g.segments \subseteq DOMAIN wm'
        /\ \A g, h \in plan' : g # h => g.segments \cap h.segments = {}
    <3>1. IsManifest(manifest')
      BY <1>1, CompactionReplayedType
    <3> QED BY <1>1, <2>1, <3>1, MergeGroupsWithin, MergeGroupsDisjoint, MergeGroupsAreGroups
  <2>5. \A s \in DOMAIN manifest' \cap DOMAIN files' : \A d \in files'[s] :
          manifest'[s].lo <= d.id /\ d.id <= manifest'[s].hi
    BY <1>1, <1>3 DEF CoverInv, Flushing
  <2>6. group'.segments = {}
    BY <1>1 DEF NoGroup
  <2>7. DOMAIN manifest' \subseteq DOMAIN files'
    BY <1>1, <1>3 DEF CoverInv
  <2> QED BY <1>2, <2>1, <2>3, <2>4, <2>5, <2>6, <2>7 DEF CoverInv, CoversRows, Reopening
<1> QED BY <1>4, <1>5

\* The output file is created under a name above all others, so it is in nobody's way.
LEMMA CoverOpen ==
  ASSUME TypeOK, CoverInv, NEW g \in plan, OpenGroup(g)
  PROVE  CoverInv'
<1>1. /\ pc = "merge" /\ group' = g /\ plan' = plan \ {g} /\ files' = Without(files, {NextSegmentName(wm)})
      /\ UNCHANGED <<manifest, compWal, pc, batch, wm>>
  BY DEF OpenGroup
<1>2. NextSegmentName(wm) \notin DOMAIN wm
  <2>1. DOMAIN wm \subseteq Nat /\ IsFiniteSet(DOMAIN wm)
    BY DEF TypeOK, IsManifest
  <2>2. MaxOf(DOMAIN wm) \in Nat /\ \A s \in DOMAIN wm : s <= MaxOf(DOMAIN wm)
    BY <2>1, MaxOfFinite
  <2> QED BY <2>1, <2>2 DEF NextSegmentName
<1>3. /\ DOMAIN files' = DOMAIN files \ {NextSegmentName(wm)}
      /\ \A s \in DOMAIN files' : files'[s] = files[s]
  BY <1>1 DEF Without
<1>4. \A s \in DOMAIN wm \ g.segments : s \in DOMAIN files'
  <2>1. group.segments = {}
    BY DEF OpenGroup, NoGroup
  <2>2. DOMAIN wm \subseteq DOMAIN files
    BY <1>1, <2>1 DEF CoverInv
  <2> QED BY <1>2, <1>3, <2>2
<1>5. CoversRows(wm)'
  BY <1>1, <1>3 DEF CoverInv, CoversRows
<1>6. \A h \in plan' : h # NoGroup /\ h.segments \subseteq DOMAIN wm' /\ h.segments \cap group'.segments = {}
  BY <1>1 DEF CoverInv
<1>7. \A s \in DOMAIN manifest' \cap DOMAIN files' : \A d \in files'[s] :
        manifest'[s].lo <= d.id /\ d.id <= manifest'[s].hi
  BY <1>1, <1>3 DEF CoverInv, Flushing
<1> QED BY <1>1, <1>4, <1>5, <1>6, <1>7 DEF CoverInv, Reopening

LEMMA CoverConsume ==
  ASSUME CoverInv, NEW s \in DOMAIN files, ConsumeSource(s)
  PROVE  CoverInv'
<1>1. /\ pc = "merge" /\ s \in group.segments /\ files' = Without(files, {s})
      /\ UNCHANGED <<manifest, compWal, pc, batch, wm, plan, group>>
  BY DEF ConsumeSource, Sources
<1>2. DOMAIN files' = DOMAIN files \ {s} /\ \A n \in DOMAIN files' : files'[n] = files[n]
  BY <1>1 DEF Without
<1> QED BY <1>1, <1>2 DEF CoverInv, CoversRows, Reopening, Flushing

\* The output takes the place of its sources, with a range taken from its rows.
LEMMA CoverClose ==
  ASSUME TypeOK, GroupInv, IdInv, CoverInv, NEW t \in SizeTiers, CloseGroup(t)
  PROVE  CoverInv'
<1> DEFINE new == NextSegmentName(wm)
<1>1. PICK meta : /\ pc = "merge" /\ files' = Put(Without(files, group.segments), new, buf)
                  /\ wm' = PushSegmentMeta(RemoveSegments(wm, group.segments), new, meta)
                  /\ meta.lo = MinOf(Ids(buf)) /\ meta.hi = MaxOf(Ids(buf))
                  /\ group' = NoGroup /\ UNCHANGED <<manifest, compWal, pc, batch, plan>>
  BY DEF CloseGroup
<1>2. DOMAIN wm \subseteq Nat /\ IsFiniteSet(DOMAIN wm) /\ MaxOf(DOMAIN wm) \in Nat /\ new = MaxOf(DOMAIN wm) + 1
      /\ \A s \in DOMAIN wm : s <= MaxOf(DOMAIN wm)
  BY MaxOfFinite DEF TypeOK, IsManifest, NextSegmentName
<1> HIDE DEF new
<1>3. /\ DOMAIN wm' = (DOMAIN wm \ group.segments) \cup {new}
      /\ wm'[new] = meta /\ \A s \in DOMAIN wm' : s # new => wm'[s] = wm[s]
      /\ DOMAIN files' = (DOMAIN files \ group.segments) \cup {new}
      /\ files'[new] = buf /\ \A s \in DOMAIN files' : s # new => files'[s] = files[s]
  BY <1>1 DEF PushSegmentMeta, RemoveSegments, Put, Without
<1>4. DOMAIN wm' \subseteq DOMAIN files'
  BY <1>1, <1>3 DEF CoverInv
<1>5. \A d \in buf : meta.lo <= d.id /\ d.id <= meta.hi
  <2>1. buf \subseteq Docs /\ nextUid \in Nat /\ \A d \in buf : d.id < nextUid
    BY RowsAre DEF TypeOK, IdInv
  <2> QED BY <1>1, <2>1, RangeCovers
<1>6. CoversRows(wm)'
  BY <1>3, <1>5 DEF CoverInv, CoversRows
<1>7. \A s \in DOMAIN manifest' : s <= MaxOf(DOMAIN wm') /\ s # new
  <2>1. \A s \in DOMAIN manifest : s \in Nat /\ s <= MaxOf(DOMAIN wm)
    BY <1>1 DEF CoverInv, TypeOK, IsManifest
  <2>2. DOMAIN wm' \subseteq Nat /\ IsFiniteSet(DOMAIN wm')
    <3>1. IsFiniteSet(DOMAIN wm \ group.segments)
      BY <1>2, FS_Subset
    <3>2. IsFiniteSet((DOMAIN wm \ group.segments) \cup {new})
      BY <3>1, FS_AddElement
    <3> QED BY <1>2, <1>3, <3>2
  <2>3. MaxOf(DOMAIN wm') \in Nat /\ new <= MaxOf(DOMAIN wm')
    BY <1>3, <2>2, MaxOfFinite
  <2> QED BY <1>1, <1>2, <2>1, <2>3
<1>8. \A g \in plan' : g # NoGroup /\ g.segments \subseteq DOMAIN wm' /\ g.segments \cap group'.segments = {}
  <2>1. group'.segments = {}
    BY <1>1 DEF NoGroup
  <2> QED BY <1>1, <1>3, <2>1 DEF CoverInv
<1>9. \A s \in DOMAIN manifest' \cap DOMAIN files' : \A d \in files'[s] :
        manifest'[s].lo <= d.id /\ d.id <= manifest'[s].hi
  BY <1>1, <1>3, <1>7 DEF CoverInv, Flushing
<1> QED BY <1>1, <1>4, <1>6, <1>7, <1>8, <1>9 DEF CoverInv, Reopening

LEMMA CoverFlush ==
  ASSUME TypeOK, LogInv, IdInv, MergeInv, GroupInv, CoverInv, Flush
  PROVE  CoverInv'
<1> USE DEF Flushing, Reopening, Compacted
<1>1. pc \in Flushing \cup {"checkpoint"} /\ plan = {} /\ wm = NoSegments /\ compWal = {}
  BY DEF Flush, WriteSegment, AppendFlush, CommitManifest, CheckpointFlush, MergeInv, GroupInv, CoverInv
<1>2. plan' = {} /\ compWal' = {} /\ CoversRows(wm)'
  <2>1. UNCHANGED <<plan, wm, compWal>>
    BY DEF Flush, WriteSegment, AppendFlush, CommitManifest, CheckpointFlush, work
  <2> QED BY <1>1, <2>1 DEF CoversRows, NoSegments
<1>3. ASSUME WriteSegment PROVE CoverInv'
  <2>1. /\ pc' = "append_flush" /\ pc = "write_segment" /\ files' = Put(files, FlushName(manifest), batch)
        /\ UNCHANGED manifest
    BY <1>3 DEF WriteSegment
  <2>2. /\ DOMAIN files' = DOMAIN files \cup {FlushName(manifest)}
        /\ \A s \in DOMAIN files : s # FlushName(manifest) => files'[s] = files[s]
    BY <2>1 DEF Put
  <2>3. \A s \in DOMAIN manifest' \cap DOMAIN files' : \A d \in files'[s] :
          (manifest'[s].lo <= d.id /\ d.id <= manifest'[s].hi) \/ s = FlushName(manifest')
    BY <2>1, <2>2 DEF CoverInv
  <2> QED BY <1>2, <2>1, <2>2, <2>3 DEF CoverInv
<1>4. ASSUME AppendFlush PROVE CoverInv'
  <2>1. /\ pc' = "commit_manifest" /\ pc = "append_flush" /\ UNCHANGED <<manifest, files, batch>>
        /\ files[FlushName(manifest)] = batch
    BY <1>4 DEF AppendFlush, LogInv
  <2> QED BY <1>2, <2>1 DEF CoverInv
<1>5. ASSUME NEW t \in SizeTiers, CommitManifest(t) PROVE CoverInv'
  <2> DEFINE n == FlushName(manifest)
  <2>1. PICK meta : /\ pc = "commit_manifest" /\ pc' = "checkpoint" /\ files' = files
                    /\ manifest' = Put(manifest, n, meta)
                    /\ meta.lo = MinOf(Ids(batch)) /\ meta.hi = MaxOf(Ids(batch))
    BY <1>5 DEF CommitManifest, PushSegmentMeta, FlushSince
  <2>2. n \in DOMAIN files /\ files[n] = batch
    BY <2>1 DEF LogInv, CoverInv
  <2>3. \A d \in batch : meta.lo <= d.id /\ d.id <= meta.hi
    <3>1. batch \subseteq Docs /\ nextUid \in Nat /\ \A d \in batch : d.id < nextUid
      BY RowsAre DEF TypeOK, IdInv
    <3> QED BY <2>1, <3>1, RangeCovers
  <2> HIDE DEF n
  <2>4. /\ DOMAIN manifest' = DOMAIN manifest \cup {n} /\ manifest'[n] = meta
        /\ \A s \in DOMAIN manifest : s # n => manifest'[s] = manifest[s]
    BY <2>1 DEF Put
  <2>5. \A s \in DOMAIN manifest' \cap DOMAIN files' : \A d \in files'[s] :
          manifest'[s].lo <= d.id /\ d.id <= manifest'[s].hi
    BY <2>1, <2>2, <2>3, <2>4 DEF CoverInv, n
  <2>6. DOMAIN manifest' \subseteq DOMAIN files'
    BY <2>1, <2>2, <2>4 DEF CoverInv
  <2> QED BY <1>2, <2>1, <2>5, <2>6 DEF CoverInv
<1>6. ASSUME CheckpointFlush PROVE CoverInv'
  BY <1>1, <1>2, <1>6, CoverQuiet DEF CheckpointFlush, work
<1> QED BY <1>3, <1>4, <1>5, <1>6 DEF Flush

\* The steps of a compaction from the saved manifest to the end.
LEMMA CoverSaved ==
  ASSUME TypeOK, LogInv, IdInv, MergeInv, GroupInv, CoverInv,
         SaveCompactedManifest \/ DropTombstones \/ RewriteTombstones \/ AppendCompaction
         \/ TrimWals \/ RebuildIdRanges
  PROVE  CoverInv'
<1> USE DEF Flushing, Reopening, Compacted
<1>1. ASSUME SaveCompactedManifest PROVE CoverInv'
  <2>1. /\ pc = "merge" /\ group = NoGroup /\ plan = {} /\ manifest' = wm /\ pc' \in Compacted
        /\ UNCHANGED <<files, compWal, wm, plan>>
    BY <1>1 DEF SaveCompactedManifest, work
  <2>2. DOMAIN wm \subseteq DOMAIN files
    BY <2>1 DEF CoverInv, NoGroup
  <2>3. CoversRows(wm)' /\ CoversRows(manifest)'
    BY <2>1 DEF CoverInv, CoversRows
  <2>4. compWal' = {}
    BY <2>1 DEF CoverInv
  <2> QED BY <2>1, <2>2, <2>3, <2>4 DEF CoverInv, CoversRows
<1>2. ASSUME DropTombstones \/ RewriteTombstones \/ AppendCompaction \/ TrimWals PROVE CoverInv'
  <2>1. /\ pc \in Compacted /\ pc' \in Compacted /\ UNCHANGED <<files, manifest, wm, plan>>
        /\ compWal' = {} \/ pc' = "trim" \/ (compWal' = compWal /\ pc # "trim")
    BY <1>2 DEF DropTombstones, RewriteTombstones, AppendCompaction, TrimWals, work
  <2>2. plan = {} /\ (compWal' = {} \/ pc' = "trim")
    BY <2>1 DEF GroupInv, CoverInv
  <2> QED BY <2>1, <2>2, CoverQuiet
<1>3. ASSUME RebuildIdRanges PROVE CoverInv'
  <2>1. /\ pc = "rebuild_ranges" /\ pc' = "idle" /\ manifest' = RebuiltRanges(manifest, files)
        /\ plan' = {} /\ wm' = NoSegments /\ UNCHANGED <<files, compWal>>
    BY <1>3 DEF RebuildIdRanges
  <2>2. flushWal = {} /\ compWal = {}
    BY <2>1 DEF LogInv, CoverInv
  <2>3. CASE \E s \in DOMAIN manifest \cap DOMAIN files : files[s] = {}
    <3>1. manifest' = manifest
      BY <2>1, <2>2, <2>3 DEF RebuiltRanges
    <3> QED BY <2>1, <2>2, <3>1, CoverQuiet
  <2>4. CASE ~ \E s \in DOMAIN manifest \cap DOMAIN files : files[s] = {}
    <3>1. manifest' = [s \in DOMAIN manifest |->
                         IF s \in DOMAIN files
                         THEN [manifest[s] EXCEPT !.lo = MinOf(Ids(files[s])), !.hi = MaxOf(Ids(files[s]))]
                         ELSE manifest[s]]
      BY <2>1, <2>2, <2>4 DEF RebuiltRanges
    <3>2. ASSUME NEW s \in DOMAIN manifest \cap DOMAIN files
          PROVE  manifest'[s].lo = MinOf(Ids(files[s])) /\ manifest'[s].hi = MaxOf(Ids(files[s]))
      <4>1. manifest[s] \in Meta
        BY DEF TypeOK, IsManifest
      <4> QED BY <3>1, <4>1 DEF Meta
    <3>3. ASSUME NEW s \in DOMAIN manifest \cap DOMAIN files
          PROVE  \A d \in files[s] : manifest'[s].lo <= d.id /\ d.id <= manifest'[s].hi
      <4>1. files[s] \subseteq Docs /\ nextUid \in Nat /\ \A d \in files[s] : d.id < nextUid
        BY RowsAre DEF TypeOK, IdInv
      <4> QED BY <3>2, <4>1, RangeCovers
    <3>4. DOMAIN manifest' = DOMAIN manifest
      BY <3>1
    <3>5. DOMAIN manifest' \subseteq DOMAIN files'
      BY <2>1, <3>4 DEF CoverInv
    <3> QED BY <2>1, <2>2, <3>3, <3>4, <3>5 DEF CoverInv, CoversRows, NoSegments
  <2> QED BY <2>3, <2>4
<1> QED BY <1>1, <1>2, <1>3

LEMMA CoverStep ==
  ASSUME TypeOK, LogInv, MergeInv, FreshInv, CoverInv, [Next]_vars, crashes' = 0
  PROVE  CoverInv'
<1> USE DEF Flushing, Reopening, Compacted, FreshInv
<1>1. ASSUME pc \in {"idle", "maybe_compact"} PROVE plan = {} /\ group = NoGroup /\ compWal = {}
  BY <1>1 DEF GroupInv, CoverInv
<1>2. ASSUME NEW k \in BatchSizes, AddDocuments(k) PROVE CoverInv'
  BY <1>1, <1>2, CoverQuiet DEF AddDocuments, disk, work
<1>3. ASSUME NEW id \in DeletableIds, DeleteById(id) PROVE CoverInv'
  BY <1>1, <1>3, CoverQuiet DEF DeleteById, work
<1>4. ASSUME NEW mode \in CompactModes, CompactTable(mode) PROVE CoverInv'
  BY <1>1, <1>4, CoverPlan, BoundsAssumption DEF CompactTable, Modes
<1>5. ASSUME MaybeCompactAfterFlush PROVE CoverInv'
  BY <1>1, <1>5, CoverPlan DEF MaybeCompactAfterFlush, Modes
<1>6. ASSUME NEW g \in plan, MissingSource(g) PROVE FALSE
  <2>1. group.segments = {} /\ pc = "merge" /\ ~ (g.segments \subseteq DOMAIN files)
    BY <1>6 DEF MissingSource, NoGroup
  <2> QED BY <2>1 DEF CoverInv
<1>7. ASSUME Crash PROVE FALSE
  BY <1>7 DEF Crash, TypeOK
<1>8. ASSUME Reopen PROVE FALSE
  BY <1>8 DEF Reopen, ReplayFlushWal, ReplayCheckpoint, LoadTable, CoverInv
<1>9. ASSUME UNCHANGED vars PROVE CoverInv'
  BY <1>9 DEF CoverInv, CoversRows, vars, disk, work
<1>10. ASSUME Compaction PROVE CoverInv'
  BY <1>5, <1>6, <1>10, CoverOpen, CoverConsume, CoverClose, CoverSaved DEF Compaction
<1> QED BY <1>2, <1>3, <1>4, <1>7, <1>8, <1>9, <1>10, CoverFlush DEF Next, Call, Proceed

\* As long as no process has crashed, every segment of the manifest has its file, so
\* no compaction fails half-way, and the range of a segment covers its rows, also in
\* the manifest that a compaction builds, for every workload and policy.
\* (segment_id_ranges, rebuild_segment_id_ranges, compact_table_segments)
THEOREM RangesCover == Spec /\ [](crashes = 0) => []ManifestCoversFiles
<1> DEFINE Inv == TypeOK /\ LogInv /\ MergeInv /\ FreshInv
<1>1. Inv /\ CoverInv /\ [Next]_vars /\ (crashes = 0)' => CoverInv'
  BY CoverStep
<1>2. CoverInv => ManifestCoversFiles
  BY DEF CoverInv, ManifestCoversFiles, CoversRows
<1>3. Spec => []Inv
  BY FreshHolds
<1> QED BY <1>1, <1>2, <1>3, CoverStart, PTL DEF Spec

-----------------------------------------------------------------------------
(* Without crashes: a deleted row keeps its tombstone *)

LEMMA StoredIs ==
  /\ \A d : d \in Stored <=> \E s \in DOMAIN manifest \cap DOMAIN files : d \in files[s]
  /\ \A d : d \in Stored' <=> \E s \in DOMAIN manifest' \cap DOMAIN files' : d \in files'[s]
BY DEF Stored, InFiles

\* The steps that write no row, remove no tombstone and delete nothing.
LEMMA DeletedQuiet ==
  ASSUME DeletedInv, UNCHANGED <<files, tombs, deleted>>, nextUid' = nextUid, mem' = mem,
         DOMAIN manifest' = DOMAIN manifest,
         batch' \subseteq batch,
         pc # "rewrite_tombstones",
         pc' \notin {"merge", "drop_tombstones", "rewrite_tombstones"}, pc' \in Flushing => pc \in Flushing,
         buf' = buf \/ buf' = {},
         reclaimed' = {} \/ pc' \in Compacted \/ (pc \notin Compacted \cup {"merge"} /\ reclaimed' = reclaimed)
  PROVE  DeletedInv'
<1>1. Stored' = Stored
  BY DEF Stored, InFiles
<1> QED BY <1>1 DEF DeletedInv, DeletedStaysTombstoned

LEMMA DeletedFlush ==
  ASSUME LogInv, CoverInv, DeletedInv, Flush
  PROVE  DeletedInv'
<1> USE DEF Flushing, Compacted
<1>1. ASSUME WriteSegment PROVE DeletedInv'
  <2>1. /\ pc = "write_segment" /\ pc' = "append_flush" /\ files' = Put(files, FlushName(manifest), batch)
        /\ UNCHANGED <<manifest, tombs, deleted, nextUid, mem, batch, buf, reclaimed>>
    BY <1>1 DEF WriteSegment, work
  <2>2. \A s \in DOMAIN files' : files'[s] = batch \/ (s \in DOMAIN files /\ files'[s] = files[s])
    BY <2>1 DEF Put
  <2>3. \A d \in deleted \cap Stored' : d \in Stored
    BY <2>1, <2>2 DEF Stored, InFiles, DeletedInv
  <2> QED BY <2>1, <2>3 DEF DeletedInv, DeletedStaysTombstoned
<1>2. ASSUME AppendFlush PROVE DeletedInv'
  BY <1>2, DeletedQuiet DEF AppendFlush, work
<1>3. ASSUME NEW t \in SizeTiers, CommitManifest(t) PROVE DeletedInv'
  <2>1. /\ pc = "commit_manifest" /\ pc' = "checkpoint" /\ batch' = {}
        /\ DOMAIN manifest' = DOMAIN manifest \cup {FlushName(manifest)}
        /\ UNCHANGED <<files, tombs, deleted, nextUid, mem, buf, reclaimed>>
    BY <1>3 DEF CommitManifest, PushSegmentMeta, Put, work, history
  <2>2. \A d \in deleted \cap Stored' : d \in Stored
    <3>1. files[FlushName(manifest)] = batch /\ batch \cap deleted = {}
      BY <2>1 DEF CoverInv, DeletedInv
    <3> QED BY <2>1, <3>1 DEF Stored, InFiles
  <2> QED BY <2>1, <2>2 DEF DeletedInv, DeletedStaysTombstoned
<1>4. ASSUME CheckpointFlush PROVE DeletedInv'
  BY <1>4, DeletedQuiet DEF CheckpointFlush, work, history
<1> QED BY <1>1, <1>2, <1>3, <1>4 DEF Flush

LEMMA DeletedAdd ==
  ASSUME TypeOK, DeletedInv, NEW k \in BatchSizes, AddDocuments(k)
  PROVE  DeletedInv'
<1> USE DEF Flushing, Compacted
<1>1. /\ pc = "idle" /\ pc' = "write_segment" /\ nextUid' = nextUid + k /\ mem' = mem \cup batch'
      /\ batch' = {[id |-> nextId + i, uid |-> nextUid + i] : i \in 0..(k - 1)}
      /\ UNCHANGED <<files, manifest, tombs, deleted, buf, reclaimed>>
  BY DEF AddDocuments, disk, work
<1>2. k \in Nat /\ nextUid \in Nat /\ \A d \in mem \cup deleted : d.uid \in Nat
  BY BoundsAssumption DEF TypeOK, Docs
<1>3. \A d \in batch' : nextUid <= d.uid /\ d.uid < nextUid'
  BY <1>1, <1>2
<1>4. \A d \in mem' \cup deleted' : d.uid < nextUid'
  BY <1>1, <1>2, <1>3 DEF DeletedInv
<1>5. batch' \cap deleted' = {}
  <2> SUFFICES ASSUME NEW d \in batch', d \in deleted PROVE FALSE
    BY <1>1
  <2>1. d.uid < nextUid
    BY DEF DeletedInv
  <2> QED BY <1>2, <1>3, <2>1
<1>6. Stored' = Stored
  BY <1>1 DEF Stored, InFiles
<1> QED BY <1>1, <1>4, <1>5, <1>6 DEF DeletedInv, DeletedStaysTombstoned

LEMMA DeletedDelete ==
  ASSUME DeletedInv, MergeInv, NEW id \in DeletableIds, DeleteById(id)
  PROVE  DeletedInv'
<1> USE DEF Flushing, Compacted
<1>1. /\ pc = "idle" /\ pc' = "idle" /\ tombs' = tombs \cup {id}
      /\ deleted' = deleted \cup {d \in mem : d.id = id}
      /\ UNCHANGED <<files, manifest, mem, nextUid, buf, reclaimed>>
  BY DEF DeleteById, work
<1>2. Stored' = Stored
  BY <1>1 DEF Stored, InFiles
<1>3. buf = {}
  BY <1>1 DEF MergeInv
<1> QED BY <1>1, <1>2, <1>3 DEF DeletedInv, DeletedStaysTombstoned

\* A compaction starts with the tombstones of every deleted row it will read.
LEMMA DeletedPlan ==
  ASSUME TypeOK, MergeInv, GroupInv, CoverInv, DeletedInv, NEW mode, StartCompaction(mode),
         pc \in {"idle", "maybe_compact"}
  PROVE  DeletedInv'
<1> USE DEF Flushing, Compacted
<1>1. /\ manifest' = CompactionReplayed(manifest, files)
      /\ pc' = IF plan' = {} THEN "idle" ELSE "merge"
      /\ wm' = (IF plan' = {} THEN NoSegments ELSE manifest')
      /\ snap' = (IF plan' = {} THEN {} ELSE tombs)
      /\ UNCHANGED <<files, tombs, mem, deleted, nextUid, batch, reclaimed, group, buf>>
  BY DEF StartCompaction, ReplayCompactionWal, history
<1>2. compWal = {} /\ reclaimed = {}
  BY DEF CoverInv, DeletedInv
<1>3. DOMAIN manifest' = DOMAIN manifest
  BY <1>1, <1>2, NothingReplayed
<1>4. Stored' = Stored
  BY <1>1, <1>3 DEF Stored, InFiles
<1>5. pc' = "merge" => \A s \in DOMAIN wm' \cap DOMAIN files' : \A d \in files'[s] \cap deleted' : d.id \in snap'
  BY <1>1, <1>3 DEF DeletedInv, DeletedStaysTombstoned, Stored, InFiles
<1> QED BY <1>1, <1>2, <1>4, <1>5 DEF DeletedInv, DeletedStaysTombstoned

\* The tombstones that a group reclaims are those of no deleted row elsewhere.
LEMMA DeletedOpen ==
  ASSUME CoverInv, DeletedInv, NEW g \in plan, OpenGroup(g), GroupIsWhole'
  PROVE  DeletedInv'
<1> USE DEF Flushing, Compacted
<1>1. /\ pc = "merge" /\ group = NoGroup /\ group' = g /\ files' = Without(files, {NextSegmentName(wm)})
      /\ reclaimed' = reclaimed \cup {id \in snap : InRange(id, wm, g.segments)}
      /\ UNCHANGED <<manifest, tombs, mem, pc, wm, snap, buf, nextUid, deleted, batch>>
  BY DEF OpenGroup
<1>2. DOMAIN files' \subseteq DOMAIN files /\ \A s \in DOMAIN files' : files'[s] = files[s]
  BY <1>1 DEF Without
<1>3. Stored' \subseteq Stored
  BY <1>1, <1>2, StoredIs
<1>4. ASSUME NEW s \in (DOMAIN wm' \cap DOMAIN files') \ group'.segments, NEW d \in files'[s] \cap deleted'
      PROVE  d.id \in snap' \ reclaimed'
  <2>1. d.id \in snap \ reclaimed
    BY <1>1, <1>2 DEF DeletedInv, NoGroup
  <2>2. group' # NoGroup => ~ InRange(d.id, wm', group'.segments)
    BY DEF GroupIsWhole
  <2>3. group' # NoGroup
    BY <1>1 DEF CoverInv
  <2> QED BY <1>1, <2>1, <2>2, <2>3 DEF InRange
<1> QED BY <1>1, <1>3, <1>4 DEF DeletedInv, DeletedStaysTombstoned

\* A row that is written to the output is not deleted.
LEMMA DeletedConsume ==
  ASSUME GroupInv, DeletedInv, NEW s \in DOMAIN files, ConsumeSource(s)
  PROVE  DeletedInv'
<1> USE DEF Flushing, Compacted
<1>1. /\ pc = "merge" /\ s \in group.segments /\ files' = Without(files, {s})
      /\ buf' = buf \cup {d \in files[s] : d.id \notin snap}
      /\ UNCHANGED <<manifest, tombs, mem, pc, wm, snap, reclaimed, group, nextUid, deleted, batch>>
  BY DEF ConsumeSource, Sources, history
<1>2. DOMAIN files' \subseteq DOMAIN files /\ \A n \in DOMAIN files' : files'[n] = files[n]
  BY <1>1 DEF Without
<1>3. Stored' \subseteq Stored
  BY <1>1, <1>2, StoredIs
<1>4. buf' \cap deleted' = {}
  <2>1. files[s] \subseteq Stored
    BY <1>1, StoredIs DEF GroupInv
  <2> QED BY <1>1, <2>1 DEF DeletedInv, DeletedStaysTombstoned
<1>5. \A n \in (DOMAIN wm' \cap DOMAIN files') \ group'.segments :
        \A d \in files'[n] \cap deleted' : d.id \in snap' \ reclaimed'
  BY <1>1, <1>2 DEF DeletedInv
<1> QED BY <1>1, <1>3, <1>4, <1>5 DEF DeletedInv, DeletedStaysTombstoned

LEMMA DeletedClose ==
  ASSUME CoverInv, DeletedInv, TypeOK, NEW t \in SizeTiers, CloseGroup(t)
  PROVE  DeletedInv'
<1> USE DEF Flushing, Compacted
<1> DEFINE new == NextSegmentName(wm)
<1>1. PICK meta : /\ pc = "merge" /\ files' = Put(Without(files, group.segments), new, buf)
                  /\ wm' = PushSegmentMeta(RemoveSegments(wm, group.segments), new, meta)
                  /\ group' = NoGroup /\ buf' = {}
                  /\ UNCHANGED <<manifest, tombs, mem, pc, snap, reclaimed, nextUid, deleted, batch>>
  BY DEF CloseGroup, history
<1>2. new \notin DOMAIN manifest
  <2>1. DOMAIN wm \subseteq Nat /\ IsFiniteSet(DOMAIN wm) /\ DOMAIN manifest \subseteq Nat
    BY DEF TypeOK, IsManifest
  <2>2. MaxOf(DOMAIN wm) \in Nat /\ \A s \in DOMAIN manifest : s <= MaxOf(DOMAIN wm)
    BY <1>1, <2>1, MaxOfFinite DEF CoverInv
  <2> QED BY <2>1, <2>2 DEF NextSegmentName
<1> HIDE DEF new
<1>3. /\ DOMAIN wm' = (DOMAIN wm \ group.segments) \cup {new}
      /\ DOMAIN files' = (DOMAIN files \ group.segments) \cup {new}
      /\ files'[new] = buf /\ \A s \in DOMAIN files' : s # new => files'[s] = files[s]
  BY <1>1 DEF PushSegmentMeta, RemoveSegments, Put, Without
<1>4. Stored' \subseteq Stored
  BY <1>1, <1>2, <1>3, StoredIs
<1>5. \A s \in DOMAIN wm' \cap DOMAIN files' : \A d \in files'[s] \cap deleted' : d.id \in snap' \ reclaimed'
  BY <1>1, <1>3 DEF DeletedInv
<1> QED BY <1>1, <1>4, <1>5 DEF DeletedInv, DeletedStaysTombstoned

\* From the saved manifest on, the tombstones that go are the reclaimed ones.
LEMMA DeletedSaved ==
  ASSUME MergeInv, DeletedInv,
         SaveCompactedManifest \/ DropTombstones \/ RewriteTombstones \/ AppendCompaction
         \/ TrimWals \/ RebuildIdRanges
  PROVE  DeletedInv'
<1> USE DEF Flushing, Compacted
<1>1. ASSUME SaveCompactedManifest PROVE DeletedInv'
  <2>1. /\ pc = "merge" /\ group = NoGroup /\ manifest' = wm
        /\ pc' \in {"append_compaction", "drop_tombstones"}
        /\ UNCHANGED <<files, tombs, mem, wm, snap, reclaimed, group, buf, nextUid, deleted, batch>>
    BY <1>1 DEF SaveCompactedManifest, work, history
  <2>2. \A s \in DOMAIN wm \cap DOMAIN files : \A d \in files[s] \cap deleted : d.id \in snap \ reclaimed
    BY <2>1 DEF DeletedInv, NoGroup
  <2>3. \A d \in deleted \cap Stored' : d.id \in tombs
    BY <2>1, <2>2, StoredIs DEF DeletedInv
  <2> QED BY <2>1, <2>2, <2>3 DEF DeletedInv, DeletedStaysTombstoned
<1>2. ASSUME pc \in {"drop_tombstones", "rewrite_tombstones"}
      PROVE  \A d \in deleted \cap Stored : d.id \in snap \ reclaimed
  <2>1. wm = manifest /\ group.segments = {}
    BY <1>2 DEF MergeInv, NoGroup
  <2> QED BY <1>2, <2>1, StoredIs DEF DeletedInv
<1>3. ASSUME DropTombstones PROVE DeletedInv'
  <2>1. /\ pc = "drop_tombstones" /\ tombs' = {}
        /\ pc' = IF snap \subseteq reclaimed THEN "append_compaction" ELSE "rewrite_tombstones"
        /\ UNCHANGED <<files, manifest, mem, wm, snap, reclaimed, group, buf, nextUid, deleted, batch>>
    BY <1>3 DEF DropTombstones, work, history
  <2>2. Stored' = Stored
    BY <2>1 DEF Stored, InFiles
  <2>3. pc' # "rewrite_tombstones" => deleted \cap Stored = {}
    BY <1>2, <2>1
  <2> QED BY <2>1, <2>2, <2>3 DEF DeletedInv, DeletedStaysTombstoned
<1>4. ASSUME RewriteTombstones PROVE DeletedInv'
  <2>1. /\ pc = "rewrite_tombstones" /\ pc' = "append_compaction" /\ tombs' = snap \ reclaimed
        /\ UNCHANGED <<files, manifest, mem, wm, snap, reclaimed, group, buf, nextUid, deleted, batch>>
    BY <1>4 DEF RewriteTombstones, work, history
  <2>2. Stored' = Stored
    BY <2>1 DEF Stored, InFiles
  <2> QED BY <1>2, <2>1, <2>2 DEF DeletedInv, DeletedStaysTombstoned
<1>5. ASSUME AppendCompaction \/ TrimWals PROVE DeletedInv'
  BY <1>5, DeletedQuiet DEF AppendCompaction, TrimWals, work, history
<1>6. ASSUME RebuildIdRanges PROVE DeletedInv'
  <2>1. /\ DOMAIN manifest' = DOMAIN manifest /\ pc = "rebuild_ranges" /\ pc' = "idle" /\ reclaimed' = {}
        /\ buf' = {} /\ UNCHANGED <<files, tombs, mem, nextUid, deleted, batch>>
    BY <1>6 DEF RebuildIdRanges, RebuiltRanges, history
  <2> QED BY <2>1, DeletedQuiet
<1> QED BY <1>1, <1>3, <1>4, <1>5, <1>6

LEMMA DeletedStep ==
  ASSUME TypeOK, LogInv, MergeInv, GroupInv, CoverInv, DeletedInv, [Next]_vars,
         crashes' = 0, GroupIsWhole'
  PROVE  DeletedInv'
<1>1. ASSUME Call PROVE DeletedInv'
  BY <1>1, DeletedAdd, DeletedDelete, DeletedPlan DEF Call, CompactTable
<1>2. ASSUME Compaction PROVE DeletedInv'
  <2>1. ASSUME NEW g \in plan, MissingSource(g) PROVE FALSE
    <3>1. group.segments = {} /\ pc = "merge" /\ ~ (g.segments \subseteq DOMAIN files)
      BY <2>1 DEF MissingSource, NoGroup
    <3> QED BY <3>1 DEF CoverInv
  <2>2. ASSUME MaybeCompactAfterFlush PROVE DeletedInv'
    BY <2>2, DeletedPlan DEF MaybeCompactAfterFlush
  <2> QED BY <1>2, <2>1, <2>2, DeletedOpen, DeletedConsume, DeletedClose, DeletedSaved DEF Compaction
<1>3. ASSUME Reopen PROVE FALSE
  BY <1>3 DEF Reopen, ReplayFlushWal, ReplayCheckpoint, LoadTable, CoverInv, Reopening
<1>4. ASSUME Crash PROVE FALSE
  BY <1>4 DEF Crash, TypeOK
<1>5. ASSUME UNCHANGED vars PROVE DeletedInv'
  <2>1. UNCHANGED <<files, manifest, tombs, mem, pc, batch, wm, snap, reclaimed, group, buf, nextUid, deleted>>
    BY <1>5 DEF vars, disk, work, history
  <2>2. Stored' = Stored
    BY <2>1 DEF Stored, InFiles
  <2> QED BY <2>1, <2>2 DEF DeletedInv, DeletedStaysTombstoned
<1> QED BY <1>1, <1>2, <1>3, <1>4, <1>5, DeletedFlush DEF Next, Proceed

\* As long as no process has crashed and no merge group has a deleted row of another
\* segment in its id range, a deleted row that is still in a segment still has its
\* tombstone: taking the range for the rows is the one way compaction can drop a
\* tombstone too early, for every workload and policy.
\* (compact_table_segments, save_tombstones)
THEOREM TombstonesKept ==
  Spec /\ [](crashes = 0 /\ GroupIsWhole) => []DeletedStaysTombstoned
<1> DEFINE Inv == TypeOK /\ LogInv /\ MergeInv /\ FreshInv
<1>1. Init => DeletedInv
  BY DEF Init, DeletedInv, DeletedStaysTombstoned, Stored, InFiles, NoSegments, Flushing
<1>2. Inv /\ CoverInv /\ DeletedInv /\ [Next]_vars /\ (crashes = 0 /\ GroupIsWhole)' =>
        (CoverInv /\ DeletedInv)'
  BY CoverStep, DeletedStep DEF FreshInv
<1>3. DeletedInv => DeletedStaysTombstoned
  BY DEF DeletedInv
<1>4. Spec => []Inv
  BY FreshHolds
<1> QED BY <1>1, <1>2, <1>3, <1>4, CoverStart, PTL DEF Spec

=============================================================================
