---------------------------- MODULE TableManifest ----------------------------
(***************************************************************************)
(* The table manifest and the tiered compaction policy that reads it, as   *)
(* pure operators.  (toradb-storage: columnar/manifest.rs, compaction.rs)  *)
(*                                                                         *)
(* A manifest is a function from segment names to their metadata.  The     *)
(* name "seg_00007.parquet" is the number 7.  TableManifestFile::save      *)
(* rewrites `segments` and `segment_id_ranges` from `segment_meta`, so one *)
(* function stands for the three lists.  The byte size and the row and     *)
(* delete counts only order the merge groups by score; the groups are      *)
(* disjoint and are merged in any order here.                              *)
(***************************************************************************)
EXTENDS Integers, FiniteSets

CONSTANTS
  Threshold,     \* tier_merge_threshold: segments of a tier that form a merge group
  MaxSegments,   \* max_segments: auto compaction is due at this many segments
  MinMerge       \* min_segments_to_merge: size of the fallback group

\* chunks(0) panics and a group of one is skipped, so a useful threshold is >= 2.
ASSUME PolicyAssumption ==
  /\ Threshold \in Nat \ {0, 1}
  /\ MaxSegments \in Nat
  /\ MinMerge \in Nat

Tiers == 0..3

\* SegmentMeta: inclusive id range, size tier, generation.
Meta == [lo: Nat, hi: Nat, tier: Tiers, gen: Nat]

\* iter().max().unwrap_or(0)
MaxOf(S) == IF \E x \in S : \A y \in S : y <= x
            THEN CHOOSE x \in S : \A y \in S : y <= x
            ELSE 0

\* (mutant) no default for an empty merge output.
MinOfNoDefault(S) == IF \E x \in S : \A y \in S : x <= y
                     THEN CHOOSE x \in S : \A y \in S : x <= y
                     ELSE -1

MinOf(S) == IF \E x \in S : \A y \in S : x <= y
            THEN CHOOSE x \in S : \A y \in S : x <= y
            ELSE 0

\* The finite map f with key k set to v, and without the keys in S.
Put(f, k, v) == [x \in DOMAIN f \cup {k} |-> IF x = k THEN v ELSE f[x]]
Without(f, S) == [x \in DOMAIN f \ S |-> f[x]]

-----------------------------------------------------------------------------
(* columnar/manifest.rs *)

NoSegments == [s \in {} |-> [lo |-> 0, hi |-> 0, tier |-> 0, gen |-> 0]]

\* push_segment_meta: an entry of the same name is replaced in place.
PushSegmentMeta(m, s, meta) == Put(m, s, meta)

\* push_segment: what replay knows of a segment is its name only.
UnknownMeta == [lo |-> 0, hi |-> 0, tier |-> 0, gen |-> 0]

\* (mutant) only segments the manifest has already are pushed.
PushSegmentsKnownOnly(m, S) ==
  [s \in DOMAIN m |-> IF s \in S THEN UnknownMeta ELSE m[s]]

PushSegments(m, S) ==
  [s \in DOMAIN m \cup S |-> IF s \in DOMAIN m THEN m[s] ELSE UnknownMeta]

RemoveSegments(m, S) == Without(m, S)

NextGeneration(m) == MaxOf({m[s].gen : s \in DOMAIN m}) + 1

\* flush_batch_with_opts names a segment after the number of segments ...
FlushName(m) == Cardinality(DOMAIN m) + 1

\* ... and compaction's next_segment_name after the largest number in use.
NextSegmentName(m) == MaxOf(DOMAIN m) + 1

-----------------------------------------------------------------------------
(* compaction.rs: when to compact, and what *)

AtTier(m, t) == {s \in DOMAIN m : m[s].tier = t}

ShouldCompactTiered(m) ==
  /\ Cardinality(DOMAIN m) >= 2
  /\ \/ \E t \in Tiers : Cardinality(AtTier(m, t)) >= Threshold
     \/ Cardinality(DOMAIN m) >= MaxSegments

\* sort_by_key(created_at): the clock advances with the generation, and
\* segments that replay pushed (created_at 0, generation 0) come first.
Older(m, a, b) ==
  \/ m[a].gen < m[b].gen
  \/ m[a].gen = m[b].gen /\ a < b

Rank(m, S, s) == Cardinality({x \in S : Older(m, x, s)})

\* The full chunks of n segments of S, oldest first; the rest is left alone.
FullChunks(m, S, n) ==
  {{s \in S : Rank(m, S, s) \div n = k} : k \in 0..((Cardinality(S) \div n) - 1)}

OutputTier(t) == IF t < 3 THEN t + 1 ELSE 3

TierGroups(m) ==
  UNION {{[segments |-> c, tier |-> OutputTier(t)] :
            c \in FullChunks(m, AtTier(m, t), Threshold)} : t \in Tiers}

\* The fallback of auto compaction: too many segments and no full chunk.
OldestGroup(m) ==
  LET n == IF MinMerge > 2 THEN MinMerge ELSE 2
      oldest == {s \in DOMAIN m : Rank(m, DOMAIN m, s) < n}
  IN  [segments |-> oldest,
       tier |-> OutputTier(MaxOf({m[s].tier : s \in oldest}))]

Modes == {"auto", "normal", "full"}

\* compact_table_segments up to the merge loop: the groups to merge.
MergeGroups(m, mode) ==
  IF Cardinality(DOMAIN m) < 2 THEN {}
  ELSE CASE mode = "full" -> {[segments |-> DOMAIN m, tier |-> 3]}
         [] mode = "normal" -> TierGroups(m)
         [] mode = "auto" ->
              IF ~ShouldCompactTiered(m) THEN {}
              ELSE IF TierGroups(m) = {} THEN {OldestGroup(m)}
              ELSE TierGroups(m)
=============================================================================
