----------------------------- MODULE StorageCaches -----------------------------
(***************************************************************************)
(* The caches of a handle for what it reads from files.                    *)
(* (toradb-storage cache.rs; their use in toradb-engine persist.rs and     *)
(*  toradb-distributed worker.rs)                                          *)
(*                                                                         *)
(* The caches know nothing of each other, so that one of them at a time is *)
(* looked at.  A file is written whole under a new name and then given its *)
(* own, and a mapping keeps the version it was made from.  A cache is the  *)
(* order of its keys, the oldest first, the version it holds of each, and  *)
(* the bytes it believes to hold.                                          *)
(***************************************************************************)
EXTENDS Integers, Sequences, FiniteSets, FiniteSetsExt, Functions

CONSTANTS
  Paths,         \* files
  MaxVersions,   \* bound: versions ever written
  Sizes,         \* bytes a version may have
  Capacity,      \* segment_entries, 32
  Budget,        \* index_bytes
  Unknown        \* bytes taken for a file that is gone, 64 MiB

VARIABLES
  kind,       \* which cache: "segments", "blobs", "bm25" or "route"
  file,       \* path -> version on disk, 0 if there is none
  size,       \* version -> bytes
  cache,
  recent,     \* history: the path that was moved to the end last, while it is cached
  changed     \* history: whether a file that was cached has been written or removed

vars == <<kind, file, size, cache, recent, changed>>

Empty == [order |-> <<>>, held |-> [p \in Paths |-> 0], used |-> 0]
Keys(c) == {p \in Paths : c.held[p] # 0}
SumOfSizes(c) == SumFunctionOnSet([p \in Keys(c) |-> size[c.held[p]]], Keys(c))

Init ==
  /\ kind \in {"segments", "blobs", "bm25", "route"}
  /\ file = [p \in Paths |-> 0] /\ size = <<>>
  /\ cache = Empty /\ recent = {} /\ changed = FALSE

---------------------------------------------------------------------------
(* The caches *)

\* retain: a path leaves every place it has.
Retain(order, p) ==
  LET kept[i \in 0 .. Len(order)] ==
        IF i = 0 THEN <<>> ELSE IF order[i] = p THEN kept[i - 1] ELSE Append(kept[i - 1], order[i])
  IN kept[Len(order)]

Touch(order, p) == Append(Retain(order, p), p)

Less(n, m) == IF n > m THEN n - m ELSE 0   \* saturating_sub

\* entry_bytes: the size of the file as it is now, not of the entry
EntryBytes(p) == IF file[p] = 0 THEN Unknown ELSE size[file[p]]

\* The bytes that are given back for an entry, by each cache.
Bytes(p) ==
  CASE kind = "blobs" -> size[cache.held[p]]
    [] kind = "bm25" -> EntryBytes(p)
    [] OTHER -> 0

Without(c, p) ==
  [order |-> Retain(c.order, p),
   held |-> [c.held EXCEPT ![p] = 0],
   used |-> Less(c.used, Bytes(p))]

\* What is used after the n oldest entries have left.
UsedAfter(n) ==
  LET used[m \in 0 .. n] == IF m = 0 THEN cache.used ELSE Less(used[m - 1], Bytes(cache.order[m]))
  IN used[n]

\* (mutant) room is made for the bytes there are, without the new ones
FitsWithout(n, bytes) ==
  \/ n = Len(cache.order)
  \/ kind = "route"
  \/ kind = "segments" /\ Len(cache.order) - n < Capacity
  \/ kind \in {"blobs", "bm25"} /\ UsedAfter(n) <= Budget

\* The loops stop when the new entry fits, or no entry is left.
Fits(n, bytes) ==
  \/ n = Len(cache.order)
  \/ kind = "route"
  \/ kind = "segments" /\ Len(cache.order) - n < Capacity
  \/ kind \in {"blobs", "bm25"} /\ UsedAfter(n) + bytes <= Budget

\* insert, get_or_insert of a path that is not cached: the oldest entries leave,
\* no more than need be.
Insert(p) ==
  LET bytes == IF kind \in {"blobs", "bm25"} THEN size[file[p]] ELSE 0
      n == Min({m \in 0 .. Len(cache.order) : Fits(m, bytes)})
      out == {cache.order[i] : i \in 1 .. n}
  IN [order |-> Append(SubSeq(cache.order, n + 1, Len(cache.order)), p),
      held |-> [q \in Paths |-> IF q = p THEN file[p] ELSE IF q \in out THEN 0 ELSE cache.held[q]],
      used |-> UsedAfter(n) + bytes]

---------------------------------------------------------------------------
(* Their use *)

\* A miss of read_segment_cached, get_or_mmap, search_segment_bm25_at_path or
\* route_mmap.
Load(p) ==
  /\ file[p] # 0 /\ cache.held[p] = 0
  /\ cache' = Insert(p) /\ recent' = {p}
  /\ UNCHANGED <<kind, file, size, changed>>

\* A hit; the path becomes the youngest.  For BM25 only a worker's does, as a
\* search takes what it finds under the lock for readers.
Hit(p) ==
  /\ cache.held[p] # 0 /\ kind # "route" /\ recent # {p}
  /\ cache' = [cache EXCEPT !.order = Touch(@, p)] /\ recent' = {p}
  /\ UNCHANGED <<kind, file, size, changed>>

\* A file is written, or written anew; no cache hears of it.
Write(p, bytes) ==
  /\ Len(size) < MaxVersions
  /\ size' = Append(size, bytes) /\ file' = [file EXCEPT ![p] = Len(size')]
  /\ changed' = (changed \/ cache.held[p] # 0)
  /\ UNCHANGED <<kind, cache, recent>>

\* invalidate
Invalidate(p) == IF cache.held[p] = 0 THEN cache ELSE Without(cache, p)

\* compact_table: what was merged is removed, and two of the caches are told.
RemoveFile(p) ==
  /\ file[p] # 0
  /\ file' = [file EXCEPT ![p] = 0]
  /\ IF kind \in {"segments", "blobs"}
     THEN cache' = Invalidate(p) /\ recent' = recent \ {p} /\ UNCHANGED changed
     ELSE changed' = (changed \/ cache.held[p] # 0) /\ UNCHANGED <<cache, recent>>
  /\ UNCHANGED <<kind, size>>

Next ==
  \E p \in Paths :
    \/ Load(p) \/ Hit(p) \/ RemoveFile(p)
    \/ \E bytes \in Sizes : Write(p, bytes)

Spec == Init /\ [][Next]_vars

---------------------------------------------------------------------------
(* Properties *)

TypeOK ==
  /\ file \in [Paths -> 0 .. MaxVersions] /\ size \in Seq(Sizes)
  /\ cache.order \in Seq(Paths) /\ cache.held \in [Paths -> 0 .. MaxVersions]
  /\ cache.used \in Nat /\ recent \subseteq Paths /\ changed \in BOOLEAN

\* The sizes that are given back are those that were taken.
Exact == kind = "blobs" \/ (kind = "bm25" /\ ~changed)

\* A cache forgets no entry that it counts, counts none twice, evicts in the
\* order of use, and is never larger than it may be but for a single entry that
\* is (cache.rs:123, 188, 298); for BM25 as long as the files it holds stay what
\* they are.
CachesBounded ==
  /\ IsInjective(cache.order) /\ Range(cache.order) = Keys(cache)
  /\ \A p \in recent : cache.order # <<>> /\ cache.order[Len(cache.order)] = p
  /\ kind = "segments" => Len(cache.order) <= Capacity
  /\ Exact =>
       /\ cache.used = SumOfSizes(cache)
       /\ cache.used <= Budget \/ Len(cache.order) = 1

\* Claim that does not hold: what the BM25 cache holds is within its budget. What
\* an entry gives back when it leaves is the size its file has by then
\* (cache.rs:298).
Bm25Bounded == kind = "bm25" => SumOfSizes(cache) <= Budget \/ Len(cache.order) = 1

\* Claim that does not hold: the BM25 cache counts no bytes that it does not hold.
\* After a file has shrunk it does, and evicts entries that would fit
\* (cache.rs:245).
Bm25Exact == kind = "bm25" => cache.used <= SumOfSizes(cache)

\* Claim that does not hold: the cache of blobs holds what is on file. A file that
\* is written anew is not looked at again (cache.rs:356).
CacheFresh == kind = "blobs" => \A p \in Keys(cache) : cache.held[p] = file[p]
---------------------------------------------------------------------------
(* Inductive strengthening of TypeOK and CachesBounded *)

CacheConstants ==
  /\ IsFiniteSet(Paths) /\ Sizes \subseteq Nat
  /\ {MaxVersions, Budget, Unknown} \subseteq Nat /\ Capacity \in Nat \ {0}

FilesInv ==
  /\ kind \in {"segments", "blobs", "bm25", "route"}
  /\ size \in Seq(Sizes) /\ Len(size) <= MaxVersions
  /\ file \in [Paths -> 0 .. Len(size)]

CacheInv ==
  /\ cache = [order |-> cache.order, held |-> cache.held, used |-> cache.used]
  /\ cache.order \in Seq(Paths) /\ cache.held \in [Paths -> 0 .. Len(size)] /\ cache.used \in Nat
  /\ recent \subseteq Paths /\ changed \in BOOLEAN

HeldInv == kind = "bm25" /\ ~changed => \A p \in Keys(cache) : cache.held[p] = file[p]

CachesInv == FilesInv /\ CacheInv /\ HeldInv /\ CachesBounded

=============================================================================
