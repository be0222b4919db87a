---------------------------- MODULE StreamingMerge ----------------------------
(***************************************************************************)
(* The k-way merge of one compaction group, batch by batch.                *)
(* (toradb-storage: compaction.rs, merge_segments_streaming, MergeSource)  *)
(*                                                                         *)
(* A segment file is sorted by id, so a batch is the set of its ids; the   *)
(* reader hands out the lowest BatchSize ids it has left.  A source file   *)
(* is deleted the moment its last batch is taken, while the output is      *)
(* still open.  SegmentStore's ConsumeSource abstracts this module.        *)
(***************************************************************************)
EXTENDS Naturals, FiniteSets

CONSTANTS
  Segments,     \* the sources, numbered in the order of the group
  RowIds,       \* ids a row can have
  BatchSize,    \* merge_batch_size
  SharedIds,    \* whether two sources may hold one id
  MaxReadErrors,\* bound: errors of the readers
  WriterFails   \* whether casting or writing a batch may fail

ASSUME MergeAssumption ==
  /\ Segments \subseteq Nat
  /\ RowIds \subseteq Nat /\ IsFiniteSet(RowIds)
  /\ BatchSize \in Nat \ {0}
  /\ SharedIds \in BOOLEAN
  /\ MaxReadErrors \in Nat
  /\ WriterFails \in BOOLEAN

VARIABLES
  rows,       \* what the source files held when the merge began
  deleted,    \* the tombstones
  present,    \* sources whose file exists
  peeked,     \* source -> the batch it holds ({}: used up)
  rest,       \* source -> rows its reader has not returned
  out,        \* rows written to the output
  src,        \* the source being drained
  pc,
  errors      \* read errors so far

vars == <<rows, deleted, present, peeked, rest, out, src, pc, errors>>

\* The next batch a reader with rows S returns.
Batch(S) == {x \in S : Cardinality({y \in S : y < x}) < BatchSize}

\* MergeSource::open for every source.
Init ==
  /\ rows \in [Segments -> SUBSET RowIds]
  /\ SharedIds \/ \A i, j \in Segments : i # j => rows[i] \cap rows[j] = {}
  /\ deleted \in SUBSET RowIds
  /\ present = Segments
  /\ peeked = [i \in Segments |-> Batch(rows[i])]
  /\ rest = [i \in Segments |-> rows[i] \ Batch(rows[i])]
  /\ out = {} /\ src \in Segments /\ pc = "pick" /\ errors = 0

-----------------------------------------------------------------------------
Live == {i \in Segments : peeked[i] # {}}

\* (mutant) the source itself counted among the others.
OthersAndSelf(i) == Live

Others(i) == Live \ {i}

\* Whether row x of source i may be written before any row of the others:
\* x < next_min.
Below(i, x) == \A j \in Others(i) : \A y \in peeked[j] : x < y

\* min_by_key(min_id): the first source with the smallest minimum.
Smallest(i) ==
  \E x \in peeked[i] : \A j \in Segments : \A y \in peeked[j] :
    x < y \/ (x = y /\ i <= j)

Pick(i) ==
  /\ pc = "pick" /\ Smallest(i)
  /\ src' = i /\ pc' = "drain"
  /\ UNCHANGED <<rows, deleted, present, peeked, rest, out, errors>>

\* No batch is left: writer.close().
CloseOutput ==
  /\ pc = "pick" /\ Live = {}
  /\ pc' = "done"
  /\ UNCHANGED <<rows, deleted, present, peeked, rest, out, src, errors>>

\* The source is used up, or its minimum has reached the others.
EndDrain ==
  /\ pc = "drain" /\ \A x \in peeked[src] : ~ Below(src, x)
  /\ pc' = "pick"
  /\ UNCHANGED <<rows, deleted, present, peeked, rest, out, src, errors>>

\* (mutant) the file removed when its last batch is read, not taken.
TakeBatchEager(readError) ==
  LET next == IF readError THEN {} ELSE Batch(rest[src])
  IN  /\ peeked' = [peeked EXCEPT ![src] = next]
      /\ rest' = [rest EXCEPT ![src] = IF readError THEN {} ELSE @ \ next]
      /\ present' = IF rest'[src] = {} THEN present \ {src} ELSE present

\* take_batch: the next batch is read ahead; when there is none the source
\* file is removed.  An error of the reader counts as the end of the source.
TakeBatch(readError) ==
  LET next == IF readError THEN {} ELSE Batch(rest[src])
  IN  /\ peeked' = [peeked EXCEPT ![src] = next]
      /\ rest' = [rest EXCEPT ![src] = IF readError THEN {} ELSE @ \ next]
      /\ present' = IF next = {} THEN present \ {src} ELSE present

\* (mutant) only the first row of the batch compared.
WholeBatchBelowFirst == pc = "drain" /\ \E x \in peeked[src] : Below(src, x)

\* peeked_max < next_min.
WholeBatchBelow ==
  pc = "drain" /\ peeked[src] # {} /\ \A x \in peeked[src] : Below(src, x)

\* (mutant) tombstones not looked at.
WriteBatchUnfiltered ==
  /\ WholeBatchBelow
  /\ TakeBatch(FALSE)
  /\ out' = out \cup peeked[src]
  /\ UNCHANGED <<rows, deleted, src, pc, errors>>

WriteBatch ==
  /\ WholeBatchBelow
  /\ TakeBatch(FALSE)
  /\ out' = out \cup (peeked[src] \ deleted)
  /\ UNCHANGED <<rows, deleted, src, pc, errors>>

\* reader.next().and_then(|r| r.ok())
ReadError ==
  /\ WholeBatchBelow /\ rest[src] # {} /\ errors < MaxReadErrors
  /\ TakeBatch(TRUE)
  /\ out' = out \cup (peeked[src] \ deleted)
  /\ errors' = errors + 1
  /\ UNCHANGED <<rows, deleted, src, pc>>

\* The batch was taken, and casting or writing it fails.
WriteError ==
  /\ WriterFails /\ WholeBatchBelow /\ ~ (peeked[src] \subseteq deleted)
  /\ TakeBatch(FALSE)
  /\ pc' = "failed"
  /\ UNCHANGED <<rows, deleted, out, src, errors>>

\* split_batch_at(next_min): the rows before the cut are written, the others
\* stay at hand.
SplitBatch ==
  LET left == {x \in peeked[src] : Below(src, x)}
  IN  /\ pc = "drain" /\ left # {} /\ left # peeked[src]
      /\ out' = out \cup (left \ deleted)
      /\ peeked' = [peeked EXCEPT ![src] = @ \ left]
      /\ pc' = "pick"
      /\ UNCHANGED <<rows, deleted, present, rest, src, errors>>

Merge == (\E i \in Segments : Pick(i)) \/ CloseOutput \/ EndDrain \/ WriteBatch \/ SplitBatch

Ended == pc \in {"done", "failed"} /\ UNCHANGED vars

Next == Merge \/ ReadError \/ WriteError \/ Ended

Spec == Init /\ [][Next]_vars

\* The merge is a loop of one thread.
FairSpec == Spec /\ WF_vars(Merge)

-----------------------------------------------------------------------------
TypeOK ==
  /\ rows \in [Segments -> SUBSET RowIds] /\ deleted \subseteq RowIds
  /\ present \subseteq Segments
  /\ peeked \in [Segments -> SUBSET RowIds] /\ rest \in [Segments -> SUBSET RowIds]
  /\ out \subseteq RowIds /\ src \in Segments
  /\ pc \in {"pick", "drain", "done", "failed"} /\ errors \in Nat

\* Rows reach the output in ascending order, whatever the batches, tombstones
\* and errors: split_batch_at and the reader of a later merge rely on sorted
\* files.
WritesAscend ==
  [][\A x \in out' \ out : \A y \in out : y < x]_vars

NoErrors == errors = 0 /\ pc # "failed"

\* Without errors, a source file is removed only when all of its rows that are
\* not tombstoned are in the output, although the file goes while the output
\* is open and a batch of it may be split over several turns.
RemovedIsWritten ==
  NoErrors => \A i \in Segments \ present : rows[i] \ deleted \subseteq out

\* A merge that ends without errors has written every row that is not tombstoned
\* and no other.
OutputIsUnion ==
  NoErrors /\ pc = "done" => out = (UNION {rows[i] : i \in Segments}) \ deleted

\* Without errors, sources are used up in the order of their largest ids, tombstoned rows
\* included: the guard of SegmentStore's ConsumeSource.
RemovedByLastId ==
  [][NoErrors' => \A i \in present \ present', j \in present' :
        rows[j] # {} => \E x \in rows[j] : \A z \in rows[i] : z < x]_vars

\* The merge ends when no id is in two sources, whatever the sizes of the
\* batches: a turn of the loop that writes nothing does not come back.
MergeEnds == <>(pc \in {"done", "failed"})

-----------------------------------------------------------------------------
(* Inductive strengthenings *)

Left(i) == peeked[i] \cup rest[i]
Taken(i) == rows[i] \ Left(i)

\* What is left of a source is sorted behind its batch, and behind the output.
ReaderInv ==
  /\ \A i \in Segments : \A x \in peeked[i], y \in rest[i] : x < y
  /\ \A i \in Segments : peeked[i] = {} => rest[i] = {}
  /\ \A x \in out, i \in Segments : \A y \in Left(i) : x < y

\* The rows taken are in the output or tombstoned, and smaller than every row
\* left in any source.
TakenInv ==
  /\ out \subseteq (UNION {rows[i] : i \in Segments}) \ deleted
  /\ pc = "done" => Live = {}
  /\ \A i \in Segments :
       /\ Left(i) \subseteq rows[i]
       /\ Taken(i) \ deleted \subseteq out
       /\ \A x \in Taken(i), j \in Segments : \A y \in Left(j) : x < y
       /\ i \notin present => Left(i) = {}
       /\ i \in present /\ Left(i) = {} => rows[i] = {}

MergeInv == NoErrors => TakenInv
=============================================================================
