---------------------------- MODULE MCSegmentStore ----------------------------
(***************************************************************************)
(* SegmentStore for model checking: what the documentation and the tests   *)
(* say of a table and TLC refutes on small instances.                      *)
(***************************************************************************)
EXTENDS SegmentStore

\* "WAL | Replay safety for recent writes", "Compact - merge small segments to
\* reduce file count": committed documents that nobody deleted are there.
CommittedSurvive == committed \ deleted \subseteq Recoverable

\* The documents a query sees: the corpus without the ids the tombstone file
\* lists (fetch_documents, scan_table_id_metadata).
Visible == {d \in mem : d.id \notin tombs}

\* "deleted id must not appear": a deleted document is not seen again.
DeletedStaysHidden == pc = "idle" => Visible \cap deleted = {}

\* "deletion must survive restart": nor would opening the database again show
\* one, as a row of a segment that has no tombstone.
DeletionSurvivesRestart ==
  pc = "idle" => \A d \in deleted \cap Stored : d.id \in tombs
=============================================================================
