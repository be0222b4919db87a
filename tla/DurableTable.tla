----------------------------- MODULE DurableTable -----------------------------
(***************************************************************************)
(* What a table promises: ingest adds new documents, a DELETE takes        *)
(* documents away for good, and nothing else changes the table.  The       *)
(* actions are relations between the table before and after.               *)
(***************************************************************************)

VARIABLES
  live,    \* documents a reader finds
  gone     \* documents that were deleted

Init == live = {} /\ gone = {}

\* add_documents: documents the table never had.
Commit ==
  /\ live \subseteq live'
  /\ (live' \ live) \cap gone = {}
  /\ gone' = gone

\* DELETE: what leaves `live` goes to `gone`, and stays there.
Delete ==
  /\ live' \cup gone' = live \cup gone
  /\ gone \subseteq gone'
  /\ live' \cap gone' = {}

Next == Commit \/ Delete

Spec == Init /\ [][Next]_<<live, gone>>
=============================================================================
