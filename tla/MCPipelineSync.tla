--------------------------- MODULE MCPipelineSync -----------------------------
(***************************************************************************)
(* Instances of PipelineSync for TLC.                                      *)
(***************************************************************************)
EXTENDS PipelineSync

\* Cursor values of three or four rows: none; all different; two alike; the
\* first two NULL; and integers whose order as strings differs ("10" < "9").
NoCursor == [r \in Rows |-> 0]
Distinct == [r \in Rows |-> r]
Tied == [r \in Rows |-> IF r <= 2 THEN r ELSE r - 1]
NullsFirst == [r \in Rows |-> IF r <= 2 THEN 0 ELSE r]
EightToEleven == [r \in Rows |-> r + 7]

SameOrder == [v \in {0} \cup {Cur[r] : r \in Rows} |-> v]
AsStrings ==
  [v \in {0} \cup {Cur[r] : r \in Rows} |->
     CASE v = 0 -> 0 [] v = 10 -> 1 [] v = 11 -> 2 [] v = 8 -> 3 [] v = 9 -> 4]
=============================================================================
