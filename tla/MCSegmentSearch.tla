---------------------------- MODULE MCSegmentSearch ----------------------------
(* A small instance of SegmentSearch: one document at a time, one with the   *)
(* word "b", then two with the word "a", the second with the better score.    *)
EXTENDS SegmentSearch

Text(w, s) == [word |-> w, score |-> s]
MCBatches == [n \in 0 .. MaxDocs |->
  CASE n = 0 -> {<<Text("b", 1)>>}
    [] n = 1 -> {<<Text("a", 1)>>}
    [] OTHER -> {<<Text("a", 2)>>}]

(* What a handle keeps is read by its own searches alone, so of a handle that  *)
(* none goes through only the session and its deletions' number matter.        *)
Seen ==
  LET of(f) == [h \in Searchers |-> f[h]]
  IN <<diskVars, counters, session, of(mem), of(joined), of(tombCache), of(indexCache),
       of(routeCache), nodeCache, of(own), UNION {own[h] : h \in Handles}, answer>>
=============================================================================
