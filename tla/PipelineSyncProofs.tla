-------------------------- MODULE PipelineSyncProofs ---------------------------
(***************************************************************************)
(* Theorems about PipelineSync: for any number of pipelines, runs, rows,   *)
(* failures, crashes and any batch size.                                   *)
(***************************************************************************)
EXTENDS PipelineSync, FiniteSetTheorems, WellFoundedInduction, TLAPS

-----------------------------------------------------------------------------
(* Cursor values *)

LEMMA CursorsFinite == IsFiniteSet(DOMAIN TextRank)
<1> DEFINE values == {Cur[r] : r \in Rows}
<1>1. Cur \in Surjection(Rows, values)
  BY SyncAssumption DEF Surjection
<1>2. IsFiniteSet(values)
  BY <1>1, FS_Surjection, SyncAssumption
<1>3. IsFiniteSet(values \cup {None})
  BY <1>2, FS_AddElement
<1>4. DOMAIN TextRank = values \cup {None}
  BY SyncAssumption
<1> QED BY <1>3, <1>4

\* TextMax is the largest of a non-empty set of cursor values.
LEMMA TextMaxIs ==
  ASSUME NEW S, S \subseteq DOMAIN TextRank, S # {}
  PROVE  TextMax(S) \in S /\ \A w \in S : TextRank[w] <= TextRank[TextMax(S)]
<1> DEFINE above(v) == {w \in S : TextRank[v] < TextRank[w]}
           sets == {above(v) : v \in S}
<1>1. IsFiniteSet(S)
  BY CursorsFinite, FS_Subset
<1>2. FiniteSubsetsOf(S) = SUBSET S
  BY <1>1, FS_FiniteSubsetsOfFinite
<1>3. IsWellFoundedOn(StrictSubsetOrdering(S), SUBSET S)
  BY <1>2, FS_StrictSubsetOrderingWellFounded
<1>4. sets \subseteq SUBSET S /\ sets # {}
  OBVIOUS
<1>5. PICK X \in sets : \A Y \in sets : ~ (<<Y, X>> \in StrictSubsetOrdering(S))
  <2> HIDE DEF sets
  <2> QED BY <1>3, <1>4, WFMin
<1>6. PICK v \in S : X = above(v)
  BY <1>5
<1>7. \A w \in S : TextRank[w] \in Nat
  BY SyncAssumption
<1>8. ASSUME NEW w \in S, ~ (TextRank[w] <= TextRank[v]) PROVE FALSE
  <2>1. TextRank[v] < TextRank[w]
    BY <1>7, <1>8
  <2>2. w \in above(v) /\ w \notin above(w)
    BY <1>7, <2>1
  <2>3. above(w) \subseteq above(v)
    BY <1>7, <2>1
  <2>4. <<above(w), above(v)>> \in StrictSubsetOrdering(S)
    <3>1. above(w) \in SUBSET S /\ above(v) \in SUBSET S /\ above(w) # above(v)
      BY <2>2
    <3> HIDE DEF above
    <3> QED BY <2>3, <3>1 DEF StrictSubsetOrdering
  <2>5. above(w) \in sets
    OBVIOUS
  <2> QED BY <1>5, <1>6, <2>4, <2>5
<1>9. \E x \in S : \A w \in S : TextRank[w] <= TextRank[x]
  BY <1>8
<1> QED BY <1>9 DEF TextMax

LEMMA CursorsOfType ==
  ASSUME NEW B, B \subseteq Rows
  PROVE  CursorsOf(B) \subseteq DOMAIN TextRank /\ None \notin CursorsOf(B)
BY SyncAssumption DEF CursorsOf

LEMMA PagesType ==
  ASSUME NEW at, source \subseteq Rows, NEW B \in Pages(at)
  PROVE  B \subseteq source
BY DEF Pages

LEMMA CursorsAreNat == DOMAIN TextRank \subseteq Nat /\ None \in DOMAIN TextRank
BY SyncAssumption DEF None

LEMMA NextCursorType ==
  ASSUME NEW at \in Nat, NEW B, B \subseteq Rows
  PROVE  NextCursor(at, B) \in Nat
<1>1. IsFiniteSet(B)
  BY FS_Subset, SyncAssumption
<1>2. Cardinality(B) \in Nat
  BY <1>1, FS_CardinalityType
<1>3. CursorsOf(B) # {} => TextMax(CursorsOf(B)) \in Nat
  BY CursorsOfType, TextMaxIs, CursorsAreNat
<1> QED BY <1>2, <1>3 DEF NextCursor

LEMMA MaxType ==
  ASSUME NEW m \in DOMAIN TextRank, NEW B, B \subseteq Rows
  PROVE  TextMax({m} \cup CursorsOf(B)) \in DOMAIN TextRank
BY CursorsOfType, TextMaxIs

-----------------------------------------------------------------------------
(* Type correctness *)

LEMMA InitType == Init => TypeOK
<1> SUFFICES ASSUME Init PROVE TypeOK
  OBVIOUS
<1>1. FreeJob \in JobType
  BY CursorsAreNat DEF FreeJob, JobType, None
<1>2. 0 \in 0 .. MaxCopies
  BY SyncAssumption
<1>3. job \in [Jobs -> JobType]
  BY <1>1 DEF Init
<1>4. table \in [Pipelines -> [Rows -> 0 .. MaxCopies]]
  BY <1>2 DEF Init
<1>5. last \in [Pipelines -> DOMAIN TextRank]
  BY CursorsAreNat DEF Init
<1>6. \A j \in Jobs : job[j].pc = "free"
  BY DEF Init, FreeJob
<1> QED BY <1>3, <1>4, <1>5, <1>6 DEF Init, TypeOK

\* A slot whose run is over.
LEMMA EndedType ==
  ASSUME TypeOK, NEW j \in Jobs
  PROVE  Ended(j) \in JobType /\ Ended(j).pc = "free" /\ Ended(j).pipe = job[j].pipe
<1>1. job[j].pipe \in Pipelines \cup {None}
  BY DEF TypeOK, JobType
<1> QED BY <1>1, CursorsAreNat DEF Ended, FreeJob, JobType, None

LEMMA AddRowsType ==
  ASSUME TypeOK, NEW j \in Jobs, job[j].pc # "free", AddRows(j)
  PROVE  /\ table' \in [Pipelines -> [Rows -> 0 .. MaxCopies]]
         /\ session' \in BOOLEAN /\ unindexed' \in BOOLEAN
<1> DEFINE p == job[j].pipe
           row == [r \in Rows |-> IF r \in job[j].got /\ table[p][r] < MaxCopies
                                  THEN table[p][r] + 1 ELSE table[p][r]]
<1>1. p \in Pipelines
  BY DEF TypeOK
<1>2. table \in [Pipelines -> [Rows -> 0 .. MaxCopies]] /\ MaxCopies \in Nat
  BY SyncAssumption DEF TypeOK
<1>3. row \in [Rows -> 0 .. MaxCopies]
  <2>1. ASSUME NEW r \in Rows PROVE row[r] \in 0 .. MaxCopies
    <3>1. table[p][r] \in 0 .. MaxCopies
      BY <1>1, <1>2
    <3> QED BY <1>2, <3>1
  <2> QED BY <2>1
<1>4. table' = [table EXCEPT ![p] = row]
  BY <1>1, <1>2 DEF AddRows
<1>5. table' \in [Pipelines -> [Rows -> 0 .. MaxCopies]]
  <2> HIDE DEF row
  <2> QED BY <1>1, <1>2, <1>3, <1>4
<1>6. session' \in BOOLEAN /\ unindexed' \in BOOLEAN
  BY DEF AddRows, TypeOK
<1> QED BY <1>5, <1>6

LEMMA SaveWatermarkType ==
  ASSUME TypeOK, NEW j \in Jobs, SaveWatermark(j)
  PROVE  last' \in [Pipelines -> DOMAIN TextRank]
<1>1. job[j].max \in DOMAIN TextRank
  BY DEF TypeOK, JobType
<1> QED BY <1>1 DEF SaveWatermark, TypeOK

\* One run changed, to a record of its type.
LEMMA JobsType ==
  ASSUME TypeOK, NEW j \in Jobs, NEW rec \in JobType, job' = [job EXCEPT ![j] = rec],
         rec.pc # "free" => rec.pipe \in Pipelines,
         rec.pc \in {"finish", "save"} => rec.state # "none"
  PROVE  /\ job' \in [Jobs -> JobType]
         /\ \A k \in Jobs :
              /\ job'[k].pc # "free" => job'[k].pipe \in Pipelines
              /\ job'[k].pc \in {"finish", "save"} => job'[k].state # "none"
BY DEF TypeOK

LEMMA RunType ==
  ASSUME TypeOK, NEW j \in Jobs, Run(j)
  PROVE  TypeOK'
<1> DEFINE b == job[j]
<1>1. b \in JobType /\ (b.pc # "free" => b.pipe \in Pipelines)
      /\ (b.pc \in {"finish", "save"} => b.state # "none")
  BY DEF TypeOK
<1>2. /\ b.pipe \in Pipelines \cup {None} /\ b.last \in DOMAIN TextRank
      /\ b.max \in DOMAIN TextRank /\ b.at \in Nat /\ b.got \subseteq Rows
      /\ b.visible \subseteq Rows
  BY <1>1 DEF JobType
<1>3. CASE Snapshot(j)
  <2>1. b.pipe \in Pipelines
    BY <1>1, <1>3 DEF Snapshot
  <2>2. CASE b.pipe \in stored
    <3> DEFINE rec == [b EXCEPT !.pc = "spawned", !.last = last[b.pipe], !.url = connected]
    <3>1. last[b.pipe] \in DOMAIN TextRank /\ connected \in BOOLEAN
      BY <2>1 DEF TypeOK
    <3>2. rec \in JobType /\ rec.pc = "spawned" /\ rec.pipe = b.pipe
      BY <1>1, <3>1 DEF JobType
    <3>3. job' = [job EXCEPT ![j] = rec]
      BY <1>3, <2>2 DEF Snapshot, TypeOK
    <3> HIDE DEF rec
    <3> QED BY <1>3, <2>1, <2>2, <3>2, <3>3, JobsType DEF Snapshot, TypeOK, storeVars, tableVars
  <2>3. CASE b.pipe \notin stored
    <3>1. job' = [job EXCEPT ![j] = Ended(j)]
      BY <1>3, <2>3 DEF Snapshot
    <3> QED BY <1>3, <2>3, <3>1, EndedType, JobsType DEF Snapshot, TypeOK, storeVars, tableVars
  <2> QED BY <2>2, <2>3
<1>4. CASE StartRun(j)
  <2> DEFINE rec == [b EXCEPT !.pc = "started"]
  <2>1. rec \in JobType /\ rec.pc = "started" /\ rec.pipe \in Pipelines
    BY <1>1, <1>4 DEF JobType, StartRun
  <2>2. job' = [job EXCEPT ![j] = rec]
    BY <1>4 DEF StartRun, TypeOK
  <2> HIDE DEF rec
  <2> QED BY <1>4, <2>1, <2>2, JobsType DEF StartRun, TypeOK, tableVars
<1>5. CASE NoConnection(j)
  <2>1. job' = [job EXCEPT ![j] = Ended(j)]
    BY <1>5 DEF NoConnection
  <2> QED BY <1>5, <2>1, EndedType, JobsType DEF NoConnection, TypeOK, storeVars, tableVars
<1>6. CASE Prepare(j)
  <2> DEFINE at == IF b.pipe \in Full THEN None ELSE b.last
             rec == [b EXCEPT !.pc = "loop", !.max = b.last, !.at = at, !.visible = source]
  <2>1. at \in Nat /\ source \subseteq Rows
    BY <1>2, CursorsAreNat DEF TypeOK, None
  <2>2. rec \in JobType /\ rec.pc = "loop" /\ rec.pipe \in Pipelines
    <3> HIDE DEF at
    <3> QED BY <1>1, <1>2, <1>6, <2>1 DEF JobType, Prepare
  <2>3. job' = [job EXCEPT ![j] = rec]
    BY <1>6 DEF Prepare, TypeOK
  <2>4. table' \in [Pipelines -> [Rows -> 0 .. MaxCopies]] /\ session' \in BOOLEAN
        /\ unindexed' \in BOOLEAN
    BY <1>6, SyncAssumption DEF Prepare, TypeOK
  <2> HIDE DEF rec
  <2> QED BY <1>6, <2>2, <2>3, <2>4, JobsType DEF Prepare, TypeOK, storeVars
<1>7. CASE CheckCancel(j)
  <2> DEFINE rec == [b EXCEPT !.pc = IF j \in cancelled THEN "finish" ELSE "fetch",
                              !.state = IF j \in cancelled THEN "cancelled" ELSE b.state]
  <2>1. rec \in JobType /\ rec.pc \in {"finish", "fetch"} /\ rec.pipe \in Pipelines
        /\ (rec.pc = "finish" => rec.state # "none")
    BY <1>1, <1>7 DEF JobType, CheckCancel
  <2>2. job' = [job EXCEPT ![j] = rec]
    BY <1>7 DEF CheckCancel, TypeOK
  <2> HIDE DEF rec
  <2> QED BY <1>7, <2>1, <2>2, JobsType DEF CheckCancel, TypeOK, storeVars, tableVars
<1>8. CASE Fetch(j)
  <2>1. PICK B \in Pages(b.at) :
          job' = IF B = {}
                 THEN [job EXCEPT ![j].pc = "finish", ![j].state = "done"]
                 ELSE [job EXCEPT ![j].pc = "add", ![j].got = B,
                                  ![j].max = TextMax({@} \cup CursorsOf(B))]
    BY <1>8 DEF Fetch
  <2>2. B \subseteq Rows
    BY PagesType DEF TypeOK
  <2> DEFINE m == TextMax({b.max} \cup CursorsOf(B))
             rec == IF B = {} THEN [b EXCEPT !.pc = "finish", !.state = "done"]
                    ELSE [b EXCEPT !.pc = "add", !.got = B, !.max = m]
  <2>3. m \in DOMAIN TextRank
    BY <1>2, <2>2, MaxType
  <2>4. rec \in JobType /\ rec.pc \in {"finish", "add"} /\ rec.pipe \in Pipelines
        /\ (rec.pc = "finish" => rec.state # "none")
    <3> HIDE DEF m
    <3> QED BY <1>1, <1>8, <2>2, <2>3 DEF JobType, Fetch
  <2>5. job' = [job EXCEPT ![j] = rec]
    BY <2>1 DEF TypeOK
  <2> HIDE DEF rec
  <2> QED BY <1>8, <2>4, <2>5, JobsType DEF Fetch, TypeOK, storeVars, tableVars
<1>9. CASE Add(j)
  <2> DEFINE n == NextCursor(b.at, b.got)
             short == Cardinality(b.got) < BatchSize
             rec == [b EXCEPT !.got = {}, !.at = n,
                              !.pc = IF short THEN "finish" ELSE "loop",
                              !.state = IF short THEN "done" ELSE b.state]
  <2>1. n \in Nat
    BY <1>2, NextCursorType
  <2>2. rec \in JobType /\ rec.pc \in {"finish", "loop"} /\ rec.pipe \in Pipelines
        /\ (rec.pc = "finish" => rec.state # "none")
    <3> HIDE DEF n, short
    <3> QED BY <1>1, <1>9, <2>1 DEF JobType, Add
  <2>3. job' = [job EXCEPT ![j] = rec]
    BY <1>9 DEF Add, TypeOK
  <2>4. table' \in [Pipelines -> [Rows -> 0 .. MaxCopies]] /\ session' \in BOOLEAN
        /\ unindexed' \in BOOLEAN
    BY <1>9, AddRowsType DEF Add
  <2> HIDE DEF rec
  <2>5. /\ job' \in [Jobs -> JobType]
        /\ \A k \in Jobs :
             /\ job'[k].pc # "free" => job'[k].pipe \in Pipelines
             /\ job'[k].pc \in {"finish", "save"} => job'[k].state # "none"
    BY <2>2, <2>3, JobsType
  <2> QED BY <1>9, <2>4, <2>5 DEF Add, TypeOK, storeVars
<1>10. CASE Finish(j)
  <2> DEFINE rec == [b EXCEPT !.pc = "save"]
  <2>1. rec \in JobType /\ rec.pipe \in Pipelines /\ rec.state # "none"
    BY <1>1, <1>10 DEF JobType, Finish
  <2>2. job' = [job EXCEPT ![j] = rec]
    BY <1>10 DEF Finish, TypeOK
  <2>3. session' \in BOOLEAN /\ unindexed' \in BOOLEAN
    BY <1>10 DEF Finish, TypeOK
  <2> HIDE DEF rec
  <2> QED BY <1>10, <2>1, <2>2, <2>3, JobsType DEF Finish, TypeOK, storeVars
<1>11. CASE SaveOutcome(j)
  <2> DEFINE rec == [b EXCEPT !.pc = "release"]
  <2>1. rec \in JobType /\ rec.pc = "release" /\ rec.pipe \in Pipelines
    BY <1>1, <1>11 DEF JobType, SaveOutcome
  <2>2. job' = [job EXCEPT ![j] = rec]
    BY <1>11 DEF SaveOutcome, TypeOK
  <2>3. last' \in [Pipelines -> DOMAIN TextRank]
    BY <1>11, SaveWatermarkType DEF SaveOutcome
  <2>4. b.state \in {"none", "done", "failed", "cancelled"}
    BY <1>1 DEF JobType
  <2>5. record' \in [Jobs -> {"none", "running", "done", "failed", "cancelled"}]
    BY <1>11, <2>4 DEF SaveOutcome, TypeOK
  <2> HIDE DEF rec
  <2> QED BY <1>11, <2>1, <2>2, <2>3, <2>5, JobsType DEF SaveOutcome, TypeOK, tableVars
<1>12. CASE Release(j)
  <2>1. job' = [job EXCEPT ![j] = Ended(j)]
    BY <1>12 DEF Release
  <2> QED BY <1>12, <2>1, EndedType, JobsType DEF Release, TypeOK, storeVars, tableVars
<1> QED BY <1>3, <1>4, <1>5, <1>6, <1>7, <1>8, <1>9, <1>10, <1>11, <1>12 DEF Run

LEMMA NextType == TypeOK /\ [Next]_vars => TypeOK'
<1> SUFFICES ASSUME TypeOK, [Next]_vars PROVE TypeOK'
  OBVIOUS
<1>1. ASSUME NEW p \in Pipelines, NEW j \in Jobs, Claim(p, j) PROVE TypeOK'
  <2> DEFINE rec == [job[j] EXCEPT !.pc = "claimed", !.pipe = p]
  <2>1. rec \in JobType /\ rec.pc = "claimed" /\ rec.pipe \in Pipelines
    BY DEF JobType, TypeOK
  <2>2. job' = [job EXCEPT ![j] = rec]
    BY <1>1 DEF Claim, TypeOK
  <2> HIDE DEF rec
  <2> QED BY <1>1, <2>1, <2>2, JobsType DEF Claim, TypeOK, storeVars, tableVars
<1>2. ASSUME NEW j \in Jobs, Run(j) PROVE TypeOK'
  BY <1>2, RunType
<1>3. ASSUME NEW j \in Jobs, Fail(j) PROVE TypeOK'
  <2> DEFINE rec == [job[j] EXCEPT !.pc = "save", !.state = "failed"]
  <2>1. job[j].pc # "free"
    BY <1>3 DEF Fail
  <2>2. rec \in JobType /\ rec.pipe \in Pipelines /\ rec.state # "none"
    <3>1. job[j] \in JobType /\ job[j].pipe \in Pipelines
      BY <2>1 DEF TypeOK
    <3> QED BY <3>1 DEF JobType
  <2>3. job' = [job EXCEPT ![j] = rec]
    BY <1>3 DEF Fail, TypeOK
  <2>4. table' \in [Pipelines -> [Rows -> 0 .. MaxCopies]] /\ session' \in BOOLEAN
        /\ unindexed' \in BOOLEAN
    BY <1>3, <2>1, AddRowsType DEF Fail, TypeOK, tableVars
  <2> HIDE DEF rec
  <2> QED BY <1>3, <2>2, <2>3, <2>4, JobsType DEF Fail, TypeOK, storeVars
<1>4. ASSUME NEW j \in Jobs, CancelJob(j) PROVE TypeOK'
  BY <1>4 DEF CancelJob, TypeOK, storeVars, tableVars
<1>5. ASSUME NEW r \in Rows, NewRow(r) PROVE TypeOK'
  BY <1>5 DEF NewRow, TypeOK, storeVars, tableVars
<1>6. ASSUME NEW p \in Pipelines, DeletePipeline(p) PROVE TypeOK'
  BY <1>6 DEF DeletePipeline, TypeOK, tableVars
<1>7. CASE DeleteConnection
  BY <1>7 DEF DeleteConnection, TypeOK, tableVars
<1>8. CASE ReplaceHandle
  BY <1>8 DEF ReplaceHandle, TypeOK, storeVars
<1>9. CASE Crash
  <2>1. last' \in [Pipelines -> DOMAIN TextRank]
    BY <1>9, SaveWatermarkType DEF Crash, TypeOK
  <2>2. \A j \in Jobs : Ended(j) \in JobType /\ Ended(j).pc = "free"
    BY EndedType
  <2>3. job' = [j \in Jobs |-> Ended(j)]
    BY <1>9 DEF Crash
  <2>4. /\ job' \in [Jobs -> JobType]
        /\ \A j \in Jobs : job'[j].pc = "free"
    BY <2>2, <2>3
  <2> QED BY <1>9, <2>1, <2>4 DEF Crash, TypeOK
<1>10. CASE UNCHANGED vars
  BY <1>10 DEF vars, TypeOK, storeVars, tableVars
<1> QED BY <1>1, <1>2, <1>3, <1>4, <1>5, <1>6, <1>7, <1>8, <1>9, <1>10 DEF Next

\* The store, the runs and the table keep their types: in particular a saved
\* watermark is always a value of the cursor column, never a position.
THEOREM SyncTypes == Spec => []TypeOK
BY InitType, NextType, PTL DEF Spec

-----------------------------------------------------------------------------
(* The watermark *)

\* No pipeline drops the table, the rows have different cursors (or NULL), and
\* the cursor values are ordered as their strings are.
Watermarked ==
  /\ Full = {} /\ CursorColumn = TRUE
  /\ \A r, q \in Rows : Cur[r] = Cur[q] /\ Cur[r] # None => r = q
  /\ \A v, w \in DOMAIN TextRank : v <= w <=> TextRank[v] <= TextRank[w]

\* Then TextMax is the maximum.
LEMMA MaxIs ==
  ASSUME Watermarked, NEW S, S \subseteq DOMAIN TextRank, S # {}
  PROVE  TextMax(S) \in S /\ \A w \in S : w <= TextMax(S)
BY TextMaxIs DEF Watermarked

\* The maximum of the cursors of a page and of the cursor it was fetched from
\* is the cursor the next page is fetched from.
LEMMA PageMax ==
  ASSUME Watermarked, TypeOK, NEW at \in DOMAIN TextRank, NEW B \in Pages(at)
  PROVE  TextMax({at} \cup CursorsOf(B)) = NextCursor(at, B)
<1> DEFINE C == CursorsOf(B)
<1>1. B \subseteq source /\ B \subseteq Rows
  BY PagesType DEF TypeOK
<1>2. C \subseteq DOMAIN TextRank /\ None \notin C /\ {at} \cup C \subseteq DOMAIN TextRank
  BY <1>1, CursorsOfType
<1>3. CASE C = {}
  <2>1. TextMax({at} \cup C) = at
    BY <1>2, <1>3, MaxIs
  <2> QED BY <1>3, <2>1 DEF NextCursor, Watermarked
<1>4. CASE C # {}
  <2>1. TextMax(C) \in C /\ \A w \in C : w <= TextMax(C)
    BY <1>2, <1>4, MaxIs
  <2>2. TextMax({at} \cup C) \in {at} \cup C
        /\ \A w \in {at} \cup C : w <= TextMax({at} \cup C)
    BY <1>2, MaxIs
  <2>3. \A w \in C : at < w
    <3>1. \A r \in B : at = None \/ Cur[r] > at
      BY DEF Pages, Watermarked
    <3>2. \A w \in C : w \in Nat /\ w # None /\ \E r \in B : w = Cur[r]
      BY <1>2, CursorsAreNat DEF CursorsOf
    <3> QED BY <3>1, <3>2, CursorsAreNat DEF None
  <2>4. {at} \cup C \subseteq Nat
    BY <1>2, CursorsAreNat
  <2>5. TextMax({at} \cup C) = TextMax(C)
    <3> HIDE DEF C
    <3> QED BY <2>1, <2>2, <2>3, <2>4
  <2> QED BY <1>4, <2>5 DEF NextCursor, Watermarked
<1> QED BY <1>3, <1>4

\* A page leaves out no row up to the cursor after it.
LEMMA PageComplete ==
  ASSUME Watermarked, TypeOK, NEW at \in DOMAIN TextRank, NEW B \in Pages(at),
         NEW r \in source, None < Cur[r], Cur[r] <= NextCursor(at, B)
  PROVE  r \in B \/ Cur[r] <= at
<1> DEFINE C == CursorsOf(B)
           past == IF at = None THEN source ELSE {q \in source : Cur[q] > at}
<1>1. B \subseteq source /\ source \subseteq Rows /\ B \subseteq Rows
  BY PagesType DEF TypeOK
<1>2. Cur \in [Rows -> Nat] /\ at \in Nat
  BY SyncAssumption, CursorsAreNat
<1>3. CASE C = {}
  BY <1>3 DEF NextCursor, Watermarked
<1>4. CASE C # {}
  <2>1. TextMax(C) \in C
    BY <1>1, <1>4, CursorsOfType, MaxIs
  <2>2. PICK q \in B : TextMax(C) = Cur[q]
    BY <2>1 DEF CursorsOf
  <2>3. NextCursor(at, B) = Cur[q]
    BY <1>4, <2>2 DEF NextCursor, Watermarked
  <2>4. SUFFICES ASSUME r \notin B, ~ (Cur[r] <= at) PROVE FALSE
    OBVIOUS
  <2>5. r \in past \ B
    BY <1>1, <1>2, <2>4
  <2>6. Cur[q] <= Cur[r]
    BY <2>5 DEF Pages, Watermarked
  <2>7. Cur[q] = Cur[r] /\ Cur[r] # None
    BY <1>1, <1>2, <2>3, <2>6 DEF None
  <2>8. q = r
    BY <1>1, <2>7 DEF Watermarked
  <2> QED BY <2>4, <2>8
<1> QED BY <1>3, <1>4

\* A row that appears is behind no cursor.
LEMMA NewRowPast ==
  ASSUME Watermarked, TypeOK, NEW r \in Rows, NewRow(r), NEW v \in DOMAIN TextRank,
         Behind(v), None < Cur[r]
  PROVE  ~ (Cur[r] <= v)
<1>1. Cur \in [Rows -> Nat] /\ v \in Nat /\ source \subseteq Rows /\ Rows \subseteq Nat
  BY SyncAssumption, CursorsAreNat DEF TypeOK
<1>2. CASE v = None
  BY <1>1, <1>2 DEF None
<1>3. CASE \E q \in source : v <= Cur[q]
  <2>1. PICK q \in source : v <= Cur[q]
    BY <1>3
  <2>2. q < r /\ q \in Rows
    BY <1>1 DEF NewRow
  <2>3. Cur[q] <= Cur[r]
    BY <2>2, SyncAssumption
  <2>4. Cur[q] # Cur[r]
    BY <1>1, <2>2 DEF Watermarked, None
  <2> QED BY <1>1, <2>1, <2>2, <2>3, <2>4
<1> QED BY <1>2, <1>3 DEF Behind

LEMMA UpToNewRow ==
  ASSUME Watermarked, TypeOK, NEW r \in Rows, NewRow(r), NEW p, NEW v \in DOMAIN TextRank,
         UpTo(p, v)
  PROVE  UpTo(p, v)'
<1>1. Behind(v)'
  BY DEF UpTo, Behind, NewRow
<1>2. Covered(p, v)'
  BY NewRowPast DEF UpTo, Covered, NewRow, tableVars
<1> QED BY <1>1, <1>2 DEF UpTo

\* While the source stays and the table only grows, what is covered stays so.
Grows == source' = source
         /\ \A p \in Pipelines, r \in Rows : table[p][r] > 0 => table'[p][r] > 0

LEMMA UpToGrows ==
  ASSUME TypeOK, Grows, NEW p \in Pipelines, NEW v, UpTo(p, v)
  PROVE  UpTo(p, v)'
BY DEF UpTo, Covered, Behind, Grows, TypeOK

LEMMA JobInvGrows ==
  ASSUME TypeOK, Grows, NEW j \in Jobs, job'[j] = job[j], JobInv(j)
  PROVE  JobInv(j)'
<1>1. CASE job[j].pc = "free"
  BY <1>1 DEF JobInv
<1>2. CASE job[j].pc # "free"
  <2>1. job[j].pipe \in Pipelines
    BY <1>2 DEF TypeOK
  <2>2. Behind(job[j].max) => Behind(job[j].max)'
    BY DEF Behind, Grows
  <2> QED BY <2>1, <2>2, UpToGrows DEF JobInv, NextCursor, CursorsOf, TextMax, Grows, TypeOK
<1> QED BY <1>1, <1>2

\* A step of run j that leaves the watermarks on disk alone.
LEMMA OneJob ==
  ASSUME TypeOK, WatermarkInv, Grows, last' = last, NEW j \in Jobs,
         \A k \in Jobs \ {j} : job'[k] = job[k], JobInv(j)'
  PROVE  WatermarkInv'
<1>1. \A p \in Pipelines : UpTo(p, last[p])'
  BY UpToGrows DEF WatermarkInv
<1>2. ASSUME NEW k \in Jobs PROVE JobInv(k)'
  <2>1. CASE k = j
    BY <2>1
  <2>2. CASE k # j
    BY <2>2, JobInvGrows DEF WatermarkInv
  <2> QED BY <2>1, <2>2
<1> QED BY <1>1, <1>2 DEF WatermarkInv

LEMMA InitInv == Init => WatermarkInv
<1> SUFFICES ASSUME Init PROVE WatermarkInv
  OBVIOUS
<1>1. \A p \in Pipelines : UpTo(p, last[p])
  <2>1. \A r \in source : Cur[r] \in Nat
    BY SyncAssumption DEF Init
  <2>2. \A p \in Pipelines : last[p] = 0
    BY DEF Init, None
  <2> QED BY <2>1, <2>2 DEF UpTo, Covered, Behind, None
<1>2. \A j \in Jobs : JobInv(j)
  BY DEF Init, FreeJob, JobInv
<1> QED BY <1>1, <1>2 DEF WatermarkInv

\* The rows at hand are put into the table.
LEMMA AddRowsGrows ==
  ASSUME TypeOK, NEW j \in Jobs, job[j].pc # "free", AddRows(j), source' = source
  PROVE  Grows /\ \A r \in Rows : r \in job[j].got => table'[job[j].pipe][r] > 0
<1> DEFINE p == job[j].pipe
<1>1. p \in Pipelines /\ MaxCopies \in Nat \ {0}
  BY SyncAssumption DEF TypeOK
<1>2. \A q \in Pipelines, r \in Rows : table[q][r] \in 0 .. MaxCopies
  BY DEF TypeOK
<1>3. \A q \in Pipelines, r \in Rows :
        table'[q][r] = IF q = p /\ r \in job[j].got /\ table[p][r] < MaxCopies
                       THEN table[p][r] + 1 ELSE table[q][r]
  BY <1>1 DEF AddRows, TypeOK
<1> QED BY <1>1, <1>2, <1>3 DEF Grows

\* What saving the outcome of run j does to the watermarks.
LEMMA SaveWatermarkInv ==
  ASSUME TypeOK, WatermarkInv, NEW j \in Jobs, job[j].pc = "save", SaveWatermark(j), Grows
  PROVE  \A p \in Pipelines : UpTo(p, last[p])'
<1>1. \A p \in Pipelines : UpTo(p, last'[p])
  <2>1. job[j].state # "failed" => UpTo(job[j].pipe, job[j].max)
    BY DEF WatermarkInv, JobInv
  <2> QED BY <2>1 DEF SaveWatermark, WatermarkInv, TypeOK
<1> QED BY <1>1, UpToGrows

LEMMA RunInv ==
  ASSUME Watermarked, TypeOK, WatermarkInv, NEW j \in Jobs, Run(j)
  PROVE  WatermarkInv'
<1> DEFINE b == job[j]
           p == b.pipe
<1>1. b \in JobType /\ (b.pc # "free" => p \in Pipelines) /\ JobInv(j)
      /\ job \in [Jobs -> JobType]
  BY DEF TypeOK, WatermarkInv
\* The values before the step.
<1>0. PICK q, v, l : q = b.pipe /\ v = b.max /\ l = b.last
  OBVIOUS
<1>2. b.max \in DOMAIN TextRank /\ b.last \in DOMAIN TextRank /\ b.got \subseteq Rows
  BY <1>1 DEF JobType
<1>3. CASE Snapshot(j)
  <2>1. Grows /\ last' = last /\ \A k \in Jobs \ {j} : job'[k] = job[k]
    BY <1>1, <1>3 DEF Snapshot, storeVars, tableVars, Grows
  <2>2. JobInv(j)'
    <3>1. CASE p \in stored
      <4>1. job'[j].pc = "spawned" /\ job'[j].pipe = p /\ job'[j].last = last[p]
        BY <1>1, <1>3, <3>1 DEF Snapshot, JobType
      <4>2. PICK w : w = last[p]
        OBVIOUS
      <4>3. UpTo(q, w)'
        BY <1>0, <1>1, <1>3, <2>1, <4>2, UpToGrows DEF WatermarkInv, Snapshot
      <4> QED BY <1>0, <2>1, <4>1, <4>2, <4>3 DEF JobInv
    <3>2. CASE p \notin stored
      <4>1. job'[j].pc = "free"
        BY <1>1, <1>3, <3>2, EndedType DEF Snapshot
      <4> QED BY <4>1 DEF JobInv
    <3> QED BY <3>1, <3>2
  <2> QED BY <2>1, <2>2, OneJob
<1>4. CASE StartRun(j)
  <2>1. Grows /\ last' = last /\ \A k \in Jobs \ {j} : job'[k] = job[k]
    BY <1>1, <1>4 DEF StartRun, tableVars, Grows
  <2>2. job'[j].pc = "started" /\ job'[j].pipe = p /\ job'[j].last = b.last
    BY <1>1, <1>4 DEF StartRun
  <2>3. UpTo(q, l)'
    BY <1>0, <1>1, <1>4, <2>1, UpToGrows DEF StartRun, JobInv
  <2>4. JobInv(j)'
    BY <1>0, <2>2, <2>3 DEF JobInv
  <2> QED BY <2>1, <2>4, OneJob
<1>5. CASE NoConnection(j)
  <2>1. Grows /\ last' = last /\ \A k \in Jobs \ {j} : job'[k] = job[k]
    BY <1>1, <1>5 DEF NoConnection, storeVars, tableVars, Grows
  <2>2. job'[j].pc = "free"
    BY <1>1, <1>5, EndedType DEF NoConnection
  <2> QED BY <2>1, <2>2, OneJob DEF JobInv
<1>6. CASE Prepare(j)
  <2>1. Grows /\ last' = last /\ \A k \in Jobs \ {j} : job'[k] = job[k]
    BY <1>1, <1>6 DEF Prepare, storeVars, Grows, Watermarked
  <2>2. job'[j].pc = "loop" /\ job'[j].pipe = p /\ job'[j].max = b.last /\ job'[j].at = b.last
    BY <1>1, <1>6 DEF Prepare, Watermarked
  <2>3. UpTo(q, l)'
    BY <1>0, <1>1, <1>6, <2>1, UpToGrows DEF Prepare, JobInv
  <2>4. JobInv(j)'
    BY <1>0, <2>2, <2>3 DEF JobInv
  <2> QED BY <2>1, <2>4, OneJob
<1>7. CASE CheckCancel(j)
  <2>1. Grows /\ last' = last /\ \A k \in Jobs \ {j} : job'[k] = job[k]
    BY <1>1, <1>7 DEF CheckCancel, storeVars, tableVars, Grows
  <2>2. job'[j].pc \in {"finish", "fetch"} /\ job'[j].pipe = p /\ job'[j].max = b.max
        /\ job'[j].at = b.at
    BY <1>1, <1>7 DEF CheckCancel
  <2>3. UpTo(q, v)' /\ b.at = b.max
    BY <1>0, <1>1, <1>7, <2>1, UpToGrows DEF CheckCancel, JobInv
  <2>4. JobInv(j)'
    BY <1>0, <2>2, <2>3 DEF JobInv
  <2> QED BY <2>1, <2>4, OneJob
<1>8. CASE Fetch(j)
  <2>1. Grows /\ last' = last /\ \A k \in Jobs \ {j} : job'[k] = job[k]
    BY <1>1, <1>8 DEF Fetch, storeVars, tableVars, Grows
  <2>2. PICK B \in Pages(b.at) :
          job' = IF B = {}
                 THEN [job EXCEPT ![j].pc = "finish", ![j].state = "done"]
                 ELSE [job EXCEPT ![j].pc = "add", ![j].got = B,
                                  ![j].max = TextMax({@} \cup CursorsOf(B))]
    BY <1>8 DEF Fetch
  <2>3. b.at = b.max /\ UpTo(p, b.max) /\ p \in Pipelines
    BY <1>1, <1>8 DEF Fetch, JobInv
  <2>4. CASE B = {}
    <3>1. job'[j].pc = "finish" /\ job'[j].pipe = p /\ job'[j].max = b.max
      BY <1>1, <2>2, <2>4
    <3>2. UpTo(q, v)'
      BY <1>0, <2>1, <2>3, UpToGrows
    <3>3. JobInv(j)'
      BY <1>0, <3>1, <3>2 DEF JobInv
    <3> QED BY <2>1, <3>3, OneJob
  <2>5. CASE B # {}
    <3>1. PICK m : m = NextCursor(b.at, B)
      OBVIOUS
    <3>2. m = TextMax({b.max} \cup CursorsOf(B))
      BY <1>2, <2>3, <3>1, PageMax
    <3>3. /\ job'[j].pc = "add" /\ job'[j].pipe = p /\ job'[j].got = B
          /\ job'[j].at = b.at /\ job'[j].max = m
      BY <1>1, <2>2, <2>5, <3>2 DEF JobType
    <3>4. B \subseteq Rows /\ B \subseteq source
      BY PagesType DEF TypeOK
    <3>5. Behind(m)
      <4>1. CASE CursorsOf(B) = {}
        BY <2>3, <3>1, <4>1 DEF NextCursor, Watermarked, UpTo
      <4>2. CASE CursorsOf(B) # {}
        <5>1. m \in CursorsOf(B)
          BY <3>1, <3>4, <4>2, CursorsOfType, MaxIs DEF NextCursor, Watermarked
        <5>2. PICK r \in B : m = Cur[r]
          BY <5>1 DEF CursorsOf
        <5>3. Cur[r] \in Nat
          BY <3>4, SyncAssumption
        <5> QED BY <3>4, <5>2, <5>3 DEF Behind
      <4> QED BY <4>1, <4>2
    <3>6. \A r \in source : None < Cur[r] /\ Cur[r] <= m => r \in B \/ table[p][r] > 0
      BY <1>2, <2>3, <3>1, PageComplete DEF UpTo, Covered
    <3>7. source' = source /\ table' = table
      BY <1>8 DEF Fetch, tableVars
    <3>8. JobInv(j)'
      <4>1. job'[j].max = NextCursor(job[j].at, job[j].got)'
        BY <3>1, <3>3 DEF NextCursor, CursorsOf, TextMax
      <4>2. Behind(job[j].max)'
        BY <3>3, <3>5, <3>7 DEF Behind
      <4> QED BY <3>3, <3>6, <3>7, <4>1, <4>2 DEF JobInv
    <3> QED BY <2>1, <3>8, OneJob
  <2> QED BY <2>4, <2>5
<1>9. CASE Add(j)
  <2>1. Grows /\ \A r \in Rows : r \in b.got => table'[p][r] > 0
    BY <1>9, AddRowsGrows DEF Add
  <2>2. last' = last /\ \A k \in Jobs \ {j} : job'[k] = job[k]
    BY <1>1, <1>9 DEF Add, storeVars
  <2>3. /\ b.max = NextCursor(b.at, b.got) /\ Behind(b.max) /\ p \in Pipelines
        /\ \A r \in source : None < Cur[r] /\ Cur[r] <= b.max => r \in b.got \/ table[p][r] > 0
    BY <1>1, <1>9 DEF Add, JobInv
  <2>4. /\ job'[j].pc \in {"finish", "loop"} /\ job'[j].pipe = p
        /\ job'[j].at = NextCursor(b.at, b.got) /\ job'[j].max = b.max
    BY <1>1, <1>9 DEF Add
  <2>5. UpTo(q, v)'
    <3>1. source' = source /\ source \subseteq Rows
      BY <2>1 DEF Grows, TypeOK
    <3>2. \A r \in source : None < Cur[r] /\ Cur[r] <= b.max => table'[p][r] > 0
      BY <2>1, <2>3, <3>1 DEF Grows
    <3> QED BY <1>0, <2>3, <3>1, <3>2 DEF UpTo, Covered, Behind
  <2>6. JobInv(j)'
    BY <1>0, <2>3, <2>4, <2>5 DEF JobInv
  <2> QED BY <2>1, <2>2, <2>6, OneJob
<1>10. CASE Finish(j)
  <2>1. Grows /\ last' = last /\ \A k \in Jobs \ {j} : job'[k] = job[k]
    BY <1>1, <1>10 DEF Finish, storeVars, Grows
  <2>2. job'[j].pc = "save" /\ job'[j].pipe = p /\ job'[j].max = b.max
    BY <1>1, <1>10 DEF Finish
  <2>3. UpTo(q, v)'
    BY <1>0, <1>1, <1>10, <2>1, UpToGrows DEF Finish, JobInv
  <2>4. JobInv(j)'
    BY <1>0, <2>2, <2>3 DEF JobInv
  <2> QED BY <2>1, <2>4, OneJob
<1>11. CASE SaveOutcome(j)
  <2>1. Grows /\ \A k \in Jobs \ {j} : job'[k] = job[k]
    BY <1>1, <1>11 DEF SaveOutcome, tableVars, Grows
  <2>2. \A i \in Pipelines : UpTo(i, last[i])'
    BY <1>11, <2>1, SaveWatermarkInv DEF SaveOutcome
  <2>3. job'[j].pc = "release"
    BY <1>1, <1>11 DEF SaveOutcome
  <2>4. ASSUME NEW k \in Jobs PROVE JobInv(k)'
    <3>1. CASE k = j
      BY <2>3, <3>1 DEF JobInv
    <3>2. CASE k # j
      BY <2>1, <3>2, JobInvGrows DEF WatermarkInv
    <3> QED BY <3>1, <3>2
  <2> QED BY <2>2, <2>4 DEF WatermarkInv
<1>12. CASE Release(j)
  <2>1. Grows /\ last' = last /\ \A k \in Jobs \ {j} : job'[k] = job[k]
    BY <1>1, <1>12 DEF Release, storeVars, tableVars, Grows
  <2>2. job'[j].pc = "free"
    BY <1>1, <1>12, EndedType DEF Release
  <2> QED BY <2>1, <2>2, OneJob DEF JobInv
<1> QED BY <1>3, <1>4, <1>5, <1>6, <1>7, <1>8, <1>9, <1>10, <1>11, <1>12 DEF Run

LEMMA NextInv ==
  ASSUME Watermarked, TypeOK, WatermarkInv, [Next]_vars
  PROVE  WatermarkInv'
<1>1. job \in [Jobs -> JobType]
  BY DEF TypeOK
<1>2. ASSUME NEW p \in Pipelines, NEW j \in Jobs, Claim(p, j) PROVE WatermarkInv'
  <2>1. Grows /\ last' = last /\ \A k \in Jobs \ {j} : job'[k] = job[k]
    BY <1>1, <1>2 DEF Claim, storeVars, tableVars, Grows
  <2>2. job'[j].pc = "claimed"
    BY <1>1, <1>2 DEF Claim
  <2> QED BY <2>1, <2>2, OneJob DEF JobInv
<1>3. ASSUME NEW j \in Jobs, Run(j) PROVE WatermarkInv'
  BY <1>3, RunInv
<1>4. ASSUME NEW j \in Jobs, Fail(j) PROVE WatermarkInv'
  <2>1. last' = last /\ \A k \in Jobs \ {j} : job'[k] = job[k]
    BY <1>1, <1>4 DEF Fail, storeVars
  <2>2. job'[j].pc = "save" /\ job'[j].state = "failed"
    BY <1>1, <1>4 DEF Fail
  <2>3. Grows
    <3>1. source' = source
      BY <1>4 DEF Fail
    <3>2. CASE job[j].pc = "add" /\ AddRows(j)
      BY <3>1, <3>2, AddRowsGrows
    <3>3. CASE table' = table
      BY <3>1, <3>3 DEF Grows
    <3> QED BY <1>4, <3>2, <3>3 DEF Fail, tableVars
  <2> QED BY <2>1, <2>2, <2>3, OneJob DEF JobInv
<1>5. ASSUME Grows, last' = last, job' = job PROVE WatermarkInv'
  BY <1>5, UpToGrows, JobInvGrows DEF WatermarkInv
<1>6. ASSUME NEW j \in Jobs, CancelJob(j) PROVE WatermarkInv'
  BY <1>5, <1>6 DEF CancelJob, storeVars, tableVars, Grows
<1>7. ASSUME NEW r \in Rows, NewRow(r) PROVE WatermarkInv'
  <2>1. last' = last /\ job' = job /\ table' = table /\ source \subseteq source'
    BY <1>7 DEF NewRow, storeVars, tableVars
  <2>2. \A p \in Pipelines : UpTo(p, last[p])'
    BY <1>7, <2>1, UpToNewRow DEF WatermarkInv, TypeOK
  <2>3. ASSUME NEW j \in Jobs PROVE JobInv(j)'
    <3>1. job[j].max \in DOMAIN TextRank /\ job[j].last \in DOMAIN TextRank
      BY <1>1 DEF JobType
    <3>2. Behind(job[j].max) => Behind(job[j].max)'
      BY <2>1 DEF Behind
    <3>3. job[j].pc \in {"loop", "fetch", "finish"} \/ (job[j].pc = "save" /\ job[j].state # "failed")
            => UpTo(job[j].pipe, job[j].max)'
      BY <1>7, <2>1, <3>1, UpToNewRow DEF WatermarkInv, JobInv
    <3>4. job[j].pc \in {"spawned", "started"} => UpTo(job[j].pipe, job[j].last)'
      BY <1>7, <2>1, <3>1, UpToNewRow DEF WatermarkInv, JobInv
    <3>5. CASE job[j].pc = "add"
      <4>1. JobInv(j)
        BY DEF WatermarkInv
      <4>2. None < Cur[r] => ~ (Cur[r] <= job[j].max)
        BY <1>7, <3>1, <3>5, <4>1, NewRowPast DEF JobInv
      <4>3. source' = source \cup {r}
        BY <1>7 DEF NewRow
      <4> QED BY <2>1, <3>2, <3>5, <4>1, <4>2, <4>3 DEF JobInv, NextCursor, CursorsOf, TextMax
    <3>6. CASE job[j].pc # "add"
      BY <2>1, <3>3, <3>4, <3>6 DEF WatermarkInv, JobInv
    <3> QED BY <3>5, <3>6
  <2> QED BY <2>2, <2>3 DEF WatermarkInv
<1>8. ASSUME NEW p \in Pipelines, DeletePipeline(p) PROVE WatermarkInv'
  BY <1>5, <1>8 DEF DeletePipeline, tableVars, Grows
<1>9. CASE DeleteConnection
  BY <1>5, <1>9 DEF DeleteConnection, tableVars, Grows
<1>10. CASE ReplaceHandle
  BY <1>5, <1>10 DEF ReplaceHandle, storeVars, Grows
<1>11. CASE Crash
  <2>1. Grows
    BY <1>11 DEF Crash, Grows
  <2>2. \A p \in Pipelines : UpTo(p, last[p])'
    <3>1. CASE last' = last
      BY <2>1, <3>1, UpToGrows DEF WatermarkInv
    <3>2. CASE last' # last
      BY <1>11, <2>1, <3>2, SaveWatermarkInv DEF Crash
    <3> QED BY <3>1, <3>2
  <2>3. \A j \in Jobs : job'[j].pc = "free"
    BY <1>11, EndedType DEF Crash
  <2> QED BY <2>2, <2>3 DEF WatermarkInv, JobInv
<1>12. CASE UNCHANGED vars
  BY <1>5, <1>12 DEF vars, storeVars, tableVars, Grows
<1> QED BY <1>2, <1>3, <1>4, <1>6, <1>7, <1>8, <1>9, <1>10, <1>11, <1>12 DEF Next

\* Under those conditions the watermark of a pipeline never passes a row of
\* the source that is not in the table.
THEOREM WatermarkSafe == ASSUME Watermarked PROVE Spec => []WatermarkCovers
<1>1. TypeOK /\ WatermarkInv /\ [Next]_vars => (TypeOK /\ WatermarkInv)'
  BY NextType, NextInv
<1>2. TypeOK /\ WatermarkInv => WatermarkCovers
  BY DEF WatermarkInv, WatermarkCovers, Incremental, UpTo, Covered
<1>3. Init => TypeOK /\ WatermarkInv
  BY InitType, InitInv
<1> QED BY <1>1, <1>2, <1>3, PTL DEF Spec

-----------------------------------------------------------------------------
(* Copies *)

\* No cursor of the source is NULL.
NoNulls == \A r \in Rows : Cur[r] # None

\* What a step leaves of the claims of a run it does not touch.
LEMMA PastKept ==
  ASSUME TypeOK, NEW p \in Pipelines, NEW v \in Nat, Past(p, v), table'[p] = table[p],
         failures' \in Nat, crashes' \in Nat, failures \in Nat, crashes \in Nat,
         failures + crashes <= failures' + crashes'
  PROVE  Past(p, v)'
<1>1. ASSUME NEW r \in Rows, v < Cur[r] PROVE table'[p][r] <= failures' + crashes'
  <2>1. table[p][r] \in Nat
    BY SyncAssumption DEF TypeOK
  <2>2. table[p][r] <= failures + crashes
    BY <1>1 DEF Past
  <2> QED BY <2>1, <2>2
<1> QED BY <1>1 DEF Past

\* The counters only grow.
Counted ==
  /\ failures \in Nat /\ crashes \in Nat /\ failures' \in Nat /\ crashes' \in Nat
  /\ failures + crashes <= failures' + crashes'

LEMMA JobCopiesKept ==
  ASSUME TypeOK, Counted, NEW j \in Jobs, JobCopies(j), job'[j] = job[j], stored' \subseteq stored,
         job[j].pc # "free" => table'[job[j].pipe] = table[job[j].pipe] /\ last'[job[j].pipe] = last[job[j].pipe]
  PROVE  JobCopies(j)'
<1>1. CASE job[j].pc = "free"
  BY <1>1 DEF JobCopies
<1>2. CASE job[j].pc # "free"
  <2> DEFINE p == job[j].pipe
  <2>1. /\ p \in Pipelines /\ last[p] \in Nat /\ job[j].last \in Nat /\ job[j].at \in Nat
        /\ job[j].max \in Nat /\ None \in Nat
    BY <1>2, CursorsAreNat DEF TypeOK, JobType, None
  <2>2. PICK q, w, l, a, m : q = p /\ w = last[p] /\ l = job[j].last /\ a = job[j].at /\ m = job[j].max
    OBVIOUS
  <2>3. /\ Past(q, w) => Past(q, w)'
        /\ Past(q, l) => Past(q, l)'
        /\ Past(q, a) => Past(q, a)'
        /\ Past(q, m) => Past(q, m)'
        /\ Past(q, None) => Past(q, None)'
    BY <1>2, <2>1, <2>2, PastKept DEF Counted
  <2>4. stored' \subseteq stored /\ job'[j] = job[j] /\ last'[q] = last[q]
    BY <1>2, <2>2
  <2> QED BY <1>2, <2>2, <2>3, <2>4 DEF JobCopies
<1> QED BY <1>1, <1>2

\* A number of copies that was allowed for stays so.
LEMMA StillWithin ==
  ASSUME NEW n \in Nat, NEW f \in Nat, NEW c \in Nat, NEW g \in Nat, NEW d \in Nat,
         n <= 1 + f + c, f + c <= g + d
  PROVE  n <= 1 + g + d
OBVIOUS

LEMMA StillCounted ==
  ASSUME Counted, NEW n \in Nat, n <= 1 + failures + crashes
  PROVE  n <= 1 + failures' + crashes'
BY StillWithin DEF Counted

\* A step of the run j, which may change its pipeline's rows and watermark, and
\* which keeps its pipeline or gives it back.
LEMMA OneCopies ==
  ASSUME TypeOK, TypeOK', CopiesInv, Counted, NEW j \in Jobs, NEW p \in Pipelines,
         job[j].pc # "free", job[j].pipe = p,
         \A k \in Jobs \ {j} : job'[k] = job[k],
         stored' = stored,
         \A q \in Pipelines \ {p} : table'[q] = table[q] /\ last'[q] = last[q],
         \A r \in Rows : table'[p][r] <= 1 + failures' + crashes',
         \/ job'[j].pc # "free" /\ job'[j].pipe = p /\ running' = running /\ JobCopies(j)'
         \/ job'[j].pc = "free" /\ running' = running \ {p} /\ (p \in stored => Past(p, last[p])')
  PROVE  CopiesInv'
<1>1. p \in running /\ \A k \in Jobs \ {j} : job[k].pc # "free" => job[k].pipe # p /\ job[k].pipe \in running \ {p}
  BY DEF CopiesInv, Exclusive
<1>2. Exclusive'
  BY <1>1 DEF CopiesInv, Exclusive
<1>3. ASSUME NEW q \in (stored \ running)' PROVE Past(q, last[q])'
  <2>1. CASE q = p
    BY <1>1, <1>3, <2>1
  <2>2. CASE q # p
    <3>1. q \in stored \ running /\ q \in Pipelines
      BY <1>3, <2>2 DEF TypeOK
    <3>2. PICK v : v = last[q]
      OBVIOUS
    <3>3. v \in Nat /\ Past(q, v)
      BY <3>1, <3>2, CursorsAreNat DEF CopiesInv, TypeOK
    <3>4. Past(q, v)'
      BY <2>2, <3>1, <3>3, PastKept DEF Counted
    <3> QED BY <2>2, <3>1, <3>2, <3>4
  <2> QED BY <2>1, <2>2
<1>4. ASSUME NEW k \in Jobs PROVE JobCopies(k)'
  <2>1. CASE k = j
    BY <2>1 DEF JobCopies
  <2>2. CASE k # j
    <3>1. job[k].pc # "free" => job[k].pipe \in Pipelines \ {p}
      BY <1>1, <2>2 DEF TypeOK
    <3> QED BY <2>2, <3>1, JobCopiesKept DEF CopiesInv
  <2> QED BY <2>1, <2>2
<1>5. ASSUME NEW q \in Pipelines, NEW r \in Rows PROVE table'[q][r] <= 1 + failures' + crashes'
  <2>1. CASE q # p
    <3>1. table[q][r] \in Nat /\ table[q][r] <= 1 + failures + crashes
      BY SyncAssumption DEF TypeOK, CopiesInv
    <3>2. table'[q][r] = table[q][r]
      BY <2>1
    <3> QED BY <3>1, <3>2, StillCounted
  <2> QED BY <2>1
<1> QED BY <1>2, <1>3, <1>4, <1>5 DEF CopiesInv

\* A step that touches no run, no row and no watermark.
LEMMA NoCopies ==
  ASSUME TypeOK, CopiesInv, Counted, job' = job, table' = table, last' = last, running' = running,
         stored' \subseteq stored
  PROVE  CopiesInv'
<1>1. Exclusive'
  BY DEF CopiesInv, Exclusive
<1>2. ASSUME NEW q \in (stored \ running)' PROVE Past(q, last[q])'
  <2>1. q \in Pipelines /\ q \in stored \ running
    BY <1>2 DEF TypeOK
  <2>2. PICK v : v = last[q]
    OBVIOUS
  <2>3. v \in Nat /\ Past(q, v)
    BY <2>1, <2>2, CursorsAreNat DEF CopiesInv, TypeOK
  <2> QED BY <2>1, <2>2, <2>3, PastKept DEF Counted
<1>3. ASSUME NEW k \in Jobs PROVE JobCopies(k)'
  BY JobCopiesKept DEF CopiesInv
<1>4. ASSUME NEW q \in Pipelines, NEW r \in Rows PROVE table'[q][r] <= 1 + failures' + crashes'
  <2>1. table[q][r] \in Nat /\ table[q][r] <= 1 + failures + crashes
    BY SyncAssumption DEF TypeOK, CopiesInv
  <2>2. table'[q][r] = table[q][r]
    OBVIOUS
  <2> QED BY <2>1, <2>2, StillCounted
<1> QED BY <1>1, <1>2, <1>3, <1>4 DEF CopiesInv

LEMMA InitCopies == Init => CopiesInv
<1> SUFFICES ASSUME Init PROVE CopiesInv
  OBVIOUS
<1>1. \A q \in Pipelines, r \in Rows : table[q][r] = 0 /\ failures = 0 /\ crashes = 0
  BY DEF Init
<1>2. \A j \in Jobs : job[j].pc = "free"
  BY DEF Init, FreeJob
<1>3. \A q \in stored : q \in Pipelines
  BY DEF Init
<1> QED BY <1>1, <1>2, <1>3 DEF CopiesInv, Exclusive, JobCopies, Past

\* Adding the page at hand to the pipeline's rows: at most one copy more, of the
\* rows of the page only.
LEMMA AddRowsCopies ==
  ASSUME TypeOK, NEW j \in Jobs, job[j].pc # "free", AddRows(j)
  PROVE  /\ \A q \in Pipelines \ {job[j].pipe} : table'[q] = table[q]
         /\ \A r \in Rows : table'[job[j].pipe][r] <= table[job[j].pipe][r] + (IF r \in job[j].got THEN 1 ELSE 0)
<1> DEFINE p == job[j].pipe
<1>1. p \in Pipelines /\ table \in [Pipelines -> [Rows -> 0 .. MaxCopies]] /\ MaxCopies \in Nat
  BY SyncAssumption DEF TypeOK
<1>2. \A q \in Pipelines \ {p} : table'[q] = table[q]
  BY <1>1 DEF AddRows
<1>3. \A r \in Rows : table'[p][r] = IF r \in job[j].got /\ table[p][r] < MaxCopies
                                     THEN table[p][r] + 1 ELSE table[p][r]
  BY <1>1 DEF AddRows
<1>4. \A r \in Rows : table[p][r] \in Nat
  BY <1>1
<1> QED BY <1>2, <1>3, <1>4

\* The rows of a page are past the cursor it was fetched from, and the cursor after
\* it is behind none of them.
LEMMA PagePast ==
  ASSUME Watermarked, NoNulls, TypeOK, NEW at \in DOMAIN TextRank, NEW B \in Pages(at)
  PROVE  \A r \in B : at < Cur[r]
<1>1. \A r \in B : r \in Rows /\ (at = None \/ Cur[r] > at)
  BY PagesType DEF Pages, Watermarked, TypeOK
<1>2. \A r \in Rows : Cur[r] \in Nat /\ Cur[r] # 0
  BY SyncAssumption DEF NoNulls, None
<1>3. at \in Nat
  BY CursorsAreNat
<1> QED BY <1>1, <1>2, <1>3 DEF None

LEMMA NextCursorPast ==
  ASSUME Watermarked, NoNulls, NEW at \in Nat, NEW B \in SUBSET Rows,
         \A r \in B : at < Cur[r]
  PROVE  /\ NextCursor(at, B) \in Nat /\ at <= NextCursor(at, B)
         /\ \A r \in B : Cur[r] <= NextCursor(at, B)
<1> DEFINE C == CursorsOf(B)
<1>1. at \in Nat /\ \A r \in Rows : Cur[r] \in Nat /\ Cur[r] # None
  BY SyncAssumption, CursorsAreNat DEF NoNulls
<1>2. C \subseteq DOMAIN TextRank
  BY CursorsOfType
<1>3. C = {Cur[r] : r \in B}
  BY <1>1 DEF CursorsOf, Watermarked
<1>4. CASE C = {}
  <2>1. NextCursor(at, B) = at /\ B = {}
    BY <1>3, <1>4 DEF NextCursor, Watermarked
  <2> QED BY <1>1, <2>1
<1>5. CASE C # {}
  <2>1. NextCursor(at, B) = TextMax(C)
    BY <1>5 DEF NextCursor, Watermarked
  <2>2. TextMax(C) \in C /\ \A w \in C : w <= TextMax(C)
    BY <1>2, <1>5, MaxIs
  <2>3. PICK r \in B : TextMax(C) = Cur[r]
    BY <1>3, <2>2
  <2>4. \A q \in B : Cur[q] <= TextMax(C)
    BY <1>3, <2>2
  <2> QED BY <1>1, <2>1, <2>3, <2>4
<1> QED BY <1>4, <1>5

\* A run's step that adds no row: what it carries is what it carried.
LEMMA QuietCopies ==
  ASSUME TypeOK, TypeOK', CopiesInv, NEW j \in Jobs, job[j].pc # "free",
         failures \in Nat, crashes \in Nat,
         \A k \in Jobs \ {j} : job'[k] = job[k], stored' = stored, last' = last, table' = table,
         failures' = failures, crashes' = crashes,
         \/ job'[j].pc # "free" /\ job'[j].pipe = job[j].pipe /\ running' = running /\ JobCopies(j)'
         \/ /\ job'[j].pc = "free" /\ running' = running \ {job[j].pipe}
            /\ job[j].pipe \in stored => Past(job[j].pipe, last[job[j].pipe])
  PROVE  CopiesInv'
<1>1. PICK p \in Pipelines : p = job[j].pipe
  BY DEF TypeOK
<1>2. Counted
  BY DEF Counted
<1>3. Past(p, last[p]) => Past(p, last[p])'
  BY DEF Past
<1>4. \A r \in Rows : table'[p][r] <= 1 + failures' + crashes'
  BY <1>1 DEF CopiesInv
<1> QED BY <1>1, <1>2, <1>3, <1>4, OneCopies

\* The two counters.
CountersOK == failures \in Nat /\ crashes \in Nat

\* The end of a page: the rows past the cursor after it are not in it.
LEMMA AddCopies ==
  ASSUME Watermarked, NoNulls, TypeOK, CopiesInv, CountersOK, NEW j \in Jobs, NEW p \in Pipelines, NEW v \in Nat,
         job[j].pc = "add", job[j].pipe = p, v = NextCursor(job[j].at, job[j].got), AddRows(j),
         failures' = failures, crashes' = crashes
  PROVE  Past(p, v)'
<1>1. /\ job[j].got \in SUBSET Rows /\ job[j].at \in Nat
      /\ \A r \in Rows : table[p][r] \in Nat
      /\ \A r \in Rows : Cur[r] \in Nat
  BY SyncAssumption DEF TypeOK, JobType
<1>2. Past(p, job[j].at) /\ \A r \in job[j].got : job[j].at < Cur[r]
  BY DEF CopiesInv, JobCopies
<1>3. job[j].at <= v /\ \A r \in job[j].got : Cur[r] <= v
  BY <1>1, <1>2, NextCursorPast
<1>4. \A r \in Rows : table'[p][r] <= table[p][r] + (IF r \in job[j].got THEN 1 ELSE 0)
  BY AddRowsCopies
<1>5. ASSUME NEW r \in Rows, v < Cur[r] PROVE table'[p][r] <= failures' + crashes'
  <2>1. r \notin job[j].got /\ job[j].at < Cur[r]
    BY <1>1, <1>3, <1>5
  <2>2. table[p][r] <= failures + crashes
    BY <1>2, <2>1 DEF Past
  <2>3. table'[p][r] <= table[p][r]
    BY <1>1, <1>4, <2>1
  <2>4. table'[p][r] \in Nat
    BY <1>1, AddRowsType DEF TypeOK
  <2> QED BY <1>1, <2>2, <2>3, <2>4 DEF CountersOK
<1> QED BY <1>5 DEF Past

\* The rows of a page had been added in vain only.
LEMMA AddBound ==
  ASSUME Watermarked, NoNulls, TypeOK, CopiesInv, CountersOK, NEW j \in Jobs, NEW p \in Pipelines,
         job[j].pc = "add", job[j].pipe = p, AddRows(j)
  PROVE  /\ \A q \in Pipelines \ {p} : table'[q] = table[q]
         /\ \A r \in Rows : table'[p][r] \in Nat /\ table'[p][r] <= 1 + failures + crashes
<1>1. ASSUME NEW r \in Rows PROVE table'[p][r] \in Nat /\ table'[p][r] <= 1 + failures + crashes
  <2>1. table[p][r] \in Nat /\ table[p][r] <= 1 + failures + crashes /\ table'[p][r] \in Nat
    BY SyncAssumption, AddRowsType DEF TypeOK, CopiesInv
  <2>2. table'[p][r] <= table[p][r] + (IF r \in job[j].got THEN 1 ELSE 0)
    BY AddRowsCopies
  <2>3. r \in job[j].got => table[p][r] <= failures + crashes
    BY DEF CopiesInv, JobCopies, Past
  <2> QED BY <2>1, <2>2, <2>3 DEF CountersOK
<1> QED BY <1>1, AddRowsCopies

\* The watermark that is saved, at the end of a run or by a server that then stops,
\* is behind every row that may come twice.
LEMMA SavePast ==
  ASSUME TypeOK, NEW j \in Jobs, NEW p \in Pipelines, job[j].pipe = p, job[j].pc = "save", JobCopies(j),
         SaveWatermark(j)
  PROVE  p \in stored => \A r \in Rows : last'[p] < Cur[r] => table[p][r] <= failures + crashes
<1> SUFFICES ASSUME p \in stored, NEW r \in Rows, last'[p] < Cur[r] PROVE table[p][r] <= failures + crashes
  OBVIOUS
<1>1. last[p] \in Nat /\ job[j].max \in Nat /\ Cur[r] \in Nat
  BY SyncAssumption, CursorsAreNat DEF TypeOK, JobType
<1>2. CASE job[j].state = "failed"
  <2>1. last'[p] = last[p]
    BY <1>2 DEF SaveWatermark, TypeOK
  <2>2. None < Cur[r]
    BY <1>1, <2>1 DEF None
  <2> QED BY <1>2, <2>2 DEF JobCopies, Past
<1>3. CASE job[j].state # "failed"
  <2>1. last'[p] = job[j].max
    BY <1>3 DEF SaveWatermark, TypeOK
  <2> QED BY <1>3, <2>1 DEF JobCopies, Past
<1> QED BY <1>2, <1>3

LEMMA RunCopies ==
  ASSUME Watermarked, NoNulls, TypeOK, TypeOK', WatermarkInv, CopiesInv, CountersOK, NEW j \in Jobs, Run(j)
  PROVE  CopiesInv'
<1> DEFINE b == job[j]
<1>1. /\ b \in JobType /\ job \in [Jobs -> JobType] /\ (b.pc # "free" => b.pipe \in Pipelines)
      /\ JobInv(j) /\ JobCopies(j)
      /\ b.last \in Nat /\ b.max \in DOMAIN TextRank /\ b.max \in Nat /\ None \in Nat /\ None \in DOMAIN TextRank
  BY CursorsAreNat DEF TypeOK, WatermarkInv, CopiesInv, JobType
<1>2. PICK p, v, l : p = b.pipe /\ v = b.max /\ l = b.last
  OBVIOUS
<1>3. CASE Snapshot(j)
  <2>1. /\ stored' = stored /\ last' = last /\ table' = table /\ failures' = failures /\ crashes' = crashes
        /\ b.pc = "claimed" /\ p \in Pipelines /\ \A k \in Jobs \ {j} : job'[k] = job[k]
    BY <1>1, <1>2, <1>3 DEF Snapshot, storeVars, tableVars, counters
  <2>2. CASE p \in stored
    <3>1. running' = running /\ job'[j].pc = "spawned" /\ job'[j].pipe = p /\ job'[j].last = last[p]
      BY <1>1, <1>2, <1>3, <2>2 DEF Snapshot, JobType
    <3>2. Past(p, last[p]) /\ Past(p, last[p])'
      BY <1>1, <1>2, <2>1, <2>2 DEF JobCopies, Past
    <3>3. JobCopies(j)'
      BY <2>1, <3>1, <3>2 DEF JobCopies
    <3> QED BY <1>2, <2>1, <3>1, <3>3, QuietCopies DEF CountersOK
  <2>3. CASE p \notin stored
    <3>1. running' = running \ {p} /\ job'[j].pc = "free"
      BY <1>1, <1>2, <1>3, <2>3, EndedType DEF Snapshot
    <3> QED BY <1>2, <2>1, <2>3, <3>1, QuietCopies DEF CountersOK
  <2> QED BY <2>2, <2>3
<1>4. CASE StartRun(j)
  <2>1. /\ stored' = stored /\ last' = last /\ table' = table /\ failures' = failures /\ crashes' = crashes
        /\ running' = running /\ b.pc = "spawned" /\ p \in Pipelines /\ \A k \in Jobs \ {j} : job'[k] = job[k]
    BY <1>1, <1>2, <1>4 DEF StartRun, tableVars, counters
  <2>2. job'[j].pc = "started" /\ job'[j].pipe = p /\ job'[j].last = l
    BY <1>1, <1>2, <1>4 DEF StartRun
  <2>3. /\ Past(p, l) /\ Past(p, l)'
        /\ p \in stored => Past(p, last[p])'
    BY <1>1, <1>2, <2>1 DEF JobCopies, Past
  <2>4. JobCopies(j)'
    BY <2>1, <2>2, <2>3 DEF JobCopies
  <2> QED BY <1>2, <2>1, <2>2, <2>4, QuietCopies DEF CountersOK
<1>5. CASE NoConnection(j)
  <2>1. /\ stored' = stored /\ last' = last /\ table' = table /\ failures' = failures /\ crashes' = crashes
        /\ b.pc = "started" /\ p \in Pipelines /\ \A k \in Jobs \ {j} : job'[k] = job[k]
    BY <1>1, <1>2, <1>5 DEF NoConnection, storeVars, tableVars, counters
  <2>2. running' = running \ {p} /\ job'[j].pc = "free"
    BY <1>1, <1>2, <1>5, EndedType DEF NoConnection
  <2>3. p \in stored => Past(p, last[p])
    BY <1>1, <1>2, <2>1 DEF JobCopies
  <2> QED BY <1>2, <2>1, <2>2, <2>3, QuietCopies DEF CountersOK
<1>6. CASE Prepare(j)
  <2>1. /\ stored' = stored /\ last' = last /\ table' = table /\ failures' = failures /\ crashes' = crashes
        /\ running' = running /\ b.pc = "started" /\ p \in Pipelines /\ \A k \in Jobs \ {j} : job'[k] = job[k]
    BY <1>1, <1>2, <1>6 DEF Prepare, storeVars, counters, Watermarked
  <2>2. job'[j].pc = "loop" /\ job'[j].pipe = p /\ job'[j].at = l
    BY <1>1, <1>2, <1>6 DEF Prepare, Watermarked
  <2>3. Past(p, l)'
    BY <1>1, <1>2, <2>1 DEF JobCopies, Past
  <2>4. JobCopies(j)'
    BY <2>1, <2>2, <2>3 DEF JobCopies
  <2> QED BY <1>2, <2>1, <2>2, <2>4, QuietCopies DEF CountersOK
<1>7. CASE CheckCancel(j)
  <2>1. /\ stored' = stored /\ last' = last /\ table' = table /\ failures' = failures /\ crashes' = crashes
        /\ running' = running /\ b.pc = "loop" /\ p \in Pipelines /\ \A k \in Jobs \ {j} : job'[k] = job[k]
    BY <1>1, <1>2, <1>7 DEF CheckCancel, storeVars, tableVars, counters
  <2>2. /\ job'[j].pc \in {"finish", "fetch"} /\ job'[j].pipe = p /\ job'[j].max = v /\ job'[j].at = v
        /\ job'[j].pc = "finish" => job'[j].state = "cancelled"
    BY <1>1, <1>2, <1>7, <2>1 DEF CheckCancel, JobInv, JobType
  <2>3. Past(p, v)'
    BY <1>1, <1>2, <2>1 DEF JobCopies, JobInv, Past
  <2>4. JobCopies(j)'
    BY <2>1, <2>2, <2>3 DEF JobCopies
  <2> QED BY <1>2, <2>1, <2>2, <2>4, QuietCopies DEF CountersOK
<1>8. CASE Fetch(j)
  <2>1. /\ stored' = stored /\ last' = last /\ table' = table /\ failures' = failures /\ crashes' = crashes
        /\ running' = running /\ b.pc = "fetch" /\ p \in Pipelines /\ \A k \in Jobs \ {j} : job'[k] = job[k]
    BY <1>1, <1>2, <1>8 DEF Fetch, storeVars, tableVars, counters
  <2>2. PICK B \in Pages(b.at) :
          job' = IF B = {}
                 THEN [job EXCEPT ![j].pc = "finish", ![j].state = "done"]
                 ELSE [job EXCEPT ![j].pc = "add", ![j].got = B,
                                  ![j].max = TextMax({@} \cup CursorsOf(B))]
    BY <1>8 DEF Fetch
  <2>3. b.at = v /\ Past(p, v)'
    BY <1>1, <1>2, <2>1 DEF JobCopies, JobInv, Past
  <2>4. \A r \in B : v < Cur[r]
    BY <1>1, <1>2, <2>2, <2>3, PagePast
  <2>5. CASE B = {}
    <3>1. job'[j].pc = "finish" /\ job'[j].pipe = p /\ job'[j].max = v /\ job'[j].state = "done"
      BY <1>1, <1>2, <2>2, <2>5 DEF JobType
    <3>2. JobCopies(j)'
      BY <2>1, <2>3, <3>1 DEF JobCopies
    <3> QED BY <1>2, <2>1, <3>1, <3>2, QuietCopies DEF CountersOK
  <2>6. CASE B # {}
    <3>1. job'[j].pc = "add" /\ job'[j].pipe = p /\ job'[j].at = v /\ job'[j].got = B
      BY <1>1, <1>2, <2>2, <2>3, <2>6 DEF JobType
    <3>2. JobCopies(j)'
      BY <2>1, <2>3, <2>4, <3>1 DEF JobCopies
    <3> QED BY <1>2, <2>1, <3>1, <3>2, QuietCopies DEF CountersOK
  <2> QED BY <2>5, <2>6
<1>9. CASE Add(j)
  <2>1. /\ stored' = stored /\ last' = last /\ failures' = failures /\ crashes' = crashes
        /\ running' = running /\ b.pc = "add" /\ p \in Pipelines /\ \A k \in Jobs \ {j} : job'[k] = job[k]
        /\ AddRows(j)
    BY <1>1, <1>2, <1>9 DEF Add, storeVars, counters
  <2>2. /\ job'[j].pc \in {"finish", "loop"} /\ job'[j].pipe = p /\ job'[j].max = v /\ job'[j].at = v
        /\ v = NextCursor(b.at, b.got) /\ (job'[j].pc = "finish" => job'[j].state = "done")
    BY <1>1, <1>2, <1>9, <2>1 DEF Add, JobInv, JobType
  <2>4. Past(p, v)'
    BY <1>1, <1>2, <2>1, <2>2, AddCopies
  <2>5. JobCopies(j)'
    BY <2>1, <2>2, <2>4 DEF JobCopies
  <2>6. Counted
    BY <2>1 DEF Counted, CountersOK
  <2>7. /\ \A q \in Pipelines \ {p} : table'[q] = table[q]
        /\ \A r \in Rows : table'[p][r] <= 1 + failures' + crashes'
    BY <1>1, <1>2, <2>1, AddBound
  <2> QED BY <1>2, <2>1, <2>2, <2>5, <2>6, <2>7, OneCopies
<1>10. CASE Finish(j)
  <2>1. /\ stored' = stored /\ last' = last /\ table' = table /\ failures' = failures /\ crashes' = crashes
        /\ running' = running /\ b.pc = "finish" /\ p \in Pipelines /\ \A k \in Jobs \ {j} : job'[k] = job[k]
    BY <1>1, <1>2, <1>10 DEF Finish, storeVars, counters
  <2>2. job'[j].pc = "save" /\ job'[j].pipe = p /\ job'[j].max = v /\ job'[j].state = b.state
    BY <1>1, <1>2, <1>10 DEF Finish
  <2>3. b.state # "failed"
    BY <2>1 DEF CopiesInv, JobCopies
  <2>4. Past(p, v)'
    BY <1>1, <1>2, <2>1 DEF JobCopies, Past
  <2>5. JobCopies(j)'
    BY <2>1, <2>2, <2>3, <2>4 DEF JobCopies
  <2> QED BY <1>2, <2>1, <2>2, <2>5, QuietCopies DEF CountersOK
<1>11. CASE SaveOutcome(j)
  <2>1. /\ stored' = stored /\ table' = table /\ failures' = failures /\ crashes' = crashes
        /\ running' = running /\ b.pc = "save" /\ p \in Pipelines /\ \A k \in Jobs \ {j} : job'[k] = job[k]
        /\ SaveWatermark(j)
    BY <1>1, <1>2, <1>11 DEF SaveOutcome, tableVars, counters
  <2>2. job'[j].pc = "release" /\ job'[j].pipe = p
    BY <1>1, <1>2, <1>11 DEF SaveOutcome
  <2>3. p \in stored => Past(p, last[p])'
    BY <1>1, <1>2, <2>1, SavePast DEF Past
  <2>4. JobCopies(j)'
    BY <2>1, <2>2, <2>3 DEF JobCopies
  <2>5. \A q \in Pipelines \ {p} : table'[q] = table[q] /\ last'[q] = last[q]
    BY <1>2, <2>1 DEF SaveWatermark, TypeOK
  <2>6. Counted /\ \A r \in Rows : table'[p][r] <= 1 + failures' + crashes'
    BY <2>1 DEF Counted, CountersOK, CopiesInv
  <2> QED BY <1>2, <2>1, <2>2, <2>4, <2>5, <2>6, OneCopies
<1>12. CASE Release(j)
  <2>1. /\ stored' = stored /\ last' = last /\ table' = table /\ failures' = failures /\ crashes' = crashes
        /\ b.pc = "release" /\ p \in Pipelines /\ \A k \in Jobs \ {j} : job'[k] = job[k]
    BY <1>1, <1>2, <1>12 DEF Release, storeVars, tableVars, counters
  <2>2. running' = running \ {p} /\ job'[j].pc = "free"
    BY <1>1, <1>2, <1>12, EndedType DEF Release
  <2>3. p \in stored => Past(p, last[p])
    BY <1>1, <1>2, <2>1 DEF JobCopies
  <2> QED BY <1>2, <2>1, <2>2, <2>3, QuietCopies DEF CountersOK
<1> QED BY <1>3, <1>4, <1>5, <1>6, <1>7, <1>8, <1>9, <1>10, <1>11, <1>12 DEF Run

LEMMA NextCopies ==
  ASSUME Watermarked, NoNulls, TypeOK, TypeOK', WatermarkInv, CopiesInv, CountersOK, [Next]_vars
  PROVE  CopiesInv' /\ CountersOK'
<1>1. job \in [Jobs -> JobType] /\ stored \subseteq Pipelines
  BY DEF TypeOK
<1>2. ASSUME NEW p \in Pipelines, NEW j \in Jobs, Claim(p, j) PROVE CopiesInv' /\ CountersOK'
  <2>1. /\ stored' = stored /\ last' = last /\ table' = table /\ failures' = failures /\ crashes' = crashes
        /\ running' = running \cup {p} /\ p \in stored /\ p \notin running
        /\ job[j].pc = "free" /\ \A k \in Jobs \ {j} : job'[k] = job[k]
        /\ job'[j].pc = "claimed" /\ job'[j].pipe = p
    BY <1>1, <1>2 DEF Claim, storeVars, tableVars, counters
  <2>2. Counted
    BY <2>1 DEF Counted, CountersOK
  <2>3. Exclusive'
    BY <2>1 DEF CopiesInv, Exclusive
  <2>4. \A q \in (stored \ running)' : Past(q, last[q])'
    BY <2>1 DEF CopiesInv, Past
  <2>5. ASSUME NEW k \in Jobs PROVE JobCopies(k)'
    <3>1. CASE k = j
      <4>1. Past(p, last[p])'
        BY <2>1 DEF CopiesInv, Past
      <4> QED BY <2>1, <3>1, <4>1 DEF JobCopies
    <3>2. CASE k # j
      BY <2>1, <2>2, <3>2, JobCopiesKept DEF CopiesInv
    <3> QED BY <3>1, <3>2
  <2>6. \A q \in Pipelines, r \in Rows : table'[q][r] <= 1 + failures' + crashes'
    BY <2>1 DEF CopiesInv
  <2> QED BY <2>1, <2>3, <2>4, <2>5, <2>6 DEF CopiesInv, CountersOK
<1>3. ASSUME NEW j \in Jobs, Run(j) PROVE CopiesInv' /\ CountersOK'
  <2>1. failures' = failures /\ crashes' = crashes
    BY <1>3 DEF Run, Snapshot, StartRun, NoConnection, Prepare, CheckCancel, Fetch, Add, Finish, SaveOutcome, Release,
                counters
  <2> QED BY <1>3, <2>1, RunCopies DEF CountersOK
<1>4. ASSUME NEW j \in Jobs, Fail(j) PROVE CopiesInv' /\ CountersOK'
  <2>1. PICK p \in Pipelines : job[j].pipe = p /\ job[j].pc # "free"
    BY <1>4 DEF Fail, TypeOK
  <2>2. /\ stored' = stored /\ last' = last /\ running' = running /\ failures' = failures + 1 /\ crashes' = crashes
        /\ \A k \in Jobs \ {j} : job'[k] = job[k]
        /\ job'[j].pc = "save" /\ job'[j].pipe = p /\ job'[j].state = "failed"
    BY <1>1, <1>4, <2>1 DEF Fail, storeVars
  <2>3. Counted /\ CountersOK'
    BY <2>2 DEF Counted, CountersOK
  <2>4. /\ \A q \in Pipelines \ {p} : table'[q] = table[q]
        /\ \A r \in Rows : table'[p][r] \in Nat /\ table'[p][r] <= 1 + failures + crashes
    <3>1. CASE job[j].pc = "add" /\ AddRows(j)
      BY <2>1, <3>1, AddBound
    <3>2. CASE table' = table
      BY <3>2, SyncAssumption DEF CopiesInv, TypeOK
    <3> QED BY <1>4, <3>1, <3>2 DEF Fail, tableVars
  <2>5. \A r \in Rows : table'[p][r] <= failures' + crashes' /\ table'[p][r] <= 1 + failures' + crashes'
    BY <2>2, <2>4 DEF CountersOK
  <2>6. JobCopies(j)'
    BY <2>2, <2>5 DEF JobCopies, Past
  <2> QED BY <2>1, <2>2, <2>3, <2>4, <2>5, <2>6, OneCopies
<1>5. ASSUME job' = job, table' = table, last' = last, running' = running, stored' \subseteq stored,
             failures' = failures, crashes' = crashes
      PROVE  CopiesInv' /\ CountersOK'
  BY <1>5, NoCopies DEF Counted, CountersOK
<1>6. ASSUME NEW j \in Jobs, CancelJob(j) PROVE CopiesInv' /\ CountersOK'
  BY <1>5, <1>6 DEF CancelJob, storeVars, tableVars
<1>7. ASSUME NEW r \in Rows, NewRow(r) PROVE CopiesInv' /\ CountersOK'
  BY <1>5, <1>7 DEF NewRow, storeVars, tableVars, counters
<1>8. ASSUME NEW p \in Pipelines, DeletePipeline(p) PROVE CopiesInv' /\ CountersOK'
  BY <1>5, <1>8 DEF DeletePipeline, tableVars, counters
<1>9. CASE DeleteConnection
  BY <1>5, <1>9 DEF DeleteConnection, tableVars, counters
<1>10. CASE ReplaceHandle
  BY <1>5, <1>10 DEF ReplaceHandle, storeVars
<1>11. CASE Crash
  <2>1. /\ stored' = stored /\ table' = table /\ running' = {} /\ failures' = failures /\ crashes' = crashes + 1
        /\ \A j \in Jobs : job'[j].pc = "free"
    BY <1>11, EndedType DEF Crash
  <2>2. \A q \in Pipelines, r \in Rows : table'[q][r] <= failures' + crashes' /\ table'[q][r] <= 1 + failures' + crashes'
    <3>1. ASSUME NEW q \in Pipelines, NEW r \in Rows
          PROVE  table'[q][r] <= failures' + crashes' /\ table'[q][r] <= 1 + failures' + crashes'
      <4>1. table[q][r] \in Nat /\ table[q][r] <= 1 + failures + crashes
        BY SyncAssumption DEF TypeOK, CopiesInv
      <4> QED BY <2>1, <4>1 DEF CountersOK
    <3> QED BY <3>1
  <2>3. \A q \in (stored \ running)' : Past(q, last[q])'
    BY <1>1, <2>1, <2>2 DEF Past
  <2>4. Exclusive' /\ \A j \in Jobs : JobCopies(j)'
    BY <2>1 DEF Exclusive, JobCopies
  <2> QED BY <2>1, <2>2, <2>3, <2>4 DEF CopiesInv, CountersOK
<1>12. CASE UNCHANGED vars
  BY <1>5, <1>12 DEF vars, storeVars, tableVars, counters
<1> QED BY <1>2, <1>3, <1>4, <1>6, <1>7, <1>8, <1>9, <1>10, <1>11, <1>12 DEF Next

\* Under those conditions and without NULL cursors, no row is put into the table more
\* often than once, and once more for every run that failed or that a stop of the
\* server cut off: whichever runs, cancellations and restarts come between.
\* (run_pipeline, RunGuard, set_last_cursor)
THEOREM CopiesSafe ==
  ASSUME Watermarked, NoNulls
  PROVE  Spec => []CopiesBounded
<1> DEFINE Inv == TypeOK /\ WatermarkInv /\ CopiesInv /\ CountersOK
<1>1. Init => Inv
  BY InitType, InitInv, InitCopies DEF Init, CountersOK
<1>2. Inv /\ [Next]_vars => Inv'
  BY NextType, NextInv, NextCopies
<1>3. Inv => CopiesBounded
  BY DEF CopiesInv, CopiesBounded, Incremental
<1> QED BY <1>1, <1>2, <1>3, PTL DEF Spec
-----------------------------------------------------------------------------
(* The table can be queried when no run is at work *)

CountsOK == {failures, crashes, replacements} \subseteq Nat

\* A step of one run, which keeps its pipeline or gives it back.
LEMMA OneExclusive ==
  ASSUME Exclusive, NEW j \in Jobs, job[j].pc # "free",
         \A k \in Jobs \ {j} : job'[k] = job[k],
         \/ job'[j].pipe = job[j].pipe /\ running' = running
         \/ job'[j].pc = "free" /\ running' = running \ {job[j].pipe}
  PROVE  Exclusive'
<1>1. ASSUME NEW k \in Jobs \ {j}, job[k].pc # "free"
      PROVE  job[k].pipe # job[j].pipe /\ job[k].pipe \in running /\ job[k].pipe \in running'
  BY <1>1 DEF Exclusive
<1> QED BY <1>1 DEF Exclusive

\* What a step of a run does to the guards.
LEMMA StepExclusive ==
  ASSUME TypeOK, Exclusive, NEW j \in Jobs, Run(j) \/ Fail(j)
  PROVE  /\ job[j].pc # "free" /\ \A k \in Jobs \ {j} : job'[k] = job[k]
         /\ Exclusive'
<1>1. job[j].pc # "free" /\ job \in [Jobs -> JobType]
  BY DEF TypeOK, Run, Snapshot, StartRun, NoConnection, Prepare, CheckCancel, Fetch, Add, Finish,
         SaveOutcome, Release, Fail
<1>2. \A k \in Jobs \ {j} : job'[k] = job[k]
  BY <1>1 DEF Run, Snapshot, StartRun, NoConnection, Prepare, CheckCancel, Fetch, Add, Finish,
              SaveOutcome, Release, Fail
<1>3. \/ job'[j].pipe = job[j].pipe /\ running' = running
      \/ job'[j].pc = "free" /\ running' = running \ {job[j].pipe}
  <2>1. CASE Snapshot(j)
    BY <1>1, <2>1 DEF Snapshot, Ended, FreeJob, JobType
  <2>2. CASE StartRun(j) \/ Prepare(j) \/ CheckCancel(j) \/ Finish(j) \/ SaveOutcome(j) \/ Fail(j) \/ Add(j)
    BY <1>1, <2>2 DEF StartRun, Prepare, CheckCancel, Finish, SaveOutcome, Fail, Add, JobType
  <2>3. CASE NoConnection(j) \/ Release(j)
    BY <1>1, <2>3 DEF NoConnection, Release, Ended, FreeJob, JobType
  <2>4. CASE Fetch(j)
    BY <1>1, <2>4 DEF Fetch, JobType
  <2> QED BY <2>1, <2>2, <2>3, <2>4 DEF Run
<1> QED BY <1>1, <1>2, <1>3, OneExclusive

LEMMA RunCounters ==
  ASSUME NEW j \in Jobs, Run(j)
  PROVE  failures' = failures /\ crashes' = crashes /\ replacements' = replacements
<1>1. UNCHANGED counters
  BY DEF Run, Snapshot, StartRun, NoConnection, Prepare, CheckCancel, Fetch, Add, Finish, SaveOutcome, Release
<1> QED BY <1>1 DEF counters

\* What a step of a run does to the session.
LEMMA StepIdle ==
  ASSUME TypeOK, IdleInv, CountsOK, NEW j \in Jobs, Run(j) \/ Fail(j), failures' = 0, crashes' = 0
  PROVE  /\ session' => \E k \in Jobs : job'[k].pc \in InSession
         /\ unindexed' => session'
<1>1. job \in [Jobs -> JobType] /\ \A k \in Jobs \ {j} : job'[k] = job[k]
  BY StepExclusive DEF TypeOK, IdleInv
<1>2. failures = 0 /\ crashes = 0 /\ Run(j)
  <2>1. CASE Run(j)
    BY <2>1, RunCounters
  <2>2. CASE Fail(j)
    BY <2>2 DEF Fail, CountsOK
  <2> QED BY <2>1, <2>2
<1>3. /\ session => \E k \in Jobs : job[k].pc \in InSession
      /\ unindexed => session
  BY <1>2 DEF IdleInv
<1>4. ASSUME session' = session, unindexed' = unindexed,
             job[j].pc \in InSession => job'[j].pc \in InSession
      PROVE  (session' => \E k \in Jobs : job'[k].pc \in InSession) /\ (unindexed' => session')
  BY <1>1, <1>3, <1>4
<1>5. CASE Snapshot(j) \/ StartRun(j) \/ NoConnection(j) \/ SaveOutcome(j) \/ Release(j)
  BY <1>4, <1>5 DEF Snapshot, StartRun, NoConnection, SaveOutcome, Release, tableVars, InSession
<1>6. CASE Prepare(j)
  BY <1>1, <1>3, <1>6 DEF Prepare, InSession
<1>7. CASE CheckCancel(j) \/ Fetch(j)
  <2>1. job'[j].pc \in InSession
    <3>1. CASE CheckCancel(j)
      BY <1>1, <3>1 DEF CheckCancel, InSession, JobType
    <3>2. CASE Fetch(j)
      BY <1>1, <3>2 DEF Fetch, InSession, JobType
    <3> QED BY <1>7, <3>1, <3>2
  <2> QED BY <1>4, <1>7, <2>1 DEF CheckCancel, Fetch, tableVars
<1>8. CASE Add(j)
  <2>1. job'[j].pc \in InSession
    BY <1>1, <1>8 DEF Add, InSession
  <2> QED BY <1>3, <1>8, <2>1 DEF Add, AddRows
<1>9. CASE Finish(j)
  BY <1>3, <1>9 DEF Finish
<1> QED BY <1>2, <1>5, <1>6, <1>7, <1>8, <1>9 DEF Run

\* A claim of a pipeline that no run has.
LEMMA ClaimExclusive ==
  ASSUME Exclusive, NEW p, NEW j \in Jobs, p \notin running, running' = running \cup {p},
         job'[j].pipe = p, \A k \in Jobs \ {j} : job'[k] = job[k]
  PROVE  Exclusive'
<1>1. ASSUME NEW k \in Jobs \ {j}, job'[k].pc # "free"
      PROVE  job'[k].pipe \in running /\ job'[k].pipe # p /\ job'[k].pipe \in running'
  BY <1>1 DEF Exclusive
<1>2. ASSUME NEW k \in Jobs \ {j}, NEW i \in Jobs \ {j}, i # k, job'[k].pc # "free", job'[i].pc # "free"
      PROVE  job'[i].pipe # job'[k].pipe
  <2>1. job[k].pc # "free" /\ job[i].pc # "free" /\ job'[k] = job[k] /\ job'[i] = job[i]
    BY <1>2
  <2> QED BY <1>2, <2>1 DEF Exclusive
<1> QED BY <1>1, <1>2 DEF Exclusive

LEMMA NextIdle ==
  ASSUME MaxReplacements = 0, TypeOK, IdleInv, CountsOK, [Next]_vars
  PROVE  IdleInv' /\ CountsOK'
<1>1. ASSUME job' = job, running' = running, session' = session, unindexed' = unindexed,
             failures' = failures, crashes' = crashes, replacements' = replacements
      PROVE  IdleInv' /\ CountsOK'
  BY <1>1 DEF IdleInv, Exclusive, CountsOK
<1>2. ASSUME NEW p \in Pipelines, NEW j \in Jobs, Claim(p, j) PROVE IdleInv' /\ CountsOK'
  <2>1. /\ p \notin running /\ job[j].pc = "free" /\ running' = running \cup {p}
        /\ job' = [job EXCEPT ![j].pc = "claimed", ![j].pipe = p]
        /\ session' = session /\ unindexed' = unindexed
        /\ failures' = failures /\ crashes' = crashes /\ replacements' = replacements
    BY <1>2 DEF Claim, tableVars, counters
  <2>2. /\ job'[j].pc = "claimed" /\ job'[j].pipe = p
        /\ \A k \in Jobs \ {j} : job'[k] = job[k]
    BY <2>1 DEF TypeOK, JobType
  <2>3. Exclusive'
    BY <2>1, <2>2, ClaimExclusive DEF IdleInv
  <2> QED BY <2>1, <2>2, <2>3 DEF IdleInv, CountsOK, InSession
<1>3. ASSUME NEW j \in Jobs, Run(j) \/ Fail(j) PROVE IdleInv' /\ CountsOK'
  <2>1. CountsOK'
    <3>1. CASE Run(j)
      BY <3>1, RunCounters DEF CountsOK
    <3>2. CASE Fail(j)
      BY <3>2 DEF Fail, CountsOK
    <3> QED BY <1>3, <3>1, <3>2
  <2>2. Exclusive'
    BY <1>3, StepExclusive DEF IdleInv
  <2> QED BY <1>3, <2>1, <2>2, StepIdle DEF IdleInv
<1>4. ASSUME NEW j \in Jobs, CancelJob(j) PROVE IdleInv' /\ CountsOK'
  BY <1>1, <1>4 DEF CancelJob, tableVars
<1>5. ASSUME NEW r \in Rows, NewRow(r) PROVE IdleInv' /\ CountsOK'
  BY <1>1, <1>5 DEF NewRow, tableVars, counters
<1>6. ASSUME NEW p \in Pipelines, DeletePipeline(p) PROVE IdleInv' /\ CountsOK'
  BY <1>1, <1>6 DEF DeletePipeline, tableVars, counters
<1>7. CASE DeleteConnection
  BY <1>1, <1>7 DEF DeleteConnection, tableVars, counters
<1>8. CASE ReplaceHandle
  BY <1>8 DEF ReplaceHandle, CountsOK
<1>9. CASE Crash
  <2>1. crashes' = crashes + 1 /\ failures' = failures /\ replacements' = replacements
    BY <1>9 DEF Crash
  <2>2. \A j \in Jobs : job'[j].pc = "free"
    BY <1>9 DEF Crash, Ended, FreeJob
  <2> QED BY <2>1, <2>2 DEF IdleInv, Exclusive, CountsOK
<1>10. CASE UNCHANGED vars
  BY <1>1, <1>10 DEF vars, tableVars, counters
<1> QED BY <1>2, <1>3, <1>4, <1>5, <1>6, <1>7, <1>8, <1>9, <1>10 DEF Next

\* If no other task replaces the handle of the server, a table that no run writes and
\* for which nothing has failed is closed and indexed: whichever of the runs that
\* shared the session ended it, and wherever the others were then.
\* (run_pipeline, finish_session)
THEOREM IdleIsQueryable ==
  ASSUME MaxReplacements = 0
  PROVE  Spec => []QueryableWhenIdle
<1> DEFINE Inv == TypeOK /\ IdleInv /\ CountsOK
<1>1. Init => Inv
  BY InitType DEF Init, FreeJob, IdleInv, Exclusive, CountsOK
<1>2. Inv /\ [Next]_vars => Inv'
  BY NextType, NextIdle
<1>3. Inv => QueryableWhenIdle
  BY DEF IdleInv, Exclusive, QueryableWhenIdle, InSession
<1> QED BY <1>1, <1>2, <1>3, PTL DEF Spec

-----------------------------------------------------------------------------
(* Pages from an offset *)

LEMMA LeastOf ==
  ASSUME NEW T \in SUBSET Nat, T # {}
  PROVE  \E x \in T : \A y \in T : x <= y
<1>1. IsWellFoundedOn(OpToRel(<, Nat), Nat)
  BY NatLessThanWellFounded
<1>2. PICK x \in T : \A y \in T : <<y, x>> \notin OpToRel(<, Nat)
  BY <1>1, WFMin
<1>3. \A y \in T : ~ (y < x)
  BY <1>2 DEF OpToRel
<1>4. \A y \in T : x \in Nat /\ y \in Nat
  OBVIOUS
<1> QED BY <1>3, <1>4

LEMMA RanksApart ==
  ASSUME source \subseteq Rows
  PROVE  /\ IsFiniteSet(source) /\ source \subseteq Nat
         /\ \A r \in source : RankOf(r) \in Nat
         /\ \A r, q \in source : RankOf(r) = RankOf(q) => r = q
<1>1. IsFiniteSet(source) /\ source \subseteq Nat
  BY SyncAssumption, FS_Subset
<1>2. \A r \in source : IsFiniteSet({q \in source : q < r})
  BY <1>1, FS_Subset
<1>3. \A r \in source : RankOf(r) \in Nat
  BY <1>2, FS_CardinalityType DEF RankOf
<1>4. ASSUME NEW r \in source, NEW q \in source, r < q PROVE RankOf(r) # RankOf(q)
  <2>1. PICK S, T : S = {x \in source : x < r} /\ T = {x \in source : x < q}
    OBVIOUS
  <2>2. \A x \in source : x \in Nat
    BY <1>1
  <2>3. S \subseteq T
    BY <1>4, <2>1, <2>2
  <2>4. r \in T /\ r \notin S
    BY <1>4, <2>1, <2>2
  <2>5. IsFiniteSet(T)
    BY <1>2, <2>1
  <2>6. Cardinality(S) # Cardinality(T)
    BY <2>3, <2>4, <2>5, FS_Subset
  <2> QED BY <2>1, <2>6 DEF RankOf
<1>5. ASSUME NEW r \in source, NEW q \in source, RankOf(r) = RankOf(q) PROVE r = q
  <2>1. r \in Nat /\ q \in Nat
    BY <1>1
  <2>2. ~ (r < q) /\ ~ (q < r)
    BY <1>4, <1>5
  <2> QED BY <2>1, <2>2
<1> QED BY <1>1, <1>3, <1>5

\* The ranks of the rows leave no gap.
LEMMA RanksMeet ==
  ASSUME source \subseteq Rows, NEW r \in source, NEW n \in Nat, n <= RankOf(r)
  PROVE  \E q \in source : RankOf(q) = n
<1>1. PICK T : T = {q \in source : n <= RankOf(q)}
  OBVIOUS
<1>2. T \in SUBSET Nat /\ r \in T
  BY <1>1, RanksApart
<1>3. PICK x \in T : \A y \in T : x <= y
  BY <1>2, LeastOf
<1>4. x \in source /\ n <= RankOf(x) /\ RankOf(x) \in Nat /\ x \in Nat
  BY <1>1, <1>3, RanksApart
<1>5. PICK P : P = {q \in source : q < x}
  OBVIOUS
<1>6. ASSUME NEW q \in P PROVE RankOf(q) \in 0 .. n - 1
  <2>1. q \in source /\ q < x /\ q \in Nat
    BY <1>5, RanksApart
  <2>2. q \notin T
    BY <1>3, <1>4, <2>1
  <2>3. RankOf(q) \in Nat
    BY <2>1, RanksApart
  <2> QED BY <1>1, <2>1, <2>2, <2>3
<1>7. PICK f : f = [q \in P |-> RankOf(q)]
  OBVIOUS
<1>8. f \in Injection(P, 0 .. n - 1)
  <2>1. \A q, s \in P : f[q] = f[s] => q = s
    BY <1>5, <1>7, RanksApart
  <2>2. f \in [P -> 0 .. n - 1]
    BY <1>6, <1>7
  <2> QED BY <2>1, <2>2 DEF Injection, IsInjective
<1>9. IsFiniteSet(0 .. n - 1) /\ Cardinality(0 .. n - 1) = n
  <2>1. PICK k \in Int : k = n - 1
    OBVIOUS
  <2>2. IsFiniteSet(0 .. k) /\ Cardinality(0 .. k) = (IF 0 > k THEN 0 ELSE k - 0 + 1)
    BY FS_Interval
  <2>3. Cardinality(0 .. k) = n
    BY <2>1, <2>2
  <2> QED BY <2>1, <2>2, <2>3
<1>10. Cardinality(P) <= n
  BY <1>8, <1>9, FS_Injection
<1>11. RankOf(x) = n
  BY <1>4, <1>5, <1>10 DEF RankOf
<1> QED BY <1>4, <1>11

\* A page from an offset has no more than BatchSize rows, and as many if there are as many.
LEMMA OffsetPage ==
  ASSUME source \subseteq Rows, NEW at \in Nat, NEW B, B = {r \in source : RankOf(r) \in at .. at + BatchSize - 1}
  PROVE  /\ Cardinality(B) \in Nat /\ Cardinality(B) <= BatchSize
         /\ \A r \in source : at + BatchSize <= RankOf(r) => Cardinality(B) = BatchSize
<1>1. PICK S, m : S = at .. at + BatchSize - 1 /\ m = BatchSize
  OBVIOUS
<1>2. m \in Nat \ {0}
  BY <1>1, SyncAssumption
<1>3. IsFiniteSet(S) /\ Cardinality(S) = m
  BY <1>1, <1>2, FS_Interval
<1>4. IsFiniteSet(B) /\ Cardinality(B) \in Nat
  BY RanksApart, FS_Subset, FS_CardinalityType
<1>5. PICK f : f = [q \in B |-> RankOf(q)]
  OBVIOUS
<1>6. f \in Injection(B, S)
  <2>1. \A q, s \in B : f[q] = f[s] => q = s
    BY <1>5, RanksApart
  <2>2. f \in [B -> S]
    BY <1>1, <1>5
  <2> QED BY <2>1, <2>2 DEF Injection, IsInjective
<1>7. Cardinality(B) <= m
  BY <1>3, <1>6, FS_Injection
<1>8. ASSUME NEW r \in source, at + m <= RankOf(r) PROVE Cardinality(B) = m
  <2>1. RankOf(r) \in Nat
    BY RanksApart
  <2>2. \A n \in S : n \in Nat /\ n <= RankOf(r)
    BY <1>1, <1>2, <1>8, <2>1
  <2>3. \A n \in S : \E q \in source : RankOf(q) = n
    BY <2>2, RanksMeet
  <2>4. PICK g : g = [n \in S |-> CHOOSE q \in source : RankOf(q) = n]
    OBVIOUS
  <2>5. \A n \in S : g[n] \in source /\ RankOf(g[n]) = n
    BY <2>3, <2>4
  <2>6. g \in Injection(S, B)
    <3>1. \A n \in S : g[n] \in B
      BY <1>1, <2>5
    <3>2. \A n, l \in S : g[n] = g[l] => n = l
      BY <2>5
    <3> QED BY <2>4, <3>1, <3>2 DEF Injection, IsInjective
  <2>7. m <= Cardinality(B)
    BY <1>3, <1>4, <2>6, FS_Injection
  <2> QED BY <1>2, <1>4, <1>7, <2>7
<1> QED BY <1>1, <1>4, <1>7, <1>8

-----------------------------------------------------------------------------
(* A run that ends as done *)

\* A pipeline that drops the table is the only one, and rows have different cursors or none.
Alone == \A p \in Full : Pipelines = {p}
CursorsApart == CursorColumn = TRUE => \A r, q \in Rows : Cur[r] = Cur[q] /\ Cur[r] # None => r = q

\* A page leaves out no row up to the position after it, and one that is not full none at all.
LEMMA PageTakes ==
  ASSUME CursorsApart, source \subseteq Rows, NEW at \in Nat, NEW B \in Pages(at), NEW r \in source,
         Passed(NextCursor(at, B), r) \/ Cardinality(B) < BatchSize
  PROVE  r \in B \/ Passed(at, r)
<1>1. CASE CursorColumn = TRUE
  <2>1. PICK past : past = IF at = None THEN source ELSE {q \in source : Cur[q] > at}
    OBVIOUS
  <2>2. /\ B \subseteq past /\ (Cardinality(B) = BatchSize \/ B = past)
        /\ \A x \in B, q \in past \ B : Cur[x] <= Cur[q]
    BY <1>1, <2>1 DEF Pages
  <2>3. SUFFICES ASSUME r \notin B, ~ Passed(at, r) PROVE FALSE
    OBVIOUS
  <2>4. \A x \in source : Cur[x] \in Nat
    BY SyncAssumption
  <2>5. r \in past \ B
    BY <1>1, <2>1, <2>3, <2>4 DEF Passed
  <2>6. Cardinality(B) = BatchSize
    BY <2>2, <2>5
  <2>7. Passed(NextCursor(at, B), r)
    <3>1. BatchSize \in Nat
      BY SyncAssumption
    <3> QED BY <2>6, <3>1
  <2>8. PICK new : new = NextCursor(at, B)
    OBVIOUS
  <2>9. new # None /\ Cur[r] <= new
    BY <1>1, <2>7, <2>8 DEF Passed
  <2>10. new # at
    BY <1>1, <2>3, <2>9 DEF Passed
  <2>11. CursorsOf(B) # {} /\ new = TextMax(CursorsOf(B))
    BY <1>1, <2>8, <2>10 DEF NextCursor
  <2>12. B \subseteq source /\ B \subseteq Rows
    BY <2>1, <2>2
  <2>13. new \in CursorsOf(B)
    BY <2>11, <2>12, CursorsOfType, TextMaxIs
  <2>14. PICK q \in B : new = Cur[q]
    BY <2>13 DEF CursorsOf
  <2>15. Cur[q] <= Cur[r]
    BY <2>2, <2>5, <2>14
  <2>16. Cur[q] = Cur[r]
    BY <2>4, <2>9, <2>12, <2>14, <2>15
  <2>17. q = r
    BY <1>1, <2>9, <2>12, <2>14, <2>16 DEF CursorsApart
  <2> QED BY <2>3, <2>14, <2>17
<1>2. CASE CursorColumn = FALSE
  <2>1. B = {x \in source : RankOf(x) \in at .. at + BatchSize - 1}
    BY <1>2 DEF Pages, RankOf
  <2>2. PICK m, n : m = BatchSize /\ n = RankOf(r)
    OBVIOUS
  <2>3. m \in Nat \ {0} /\ n \in Nat
    BY <2>2, SyncAssumption, RanksApart
  <2>4. Cardinality(B) \in Nat /\ Cardinality(B) <= m /\ (at + m <= n => Cardinality(B) = m)
    BY <2>1, <2>2, OffsetPage
  <2>5. NextCursor(at, B) = at + Cardinality(B)
    BY <1>2 DEF NextCursor
  <2>6. n < at + Cardinality(B) \/ Cardinality(B) < m
    BY <1>2, <2>2, <2>5 DEF Passed
  <2>7. n < at + m
    BY <2>3, <2>4, <2>6
  <2>8. n < at \/ n \in at .. at + m - 1
    BY <2>3, <2>7
  <2> QED BY <1>2, <2>1, <2>2, <2>8 DEF Passed
<1> QED BY <1>1, <1>2, SyncAssumption

\* As long as the source stays and the table only grows, what is brought stays so.
LEMMA DoneGrows ==
  ASSUME Grows, NEW b, b.pc # "free" => b.pipe \in Pipelines, b.visible \subseteq Rows, DoneRun(b)
  PROVE  DoneRun(b)'
<1>1. source' = source
  BY DEF Grows
<1>2. CASE b.pc = "free"
  BY <1>2 DEF DoneRun
<1>3. CASE b.pc # "free"
  <2>1. \A r \in Rows : Brought(b, r) => Brought(b, r)'
    BY <1>3 DEF Brought, Grows
  <2>2. \A r \in Rows : Wanted(b, r)' <=> Wanted(b, r)
    BY DEF Wanted
  <2>3. \A at, r : Passed(at, r)' <=> Passed(at, r)
    BY <1>1 DEF Passed, RankOf
  <2>4. NextCursor(b.at, b.got)' = NextCursor(b.at, b.got)
    BY DEF NextCursor, CursorsOf, TextMax
  <2>5. b.pc \in {"loop", "fetch", "add"} => b.visible \subseteq source'
    BY <1>1 DEF DoneRun
  <2>6. b.pc \in {"loop", "fetch"} =>
          \A r \in b.visible : Wanted(b, r) /\ Passed(b.at, r)' => Brought(b, r)'
    BY <2>1, <2>3 DEF DoneRun
  <2>7. b.pc = "add" =>
          \A r \in b.visible :
            Wanted(b, r) /\ (Passed(NextCursor(b.at, b.got), r)' \/ Cardinality(b.got) < BatchSize) =>
              r \in b.got \/ Brought(b, r)'
    BY <2>1, <2>3 DEF DoneRun
  <2>8. b.pc \in {"finish", "save"} /\ b.state = "done" =>
          \A r \in b.visible : Wanted(b, r) => Brought(b, r)'
    BY <2>1 DEF DoneRun
  <2> QED BY <2>2, <2>4, <2>5, <2>6, <2>7, <2>8 DEF DoneRun
<1> QED BY <1>2, <1>3

LEMMA JobsAre ==
  ASSUME TypeOK, NEW j \in Jobs
  PROVE  /\ job[j] \in JobType /\ job[j].visible \subseteq Rows
         /\ job[j].pc # "free" => job[j].pipe \in Pipelines
BY DEF TypeOK, JobType

\* A step of one run.
LEMMA OneDone ==
  ASSUME TypeOK, DoneInv, Grows, NEW j \in Jobs, \A k \in Jobs \ {j} : job'[k] = job[k],
         NEW c, c = job'[j], DoneRun(c)'
  PROVE  \A k \in Jobs : DoneRun(job[k])'
<1>1. ASSUME NEW k \in Jobs PROVE DoneRun(job[k])'
  <2>1. CASE k = j
    BY <2>1
  <2>2. CASE k # j
    <3>1. PICK b : b = job[k]
      OBVIOUS
    <3>2. DoneRun(b)
      BY <3>1 DEF DoneInv
    <3>3. b.visible \subseteq Rows /\ (b.pc # "free" => b.pipe \in Pipelines)
      BY <3>1, JobsAre
    <3>4. DoneRun(b)'
      BY <3>2, <3>3, DoneGrows
    <3> QED BY <2>2, <3>1, <3>4
  <2> QED BY <2>1, <2>2
<1> QED BY <1>1

\* A run that has no part of the source behind it, or is over.
Quiet == {"free", "claimed", "spawned", "started", "release"}

LEMMA QuietDone ==
  ASSUME NEW b, b.pc \in Quiet \/ (b.pc = "save" /\ b.state # "done")
  PROVE  DoneRun(b)'
BY DEF Quiet, DoneRun

LEMMA PrepareDone ==
  ASSUME Alone, TypeOK, DoneInv, NEW j \in Jobs, Prepare(j)
  PROVE  \A k \in Jobs : DoneRun(job[k])'
<1>1. PICK b, c : b = job[j] /\ c = job'[j]
  OBVIOUS
<1>2. job \in [Jobs -> JobType] /\ b \in JobType /\ b.pc = "started" /\ b.pipe \in Pipelines
  BY <1>1 DEF TypeOK, Prepare
<1>3. PICK drop : drop = (b.pipe \in Full)
  OBVIOUS
<1>4. /\ job' = [job EXCEPT ![j].pc = "loop", ![j].max = b.last,
                            ![j].at = IF drop THEN None ELSE b.last, ![j].visible = source]
      /\ table' = (IF drop THEN [q \in Pipelines |-> [r \in Rows |-> 0]] ELSE table) /\ source' = source
  BY <1>1, <1>3 DEF Prepare
<1>5. /\ c.pc = "loop" /\ c.pipe = b.pipe /\ c.last = b.last /\ c.visible = source
      /\ c.at = (IF drop THEN None ELSE b.last)
      /\ \A k \in Jobs \ {j} : job'[k] = job[k]
  BY <1>1, <1>2, <1>4 DEF JobType
<1>6. source \subseteq Rows /\ \A r \in Rows : Cur[r] \in Nat
  BY SyncAssumption DEF TypeOK
<1>7. b.last \in Nat /\ (CursorColumn = FALSE => b.last = None)
  <2>1. b.last \in Nat
    BY <1>2, CursorsAreNat DEF JobType
  <2> QED BY <1>1, <2>1 DEF DoneInv, NoCursors
<1>8. ASSUME NEW r \in source, Wanted(c, r), Passed(c.at, r) PROVE FALSE
  <2>1. RankOf(r) \in Nat /\ Cur[r] \in Nat
    BY <1>6, RanksApart
  <2>2. CASE CursorColumn = TRUE
    <3>1. c.at # None /\ Cur[r] <= c.at
      BY <1>8, <2>2 DEF Passed
    <3>2. ~ drop /\ c.at = b.last
      BY <1>5, <3>1
    <3>3. Cur[r] > b.last
      BY <1>3, <1>5, <1>8, <3>2 DEF Wanted
    <3> QED BY <1>7, <2>1, <3>1, <3>2, <3>3
  <2>3. CASE CursorColumn = FALSE
    <3>1. RankOf(r) < c.at
      BY <1>8, <2>3 DEF Passed
    <3>2. c.at = 0
      BY <1>5, <1>7, <2>3 DEF None
    <3> QED BY <2>1, <3>1, <3>2
  <2> QED BY <2>2, <2>3, SyncAssumption
<1>9. DoneRun(c)'
  <2>1. \A r \in source : ~ (Wanted(c, r)' /\ Passed(c.at, r)')
    BY <1>4, <1>8 DEF Wanted, Passed, RankOf
  <2> QED BY <1>4, <1>5, <2>1 DEF DoneRun
<1>10. CASE drop
  <2>1. \A k \in Jobs \ {j} : job[k].pc = "free"
    <3> SUFFICES ASSUME NEW k \in Jobs \ {j}, job[k].pc # "free" PROVE FALSE
      OBVIOUS
    <3>1. job[k].pipe # b.pipe
      BY <1>1, <1>2 DEF DoneInv, Exclusive
    <3>2. job[k].pipe \in Pipelines
      BY JobsAre
    <3>3. b.pipe \in Full
      BY <1>3, <1>10
    <3>4. Pipelines = {b.pipe}
      BY <3>3 DEF Alone
    <3> QED BY <3>1, <3>2, <3>4
  <2>2. ASSUME NEW k \in Jobs PROVE DoneRun(job[k])'
    <3>1. CASE k = j
      BY <1>1, <1>9, <3>1
    <3>2. CASE k # j
      <4>1. PICK d : d = job'[k]
        OBVIOUS
      <4>2. d.pc = "free"
        BY <1>5, <2>1, <3>2, <4>1
      <4>3. DoneRun(d)'
        BY <4>2, QuietDone DEF Quiet
      <4> QED BY <4>1, <4>3
    <3> QED BY <3>1, <3>2
  <2> QED BY <2>2
<1>11. CASE ~ drop
  <2>1. Grows
    BY <1>4, <1>11 DEF Grows
  <2> QED BY <1>1, <1>5, <1>9, <2>1, OneDone
<1> QED BY <1>10, <1>11

LEMMA FetchDone ==
  ASSUME CursorsApart, TypeOK, DoneInv, NEW j \in Jobs, Fetch(j)
  PROVE  \A k \in Jobs : DoneRun(job[k])'
<1>1. PICK b, c : b = job[j] /\ c = job'[j]
  OBVIOUS
<1>2. job \in [Jobs -> JobType] /\ b \in JobType /\ b.pc = "fetch" /\ b.at \in Nat
  BY <1>1 DEF TypeOK, Fetch, JobType
<1>3. PICK B \in Pages(b.at) :
        job' = IF B = {}
               THEN [job EXCEPT ![j].pc = "finish", ![j].state = "done"]
               ELSE [job EXCEPT ![j].pc = "add", ![j].got = B,
                                ![j].max = TextMax({@} \cup CursorsOf(B))]
  BY <1>1 DEF Fetch
<1>4. Grows /\ \A k \in Jobs \ {j} : job'[k] = job[k]
  BY <1>2, <1>3 DEF Fetch, tableVars, Grows
<1>5. /\ source' = source /\ table' = table /\ source \subseteq Rows /\ BatchSize \in Nat \ {0}
      /\ b.visible \subseteq source
      /\ \A r \in b.visible : Wanted(b, r) /\ Passed(b.at, r) => Brought(b, r)
  BY <1>1, <1>2, SyncAssumption DEF Fetch, tableVars, TypeOK, DoneInv, DoneRun
<1>6. /\ c.pipe = b.pipe /\ c.last = b.last /\ c.visible = b.visible
      /\ B = {} => c.pc = "finish"
      /\ B # {} => c.pc = "add" /\ c.got = B /\ c.at = b.at
  BY <1>1, <1>2, <1>3 DEF JobType
<1>7. ASSUME NEW r \in b.visible, Wanted(b, r), Passed(NextCursor(b.at, B), r) \/ Cardinality(B) < BatchSize
      PROVE  r \in B \/ Brought(b, r)
  <2>1. r \in B \/ Passed(b.at, r)
    BY <1>2, <1>5, <1>7, PageTakes
  <2> QED BY <1>5, <1>7, <2>1
<1>8. \A r : (Wanted(c, r)' <=> Wanted(b, r)) /\ (Brought(c, r)' <=> Brought(b, r))
             /\ (Passed(NextCursor(b.at, B), r)' <=> Passed(NextCursor(b.at, B), r))
  BY <1>5, <1>6 DEF Wanted, Brought, Passed, RankOf, NextCursor, CursorsOf, TextMax
<1>9. DoneRun(c)'
  <2>1. CASE B = {}
    <3>1. Cardinality(B) < BatchSize
      <4>1. Cardinality(B) = 0
        BY <2>1, FS_EmptySet
      <4> QED BY <1>5, <4>1
    <3>2. \A r \in c.visible : Wanted(c, r)' => Brought(c, r)'
      BY <1>6, <1>7, <1>8, <2>1, <3>1
    <3> QED BY <1>6, <2>1, <3>2 DEF DoneRun
  <2>2. CASE B # {}
    <3>1. c.visible \subseteq source'
      BY <1>5, <1>6
    <3>2. \A r \in c.visible : Wanted(c, r)' /\ (Passed(NextCursor(c.at, c.got), r)' \/ Cardinality(c.got) < BatchSize) =>
            r \in c.got \/ Brought(c, r)'
      BY <1>6, <1>7, <1>8, <2>2
    <3> QED BY <1>6, <2>2, <3>1, <3>2 DEF DoneRun
  <2> QED BY <2>1, <2>2
<1> QED BY <1>1, <1>4, <1>9, OneDone

LEMMA AddDone ==
  ASSUME TypeOK, DoneInv, NEW j \in Jobs, Add(j)
  PROVE  \A k \in Jobs : DoneRun(job[k])'
<1>1. PICK b, c, n : b = job[j] /\ c = job'[j] /\ n = Cardinality(b.got)
  OBVIOUS
<1>2. job \in [Jobs -> JobType] /\ b \in JobType /\ b.pc = "add"
  BY <1>1 DEF TypeOK, Add
<1>3. Grows /\ \A r \in Rows : r \in b.got => table'[b.pipe][r] > 0
  BY <1>1, <1>2, AddRowsGrows DEF Add
<1>4. job' = [job EXCEPT ![j].got = {}, ![j].at = NextCursor(b.at, b.got),
               ![j].pc = IF n < BatchSize THEN "finish" ELSE "loop",
               ![j].state = IF n < BatchSize THEN "done" ELSE b.state]
  BY <1>1 DEF Add
<1>5. /\ c.pipe = b.pipe /\ c.last = b.last /\ c.visible = b.visible
      /\ c.at = NextCursor(b.at, b.got)
      /\ c.pc = (IF n < BatchSize THEN "finish" ELSE "loop")
      /\ \A k \in Jobs \ {j} : job'[k] = job[k]
  BY <1>1, <1>2, <1>4 DEF JobType
<1>6. /\ b.visible \subseteq source /\ b.visible \subseteq Rows /\ b.pipe \in Pipelines
      /\ \A r \in b.visible :
           Wanted(b, r) /\ (Passed(NextCursor(b.at, b.got), r) \/ n < BatchSize) => r \in b.got \/ Brought(b, r)
  BY <1>1, <1>2, JobsAre DEF DoneInv, DoneRun
<1>7. \A r \in b.visible : r \in b.got \/ Brought(b, r) => Brought(c, r)'
  BY <1>3, <1>5, <1>6 DEF Brought, Grows
<1>8. source' = source /\ \A r : (Wanted(c, r)' <=> Wanted(b, r)) /\ (Passed(c.at, r)' <=> Passed(c.at, r))
  BY <1>3, <1>5 DEF Grows, Wanted, Passed, RankOf
<1>9. DoneRun(c)'
  <2>1. CASE n < BatchSize
    <3>1. \A r \in c.visible : Wanted(c, r)' => Brought(c, r)'
      BY <1>5, <1>6, <1>7, <1>8, <2>1
    <3> QED BY <1>5, <2>1, <3>1 DEF DoneRun
  <2>2. CASE ~ (n < BatchSize)
    <3>1. \A r \in c.visible : Wanted(c, r)' /\ Passed(c.at, r)' => Brought(c, r)'
      BY <1>5, <1>6, <1>7, <1>8
    <3>2. c.visible \subseteq source'
      BY <1>5, <1>6, <1>8
    <3> QED BY <1>5, <2>2, <3>1, <3>2 DEF DoneRun
  <2> QED BY <2>1, <2>2
<1> QED BY <1>1, <1>3, <1>5, <1>9, OneDone


\* A step that keeps what run j has of the source behind it, or gives it up.
LEMMA SameDone ==
  ASSUME TypeOK, DoneInv, NEW j \in Jobs,
         Snapshot(j) \/ StartRun(j) \/ NoConnection(j) \/ CheckCancel(j) \/ Finish(j) \/ SaveOutcome(j)
           \/ Release(j) \/ Fail(j)
  PROVE  \A k \in Jobs : DoneRun(job[k])'
<1>1. PICK b, c : b = job[j] /\ c = job'[j]
  OBVIOUS
<1>2. b \in JobType /\ job \in [Jobs -> JobType] /\ b.visible \subseteq Rows /\ DoneRun(b)
      /\ (b.pc # "free" => b.pipe \in Pipelines)
  BY <1>1, JobsAre DEF TypeOK, DoneInv
<1>3. b.pc # "free" /\ \A k \in Jobs \ {j} : job'[k] = job[k]
  BY <1>1, StepExclusive DEF Run, DoneInv
<1>4. Grows
  <2>1. CASE Fail(j)
    <3>1. source' = source /\ (table' = table \/ AddRows(j))
      BY <2>1 DEF Fail, tableVars
    <3> QED BY <1>1, <1>3, <3>1, AddRowsGrows DEF Grows
  <2>2. CASE ~ Fail(j)
    BY <2>2 DEF Snapshot, StartRun, NoConnection, CheckCancel, Finish, SaveOutcome, Release, tableVars, Grows
  <2> QED BY <2>1, <2>2
<1>5. CASE Snapshot(j) \/ StartRun(j) \/ NoConnection(j) \/ SaveOutcome(j) \/ Release(j) \/ Fail(j)
  <2>1. c.pc \in Quiet \/ (c.pc = "save" /\ c.state # "done")
    <3>1. CASE Snapshot(j) \/ NoConnection(j) \/ Release(j)
      BY <1>1, <1>2, <3>1 DEF Snapshot, NoConnection, Release, Ended, FreeJob, JobType, Quiet
    <3>2. CASE StartRun(j) \/ SaveOutcome(j) \/ Fail(j)
      BY <1>1, <1>2, <3>2 DEF StartRun, SaveOutcome, Fail, JobType, Quiet
    <3> QED BY <1>5, <3>1, <3>2
  <2>2. DoneRun(c)'
    BY <2>1, QuietDone
  <2> QED BY <1>1, <1>3, <1>4, <2>2, OneDone
<1>6. CASE CheckCancel(j) \/ Finish(j)
  <2>1. /\ c.pipe = b.pipe /\ c.last = b.last /\ c.visible = b.visible /\ c.at = b.at
        /\ \/ b.pc = "loop" /\ c.pc = "fetch"
           \/ c.pc = "finish" /\ c.state = "cancelled"
           \/ b.pc = "finish" /\ c.pc = "save" /\ c.state = b.state
    <3>1. CASE CheckCancel(j)
      BY <1>1, <1>2, <3>1 DEF CheckCancel, JobType
    <3>2. CASE Finish(j)
      BY <1>1, <1>2, <3>2 DEF Finish, JobType
    <3> QED BY <1>6, <3>1, <3>2
  <2>2. DoneRun(c)
    BY <1>2, <2>1 DEF DoneRun, Wanted, Brought
  <2>3. c.visible \subseteq Rows /\ (c.pc # "free" => c.pipe \in Pipelines)
    BY <1>2, <1>3, <2>1
  <2>4. DoneRun(c)'
    BY <1>4, <2>2, <2>3, DoneGrows
  <2> QED BY <1>1, <1>3, <1>4, <2>4, OneDone
<1> QED BY <1>5, <1>6

\* A new row comes after the rows a run could see and changes no place of theirs.
LEMMA NewRowDone ==
  ASSUME TypeOK, NEW r \in Rows, NewRow(r), NEW b, b.visible \subseteq Rows, DoneRun(b)
  PROVE  DoneRun(b)'
<1>1. /\ source \subseteq Nat /\ r \in Nat /\ \A q \in source : q < r
      /\ source' = source \cup {r} /\ table' = table
  BY SyncAssumption DEF TypeOK, NewRow, tableVars
<1>2. ASSUME NEW x \in source PROVE RankOf(x)' = RankOf(x)
  <2>1. {q \in source' : q < x} = {q \in source : q < x}
    <3>1. x < r /\ x \in Nat
      BY <1>1
    <3>2. ~ (r < x)
      BY <1>1, <3>1
    <3> QED BY <1>1, <3>2
  <2> QED BY <2>1 DEF RankOf
<1>3. ASSUME NEW x \in source, NEW at PROVE Passed(at, x)' <=> Passed(at, x)
  BY <1>2 DEF Passed
<1>4. \A x \in Rows : (Wanted(b, x)' <=> Wanted(b, x)) /\ (Brought(b, x)' <=> Brought(b, x))
  BY <1>1 DEF Wanted, Brought
<1>5. NextCursor(b.at, b.got)' = NextCursor(b.at, b.got)
  BY DEF NextCursor, CursorsOf, TextMax
<1>6. b.pc \in {"loop", "fetch", "add"} => b.visible \subseteq source /\ b.visible \subseteq source'
  BY <1>1 DEF DoneRun
<1>7. b.pc \in {"loop", "fetch"} =>
        \A x \in b.visible : Wanted(b, x)' /\ Passed(b.at, x)' => Brought(b, x)'
  BY <1>3, <1>4, <1>6 DEF DoneRun
<1>8. b.pc = "add" =>
        \A x \in b.visible :
          Wanted(b, x)' /\ (Passed(NextCursor(b.at, b.got), x)' \/ Cardinality(b.got) < BatchSize) =>
            x \in b.got \/ Brought(b, x)'
  BY <1>3, <1>4, <1>6 DEF DoneRun
<1>9. b.pc \in {"finish", "save"} /\ b.state = "done" =>
        \A x \in b.visible : Wanted(b, x)' => Brought(b, x)'
  BY <1>4 DEF DoneRun
<1> QED BY <1>5, <1>6, <1>7, <1>8, <1>9 DEF DoneRun


\* What a step of a run does to the cursors.
LEMMA RunNoCursors ==
  ASSUME TypeOK, NoCursors, CursorColumn = FALSE, NEW j \in Jobs, Run(j) \/ Fail(j),
         job[j].pc # "free", \A k \in Jobs \ {j} : job'[k] = job[k]
  PROVE  NoCursors'
<1>1. PICK b, c : b = job[j] /\ c = job'[j]
  OBVIOUS
<1>2. b \in JobType /\ b.pipe \in Pipelines /\ job \in [Jobs -> JobType] /\ last \in [Pipelines -> DOMAIN TextRank]
  BY <1>1 DEF TypeOK
<1>3. b.last = None /\ b.max = None /\ \A p \in Pipelines : last[p] = None
  BY <1>1 DEF NoCursors
<1>4. ASSUME c.last = None, c.max = None, last' = last PROVE NoCursors'
  <2>1. \A k \in Jobs : job'[k].last = None /\ job'[k].max = None
    BY <1>1, <1>4 DEF NoCursors
  <2> QED BY <1>3, <1>4, <2>1 DEF NoCursors
<1>5. CASE Snapshot(j) \/ NoConnection(j) \/ Release(j)
  BY <1>1, <1>2, <1>3, <1>4, <1>5 DEF Snapshot, NoConnection, Release, Ended, FreeJob, JobType, storeVars
<1>6. CASE StartRun(j) \/ Prepare(j) \/ CheckCancel(j) \/ Finish(j)
  BY <1>1, <1>2, <1>3, <1>4, <1>6 DEF StartRun, Prepare, CheckCancel, Finish, JobType, storeVars
<1>7. CASE Add(j) \/ Fail(j)
  BY <1>1, <1>2, <1>3, <1>4, <1>7 DEF Add, Fail, JobType, storeVars
<1>8. CASE Fetch(j)
  <2>1. PICK B \in Pages(b.at) :
          job' = IF B = {}
                 THEN [job EXCEPT ![j].pc = "finish", ![j].state = "done"]
                 ELSE [job EXCEPT ![j].pc = "add", ![j].got = B, ![j].max = TextMax({@} \cup CursorsOf(B))]
    BY <1>1, <1>8 DEF Fetch
  <2>2. TextMax({b.max} \cup CursorsOf(B)) = None
    <3>1. {b.max} \cup CursorsOf(B) = {None}
      BY <1>3 DEF CursorsOf
    <3>2. TextMax({None}) \in {None}
      BY CursorsAreNat, TextMaxIs
    <3> QED BY <3>1, <3>2
  <2>3. c.last = None /\ c.max = None
    BY <1>1, <1>2, <1>3, <2>1, <2>2 DEF JobType
  <2> QED BY <1>4, <1>8, <2>3 DEF Fetch, storeVars
<1>9. CASE SaveOutcome(j)
  <2>1. c.last = None /\ c.max = None
    BY <1>1, <1>2, <1>3, <1>9 DEF SaveOutcome, JobType
  <2>2. \A p \in Pipelines : last'[p] = None
    BY <1>1, <1>2, <1>3, <1>9 DEF SaveOutcome, SaveWatermark
  <2>3. \A k \in Jobs : job'[k].last = None /\ job'[k].max = None
    BY <1>1, <2>1 DEF NoCursors
  <2> QED BY <2>2, <2>3 DEF NoCursors
<1> QED BY <1>5, <1>6, <1>7, <1>8, <1>9 DEF Run

\* A step that touches neither the source, the table nor a run.
LEMMA StillDone ==
  ASSUME TypeOK, DoneInv, source' = source, table' = table, job' = job, last' = last, running' = running
  PROVE  DoneInv'
<1>1. Exclusive' /\ NoCursors'
  BY DEF DoneInv, Exclusive, NoCursors
<1>2. ASSUME NEW j \in Jobs PROVE DoneRun(job[j])'
  <2>1. PICK b : b = job[j]
    OBVIOUS
  <2>2. DoneRun(b) /\ b.visible \subseteq Rows /\ (b.pc # "free" => b.pipe \in Pipelines) /\ Grows
    BY <2>1, JobsAre DEF DoneInv, Grows
  <2>3. DoneRun(b)'
    BY <2>2, DoneGrows
  <2> QED BY <2>1, <2>3
<1> QED BY <1>1, <1>2 DEF DoneInv

LEMMA NextDone ==
  ASSUME Alone, CursorsApart
  PROVE  TypeOK /\ DoneInv /\ [Next]_vars => DoneInv'
<1> SUFFICES ASSUME TypeOK, DoneInv, [Next]_vars PROVE DoneInv'
  OBVIOUS
<1>1. job \in [Jobs -> JobType] /\ Exclusive /\ NoCursors /\ CursorColumn \in BOOLEAN
  BY SyncAssumption DEF TypeOK, DoneInv
<1>2. ASSUME NEW p \in Pipelines, NEW j \in Jobs, Claim(p, j) PROVE DoneInv'
  <2>1. /\ p \notin running /\ running' = running \cup {p} /\ source' = source /\ table' = table /\ last' = last
        /\ job' = [job EXCEPT ![j].pc = "claimed", ![j].pipe = p]
    BY <1>2 DEF Claim, tableVars, storeVars
  <2>2. PICK b, c : b = job[j] /\ c = job'[j]
    OBVIOUS
  <2>3. /\ c.pc = "claimed" /\ c.pipe = p /\ c.last = b.last /\ c.max = b.max
        /\ \A k \in Jobs \ {j} : job'[k] = job[k]
    BY <1>1, <2>1, <2>2 DEF JobType
  <2>4. Exclusive'
    BY <1>1, <2>1, <2>2, <2>3, ClaimExclusive
  <2>5. NoCursors'
    BY <1>1, <2>1, <2>2, <2>3 DEF NoCursors
  <2>6. DoneRun(c)'
    BY <2>3, QuietDone DEF Quiet
  <2>7. Grows
    BY <2>1 DEF Grows
  <2>8. \A k \in Jobs : DoneRun(job[k])'
    BY <2>2, <2>3, <2>6, <2>7, OneDone
  <2> QED BY <2>4, <2>5, <2>8 DEF DoneInv
<1>3. ASSUME NEW j \in Jobs, Run(j) \/ Fail(j) PROVE DoneInv'
  <2>1. job[j].pc # "free" /\ (\A k \in Jobs \ {j} : job'[k] = job[k]) /\ Exclusive'
    BY <1>1, <1>3, StepExclusive
  <2>2. NoCursors'
    <3>1. CASE CursorColumn = TRUE
      BY <3>1 DEF NoCursors
    <3>2. CASE CursorColumn = FALSE
      BY <1>1, <1>3, <2>1, <3>2, RunNoCursors
    <3> QED BY <1>1, <3>1, <3>2
  <2>3. \A k \in Jobs : DoneRun(job[k])'
    <3>1. CASE Prepare(j)
      BY <3>1, PrepareDone
    <3>2. CASE Fetch(j)
      BY <3>2, FetchDone
    <3>3. CASE Add(j)
      BY <3>3, AddDone
    <3> QED BY <1>3, <3>1, <3>2, <3>3, SameDone DEF Run
  <2> QED BY <2>1, <2>2, <2>3 DEF DoneInv
<1>4. ASSUME NEW j \in Jobs, CancelJob(j) PROVE DoneInv'
  BY <1>4, StillDone DEF CancelJob, storeVars, tableVars
<1>5. ASSUME NEW r \in Rows, NewRow(r) PROVE DoneInv'
  <2>1. job' = job /\ last' = last /\ running' = running
    BY <1>5 DEF NewRow, storeVars
  <2>2. Exclusive' /\ NoCursors'
    BY <1>1, <2>1 DEF Exclusive, NoCursors
  <2>3. ASSUME NEW k \in Jobs PROVE DoneRun(job[k])'
    <3>1. PICK b : b = job[k]
      OBVIOUS
    <3>2. DoneRun(b) /\ b.visible \subseteq Rows
      BY <3>1, JobsAre DEF DoneInv
    <3>3. DoneRun(b)'
      BY <1>5, <3>2, NewRowDone
    <3> QED BY <2>1, <3>1, <3>3
  <2> QED BY <2>2, <2>3 DEF DoneInv
<1>6. ASSUME NEW p \in Pipelines, DeletePipeline(p) PROVE DoneInv'
  BY <1>6, StillDone DEF DeletePipeline, tableVars
<1>7. CASE DeleteConnection
  BY <1>7, StillDone DEF DeleteConnection, tableVars
<1>8. CASE ReplaceHandle
  BY <1>8, StillDone DEF ReplaceHandle, storeVars
<1>9. CASE Crash
  <2>1. \A j \in Jobs : job'[j].pc = "free" /\ job'[j].last = None /\ job'[j].max = None
    BY <1>9 DEF Crash, Ended, FreeJob
  <2>2. CursorColumn = FALSE => \A p \in Pipelines : last'[p] = None
    BY <1>1, <1>9 DEF Crash, SaveWatermark, NoCursors, TypeOK
  <2>3. ASSUME NEW k \in Jobs PROVE DoneRun(job[k])'
    <3>1. PICK c : c = job'[k]
      OBVIOUS
    <3>2. DoneRun(c)'
      BY <2>1, <3>1, QuietDone DEF Quiet
    <3> QED BY <3>1, <3>2
  <2> QED BY <1>1, <2>1, <2>2, <2>3 DEF DoneInv, Exclusive, NoCursors
<1>10. CASE UNCHANGED vars
  BY <1>10, StillDone DEF vars, storeVars, tableVars
<1> QED BY <1>2, <1>3, <1>4, <1>5, <1>6, <1>7, <1>8, <1>9, <1>10 DEF Next

\* However pages, new rows, other runs and failures come between, a run that ends as done
\* has put every row into the table that its pipeline could see when the run began and that
\* is past its watermark.  A pipeline that drops the table must be alone with it, and rows
\* must have different cursors: a page may end between two rows of one cursor, and the next
\* begins past it.  (run_pipeline; fetch_batch)
THEOREM DoneIsComplete ==
  ASSUME Alone, CursorsApart
  PROVE  Spec => []DoneTakesAll
<1>1. Init => TypeOK /\ DoneInv
  <2>1. Init => TypeOK
    BY InitType
  <2>2. Init => DoneInv
    BY DEF Init, FreeJob, DoneInv, Exclusive, NoCursors, DoneRun
  <2> QED BY <2>1, <2>2
<1>2. TypeOK /\ DoneInv /\ [Next]_vars => (TypeOK /\ DoneInv)'
  BY NextType, NextDone
<1>3. DoneInv => DoneTakesAll
  BY DEF DoneInv, DoneRun, DoneTakesAll, Wanted, Brought
<1> QED BY <1>1, <1>2, <1>3, PTL DEF Spec
=============================================================================
