---------------------------- MODULE PipelineSync ------------------------------
(***************************************************************************)
(* Sync pipelines: rows of a SQL source copied into a table, with a        *)
(* watermark per pipeline.                                                 *)
(* (toradb-pipe: scheduler.rs, pipeline.rs, store.rs, source/sql.rs;       *)
(*  toradb-api: pipe_api.rs, spawn_sync_job and the pipeline handlers)     *)
(*                                                                         *)
(* A run is a task of the server.  It claims its pipeline, takes a copy of *)
(* its settings, opens a bulk session on the server's handle and adds one  *)
(* batch at a time; the watermark is saved at the end.  The handle is      *)
(* shared: another run, or a task that replaces the handle, comes between  *)
(* any two batches.  All pipelines write one table.                        *)
(***************************************************************************)
EXTENDS Integers, FiniteSets

CONSTANTS
  Pipelines,       \* pipelines, scheduled and enabled
  Full,            \* those in full mode, which drop the table first
  Jobs,            \* slots for runs (bound: runs at one time)
  Rows,            \* rows the source may hold, numbered by id
  Cur,             \* row -> its value in the cursor column, 0 when NULL
  TextRank,        \* cursor value -> its place in the order of strings
  CursorColumn,    \* whether the mapping names a cursor column
  BatchSize,
  MaxFailures,     \* bound: errors of the source, the embedder or the table
  MaxCrashes,      \* bound: crashes of the server
  MaxReplacements, \* bound: replacements of the handle by other tasks
  MaxCancels,      \* bound: calls of cancel_sync_job
  MaxCopies,       \* bound: copies of a row the model counts
  MayDelete        \* whether pipelines and the connection may be deleted

None == 0          \* no cursor: Cursor::Start, or last_cursor = None

ASSUME SyncAssumption ==
  /\ Full \subseteq Pipelines
  /\ Rows \subseteq Nat \ {0} /\ IsFiniteSet(Rows)
  /\ Cur \in [Rows -> Nat]
  /\ \A r, q \in Rows : r < q => Cur[r] <= Cur[q]
  /\ TextRank \in [{None} \cup {Cur[r] : r \in Rows} -> Nat]
  /\ \A v \in DOMAIN TextRank \ {None} : TextRank[None] < TextRank[v]
  /\ BatchSize \in Nat \ {0} /\ MaxCopies \in Nat \ {0}
  /\ {MaxFailures, MaxCrashes, MaxReplacements, MaxCancels} \subseteq Nat
  /\ {CursorColumn, MayDelete} \subseteq BOOLEAN

VARIABLES
  source,      \* rows of the source
  connected,   \* whether the store has the connection
  stored,      \* pipelines in pipelines.json
  last,        \* pipeline -> last_cursor, on disk
  record,      \* job -> state of its run record, on disk
  running,     \* the RunningSet
  cancelled,   \* sync_cancel
  job,         \* job -> the run in that slot
  table,       \* pipeline -> row -> copies it has put into the table
  session,     \* whether the handle has a bulk session on the table
  unindexed,   \* whether segments wait for their indexes
  failures, crashes, replacements, cancels

storeVars == <<connected, stored, last, record>>
tableVars == <<table, session, unindexed>>
counters == <<failures, crashes, replacements, cancels>>
vars == <<source, storeVars, running, cancelled, job, tableVars, counters>>

FreeJob == [pc |-> "free", pipe |-> None, last |-> None, url |-> FALSE,
            at |-> None, max |-> None, got |-> {}, visible |-> {},
            state |-> "none"]

\* A slot whose run is over; it keeps the run's record until it is used again.
Ended(j) == [FreeJob EXCEPT !.pipe = job[j].pipe]

Init ==
  /\ source \in SUBSET Rows /\ connected = TRUE /\ stored = Pipelines
  /\ last = [p \in Pipelines |-> None]
  /\ record = [j \in Jobs |-> "none"]
  /\ running = {} /\ cancelled = {}
  /\ job = [j \in Jobs |-> FreeJob]
  /\ table = [p \in Pipelines |-> [r \in Rows |-> 0]]
  /\ session = FALSE /\ unindexed = FALSE
  /\ failures = 0 /\ crashes = 0 /\ replacements = 0 /\ cancels = 0

-----------------------------------------------------------------------------
(* Claiming a pipeline *)

\* RunGuard::claim, for the scheduler or for run_pipeline_now, both of which
\* have just seen the pipeline in the store.
Claim(p, j) ==
  /\ p \in stored /\ p \notin running /\ job[j].pc = "free"
  /\ running' = running \cup {p}
  /\ job' = [job EXCEPT ![j].pc = "claimed", ![j].pipe = p]
  /\ UNCHANGED <<source, storeVars, cancelled, tableVars, counters>>

\* The settings are copied; a pipeline deleted meanwhile ends the run.
Snapshot(j) ==
  LET p == job[j].pipe
  IN  /\ job[j].pc = "claimed"
      /\ IF p \in stored
         THEN /\ job' = [job EXCEPT ![j].pc = "spawned", ![j].last = last[p],
                                    ![j].url = connected]
              /\ UNCHANGED running
         ELSE /\ job' = [job EXCEPT ![j] = Ended(j)]
              /\ running' = running \ {p}
      /\ UNCHANGED <<source, storeVars, cancelled, tableVars, counters>>

\* start_run, which does not look whether the pipeline is still there.
StartRun(j) ==
  /\ job[j].pc = "spawned"
  /\ record' = [record EXCEPT ![j] = "running"]
  /\ job' = [job EXCEPT ![j].pc = "started"]
  /\ UNCHANGED <<source, connected, stored, last, running, cancelled, tableVars, counters>>

\* The connection was deleted: the job fails, its run record stays.  (The
\* flag of a cancelled job stays too; its id is not used again.)
NoConnection(j) ==
  /\ job[j].pc = "started" /\ ~ job[j].url
  /\ job' = [job EXCEPT ![j] = Ended(j)]
  /\ running' = running \ {job[j].pipe}
  /\ cancelled' = cancelled \ {j}
  /\ UNCHANGED <<source, storeVars, tableVars, counters>>

-----------------------------------------------------------------------------
(* run_pipeline *)

\* Under the lock of the handle: full mode drops the table, and a session is
\* opened unless there is one.
Prepare(j) ==
  LET p == job[j].pipe
      drop == p \in Full
  IN  /\ job[j].pc = "started" /\ job[j].url
      /\ table' = IF drop THEN [q \in Pipelines |-> [r \in Rows |-> 0]] ELSE table
      /\ unindexed' = (unindexed /\ ~ drop)
      /\ session' = TRUE
      /\ job' = [job EXCEPT ![j].pc = "loop", ![j].max = job[j].last,
                            ![j].at = IF drop THEN None ELSE job[j].last,
                            ![j].visible = source]
      /\ UNCHANGED <<source, storeVars, running, cancelled, counters>>

\* (mutant) a cancelled run leaves its session open.
CheckCancelNoFinish(j) ==
  /\ job[j].pc = "loop"
  /\ job' = [job EXCEPT ![j].pc = IF j \in cancelled THEN "save" ELSE "fetch",
                        ![j].state = IF j \in cancelled THEN "cancelled" ELSE @]
  /\ UNCHANGED <<source, storeVars, running, cancelled, tableVars, counters>>

\* is_cancelled, once per batch.
CheckCancel(j) ==
  /\ job[j].pc = "loop"
  /\ job' = [job EXCEPT ![j].pc = IF j \in cancelled THEN "finish" ELSE "fetch",
                        ![j].state = IF j \in cancelled THEN "cancelled" ELSE @]
  /\ UNCHANGED <<source, storeVars, running, cancelled, tableVars, counters>>

\* The pages fetch_batch may return: with a cursor column the BatchSize rows
\* that come first among those past the cursor (NULLs come first and are past
\* no cursor; ties in any order), else the rows from an offset.
Pages(at) ==
  IF CursorColumn
  THEN LET past == IF at = None THEN source ELSE {r \in source : Cur[r] > at}
       IN  {B \in SUBSET past :
              /\ Cardinality(B) <= BatchSize
              /\ Cardinality(B) = BatchSize \/ B = past
              /\ \A r \in B, q \in past \ B : Cur[r] <= Cur[q]}
  ELSE {{r \in source : Cardinality({q \in source : q < r}) \in at .. at + BatchSize - 1}}

\* The largest of the values as strings.
TextMax(values) == CHOOSE v \in values : \A w \in values : TextRank[w] <= TextRank[v]

CursorsOf(B) == {Cur[r] : r \in {q \in B : CursorColumn}} \ {None}

\* The cursor after page B.
NextCursor(at, B) ==
  IF ~ CursorColumn THEN at + Cardinality(B)
  ELSE IF CursorsOf(B) = {} THEN at ELSE TextMax(CursorsOf(B))

\* An await: other runs and callers come between.
Fetch(j) ==
  /\ job[j].pc = "fetch"
  /\ \E B \in Pages(job[j].at) :
       job' = IF B = {}
              THEN [job EXCEPT ![j].pc = "finish", ![j].state = "done"]
              ELSE [job EXCEPT ![j].pc = "add", ![j].got = B,
                               ![j].max = TextMax({@} \cup CursorsOf(B))]
  /\ UNCHANGED <<source, storeVars, running, cancelled, tableVars, counters>>

\* The rows of a page put into the table, in a segment whose indexes wait for
\* the end of the session, or with its indexes when there is no session.
AddRows(j) ==
  /\ table' = [table EXCEPT ![job[j].pipe] =
                [r \in Rows |-> IF r \in job[j].got /\ @[r] < MaxCopies THEN @[r] + 1 ELSE @[r]]]
  /\ unindexed' = (unindexed \/ session)
  /\ UNCHANGED session

\* (mutant) the next page starts where this one did.
AddSameCursor(j) ==
  /\ job[j].pc = "add" /\ AddRows(j)
  /\ job' = [job EXCEPT ![j].got = {},
               ![j].pc = IF Cardinality(job[j].got) < BatchSize THEN "finish" ELSE "loop",
               ![j].state = IF Cardinality(job[j].got) < BatchSize THEN "done" ELSE @]
  /\ UNCHANGED <<source, storeVars, running, cancelled, counters>>

\* (mutant) a full page taken for the last one.
AddEndsEarly(j) ==
  /\ job[j].pc = "add" /\ AddRows(j)
  /\ job' = [job EXCEPT ![j].got = {}, ![j].at = NextCursor(@, job[j].got),
               ![j].pc = IF Cardinality(job[j].got) <= BatchSize THEN "finish" ELSE "loop",
               ![j].state = IF Cardinality(job[j].got) <= BatchSize THEN "done" ELSE @]
  /\ UNCHANGED <<source, storeVars, running, cancelled, counters>>

\* add_documents under the lock of the handle; a short page is the last.
Add(j) ==
  /\ job[j].pc = "add" /\ AddRows(j)
  /\ job' = [job EXCEPT ![j].got = {}, ![j].at = NextCursor(@, job[j].got),
               ![j].pc = IF Cardinality(job[j].got) < BatchSize THEN "finish" ELSE "loop",
               ![j].state = IF Cardinality(job[j].got) < BatchSize THEN "done" ELSE @]
  /\ UNCHANGED <<source, storeVars, running, cancelled, counters>>

\* finish_session: if the handle still has a session it is closed and every
\* segment of the table is indexed.
Finish(j) ==
  /\ job[j].pc = "finish"
  /\ session' = FALSE
  /\ unindexed' = (unindexed /\ ~ session)
  /\ job' = [job EXCEPT ![j].pc = "save"]
  /\ UNCHANGED <<source, storeVars, running, cancelled, table, counters>>

\* An error: of the source or the embedder before anything is changed, of
\* add_documents before or after the rows are in, of finish_bulk_ingest after
\* the session is closed.  The error path does not close the session.
Fail(j) ==
  /\ failures < MaxFailures
  /\ \/ /\ job[j].pc \in {"started", "loop", "fetch", "add"} /\ job[j].url
        /\ UNCHANGED tableVars
     \/ job[j].pc = "add" /\ AddRows(j)
     \/ job[j].pc = "finish" /\ session /\ session' = FALSE /\ UNCHANGED <<table, unindexed>>
  /\ job' = [job EXCEPT ![j].pc = "save", ![j].state = "failed"]
  /\ failures' = failures + 1
  /\ UNCHANGED <<source, storeVars, running, cancelled, crashes, replacements, cancels>>

-----------------------------------------------------------------------------
(* The end of a run *)

\* (mutant) the watermark saved for a failed run too.
SaveWatermarkAlways(j) ==
  last' = IF job[j].pipe \in stored
          THEN [last EXCEPT ![job[j].pipe] = job[j].max] ELSE last

\* (mutant) a cancelled run treated like a failed one.
SaveWatermarkDoneOnly(j) ==
  last' = IF job[j].state = "done" /\ job[j].pipe \in stored
          THEN [last EXCEPT ![job[j].pipe] = job[j].max] ELSE last

\* set_last_cursor for a run that is done or cancelled; a pipeline deleted
\* meanwhile is not found.
SaveWatermark(j) ==
  last' = IF job[j].state # "failed" /\ job[j].pipe \in stored
          THEN [last EXCEPT ![job[j].pipe] = job[j].max] ELSE last

\* set_last_cursor and finish_run, under the lock of the store.
SaveOutcome(j) ==
  /\ job[j].pc = "save"
  /\ SaveWatermark(j)
  /\ record' = IF record[j] = "none" THEN record ELSE [record EXCEPT ![j] = job[j].state]
  /\ job' = [job EXCEPT ![j].pc = "release"]
  /\ UNCHANGED <<source, connected, stored, running, cancelled, tableVars, counters>>

\* The flag is cleared and the guard is dropped.
Release(j) ==
  /\ job[j].pc = "release"
  /\ running' = running \ {job[j].pipe}
  /\ cancelled' = cancelled \ {j}
  /\ job' = [job EXCEPT ![j] = Ended(j)]
  /\ UNCHANGED <<source, storeVars, tableVars, counters>>

Run(j) ==
  \/ Snapshot(j) \/ StartRun(j) \/ NoConnection(j) \/ Prepare(j) \/ CheckCancel(j)
  \/ Fetch(j) \/ Add(j) \/ Finish(j) \/ SaveOutcome(j) \/ Release(j)

-----------------------------------------------------------------------------
(* What comes between *)

\* A row appears in the source, its id and cursor after all that are there.
NewRow(r) ==
  /\ r \in Rows \ source /\ \A q \in source : q < r
  /\ source' = source \cup {r}
  /\ UNCHANGED <<storeVars, running, cancelled, job, tableVars, counters>>

CancelJob(j) ==
  /\ cancels < MaxCancels /\ job[j].pc \notin {"free", "claimed"} /\ j \notin cancelled
  /\ cancelled' = cancelled \cup {j} /\ cancels' = cancels + 1
  /\ UNCHANGED <<source, storeVars, running, job, tableVars, failures, crashes, replacements>>

\* delete_pipeline removes the records of its runs, the running one's too.
DeletePipeline(p) ==
  /\ MayDelete /\ p \in stored
  /\ stored' = stored \ {p}
  /\ record' = [j \in Jobs |-> IF job[j].pipe = p THEN "none" ELSE record[j]]
  /\ UNCHANGED <<source, connected, last, running, cancelled, job, tableVars, counters>>

DeleteConnection ==
  /\ MayDelete /\ connected /\ connected' = FALSE
  /\ UNCHANGED <<source, stored, last, record, running, cancelled, job, tableVars, counters>>

\* An upload, index or compaction task ends and opens a fresh handle in the
\* place of the server's: a session of the old one is forgotten.
ReplaceHandle ==
  /\ replacements < MaxReplacements
  /\ session' = FALSE /\ replacements' = replacements + 1
  /\ UNCHANGED <<source, storeVars, running, cancelled, job, table, unindexed,
                 failures, crashes, cancels>>

\* The server stops and starts again.  It may stop between the two files of
\* SaveOutcome.
Crash ==
  /\ crashes < MaxCrashes /\ crashes' = crashes + 1
  /\ \/ UNCHANGED last
     \/ \E j \in Jobs : job[j].pc = "save" /\ SaveWatermark(j)
  /\ running' = {} /\ cancelled' = {} /\ session' = FALSE
  /\ job' = [j \in Jobs |-> Ended(j)]
  /\ UNCHANGED <<source, connected, stored, record, table, unindexed,
                 failures, replacements, cancels>>

Next ==
  \/ \E p \in Pipelines, j \in Jobs : Claim(p, j)
  \/ \E j \in Jobs : Run(j) \/ Fail(j) \/ CancelJob(j)
  \/ \E r \in Rows : NewRow(r)
  \/ \E p \in Pipelines : DeletePipeline(p)
  \/ DeleteConnection \/ ReplaceHandle \/ Crash

Spec == Init /\ [][Next]_vars

\* Tasks are polled by the runtime, and the scheduler claims a pipeline that
\* is due at a later tick if not at this one.
FairSpec ==
  /\ Spec
  /\ \A j \in Jobs : WF_vars(Run(j))
  /\ \A p \in Pipelines : WF_vars(\E j \in Jobs : Claim(p, j))

-----------------------------------------------------------------------------
JobType ==
  [pc : {"free", "claimed", "spawned", "started", "loop", "fetch", "add", "finish",
         "save", "release"},
   pipe : Pipelines \cup {None}, last : DOMAIN TextRank, url : BOOLEAN, at : Nat,
   max : DOMAIN TextRank, got : SUBSET Rows, visible : SUBSET Rows,
   state : {"none", "done", "failed", "cancelled"}]

TypeOK ==
  /\ source \subseteq Rows /\ connected \in BOOLEAN /\ stored \subseteq Pipelines
  /\ last \in [Pipelines -> DOMAIN TextRank]
  /\ record \in [Jobs -> {"none", "running", "done", "failed", "cancelled"}]
  /\ running \subseteq Pipelines /\ cancelled \subseteq Jobs
  /\ job \in [Jobs -> JobType]
  /\ \A j \in Jobs :
       /\ job[j].pc # "free" => job[j].pipe \in Pipelines
       /\ job[j].pc \in {"finish", "save"} => job[j].state # "none"
  /\ table \in [Pipelines -> [Rows -> 0 .. MaxCopies]]
  /\ session \in BOOLEAN /\ unindexed \in BOOLEAN

Incremental == Pipelines \ Full

\* The watermark of an incremental pipeline never passes a row that is not in
\* the table, whatever fails, is cancelled or crashes in whichever order: a
\* row passed by is never fetched again.
WatermarkCovers ==
  \A p \in Incremental, r \in source :
    None < Cur[r] /\ Cur[r] <= last[p] => table[p][r] > 0

\* A run that ends as done has brought every row its pipeline could see when
\* it began.
DoneTakesAll ==
  \A j \in Jobs : job[j].pc = "save" /\ job[j].state = "done" =>
    \A r \in job[j].visible :
      job[j].pipe \in Full \/ Cur[r] > job[j].last => table[job[j].pipe][r] > 0

\* An incremental pipeline adds a row once, and once more at most for every
\* run that failed or was cut off by a crash.
CopiesBounded ==
  \A p \in Incremental, r \in Rows : table[p][r] <= 1 + failures + crashes

\* Unless something has failed, a table no pipeline is writing can be
\* queried: its session is closed and all of its segments are indexed,
\* although two pipelines share the session and either may end it.
QueryableWhenIdle ==
  running = {} /\ failures = 0 /\ crashes = 0 => ~ session /\ ~ unindexed

\* A run record says "running" only while a task works on it.
RecordsAgree ==
  \A j \in Jobs : record[j] = "running" => job[j].pc # "free"

\* Every row of the source comes to the table, through failed, cancelled and
\* crashed runs: the guard is always given back and the watermark never
\* passes the row.
EventuallySynced ==
  \A p \in Incremental, r \in Rows : r \in source ~> table[p][r] > 0

\* A run that has begun gives its pipeline back.
RunsEnd == \A p \in Pipelines : p \in running ~> p \notin running

-----------------------------------------------------------------------------
(* Inductive strengthening of WatermarkCovers *)

\* Every row of the source up to cursor v is in the table, and no row that
\* appears later comes at or before v.
Covered(p, v) == \A r \in source : None < Cur[r] /\ Cur[r] <= v => table[p][r] > 0
Behind(v) == v = None \/ \E q \in source : v <= Cur[q]
UpTo(p, v) == Covered(p, v) /\ Behind(v)

\* While a page is at hand max is already past its rows.
JobInv(j) ==
  LET p == job[j].pipe
  IN  /\ job[j].pc \in {"spawned", "started"} => UpTo(p, job[j].last)
      /\ job[j].pc \in {"loop", "fetch"} => job[j].at = job[j].max
      /\ job[j].pc \in {"loop", "fetch", "finish"} => UpTo(p, job[j].max)
      /\ job[j].pc = "save" /\ job[j].state # "failed" => UpTo(p, job[j].max)
      /\ job[j].pc = "add" =>
           /\ job[j].max = NextCursor(job[j].at, job[j].got)
           /\ Behind(job[j].max)
           /\ \A r \in source : None < Cur[r] /\ Cur[r] <= job[j].max =>
                r \in job[j].got \/ table[p][r] > 0

\* The watermarks, on disk and carried by the runs.
WatermarkInv ==
  /\ \A p \in Pipelines : UpTo(p, last[p])
  /\ \A j \in Jobs : JobInv(j)

-----------------------------------------------------------------------------
(* Inductive strengthening of CopiesBounded *)

\* No row past cursor v has been added more often than runs have failed or were cut off.
Past(p, v) == \A r \in Rows : v < Cur[r] => table[p][r] <= failures + crashes

\* One run at most has a pipeline, and it is the one that holds its guard.
Exclusive ==
  \A j \in Jobs : job[j].pc # "free" =>
    /\ job[j].pipe \in running
    /\ \A k \in Jobs \ {j} : job[k].pc # "free" => job[k].pipe # job[j].pipe

\* The rows a run may still fetch are past the cursor it carries; after a failure the
\* rows that were added count as added in vain.
JobCopies(j) ==
  LET p == job[j].pipe
  IN  /\ job[j].pc \in {"claimed", "spawned", "started", "release"} /\ p \in stored => Past(p, last[p])
      /\ job[j].pc \in {"spawned", "started"} => Past(p, job[j].last)
      /\ job[j].pc \in {"loop", "fetch", "add"} => Past(p, job[j].at)
      /\ job[j].pc = "add" => \A r \in job[j].got : job[j].at < Cur[r]
      /\ job[j].pc = "finish" => job[j].state # "failed" /\ Past(p, job[j].max)
      /\ job[j].pc = "save" => Past(p, IF job[j].state = "failed" THEN None ELSE job[j].max)

CopiesInv ==
  /\ Exclusive
  /\ \A p \in stored \ running : Past(p, last[p])
  /\ \A j \in Jobs : JobCopies(j)
  /\ \A p \in Pipelines, r \in Rows : table[p][r] <= 1 + failures + crashes

-----------------------------------------------------------------------------
(* Inductive strengthening of QueryableWhenIdle *)

\* Where a run has a session open, or another run has ended the session it shared.
InSession == {"loop", "fetch", "add", "finish"}

\* Segments wait for their indexes only while there is a session, and a session has a
\* run that will end it.
IdleInv ==
  /\ Exclusive
  /\ failures = 0 /\ crashes = 0 =>
       /\ session => \E j \in Jobs : job[j].pc \in InSession
       /\ unindexed => session

-----------------------------------------------------------------------------
(* Inductive strengthening of DoneTakesAll *)

\* What a run is to bring and has brought, and whether a position is past a row.
Wanted(b, r) == b.pipe \in Full \/ Cur[r] > b.last
Brought(b, r) == table[b.pipe][r] > 0
RankOf(r) == Cardinality({q \in source : q < r})
Passed(at, r) == IF CursorColumn THEN at # None /\ Cur[r] <= at ELSE RankOf(r) < at

\* A run has brought what it was to bring of the rows its position is past, with the page
\* at hand also those the page has; after a page that is not full, all of them.
DoneRun(b) ==
  /\ b.pc \in {"loop", "fetch", "add"} => b.visible \subseteq source
  /\ b.pc \in {"loop", "fetch"} =>
       \A r \in b.visible : Wanted(b, r) /\ Passed(b.at, r) => Brought(b, r)
  /\ b.pc = "add" =>
       \A r \in b.visible :
         Wanted(b, r) /\ (Passed(NextCursor(b.at, b.got), r) \/ Cardinality(b.got) < BatchSize) =>
           r \in b.got \/ Brought(b, r)
  /\ b.pc \in {"finish", "save"} /\ b.state = "done" =>
       \A r \in b.visible : Wanted(b, r) => Brought(b, r)

\* Without a cursor column there are no cursors.
NoCursors ==
  ~ CursorColumn =>
    /\ \A p \in Pipelines : last[p] = None
    /\ \A j \in Jobs : job[j].last = None /\ job[j].max = None

DoneInv == Exclusive /\ NoCursors /\ \A j \in Jobs : DoneRun(job[j])
===============================================================================
