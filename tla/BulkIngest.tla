------------------------------ MODULE BulkIngest -------------------------------
(***************************************************************************)
(* Bulk ingest into a segment-only table through the platform server.      *)
(* (toradb-api lib.rs: ingest_upload, ingest_hf_handler, table_finish and  *)
(*  the tasks they spawn; toradb-engine dag.rs, persist.rs,                *)
(*  index_build_status.rs; toradb-storage wal.rs)                          *)
(*                                                                         *)
(* Upload jobs and index tasks each open a handle of their own on the      *)
(* directory, so between them there is no lock: the table's manifest is    *)
(* read, changed and saved by both.  When one ends it puts a fresh handle  *)
(* in the place of the server's.  A batch is taken as one row.             *)
(***************************************************************************)
EXTENDS Integers, Sequences, FiniteSets

CONSTANTS
  Jobs,         \* slots for ingest jobs (bound: jobs at one time)
  Tasks,        \* slots for index tasks (bound)
  ClientWaits,  \* whether the client starts nothing while a job or a task is
                \* reported as running, as the platform's pages do
  HubJobs,      \* whether datasets are ingested from the hub as well
  MaxBatches,   \* bound: batches ever written
  MaxFailures,  \* bound: errors of the input, the disk or the index build
  MaxCrashes,   \* bound: crashes of the server
  MaxCancels    \* bound: calls of cancel_ingest_job

ASSUME IngestAssumption ==
  /\ MaxBatches \in Nat /\ {MaxFailures, MaxCrashes, MaxCancels} \subseteq Nat
  /\ {ClientWaits, HubJobs} \subseteq BOOLEAN

VARIABLES
  manifest,   \* segments in order, and the id range recorded for a segment
  file,       \* segment -> the row in its file
  side,       \* segment -> the batch its sidecar indexes, 0 if it has none
  log,        \* the flush log
  status,     \* build_status.json
  session,    \* whether the server's handle has a bulk session
  job, task,
  written,    \* batches written so far
  committed,  \* batches whose manifest was saved
  failures, crashes, cancels

tableVars == <<manifest, file, side, log>>
counters == <<failures, crashes, cancels>>
vars == <<tableVars, status, session, job, task, written, committed, counters>>

Segments == 1 .. MaxBatches + 1
NoFile == [batch |-> 0, id |-> 0]
Listed == {manifest.segs[i] : i \in DOMAIN manifest.segs}
HasFile(n) == file[n].batch > 0

NoJob == [pc |-> "idle", kind |-> "none", state |-> "none", cancelled |-> FALSE,
          next |-> 0, seg |-> 0, read |-> [segs |-> <<>>, range |-> <<>>]]
NoTask == [pc |-> "idle", state |-> "none", todo |-> {},
           read |-> [segs |-> <<>>, range |-> <<>>]]

Init ==
  /\ manifest = [segs |-> <<>>, range |-> <<>>]
  /\ file = [n \in Segments |-> NoFile] /\ side = [n \in Segments |-> 0]
  /\ log = <<>> /\ status = "none" /\ session = FALSE
  /\ job = [j \in Jobs |-> NoJob] /\ task = [t \in Tasks |-> NoTask]
  /\ written = 0 /\ committed = {}
  /\ failures = 0 /\ crashes = 0 /\ cancels = 0

\* What the client sees of running jobs and tasks.
MayStart ==
  ClientWaits => /\ \A j \in Jobs : job[j].state # "running"
                 /\ \A t \in Tasks : task[t].state # "running"

-----------------------------------------------------------------------------
(* Ingest jobs *)

\* ingest_upload or ingest_hf_handler: the server's handle gets a session
\* unless it has one.
BeginJob(j, kind) ==
  /\ job[j].pc = "idle" /\ MayStart
  /\ session' = TRUE
  /\ status' = IF session THEN status ELSE "none"
  /\ job' = [job EXCEPT ![j] = [NoJob EXCEPT !.pc = "queued", !.kind = kind,
                                             !.state = "running"]]
  /\ UNCHANGED <<tableVars, task, written, committed, counters>>

\* The worker opens its own handle.  For an upload it opens a session there,
\* which starts at the next id of a table that was not loaded: 0.  For the hub
\* it does not, and the first batch is refused.
StartJob(j) ==
  /\ job[j].pc = "queued"
  /\ job' = IF job[j].cancelled
            THEN [job EXCEPT ![j].pc = "idle", ![j].state = "cancelled"]
            ELSE IF job[j].kind = "hub"
            THEN [job EXCEPT ![j].pc = "idle", ![j].state = "failed"]
            ELSE [job EXCEPT ![j].pc = "load", ![j].state = "running"]
  /\ status' = IF job'[j].pc = "load" THEN "none" ELSE status
  /\ UNCHANGED <<tableVars, session, task, written, committed, counters>>

\* (mutant) segments are named from 0.
WriteSegmentFromZero(j) ==
  LET n == Len(manifest.segs)
  IN  /\ job[j].pc = "load" /\ written < MaxBatches
      /\ written' = written + 1
      /\ file' = [k \in Segments |-> IF k = n THEN [batch |-> written', id |-> job[j].next]
                                    ELSE file[k]]
      /\ job' = [job EXCEPT ![j].pc = "log", ![j].seg = n, ![j].read = manifest]
      /\ UNCHANGED <<manifest, side, log, status, session, task, committed, counters>>

\* flush_batch_with_opts reads the manifest, names the segment after the
\* number of segments and writes its file.
WriteSegment(j) ==
  LET n == Len(manifest.segs) + 1
  IN  /\ job[j].pc = "load" /\ written < MaxBatches
      /\ written' = written + 1
      /\ file' = [file EXCEPT ![n] = [batch |-> written', id |-> job[j].next]]
      /\ job' = [job EXCEPT ![j].pc = "log", ![j].seg = n, ![j].read = manifest]
      /\ UNCHANGED <<manifest, side, log, status, session, task, committed, counters>>

\* append_flush.
AppendLog(j) ==
  /\ job[j].pc = "log"
  /\ log' = Append(log, [seg |-> job[j].seg, id |-> job[j].next])
  /\ job' = [job EXCEPT ![j].pc = "save"]
  /\ UNCHANGED <<manifest, file, side, status, session, task, written, committed, counters>>

WithRange(range, n, id) == [k \in DOMAIN range \cup {n} |-> IF k = n THEN id ELSE range[k]]

\* push_segment_meta.
PushSegment(m, n, id) ==
  [segs |-> IF \E i \in DOMAIN m.segs : m.segs[i] = n THEN m.segs ELSE Append(m.segs, n),
   range |-> WithRange(m.range, n, id)]

\* The manifest read before is saved with the segment; the batch is taken.
SaveManifest(j) ==
  /\ job[j].pc = "save"
  /\ manifest' = PushSegment(job[j].read, job[j].seg, job[j].next)
  /\ committed' = committed \cup {file[job[j].seg].batch}
  /\ job' = [job EXCEPT ![j].pc = "load", ![j].next = @ + 1, ![j].read = NoJob.read]
  /\ UNCHANGED <<file, side, log, status, session, task, written, counters>>

\* The input is at its end: a fresh handle replaces the server's, and the job
\* is reported as done, cancelled or not.
EndJob(j) ==
  /\ job[j].pc = "load"
  /\ session' = FALSE
  /\ job' = [job EXCEPT ![j] = [NoJob EXCEPT !.state = "done"]]
  /\ UNCHANGED <<tableVars, status, task, written, committed, counters>>

\* (mutant) the error is not reported.
FailJobSilently(j) ==
  /\ failures < MaxFailures /\ failures' = failures + 1
  /\ job[j].pc \in {"load", "log", "save"}
  /\ job' = [job EXCEPT ![j] = [NoJob EXCEPT !.state = "running"]]
  /\ UNCHANGED <<tableVars, status, session, task, written, committed, crashes, cancels>>

\* An error of the input, of the log or of the manifest; the server's handle
\* keeps its session.
FailJob(j) ==
  /\ failures < MaxFailures /\ failures' = failures + 1
  /\ job[j].pc \in {"load", "log", "save"}
  /\ job' = [job EXCEPT ![j] = [NoJob EXCEPT !.state = "failed"]]
  /\ UNCHANGED <<tableVars, status, session, task, written, committed, crashes, cancels>>

\* cancel_ingest_job: the job is reported as cancelled at once; its worker
\* looks at the flag only before it starts.
CancelJob(j) ==
  /\ cancels < MaxCancels /\ cancels' = cancels + 1
  /\ job[j].state # "none"
  /\ job' = [job EXCEPT ![j].state = "cancelled", ![j].cancelled = TRUE]
  /\ UNCHANGED <<tableVars, status, session, task, written, committed, failures, crashes>>

JobStep(j) ==
  StartJob(j) \/ WriteSegment(j) \/ AppendLog(j) \/ SaveManifest(j) \/ EndJob(j)

-----------------------------------------------------------------------------
(* Index tasks: finish and resume *)

\* table_finish, ingest_finish or table_resume.  The task opens a handle of
\* its own, where no session is active: "finish" resumes too.
BeginTask(t) ==
  /\ task[t].pc = "idle" /\ MayStart
  /\ task' = [task EXCEPT ![t] = [NoTask EXCEPT !.pc = "mark", !.state = "running"]]
  /\ UNCHANGED <<tableVars, status, session, job, written, committed, counters>>

\* finalize_bulk_table_indexes.
MarkBuilding(t) ==
  /\ task[t].pc = "mark"
  /\ status' = "building"
  /\ task' = [task EXCEPT ![t].pc = "checkpoint"]
  /\ UNCHANGED <<tableVars, session, job, written, committed, counters>>

\* finalize_bulk_wal: the log is emptied if every record of it is in the
\* manifest.
Checkpoint(t) ==
  /\ task[t].pc = "checkpoint"
  /\ log' = IF \A i \in DOMAIN log : log[i].seg \in Listed /\ HasFile(log[i].seg)
            THEN <<>> ELSE log
  /\ task' = [task EXCEPT ![t].pc = "scan"]
  /\ UNCHANGED <<manifest, file, side, status, session, job, written, committed, counters>>

\* rebuild_segment_sidecars takes the segments of the manifest.
Scan(t) ==
  /\ task[t].pc = "scan"
  /\ status' = "building"
  /\ task' = [task EXCEPT ![t].pc = "build", ![t].todo = {n \in Listed : HasFile(n)}]
  /\ UNCHANGED <<tableVars, session, job, written, committed, counters>>

\* The sidecar of one segment.  One that is there is kept when its time and
\* the file's, in seconds, say it is current, which it may not be when both
\* were written in one second.
BuildSidecar(t, n) ==
  /\ task[t].pc = "build" /\ n \in task[t].todo
  /\ \/ side' = [side EXCEPT ![n] = file[n].batch]
     \/ side[n] > 0 /\ UNCHANGED side
  /\ status' = "building"
  /\ task' = [task EXCEPT ![t].todo = @ \ {n}]
  /\ UNCHANGED <<manifest, file, log, session, job, written, committed, counters>>

\* The build manifest is written and the table marked ready, for the first
\* time.
SidecarsDone(t) ==
  /\ task[t].pc = "build" /\ task[t].todo = {}
  /\ status' = "ready"
  /\ task' = [task EXCEPT ![t].pc = "ranges"]
  /\ UNCHANGED <<tableVars, session, job, written, committed, counters>>

\* (mutant) the ranges come from the log only.
RebuiltRangeLogOnly(m) ==
  LET last(n) == CHOOSE i \in DOMAIN log :
                   log[i].seg = n /\ \A k \in DOMAIN log : log[k].seg = n => k <= i
  IN  [n \in {log[i].seg : i \in DOMAIN log} |-> log[last(n)].id]

\* rebuild_segment_id_ranges: from the records of the log if it has any, for
\* their segments, else from the files.
RebuiltRange(m) ==
  LET last(n) == CHOOSE i \in DOMAIN log :
                   log[i].seg = n /\ \A k \in DOMAIN log : log[k].seg = n => k <= i
      listed == {m.segs[i] : i \in DOMAIN m.segs}
  IN  IF log = <<>> THEN [n \in {k \in listed : HasFile(k)} |-> file[n].id]
      ELSE [n \in {log[i].seg : i \in DOMAIN log} |-> log[last(n)].id]

ReadRanges(t) ==
  /\ task[t].pc = "ranges"
  /\ task' = [task EXCEPT ![t].pc = "save",
               ![t].read = [manifest EXCEPT !.range = RebuiltRange(manifest)]]
  /\ UNCHANGED <<tableVars, status, session, job, written, committed, counters>>

SaveRanges(t) ==
  /\ task[t].pc = "save"
  /\ manifest' = task[t].read
  /\ task' = [task EXCEPT ![t].pc = "ready", ![t].read = NoTask.read]
  /\ UNCHANGED <<file, side, log, status, session, job, written, committed, counters>>

MarkReady(t) ==
  /\ task[t].pc = "ready"
  /\ status' = "ready"
  /\ task' = [task EXCEPT ![t].pc = "replace", ![t].state = "done"]
  /\ UNCHANGED <<tableVars, session, job, written, committed, counters>>

\* (mutant) an error leaves the status as it is.
FailTaskUnmarked(t) ==
  /\ failures < MaxFailures /\ failures' = failures + 1
  /\ task[t].pc \in {"checkpoint", "scan", "build", "ranges", "save"}
  /\ task' = [task EXCEPT ![t] = [NoTask EXCEPT !.pc = "replace", !.state = "failed"]]
  /\ UNCHANGED <<tableVars, status, session, job, written, committed, crashes, cancels>>

\* An error while the indexes are built.
FailTask(t) ==
  /\ failures < MaxFailures /\ failures' = failures + 1
  /\ task[t].pc \in {"checkpoint", "scan", "build", "ranges", "save"}
  /\ status' = "failed"
  /\ task' = [task EXCEPT ![t] = [NoTask EXCEPT !.pc = "replace", !.state = "failed"]]
  /\ UNCHANGED <<tableVars, session, job, written, committed, crashes, cancels>>

\* The task was reported as ended; a fresh handle replaces the server's.
EndTask(t) ==
  /\ task[t].pc = "replace"
  /\ session' = FALSE
  /\ task' = [task EXCEPT ![t].pc = "idle"]
  /\ UNCHANGED <<tableVars, status, job, written, committed, counters>>

TaskStep(t) ==
  \/ MarkBuilding(t) \/ Checkpoint(t) \/ Scan(t) \/ SidecarsDone(t)
  \/ \E n \in Segments : BuildSidecar(t, n)
  \/ ReadRanges(t) \/ SaveRanges(t) \/ MarkReady(t) \/ EndTask(t)

-----------------------------------------------------------------------------
\* The server stops and is started again; it opens the directory without
\* loading tables, so nothing is replayed.
Crash ==
  /\ crashes < MaxCrashes /\ crashes' = crashes + 1
  /\ session' = FALSE
  /\ job' = [j \in Jobs |-> NoJob] /\ task' = [t \in Tasks |-> NoTask]
  /\ UNCHANGED <<tableVars, status, written, committed, failures, cancels>>

Next ==
  \/ \E j \in Jobs : BeginJob(j, "upload") \/ JobStep(j) \/ FailJob(j) \/ CancelJob(j)
  \/ \E j \in Jobs : HubJobs /\ BeginJob(j, "hub")
  \/ \E t \in Tasks : BeginTask(t) \/ TaskStep(t) \/ FailTask(t)
  \/ Crash

Spec == Init /\ [][Next]_vars

\* The threads of the workers are scheduled.
FairSpec ==
  Spec /\ (\A j \in Jobs : WF_vars(JobStep(j))) /\ (\A t \in Tasks : WF_vars(TaskStep(t)))

-----------------------------------------------------------------------------
ManifestType(m) ==
  /\ DOMAIN m = {"segs", "range"}
  /\ m.segs \in Seq(Segments)
  /\ \A i, k \in DOMAIN m.segs : m.segs[i] = m.segs[k] => i = k
  /\ DOMAIN m.range \subseteq Segments /\ \A n \in DOMAIN m.range : m.range[n] \in Nat

TypeOK ==
  /\ ManifestType(manifest)
  /\ file \in [Segments -> [batch : 0 .. MaxBatches, id : Nat]]
  /\ side \in [Segments -> 0 .. MaxBatches]
  /\ log \in Seq([seg : Segments, id : Nat])
  /\ status \in {"none", "building", "ready", "failed"} /\ session \in BOOLEAN
  /\ \A j \in Jobs :
       /\ job[j].pc \in {"idle", "queued", "load", "log", "save"}
       /\ job[j].kind \in {"none", "upload", "hub"} /\ job[j].cancelled \in BOOLEAN
       /\ job[j].state \in {"none", "running", "done", "failed", "cancelled"}
       /\ job[j].next \in Nat /\ job[j].seg \in Segments \cup {0}
       /\ ManifestType(job[j].read)
  /\ \A t \in Tasks :
       /\ task[t].pc \in {"idle", "mark", "checkpoint", "scan", "build", "ranges", "save",
                          "ready", "replace"}
       /\ task[t].state \in {"none", "running", "done", "failed"}
       /\ task[t].todo \subseteq Segments /\ ManifestType(task[t].read)
  /\ written \in 0 .. MaxBatches /\ committed \subseteq 1 .. MaxBatches

\* A batch that was taken is in the file of a listed segment, whatever failed
\* or crashed since.
CommittedKept == \A b \in committed : \E n \in Listed : file[n].batch = b

\* A table reported as ready has a current sidecar for each segment.
ReadyIsIndexed == status = "ready" => \A n \in Listed : side[n] = file[n].batch

\* Without a failure or a crash, fetching by id finds every batch of a table
\* reported as ready once the tasks are over: fetch_documents_by_ids looks in
\* recorded ranges only.
ReadyIsFetchable ==
  failures + crashes = 0 /\ status = "ready" /\ (\A t \in Tasks : task[t].pc = "idle") =>
    \A b \in committed :
      \E n \in DOMAIN manifest.range : file[n].batch = b /\ manifest.range[n] = file[n].id

\* Documents are told apart by their ids.
IdsUnique == \A m, n \in Listed : m # n => file[m].id # file[n].id

\* A search that is answered (ensure_table_queryable) finds every batch that
\* was taken, through the sidecar of its segment.
SearchWaits ==
  ~ session /\ status # "building" =>
    \A b \in committed : \E n \in Listed : file[n].batch = b /\ side[n] = b

\* A job from the hub fails for a reason only.
HubJobsSucceed == \A j \in Jobs : job[j].kind = "hub" /\ failures = 0 => job[j].state # "failed"

\* An index build ends, with or without success, unless the server stops: no table
\* is left in the state "building", in which no search is answered.
BuildingEnds == status = "building" ~> status # "building" \/ crashes > 0

\* A job reported as running does not stay so.
JobsEnd == \A j \in Jobs : job[j].state = "running" ~> job[j].state # "running"

-----------------------------------------------------------------------------
(* Inductive strengthening of TypeOK *)

Manifests == [segs : Seq(Segments), range : UNION {[S -> Nat] : S \in SUBSET Segments}]

JobType ==
  [pc : {"idle", "queued", "load", "log", "save"}, kind : {"none", "upload", "hub"},
   state : {"none", "running", "done", "failed", "cancelled"}, cancelled : BOOLEAN,
   next : Nat, seg : Segments \cup {0}, read : Manifests]

TaskType ==
  [pc : {"idle", "mark", "checkpoint", "scan", "build", "ranges", "save", "ready", "replace"},
   state : {"none", "running", "done", "failed"}, todo : SUBSET Segments, read : Manifests]

\* Segments are listed in the order of their names, from the first, and there are no more
\* than batches were written.
Numbered(m) == Len(m.segs) <= written /\ \A i \in DOMAIN m.segs : m.segs[i] = i

\* Whoever writes a segment gives it the number after those it has read.
NamesInv ==
  /\ manifest \in Manifests /\ job \in [Jobs -> JobType] /\ task \in [Tasks -> TaskType]
  /\ Numbered(manifest)
  /\ \A t \in Tasks : Numbered(task[t].read)
  /\ \A j \in Jobs :
       /\ Numbered(job[j].read)
       /\ job[j].pc \in {"log", "save"} =>
            /\ Len(job[j].read.segs) < written /\ job[j].seg = Len(job[j].read.segs) + 1
            /\ HasFile(job[j].seg)

-----------------------------------------------------------------------------
(* Inductive strengthening of CommittedKept, ReadyIsIndexed and ReadyIsFetchable, for *)
(* a client that waits and cancels nothing                                            *)

\* One worker at a time, which is reported as running.
Working(t) == task[t].pc \notin {"idle", "replace"}
OneWorker ==
  /\ \A j \in Jobs : job[j].pc # "idle" =>
       /\ job[j].state = "running"
       /\ \A k \in Jobs \ {j} : job[k].pc = "idle"
       /\ \A t \in Tasks : ~ Working(t)
  /\ \A t \in Tasks : Working(t) =>
       task[t].state = "running" /\ \A u \in Tasks \ {t} : ~ Working(u)

Indexed(n) == side[n] = file[n].batch
InRange(m, n) == n \in DOMAIN m.range /\ m.range[n] = file[n].id

\* What a worker has read is what is there.
WorkerInv ==
  /\ \A j \in Jobs :
       /\ job[j].pc \in {"load", "log", "save"} => status = "none"
       /\ job[j].pc \in {"log", "save"} => job[j].read = manifest /\ file[job[j].seg].id = job[j].next
  /\ \A t \in Tasks :
       /\ task[t].pc = "build" =>
            task[t].todo \subseteq Listed /\ \A n \in Listed \ task[t].todo : Indexed(n)
       /\ task[t].pc \in {"ranges", "save", "ready"} => \A n \in Listed : Indexed(n)
       /\ task[t].pc = "save" => task[t].read.segs = manifest.segs

\* Sidecars are of listed segments, and of the batch that is in the file.
SidecarsInv ==
  /\ \A n \in Listed : HasFile(n)
  /\ \A n \in Segments : side[n] > 0 => n \in Listed /\ Indexed(n)

\* As long as nothing fails, the log names listed segments and the one that is about to be,
\* and none once a task has emptied it, so that ranges are always those of the files.
RangesInv ==
  failures = 0 /\ crashes = 0 =>
    /\ \A n \in Listed : InRange(manifest, n)
    /\ \A i \in DOMAIN log : log[i].seg \in Listed \/ \E j \in Jobs : job[j].pc = "save" /\ job[j].seg = log[i].seg
    /\ \A t \in Tasks : task[t].pc \in {"scan", "build", "ranges", "save"} => log = <<>>
    /\ \A t \in Tasks : task[t].pc = "save" => \A n \in Listed : InRange(task[t].read, n)

ServeInv ==
  cancels = 0 =>
    OneWorker /\ WorkerInv /\ SidecarsInv /\ RangesInv /\ CommittedKept /\ ReadyIsIndexed
===============================================================================
