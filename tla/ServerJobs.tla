------------------------------ MODULE ServerJobs ------------------------------
(***************************************************************************)
(* The lists of jobs and tasks that the server shows.                      *)
(* (toradb-api lib.rs and pipe_api.rs)                                     *)
(*                                                                         *)
(* A list keeps the jobs pushed last.  Workers, progress reports and       *)
(* clients that cancel write a job's state by its id, each under the lock  *)
(* of the list, which none holds from looking at the flag of a             *)
(* cancellation to writing.  What a job does to its table is BulkIngest's  *)
(* and PipelineSync's.                                                     *)
(***************************************************************************)
EXTENDS Integers, Sequences, FiniteSets, Functions

CONSTANTS
  MaxJobs,      \* bound: jobs
  MaxListed,    \* 30 ingest jobs, 50 sync jobs, 50 tasks
  MaxReports,   \* bound: progress reports of a job
  Progress      \* what a report may say, in percent

VARIABLES
  list,      \* which list this is
  jobs,      \* the list
  nextId,
  kind,      \* id -> how the job came
  pc,        \* id -> where its worker is
  result,    \* id -> what came of the work
  reports,   \* id -> reports made
  cancels,   \* ids a client has asked to cancel
  showing    \* ids whose cancellation is yet to be shown

vars == <<list, jobs, nextId, kind, pc, result, reports, cancels, showing>>

JobIds == 1 .. MaxJobs
Kinds == CASE list = "ingest" -> {"hub", "upload"} [] list = "sync" -> {"sync"} [] list = "tasks" -> {"task"}
Ended == {"done", "failed", "cancelled"}

---------------------------------------------------------------------------
(* The list *)

Kept(s) == IF Len(s) > MaxListed THEN SubSeq(s, Len(s) - MaxListed + 1, Len(s)) ELSE s

PushJob(id) == Kept(Append(jobs, [id |-> id, state |-> "running", progress |-> 0, finished |-> FALSE]))

Listed(id) == \E i \in DOMAIN jobs : jobs[i].id = id
Shown(id) == CHOOSE job \in Range(jobs) : job.id = id

\* (mutant) the job is looked up by its place, as if none was dropped
UpdateByPlace(id, state, progress) ==
  [i \in DOMAIN jobs |-> IF i # id THEN jobs[i] ELSE [jobs[i] EXCEPT !.state = state]]

\* The progress never goes back, and a job that was finished stays so.
UpdateJob(id, state, progress) ==
  [i \in DOMAIN jobs |->
     IF jobs[i].id # id THEN jobs[i]
     ELSE [jobs[i] EXCEPT !.state = state,
                          !.progress = IF progress > @ THEN progress ELSE @,
                          !.finished = @ \/ state \in Ended]]

---------------------------------------------------------------------------
(* Workers *)

At(id, from, to) == pc[id] = from /\ pc' = [pc EXCEPT ![id] = to]

Writes(id, state, progress) == jobs' = UpdateJob(id, state, progress)

\* A request takes an id, and puts the job on the list.
Take ==
  /\ nextId <= MaxJobs
  /\ nextId' = nextId + 1
  /\ \E k \in Kinds : kind' = [kind EXCEPT ![nextId] = k]
  /\ pc' = [pc EXCEPT ![nextId] = "push"]
  /\ UNCHANGED <<list, jobs, result, reports, cancels, showing>>

Push(id) ==
  /\ At(id, "push", CASE kind[id] = "hub" -> "resolve" [] kind[id] = "upload" -> "check" [] OTHER -> "work")
  /\ jobs' = PushJob(id)
  /\ UNCHANGED <<list, nextId, kind, result, reports, cancels, showing>>

\* A hub job says that it runs before it looks whether it was cancelled.
Resolve(id) ==
  /\ At(id, "resolve", "check")
  /\ Writes(id, "running", 2)
  /\ UNCHANGED <<list, nextId, kind, result, reports, cancels, showing>>

\* is_ingest_cancelled, at the start of a job and after a download
CheckCancel(id) ==
  /\ At(id, "check",
        IF id \in cancels THEN "cancel"
        ELSE CASE kind[id] = "hub" /\ result[id] = "none" -> "download"
               [] result[id] = "failed" -> "fail"
               [] OTHER -> "ingest")
  /\ UNCHANGED <<list, jobs, nextId, kind, result, reports, cancels, showing>>

\* The download is to report, and the job is not cancelled yet.
Look(id) ==
  /\ reports[id] < MaxReports
  /\ id \notin cancels
  /\ At(id, "download", "report")
  /\ reports' = [reports EXCEPT ![id] = @ + 1]
  /\ UNCHANGED <<list, jobs, nextId, kind, result, cancels, showing>>

Report(id) ==
  /\ At(id, "report", "download")
  /\ \E p \in Progress : Writes(id, "running", p)
  /\ UNCHANGED <<list, nextId, kind, result, reports, cancels, showing>>

Downloaded(id) ==
  /\ At(id, "download", "check")
  /\ \E r \in {"downloaded", "failed"} : result' = [result EXCEPT ![id] = r]
  /\ UNCHANGED <<list, jobs, nextId, kind, reports, cancels, showing>>

Ingest(id) ==
  /\ At(id, "ingest", "work")
  /\ Writes(id, "running", 88)
  /\ UNCHANGED <<list, nextId, kind, result, reports, cancels, showing>>

\* A run of a pipeline reports without a look at the flag.
ReportRun(id) ==
  /\ kind[id] = "sync" /\ pc[id] = "work"
  /\ reports[id] < MaxReports
  /\ reports' = [reports EXCEPT ![id] = @ + 1]
  /\ \E p \in Progress : Writes(id, "running", p)
  /\ UNCHANGED <<list, nextId, kind, pc, result, cancels, showing>>

\* The work ends; only a run that is cancelled leaves it before.
Work(id) ==
  /\ \E r \in {"done", "failed"} \cup IF kind[id] = "sync" /\ id \in cancels THEN {"cancelled"} ELSE {} :
       /\ At(id, "work", CASE r = "done" -> "finish" [] r = "failed" -> "fail" [] OTHER -> "cancel")
       /\ result' = [result EXCEPT ![id] = r]
  /\ UNCHANGED <<list, jobs, nextId, kind, reports, cancels, showing>>

\* (mutant) a job that is cancelled leaves the last word to the client
FinishQuietly(id) ==
  /\ \/ At(id, "finish", "clear") /\ Writes(id, "done", 100)
     \/ At(id, "fail", "clear") /\ Writes(id, "failed", 0)
     \/ At(id, "cancel", "clear") /\ UNCHANGED jobs
  /\ UNCHANGED <<list, nextId, kind, result, reports, cancels, showing>>

\* The last word of a worker; a run whose connection is gone returns at once and
\* leaves the flag.
Finish(id) ==
  /\ \/ At(id, "finish", "clear") /\ Writes(id, "done", 100)
     \/ At(id, "fail", "clear") /\ Writes(id, "failed", 0)
     \/ At(id, "cancel", "clear") /\ Writes(id, "cancelled", 0)
     \/ kind[id] = "sync" /\ reports[id] = 0 /\ At(id, "fail", "ended") /\ Writes(id, "failed", 0)
  /\ UNCHANGED <<list, nextId, kind, result, reports, cancels, showing>>

\* A sync job forgets its cancellation; the flags of ingest jobs stay.
ClearFlag(id) ==
  /\ At(id, "clear", "ended")
  /\ cancels' = IF kind[id] = "sync" THEN cancels \ {id} ELSE cancels
  /\ UNCHANGED <<list, jobs, nextId, kind, result, reports, showing>>

\* A client cancels a job it has seen: the flag, and for an ingest job what is shown.
Cancel(id) ==
  /\ list # "tasks"
  /\ Listed(id) /\ id \notin cancels
  /\ cancels' = cancels \cup {id}
  /\ showing' = IF list = "ingest" THEN showing \cup {id} ELSE showing
  /\ UNCHANGED <<list, jobs, nextId, kind, pc, result, reports>>

ShowCancel(id) ==
  /\ id \in showing
  /\ showing' = showing \ {id}
  /\ Writes(id, "cancelled", 0)
  /\ UNCHANGED <<list, nextId, kind, pc, result, reports, cancels>>

Init ==
  /\ list \in {"ingest", "sync", "tasks"}
  /\ jobs = <<>> /\ nextId = 1
  /\ kind = [id \in JobIds |-> "none"]
  /\ pc = [id \in JobIds |-> "none"]
  /\ result = [id \in JobIds |-> "none"]
  /\ reports = [id \in JobIds |-> 0]
  /\ cancels = {} /\ showing = {}

Step(id) ==
  \/ Push(id) \/ Resolve(id) \/ CheckCancel(id) \/ Look(id) \/ Report(id) \/ Downloaded(id)
  \/ Ingest(id) \/ ReportRun(id) \/ Work(id) \/ Finish(id) \/ ClearFlag(id)

Next == Take \/ \E id \in JobIds : Step(id) \/ Cancel(id) \/ ShowCancel(id)

\* The runtime runs every task and every handler on; a download ends or fails,
\* because its requests have time limits.
Fairness == \A id \in JobIds : WF_vars(Step(id)) /\ WF_vars(ShowCancel(id)) /\ WF_vars(Downloaded(id)) /\ WF_vars(Work(id))

Spec == Init /\ [][Next]_vars /\ Fairness

---------------------------------------------------------------------------
(* Properties *)

TypeOK ==
  /\ \A i \in DOMAIN jobs : jobs[i].id \in JobIds /\ jobs[i].state \in Ended \cup {"running"}
  /\ Len(jobs) <= MaxListed
  /\ \A i, j \in DOMAIN jobs : jobs[i].id = jobs[j].id => i = j
  /\ cancels \subseteq JobIds /\ showing \subseteq cancels

\* What a job is shown to have ended with has come of it, and not of another job
\* of the list, however often the list was cut: its work is done, it failed, or a
\* client asked to cancel it (lib.rs:963).
ShownIsTrue ==
  \A i \in DOMAIN jobs :
    LET id == jobs[i].id
    IN CASE jobs[i].state = "done" -> result[id] = "done"
         [] jobs[i].state = "failed" -> result[id] = "failed"
         [] jobs[i].state = "cancelled" -> id \in cancels \/ result[id] = "cancelled"
         [] OTHER -> pc[id] # "ended"

\* Every job that stays on the list is shown ended for good, also when a report
\* that was late showed it running after it was cancelled (lib.rs:2041).
JobsSettle == \A id \in JobIds : (pc[id] # "none") ~> [](Listed(id) => Shown(id).state \in Ended)

\* Claim that does not hold: a job that is shown as cancelled goes on no more.  A
\* report or the ingest that comes between shows it running, and done
\* (lib.rs:2041, lib.rs:2084).
CancelledStays ==
  [][\A id \in JobIds : Listed(id) /\ Shown(id).state = "cancelled" /\ (Listed(id))'
       => (Shown(id).state)' = "cancelled"]_vars

\* Claim that does not hold: a job whose rows are in the table is not shown as
\* cancelled (lib.rs:2267).
DoneStays ==
  [][\A id \in JobIds : Listed(id) /\ Shown(id).state = "done" /\ (Listed(id))' => (Shown(id).state)' = "done"]_vars

\* Claim that does not hold: a job that runs is on the list (lib.rs:948).
RunningListed == \A id \in JobIds : pc[id] \notin {"none", "push", "ended"} => Listed(id)

=============================================================================
