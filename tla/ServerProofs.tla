------------------------------ MODULE ServerProofs ------------------------------
(***************************************************************************)
(* Theorems about the parts of the server that MCServer checks side by     *)
(* side, for every value of the constants that ServerAssumption allows.    *)
(*                                                                         *)
(* The lists of jobs, the store, the catalogue, the retrieval of a text    *)
(* search and the caches are proved about here.  Downloads, syncs and      *)
(* ingests have their theorems in HubTransferProofs, PipelineSyncProofs    *)
(* and BulkIngestProofs: they are instantiated on the same variables, and  *)
(* their actions shown to be those of MCServer.                            *)
(***************************************************************************)
EXTENDS MCServer, FiniteSetTheorems, WellFoundedInduction, TLAPS

-----------------------------------------------------------------------------
(* The variables of three parts, by their names *)

list == x1
jobs == x2
nextId == x3
kind == x4
pc == x5
result == x6
reports == x7
cancels == x8
showing == x9
up == x1
mem == x2
disk == x3
clock == x4
tokens == x5
acked == x6
asked == x7
tables == x1
catalog == x2
views == x3
binder == x4
memory == x5
job == x6
answer == x7
searched == x8
spoiled == x9
statements == x10
USE DEF list, jobs, nextId, kind, pc, result, reports, cancels, showing, up, mem, disk, clock, tokens, acked, asked,
  tables, catalog, views, binder, memory, job, answer, searched, spoiled, statements

-----------------------------------------------------------------------------
(* The lists of jobs *)

\* A client asked for it, or a run has left its work for it.
Cancelled(id) == (id \in cancels /\ kind[id] # "sync") \/ result[id] = "cancelled"

\* What a worker is about to write has come of its work.
WorkerInv ==
  /\ DOMAIN pc = Lists!JobIds /\ DOMAIN kind = Lists!JobIds /\ DOMAIN result = Lists!JobIds
  /\ nextId \in Nat /\ \A id \in Lists!JobIds : id >= nextId => pc[id] = "none"
  /\ list \in {"ingest", "sync", "tasks"}
  /\ list # "sync" => \A id \in Lists!JobIds : kind[id] # "sync"
  /\ \A id \in showing : id \in cancels /\ list = "ingest"
  /\ \A id \in Lists!JobIds :
       /\ pc[id] = "finish" => result[id] = "done"
       /\ pc[id] = "fail" => result[id] = "failed"
       /\ pc[id] = "cancel" => Cancelled(id)
       /\ result[id] = "cancelled" => pc[id] \in {"cancel", "clear", "ended"}
       /\ pc[id] \in {"resolve", "check", "download", "report", "ingest"} => kind[id] # "sync"

\* What is shown of a job, by where its worker is.
Fits(id, state) ==
  /\ id \in Lists!JobIds /\ pc[id] \notin {"none", "push"}
  /\ state \in Lists!Ended \cup {"running"}
  /\ state = "done" => result[id] = "done" /\ pc[id] \in {"clear", "ended"}
  /\ state = "failed" => result[id] = "failed" /\ pc[id] \in {"clear", "ended"}
  /\ state = "cancelled" => Cancelled(id)
  /\ state = "running" => pc[id] \notin {"clear", "ended"}

\* The entry of a job has these four fields.
Entry(x) == x = [id |-> x.id, state |-> x.state, progress |-> x.progress, finished |-> x.finished]

ShownInv ==
  /\ \E S : jobs \in Seq(S)
  /\ \A i \in DOMAIN jobs : Entry(jobs[i])
  /\ \A i \in DOMAIN jobs : Fits(jobs[i].id, jobs[i].state)

\* A list is cut at its front.
LEMMA KeptWithin ==
  ASSUME MaxListed \in Nat, NEW S, NEW s \in Seq(S)
  PROVE  /\ Lists!Kept(s) \in Seq(S) /\ Len(Lists!Kept(s)) <= MaxListed
         /\ \E cut \in Nat : \A i \in DOMAIN Lists!Kept(s) : i + cut \in DOMAIN s /\ Lists!Kept(s)[i] = s[i + cut]
<1>1. CASE Len(s) > MaxListed
  <2> DEFINE m == Len(s) - MaxListed + 1
  <2>1. Len(s) \in Nat /\ m \in 1 .. Len(s) + 1 /\ Lists!Kept(s) = SubSeq(s, m, Len(s)) /\ Len(s) - m + 1 = MaxListed
    BY <1>1 DEF Lists!Kept
  <2> HIDE DEF m
  <2>2. /\ SubSeq(s, m, Len(s)) \in Seq(S) /\ Len(SubSeq(s, m, Len(s))) = MaxListed
        /\ DOMAIN SubSeq(s, m, Len(s)) = 1 .. (Len(s) - m + 1)
        /\ \A i \in 1 .. (Len(s) - m + 1) : SubSeq(s, m, Len(s))[i] = s[i + m - 1]
    BY <2>1
  <2>3. PICK cut \in Nat : cut = m - 1
    BY <2>1
  <2>4. \A i \in 1 .. (Len(s) - m + 1) : i + cut \in 1 .. Len(s) /\ i + cut = i + m - 1
    BY <2>1, <2>3
  <2>5. \A i \in DOMAIN Lists!Kept(s) : i + cut \in DOMAIN s /\ Lists!Kept(s)[i] = s[i + cut]
    <3>1. DOMAIN s = 1 .. Len(s) /\ DOMAIN Lists!Kept(s) = 1 .. (Len(s) - m + 1)
      BY <2>1, <2>2
    <3>2. ASSUME NEW i \in 1 .. (Len(s) - m + 1) PROVE i + cut \in 1 .. Len(s) /\ Lists!Kept(s)[i] = s[i + cut]
      <4>1. Lists!Kept(s)[i] = s[i + m - 1]
        BY <2>1, <2>2
      <4> QED BY <2>4, <4>1
    <3> QED BY <3>1, <3>2
  <2>6. Lists!Kept(s) \in Seq(S) /\ Len(Lists!Kept(s)) <= MaxListed
    BY <2>1, <2>2
  <2> QED BY <2>5, <2>6
<1>2. CASE ~(Len(s) > MaxListed)
  <2>1. Lists!Kept(s) = s /\ Len(s) <= MaxListed
    BY <1>2 DEF Lists!Kept
  <2>2. \A i \in DOMAIN s : i + 0 = i
    OBVIOUS
  <2> QED BY <2>1, <2>2
<1> QED BY <1>1, <1>2

LEMMA PushShows ==
  ASSUME MaxListed \in Nat, NEW S, jobs \in Seq(S), NEW id, jobs' = Lists!PushJob(id)
  PROVE  /\ \E T : jobs' \in Seq(T)
         /\ \A i \in DOMAIN jobs' : \/ Entry(jobs'[i]) /\ jobs'[i].id = id /\ jobs'[i].state = "running"
                                    \/ \E j \in DOMAIN jobs : jobs'[i] = jobs[j]
<1> DEFINE new == [id |-> id, state |-> "running", progress |-> 0, finished |-> FALSE]
           s == Append(jobs, new)
<1>1. Entry(new) /\ new.id = id /\ new.state = "running"
  BY DEF Entry
<1> HIDE DEF new
<1>2. jobs \in Seq(S \cup {new}) /\ s \in Seq(S \cup {new})
  OBVIOUS
<1>3. \A i \in DOMAIN s : s[i] = new \/ (i \in DOMAIN jobs /\ s[i] = jobs[i])
  BY <1>2
<1>4. jobs' = Lists!Kept(s)
  BY DEF Lists!PushJob, new
<1> HIDE DEF s
<1>5. jobs' \in Seq(S \cup {new}) /\ \A i \in DOMAIN jobs' : \E j \in DOMAIN s : jobs'[i] = s[j]
  BY <1>2, <1>4, KeptWithin
<1> QED BY <1>1, <1>3, <1>5

LEMMA WriteShows ==
  ASSUME ShownInv, NEW id, NEW state, NEW progress, Lists!Writes(id, state, progress)
  PROVE  /\ \E T : jobs' \in Seq(T)
         /\ DOMAIN jobs' = DOMAIN jobs
         /\ \A i \in DOMAIN jobs : jobs[i].id # id => jobs'[i] = jobs[i]
         /\ \A i \in DOMAIN jobs :
              jobs[i].id = id => Entry(jobs'[i]) /\ jobs'[i].id = id /\ jobs'[i].state = state
<1>1. PICK S : jobs \in Seq(S)
  BY DEF ShownInv
<1>2. jobs' = [i \in DOMAIN jobs |->
                 IF jobs[i].id # id THEN jobs[i]
                 ELSE [jobs[i] EXCEPT !.state = state,
                                      !.progress = IF progress > @ THEN progress ELSE @,
                                      !.finished = @ \/ state \in Lists!Ended]]
  BY DEF Lists!Writes, Lists!UpdateJob
<1>3. DOMAIN jobs = 1 .. Len(jobs) /\ Len(jobs) \in Nat
  BY <1>1
<1>4. (\E T : jobs' \in Seq(T)) /\ DOMAIN jobs' = DOMAIN jobs
  <2>1. PICK n, after : n = Len(jobs) /\ after = jobs'
    OBVIOUS
  <2>2. after = [i \in 1 .. n |-> after[i]] /\ n \in Nat /\ DOMAIN after = 1 .. n
    BY <1>2, <1>3, <2>1
  <2>3. PICK T : T = {after[i] : i \in 1 .. n}
    OBVIOUS
  <2>4. after \in [1 .. n -> T]
    BY <2>2, <2>3
  <2>5. after \in Seq(T)
    BY <2>2, <2>4
  <2> QED BY <1>3, <2>1, <2>2, <2>5
<1>5. ASSUME NEW i \in DOMAIN jobs, jobs[i].id = id
      PROVE  Entry(jobs'[i]) /\ jobs'[i].id = id /\ jobs'[i].state = state
  <2>1. PICK p, f : p = (IF progress > jobs[i].progress THEN progress ELSE jobs[i].progress)
                    /\ f = (jobs[i].finished \/ state \in Lists!Ended)
    OBVIOUS
  <2>2. PICK a, b, c, x : x = jobs[i] /\ x = [id |-> id, state |-> a, progress |-> b, finished |-> c]
    BY <1>5 DEF ShownInv, Entry
  <2>3. jobs'[i] = [x EXCEPT !.state = state, !.progress = p, !.finished = f]
    BY <1>2, <1>5, <2>1, <2>2
  <2>5. [x EXCEPT !.state = state, !.progress = p, !.finished = f]
          = [id |-> id, state |-> state, progress |-> p, finished |-> f]
    <3>1. PICK y : y = [x EXCEPT !.state = state]
      OBVIOUS
    <3>2. y = [id |-> id, state |-> state, progress |-> b, finished |-> c]
      BY <2>2, <3>1
    <3>3. PICK z : z = [y EXCEPT !.progress = p]
      OBVIOUS
    <3>4. z = [id |-> id, state |-> state, progress |-> p, finished |-> c]
      BY <3>2, <3>3
    <3>5. [z EXCEPT !.finished = f] = [id |-> id, state |-> state, progress |-> p, finished |-> f]
      BY <3>4
    <3> QED BY <3>1, <3>3, <3>5
  <2>4. jobs'[i] = [id |-> id, state |-> state, progress |-> p, finished |-> f]
    BY <2>3, <2>5
  <2> QED BY <2>4 DEF Entry
<1> QED BY <1>2, <1>4, <1>5

LEMMA JobsStart == Lists!Init => WorkerInv /\ ShownInv
<1> SUFFICES ASSUME Lists!Init PROVE WorkerInv /\ ShownInv
  OBVIOUS
<1>1. jobs \in Seq({}) /\ DOMAIN jobs = {}
  BY DEF Lists!Init
<1>2. \A id \in Lists!JobIds : pc[id] = "none" /\ result[id] = "none" /\ kind[id] = "none"
  BY DEF Lists!Init
<1> QED BY <1>1, <1>2 DEF Lists!Init, WorkerInv, ShownInv

LEMMA WorkerStep == WorkerInv /\ [Lists!Next]_(Lists!vars) => WorkerInv'
<1> SUFFICES ASSUME WorkerInv, [Lists!Next]_(Lists!vars) PROVE WorkerInv'
  OBVIOUS
<1> USE DEF Lists!At
<1>1. ASSUME NEW id \in Lists!JobIds, NEW from, NEW to, Lists!At(id, from, to),
             UNCHANGED <<list, nextId, kind, result, cancels, showing>>,
             from # "none", to = "finish" => result[id] = "done", to = "fail" => result[id] = "failed",
             to = "cancel" => Cancelled(id),
             result[id] = "cancelled" => to \in {"cancel", "clear", "ended"},
             to \in {"resolve", "check", "download", "report", "ingest"} => kind[id] # "sync"
      PROVE  WorkerInv'
  <2>1. pc[id] = from /\ DOMAIN pc' = Lists!JobIds /\ \A j \in Lists!JobIds : pc'[j] = IF j = id THEN to ELSE pc[j]
    BY <1>1 DEF WorkerInv
  <2>2. \A j \in Lists!JobIds : Cancelled(j)' <=> Cancelled(j)
    BY <1>1 DEF Cancelled
  <2> QED BY <1>1, <2>1, <2>2 DEF WorkerInv
<1>2. ASSUME Lists!Take PROVE WorkerInv'
  <2>1. PICK k \in Lists!Kinds : kind' = [kind EXCEPT ![nextId] = k]
    BY <1>2 DEF Lists!Take
  <2>2. /\ pc' = [pc EXCEPT ![nextId] = "push"] /\ nextId' = nextId + 1
        /\ UNCHANGED <<list, result, cancels, showing>>
    BY <1>2 DEF Lists!Take
  <2>3. /\ DOMAIN pc' = Lists!JobIds /\ DOMAIN kind' = Lists!JobIds
        /\ \A j \in Lists!JobIds : /\ pc'[j] = IF j = nextId THEN "push" ELSE pc[j]
                             /\ kind'[j] = IF j = nextId THEN k ELSE kind[j]
    BY <2>1, <2>2 DEF WorkerInv
  <2>4. list # "sync" => k # "sync"
    BY DEF Lists!Kinds, WorkerInv
  <2>5. \A j \in Lists!JobIds : j \in Int
    BY DEF Lists!JobIds
  <2>6. \A j \in Lists!JobIds : j >= nextId' => j >= nextId /\ j # nextId
    BY <2>2, <2>5 DEF WorkerInv
  <2>7. \A j \in Lists!JobIds : j = nextId => pc[j] = "none"
    BY <2>5 DEF WorkerInv
  <2>8. \A j \in Lists!JobIds : j # nextId => (Cancelled(j)' <=> Cancelled(j))
    BY <2>2, <2>3 DEF Cancelled
  <2> QED BY <2>2, <2>3, <2>4, <2>6, <2>7, <2>8 DEF WorkerInv
<1>3. ASSUME NEW id \in Lists!JobIds, Lists!Push(id) PROVE WorkerInv'
  <2>1. PICK to \in {"resolve", "check", "work"} : Lists!At(id, "push", to) /\ (to \in {"resolve", "check"} => kind[id] # "sync")
    BY <1>3 DEF Lists!Push
  <2>2. result[id] # "cancelled"
    BY <2>1 DEF WorkerInv
  <2>3. UNCHANGED <<list, nextId, kind, result, cancels, showing>>
    BY <1>3 DEF Lists!Push
  <2> QED BY <1>1, <2>1, <2>2, <2>3
<1>4. ASSUME NEW id \in Lists!JobIds, Lists!Resolve(id) PROVE WorkerInv'
  BY <1>1, <1>4 DEF Lists!Resolve, WorkerInv
<1>5. ASSUME NEW id \in Lists!JobIds, Lists!CheckCancel(id) PROVE WorkerInv'
  <2>1. PICK to \in {"cancel", "download", "fail", "ingest"} :
           /\ Lists!At(id, "check", to)
           /\ to = "cancel" => id \in cancels
           /\ to = "fail" => result[id] = "failed"
    BY <1>5 DEF Lists!CheckCancel
  <2>2. kind[id] # "sync" /\ result[id] # "cancelled"
    BY <2>1 DEF WorkerInv
  <2>3. UNCHANGED <<list, nextId, kind, result, cancels, showing>>
    BY <1>5 DEF Lists!CheckCancel
  <2>4. to = "cancel" => Cancelled(id)
    BY <2>1, <2>2 DEF Cancelled
  <2> QED BY <1>1, <2>1, <2>2, <2>3, <2>4
<1>6. ASSUME NEW id \in Lists!JobIds, Lists!Look(id) PROVE WorkerInv'
  BY <1>1, <1>6 DEF Lists!Look, WorkerInv
<1>7. ASSUME NEW id \in Lists!JobIds, Lists!Report(id) PROVE WorkerInv'
  BY <1>1, <1>7 DEF Lists!Report, WorkerInv
<1>8. ASSUME NEW id \in Lists!JobIds, Lists!Ingest(id) PROVE WorkerInv'
  BY <1>1, <1>8 DEF Lists!Ingest, WorkerInv
<1>9. ASSUME NEW id \in Lists!JobIds, Lists!Finish(id) PROVE WorkerInv'
  BY <1>1, <1>9 DEF Lists!Finish, WorkerInv
<1>10. ASSUME NEW id \in Lists!JobIds, NEW from, NEW to, NEW r, Lists!At(id, from, to), result' = [result EXCEPT ![id] = r],
              from \notin {"none", "cancel", "finish", "fail", "clear", "ended"},
              UNCHANGED <<list, nextId, kind, cancels, showing>>,
              to = "finish" => r = "done", to = "fail" => r = "failed",
              to = "cancel" => r = "cancelled",
              r = "cancelled" => to = "cancel",
              to \in {"resolve", "check", "download", "report", "ingest"} => kind[id] # "sync"
       PROVE  WorkerInv'
  <2>1. pc[id] = from /\ DOMAIN pc' = Lists!JobIds /\ \A j \in Lists!JobIds : pc'[j] = IF j = id THEN to ELSE pc[j]
    BY <1>10 DEF WorkerInv
  <2>2. DOMAIN result' = Lists!JobIds /\ \A j \in Lists!JobIds : result'[j] = IF j = id THEN r ELSE result[j]
    BY <1>10 DEF WorkerInv
  <2>3. \A j \in Lists!JobIds : j # id => (Cancelled(j)' <=> Cancelled(j))
    BY <1>10, <2>2 DEF Cancelled
  <2>4. r = "cancelled" => Cancelled(id)'
    BY <2>2 DEF Cancelled
  <2> QED BY <1>10, <2>1, <2>2, <2>3, <2>4 DEF WorkerInv
<1>11. ASSUME NEW id \in Lists!JobIds, Lists!Downloaded(id) PROVE WorkerInv'
  <2>1. PICK r \in {"downloaded", "failed"} : result' = [result EXCEPT ![id] = r]
    BY <1>11 DEF Lists!Downloaded
  <2> QED BY <1>10, <1>11, <2>1 DEF Lists!Downloaded, WorkerInv
<1>12. ASSUME NEW id \in Lists!JobIds, Lists!Work(id) PROVE WorkerInv'
  <2>1. PICK r \in {"done", "failed", "cancelled"} :
           /\ Lists!At(id, "work", CASE r = "done" -> "finish" [] r = "failed" -> "fail" [] OTHER -> "cancel")
           /\ result' = [result EXCEPT ![id] = r]
    BY <1>12 DEF Lists!Work
  <2>2. PICK to \in {"finish", "fail", "cancel"} :
           /\ Lists!At(id, "work", to)
           /\ to = "finish" <=> r = "done"
           /\ to = "fail" <=> r = "failed"
           /\ to = "cancel" <=> r = "cancelled"
    BY <2>1
  <2> QED BY <1>10, <1>12, <2>1, <2>2 DEF Lists!Work
<1>13. ASSUME NEW id \in Lists!JobIds, Lists!ReportRun(id) PROVE WorkerInv'
  BY <1>13 DEF Lists!ReportRun, WorkerInv, Cancelled
<1>14. ASSUME NEW id \in Lists!JobIds, Lists!ClearFlag(id) PROVE WorkerInv'
  <2>1. /\ pc[id] = "clear" /\ DOMAIN pc' = Lists!JobIds
        /\ \A j \in Lists!JobIds : pc'[j] = IF j = id THEN "ended" ELSE pc[j]
    BY <1>14 DEF Lists!ClearFlag, WorkerInv
  <2>2. \A j \in Lists!JobIds : Cancelled(j) => Cancelled(j)'
    BY <1>14 DEF Lists!ClearFlag, Cancelled
  <2>3. list = "ingest" => cancels' = cancels
    BY <1>14 DEF Lists!ClearFlag, WorkerInv
  <2> QED BY <1>14, <2>1, <2>2, <2>3 DEF Lists!ClearFlag, WorkerInv
<1>15. ASSUME NEW id \in Lists!JobIds, Lists!Cancel(id) PROVE WorkerInv'
  <2>1. \A j \in Lists!JobIds : Cancelled(j) => Cancelled(j)'
    BY <1>15 DEF Lists!Cancel, Cancelled
  <2> QED BY <1>15, <2>1 DEF Lists!Cancel, WorkerInv
<1>16. ASSUME NEW id \in Lists!JobIds, Lists!ShowCancel(id) PROVE WorkerInv'
  BY <1>16 DEF Lists!ShowCancel, WorkerInv, Cancelled
<1>17. ASSUME UNCHANGED Lists!vars PROVE WorkerInv'
  BY <1>17 DEF Lists!vars, WorkerInv, Cancelled
<1> QED BY <1>2, <1>3, <1>4, <1>5, <1>6, <1>7, <1>8, <1>9, <1>11, <1>12, <1>13, <1>14, <1>15, <1>16, <1>17
        DEF Lists!Next, Lists!Step

\* Nothing is written, and what is shown of a job still fits it.
LEMMA ShownStays ==
  ASSUME ShownInv, UNCHANGED jobs, \A id, state : Fits(id, state) => Fits(id, state)'
  PROVE  ShownInv'
BY DEF ShownInv, Entry

\* A write shows a state that fits the job.
LEMMA ShownWritten ==
  ASSUME ShownInv, NEW id, NEW state, NEW progress, Lists!Writes(id, state, progress),
         (\E i \in DOMAIN jobs : jobs[i].id = id) => Fits(id, state)',
         \A other, shown : other # id /\ Fits(other, shown) => Fits(other, shown)'
  PROVE  ShownInv'
<1>1. /\ \E T : jobs' \in Seq(T)
      /\ DOMAIN jobs' = DOMAIN jobs
      /\ \A i \in DOMAIN jobs : jobs[i].id # id => jobs'[i] = jobs[i]
      /\ \A i \in DOMAIN jobs :
           jobs[i].id = id => Entry(jobs'[i]) /\ jobs'[i].id = id /\ jobs'[i].state = state
  BY WriteShows
<1>2. \A i \in DOMAIN jobs : Entry(jobs[i]) /\ Fits(jobs[i].id, jobs[i].state)
  BY DEF ShownInv
<1>3. ASSUME NEW i \in DOMAIN jobs, jobs[i].id = id
      PROVE  (Entry(jobs[i]) /\ Fits(jobs[i].id, jobs[i].state))'
  BY <1>1, <1>3 DEF Fits, Entry
<1>4. ASSUME NEW i \in DOMAIN jobs, jobs[i].id # id
      PROVE  (Entry(jobs[i]) /\ Fits(jobs[i].id, jobs[i].state))'
  <2>1. PICK x, other, shown : x = jobs[i] /\ other = x.id /\ shown = x.state
    OBVIOUS
  <2>2. jobs'[i] = x /\ Entry(x) /\ Fits(other, shown)'
    BY <1>1, <1>2, <1>4, <2>1
  <2> QED BY <2>1, <2>2 DEF Fits, Entry
<1> QED BY <1>1, <1>3, <1>4 DEF ShownInv, Entry

LEMMA ShownStep ==
  ASSUME MaxListed \in Nat, WorkerInv, ShownInv, [Lists!Next]_(Lists!vars)
  PROVE  ShownInv'
<1> USE DEF Lists!At
\* A worker moves on, and nothing else about it is changed.
<1>1. ASSUME NEW id \in Lists!JobIds, NEW from, NEW to, Lists!At(id, from, to), UNCHANGED <<kind, result, cancels>>
      PROVE  /\ pc[id] = from /\ pc'[id] = to
             /\ \A j \in Lists!JobIds : j # id => pc'[j] = pc[j]
             /\ \A j : Cancelled(j)' <=> Cancelled(j)
  BY <1>1 DEF WorkerInv, Cancelled
<1>2. ASSUME NEW id \in Lists!JobIds, NEW from, NEW to, Lists!At(id, from, to), UNCHANGED <<jobs, kind, result, cancels>>,
             from \notin {"none", "push", "clear", "ended"}, to \notin {"none", "push", "clear", "ended"}
      PROVE  ShownInv'
  <2>1. \A j, state : Fits(j, state) => Fits(j, state)'
    BY <1>1, <1>2 DEF Fits
  <2> QED BY <1>2, <2>1, ShownStays
<1>3. ASSUME NEW id \in Lists!JobIds, NEW from, NEW to, NEW progress, Lists!At(id, from, to),
             Lists!Writes(id, "running", progress), UNCHANGED <<kind, result, cancels>>,
             to \notin {"none", "push", "clear", "ended"}
      PROVE  ShownInv'
  <2>1. \A j, state : j # id /\ Fits(j, state) => Fits(j, state)'
    BY <1>1, <1>3 DEF Fits
  <2>2. Fits(id, "running")'
    BY <1>1, <1>3 DEF Fits, Lists!Ended
  <2> QED BY <1>3, <2>1, <2>2, ShownWritten
<1>4. ASSUME Lists!Take PROVE ShownInv'
  <2>1. /\ UNCHANGED <<jobs, result, cancels>>
        /\ \E k \in Lists!Kinds : kind' = [kind EXCEPT ![nextId] = k]
        /\ pc' = [pc EXCEPT ![nextId] = "push"]
    BY <1>4 DEF Lists!Take
  <2>2. \A j \in Lists!JobIds : j \in Int
    BY DEF Lists!JobIds
  <2>3. \A j \in Lists!JobIds : j = nextId => pc[j] = "none"
    BY <2>2 DEF WorkerInv
  <2>4. \A j \in Lists!JobIds : j # nextId => pc'[j] = pc[j] /\ kind'[j] = kind[j]
    BY <2>1 DEF WorkerInv
  <2>5. \A j, state : Fits(j, state) => Fits(j, state)'
    BY <2>1, <2>3, <2>4 DEF Fits, Cancelled
  <2> QED BY <2>1, <2>5, ShownStays
<1>5. ASSUME NEW id \in Lists!JobIds, Lists!Push(id) PROVE ShownInv'
  <2>1. PICK to \in {"resolve", "check", "work"} : Lists!At(id, "push", to)
    BY <1>5 DEF Lists!Push
  <2>2. UNCHANGED <<kind, result, cancels>> /\ jobs' = Lists!PushJob(id)
    BY <1>5 DEF Lists!Push
  <2>3. \A j, state : Fits(j, state) => Fits(j, state)'
    BY <1>1, <2>1, <2>2 DEF Fits
  <2>4. Fits(id, "running")'
    BY <1>1, <2>1, <2>2 DEF Fits, Lists!Ended
  <2>5. PICK S : jobs \in Seq(S)
    BY DEF ShownInv
  <2>6. /\ \E T : jobs' \in Seq(T)
        /\ \A i \in DOMAIN jobs' : \/ Entry(jobs'[i]) /\ jobs'[i].id = id /\ jobs'[i].state = "running"
                                   \/ \E j \in DOMAIN jobs : jobs'[i] = jobs[j]
    BY <2>2, <2>5, PushShows
  <2>7. \A i \in DOMAIN jobs : Entry(jobs[i]) /\ Fits(jobs[i].id, jobs[i].state)
    BY DEF ShownInv
  <2>8. ASSUME NEW i \in DOMAIN jobs' PROVE (Entry(jobs[i]) /\ Fits(jobs[i].id, jobs[i].state))'
    <3>1. PICK x : x = jobs'[i]
      OBVIOUS
    <3>2. Entry(x) /\ x.id \in Lists!JobIds
      BY <2>4, <2>6, <2>7, <2>8, <3>1 DEF Fits
    <3>3. PICK other, shown : other = x.id /\ shown = x.state
      OBVIOUS
    <3>4. Fits(other, shown)'
      BY <2>3, <2>4, <2>6, <2>7, <2>8, <3>1, <3>3
    <3> QED BY <3>1, <3>2, <3>3, <3>4 DEF Fits, Entry
  <2> QED BY <2>6, <2>8 DEF ShownInv, Entry
<1>6. ASSUME NEW id \in Lists!JobIds, Lists!Resolve(id) PROVE ShownInv'
  BY <1>3, <1>6 DEF Lists!Resolve
<1>7. ASSUME NEW id \in Lists!JobIds, Lists!CheckCancel(id) PROVE ShownInv'
  <2>1. PICK to \in {"cancel", "download", "fail", "ingest"} : Lists!At(id, "check", to)
    BY <1>7 DEF Lists!CheckCancel
  <2>2. UNCHANGED <<jobs, kind, result, cancels>>
    BY <1>7 DEF Lists!CheckCancel
  <2> QED BY <1>2, <2>1, <2>2
<1>8. ASSUME NEW id \in Lists!JobIds, Lists!Look(id) PROVE ShownInv'
  BY <1>2, <1>8 DEF Lists!Look
<1>9. ASSUME NEW id \in Lists!JobIds, Lists!Report(id) PROVE ShownInv'
  <2>1. PICK p \in Progress : Lists!Writes(id, "running", p)
    BY <1>9 DEF Lists!Report
  <2> QED BY <1>3, <1>9, <2>1 DEF Lists!Report
<1>10. ASSUME NEW id \in Lists!JobIds, Lists!Ingest(id) PROVE ShownInv'
  BY <1>3, <1>10 DEF Lists!Ingest
<1>11. ASSUME NEW id \in Lists!JobIds, Lists!ReportRun(id) PROVE ShownInv'
  <2>1. PICK p \in Progress : Lists!Writes(id, "running", p)
    BY <1>11 DEF Lists!ReportRun
  <2>2. UNCHANGED <<kind, pc, result, cancels>> /\ pc[id] = "work"
    BY <1>11 DEF Lists!ReportRun
  <2>3. \A j, state : Fits(j, state) => Fits(j, state)'
    BY <2>2 DEF Fits, Cancelled
  <2>4. Fits(id, "running")'
    BY <2>2 DEF Fits, Lists!Ended
  <2> QED BY <2>1, <2>3, <2>4, ShownWritten
\* The result of a worker comes in.
<1>12. ASSUME NEW id \in Lists!JobIds, NEW from, NEW to, NEW r, Lists!At(id, from, to), result' = [result EXCEPT ![id] = r],
              UNCHANGED <<jobs, kind, cancels>>, from \in {"download", "work"},
              to \notin {"none", "push", "clear", "ended"}
       PROVE  ShownInv'
  <2>1. /\ pc[id] = from /\ pc'[id] = to
        /\ \A j \in Lists!JobIds : j # id => pc'[j] = pc[j] /\ result'[j] = result[j]
    BY <1>12 DEF WorkerInv
  <2>2. result[id] # "cancelled"
    BY <1>12, <2>1 DEF WorkerInv
  <2>3. \A j \in Lists!JobIds : Cancelled(j) => Cancelled(j)'
    BY <1>12, <2>1, <2>2 DEF Cancelled
  <2>4. \A j, state : Fits(j, state) => Fits(j, state)'
    BY <1>12, <2>1, <2>3 DEF Fits
  <2> QED BY <1>12, <2>4, ShownStays
<1>13. ASSUME NEW id \in Lists!JobIds, Lists!Downloaded(id) PROVE ShownInv'
  <2>1. PICK r \in {"downloaded", "failed"} : result' = [result EXCEPT ![id] = r]
    BY <1>13 DEF Lists!Downloaded
  <2> QED BY <1>12, <1>13, <2>1 DEF Lists!Downloaded
<1>14. ASSUME NEW id \in Lists!JobIds, Lists!Work(id) PROVE ShownInv'
  <2>1. PICK r : /\ Lists!At(id, "work", CASE r = "done" -> "finish" [] r = "failed" -> "fail" [] OTHER -> "cancel")
                 /\ result' = [result EXCEPT ![id] = r]
    BY <1>14 DEF Lists!Work
  <2>2. PICK to \in {"finish", "fail", "cancel"} : Lists!At(id, "work", to)
    BY <2>1
  <2>3. UNCHANGED <<jobs, kind, cancels>>
    BY <1>14 DEF Lists!Work
  <2> QED BY <1>12, <2>1, <2>2, <2>3
<1>15. ASSUME NEW id \in Lists!JobIds, Lists!Finish(id) PROVE ShownInv'
  <2>1. PICK from, to, state, p :
           /\ Lists!At(id, from, to) /\ Lists!Writes(id, state, p)
           /\ to \in {"clear", "ended"}
           /\ <<from, state>> \in {<<"finish", "done">>, <<"fail", "failed">>, <<"cancel", "cancelled">>}
    BY <1>15 DEF Lists!Finish
  <2>2. UNCHANGED <<kind, result, cancels>>
    BY <1>15 DEF Lists!Finish
  <2>3. \A j, shown : j # id /\ Fits(j, shown) => Fits(j, shown)'
    BY <1>1, <2>1, <2>2 DEF Fits
  <2>4. pc[id] = from /\ pc'[id] = to /\ (Cancelled(id)' <=> Cancelled(id))
    BY <1>1, <2>1, <2>2
  <2>5. Fits(id, state)'
    BY <2>1, <2>2, <2>4 DEF Fits, Lists!Ended, WorkerInv
  <2> QED BY <2>1, <2>3, <2>5, ShownWritten
<1>16. ASSUME NEW id \in Lists!JobIds, Lists!ClearFlag(id) PROVE ShownInv'
  <2>1. /\ pc[id] = "clear" /\ pc'[id] = "ended"
        /\ \A j \in Lists!JobIds : j # id => pc'[j] = pc[j]
        /\ UNCHANGED <<jobs, kind, result>>
        /\ \A j \in Lists!JobIds : Cancelled(j) => Cancelled(j)'
    BY <1>16 DEF Lists!ClearFlag, WorkerInv, Cancelled
  <2>2. \A j, state : Fits(j, state) => Fits(j, state)'
    BY <2>1 DEF Fits
  <2> QED BY <2>1, <2>2, ShownStays
<1>17. ASSUME NEW id \in Lists!JobIds, Lists!Cancel(id) PROVE ShownInv'
  <2>1. \A j, state : Fits(j, state) => Fits(j, state)'
    BY <1>17 DEF Lists!Cancel, Fits, Cancelled
  <2> QED BY <1>17, <2>1, ShownStays DEF Lists!Cancel
<1>18. ASSUME NEW id \in Lists!JobIds, Lists!ShowCancel(id) PROVE ShownInv'
  <2>1. Lists!Writes(id, "cancelled", 0) /\ UNCHANGED <<kind, pc, result, cancels>>
    BY <1>18 DEF Lists!ShowCancel
  <2>2. \A j, state : Fits(j, state) <=> Fits(j, state)'
    BY <2>1 DEF Fits, Cancelled
  <2>3. id \in cancels /\ kind[id] # "sync"
    BY <1>18 DEF Lists!ShowCancel, WorkerInv
  <2>4. ASSUME NEW i \in DOMAIN jobs, jobs[i].id = id PROVE Fits(id, "cancelled")
    BY <2>3, <2>4 DEF ShownInv, Fits, Cancelled, Lists!Ended
  <2> QED BY <2>1, <2>2, <2>4, ShownWritten
<1>19. ASSUME UNCHANGED Lists!vars PROVE ShownInv'
  <2>1. \A j, state : Fits(j, state) => Fits(j, state)'
    BY <1>19 DEF Lists!vars, Fits, Cancelled
  <2> QED BY <1>19, <2>1, ShownStays DEF Lists!vars
<1> QED BY <1>4, <1>5, <1>6, <1>7, <1>8, <1>9, <1>10, <1>11, <1>13, <1>14, <1>15, <1>16, <1>17, <1>18, <1>19
        DEF Lists!Next, Lists!Step

\* The list is no longer than it may be, and has each job once.
ListInv ==
  /\ Len(jobs) <= MaxListed
  /\ \A i, k \in DOMAIN jobs : jobs[i].id = jobs[k].id => i = k
  /\ cancels \subseteq Lists!JobIds

LEMMA PushOnce ==
  ASSUME MaxListed \in Nat, ShownInv, ListInv, NEW id, jobs' = Lists!PushJob(id),
         \A i \in DOMAIN jobs : jobs[i].id # id
  PROVE  Len(jobs') <= MaxListed /\ \A i, k \in DOMAIN jobs' : jobs'[i].id = jobs'[k].id => i = k
<1>1. PICK new : new = [id |-> id, state |-> "running", progress |-> 0, finished |-> FALSE]
  OBVIOUS
<1>2. PICK S : jobs \in Seq(S)
  BY DEF ShownInv
<1>3. PICK s : s = Append(jobs, new)
  OBVIOUS
<1>4. s \in Seq(S \cup {new})
  BY <1>2, <1>3
<1>5. \A i, k \in DOMAIN s : s[i].id = s[k].id => i = k
  <2>1. new.id = id
    BY <1>1
  <2>2. DOMAIN jobs = 1 .. Len(jobs) /\ DOMAIN s = 1 .. Len(jobs) + 1 /\ Len(jobs) \in Nat
    BY <1>2, <1>3
  <2>3. \A i \in DOMAIN s : IF i = Len(jobs) + 1 THEN s[i] = new ELSE i \in DOMAIN jobs /\ s[i] = jobs[i]
    BY <1>2, <1>3, <2>2
  <2> QED BY <2>1, <2>2, <2>3 DEF ListInv
<1>6. jobs' = Lists!Kept(s)
  BY <1>1, <1>3 DEF Lists!PushJob
<1>7. PICK after : after = Lists!Kept(s)
  OBVIOUS
<1>8. /\ after \in Seq(S \cup {new}) /\ Len(after) <= MaxListed
      /\ \E cut \in Nat : \A i \in DOMAIN after : i + cut \in DOMAIN s /\ after[i] = s[i + cut]
  BY <1>4, <1>7, KeptWithin
<1>9. PICK cut \in Nat : \A i \in DOMAIN after : i + cut \in DOMAIN s /\ after[i] = s[i + cut]
  BY <1>8
<1>10. \A i \in DOMAIN after : i \in Int
  BY <1>8
<1>11. ASSUME NEW i \in DOMAIN after, NEW k \in DOMAIN after, after[i].id = after[k].id PROVE i = k
  <2>1. i + cut = k + cut
    BY <1>5, <1>9, <1>11
  <2>2. i \in Int /\ k \in Int /\ cut \in Int
    BY <1>10
  <2>3. \A a, b, c \in Int : a + c = b + c => a = b
    OBVIOUS
  <2> QED BY <2>1, <2>2, <2>3, Zenon
<1> QED BY <1>6, <1>7, <1>8, <1>11

LEMMA ListStep ==
  ASSUME MaxListed \in Nat, WorkerInv, ShownInv, ListInv, [Lists!Next]_(Lists!vars)
  PROVE  ListInv'
<1>1. ASSUME UNCHANGED <<jobs, cancels>> PROVE ListInv'
  BY <1>1 DEF ListInv
<1>2. ASSUME NEW id, NEW state, NEW progress, Lists!Writes(id, state, progress), UNCHANGED cancels PROVE ListInv'
  <2>1. /\ \E T : jobs' \in Seq(T)
        /\ DOMAIN jobs' = DOMAIN jobs
        /\ \A i \in DOMAIN jobs : jobs'[i].id = jobs[i].id
    BY <1>2, WriteShows
  <2>2. Len(jobs') = Len(jobs)
    <3>1. PICK S, T : jobs \in Seq(S) /\ jobs' \in Seq(T)
      BY <2>1 DEF ShownInv
    <3> QED BY <2>1, <3>1
  <2> QED BY <1>2, <2>1, <2>2 DEF ListInv
<1>3. ASSUME NEW id \in Lists!JobIds, Lists!Push(id) PROVE ListInv'
  <2>1. jobs' = Lists!PushJob(id) /\ UNCHANGED cancels /\ pc[id] = "push"
    BY <1>3 DEF Lists!Push, Lists!At
  <2>2. \A i \in DOMAIN jobs : jobs[i].id # id
    BY <2>1 DEF ShownInv, Fits
  <2> QED BY <2>1, <2>2, PushOnce DEF ListInv
<1>4. ASSUME NEW id \in Lists!JobIds, Lists!Cancel(id) PROVE ListInv'
  BY <1>4 DEF Lists!Cancel, ListInv
<1>5. ASSUME NEW id \in Lists!JobIds, Lists!ClearFlag(id) PROVE ListInv'
  BY <1>5 DEF Lists!ClearFlag, ListInv
<1>6. ASSUME NEW id \in Lists!JobIds,
             \/ Lists!Resolve(id) \/ Lists!Report(id) \/ Lists!Ingest(id) \/ Lists!ReportRun(id)
             \/ Lists!Finish(id) \/ Lists!ShowCancel(id)
      PROVE  ListInv'
  <2>1. UNCHANGED cancels /\ \E state, progress : Lists!Writes(id, state, progress)
    BY <1>6 DEF Lists!Resolve, Lists!Report, Lists!Ingest, Lists!ReportRun, Lists!Finish, Lists!ShowCancel
  <2> QED BY <1>2, <2>1
<1>7. ASSUME \/ UNCHANGED Lists!vars \/ Lists!Take
             \/ \E id \in Lists!JobIds :
                  Lists!CheckCancel(id) \/ Lists!Look(id) \/ Lists!Downloaded(id) \/ Lists!Work(id)
      PROVE  ListInv'
  BY <1>1, <1>7 DEF Lists!vars, Lists!Take, Lists!CheckCancel, Lists!Look, Lists!Downloaded, Lists!Work
<1> QED BY <1>3, <1>4, <1>5, <1>6, <1>7 DEF Lists!Next, Lists!Step

\* The lists of jobs, on this part of the states.
JobsInv == WorkerInv /\ ShownInv /\ ListInv

LEMMA JobsShow == JobsInv => Lists!TypeOK /\ Lists!ShownIsTrue
<1> SUFFICES ASSUME JobsInv PROVE Lists!TypeOK /\ Lists!ShownIsTrue
  OBVIOUS
<1>1. ASSUME NEW i \in DOMAIN jobs
      PROVE  LET id == jobs[i].id
             IN CASE jobs[i].state = "done" -> result[id] = "done"
                  [] jobs[i].state = "failed" -> result[id] = "failed"
                  [] jobs[i].state = "cancelled" -> id \in cancels \/ result[id] = "cancelled"
                  [] OTHER -> pc[id] # "ended"
  <2>1. Fits(jobs[i].id, jobs[i].state)
    BY DEF JobsInv, ShownInv
  <2> QED BY <2>1 DEF Fits, Cancelled, Lists!Ended
<1>2. Lists!ShownIsTrue
  BY <1>1 DEF Lists!ShownIsTrue
<1>3. \A i \in DOMAIN jobs : jobs[i].id \in Lists!JobIds /\ jobs[i].state \in Lists!Ended \cup {"running"}
  BY DEF JobsInv, ShownInv, Fits
<1>4. Lists!TypeOK
  BY <1>3 DEF JobsInv, ListInv, WorkerInv, Lists!TypeOK
<1> QED BY <1>2, <1>4

-----------------------------------------------------------------------------
(* The store: requests *)

LEMMA BlankType == Store!StoreConstants => Store!Blank \in Store!MemType
BY DEF Store!StoreConstants, Store!Blank, Store!MemType

\* A request keeps the invariant when each of its outcomes does: written and
\* answered, not written, and written by a process that then died.
LEMMA RequestKeeps ==
  ASSUME Store!StoreConstants, Store!StoreInv, Store!Asks,
         NEW m \in Store!MemType, NEW file \in Store!FileType, NEW answered \in Store!AckedType, NEW refused \in Store!AckedType,
         m.seq <= asked + 1,
         Store!Safe("up", m, file, answered), Store!Safe("up", m, disk, refused), Store!Safe("down", m, file, refused),
         Store!Request(m, file, answered, refused)
  PROVE  Store!StoreInv'
<1>1. /\ up = "up" /\ asked' = asked + 1 /\ asked' \in 0 .. MaxRequests
      /\ clock' \in 0 .. MaxTime
      /\ tokens' = tokens /\ tokens' \subseteq [user : Store!Ids, expiry : Nat, secret : KeyNames \cup {NoKey}]
  BY DEF Store!StoreInv, Store!TypeOK, Store!Asks, Store!Request, Store!StoreConstants
<1>2. CASE mem' = m /\ disk' = file /\ acked' = answered /\ UNCHANGED up
  <2>1. Store!TypeOK'
    BY <1>1, <1>2 DEF Store!TypeOK
  <2>2. Store!Safe(up, mem, disk, acked)'
    BY <1>1, <1>2 DEF Store!Safe
  <2> QED BY <2>1, <2>2 DEF Store!StoreInv
<1>3. CASE mem' = [m EXCEPT !.enabled = mem.enabled] /\ acked' = refused /\ UNCHANGED <<up, disk>>
  <2>1. mem.enabled \in BOOLEAN /\ disk \in Store!FileType
    BY DEF Store!StoreInv, Store!TypeOK, Store!MemType
  <2>2. /\ mem' \in Store!MemType /\ mem'.seq = m.seq /\ mem'.key = m.key /\ mem'.secret = m.secret
        /\ mem'.conns = m.conns /\ mem'.pipes = m.pipes /\ mem'.users = m.users /\ mem'.apikeys = m.apikeys
    BY <1>3, <2>1 DEF Store!MemType
  <2>3. Store!TypeOK'
    BY <1>1, <1>3, <2>1, <2>2 DEF Store!TypeOK
  <2>4. Store!Safe(up, mem, disk, acked)'
    BY <1>1, <1>3, <2>2 DEF Store!Safe
  <2> QED BY <2>3, <2>4 DEF Store!StoreInv
<1>4. CASE Store!Down /\ disk' \in {disk, file} /\ acked' = refused
  <2>1. up' = "down" /\ mem' \in Store!MemType /\ mem'.seq = 0
    BY <1>4, BlankType DEF Store!Down, Store!Blank
  <2>2. disk' \in Store!FileType
    BY <1>4 DEF Store!StoreInv, Store!TypeOK
  <2>3. asked' \in Nat /\ 0 <= asked'
    BY <1>1 DEF Store!StoreConstants
  <2>4. Store!TypeOK'
    BY <1>1, <1>4, <2>1, <2>2, <2>3 DEF Store!TypeOK
  <2>5. Store!Safe(up, mem, disk, acked)'
    BY <1>1, <1>4, <2>1 DEF Store!Safe
  <2> QED BY <2>4, <2>5 DEF Store!StoreInv
<1> QED BY <1>2, <1>3, <1>4 DEF Store!Request

LEMMA NextIdType == Store!StoreConstants /\ Store!StoreInv /\ Store!Asks => Store!NextId \in Store!Ids /\ mem.seq + 1 \in Nat /\ mem.seq + 1 <= asked + 1
<1> SUFFICES ASSUME Store!StoreConstants, Store!StoreInv, Store!Asks PROVE Store!NextId \in Store!Ids /\ mem.seq + 1 \in Nat /\ mem.seq + 1 <= asked + 1
  OBVIOUS
<1>1. mem.seq \in Nat /\ mem.seq <= asked /\ asked < MaxRequests /\ asked \in Nat /\ MaxRequests \in Nat /\ clock \in 0 .. MaxTime
  BY DEF Store!StoreInv, Store!TypeOK, Store!MemType, Store!Asks, Store!StoreConstants
<1>2. mem.seq + 1 \in 1 .. MaxRequests
  BY <1>1
<1> QED BY <1>1, <1>2 DEF Store!NextId, Store!Ids

\* What the invariant says of a process that is up, field by field.
LEMMA UpFacts ==
  ASSUME Store!StoreConstants, Store!StoreInv, up = "up"
  PROVE  /\ mem \in Store!MemType /\ disk \in Store!FileType /\ acked \in Store!AckedType
         /\ mem.key \in KeyNames /\ mem.key = disk.keyfile /\ mem.secret \in KeyNames /\ mem.secret = disk.secret
         /\ disk.connsKey # NoKey => disk.keyfile = disk.connsKey
         /\ acked.conns \subseteq disk.conns /\ acked.conns \subseteq mem.conns
         /\ acked.pipes \subseteq disk.pipes /\ acked.pipes \subseteq mem.pipes
         /\ acked.users \subseteq disk.users /\ acked.users \subseteq mem.users
         /\ acked.apikeys \subseteq disk.apikeys /\ acked.apikeys \subseteq mem.apikeys
         /\ \A token \in tokens : token.secret = disk.secret /\ disk.secret # NoKey
BY DEF Store!StoreInv, Store!TypeOK, Store!Safe

\* A store that a request makes of mem: it keeps the keys, and holds what was
\* acknowledged and is still there.
Grown(m, a, r) ==
  /\ m \in Store!MemType /\ a \in Store!AckedType /\ r \in Store!AckedType
  /\ m.seq <= asked + 1 /\ m.key = mem.key /\ m.secret = mem.secret
  /\ a.conns \subseteq m.conns /\ a.pipes \subseteq m.pipes /\ a.users \subseteq m.users /\ a.apikeys \subseteq m.apikeys
  /\ r.conns \subseteq a.conns /\ r.pipes \subseteq a.pipes /\ r.users \subseteq a.users /\ r.apikeys \subseteq a.apikeys
  /\ r.conns \subseteq acked.conns /\ r.pipes \subseteq acked.pipes
  /\ r.users \subseteq acked.users /\ r.apikeys \subseteq acked.apikeys

LEMMA SaveConnsKeeps ==
  ASSUME Store!StoreConstants, Store!StoreInv, NEW m, NEW a, NEW r, Grown(m, a, r),
         a.pipes = acked.pipes, a.users = acked.users, a.apikeys = acked.apikeys,
         Store!Request(m, Store!SaveConns(m), a, r)
  PROVE  Store!StoreInv'
<1> DEFINE file == Store!SaveConns(m)
<1>1. Store!Asks /\ up = "up" /\ Store!Request(m, file, a, r)
  BY DEF Store!Request, Store!Asks
<1>2. /\ file \in Store!FileType
      /\ file.keyfile = disk.keyfile /\ file.conns = m.conns /\ file.connsKey = m.key /\ file.pipes = disk.pipes /\ file.users = disk.users /\ file.apikeys = disk.apikeys /\ file.secret = disk.secret
  BY <1>1, UpFacts DEF Grown, Store!MemType, Store!FileType, Store!SaveConns
<1> HIDE DEF file
<1>3. Store!Safe("up", m, file, a)
  BY <1>1, <1>2, UpFacts DEF Store!Safe, Grown
<1>4. Store!Safe("up", m, disk, r)
  BY <1>1, UpFacts DEF Store!Safe, Grown
<1>5. Store!Safe("down", m, file, r)
  BY <1>3 DEF Store!Safe, Grown
<1> QED BY <1>1, <1>2, <1>3, <1>4, <1>5, RequestKeeps DEF Grown

LEMMA SavePipesKeeps ==
  ASSUME Store!StoreConstants, Store!StoreInv, NEW m, NEW a, NEW r, Grown(m, a, r),
         a.conns = acked.conns, a.users = acked.users, a.apikeys = acked.apikeys,
         Store!Request(m, Store!SavePipes(m), a, r)
  PROVE  Store!StoreInv'
<1> DEFINE file == Store!SavePipes(m)
<1>1. Store!Asks /\ up = "up" /\ Store!Request(m, file, a, r)
  BY DEF Store!Request, Store!Asks
<1>2. /\ file \in Store!FileType
      /\ file.keyfile = disk.keyfile /\ file.conns = disk.conns /\ file.connsKey = disk.connsKey /\ file.pipes = m.pipes /\ file.users = disk.users /\ file.apikeys = disk.apikeys /\ file.secret = disk.secret
  BY <1>1, UpFacts DEF Grown, Store!MemType, Store!FileType, Store!SavePipes
<1> HIDE DEF file
<1>3. Store!Safe("up", m, file, a)
  BY <1>1, <1>2, UpFacts DEF Store!Safe, Grown
<1>4. Store!Safe("up", m, disk, r)
  BY <1>1, UpFacts DEF Store!Safe, Grown
<1>5. Store!Safe("down", m, file, r)
  BY <1>3 DEF Store!Safe, Grown
<1> QED BY <1>1, <1>2, <1>3, <1>4, <1>5, RequestKeeps DEF Grown

LEMMA SaveAuthKeeps ==
  ASSUME Store!StoreConstants, Store!StoreInv, NEW m, NEW a, NEW r, Grown(m, a, r),
         a.conns = acked.conns, a.pipes = acked.pipes,
         Store!Request(m, Store!SaveAuth(m), a, r)
  PROVE  Store!StoreInv'
<1> DEFINE file == Store!SaveAuth(m)
<1>1. Store!Asks /\ up = "up" /\ Store!Request(m, file, a, r)
  BY DEF Store!Request, Store!Asks
<1>2. /\ file \in Store!FileType
      /\ file.keyfile = disk.keyfile /\ file.conns = disk.conns /\ file.connsKey = disk.connsKey /\ file.pipes = disk.pipes /\ file.users = m.users /\ file.apikeys = m.apikeys /\ file.secret = m.secret
  BY <1>1, UpFacts DEF Grown, Store!MemType, Store!FileType, Store!SaveAuth
<1> HIDE DEF file
<1>3. Store!Safe("up", m, file, a)
  BY <1>1, <1>2, UpFacts DEF Store!Safe, Grown
<1>4. Store!Safe("up", m, disk, r)
  BY <1>1, UpFacts DEF Store!Safe, Grown
<1>5. Store!Safe("down", m, file, r)
  BY <1>3 DEF Store!Safe, Grown
<1> QED BY <1>1, <1>2, <1>3, <1>4, <1>5, RequestKeeps DEF Grown

-----------------------------------------------------------------------------
(* The store: steps *)

LEMMA AddConnectionKeeps == Store!StoreConstants /\ Store!StoreInv /\ Store!AddConnection => Store!StoreInv'
<1> SUFFICES ASSUME Store!StoreConstants, Store!StoreInv, Store!AddConnection PROVE Store!StoreInv'
  OBVIOUS
<1> DEFINE m == [mem EXCEPT !.conns = @ \cup {Store!NextId}, !.seq = @ + 1]
           a == [acked EXCEPT !.conns = @ \cup {Store!NextId}]
<1>1. Store!Asks /\ up = "up" /\ Store!Request(m, Store!SaveConns(m), a, acked)
  BY DEF Store!AddConnection, Store!Request, Store!Asks
<1>2. Store!NextId \in Store!Ids /\ mem.seq + 1 \in Nat /\ mem.seq + 1 <= asked + 1
  BY <1>1, NextIdType
<1>3. /\ m \in Store!MemType /\ m.seq = mem.seq + 1 /\ m.conns = mem.conns \cup {Store!NextId} /\ m.pipes = mem.pipes
      /\ m.users = mem.users /\ m.apikeys = mem.apikeys /\ m.key = mem.key /\ m.secret = mem.secret
  BY <1>1, <1>2, UpFacts DEF Store!MemType
<1>4. /\ a \in Store!AckedType /\ a.conns = acked.conns \cup {Store!NextId} /\ a.pipes = acked.pipes
      /\ a.users = acked.users /\ a.apikeys = acked.apikeys
  BY <1>1, <1>2, UpFacts DEF Store!AckedType
<1> HIDE DEF m, a
<1>5. Grown(m, a, acked)
  BY <1>1, <1>2, <1>3, <1>4, UpFacts DEF Grown
<1> QED BY <1>1, <1>4, <1>5, SaveConnsKeeps

LEMMA DeleteConnectionKeeps == Store!StoreConstants /\ Store!StoreInv /\ Store!DeleteConnection => Store!StoreInv'
<1> SUFFICES ASSUME Store!StoreConstants, Store!StoreInv, Store!DeleteConnection PROVE Store!StoreInv'
  OBVIOUS
<1>1. PICK id \in mem.conns :
        LET m == [mem EXCEPT !.conns = @ \ {id}]
            left == [acked EXCEPT !.conns = @ \ {id}]
        IN Store!Request(m, Store!SaveConns(m), left, left)
  BY DEF Store!DeleteConnection
<1> DEFINE m == [mem EXCEPT !.conns = @ \ {id}]
           left == [acked EXCEPT !.conns = @ \ {id}]
<1>2. Store!Asks /\ up = "up" /\ Store!Request(m, Store!SaveConns(m), left, left)
  BY <1>1 DEF Store!Request, Store!Asks
<1>3. /\ m \in Store!MemType /\ m.seq = mem.seq /\ m.conns = mem.conns \ {id} /\ m.pipes = mem.pipes
      /\ m.users = mem.users /\ m.apikeys = mem.apikeys /\ m.key = mem.key /\ m.secret = mem.secret
  BY <1>2, UpFacts DEF Store!MemType
<1>4. /\ left \in Store!AckedType /\ left.conns = acked.conns \ {id} /\ left.pipes = acked.pipes
      /\ left.users = acked.users /\ left.apikeys = acked.apikeys
  BY <1>2, UpFacts DEF Store!AckedType
<1> HIDE DEF m, left
<1>5. Grown(m, left, left)
  <2>1. mem.seq <= asked + 1
    BY <1>2, UpFacts DEF Store!MemType, Store!Asks, Store!StoreInv, Store!TypeOK
  <2> QED BY <1>2, <1>3, <1>4, <2>1, UpFacts DEF Grown
<1> QED BY <1>2, <1>4, <1>5, SaveConnsKeeps

LEMMA AddPipelineKeeps == Store!StoreConstants /\ Store!StoreInv /\ Store!AddPipeline => Store!StoreInv'
<1> SUFFICES ASSUME Store!StoreConstants, Store!StoreInv, Store!AddPipeline PROVE Store!StoreInv'
  OBVIOUS
<1>1. PICK conn \in mem.checked :
        LET pipe == [id |-> Store!NextId, conn |-> conn]
            m == [mem EXCEPT !.pipes = @ \cup {pipe}, !.seq = @ + 1, !.checked = @ \ {conn}]
        IN Store!Request(m, Store!SavePipes(m), [acked EXCEPT !.pipes = @ \cup {pipe}], acked)
  BY DEF Store!AddPipeline
<1> DEFINE pipe == [id |-> Store!NextId, conn |-> conn]
           m == [mem EXCEPT !.pipes = @ \cup {pipe}, !.seq = @ + 1, !.checked = @ \ {conn}]
           a == [acked EXCEPT !.pipes = @ \cup {pipe}]
<1>2. Store!Asks /\ up = "up" /\ Store!Request(m, Store!SavePipes(m), a, acked)
  BY <1>1 DEF Store!Request, Store!Asks
<1>3. Store!NextId \in Store!Ids /\ mem.seq + 1 \in Nat /\ mem.seq + 1 <= asked + 1
  BY <1>2, NextIdType
<1>4. pipe \in Store!Pipes
  BY <1>2, <1>3, UpFacts DEF Store!MemType, Store!Pipes
<1> HIDE DEF pipe
<1>5. /\ m \in Store!MemType /\ m.seq = mem.seq + 1 /\ m.pipes = mem.pipes \cup {pipe} /\ m.conns = mem.conns
      /\ m.users = mem.users /\ m.apikeys = mem.apikeys /\ m.key = mem.key /\ m.secret = mem.secret
  BY <1>2, <1>3, <1>4, UpFacts DEF Store!MemType
<1>6. /\ a \in Store!AckedType /\ a.pipes = acked.pipes \cup {pipe} /\ a.conns = acked.conns
      /\ a.users = acked.users /\ a.apikeys = acked.apikeys
  BY <1>2, <1>4, UpFacts DEF Store!AckedType
<1> HIDE DEF m, a
<1>7. Grown(m, a, acked)
  BY <1>2, <1>3, <1>5, <1>6, UpFacts DEF Grown
<1> QED BY <1>2, <1>6, <1>7, SavePipesKeeps

LEMMA DeletePipelineKeeps == Store!StoreConstants /\ Store!StoreInv /\ Store!DeletePipeline => Store!StoreInv'
<1> SUFFICES ASSUME Store!StoreConstants, Store!StoreInv, Store!DeletePipeline PROVE Store!StoreInv'
  OBVIOUS
<1>1. PICK pipe \in mem.pipes :
        LET m == [mem EXCEPT !.pipes = {p \in @ : p.id # pipe.id}]
            left == [acked EXCEPT !.pipes = {p \in @ : p.id # pipe.id}]
        IN Store!Request(m, Store!SavePipes(m), left, left)
  BY DEF Store!DeletePipeline
<1> DEFINE m == [mem EXCEPT !.pipes = {p \in @ : p.id # pipe.id}]
           left == [acked EXCEPT !.pipes = {p \in @ : p.id # pipe.id}]
<1>2. Store!Asks /\ up = "up" /\ Store!Request(m, Store!SavePipes(m), left, left)
  BY <1>1 DEF Store!Request, Store!Asks
<1>3. /\ m \in Store!MemType /\ m.seq = mem.seq /\ m.pipes = {p \in mem.pipes : p.id # pipe.id} /\ m.conns = mem.conns
      /\ m.users = mem.users /\ m.apikeys = mem.apikeys /\ m.key = mem.key /\ m.secret = mem.secret
  BY <1>2, UpFacts DEF Store!MemType
<1>4. /\ left \in Store!AckedType /\ left.pipes = {p \in acked.pipes : p.id # pipe.id} /\ left.conns = acked.conns
      /\ left.users = acked.users /\ left.apikeys = acked.apikeys
  BY <1>2, UpFacts DEF Store!AckedType
<1> HIDE DEF m, left
<1>5. Grown(m, left, left)
  <2>1. mem.seq <= asked + 1
    BY <1>2, UpFacts DEF Store!MemType, Store!Asks, Store!StoreInv, Store!TypeOK
  <2> QED BY <1>2, <1>3, <1>4, <2>1, UpFacts DEF Grown
<1> QED BY <1>2, <1>4, <1>5, SavePipesKeeps

LEMMA BootstrapKeeps == Store!StoreConstants /\ Store!StoreInv /\ Store!Bootstrap => Store!StoreInv'
<1> SUFFICES ASSUME Store!StoreConstants, Store!StoreInv, Store!Bootstrap PROVE Store!StoreInv'
  OBVIOUS
<1> DEFINE user == <<clock, Store!Cardinality(mem.users) + 1>>
           m == [mem EXCEPT !.users = @ \cup {user}, !.enabled = TRUE]
           a == [acked EXCEPT !.users = @ \cup {user}]
<1>1. Store!Asks /\ up = "up" /\ Store!Request(m, Store!SaveAuth(m), a, acked)
  BY DEF Store!Bootstrap, Store!Request, Store!Asks
<1>2. user \in Store!Ids
  <2>1. Store!Cardinality(mem.users) = 0
    <3>1. \A X : Store!Cardinality(X) = Cardinality(X)
      BY DEF Store!Cardinality, Cardinality
    <3> QED BY <3>1, FS_EmptySet DEF Store!Bootstrap
  <2>2. clock \in 0 .. MaxTime /\ 1 \in 1 .. MaxRequests
    BY DEF Store!StoreConstants, Store!StoreInv, Store!TypeOK
  <2> QED BY <2>1, <2>2 DEF Store!Ids
<1> HIDE DEF user
<1>3. /\ m \in Store!MemType /\ m.seq = mem.seq /\ m.users = mem.users \cup {user} /\ m.conns = mem.conns
      /\ m.pipes = mem.pipes /\ m.apikeys = mem.apikeys /\ m.key = mem.key /\ m.secret = mem.secret
  BY <1>1, <1>2, UpFacts DEF Store!MemType
<1>4. /\ a \in Store!AckedType /\ a.users = acked.users \cup {user} /\ a.conns = acked.conns
      /\ a.pipes = acked.pipes /\ a.apikeys = acked.apikeys
  BY <1>1, <1>2, UpFacts DEF Store!AckedType
<1> HIDE DEF m, a
<1>5. Grown(m, a, acked)
  <2>1. mem.seq <= asked + 1
    BY <1>1, UpFacts DEF Store!MemType, Store!Asks, Store!StoreInv, Store!TypeOK
  <2> QED BY <1>1, <1>3, <1>4, <2>1, UpFacts DEF Grown
<1> QED BY <1>1, <1>4, <1>5, SaveAuthKeeps

LEMMA CreateApiKeyKeeps == Store!StoreConstants /\ Store!StoreInv /\ Store!CreateApiKey => Store!StoreInv'
<1> SUFFICES ASSUME Store!StoreConstants, Store!StoreInv, Store!CreateApiKey PROVE Store!StoreInv'
  OBVIOUS
<1>1. PICK raw \in Store!Fresh :
        LET m == [mem EXCEPT !.apikeys = @ \cup {raw}]
        IN Store!Request(m, Store!SaveAuth(m), [acked EXCEPT !.apikeys = @ \cup {raw}], acked)
  BY DEF Store!CreateApiKey
<1> DEFINE m == [mem EXCEPT !.apikeys = @ \cup {raw}]
           a == [acked EXCEPT !.apikeys = @ \cup {raw}]
<1>2. Store!Asks /\ up = "up" /\ raw \in KeyNames /\ Store!Request(m, Store!SaveAuth(m), a, acked)
  BY <1>1 DEF Store!Request, Store!Asks, Store!Fresh
<1>3. /\ m \in Store!MemType /\ m.seq = mem.seq /\ m.apikeys = mem.apikeys \cup {raw} /\ m.conns = mem.conns
      /\ m.pipes = mem.pipes /\ m.users = mem.users /\ m.key = mem.key /\ m.secret = mem.secret
  BY <1>2, UpFacts DEF Store!MemType
<1>4. /\ a \in Store!AckedType /\ a.apikeys = acked.apikeys \cup {raw} /\ a.conns = acked.conns
      /\ a.pipes = acked.pipes /\ a.users = acked.users
  BY <1>2, UpFacts DEF Store!AckedType
<1> HIDE DEF m, a
<1>5. Grown(m, a, acked)
  <2>1. mem.seq <= asked + 1
    BY <1>2, UpFacts DEF Store!MemType, Store!Asks, Store!StoreInv, Store!TypeOK
  <2> QED BY <1>2, <1>3, <1>4, <2>1, UpFacts DEF Grown
<1> QED BY <1>2, <1>4, <1>5, SaveAuthKeeps

LEMMA OpenStoreKeeps == Store!StoreConstants /\ Store!StoreInv /\ Store!OpenStore => Store!StoreInv'
<1> SUFFICES ASSUME Store!StoreConstants, Store!StoreInv, Store!OpenStore PROVE Store!StoreInv'
  OBVIOUS
<1>1. /\ up = "down" /\ mem \in Store!MemType /\ disk \in Store!FileType /\ acked \in Store!AckedType
      /\ UNCHANGED <<clock, tokens, acked, asked>>
      /\ disk.connsKey # NoKey => disk.keyfile = disk.connsKey
      /\ acked.conns \subseteq disk.conns /\ acked.pipes \subseteq disk.pipes
      /\ acked.users \subseteq disk.users /\ acked.apikeys \subseteq disk.apikeys
      /\ \A token \in tokens : token.secret = disk.secret /\ disk.secret # NoKey
  BY DEF Store!OpenStore, Store!StoreInv, Store!TypeOK, Store!Safe
<1>2. /\ clock' \in 0 .. MaxTime /\ asked' \in 0 .. MaxRequests /\ asked \in Nat
      /\ tokens' \subseteq [user : Store!Ids, expiry : Nat, secret : KeyNames \cup {NoKey}]
  BY <1>1 DEF Store!StoreInv, Store!TypeOK, Store!StoreConstants
<1>3. PICK key \in Store!ReadKey :
        \/ /\ disk' = [disk EXCEPT !.keyfile = key]
           /\ disk.connsKey \in {NoKey, key}
           /\ up' = "store"
           /\ mem' = [Store!Blank EXCEPT !.key = key, !.conns = disk.conns, !.pipes = disk.pipes]
        \/ /\ disk' = [disk EXCEPT !.keyfile = key]
           /\ disk.connsKey \notin {NoKey, key}
           /\ UNCHANGED <<up, mem>>
        \/ /\ key # disk.keyfile
           /\ disk' = [disk EXCEPT !.keyfile = Torn]
           /\ UNCHANGED <<up, mem>>
  BY DEF Store!OpenStore
<1>4. key \in KeyNames
  BY <1>3 DEF Store!ReadKey, Store!Fresh
\* A key is drawn only where no connection is encrypted.
<1>5. disk.connsKey \in {NoKey, key}
  BY <1>1, <1>3 DEF Store!ReadKey, Store!Fresh, Store!StoreConstants, Store!FileType
<1>6. disk.connsKey = key => key = disk.keyfile
  BY <1>1, <1>4, <1>5 DEF Store!StoreConstants
<1>7. CASE /\ disk' = [disk EXCEPT !.keyfile = key]
           /\ up' = "store"
           /\ mem' = [Store!Blank EXCEPT !.key = key, !.conns = disk.conns, !.pipes = disk.pipes]
  <2>1. /\ disk' \in Store!FileType /\ disk'.keyfile = key /\ disk'.conns = disk.conns /\ disk'.connsKey = disk.connsKey
        /\ disk'.pipes = disk.pipes /\ disk'.users = disk.users /\ disk'.apikeys = disk.apikeys /\ disk'.secret = disk.secret
    BY <1>1, <1>4, <1>7 DEF Store!FileType
  <2>2. mem' \in Store!MemType /\ mem'.key = key /\ mem'.conns = disk.conns /\ mem'.pipes = disk.pipes /\ mem'.seq = 0
    BY <1>1, <1>4, <1>7 DEF Store!Blank, Store!MemType, Store!FileType, Store!StoreConstants
  <2>3. Store!TypeOK'
    BY <1>1, <1>2, <1>7, <2>1, <2>2 DEF Store!TypeOK
  <2>4. Store!Safe(up, mem, disk, acked)'
    BY <1>1, <1>4, <1>5, <1>7, <2>1, <2>2 DEF Store!Safe
  <2> QED BY <2>3, <2>4 DEF Store!StoreInv
<1>8. CASE /\ key # disk.keyfile
           /\ disk' = [disk EXCEPT !.keyfile = Torn]
           /\ UNCHANGED <<up, mem>>
  <2>1. disk.connsKey = NoKey
    BY <1>5, <1>6, <1>8
  <2>2. /\ disk' \in Store!FileType /\ disk'.conns = disk.conns /\ disk'.connsKey = NoKey
        /\ disk'.pipes = disk.pipes /\ disk'.users = disk.users /\ disk'.apikeys = disk.apikeys /\ disk'.secret = disk.secret
    BY <1>1, <1>8, <2>1 DEF Store!FileType
  <2>3. Store!TypeOK'
    BY <1>1, <1>2, <1>8, <2>2 DEF Store!TypeOK, Store!StoreInv
  <2>4. Store!Safe(up, mem, disk, acked)'
    BY <1>1, <1>8, <2>2 DEF Store!Safe
  <2> QED BY <2>3, <2>4 DEF Store!StoreInv
<1> QED BY <1>3, <1>5, <1>7, <1>8

LEMMA OpenAuthKeeps == Store!StoreConstants /\ Store!StoreInv /\ Store!OpenAuth => Store!StoreInv'
<1> SUFFICES ASSUME Store!StoreConstants, Store!StoreInv, Store!OpenAuth PROVE Store!StoreInv'
  OBVIOUS
<1>1. /\ up = "store" /\ mem \in Store!MemType /\ disk \in Store!FileType /\ acked \in Store!AckedType
      /\ UNCHANGED <<clock, tokens, acked, asked>>
      /\ disk.connsKey # NoKey => disk.keyfile = disk.connsKey
      /\ mem.key \in KeyNames /\ mem.key = disk.keyfile
      /\ acked.conns \subseteq disk.conns /\ acked.conns \subseteq mem.conns
      /\ acked.pipes \subseteq disk.pipes /\ acked.pipes \subseteq mem.pipes
      /\ acked.users \subseteq disk.users /\ acked.apikeys \subseteq disk.apikeys
      /\ \A token \in tokens : token.secret = disk.secret /\ disk.secret # NoKey
  BY DEF Store!OpenAuth, Store!StoreInv, Store!TypeOK, Store!Safe
<1>2. PICK secret \in Store!SecretAtStart, required \in BOOLEAN :
        /\ disk' = [disk EXCEPT !.secret = secret]
        /\ mem' = [mem EXCEPT !.users = disk.users, !.apikeys = disk.apikeys, !.secret = secret,
                              !.enabled = required \/ disk.users # {}]
        /\ up' = "up"
  BY DEF Store!OpenAuth
<1>3. secret \in KeyNames /\ (disk.secret # NoKey => secret = disk.secret)
  BY <1>1, <1>2 DEF Store!SecretAtStart, Store!Fresh, Store!FileType
<1>4. /\ disk' \in Store!FileType /\ disk'.secret = secret /\ disk'.keyfile = disk.keyfile /\ disk'.conns = disk.conns
      /\ disk'.connsKey = disk.connsKey /\ disk'.pipes = disk.pipes /\ disk'.users = disk.users /\ disk'.apikeys = disk.apikeys
  BY <1>1, <1>2, <1>3 DEF Store!FileType
<1>5. /\ mem' \in Store!MemType /\ mem'.secret = secret /\ mem'.key = mem.key /\ mem'.conns = mem.conns /\ mem'.pipes = mem.pipes
      /\ mem'.users = disk.users /\ mem'.apikeys = disk.apikeys /\ mem'.seq = mem.seq
  <2> DEFINE on == required \/ disk.users # {}
  <2>1. on \in BOOLEAN
    OBVIOUS
  <2>2. mem' = [mem EXCEPT !.users = disk.users, !.apikeys = disk.apikeys, !.secret = secret, !.enabled = on]
    BY <1>2
  <2> HIDE DEF on
  <2> QED BY <1>1, <1>3, <2>1, <2>2 DEF Store!MemType, Store!FileType
<1>6. Store!TypeOK'
  BY <1>1, <1>2, <1>4, <1>5 DEF Store!TypeOK, Store!StoreInv
<1>7. Store!Safe(up, mem, disk, acked)'
  BY <1>1, <1>2, <1>3, <1>4, <1>5 DEF Store!Safe
<1> QED BY <1>6, <1>7 DEF Store!StoreInv

LEMMA CrashKeeps == Store!StoreConstants /\ Store!StoreInv /\ Store!Crash => Store!StoreInv'
<1> SUFFICES ASSUME Store!StoreConstants, Store!StoreInv, Store!Crash PROVE Store!StoreInv'
  OBVIOUS
<1>1. up' = "down" /\ mem' \in Store!MemType /\ mem'.seq = 0 /\ UNCHANGED <<disk, clock, tokens, acked, asked>>
  BY BlankType DEF Store!Crash, Store!Down, Store!Blank
<1>2. Store!TypeOK'
  BY <1>1 DEF Store!TypeOK, Store!StoreInv, Store!StoreConstants
<1>3. Store!Safe(up, mem, disk, acked)'
  BY <1>1 DEF Store!Safe, Store!StoreInv
<1> QED BY <1>2, <1>3 DEF Store!StoreInv

LEMMA CheckPipelineKeeps == Store!StoreConstants /\ Store!StoreInv /\ Store!CheckPipeline => Store!StoreInv'
<1> SUFFICES ASSUME Store!StoreConstants, Store!StoreInv, Store!CheckPipeline PROVE Store!StoreInv'
  OBVIOUS
<1>1. PICK id \in mem.conns \ mem.checked : mem' = [mem EXCEPT !.checked = @ \cup {id}]
  BY DEF Store!CheckPipeline
<1>2. UNCHANGED <<up, disk, clock, tokens, acked, asked>> /\ mem \in Store!MemType
  BY DEF Store!CheckPipeline, Store!StoreInv, Store!TypeOK
<1>3. /\ mem' \in Store!MemType /\ mem'.key = mem.key /\ mem'.secret = mem.secret /\ mem'.conns = mem.conns
      /\ mem'.pipes = mem.pipes /\ mem'.users = mem.users /\ mem'.apikeys = mem.apikeys /\ mem'.seq = mem.seq
  BY <1>1, <1>2 DEF Store!MemType
<1>4. Store!TypeOK'
  BY <1>2, <1>3 DEF Store!TypeOK, Store!StoreInv
<1>5. Store!Safe(up, mem, disk, acked)'
  BY <1>2, <1>3 DEF Store!Safe, Store!StoreInv
<1> QED BY <1>4, <1>5 DEF Store!StoreInv

LEMMA LoginKeeps == Store!StoreConstants /\ Store!StoreInv /\ Store!Login => Store!StoreInv'
<1> SUFFICES ASSUME Store!StoreConstants, Store!StoreInv, Store!Login PROVE Store!StoreInv'
  OBVIOUS
<1>1. up = "up" /\ asked' = asked + 1 /\ asked < MaxRequests /\ UNCHANGED <<up, mem, disk, clock, acked>>
  BY DEF Store!Login, Store!Asks
<1>2. PICK user \in mem.users :
        tokens' = tokens \cup {[user |-> user, expiry |-> clock + Ttl, secret |-> mem.secret]}
  BY DEF Store!Login
<1> DEFINE token == [user |-> user, expiry |-> clock + Ttl, secret |-> mem.secret]
<1>3. token \in [user : Store!Ids, expiry : Nat, secret : KeyNames \cup {NoKey}]
  BY <1>1, UpFacts DEF Store!MemType, Store!StoreInv, Store!TypeOK, Store!StoreConstants
<1>4. token.secret = disk.secret /\ disk.secret # NoKey
  BY <1>1, UpFacts DEF Store!StoreConstants
<1>5. tokens' = tokens \cup {token}
  BY <1>2
<1> HIDE DEF token
<1>6. Store!TypeOK'
  BY <1>1, <1>3, <1>5 DEF Store!TypeOK, Store!MemType, Store!StoreInv, Store!StoreConstants
<1>7. Store!Safe(up, mem, disk, acked)'
  BY <1>1, <1>4, <1>5 DEF Store!Safe, Store!StoreInv
<1> QED BY <1>6, <1>7 DEF Store!StoreInv

-----------------------------------------------------------------------------
(* The store: its invariant *)

LEMMA StoreStart == Store!StoreConstants /\ Store!Init => Store!StoreInv
<1> SUFFICES ASSUME Store!StoreConstants, Store!Init PROVE Store!StoreInv
  OBVIOUS
<1>1. disk \in Store!FileType /\ disk.connsKey = NoKey
  BY DEF Store!Init, Store!NoFiles, Store!FileType
<1>2. acked \in Store!AckedType /\ acked.conns = {} /\ acked.pipes = {} /\ acked.users = {} /\ acked.apikeys = {}
  BY DEF Store!Init, Store!NothingAcked, Store!AckedType
<1>3. mem \in Store!MemType /\ mem.seq = 0
  BY BlankType DEF Store!Init, Store!Blank
<1>4. Store!TypeOK
  BY <1>1, <1>2, <1>3 DEF Store!TypeOK, Store!Init, Store!StoreConstants
<1>5. Store!Safe(up, mem, disk, acked)
  BY <1>1, <1>2 DEF Store!Safe, Store!Init
<1> QED BY <1>4, <1>5 DEF Store!StoreInv

LEMMA StoreStep == Store!StoreConstants /\ Store!StoreInv /\ [Store!Next]_(Store!vars) => Store!StoreInv'
<1> SUFFICES ASSUME Store!StoreConstants, Store!StoreInv, [Store!Next]_(Store!vars) PROVE Store!StoreInv'
  OBVIOUS
<1>1. CASE Store!Tick
  <2>1. clock' \in 0 .. MaxTime /\ UNCHANGED <<up, mem, disk, tokens, acked, asked>>
    BY <1>1 DEF Store!Tick, Store!StoreInv, Store!TypeOK, Store!StoreConstants
  <2> QED BY <2>1 DEF Store!StoreInv, Store!TypeOK, Store!Safe
<1>2. CASE UNCHANGED Store!vars
  BY <1>2 DEF Store!vars, Store!StoreInv, Store!TypeOK, Store!Safe
<1> QED
  BY <1>1, <1>2, OpenStoreKeeps, OpenAuthKeeps, CrashKeeps, AddConnectionKeeps, DeleteConnectionKeeps,
     CheckPipelineKeeps, AddPipelineKeeps, DeletePipelineKeeps, BootstrapKeeps, CreateApiKeyKeeps, LoginKeeps
  DEF Store!Next

-----------------------------------------------------------------------------
(* The catalogue *)

\* Every handle's work is a record, every name has a file.
WorkOK ==
  /\ DOMAIN job = Handles /\ job = [h \in Handles |-> job[h]]
  /\ \A h \in Handles : job[h] = [op |-> job[h].op, name |-> job[h].name, view |-> job[h].view]
  /\ DOMAIN views = TableNames /\ views = [n \in TableNames |-> views[n]]

\* What a handle is about to save is what a search of its own found.
SavesFound ==
  \A h \in Handles :
    job[h].op \in {"found", "cut"} =>
      job[h].view.state = "saved" /\ [name |-> job[h].name, view |-> job[h].view] \in searched

Cutting(h, n) == job[h].op = "cut" /\ job[h].name = n

\* A save that is under way is alone with an empty file, or the name is known to be spoiled.
CutsApart ==
  \A n \in TableNames \ spoiled, h \in Handles :
    Cutting(h, n) => views[n] = Tables!Empty /\ \A other \in Handles \ {h} : ~Cutting(other, n)

ViewInv == WorkOK /\ SavesFound /\ CutsApart /\ Tables!ViewIsOneAnswer /\ Tables!BrokenHasCause

LEMMA ViewStart == Tables!Init => ViewInv
<1> SUFFICES ASSUME Tables!Init PROVE ViewInv
  OBVIOUS
<1>1. /\ job = [h \in Handles |-> Tables!Idle] /\ \A h \in Handles : job[h] = Tables!Idle
      /\ views = [n \in TableNames |-> Tables!NoView] /\ \A n \in TableNames : views[n] = Tables!NoView
  BY DEF Tables!Init
<1>2. Tables!Idle.op = "idle" /\ Tables!NoView.state = "none"
  BY DEF Tables!Idle, Tables!NoView
<1>3. Tables!Idle = [op |-> Tables!Idle.op, name |-> Tables!Idle.name, view |-> Tables!Idle.view]
  BY DEF Tables!Idle
<1>4. WorkOK
  BY <1>1, <1>3 DEF WorkOK
<1> QED BY <1>1, <1>2, <1>4 DEF ViewInv, SavesFound, CutsApart, Cutting, Tables!ViewIsOneAnswer, Tables!BrokenHasCause

LEMMA ViewStep == ViewInv /\ [Tables!Next]_(Tables!vars) => ViewInv'
<1> SUFFICES ASSUME ViewInv, [Tables!Next]_(Tables!vars) PROVE ViewInv'
  OBVIOUS
<1> USE DEF ViewInv
<1>1. ASSUME NEW h \in Handles, NEW n \in TableNames, NEW of, NEW where, Tables!Search(h, n, of, where)
      PROVE  ViewInv'
  <2> PICK found : found = [name |-> n, view |-> Tables!View(of, where, Tables!Found(h, of, where))]
    OBVIOUS
  <2>1. /\ job' = [job EXCEPT ![h] = [op |-> "found", name |-> found.name, view |-> found.view]]
        /\ searched' = searched \cup {found} /\ views' = views /\ spoiled' = spoiled
        /\ found = [name |-> found.name, view |-> found.view]
        /\ job[h] = Tables!Idle /\ found.view.state = "saved"
    BY <1>1 DEF Tables!Search, Tables!Says, Tables!View
  <2>2. \A other \in Handles \ {h} : job'[other] = job[other]
    BY <2>1 DEF WorkOK
  <2>3. job'[h] = [op |-> "found", name |-> found.name, view |-> found.view]
    BY <2>1 DEF WorkOK
  <2>4. WorkOK'
    BY <2>1, <2>2, <2>3 DEF WorkOK
  <2>5. SavesFound'
    BY <2>1, <2>2, <2>3 DEF SavesFound
  <2>6. Tables!ViewIsOneAnswer'
    BY <2>1 DEF Tables!ViewIsOneAnswer
  <2>7. Tables!BrokenHasCause'
    BY <2>1, <2>2 DEF Tables!BrokenHasCause, Tables!Idle
  <2>8. CutsApart'
    BY <2>1, <2>2, <2>3 DEF CutsApart, Cutting
  <2> QED BY <2>4, <2>5, <2>6, <2>7, <2>8
<1>2. ASSUME NEW h \in Handles, Tables!Truncate(h) PROVE ViewInv'
  <2>1. /\ job[h].op = "found" /\ job' = [job EXCEPT ![h].op = "cut"] /\ searched' = searched
        /\ views' = [views EXCEPT ![job[h].name] = Tables!Empty]
    BY <1>2 DEF Tables!Truncate
  <2>2. \A other \in Handles \ {h} : job'[other] = job[other]
    BY <2>1 DEF WorkOK
  <2>3. job'[h] = [op |-> "cut", name |-> job[h].name, view |-> job[h].view]
    BY <2>1 DEF WorkOK
  <2>4. \A n \in TableNames : views'[n] = IF n = job[h].name THEN Tables!Empty ELSE views[n]
    BY <2>1 DEF WorkOK
  <2>5. spoiled \ {job[h].name} \subseteq spoiled'
    BY <1>2 DEF Tables!Truncate
  <2>6. WorkOK'
    BY <2>1, <2>2, <2>3 DEF WorkOK
  <2>7. SavesFound'
    BY <2>1, <2>2, <2>3 DEF SavesFound
  <2>8. Tables!ViewIsOneAnswer'
    BY <2>1, <2>4 DEF Tables!ViewIsOneAnswer, Tables!Empty, Tables!NoView
  <2>9. Tables!BrokenHasCause'
    <3> SUFFICES ASSUME NEW n \in TableNames, views'[n].state \in {"empty", "broken"}
                 PROVE  n \in spoiled' \/ \E g \in Handles : Cutting(g, n)'
      BY DEF Tables!BrokenHasCause, Cutting
    <3>1. CASE n = job[h].name
      BY <2>3, <3>1 DEF Cutting
    <3>2. CASE n # job[h].name
      <4>1. n \in spoiled \/ \E g \in Handles : job[g].op = "cut" /\ job[g].name = n
        BY <2>4, <3>2 DEF Tables!BrokenHasCause
      <4> QED BY <2>1, <2>2, <2>5, <3>2, <4>1 DEF Cutting
    <3> QED BY <3>1, <3>2
  <2>10. CutsApart'
    <3>1. ASSUME NEW n \in TableNames \ spoiled', NEW g \in Handles, Cutting(g, n)'
          PROVE  views'[n] = Tables!Empty /\ \A other \in Handles \ {g} : ~Cutting(other, n)'
      <4>1. CASE n = job[h].name
        <5>1. \A other \in Handles \ {h} : ~Cutting(other, n)
          BY <1>2, <3>1, <4>1 DEF Tables!Truncate, Cutting
        <5>2. \A other \in Handles \ {h} : ~Cutting(other, n)'
          BY <2>2, <5>1 DEF Cutting
        <5> QED BY <2>4, <3>1, <4>1, <5>2
      <4>2. CASE n # job[h].name
        <5>1. g # h /\ Cutting(g, n) /\ n \notin spoiled
          BY <2>2, <2>3, <2>5, <3>1, <4>2 DEF Cutting
        <5>2. views[n] = Tables!Empty /\ \A other \in Handles \ {g} : ~Cutting(other, n)
          BY <3>1, <5>1 DEF CutsApart
        <5> QED BY <2>2, <2>3, <2>4, <4>2, <5>2 DEF Cutting
      <4> QED BY <4>1, <4>2
    <3> QED BY <3>1 DEF CutsApart, Cutting
  <2> QED BY <2>6, <2>7, <2>8, <2>9, <2>10
<1>3. ASSUME NEW h \in Handles, Tables!Write(h) PROVE ViewInv'
  <2>1. /\ job[h].op = "cut" /\ job' = [job EXCEPT ![h] = Tables!Idle] /\ searched' = searched
        /\ spoiled' = spoiled
    BY <1>3 DEF Tables!Write
  <2>2. PICK file \in {job[h].view} \cup IF views[job[h].name] = Tables!Empty THEN {} ELSE {Tables!Broken} :
          views' = [views EXCEPT ![job[h].name] = file]
    BY <1>3 DEF Tables!Write
  <2>3. \A other \in Handles \ {h} : job'[other] = job[other]
    BY <2>1 DEF WorkOK
  <2>4. job'[h] = Tables!Idle
    BY <2>1 DEF WorkOK
  <2>5. \A n \in TableNames : views'[n] = IF n = job[h].name THEN file ELSE views[n]
    BY <2>2 DEF WorkOK
  <2>6. WorkOK'
    BY <2>1, <2>2, <2>3, <2>4 DEF WorkOK, Tables!Idle
  <2>7. SavesFound'
    BY <2>1, <2>3, <2>4 DEF SavesFound, Tables!Idle
  <2>8. Tables!ViewIsOneAnswer'
    <3>1. Tables!Broken.state = "broken"
      BY DEF Tables!Broken, Tables!NoView
    <3>2. [name |-> job[h].name, view |-> job[h].view] \in searched
      BY <2>1 DEF SavesFound
    <3> QED BY <2>1, <2>2, <2>5, <3>1, <3>2 DEF Tables!ViewIsOneAnswer
  <2>9. Cutting(h, job[h].name) /\ ~\E n \in TableNames : Cutting(h, n)'
    BY <2>1, <2>4 DEF Cutting, Tables!Idle
  <2>10. Tables!BrokenHasCause'
    <3> SUFFICES ASSUME NEW n \in TableNames, views'[n].state \in {"empty", "broken"}, n \notin spoiled
                 PROVE  \E g \in Handles : Cutting(g, n)'
      BY <2>1 DEF Tables!BrokenHasCause, Cutting
    <3>1. n # job[h].name
      <4>1. views[n] = Tables!Empty \/ n # job[h].name
        BY <2>9 DEF CutsApart
      <4>2. job[h].view.state = "saved"
        BY <2>1 DEF SavesFound
      <4> QED BY <2>2, <2>5, <4>1, <4>2
    <3>2. PICK g \in Handles : Cutting(g, n)
      BY <2>5, <3>1 DEF Tables!BrokenHasCause, Cutting
    <3> QED BY <2>3, <3>1, <3>2 DEF Cutting
  <2>11. CutsApart'
    <3>1. ASSUME NEW n \in TableNames \ spoiled', NEW g \in Handles, Cutting(g, n)'
          PROVE  views'[n] = Tables!Empty /\ \A other \in Handles \ {g} : ~Cutting(other, n)'
      <4>1. g # h /\ Cutting(g, n) /\ n \notin spoiled
        BY <2>1, <2>3, <2>9, <3>1 DEF Cutting
      <4>2. views[n] = Tables!Empty /\ \A other \in Handles \ {g} : ~Cutting(other, n)
        BY <3>1, <4>1 DEF CutsApart
      <4>3. n # job[h].name
        BY <2>9, <4>1, <4>2
      <4> QED BY <2>3, <2>5, <2>9, <4>2, <4>3 DEF Cutting
    <3> QED BY <3>1 DEF CutsApart, Cutting
  <2> QED BY <2>6, <2>7, <2>8, <2>10, <2>11
\* A file is dropped while no handle is at work on its name.
<1>4. ASSUME NEW n \in TableNames, \A other \in Handles : job[other].name # n,
             job' = job, searched' = searched, spoiled' = spoiled \ {n},
             views' = [views EXCEPT ![n] = Tables!NoView]
      PROVE  ViewInv'
  <2>1. /\ \A m \in TableNames : views'[m] = IF m = n THEN Tables!NoView ELSE views[m]
        /\ \A m \in TableNames, h \in Handles : Cutting(h, m)' <=> Cutting(h, m)
        /\ \A h \in Handles : ~Cutting(h, n)
    BY <1>4 DEF WorkOK, Cutting
  <2>2. Tables!NoView.state = "none"
    BY DEF Tables!NoView
  <2>3. WorkOK' /\ SavesFound'
    BY <1>4 DEF WorkOK, SavesFound
  <2>4. Tables!ViewIsOneAnswer'
    BY <1>4, <2>1, <2>2 DEF Tables!ViewIsOneAnswer
  <2>5. Tables!BrokenHasCause'
    BY <1>4, <2>1, <2>2 DEF Tables!BrokenHasCause, Cutting
  <2>6. CutsApart'
    <3>1. ASSUME NEW m \in TableNames \ spoiled', NEW h \in Handles, Cutting(h, m)'
          PROVE  views'[m] = Tables!Empty /\ \A other \in Handles \ {h} : ~Cutting(other, m)'
      <4>1. m # n /\ m \notin spoiled /\ Cutting(h, m)
        BY <1>4, <2>1, <3>1
      <4> QED BY <2>1, <4>1 DEF CutsApart
    <3> QED BY <3>1 DEF CutsApart, Cutting
  <2> QED BY <2>3, <2>4, <2>5, <2>6
<1>5. ASSUME NEW h \in Handles, NEW n \in TableNames, Tables!DropTable(h, n) PROVE ViewInv'
  <2>1. /\ \A other \in Handles : job[other].name # n
        /\ job' = job /\ searched' = searched /\ spoiled' = spoiled \ {n}
    BY <1>5 DEF Tables!DropTable
  <2>2. CASE Tables!IsView(n)
    BY <1>4, <1>5, <2>1, <2>2 DEF Tables!DropTable
  <2>3. CASE ~Tables!IsView(n)
    <3>1. views[n] = Tables!NoView /\ views' = views
      BY <1>5, <2>3 DEF Tables!DropTable, Tables!IsView
    <3>2. views' = [views EXCEPT ![n] = Tables!NoView]
      BY <3>1 DEF WorkOK
    <3> QED BY <1>4, <2>1, <3>2
  <2> QED BY <2>2, <2>3
<1>6. ASSUME NEW h \in Handles, NEW n \in TableNames, Tables!DropView(h, n) PROVE ViewInv'
  BY <1>4, <1>6 DEF Tables!DropView
\* A query of a view, and an opening, end in no save.
<1>7. ASSUME NEW h \in Handles, NEW work, job' = [job EXCEPT ![h] = work],
             work.op \notin {"found", "cut"},
             work = [op |-> work.op, name |-> work.name, view |-> work.view],
             views' = views, searched' = searched,
             spoiled \subseteq spoiled', job[h].op = "cut" => job[h].name \in spoiled'
      PROVE  ViewInv'
  <2>1. job'[h] = work /\ \A other \in Handles \ {h} : job'[other] = job[other]
    BY <1>7 DEF WorkOK
  <2>2. WorkOK'
    BY <1>7, <2>1 DEF WorkOK
  <2>3. SavesFound' /\ Tables!ViewIsOneAnswer'
    BY <1>7, <2>1 DEF SavesFound, Tables!ViewIsOneAnswer
  <2>4. \A n \in TableNames \ spoiled', g \in Handles : Cutting(g, n)' <=> Cutting(g, n)
    BY <1>7, <2>1 DEF Cutting
  <2>5. CutsApart'
    BY <1>7, <2>4 DEF CutsApart, Cutting
  <2>6. Tables!BrokenHasCause'
    BY <1>7, <2>4 DEF Tables!BrokenHasCause, Cutting
  <2> QED BY <2>2, <2>3, <2>5, <2>6
<1>8. Tables!Idle.op = "idle" /\ Tables!Idle = [op |-> Tables!Idle.op, name |-> Tables!Idle.name, view |-> Tables!Idle.view]
  BY DEF Tables!Idle
<1>9. ASSUME NEW h \in Handles, NEW n \in TableNames, Tables!QueryIds(h, n) PROVE ViewInv'
  <2>1. job[h] = Tables!Idle /\ searched' = searched /\ spoiled' = spoiled /\ views' = views
    BY <1>9 DEF Tables!QueryIds, Tables!Says
  <2>2. PICK work : work = [op |-> "query", name |-> n, view |-> views[n]]
    OBVIOUS
  <2>3. job' = [job EXCEPT ![h] = work]
    BY <1>9, <2>2 DEF Tables!QueryIds
  <2>4. work.op = "query" /\ work = [op |-> work.op, name |-> work.name, view |-> work.view]
    BY <2>2
  <2> QED BY <1>7, <1>8, <2>1, <2>3, <2>4
<1>10. ASSUME NEW h \in Handles, Tables!QuerySource(h) PROVE ViewInv'
  <2>1. /\ job[h].op = "query" /\ job' = [job EXCEPT ![h] = Tables!Idle]
        /\ searched' = searched /\ spoiled' = spoiled /\ views' = views
    BY <1>10 DEF Tables!QuerySource
  <2> QED BY <1>7, <1>8, <2>1
<1>11. ASSUME NEW h \in Handles, Tables!Reopen(h) PROVE ViewInv'
  <2>1. /\ job' = [job EXCEPT ![h] = Tables!Idle] /\ searched' = searched /\ views' = views
        /\ spoiled' = IF job[h].op = "cut" THEN spoiled \cup {job[h].name} ELSE spoiled
    BY <1>11 DEF Tables!Reopen
  <2> QED BY <1>7, <1>8, <2>1
<1>12. CASE UNCHANGED <<views, job, searched, spoiled>>
  BY <1>12 DEF WorkOK, SavesFound, CutsApart, Cutting, Tables!ViewIsOneAnswer, Tables!BrokenHasCause
<1>13. ASSUME NEW h \in Handles, NEW n \in TableNames,
              \/ \E mode \in Tables!Modes, type \in Types \cup {Undeclared} : Tables!CreateTable(h, n, mode, type)
              \/ Tables!CreateTableCrash(h, n)
              \/ Tables!Insert(h, n)
              \/ \E type \in Types : Tables!AlterType(h, n, type)
       PROVE  ViewInv'
  BY <1>12, <1>13 DEF Tables!CreateTable, Tables!CreateTableCrash, Tables!Insert, Tables!AlterType
<1>14. ASSUME NEW h \in Handles, NEW n \in TableNames,
              (\E of \in TableNames, where \in BOOLEAN : Tables!CreateView(h, n, of, where)) \/ Tables!RefreshView(h, n)
       PROVE  ViewInv'
  BY <1>1, <1>14 DEF Tables!CreateView, Tables!RefreshView
<1>15. CASE UNCHANGED Tables!vars
  BY <1>12, <1>15 DEF Tables!vars
<1> QED BY <1>2, <1>3, <1>5, <1>6, <1>9, <1>10, <1>11, <1>13, <1>14, <1>15 DEF Tables!Next

\* The greatest of the ids of a table.
LEMMA GreatestId ==
  ASSUME MaxRows \in Nat, NEW S, S \subseteq 0 .. MaxRows, S # {}
  PROVE  Tables!Max(S) \in S
<1>1. PICK D : D = {MaxRows - y : y \in S}
  OBVIOUS
<1>2. D \in SUBSET Nat /\ D # {}
  <2>1. \A y \in S : MaxRows - y \in Nat
    OBVIOUS
  <2>2. \A d \in D : d \in Nat
    BY <1>1, <2>1
  <2> QED BY <1>1, <2>2
<1>3. PICK R : R = OpToRel(<, Nat)
  OBVIOUS
<1>4. IsWellFoundedOn(R, Nat)
  BY <1>3, NatLessThanWellFounded
<1>5. PICK d \in D : \A e \in D : <<e, d>> \notin R
  BY <1>2, <1>4, WFMin
<1>6. \A e \in D : ~(e < d)
  BY <1>2, <1>3, <1>5 DEF OpToRel
<1>7. PICK x \in S : d = MaxRows - x
  BY <1>1
<1>8. \A y \in S : x >= y
  <2>1. \A y \in S : ~(MaxRows - y < MaxRows - x)
    BY <1>1, <1>6, <1>7
  <2> QED BY <2>1
<1> QED BY <1>8 DEF Tables!Max

\* The values of TypeOK.
Table == [type : Types \cup {Undeclared}, rows : SUBSET (0 .. MaxRows)]
IndexModes == Tables!Modes \cup {"none"}
Work == [op : {"idle", "found", "cut", "query"}, name : TableNames \cup {Undeclared}, view : Tables!Files]

LEMMA CatalogueTypes ==
  Tables!TypeOK <=> /\ tables \in [TableNames -> Table] /\ catalog \in [TableNames -> IndexModes]
                    /\ views \in [TableNames -> Tables!Files]
                    /\ binder \in [Handles -> [TableNames -> IndexModes]]
                    /\ memory \in [Handles -> [TableNames -> SUBSET (1 .. MaxRows)]]
                    /\ job \in [Handles -> Work]
BY DEF Tables!TypeOK, Work, Table, IndexModes

LEMMA FilesAre ==
  ASSUME NEW f \in Tables!Files, f.state = "saved"
  PROVE  f.of \in TableNames
BY DEF Tables!Files, Tables!NoView, Tables!Empty, Tables!Broken, Tables!View

LEMMA CatalogueStart ==
  ASSUME MaxRows \in Nat, Tables!Init
  PROVE  Tables!TypeOK
<1>1. Tables!NoTable \in Table /\ Tables!NoView \in Tables!Files /\ "none" \in IndexModes
  BY DEF Tables!NoTable, Tables!Files, Table, IndexModes
<1>2. Tables!Idle \in Work
  BY <1>1 DEF Tables!Idle, Work
<1>3. tables \in [TableNames -> Table] /\ catalog \in [TableNames -> IndexModes] /\ views \in [TableNames -> Tables!Files]
  BY <1>1 DEF Tables!Init
<1>4. binder \in [Handles -> [TableNames -> IndexModes]]
  BY <1>3 DEF Tables!Init
<1>5. memory \in [Handles -> [TableNames -> SUBSET (1 .. MaxRows)]]
  BY DEF Tables!Init
<1>6. job \in [Handles -> Work]
  BY <1>2 DEF Tables!Init
<1> QED BY <1>3, <1>4, <1>5, <1>6, CatalogueTypes

\* A table, made if it is not there, with its type or one more row.
LEMMA EnsuredType ==
  ASSUME MaxRows \in Nat, Tables!TypeOK, NEW n \in TableNames
  PROVE  /\ Tables!Ensured(n) \in Table
         /\ \A type \in Types : [Tables!Ensured(n) EXCEPT !.type = type] \in Table
         /\ \A id \in 1 .. MaxRows : [Tables!Ensured(n) EXCEPT !.rows = @ \cup {id}] \in Table
<1>1. tables[n] \in Table
  BY CatalogueTypes
<1>2. Tables!Ensured(n) \in Table
  BY <1>1 DEF Tables!Ensured, Table
<1>3. PICK t \in Table : t = Tables!Ensured(n)
  BY <1>2
<1>4. \A type \in Types : [t EXCEPT !.type = type] \in Table
  BY DEF Table
<1>5. ASSUME NEW id \in 1 .. MaxRows PROVE [t EXCEPT !.rows = @ \cup {id}] \in Table
  <2>1. t.rows \cup {id} \in SUBSET (0 .. MaxRows)
    BY DEF Table
  <2> QED BY <2>1 DEF Table
<1> QED BY <1>2, <1>3, <1>4, <1>5

\* The rows that a handle reads when it is opened.
LEMMA RowsRead ==
  ASSUME NEW t \in [TableNames -> Table], NEW h \in Handles,
         memory \in [Handles -> [TableNames -> SUBSET (1 .. MaxRows)]],
         memory' = [memory EXCEPT ![h] = [m \in TableNames |-> t[m].rows \ {0}]]
  PROVE  memory' \in [Handles -> [TableNames -> SUBSET (1 .. MaxRows)]]
<1>1. \A m \in TableNames : t[m].rows \ {0} \in SUBSET (1 .. MaxRows)
  BY DEF Table
<1>2. [m \in TableNames |-> t[m].rows \ {0}] \in [TableNames -> SUBSET (1 .. MaxRows)]
  BY <1>1
<1> QED BY <1>2

LEMMA CatalogueStep ==
  ASSUME MaxRows \in Nat, Tables!TypeOK, [Tables!Next]_(Tables!vars)
  PROVE  Tables!TypeOK'
<1>1. /\ tables \in [TableNames -> Table] /\ catalog \in [TableNames -> IndexModes] /\ views \in [TableNames -> Tables!Files]
      /\ binder \in [Handles -> [TableNames -> IndexModes]] /\ memory \in [Handles -> [TableNames -> SUBSET (1 .. MaxRows)]]
      /\ job \in [Handles -> Work]
  BY CatalogueTypes
<1>2. ASSUME tables' \in [TableNames -> Table], catalog' \in [TableNames -> IndexModes], views' \in [TableNames -> Tables!Files],
             binder' \in [Handles -> [TableNames -> IndexModes]],
             memory' \in [Handles -> [TableNames -> SUBSET (1 .. MaxRows)]], job' \in [Handles -> Work]
      PROVE  Tables!TypeOK'
  BY <1>2 DEF Tables!TypeOK, Work, Table, IndexModes
<1>3. Tables!NoTable \in Table /\ {Tables!NoView, Tables!Empty, Tables!Broken} \subseteq Tables!Files /\ Tables!Idle \in Work
  <2>1. Tables!NoTable \in Table /\ {Tables!NoView, Tables!Empty, Tables!Broken} \subseteq Tables!Files
    BY DEF Tables!NoTable, Tables!Files, Table
  <2> QED BY <2>1 DEF Tables!Idle, Work
\* What a handle is doing: with a file that is one, and a name.
<1>4. \A o \in {"found", "cut", "query"}, n \in TableNames, f \in Tables!Files :
        [op |-> o, name |-> n, view |-> f] \in Work
  BY DEF Work
<1>5. ASSUME NEW h \in Handles, NEW n \in TableNames, NEW mode \in Tables!Modes, NEW type \in Types \cup {Undeclared},
             Tables!CreateTable(h, n, mode, type)
      PROVE  Tables!TypeOK'
  <2>1. /\ binder' = [binder EXCEPT ![h][n] = mode]
        /\ tables' = [tables EXCEPT ![n] = IF type = Undeclared THEN Tables!Ensured(n)
                                           ELSE [Tables!Ensured(n) EXCEPT !.type = type]]
        /\ catalog' = binder'[h] \/ catalog' = catalog
        /\ UNCHANGED <<views, memory, job>>
    BY <1>5 DEF Tables!CreateTable
  <2>2. tables' \in [TableNames -> Table]
    BY <1>1, <2>1, EnsuredType
  <2>3. binder' \in [Handles -> [TableNames -> IndexModes]]
    BY <1>1, <2>1 DEF IndexModes
  <2>4. catalog' \in [TableNames -> IndexModes]
    BY <1>1, <2>1, <2>3
  <2> QED BY <1>1, <1>2, <2>1, <2>2, <2>3, <2>4
<1>6. ASSUME NEW h \in Handles, NEW n \in TableNames, Tables!CreateTableCrash(h, n) PROVE Tables!TypeOK'
  <2>1. /\ tables' = [tables EXCEPT ![n] = Tables!Ensured(n)]
        /\ binder' = [binder EXCEPT ![h] = catalog]
        /\ memory' = [memory EXCEPT ![h] = [m \in TableNames |-> tables'[m].rows \ {0}]]
        /\ UNCHANGED <<catalog, views, job>>
    BY <1>6 DEF Tables!CreateTableCrash
  <2>2. tables' \in [TableNames -> Table] /\ binder' \in [Handles -> [TableNames -> IndexModes]]
    BY <1>1, <2>1, EnsuredType
  <2>3. memory' \in [Handles -> [TableNames -> SUBSET (1 .. MaxRows)]]
    BY <1>1, <2>1, <2>2, RowsRead
  <2> QED BY <1>1, <1>2, <2>1, <2>2, <2>3
<1>7. ASSUME NEW h \in Handles, NEW n \in TableNames, Tables!Insert(h, n) PROVE Tables!TypeOK'
  <2>1. PICK id : id = Tables!Max(memory[h][n] \cup {0}) + 1
    OBVIOUS
  <2>2. /\ id <= MaxRows
        /\ memory' = [memory EXCEPT ![h][n] = @ \cup {id}]
        /\ tables' = [tables EXCEPT ![n] = [Tables!Ensured(n) EXCEPT !.rows = @ \cup {id}]]
        /\ UNCHANGED <<catalog, views, binder, job>>
    BY <1>7, <2>1 DEF Tables!Insert
  <2>3. memory[h][n] \in SUBSET (1 .. MaxRows)
    BY <1>1
  <2>4. Tables!Max(memory[h][n] \cup {0}) \in memory[h][n] \cup {0}
    BY <2>3, GreatestId
  <2>5. id \in 1 .. MaxRows
    BY <2>1, <2>2, <2>3, <2>4
  <2>6. tables' \in [TableNames -> Table]
    BY <1>1, <2>2, <2>5, EnsuredType
  <2>7. memory' \in [Handles -> [TableNames -> SUBSET (1 .. MaxRows)]]
    BY <1>1, <2>2, <2>3, <2>5
  <2> QED BY <1>1, <1>2, <2>2, <2>6, <2>7
<1>8. ASSUME NEW h \in Handles, NEW n \in TableNames, NEW type \in Types, Tables!AlterType(h, n, type) PROVE Tables!TypeOK'
  <2>1. /\ tables' = [tables EXCEPT ![n] = [Tables!Ensured(n) EXCEPT !.type = type]]
        /\ UNCHANGED <<catalog, views, binder, memory, job>>
    BY <1>8 DEF Tables!AlterType
  <2>2. tables' \in [TableNames -> Table]
    BY <1>1, <2>1, EnsuredType
  <2> QED BY <1>1, <1>2, <2>1, <2>2
<1>9. ASSUME NEW h \in Handles, NEW n \in TableNames, Tables!DropTable(h, n) PROVE Tables!TypeOK'
  <2>1. /\ memory' = [memory EXCEPT ![h][n] = {}]
        /\ views' = [views EXCEPT ![n] = Tables!NoView] \/ views' = views
        /\ tables' = [tables EXCEPT ![n] = Tables!NoTable] \/ tables' = tables
        /\ UNCHANGED <<catalog, binder, job>>
    BY <1>9 DEF Tables!DropTable
  <2>2. tables' \in [TableNames -> Table] /\ views' \in [TableNames -> Tables!Files]
    BY <1>1, <1>3, <2>1
  <2>3. memory' \in [Handles -> [TableNames -> SUBSET (1 .. MaxRows)]]
    BY <1>1, <2>1
  <2> QED BY <1>1, <1>2, <2>1, <2>2, <2>3
<1>10. ASSUME NEW h \in Handles, NEW n \in TableNames, NEW of \in TableNames, NEW where \in BOOLEAN, Tables!Search(h, n, of, where)
       PROVE  Tables!TypeOK'
  <2>1. PICK f : f = Tables!View(of, where, Tables!Found(h, of, where))
    OBVIOUS
  <2>2. job' = [job EXCEPT ![h] = [op |-> "found", name |-> n, view |-> f]] /\ UNCHANGED <<tables, catalog, views, binder, memory>>
    BY <1>10, <2>1 DEF Tables!Search
  <2>3. Tables!Found(h, of, where) \in SUBSET (1 .. MaxRows)
    BY <1>1 DEF Tables!Found
  <2>4. f \in Tables!Files
    BY <2>1, <2>3 DEF Tables!Files
  <2>5. job' \in [Handles -> Work]
    BY <1>1, <1>4, <2>2, <2>4
  <2> QED BY <1>1, <1>2, <2>2, <2>5
<1>11. ASSUME NEW h \in Handles, NEW n \in TableNames, Tables!RefreshView(h, n) PROVE Tables!TypeOK'
  <2>1. views[n].of \in TableNames
    BY <1>1, <1>11, FilesAre DEF Tables!RefreshView
  <2> QED BY <1>10, <1>11, <2>1 DEF Tables!RefreshView
<1>12. ASSUME NEW h \in Handles, NEW n \in TableNames, Tables!DropView(h, n) PROVE Tables!TypeOK'
  <2>1. views' = [views EXCEPT ![n] = Tables!NoView] /\ UNCHANGED <<tables, catalog, binder, memory, job>>
    BY <1>12 DEF Tables!DropView
  <2>2. views' \in [TableNames -> Tables!Files]
    BY <1>1, <1>3, <2>1
  <2> QED BY <1>1, <1>2, <2>1, <2>2
<1>13. ASSUME NEW h \in Handles, NEW n \in TableNames, Tables!QueryIds(h, n) PROVE Tables!TypeOK'
  <2>1. /\ job' = [job EXCEPT ![h] = [op |-> "query", name |-> n, view |-> views[n]]]
        /\ UNCHANGED <<tables, catalog, views, binder, memory>>
    BY <1>13 DEF Tables!QueryIds
  <2>2. [op |-> "query", name |-> n, view |-> views[n]] \in Work
    BY <1>1, <1>4
  <2>3. job' \in [Handles -> Work]
    BY <1>1, <2>1, <2>2
  <2> QED BY <1>1, <1>2, <2>1, <2>3
<1>14. ASSUME NEW h \in Handles, Tables!Truncate(h) PROVE Tables!TypeOK'
  <2>1. /\ job' = [job EXCEPT ![h].op = "cut"] /\ views' = [views EXCEPT ![job[h].name] = Tables!Empty]
        /\ UNCHANGED <<tables, catalog, binder, memory>>
    BY <1>14 DEF Tables!Truncate
  <2>2. PICK w \in Work : w = job[h]
    BY <1>1
  <2>3. [w EXCEPT !.op = "cut"] \in Work
    BY DEF Work
  <2>4. job' \in [Handles -> Work]
    BY <1>1, <2>1, <2>2, <2>3
  <2>5. views' \in [TableNames -> Tables!Files]
    BY <1>1, <1>3, <2>1
  <2> QED BY <1>1, <1>2, <2>1, <2>4, <2>5
<1>15. ASSUME NEW h \in Handles, Tables!Write(h) PROVE Tables!TypeOK'
  <2>1. /\ job' = [job EXCEPT ![h] = Tables!Idle] /\ UNCHANGED <<tables, catalog, binder, memory>>
        /\ \E f \in {job[h].view, Tables!Broken} : views' = [views EXCEPT ![job[h].name] = f]
    BY <1>15 DEF Tables!Write
  <2>2. job[h].view \in Tables!Files
    BY <1>1 DEF Work
  <2>3. PICK f \in Tables!Files : views' = [views EXCEPT ![job[h].name] = f]
    BY <1>3, <2>1, <2>2
  <2>4. views' \in [TableNames -> Tables!Files]
    BY <1>1, <2>3
  <2>5. job' \in [Handles -> Work]
    BY <1>1, <1>3, <2>1
  <2> QED BY <1>1, <1>2, <2>1, <2>4, <2>5
<1>16. ASSUME NEW h \in Handles, Tables!QuerySource(h) PROVE Tables!TypeOK'
  <2>1. job' = [job EXCEPT ![h] = Tables!Idle] /\ UNCHANGED <<tables, catalog, views, binder, memory>>
    BY <1>16 DEF Tables!QuerySource
  <2>2. job' \in [Handles -> Work]
    BY <1>1, <1>3, <2>1
  <2> QED BY <1>1, <1>2, <2>1, <2>2
<1>17. ASSUME NEW h \in Handles, Tables!Reopen(h) PROVE Tables!TypeOK'
  <2>1. /\ job' = [job EXCEPT ![h] = Tables!Idle] /\ UNCHANGED <<tables, catalog, views>>
        /\ binder' = [binder EXCEPT ![h] = catalog]
        /\ memory' = [memory EXCEPT ![h] = [n \in TableNames |-> tables[n].rows \ {0}]]
    BY <1>17 DEF Tables!Reopen, Tables!Opened, Tables!RowsOf
  <2>2. job' \in [Handles -> Work] /\ binder' \in [Handles -> [TableNames -> IndexModes]]
    BY <1>1, <1>3, <2>1
  <2>3. memory' \in [Handles -> [TableNames -> SUBSET (1 .. MaxRows)]]
    BY <1>1, <2>1, RowsRead
  <2> QED BY <1>1, <1>2, <2>1, <2>2, <2>3
<1>18. ASSUME UNCHANGED Tables!vars PROVE Tables!TypeOK'
  BY <1>1, <1>2, <1>18 DEF Tables!vars
<1>19. ASSUME NEW h \in Handles, NEW n \in TableNames, NEW of \in TableNames, NEW where \in BOOLEAN, Tables!CreateView(h, n, of, where)
       PROVE  Tables!TypeOK'
  BY <1>10, <1>19 DEF Tables!CreateView
<1> QED
  BY <1>5, <1>6, <1>7, <1>8, <1>9, <1>11, <1>12, <1>13, <1>14, <1>15, <1>16, <1>17, <1>18, <1>19 DEF Tables!Next

-----------------------------------------------------------------------------
(* A text search, by the names of its variables.  An instance has names of its *)
(* own for finite sets and sums: first the facts of FiniteSetTheorems, about   *)
(* those of Text                                                               *)

medium == x1
texts == x2
tf == x3
query == x4
k == x5
terms == x6
spans == x7
at == x8
heap == x9
found == x10
USE DEF medium, texts, tf, query, k, terms, spans, at, heap, found

LEMMA TextCounts ==
  ASSUME NEW S
  PROVE  (Text!IsFiniteSet(S) <=> IsFiniteSet(S)) /\ Text!Cardinality(S) = Cardinality(S)
<1>1. Text!IsFiniteSet(S) <=> IsFiniteSet(S)
  BY DEF Text!IsFiniteSet, IsFiniteSet
<1>2. Text!Cardinality(S) = Cardinality(S)
  BY DEF Text!Cardinality, Cardinality
<1> QED BY <1>1, <1>2

LEMMA TextFS_AddElement ==
  ASSUME NEW S, NEW x, Text!IsFiniteSet(S)
  PROVE  /\ Text!IsFiniteSet(S \cup {x})
         /\ Text!Cardinality(S \cup {x}) = IF x \in S THEN Text!Cardinality(S) ELSE Text!Cardinality(S) + 1
<1>1. IsFiniteSet(S)
  BY TextCounts
<1> QED BY <1>1, FS_AddElement, TextCounts

LEMMA TextFS_RemoveElement ==
  ASSUME NEW S, NEW x, Text!IsFiniteSet(S)
  PROVE  /\ Text!IsFiniteSet(S \ {x})
         /\ Text!Cardinality(S \ {x}) = IF x \in S THEN Text!Cardinality(S) - 1 ELSE Text!Cardinality(S)
<1>1. IsFiniteSet(S)
  BY TextCounts
<1> QED BY <1>1, FS_RemoveElement, TextCounts

LEMMA TextFS_CardinalityType ==
  ASSUME NEW S, Text!IsFiniteSet(S)
  PROVE  Text!Cardinality(S) \in Nat
<1>1. IsFiniteSet(S)
  BY TextCounts
<1>2. Cardinality(S) \in Nat
  BY <1>1, FS_CardinalityType
<1> QED BY <1>2, TextCounts

LEMMA TextFS_EmptySet ==
  /\ Text!IsFiniteSet({}) /\ Text!Cardinality({}) = 0
  /\ \A S : Text!IsFiniteSet(S) => (Text!Cardinality(S) = 0 <=> S = {})
<1>1. Text!IsFiniteSet({}) /\ Text!Cardinality({}) = 0
  BY FS_EmptySet, TextCounts
<1>2. ASSUME NEW S, Text!IsFiniteSet(S) PROVE Text!Cardinality(S) = 0 <=> S = {}
  <2>1. IsFiniteSet(S) /\ Text!Cardinality(S) = Cardinality(S)
    BY <1>2, TextCounts
  <2> QED BY <2>1, FS_EmptySet
<1> QED BY <1>1, <1>2

LEMMA TextFS_Singleton ==
  /\ \A x : Text!IsFiniteSet({x}) /\ Text!Cardinality({x}) = 1
  /\ \A S : Text!IsFiniteSet(S) => (Text!Cardinality(S) = 1 <=> \E x : S = {x})
<1>1. ASSUME NEW x PROVE Text!IsFiniteSet({x}) /\ Text!Cardinality({x}) = 1
  BY FS_Singleton, TextCounts
<1>2. ASSUME NEW S, Text!IsFiniteSet(S) PROVE Text!Cardinality(S) = 1 <=> \E x : S = {x}
  <2>1. IsFiniteSet(S) /\ Text!Cardinality(S) = Cardinality(S)
    BY <1>2, TextCounts
  <2> QED BY <2>1, FS_Singleton
<1> QED BY <1>1, <1>2

LEMMA TextFS_Subset ==
  ASSUME NEW S, Text!IsFiniteSet(S), NEW T \in SUBSET S
  PROVE  /\ Text!IsFiniteSet(T) /\ Text!Cardinality(T) <= Text!Cardinality(S)
         /\ Text!Cardinality(S) = Text!Cardinality(T) => S = T
<1>1. IsFiniteSet(S)
  BY TextCounts
<1>2. IsFiniteSet(T) /\ Cardinality(T) <= Cardinality(S) /\ (Cardinality(S) = Cardinality(T) => S = T)
  BY <1>1, FS_Subset
<1> QED BY <1>2, TextCounts

LEMMA TextFS_Interval ==
  ASSUME NEW a \in Int, NEW b \in Int
  PROVE  Text!IsFiniteSet(a .. b)
<1>1. IsFiniteSet(a .. b)
  BY FS_Interval
<1> QED BY <1>1, TextCounts

LEMMA TextFS_Surjection ==
  ASSUME NEW S, NEW T, NEW f \in Surjection(S, T), Text!IsFiniteSet(S)
  PROVE  Text!IsFiniteSet(T)
<1>1. IsFiniteSet(S)
  BY TextCounts
<1>2. IsFiniteSet(T)
  BY <1>1, FS_Surjection
<1> QED BY <1>2, TextCounts

-----------------------------------------------------------------------------
(* Least elements *)

\* A non-empty set of natural numbers has a least element.
LEMMA LeastElement ==
  ASSUME NEW S, S \subseteq Nat, S # {}
  PROVE  \E x \in S : \A y \in S : x <= y
<1>1. PICK x \in S : \A y \in S : ~ (<<y, x>> \in OpToRel(<, Nat))
  BY WFMin, NatLessThanWellFounded
<1>2. \A y \in S : ~ (y < x)
  BY <1>1 DEF OpToRel
<1> QED BY <1>2

\* Of finite sets, one has the fewest elements.
LEMMA LeastSet ==
  ASSUME NEW C, C # {}, \A s \in C : Text!IsFiniteSet(s)
  PROVE  \E s \in C : \A t \in C : Text!Cardinality(s) <= Text!Cardinality(t)
<1>1. {Text!Cardinality(s) : s \in C} \subseteq Nat
  BY TextFS_CardinalityType
<1>2. PICK n \in {Text!Cardinality(s) : s \in C} : \A m \in {Text!Cardinality(s) : s \in C} : n <= m
  BY <1>1, LeastElement
<1> QED BY <1>2

-----------------------------------------------------------------------------
(* Sums *)

Pick(s) == CHOOSE x \in s : TRUE

\* g is the sum of f over each subset of S, taken element by element.
IsSum(g, f, S) == g = [s \in SUBSET S |-> IF s = {} THEN 0 ELSE f[Pick(s)] + g[s \ {Pick(s)}]]

LEMMA SumDef ==
  ASSUME NEW f, NEW S
  PROVE  Text!SumFunctionOnSet(f, S) = (CHOOSE g : IsSum(g, f, S))[S]
BY Zenon DEF Text!SumFunctionOnSet, Text!FoldFunctionOnSet, Text!MapThenFoldSet, IsSum, Pick

\* A set without the element that is picked is a smaller one.
LEMMA PickSmaller ==
  ASSUME NEW s, Text!IsFiniteSet(s), s # {}
  PROVE  /\ Pick(s) \in s /\ Text!IsFiniteSet(s \ {Pick(s)})
         /\ Text!Cardinality(s \ {Pick(s)}) = Text!Cardinality(s) - 1 /\ Text!Cardinality(s) \in Nat \ {0}
         /\ Text!Cardinality(s \ {Pick(s)}) \in Nat
<1>1. Pick(s) \in s
  BY DEF Pick
<1>2. Text!Cardinality(s) \in Nat \ {0}
  BY TextFS_EmptySet, TextFS_CardinalityType
<1> QED BY <1>1, <1>2, TextFS_RemoveElement

LEMMA SumExists ==
  ASSUME NEW f, NEW S, Text!IsFiniteSet(S)
  PROVE  \E g : IsSum(g, f, S)
<1> DEFINE Small(n) == {s \in SUBSET S : Text!Cardinality(s) <= n}
           Step(g, s) == IF s = {} THEN 0 ELSE f[Pick(s)] + g[s \ {Pick(s)}]
           Bad == {n \in Nat : ~ \E g : g = [s \in Small(n) |-> Step(g, s)]}
<1>1. \A s \in SUBSET S : Text!IsFiniteSet(s) /\ Text!Cardinality(s) \in Nat
  BY TextFS_Subset, TextFS_CardinalityType
<1>2. Bad = {}
  <2> SUFFICES ASSUME Bad # {} PROVE FALSE
    OBVIOUS
  <2>1. PICK n \in Bad : \A m \in Bad : n <= m
    BY LeastElement
  <2>2. n # 0
    <3> SUFFICES ASSUME n = 0 PROVE FALSE
      OBVIOUS
    <3>1. \A s \in Small(0) : s = {}
      BY <1>1, TextFS_EmptySet
    <3>2. [s \in Small(0) |-> 0] = [s \in Small(0) |-> Step([t \in Small(0) |-> 0], s)]
      BY <3>1
    <3> QED BY <2>1, <3>2
  <2>3. n - 1 \in Nat /\ n - 1 \notin Bad
    <3>1. n \in Nat
      BY <2>1
    <3>2. n - 1 \in Nat /\ ~ (n <= n - 1)
      BY <2>2, <3>1
    <3> HIDE DEF Bad
    <3> QED BY <2>1, <3>2
  <2>4. PICK g : g = [s \in Small(n - 1) |-> Step(g, s)]
    BY <2>3
  <2> DEFINE h == [s \in Small(n) |-> Step(g, s)]
  <2>5. ASSUME NEW s \in Small(n) PROVE Step(g, s) = Step(h, s)
    <3>1. CASE s = {}
      BY <3>1
    <3>2. CASE s # {}
      <4>1. s \ {Pick(s)} \in Small(n - 1) /\ s \ {Pick(s)} \in Small(n)
        BY <1>1, <3>2, PickSmaller
      <4>2. g[s \ {Pick(s)}] = Step(g, s \ {Pick(s)})
        BY <2>4, <4>1
      <4>3. h[s \ {Pick(s)}] = Step(g, s \ {Pick(s)})
        BY <4>1
      <4> QED BY <3>2, <4>2, <4>3
    <3> QED BY <3>1, <3>2
  <2>6. h = [s \in Small(n) |-> Step(h, s)]
    BY <2>5
  <2> QED BY <2>1, <2>6
<1>3. Small(Text!Cardinality(S)) = SUBSET S
  BY <1>1, TextFS_Subset
<1>4. Text!Cardinality(S) \notin Bad /\ Text!Cardinality(S) \in Nat
  BY <1>2, TextFS_CardinalityType
<1> QED BY <1>3, <1>4 DEF IsSum

LEMMA SumUnique ==
  ASSUME NEW f, NEW S, Text!IsFiniteSet(S), NEW T \in SUBSET S, NEW g, NEW h, IsSum(g, f, S), IsSum(h, f, T)
  PROVE  g[T] = h[T]
<1> DEFINE C == {s \in SUBSET T : g[s] # h[s]}
<1> SUFFICES ASSUME C # {} PROVE FALSE
  OBVIOUS
<1>1. \A s \in C : Text!IsFiniteSet(s)
  BY TextFS_Subset
<1>2. PICK s \in C : \A t \in C : Text!Cardinality(s) <= Text!Cardinality(t)
  BY <1>1, LeastSet
<1>3. s # {}
  BY <1>2 DEF IsSum
<1>4. s \ {Pick(s)} \notin C
  BY <1>1, <1>2, <1>3, PickSmaller
<1>5. g[s \ {Pick(s)}] = h[s \ {Pick(s)}]
  BY <1>4
<1>6. g[s] = f[Pick(s)] + g[s \ {Pick(s)}]
  BY <1>3 DEF IsSum
<1>7. h[s] = f[Pick(s)] + h[s \ {Pick(s)}]
  BY <1>3 DEF IsSum
<1> QED BY <1>5, <1>6, <1>7

LEMMA SumEmpty ==
  ASSUME NEW f
  PROVE  Text!SumFunctionOnSet(f, {}) = 0
<1>1. IsSum(CHOOSE g : IsSum(g, f, {}), f, {})
  BY SumExists, TextFS_EmptySet
<1>2. PICK g : g = CHOOSE h : IsSum(h, f, {})
  OBVIOUS
<1>3. g[{}] = 0
  BY <1>1, <1>2 DEF IsSum
<1> QED BY <1>2, <1>3, SumDef

LEMMA SumPick ==
  ASSUME NEW f, NEW S, Text!IsFiniteSet(S), S # {}
  PROVE  Text!SumFunctionOnSet(f, S) = f[Pick(S)] + Text!SumFunctionOnSet(f, S \ {Pick(S)})
<1> DEFINE T == S \ {Pick(S)}
<1>1. Text!IsFiniteSet(T) /\ T \in SUBSET S
  BY PickSmaller
<1>2. PICK g : g = CHOOSE h : IsSum(h, f, S)
  OBVIOUS
<1>3. PICK h : h = CHOOSE i : IsSum(i, f, T)
  OBVIOUS
<1>4. IsSum(g, f, S) /\ IsSum(h, f, T)
  BY <1>1, <1>2, <1>3, SumExists, Zenon
<1>5. g[S] = f[Pick(S)] + g[T]
  BY <1>4 DEF IsSum
<1>6. g[T] = h[T]
  BY <1>1, <1>4, SumUnique
<1>7. Text!SumFunctionOnSet(f, S) = g[S] /\ Text!SumFunctionOnSet(f, T) = h[T]
  BY <1>2, <1>3, SumDef
<1> QED BY <1>5, <1>6, <1>7

LEMMA SumNat ==
  ASSUME NEW f, NEW S, Text!IsFiniteSet(S), \A x \in S : f[x] \in Nat
  PROVE  Text!SumFunctionOnSet(f, S) \in Nat
<1> DEFINE C == {s \in SUBSET S : Text!SumFunctionOnSet(f, s) \notin Nat}
<1> SUFFICES ASSUME C # {} PROVE FALSE
  OBVIOUS
<1>1. \A s \in C : Text!IsFiniteSet(s)
  BY TextFS_Subset
<1>2. PICK s \in C : \A t \in C : Text!Cardinality(s) <= Text!Cardinality(t)
  BY <1>1, LeastSet
<1>3. s # {}
  BY <1>2, SumEmpty
<1>4. s \ {Pick(s)} \notin C /\ Pick(s) \in s
  BY <1>1, <1>2, <1>3, PickSmaller
<1>5. Text!SumFunctionOnSet(f, s \ {Pick(s)}) \in Nat /\ f[Pick(s)] \in Nat
  BY <1>4
<1>6. Text!SumFunctionOnSet(f, s) = f[Pick(s)] + Text!SumFunctionOnSet(f, s \ {Pick(s)})
  BY <1>1, <1>2, <1>3, SumPick
<1> QED BY <1>5, <1>6

\* The order does not matter.
LEMMA SumRemove ==
  ASSUME NEW f, NEW S, Text!IsFiniteSet(S), \A x \in S : f[x] \in Nat, NEW y \in S
  PROVE  Text!SumFunctionOnSet(f, S) = f[y] + Text!SumFunctionOnSet(f, S \ {y})
<1> DEFINE C == {s \in SUBSET S : \E z \in s : Text!SumFunctionOnSet(f, s) # f[z] + Text!SumFunctionOnSet(f, s \ {z})}
<1> SUFFICES ASSUME C # {} PROVE FALSE
  OBVIOUS
<1>1. \A s \in SUBSET S : Text!IsFiniteSet(s) /\ Text!SumFunctionOnSet(f, s) \in Nat
  BY TextFS_Subset, SumNat
<1>2. PICK s \in C : \A t \in C : Text!Cardinality(s) <= Text!Cardinality(t)
  BY <1>1, LeastSet
<1>3. PICK z \in s : Text!SumFunctionOnSet(f, s) # f[z] + Text!SumFunctionOnSet(f, s \ {z})
  BY <1>2
<1>4. PICK x : x = Pick(s)
  OBVIOUS
<1>5. x \in s /\ s \subseteq S /\ f[x] \in Nat /\ f[z] \in Nat
  BY <1>3, <1>4 DEF Pick
<1>6. Text!SumFunctionOnSet(f, s) = f[x] + Text!SumFunctionOnSet(f, s \ {x})
  BY <1>1, <1>3, <1>4, SumPick
<1>7. x # z
  BY <1>3, <1>6
<1>8. s \ {x} \notin C /\ s \ {z} \notin C
  <2>1. Text!IsFiniteSet(s) /\ Text!Cardinality(s) \in Nat
    BY <1>1, <1>5, TextFS_CardinalityType
  <2>2. Text!Cardinality(s \ {x}) = Text!Cardinality(s) - 1
    BY <1>5, <2>1, TextFS_RemoveElement
  <2>3. Text!Cardinality(s \ {z}) = Text!Cardinality(s) - 1
    BY <1>3, <2>1, TextFS_RemoveElement
  <2> HIDE DEF C
  <2> QED BY <1>2, <2>1, <2>2, <2>3
<1>9. Text!SumFunctionOnSet(f, s \ {x}) = f[z] + Text!SumFunctionOnSet(f, (s \ {x}) \ {z})
  BY <1>5, <1>7, <1>8
<1>10. Text!SumFunctionOnSet(f, s \ {z}) = f[x] + Text!SumFunctionOnSet(f, (s \ {z}) \ {x})
  BY <1>5, <1>7, <1>8
<1>11. (s \ {x}) \ {z} = (s \ {z}) \ {x} /\ Text!SumFunctionOnSet(f, (s \ {x}) \ {z}) \in Nat
  BY <1>1, <1>5
<1> QED BY <1>3, <1>5, <1>6, <1>9, <1>10, <1>11

LEMMA SumAdd ==
  ASSUME NEW f, NEW S, Text!IsFiniteSet(S), NEW y, y \notin S, \A x \in S \cup {y} : f[x] \in Nat
  PROVE  Text!SumFunctionOnSet(f, S \cup {y}) = f[y] + Text!SumFunctionOnSet(f, S)
<1>1. Text!IsFiniteSet(S \cup {y}) /\ (S \cup {y}) \ {y} = S
  BY TextFS_AddElement
<1> QED BY <1>1, SumRemove

\* More summands, and none smaller.
LEMMA SumMonotone ==
  ASSUME NEW f, NEW g, NEW T, Text!IsFiniteSet(T), NEW S \in SUBSET T,
         \A x \in S : f[x] \in Nat, \A x \in T : g[x] \in Nat, \A x \in S : f[x] <= g[x]
  PROVE  Text!SumFunctionOnSet(f, S) <= Text!SumFunctionOnSet(g, T)
<1> DEFINE C == {s \in SUBSET T : ~ (Text!SumFunctionOnSet(f, s \cap S) <= Text!SumFunctionOnSet(g, s))}
<1>1. C = {}
  <2> SUFFICES ASSUME C # {} PROVE FALSE
    OBVIOUS
  <2>1. \A s \in SUBSET T : Text!IsFiniteSet(s) /\ Text!SumFunctionOnSet(g, s) \in Nat
    BY TextFS_Subset, SumNat
  <2>2. \A s \in SUBSET T : Text!SumFunctionOnSet(f, s \cap S) \in Nat
    BY <2>1, SumNat
  <2>3. PICK s \in C : \A t \in C : Text!Cardinality(s) <= Text!Cardinality(t)
    BY <2>1, LeastSet
  <2>4. s # {}
    BY <2>3, SumEmpty
  <2>5. PICK x : x = Pick(s)
    OBVIOUS
  <2>6. x \in s /\ s \ {x} \notin C
    <3>1. Text!IsFiniteSet(s)
      BY <2>1
    <3>2. x \in s /\ Text!Cardinality(s \ {x}) = Text!Cardinality(s) - 1 /\ Text!Cardinality(s) \in Nat
      BY <2>4, <2>5, <3>1, PickSmaller
    <3> HIDE DEF C
    <3> QED BY <2>3, <3>2
  <2>7. Text!SumFunctionOnSet(f, (s \ {x}) \cap S) <= Text!SumFunctionOnSet(g, s \ {x})
    BY <2>6
  <2>8. Text!SumFunctionOnSet(g, s) = g[x] + Text!SumFunctionOnSet(g, s \ {x}) /\ g[x] \in Nat
    <3>1. Text!IsFiniteSet(s) /\ (\A z \in s : g[z] \in Nat) /\ x \in s
      BY <2>1, <2>6
    <3> QED BY <3>1, SumRemove
  <2>9. CASE x \in S
    <3>1. (s \ {x}) \cap S = (s \cap S) \ {x} /\ Text!IsFiniteSet(s \cap S) /\ x \in s \cap S
      BY <2>1, <2>6, <2>9
    <3>2. Text!SumFunctionOnSet(f, s \cap S) = f[x] + Text!SumFunctionOnSet(f, (s \cap S) \ {x})
      BY <3>1, SumRemove
    <3>3. f[x] \in Nat /\ f[x] <= g[x]
      BY <2>9
    <3> QED BY <2>1, <2>2, <2>3, <2>7, <2>8, <3>1, <3>2, <3>3
  <2>10. CASE x \notin S
    <3>1. (s \ {x}) \cap S = s \cap S
      BY <2>10
    <3> QED BY <2>1, <2>2, <2>3, <2>7, <2>8, <3>1
  <2> QED BY <2>9, <2>10
<1>2. T \notin C /\ T \cap S = S
  BY <1>1
<1> QED BY <1>2

-----------------------------------------------------------------------------
(* The least and the greatest of a set *)

LEMMA MinIs ==
  ASSUME NEW S, S \subseteq Nat, S # {}
  PROVE  Text!Min(S) \in S /\ \A x \in S : Text!Min(S) <= x
<1>1. \E x \in S : \A y \in S : x <= y
  BY LeastElement
<1> QED BY <1>1 DEF Text!Min

LEMMA GreatestElement ==
  ASSUME NEW S, S \subseteq Nat, S # {}, Text!IsFiniteSet(S)
  PROVE  \E x \in S : \A y \in S : x >= y
<1> DEFINE above(x) == {y \in S : y > x}
           C == {above(x) : x \in S}
<1>1. \A s \in C : Text!IsFiniteSet(s)
  BY TextFS_Subset
<1>2. PICK s \in C : \A u \in C : Text!Cardinality(s) <= Text!Cardinality(u)
  BY <1>1, LeastSet
<1>3. PICK x \in S : s = above(x)
  BY <1>2
<1>4. ASSUME NEW y \in S, y > x PROVE FALSE
  <2>1. above(y) \subseteq s /\ y \in s /\ y \notin above(y)
    <3>1. x \in Nat /\ y \in Nat /\ \A z \in S : z \in Nat
      OBVIOUS
    <3>2. \A z \in S : z > y => z > x
      BY <1>4, <3>1
    <3>3. ~ (y > y)
      BY <3>1
    <3> QED BY <1>3, <1>4, <3>2, <3>3
  <2>2. Text!IsFiniteSet(s) /\ above(y) \in C
    BY <1>1
  <2>3. Text!Cardinality(above(y)) <= Text!Cardinality(s) /\ Text!Cardinality(above(y)) # Text!Cardinality(s)
    BY <2>1, <2>2, TextFS_Subset
  <2>4. Text!Cardinality(above(y)) \in Nat /\ Text!Cardinality(s) \in Nat
        /\ Text!Cardinality(s) <= Text!Cardinality(above(y))
    BY <1>1, <1>2, <2>2, TextFS_CardinalityType
  <2> QED BY <2>3, <2>4
<1>5. \A y \in S : x >= y
  BY <1>4
<1> QED BY <1>5

LEMMA MaxIs ==
  ASSUME NEW S, S \subseteq Nat, S # {}, Text!IsFiniteSet(S)
  PROVE  Text!Max(S) \in S /\ \A x \in S : x <= Text!Max(S)
<1>1. \E x \in S : \A y \in S : x >= y
  BY GreatestElement
<1>2. Text!Max(S) \in S /\ \A x \in S : Text!Max(S) >= x
  BY <1>1 DEF Text!Max
<1> QED BY <1>2

-----------------------------------------------------------------------------
(* The k best of a set *)

\* Documents with their scores, each once.
Ranked(items) ==
  items \subseteq [doc : Nat, score : Nat] /\ Text!IsFiniteSet(items) /\ \A x, y \in items : x.doc = y.doc => x = y

LEMMA BeatsOrder ==
  ASSUME NEW items, Ranked(items), NEW x \in items, NEW y \in items, NEW z \in items
  PROVE  /\ Text!Beats(x, y) /\ Text!Beats(y, z) => Text!Beats(x, z)
         /\ ~ Text!Beats(x, x) /\ ~ (Text!Beats(x, y) /\ Text!Beats(y, x))
         /\ x # y => Text!Beats(x, y) \/ Text!Beats(y, x)
<1>1. /\ x.doc \in Nat /\ x.score \in Nat /\ y.doc \in Nat /\ y.score \in Nat /\ z.doc \in Nat /\ z.score \in Nat
      /\ x # y => x.doc # y.doc
  BY DEF Ranked
<1> QED BY <1>1 DEF Text!Beats

LEMMA WorstIs ==
  ASSUME NEW items, Ranked(items), NEW top \in SUBSET items, top # {}
  PROVE  Text!Worst(top) \in top /\ \A y \in top : y = Text!Worst(top) \/ Text!Beats(y, Text!Worst(top))
<1> DEFINE below(x) == {y \in top : Text!Beats(x, y)}
           C == {below(x) : x \in top}
<1>1. Text!IsFiniteSet(top) /\ \A s \in C : Text!IsFiniteSet(s)
  BY TextFS_Subset DEF Ranked
<1>2. PICK s \in C : \A u \in C : Text!Cardinality(s) <= Text!Cardinality(u)
  BY <1>1, LeastSet
<1>3. PICK x \in top : s = below(x)
  BY <1>2
<1>4. ASSUME NEW y \in top, Text!Beats(x, y) PROVE FALSE
  <2>1. below(y) \subseteq s /\ y \in s /\ y \notin below(y)
    BY <1>3, <1>4, BeatsOrder
  <2>2. Text!IsFiniteSet(s) /\ below(y) \in C
    BY <1>1
  <2>3. Text!Cardinality(below(y)) <= Text!Cardinality(s) /\ Text!Cardinality(below(y)) # Text!Cardinality(s)
    BY <2>1, <2>2, TextFS_Subset
  <2>4. Text!Cardinality(below(y)) \in Nat /\ Text!Cardinality(s) \in Nat
        /\ Text!Cardinality(s) <= Text!Cardinality(below(y))
    BY <1>1, <1>2, <2>2, TextFS_CardinalityType
  <2> QED BY <2>3, <2>4
<1>5. \E w \in top : \A y \in top : ~ Text!Beats(w, y)
  BY <1>4
<1>6. Text!Worst(top) \in top /\ \A y \in top : ~ Text!Beats(Text!Worst(top), y)
  BY <1>5, Zenon DEF Text!Worst
<1> QED BY <1>6, BeatsOrder

\* Items that all of a full top beat may be left out.
LEMMA TopGrows ==
  ASSUME NEW top, NEW items, NEW more, Text!IsTop(top, items), items \subseteq more,
         \A x \in more \ items : Text!Cardinality(top) = k /\ \A y \in top : Text!Beats(y, x)
  PROVE  Text!IsTop(top, more)
BY DEF Text!IsTop

\* One more item.
LEMMA PushKeeps ==
  ASSUME k \in Nat \ {0}, NEW all, Ranked(all), NEW items \in SUBSET all, NEW top, Text!IsTop(top, items),
         NEW x \in all, x \notin items
  PROVE  Text!IsTop(Text!PushTopK(top, x), items \cup {x})
<1>1. top \subseteq items /\ Text!IsFiniteSet(top) /\ Text!Cardinality(top) \in Nat /\ Text!Cardinality(top) <= k
      /\ x \notin top
  BY TextFS_Subset, TextFS_CardinalityType DEF Ranked, Text!IsTop
<1>2. CASE Text!Cardinality(top) < k
  <2>1. Text!PushTopK(top, x) = top \cup {x}
    BY <1>2 DEF Text!PushTopK
  <2>2. items = top
    BY <1>1, <1>2 DEF Text!IsTop
  <2>3. Text!Cardinality(top \cup {x}) <= k
    <3>1. Text!Cardinality(top \cup {x}) = Text!Cardinality(top) + 1
      BY <1>1, TextFS_AddElement
    <3> QED BY <1>1, <1>2, <3>1
  <2> QED BY <2>1, <2>2, <2>3 DEF Text!IsTop
<1>3. CASE Text!Cardinality(top) = k
  <2>1. top # {} /\ ~ (Text!Cardinality(top) < k)
    BY <1>3, TextFS_EmptySet
  <2>2. PICK w : w = Text!Worst(top)
    OBVIOUS
  <2>3. w \in top /\ \A y \in top : y = w \/ Text!Beats(y, w)
    BY <1>1, <2>1, <2>2, WorstIs
  <2>4. CASE Text!Beats(x, w)
    <3> DEFINE new == (top \ {w}) \cup {x}
    <3>1. Text!PushTopK(top, x) = new
      BY <2>1, <2>2, <2>4 DEF Text!PushTopK
    <3>2. Text!Cardinality(new) = k
      <4>1. Text!IsFiniteSet(top \ {w}) /\ Text!Cardinality(top \ {w}) = k - 1 /\ x \notin top \ {w}
        BY <1>1, <1>3, <2>3, TextFS_RemoveElement
      <4> QED BY <4>1, TextFS_AddElement
    <3>3. \A y \in new : Text!Beats(y, w)
      BY <2>3, <2>4
    <3>4. ASSUME NEW z \in (items \cup {x}) \ new, NEW y \in new PROVE Text!Beats(y, z)
      <4>1. CASE z = w
        BY <3>3, <4>1
      <4>2. CASE z # w
        <5>1. z \in items \ top
          BY <3>4, <4>2
        <5>2. Text!Beats(w, z)
          BY <2>3, <5>1 DEF Text!IsTop
        <5>3. y \in all /\ w \in all /\ z \in all
          BY <1>1, <2>3, <5>1
        <5> QED BY <3>3, <5>2, <5>3, BeatsOrder
      <4> QED BY <4>1, <4>2
    <3>5. Text!Cardinality(new) <= k /\ new \subseteq items \cup {x}
      BY <1>1, <3>2
    <3> QED BY <3>1, <3>2, <3>4, <3>5 DEF Text!IsTop
  <2>5. CASE ~ Text!Beats(x, w)
    <3>1. Text!PushTopK(top, x) = top
      BY <2>1, <2>2, <2>5 DEF Text!PushTopK
    <3>2. x # w /\ x \in all /\ w \in all
      BY <1>1, <2>3
    <3>3. Text!Beats(w, x)
      BY <2>5, <3>2, BeatsOrder
    <3>4. \A y \in top : Text!Beats(y, x)
      <4> SUFFICES ASSUME NEW y \in top PROVE Text!Beats(y, x)
        OBVIOUS
      <4>1. y \in all
        BY <1>1
      <4> QED BY <2>3, <3>2, <3>3, <4>1, BeatsOrder
    <3> QED BY <1>3, <3>1, <3>4 DEF Text!IsTop
  <2> QED BY <2>4, <2>5
<1> QED BY <1>1, <1>2, <1>3

LEMMA TopIsBest ==
  ASSUME k \in Nat \ {0}, NEW items, Ranked(items), NEW top, Text!IsTop(top, items)
  PROVE  top = Text!BestOf(items)
<1>1. top \subseteq items /\ Text!IsFiniteSet(top) /\ Text!Cardinality(top) \in Nat /\ Text!Cardinality(top) <= k
  BY TextFS_Subset, TextFS_CardinalityType DEF Ranked, Text!IsTop
<1> DEFINE better(x) == {y \in items : Text!Beats(y, x)}
<1>2. \A x \in items : Text!IsFiniteSet(better(x)) /\ Text!Cardinality(better(x)) \in Nat
  BY TextFS_Subset, TextFS_CardinalityType DEF Ranked
<1>3. ASSUME NEW x \in top PROVE Text!Cardinality(better(x)) < k
  <2>1. better(x) \subseteq top \ {x}
    BY <1>1, BeatsOrder DEF Text!IsTop
  <2>2. Text!IsFiniteSet(top \ {x}) /\ Text!Cardinality(top \ {x}) = Text!Cardinality(top) - 1
    BY <1>1, TextFS_RemoveElement
  <2>3. Text!Cardinality(better(x)) <= Text!Cardinality(top \ {x})
    BY <2>1, <2>2, TextFS_Subset
  <2>4. x \in items
    BY <1>1
  <2> QED BY <1>1, <1>2, <2>2, <2>3, <2>4
<1>4. ASSUME NEW x \in items, x \notin top PROVE ~ (Text!Cardinality(better(x)) < k)
  <2>1. Text!Cardinality(top) = k /\ top \subseteq better(x)
    BY <1>1, <1>4 DEF Text!IsTop
  <2>2. Text!Cardinality(top) <= Text!Cardinality(better(x))
    BY <1>2, <2>1, TextFS_Subset
  <2> QED BY <1>2, <2>1, <2>2
<1> QED BY <1>1, <1>3, <1>4 DEF Text!BestOf

-----------------------------------------------------------------------------
(* Two tops merged *)

\* g is what has become of base when the items of each subset of S were pushed.
IsFold(g, base, S) == g = [s \in SUBSET S |-> IF s = {} THEN base ELSE Text!PushTopK(g[s \ {Pick(s)}], Pick(s))]

LEMMA FoldDef ==
  ASSUME NEW base, NEW S
  PROVE  Text!MergeTopK(base, S) = (CHOOSE g : IsFold(g, base, S))[S]
BY Zenon DEF Text!MergeTopK, Text!FoldSet, Text!MapThenFoldSet, IsFold, Pick

LEMMA FoldExists ==
  ASSUME NEW base, NEW S, Text!IsFiniteSet(S)
  PROVE  \E g : IsFold(g, base, S)
<1> DEFINE Small(n) == {s \in SUBSET S : Text!Cardinality(s) <= n}
           Step(g, s) == IF s = {} THEN base ELSE Text!PushTopK(g[s \ {Pick(s)}], Pick(s))
           Bad == {n \in Nat : ~ \E g : g = [s \in Small(n) |-> Step(g, s)]}
<1>1. \A s \in SUBSET S : Text!IsFiniteSet(s) /\ Text!Cardinality(s) \in Nat
  BY TextFS_Subset, TextFS_CardinalityType
<1>2. Bad = {}
  <2> SUFFICES ASSUME Bad # {} PROVE FALSE
    OBVIOUS
  <2>1. PICK n \in Bad : \A m \in Bad : n <= m
    BY LeastElement
  <2>2. n # 0
    <3> SUFFICES ASSUME n = 0 PROVE FALSE
      OBVIOUS
    <3>1. \A s \in Small(0) : s = {}
      BY <1>1, TextFS_EmptySet
    <3>2. [s \in Small(0) |-> base] = [s \in Small(0) |-> Step([t \in Small(0) |-> base], s)]
      BY <3>1
    <3> QED BY <2>1, <3>2
  <2>3. n - 1 \in Nat /\ n - 1 \notin Bad
    <3>1. n \in Nat
      BY <2>1
    <3>2. n - 1 \in Nat /\ ~ (n <= n - 1)
      BY <2>2, <3>1
    <3> HIDE DEF Bad
    <3> QED BY <2>1, <3>2
  <2>4. PICK g : g = [s \in Small(n - 1) |-> Step(g, s)]
    BY <2>3
  <2> DEFINE h == [s \in Small(n) |-> Step(g, s)]
  <2>5. ASSUME NEW s \in Small(n) PROVE Step(g, s) = Step(h, s)
    <3>1. CASE s = {}
      BY <3>1
    <3>2. CASE s # {}
      <4>1. s \ {Pick(s)} \in Small(n - 1) /\ s \ {Pick(s)} \in Small(n)
        BY <1>1, <3>2, PickSmaller
      <4>2. g[s \ {Pick(s)}] = Step(g, s \ {Pick(s)})
        BY <2>4, <4>1
      <4>3. h[s \ {Pick(s)}] = Step(g, s \ {Pick(s)})
        BY <4>1
      <4> QED BY <3>2, <4>2, <4>3
    <3> QED BY <3>1, <3>2
  <2>6. h = [s \in Small(n) |-> Step(h, s)]
    BY <2>5
  <2> QED BY <2>1, <2>6
<1>3. Small(Text!Cardinality(S)) = SUBSET S
  BY <1>1, TextFS_Subset
<1>4. Text!Cardinality(S) \notin Bad /\ Text!Cardinality(S) \in Nat
  BY <1>2, TextFS_CardinalityType
<1> QED BY <1>3, <1>4 DEF IsFold

\* What is kept of items and of S are the best of both.
LEMMA FoldKeeps ==
  ASSUME k \in Nat \ {0}, NEW all, Ranked(all), NEW items \in SUBSET all, NEW top, Text!IsTop(top, items),
         NEW S \in SUBSET all, items \cap S = {}
  PROVE  Text!IsTop(Text!MergeTopK(top, S), items \cup S)
<1>1. Text!IsFiniteSet(S)
  BY TextFS_Subset DEF Ranked
<1>2. PICK g : g = CHOOSE h : IsFold(h, top, S)
  OBVIOUS
<1>3. IsFold(g, top, S)
  BY <1>1, <1>2, FoldExists, Zenon
<1> DEFINE C == {s \in SUBSET S : ~ Text!IsTop(g[s], items \cup s)}
<1>4. C = {}
  <2> SUFFICES ASSUME C # {} PROVE FALSE
    OBVIOUS
  <2>1. \A s \in SUBSET S : Text!IsFiniteSet(s)
    BY <1>1, TextFS_Subset
  <2>2. PICK s \in C : \A t \in C : Text!Cardinality(s) <= Text!Cardinality(t)
    BY <2>1, LeastSet
  <2>3. s # {}
    <3> SUFFICES ASSUME s = {} PROVE FALSE
      OBVIOUS
    <3>1. g[{}] = top /\ items \cup {} = items
      BY <1>3 DEF IsFold
    <3> QED BY <2>2, <3>1
  <2>4. PICK x : x = Pick(s)
    OBVIOUS
  <2>5. x \in s /\ s \ {x} \notin C
    <3>1. Text!IsFiniteSet(s)
      BY <2>1
    <3>2. x \in s /\ Text!Cardinality(s \ {x}) = Text!Cardinality(s) - 1 /\ Text!Cardinality(s) \in Nat
      BY <2>3, <2>4, <3>1, PickSmaller
    <3> HIDE DEF C
    <3> QED BY <2>2, <3>2
  <2>6. PICK piece : piece = items \cup (s \ {x})
    OBVIOUS
  <2>7. Text!IsTop(g[s \ {x}], piece)
    BY <2>5, <2>6
  <2>8. g[s] = Text!PushTopK(g[s \ {x}], x)
    BY <1>3, <2>3, <2>4 DEF IsFold
  <2>9. piece \in SUBSET all /\ x \in all /\ x \notin piece /\ piece \cup {x} = items \cup s
    BY <2>5, <2>6
  <2>10. Text!IsTop(Text!PushTopK(g[s \ {x}], x), piece \cup {x})
    BY <2>7, <2>9, PushKeeps
  <2> QED BY <2>2, <2>8, <2>9, <2>10
<1>5. Text!MergeTopK(top, S) = g[S]
  BY <1>2, FoldDef
<1>6. S \notin C
  BY <1>4
<1> QED BY <1>5, <1>6

\* The best of two sets are those of the best of each.
LEMMA MergeKeeps ==
  ASSUME k \in Nat \ {0}, NEW all, Ranked(all), NEW items \in SUBSET all, NEW top, Text!IsTop(top, items),
         NEW others \in SUBSET all, NEW best, Text!IsTop(best, others), items \cap others = {}
  PROVE  Text!IsTop(Text!MergeTopK(top, best), items \cup others)
<1>1. PICK new : new = Text!MergeTopK(top, best)
  OBVIOUS
<1>2. Text!IsTop(new, items \cup best)
  <2>1. best \in SUBSET all /\ items \cap best = {}
    BY DEF Text!IsTop
  <2> QED BY <1>1, <2>1, FoldKeeps
<1>3. best \subseteq others /\ new \subseteq items \cup best /\ Text!Cardinality(new) <= k
  BY <1>2 DEF Text!IsTop
<1>4. /\ Text!IsFiniteSet(best) /\ Text!Cardinality(best) \in Nat
      /\ Text!IsFiniteSet(new) /\ Text!Cardinality(new) \in Nat
  <2>1. Text!IsFiniteSet(all) /\ best \in SUBSET all /\ new \in SUBSET all
    BY <1>3 DEF Ranked
  <2> QED BY <2>1, TextFS_Subset, TextFS_CardinalityType
<1>5. ASSUME NEW x \in others, x \notin best, NEW y \in new
      PROVE  Text!Cardinality(new) = k /\ Text!Beats(y, x)
  <2>1. Text!Cardinality(best) = k /\ \A z \in best : Text!Beats(z, x)
    BY <1>5 DEF Text!IsTop
  <2>2. Text!Cardinality(new) = k
    <3>1. CASE best \subseteq new
      <4>1. Text!Cardinality(best) <= Text!Cardinality(new)
        BY <1>4, <3>1, TextFS_Subset
      <4> QED BY <1>3, <1>4, <2>1, <4>1
    <3>2. CASE ~ (best \subseteq new)
      BY <1>2, <3>2 DEF Text!IsTop
    <3> QED BY <3>1, <3>2
  <2>3. CASE y \in best
    BY <2>1, <2>2, <2>3
  <2>4. CASE y \notin best
    <3>1. ~ (best \subseteq new)
      <4> SUFFICES ASSUME best \subseteq new PROVE FALSE
        OBVIOUS
      <4>1. best = new
        BY <1>4, <2>1, <2>2, TextFS_Subset
      <4> QED BY <1>5, <2>4, <4>1
    <3>2. PICK z \in best : z \notin new
      BY <3>1
    <3>3. Text!Beats(y, z)
      BY <1>2, <1>5, <3>2 DEF Text!IsTop
    <3>4. Text!Beats(z, x) /\ x \in all /\ y \in all /\ z \in all
      BY <1>3, <1>5, <2>1, <3>2
    <3> QED BY <2>2, <3>3, <3>4, BeatsOrder
  <2> QED BY <2>3, <2>4
<1>6. ASSUME NEW x \in others, x \notin best
      PROVE  Text!Cardinality(new) = k
  <2>1. CASE new = {}
    <3>1. Text!Cardinality(best) = k
      BY <1>6 DEF Text!IsTop
    <3>2. best # {}
      BY <3>1, TextFS_EmptySet
    <3> QED BY <1>2, <2>1, <3>2 DEF Text!IsTop
  <2>2. CASE new # {}
    BY <1>5, <1>6, <2>2
  <2> QED BY <2>1, <2>2
<1>7. ASSUME NEW x \in (items \cup others) \ new
      PROVE  Text!Cardinality(new) = k /\ \A y \in new : Text!Beats(y, x)
  <2>1. CASE x \in items \cup best
    BY <1>2, <1>7, <2>1 DEF Text!IsTop
  <2>2. CASE x \notin items \cup best
    BY <1>5, <1>6, <1>7, <2>2
  <2> QED BY <2>1, <2>2
<1>8. new \subseteq items \cup others
  BY <1>3
<1>9. Text!IsTop(new, items \cup others)
  BY <1>3, <1>7, <1>8 DEF Text!IsTop
<1> QED BY <1>1, <1>9

-----------------------------------------------------------------------------
(* Scores and their bounds *)

LEMMA ImageFinite ==
  ASSUME NEW S, Text!IsFiniteSet(S), NEW f
  PROVE  Text!IsFiniteSet({f[x] : x \in S})
<1> DEFINE T == {f[x] : x \in S}
           g == [x \in S |-> f[x]]
<1>1. g \in Surjection(S, T)
  BY DEF Surjection
<1> QED BY <1>1, TextFS_Surjection

LEMMA DivBound ==
  ASSUME NEW m \in Nat, NEW a \in Nat, NEW l \in Nat, a > 0
  PROVE  (m * a) \div (a + l) \in Nat /\ (m * a) \div (a + l) <= m
<1>1. PICK n : n = m * a
  OBVIOUS
<1>2. PICK b : b = a + l
  OBVIOUS
<1>3. PICK q : q = n \div b
  OBVIOUS
<1>4. n \in Nat /\ b \in Nat /\ b > 0 /\ b >= a
  BY <1>1, <1>2
<1>5. q \in Int /\ b * q <= n
  BY <1>3, <1>4
<1>6. q >= 0
  BY <1>3, <1>4
<1>7. q <= m
  <2> SUFFICES ASSUME q >= m + 1 PROVE FALSE
    BY <1>5
  <2>1. b * q >= b * (m + 1)
    BY <1>4, <1>5
  <2>2. b * (m + 1) = b * m + b
    BY <1>4
  <2>3. b * m >= a * m
    BY <1>4
  <2>4. b * q \in Int /\ b * m \in Int /\ a * m = n
    BY <1>1, <1>4, <1>5
  <2> QED BY <1>4, <1>5, <2>1, <2>2, <2>3, <2>4
<1> QED BY <1>1, <1>2, <1>3, <1>5, <1>6, <1>7

LEMMA IdsAre ==
  ASSUME Text!TextConstants
  PROVE  Text!Ids \subseteq Nat /\ Text!IsFiniteSet(Text!Ids) /\ Text!Cardinality(Text!Ids) \in Nat
<1>1. MaxId \in Int /\ 0 \in Int
  BY DEF Text!TextConstants
<1>2. Text!IsFiniteSet(0 .. MaxId)
  BY <1>1, TextFS_Interval
<1>3. Text!IsFiniteSet(Text!Ids)
  BY <1>2 DEF Text!Ids
<1>4. Text!Cardinality(Text!Ids) \in Nat
  BY <1>3, TextFS_CardinalityType
<1>5. Text!Ids \subseteq Nat
  BY <1>1 DEF Text!Ids
<1> QED BY <1>3, <1>4, <1>5

LEMMA OnFileType ==
  ASSUME Text!TextConstants, NEW lists \in [Terms -> [Text!Ids -> Nat]]
  PROVE  Text!OnFile(lists) \in [Terms -> [Text!Ids -> Nat]]
<1> SUFFICES ASSUME NEW t \in Terms, NEW i \in Text!Ids
             PROVE  Text!SumFunctionOnSet(lists[t],
                        {d \in Text!Listed(lists[t]) : Text!DecodedId(lists[t], d) = i}) \in Nat
  BY DEF Text!OnFile
<1> DEFINE S == {d \in Text!Listed(lists[t]) : Text!DecodedId(lists[t], d) = i}
<1>1. S \subseteq Text!Ids /\ Text!IsFiniteSet(S) /\ \A d \in S : lists[t][d] \in Nat
  BY IdsAre, TextFS_Subset DEF Text!Listed
<1> HIDE DEF S
<1>2. Text!SumFunctionOnSet(lists[t], S) \in Nat
  BY <1>1, SumNat
<1> QED BY <1>2 DEF S

\* What a query finds in its lists.
LEMMA ListsAre ==
  ASSUME Text!TextConstants, Text!QueryInv
  PROVE  /\ tf \in [Terms -> [Text!Ids -> Nat]] /\ query \in [Terms -> Nat] /\ k \in Nat \ {0}
         /\ Text!IsFiniteSet(terms) /\ terms \subseteq Terms
         /\ \A t \in Terms : /\ Text!Posted(t) \subseteq Text!Ids /\ Text!Posted(t) \subseteq Nat
                                /\ Text!IsFiniteSet(Text!Posted(t))
                             /\ \A d \in Text!Posted(t) : tf[t][d] \in Nat /\ tf[t][d] > 0
         /\ Text!Docs \subseteq Text!Ids /\ Text!Docs \subseteq Nat /\ Text!IsFiniteSet(Text!Docs)
<1>1. texts \in [Terms -> [Text!Ids -> Nat]]
  BY DEF Text!QueryInv, Text!TextConstants
<1>2. tf \in [Terms -> [Text!Ids -> Nat]]
  BY <1>1, OnFileType DEF Text!QueryInv
<1>3. query \in [Terms -> Nat] /\ k \in Nat \ {0}
  BY DEF Text!QueryInv, Text!TextConstants
<1>4. Text!IsFiniteSet(terms) /\ terms \subseteq Terms
  BY TextFS_Subset DEF Text!QueryInv, Text!TextConstants
<1>5. ASSUME NEW t \in Terms
      PROVE  /\ Text!Posted(t) \subseteq Text!Ids /\ Text!Posted(t) \subseteq Nat /\ Text!IsFiniteSet(Text!Posted(t))
             /\ \A d \in Text!Posted(t) : tf[t][d] \in Nat /\ tf[t][d] > 0
  <2>1. Text!Posted(t) \subseteq Text!Ids
    BY DEF Text!Posted, Text!Listed
  <2>2. Text!Posted(t) \subseteq Nat /\ Text!IsFiniteSet(Text!Posted(t))
    BY <2>1, IdsAre, TextFS_Subset
  <2> QED BY <1>2, <2>1, <2>2 DEF Text!Posted, Text!Listed
<1>6. Text!Docs \subseteq Text!Ids
  BY <1>4, <1>5 DEF Text!Docs
<1>7. Text!Docs \subseteq Nat /\ Text!IsFiniteSet(Text!Docs)
  BY <1>6, IdsAre, TextFS_Subset
<1> QED BY <1>2, <1>3, <1>4, <1>5, <1>6, <1>7

LEMMA WeightIs ==
  ASSUME Text!TextConstants, Text!QueryInv, NEW t \in Terms
  PROVE  Text!Weight(t) \in Nat
<1>1. Text!IsFiniteSet(Text!Ids) /\ Text!Cardinality(Text!Ids) \in Nat /\ Text!Posted(t) \in SUBSET Text!Ids
  BY IdsAre, ListsAre
<1>2. Text!Cardinality(Text!Posted(t)) <= Text!Cardinality(Text!Ids) /\ Text!Cardinality(Text!Posted(t)) \in Nat
  BY <1>1, TextFS_Subset, TextFS_CardinalityType
<1>3. Text!Idf(t) \in Nat
  BY <1>1, <1>2 DEF Text!Idf, Text!DocFreq
<1> QED BY <1>3, ListsAre DEF Text!Weight

LEMMA TermScoreIs ==
  ASSUME Text!TextConstants, Text!QueryInv, NEW t \in Terms, NEW d \in Text!Posted(t)
  PROVE  /\ Text!TermDocScore(t, d) \in Nat
         /\ medium = "memory" => Text!TermDocScore(t, d) <= Text!Weight(t) * Scale
<1>1. Text!Weight(t) * Scale \in Nat /\ tf[t][d] \in Nat /\ tf[t][d] > 0
  BY WeightIs, ListsAre DEF Text!TextConstants
<1>2. Text!DocLen(d) \in Nat
  <2> DEFINE f == [u \in Terms |-> tf[u][d]]
  <2>1. Text!IsFiniteSet(Terms) /\ \A u \in Terms : f[u] \in Nat
    BY ListsAre DEF Text!TextConstants
  <2>2. Text!SumFunctionOnSet(f, Terms) \in Nat
    BY <2>1, SumNat
  <2> QED BY <2>2 DEF Text!DocLen
<1>3. PICK m \in Nat : m = Text!Weight(t) * Scale
  BY <1>1
<1>4. PICK l \in Nat : l = IF medium = "memory" THEN Text!DocLen(d) ELSE 1
  BY <1>2
<1>5. PICK a \in Nat : a = tf[t][d] /\ a > 0
  BY <1>1
<1>6. Text!TermDocScore(t, d) = (m * a) \div (a + l)
  BY <1>3, <1>4, <1>5 DEF Text!TermDocScore
<1> QED BY <1>3, <1>5, <1>6, DivBound

LEMMA BlockMaxIs ==
  ASSUME Text!TextConstants, Text!QueryInv, NEW t \in Terms, NEW d \in Text!Posted(t)
  PROVE  Text!BlockMax(t, d) \in Nat /\ Text!TermDocScore(t, d) <= Text!BlockMax(t, d)
<1> DEFINE B == Text!Block(tf[t], Text!BlockOf(tf[t], d))
           f == [e \in B |-> Text!TermDocScore(t, e)]
           S == {f[e] : e \in B}
<1>1. B \subseteq Text!Posted(t) /\ d \in B
  BY DEF Text!Block, Text!Posted
<1>2. Text!IsFiniteSet(B) /\ \A e \in B : f[e] \in Nat
  BY <1>1, ListsAre, TextFS_Subset, TermScoreIs
<1>3. Text!IsFiniteSet(S) /\ S \subseteq Nat /\ f[d] \in S
  BY <1>1, <1>2, ImageFinite
<1>4. Text!Max(S) \in S /\ f[d] <= Text!Max(S)
  BY <1>3, MaxIs
<1>5. Text!BlockMax(t, d) = Text!Max(S)
  <2>1. S = {Text!TermDocScore(t, e) : e \in B}
    OBVIOUS
  <2> QED BY <2>1 DEF Text!BlockMax
<1> QED BY <1>1, <1>3, <1>4, <1>5

LEMMA TermMaxIs ==
  ASSUME Text!TextConstants, Text!QueryInv, NEW t \in Terms, Text!Posted(t) # {}
  PROVE  Text!TermMax(t) \in Nat /\ \A d \in Text!Posted(t) : Text!TermDocScore(t, d) <= Text!TermMax(t)
<1>1. CASE medium = "memory"
  BY <1>1, WeightIs, TermScoreIs DEF Text!TermMax, Text!TextConstants
<1>2. CASE medium # "memory"
  <2> DEFINE f == [d \in Text!Posted(t) |-> Text!BlockMax(t, d)]
             S == {f[d] : d \in Text!Posted(t)}
  <2>1. Text!IsFiniteSet(S) /\ S \subseteq Nat /\ S # {}
    <3>1. Text!IsFiniteSet(Text!Posted(t))
      BY ListsAre
    <3>2. \A d \in Text!Posted(t) : f[d] \in Nat
      BY BlockMaxIs
    <3> HIDE DEF f
    <3>3. Text!IsFiniteSet(S)
      BY <3>1, ImageFinite
    <3> QED BY <3>2, <3>3
  <2>2. Text!Max(S) \in S /\ \A x \in S : x <= Text!Max(S)
    BY <2>1, MaxIs
  <2>3. Text!TermMax(t) = Text!Max(S)
    <3>1. S = {Text!BlockMax(t, d) : d \in Text!Posted(t)}
      OBVIOUS
    <3> QED BY <1>2, <3>1 DEF Text!TermMax
  <2>4. ASSUME NEW d \in Text!Posted(t) PROVE Text!TermDocScore(t, d) <= Text!TermMax(t)
    <3>1. Text!BlockMax(t, d) <= Text!Max(S) /\ Text!BlockMax(t, d) \in Nat /\ Text!Max(S) \in Nat
      BY <2>1, <2>2, BlockMaxIs
    <3>2. Text!TermDocScore(t, d) <= Text!BlockMax(t, d) /\ Text!TermDocScore(t, d) \in Nat
      BY BlockMaxIs, TermScoreIs
    <3> HIDE DEF S
    <3> QED BY <2>3, <3>1, <3>2
  <2> QED BY <2>1, <2>2, <2>3, <2>4
<1> QED BY <1>1, <1>2

\* A score is at most the sum of bounds of terms among which are those of the document.
LEMMA ScoreBound ==
  ASSUME Text!TextConstants, Text!QueryInv, NEW d, NEW set \in SUBSET terms, NEW others \in SUBSET Terms, NEW g,
         \A t \in others : g[t] \in Nat,
         \A t \in set : d \in Text!Posted(t) => t \in others /\ Text!TermDocScore(t, d) <= g[t]
  PROVE  Text!Score(d, set) \in Nat /\ Text!Score(d, set) <= Text!SumFunctionOnSet(g, others)
<1> DEFINE f == [t \in Terms |-> Text!TermDocScore(t, d)]
           S == {t \in set : d \in Text!Posted(t)}
<1>1. S \subseteq Terms /\ S \in SUBSET others /\ Text!IsFiniteSet(others) /\ Text!IsFiniteSet(S)
  BY ListsAre, TextFS_Subset DEF Text!TextConstants
<1>2. \A t \in S : f[t] \in Nat /\ f[t] <= g[t]
  BY <1>1, TermScoreIs
<1>3. Text!Score(d, set) = Text!SumFunctionOnSet(f, S)
  BY DEF Text!Score
<1> HIDE DEF f, S
<1> QED BY <1>1, <1>2, <1>3, SumNat, SumMonotone

LEMMA ItemsAre ==
  ASSUME Text!TextConstants, Text!QueryInv
  PROVE  /\ Ranked(Text!Items(Text!Docs)) /\ \A d \in Text!Docs : Text!Item(d).doc = d
            /\ Text!Item(d).score = Text!Score(d, terms) /\ Text!Item(d).score \in Nat
         /\ \A D \in SUBSET Text!Docs : Text!Items(D) \in SUBSET Text!Items(Text!Docs) /\ Ranked(Text!Items(D))
         /\ \A d, e \in Text!Docs : Text!Item(d) = Text!Item(e) => d = e
<1>1. ASSUME NEW d \in Text!Docs
      PROVE  Text!Item(d).doc = d /\ Text!Item(d).score = Text!Score(d, terms) /\ Text!Item(d).score \in Nat
             /\ Text!Item(d) \in [doc : Nat, score : Nat]
  <2> DEFINE f == [t \in Terms |-> Text!TermDocScore(t, d)]
             S == {t \in terms : d \in Text!Posted(t)}
  <2>1. S \subseteq Terms /\ Text!IsFiniteSet(S) /\ \A t \in S : f[t] \in Nat
    BY ListsAre, TextFS_Subset, TermScoreIs
  <2>2. Text!Score(d, terms) = Text!SumFunctionOnSet(f, S)
    BY DEF Text!Score
  <2> HIDE DEF f, S
  <2>3. Text!Score(d, terms) \in Nat
    BY <2>1, <2>2, SumNat
  <2> QED BY <2>3, ListsAre DEF Text!Item
<1>2. ASSUME NEW D \in SUBSET Text!Docs PROVE Text!Items(D) \in SUBSET Text!Items(Text!Docs) /\ Ranked(Text!Items(D))
  <2> DEFINE f == [d \in D |-> Text!Item(d)]
  <2>1. Text!IsFiniteSet(D)
    BY ListsAre, TextFS_Subset
  <2>2. Text!IsFiniteSet({f[d] : d \in D})
    BY <2>1, ImageFinite
  <2>3. {f[d] : d \in D} = Text!Items(D)
    BY DEF Text!Items
  <2>4. Text!Items(D) \in SUBSET Text!Items(Text!Docs)
    BY DEF Text!Items
  <2>5. \A x, y \in Text!Items(D) : x.doc = y.doc => x = y
    BY <1>1 DEF Text!Items
  <2>6. Text!Items(D) \subseteq [doc : Nat, score : Nat]
    BY <1>1 DEF Text!Items
  <2> QED BY <2>2, <2>3, <2>4, <2>5, <2>6 DEF Ranked
<1>3. \A d, e \in Text!Docs : Text!Item(d) = Text!Item(e) => d = e
  BY <1>1
<1> QED BY <1>1, <1>2, <1>3

-----------------------------------------------------------------------------
(* Blocks of a posting list *)

Lower(S, d) == {e \in S : e < d}
Rank(S, d) == Text!Cardinality(Lower(S, d))

LEMMA RankIs ==
  ASSUME NEW S, S \subseteq Nat, Text!IsFiniteSet(S), NEW d \in S
  PROVE  Lower(S, d) \subseteq S /\ Text!IsFiniteSet(Lower(S, d)) /\ Rank(S, d) \in Nat
BY TextFS_Subset, TextFS_CardinalityType DEF Lower, Rank

\* The first of a list comes first; any other comes next to the one before it.
LEMMA Predecessor ==
  ASSUME NEW S, S \subseteq Nat, Text!IsFiniteSet(S), NEW d \in S
  PROVE  /\ Lower(S, d) = {} => Rank(S, d) = 0
         /\ Lower(S, d) # {} => /\ Text!Max(Lower(S, d)) \in S /\ Text!Max(Lower(S, d)) < d
                                /\ Rank(S, d) = Rank(S, Text!Max(Lower(S, d))) + 1
                                /\ \A e \in S : e < d => e <= Text!Max(Lower(S, d))
<1>1. CASE Lower(S, d) = {}
  BY <1>1, TextFS_EmptySet DEF Rank
<1>2. CASE Lower(S, d) # {}
  <2>1. PICK p : p = Text!Max(Lower(S, d))
    OBVIOUS
  <2>2. Lower(S, d) \subseteq Nat /\ Text!IsFiniteSet(Lower(S, d))
    BY RankIs
  <2>3. p \in Lower(S, d) /\ \A e \in Lower(S, d) : e <= p
    BY <1>2, <2>1, <2>2, MaxIs
  <2>4. p \in S /\ p < d /\ \A e \in S : e < d => e <= p
    BY <2>3 DEF Lower
  <2>5. Lower(S, d) = Lower(S, p) \cup {p} /\ p \notin Lower(S, p)
    <3>1. d \in Nat /\ p \in Nat
      BY <2>4
    <3>2. ASSUME NEW e \in S PROVE (e < d <=> e < p \/ e = p) /\ ~ (p < p)
      <4>1. e \in Nat /\ (e < d => e <= p) /\ p < d
        BY <2>4
      <4> QED BY <3>1, <4>1
    <3> QED BY <2>4, <3>2 DEF Lower
  <2>6. Text!IsFiniteSet(Lower(S, p)) /\ Rank(S, p) \in Nat
    BY <2>4, RankIs
  <2>7. Text!Cardinality(Lower(S, p) \cup {p}) = Text!Cardinality(Lower(S, p)) + 1
    BY <2>5, <2>6, TextFS_AddElement
  <2>8. Rank(S, d) = Rank(S, p) + 1
    BY <2>5, <2>7 DEF Rank
  <2> QED BY <1>2, <2>1, <2>4, <2>8
<1> QED BY <1>1, <1>2

LEMMA RankGrows ==
  ASSUME NEW S, S \subseteq Nat, Text!IsFiniteSet(S), NEW d \in S, NEW e \in S, d <= e
  PROVE  Rank(S, d) <= Rank(S, e)
<1>1. ASSUME NEW x \in S, x < d PROVE x < e
  <2>1. x \in Nat /\ d \in Nat /\ e \in Nat
    OBVIOUS
  <2> QED BY <1>1, <2>1
<1>2. Lower(S, d) \subseteq Lower(S, e)
  BY <1>1 DEF Lower
<1>3. Text!IsFiniteSet(Lower(S, e))
  BY RankIs
<1> QED BY <1>2, <1>3, TextFS_Subset DEF Rank

\* Every place up to that of some document is a document's.
LEMMA RankReached ==
  ASSUME NEW S, S \subseteq Nat, Text!IsFiniteSet(S), NEW n \in Nat, NEW d \in S, n <= Rank(S, d)
  PROVE  \E e \in S : Rank(S, e) = n
<1> DEFINE C == {e \in S : n <= Rank(S, e)}
<1>1. PICK e \in C : \A x \in C : e <= x
  <2>1. C \subseteq Nat /\ d \in C
    OBVIOUS
  <2> HIDE DEF C
  <2> QED BY <2>1, LeastElement
<1>2. e \in S /\ n <= Rank(S, e) /\ Rank(S, e) \in Nat
  BY <1>1, RankIs
<1>3. CASE Lower(S, e) = {}
  <2>1. Rank(S, e) = 0
    BY <1>2, <1>3, Predecessor
  <2> QED BY <1>2, <2>1
<1>4. CASE Lower(S, e) # {}
  <2>1. PICK p : p = Text!Max(Lower(S, e))
    OBVIOUS
  <2>2. p \in S /\ p < e /\ Rank(S, e) = Rank(S, p) + 1
    BY <1>2, <1>4, <2>1, Predecessor
  <2>3. p \notin C
    <3>1. ~ (e <= p)
      BY <1>2, <2>2
    <3> HIDE DEF C
    <3> QED BY <1>1, <3>1
  <2>4. Rank(S, p) \in Nat /\ ~ (n <= Rank(S, p))
    BY <2>2, <2>3, RankIs
  <2> QED BY <1>2, <2>2, <2>4
<1> QED BY <1>3, <1>4

LEMMA DivNext ==
  ASSUME NEW n \in Nat, NEW b \in Nat \ {0}
  PROVE  n \div b \in Nat /\ ((n + 1) \div b = n \div b \/ (n + 1) \div b = n \div b + 1)
OBVIOUS

LEMMA DivGrows ==
  ASSUME NEW m \in Nat, NEW n \in Nat, m <= n, NEW b \in Nat \ {0}
  PROVE  m \div b <= n \div b
OBVIOUS

LEMMA DivOfProduct ==
  ASSUME NEW n \in Nat, NEW b \in Nat \ {0}
  PROVE  (n * b) \div b = n
OBVIOUS

LEMMA DivUp ==
  ASSUME NEW n \in Nat, NEW b \in Nat \ {0}
  PROVE  (n + b - 1) \div b \in Nat /\ b * ((n + b - 1) \div b) >= n /\ (n \div b) * b <= n
OBVIOUS

LEMMA BlockOfIs ==
  ASSUME Text!TextConstants, NEW posting \in [Text!Ids -> Nat]
  PROVE  /\ Text!Listed(posting) \subseteq Nat /\ Text!IsFiniteSet(Text!Listed(posting))
            /\ Text!Listed(posting) \subseteq Text!Ids
         /\ BlockSize \in Nat \ {0}
         /\ \A d \in Text!Ids : Text!BlockOf(posting, d) = Rank(Text!Listed(posting), d) \div BlockSize
         /\ \A d \in Text!Listed(posting) : Text!BlockOf(posting, d) \in Nat /\ Rank(Text!Listed(posting), d) \in Nat
         /\ \A d, e \in Text!Listed(posting) : d <= e => Text!BlockOf(posting, d) <= Text!BlockOf(posting, e)
<1>1. Text!Listed(posting) \subseteq Nat /\ Text!IsFiniteSet(Text!Listed(posting))
      /\ Text!Listed(posting) \subseteq Text!Ids
  <2>1. Text!Listed(posting) \subseteq Text!Ids
    BY DEF Text!Listed
  <2> QED BY <2>1, IdsAre, TextFS_Subset
<1>2. BlockSize \in Nat \ {0}
  BY DEF Text!TextConstants
<1>3. \A d \in Text!Ids : Text!BlockOf(posting, d) = Rank(Text!Listed(posting), d) \div BlockSize
  BY DEF Text!BlockOf, Rank, Lower
<1>4. ASSUME NEW d \in Text!Listed(posting)
      PROVE  Text!BlockOf(posting, d) \in Nat /\ Rank(Text!Listed(posting), d) \in Nat
  <2>1. Rank(Text!Listed(posting), d) \in Nat
    BY <1>1, RankIs
  <2> QED BY <1>1, <1>2, <1>3, <2>1, DivNext
<1>5. ASSUME NEW d \in Text!Listed(posting), NEW e \in Text!Listed(posting), d <= e
      PROVE  Text!BlockOf(posting, d) <= Text!BlockOf(posting, e)
  <2>1. Rank(Text!Listed(posting), d) <= Rank(Text!Listed(posting), e)
    BY <1>1, <1>5, RankGrows
  <2>2. Rank(Text!Listed(posting), d) \in Nat /\ Rank(Text!Listed(posting), e) \in Nat
    BY <1>4
  <2>3. Rank(Text!Listed(posting), d) \div BlockSize <= Rank(Text!Listed(posting), e) \div BlockSize
    BY <1>2, <2>1, <2>2, DivGrows
  <2> QED BY <1>1, <1>3, <2>3
<1> QED BY <1>1, <1>2, <1>3, <1>4, <1>5

\* The gap to the document before is what is kept of an id.
LEMMA DeltaIs ==
  ASSUME Text!TextConstants, MaxId < DeltaWidth, NEW posting \in [Text!Ids -> Nat], NEW d \in Text!Listed(posting)
  PROVE  /\ \A e \in Text!Listed(posting) : Text!Delta(posting, e) \in Nat
         /\ Lower(Text!Listed(posting), d) = {} => Text!Delta(posting, d) = d
         /\ Lower(Text!Listed(posting), d) # {} => Text!Delta(posting, d) = d - Text!Max(Lower(Text!Listed(posting), d))
<1>1. ASSUME NEW e \in Text!Listed(posting)
      PROVE  /\ Text!Delta(posting, e) \in Nat
             /\ Lower(Text!Listed(posting), e) = {} => Text!Delta(posting, e) = e
             /\ Lower(Text!Listed(posting), e) # {}
                => Text!Delta(posting, e) = e - Text!Max(Lower(Text!Listed(posting), e))
  <2>1. PICK L : L = Lower(Text!Listed(posting), e)
    OBVIOUS
  <2>2. L \subseteq Nat /\ Text!IsFiniteSet(L) /\ e \in Nat /\ e <= MaxId /\ \A x \in L : x < e
    <3>1. Text!Listed(posting) \subseteq Nat /\ Text!IsFiniteSet(Text!Listed(posting)) /\ e \in Text!Ids
      BY BlockOfIs
    <3>2. L \subseteq Text!Listed(posting) /\ Text!IsFiniteSet(L)
      BY <2>1, <3>1, RankIs
    <3> QED BY <2>1, <3>1, <3>2 DEF Lower, Text!Ids, Text!TextConstants
  <2>3. {0} \cup L \subseteq Nat /\ Text!IsFiniteSet({0} \cup L) /\ {0} \cup L # {}
    <3>1. Text!IsFiniteSet(L \cup {0}) /\ L \cup {0} = {0} \cup L
      BY <2>2, TextFS_AddElement
    <3> QED BY <2>2, <3>1
  <2>4. PICK m : m = Text!Max({0} \cup L)
    OBVIOUS
  <2>5. m \in {0} \cup L /\ \A x \in {0} \cup L : x <= m
    BY <2>3, <2>4, MaxIs
  <2>6. m \in Nat /\ m <= e
    BY <2>2, <2>5
  <2>7. Text!Delta(posting, e) = (e - m) % DeltaWidth
    BY <2>1, <2>4 DEF Text!Delta, Lower
  <2>8. MaxId \in Nat /\ DeltaWidth \in Nat \ {0}
    BY DEF Text!TextConstants
  <2>9. Text!Delta(posting, e) = e - m
    BY <2>2, <2>6, <2>7, <2>8
  <2>10. CASE L = {}
    BY <2>1, <2>2, <2>5, <2>6, <2>9, <2>10
  <2>11. CASE L # {}
    <3>1. Text!Max(L) \in L /\ \A x \in L : x <= Text!Max(L)
      BY <2>2, <2>11, MaxIs
    <3>2. PICK q : q = Text!Max(L)
      OBVIOUS
    <3>3. q \in L /\ q \in Nat /\ q <= m /\ \A x \in L : x <= q
      BY <2>2, <2>5, <3>1, <3>2
    <3>4. m <= q
      BY <2>5, <3>3
    <3>5. Text!Max(L) = m
      BY <2>6, <3>2, <3>3, <3>4
    <3> QED BY <2>1, <2>2, <2>6, <2>9, <2>11, <3>5
  <2> QED BY <2>10, <2>11
<1> QED BY <1>1

\* What is decoded is the document: gaps add up from the start of each block.
LEMMA Decoded ==
  ASSUME Text!TextConstants, MaxId < DeltaWidth, NEW posting \in [Text!Ids -> Nat], NEW d \in Text!Listed(posting)
  PROVE  Text!DecodedId(posting, d) = d
<1> DEFINE S == Text!Listed(posting)
           f == [e \in Text!Ids |-> Text!Delta(posting, e)]
           upTo(x) == {e \in Text!Block(posting, Text!BlockOf(posting, x)) : e <= x}
           C == {x \in S : Text!DecodedId(posting, x) # x}
<1> SUFFICES ASSUME C # {} PROVE FALSE
  OBVIOUS
<1>1. S \subseteq Nat /\ Text!IsFiniteSet(S) /\ S \subseteq Text!Ids
  BY BlockOfIs
<1>2. \A x \in S : f[x] = Text!Delta(posting, x) /\ f[x] \in Nat
  BY <1>1, DeltaIs
<1>3. \A x \in S :
         Text!DecodedId(posting, x) = Text!BlockStart(posting, Text!BlockOf(posting, x))
           + Text!SumFunctionOnSet(f, upTo(x))
  BY DEF Text!DecodedId
<1>4. PICK x \in C : \A y \in C : x <= y
  <2>1. C \subseteq Nat
    BY <1>1
  <2> HIDE DEF C
  <2> QED BY <2>1, LeastElement
<1>5. x \in S /\ Text!DecodedId(posting, x) # x /\ x \in Nat
  BY <1>1, <1>4
<1>6. PICK b \in Nat : b = Text!BlockOf(posting, x)
  BY <1>5, BlockOfIs
<1>7. \A y \in S : Text!BlockOf(posting, y) \in Nat
  BY BlockOfIs
<1> HIDE DEF f
<1>8. ASSUME upTo(x) = {x} PROVE Text!SumFunctionOnSet(f, upTo(x)) = f[x]
  <2>1. Text!IsFiniteSet({}) /\ x \notin {} /\ (\A z \in {} \cup {x} : f[z] \in Nat) /\ {} \cup {x} = {x}
    BY <1>2, <1>5, TextFS_EmptySet
  <2>2. Text!SumFunctionOnSet(f, {} \cup {x}) = f[x] + Text!SumFunctionOnSet(f, {})
    BY <2>1, SumAdd
  <2>3. Text!SumFunctionOnSet(f, {}) = 0 /\ f[x] \in Nat
    BY <1>2, <1>5, SumEmpty
  <2> QED BY <1>8, <2>1, <2>2, <2>3
<1>9. CASE Lower(S, x) = {}
  <2>1. Rank(S, x) = 0 /\ Text!Delta(posting, x) = x
    BY <1>1, <1>5, <1>9, Predecessor, DeltaIs
  <2>2. b = 0
    BY <1>1, <1>5, <1>6, <2>1, BlockOfIs
  <2>3. upTo(x) = {x}
    <3>1. ASSUME NEW e \in S, e <= x PROVE e = x
      <4>1. ~ (e < x)
        BY <1>9 DEF Lower
      <4> QED BY <1>1, <1>5, <3>1, <4>1
    <3>2. x <= x
      BY <1>5
    <3> QED BY <1>5, <3>1, <3>2 DEF Text!Block
  <2>4. Text!BlockStart(posting, b) = 0
    BY <2>2 DEF Text!BlockStart
  <2> QED BY <1>2, <1>3, <1>5, <1>6, <1>8, <2>1, <2>3, <2>4
<1>10. CASE Lower(S, x) # {}
  <2>1. PICK p : p = Text!Max(Lower(S, x))
    OBVIOUS
  <2>2. /\ p \in S /\ p < x /\ Rank(S, x) = Rank(S, p) + 1
        /\ \A e \in S : e < x => e <= p
    BY <1>1, <1>5, <1>10, <2>1, Predecessor
  <2>3. Text!Delta(posting, x) = x - p
    BY <1>5, <1>10, <2>1, DeltaIs
  <2>4. Text!DecodedId(posting, p) = p /\ p \in Nat
    <3>1. p \notin C
      <4>1. ~ (x <= p)
        BY <1>1, <1>5, <2>2
      <4> HIDE DEF C
      <4> QED BY <1>4, <4>1
    <3> QED BY <1>1, <2>2, <3>1
  <2>5. PICK c \in Nat : c = Text!BlockOf(posting, p)
    BY <1>7, <2>2
  <2>6. b = c \/ b = c + 1
    <3>1. Rank(S, p) \in Nat /\ BlockSize \in Nat \ {0}
      BY <2>2, BlockOfIs
    <3>2. b = (Rank(S, p) + 1) \div BlockSize /\ c = Rank(S, p) \div BlockSize
      BY <1>1, <1>5, <1>6, <2>2, <2>5, BlockOfIs
    <3> QED BY <3>1, <3>2, DivNext
  <2>7. CASE b = c
    <3>1. upTo(x) = upTo(p) \cup {x} /\ x \notin upTo(p)
      <4>1. ASSUME NEW e \in S PROVE e <= x <=> e <= p \/ e = x
        <5>1. e \in Nat /\ (e < x => e <= p)
          BY <1>1, <2>2
        <5> QED BY <1>5, <2>2, <2>4, <5>1
      <4>2. ~ (x <= p)
        BY <1>5, <2>2, <2>4
      <4> QED BY <1>5, <1>6, <2>5, <2>7, <4>1, <4>2 DEF Text!Block
    <3>2. upTo(p) \subseteq S /\ Text!IsFiniteSet(upTo(p))
      <4>1. upTo(p) \subseteq S
        BY DEF Text!Block
      <4> QED BY <1>1, <4>1, TextFS_Subset
    <3> HIDE DEF upTo
    <3>3. Text!SumFunctionOnSet(f, upTo(p) \cup {x}) = f[x] + Text!SumFunctionOnSet(f, upTo(p))
      <4>1. \A z \in upTo(p) \cup {x} : f[z] \in Nat
        BY <1>2, <1>5, <3>2
      <4> QED BY <3>1, <3>2, <4>1, SumAdd
    <3>4. PICK s : s = Text!SumFunctionOnSet(f, upTo(p))
      OBVIOUS
    <3>5. s \in Nat
      <4>1. \A z \in upTo(p) : f[z] \in Nat
        BY <1>2, <3>2
      <4> QED BY <3>2, <3>4, <4>1, SumNat
    <3>6. Text!BlockStart(posting, b) + s = p
      BY <1>3, <2>2, <2>4, <2>5, <2>7, <3>4
    <3>7. Text!BlockStart(posting, b) \in Int
      <4>1. CASE b = 0
        BY <4>1 DEF Text!BlockStart
      <4>2. CASE b # 0
        <5>1. PICK q : q = Text!Max(Text!Block(posting, b - 1))
          OBVIOUS
        <5>2. q \in Nat
          <6>1. Text!Block(posting, b - 1) \subseteq Nat /\ Text!IsFiniteSet(Text!Block(posting, b - 1))
            BY <1>1, TextFS_Subset DEF Text!Block
          <6>2. Text!Block(posting, b - 1) # {}
            <7>1. BlockSize \in Nat \ {0} /\ Rank(S, p) \in Nat
              BY <2>2, BlockOfIs
            <7>2. c = Rank(S, p) \div BlockSize
              BY <1>1, <2>2, <2>5, BlockOfIs
            <7>3. (b - 1) * BlockSize \in Nat /\ (b - 1) * BlockSize <= Rank(S, p) /\ b - 1 \in Nat
              BY <1>6, <2>7, <4>2, <7>1, <7>2
            <7>4. PICK e \in S : Rank(S, e) = (b - 1) * BlockSize
              BY <1>1, <2>2, <7>3, RankReached
            <7>5. Text!BlockOf(posting, e) = b - 1
              BY <1>1, <7>1, <7>3, <7>4, BlockOfIs, DivOfProduct
            <7> QED BY <7>4, <7>5 DEF Text!Block
          <6> QED BY <5>1, <6>1, <6>2, MaxIs
        <5> QED BY <4>2, <5>1, <5>2 DEF Text!BlockStart
      <4> QED BY <4>1, <4>2
    <3>8. Text!DecodedId(posting, x) = Text!BlockStart(posting, b) + (f[x] + s)
      BY <1>3, <1>5, <1>6, <3>1, <3>3, <3>4
    <3>9. f[x] = x - p
      BY <1>2, <1>5, <2>3
    <3> QED BY <1>5, <2>4, <3>5, <3>6, <3>7, <3>8, <3>9
  <2>8. CASE b = c + 1
    <3>1. upTo(x) = {x}
      <4>1. ASSUME NEW e \in S, Text!BlockOf(posting, e) = b, e <= x PROVE e = x
        <5>1. SUFFICES ASSUME e # x PROVE FALSE
          OBVIOUS
        <5>2. e <= p
          BY <1>1, <1>5, <2>2, <4>1, <5>1
        <5>3. Text!BlockOf(posting, e) <= c
          BY <2>2, <2>5, <5>2, BlockOfIs
        <5> QED BY <2>5, <2>8, <4>1, <5>3
      <4>2. x <= x
        BY <1>5
      <4> QED BY <1>5, <1>6, <4>1, <4>2 DEF Text!Block
    <3>2. Text!BlockStart(posting, b) = p
      <4>1. PICK B : B = Text!Block(posting, c)
        OBVIOUS
      <4>2. B \subseteq Nat /\ Text!IsFiniteSet(B) /\ p \in B
        BY <1>1, <2>2, <2>5, <4>1, TextFS_Subset DEF Text!Block
      <4>3. Text!Max(B) \in B /\ p <= Text!Max(B)
        BY <4>2, MaxIs
      <4>4. Text!Max(B) <= p
        <5>1. Text!Max(B) \in S /\ Text!BlockOf(posting, Text!Max(B)) = c
          BY <4>1, <4>3 DEF Text!Block
        <5>2. ~ (x <= Text!Max(B))
          <6> SUFFICES ASSUME x <= Text!Max(B) PROVE FALSE
            OBVIOUS
          <6>1. b <= c
            BY <1>5, <1>6, <5>1, BlockOfIs
          <6> QED BY <2>5, <2>8, <6>1
        <5> QED BY <1>1, <1>5, <2>2, <5>1, <5>2
      <4>5. Text!BlockStart(posting, b) = Text!Max(B)
        BY <2>5, <2>8, <4>1 DEF Text!BlockStart
      <4>6. Text!Max(B) \in Nat /\ p \in Nat
        BY <2>4, <4>2, <4>3
      <4>7. Text!Max(B) = p
        BY <4>3, <4>4, <4>6
      <4> QED BY <4>5, <4>7
    <3> QED BY <1>2, <1>3, <1>5, <1>6, <1>8, <2>3, <2>4, <3>1, <3>2
  <2> QED BY <2>6, <2>7, <2>8
<1> QED BY <1>9, <1>10

\* A file gives back the lists it was written from.
LEMMA ReadBack ==
  ASSUME Text!TextConstants, MaxId < DeltaWidth, NEW lists \in [Terms -> [Text!Ids -> Nat]]
  PROVE  Text!OnFile(lists) = lists
<1>1. ASSUME NEW t \in Terms, NEW i \in Text!Ids PROVE Text!OnFile(lists)[t][i] = lists[t][i]
  <2> DEFINE S == {d \in Text!Listed(lists[t]) : Text!DecodedId(lists[t], d) = i}
  <2>1. Text!OnFile(lists)[t][i] = Text!SumFunctionOnSet(lists[t], S)
    BY DEF Text!OnFile
  <2>2. lists[t] \in [Text!Ids -> Nat] /\ lists[t][i] \in Nat
    OBVIOUS
  <2>3. \A d \in Text!Listed(lists[t]) : Text!DecodedId(lists[t], d) = d
    BY <2>2, Decoded
  <2>4. CASE i \in Text!Listed(lists[t])
    <3>1. S = {} \cup {i} /\ i \notin {} /\ Text!IsFiniteSet({}) /\ \A z \in {} \cup {i} : lists[t][z] \in Nat
      BY <2>2, <2>3, <2>4, TextFS_EmptySet
    <3> HIDE DEF S
    <3>2. Text!SumFunctionOnSet(lists[t], {} \cup {i}) = lists[t][i] + Text!SumFunctionOnSet(lists[t], {})
      BY <3>1, SumAdd
    <3>3. Text!SumFunctionOnSet(lists[t], {}) = 0
      BY SumEmpty
    <3> QED BY <2>1, <2>2, <3>1, <3>2, <3>3
  <2>5. CASE i \notin Text!Listed(lists[t])
    <3>1. S = {} /\ lists[t][i] = 0
      BY <2>2, <2>3, <2>5 DEF Text!Listed
    <3> QED BY <2>1, <3>1, SumEmpty
  <2> QED BY <2>4, <2>5
<1>2. Text!OnFile(lists) \in [Terms -> [Text!Ids -> Nat]]
  BY OnFileType
<1>3. ASSUME NEW t \in Terms PROVE Text!OnFile(lists)[t] = lists[t]
  <2>1. Text!OnFile(lists)[t] \in [Text!Ids -> Nat] /\ lists[t] \in [Text!Ids -> Nat]
    BY <1>2
  <2> QED BY <1>1, <2>1
<1> QED BY <1>2, <1>3

-----------------------------------------------------------------------------
(* What the cursors have passed, and what they have not *)

LEMMA CurrentIs ==
  ASSUME Text!TextConstants, Text!QueryInv, NEW t \in Text!Open
  PROVE  /\ t \in terms /\ t \in Terms /\ Text!Current(t) \in Text!Posted(t) /\ at[t] <= Text!Current(t)
            /\ Text!Current(t) \in Text!Rest(t)
         /\ Text!Current(t) \in Nat /\ Text!Current(t) \in Text!Ids
         /\ \A d \in Text!Rest(t) : Text!Current(t) <= d /\ d \in Nat
<1>1. Text!Rest(t) \subseteq Nat /\ Text!Rest(t) # {} /\ Text!Rest(t) \subseteq Text!Posted(t) /\ t \in terms
      /\ t \in Terms
  BY ListsAre DEF Text!Rest, Text!Open
<1>2. Text!Min(Text!Rest(t)) \in Text!Rest(t) /\ \A d \in Text!Rest(t) : Text!Min(Text!Rest(t)) <= d
  BY <1>1, MinIs
<1>3. at[t] <= Text!Min(Text!Rest(t)) /\ Text!Min(Text!Rest(t)) \in Text!Posted(t) /\ Text!Posted(t) \subseteq Text!Ids
  BY <1>1, <1>2, ListsAre DEF Text!Rest
<1> QED BY <1>1, <1>2, <1>3 DEF Text!Current

LEMMA RangeIs ==
  ASSUME Text!SpansInv, Text!Scanning
  PROVE  /\ Text!Lo \in Nat /\ Text!Hi \in Nat /\ Len(spans) \in Nat \ {0}
         /\ Len(spans) = 1 => Text!Hi = Text!Top
         /\ Len(spans) # 1 => Text!Lo <= Text!Hi
         /\ Tail(spans) \in Seq(Nat \X Nat) /\ Len(Tail(spans)) = Len(spans) - 1
         /\ \A i \in 1 .. Len(spans) - 1 : Tail(spans)[i] = spans[i + 1]
<1>1. spans \in Seq(Nat \X Nat) /\ spans # <<>>
  BY DEF Text!SpansInv, Text!Scanning
<1>2. Len(spans) \in Nat \ {0} /\ Head(spans) = spans[1] /\ spans[1] \in Nat \X Nat
  BY <1>1
<1>3. Tail(spans) \in Seq(Nat \X Nat) /\ Len(Tail(spans)) = Len(spans) - 1
  BY <1>1
<1>4. \A i \in 1 .. Len(spans) - 1 : Tail(spans)[i] = spans[i + 1]
  BY <1>1
<1>5. Text!Lo \in Nat /\ Text!Hi \in Nat
  BY <1>2 DEF Text!Lo, Text!Hi
<1>6. Len(spans) = 1 => Text!Hi = Text!Top
  BY <1>2 DEF Text!SpansInv, Text!Hi, Text!Scanning
<1>7. Len(spans) # 1 => Text!Lo <= Text!Hi
  <2> SUFFICES ASSUME Len(spans) # 1 PROVE Text!Lo <= Text!Hi
    OBVIOUS
  <2>1. PICK n \in Nat \ {0} : n = Len(spans)
    BY <1>2
  <2>2. 1 \in 1 .. n - 1
    BY <2>1
  <2>3. spans[1][1] <= spans[1][2]
    BY <2>1, <2>2 DEF Text!SpansInv
  <2> QED BY <1>2, <2>3 DEF Text!Lo, Text!Hi
<1> QED BY <1>2, <1>3, <1>4, <1>5, <1>6, <1>7

\* A document of the range that no cursor has passed lies ahead of all of its terms.
LEMMA Ahead ==
  ASSUME Text!TextConstants, Text!QueryInv, NEW d \in Text!Docs, d >= Text!Lo, d \notin Text!Passed, Text!CursorsInv,
         NEW t \in terms, d \in Text!Posted(t)
  PROVE  d \in Text!Rest(t) /\ t \in Text!Open /\ Text!Current(t) <= d
<1>1. d \in Nat /\ at[t] \in Nat
  BY ListsAre DEF Text!CursorsInv
<1>2. ~ (d < at[t])
  BY DEF Text!Passed
<1>3. d \in Text!Rest(t) /\ t \in Text!Open
  BY <1>1, <1>2 DEF Text!Rest, Text!Open
<1> QED BY <1>3, CurrentIs

\* A pivot stands on a document that was not passed.
LEMMA PivotIs ==
  ASSUME Text!TextConstants, Text!ScanInv, Text!Scannable
  PROVE  /\ Text!Pivot \in Text!Pivots /\ Text!Pivot \in Nat /\ Text!Pivot \in Text!Docs /\ Text!Pivot >= Text!Lo
            /\ Text!Pivot < Text!Hi /\ Text!Pivot \notin Text!Passed
         /\ \A p \in Text!Pivots : Text!Pivot <= p
          /\ Text!First \in Nat /\ Text!First <= Text!Pivot /\ \A t \in Text!Open : Text!First <= Text!Current(t)
<1> DEFINE Cs == {Text!Current(t) : t \in Text!Open}
<1>1. Cs \subseteq Nat
  BY CurrentIs DEF Text!ScanInv
<1>2. Text!Pivots \subseteq Cs /\ Text!Pivots # {} /\ Text!Pivots \subseteq Nat
  BY <1>1 DEF Text!Pivots, Text!Scannable
<1>3. Text!Pivot \in Text!Pivots /\ \A p \in Text!Pivots : Text!Pivot <= p
  BY <1>2, MinIs DEF Text!Pivot
<1>4. PICK t \in Text!Open : Text!Pivot = Text!Current(t)
  BY <1>2, <1>3
<1>5. Text!Pivot \in Text!Rest(t) /\ Text!Pivot \in Text!Posted(t) /\ t \in terms /\ at[t] <= Text!Pivot
      /\ Text!Pivot \in Text!Ids /\ Text!Pivot \in Nat
  BY <1>4, CurrentIs DEF Text!ScanInv
<1>6. Text!Scanning /\ Text!Lo \in Nat /\ at[t] \in Nat /\ Text!Lo <= at[t]
  <2>1. Text!Scanning /\ t \in Terms /\ Text!CursorsInv
    BY <1>5, ListsAre DEF Text!Scannable, Text!ScanInv
  <2>2. Text!Lo \in Nat
    BY <2>1, RangeIs DEF Text!ScanInv
  <2>3. at[t] \in Nat /\ Text!Lo <= at[t]
    BY <1>5, <2>1 DEF Text!CursorsInv
  <2> QED BY <2>1, <2>2, <2>3
<1>7. Text!Pivot \notin Text!Passed
  <2>1. \A d \in Text!Passed : d < Text!Pivot
    BY <1>5, <1>6 DEF Text!ScanInv, Text!CursorsInv
  <2> QED BY <1>5, <2>1
<1>8. Text!Pivot < Text!Hi
  <2>1. CASE medium = "file"
    BY <2>1 DEF Text!Scannable
  <2>2. CASE medium = "memory"
    <3>1. Text!SpansInv
      BY DEF Text!ScanInv
    <3>2. Len(spans) \in Nat \ {0} /\ (Len(spans) = 1 => Text!Hi = Text!Top)
      BY <1>6, <3>1, RangeIs
    <3>3. Len(spans) = 1
      <4>1. Len(spans) <= 1
        BY <2>2, <3>1 DEF Text!SpansInv
      <4>2. Len(spans) \in Nat \ {0}
        BY <3>2
      <4>3. PICK n : n = Len(spans)
        OBVIOUS
      <4> QED BY <4>1, <4>2, <4>3
    <3>4. Text!Hi = MaxId + 1
      BY <3>2, <3>3 DEF Text!Top
    <3>5. Text!Pivot \in Nat /\ MaxId \in Nat /\ Text!Pivot <= MaxId
      BY <1>5 DEF Text!Ids, Text!TextConstants
    <3> QED BY <3>4, <3>5
  <2> QED BY <2>1, <2>2 DEF Text!ScanInv, Text!QueryInv
<1>9. Text!First \in Cs /\ \A c \in Cs : Text!First <= c
  <2>1. Cs # {}
    BY <1>4
  <2>2. Text!Min(Cs) \in Cs /\ \A c \in Cs : Text!Min(Cs) <= c
    BY <1>1, <2>1, MinIs
  <2> QED BY <2>2 DEF Text!First
<1>10. \A u \in Text!Open : Text!First <= Text!Current(u) /\ Text!Current(u) \in Nat
  BY <1>1, <1>9
<1> HIDE DEF Cs
<1>11. Text!First \in Nat /\ Text!First <= Text!Pivot
  BY <1>1, <1>4, <1>9, <1>10
<1> QED BY <1>3, <1>5, <1>6, <1>7, <1>8, <1>10, <1>11 DEF Text!Docs

\* All of a full heap beat a document that is worse than its threshold.
LEMMA BeatenByAll ==
  ASSUME Text!TextConstants, Text!ScanInv, Text!Scanning, Text!Full, NEW d \in Text!Docs, d \notin Text!Passed,
         \/ Text!Score(d, terms) < Text!Threshold
         \/ Text!Score(d, terms) <= Text!Threshold /\ \A e \in Text!Passed : e < d
  PROVE  Text!Cardinality(heap) = k /\ \A y \in heap : Text!Beats(y, Text!Item(d))
<1>1. heap \subseteq Text!Items(Text!Passed) /\ Text!Cardinality(heap) <= k /\ Text!Passed \subseteq Text!Docs
      /\ k \in Nat \ {0}
  BY ListsAre DEF Text!ScanInv, Text!TopInv, Text!IsTop, Text!Passed, Text!Docs
<1>2. Ranked(Text!Items(Text!Docs)) /\ Text!Items(Text!Passed) \in SUBSET Text!Items(Text!Docs)
      /\ heap \in SUBSET Text!Items(Text!Docs)
  BY <1>1, ItemsAre DEF Text!ScanInv
<1>3. Text!IsFiniteSet(heap) /\ Text!Cardinality(heap) \in Nat
  BY <1>2, TextFS_Subset, TextFS_CardinalityType DEF Ranked
<1>4. Text!Cardinality(heap) = k
  BY <1>1, <1>3 DEF Text!Full
<1>5. heap # {}
  BY <1>1, <1>4, TextFS_EmptySet
<1>6. PICK w : w = Text!Worst(heap)
  OBVIOUS
<1>7. w \in heap /\ \A y \in heap : y = w \/ Text!Beats(y, w)
  BY <1>2, <1>5, <1>6, WorstIs
<1>8. PICK e \in Text!Passed : w = Text!Item(e)
  BY <1>1, <1>7 DEF Text!Items
<1>9. Text!Item(e).doc = e /\ Text!Item(d).doc = d /\ Text!Item(d).score = Text!Score(d, terms)
      /\ Text!Item(d).score \in Nat /\ Text!Item(e).score \in Nat
  BY <1>1, <1>8, ItemsAre DEF Text!ScanInv
<1>10. Text!Beats(w, Text!Item(d))
  BY <1>6, <1>8, <1>9 DEF Text!Beats, Text!Threshold
<1>11. Text!Item(d) \in Text!Items(Text!Docs)
  BY DEF Text!Items
<1>12. ASSUME NEW y \in heap PROVE Text!Beats(y, Text!Item(d))
  BY <1>2, <1>7, <1>10, <1>11, <1>12, BeatsOrder
<1> QED BY <1>4, <1>12

\* A document that was not passed, with no pivot before it, is not among the k best.
LEMMA BeforePivots ==
  ASSUME Text!TextConstants, Text!ScanInv, Text!Scanning, NEW d \in Text!Docs, d >= Text!Lo, d \notin Text!Passed,
         \A p \in Text!Pivots : ~ (p <= d)
  PROVE  Text!Cardinality(heap) = k /\ \A y \in heap : Text!Beats(y, Text!Item(d))
<1> DEFINE upTo == {u \in Text!Open : Text!Current(u) <= d}
           Cs == {Text!Current(u) : u \in upTo}
           g == [u \in Text!Open |-> Text!TermMax(u)]
<1>1. d \in Nat /\ Text!CursorsInv /\ Text!QueryInv /\ Text!IsFiniteSet(Terms) /\ Text!Open \subseteq Terms
      /\ Text!Open \subseteq terms
  BY ListsAre DEF Text!ScanInv, Text!TextConstants, Text!Open
<1>2. PICK t \in terms : d \in Text!Posted(t)
  BY DEF Text!Docs
<1>3. d \in Text!Rest(t) /\ t \in upTo
  BY <1>1, <1>2, Ahead
<1>4. Cs \subseteq Nat /\ Cs # {} /\ Text!IsFiniteSet(Cs)
  <2>1. Text!IsFiniteSet(upTo)
    BY <1>1, TextFS_Subset
  <2>2. \A u \in upTo : Text!Current(u) \in Nat
    BY <1>1, CurrentIs
  <2> DEFINE f == [u \in upTo |-> Text!Current(u)]
  <2>3. Text!IsFiniteSet({f[u] : u \in upTo})
    BY <2>1, ImageFinite
  <2>4. {f[u] : u \in upTo} = Cs
    OBVIOUS
  <2> QED BY <1>3, <2>2, <2>3, <2>4
<1>5. PICK c \in Cs : \A x \in Cs : c >= x
  BY <1>4, GreatestElement
<1>6. c \in {Text!Current(u) : u \in Text!Open} /\ c <= d /\ c \in Nat
  BY <1>4, <1>5
<1>7. upTo = {u \in Text!Open : Text!Current(u) <= c}
  <2>1. ASSUME NEW u \in Text!Open PROVE Text!Current(u) <= d <=> Text!Current(u) <= c
    <3>1. Text!Current(u) \in Nat
      BY <1>1, CurrentIs
    <3>2. CASE Text!Current(u) <= d
      <4>1. Text!Current(u) \in Cs
        BY <3>2
      <4>2. c >= Text!Current(u)
        BY <1>5, <4>1
      <4> QED BY <1>6, <3>1, <3>2, <4>2
    <3>3. CASE ~ (Text!Current(u) <= d)
      BY <1>1, <1>6, <3>1, <3>3
    <3> QED BY <3>2, <3>3
  <2> QED BY <2>1
<1>8. ~ Text!Reaches(Text!BoundUpTo(c))
  BY <1>6 DEF Text!Pivots
<1>9. Text!BoundUpTo(c) = Text!SumFunctionOnSet(g, upTo)
  BY <1>7 DEF Text!BoundUpTo
<1>10. \A u \in upTo : g[u] \in Nat
  <2>1. ASSUME NEW u \in Text!Open PROVE Text!TermMax(u) \in Nat
    <3>1. u \in Terms /\ Text!Posted(u) # {}
      BY <1>1 DEF Text!QueryInv
    <3> QED BY <1>1, <3>1, TermMaxIs
  <2> QED BY <2>1
<1>11. ASSUME NEW u \in terms, d \in Text!Posted(u) PROVE u \in upTo /\ Text!TermDocScore(u, d) <= g[u]
  <2>1. u \in upTo
    BY <1>1, <1>11, Ahead
  <2>2. u \in Terms /\ Text!Posted(u) # {}
    BY <1>1, <1>11 DEF Text!QueryInv
  <2>3. Text!TermDocScore(u, d) <= Text!TermMax(u)
    BY <1>1, <1>11, <2>2, TermMaxIs
  <2> QED BY <2>1, <2>3
<1>12. upTo \in SUBSET Terms /\ terms \in SUBSET terms
  BY <1>1
<1> HIDE DEF upTo, g, Cs
<1>13. Text!Score(d, terms) \in Nat /\ Text!Score(d, terms) <= Text!SumFunctionOnSet(g, upTo)
  BY <1>1, <1>10, <1>11, <1>12, ScoreBound
<1>14. Text!SumFunctionOnSet(g, upTo) \in Nat
  <2>1. Text!IsFiniteSet(upTo)
    BY <1>1, <1>12, TextFS_Subset
  <2> QED BY <1>10, <2>1, SumNat
<1>15. Text!Full /\ Text!Threshold \in Nat
  <2>1. Text!Full
    BY <1>8 DEF Text!Reaches
  <2>2. heap \subseteq Text!Items(Text!Passed) /\ Text!Cardinality(heap) <= k /\ Text!Passed \subseteq Text!Docs
        /\ k \in Nat \ {0}
    BY ListsAre DEF Text!ScanInv, Text!TopInv, Text!IsTop, Text!Passed, Text!Docs
  <2>3. Ranked(Text!Items(Text!Docs)) /\ Text!Items(Text!Passed) \in SUBSET Text!Items(Text!Docs)
    BY <1>1, <2>2, ItemsAre
  <2>4. heap \in SUBSET Text!Items(Text!Docs)
    BY <2>2, <2>3
  <2>5. heap # {}
    <3> SUFFICES ASSUME heap = {} PROVE FALSE
      OBVIOUS
    <3>1. Text!Cardinality(heap) = 0
      BY TextFS_EmptySet
    <3> QED BY <2>1, <2>2, <3>1 DEF Text!Full
  <2>6. Text!Worst(heap) \in heap
    BY <2>3, <2>4, <2>5, WorstIs
  <2>7. Text!Worst(heap).score \in Nat
    BY <2>3, <2>4, <2>6 DEF Ranked
  <2> QED BY <2>1, <2>7 DEF Text!Threshold
<1>16. \A e \in Text!Passed : e < d
  BY <1>2, <1>3 DEF Text!ScanInv, Text!CursorsInv
<1>17. Text!SumFunctionOnSet(g, upTo) <= Text!Threshold
  BY <1>8, <1>9, <1>14, <1>15 DEF Text!Reaches
<1>18. Text!Score(d, terms) <= Text!Threshold
  BY <1>13, <1>14, <1>15, <1>17
<1> QED BY <1>15, <1>16, <1>18, BeatenByAll

-----------------------------------------------------------------------------
(* The steps of a scan *)

\* What a step that changes no query, term or list leaves alone.
LEMMA SameQuery ==
  ASSUME UNCHANGED <<medium, texts, tf, query, k, terms>>
  PROVE  /\ (Text!QueryInv)' = Text!QueryInv /\ (Text!Docs)' = Text!Docs
         /\ \A t : (Text!Posted(t))' = Text!Posted(t)
         /\ \A d : (Text!Item(d))' = Text!Item(d)
         /\ \A x, y : (Text!IsTop(x, y))' = Text!IsTop(x, y)
<1>1. \A t : (Text!Posted(t))' = Text!Posted(t)
  BY DEF Text!Posted
<1>2. \A t : (Text!Weight(t))' = Text!Weight(t)
  BY <1>1 DEF Text!Weight, Text!Idf, Text!DocFreq
<1>3. \A d : (Text!DocLen(d))' = Text!DocLen(d)
  BY DEF Text!DocLen
<1>4. \A t, d : (Text!TermDocScore(t, d))' = Text!TermDocScore(t, d)
  BY <1>2, <1>3 DEF Text!TermDocScore
<1>5. \A d : (Text!Item(d))' = Text!Item(d)
  BY <1>1, <1>4 DEF Text!Item, Text!Score
<1>6. (Text!QueryInv)' = Text!QueryInv /\ (Text!Docs)' = Text!Docs
  BY <1>1 DEF Text!QueryInv, Text!Docs
<1>7. \A x, y : (Text!IsTop(x, y))' = Text!IsTop(x, y)
  BY DEF Text!IsTop
<1> QED BY <1>1, <1>5, <1>6, <1>7

\* Cursors move over the documents before p.
LEMMA Advances ==
  ASSUME Text!TextConstants, Text!ScanInv, Text!Scanning, UNCHANGED <<medium, texts, tf, query, k, terms, spans>>,
         NEW set \in SUBSET Text!Open, NEW p \in Nat, p <= Text!Hi, at' = Text!AdvanceTo(set, p),
         \A t \in Text!Open \ set : \A e \in Text!Rest(t) : e >= p
  PROVE  (Text!CursorsInv)'
         /\ (Text!Passed)' = Text!Passed \cup {d \in Text!Docs : d < p /\ \E t \in set : d \in Text!Rest(t)}
<1>1. at \in [Terms -> Nat] /\ Text!Lo \in Nat /\ Text!Hi \in Nat /\ Text!Open \subseteq terms
      /\ terms \subseteq Terms /\ Text!QueryInv
  BY RangeIs, ListsAre DEF Text!ScanInv, Text!CursorsInv, Text!Open
<1>2. at' \in [Terms -> Nat]
  BY <1>1 DEF Text!AdvanceTo
<1>3. \A t \in Terms : at'[t] = IF t \in set /\ at[t] < p THEN p ELSE at[t]
  BY DEF Text!AdvanceTo
<1>4. Text!Lo' = Text!Lo /\ Text!Hi' = Text!Hi /\ Text!Scanning' = Text!Scanning
  BY DEF Text!Lo, Text!Hi, Text!Scanning
<1>5. \A t : (Text!Posted(t))' = Text!Posted(t)
  BY SameQuery
<1>6. ASSUME NEW t \in terms PROVE Text!Lo <= at'[t] /\ (at'[t] = Text!Lo \/ at'[t] <= Text!Hi)
  <2>1. at[t] \in Nat /\ t \in Terms /\ Text!Lo <= at[t] /\ (at[t] = Text!Lo \/ at[t] <= Text!Hi)
    BY <1>1 DEF Text!ScanInv, Text!CursorsInv
  <2> QED BY <1>1, <1>3, <2>1
<1>7. ASSUME NEW t \in terms, NEW d \in Text!Posted(t)
      PROVE  /\ Text!Lo <= d /\ d < at'[t] <=> (Text!Lo <= d /\ d < at[t]) \/ (t \in set /\ d \in Text!Rest(t) /\ d < p)
             /\ d \in Nat
  <2>1. at[t] \in Nat /\ t \in Terms /\ Text!Lo <= at[t]
    BY <1>1 DEF Text!ScanInv, Text!CursorsInv
  <2>2. d \in Nat
    BY <1>1, <2>1, ListsAre
  <2>3. d \in Text!Rest(t) <=> d >= at[t]
    BY DEF Text!Rest
  <2> QED BY <1>1, <1>3, <2>1, <2>2, <2>3
<1>8. (Text!Passed)' = Text!Passed \cup {d \in Text!Docs : d < p /\ \E t \in set : d \in Text!Rest(t)}
  <2>1. (Text!Passed)' = UNION {{d \in Text!Posted(t) : Text!Lo <= d /\ d < at'[t]} : t \in terms}
    BY <1>4, <1>5 DEF Text!Passed
  <2>2. \A t \in set : t \in terms /\ Text!Rest(t) \subseteq Text!Posted(t)
    BY <1>1 DEF Text!Rest
  <2> QED BY <1>7, <2>1, <2>2 DEF Text!Passed, Text!Docs
<1>9. ASSUME NEW t \in terms, NEW e \in (Text!Rest(t))' PROVE e \in Text!Rest(t) /\ e >= p /\ e \in Nat
  <2>1. at[t] \in Nat /\ at'[t] \in Nat /\ t \in Terms
    BY <1>1, <1>2
  <2>2. e \in Text!Posted(t) /\ e >= at'[t]
    BY <1>5 DEF Text!Rest
  <2>3. e \in Nat
    BY <1>1, <2>1, <2>2, ListsAre
  <2>4. e >= at[t]
    BY <1>3, <2>1, <2>2, <2>3
  <2>5. e \in Text!Rest(t) /\ t \in Text!Open
    BY <2>2, <2>4 DEF Text!Rest, Text!Open
  <2>6. CASE t \in set
    BY <1>3, <2>1, <2>2, <2>3, <2>5, <2>6
  <2>7. CASE t \notin set
    BY <2>3, <2>5, <2>7
  <2> QED BY <2>6, <2>7
<1>10. ASSUME NEW d \in (Text!Passed)', NEW t \in terms, NEW e \in (Text!Rest(t))' PROVE d < e
  <2>1. e \in Text!Rest(t) /\ e >= p /\ e \in Nat
    BY <1>9
  <2>2. CASE d \in Text!Passed
    BY <2>1, <2>2 DEF Text!ScanInv, Text!CursorsInv
  <2>3. CASE d \notin Text!Passed
    <3>1. d < p /\ d \in Text!Docs
      BY <1>8, <2>3
    <3>2. d \in Nat
      BY <1>1, <3>1, ListsAre
    <3> QED BY <2>1, <3>1, <3>2
  <2> QED BY <2>2, <2>3
<1>11. (Text!CursorsInv)'
  BY <1>2, <1>4, <1>6, <1>10 DEF Text!CursorsInv
<1> QED BY <1>8, <1>11

\* A step within a range, and what is the best of what is passed.
LEMMA StepKeeps ==
  ASSUME Text!ScanInv, Text!Scanning, UNCHANGED <<medium, texts, tf, query, k, terms, spans, found>>,
         (Text!CursorsInv)', Text!IsTop(heap', Text!Items((Text!Passed)'))
  PROVE  (Text!ScanInv)'
<1>1. (Text!QueryInv)' /\ (Text!Docs)' = Text!Docs /\ (\A d : (Text!Item(d))' = Text!Item(d))
  BY SameQuery DEF Text!ScanInv
<1>2. Text!Lo' = Text!Lo /\ Text!Scanning'
  BY DEF Text!Lo, Text!Scanning
<1>3. (Text!SpansInv)'
  BY <1>2 DEF Text!ScanInv, Text!SpansInv
<1>4. \A D : (Text!Items(D))' = Text!Items(D)
  BY <1>1 DEF Text!Items
<1>5. (Text!IsTop(heap, Text!Items(Text!Passed)))'
  <2>1. (Text!Items(Text!Passed))' = Text!Items((Text!Passed)')
    BY <1>1 DEF Text!Items
  <2> QED BY <2>1 DEF Text!IsTop
<1>6. (Text!IsTop(found, Text!Items({d \in Text!Docs : d < Text!Lo})))'
  <2>1. Text!IsTop(found, Text!Items({d \in Text!Docs : d < Text!Lo}))
    BY DEF Text!ScanInv, Text!TopInv
  <2>2. (Text!Items({d \in Text!Docs : d < Text!Lo}))' = Text!Items({d \in Text!Docs : d < Text!Lo})
    BY <1>1, <1>2 DEF Text!Items
  <2> QED BY <2>1, <2>2 DEF Text!IsTop
<1>7. (Text!TopInv)'
  BY <1>2, <1>5, <1>6 DEF Text!TopInv
<1> QED BY <1>1, <1>3, <1>7 DEF Text!ScanInv

\* The cursors on the pivot move, and it is passed.
LEMMA PivotPasses ==
  ASSUME Text!TextConstants, Text!ScanInv, Text!Scannable, Text!First = Text!Pivot,
         UNCHANGED <<medium, texts, tf, query, k, terms, spans>>,
         at' = Text!AdvanceTo(Text!Matching, Text!Pivot + 1)
  PROVE  /\ (Text!CursorsInv)' /\ (Text!Passed)' = Text!Passed \cup {Text!Pivot}
         /\ \A t \in terms : Text!Pivot \in Text!Posted(t) => t \in Text!Matching
<1>1. /\ Text!Scanning /\ Text!Pivot \in Nat /\ Text!Pivot \in Text!Docs /\ Text!Pivot >= Text!Lo
         /\ Text!Pivot < Text!Hi /\ Text!Pivot \notin Text!Passed
      /\ \A t \in Text!Open : Text!Pivot <= Text!Current(t)
  BY PivotIs DEF Text!Scannable
<1>2. Text!Matching \in SUBSET Text!Open /\ Text!QueryInv /\ Text!CursorsInv /\ Text!Open \subseteq terms
  BY DEF Text!Matching, Text!ScanInv, Text!Open
<1>3. Text!Pivot + 1 \in Nat /\ Text!Pivot + 1 <= Text!Hi
  <2>1. Text!Hi \in Nat
    BY <1>1, RangeIs DEF Text!ScanInv
  <2> QED BY <1>1, <2>1
<1>4. \A t \in Text!Open : \A e \in Text!Rest(t) : e >= Text!Pivot /\ e \in Nat /\ Text!Current(t) <= e
      /\ Text!Current(t) \in Nat
  <2>1. ASSUME NEW t \in Text!Open, NEW e \in Text!Rest(t)
        PROVE  e >= Text!Pivot /\ e \in Nat /\ Text!Current(t) <= e /\ Text!Current(t) \in Nat
    <3>1. e \in Nat /\ Text!Current(t) \in Nat /\ Text!Current(t) <= e /\ Text!Pivot <= Text!Current(t)
      BY <1>1, <1>2, CurrentIs
    <3> QED BY <1>1, <3>1
  <2> QED BY <2>1
<1>5. \A t \in Text!Open \ Text!Matching : \A e \in Text!Rest(t) : e >= Text!Pivot + 1
  <2>1. ASSUME NEW t \in Text!Open \ Text!Matching, NEW e \in Text!Rest(t) PROVE e >= Text!Pivot + 1
    <3>1. e \in Nat /\ Text!Current(t) <= e /\ Text!Current(t) \in Nat /\ Text!Pivot <= Text!Current(t)
      BY <1>1, <1>4
    <3>2. Text!Current(t) # Text!Pivot
      BY DEF Text!Matching
    <3> QED BY <1>1, <3>1, <3>2
  <2> QED BY <2>1
<1>6. (Text!CursorsInv)'
      /\ (Text!Passed)' = Text!Passed
                            \cup {d \in Text!Docs : d < Text!Pivot + 1 /\ \E t \in Text!Matching : d \in Text!Rest(t)}
  BY <1>1, <1>2, <1>3, <1>5, Advances
<1>7. ASSUME NEW t \in terms, Text!Pivot \in Text!Posted(t) PROVE t \in Text!Matching /\ Text!Pivot \in Text!Rest(t)
  <2>1. Text!Pivot \in Text!Rest(t) /\ t \in Text!Open /\ Text!Current(t) <= Text!Pivot
    BY <1>1, <1>2, <1>7, Ahead
  <2>2. Text!Current(t) = Text!Pivot
    BY <1>1, <1>4, <2>1
  <2> QED BY <2>1, <2>2 DEF Text!Matching
<1>8. ASSUME NEW d \in Text!Docs
      PROVE  (d < Text!Pivot + 1 /\ \E t \in Text!Matching : d \in Text!Rest(t)) <=> d = Text!Pivot
  <2>1. ASSUME NEW t \in Text!Matching, d \in Text!Rest(t), d < Text!Pivot + 1 PROVE d = Text!Pivot
    <3>1. d \in Nat /\ d >= Text!Pivot
      BY <1>2, <1>4, <2>1
    <3> QED BY <1>1, <2>1, <3>1
  <2>2. ASSUME d = Text!Pivot PROVE d < Text!Pivot + 1 /\ \E t \in Text!Matching : d \in Text!Rest(t)
    <3>1. PICK t \in terms : Text!Pivot \in Text!Posted(t)
      BY <1>1 DEF Text!Docs
    <3> QED BY <1>1, <1>7, <2>2, <3>1
  <2> QED BY <2>1, <2>2
<1>9. (Text!Passed)' = Text!Passed \cup {Text!Pivot}
  BY <1>1, <1>6, <1>8
<1> QED BY <1>6, <1>7, <1>9

\* A pivot that is scored has the score of a full scan.
LEMMA ScorePivotKeeps ==
  ASSUME Text!TextConstants, Text!ScanInv, Text!ScorePivot
  PROVE  (Text!ScanInv)'
<1>1. Text!Scannable /\ Text!Scanning /\ Text!First = Text!Pivot
  BY DEF Text!ScorePivot, Text!Scannable
<1>2. UNCHANGED <<medium, texts, tf, query, k, terms, spans, found>>
      /\ at' = Text!AdvanceTo(Text!Matching, Text!Pivot + 1)
  BY DEF Text!ScorePivot
<1>3. (Text!CursorsInv)' /\ (Text!Passed)' = Text!Passed \cup {Text!Pivot}
      /\ \A t \in terms : Text!Pivot \in Text!Posted(t) => t \in Text!Matching
  BY <1>1, <1>2, PivotPasses
<1>4. Text!Pivot \in Text!Docs /\ Text!Pivot \notin Text!Passed /\ Text!Passed \subseteq Text!Docs /\ k \in Nat \ {0}
      /\ Text!QueryInv
  BY <1>1, PivotIs, ListsAre DEF Text!ScanInv, Text!Passed, Text!Docs
<1>5. heap' = Text!PushTopK(heap, Text!Item(Text!Pivot))
  <2>1. Text!Matching \subseteq terms
    BY DEF Text!Matching, Text!Open
  <2>2. {t \in Text!Matching : Text!Pivot \in Text!Posted(t)} = {t \in terms : Text!Pivot \in Text!Posted(t)}
    BY <1>3, <2>1
  <2>3. Text!Score(Text!Pivot, Text!Matching) = Text!Score(Text!Pivot, terms)
    BY <2>2 DEF Text!Score
  <2> QED BY <2>3 DEF Text!ScorePivot, Text!Item
<1>6. PICK all : all = Text!Items(Text!Docs)
  OBVIOUS
<1>7. PICK items : items = Text!Items(Text!Passed)
  OBVIOUS
<1>8. PICK x : x = Text!Item(Text!Pivot)
  OBVIOUS
<1>9. Ranked(all) /\ items \in SUBSET all
  BY <1>4, <1>6, <1>7, ItemsAre
<1>10. x \in all /\ x \notin items /\ Text!Items(Text!Passed \cup {Text!Pivot}) = items \cup {x}
  <2>1. \A d \in Text!Passed : Text!Item(d) # Text!Item(Text!Pivot)
    BY <1>4, ItemsAre
  <2> QED BY <1>4, <1>6, <1>7, <1>8, <2>1 DEF Text!Items
<1>11. Text!IsTop(heap, items)
  BY <1>1, <1>7 DEF Text!ScanInv, Text!TopInv
<1>12. Text!IsTop(Text!PushTopK(heap, x), items \cup {x})
  BY <1>4, <1>9, <1>10, <1>11, PushKeeps
<1>13. Text!IsTop(heap', Text!Items((Text!Passed)'))
  BY <1>3, <1>5, <1>8, <1>10, <1>12
<1> QED BY <1>1, <1>2, <1>3, <1>13, StepKeeps

\* A pivot that is skipped is worse than its bound by the blocks.
LEMMA SkipPivotKeeps ==
  ASSUME Text!TextConstants, Text!ScanInv, Text!SkipPivot
  PROVE  (Text!ScanInv)'
<1>1. Text!Scannable /\ Text!Scanning /\ Text!First = Text!Pivot /\ Text!SkipsBlock
  BY DEF Text!SkipPivot, Text!Scannable
<1>2. UNCHANGED <<medium, texts, tf, query, k, terms, spans, found, heap>>
      /\ at' = Text!AdvanceTo(Text!Matching, Text!Pivot + 1)
  BY DEF Text!SkipPivot
<1>3. (Text!CursorsInv)' /\ (Text!Passed)' = Text!Passed \cup {Text!Pivot}
      /\ \A t \in terms : Text!Pivot \in Text!Posted(t) => t \in Text!Matching
  BY <1>1, <1>2, PivotPasses
<1>4. Text!Pivot \in Text!Docs /\ Text!Pivot \notin Text!Passed /\ Text!Passed \subseteq Text!Docs /\ Text!QueryInv
  BY <1>1, PivotIs DEF Text!ScanInv, Text!Passed, Text!Docs
<1> DEFINE g == [t \in Text!Matching |-> Text!BlockMax(t, Text!Pivot)]
<1>5. Text!Matching \subseteq terms /\ terms \subseteq Terms /\ Text!Matching \in SUBSET Terms /\ terms \in SUBSET terms
  BY <1>4, ListsAre DEF Text!Matching, Text!Open
<1>6. ASSUME NEW t \in Text!Matching PROVE g[t] \in Nat
  <2>1. Text!Pivot \in Text!Posted(t) /\ t \in Terms
    BY <1>4, <1>6, CurrentIs DEF Text!Matching
  <2> QED BY <1>4, <2>1, BlockMaxIs
<1>7. ASSUME NEW t \in terms, Text!Pivot \in Text!Posted(t)
      PROVE  t \in Text!Matching /\ Text!TermDocScore(t, Text!Pivot) <= g[t]
  <2>1. t \in Text!Matching /\ t \in Terms
    BY <1>3, <1>5, <1>7
  <2> QED BY <1>4, <1>7, <2>1, BlockMaxIs
<1>8. Text!SumFunctionOnSet(g, Text!Matching) < Text!Threshold /\ Text!Full
  BY <1>1 DEF Text!SkipsBlock
<1> HIDE DEF g
<1>9. Text!Score(Text!Pivot, terms) \in Nat /\ Text!Score(Text!Pivot, terms) <= Text!SumFunctionOnSet(g, Text!Matching)
  BY <1>4, <1>5, <1>6, <1>7, ScoreBound
<1>10. Text!SumFunctionOnSet(g, Text!Matching) \in Nat
  <2>1. Text!IsFiniteSet(Text!Matching)
    BY <1>4, <1>5, ListsAre, TextFS_Subset
  <2> QED BY <1>6, <2>1, SumNat
<1>11. /\ heap \subseteq Text!Items(Text!Passed) /\ Text!Cardinality(heap) <= k /\ k \in Nat \ {0}
          /\ Ranked(Text!Items(Text!Docs))
       /\ Text!Items(Text!Passed) \in SUBSET Text!Items(Text!Docs)
  BY <1>1, <1>4, ListsAre, ItemsAre DEF Text!ScanInv, Text!TopInv, Text!IsTop
<1>12. Text!Threshold \in Nat
  <2>1. heap \in SUBSET Text!Items(Text!Docs)
    BY <1>11
  <2>2. heap # {}
    <3> SUFFICES ASSUME heap = {} PROVE FALSE
      OBVIOUS
    <3>1. Text!Cardinality(heap) = 0
      BY TextFS_EmptySet
    <3> QED BY <1>8, <1>11, <3>1 DEF Text!Full
  <2>3. Text!Worst(heap) \in heap
    BY <1>11, <2>1, <2>2, WorstIs
  <2> QED BY <1>11, <2>1, <2>3 DEF Ranked, Text!Threshold
<1>13. Text!Score(Text!Pivot, terms) < Text!Threshold
  BY <1>8, <1>9, <1>10, <1>12
<1>14. Text!Cardinality(heap) = k /\ \A y \in heap : Text!Beats(y, Text!Item(Text!Pivot))
  BY <1>1, <1>4, <1>8, <1>13, BeatenByAll
<1>15. Text!IsTop(heap, Text!Items(Text!Passed \cup {Text!Pivot}))
  <2>1. Text!IsTop(heap, Text!Items(Text!Passed))
    BY <1>1 DEF Text!ScanInv, Text!TopInv
  <2>2. Text!Items(Text!Passed \cup {Text!Pivot}) = Text!Items(Text!Passed) \cup {Text!Item(Text!Pivot)}
    BY DEF Text!Items
  <2> QED BY <1>14, <2>1, <2>2, TopGrows
<1>16. Text!IsTop(heap', Text!Items((Text!Passed)'))
  BY <1>2, <1>3, <1>15
<1> QED BY <1>1, <1>2, <1>3, <1>16, StepKeeps

\* What lies before the pivot is worse than the bounds of its terms.
LEMMA MoveToPivotKeeps ==
  ASSUME Text!TextConstants, Text!ScanInv, Text!MoveToPivot
  PROVE  (Text!ScanInv)'
<1>1. Text!Scannable /\ Text!Scanning
  BY DEF Text!MoveToPivot, Text!Scannable
<1>2. UNCHANGED <<medium, texts, tf, query, k, terms, spans, found, heap>>
      /\ at' = Text!AdvanceTo(Text!Open, Text!Pivot)
  BY DEF Text!MoveToPivot
<1>3. Text!Pivot \in Nat /\ Text!Pivot < Text!Hi /\ (\A p \in Text!Pivots : Text!Pivot <= p) /\ Text!Hi \in Nat
      /\ Text!Lo \in Nat /\ Text!CursorsInv
  BY <1>1, PivotIs, RangeIs DEF Text!ScanInv
<1>4. Text!Open \in SUBSET Text!Open /\ Text!Pivot <= Text!Hi
      /\ \A t \in Text!Open \ Text!Open : \A e \in Text!Rest(t) : e >= Text!Pivot
  BY <1>3
<1>5. (Text!CursorsInv)'
      /\ (Text!Passed)' = Text!Passed \cup {d \in Text!Docs : d < Text!Pivot /\ \E t \in Text!Open : d \in Text!Rest(t)}
  BY <1>1, <1>2, <1>3, <1>4, Advances
<1>6. ASSUME NEW d \in Text!Docs, d \notin Text!Passed, d < Text!Pivot, NEW t \in Text!Open, d \in Text!Rest(t)
      PROVE  Text!Cardinality(heap) = k /\ \A y \in heap : Text!Beats(y, Text!Item(d))
  <2>1. d >= at[t] /\ t \in terms /\ t \in Terms /\ d \in Nat
    BY <1>6, ListsAre DEF Text!Rest, Text!Open, Text!ScanInv
  <2>2. at[t] \in Nat /\ Text!Lo <= at[t]
    BY <1>1, <1>3, <2>1 DEF Text!CursorsInv
  <2>3. d >= Text!Lo
    BY <1>3, <2>1, <2>2
  <2>4. \A p \in Text!Pivots : ~ (p <= d)
    <3>1. \A p \in Text!Pivots : p \in Nat
      BY CurrentIs DEF Text!Pivots, Text!ScanInv
    <3> QED BY <1>3, <1>6, <2>1, <3>1
  <2> QED BY <1>1, <1>6, <2>3, <2>4, BeforePivots
<1>7. Text!IsTop(heap, Text!Items((Text!Passed)'))
  <2>1. Text!IsTop(heap, Text!Items(Text!Passed))
    BY <1>1 DEF Text!ScanInv, Text!TopInv
  <2>2. Text!Items(Text!Passed) \subseteq Text!Items((Text!Passed)')
    BY <1>5 DEF Text!Items
  <2>3. ASSUME NEW x \in Text!Items((Text!Passed)') \ Text!Items(Text!Passed)
        PROVE  Text!Cardinality(heap) = k /\ \A y \in heap : Text!Beats(y, x)
    <3>1. PICK d \in (Text!Passed)' : x = Text!Item(d)
      BY DEF Text!Items
    <3>2. d \notin Text!Passed
      BY <3>1 DEF Text!Items
    <3> QED BY <1>5, <1>6, <3>1, <3>2
  <2> QED BY <2>1, <2>2, <2>3, TopGrows
<1>8. Text!IsTop(heap', Text!Items((Text!Passed)'))
  BY <1>2, <1>7
<1> QED BY <1>1, <1>2, <1>5, <1>8, StepKeeps

\* The range is done: what it found is the best of its documents, passed or not.
LEMMA RangeDone ==
  ASSUME Text!TextConstants, Text!ScanInv, Text!Scanning, ~ Text!Scannable
  PROVE  Text!IsTop(heap, Text!Items({d \in Text!Docs : Text!Lo <= d /\ d < Text!Hi}))
<1> DEFINE here == {d \in Text!Docs : Text!Lo <= d /\ d < Text!Hi}
<1>1. Text!QueryInv /\ Text!CursorsInv /\ Text!Lo \in Nat /\ Text!Hi \in Nat /\ terms \subseteq Terms
  BY RangeIs, ListsAre DEF Text!ScanInv
<1>2. Text!Passed \subseteq here
  <2>1. ASSUME NEW t \in terms, NEW d \in Text!Posted(t), Text!Lo <= d, d < at[t] PROVE d \in here
    <3>1. at[t] \in Nat /\ (at[t] = Text!Lo \/ at[t] <= Text!Hi) /\ t \in Terms
      BY <1>1 DEF Text!CursorsInv
    <3>2. d \in Nat /\ d \in Text!Docs
      BY <1>1, <3>1, ListsAre DEF Text!Docs
    <3>3. d < Text!Hi
      BY <1>1, <2>1, <3>1, <3>2
    <3> QED BY <2>1, <3>2, <3>3
  <2> HIDE DEF here
  <2> QED BY <2>1 DEF Text!Passed
<1>3. ASSUME NEW d \in here, d \notin Text!Passed
      PROVE  Text!Cardinality(heap) = k /\ \A y \in heap : Text!Beats(y, Text!Item(d))
  <2>1. d \in Text!Docs /\ d >= Text!Lo /\ d < Text!Hi /\ d \in Nat
    <3>1. d \in Text!Docs /\ Text!Lo <= d /\ d < Text!Hi
      OBVIOUS
    <3>2. d \in Nat
      BY <1>1, <3>1, ListsAre
    <3> QED BY <1>1, <3>1, <3>2
  <2>2. Text!Pivots \subseteq Nat
    BY <1>1, CurrentIs DEF Text!Pivots
  <2>3. \A p \in Text!Pivots : ~ (p <= d)
    <3>1. CASE Text!Pivots = {}
      BY <3>1
    <3>2. CASE Text!Pivots # {}
      <4>1. ~ (Text!Pivot < Text!Hi)
        BY <3>2 DEF Text!Scannable
      <4>2. \A p \in Text!Pivots : Text!Pivot <= p
        BY <2>2, <3>2, MinIs DEF Text!Pivot
      <4>3. Text!Pivot \in Text!Pivots
        BY <2>2, <3>2, MinIs DEF Text!Pivot
      <4> QED BY <1>1, <2>1, <2>2, <4>1, <4>2, <4>3
    <3> QED BY <3>1, <3>2
  <2> QED BY <1>3, <2>1, <2>3, BeforePivots
<1>4. Text!IsTop(heap, Text!Items(Text!Passed))
  BY DEF Text!ScanInv, Text!TopInv
<1>5. Text!Items(Text!Passed) \subseteq Text!Items(here)
  BY <1>2 DEF Text!Items
<1>6. ASSUME NEW x \in Text!Items(here) \ Text!Items(Text!Passed)
      PROVE  Text!Cardinality(heap) = k /\ \A y \in heap : Text!Beats(y, x)
  <2>1. PICK d \in here : x = Text!Item(d)
    BY DEF Text!Items
  <2>2. d \notin Text!Passed
    BY <2>1 DEF Text!Items
  <2> QED BY <1>3, <2>1, <2>2
<1> HIDE DEF here
<1>7. Text!IsTop(heap, Text!Items(here))
  BY <1>4, <1>5, <1>6, TopGrows
<1> QED BY <1>7 DEF here

\* What is kept of a range is merged into what the ranges before it left.
LEMMA Merged ==
  ASSUME Text!TextConstants, Text!ScanInv, Text!Scanning, ~ Text!Scannable
  PROVE  Text!IsTop(Text!MergeTopK(found, heap),
               Text!Items({d \in Text!Docs : d < Text!Lo})
                 \cup Text!Items({d \in Text!Docs : Text!Lo <= d /\ d < Text!Hi}))
<1>1. Text!QueryInv /\ Text!Lo \in Nat /\ Text!Docs \subseteq Nat /\ k \in Nat \ {0}
  BY RangeIs, ListsAre DEF Text!ScanInv
<1> DEFINE before == {d \in Text!Docs : d < Text!Lo}
           here == {d \in Text!Docs : Text!Lo <= d /\ d < Text!Hi}
<1>2. before \in SUBSET Text!Docs /\ here \in SUBSET Text!Docs /\ before \cap here = {}
  <2>1. \A d \in Text!Docs : ~ (d < Text!Lo /\ Text!Lo <= d)
    BY <1>1
  <2> QED BY <2>1
<1>3. Text!IsTop(found, Text!Items(before)) /\ Text!IsTop(heap, Text!Items(here))
  BY RangeDone DEF Text!ScanInv, Text!TopInv
<1> HIDE DEF before, here
<1>4. PICK items : items = Text!Items(before)
  OBVIOUS
<1>5. PICK others : others = Text!Items(here)
  OBVIOUS
<1>6. PICK all : all = Text!Items(Text!Docs)
  OBVIOUS
<1>7. Ranked(all) /\ items \in SUBSET all /\ others \in SUBSET all
  BY <1>1, <1>2, <1>4, <1>5, <1>6, ItemsAre
<1>8. items \cap others = {}
  <2>1. ASSUME NEW d \in before, NEW e \in here, Text!Item(d) = Text!Item(e) PROVE FALSE
    <3>1. d = e
      BY <1>1, <1>2, <2>1, ItemsAre
    <3> QED BY <1>2, <3>1
  <2> QED BY <1>4, <1>5, <2>1 DEF Text!Items
<1>9. Text!IsTop(found, items) /\ Text!IsTop(heap, others)
  BY <1>3, <1>4, <1>5
<1>10. Text!IsTop(Text!MergeTopK(found, heap), items \cup others)
  BY <1>1, <1>7, <1>8, <1>9, MergeKeeps
<1> QED BY <1>4, <1>5, <1>10 DEF before, here

LEMMA EmptyTop ==
  ASSUME k \in Nat
  PROVE  Text!IsTop({}, {})
BY TextFS_EmptySet DEF Text!IsTop

LEMMA EndRangeKeeps ==
  ASSUME Text!TextConstants, Text!ScanInv, Text!EndRange
  PROVE  (Text!ScanInv)'
<1>1. Text!Scanning /\ ~ Text!Scannable
  BY DEF Text!EndRange
<1>2. /\ UNCHANGED <<medium, texts, tf, query, k, terms>> /\ found' = Text!MergeTopK(found, heap) /\ heap' = {}
      /\ spans' = Tail(spans) /\ at' = Text!Start(spans')
  BY DEF Text!EndRange
<1>3. (Text!QueryInv)' /\ (Text!Docs)' = Text!Docs /\ (\A d : (Text!Item(d))' = Text!Item(d))
      /\ (\A t : (Text!Posted(t))' = Text!Posted(t))
  BY <1>2, SameQuery DEF Text!ScanInv
<1>4. Text!QueryInv /\ Text!Docs \subseteq Nat /\ k \in Nat /\ terms \subseteq Terms /\ Text!SpansInv
      /\ Text!Docs \subseteq Text!Ids
  BY ListsAre DEF Text!ScanInv
<1>5. PICK n \in Nat \ {0} : n = Len(spans)
  BY <1>1, <1>4, RangeIs
<1>6. /\ Text!Lo \in Nat /\ Text!Hi \in Nat /\ (n = 1 => Text!Hi = Text!Top) /\ (n # 1 => Text!Lo <= Text!Hi)
      /\ spans' \in Seq(Nat \X Nat) /\ Len(spans') = n - 1
      /\ \A i \in 1 .. n - 1 : spans'[i] = spans[i + 1]
  BY <1>1, <1>2, <1>4, <1>5, RangeIs
<1>7. Text!Scanning' <=> n # 1
  <2>1. Text!Scanning' <=> spans' # <<>>
    BY DEF Text!Scanning
  <2>2. spans' # <<>> <=> Len(spans') # 0
    BY <1>6
  <2> QED BY <1>5, <1>6, <2>1, <2>2
<1>8. (Text!SpansInv)'
  <2>1. medium' = "memory" => Len(spans') <= 1
    BY <1>2, <1>4, <1>5, <1>6 DEF Text!SpansInv
  <2>2. ASSUME NEW i \in 1 .. n - 2
        PROVE  spans'[i][1] <= spans'[i][2] /\ spans'[i][2] = spans'[i + 1][1]
    <3>1. i + 1 \in 1 .. n - 1 /\ i \in 1 .. n - 1
      BY <1>5
    <3>2. spans'[i] = spans[i + 1] /\ spans'[i + 1] = spans[(i + 1) + 1]
      BY <1>6, <3>1
    <3> QED BY <1>4, <1>5, <3>1, <3>2 DEF Text!SpansInv
  <2>3. ASSUME n # 1 PROVE spans'[Len(spans')][2] = Text!Top
    <3>1. n - 1 \in 1 .. n - 1 /\ (n - 1) + 1 = n
      BY <1>5, <2>3
    <3>2. spans'[n - 1] = spans[n]
      BY <1>6, <3>1
    <3>3. spans[n][2] = Text!Top
      BY <1>1, <1>4, <1>5 DEF Text!SpansInv
    <3> QED BY <1>6, <3>2, <3>3
  <2>4. 1 .. Len(spans') - 1 = 1 .. n - 2
    BY <1>5, <1>6
  <2> QED BY <1>6, <1>7, <2>1, <2>2, <2>3, <2>4 DEF Text!SpansInv
<1>9. ASSUME n # 1 PROVE Text!Lo' = Text!Hi /\ at' = [t \in Terms |-> Text!Hi]
  <2>1. 1 \in 1 .. n - 1 /\ 1 + 1 = 2
    BY <1>5, <1>9
  <2>2. spans'[1] = spans[2] /\ spans[1][2] = spans[2][1]
    BY <1>4, <1>5, <1>6, <2>1 DEF Text!SpansInv
  <2>3. Head(spans') = spans'[1] /\ Head(spans) = spans[1] /\ spans' # <<>>
    BY <1>4, <1>6, <1>7, <1>9 DEF Text!Scanning
  <2> QED BY <1>2, <2>2, <2>3 DEF Text!Lo, Text!Hi, Text!Start
<1>10. ASSUME n = 1 PROVE at' = [t \in Terms |-> Text!Top]
  <2>1. spans' = <<>>
    BY <1>7, <1>10 DEF Text!Scanning
  <2> QED BY <1>2, <2>1 DEF Text!Start
<1>11. ASSUME n # 1 PROVE (Text!Passed)' = {}
  <2>1. \A t \in terms : \A d \in Text!Posted(t) : ~ (Text!Lo' <= d /\ d < at'[t])
    <3>1. ASSUME NEW t \in terms, NEW d \in Text!Posted(t) PROVE ~ (Text!Hi <= d /\ d < Text!Hi)
      <4>1. d \in Nat
        BY <1>4, <3>1 DEF Text!Docs
      <4> QED BY <1>6, <4>1
    <3> QED BY <1>4, <1>9, <1>11, <3>1
  <2> QED BY <1>2, <1>3, <2>1 DEF Text!Passed
<1>12. (Text!CursorsInv)'
  <2>1. Text!Top \in Nat
    BY DEF Text!Top, Text!TextConstants
  <2>2. at' \in [Terms -> Nat]
    BY <1>6, <1>9, <1>10, <2>1
  <2>3. ASSUME n # 1, NEW t \in terms PROVE Text!Lo' <= at'[t] /\ at'[t] = Text!Lo'
    BY <1>4, <1>6, <1>9, <2>3
  <2> QED BY <1>2, <1>7, <1>11, <2>2, <2>3 DEF Text!CursorsInv
<1>13. Text!IsTop(found', Text!Items({d \in Text!Docs : d < Text!Lo})
                            \cup Text!Items({d \in Text!Docs : Text!Lo <= d /\ d < Text!Hi}))
  BY <1>1, <1>2, Merged
<1>14. ASSUME n # 1
       PROVE  Text!IsTop(heap', Text!Items((Text!Passed)'))
              /\ Text!IsTop(found', Text!Items({d \in Text!Docs : d < Text!Lo'}))
  <2>1. Text!Items((Text!Passed)') = {}
    BY <1>11, <1>14 DEF Text!Items
  <2>2. \A d \in Text!Docs : d < Text!Lo' <=> d < Text!Lo \/ (Text!Lo <= d /\ d < Text!Hi)
    BY <1>4, <1>6, <1>9, <1>14
  <2>3. Text!Items({d \in Text!Docs : d < Text!Lo'})
          = Text!Items({d \in Text!Docs : d < Text!Lo})
            \cup Text!Items({d \in Text!Docs : Text!Lo <= d /\ d < Text!Hi})
    BY <2>2 DEF Text!Items
  <2> QED BY <1>2, <1>4, <1>13, <2>1, <2>3, EmptyTop
<1>15. ASSUME n = 1 PROVE Text!IsTop(found', Text!Items(Text!Docs))
  <2>1. \A d \in Text!Docs : d < Text!Lo \/ (Text!Lo <= d /\ d < Text!Hi)
    <3>1. ASSUME NEW d \in Text!Docs PROVE d \in Nat /\ d < Text!Top
      BY <1>4 DEF Text!Ids, Text!Top, Text!TextConstants
    <3> QED BY <1>6, <1>15, <3>1
  <2>2. Text!Items(Text!Docs)
          = Text!Items({d \in Text!Docs : d < Text!Lo})
            \cup Text!Items({d \in Text!Docs : Text!Lo <= d /\ d < Text!Hi})
    BY <2>1 DEF Text!Items
  <2> QED BY <1>13, <2>2
<1>16. (Text!TopInv)'
  <2>1. \A D : (Text!Items(D))' = Text!Items(D)
    BY <1>3 DEF Text!Items
  <2>2. ASSUME n # 1
        PROVE  (Text!IsTop(heap, Text!Items(Text!Passed)))'
               /\ (Text!IsTop(found, Text!Items({d \in Text!Docs : d < Text!Lo})))'
    <3>1. (Text!Items(Text!Passed))' = Text!Items((Text!Passed)')
          /\ (Text!Items({d \in Text!Docs : d < Text!Lo}))' = Text!Items({d \in Text!Docs : d < Text!Lo'})
      BY <1>3 DEF Text!Items
    <3>2. k' = k
      BY <1>2
    <3> QED BY <1>14, <2>2, <3>1, <3>2 DEF Text!IsTop
  <2>3. ASSUME n = 1 PROVE (Text!IsTop(found, Text!Items(Text!Docs)))'
    <3>1. (Text!Items(Text!Docs))' = Text!Items(Text!Docs) /\ k' = k
      BY <1>2, <1>3 DEF Text!Items
    <3> QED BY <1>15, <2>3, <3>1 DEF Text!IsTop
  <2> QED BY <1>2, <1>7, <2>2, <2>3 DEF Text!TopInv
<1> QED BY <1>3, <1>8, <1>12, <1>16 DEF Text!ScanInv

-----------------------------------------------------------------------------
(* The ranges a scan is cut into *)

\* Ranges follow each other from a start that no document lies before.
IsCut(parts) ==
  /\ parts \in Seq(Nat \X Nat) /\ Len(parts) \in Nat \ {0}
  /\ \A i \in 1 .. Len(parts) - 1 : parts[i][1] <= parts[i][2] /\ parts[i][2] = parts[i + 1][1]
  /\ parts[Len(parts)][2] = Text!Top /\ \A d \in Text!Docs : parts[1][1] <= d

LEMMA WholeIsCut ==
  ASSUME Text!TextConstants, Text!QueryInv
  PROVE  IsCut(<< <<0, Text!Top>> >>) /\ Len(<< <<0, Text!Top>> >>) = 1
<1>1. Text!Top \in Nat /\ Text!Docs \subseteq Nat
  BY ListsAre DEF Text!Top, Text!TextConstants
<1>2. PICK s : s = << <<0, Text!Top>> >>
  OBVIOUS
<1>3. s \in Seq(Nat \X Nat) /\ Len(s) = 1 /\ s[1] = <<0, Text!Top>>
  BY <1>1, <1>2
<1>4. 1 .. Len(s) - 1 = {}
  BY <1>3
<1>5. s[1][1] = 0 /\ s[Len(s)][2] = Text!Top
  BY <1>3
<1>6. \A d \in Text!Docs : 0 <= d
  BY <1>1
<1>7. IsCut(s)
  BY <1>3, <1>4, <1>5, <1>6 DEF IsCut
<1> QED BY <1>2, <1>3, <1>7

LEMMA RangesAreCut ==
  ASSUME Text!TextConstants, Text!QueryInv, terms # {}, NEW parts \in Nat \ {0}
  PROVE  IsCut(Text!Ranges(parts))
<1>1. Text!Top \in Nat /\ Text!Docs \subseteq Nat /\ Text!IsFiniteSet(Text!Docs) /\ Text!Docs # {}
  <2>1. Text!Top \in Nat
    BY DEF Text!Top, Text!TextConstants
  <2>2. Text!Docs \subseteq Nat /\ Text!IsFiniteSet(Text!Docs)
    BY ListsAre
  <2>3. Text!Docs # {}
    BY DEF Text!Docs, Text!QueryInv
  <2> QED BY <2>1, <2>2, <2>3
<1>2. PICK last : last = Text!Max(UNION {Text!Posted(t) : t \in terms})
  OBVIOUS
<1>3. last \in Nat
  BY <1>1, <1>2, MaxIs DEF Text!Docs
<1>4. PICK span : span = Text!Max({1, last \div parts})
  OBVIOUS
<1>5. span \in Nat
  <2>1. last \div parts \in Nat
    BY <1>3
  <2>2. Text!IsFiniteSet({1}) /\ {1} \cup {last \div parts} = {1, last \div parts}
    BY TextFS_Singleton
  <2>3. Text!IsFiniteSet({1} \cup {last \div parts})
    BY <2>2, TextFS_AddElement
  <2> QED BY <1>4, <2>1, <2>2, <2>3, MaxIs
<1>6. PICK s : s = [w \in 1 .. parts |-> <<(w - 1) * span, IF w = parts THEN Text!Top ELSE w * span>>]
  OBVIOUS
<1>7. Text!Ranges(parts) = s
  BY <1>2, <1>4, <1>6 DEF Text!Ranges
<1>8. ASSUME NEW w \in 1 .. parts
      PROVE  /\ s[w] = <<(w - 1) * span, IF w = parts THEN Text!Top ELSE w * span>>
             /\ (w - 1) * span \in Nat /\ w * span \in Nat /\ (w - 1) * span <= w * span
  <2>1. s[w] = <<(w - 1) * span, IF w = parts THEN Text!Top ELSE w * span>>
    BY <1>6
  <2>2. w \in Nat /\ w - 1 \in Nat
    OBVIOUS
  <2>3. (w - 1) * span \in Nat /\ w * span \in Nat
    BY <1>5, <2>2
  <2>4. w * span = (w - 1) * span + span
    BY <1>5, <2>2
  <2> QED BY <1>5, <2>1, <2>3, <2>4
<1>9. s \in Seq(Nat \X Nat) /\ Len(s) = parts
  <2>1. \A w \in 1 .. parts : <<(w - 1) * span, IF w = parts THEN Text!Top ELSE w * span>> \in Nat \X Nat
    BY <1>1, <1>8
  <2>2. s \in [1 .. parts -> Nat \X Nat]
    BY <1>6, <2>1
  <2> QED BY <1>6, <2>2
<1>10. ASSUME NEW i \in 1 .. parts - 1 PROVE s[i][1] <= s[i][2] /\ s[i][2] = s[i + 1][1]
  <2>1. i \in 1 .. parts /\ i + 1 \in 1 .. parts /\ i # parts /\ (i + 1) - 1 = i
    OBVIOUS
  <2>2. s[i] = <<(i - 1) * span, i * span>> /\ (i - 1) * span <= i * span
    BY <1>8, <2>1
  <2>3. s[i + 1][1] = i * span
    BY <1>8, <2>1
  <2> QED BY <2>2, <2>3
<1>11. s[parts][2] = Text!Top /\ s[1][1] = 0
  <2>1. 1 \in 1 .. parts /\ parts \in 1 .. parts
    OBVIOUS
  <2>2. s[parts][2] = Text!Top
    BY <1>8, <2>1
  <2>3. s[1][1] = (1 - 1) * span
    BY <1>8, <2>1
  <2> QED BY <1>5, <2>2, <2>3
<1>12. \A d \in Text!Docs : 0 <= d
  BY <1>1
<1>13. IsCut(s)
  BY <1>9, <1>10, <1>11, <1>12 DEF IsCut
<1> QED BY <1>7, <1>13

\* No block of a posting list is empty, and blocks are in the order of ids.
LEMMA BlocksAre ==
  ASSUME Text!TextConstants, NEW posting \in [Text!Ids -> Nat], NEW b \in Nat, NEW last \in Text!Listed(posting),
         b <= Text!BlockOf(posting, last)
  PROVE  /\ Text!Min(Text!Block(posting, b)) \in Text!Listed(posting)
            /\ Text!BlockOf(posting, Text!Min(Text!Block(posting, b))) = b
         /\ \A d \in Text!Block(posting, b) : Text!Min(Text!Block(posting, b)) <= d
         /\ b = 0 => \A d \in Text!Listed(posting) : Text!Min(Text!Block(posting, b)) <= d
<1>1. PICK B : B = Text!Block(posting, b)
  OBVIOUS
<1>2. Text!Listed(posting) \subseteq Nat /\ Text!IsFiniteSet(Text!Listed(posting)) /\ BlockSize \in Nat \ {0}
      /\ Text!Listed(posting) \subseteq Text!Ids
  BY BlockOfIs
<1>3. B \subseteq Nat
  BY <1>1, <1>2 DEF Text!Block
<1>4. B # {}
  <2>1. Rank(Text!Listed(posting), last) \in Nat
        /\ Text!BlockOf(posting, last) = Rank(Text!Listed(posting), last) \div BlockSize
    BY <1>2, BlockOfIs
  <2>2. PICK r \in Nat : r = Rank(Text!Listed(posting), last)
    BY <2>1
  <2>3. b * BlockSize \in Nat /\ b * BlockSize <= r
    <3>1. PICK q \in Nat : q = r \div BlockSize
      BY <1>2, DivNext
    <3>2. q * BlockSize <= r /\ b <= q
      BY <1>2, <2>1, <2>2, <3>1, DivUp
    <3>3. b * BlockSize <= q * BlockSize /\ b * BlockSize \in Nat /\ q * BlockSize \in Nat
      BY <1>2, <3>1, <3>2
    <3> QED BY <3>2, <3>3
  <2>4. PICK e \in Text!Listed(posting) : Rank(Text!Listed(posting), e) = b * BlockSize
    BY <1>2, <2>2, <2>3, RankReached
  <2>5. Text!BlockOf(posting, e) = b
    <3>1. Text!BlockOf(posting, e) = (b * BlockSize) \div BlockSize
      BY <1>2, <2>4, BlockOfIs
    <3> QED BY <1>2, <3>1, DivOfProduct
  <2> QED BY <1>1, <2>4, <2>5 DEF Text!Block
<1>5. Text!Min(B) \in B /\ \A d \in B : Text!Min(B) <= d
  BY <1>3, <1>4, MinIs
<1>6. Text!Min(B) \in Text!Listed(posting) /\ Text!BlockOf(posting, Text!Min(B)) = b
  BY <1>1, <1>5 DEF Text!Block
<1>7. ASSUME b = 0, NEW d \in Text!Listed(posting) PROVE Text!Min(B) <= d
  <2>1. PICK e \in Text!Listed(posting) : \A x \in Text!Listed(posting) : e <= x
    BY <1>2, LeastElement
  <2>2. Text!BlockOf(posting, e) <= Text!BlockOf(posting, Text!Min(B)) /\ Text!BlockOf(posting, e) \in Nat
    BY <1>6, <2>1, BlockOfIs
  <2>3. e \in B
    BY <1>1, <1>6, <1>7, <2>2 DEF Text!Block
  <2>4. Text!Min(B) <= e /\ e <= d /\ Text!Min(B) \in Nat /\ e \in Nat /\ d \in Nat
    BY <1>2, <1>3, <1>5, <2>1, <2>3
  <2> QED BY <2>4
<1> QED BY <1>1, <1>5, <1>6, <1>7

LEMMA BlockRangesAreCut ==
  ASSUME Text!TextConstants, Text!QueryInv, Text!Linear, NEW parts \in Nat \ {0}
  PROVE  IsCut(Text!BlockRanges(parts))
<1>1. PICK t : t = CHOOSE u \in terms : TRUE
  OBVIOUS
<1>2. terms = {t} /\ t \in Terms /\ Text!Posted(t) # {}
  <2>1. Text!IsFiniteSet(terms) /\ Text!Cardinality(terms) = 1
    BY ListsAre DEF Text!Linear
  <2>2. terms # {}
    BY <2>1, TextFS_EmptySet
  <2>3. t \in terms
    BY <1>1, <2>2
  <2>4. Text!Cardinality(terms \ {t}) = 0 /\ Text!IsFiniteSet(terms \ {t})
    BY <2>1, <2>3, TextFS_RemoveElement
  <2>5. terms \ {t} = {}
    BY <2>4, TextFS_EmptySet
  <2> QED BY <2>3, <2>5 DEF Text!QueryInv
<1>3. PICK posting : posting = tf[t]
  OBVIOUS
<1>4. posting \in [Text!Ids -> Nat] /\ Text!Posted(t) = Text!Listed(posting) /\ Text!Docs = Text!Listed(posting)
  BY <1>2, <1>3, ListsAre DEF Text!Posted, Text!Docs
<1>5. Text!Listed(posting) \subseteq Nat /\ Text!IsFiniteSet(Text!Listed(posting))
      /\ Text!Listed(posting) \subseteq Text!Ids
  BY <1>4, BlockOfIs
<1>6. PICK last : last = Text!Max(Text!Posted(t))
  OBVIOUS
<1>7. last \in Text!Listed(posting) /\ \A d \in Text!Listed(posting) : d <= last
  BY <1>2, <1>4, <1>5, <1>6, MaxIs
<1>8. PICK blocks \in Nat \ {0} : blocks = 1 + Text!BlockOf(posting, last)
  <2>1. Text!BlockOf(posting, last) \in Nat
    BY <1>4, <1>7, BlockOfIs
  <2> QED BY <2>1
<1>9. PICK each \in Nat : each = (blocks + parts - 1) \div parts /\ parts * each >= blocks
  BY DivUp
<1>10. Text!Top \in Nat /\ \A d \in Text!Listed(posting) : d <= Text!Top
  BY <1>5 DEF Text!Top, Text!Ids, Text!TextConstants
<1> DEFINE from(w) == IF w * each >= blocks THEN Text!Top ELSE Text!Min(Text!Block(posting, w * each))
<1>11. ASSUME NEW b \in Nat, b < blocks
       PROVE  /\ Text!Min(Text!Block(posting, b)) \in Text!Listed(posting)
                 /\ Text!BlockOf(posting, Text!Min(Text!Block(posting, b))) = b
              /\ b = 0 => \A d \in Text!Listed(posting) : Text!Min(Text!Block(posting, b)) <= d
  <2>1. Text!BlockOf(posting, last) \in Nat
    BY <1>4, <1>7, BlockOfIs
  <2>2. b <= Text!BlockOf(posting, last)
    BY <1>8, <1>11, <2>1
  <2> QED BY <1>4, <1>7, <2>2, BlocksAre
<1>12. ASSUME NEW w \in Nat PROVE from(w) \in Nat /\ from(w) <= Text!Top
  <2>1. w * each \in Nat
    OBVIOUS
  <2>2. CASE w * each >= blocks
    BY <1>10, <2>2
  <2>3. CASE ~ (w * each >= blocks)
    <3>1. Text!Min(Text!Block(posting, w * each)) \in Text!Listed(posting)
      BY <1>11, <2>1, <2>3
    <3>2. from(w) = Text!Min(Text!Block(posting, w * each))
      BY <2>3
    <3> HIDE DEF from
    <3> QED BY <1>5, <1>10, <3>1, <3>2
  <2> QED BY <2>2, <2>3
<1>13. ASSUME NEW w \in Nat PROVE from(w) <= from(w + 1)
  <2>1. w * each \in Nat /\ (w + 1) * each \in Nat /\ w * each <= (w + 1) * each
    OBVIOUS
  <2>2. from(w) \in Nat /\ from(w + 1) \in Nat /\ from(w) <= Text!Top
    <3>1. w + 1 \in Nat
      OBVIOUS
    <3> HIDE DEF from
    <3> QED BY <1>12, <3>1
  <2>3. CASE (w + 1) * each >= blocks
    <3>1. from(w + 1) = Text!Top
      BY <2>3
    <3> HIDE DEF from
    <3> QED BY <2>2, <3>1
  <2>4. CASE ~ ((w + 1) * each >= blocks)
    <3>1. PICK b \in Nat : b = w * each
      BY <2>1
    <3>2. PICK c \in Nat : c = (w + 1) * each
      BY <2>1
    <3>3. b <= c /\ c < blocks /\ b < blocks
      BY <2>1, <2>4, <3>1, <3>2
    <3>4. PICK m : m = Text!Min(Text!Block(posting, b))
      OBVIOUS
    <3>5. PICK n : n = Text!Min(Text!Block(posting, c))
      OBVIOUS
    <3>6. m \in Text!Listed(posting) /\ n \in Text!Listed(posting) /\ Text!BlockOf(posting, m) = b
          /\ Text!BlockOf(posting, n) = c
      BY <1>11, <3>3, <3>4, <3>5
    <3>7. from(w) = m /\ from(w + 1) = n
      BY <3>1, <3>2, <3>3, <3>4, <3>5
    <3>8. m <= n
      <4> SUFFICES ASSUME ~ (m <= n) PROVE FALSE
        OBVIOUS
      <4>1. n <= m /\ n # m /\ n \in Nat /\ m \in Nat
        BY <1>5, <3>6
      <4>2. c <= b
        BY <1>4, <3>6, <4>1, BlockOfIs
      <4>3. b = c
        BY <3>3, <4>2
      <4> QED BY <3>4, <3>5, <4>1, <4>3
    <3> HIDE DEF from
    <3> QED BY <3>7, <3>8
  <2> QED BY <2>3, <2>4
<1>14. PICK s : s = [w \in 1 .. parts |-> <<from(w - 1), from(w)>>]
  OBVIOUS
<1>15. Text!BlockRanges(parts) = s
  BY <1>1, <1>3, <1>6, <1>8, <1>9, <1>14 DEF Text!BlockRanges
<1>16. from(0) \in Nat /\ \A d \in Text!Docs : from(0) <= d
  <2>1. 0 * each = 0 /\ ~ (0 >= blocks)
    OBVIOUS
  <2>2. from(0) = Text!Min(Text!Block(posting, 0))
    BY <2>1
  <2>3. \A d \in Text!Listed(posting) : Text!Min(Text!Block(posting, 0)) <= d
    BY <1>11, <2>1
  <2>4. from(0) \in Nat
    BY <1>12
  <2> QED BY <1>4, <2>2, <2>3, <2>4
<1>17. from(parts) = Text!Top
  BY <1>9
<1> HIDE DEF from
<1>18. s \in Seq(Nat \X Nat) /\ Len(s) = parts
  <2>1. ASSUME NEW w \in 1 .. parts PROVE <<from(w - 1), from(w)>> \in Nat \X Nat
    <3>1. w \in Nat /\ w - 1 \in Nat
      OBVIOUS
    <3>2. from(w) \in Nat /\ from(w - 1) \in Nat
      BY <1>12, <3>1
    <3> QED BY <3>2
  <2>2. s \in [1 .. parts -> Nat \X Nat]
    BY <1>14, <2>1
  <2> QED BY <1>14, <2>2
<1>19. ASSUME NEW i \in 1 .. parts - 1 PROVE s[i][1] <= s[i][2] /\ s[i][2] = s[i + 1][1]
  <2>1. i \in 1 .. parts /\ i + 1 \in 1 .. parts /\ (i + 1) - 1 = i /\ i - 1 \in Nat /\ (i - 1) + 1 = i
    OBVIOUS
  <2>2. s[i] = <<from(i - 1), from(i)>> /\ s[i + 1] = <<from((i + 1) - 1), from(i + 1)>>
    BY <1>14, <2>1
  <2>3. from(i - 1) <= from((i - 1) + 1)
    BY <1>13, <2>1
  <2> QED BY <2>1, <2>2, <2>3
<1>20. s[parts][2] = Text!Top /\ s[1][1] = from(0)
  <2>1. 1 \in 1 .. parts /\ parts \in 1 .. parts /\ 1 - 1 = 0
    OBVIOUS
  <2>2. s[parts] = <<from(parts - 1), from(parts)>> /\ s[1] = <<from(1 - 1), from(1)>>
    BY <1>14, <2>1
  <2> QED BY <1>17, <2>1, <2>2
<1>21. IsCut(s)
  BY <1>16, <1>18, <1>19, <1>20 DEF IsCut
<1> QED BY <1>15, <1>21

-----------------------------------------------------------------------------
(* The start of a search *)

LEMMA SearchStarts ==
  ASSUME Text!TextConstants, Text!Init
  PROVE  Text!ScanInv
<1>1. Text!QueryInv
  <2>1. terms \subseteq {t \in Terms : query[t] > 0 /\ Text!Posted(t) # {}}
    BY DEF Text!Init, Text!QueryTerms, Text!Rarest
  <2> QED BY <2>1 DEF Text!Init, Text!QueryInv
<1>2. k \in Nat /\ Text!Docs \subseteq Nat /\ Text!Top \in Nat /\ Workers \in Nat \ {0} /\ terms \subseteq Terms
  BY <1>1, ListsAre DEF Text!Top, Text!TextConstants
<1>3. heap = {} /\ found = {} /\ at = Text!Start(spans)
  BY DEF Text!Init
<1>4. Text!IsTop({}, {})
  BY <1>2, EmptyTop
<1>5. CASE terms = {}
  <2>1. spans = <<>> /\ Text!Docs = {}
    BY <1>5 DEF Text!Init, Text!Docs
  <2>2. Text!SpansInv /\ ~ Text!Scanning
    <3>1. Len(spans) = 0 /\ spans \in Seq(Nat \X Nat) /\ ~ Text!Scanning
      BY <2>1 DEF Text!Scanning
    <3> QED BY <3>1 DEF Text!SpansInv
  <2>3. at = [t \in Terms |-> Text!Top]
    BY <1>3, <2>1 DEF Text!Start
  <2>4. Text!CursorsInv
    BY <1>2, <2>2, <2>3 DEF Text!CursorsInv
  <2>5. Text!TopInv
    <3>1. Text!Items(Text!Docs) = {}
      BY <2>1 DEF Text!Items
    <3> QED BY <1>3, <1>4, <2>2, <3>1 DEF Text!TopInv
  <2> QED BY <1>1, <2>2, <2>4, <2>5 DEF Text!ScanInv
<1>6. CASE terms # {}
  <2>1. PICK parts \in (IF medium = "memory" THEN {1} ELSE {1, Workers}) :
          spans = IF parts = 1 THEN << <<0, Text!Top>> >>
                  ELSE IF Text!Linear THEN Text!BlockRanges(parts) ELSE Text!Ranges(parts)
    BY <1>6 DEF Text!Init
  <2>2. IsCut(spans) /\ (medium = "memory" => Len(spans) <= 1)
    <3>1. CASE parts = 1
      <4>1. spans = << <<0, Text!Top>> >>
        BY <2>1, <3>1
      <4>2. IsCut(spans) /\ Len(spans) = 1
        BY <1>1, <4>1, WholeIsCut
      <4> QED BY <4>2
    <3>2. CASE parts # 1
      <4>1. medium # "memory" /\ parts \in Nat \ {0}
        BY <1>2, <2>1, <3>2
      <4>2. CASE Text!Linear
        BY <1>1, <2>1, <3>2, <4>1, <4>2, BlockRangesAreCut
      <4>3. CASE ~ Text!Linear
        BY <1>1, <1>6, <2>1, <3>2, <4>1, <4>3, RangesAreCut
      <4> QED BY <4>2, <4>3
    <3> QED BY <3>1, <3>2
  <2>3. Text!SpansInv /\ Text!Scanning
    <3>1. spans # <<>>
      <4> SUFFICES ASSUME spans = <<>> PROVE FALSE
        OBVIOUS
      <4>1. Len(spans) = 0
        OBVIOUS
      <4> QED BY <2>2, <4>1 DEF IsCut
    <3> QED BY <2>2, <3>1 DEF Text!SpansInv, IsCut, Text!Scanning
  <2>4. Text!Lo \in Nat /\ \A d \in Text!Docs : Text!Lo <= d
    <3>1. Head(spans) = spans[1]
      BY <2>2, <2>3 DEF IsCut, Text!Scanning
    <3> QED BY <2>2, <2>3, <3>1, RangeIs DEF Text!Lo, IsCut
  <2>5. at = [t \in Terms |-> Text!Lo]
    BY <1>3, <2>3 DEF Text!Start, Text!Scanning, Text!Lo
  <2>6. Text!Passed = {}
    <3>1. ASSUME NEW t \in terms, NEW d \in Text!Posted(t) PROVE ~ (d < at[t])
      <4>1. d \in Text!Docs /\ at[t] = Text!Lo
        BY <1>2, <2>5 DEF Text!Docs
      <4> QED BY <1>2, <2>4, <4>1
    <3> QED BY <3>1 DEF Text!Passed
  <2>7. Text!CursorsInv
    <3>1. at \in [Terms -> Nat]
      BY <2>4, <2>5
    <3>2. \A t \in terms : Text!Lo <= at[t] /\ at[t] = Text!Lo
      BY <1>2, <2>4, <2>5
    <3> QED BY <2>6, <3>1, <3>2 DEF Text!CursorsInv
  <2>8. Text!TopInv
    <3>1. \A d \in Text!Docs : ~ (d < Text!Lo)
      BY <1>2, <2>4
    <3>2. Text!Items(Text!Passed) = {} /\ Text!Items({d \in Text!Docs : d < Text!Lo}) = {}
      BY <2>6, <3>1 DEF Text!Items
    <3> QED BY <1>3, <1>4, <2>3, <3>2 DEF Text!TopInv
  <2> QED BY <1>1, <2>3, <2>7, <2>8 DEF Text!ScanInv
<1> QED BY <1>5, <1>6

LEMMA ScanStep ==
  ASSUME Text!TextConstants, Text!ScanInv, [Text!Next]_(Text!vars)
  PROVE  (Text!ScanInv)'
<1>1. CASE Text!ScorePivot
  BY <1>1, ScorePivotKeeps
<1>2. CASE Text!SkipPivot
  BY <1>2, SkipPivotKeeps
<1>3. CASE Text!MoveToPivot
  BY <1>3, MoveToPivotKeeps
<1>4. CASE Text!EndRange
  BY <1>4, EndRangeKeeps
<1>5. CASE UNCHANGED Text!vars
  <2>1. UNCHANGED <<medium, texts, tf, query, k, terms, spans, found, at, heap>>
    BY <1>5 DEF Text!vars
  <2>2. (Text!QueryInv)' /\ (Text!Docs)' = Text!Docs /\ (\A d : (Text!Item(d))' = Text!Item(d))
        /\ (\A t : (Text!Posted(t))' = Text!Posted(t))
    BY <2>1, SameQuery DEF Text!ScanInv
  <2>3. Text!Lo' = Text!Lo /\ Text!Hi' = Text!Hi /\ Text!Scanning' = Text!Scanning /\ (Text!Passed)' = Text!Passed
        /\ (\A t : (Text!Rest(t))' = Text!Rest(t))
    BY <2>1, <2>2 DEF Text!Lo, Text!Hi, Text!Scanning, Text!Passed, Text!Rest
  <2>4. (Text!SpansInv)'
    BY <2>1, <2>3 DEF Text!ScanInv, Text!SpansInv
  <2>5. (Text!CursorsInv)'
    BY <2>1, <2>3 DEF Text!ScanInv, Text!CursorsInv
  <2>6. (Text!TopInv)'
    <3>1. \A D : (Text!Items(D))' = Text!Items(D)
      BY <2>2 DEF Text!Items
    <3>2. (Text!Items(Text!Passed))' = Text!Items(Text!Passed) /\ (Text!Items(Text!Docs))' = Text!Items(Text!Docs)
          /\ (Text!Items({d \in Text!Docs : d < Text!Lo}))' = Text!Items({d \in Text!Docs : d < Text!Lo})
      BY <2>2, <2>3 DEF Text!Items
    <3> QED BY <2>1, <2>3, <3>2 DEF Text!ScanInv, Text!TopInv, Text!IsTop
  <2> QED BY <2>2, <2>4, <2>5, <2>6 DEF Text!ScanInv
<1> QED BY <1>1, <1>2, <1>3, <1>4, <1>5 DEF Text!Next

\* Lists, cursors and results are of their types, and no result has more than k documents.
LEMMA SearchIsTyped ==
  ASSUME Text!TextConstants, Text!ScanInv
  PROVE  Text!TypeOK
<1>1. tf \in [Terms -> [Text!Ids -> Nat]] /\ Text!Docs \subseteq Text!Ids /\ k \in Nat /\ Text!QueryInv
  BY ListsAre DEF Text!ScanInv
<1>2. at \in [Terms -> Nat]
  BY DEF Text!ScanInv, Text!CursorsInv
<1>3. ASSUME NEW D \in SUBSET Text!Docs, NEW x \in Text!Items(D) PROVE x.doc \in Text!Ids /\ x.score \in Nat
  <2>1. PICK d \in D : x = Text!Item(d)
    BY DEF Text!Items
  <2> QED BY <1>1, <2>1, ItemsAre
<1>4. Text!Passed \in SUBSET Text!Docs /\ {d \in Text!Docs : d < Text!Lo} \in SUBSET Text!Docs
      /\ Text!Docs \in SUBSET Text!Docs
  BY DEF Text!Passed, Text!Docs
<1>5. CASE Text!Scanning
  <2>1. heap \subseteq Text!Items(Text!Passed) /\ found \subseteq Text!Items({d \in Text!Docs : d < Text!Lo})
        /\ Text!Cardinality(heap) <= k /\ Text!Cardinality(found) <= k
    BY <1>5 DEF Text!ScanInv, Text!TopInv, Text!IsTop
  <2>2. \A x \in heap \cup found : x.doc \in Text!Ids /\ x.score \in Nat
    BY <1>3, <1>4, <2>1
  <2> QED BY <1>1, <1>2, <2>1, <2>2 DEF Text!TypeOK
<1>6. CASE ~ Text!Scanning
  <2>1. heap = {} /\ found \subseteq Text!Items(Text!Docs) /\ Text!Cardinality(found) <= k
    BY <1>6 DEF Text!ScanInv, Text!TopInv, Text!IsTop
  <2>2. Text!Cardinality(heap) <= k
    BY <1>1, <2>1, TextFS_EmptySet
  <2>3. \A x \in heap \cup found : x.doc \in Text!Ids /\ x.score \in Nat
    BY <1>3, <1>4, <2>1
  <2> QED BY <1>1, <1>2, <2>1, <2>2, <2>3 DEF Text!TypeOK
<1> QED BY <1>5, <1>6

\* A document that was passed is among the best so far, or all of a full heap beat it.
LEMMA PassedBeaten ==
  ASSUME Text!TextConstants, Text!ScanInv
  PROVE  Text!PassedAreBeaten
<1> SUFFICES ASSUME Text!Scanning, NEW t \in terms, NEW d \in Text!Posted(t), d >= Text!Lo, d < at[t],
                    Text!Item(d) \notin heap
             PROVE  Text!Full /\ Text!Beats(Text!Worst(heap), Text!Item(d))
  BY DEF Text!PassedAreBeaten
<1>1. d \in Text!Docs /\ d \in Nat /\ Text!Lo \in Nat /\ Text!QueryInv /\ k \in Nat \ {0}
      /\ Text!Passed \subseteq Text!Docs
  BY ListsAre, RangeIs DEF Text!ScanInv, Text!Docs, Text!Passed
<1>2. d \in Text!Passed
  BY <1>1 DEF Text!Passed
<1>3. heap \subseteq Text!Items(Text!Passed) /\ Text!Cardinality(heap) = k
      /\ \A y \in heap : Text!Beats(y, Text!Item(d))
  BY <1>2 DEF Text!ScanInv, Text!TopInv, Text!IsTop, Text!Items
<1>4. Ranked(Text!Items(Text!Docs)) /\ Text!Items(Text!Passed) \in SUBSET Text!Items(Text!Docs)
  BY <1>1, ItemsAre
<1>5. heap # {} /\ heap \in SUBSET Text!Items(Text!Docs)
  BY <1>1, <1>3, <1>4, TextFS_EmptySet
<1>6. Text!Worst(heap) \in heap
  BY <1>4, <1>5, WorstIs
<1> QED BY <1>1, <1>3, <1>6 DEF Text!Full

\* The result is the one of a full scan of the lists that were indexed, if no gap
\* between two ids outgrows its field.
LEMMA ScansExactly ==
  ASSUME Text!TextConstants, Text!ScanInv, MaxId < DeltaWidth
  PROVE  Text!ScanExact
<1> SUFFICES ASSUME ~ Text!Scanning
             PROVE  found = Text!BestOf({Text!Item(d) : d \in UNION {Text!Listed(texts[t]) : t \in terms}})
  BY DEF Text!ScanExact
<1>1. Text!QueryInv /\ k \in Nat \ {0} /\ texts \in [Terms -> [Text!Ids -> Nat]]
  BY ListsAre DEF Text!ScanInv, Text!QueryInv, Text!TextConstants
<1>2. tf = texts
  BY <1>1, ReadBack DEF Text!QueryInv
<1>3. {Text!Item(d) : d \in UNION {Text!Listed(texts[t]) : t \in terms}} = Text!Items(Text!Docs)
  BY <1>2 DEF Text!Items, Text!Docs, Text!Posted
<1>4. Text!IsTop(found, Text!Items(Text!Docs)) /\ Ranked(Text!Items(Text!Docs))
  BY <1>1, ItemsAre DEF Text!ScanInv, Text!TopInv
<1>5. PICK items : items = Text!Items(Text!Docs)
  OBVIOUS
<1>6. found = Text!BestOf(items)
  BY <1>1, <1>4, <1>5, TopIsBest
<1> QED BY <1>3, <1>5, <1>6

-----------------------------------------------------------------------------
(* The caches, by the names of their variables.  The sums and finite sets of   *)
(* this instance are those of Text.                                            *)

cacheKind == x1
file == x2
size == x3
cache == x4
recent == x5
changed == x6
USE DEF cacheKind, file, size, cache, recent, changed

LEMMA CachesFinite ==
  ASSUME NEW S
  PROVE  (Caches!IsFiniteSet(S) <=> IsFiniteSet(S)) /\ (Caches!IsFiniteSet(S) <=> Text!IsFiniteSet(S))
<1>1. Caches!IsFiniteSet(S) <=> IsFiniteSet(S)
  BY DEF Caches!IsFiniteSet, IsFiniteSet
<1> QED BY <1>1, TextCounts

LEMMA CachesSums ==
  ASSUME NEW f, NEW S
  PROVE  Caches!SumFunctionOnSet(f, S) = Text!SumFunctionOnSet(f, S)
<1>1. Text!SumFunctionOnSet(f, S) = (CHOOSE g : IsSum(g, f, S))[S]
  BY SumDef
<1>2. Caches!SumFunctionOnSet(f, S) = (CHOOSE g : IsSum(g, f, S))[S]
  BY Zenon DEF Caches!SumFunctionOnSet, Caches!FoldFunctionOnSet, Caches!MapThenFoldSet, IsSum, Pick
<1> QED BY <1>1, <1>2

LEMMA CachesFS_Subset ==
  ASSUME NEW S, Caches!IsFiniteSet(S), NEW T \in SUBSET S
  PROVE  Caches!IsFiniteSet(T)
<1>1. IsFiniteSet(S)
  BY CachesFinite
<1>2. IsFiniteSet(T)
  BY <1>1, FS_Subset
<1> QED BY <1>2, CachesFinite

LEMMA CachesSumEmpty ==
  ASSUME NEW f
  PROVE  Caches!SumFunctionOnSet(f, {}) = 0
BY SumEmpty, CachesSums

LEMMA CachesSumNat ==
  ASSUME NEW f, NEW S, Caches!IsFiniteSet(S), \A x \in S : f[x] \in Nat
  PROVE  Caches!SumFunctionOnSet(f, S) \in Nat
<1>1. Text!IsFiniteSet(S)
  BY CachesFinite
<1>2. Text!SumFunctionOnSet(f, S) \in Nat
  BY <1>1, SumNat
<1> QED BY <1>2, CachesSums

LEMMA CachesSumRemove ==
  ASSUME NEW f, NEW S, Caches!IsFiniteSet(S), \A x \in S : f[x] \in Nat, NEW y \in S
  PROVE  Caches!SumFunctionOnSet(f, S) = f[y] + Caches!SumFunctionOnSet(f, S \ {y})
<1>1. Text!IsFiniteSet(S)
  BY CachesFinite
<1>2. Text!SumFunctionOnSet(f, S) = f[y] + Text!SumFunctionOnSet(f, S \ {y})
  BY <1>1, SumRemove
<1> QED BY <1>2, CachesSums

LEMMA CachesSumAdd ==
  ASSUME NEW f, NEW S, Caches!IsFiniteSet(S), NEW y, y \notin S, \A x \in S \cup {y} : f[x] \in Nat
  PROVE  Caches!SumFunctionOnSet(f, S \cup {y}) = f[y] + Caches!SumFunctionOnSet(f, S)
<1>1. Text!IsFiniteSet(S)
  BY CachesFinite
<1>2. Text!SumFunctionOnSet(f, S \cup {y}) = f[y] + Text!SumFunctionOnSet(f, S)
  BY <1>1, SumAdd
<1> QED BY <1>2, CachesSums

LEMMA CachesSumMonotone ==
  ASSUME NEW f, NEW g, NEW T, Caches!IsFiniteSet(T), NEW S \in SUBSET T,
         \A x \in S : f[x] \in Nat, \A x \in T : g[x] \in Nat, \A x \in S : f[x] <= g[x]
  PROVE  Caches!SumFunctionOnSet(f, S) <= Caches!SumFunctionOnSet(g, T)
<1>1. Text!IsFiniteSet(T)
  BY CachesFinite
<1>2. Text!SumFunctionOnSet(f, S) <= Text!SumFunctionOnSet(g, T)
  BY <1>1, SumMonotone
<1> QED BY <1>2, CachesSums

LEMMA CachesMinIs ==
  ASSUME NEW S, S \subseteq Nat, S # {}
  PROVE  Caches!Min(S) \in S /\ \A x \in S : Caches!Min(S) <= x
<1>1. \E x \in S : \A y \in S : x <= y
  BY LeastElement
<1> QED BY <1>1 DEF Caches!Min

-----------------------------------------------------------------------------
(* What is retained *)

\* g gives what is retained of the first places of s, for up to n of them.
IsKept(g, s, p, n) ==
  g = [i \in 0 .. n |-> IF i = 0 THEN <<>> ELSE IF s[i] = p THEN g[i - 1] ELSE Append(g[i - 1], s[i])]

LEMMA KeptExists ==
  ASSUME NEW s, NEW p, NEW n \in Nat
  PROVE  \E g : IsKept(g, s, p, n)
<1> DEFINE C == {m \in Nat : ~ \E g : IsKept(g, s, p, m)}
<1> SUFFICES ASSUME C # {} PROVE FALSE
  OBVIOUS
<1>1. PICK m \in C : \A l \in C : m <= l
  BY LeastElement
<1>2. m # 0
  <2>1. IsKept([i \in 0 .. 0 |-> <<>>], s, p, 0)
    BY DEF IsKept
  <2> QED BY <1>1, <2>1
<1>3. PICK g : IsKept(g, s, p, m - 1)
  <2>1. m - 1 \in Nat /\ ~ (m <= m - 1)
    BY <1>1, <1>2
  <2>2. m - 1 \notin C
    <3> HIDE DEF C
    <3> QED BY <1>1, <2>1
  <2> QED BY <2>1, <2>2
<1> DEFINE Next2(f, i) == IF i = 0 THEN <<>> ELSE IF s[i] = p THEN f[i - 1] ELSE Append(f[i - 1], s[i])
           h == [i \in 0 .. m |-> Next2(g, i)]
<1>4. \A i \in 0 .. m - 1 : h[i] = g[i] /\ i \in 0 .. m
  <2>1. \A i \in 0 .. m - 1 : g[i] = Next2(g, i)
    BY <1>3 DEF IsKept
  <2>2. m \in Nat \ {0}
    BY <1>1, <1>2
  <2>3. \A i \in 0 .. m - 1 : i \in 0 .. m
    BY <2>2
  <2> HIDE DEF C, Next2
  <2> QED BY <2>1, <2>3
<1>5. \A i \in 0 .. m : h[i] = Next2(h, i)
  <2> SUFFICES ASSUME NEW i \in 0 .. m PROVE Next2(g, i) = Next2(h, i)
    OBVIOUS
  <2>1. CASE i = 0
    BY <2>1
  <2>2. CASE i # 0
    <3>1. i - 1 \in 0 .. m - 1
      BY <1>1, <2>2
    <3>2. h[i - 1] = g[i - 1]
      BY <1>4, <3>1
    <3> QED BY <3>2
  <2> QED BY <2>1, <2>2
<1>6. IsKept(h, s, p, m)
  BY <1>5 DEF IsKept
<1> QED BY <1>1, <1>6

LEMMA RetainDef ==
  ASSUME NEW s, Len(s) \in Nat, NEW p
  PROVE  \E g : IsKept(g, s, p, Len(s)) /\ Caches!Retain(s, p) = g[Len(s)]
<1>1. PICK g : g = CHOOSE f : IsKept(f, s, p, Len(s))
  OBVIOUS
<1>2. IsKept(g, s, p, Len(s))
  BY <1>1, KeptExists
<1>3. Caches!Retain(s, p) = (CHOOSE f : IsKept(f, s, p, Len(s)))[Len(s)]
  BY Zenon DEF Caches!Retain, IsKept
<1> QED BY <1>1, <1>2, <1>3

\* A list of paths, each of them once.
IsList(s) == s \in Seq(Paths) /\ Caches!IsInjective(s)

LEMMA AppendIs ==
  ASSUME NEW s, IsList(s), NEW x \in Paths, x \notin Caches!Range(s)
  PROVE  /\ IsList(Append(s, x)) /\ Caches!Range(Append(s, x)) = Caches!Range(s) \cup {x}
         /\ Append(s, x) # <<>> /\ Append(s, x)[Len(Append(s, x))] = x /\ Len(Append(s, x)) = Len(s) + 1
<1> DEFINE t == Append(s, x)
           n == Len(s)
<1>1. s \in Seq(Paths) /\ n \in Nat /\ t \in Seq(Paths) /\ Len(t) = n + 1 /\ t[n + 1] = x
      /\ \A i \in 1 .. n : t[i] = s[i]
  BY DEF IsList
<1>2. DOMAIN s = 1 .. n /\ DOMAIN t = 1 .. n + 1
  BY <1>1
<1> HIDE DEF n, t
<1>3. \A i \in 1 .. n + 1 : i = n + 1 \/ i \in 1 .. n
  BY <1>1
<1>4. \A i, j \in 1 .. n : s[i] = s[j] => i = j
  BY <1>2 DEF IsList, Caches!IsInjective
<1>5. \A i \in 1 .. n : s[i] # x
  BY <1>2 DEF Caches!Range
<1>6. \A i, j \in DOMAIN t : t[i] = t[j] => i = j
  BY <1>1, <1>2, <1>3, <1>4, <1>5
<1>7. Caches!Range(t) = Caches!Range(s) \cup {x}
  <2>1. Caches!Range(t) \subseteq Caches!Range(s) \cup {x}
    BY <1>1, <1>2, <1>3 DEF Caches!Range
  <2>2. n + 1 \in DOMAIN t /\ \A i \in 1 .. n : i \in DOMAIN t
    BY <1>1, <1>2
  <2>3. Caches!Range(s) \cup {x} \subseteq Caches!Range(t)
    BY <1>1, <1>2, <2>2 DEF Caches!Range
  <2> QED BY <2>1, <2>3
<1>8. t # <<>> /\ t[Len(t)] = x
  BY <1>1
<1>9. Len(t) = Len(s) + 1 /\ IsList(t)
  BY <1>1, <1>6 DEF n, IsList, Caches!IsInjective
<1> QED BY <1>7, <1>8, <1>9 DEF t

LEMMA NoneIsList == IsList(<<>>) /\ Caches!Range(<<>>) = {} /\ Len(<<>>) = 0
BY DEF IsList, Caches!IsInjective, Caches!Range

LEMMA RetainIs ==
  ASSUME NEW s, IsList(s), NEW p
  PROVE  /\ IsList(Caches!Retain(s, p)) /\ Caches!Range(Caches!Retain(s, p)) = Caches!Range(s) \ {p}
         /\ Len(Caches!Retain(s, p)) = IF p \in Caches!Range(s) THEN Len(s) - 1 ELSE Len(s)
         /\ s # <<>> /\ s[Len(s)] # p => Caches!Retain(s, p) # <<>>
            /\ Caches!Retain(s, p)[Len(Caches!Retain(s, p))] = s[Len(s)]
<1> DEFINE n == Len(s)
           before(i) == {s[j] : j \in 1 .. i}
<1>1. n \in Nat /\ DOMAIN s = 1 .. n /\ (\A i \in 1 .. n : s[i] \in Paths) /\ (s # <<>> => n # 0)
  BY DEF IsList
<1>2. PICK g : IsKept(g, s, p, n) /\ Caches!Retain(s, p) = g[n]
  BY <1>1, RetainDef
<1> HIDE DEF n
<1>3. g[0] = <<>> /\ \A i \in 1 .. n : g[i] = IF s[i] = p THEN g[i - 1] ELSE Append(g[i - 1], s[i])
  <2>1. 0 \in 0 .. n /\ \A i \in 1 .. n : i \in 0 .. n /\ i # 0
    BY <1>1
  <2> QED BY <1>2, <2>1 DEF IsKept
<1> DEFINE Good(i) ==
             /\ IsList(g[i]) /\ Caches!Range(g[i]) = before(i) \ {p}
             /\ Len(g[i]) = IF p \in before(i) THEN i - 1 ELSE i
             /\ i # 0 /\ s[i] # p => g[i] # <<>> /\ g[i][Len(g[i])] = s[i]
           C == {i \in 0 .. n : ~ Good(i)}
<1>4. C = {}
  <2> SUFFICES ASSUME C # {} PROVE FALSE
    OBVIOUS
  <2>1. PICK i \in C : \A j \in C : i <= j
    <3>1. C \subseteq Nat
      BY <1>1
    <3> HIDE DEF C
    <3> QED BY <3>1, LeastElement
  <2>2. i # 0
    <3>1. before(0) = {}
      BY <1>1
    <3>2. Good(0)
      BY <1>3, <3>1, NoneIsList
    <3> QED BY <2>1, <3>2
  <2>3. Good(i - 1) /\ i \in 1 .. n /\ i - 1 \in Nat
    <3>1. i - 1 \in 0 .. n /\ ~ (i <= i - 1) /\ i \in 1 .. n /\ i - 1 \in Nat
      BY <1>1, <2>1, <2>2
    <3>2. i - 1 \notin C
      <4> HIDE DEF C
      <4> QED BY <2>1, <3>1
    <3> QED BY <3>1, <3>2
  <2>4. before(i) = before(i - 1) \cup {s[i]} /\ s[i] \notin before(i - 1)
    <3>1. \A j \in 1 .. i : j = i \/ j \in 1 .. i - 1
      BY <1>1, <2>3
    <3>2. i \in 1 .. i /\ \A j \in 1 .. i - 1 : j \in 1 .. i /\ j \in 1 .. n /\ j # i
      BY <1>1, <2>3
    <3>3. \A j \in 1 .. n : s[j] = s[i] => j = i
      BY <1>1, <2>3 DEF IsList, Caches!IsInjective
    <3> QED BY <3>1, <3>2, <3>3
  <2>5. CASE s[i] = p
    <3>1. g[i] = g[i - 1] /\ p \notin before(i - 1) /\ p \in before(i) /\ before(i) \ {p} = before(i - 1) \ {p}
      BY <1>3, <2>3, <2>4, <2>5
    <3>2. Len(g[i]) = i - 1
      BY <2>3, <3>1
    <3> HIDE DEF before
    <3>3. Good(i)
      BY <2>3, <2>5, <3>1, <3>2
    <3> QED BY <2>1, <3>3
  <2>6. CASE s[i] # p
    <3>1. g[i] = Append(g[i - 1], s[i]) /\ s[i] \notin Caches!Range(g[i - 1]) /\ s[i] \in Paths
          /\ (p \in before(i) <=> p \in before(i - 1)) /\ before(i) \ {p} = (before(i - 1) \ {p}) \cup {s[i]}
      BY <1>1, <1>3, <2>3, <2>4, <2>6
    <3> HIDE DEF before
    <3>2. /\ IsList(g[i]) /\ Caches!Range(g[i]) = Caches!Range(g[i - 1]) \cup {s[i]}
          /\ g[i] # <<>> /\ g[i][Len(g[i])] = s[i] /\ Len(g[i]) = Len(g[i - 1]) + 1
      BY <2>3, <3>1, AppendIs
    <3>3. Len(g[i]) = IF p \in before(i) THEN i - 1 ELSE i
      BY <2>3, <3>1, <3>2
    <3>4. Good(i)
      BY <2>3, <3>1, <3>2, <3>3
    <3> QED BY <2>1, <3>4
  <2> QED BY <2>5, <2>6
<1>5. n \in 0 .. n /\ before(n) = Caches!Range(s)
  BY <1>1 DEF Caches!Range
<1>6. Good(n)
  BY <1>4, <1>5
<1> HIDE DEF before
<1>7. n = Len(s) /\ (s # <<>> => n # 0 /\ s[Len(s)] = s[n])
  BY <1>1 DEF n
<1> QED BY <1>2, <1>5, <1>6, <1>7

-----------------------------------------------------------------------------
(* What is used after entries have left *)

\* g gives the bytes used after the first entries have left, for up to n of them.
IsUsed(g, n) ==
  g = [m \in 0 .. n |-> IF m = 0 THEN cache.used ELSE Caches!Less(g[m - 1], Caches!Bytes(cache.order[m]))]

LEMMA UsedExists ==
  ASSUME NEW n \in Nat
  PROVE  \E g : IsUsed(g, n)
<1> DEFINE C == {m \in Nat : ~ \E g : IsUsed(g, m)}
<1> SUFFICES ASSUME C # {} PROVE FALSE
  OBVIOUS
<1>1. PICK m \in C : \A l \in C : m <= l
  BY LeastElement
<1>2. m # 0
  <2>1. IsUsed([i \in 0 .. 0 |-> cache.used], 0)
    BY DEF IsUsed
  <2> QED BY <1>1, <2>1
<1>3. PICK g : IsUsed(g, m - 1)
  <2>1. m - 1 \in Nat /\ ~ (m <= m - 1)
    BY <1>1, <1>2
  <2>2. m - 1 \notin C
    <3> HIDE DEF C
    <3> QED BY <1>1, <2>1
  <2> QED BY <2>1, <2>2
<1> DEFINE After(f, i) == IF i = 0 THEN cache.used ELSE Caches!Less(f[i - 1], Caches!Bytes(cache.order[i]))
           h == [i \in 0 .. m |-> After(g, i)]
<1>4. \A i \in 0 .. m - 1 : h[i] = g[i] /\ i \in 0 .. m
  <2>1. \A i \in 0 .. m - 1 : g[i] = After(g, i)
    BY <1>3 DEF IsUsed
  <2>2. m \in Nat \ {0}
    BY <1>1, <1>2
  <2>3. \A i \in 0 .. m - 1 : i \in 0 .. m
    BY <2>2
  <2> HIDE DEF C, After
  <2> QED BY <2>1, <2>3
<1>5. \A i \in 0 .. m : h[i] = After(h, i)
  <2> SUFFICES ASSUME NEW i \in 0 .. m PROVE After(g, i) = After(h, i)
    OBVIOUS
  <2>1. CASE i = 0
    BY <2>1
  <2>2. CASE i # 0
    <3>1. i - 1 \in 0 .. m - 1
      BY <1>1, <2>2
    <3>2. h[i - 1] = g[i - 1]
      BY <1>4, <3>1
    <3> QED BY <3>2
  <2> QED BY <2>1, <2>2
<1>6. IsUsed(h, m)
  BY <1>5 DEF IsUsed
<1> QED BY <1>1, <1>6

LEMMA UsedDef ==
  ASSUME NEW n \in Nat
  PROVE  \E g : /\ Caches!UsedAfter(n) = g[n] /\ g[0] = cache.used
                /\ \A i \in 1 .. n : g[i] = Caches!Less(g[i - 1], Caches!Bytes(cache.order[i]))
<1>1. PICK g : g = CHOOSE f : IsUsed(f, n)
  OBVIOUS
<1>2. IsUsed(g, n)
  BY <1>1, UsedExists
<1>3. Caches!UsedAfter(n) = (CHOOSE f : IsUsed(f, n))[n]
  BY Zenon DEF Caches!UsedAfter, IsUsed
<1>4. 0 \in 0 .. n /\ \A i \in 1 .. n : i \in 0 .. n /\ i # 0
  OBVIOUS
<1>5. g[0] = cache.used /\ \A i \in 1 .. n : g[i] = Caches!Less(g[i - 1], Caches!Bytes(cache.order[i]))
  BY <1>2, <1>4 DEF IsUsed
<1> QED BY <1>1, <1>3, <1>5

\* Entries of a list of sizes.
LEMMA SizesAre ==
  ASSUME NEW S, S \subseteq Nat, NEW s \in Seq(S)
  PROVE  Len(s) \in Nat /\ \A i \in 1 .. Len(s) : s[i] \in Nat
<1>1. Len(s) \in Nat
  OBVIOUS
<1>2. \A i \in 1 .. Len(s) : s[i] \in S
  OBVIOUS
<1> QED BY <1>1, <1>2

\* The sizes of what is held, in lists of each path once.
Held == [p \in Caches!Keys(cache) |-> size[cache.held[p]]]

LEMMA HeldIs ==
  ASSUME Caches!CacheConstants, Caches!CachesInv
  PROVE  /\ Caches!Keys(cache) \subseteq Paths /\ Caches!IsFiniteSet(Caches!Keys(cache))
            /\ Caches!Range(cache.order) = Caches!Keys(cache)
         /\ IsList(cache.order) /\ Len(cache.order) \in Nat
         /\ \A p \in Caches!Keys(cache) : Held[p] \in Nat /\ cache.held[p] \in 1 .. Len(size)
            /\ Held[p] = size[cache.held[p]]
<1>1. Caches!Keys(cache) \subseteq Paths
  BY DEF Caches!Keys
<1>2. Caches!IsFiniteSet(Caches!Keys(cache))
  BY <1>1, CachesFS_Subset DEF Caches!CacheConstants
<1>3. size \in Seq(Sizes) /\ Sizes \subseteq Nat /\ cache.held \in [Paths -> 0 .. Len(size)]
      /\ cache.order \in Seq(Paths)
      /\ Caches!IsInjective(cache.order) /\ Caches!Range(cache.order) = Caches!Keys(cache)
  BY DEF Caches!CachesInv, Caches!FilesInv, Caches!CacheInv, Caches!CachesBounded, Caches!CacheConstants
<1>4. Len(size) \in Nat /\ \A i \in 1 .. Len(size) : size[i] \in Nat
  BY <1>3, SizesAre
<1>5. \A p \in Caches!Keys(cache) : cache.held[p] \in 1 .. Len(size)
  BY <1>3, <1>4 DEF Caches!Keys
<1>6. \A p \in Caches!Keys(cache) : Held[p] = size[cache.held[p]]
  BY DEF Held
<1> QED BY <1>1, <1>2, <1>3, <1>4, <1>5, <1>6 DEF IsList

LEMMA BytesAre ==
  ASSUME Caches!CacheConstants, Caches!CachesInv, NEW p \in Caches!Keys(cache)
  PROVE  Caches!Bytes(p) \in Nat /\ (Caches!Exact => Caches!Bytes(p) = Held[p])
<1>1. p \in Paths /\ Held[p] \in Nat /\ Held[p] = size[cache.held[p]] /\ cache.held[p] # 0
  BY HeldIs DEF Caches!Keys
<1>2. Caches!EntryBytes(p) \in Nat
  <2>1. size \in Seq(Sizes) /\ Sizes \subseteq Nat /\ file \in [Paths -> 0 .. Len(size)] /\ Unknown \in Nat
    BY DEF Caches!CachesInv, Caches!FilesInv, Caches!CacheConstants
  <2>2. Len(size) \in Nat /\ \A i \in 1 .. Len(size) : size[i] \in Nat
    BY <2>1, SizesAre
  <2>3. file[p] = 0 \/ file[p] \in 1 .. Len(size)
    BY <1>1, <2>1, <2>2
  <2> QED BY <2>1, <2>2, <2>3 DEF Caches!EntryBytes
<1>3. CASE cacheKind = "blobs"
  BY <1>1, <1>3 DEF Caches!Bytes
<1>4. CASE cacheKind = "bm25"
  <2>1. Caches!Bytes(p) = Caches!EntryBytes(p)
    BY <1>4 DEF Caches!Bytes
  <2>2. ~ changed => Caches!EntryBytes(p) = Held[p]
    <3>1. ~ changed => cache.held[p] = file[p]
      BY <1>4 DEF Caches!CachesInv, Caches!HeldInv
    <3> QED BY <1>1, <3>1 DEF Caches!EntryBytes
  <2> QED BY <1>2, <1>4, <2>1, <2>2 DEF Caches!Exact
<1>5. CASE cacheKind \notin {"blobs", "bm25"}
  BY <1>5 DEF Caches!Bytes, Caches!Exact
<1> QED BY <1>3, <1>4, <1>5

Left(n) == {cache.order[i] : i \in n + 1 .. Len(cache.order)}

LEMMA LeftIs ==
  ASSUME Caches!CacheConstants, Caches!CachesInv, NEW n \in 0 .. Len(cache.order)
  PROVE  /\ Left(n) \subseteq Caches!Keys(cache) /\ Caches!IsFiniteSet(Left(n)) /\ Left(0) = Caches!Keys(cache)
         /\ Left(n) = Caches!Keys(cache) \ {cache.order[i] : i \in 1 .. n}
         /\ n # 0 => /\ cache.order[n] \in Caches!Keys(cache) /\ cache.order[n] \notin Left(n)
                     /\ Left(n - 1) = Left(n) \cup {cache.order[n]}
<1>1. PICK s, m : s = cache.order /\ m = Len(s)
  OBVIOUS
<1>2. IsList(s) /\ m \in Nat /\ Caches!Range(s) = Caches!Keys(cache) /\ Caches!IsFiniteSet(Caches!Keys(cache))
  BY <1>1, HeldIs
<1>3. DOMAIN s = 1 .. m /\ \A i, j \in 1 .. m : s[i] = s[j] => i = j
  BY <1>1, <1>2 DEF IsList, Caches!IsInjective
<1>4. Caches!Keys(cache) = {s[i] : i \in 1 .. m}
  BY <1>2, <1>3 DEF Caches!Range
<1>5. Left(n) = {s[i] : i \in n + 1 .. m} /\ Left(0) = {s[i] : i \in 0 + 1 .. m}
      /\ Left(n - 1) = {s[i] : i \in n - 1 + 1 .. m}
  BY <1>1 DEF Left
<1>6. \A i \in 1 .. m : (i \in n + 1 .. m /\ i \notin 1 .. n) \/ (i \in 1 .. n /\ i \notin n + 1 .. m)
  BY <1>1, <1>2
<1>7. (\A i \in n + 1 .. m : i \in 1 .. m) /\ (\A i \in 1 .. n : i \in 1 .. m)
  BY <1>1, <1>2
<1>8. Left(n) \subseteq Caches!Keys(cache) /\ Left(n) = Caches!Keys(cache) \ {s[i] : i \in 1 .. n}
  BY <1>3, <1>4, <1>5, <1>6, <1>7
<1>9. Left(0) = Caches!Keys(cache)
  BY <1>4, <1>5
<1>10. Caches!IsFiniteSet(Left(n))
  BY <1>2, <1>8, CachesFS_Subset
<1>11. ASSUME n # 0
       PROVE  s[n] \in Caches!Keys(cache) /\ s[n] \notin Left(n) /\ Left(n - 1) = Left(n) \cup {s[n]}
  <2>1. n \in 1 .. m /\ n \in 1 .. n
    BY <1>1, <1>2, <1>11
  <2>2. \A i : i \in n - 1 + 1 .. m <=> i \in n + 1 .. m \/ i = n
    BY <1>1, <1>2, <1>11
  <2>3. Left(n - 1) = Left(n) \cup {s[n]}
    BY <1>5, <2>2
  <2> QED BY <1>4, <1>8, <2>1, <2>3
<1> QED BY <1>1, <1>8, <1>9, <1>10, <1>11

LEMMA UsedIs ==
  ASSUME Caches!CacheConstants, Caches!CachesInv, NEW n \in 0 .. Len(cache.order)
  PROVE  Caches!UsedAfter(n) \in Nat /\ (Caches!Exact => Caches!UsedAfter(n) = Caches!SumFunctionOnSet(Held, Left(n)))
<1>1. n \in Nat /\ Len(cache.order) \in Nat
  BY HeldIs
<1>2. PICK g : /\ Caches!UsedAfter(n) = g[n] /\ g[0] = cache.used
               /\ \A i \in 1 .. n : g[i] = Caches!Less(g[i - 1], Caches!Bytes(cache.order[i]))
  BY <1>1, UsedDef
<1> DEFINE Good(i) == g[i] \in Nat /\ (Caches!Exact => g[i] = Caches!SumFunctionOnSet(Held, Left(i)))
           C == {i \in 0 .. n : ~ Good(i)}
<1>3. C = {}
  <2> SUFFICES ASSUME C # {} PROVE FALSE
    OBVIOUS
  <2>1. PICK i \in C : \A j \in C : i <= j
    <3>1. C \subseteq Nat
      BY <1>1
    <3> HIDE DEF C
    <3> QED BY <3>1, LeastElement
  <2>2. i # 0
    <3>1. Left(0) = Caches!Keys(cache)
      BY LeftIs
    <3>2. Caches!Exact => cache.used = Caches!SumFunctionOnSet(Held, Caches!Keys(cache))
      BY DEF Caches!CachesInv, Caches!CachesBounded, Caches!SumOfSizes, Held
    <3>3. cache.used \in Nat
      BY DEF Caches!CachesInv, Caches!CacheInv
    <3>4. Good(0)
      BY <1>2, <3>1, <3>2, <3>3
    <3> QED BY <2>1, <3>4
  <2>3. Good(i - 1) /\ i \in 1 .. n /\ i \in 0 .. Len(cache.order)
    <3>1. i - 1 \in 0 .. n /\ ~ (i <= i - 1) /\ i \in 1 .. n /\ i \in 0 .. Len(cache.order)
      BY <1>1, <2>1, <2>2
    <3>2. i - 1 \notin C
      <4> HIDE DEF C
      <4> QED BY <2>1, <3>1
    <3> QED BY <3>1, <3>2
  <2>4. PICK p : p = cache.order[i]
    OBVIOUS
  <2>5. p \in Caches!Keys(cache) /\ p \notin Left(i) /\ Left(i - 1) = Left(i) \cup {p} /\ Caches!IsFiniteSet(Left(i))
        /\ Left(i) \subseteq Caches!Keys(cache)
    BY <2>2, <2>3, <2>4, LeftIs
  <2>6. Caches!Bytes(p) \in Nat /\ (Caches!Exact => Caches!Bytes(p) = Held[p]) /\ Held[p] \in Nat
    BY <2>5, BytesAre, HeldIs
  <2>7. PICK rest : rest = Caches!SumFunctionOnSet(Held, Left(i))
    OBVIOUS
  <2>8. rest \in Nat /\ Caches!SumFunctionOnSet(Held, Left(i - 1)) = Held[p] + rest
    <3>1. \A q \in Left(i) \cup {p} : Held[q] \in Nat
      BY <2>5, HeldIs
    <3>2. rest \in Nat
      BY <2>5, <2>7, <3>1, CachesSumNat
    <3>3. Caches!SumFunctionOnSet(Held, Left(i) \cup {p}) = Held[p] + Caches!SumFunctionOnSet(Held, Left(i))
      BY <2>5, <3>1, CachesSumAdd
    <3> QED BY <2>5, <2>7, <3>2, <3>3
  <2>9. g[i] = Caches!Less(g[i - 1], Caches!Bytes(p)) /\ g[i - 1] \in Nat
    BY <1>2, <2>3, <2>4
  <2>10. g[i] \in Nat
    BY <2>6, <2>9 DEF Caches!Less
  <2>11. ASSUME Caches!Exact PROVE g[i] = rest
    <3>1. g[i - 1] = Held[p] + rest /\ Caches!Bytes(p) = Held[p]
      BY <2>3, <2>6, <2>8, <2>11
    <3> QED BY <2>6, <2>8, <2>9, <3>1 DEF Caches!Less
  <2> QED BY <2>1, <2>7, <2>10, <2>11
<1>4. n \in 0 .. n
  BY <1>1
<1> QED BY <1>2, <1>3, <1>4

-----------------------------------------------------------------------------
(* Steps *)

\* The sum of two functions that agree on a set is one.
LEMMA SumSame ==
  ASSUME NEW f, NEW g, NEW S, Caches!IsFiniteSet(S), \A x \in S : f[x] \in Nat /\ g[x] = f[x]
  PROVE  Caches!SumFunctionOnSet(f, S) = Caches!SumFunctionOnSet(g, S)
<1>1. Caches!SumFunctionOnSet(f, S) \in Nat /\ Caches!SumFunctionOnSet(g, S) \in Nat
  BY CachesSumNat
<1>2. \A x \in S : f[x] \in Nat /\ g[x] \in Nat /\ f[x] <= g[x] /\ g[x] <= f[x]
  OBVIOUS
<1>3. Caches!SumFunctionOnSet(f, S) <= Caches!SumFunctionOnSet(g, S)
  BY <1>2, CachesSumMonotone
<1>4. Caches!SumFunctionOnSet(g, S) <= Caches!SumFunctionOnSet(f, S)
  BY <1>2, CachesSumMonotone
<1> QED BY <1>1, <1>3, <1>4

\* What is left of a list after its first n entries.
LEMMA RestIs ==
  ASSUME NEW s, IsList(s), NEW n \in 0 .. Len(s)
  PROVE  /\ IsList(SubSeq(s, n + 1, Len(s))) /\ Len(SubSeq(s, n + 1, Len(s))) = Len(s) - n
         /\ Caches!Range(SubSeq(s, n + 1, Len(s))) = {s[i] : i \in n + 1 .. Len(s)}
<1>1. PICK m : m = Len(s)
  OBVIOUS
<1>2. PICK r : r = SubSeq(s, n + 1, m)
  OBVIOUS
<1>3. m \in Nat /\ n \in 0 .. m /\ s \in Seq(Paths)
  BY <1>1 DEF IsList
<1>4. r \in Seq(Paths) /\ Len(r) = m - n /\ \A i \in 1 .. m - n : r[i] = s[n + i]
  BY <1>1, <1>2, <1>3
<1>5. DOMAIN r = 1 .. m - n /\ DOMAIN s = 1 .. m
  BY <1>1, <1>3, <1>4
<1>6. \A i, j \in 1 .. m : s[i] = s[j] => i = j
  BY <1>5 DEF IsList, Caches!IsInjective
<1>7. \A i, j \in 1 .. m - n : r[i] = r[j] => i = j
  <2> SUFFICES ASSUME NEW i \in 1 .. m - n, NEW j \in 1 .. m - n, r[i] = r[j] PROVE i = j
    OBVIOUS
  <2>1. n + i \in 1 .. m /\ n + j \in 1 .. m
    BY <1>3
  <2>2. s[n + i] = s[n + j]
    BY <1>4
  <2>3. n + i = n + j
    BY <1>6, <2>1, <2>2
  <2> QED BY <1>3, <2>3
<1>8. Caches!Range(r) = {s[i] : i \in n + 1 .. m}
  <2>1. \A i \in 1 .. m - n : n + i \in n + 1 .. m
    BY <1>3
  <2>2. \A i \in n + 1 .. m : i - n \in 1 .. m - n /\ r[i - n] = s[i]
    <3> SUFFICES ASSUME NEW i \in n + 1 .. m PROVE i - n \in 1 .. m - n /\ r[i - n] = s[i]
      OBVIOUS
    <3>1. i - n \in 1 .. m - n /\ n + (i - n) = i
      BY <1>3
    <3> QED BY <1>4, <3>1
  <2>3. Caches!Range(r) = {r[i] : i \in 1 .. m - n}
    BY <1>5 DEF Caches!Range
  <2>4. {r[i] : i \in 1 .. m - n} \subseteq {s[i] : i \in n + 1 .. m}
    BY <1>4, <2>1
  <2>5. {s[i] : i \in n + 1 .. m} \subseteq {r[i] : i \in 1 .. m - n}
    BY <2>2
  <2> QED BY <2>3, <2>4, <2>5
<1> QED BY <1>1, <1>2, <1>4, <1>5, <1>7, <1>8 DEF IsList, Caches!IsInjective

LEMMA CachesStart ==
  ASSUME Caches!CacheConstants, Caches!Init
  PROVE  Caches!CachesInv
<1>1. file = [p \in Paths |-> 0] /\ size = <<>> /\ recent = {} /\ changed = FALSE
      /\ cacheKind \in {"segments", "blobs", "bm25", "route"}
  BY DEF Caches!Init
<1>2. cache = [order |-> <<>>, held |-> [p \in Paths |-> 0], used |-> 0]
  BY DEF Caches!Init, Caches!Empty
<1>3. Caches!Keys(cache) = {}
  BY <1>2 DEF Caches!Keys
<1>4. MaxVersions \in Nat /\ Budget \in Nat /\ Capacity \in Nat
  BY DEF Caches!CacheConstants
<1>5. Len(size) = 0 /\ size \in Seq(Sizes)
  BY <1>1
<1>6. Caches!FilesInv
  BY <1>1, <1>4, <1>5 DEF Caches!FilesInv
<1>7. Caches!CacheInv
  <2>1. cache = [order |-> cache.order, held |-> cache.held, used |-> cache.used]
    BY <1>2
  <2>2. cache.order \in Seq(Paths) /\ cache.used \in Nat
    BY <1>2
  <2>3. [p \in Paths |-> 0] \in [Paths -> 0 .. Len(size)]
    BY <1>5
  <2>4. cache.held \in [Paths -> 0 .. Len(size)]
    BY <1>2, <2>3
  <2> QED BY <1>1, <2>1, <2>2, <2>4 DEF Caches!CacheInv
<1>8. Caches!HeldInv
  BY <1>3 DEF Caches!HeldInv
<1>9. cache.order = <<>> /\ cache.used = 0 /\ Caches!SumOfSizes(cache) = 0
  BY <1>2, <1>3, CachesSumEmpty DEF Caches!SumOfSizes
<1>10. Caches!CachesBounded
  <2>1. Caches!IsInjective(cache.order) /\ Caches!Range(cache.order) = Caches!Keys(cache) /\ Len(cache.order) = 0
    BY <1>3, <1>9, NoneIsList DEF IsList
  <2> QED BY <1>1, <1>4, <1>9, <2>1 DEF Caches!CachesBounded
<1> QED BY <1>6, <1>7, <1>8, <1>10 DEF Caches!CachesInv

\* What the invariant says, in parts.
LEMMA Cached ==
  ASSUME Caches!CachesInv
  PROVE  /\ cacheKind \in {"segments", "blobs", "bm25", "route"} /\ size \in Seq(Sizes) /\ Len(size) <= MaxVersions
         /\ file \in [Paths -> 0 .. Len(size)] /\ Len(size) \in Nat
         /\ cache = [order |-> cache.order, held |-> cache.held, used |-> cache.used]
         /\ cache.held \in [Paths -> 0 .. Len(size)] /\ cache.used \in Nat
         /\ recent \subseteq Paths /\ changed \in BOOLEAN
         /\ IsList(cache.order) /\ Caches!Range(cache.order) = Caches!Keys(cache)
BY DEF Caches!CachesInv, Caches!FilesInv, Caches!CacheInv, Caches!CachesBounded, IsList

LEMMA LoadStep ==
  ASSUME Caches!CacheConstants, Caches!CachesInv, NEW p \in Paths, Caches!Load(p)
  PROVE  (Caches!CachesInv)'
<1> DEFINE L == Len(cache.order)
           bytes == IF cacheKind \in {"blobs", "bm25"} THEN size[file[p]] ELSE 0
           fits == {m \in 0 .. L : Caches!Fits(m, bytes)}
           n == Caches!Min(fits)
<1>1. L \in Nat /\ IsList(cache.order) /\ Caches!Range(cache.order) = Caches!Keys(cache)
  BY HeldIs
<1>2. file[p] # 0 /\ cache.held[p] = 0 /\ cache' = Caches!Insert(p) /\ recent' = {p}
      /\ cacheKind' = cacheKind /\ file' = file /\ size' = size /\ changed' = changed
  BY DEF Caches!Load
<1>3. n \in 0 .. L /\ Caches!Fits(n, bytes)
  <2>1. fits \subseteq Nat /\ L \in 0 .. L
    BY <1>1
  <2>2. L \in fits
    BY <2>1 DEF Caches!Fits
  <2> HIDE DEF fits
  <2>3. n \in fits
    BY <2>1, <2>2, CachesMinIs
  <2> QED BY <2>3 DEF fits
<1> DEFINE rest == SubSeq(cache.order, n + 1, L)
           out == {cache.order[i] : i \in 1 .. n}
<1>4. /\ cache'.order = Append(rest, p)
      /\ cache'.held = [q \in Paths |-> IF q = p THEN file[p] ELSE IF q \in out THEN 0 ELSE cache.held[q]]
      /\ cache'.used = Caches!UsedAfter(n) + bytes
      /\ cache' = [order |-> cache'.order, held |-> cache'.held, used |-> cache'.used]
  <2>1. cache' = [order |-> Append(rest, p),
                  held |-> [q \in Paths |-> IF q = p THEN file[p] ELSE IF q \in out THEN 0 ELSE cache.held[q]],
                  used |-> Caches!UsedAfter(n) + bytes]
    BY <1>2 DEF Caches!Insert
  <2> HIDE DEF rest, out, n, bytes
  <2> QED BY <2>1
<1> HIDE DEF fits, n
<1>5. IsList(rest) /\ Len(rest) = L - n /\ Caches!Range(rest) = Left(n)
  BY <1>1, <1>3, RestIs DEF Left
<1>6. Left(n) \subseteq Caches!Keys(cache) /\ Caches!IsFiniteSet(Left(n)) /\ Left(n) = Caches!Keys(cache) \ out
  BY <1>3, LeftIs
<1>7. Caches!UsedAfter(n) \in Nat /\ (Caches!Exact => Caches!UsedAfter(n) = Caches!SumFunctionOnSet(Held, Left(n)))
  BY <1>3, UsedIs
<1>8. p \notin Left(n) /\ p \notin Caches!Keys(cache)
  BY <1>2, <1>6 DEF Caches!Keys
<1> HIDE DEF rest
<1>9. /\ IsList(cache'.order) /\ Caches!Range(cache'.order) = Left(n) \cup {p}
      /\ cache'.order # <<>> /\ cache'.order[Len(cache'.order)] = p /\ Len(cache'.order) = L - n + 1
  BY <1>4, <1>5, <1>8, AppendIs
<1>10. (Caches!Keys(cache))' = Left(n) \cup {p}
  <2> HIDE DEF out
  <2> QED BY <1>2, <1>4, <1>6, <1>8 DEF Caches!Keys
<1>11. file[p] \in 1 .. Len(size) /\ size[file[p]] \in Nat /\ Len(size) \in Nat
  <2>1. file \in [Paths -> 0 .. Len(size)] /\ Len(size) \in Nat /\ size \in Seq(Sizes) /\ Sizes \subseteq Nat
    BY Cached DEF Caches!CacheConstants
  <2>2. file[p] \in 1 .. Len(size)
    BY <1>2, <2>1
  <2> QED BY <2>1, <2>2, SizesAre
<1>12. bytes \in Nat
  BY <1>11
<1>13. \A q \in Left(n) : q # p /\ cache'.held[q] = cache.held[q]
  BY <1>4, <1>6, <1>8 DEF Caches!Keys
<1>14. cache'.held[p] = file[p]
  BY <1>4
<1>15. (Caches!FilesInv)'
  BY <1>2 DEF Caches!CachesInv, Caches!FilesInv
<1>16. (Caches!CacheInv)'
  <2>1. cache'.used \in Nat
    <3> HIDE DEF bytes
    <3> QED BY <1>4, <1>7, <1>12
  <2>2. cache'.held \in [Paths -> 0 .. Len(size)]
    <3>1. cache.held \in [Paths -> 0 .. Len(size)] /\ 0 \in 0 .. Len(size) /\ file[p] \in 0 .. Len(size)
      BY <1>11, Cached
    <3> HIDE DEF out
    <3> QED BY <1>4, <3>1
  <2>3. cache'.order \in Seq(Paths)
    BY <1>9 DEF IsList
  <2>4. recent' \subseteq Paths /\ changed' \in BOOLEAN
    BY <1>2, Cached
  <2> QED BY <1>2, <1>4, <2>1, <2>2, <2>3, <2>4 DEF Caches!CacheInv
<1>17. (Caches!HeldInv)'
  <2> SUFFICES ASSUME cacheKind = "bm25", ~ changed, NEW q \in Left(n) \cup {p} PROVE cache'.held[q] = file[q]
    BY <1>2, <1>10 DEF Caches!HeldInv
  <2>1. \A r \in Caches!Keys(cache) : cache.held[r] = file[r]
    BY DEF Caches!CachesInv, Caches!HeldInv
  <2> QED BY <1>6, <1>13, <1>14, <2>1
<1>18. cacheKind = "segments" => Len(cache'.order) <= Capacity
  <2> SUFFICES ASSUME cacheKind = "segments" PROVE Len(cache'.order) <= Capacity
    OBVIOUS
  <2>1. n = L \/ L - n < Capacity
    BY <1>3 DEF Caches!Fits
  <2>2. Capacity \in Nat \ {0} /\ n \in Nat
    BY <1>1, <1>3 DEF Caches!CacheConstants
  <2> HIDE DEF L
  <2> QED BY <1>1, <1>9, <2>1, <2>2
<1>19. ASSUME Caches!Exact
       PROVE  cache'.used = (Caches!SumOfSizes(cache))' /\ (cache'.used <= Budget \/ Len(cache'.order) = 1)
  <2>1. cacheKind \in {"blobs", "bm25"} /\ bytes = size[file[p]]
    BY <1>19 DEF Caches!Exact
  <2> DEFINE f == [q \in Left(n) \cup {p} |-> size[cache'.held[q]]]
  <2>2. (Caches!SumOfSizes(cache))' = Caches!SumFunctionOnSet(f, Left(n) \cup {p})
    BY <1>2, <1>10 DEF Caches!SumOfSizes
  <2>3. f[p] = size[file[p]]
    BY <1>14
  <2>4. \A q \in Left(n) : Held[q] \in Nat /\ f[q] = Held[q]
    <3> SUFFICES ASSUME NEW q \in Left(n) PROVE Held[q] \in Nat /\ f[q] = Held[q]
      OBVIOUS
    <3>1. q \in Caches!Keys(cache) /\ cache'.held[q] = cache.held[q]
      BY <1>6, <1>13
    <3>2. Held[q] \in Nat /\ Held[q] = size[cache.held[q]]
      BY <3>1, HeldIs
    <3> QED BY <3>1, <3>2
  <2> HIDE DEF f
  <2>5. Caches!SumFunctionOnSet(f, Left(n)) = Caches!SumFunctionOnSet(Held, Left(n))
    BY <1>6, <2>4, SumSame
  <2>6. \A q \in Left(n) \cup {p} : f[q] \in Nat
    BY <1>11, <2>3, <2>4
  <2>7. Caches!SumFunctionOnSet(f, Left(n) \cup {p}) = f[p] + Caches!SumFunctionOnSet(f, Left(n))
    BY <1>6, <1>8, <2>6, CachesSumAdd
  <2>8. Caches!UsedAfter(n) = Caches!SumFunctionOnSet(Held, Left(n))
    BY <1>7, <1>19
  <2>9. n = L \/ Caches!UsedAfter(n) + bytes <= Budget
    BY <1>3, <2>1 DEF Caches!Fits
  <2> HIDE DEF bytes, L
  <2>10. cache'.used = (Caches!SumOfSizes(cache))'
    BY <1>4, <1>7, <1>12, <2>1, <2>2, <2>3, <2>5, <2>7, <2>8
  <2>11. n = L => Len(cache'.order) = 1
    BY <1>1, <1>9
  <2> QED BY <1>4, <2>9, <2>10, <2>11
<1>20. (Caches!CachesBounded)'
  <2>1. Caches!IsInjective(cache'.order) /\ Caches!Range(cache'.order) = (Caches!Keys(cache))'
    BY <1>9, <1>10 DEF IsList
  <2>2. \A q \in recent' : cache'.order # <<>> /\ cache'.order[Len(cache'.order)] = q
    BY <1>2, <1>9
  <2>3. (Caches!Exact)' <=> Caches!Exact
    BY <1>2 DEF Caches!Exact
  <2> QED BY <1>2, <1>18, <1>19, <2>1, <2>2, <2>3 DEF Caches!CachesBounded
<1> QED BY <1>15, <1>16, <1>17, <1>20 DEF Caches!CachesInv

\* The sum of the sizes of what stays as it is.
LEMMA KeptSum ==
  ASSUME Caches!CacheConstants, Caches!CachesInv, NEW K \in SUBSET Caches!Keys(cache), (Caches!Keys(cache))' = K,
         \A q \in K : cache'.held[q] = cache.held[q] /\ size'[cache.held[q]] = size[cache.held[q]]
  PROVE  (Caches!SumOfSizes(cache))' = Caches!SumFunctionOnSet(Held, K)
<1> DEFINE f == [q \in K |-> size'[cache'.held[q]]]
<1>1. (Caches!SumOfSizes(cache))' = Caches!SumFunctionOnSet(f, K)
  BY DEF Caches!SumOfSizes
<1>2. \A q \in K : Held[q] \in Nat /\ f[q] = Held[q]
  <2> SUFFICES ASSUME NEW q \in K PROVE Held[q] \in Nat /\ f[q] = Held[q]
    OBVIOUS
  <2>1. Held[q] \in Nat /\ Held[q] = size[cache.held[q]]
    BY HeldIs
  <2> QED BY <2>1
<1>3. Caches!IsFiniteSet(K)
  BY HeldIs, CachesFS_Subset
<1> HIDE DEF f
<1> QED BY <1>1, <1>2, <1>3, SumSame

LEMMA HitStep ==
  ASSUME Caches!CacheConstants, Caches!CachesInv, NEW p \in Paths, Caches!Hit(p)
  PROVE  (Caches!CachesInv)'
<1>1. cache.held[p] # 0 /\ cacheKind # "route" /\ recent' = {p} /\ cache' = [cache EXCEPT !.order = Caches!Touch(@, p)]
      /\ cacheKind' = cacheKind /\ file' = file /\ size' = size /\ changed' = changed
  BY DEF Caches!Hit
<1>2. PICK o : o = Append(Caches!Retain(cache.order, p), p)
  OBVIOUS
<1>3. cache = [order |-> cache.order, held |-> cache.held, used |-> cache.used]
  BY Cached
<1>4. cache' = [order |-> o, held |-> cache.held, used |-> cache.used]
  BY <1>1, <1>2, <1>3 DEF Caches!Touch
<1>5. cache'.order = o /\ cache'.held = cache.held /\ cache'.used = cache.used
      /\ cache' = [order |-> cache'.order, held |-> cache'.held, used |-> cache'.used]
  BY <1>4
<1>6. IsList(cache.order) /\ Caches!Range(cache.order) = Caches!Keys(cache) /\ p \in Caches!Keys(cache)
      /\ Len(cache.order) \in Nat
  BY <1>1, HeldIs DEF Caches!Keys
<1>7. /\ IsList(Caches!Retain(cache.order, p)) /\ Caches!Range(Caches!Retain(cache.order, p)) = Caches!Keys(cache) \ {p}
      /\ Len(Caches!Retain(cache.order, p)) = Len(cache.order) - 1
  BY <1>6, RetainIs
<1>8. IsList(o) /\ Caches!Range(o) = Caches!Keys(cache) /\ o # <<>> /\ o[Len(o)] = p /\ Len(o) = Len(cache.order)
  <2>1. p \notin Caches!Range(Caches!Retain(cache.order, p))
    BY <1>7
  <2>2. /\ IsList(o) /\ Caches!Range(o) = (Caches!Keys(cache) \ {p}) \cup {p} /\ o # <<>> /\ o[Len(o)] = p
        /\ Len(o) = Len(Caches!Retain(cache.order, p)) + 1
    BY <1>2, <1>7, <2>1, AppendIs
  <2> QED BY <1>6, <1>7, <2>2
<1>9. (Caches!Keys(cache))' = Caches!Keys(cache)
  BY <1>5 DEF Caches!Keys
<1>10. (Caches!FilesInv)'
  BY <1>1 DEF Caches!CachesInv, Caches!FilesInv
<1>11. (Caches!CacheInv)'
  <2>1. o \in Seq(Paths) /\ cache'.held \in [Paths -> 0 .. Len(size)] /\ cache'.used \in Nat /\ changed' \in BOOLEAN
    BY <1>1, <1>5, <1>8, Cached DEF IsList
  <2> QED BY <1>1, <1>5, <2>1 DEF Caches!CacheInv
<1>12. (Caches!HeldInv)'
  BY <1>1, <1>5, <1>9 DEF Caches!CachesInv, Caches!HeldInv
<1>13. (Caches!SumOfSizes(cache))' = Caches!SumOfSizes(cache)
  BY <1>1, <1>5, <1>9 DEF Caches!SumOfSizes
<1>14. (Caches!CachesBounded)'
  <2>1. cacheKind = "segments" => Len(cache.order) <= Capacity
    BY DEF Caches!CachesInv, Caches!CachesBounded
  <2>2. Caches!Exact => cache.used = Caches!SumOfSizes(cache) /\ (cache.used <= Budget \/ Len(cache.order) = 1)
    BY DEF Caches!CachesInv, Caches!CachesBounded
  <2>3. (Caches!Exact)' <=> Caches!Exact
    BY <1>1 DEF Caches!Exact
  <2>4. Caches!IsInjective(o)
    BY <1>8 DEF IsList
  <2> QED BY <1>1, <1>5, <1>8, <1>9, <1>13, <2>1, <2>2, <2>3, <2>4 DEF Caches!CachesBounded
<1> QED BY <1>10, <1>11, <1>12, <1>14 DEF Caches!CachesInv

LEMMA WriteStep ==
  ASSUME Caches!CacheConstants, Caches!CachesInv, NEW p \in Paths, NEW bytes \in Sizes, Caches!Write(p, bytes)
  PROVE  (Caches!CachesInv)'
<1>1. Len(size) < MaxVersions /\ size' = Append(size, bytes) /\ file' = [file EXCEPT ![p] = Len(size')]
      /\ changed' = (changed \/ cache.held[p] # 0) /\ cacheKind' = cacheKind /\ cache' = cache /\ recent' = recent
  BY DEF Caches!Write
<1>2. /\ size \in Seq(Sizes) /\ file \in [Paths -> 0 .. Len(size)] /\ Len(size) \in Nat
      /\ cache.held \in [Paths -> 0 .. Len(size)]
  BY Cached
<1>3. size' \in Seq(Sizes) /\ Len(size') = Len(size) + 1 /\ \A i \in 1 .. Len(size) : size'[i] = size[i]
  BY <1>1, <1>2
<1>4. \A i \in 0 .. Len(size) : i \in 0 .. Len(size')
  BY <1>2, <1>3
<1>5. (Caches!FilesInv)'
  <2>1. Len(size') \in 0 .. Len(size') /\ Len(size') <= MaxVersions
    BY <1>1, <1>2, <1>3 DEF Caches!CacheConstants
  <2>2. file' \in [Paths -> 0 .. Len(size')]
    BY <1>1, <1>2, <1>4, <2>1
  <2> QED BY <1>1, <1>3, <2>1, <2>2 DEF Caches!CachesInv, Caches!FilesInv
<1>6. (Caches!CacheInv)'
  <2>1. cache.held \in [Paths -> 0 .. Len(size')]
    BY <1>2, <1>4
  <2>2. changed' \in BOOLEAN
    BY <1>1, Cached
  <2> QED BY <1>1, <2>1, <2>2 DEF Caches!CachesInv, Caches!CacheInv
<1>7. (Caches!Keys(cache))' = Caches!Keys(cache)
  BY <1>1 DEF Caches!Keys
<1>8. (Caches!HeldInv)'
  <2> SUFFICES ASSUME cacheKind = "bm25", ~ changed', NEW q \in Caches!Keys(cache) PROVE cache.held[q] = file'[q]
    BY <1>1, <1>7 DEF Caches!HeldInv
  <2>1. ~ changed /\ q # p
    BY <1>1 DEF Caches!Keys
  <2>2. cache.held[q] = file[q]
    BY <2>1 DEF Caches!CachesInv, Caches!HeldInv
  <2> QED BY <1>1, <1>2, <2>1, <2>2
<1>9. (Caches!SumOfSizes(cache))' = Caches!SumOfSizes(cache)
  <2>1. \A q \in Caches!Keys(cache) : cache'.held[q] = cache.held[q] /\ size'[cache.held[q]] = size[cache.held[q]]
    BY <1>1, <1>3, HeldIs
  <2>2. (Caches!SumOfSizes(cache))' = Caches!SumFunctionOnSet(Held, Caches!Keys(cache))
    BY <1>7, <2>1, KeptSum
  <2> QED BY <2>2 DEF Caches!SumOfSizes, Held
<1>10. (Caches!CachesBounded)'
  <2>1. (Caches!Exact)' => Caches!Exact
    BY <1>1 DEF Caches!Exact
  <2> QED BY <1>1, <1>7, <1>9, <2>1 DEF Caches!CachesInv, Caches!CachesBounded
<1> QED BY <1>5, <1>6, <1>8, <1>10 DEF Caches!CachesInv

LEMMA RemoveStep ==
  ASSUME Caches!CacheConstants, Caches!CachesInv, NEW p \in Paths, Caches!RemoveFile(p)
  PROVE  (Caches!CachesInv)'
<1>1. file' = [file EXCEPT ![p] = 0] /\ cacheKind' = cacheKind /\ size' = size
  BY DEF Caches!RemoveFile
<1>2. /\ size \in Seq(Sizes) /\ file \in [Paths -> 0 .. Len(size)] /\ Len(size) \in Nat
      /\ cache.held \in [Paths -> 0 .. Len(size)] /\ IsList(cache.order)
         /\ Caches!Range(cache.order) = Caches!Keys(cache)
      /\ cache.used \in Nat /\ recent \subseteq Paths /\ changed \in BOOLEAN
  BY Cached
<1>3. (Caches!FilesInv)'
  <2>1. file' \in [Paths -> 0 .. Len(size)]
    <3>1. 0 \in 0 .. Len(size)
      BY <1>2
    <3> QED BY <1>1, <1>2, <3>1
  <2> QED BY <1>1, <2>1 DEF Caches!CachesInv, Caches!FilesInv
<1>4. CASE cacheKind \notin {"segments", "blobs"}
  <2>1. changed' = (changed \/ cache.held[p] # 0) /\ cache' = cache /\ recent' = recent
    BY <1>4 DEF Caches!RemoveFile
  <2>2. (Caches!CacheInv)'
    <3>1. changed' \in BOOLEAN
      BY <1>2, <2>1
    <3> QED BY <1>1, <2>1, <3>1 DEF Caches!CachesInv, Caches!CacheInv
  <2>3. (Caches!HeldInv)'
    <3> SUFFICES ASSUME cacheKind = "bm25", ~ changed', NEW q \in Caches!Keys(cache) PROVE cache.held[q] = file'[q]
      BY <1>1, <2>1 DEF Caches!HeldInv, Caches!Keys
    <3>1. ~ changed /\ q # p
      BY <2>1 DEF Caches!Keys
    <3>2. cache.held[q] = file[q]
      BY <3>1 DEF Caches!CachesInv, Caches!HeldInv
    <3> QED BY <1>1, <1>2, <3>1, <3>2
  <2>4. (Caches!CachesBounded)'
    <3>1. (Caches!Exact)' => Caches!Exact
      BY <1>1, <2>1 DEF Caches!Exact
    <3>2. (Caches!Keys(cache))' = Caches!Keys(cache) /\ (Caches!SumOfSizes(cache))' = Caches!SumOfSizes(cache)
      BY <1>1, <2>1 DEF Caches!SumOfSizes, Caches!Keys
    <3> QED BY <1>1, <2>1, <3>1, <3>2 DEF Caches!CachesInv, Caches!CachesBounded
  <2> QED BY <1>3, <2>2, <2>3, <2>4 DEF Caches!CachesInv
<1>5. CASE cacheKind \in {"segments", "blobs"}
  <2>1. cache' = Caches!Invalidate(p) /\ recent' = recent \ {p} /\ changed' = changed
    BY <1>5 DEF Caches!RemoveFile
  <2>2. (Caches!HeldInv)'
    BY <1>1, <1>5 DEF Caches!HeldInv
  <2>3. (Caches!Exact)' <=> Caches!Exact
    BY <1>1, <2>1 DEF Caches!Exact
  <2>4. cacheKind = "segments" => Len(cache.order) <= Capacity
    BY DEF Caches!CachesInv, Caches!CachesBounded
  <2>5. Caches!Exact => cache.used = Caches!SumOfSizes(cache) /\ (cache.used <= Budget \/ Len(cache.order) = 1)
    BY DEF Caches!CachesInv, Caches!CachesBounded
  <2>6. \A q \in recent : cache.order # <<>> /\ cache.order[Len(cache.order)] = q
    BY DEF Caches!CachesInv, Caches!CachesBounded
  <2>7. CASE cache.held[p] = 0
    <3>1. cache' = cache
      BY <2>1, <2>7 DEF Caches!Invalidate
    <3>2. (Caches!CacheInv)'
      BY <1>1, <1>2, <2>1, <3>1 DEF Caches!CachesInv, Caches!CacheInv
    <3>3. (Caches!Keys(cache))' = Caches!Keys(cache) /\ (Caches!SumOfSizes(cache))' = Caches!SumOfSizes(cache)
      BY <1>1, <3>1 DEF Caches!SumOfSizes, Caches!Keys
    <3>4. (Caches!CachesBounded)'
      BY <1>1, <2>1, <2>3, <3>1, <3>3 DEF Caches!CachesInv, Caches!CachesBounded
    <3> QED BY <1>3, <2>2, <3>2, <3>4 DEF Caches!CachesInv
  <2>8. CASE cache.held[p] # 0
    <3>1. /\ cache'.order = Caches!Retain(cache.order, p) /\ cache'.held = [cache.held EXCEPT ![p] = 0]
          /\ cache'.used = Caches!Less(cache.used, Caches!Bytes(p))
          /\ cache' = [order |-> cache'.order, held |-> cache'.held, used |-> cache'.used]
      <4>1. cache' = [order |-> Caches!Retain(cache.order, p), held |-> [cache.held EXCEPT ![p] = 0],
                      used |-> Caches!Less(cache.used, Caches!Bytes(p))]
        BY <2>1, <2>8 DEF Caches!Invalidate, Caches!Without
      <4> QED BY <4>1
    <3>2. p \in Caches!Keys(cache) /\ Caches!IsFiniteSet(Caches!Keys(cache)) /\ Len(cache.order) \in Nat
      BY <2>8, HeldIs DEF Caches!Keys
    <3>3. /\ IsList(cache'.order) /\ Caches!Range(cache'.order) = Caches!Keys(cache) \ {p}
          /\ Len(cache'.order) = Len(cache.order) - 1
          /\ cache.order # <<>> /\ cache.order[Len(cache.order)] # p =>
               cache'.order # <<>> /\ cache'.order[Len(cache'.order)] = cache.order[Len(cache.order)]
      BY <1>2, <3>1, <3>2, RetainIs
    <3>4. (Caches!Keys(cache))' = Caches!Keys(cache) \ {p}
      BY <1>2, <3>1 DEF Caches!Keys
    <3>5. Caches!Bytes(p) \in Nat /\ (Caches!Exact => Caches!Bytes(p) = Held[p]) /\ Held[p] \in Nat
      BY <3>2, BytesAre, HeldIs
    <3>6. (Caches!CacheInv)'
      <4>1. cache'.used \in Nat
        BY <1>2, <3>1, <3>5 DEF Caches!Less
      <4>2. cache'.held \in [Paths -> 0 .. Len(size)]
        <5>1. 0 \in 0 .. Len(size)
          BY <1>2
        <5> QED BY <1>2, <3>1, <5>1
      <4>3. cache'.order \in Seq(Paths)
        BY <3>3 DEF IsList
      <4>4. recent' \subseteq Paths /\ changed' \in BOOLEAN
        BY <1>2, <2>1
      <4> QED BY <1>1, <3>1, <4>1, <4>2, <4>3, <4>4 DEF Caches!CacheInv
    <3>7. ASSUME Caches!Exact
          PROVE  cache'.used = (Caches!SumOfSizes(cache))' /\ (cache'.used <= Budget \/ Len(cache'.order) = 1)
      <4>1. PICK rest : rest = Caches!SumFunctionOnSet(Held, Caches!Keys(cache) \ {p})
        OBVIOUS
      <4>2. (Caches!SumOfSizes(cache))' = rest
        <5>1. \A q \in Caches!Keys(cache) \ {p} : cache'.held[q] = cache.held[q]
              /\ size'[cache.held[q]] = size[cache.held[q]]
          BY <1>1, <1>2, <3>1 DEF Caches!Keys
        <5> QED BY <3>4, <4>1, <5>1, KeptSum
      <4>3. \A q \in Caches!Keys(cache) : Held[q] \in Nat
        BY HeldIs
      <4>4. rest \in Nat
        <5>1. Caches!IsFiniteSet(Caches!Keys(cache) \ {p}) /\ \A q \in Caches!Keys(cache) \ {p} : Held[q] \in Nat
          BY <3>2, <4>3, CachesFS_Subset
        <5> QED BY <4>1, <5>1, CachesSumNat
      <4>5. Caches!SumFunctionOnSet(Held, Caches!Keys(cache)) = Held[p] + rest
        BY <3>2, <4>1, <4>3, CachesSumRemove
      <4>6. cache.used = Held[p] + rest
        BY <2>5, <3>7, <4>5 DEF Caches!SumOfSizes, Held
      <4>7. cache'.used = rest
        BY <3>1, <3>5, <3>7, <4>4, <4>6 DEF Caches!Less
      <4>8. Budget \in Nat
        BY DEF Caches!CacheConstants
      <4>9. CASE Len(cache.order) = 1
        <5>1. Len(cache'.order) = 0 /\ cache'.order \in Seq(Paths)
          BY <3>3, <4>9 DEF IsList
        <5>2. cache'.order = <<>>
          BY <5>1
        <5>3. Caches!Keys(cache) \ {p} = {}
          BY <3>3, <5>2, NoneIsList
        <5>4. rest = 0
          BY <4>1, <5>3, CachesSumEmpty
        <5> QED BY <4>2, <4>7, <4>8, <5>4
      <4>10. CASE cache.used <= Budget
        BY <1>2, <3>5, <4>2, <4>4, <4>6, <4>7, <4>8, <4>10
      <4> QED BY <2>5, <3>7, <4>9, <4>10
    <3>8. (Caches!CachesBounded)'
      <4>1. Caches!IsInjective(cache'.order) /\ Caches!Range(cache'.order) = (Caches!Keys(cache))'
        BY <3>3, <3>4 DEF IsList
      <4>2. \A q \in recent' : cache'.order # <<>> /\ cache'.order[Len(cache'.order)] = q
        BY <2>1, <2>6, <3>3
      <4>3. cacheKind = "segments" => Len(cache'.order) <= Capacity
        BY <2>4, <3>2, <3>3 DEF Caches!CacheConstants
      <4> QED BY <1>1, <2>3, <3>7, <4>1, <4>2, <4>3 DEF Caches!CachesBounded
    <3> QED BY <1>3, <2>2, <3>6, <3>8 DEF Caches!CachesInv
  <2> QED BY <2>7, <2>8
<1> QED BY <1>4, <1>5

LEMMA CachesStep ==
  ASSUME Caches!CacheConstants, Caches!CachesInv, [Caches!Next]_(Caches!vars)
  PROVE  (Caches!CachesInv)'
<1>1. CASE Caches!Next
  <2>1. PICK p \in Paths : \/ Caches!Load(p) \/ Caches!Hit(p) \/ Caches!RemoveFile(p)
                           \/ \E bytes \in Sizes : Caches!Write(p, bytes)
    BY <1>1 DEF Caches!Next
  <2> QED BY <2>1, LoadStep, HitStep, RemoveStep, WriteStep
<1>2. CASE UNCHANGED Caches!vars
  <2>1. cacheKind' = cacheKind /\ file' = file /\ size' = size /\ cache' = cache /\ recent' = recent
        /\ changed' = changed
    BY <1>2 DEF Caches!vars
  <2>2. (Caches!FilesInv)' /\ (Caches!CacheInv)' /\ (Caches!HeldInv)'
    BY <2>1 DEF Caches!CachesInv, Caches!FilesInv, Caches!CacheInv, Caches!HeldInv, Caches!Keys
  <2>3. (Caches!Keys(cache))' = Caches!Keys(cache) /\ (Caches!SumOfSizes(cache))' = Caches!SumOfSizes(cache)
        /\ ((Caches!Exact)' <=> Caches!Exact)
    BY <2>1 DEF Caches!SumOfSizes, Caches!Keys, Caches!Exact
  <2>4. (Caches!CachesBounded)'
    BY <2>1, <2>3 DEF Caches!CachesInv, Caches!CachesBounded
  <2> QED BY <2>2, <2>4 DEF Caches!CachesInv
<1> QED BY <1>1, <1>2

LEMMA CachesAreTyped ==
  ASSUME Caches!CacheConstants, Caches!CachesInv
  PROVE  Caches!TypeOK
<1>1. MaxVersions \in Nat
  BY DEF Caches!CacheConstants
<1>2. Len(size) \in Nat /\ Len(size) <= MaxVersions /\ size \in Seq(Sizes) /\ cache.order \in Seq(Paths)
      /\ file \in [Paths -> 0 .. Len(size)] /\ cache.held \in [Paths -> 0 .. Len(size)]
  BY Cached DEF IsList
<1>3. \A i \in 0 .. Len(size) : i \in 0 .. MaxVersions
  BY <1>1, <1>2
<1>4. file \in [Paths -> 0 .. MaxVersions] /\ cache.held \in [Paths -> 0 .. MaxVersions]
  BY <1>2, <1>3
<1> QED BY <1>2, <1>4, Cached DEF Caches!TypeOK

-----------------------------------------------------------------------------
(* Downloads.  The instance of HubTransferProofs has definitions of its own, *)
(* which are those of Hub.                                                   *)

HubP == INSTANCE HubTransferProofs WITH
  pc <- x1, dir <- x2, files <- x3, format <- x4, at <- x5, tasks <- x6, local <- x7, gone <- x8, landing <- x9,
  lost <- x10, read <- x11

LEMMA HubNextSame == Hub!Next <=> HubP!Next
<1>1. \A j : Hub!Resolve(j) <=> HubP!Resolve(j)
  BY DEF Hub!Resolve, HubP!Resolve, Hub!NoFile, HubP!NoFile, Hub!Truncated, HubP!Truncated, Hub!Listings,
    HubP!Listings, Hub!Picked, HubP!Picked, Hub!Matching, HubP!Matching, Hub!MatchesSplit, HubP!MatchesSplit,
    Hub!MatchesConfig, HubP!MatchesConfig, Hub!InOrder, HubP!InOrder, Hub!Cardinality, HubP!Cardinality
<1>2. \A d, names : Hub!Removed(d, names) <=> HubP!Removed(d, names)
  BY DEF Hub!Removed, HubP!Removed, Hub!Ranges, HubP!Ranges, Hub!MaxChunks, HubP!MaxChunks, Hub!Name, HubP!Name,
    Hub!Current, HubP!Current
<1>3. \A j : Hub!RemoveFile(j) <=> HubP!RemoveFile(j)
  BY <1>2 DEF Hub!RemoveFile, HubP!RemoveFile, Hub!NoFile, HubP!NoFile, Hub!Name, HubP!Name, Hub!Current, HubP!Current
<1>4. \A j : Hub!Spawn(j) <=> HubP!Spawn(j)
  BY <1>3 DEF Hub!Spawn, HubP!Spawn, Hub!Ranges, HubP!Ranges, Hub!MaxChunks, HubP!MaxChunks, Hub!Idle, HubP!Idle,
    Hub!Current, HubP!Current
<1>5. \A j, c, state : Hub!Becomes(j, c, state) <=> HubP!Becomes(j, c, state)
  BY DEF Hub!Becomes, HubP!Becomes
<1>6. \A j, c : Hub!Acquire(j, c) <=> HubP!Acquire(j, c)
  BY <1>5 DEF Hub!Acquire, HubP!Acquire, Hub!Running, HubP!Running, Hub!InState, HubP!InState, Hub!Ranges,
    HubP!Ranges, Hub!MaxChunks, HubP!MaxChunks, Hub!Cardinality, HubP!Cardinality
<1>7. \A j, c : Hub!Open(j, c) <=> HubP!Open(j, c)
  BY <1>5 DEF Hub!Open, HubP!Open, Hub!NoFile, HubP!NoFile, Hub!Empty, HubP!Empty, Hub!Ranges, HubP!Ranges,
    Hub!MaxChunks, HubP!MaxChunks, Hub!Hole, HubP!Hole, Hub!Name, HubP!Name, Hub!Current, HubP!Current
<1>8. \A j, c : Hub!Answer(j, c) <=> HubP!Answer(j, c)
  BY <1>5 DEF Hub!Answer, HubP!Answer, Hub!Lands, HubP!Lands, Hub!Current, HubP!Current, Hub!Name, HubP!Name
<1>9. \A j, c : Hub!Refuse(j, c) <=> HubP!Refuse(j, c)
  BY <1>5 DEF Hub!Refuse, HubP!Refuse, Hub!Retrying, HubP!Retrying, Hub!InState, HubP!InState, Hub!Ranges,
    HubP!Ranges, Hub!MaxChunks, HubP!MaxChunks, Hub!Running, HubP!Running, Hub!Cardinality, HubP!Cardinality
<1>10. \A j, c : Hub!Retry(j, c) <=> HubP!Retry(j, c)
  BY DEF Hub!Retry, HubP!Retry
<1>11. Hub!Land <=> HubP!Land
  BY DEF Hub!Land, HubP!Land, Hub!NoFile, HubP!NoFile
<1>12. \A j : Hub!NextFile(j) <=> HubP!NextFile(j)
  BY DEF Hub!NextFile, HubP!NextFile, Hub!NoTasks, HubP!NoTasks, Hub!Ranges, HubP!Ranges, Hub!MaxChunks,
    HubP!MaxChunks, Hub!Idle, HubP!Idle, Hub!Current, HubP!Current, Hub!InState, HubP!InState
<1>13. \A j : Hub!GiveUp(j) <=> HubP!GiveUp(j)
  BY <1>3 DEF Hub!GiveUp, HubP!GiveUp, Hub!InState, HubP!InState, Hub!Ranges, HubP!Ranges, Hub!MaxChunks,
    HubP!MaxChunks
<1>14. \A j : Hub!Ingest(j) <=> HubP!Ingest(j)
  BY <1>2 DEF Hub!Ingest, HubP!Ingest, Hub!Names, HubP!Names, Hub!NoFile, HubP!NoFile, Hub!Ingested, HubP!Ingested
<1> QED BY <1>1, <1>4, <1>6, <1>7, <1>8, <1>9, <1>10, <1>11, <1>12, <1>13, <1>14 DEF Hub!Next, HubP!Next, Hub!Ranges,
  HubP!Ranges, Hub!MaxChunks, HubP!MaxChunks

LEMMA HubSame ==
  /\ (Hub!Init <=> HubP!Init)
  /\ (UNCHANGED Hub!vars <=> UNCHANGED HubP!vars)
  /\ (Hub!TypeOK <=> HubP!TypeOK)
  /\ (Hub!FetchedIsWhole <=> HubP!FetchedIsWhole)
  /\ (Hub!HubConstants <=> HubP!HubConstants)
<1>1. Hub!Init <=> HubP!Init
  BY DEF Hub!Init, HubP!Init, Hub!Names, HubP!Names, Hub!NoFile, HubP!NoFile, Hub!NoTasks, HubP!NoTasks, Hub!Ranges,
    HubP!Ranges, Hub!MaxChunks, HubP!MaxChunks, Hub!Idle, HubP!Idle
<1>2. (UNCHANGED Hub!vars <=> UNCHANGED HubP!vars)
  BY DEF Hub!vars, HubP!vars
<1>3. Hub!TypeOK <=> HubP!TypeOK
  BY DEF Hub!TypeOK, HubP!TypeOK, Hub!Names, HubP!Names, Hub!Ranges, HubP!Ranges, Hub!MaxChunks, HubP!MaxChunks,
    Hub!NoFile, HubP!NoFile
<1>4. Hub!FetchedIsWhole <=> HubP!FetchedIsWhole
  BY DEF Hub!FetchedIsWhole, HubP!FetchedIsWhole, Hub!Whole, HubP!Whole, Hub!Ranges, HubP!Ranges, Hub!MaxChunks,
    HubP!MaxChunks, Hub!Hole, HubP!Hole, Hub!Running, HubP!Running, Hub!InState, HubP!InState, Hub!Retrying,
    HubP!Retrying, Hub!Apart, HubP!Apart, Hub!Cardinality, HubP!Cardinality
<1>5. Hub!HubConstants <=> HubP!HubConstants
  BY DEF Hub!HubConstants, HubP!HubConstants
<1> QED BY <1>1, <1>2, <1>3, <1>4, <1>5

-----------------------------------------------------------------------------
(* Full syncs *)

SyncP == INSTANCE PipelineSyncProofs WITH
  Pipelines <- {1}, Full <- {1}, Cur <- [r \in Rows |-> 0], TextRank <- [v \in {0} |-> 0], CursorColumn <- FALSE,
  MayDelete <- TRUE,
  source <- x1, connected <- x2, stored <- x3, last <- x4, record <- x5, running <- x6, cancelled <- x7, job <- x8,
  table <- x9, session <- x10, unindexed <- x11, failures <- x12, crashes <- x13, replacements <- x14, cancels <- x15

LEMMA SyncNextSame == Sync!Next <=> SyncP!Next
<1>1. \A p, j : Sync!Claim(p, j) <=> SyncP!Claim(p, j)
  BY DEF Sync!Claim, SyncP!Claim, Sync!storeVars, SyncP!storeVars, Sync!tableVars, SyncP!tableVars, Sync!counters,
    SyncP!counters
<1>2. \A j : Sync!Snapshot(j) <=> SyncP!Snapshot(j)
  BY DEF Sync!Snapshot, SyncP!Snapshot, Sync!storeVars, SyncP!storeVars, Sync!tableVars, SyncP!tableVars,
    Sync!counters, SyncP!counters, Sync!Ended, SyncP!Ended, Sync!FreeJob, SyncP!FreeJob, Sync!None, SyncP!None
<1>3. \A j : Sync!StartRun(j) <=> SyncP!StartRun(j)
  BY DEF Sync!StartRun, SyncP!StartRun, Sync!tableVars, SyncP!tableVars, Sync!counters, SyncP!counters
<1>4. \A j : Sync!NoConnection(j) <=> SyncP!NoConnection(j)
  BY DEF Sync!NoConnection, SyncP!NoConnection, Sync!storeVars, SyncP!storeVars, Sync!tableVars, SyncP!tableVars,
    Sync!counters, SyncP!counters, Sync!Ended, SyncP!Ended, Sync!FreeJob, SyncP!FreeJob, Sync!None, SyncP!None
<1>5. \A j : Sync!Prepare(j) <=> SyncP!Prepare(j)
  BY DEF Sync!Prepare, SyncP!Prepare, Sync!None, SyncP!None, Sync!storeVars, SyncP!storeVars, Sync!counters,
    SyncP!counters
<1>6. \A j : Sync!CheckCancel(j) <=> SyncP!CheckCancel(j)
  BY DEF Sync!CheckCancel, SyncP!CheckCancel, Sync!storeVars, SyncP!storeVars, Sync!tableVars, SyncP!tableVars,
    Sync!counters, SyncP!counters
<1>7. \A j : Sync!Fetch(j) <=> SyncP!Fetch(j)
  BY DEF Sync!Fetch, SyncP!Fetch, Sync!storeVars, SyncP!storeVars, Sync!tableVars, SyncP!tableVars, Sync!counters,
    SyncP!counters, Sync!Pages, SyncP!Pages, Sync!None, SyncP!None, Sync!TextMax, SyncP!TextMax, Sync!CursorsOf,
    SyncP!CursorsOf, Sync!Cardinality, SyncP!Cardinality
<1>8. \A j : Sync!AddRows(j) <=> SyncP!AddRows(j)
  BY DEF Sync!AddRows, SyncP!AddRows
<1>9. \A j : Sync!Add(j) <=> SyncP!Add(j)
  BY <1>8 DEF Sync!Add, SyncP!Add, Sync!storeVars, SyncP!storeVars, Sync!counters, SyncP!counters, Sync!NextCursor,
    SyncP!NextCursor, Sync!TextMax, SyncP!TextMax, Sync!CursorsOf, SyncP!CursorsOf, Sync!None, SyncP!None,
    Sync!Cardinality, SyncP!Cardinality
<1>10. \A j : Sync!Finish(j) <=> SyncP!Finish(j)
  BY DEF Sync!Finish, SyncP!Finish, Sync!storeVars, SyncP!storeVars, Sync!counters, SyncP!counters
<1>11. \A j : Sync!Fail(j) <=> SyncP!Fail(j)
  BY <1>8 DEF Sync!Fail, SyncP!Fail, Sync!storeVars, SyncP!storeVars, Sync!tableVars, SyncP!tableVars
<1>12. \A j : Sync!SaveWatermark(j) <=> SyncP!SaveWatermark(j)
  BY DEF Sync!SaveWatermark, SyncP!SaveWatermark
<1>13. \A j : Sync!SaveOutcome(j) <=> SyncP!SaveOutcome(j)
  BY <1>12 DEF Sync!SaveOutcome, SyncP!SaveOutcome, Sync!tableVars, SyncP!tableVars, Sync!counters, SyncP!counters
<1>14. \A j : Sync!Release(j) <=> SyncP!Release(j)
  BY DEF Sync!Release, SyncP!Release, Sync!storeVars, SyncP!storeVars, Sync!tableVars, SyncP!tableVars, Sync!counters,
    SyncP!counters, Sync!Ended, SyncP!Ended, Sync!FreeJob, SyncP!FreeJob, Sync!None, SyncP!None
<1>15. \A j : Sync!Run(j) <=> SyncP!Run(j)
  BY <1>2, <1>3, <1>4, <1>5, <1>6, <1>7, <1>9, <1>10, <1>13, <1>14 DEF Sync!Run, SyncP!Run
<1>16. \A r : Sync!NewRow(r) <=> SyncP!NewRow(r)
  BY DEF Sync!NewRow, SyncP!NewRow, Sync!storeVars, SyncP!storeVars, Sync!tableVars, SyncP!tableVars, Sync!counters,
    SyncP!counters
<1>17. \A j : Sync!CancelJob(j) <=> SyncP!CancelJob(j)
  BY DEF Sync!CancelJob, SyncP!CancelJob, Sync!storeVars, SyncP!storeVars, Sync!tableVars, SyncP!tableVars
<1>18. \A p : Sync!DeletePipeline(p) <=> SyncP!DeletePipeline(p)
  BY DEF Sync!DeletePipeline, SyncP!DeletePipeline, Sync!tableVars, SyncP!tableVars, Sync!counters, SyncP!counters
<1>19. Sync!DeleteConnection <=> SyncP!DeleteConnection
  BY DEF Sync!DeleteConnection, SyncP!DeleteConnection, Sync!tableVars, SyncP!tableVars, Sync!counters, SyncP!counters
<1>20. Sync!ReplaceHandle <=> SyncP!ReplaceHandle
  BY DEF Sync!ReplaceHandle, SyncP!ReplaceHandle, Sync!storeVars, SyncP!storeVars
<1>21. Sync!Crash <=> SyncP!Crash
  BY <1>12 DEF Sync!Crash, SyncP!Crash, Sync!Ended, SyncP!Ended, Sync!FreeJob, SyncP!FreeJob, Sync!None, SyncP!None
<1> QED BY <1>1, <1>11, <1>15, <1>16, <1>17, <1>18, <1>19, <1>20, <1>21 DEF Sync!Next, SyncP!Next

LEMMA SyncSame ==
  /\ (Sync!Init <=> SyncP!Init)
  /\ (UNCHANGED Sync!vars <=> UNCHANGED SyncP!vars)
  /\ (Sync!TypeOK <=> SyncP!TypeOK)
  /\ (Sync!DoneTakesAll <=> SyncP!DoneTakesAll)
<1>1. Sync!Init <=> SyncP!Init
  BY DEF Sync!Init, SyncP!Init, Sync!None, SyncP!None, Sync!FreeJob, SyncP!FreeJob
<1>2. (UNCHANGED Sync!vars <=> UNCHANGED SyncP!vars)
  BY DEF Sync!vars, SyncP!vars, Sync!storeVars, SyncP!storeVars, Sync!tableVars, SyncP!tableVars, Sync!counters,
    SyncP!counters
<1>3. Sync!TypeOK <=> SyncP!TypeOK
  BY DEF Sync!TypeOK, SyncP!TypeOK, Sync!JobType, SyncP!JobType, Sync!None, SyncP!None
<1>4. Sync!DoneTakesAll <=> SyncP!DoneTakesAll
  BY DEF Sync!DoneTakesAll, SyncP!DoneTakesAll
<1> QED BY <1>1, <1>2, <1>3, <1>4

-----------------------------------------------------------------------------
(* Ingests *)

IngestP == INSTANCE BulkIngestProofs WITH
  ClientWaits <- TRUE, HubJobs <- TRUE, MaxCancels <- 0,
  manifest <- x1, file <- x2, side <- x3, log <- x4, status <- x5, session <- x6, job <- x7, task <- x8,
  written <- x9, committed <- x10, failures <- x11, crashes <- x12, cancels <- x13

LEMMA IngestNextSame == Ingest!Next <=> IngestP!Next
<1>1. \A j, how : Ingest!BeginJob(j, how) <=> IngestP!BeginJob(j, how)
  BY DEF Ingest!BeginJob, IngestP!BeginJob, Ingest!tableVars, IngestP!tableVars, Ingest!counters, IngestP!counters,
    Ingest!NoJob, IngestP!NoJob, Ingest!MayStart, IngestP!MayStart
<1>2. \A j : Ingest!StartJob(j) <=> IngestP!StartJob(j)
  BY DEF Ingest!StartJob, IngestP!StartJob, Ingest!tableVars, IngestP!tableVars, Ingest!counters, IngestP!counters
<1>3. \A j : Ingest!WriteSegment(j) <=> IngestP!WriteSegment(j)
  BY DEF Ingest!WriteSegment, IngestP!WriteSegment, Ingest!counters, IngestP!counters
<1>4. \A j : Ingest!AppendLog(j) <=> IngestP!AppendLog(j)
  BY DEF Ingest!AppendLog, IngestP!AppendLog, Ingest!counters, IngestP!counters
<1>5. \A j : Ingest!SaveManifest(j) <=> IngestP!SaveManifest(j)
  BY DEF Ingest!SaveManifest, IngestP!SaveManifest, Ingest!counters, IngestP!counters, Ingest!NoJob, IngestP!NoJob,
    Ingest!PushSegment, IngestP!PushSegment, Ingest!WithRange, IngestP!WithRange
<1>6. \A j : Ingest!EndJob(j) <=> IngestP!EndJob(j)
  BY DEF Ingest!EndJob, IngestP!EndJob, Ingest!tableVars, IngestP!tableVars, Ingest!counters, IngestP!counters,
    Ingest!NoJob, IngestP!NoJob
<1>7. \A j : Ingest!FailJob(j) <=> IngestP!FailJob(j)
  BY DEF Ingest!FailJob, IngestP!FailJob, Ingest!tableVars, IngestP!tableVars, Ingest!NoJob, IngestP!NoJob
<1>8. \A j : Ingest!CancelJob(j) <=> IngestP!CancelJob(j)
  BY DEF Ingest!CancelJob, IngestP!CancelJob, Ingest!tableVars, IngestP!tableVars
<1>9. \A j : Ingest!JobStep(j) <=> IngestP!JobStep(j)
  BY <1>2, <1>3, <1>4, <1>5, <1>6 DEF Ingest!JobStep, IngestP!JobStep
<1>10. \A t : Ingest!BeginTask(t) <=> IngestP!BeginTask(t)
  BY DEF Ingest!BeginTask, IngestP!BeginTask, Ingest!tableVars, IngestP!tableVars, Ingest!counters, IngestP!counters,
    Ingest!NoTask, IngestP!NoTask, Ingest!MayStart, IngestP!MayStart
<1>11. \A t : Ingest!MarkBuilding(t) <=> IngestP!MarkBuilding(t)
  BY DEF Ingest!MarkBuilding, IngestP!MarkBuilding, Ingest!tableVars, IngestP!tableVars, Ingest!counters,
    IngestP!counters
<1>12. \A t : Ingest!Checkpoint(t) <=> IngestP!Checkpoint(t)
  BY DEF Ingest!Checkpoint, IngestP!Checkpoint, Ingest!counters, IngestP!counters, Ingest!Listed, IngestP!Listed,
    Ingest!HasFile, IngestP!HasFile
<1>13. \A t : Ingest!Scan(t) <=> IngestP!Scan(t)
  BY DEF Ingest!Scan, IngestP!Scan, Ingest!tableVars, IngestP!tableVars, Ingest!counters, IngestP!counters,
    Ingest!Listed, IngestP!Listed, Ingest!HasFile, IngestP!HasFile
<1>14. \A t, n : Ingest!BuildSidecar(t, n) <=> IngestP!BuildSidecar(t, n)
  BY DEF Ingest!BuildSidecar, IngestP!BuildSidecar, Ingest!counters, IngestP!counters
<1>15. \A t : Ingest!SidecarsDone(t) <=> IngestP!SidecarsDone(t)
  BY DEF Ingest!SidecarsDone, IngestP!SidecarsDone, Ingest!tableVars, IngestP!tableVars, Ingest!counters,
    IngestP!counters
<1>16. \A t : Ingest!ReadRanges(t) <=> IngestP!ReadRanges(t)
  BY DEF Ingest!ReadRanges, IngestP!ReadRanges, Ingest!tableVars, IngestP!tableVars, Ingest!counters,
    IngestP!counters, Ingest!RebuiltRange, IngestP!RebuiltRange, Ingest!HasFile, IngestP!HasFile
<1>17. \A t : Ingest!SaveRanges(t) <=> IngestP!SaveRanges(t)
  BY DEF Ingest!SaveRanges, IngestP!SaveRanges, Ingest!counters, IngestP!counters, Ingest!NoTask, IngestP!NoTask
<1>18. \A t : Ingest!MarkReady(t) <=> IngestP!MarkReady(t)
  BY DEF Ingest!MarkReady, IngestP!MarkReady, Ingest!tableVars, IngestP!tableVars, Ingest!counters, IngestP!counters
<1>19. \A t : Ingest!FailTask(t) <=> IngestP!FailTask(t)
  BY DEF Ingest!FailTask, IngestP!FailTask, Ingest!tableVars, IngestP!tableVars, Ingest!NoTask, IngestP!NoTask
<1>20. \A t : Ingest!EndTask(t) <=> IngestP!EndTask(t)
  BY DEF Ingest!EndTask, IngestP!EndTask, Ingest!tableVars, IngestP!tableVars, Ingest!counters, IngestP!counters
<1>21. \A t : Ingest!TaskStep(t) <=> IngestP!TaskStep(t)
  BY <1>11, <1>12, <1>13, <1>14, <1>15, <1>16, <1>17, <1>18, <1>20 DEF Ingest!TaskStep, IngestP!TaskStep,
    Ingest!Segments, IngestP!Segments
<1>22. Ingest!Crash <=> IngestP!Crash
  BY DEF Ingest!Crash, IngestP!Crash, Ingest!tableVars, IngestP!tableVars, Ingest!NoJob, IngestP!NoJob, Ingest!NoTask,
    IngestP!NoTask
<1> QED BY <1>1, <1>7, <1>8, <1>9, <1>10, <1>19, <1>21, <1>22 DEF Ingest!Next, IngestP!Next

LEMMA IngestSame ==
  /\ (Ingest!Init <=> IngestP!Init)
  /\ (UNCHANGED Ingest!vars <=> UNCHANGED IngestP!vars)
  /\ (Ingest!TypeOK <=> IngestP!TypeOK)
  /\ (Ingest!CommittedKept <=> IngestP!CommittedKept)
  /\ (Ingest!ReadyIsIndexed <=> IngestP!ReadyIsIndexed)
  /\ (Ingest!ReadyIsFetchable <=> IngestP!ReadyIsFetchable)
<1>1. Ingest!Init <=> IngestP!Init
  BY DEF Ingest!Init, IngestP!Init, Ingest!Segments, IngestP!Segments, Ingest!NoFile, IngestP!NoFile, Ingest!NoJob,
    IngestP!NoJob, Ingest!NoTask, IngestP!NoTask
<1>2. (UNCHANGED Ingest!vars <=> UNCHANGED IngestP!vars)
  BY DEF Ingest!vars, IngestP!vars, Ingest!tableVars, IngestP!tableVars, Ingest!counters, IngestP!counters
<1>3. Ingest!TypeOK <=> IngestP!TypeOK
  BY DEF Ingest!TypeOK, IngestP!TypeOK, Ingest!Segments, IngestP!Segments, Ingest!ManifestType, IngestP!ManifestType
<1>4. Ingest!CommittedKept <=> IngestP!CommittedKept
  BY DEF Ingest!CommittedKept, IngestP!CommittedKept, Ingest!Listed, IngestP!Listed
<1>5. Ingest!ReadyIsIndexed <=> IngestP!ReadyIsIndexed
  BY DEF Ingest!ReadyIsIndexed, IngestP!ReadyIsIndexed, Ingest!Listed, IngestP!Listed
<1>6. Ingest!ReadyIsFetchable <=> IngestP!ReadyIsFetchable
  BY DEF Ingest!ReadyIsFetchable, IngestP!ReadyIsFetchable
<1> QED BY <1>1, <1>2, <1>3, <1>4, <1>5, <1>6

-----------------------------------------------------------------------------
(* The parts, side by side *)

\* Each part starts as its module does, and takes its steps.
LEMMA PartStarts ==
  ASSUME Init
  PROVE  /\ part = "jobs" => Lists!Init
         /\ part = "store" => Store!Init
         /\ part = "hub" => Hub!Init
         /\ part = "sync" => Sync!Init
         /\ part = "ingest" => Ingest!Init
         /\ part = "catalogue" => Tables!Init
         /\ part = "text" => Text!Init
         /\ part = "caches" => Caches!Init
BY Zenon DEF Init

LEMMA PartSteps ==
  ASSUME [Next]_slots
  PROVE  /\ part' = part
         /\ part = "jobs" => [Lists!Next]_(Lists!vars)
         /\ part = "store" => [Store!Next]_(Store!vars)
         /\ part = "hub" => [Hub!Next]_(Hub!vars)
         /\ part = "sync" => [Sync!Next]_(Sync!vars)
         /\ part = "ingest" => [Ingest!Next]_(Ingest!vars)
         /\ part = "catalogue" => [Tables!Next]_(Tables!vars)
         /\ part = "text" => [Text!Next]_(Text!vars)
         /\ part = "caches" => [Caches!Next]_(Caches!vars)
<1>1. CASE Next
  BY <1>1 DEF Next
<1>2. CASE UNCHANGED slots
  <2>1. UNCHANGED <<part, x1, x2, x3, x4, x5, x6, x7, x8, x9, x10, x11, x12, x13, x14, x15>>
    BY <1>2 DEF slots, from8, from12, from14
  <2>2. UNCHANGED Lists!vars /\ UNCHANGED Store!vars /\ UNCHANGED Tables!vars
    BY <2>1 DEF Lists!vars, Store!vars, Tables!vars
  <2>3. UNCHANGED Hub!vars
    BY <2>1 DEF Hub!vars
  <2>4. UNCHANGED Sync!vars
    BY <2>1 DEF Sync!vars, Sync!storeVars, Sync!tableVars, Sync!counters
  <2>5. UNCHANGED Ingest!vars
    BY <2>1 DEF Ingest!vars, Ingest!tableVars, Ingest!counters
  <2>6. UNCHANGED Text!vars /\ UNCHANGED Caches!vars
    BY <2>1 DEF Text!vars, Caches!vars
  <2> QED BY <2>1, <2>2, <2>3, <2>4, <2>5, <2>6
<1> QED BY <1>1, <1>2

LEMMA JobsHold == Spec => [](part = "jobs" => JobsInv)
<1>1. MaxListed \in Nat
  BY ServerAssumption
<1>2. Init => (part = "jobs" => JobsInv)
  <2>1. Lists!Init => ListInv
    <3> SUFFICES ASSUME Lists!Init PROVE ListInv
      OBVIOUS
    <3>1. jobs = <<>> /\ cancels = {}
      BY DEF Lists!Init
    <3> QED BY <1>1, <3>1 DEF ListInv
  <2> QED BY <2>1, PartStarts, JobsStart DEF JobsInv
<1>3. (part = "jobs" => JobsInv) /\ [Next]_slots => (part = "jobs" => JobsInv)'
  BY <1>1, PartSteps, WorkerStep, ShownStep, ListStep DEF JobsInv
<1> QED BY <1>2, <1>3, PTL DEF Spec

LEMMA StoreHolds == Spec => [](part = "store" => Store!StoreInv)
<1>1. Init => (part = "store" => Store!StoreInv)
  BY PartStarts, StoreStart, ServerAssumption
<1>2. (part = "store" => Store!StoreInv) /\ [Next]_slots => (part = "store" => Store!StoreInv)'
  BY PartSteps, StoreStep, ServerAssumption
<1> QED BY <1>1, <1>2, PTL DEF Spec

LEMMA CatalogueHolds == Spec => [](part = "catalogue" => Tables!TypeOK /\ ViewInv)
<1>1. MaxRows \in Nat
  BY ServerAssumption
<1>2. Init => (part = "catalogue" => Tables!TypeOK /\ ViewInv)
  BY <1>1, PartStarts, CatalogueStart, ViewStart
<1>3. (part = "catalogue" => Tables!TypeOK /\ ViewInv) /\ [Next]_slots
        => (part = "catalogue" => Tables!TypeOK /\ ViewInv)'
  BY <1>1, PartSteps, CatalogueStep, ViewStep
<1> QED BY <1>2, <1>3, PTL DEF Spec

LEMMA TextHolds == Spec => [](part = "text" => Text!ScanInv)
<1>1. Init => (part = "text" => Text!ScanInv)
  BY PartStarts, SearchStarts, ServerAssumption
<1>2. (part = "text" => Text!ScanInv) /\ [Next]_slots => (part = "text" => Text!ScanInv)'
  BY PartSteps, ScanStep, ServerAssumption
<1> QED BY <1>1, <1>2, PTL DEF Spec

LEMMA CachesHold == Spec => [](part = "caches" => Caches!CachesInv)
<1>1. Init => (part = "caches" => Caches!CachesInv)
  BY PartStarts, CachesStart, ServerAssumption
<1>2. (part = "caches" => Caches!CachesInv) /\ [Next]_slots => (part = "caches" => Caches!CachesInv)'
  BY PartSteps, CachesStep, ServerAssumption
<1> QED BY <1>1, <1>2, PTL DEF Spec

LEMMA HubHolds == Spec => [](part = "hub" => Hub!TypeOK /\ Hub!FetchedIsWhole)
<1>1. HubP!HubConstants
  BY ServerAssumption, HubSame
<1>2. HubP!Spec => []HubP!TypeOK
  BY <1>1, HubP!HubTypes
<1>3. HubP!Spec => []HubP!FetchedIsWhole
  BY <1>1, HubP!FetchedWhole
<1>4. Init /\ part = "hub" => HubP!Init
  BY PartStarts, HubSame
<1>5. part = "hub" /\ [Next]_slots => (part = "hub")' /\ [HubP!Next]_(HubP!vars)
  BY PartSteps, HubNextSame, HubSame
<1>6. ~(part = "hub") /\ [Next]_slots => ~(part = "hub")'
  BY PartSteps
<1>7. HubP!TypeOK /\ HubP!FetchedIsWhole => Hub!TypeOK /\ Hub!FetchedIsWhole
  BY HubSame
<1> QED BY <1>2, <1>3, <1>4, <1>5, <1>6, <1>7, PTL DEF Spec, HubP!Spec

LEMMA SyncHolds == Spec => [](part = "sync" => Sync!TypeOK /\ Sync!DoneTakesAll)
<1>1. /\ {1} \subseteq {1}
      /\ Rows \subseteq Nat \ {0} /\ SyncP!IsFiniteSet(Rows)
      /\ [r \in Rows |-> 0] \in [Rows -> Nat]
      /\ \A r, q \in Rows : r < q => [s \in Rows |-> 0][r] <= [s \in Rows |-> 0][q]
      /\ [v \in {0} |-> 0] \in [{SyncP!None} \cup {[s \in Rows |-> 0][r] : r \in Rows} -> Nat]
      /\ \A v \in DOMAIN [v \in {0} |-> 0] \ {SyncP!None} : [w \in {0} |-> 0][SyncP!None] < [w \in {0} |-> 0][v]
      /\ BatchSize \in Nat \ {0} /\ MaxCopies \in Nat \ {0}
      /\ {MaxFailures, MaxCrashes, MaxReplacements, MaxCancels} \subseteq Nat
      /\ {FALSE, TRUE} \subseteq BOOLEAN
  <2>1. Rows \subseteq Nat \ {0} /\ IsFiniteSet(Rows)
    BY ServerAssumption
  <2>2. SyncP!IsFiniteSet(Rows)
    BY <2>1 DEF IsFiniteSet, SyncP!IsFiniteSet
  <2>3. [v \in {0} |-> 0] \in [{SyncP!None} \cup {[s \in Rows |-> 0][r] : r \in Rows} -> Nat]
    BY DEF SyncP!None
  <2>4. \A v \in DOMAIN [v \in {0} |-> 0] \ {SyncP!None} : [w \in {0} |-> 0][SyncP!None] < [w \in {0} |-> 0][v]
    BY DEF SyncP!None
  <2>5. BatchSize \in Nat \ {0} /\ MaxCopies \in Nat \ {0} /\ {MaxFailures, MaxCrashes, MaxReplacements, MaxCancels} \subseteq Nat
    BY ServerAssumption
  <2> QED BY <2>1, <2>2, <2>3, <2>4, <2>5
<1>2. SyncP!Spec => []SyncP!TypeOK
  BY <1>1, SyncP!SyncTypes, Zenon
<1>3. SyncP!Spec => []SyncP!DoneTakesAll
  <2>1. SyncP!Alone /\ SyncP!CursorsApart
    BY DEF SyncP!Alone, SyncP!CursorsApart
  <2> QED BY <1>1, <2>1, SyncP!DoneIsComplete, Zenon
<1>4. Init /\ part = "sync" => SyncP!Init
  BY PartStarts, SyncSame
<1>5. part = "sync" /\ [Next]_slots => (part = "sync")' /\ [SyncP!Next]_(SyncP!vars)
  BY PartSteps, SyncNextSame, SyncSame
<1>6. ~(part = "sync") /\ [Next]_slots => ~(part = "sync")'
  BY PartSteps
<1>7. SyncP!TypeOK /\ SyncP!DoneTakesAll => Sync!TypeOK /\ Sync!DoneTakesAll
  BY SyncSame
<1> QED BY <1>2, <1>3, <1>4, <1>5, <1>6, <1>7, PTL DEF Spec, SyncP!Spec

LEMMA IngestHolds ==
  Spec => [](part = "ingest"
             => Ingest!TypeOK /\ Ingest!CommittedKept /\ Ingest!ReadyIsIndexed /\ Ingest!ReadyIsFetchable)
<1>1. /\ MaxBatches \in Nat /\ {MaxFailures, MaxCrashes, 0} \subseteq Nat
      /\ {TRUE, TRUE} \subseteq BOOLEAN
  BY ServerAssumption
<1>2. IngestP!Spec => []IngestP!TypeOK
  BY <1>1, IngestP!IngestTypes
<1>3. IngestP!Spec => [](x13 = 0 => IngestP!CommittedKept)
  BY <1>1, IngestP!TakenIsKept
<1>4. IngestP!Spec => [](x13 = 0 => IngestP!ReadyIsIndexed)
  BY <1>1, IngestP!ReadyHasSidecars
<1>5. IngestP!Spec => [](x13 = 0 => IngestP!ReadyIsFetchable)
  BY <1>1, IngestP!ReadyIsFetched
<1>6. IngestP!Spec => [](x13 = 0)
  BY <1>1, IngestP!NoneCancelled
<1>7. Init /\ part = "ingest" => IngestP!Init
  BY PartStarts, IngestSame
<1>8. part = "ingest" /\ [Next]_slots => (part = "ingest")' /\ [IngestP!Next]_(IngestP!vars)
  BY PartSteps, IngestNextSame, IngestSame
<1>9. ~(part = "ingest") /\ [Next]_slots => ~(part = "ingest")'
  BY PartSteps
<1>10. IngestP!TypeOK /\ IngestP!CommittedKept /\ IngestP!ReadyIsIndexed /\ IngestP!ReadyIsFetchable
         => Ingest!TypeOK /\ Ingest!CommittedKept /\ Ingest!ReadyIsIndexed /\ Ingest!ReadyIsFetchable
  BY IngestSame
<1> QED BY <1>2, <1>3, <1>4, <1>5, <1>6, <1>7, <1>8, <1>9, <1>10, PTL DEF Spec, IngestP!Spec

-----------------------------------------------------------------------------
(* The theorems *)

\* What a job is shown to have ended with has come of it, and not of another job of
\* the list, for a list of any length (list_ingest_jobs, lib.rs:963).
THEOREM ShownTrue == Spec => []ShownIsTrue
BY JobsHold, JobsShow, PTL DEF ShownIsTrue

\* What clients were told is there survives the end of the process at any moment,
\* between the key file and the files it encrypts, and whichever write fails: for
\* any number of connections, pipelines, users, keys, sessions and restarts.
\* (PipeStore::open, SecretBox::open, AuthStore::open, add_connection, create_user)
THEOREM AcknowledgedSurvives == Spec => []AnswersSurvive
<1>1. Store!StoreInv => Store!AnswersSurvive
  BY DEF Store!StoreInv, Store!TypeOK, Store!Safe, Store!AnswersSurvive, Store!Valid
<1> QED BY <1>1, StoreHolds, PTL DEF AnswersSurvive

\* What a download has fetched, whole or by ranges, again or after failures, is the
\* file of the hub, for any files and any number of downloads (hf_transfer.rs:183).
THEOREM FetchedWhole == Spec => []FetchedIsWhole
BY HubHolds, PTL DEF FetchedIsWhole

\* A sync in full mode that is done has taken every row there was when it began, for
\* any rows, pages, failures, crashes and new rows (pipeline.rs:55).
THEOREM FullIsComplete == Spec => []FullTakesAll
BY SyncHolds, PTL DEF FullTakesAll

\* For a client that waits for each job and cancels none, rows whose manifest was saved
\* are kept, and a table that is ready is indexed and can be read, whatever fails or
\* crashes (finalize_bulk_table_indexes, persist.rs:1021).
THEOREM ReadyServes == Spec => []ReadyTableServes
BY IngestHolds, PTL DEF ReadyTableServes

\* A view that can be read holds the ids of one search for it, whole, however many
\* handles save it, in whatever order, and wherever a crash cuts them; and only a crash
\* in its save or the meeting of two saves leaves it unreadable, never a statement that
\* ends in an error.  (save_view, query_materialized_view)
THEOREM ViewsWhole == Spec => []ViewIsOneAnswer
<1>1. ViewInv => Tables!ViewIsOneAnswer /\ Tables!BrokenHasCause
  BY DEF ViewInv
<1> QED BY <1>1, CatalogueHolds, PTL DEF ViewIsOneAnswer

\* The search by cursors, blocks and bounds finds what a scan of every document would,
\* with the ties it would keep, and passes by no document that still has a place among
\* the best, for any texts, queries, ranges and sizes of blocks: as long as an id fits
\* the width a list stores the first id of a block in. (search_daat, bm25_tbm3.rs:936)
THEOREM SearchesExactly ==
  ASSUME MaxId < DeltaWidth
  PROVE  Spec => []SearchExact
<1>1. Text!ScanInv => Text!ScanExact /\ Text!PassedAreBeaten
  BY ScansExactly, PassedBeaten, ServerAssumption
<1> QED BY <1>1, TextHolds, PTL DEF SearchExact

\* A cache counts every entry it has once, gives out the oldest first, and stays within
\* its bound unless a single entry is larger, for any files, sizes and bounds; the one
\* for BM25 as long as no file it holds changes (SegmentCache, BlobCache, cache.rs:123).
THEOREM CachesAreBounded == Spec => []CachesBounded
<1>1. Caches!CachesInv => Caches!CachesBounded
  BY DEF Caches!CachesInv
<1> QED BY <1>1, CachesHold, PTL DEF CachesBounded

\* Every variable of every part keeps its type: no list is longer than its limit, no
\* process gives more ids than it answers requests, no file or manifest names what was
\* never written.
THEOREM ServerTypes == Spec => []TypesOK
<1>1. Store!StoreInv => Store!TypeOK
  BY DEF Store!StoreInv
<1>2. (Text!ScanInv => Text!TypeOK) /\ (Caches!CachesInv => Caches!TypeOK)
  BY SearchIsTyped, CachesAreTyped, ServerAssumption
<1> QED BY <1>1, <1>2, JobsHold, JobsShow, StoreHolds, HubHolds, SyncHolds, IngestHolds, CatalogueHolds, TextHolds,
           CachesHold, PTL DEF TypesOK
=============================================================================
