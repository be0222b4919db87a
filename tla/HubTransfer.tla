------------------------------ MODULE HubTransfer ------------------------------
(***************************************************************************)
(* Files of a dataset fetched from the Hub for an ingest.                  *)
(* (toradb-engine ingest_hf.rs and hf_transfer.rs)                         *)
(*                                                                         *)
(* A job lists the dataset, picks the files and fetches one after the      *)
(* other.  A file is fetched in ranges, each by a task of its own: at most *)
(* MaxFiles ask at a time, a failed one waits and tries again.  The first  *)
(* task that gives up fails the job, and nobody stops the others.  A write *)
(* of tokio's File has only been handed over when it returns: the bytes    *)
(* land later.  Headers, redirects and waiting times are left out.         *)
(***************************************************************************)
EXTENDS Integers, Sequences, FiniteSets

CONSTANTS
  Remote,            \* the files of the dataset, in the order of their paths:
                     \* [name, kind, nested, split, config, chunks]
  Served,            \* what the datasets server lists: positions of Remote
  Requests,          \* what jobs ask for: [split, config, few]
  Dirs,              \* download directories: a dataset and a second
  Jobs,
  MaxFiles,          \* 8 ranges at a time
  ParallelFailures,  \* 3 ranges trying again
  MaxRetries,        \* 5
  Unset              \* no split, no config

VARIABLES
  pc,        \* job -> "resolve", "fetch", "await", "complete", "done" or "failed"
  dir,       \* job -> its directory
  files,     \* job -> files picked, as positions of Remote
  format,    \* job -> their kind
  at,        \* job -> the file being fetched
  tasks,     \* job -> range -> its task
  local,     \* directory -> name -> range -> the file it came from
  gone,      \* directories that are not there
  landing,   \* writes handed over that have not landed
  lost,      \* whether a write failed after it was handed over
  read       \* job -> what its ingest read

vars == <<pc, dir, files, format, at, tasks, local, gone, landing, lost, read>>

Names == {Remote[i].name : i \in DOMAIN Remote}
MaxChunks == CHOOSE n \in {Remote[i].chunks : i \in DOMAIN Remote} : \A i \in DOMAIN Remote : Remote[i].chunks <= n
Ranges == 1 .. MaxChunks

\* Positions of Remote are the files; 0 is a hole.
NoFile == <<>>
Hole == 0
Empty == [c \in Ranges |-> Hole]
Whole(f) == [c \in Ranges |-> IF c <= Remote[f].chunks THEN f ELSE Hole]

---------------------------------------------------------------------------
(* The files *)

MatchesSplit(f, split) == split = Unset \/ Remote[f].split = split \/ ~Remote[f].nested
MatchesConfig(f, config) == config = Unset \/ Remote[f].config = config

Matching(kind, ask) ==
  {f \in DOMAIN Remote :
     Remote[f].kind = kind /\ MatchesSplit(f, ask.split) /\ MatchesConfig(f, ask.config)}

\* The one sequence of a set's files in the order of Remote.
InOrder(S) == {s \in [1 .. Cardinality(S) -> S] : \A a, b \in DOMAIN s : a < b => s[a] < s[b]}

\* Parquet files of the repository, or else JSON lines.
Picked(ask) ==
  IF Matching("parquet", ask) # {} THEN InOrder(Matching("parquet", ask)) \X {"parquet"}
  ELSE InOrder(Matching("jsonl", ask)) \X {"jsonl"}

\* One file is enough for a job with a small limit.
Truncated(s, ask) == IF Len(s) > 1 /\ ask.few THEN SubSeq(s, 1, 1) ELSE s

\* The datasets server may fail or list nothing: then the repository is listed, and
\* that may fail too.
Listings(ask) == {<<Served, "parquet">>, <<NoFile, "jsonl">>} \cup Picked(ask)

\* A directory is named for the dataset and the second: two jobs may share one.
Resolve(j) ==
  /\ pc[j] = "resolve"
  /\ \E ask \in Requests, d \in Dirs : \E picked \in Listings(ask) :
       /\ dir' = [dir EXCEPT ![j] = d]
       /\ gone' = gone \ {d}
       /\ IF picked[1] = NoFile
            THEN pc' = [pc EXCEPT ![j] = "failed"] /\ UNCHANGED <<files, format>>
            ELSE /\ pc' = [pc EXCEPT ![j] = "fetch"]
                 /\ files' = [files EXCEPT ![j] = Truncated(picked[1], ask)]
                 /\ format' = [format EXCEPT ![j] = picked[2]]
  /\ UNCHANGED <<at, tasks, local, landing, lost, read>>

---------------------------------------------------------------------------
(* One file *)

Idle == [state |-> "idle", tries |-> 0]
NoTasks == [c \in Ranges |-> Idle]

Current(j) == files[j][at[j]]
Name(j) == Remote[Current(j)].name

InState(j, s) == {c \in Ranges : tasks[j][c].state = s}

\* A task of a range holds its permit until it has ended.
Running(j) == UNION {InState(j, s) : s \in {"open", "asks", "loose", "waits"}}

\* A task that tries again is counted from its wait to the answer.
Retrying(j) == InState(j, "waits") \cup {c \in Running(j) : tasks[j][c].tries > 0}

\* A task that has a file open which is removed goes on with it.
Removed(d, names) ==
  tasks' = [j \in Jobs |-> [c \in Ranges |->
              IF tasks[j][c].state = "asks" /\ dir[j] = d /\ Name(j) \in names
                THEN [tasks[j][c] EXCEPT !.state = "loose"] ELSE tasks[j][c]]]

\* A download that fails removes the file it finds under its name.
RemoveFile(j) ==
  /\ pc' = [pc EXCEPT ![j] = "failed"]
  /\ local' = [local EXCEPT ![dir[j]][Name(j)] = NoFile]
  /\ landing' = {w \in landing : <<w.dir, w.name>> # <<dir[j], Name(j)>>}
  /\ Removed(dir[j], {Name(j)})

\* The first request gives the length, and one task is spawned for each range.
Spawn(j) ==
  /\ pc[j] = "fetch"
  /\ \/ /\ pc' = [pc EXCEPT ![j] = "await"]
        /\ tasks' = [tasks EXCEPT ![j] =
             [c \in Ranges |-> IF c <= Remote[Current(j)].chunks THEN [Idle EXCEPT !.state = "queued"] ELSE Idle]]
        /\ UNCHANGED <<local, landing>>
     \/ RemoveFile(j)
  /\ UNCHANGED <<dir, files, format, at, gone, lost, read>>

Becomes(j, c, state) == tasks' = [tasks EXCEPT ![j][c].state = state]

Acquire(j, c) ==
  /\ tasks[j][c].state = "queued"
  /\ Cardinality(Running(j)) < MaxFiles
  /\ Becomes(j, c, "open")
  /\ UNCHANGED <<pc, dir, files, format, at, local, gone, landing, lost, read>>

\* The file is opened, and made when it is not there, but never cut.
Open(j, c) ==
  /\ tasks[j][c].state = "open"
  /\ dir[j] \notin gone
  /\ local' = [local EXCEPT ![dir[j]][Name(j)] = IF @ = NoFile THEN Empty ELSE @]
  /\ Becomes(j, c, "asks")
  /\ UNCHANGED <<pc, dir, files, format, at, gone, landing, lost, read>>

Lands(j, c) == [dir |-> dir[j], name |-> Name(j), range |-> c, from |-> Current(j)]

Answer(j, c) ==
  /\ tasks[j][c].state \in {"asks", "loose"}
  /\ landing' = IF tasks[j][c].state = "asks" THEN landing \cup {Lands(j, c)} ELSE landing
  /\ Becomes(j, c, "ok")
  /\ UNCHANGED <<pc, dir, files, format, at, local, gone, lost, read>>

\* (mutant) a range that has used up its tries ends like one that was fetched
RefuseQuietly(j, c) ==
  /\ tasks[j][c].state \in {"asks", "loose"}
  /\ Becomes(j, c, IF tasks[j][c].tries >= MaxRetries THEN "ok" ELSE "waits")
  /\ UNCHANGED <<pc, dir, files, format, at, local, gone, landing, lost, read>>

\* A request fails, or the file cannot be opened: the task waits and tries again,
\* unless it did so too often or too many try again already.
Refuse(j, c) ==
  /\ tasks[j][c].state \in {"asks", "loose"} \/ (tasks[j][c].state = "open" /\ dir[j] \in gone)
  /\ Becomes(j, c, IF /\ ParallelFailures > 0
                      /\ tasks[j][c].tries < MaxRetries
                      /\ Cardinality(Retrying(j) \ {c}) < ParallelFailures
                   THEN "waits" ELSE "error")
  /\ UNCHANGED <<pc, dir, files, format, at, local, gone, landing, lost, read>>

Retry(j, c) ==
  /\ tasks[j][c].state = "waits"
  /\ tasks' = [tasks EXCEPT ![j][c] = [state |-> "open", tries |-> @.tries + 1]]
  /\ UNCHANGED <<pc, dir, files, format, at, local, gone, landing, lost, read>>

\* A write lands in the file, or fails with nobody there to be told.
Land ==
  /\ \E w \in landing :
       /\ landing' = landing \ {w}
       /\ \/ /\ local' = [local EXCEPT ![w.dir][w.name] = IF @ = NoFile THEN @ ELSE [@ EXCEPT ![w.range] = w.from]]
             /\ UNCHANGED lost
          \/ lost' = TRUE /\ UNCHANGED local
  /\ UNCHANGED <<pc, dir, files, format, at, tasks, gone, read>>

\* All ranges have been fetched: the next file, or the ingest.
NextFile(j) ==
  /\ pc[j] = "await"
  /\ InState(j, "ok") = 1 .. Remote[Current(j)].chunks
  /\ tasks' = [tasks EXCEPT ![j] = NoTasks]
  /\ IF at[j] < Len(files[j])
       THEN pc' = [pc EXCEPT ![j] = "fetch"] /\ at' = [at EXCEPT ![j] = @ + 1]
       ELSE pc' = [pc EXCEPT ![j] = "complete"] /\ UNCHANGED at
  /\ UNCHANGED <<dir, files, format, local, gone, landing, lost, read>>

\* One range gave up: the file is removed, while other tasks go on.
GiveUp(j) ==
  /\ pc[j] = "await"
  /\ InState(j, "error") # {}
  /\ RemoveFile(j)
  /\ UNCHANGED <<dir, files, format, at, gone, lost, read>>

---------------------------------------------------------------------------
(* The ingest *)

\* Every Parquet file of the directory, or the first file of JSON lines.
Ingested(j) ==
  IF format[j] = "parquet" THEN {local[dir[j]][n] : n \in Names} \ {NoFile}
  ELSE {local[dir[j]][Remote[files[j][1]].name]}

\* The directory is removed when its files could be read.
Ingest(j) ==
  /\ pc[j] = "complete"
  /\ \/ /\ pc' = [pc EXCEPT ![j] = "done"]
        /\ read' = [read EXCEPT ![j] = Ingested(j)]
        /\ local' = [local EXCEPT ![dir[j]] = [n \in Names |-> NoFile]]
        /\ landing' = {w \in landing : w.dir # dir[j]}
        /\ gone' = gone \cup {dir[j]}
        /\ Removed(dir[j], Names)
     \/ pc' = [pc EXCEPT ![j] = "failed"] /\ UNCHANGED <<read, local, landing, gone, tasks>>
  /\ UNCHANGED <<dir, files, format, at, lost>>

---------------------------------------------------------------------------
(* The specification *)

Init ==
  /\ pc = [j \in Jobs |-> "resolve"]
  /\ dir \in [Jobs -> Dirs]
  /\ files = [j \in Jobs |-> <<>>]
  /\ format = [j \in Jobs |-> "parquet"]
  /\ at = [j \in Jobs |-> 1]
  /\ tasks = [j \in Jobs |-> NoTasks]
  /\ local = [d \in Dirs |-> [n \in Names |-> NoFile]]
  /\ gone = Dirs
  /\ landing = {}
  /\ lost = FALSE
  /\ read = [j \in Jobs |-> {}]

Next ==
  \/ Land
  \/ \E j \in Jobs :
       \/ Resolve(j) \/ Spawn(j) \/ NextFile(j) \/ GiveUp(j) \/ Ingest(j)
       \/ \E c \in Ranges : Acquire(j, c) \/ Open(j, c) \/ Answer(j, c) \/ Refuse(j, c) \/ Retry(j, c)

Spec == Init /\ [][Next]_vars

---------------------------------------------------------------------------
(* Properties *)

\* Jobs, their tasks and the files on disk.
TypeOK ==
  /\ pc \in [Jobs -> {"resolve", "fetch", "await", "complete", "done", "failed"}]
  /\ \A j \in Jobs : files[j] \in Seq(DOMAIN Remote) /\ format[j] \in {"parquet", "jsonl"}
  /\ \A j \in Jobs, c \in Ranges :
       /\ tasks[j][c].state \in {"idle", "queued", "open", "asks", "loose", "waits", "ok", "error"}
       /\ tasks[j][c].tries \in 0 .. MaxRetries
  /\ \A d \in Dirs, n \in Names : local[d][n] = NoFile \/ local[d][n] \in [Ranges -> 0 .. Len(Remote)]

\* The jobs whose directory and file names are theirs alone.
Apart(j) ==
  /\ \A k \in Jobs \ {j} : dir[k] # dir[j]
  /\ \A a, b \in DOMAIN files[j] : a # b => Remote[files[j][a]].name # Remote[files[j][b]].name

\* The failures and the retries of ranges leave no hole: once its writes have
\* landed and none was lost, each file that a job has fetched, whatever its ranges
\* went through, is the file of the Hub; and no more ranges are asked for at a time,
\* or tried again, than the settings allow.  (download_inner, download_chunk)
FetchedIsWhole ==
  /\ \A j \in Jobs :
       /\ pc[j] = "complete" /\ Apart(j) /\ landing = {} /\ ~lost
            => \A a \in DOMAIN files[j] : local[dir[j]][Remote[files[j][a]].name] = Whole(files[j][a])
       /\ Cardinality(Running(j)) <= MaxFiles
       /\ Cardinality(Retrying(j)) <= ParallelFailures

\* What a job has picked is what it reads, whole.  Not so: writes may not have
\* landed yet, files of one name replace each other, only the first file of JSON
\* lines is read, and jobs of one second share a directory.
ReadsAllPicked ==
  \A j \in Jobs : pc[j] = "done" => read[j] = {Whole(files[j][a]) : a \in DOMAIN files[j]}

\* A download that failed leaves no file.  Not so: tasks that go on make it again.
FailedLeavesNothing ==
  \A j \in Jobs : pc[j] = "failed" /\ files[j] # <<>> /\ Running(j) = {} /\ InState(j, "queued") = {}
                    => local[dir[j]][Name(j)] = NoFile

---------------------------------------------------------------------------
(* Inductive strengthening of TypeOK and FetchedIsWhole *)

\* The bounds, and files of at least one range: an empty one is never opened.
HubConstants ==
  /\ Remote \in Seq({Remote[i] : i \in DOMAIN Remote})
  /\ Remote # <<>> /\ \A i \in DOMAIN Remote : Remote[i].chunks \in Nat \ {0}
  /\ Served \in Seq(DOMAIN Remote)
  /\ {MaxFiles, ParallelFailures, MaxRetries} \subseteq Nat

States == {"idle", "queued", "open", "asks", "loose", "waits", "ok", "error"}
Writes == [dir : Dirs, name : Names, range : Ranges, from : DOMAIN Remote]

TypeInv ==
  /\ pc \in [Jobs -> {"resolve", "fetch", "await", "complete", "done", "failed"}]
  /\ dir \in [Jobs -> Dirs] /\ files \in [Jobs -> Seq(DOMAIN Remote)]
  /\ format \in [Jobs -> {"parquet", "jsonl"}] /\ at \in [Jobs -> Nat \ {0}]
  /\ tasks \in [Jobs -> [Ranges -> [state : States, tries : 0 .. MaxRetries]]]
  /\ local \in [Dirs -> [Names -> {NoFile} \cup [Ranges -> 0 .. Len(Remote)]]]
  /\ landing \subseteq Writes /\ lost \in BOOLEAN

\* A job has tasks while it fetches a file, or fetched one when it failed.
TasksInv ==
  \A j \in Jobs :
    /\ pc[j] \in {"resolve", "fetch", "complete"} => tasks[j] = NoTasks
    /\ pc[j] \in {"fetch", "await", "complete"} \/ tasks[j] # NoTasks => at[j] \in DOMAIN files[j]
    /\ pc[j] = "resolve" => at[j] = 1
    /\ pc[j] = "complete" => at[j] = Len(files[j])
    /\ \A c \in Ranges :
         /\ tasks[j][c].state # "idle" => c <= Remote[Current(j)].chunks
         /\ tasks[j][c].state = "queued" => tasks[j][c].tries = 0
         /\ tasks[j][c].state = "waits" => tasks[j][c].tries < MaxRetries

LimitsInv == \A j \in Jobs : Cardinality(Running(j)) <= MaxFiles /\ Cardinality(Retrying(j)) <= ParallelFailures

\* A directory that no job has resolved to is empty.
UnusedInv ==
  \A d \in Dirs : (\A k \in Jobs : pc[k] # "resolve" => dir[k] # d) =>
    (\A n \in Names : local[d][n] = NoFile) /\ \A w \in landing : w.dir # d

\* Job j is at its files, in a directory that no other job has resolved to.
Alone(j) ==
  /\ pc[j] \in {"fetch", "await", "complete"}
  /\ \A k \in Jobs \ {j} : pc[k] # "resolve" => dir[k] # dir[j]
  /\ \A a, b \in DOMAIN files[j] : a # b => Remote[files[j][a]].name # Remote[files[j][b]].name

Begun(j) == IF pc[j] = "fetch" THEN 1 .. at[j] - 1 ELSE 1 .. at[j]
Fetched(j) == IF pc[j] = "complete" THEN 1 .. at[j] ELSE 1 .. at[j] - 1

Content(j, a) == local[dir[j]][Remote[files[j][a]].name]
Write(j, a, c) == [dir |-> dir[j], name |-> Remote[files[j][a]].name, range |-> c, from |-> files[j][a]]

\* A range of a file is there, or on its way, or its write was lost.
Comes(j, a, c) ==
  Content(j, a) # NoFile /\ (Content(j, a)[c] = files[j][a] \/ Write(j, a, c) \in landing \/ lost)

\* What is in the directory of a job, and on its way there, is of its files, range by range.
OwnFiles(j) ==
  /\ \A w \in landing : w.dir = dir[j] =>
       \E a \in Begun(j) : \E c \in 1 .. Remote[files[j][a]].chunks : w = Write(j, a, c)
  /\ \A a \in DOMAIN files[j] : Content(j, a) # NoFile =>
       /\ a \in Begun(j)
       /\ \A c \in Ranges : Content(j, a)[c] # Hole =>
            Content(j, a)[c] = files[j][a] /\ c <= Remote[files[j][a]].chunks
  /\ \A a \in Fetched(j) : \A c \in 1 .. Remote[files[j][a]].chunks : Comes(j, a, c)
  /\ \A c \in Ranges :
       /\ tasks[j][c].state # "loose"
       /\ tasks[j][c].state = "asks" => Content(j, at[j]) # NoFile
       /\ tasks[j][c].state = "ok" => Comes(j, at[j], c)

WholeInv == UnusedInv /\ \A j \in Jobs : Alone(j) => OwnFiles(j)
===============================================================================
