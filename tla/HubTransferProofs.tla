--------------------------- MODULE HubTransferProofs ---------------------------
EXTENDS HubTransfer, FiniteSetTheorems, SequenceTheorems, WellFoundedInduction, TLAPS

-----------------------------------------------------------------------------
(* Ranges and files *)

LEMMA RemoteIs ==
  ASSUME HubConstants
  PROVE  Len(Remote) \in Nat \ {0} /\ DOMAIN Remote = 1 .. Len(Remote)
<1>1. PICK S : Remote \in Seq(S)
  BY DEF HubConstants
<1>2. Len(Remote) \in Nat /\ DOMAIN Remote = 1 .. Len(Remote)
  BY <1>1
<1>3. Len(Remote) # 0
  BY <1>1 DEF HubConstants
<1> QED BY <1>2, <1>3

\* The longest file has as many ranges as there are tasks.
LEMMA LongestFile ==
  ASSUME HubConstants
  PROVE  \E i \in DOMAIN Remote : \A k \in DOMAIN Remote : Remote[k].chunks <= Remote[i].chunks
<1> DEFINE S == DOMAIN Remote
           above(v) == {w \in S : Remote[v].chunks < Remote[w].chunks}
           sets == {above(v) : v \in S}
<1>1. IsFiniteSet(S) /\ S # {}
  <2>1. PICK n \in Nat \ {0} : S = 1 .. n
    BY RemoteIs
  <2>2. IsFiniteSet(1 .. n)
    BY FS_Interval
  <2>3. 1 \in 1 .. n
    OBVIOUS
  <2> QED BY <2>1, <2>2, <2>3
<1>2. FiniteSubsetsOf(S) = SUBSET S
  BY <1>1, FS_FiniteSubsetsOfFinite
<1>3. IsWellFoundedOn(StrictSubsetOrdering(S), SUBSET S)
  BY <1>2, FS_StrictSubsetOrderingWellFounded
<1>4. sets \subseteq SUBSET S /\ sets # {}
  BY <1>1
<1>5. PICK X \in sets : \A Y \in sets : ~ (<<Y, X>> \in StrictSubsetOrdering(S))
  <2> HIDE DEF sets
  <2> QED BY <1>3, <1>4, WFMin
<1>6. PICK v \in S : X = above(v)
  BY <1>5
<1>7. \A w \in S : Remote[w].chunks \in Nat
  BY DEF HubConstants
<1>8. ASSUME NEW w \in S, ~ (Remote[w].chunks <= Remote[v].chunks) PROVE FALSE
  <2>1. Remote[v].chunks < Remote[w].chunks
    BY <1>7, <1>8
  <2>2. w \in above(v) /\ w \notin above(w)
    BY <1>7, <2>1
  <2>3. above(w) \subseteq above(v)
    BY <1>7, <2>1
  <2>4. <<above(w), above(v)>> \in StrictSubsetOrdering(S)
    <3>1. above(w) \in SUBSET S /\ above(v) \in SUBSET S /\ above(w) # above(v)
      BY <2>2
    <3> HIDE DEF above
    <3> QED BY <2>3, <3>1 DEF StrictSubsetOrdering
  <2>5. above(w) \in sets
    OBVIOUS
  <2> QED BY <1>5, <1>6, <2>4, <2>5
<1> QED BY <1>8

LEMMA RangesAre ==
  ASSUME HubConstants
  PROVE  /\ MaxChunks \in Nat \ {0} /\ Ranges = 1 .. MaxChunks /\ Ranges # {} /\ IsFiniteSet(Ranges)
         /\ \A i \in DOMAIN Remote : Remote[i].chunks \in Nat \ {0} /\ 1 .. Remote[i].chunks \subseteq Ranges
<1>1. PICK i \in DOMAIN Remote : \A k \in DOMAIN Remote : Remote[k].chunks <= Remote[i].chunks
  BY LongestFile
<1>2. \E n \in {Remote[k].chunks : k \in DOMAIN Remote} : \A k \in DOMAIN Remote : Remote[k].chunks <= n
  BY <1>1
<1>3. MaxChunks \in {Remote[k].chunks : k \in DOMAIN Remote} /\ \A k \in DOMAIN Remote : Remote[k].chunks <= MaxChunks
  BY <1>2 DEF MaxChunks
<1>4. MaxChunks \in Nat \ {0}
  BY <1>3 DEF HubConstants
<1>5. IsFiniteSet(Ranges)
  BY <1>4, FS_Interval DEF Ranges
<1>6. \A k \in DOMAIN Remote : Remote[k].chunks \in Nat \ {0}
  BY DEF HubConstants
<1>7. ASSUME NEW k \in DOMAIN Remote PROVE 1 .. Remote[k].chunks \subseteq Ranges
  BY <1>3, <1>4, <1>6 DEF Ranges
<1> QED BY <1>4, <1>5, <1>6, <1>7 DEF Ranges

\* An empty file is a file.
LEMMA EmptyIs ==
  ASSUME HubConstants
  PROVE  Empty \in [Ranges -> 0 .. Len(Remote)] /\ Empty # NoFile /\ \A x \in [Ranges -> 0 .. Len(Remote)] : x # NoFile
<1>1. Ranges # {} /\ Len(Remote) \in Nat
  BY RangesAre, RemoteIs
<1>2. Empty \in [Ranges -> 0 .. Len(Remote)]
  BY <1>1 DEF Empty, Hole
<1>3. ASSUME NEW x \in [Ranges -> 0 .. Len(Remote)] PROVE x # NoFile
  <2>1. DOMAIN x # {}
    BY <1>1
  <2> QED BY <2>1 DEF NoFile
<1> QED BY <1>2, <1>3

\* What a job picks are files of the dataset.
LEMMA ListingIs ==
  ASSUME HubConstants, NEW ask, NEW picked \in Listings(ask)
  PROVE  picked[1] \in Seq(DOMAIN Remote) /\ picked[2] \in {"parquet", "jsonl"} /\ Truncated(picked[1], ask) \in Seq(DOMAIN Remote)
         /\ (picked[1] # NoFile => Truncated(picked[1], ask) # <<>>)
<1>1. ASSUME NEW S \in SUBSET (DOMAIN Remote), NEW s \in InOrder(S) PROVE s \in Seq(DOMAIN Remote)
  <2>1. IsFiniteSet(DOMAIN Remote)
    BY RemoteIs, FS_Interval
  <2>2. Cardinality(S) \in Nat
    BY <2>1, FS_Subset, FS_CardinalityType
  <2>3. PICK n : n = Cardinality(S)
    OBVIOUS
  <2>4. n \in Nat /\ s \in [1 .. n -> DOMAIN Remote]
    BY <2>2, <2>3 DEF InOrder
  <2> QED BY <2>4
<1>2. Matching("parquet", ask) \in SUBSET (DOMAIN Remote) /\ Matching("jsonl", ask) \in SUBSET (DOMAIN Remote)
  BY DEF Matching
<1>3. picked[1] \in Seq(DOMAIN Remote) /\ picked[2] \in {"parquet", "jsonl"}
  <2>1. CASE picked = <<Served, "parquet">>
    BY <2>1 DEF HubConstants
  <2>2. CASE picked = <<NoFile, "jsonl">>
    BY <2>2 DEF NoFile
  <2>3. CASE picked \in InOrder(Matching("parquet", ask)) \X {"parquet"}
    BY <1>1, <1>2, <2>3
  <2>4. CASE picked \in InOrder(Matching("jsonl", ask)) \X {"jsonl"}
    BY <1>1, <1>2, <2>4
  <2> QED BY <2>1, <2>2, <2>3, <2>4 DEF Listings, Picked
<1>4. PICK s : s = picked[1]
  OBVIOUS
<1>5. s \in Seq(DOMAIN Remote)
  BY <1>3, <1>4
<1>6. Len(s) > 1 => SubSeq(s, 1, 1) \in Seq(DOMAIN Remote) /\ SubSeq(s, 1, 1) # <<>>
  BY <1>5
<1>7. Truncated(s, ask) \in Seq(DOMAIN Remote) /\ (s # NoFile => Truncated(s, ask) # <<>>)
  BY <1>5, <1>6 DEF Truncated, NoFile
<1> QED BY <1>3, <1>4, <1>7

-----------------------------------------------------------------------------
(* Tasks *)

TaskRecord == [state : States, tries : 0 .. MaxRetries]
AsksNow == {"open", "asks", "loose", "waits"}

\* What is asked and tried again, of one job's tasks.
RunsIn(f) == {c \in Ranges : f[c].state \in AsksNow}
RetriesIn(f) == {c \in Ranges : f[c].state = "waits" \/ (f[c].state \in AsksNow /\ f[c].tries > 0)}
Within(f) == Cardinality(RunsIn(f)) <= MaxFiles /\ Cardinality(RetriesIn(f)) <= ParallelFailures

LEMMA RunningIs ==
  \A j : Running(j) = RunsIn(tasks[j]) /\ Retrying(j) = RetriesIn(tasks[j])
BY DEF Running, Retrying, InState, RunsIn, RetriesIn, AsksNow

LEMMA RunningIsNext ==
  \A j : Running(j)' = RunsIn(tasks'[j]) /\ Retrying(j)' = RetriesIn(tasks'[j])
BY DEF Running, Retrying, InState, RunsIn, RetriesIn, AsksNow

LEMMA LimitsAre ==
  /\ LimitsInv <=> \A j \in Jobs : Within(tasks[j])
  /\ LimitsInv' <=> \A j \in Jobs : Within(tasks'[j])
BY RunningIs, RunningIsNext DEF LimitsInv, Within

LEMMA TaskSets ==
  ASSUME HubConstants, NEW f
  PROVE  /\ RunsIn(f) \in SUBSET Ranges /\ RetriesIn(f) \in SUBSET RunsIn(f)
         /\ IsFiniteSet(RunsIn(f)) /\ IsFiniteSet(RetriesIn(f))
         /\ Cardinality(RunsIn(f)) \in Nat /\ Cardinality(RetriesIn(f)) \in Nat
<1>1. RunsIn(f) \in SUBSET Ranges /\ RetriesIn(f) \in SUBSET RunsIn(f) /\ RetriesIn(f) \in SUBSET Ranges
  BY DEF RunsIn, RetriesIn, AsksNow
<1>2. IsFiniteSet(Ranges)
  BY RangesAre
<1>3. IsFiniteSet(RunsIn(f)) /\ IsFiniteSet(RetriesIn(f))
  BY <1>1, <1>2, FS_Subset
<1> QED BY <1>1, <1>3, FS_CardinalityType

\* Fewer tasks that ask, or try again, are within the limits too.
LEMMA FewerWithin ==
  ASSUME HubConstants, NEW f, NEW g, Within(f), RunsIn(g) \subseteq RunsIn(f), RetriesIn(g) \subseteq RetriesIn(f)
  PROVE  Within(g)
<1>1. Cardinality(RunsIn(g)) <= Cardinality(RunsIn(f)) /\ Cardinality(RetriesIn(g)) <= Cardinality(RetriesIn(f))
  BY TaskSets, FS_Subset
<1>2. /\ Cardinality(RunsIn(g)) \in Nat /\ Cardinality(RunsIn(f)) \in Nat
      /\ Cardinality(RetriesIn(g)) \in Nat /\ Cardinality(RetriesIn(f)) \in Nat
  BY TaskSets
<1> QED BY <1>1, <1>2 DEF Within, HubConstants

LEMMA NoneWithin ==
  ASSUME HubConstants, NEW g, \A c \in Ranges : g[c].state \in {"idle", "queued"}
  PROVE  Within(g)
<1>1. RunsIn(g) = {} /\ RetriesIn(g) = {}
  BY DEF RunsIn, RetriesIn, AsksNow
<1> QED BY <1>1, FS_EmptySet DEF Within, HubConstants

-----------------------------------------------------------------------------
(* Types *)

LEMMA NoTasksIs ==
  ASSUME HubConstants
  PROVE  Idle \in TaskRecord /\ NoTasks \in [Ranges -> TaskRecord] /\ \A c \in Ranges : NoTasks[c] = Idle
BY DEF HubConstants, Idle, NoTasks, TaskRecord, States

\* A job that asks for something is at one of its files.
LEMMA CurrentIs ==
  ASSUME HubConstants, TypeInv, NEW j \in Jobs, at[j] \in DOMAIN files[j]
  PROVE  Current(j) \in DOMAIN Remote /\ Name(j) \in Names /\ dir[j] \in Dirs
         /\ Remote[Current(j)].chunks \in Nat \ {0} /\ 1 .. Remote[Current(j)].chunks \subseteq Ranges
<1>1. files[j] \in Seq(DOMAIN Remote) /\ dir[j] \in Dirs
  BY DEF TypeInv
<1>2. Current(j) \in DOMAIN Remote
  BY <1>1 DEF Current
<1> QED BY <1>1, <1>2, RangesAre DEF Name, Names

LEMMA BusyIs ==
  ASSUME TasksInv, NEW j \in Jobs, NEW c \in Ranges, tasks[j][c].state # "idle"
  PROVE  /\ pc[j] \notin {"resolve", "fetch", "complete"} /\ at[j] \in DOMAIN files[j]
         /\ c <= Remote[Current(j)].chunks
<1>1. tasks[j] # NoTasks
  BY DEF NoTasks, Idle
<1> QED BY <1>1 DEF TasksInv

\* One task goes on.
LEMMA TaskMoves ==
  ASSUME HubConstants, TypeInv, TasksInv, NEW j \in Jobs, NEW c \in Ranges, NEW r \in TaskRecord,
         tasks[j][c].state # "idle", r.state \notin {"idle", "queued"}, r.state = "waits" => r.tries < MaxRetries,
         tasks' = [tasks EXCEPT ![j][c] = r], UNCHANGED <<pc, files, at>>
  PROVE  /\ tasks' \in [Jobs -> [Ranges -> TaskRecord]] /\ TasksInv'
         /\ tasks'[j][c] = r /\ (\A b \in Ranges \ {c} : tasks'[j][b] = tasks[j][b])
         /\ \A k \in Jobs \ {j} : tasks'[k] = tasks[k]
<1>1. tasks \in [Jobs -> [Ranges -> TaskRecord]]
  BY DEF TypeInv, TaskRecord
<1>2. PICK f : f = [tasks[j] EXCEPT ![c] = r]
  OBVIOUS
<1>3. f \in [Ranges -> TaskRecord] /\ f[c] = r /\ \A b \in Ranges \ {c} : f[b] = tasks[j][b]
  BY <1>1, <1>2
<1>4. tasks' = [tasks EXCEPT ![j] = f]
  BY <1>1, <1>2
<1>5. /\ tasks' \in [Jobs -> [Ranges -> TaskRecord]] /\ tasks'[j] = f
      /\ \A k \in Jobs \ {j} : tasks'[k] = tasks[k]
  BY <1>1, <1>3, <1>4
<1>6. /\ pc[j] \notin {"resolve", "fetch", "complete"} /\ at[j] \in DOMAIN files[j] /\ c <= Remote[Current(j)].chunks
  BY BusyIs
<1>7. \A k \in Jobs : Current(k)' = Current(k)
  BY DEF Current
<1>8. \A b \in Ranges :
        /\ tasks'[j][b].state # "idle" => b <= Remote[Current(j)'].chunks
        /\ tasks'[j][b].state = "queued" => tasks'[j][b].tries = 0
        /\ tasks'[j][b].state = "waits" => tasks'[j][b].tries < MaxRetries
  <2>1. ASSUME NEW b \in Ranges \ {c}
        PROVE  /\ tasks'[j][b].state # "idle" => b <= Remote[Current(j)'].chunks
               /\ tasks'[j][b].state = "queued" => tasks'[j][b].tries = 0
               /\ tasks'[j][b].state = "waits" => tasks'[j][b].tries < MaxRetries
    <3>1. tasks'[j][b] = tasks[j][b]
      BY <1>3, <1>5
    <3> QED BY <1>7, <3>1 DEF TasksInv
  <2>2. tasks'[j][c] = r
    BY <1>3, <1>5
  <2> QED BY <1>6, <1>7, <2>1, <2>2
<1>9. TasksInv'
  <2>1. ASSUME NEW k \in Jobs \ {j}
        PROVE  /\ pc'[k] \in {"resolve", "fetch", "complete"} => tasks'[k] = NoTasks
               /\ pc'[k] \in {"fetch", "await", "complete"} \/ tasks'[k] # NoTasks => at'[k] \in DOMAIN files'[k]
               /\ pc'[k] = "resolve" => at'[k] = 1
               /\ pc'[k] = "complete" => at'[k] = Len(files'[k])
               /\ \A b \in Ranges :
                    /\ tasks'[k][b].state # "idle" => b <= Remote[Current(k)'].chunks
                    /\ tasks'[k][b].state = "queued" => tasks'[k][b].tries = 0
                    /\ tasks'[k][b].state = "waits" => tasks'[k][b].tries < MaxRetries
    BY <1>5, <1>7 DEF TasksInv
  <2>2. /\ pc'[j] \in {"resolve", "fetch", "complete"} => tasks'[j] = NoTasks
        /\ pc'[j] \in {"fetch", "await", "complete"} \/ tasks'[j] # NoTasks => at'[j] \in DOMAIN files'[j]
        /\ pc'[j] = "resolve" => at'[j] = 1
        /\ pc'[j] = "complete" => at'[j] = Len(files'[j])
    BY <1>6
  <2> QED BY <1>8, <2>1, <2>2 DEF TasksInv
<1> QED BY <1>3, <1>5, <1>9

LEMMA BecomesIs ==
  ASSUME TypeInv, NEW j \in Jobs, NEW c \in Ranges, NEW st \in States, Becomes(j, c, st)
  PROVE  \E r \in TaskRecord : /\ tasks' = [tasks EXCEPT ![j][c] = r]
                               /\ r.state = st /\ r.tries = tasks[j][c].tries
<1>1. tasks \in [Jobs -> [Ranges -> TaskRecord]] /\ tasks[j][c] \in TaskRecord
  BY DEF TypeInv, TaskRecord
<1>2. PICK q, r : q = tasks[j][c] /\ r = [q EXCEPT !.state = st]
  OBVIOUS
<1>3. r \in TaskRecord /\ r.state = st /\ r.tries = q.tries
  BY <1>1, <1>2 DEF TaskRecord
<1>4. tasks' = [tasks EXCEPT ![j][c] = r]
  BY <1>1, <1>2 DEF Becomes
<1> QED BY <1>2, <1>3, <1>4

\* A file that is removed changes how some tasks go on, and nothing else of them.
LEMMA RemovedIs ==
  ASSUME HubConstants, TypeInv, TasksInv, LimitsInv, NEW j \in Jobs, NEW d, NEW names, Removed(d, names),
         at[j] \in DOMAIN files[j], NEW st \in {"failed", "done"}, pc' = [pc EXCEPT ![j] = st],
         UNCHANGED <<dir, files, format, at, lost>>,
         local' \in [Dirs -> [Names -> {NoFile} \cup [Ranges -> 0 .. Len(Remote)]]], landing' \subseteq landing
  PROVE  /\ TypeInv' /\ TasksInv' /\ LimitsInv'
         /\ \A k \in Jobs : dir[k] # d => tasks'[k] = tasks[k]
<1>1. tasks \in [Jobs -> [Ranges -> TaskRecord]]
  BY DEF TypeInv, TaskRecord
<1>2. ASSUME NEW k \in Jobs
      PROVE  /\ tasks'[k] \in [Ranges -> TaskRecord]
             /\ \A c \in Ranges : \/ tasks'[k][c] = tasks[k][c]
                               \/ /\ tasks[k][c].state = "asks" /\ tasks'[k][c].state = "loose"
                                  /\ tasks'[k][c].tries = tasks[k][c].tries
             /\ dir[k] # d => tasks'[k] = tasks[k]
  <2>1. ASSUME NEW c \in Ranges
        PROVE  /\ tasks'[k][c] \in TaskRecord
               /\ \/ tasks'[k][c] = tasks[k][c]
                  \/ /\ tasks[k][c].state = "asks" /\ tasks'[k][c].state = "loose"
                     /\ tasks'[k][c].tries = tasks[k][c].tries
               /\ dir[k] # d => tasks'[k][c] = tasks[k][c]
    <3>1. PICK q, r : q = tasks[k][c] /\ r = [q EXCEPT !.state = "loose"]
      OBVIOUS
    <3>2. q \in TaskRecord
      BY <1>1, <3>1
    <3>3. r \in TaskRecord /\ r.state = "loose" /\ r.tries = q.tries
      BY <3>1, <3>2 DEF TaskRecord, States
    <3>4. tasks'[k][c] = IF q.state = "asks" /\ dir[k] = d /\ Name(k) \in names THEN r ELSE q
      BY <3>1 DEF Removed
    <3> QED BY <3>1, <3>2, <3>3, <3>4
  <2>2. tasks'[k] = [c \in Ranges |-> tasks'[k][c]]
    BY DEF Removed
  <2>3. tasks[k] = [c \in Ranges |-> tasks[k][c]]
    BY <1>1
  <2> QED BY <2>1, <2>2, <2>3
<1>3. tasks' \in [Jobs -> [Ranges -> TaskRecord]]
  <2>1. tasks' = [k \in Jobs |-> tasks'[k]]
    BY DEF Removed
  <2> QED BY <1>2, <2>1
<1>4. TypeInv'
  <2>1. pc' \in [Jobs -> {"resolve", "fetch", "await", "complete", "done", "failed"}]
    BY DEF TypeInv
  <2> QED BY <1>3, <2>1 DEF TypeInv, TaskRecord
<1>5. TasksInv'
  <2>1. ASSUME NEW k \in Jobs, tasks[k] = NoTasks PROVE tasks'[k] = NoTasks
    <3>1. \A c \in Ranges : tasks[k][c].state = "idle"
      BY <2>1 DEF NoTasks, Idle
    <3>2. \A c \in Ranges : tasks'[k][c] = tasks[k][c]
      BY <1>2, <3>1
    <3>3. tasks[k] \in [Ranges -> TaskRecord] /\ tasks'[k] \in [Ranges -> TaskRecord]
      BY <1>1, <1>2
    <3> QED BY <2>1, <3>2, <3>3
  <2>2. ASSUME NEW k \in Jobs
        PROVE  \A c \in Ranges :
                 /\ tasks'[k][c].state # "idle" => c <= Remote[Current(k)'].chunks
                 /\ tasks'[k][c].state = "queued" => tasks'[k][c].tries = 0
                 /\ tasks'[k][c].state = "waits" => tasks'[k][c].tries < MaxRetries
    <3>1. Current(k)' = Current(k)
      BY DEF Current
    <3> QED BY <1>2, <3>1 DEF TasksInv
  <2>3. pc \in [Jobs -> {"resolve", "fetch", "await", "complete", "done", "failed"}]
    BY DEF TypeInv
  <2>4. ASSUME NEW k \in Jobs
        PROVE  /\ pc'[k] \in {"resolve", "fetch", "complete"} => tasks'[k] = NoTasks
               /\ pc'[k] \in {"fetch", "await", "complete"} \/ tasks'[k] # NoTasks => at'[k] \in DOMAIN files'[k]
               /\ pc'[k] = "resolve" => at'[k] = 1
               /\ pc'[k] = "complete" => at'[k] = Len(files'[k])
    <3>1. CASE k = j
      <4>1. pc'[j] \in {"failed", "done"}
        BY <2>3
      <4> QED BY <3>1, <4>1
    <3>2. CASE k # j
      <4>1. pc'[k] = pc[k]
        BY <2>3, <3>2
      <4> QED BY <2>1, <4>1 DEF TasksInv
    <3> QED BY <3>1, <3>2
  <2> QED BY <2>2, <2>4 DEF TasksInv
<1>6. LimitsInv'
  <2>1. ASSUME NEW k \in Jobs PROVE Within(tasks'[k])
    <3>1. PICK f, g : f = tasks[k] /\ g = tasks'[k]
      OBVIOUS
    <3>2. RunsIn(g) \subseteq RunsIn(f) /\ RetriesIn(g) \subseteq RetriesIn(f)
      BY <1>2, <3>1 DEF RunsIn, RetriesIn, AsksNow
    <3>3. Within(f)
      BY <3>1, LimitsAre
    <3>4. Within(g)
      BY <3>2, <3>3, FewerWithin
    <3> QED BY <3>1, <3>4
  <2> QED BY <2>1, LimitsAre
<1> QED BY <1>2, <1>4, <1>5, <1>6

LEMMA LimitsMove ==
  ASSUME LimitsInv, NEW j \in Jobs, Within(tasks'[j]), \A k \in Jobs \ {j} : tasks'[k] = tasks[k]
  PROVE  LimitsInv'
<1>1. \A k \in Jobs : Within(tasks[k])
  BY LimitsAre
<1>2. \A k \in Jobs : Within(tasks'[k])
  BY <1>1
<1> QED BY <1>2, LimitsAre

HubInv == TypeInv /\ TasksInv /\ LimitsInv

LEMMA ResolveTypes ==
  ASSUME HubConstants, HubInv, NEW j \in Jobs, Resolve(j)
  PROVE  HubInv'
<1>1. PICK ask \in Requests, d \in Dirs : \E picked \in Listings(ask) :
        /\ dir' = [dir EXCEPT ![j] = d]
        /\ gone' = gone \ {d}
        /\ IF picked[1] = NoFile
             THEN pc' = [pc EXCEPT ![j] = "failed"] /\ UNCHANGED <<files, format>>
             ELSE /\ pc' = [pc EXCEPT ![j] = "fetch"]
                  /\ files' = [files EXCEPT ![j] = Truncated(picked[1], ask)]
                  /\ format' = [format EXCEPT ![j] = picked[2]]
  BY DEF Resolve
<1>2. PICK picked \in Listings(ask) :
        /\ dir' = [dir EXCEPT ![j] = d]
        /\ gone' = gone \ {d}
        /\ IF picked[1] = NoFile
             THEN pc' = [pc EXCEPT ![j] = "failed"] /\ UNCHANGED <<files, format>>
             ELSE /\ pc' = [pc EXCEPT ![j] = "fetch"]
                  /\ files' = [files EXCEPT ![j] = Truncated(picked[1], ask)]
                  /\ format' = [format EXCEPT ![j] = picked[2]]
  BY <1>1
<1>3. PICK s : s = Truncated(picked[1], ask)
  OBVIOUS
<1>4. s \in Seq(DOMAIN Remote) /\ picked[2] \in {"parquet", "jsonl"} /\ (picked[1] # NoFile => s # <<>>)
  BY <1>3, ListingIs
<1>5. UNCHANGED <<at, tasks, local, landing, lost>> /\ pc[j] = "resolve"
  BY DEF Resolve
<1>6. TypeInv'
  <2>1. dir' \in [Jobs -> Dirs]
    BY <1>2 DEF HubInv, TypeInv
  <2>2. files' \in [Jobs -> Seq(DOMAIN Remote)] /\ format' \in [Jobs -> {"parquet", "jsonl"}]
    BY <1>2, <1>3, <1>4 DEF HubInv, TypeInv
  <2>3. pc' \in [Jobs -> {"resolve", "fetch", "await", "complete", "done", "failed"}]
    BY <1>2 DEF HubInv, TypeInv
  <2> QED BY <1>5, <2>1, <2>2, <2>3 DEF HubInv, TypeInv
<1>7. TasksInv'
  <2>1. \A k \in Jobs \ {j} : pc'[k] = pc[k] /\ files'[k] = files[k]
    BY <1>2 DEF HubInv, TypeInv
  <2>2. pc'[j] \in {"failed", "fetch"} /\ at[j] = 1 /\ tasks[j] = NoTasks
    BY <1>2, <1>5 DEF HubInv, TypeInv, TasksInv
  <2>3. pc'[j] = "fetch" => at[j] \in DOMAIN files'[j]
    <3>1. ASSUME pc'[j] = "fetch" PROVE files'[j] = s /\ s # <<>>
      BY <1>2, <1>3, <1>4, <3>1 DEF HubInv, TypeInv
    <3>2. s # <<>> => 1 \in DOMAIN s
      BY <1>4
    <3> QED BY <2>2, <3>1, <3>2
  <2>4. \A c \in Ranges : tasks[j][c] = Idle
    BY <2>2, NoTasksIs
  <2>5. ASSUME NEW k \in Jobs \ {j} PROVE Current(k)' = Current(k)
    BY <1>5, <2>1 DEF Current
  <2>6. ASSUME NEW k \in Jobs
        PROVE  \A c \in Ranges :
                 /\ tasks'[k][c].state # "idle" => c <= Remote[Current(k)'].chunks
                 /\ tasks'[k][c].state = "queued" => tasks'[k][c].tries = 0
                 /\ tasks'[k][c].state = "waits" => tasks'[k][c].tries < MaxRetries
    <3>1. CASE k = j
      BY <1>5, <2>4, <3>1 DEF Idle
    <3>2. CASE k # j
      BY <1>5, <2>5, <3>2 DEF HubInv, TasksInv
    <3> QED BY <3>1, <3>2
  <2>7. ASSUME NEW k \in Jobs
        PROVE  /\ pc'[k] \in {"resolve", "fetch", "complete"} => tasks'[k] = NoTasks
               /\ pc'[k] \in {"fetch", "await", "complete"} \/ tasks'[k] # NoTasks => at'[k] \in DOMAIN files'[k]
               /\ pc'[k] = "resolve" => at'[k] = 1
               /\ pc'[k] = "complete" => at'[k] = Len(files'[k])
    <3>1. CASE k = j
      BY <1>5, <2>2, <2>3, <3>1
    <3>2. CASE k # j
      BY <1>5, <2>1, <3>2 DEF HubInv, TasksInv
    <3> QED BY <3>1, <3>2
  <2> QED BY <2>6, <2>7 DEF TasksInv
<1>8. LimitsInv'
  BY <1>5, LimitsAre DEF HubInv
<1> QED BY <1>6, <1>7, <1>8 DEF HubInv

\* A step of job j to its next file, or to the ranges of one.
LEMMA FileTypes ==
  ASSUME HubConstants, HubInv, NEW j \in Jobs, NEW st \in {"fetch", "await", "complete"}, NEW n \in Nat \ {0},
         NEW f \in [Ranges -> TaskRecord], n \in DOMAIN files[j], st = "complete" => n = Len(files[j]),
         st # "await" => f = NoTasks,
         \A c \in Ranges : f[c] = Idle \/ (f[c].state = "queued" /\ f[c].tries = 0 /\ c <= Remote[files[j][n]].chunks),
         pc' = [pc EXCEPT ![j] = st], at' = [at EXCEPT ![j] = n], tasks' = [tasks EXCEPT ![j] = f],
         UNCHANGED <<dir, files, format, local, landing, lost>>
  PROVE  HubInv'
<1>1. /\ tasks' \in [Jobs -> [Ranges -> TaskRecord]] /\ tasks'[j] = f
      /\ \A k \in Jobs \ {j} : tasks'[k] = tasks[k]
  BY DEF HubInv, TypeInv, TaskRecord
<1>2. /\ pc' \in [Jobs -> {"resolve", "fetch", "await", "complete", "done", "failed"}] /\ pc'[j] = st
      /\ at' \in [Jobs -> Nat \ {0}] /\ at'[j] = n
      /\ \A k \in Jobs \ {j} : pc'[k] = pc[k] /\ at'[k] = at[k]
  BY DEF HubInv, TypeInv
<1>3. TypeInv'
  BY <1>1, <1>2 DEF HubInv, TypeInv, TaskRecord
<1>4. TasksInv'
  <2>1. ASSUME NEW k \in Jobs \ {j} PROVE Current(k)' = Current(k)
    BY <1>2 DEF Current
  <2>2. Current(j)' = files[j][n]
    BY <1>2 DEF Current
  <2>3. ASSUME NEW k \in Jobs
        PROVE  \A c \in Ranges :
                 /\ tasks'[k][c].state # "idle" => c <= Remote[Current(k)'].chunks
                 /\ tasks'[k][c].state = "queued" => tasks'[k][c].tries = 0
                 /\ tasks'[k][c].state = "waits" => tasks'[k][c].tries < MaxRetries
    <3>1. CASE k = j
      BY <1>1, <2>2, <3>1 DEF Idle
    <3>2. CASE k # j
      BY <1>1, <2>1, <3>2 DEF HubInv, TasksInv
    <3> QED BY <3>1, <3>2
  <2>4. ASSUME NEW k \in Jobs
        PROVE  /\ pc'[k] \in {"resolve", "fetch", "complete"} => tasks'[k] = NoTasks
               /\ pc'[k] \in {"fetch", "await", "complete"} \/ tasks'[k] # NoTasks => at'[k] \in DOMAIN files'[k]
               /\ pc'[k] = "resolve" => at'[k] = 1
               /\ pc'[k] = "complete" => at'[k] = Len(files'[k])
    <3>1. CASE k = j
      BY <1>1, <1>2, <3>1
    <3>2. CASE k # j
      BY <1>1, <1>2, <3>2 DEF HubInv, TasksInv
    <3> QED BY <3>1, <3>2
  <2> QED BY <2>3, <2>4 DEF TasksInv
<1>5. LimitsInv'
  <2>1. Within(f)
    <3>1. \A c \in Ranges : f[c].state \in {"idle", "queued"}
      BY DEF Idle
    <3> QED BY <3>1, NoneWithin
  <2> QED BY <1>1, <2>1, LimitsMove DEF HubInv
<1> QED BY <1>3, <1>4, <1>5 DEF HubInv

LEMMA RemoveFileTypes ==
  ASSUME HubConstants, HubInv, NEW j \in Jobs, pc[j] \in {"fetch", "await"}, RemoveFile(j),
         UNCHANGED <<dir, files, format, at, lost>>
  PROVE  /\ HubInv' /\ pc'[j] = "failed" /\ (\A k \in Jobs \ {j} : pc'[k] = pc[k])
         /\ (\A k \in Jobs : dir[k] # dir[j] => tasks'[k] = tasks[k])
         /\ (\A d \in Dirs \ {dir[j]} : local'[d] = local[d])
         /\ (\A w : w.dir # dir[j] => (w \in landing' <=> w \in landing))
<1>1. at[j] \in DOMAIN files[j]
  BY DEF HubInv, TasksInv
<1>2. Name(j) \in Names /\ dir[j] \in Dirs
  BY <1>1, CurrentIs DEF HubInv
<1>3. PICK n, d : n = Name(j) /\ d = dir[j]
  OBVIOUS
<1>4. local' = [local EXCEPT ![d][n] = NoFile] /\ landing' = {w \in landing : <<w.dir, w.name>> # <<d, n>>}
  BY <1>3 DEF RemoveFile
<1>5. local' \in [Dirs -> [Names -> {NoFile} \cup [Ranges -> 0 .. Len(Remote)]]]
  BY <1>2, <1>3, <1>4 DEF HubInv, TypeInv
<1>6. /\ \A e \in Dirs \ {dir[j]} : local'[e] = local[e]
      /\ \A w : w.dir # dir[j] => (w \in landing' <=> w \in landing)
      /\ landing' \subseteq landing
  BY <1>2, <1>3, <1>4 DEF HubInv, TypeInv
<1>7. pc' = [pc EXCEPT ![j] = "failed"] /\ Removed(dir[j], {Name(j)})
  BY DEF RemoveFile
<1>8. PICK e, names : e = dir[j] /\ names = {Name(j)}
  OBVIOUS
<1>9. /\ TypeInv' /\ TasksInv' /\ LimitsInv'
      /\ \A k \in Jobs : dir[k] # e => tasks'[k] = tasks[k]
  <2>1. Removed(e, names)
    BY <1>7, <1>8
  <2> QED BY <1>1, <1>5, <1>6, <1>7, <2>1, RemovedIs DEF HubInv
<1>10. pc'[j] = "failed" /\ \A k \in Jobs \ {j} : pc'[k] = pc[k]
  BY <1>7 DEF HubInv, TypeInv
<1> QED BY <1>6, <1>8, <1>9, <1>10 DEF HubInv

LEMMA SpawnTypes ==
  ASSUME HubConstants, HubInv, NEW j \in Jobs, Spawn(j)
  PROVE  HubInv'
<1>1. CASE RemoveFile(j)
  BY <1>1, RemoveFileTypes DEF Spawn
<1>2. CASE ~ RemoveFile(j)
  <2>1. PICK f : f = [c \in Ranges |-> IF c <= Remote[Current(j)].chunks THEN [Idle EXCEPT !.state = "queued"] ELSE Idle]
    OBVIOUS
  <2>2. /\ pc' = [pc EXCEPT ![j] = "await"] /\ tasks' = [tasks EXCEPT ![j] = f]
        /\ UNCHANGED <<dir, files, format, at, local, landing, lost>> /\ pc[j] = "fetch"
    BY <1>2, <2>1 DEF Spawn
  <2>3. at[j] \in DOMAIN files[j] /\ at[j] \in Nat \ {0}
    BY <2>2 DEF HubInv, TasksInv, TypeInv
  <2>4. PICK q : q = [Idle EXCEPT !.state = "queued"]
    OBVIOUS
  <2>5. q \in TaskRecord /\ q.state = "queued" /\ q.tries = 0 /\ Idle \in TaskRecord
    BY <2>4, NoTasksIs DEF TaskRecord, Idle, States
  <2>6. /\ f \in [Ranges -> TaskRecord]
        /\ \A c \in Ranges : f[c] = Idle \/ (f[c].state = "queued" /\ f[c].tries = 0 /\ c <= Remote[files[j][at[j]]].chunks)
    BY <2>1, <2>4, <2>5 DEF Current
  <2>7. at' = [at EXCEPT ![j] = at[j]]
    BY <2>2 DEF HubInv, TypeInv
  <2> QED BY <2>2, <2>3, <2>6, <2>7, FileTypes
<1> QED BY <1>1, <1>2

LEMMA NextFileTypes ==
  ASSUME HubConstants, HubInv, NEW j \in Jobs, NextFile(j)
  PROVE  HubInv'
<1>1. /\ pc[j] = "await" /\ tasks' = [tasks EXCEPT ![j] = NoTasks]
      /\ UNCHANGED <<dir, files, format, local, landing, lost>>
  BY DEF NextFile
<1>2. at[j] \in DOMAIN files[j] /\ at[j] \in Nat \ {0} /\ files[j] \in Seq(DOMAIN Remote) /\ at \in [Jobs -> Nat \ {0}]
  BY <1>1 DEF HubInv, TasksInv, TypeInv
<1>3. Len(files[j]) \in Nat /\ DOMAIN files[j] = 1 .. Len(files[j])
  BY <1>2
<1>4. NoTasks \in [Ranges -> TaskRecord] /\ \A c \in Ranges : NoTasks[c] = Idle
  BY NoTasksIs
<1>5. CASE at[j] < Len(files[j])
  <2>1. pc' = [pc EXCEPT ![j] = "fetch"] /\ at' = [at EXCEPT ![j] = at[j] + 1]
    BY <1>5 DEF NextFile
  <2>2. PICK n, f, st : n = at[j] + 1 /\ f = NoTasks /\ st = "fetch"
    OBVIOUS
  <2>3. n \in DOMAIN files[j] /\ n \in Nat \ {0}
    BY <1>2, <1>3, <1>5, <2>2
  <2>4. f \in [Ranges -> TaskRecord] /\ f = NoTasks /\ \A c \in Ranges : f[c] = Idle
    BY <1>4, <2>2
  <2>5. pc' = [pc EXCEPT ![j] = st] /\ at' = [at EXCEPT ![j] = n] /\ tasks' = [tasks EXCEPT ![j] = f]
    BY <1>1, <2>1, <2>2
  <2>6. st \in {"fetch", "await", "complete"} /\ (st = "complete" => n = Len(files[j]))
    BY <2>2
  <2>7. st \in {"fetch", "await", "complete"}
    BY <2>6
  <2>8. st = "complete" => n = Len(files[j])
    BY <2>3, <2>6
  <2>9. st # "await" => f = NoTasks
    BY <2>4
  <2>10. \A c \in Ranges : f[c] = Idle \/ (f[c].state = "queued" /\ f[c].tries = 0 /\ c <= Remote[files[j][n]].chunks)
    BY <2>4
  <2>11. /\ pc' = [pc EXCEPT ![j] = st] /\ at' = [at EXCEPT ![j] = n]
         /\ tasks' = [tasks EXCEPT ![j] = f]
    BY <2>5
  <2>12. UNCHANGED <<dir, files, format, local, landing, lost>>
    BY <1>1
  <2>13. n \in Nat \ {0} /\ n \in DOMAIN files[j] /\ f \in [Ranges -> TaskRecord]
    BY <2>3, <2>4
  <2> QED BY <2>7, <2>8, <2>9, <2>10, <2>11, <2>12, <2>13, FileTypes
<1>6. CASE ~ (at[j] < Len(files[j]))
  <2>1. pc' = [pc EXCEPT ![j] = "complete"] /\ at' = [at EXCEPT ![j] = at[j]]
    BY <1>2, <1>6 DEF NextFile
  <2>2. PICK n, f, st : n = at[j] /\ f = NoTasks /\ st = "complete"
    OBVIOUS
  <2>3. n \in DOMAIN files[j] /\ n \in Nat \ {0} /\ n = Len(files[j])
    BY <1>2, <1>3, <1>6, <2>2
  <2>4. f \in [Ranges -> TaskRecord] /\ f = NoTasks /\ \A c \in Ranges : f[c] = Idle
    BY <1>4, <2>2
  <2>5. pc' = [pc EXCEPT ![j] = st] /\ at' = [at EXCEPT ![j] = n] /\ tasks' = [tasks EXCEPT ![j] = f]
    BY <1>1, <2>1, <2>2
  <2>6. st \in {"fetch", "await", "complete"}
    BY <2>2
  <2>7. st \in {"fetch", "await", "complete"}
    BY <2>6
  <2>8. st = "complete" => n = Len(files[j])
    BY <2>3, <2>6
  <2>9. st # "await" => f = NoTasks
    BY <2>4
  <2>10. \A c \in Ranges : f[c] = Idle \/ (f[c].state = "queued" /\ f[c].tries = 0 /\ c <= Remote[files[j][n]].chunks)
    BY <2>4
  <2>11. /\ pc' = [pc EXCEPT ![j] = st] /\ at' = [at EXCEPT ![j] = n]
         /\ tasks' = [tasks EXCEPT ![j] = f]
    BY <2>5
  <2>12. UNCHANGED <<dir, files, format, local, landing, lost>>
    BY <1>1
  <2>13. n \in Nat \ {0} /\ n \in DOMAIN files[j] /\ f \in [Ranges -> TaskRecord]
    BY <2>3, <2>4
  <2> QED BY <2>7, <2>8, <2>9, <2>10, <2>11, <2>12, <2>13, FileTypes
<1> QED BY <1>5, <1>6

\* A task of a range that is asked for, or was, keeps within the limits.
LEMMA TaskTypes ==
  ASSUME HubConstants, HubInv, NEW j \in Jobs, NEW c \in Ranges, NEW r \in TaskRecord,
         tasks[j][c].state # "idle", r.state \notin {"idle", "queued"}, r.state = "waits" => r.tries < MaxRetries,
         tasks' = [tasks EXCEPT ![j][c] = r], UNCHANGED <<pc, dir, files, format, at, lost>>,
         Within(tasks'[j]),
         local' \in [Dirs -> [Names -> {NoFile} \cup [Ranges -> 0 .. Len(Remote)]]], landing' \subseteq Writes
  PROVE  HubInv'
<1>1. /\ tasks' \in [Jobs -> [Ranges -> TaskRecord]] /\ TasksInv'
      /\ \A k \in Jobs \ {j} : tasks'[k] = tasks[k]
  BY TaskMoves DEF HubInv
<1>2. TypeInv'
  BY <1>1 DEF HubInv, TypeInv, TaskRecord
<1>3. LimitsInv'
  BY <1>1, LimitsMove DEF HubInv
<1> QED BY <1>1, <1>2, <1>3 DEF HubInv

\* One task counts as little as before.
LEMMA TaskWithin ==
  ASSUME HubConstants, NEW f, NEW g, Within(f), NEW c \in Ranges, \A b \in Ranges \ {c} : g[b] = f[b],
         g[c].state \in AsksNow => f[c].state \in AsksNow,
         c \in RetriesIn(g) => c \in RetriesIn(f)
  PROVE  Within(g)
<1>1. RunsIn(g) \subseteq RunsIn(f) /\ RetriesIn(g) \subseteq RetriesIn(f)
  BY DEF RunsIn, RetriesIn
<1> QED BY <1>1, FewerWithin

LEMMA AcquireTypes ==
  ASSUME HubConstants, HubInv, NEW j \in Jobs, NEW c \in Ranges, Acquire(j, c)
  PROVE  HubInv'
<1>1. /\ tasks[j][c].state = "queued" /\ Cardinality(Running(j)) < MaxFiles
      /\ UNCHANGED <<pc, dir, files, format, at, local, landing, lost>>
  BY DEF Acquire
<1>2. PICK r \in TaskRecord : tasks' = [tasks EXCEPT ![j][c] = r] /\ r.state = "open" /\ r.tries = tasks[j][c].tries
  <2>1. "open" \in States /\ Becomes(j, c, "open")
    BY DEF Acquire, States
  <2> QED BY <2>1, BecomesIs DEF HubInv
<1>3. r.tries = 0
  BY <1>1, <1>2 DEF HubInv, TasksInv
<1>4. tasks'[j][c] = r /\ \A b \in Ranges \ {c} : tasks'[j][b] = tasks[j][b]
  BY <1>1, <1>2, TaskMoves DEF HubInv
<1>5. PICK f, g : f = tasks[j] /\ g = tasks'[j]
  OBVIOUS
<1>6. RunsIn(g) = RunsIn(f) \cup {c} /\ RetriesIn(g) = RetriesIn(f)
  BY <1>1, <1>2, <1>3, <1>4, <1>5 DEF RunsIn, RetriesIn, AsksNow
<1>7. Within(f) /\ Cardinality(RunsIn(f)) < MaxFiles
  BY <1>1, <1>5, LimitsAre, RunningIs DEF HubInv
<1>8. Cardinality(RunsIn(f) \cup {c}) <= Cardinality(RunsIn(f)) + 1
  <2>1. PICK S : S = RunsIn(f)
    OBVIOUS
  <2>2. IsFiniteSet(S) /\ Cardinality(S) \in Nat
    BY <2>1, TaskSets
  <2>3. Cardinality(S \cup {c}) <= Cardinality(S) + 1
    <3>1. CASE c \in S
      <4>1. S \cup {c} = S
        BY <3>1
      <4>2. Cardinality(S \cup {c}) = Cardinality(S)
        BY <4>1
      <4> QED BY <2>2, <4>2
    <3>2. CASE c \notin S
      <4>1. Cardinality(S \cup {c}) = Cardinality(S) + 1
        BY <2>2, <3>2, FS_AddElement
      <4> QED BY <2>2, <4>1
    <3> QED BY <3>1, <3>2
  <2> QED BY <2>1, <2>3
<1>9. Cardinality(RunsIn(g)) <= MaxFiles
  <2>1. Cardinality(RunsIn(f)) \in Nat /\ Cardinality(RunsIn(g)) \in Nat /\ MaxFiles \in Nat
    BY TaskSets DEF HubConstants
  <2>2. Cardinality(RunsIn(g)) <= Cardinality(RunsIn(f)) + 1
    BY <1>6, <1>8
  <2> QED BY <1>7, <2>1, <2>2
<1>10. Within(tasks'[j])
  BY <1>5, <1>6, <1>7, <1>9 DEF Within
<1> QED BY <1>1, <1>2, <1>10, TaskTypes DEF HubInv, TypeInv

\* What a task asks for is written to the file it belongs to.
LEMMA LandsIs ==
  ASSUME HubConstants, HubInv, NEW j \in Jobs, NEW c \in Ranges, tasks[j][c].state # "idle"
  PROVE  Lands(j, c) \in Writes /\ Current(j) \in DOMAIN Remote /\ Name(j) \in Names /\ dir[j] \in Dirs
         /\ at[j] \in DOMAIN files[j] /\ c \in 1 .. Remote[Current(j)].chunks
<1>1. at[j] \in DOMAIN files[j] /\ c <= Remote[Current(j)].chunks
  BY BusyIs DEF HubInv
<1>2. /\ Current(j) \in DOMAIN Remote /\ Name(j) \in Names /\ dir[j] \in Dirs
      /\ Remote[Current(j)].chunks \in Nat \ {0}
  BY <1>1, CurrentIs DEF HubInv
<1>3. c \in Nat \ {0}
  BY RangesAre
<1> QED BY <1>1, <1>2, <1>3 DEF Lands, Writes

LEMMA OpenTypes ==
  ASSUME HubConstants, HubInv, NEW j \in Jobs, NEW c \in Ranges, Open(j, c)
  PROVE  HubInv'
<1>1. tasks[j][c].state = "open" /\ UNCHANGED <<pc, dir, files, format, at, landing, lost>>
  BY DEF Open
<1>2. PICK r \in TaskRecord : tasks' = [tasks EXCEPT ![j][c] = r] /\ r.state = "asks" /\ r.tries = tasks[j][c].tries
  <2>1. "asks" \in States /\ Becomes(j, c, "asks")
    BY DEF Open, States
  <2> QED BY <2>1, BecomesIs DEF HubInv
<1>3. tasks'[j][c] = r /\ \A b \in Ranges \ {c} : tasks'[j][b] = tasks[j][b]
  BY <1>1, <1>2, TaskMoves DEF HubInv
<1>4. Within(tasks'[j])
  <2>1. PICK f, g : f = tasks[j] /\ g = tasks'[j]
    OBVIOUS
  <2>2. Within(f)
    BY <2>1, LimitsAre DEF HubInv
  <2>3. /\ \A b \in Ranges \ {c} : g[b] = f[b]
        /\ g[c].state \in AsksNow => f[c].state \in AsksNow
        /\ c \in RetriesIn(g) => c \in RetriesIn(f)
    BY <1>1, <1>2, <1>3, <2>1 DEF RetriesIn, AsksNow
  <2>4. Within(g)
    BY <2>2, <2>3, TaskWithin
  <2> QED BY <2>1, <2>4
<1>5. local' \in [Dirs -> [Names -> {NoFile} \cup [Ranges -> 0 .. Len(Remote)]]]
  <2>1. PICK d, n : d = dir[j] /\ n = Name(j)
    OBVIOUS
  <2>2. d \in Dirs /\ n \in Names
    BY <1>1, <2>1, LandsIs
  <2>3. PICK x : x = IF local[d][n] = NoFile THEN Empty ELSE local[d][n]
    OBVIOUS
  <2>4. local \in [Dirs -> [Names -> {NoFile} \cup [Ranges -> 0 .. Len(Remote)]]]
    BY DEF HubInv, TypeInv
  <2>5. x \in {NoFile} \cup [Ranges -> 0 .. Len(Remote)]
    BY <2>2, <2>3, <2>4, EmptyIs
  <2>6. local' = [local EXCEPT ![d][n] = x]
    BY <2>1, <2>2, <2>3, <2>4 DEF Open
  <2> QED BY <2>2, <2>4, <2>5, <2>6
<1> QED BY <1>1, <1>2, <1>4, <1>5, TaskTypes DEF HubInv, TypeInv

LEMMA AnswerTypes ==
  ASSUME HubConstants, HubInv, NEW j \in Jobs, NEW c \in Ranges, Answer(j, c)
  PROVE  HubInv'
<1>1. tasks[j][c].state \in {"asks", "loose"} /\ UNCHANGED <<pc, dir, files, format, at, local, lost>>
  BY DEF Answer
<1>2. PICK r \in TaskRecord : tasks' = [tasks EXCEPT ![j][c] = r] /\ r.state = "ok" /\ r.tries = tasks[j][c].tries
  <2>1. "ok" \in States /\ Becomes(j, c, "ok")
    BY DEF Answer, States
  <2> QED BY <2>1, BecomesIs DEF HubInv
<1>3. tasks'[j][c] = r /\ \A b \in Ranges \ {c} : tasks'[j][b] = tasks[j][b]
  BY <1>1, <1>2, TaskMoves DEF HubInv
<1>4. Within(tasks'[j])
  <2>1. PICK f, g : f = tasks[j] /\ g = tasks'[j]
    OBVIOUS
  <2>2. Within(f)
    BY <2>1, LimitsAre DEF HubInv
  <2>3. /\ \A b \in Ranges \ {c} : g[b] = f[b]
        /\ g[c].state \in AsksNow => f[c].state \in AsksNow
        /\ c \in RetriesIn(g) => c \in RetriesIn(f)
    BY <1>1, <1>2, <1>3, <2>1 DEF RetriesIn, AsksNow
  <2>4. Within(g)
    BY <2>2, <2>3, TaskWithin
  <2> QED BY <2>1, <2>4
<1>5. landing' \subseteq Writes
  <2>1. Lands(j, c) \in Writes
    BY <1>1, LandsIs
  <2> QED BY <2>1 DEF Answer, HubInv, TypeInv
<1> QED BY <1>1, <1>2, <1>4, <1>5, TaskTypes DEF HubInv, TypeInv

LEMMA RefuseTypes ==
  ASSUME HubConstants, HubInv, NEW j \in Jobs, NEW c \in Ranges, Refuse(j, c)
  PROVE  HubInv'
<1>1. /\ tasks[j][c].state \in {"open", "asks", "loose"}
      /\ UNCHANGED <<pc, dir, files, format, at, local, landing, lost>>
  BY DEF Refuse
<1>2. PICK st : st = IF /\ ParallelFailures > 0
                        /\ tasks[j][c].tries < MaxRetries
                        /\ Cardinality(Retrying(j) \ {c}) < ParallelFailures
                     THEN "waits" ELSE "error"
  OBVIOUS
<1>3. st \in States /\ Becomes(j, c, st) /\ st \in {"waits", "error"}
  BY <1>2 DEF Refuse, States
<1>4. PICK r \in TaskRecord : tasks' = [tasks EXCEPT ![j][c] = r] /\ r.state = st /\ r.tries = tasks[j][c].tries
  BY <1>3, BecomesIs DEF HubInv
<1>5. r.state = "waits" => r.tries < MaxRetries /\ Cardinality(Retrying(j) \ {c}) < ParallelFailures
  BY <1>2, <1>3, <1>4
<1>6. r.state \in {"waits", "error"}
  BY <1>3, <1>4
<1>7. tasks'[j][c] = r /\ \A b \in Ranges \ {c} : tasks'[j][b] = tasks[j][b]
  BY <1>1, <1>4, <1>5, <1>6, TaskMoves DEF HubInv
<1>8. PICK f, g : f = tasks[j] /\ g = tasks'[j]
  OBVIOUS
<1>9. Within(f)
  BY <1>8, LimitsAre DEF HubInv
<1>10. Within(g)
  <2>1. CASE r.state = "error"
    <3>1. /\ \A b \in Ranges \ {c} : g[b] = f[b]
          /\ g[c].state \in AsksNow => f[c].state \in AsksNow
          /\ c \in RetriesIn(g) => c \in RetriesIn(f)
      BY <1>7, <1>8, <2>1 DEF RetriesIn, AsksNow
    <3> QED BY <1>9, <3>1, TaskWithin
  <2>2. CASE r.state = "waits"
    <3>1. RunsIn(g) = RunsIn(f) /\ RetriesIn(g) = (RetriesIn(f) \ {c}) \cup {c} /\ c \notin RetriesIn(f) \ {c}
      BY <1>1, <1>7, <1>8, <2>2 DEF RunsIn, RetriesIn, AsksNow
    <3>2. Cardinality(RetriesIn(f) \ {c}) < ParallelFailures
      BY <1>5, <1>8, <2>2, RunningIs
    <3>3. IsFiniteSet(RetriesIn(f) \ {c}) /\ Cardinality(RetriesIn(f) \ {c}) \in Nat
      <4>1. IsFiniteSet(RetriesIn(f)) /\ RetriesIn(f) \ {c} \subseteq RetriesIn(f)
        BY TaskSets
      <4> QED BY <4>1, FS_Subset, FS_CardinalityType
    <3>4. PICK S : S = RetriesIn(f) \ {c}
      OBVIOUS
    <3>5. IsFiniteSet(S) /\ Cardinality(S) \in Nat /\ c \notin S /\ RetriesIn(g) = S \cup {c} /\ Cardinality(S) < ParallelFailures
      BY <3>1, <3>2, <3>3, <3>4
    <3>6. Cardinality(S \cup {c}) = Cardinality(S) + 1
      BY <3>5, FS_AddElement
    <3>7. Cardinality(RetriesIn(g)) <= ParallelFailures
      BY <3>5, <3>6 DEF HubConstants
    <3>8. Cardinality(RunsIn(g)) <= MaxFiles
      BY <1>9, <3>1 DEF Within
    <3> QED BY <3>7, <3>8 DEF Within
  <2> QED BY <1>6, <2>1, <2>2
<1>11. Within(tasks'[j])
  BY <1>8, <1>10
<1> QED BY <1>1, <1>4, <1>5, <1>6, <1>11, TaskTypes DEF HubInv, TypeInv

LEMMA RetryTypes ==
  ASSUME HubConstants, HubInv, NEW j \in Jobs, NEW c \in Ranges, Retry(j, c)
  PROVE  HubInv'
<1>1. tasks[j][c].state = "waits" /\ UNCHANGED <<pc, dir, files, format, at, local, landing, lost>>
  BY DEF Retry
<1>2. tasks[j][c] \in TaskRecord /\ tasks[j][c].tries < MaxRetries /\ tasks \in [Jobs -> [Ranges -> TaskRecord]]
  BY <1>1 DEF HubInv, TypeInv, TasksInv, TaskRecord
<1>3. PICK q, r : q = tasks[j][c] /\ r = [state |-> "open", tries |-> q.tries + 1]
  OBVIOUS
<1>4. r \in TaskRecord /\ r.state = "open" /\ r.tries > 0
  BY <1>2, <1>3 DEF TaskRecord, States, HubConstants
<1>5. tasks' = [tasks EXCEPT ![j][c] = r]
  BY <1>2, <1>3 DEF Retry
<1>6. tasks'[j][c] = r /\ \A b \in Ranges \ {c} : tasks'[j][b] = tasks[j][b]
  BY <1>1, <1>4, <1>5, TaskMoves DEF HubInv
<1>7. Within(tasks'[j])
  <2>1. PICK f, g : f = tasks[j] /\ g = tasks'[j]
    OBVIOUS
  <2>2. Within(f)
    BY <2>1, LimitsAre DEF HubInv
  <2>3. /\ \A b \in Ranges \ {c} : g[b] = f[b]
        /\ g[c].state \in AsksNow => f[c].state \in AsksNow
        /\ c \in RetriesIn(g) => c \in RetriesIn(f)
    BY <1>1, <1>6, <2>1 DEF RetriesIn, AsksNow
  <2>4. Within(g)
    BY <2>2, <2>3, TaskWithin
  <2> QED BY <2>1, <2>4
<1> QED BY <1>1, <1>4, <1>5, <1>7, TaskTypes DEF HubInv, TypeInv

\* A write lands in a file that is there, and nowhere else.
LEMMA LandIs ==
  ASSUME HubConstants, HubInv, Land
  PROVE  /\ HubInv'
         /\ \E w \in landing :
              /\ landing' = landing \ {w}
              /\ \/ lost' /\ local' = local
                 \/ /\ lost' = lost
                    /\ \A d \in Dirs, n \in Names :
                         local'[d][n] = IF d = w.dir /\ n = w.name /\ local[d][n] # NoFile
                                          THEN [local[d][n] EXCEPT ![w.range] = w.from] ELSE local[d][n]
<1>1. UNCHANGED <<pc, dir, files, format, at, tasks, gone, read>>
  BY DEF Land
<1>2. PICK w \in landing :
        /\ landing' = landing \ {w}
        /\ \/ /\ local' = [local EXCEPT ![w.dir][w.name] = IF @ = NoFile THEN @ ELSE [@ EXCEPT ![w.range] = w.from]]
              /\ UNCHANGED lost
           \/ lost' = TRUE /\ UNCHANGED local
  BY DEF Land
<1>3. w \in Writes /\ local \in [Dirs -> [Names -> {NoFile} \cup [Ranges -> 0 .. Len(Remote)]]]
  BY DEF HubInv, TypeInv
<1>4. PICK d, n, c, x : d = w.dir /\ n = w.name /\ c = w.range /\ x = w.from
  OBVIOUS
<1>5. d \in Dirs /\ n \in Names /\ c \in Ranges /\ x \in DOMAIN Remote
  BY <1>3, <1>4 DEF Writes
<1>6. PICK y, row : /\ y = IF local[d][n] = NoFile THEN local[d][n] ELSE [local[d][n] EXCEPT ![c] = x]
                    /\ row = [local[d] EXCEPT ![n] = y]
  OBVIOUS
<1>7. y \in {NoFile} \cup [Ranges -> 0 .. Len(Remote)]
  BY <1>3, <1>5, <1>6, RemoteIs
<1>8. row \in [Names -> {NoFile} \cup [Ranges -> 0 .. Len(Remote)]] /\ row[n] = y /\ \A m \in Names \ {n} : row[m] = local[d][m]
  BY <1>3, <1>5, <1>6, <1>7
<1>9. \/ local' = [local EXCEPT ![d] = row] /\ lost' = lost
      \/ lost' = TRUE /\ local' = local
  BY <1>2, <1>3, <1>4, <1>5, <1>6
<1>10. local' \in [Dirs -> [Names -> {NoFile} \cup [Ranges -> 0 .. Len(Remote)]]]
  <2>1. CASE local' = [local EXCEPT ![d] = row]
    BY <1>3, <1>5, <1>8, <2>1
  <2>2. CASE local' = local
    BY <1>3, <2>2
  <2> QED BY <1>9, <2>1, <2>2
<1>11. lost' \in BOOLEAN
  BY <1>9 DEF HubInv, TypeInv
<1>12. HubInv'
  <2>1. TypeInv'
    BY <1>1, <1>2, <1>10, <1>11 DEF HubInv, TypeInv
  <2>2. TasksInv'
    BY <1>1 DEF HubInv, TasksInv, Current
  <2>3. LimitsInv'
    BY <1>1, LimitsAre DEF HubInv
  <2> QED BY <2>1, <2>2, <2>3 DEF HubInv
<1>13. ASSUME NEW e \in Dirs, NEW m \in Names, local' = [local EXCEPT ![d] = row]
       PROVE  local'[e][m] = IF e = w.dir /\ m = w.name /\ local[e][m] # NoFile
                               THEN [local[e][m] EXCEPT ![w.range] = w.from] ELSE local[e][m]
  <2>1. local'[e] = IF e = d THEN row ELSE local[e]
    BY <1>3, <1>5, <1>13
  <2>2. CASE e = d /\ m = n
    BY <1>4, <1>6, <1>8, <2>1, <2>2
  <2>3. CASE ~ (e = d /\ m = n)
    BY <1>4, <1>8, <2>1, <2>3
  <2> QED BY <2>2, <2>3
<1> QED BY <1>2, <1>9, <1>12, <1>13

LEMMA GiveUpTypes ==
  ASSUME HubConstants, HubInv, NEW j \in Jobs, GiveUp(j)
  PROVE  HubInv'
BY RemoveFileTypes DEF GiveUp

\* The ingest ends the job; with the directory goes what its tasks have open.
LEMMA IngestTypes ==
  ASSUME HubConstants, HubInv, NEW j \in Jobs, Ingest(j)
  PROVE  /\ HubInv' /\ pc'[j] \in {"done", "failed"} /\ (\A k \in Jobs \ {j} : pc'[k] = pc[k])
         /\ (\A k \in Jobs : dir[k] # dir[j] => tasks'[k] = tasks[k])
         /\ (\A d \in Dirs \ {dir[j]} : local'[d] = local[d])
         /\ (\A w : w.dir # dir[j] => (w \in landing' <=> w \in landing))
<1>1. pc[j] = "complete" /\ UNCHANGED <<dir, files, format, at, lost>>
  BY DEF Ingest
<1>2. at[j] \in DOMAIN files[j] /\ dir[j] \in Dirs /\ tasks[j] = NoTasks
  BY <1>1 DEF HubInv, TasksInv, TypeInv
<1>3. CASE pc' = [pc EXCEPT ![j] = "failed"] /\ UNCHANGED <<read, local, landing, gone, tasks>>
  <2>1. /\ pc' \in [Jobs -> {"resolve", "fetch", "await", "complete", "done", "failed"}]
        /\ pc'[j] = "failed" /\ \A k \in Jobs \ {j} : pc'[k] = pc[k]
    BY <1>3 DEF HubInv, TypeInv
  <2>2. TypeInv' /\ LimitsInv'
    BY <1>1, <1>3, <2>1, LimitsAre DEF HubInv, TypeInv
  <2>3. \A k \in Jobs : Current(k)' = Current(k)
    BY <1>1 DEF Current
  <2>4. TasksInv'
    BY <1>1, <1>2, <1>3, <2>1, <2>3 DEF HubInv, TasksInv
  <2> QED BY <1>3, <2>1, <2>2, <2>4 DEF HubInv
<1>4. CASE ~ (pc' = [pc EXCEPT ![j] = "failed"] /\ UNCHANGED <<read, local, landing, gone, tasks>>)
  <2>1. /\ pc' = [pc EXCEPT ![j] = "done"] /\ local' = [local EXCEPT ![dir[j]] = [n \in Names |-> NoFile]]
        /\ landing' = {w \in landing : w.dir # dir[j]} /\ Removed(dir[j], Names)
    BY <1>4 DEF Ingest
  <2>2. PICK d : d = dir[j]
    OBVIOUS
  <2>3. local' \in [Dirs -> [Names -> {NoFile} \cup [Ranges -> 0 .. Len(Remote)]]] /\ \A e \in Dirs \ {d} : local'[e] = local[e]
    BY <1>2, <2>1, <2>2 DEF HubInv, TypeInv
  <2>4. landing' \subseteq landing /\ \A w : w.dir # d => (w \in landing' <=> w \in landing)
    BY <2>1, <2>2
  <2>5. /\ TypeInv' /\ TasksInv' /\ LimitsInv'
        /\ \A k \in Jobs : dir[k] # d => tasks'[k] = tasks[k]
    <3>1. Removed(d, Names)
      BY <2>1, <2>2
    <3>2. PICK st \in {"failed", "done"} : pc' = [pc EXCEPT ![j] = st]
      BY <2>1
    <3> QED BY <1>1, <1>2, <2>3, <2>4, <3>1, <3>2, RemovedIs DEF HubInv
  <2>6. pc'[j] = "done" /\ \A k \in Jobs \ {j} : pc'[k] = pc[k]
    BY <2>1 DEF HubInv, TypeInv
  <2> QED BY <2>2, <2>3, <2>4, <2>5, <2>6 DEF HubInv
<1> QED BY <1>3, <1>4

LEMMA HubInvStart ==
  ASSUME HubConstants, Init
  PROVE  HubInv
<1>1. TypeInv
  <2>1. tasks \in [Jobs -> [Ranges -> TaskRecord]]
    BY NoTasksIs DEF Init
  <2>2. /\ pc \in [Jobs -> {"resolve", "fetch", "await", "complete", "done", "failed"}]
        /\ dir \in [Jobs -> Dirs] /\ files \in [Jobs -> Seq(DOMAIN Remote)]
        /\ format \in [Jobs -> {"parquet", "jsonl"}] /\ at \in [Jobs -> Nat \ {0}]
    <3>1. <<>> \in Seq(DOMAIN Remote)
      OBVIOUS
    <3> QED BY <3>1 DEF Init
  <2>3. /\ local \in [Dirs -> [Names -> {NoFile} \cup [Ranges -> 0 .. Len(Remote)]]]
        /\ landing \subseteq Writes /\ lost \in BOOLEAN
    BY DEF Init
  <2> QED BY <2>1, <2>2, <2>3 DEF TypeInv, TaskRecord
<1>2. \A j \in Jobs : pc[j] = "resolve" /\ tasks[j] = NoTasks /\ at[j] = 1
  BY DEF Init
<1>3. \A j \in Jobs, c \in Ranges : tasks[j][c].state = "idle" /\ tasks[j][c].tries = 0
  BY <1>2, NoTasksIs DEF Idle
<1>4. TasksInv
  BY <1>2, <1>3 DEF TasksInv
<1>5. ASSUME NEW j \in Jobs PROVE Within(tasks[j])
  <2>1. PICK f : f = tasks[j]
    OBVIOUS
  <2>2. \A c \in Ranges : f[c].state \in {"idle", "queued"}
    BY <1>3, <2>1
  <2>3. Within(f)
    BY <2>2, NoneWithin
  <2> QED BY <2>1, <2>3
<1> QED BY <1>1, <1>4, <1>5, LimitsAre DEF HubInv

LEMMA HubInvStutter ==
  ASSUME HubConstants, HubInv, UNCHANGED vars
  PROVE  HubInv'
<1>1. UNCHANGED <<pc, dir, files, format, at, tasks, local, gone, landing, lost, read>>
  BY DEF vars
<1>2. TypeInv'
  BY <1>1 DEF HubInv, TypeInv
<1>3. TasksInv'
  BY <1>1 DEF HubInv, TasksInv, Current
<1>4. LimitsInv'
  BY <1>1, LimitsAre DEF HubInv
<1> QED BY <1>2, <1>3, <1>4 DEF HubInv

LEMMA HubInvHolds ==
  ASSUME HubConstants
  PROVE  Spec => []HubInv
<1>1. Init => HubInv
  BY HubInvStart
<1>2. HubInv /\ [Next]_vars => HubInv'
  <2> SUFFICES ASSUME HubInv, [Next]_vars PROVE HubInv'
    OBVIOUS
  <2>1. CASE UNCHANGED vars
    BY <2>1, HubInvStutter
  <2>2. CASE Land
    BY <2>2, LandIs
  <2>3. ASSUME NEW j \in Jobs, Resolve(j) \/ Spawn(j) \/ NextFile(j) \/ GiveUp(j) \/ Ingest(j)
        PROVE  HubInv'
    BY <2>3, ResolveTypes, SpawnTypes, NextFileTypes, GiveUpTypes, IngestTypes
  <2>4. ASSUME NEW j \in Jobs, NEW c \in Ranges,
               Acquire(j, c) \/ Open(j, c) \/ Answer(j, c) \/ Refuse(j, c) \/ Retry(j, c)
        PROVE  HubInv'
    BY <2>4, AcquireTypes, OpenTypes, AnswerTypes, RefuseTypes, RetryTypes
  <2> QED BY <2>1, <2>2, <2>3, <2>4 DEF Next
<1> QED BY <1>1, <1>2, PTL DEF Spec

\* Jobs, their tasks and the files on disk are what the code keeps: a task never
\* has more tries than the settings allow, and a file has only ranges of files of
\* the dataset.
THEOREM HubTypes ==
  ASSUME HubConstants
  PROVE  Spec => []TypeOK
<1>1. HubInv => TypeOK
  BY DEF HubInv, TypeInv, TypeOK, States
<1> QED BY <1>1, HubInvHolds, PTL

-----------------------------------------------------------------------------
(* What is fetched *)

\* A step of one job leaves another one's files, and what is known of them, alone.
LEMMA OwnSame ==
  ASSUME NEW k \in Jobs, OwnFiles(k), pc'[k] = pc[k], dir'[k] = dir[k], files'[k] = files[k], at'[k] = at[k],
         tasks'[k] = tasks[k], local'[dir[k]] = local[dir[k]],
         \A w : w.dir = dir[k] => (w \in landing' <=> w \in landing), lost => lost'
  PROVE  OwnFiles(k)'
<1>1. \A a : Content(k, a)' = Content(k, a)
  BY DEF Content
<1>2. \A a, c : Write(k, a, c)' = Write(k, a, c) /\ Write(k, a, c).dir = dir[k]
  BY DEF Write
<1>3. \A a, c : Comes(k, a, c) => Comes(k, a, c)'
  BY <1>1, <1>2 DEF Comes
<1>4. Begun(k)' = Begun(k) /\ Fetched(k)' = Fetched(k)
  BY DEF Begun, Fetched
<1>5. \A w \in landing' : w.dir = dir'[k] =>
        \E a \in Begun(k)' : \E c \in 1 .. Remote[files'[k][a]].chunks : w = Write(k, a, c)'
  BY <1>2, <1>4 DEF OwnFiles
<1>6. \A a \in DOMAIN files'[k] : Content(k, a)' # NoFile =>
        /\ a \in Begun(k)'
        /\ \A c \in Ranges : Content(k, a)'[c] # Hole =>
             Content(k, a)'[c] = files'[k][a] /\ c <= Remote[files'[k][a]].chunks
  BY <1>1, <1>4 DEF OwnFiles
<1>7. \A a \in Fetched(k)' : \A c \in 1 .. Remote[files'[k][a]].chunks : Comes(k, a, c)'
  BY <1>3, <1>4 DEF OwnFiles
<1>8. \A c \in Ranges :
        /\ tasks'[k][c].state # "loose"
        /\ tasks'[k][c].state = "asks" => Content(k, at[k])' # NoFile
        /\ tasks'[k][c].state = "ok" => Comes(k, at[k], c)'
  <2>1. Content(k, at[k])' = Content(k, at[k]) /\ \A c : Write(k, at[k], c)' = Write(k, at[k], c)
    BY DEF Content, Write
  <2>2. \A c : Comes(k, at[k], c) => Comes(k, at[k], c)'
    <3>1. \A c : (Content(k, at[k])[c])' = Content(k, at[k])[c] /\ (files[k][at[k]])' = files[k][at[k]]
      BY <2>1 DEF Content
    <3> QED BY <1>2, <2>1, <3>1 DEF Comes, Write
  <2> QED BY <2>1, <2>2 DEF OwnFiles
<1> QED BY <1>5, <1>6, <1>7, <1>8 DEF OwnFiles

\* Job j, which has resolved, takes a step.
LEMMA StepOf ==
  ASSUME HubInv, WholeInv, NEW j \in Jobs, pc[j] # "resolve", pc'[j] # "resolve",
         \A k \in Jobs \ {j} : pc'[k] = pc[k] /\ at'[k] = at[k], UNCHANGED <<dir, files>>,
         \A k \in Jobs : dir[k] # dir[j] => tasks'[k] = tasks[k],
         \A d \in Dirs \ {dir[j]} : local'[d] = local[d],
         \A w : w.dir # dir[j] => (w \in landing' <=> w \in landing),
         lost => lost', Alone(j)' => OwnFiles(j)'
  PROVE  WholeInv'
<1>1. dir \in [Jobs -> Dirs]
  BY DEF HubInv, TypeInv
<1>2. UnusedInv'
  <2>1. ASSUME NEW d \in Dirs, \A k \in Jobs : pc'[k] # "resolve" => dir'[k] # d
        PROVE  (\A n \in Names : local'[d][n] = NoFile) /\ \A w \in landing' : w.dir # d
    <3>1. d # dir[j] /\ \A k \in Jobs : pc[k] # "resolve" => dir[k] # d
      BY <2>1
    <3>2. (\A n \in Names : local[d][n] = NoFile) /\ \A w \in landing : w.dir # d
      BY <3>1 DEF WholeInv, UnusedInv
    <3> QED BY <3>1, <3>2
  <2> QED BY <2>1 DEF UnusedInv
<1>3. ASSUME NEW k \in Jobs \ {j}, Alone(k)' PROVE OwnFiles(k)'
  <2>1. dir[k] # dir[j]
    BY <1>3 DEF Alone
  <2>2. Alone(k)
    BY <1>3, <2>1 DEF Alone
  <2>3. OwnFiles(k)
    BY <2>2 DEF WholeInv
  <2>4. /\ pc'[k] = pc[k] /\ dir'[k] = dir[k] /\ files'[k] = files[k] /\ at'[k] = at[k]
        /\ tasks'[k] = tasks[k] /\ local'[dir[k]] = local[dir[k]]
    BY <1>1, <2>1
  <2>5. \A w : w.dir = dir[k] => (w \in landing' <=> w \in landing)
    BY <2>1
  <2> QED BY <2>3, <2>4, <2>5, OwnSame
<1> QED BY <1>2, <1>3 DEF WholeInv

\* A directory is empty until a job has resolved to it.
LEMMA ResolveWhole ==
  ASSUME HubConstants, HubInv, WholeInv, NEW j \in Jobs, Resolve(j)
  PROVE  WholeInv'
<1>1. /\ pc[j] = "resolve" /\ UNCHANGED <<at, tasks, local, landing, lost>>
      /\ \A k \in Jobs \ {j} : pc'[k] = pc[k] /\ dir'[k] = dir[k] /\ files'[k] = files[k]
      /\ pc'[j] \in {"fetch", "failed"} /\ dir'[j] \in Dirs
  <2>1. PICK ask \in Requests, d \in Dirs : \E picked \in Listings(ask) :
          /\ dir' = [dir EXCEPT ![j] = d]
          /\ gone' = gone \ {d}
          /\ IF picked[1] = NoFile
               THEN pc' = [pc EXCEPT ![j] = "failed"] /\ UNCHANGED <<files, format>>
               ELSE /\ pc' = [pc EXCEPT ![j] = "fetch"]
                    /\ files' = [files EXCEPT ![j] = Truncated(picked[1], ask)]
                    /\ format' = [format EXCEPT ![j] = picked[2]]
    BY DEF Resolve
  <2>2. PICK picked \in Listings(ask) :
          /\ dir' = [dir EXCEPT ![j] = d]
          /\ gone' = gone \ {d}
          /\ IF picked[1] = NoFile
               THEN pc' = [pc EXCEPT ![j] = "failed"] /\ UNCHANGED <<files, format>>
               ELSE /\ pc' = [pc EXCEPT ![j] = "fetch"]
                    /\ files' = [files EXCEPT ![j] = Truncated(picked[1], ask)]
                    /\ format' = [format EXCEPT ![j] = picked[2]]
    BY <2>1
  <2>3. dir'[j] \in Dirs /\ \A k \in Jobs \ {j} : dir'[k] = dir[k]
    BY <2>2 DEF HubInv, TypeInv
  <2>4. pc'[j] \in {"fetch", "failed"} /\ \A k \in Jobs \ {j} : pc'[k] = pc[k] /\ files'[k] = files[k]
    BY <2>2 DEF HubInv, TypeInv
  <2> QED BY <2>3, <2>4 DEF Resolve
<1>2. UnusedInv'
  <2>1. ASSUME NEW d \in Dirs, \A k \in Jobs : pc'[k] # "resolve" => dir'[k] # d
        PROVE  \A k \in Jobs : pc[k] # "resolve" => dir[k] # d
    BY <1>1, <2>1
  <2> QED BY <1>1, <2>1 DEF WholeInv, UnusedInv
<1>3. ASSUME NEW k \in Jobs \ {j}, Alone(k)' PROVE OwnFiles(k)'
  <2>1. Alone(k)
    BY <1>1, <1>3 DEF Alone
  <2>2. OwnFiles(k)
    BY <2>1 DEF WholeInv
  <2>3. \A w : w.dir = dir[k] => (w \in landing' <=> w \in landing)
    BY <1>1
  <2>4. /\ pc'[k] = pc[k] /\ dir'[k] = dir[k] /\ files'[k] = files[k] /\ at'[k] = at[k]
        /\ tasks'[k] = tasks[k] /\ local'[dir[k]] = local[dir[k]] /\ (lost => lost')
    BY <1>1
  <2> QED BY <2>2, <2>3, <2>4, OwnSame
<1>4. ASSUME Alone(j)' PROVE OwnFiles(j)'
  <2>1. pc'[j] = "fetch" /\ at'[j] = 1 /\ tasks'[j] = NoTasks /\ HubInv'
    <3>1. HubInv'
      BY ResolveTypes
    <3>2. pc'[j] = "fetch"
      BY <1>1, <1>4 DEF Alone
    <3> QED BY <1>1, <3>1, <3>2 DEF HubInv, TasksInv
  <2>2. \A k \in Jobs : pc[k] # "resolve" => dir[k] # dir'[j]
    BY <1>1, <1>4 DEF Alone
  <2>3. (\A n \in Names : local[dir'[j]][n] = NoFile) /\ \A w \in landing : w.dir # dir'[j]
    BY <1>1, <2>2 DEF WholeInv, UnusedInv
  <2>4. Begun(j)' = {} /\ Fetched(j)' = {}
    BY <2>1 DEF Begun, Fetched
  <2>5. ASSUME NEW a \in DOMAIN files'[j] PROVE Content(j, a)' = NoFile
    <3>1. files'[j] \in Seq(DOMAIN Remote)
      BY <2>1 DEF HubInv, TypeInv
    <3>2. files'[j][a] \in DOMAIN Remote
      BY <3>1
    <3>3. Remote[files'[j][a]].name \in Names
      BY <3>2 DEF Names
    <3> QED BY <1>1, <2>3, <3>3 DEF Content
  <2>6. \A c \in Ranges : tasks'[j][c].state = "idle"
    BY <2>1, NoTasksIs DEF Idle
  <2> QED BY <1>1, <2>3, <2>4, <2>5, <2>6 DEF OwnFiles
<1> QED BY <1>2, <1>3, <1>4 DEF WholeInv

\* Where a job is that is alone at its files.
LEMMA AloneIs ==
  ASSUME HubConstants, HubInv, NEW j \in Jobs, Alone(j)
  PROVE  /\ at[j] \in DOMAIN files[j] /\ at[j] \in Nat \ {0} /\ DOMAIN files[j] = 1 .. Len(files[j]) /\ dir[j] \in Dirs
         /\ Fetched(j) \subseteq Begun(j) /\ Begun(j) \subseteq DOMAIN files[j]
         /\ (pc[j] # "fetch" => at[j] \in Begun(j))
         /\ \A a \in DOMAIN files[j] :
              /\ files[j][a] \in DOMAIN Remote /\ Remote[files[j][a]].name \in Names
              /\ Remote[files[j][a]].chunks \in Nat \ {0} /\ 1 .. Remote[files[j][a]].chunks \subseteq Ranges
              /\ Content(j, a) \in {NoFile} \cup [Ranges -> 0 .. Len(Remote)]
<1>1. at[j] \in DOMAIN files[j] /\ at[j] \in Nat \ {0} /\ files[j] \in Seq(DOMAIN Remote) /\ dir[j] \in Dirs
  BY DEF HubInv, TypeInv, TasksInv, Alone
<1>2. Len(files[j]) \in Nat /\ DOMAIN files[j] = 1 .. Len(files[j])
  BY <1>1
<1>3. Fetched(j) \subseteq Begun(j) /\ Begun(j) \subseteq DOMAIN files[j] /\ (pc[j] # "fetch" => at[j] \in Begun(j))
  BY <1>1, <1>2 DEF Fetched, Begun
<1>4. ASSUME NEW a \in DOMAIN files[j]
      PROVE  /\ files[j][a] \in DOMAIN Remote /\ Remote[files[j][a]].name \in Names
             /\ Remote[files[j][a]].chunks \in Nat \ {0} /\ 1 .. Remote[files[j][a]].chunks \subseteq Ranges
             /\ Content(j, a) \in {NoFile} \cup [Ranges -> 0 .. Len(Remote)]
  <2>1. files[j][a] \in DOMAIN Remote
    BY <1>1
  <2>2. Remote[files[j][a]].name \in Names
    BY <2>1 DEF Names
  <2>3. Content(j, a) \in {NoFile} \cup [Ranges -> 0 .. Len(Remote)]
    BY <1>1, <2>2 DEF HubInv, TypeInv, Content
  <2> QED BY <2>1, <2>2, <2>3, RangesAre
<1> QED BY <1>1, <1>2, <1>3, <1>4

\* Job j goes on, and nothing is opened or written.
LEMMA OwnGoes ==
  ASSUME NEW j \in Jobs, OwnFiles(j), UNCHANGED <<dir, files, local, landing, lost>>,
         Begun(j) \subseteq Begun(j)',
         \A a \in Fetched(j)' : a \in Fetched(j) \/ \A c \in 1 .. Remote[files[j][a]].chunks : Comes(j, a, c),
         \A c \in Ranges : \/ at' = at /\ tasks'[j][c] = tasks[j][c]
                           \/ tasks'[j][c].state \in {"idle", "queued", "open", "waits", "error"}
  PROVE  OwnFiles(j)'
<1>1. \A a : Content(j, a)' = Content(j, a)
  BY DEF Content
<1>2. \A a, c : Write(j, a, c)' = Write(j, a, c)
  BY DEF Write
<1>3. \A a, c : Comes(j, a, c) => Comes(j, a, c)'
  BY <1>1, <1>2 DEF Comes
<1>4. \A w \in landing' : w.dir = dir'[j] =>
        \E a \in Begun(j)' : \E c \in 1 .. Remote[files'[j][a]].chunks : w = Write(j, a, c)'
  BY <1>2 DEF OwnFiles
<1>5. \A a \in DOMAIN files'[j] : Content(j, a)' # NoFile =>
        /\ a \in Begun(j)'
        /\ \A c \in Ranges : Content(j, a)'[c] # Hole =>
             Content(j, a)'[c] = files'[j][a] /\ c <= Remote[files'[j][a]].chunks
  BY <1>1 DEF OwnFiles
<1>6. \A a \in Fetched(j)' : \A c \in 1 .. Remote[files'[j][a]].chunks : Comes(j, a, c)'
  <2>1. \A a \in Fetched(j)' : \A c \in 1 .. Remote[files[j][a]].chunks : Comes(j, a, c)
    BY DEF OwnFiles
  <2> QED BY <1>3, <2>1
<1>7. ASSUME NEW c \in Ranges
      PROVE  /\ tasks'[j][c].state # "loose"
             /\ tasks'[j][c].state = "asks" => Content(j, at[j])' # NoFile
             /\ tasks'[j][c].state = "ok" => Comes(j, at[j], c)'
  <2>1. CASE at' = at /\ tasks'[j][c] = tasks[j][c]
    <3>1. Content(j, at[j])' = Content(j, at[j]) /\ Write(j, at[j], c)' = Write(j, at[j], c)
      BY <2>1 DEF Content, Write
    <3>2. (Content(j, at[j])[c])' = Content(j, at[j])[c] /\ (files[j][at[j]])' = files[j][at[j]]
      BY <2>1 DEF Content
    <3>3. Comes(j, at[j], c) => Comes(j, at[j], c)'
      BY <3>1, <3>2 DEF Comes
    <3> QED BY <2>1, <3>1, <3>3 DEF OwnFiles
  <2>2. CASE tasks'[j][c].state \in {"idle", "queued", "open", "waits", "error"}
    BY <2>2
  <2> QED BY <2>1, <2>2
<1> QED BY <1>4, <1>5, <1>6, <1>7 DEF OwnFiles

LEMMA SpawnWhole ==
  ASSUME HubConstants, HubInv, WholeInv, NEW j \in Jobs, Spawn(j)
  PROVE  WholeInv'
<1>1. pc[j] = "fetch" /\ UNCHANGED <<dir, files, at, lost>>
  BY DEF Spawn
<1>2. CASE RemoveFile(j)
  <2>1. /\ pc'[j] = "failed" /\ \A k \in Jobs \ {j} : pc'[k] = pc[k]
        /\ \A k \in Jobs : dir[k] # dir[j] => tasks'[k] = tasks[k]
        /\ \A d \in Dirs \ {dir[j]} : local'[d] = local[d]
        /\ \A w : w.dir # dir[j] => (w \in landing' <=> w \in landing)
    BY <1>1, <1>2, RemoveFileTypes DEF Spawn
  <2>2. ~ Alone(j)'
    BY <2>1 DEF Alone
  <2> QED BY <1>1, <2>1, <2>2, StepOf
<1>3. CASE ~ RemoveFile(j)
  <2>1. PICK f : f = [c \in Ranges |-> IF c <= Remote[Current(j)].chunks THEN [Idle EXCEPT !.state = "queued"] ELSE Idle]
    OBVIOUS
  <2>2. /\ pc' = [pc EXCEPT ![j] = "await"] /\ tasks' = [tasks EXCEPT ![j] = f] /\ UNCHANGED <<local, landing>>
    BY <1>3, <2>1 DEF Spawn
  <2>3. /\ pc'[j] = "await" /\ tasks'[j] = f /\ \A k \in Jobs \ {j} : pc'[k] = pc[k] /\ tasks'[k] = tasks[k]
    BY <2>2 DEF HubInv, TypeInv
  <2>4. \A c \in Ranges : f[c].state \in {"idle", "queued", "open", "waits", "error"}
    BY <2>1 DEF Idle
  <2>5. ASSUME Alone(j)' PROVE OwnFiles(j)'
    <3>1. Alone(j)
      BY <1>1, <2>3, <2>5 DEF Alone
    <3>2. OwnFiles(j) /\ at[j] \in Nat \ {0}
      BY <3>1, AloneIs DEF WholeInv
    <3>3. Begun(j) \subseteq Begun(j)' /\ Fetched(j)' = Fetched(j)
      BY <1>1, <2>3, <3>2 DEF Begun, Fetched
    <3>4. \A c \in Ranges : tasks'[j][c].state \in {"idle", "queued", "open", "waits", "error"}
      BY <2>3, <2>4
    <3> QED BY <1>1, <2>2, <3>2, <3>3, <3>4, OwnGoes
  <2>6. \A k \in Jobs : dir[k] # dir[j] => tasks'[k] = tasks[k]
    BY <2>3
  <2>7. /\ \A k \in Jobs \ {j} : pc'[k] = pc[k] /\ at'[k] = at[k]
        /\ \A d \in Dirs \ {dir[j]} : local'[d] = local[d]
        /\ \A w : w.dir # dir[j] => (w \in landing' <=> w \in landing)
    BY <1>1, <2>2, <2>3
  <2>8. pc[j] # "resolve" /\ pc'[j] # "resolve" /\ UNCHANGED <<dir, files>> /\ (lost => lost')
    BY <1>1, <2>3
  <2> QED BY <2>5, <2>6, <2>7, <2>8, StepOf
<1> QED BY <1>2, <1>3

LEMMA NextFileWhole ==
  ASSUME HubConstants, HubInv, WholeInv, NEW j \in Jobs, NextFile(j)
  PROVE  WholeInv'
<1>1. /\ pc[j] = "await" /\ tasks' = [tasks EXCEPT ![j] = NoTasks] /\ InState(j, "ok") = 1 .. Remote[Current(j)].chunks
      /\ UNCHANGED <<dir, files, local, landing, lost>>
  BY DEF NextFile
<1>2. at[j] \in Nat \ {0} /\ at \in [Jobs -> Nat \ {0}]
  BY DEF HubInv, TypeInv
<1>3. /\ \A k \in Jobs \ {j} : pc'[k] = pc[k] /\ at'[k] = at[k] /\ tasks'[k] = tasks[k]
      /\ (pc'[j] = "fetch" /\ at'[j] = at[j] + 1) \/ (pc'[j] = "complete" /\ at'[j] = at[j])
      /\ tasks'[j] = NoTasks
  <2>1. tasks'[j] = NoTasks /\ \A k \in Jobs \ {j} : tasks'[k] = tasks[k]
    BY <1>1 DEF HubInv, TypeInv
  <2>2. CASE at[j] < Len(files[j])
    <3>1. pc' = [pc EXCEPT ![j] = "fetch"] /\ at' = [at EXCEPT ![j] = at[j] + 1]
      BY <2>2 DEF NextFile
    <3> QED BY <1>2, <2>1, <3>1 DEF HubInv, TypeInv
  <2>3. CASE ~ (at[j] < Len(files[j]))
    <3>1. pc' = [pc EXCEPT ![j] = "complete"] /\ at' = at
      BY <2>3 DEF NextFile
    <3> QED BY <1>2, <2>1, <3>1 DEF HubInv, TypeInv
  <2> QED BY <2>2, <2>3
<1>4. ASSUME Alone(j)' PROVE OwnFiles(j)'
  <2>1. Alone(j)
    BY <1>1, <1>3, <1>4 DEF Alone
  <2>2. OwnFiles(j)
    BY <2>1 DEF WholeInv
  <2>3. Begun(j)' = 1 .. at[j] /\ Fetched(j)' = 1 .. at[j] /\ Begun(j) = 1 .. at[j] /\ Fetched(j) = 1 .. at[j] - 1
    BY <1>1, <1>2, <1>3 DEF Begun, Fetched
  <2>4. \A c \in 1 .. Remote[files[j][at[j]]].chunks : Comes(j, at[j], c)
    BY <1>1, <2>2 DEF OwnFiles, InState, Current
  <2>5. ASSUME NEW a \in Fetched(j)'
        PROVE  a \in Fetched(j) \/ \A c \in 1 .. Remote[files[j][a]].chunks : Comes(j, a, c)
    <3>1. a \in Fetched(j) \/ a = at[j]
      BY <1>2, <2>3, <2>5
    <3> QED BY <2>4, <3>1
  <2>6. \A c \in Ranges : tasks'[j][c].state \in {"idle", "queued", "open", "waits", "error"}
    BY <1>3, NoTasksIs DEF Idle
  <2>7. Begun(j) \subseteq Begun(j)'
    BY <2>3
  <2> QED BY <1>1, <2>2, <2>5, <2>6, <2>7, OwnGoes
<1>5. \A k \in Jobs : dir[k] # dir[j] => tasks'[k] = tasks[k]
  BY <1>3
<1>6. /\ \A k \in Jobs \ {j} : pc'[k] = pc[k] /\ at'[k] = at[k]
      /\ \A d \in Dirs \ {dir[j]} : local'[d] = local[d]
      /\ \A w : w.dir # dir[j] => (w \in landing' <=> w \in landing)
  BY <1>1, <1>3
<1>7. pc[j] # "resolve" /\ pc'[j] # "resolve" /\ UNCHANGED <<dir, files>> /\ (lost => lost')
  BY <1>1, <1>3
<1> QED BY <1>4, <1>5, <1>6, <1>7, StepOf

LEMMA GiveUpWhole ==
  ASSUME HubConstants, HubInv, WholeInv, NEW j \in Jobs, GiveUp(j)
  PROVE  WholeInv'
<1>1. pc[j] = "await" /\ RemoveFile(j) /\ UNCHANGED <<dir, files, at, lost>>
  BY DEF GiveUp
<1>2. /\ pc'[j] = "failed" /\ \A k \in Jobs \ {j} : pc'[k] = pc[k]
      /\ \A k \in Jobs : dir[k] # dir[j] => tasks'[k] = tasks[k]
      /\ \A d \in Dirs \ {dir[j]} : local'[d] = local[d]
      /\ \A w : w.dir # dir[j] => (w \in landing' <=> w \in landing)
  BY <1>1, RemoveFileTypes DEF GiveUp
<1>3. ~ Alone(j)'
  BY <1>2 DEF Alone
<1> QED BY <1>1, <1>2, <1>3, StepOf

LEMMA IngestWhole ==
  ASSUME HubConstants, HubInv, WholeInv, NEW j \in Jobs, Ingest(j)
  PROVE  WholeInv'
<1>1. pc[j] = "complete" /\ UNCHANGED <<dir, files, at, lost>>
  BY DEF Ingest
<1>2. /\ pc'[j] \in {"done", "failed"} /\ \A k \in Jobs \ {j} : pc'[k] = pc[k]
      /\ \A k \in Jobs : dir[k] # dir[j] => tasks'[k] = tasks[k]
      /\ \A d \in Dirs \ {dir[j]} : local'[d] = local[d]
      /\ \A w : w.dir # dir[j] => (w \in landing' <=> w \in landing)
  BY IngestTypes
<1>3. ~ Alone(j)'
  BY <1>2 DEF Alone
<1> QED BY <1>1, <1>2, <1>3, StepOf

\* One task of job j goes on, with what it writes in the job's directory.
LEMMA TaskStep ==
  ASSUME HubConstants, HubInv, WholeInv, NEW j \in Jobs, NEW c \in Ranges, tasks[j][c].state # "idle",
         \A k \in Jobs \ {j} : tasks'[k] = tasks[k], UNCHANGED <<pc, dir, files, at, lost>>,
         \A d \in Dirs \ {dir[j]} : local'[d] = local[d],
         \A w : w.dir # dir[j] => (w \in landing' <=> w \in landing),
         Alone(j) /\ OwnFiles(j) /\ pc[j] = "await" => OwnFiles(j)'
  PROVE  WholeInv'
<1>1. pc[j] # "resolve" /\ pc[j] # "fetch" /\ pc[j] # "complete"
  BY BusyIs DEF HubInv
<1>2. ASSUME Alone(j)' PROVE OwnFiles(j)'
  <2>1. Alone(j)
    BY <1>2 DEF Alone
  <2>2. OwnFiles(j) /\ pc[j] = "await"
    BY <1>1, <2>1 DEF WholeInv, Alone
  <2> QED BY <2>1, <2>2
<1>3. \A k \in Jobs : dir[k] # dir[j] => tasks'[k] = tasks[k]
  OBVIOUS
<1>4. /\ \A k \in Jobs \ {j} : pc'[k] = pc[k] /\ at'[k] = at[k]
      /\ pc'[j] # "resolve" /\ UNCHANGED <<dir, files>> /\ (lost => lost')
  BY <1>1
<1> QED BY <1>1, <1>2, <1>3, <1>4, StepOf

\* One task goes on without a write.
LEMMA QuietTask ==
  ASSUME HubConstants, HubInv, WholeInv, NEW j \in Jobs, NEW c \in Ranges, tasks[j][c].state # "idle",
         NEW r \in TaskRecord, tasks' = [tasks EXCEPT ![j][c] = r], r.state \in {"open", "waits", "error"},
         UNCHANGED <<pc, dir, files, at, local, landing, lost>>
  PROVE  WholeInv'
<1>1. tasks \in [Jobs -> [Ranges -> TaskRecord]]
  BY DEF HubInv, TypeInv, TaskRecord
<1>2. PICK f : f = [tasks[j] EXCEPT ![c] = r]
  OBVIOUS
<1>3. tasks' = [tasks EXCEPT ![j] = f] /\ f[c] = r /\ \A b \in Ranges \ {c} : f[b] = tasks[j][b]
  BY <1>1, <1>2
<1>4. tasks'[j] = f /\ \A k \in Jobs \ {j} : tasks'[k] = tasks[k]
  BY <1>1, <1>3
<1>5. ASSUME OwnFiles(j) PROVE OwnFiles(j)'
  <2>1. ASSUME NEW b \in Ranges
        PROVE  \/ at' = at /\ tasks'[j][b] = tasks[j][b]
               \/ tasks'[j][b].state \in {"idle", "queued", "open", "waits", "error"}
    <3>1. CASE b = c
      BY <1>3, <1>4, <3>1
    <3>2. CASE b # c
      BY <1>3, <1>4, <3>2
    <3> QED BY <3>1, <3>2
  <2>2. Begun(j)' = Begun(j) /\ Fetched(j)' = Fetched(j)
    BY DEF Begun, Fetched
  <2>3. /\ Begun(j) \subseteq Begun(j)' /\ UNCHANGED <<dir, files, local, landing, lost>>
        /\ \A a \in Fetched(j)' : a \in Fetched(j) \/ \A b \in 1 .. Remote[files[j][a]].chunks : Comes(j, a, b)
    BY <2>2
  <2> QED BY <1>5, <2>1, <2>3, OwnGoes
<1> QED BY <1>4, <1>5, TaskStep

LEMMA AcquireWhole ==
  ASSUME HubConstants, HubInv, WholeInv, NEW j \in Jobs, NEW c \in Ranges, Acquire(j, c)
  PROVE  WholeInv'
<1>1. tasks[j][c].state # "idle" /\ UNCHANGED <<pc, dir, files, at, local, landing, lost>>
  BY DEF Acquire
<1>2. PICK r \in TaskRecord : tasks' = [tasks EXCEPT ![j][c] = r] /\ r.state = "open"
  <2>1. "open" \in States /\ Becomes(j, c, "open")
    BY DEF Acquire, States
  <2> QED BY <2>1, BecomesIs DEF HubInv
<1> QED BY <1>1, <1>2, QuietTask

LEMMA RefuseWhole ==
  ASSUME HubConstants, HubInv, WholeInv, NEW j \in Jobs, NEW c \in Ranges, Refuse(j, c)
  PROVE  WholeInv'
<1>1. tasks[j][c].state # "idle" /\ UNCHANGED <<pc, dir, files, at, local, landing, lost>>
  BY DEF Refuse
<1>2. PICK st \in {"waits", "error"} : Becomes(j, c, st)
  BY DEF Refuse
<1>3. PICK r \in TaskRecord : tasks' = [tasks EXCEPT ![j][c] = r] /\ r.state = st
  <2>1. st \in States
    BY DEF States
  <2> QED BY <1>2, <2>1, BecomesIs DEF HubInv
<1>4. r.state \in {"open", "waits", "error"}
  BY <1>3
<1> QED BY <1>1, <1>3, <1>4, QuietTask

LEMMA RetryWhole ==
  ASSUME HubConstants, HubInv, WholeInv, NEW j \in Jobs, NEW c \in Ranges, Retry(j, c)
  PROVE  WholeInv'
<1>1. tasks[j][c].state = "waits" /\ UNCHANGED <<pc, dir, files, at, local, landing, lost>>
  BY DEF Retry
<1>2. tasks[j][c] \in TaskRecord /\ tasks[j][c].tries < MaxRetries /\ tasks \in [Jobs -> [Ranges -> TaskRecord]]
  BY <1>1 DEF HubInv, TypeInv, TasksInv, TaskRecord
<1>3. PICK q, r : q = tasks[j][c] /\ r = [state |-> "open", tries |-> q.tries + 1]
  OBVIOUS
<1>4. r \in TaskRecord /\ r.state = "open"
  BY <1>2, <1>3 DEF TaskRecord, States, HubConstants
<1>5. tasks' = [tasks EXCEPT ![j][c] = r]
  BY <1>2, <1>3 DEF Retry
<1> QED BY <1>1, <1>4, <1>5, QuietTask

\* The task's file is there from now on, and empty when it was not there.
LEMMA OpenWhole ==
  ASSUME HubConstants, HubInv, WholeInv, NEW j \in Jobs, NEW c \in Ranges, Open(j, c)
  PROVE  WholeInv'
<1>1. tasks[j][c].state = "open" /\ UNCHANGED <<pc, dir, files, format, at, landing, lost>>
  BY DEF Open
<1>2. PICK r \in TaskRecord : tasks' = [tasks EXCEPT ![j][c] = r] /\ r.state = "asks"
  <2>1. "asks" \in States /\ Becomes(j, c, "asks")
    BY DEF Open, States
  <2> QED BY <2>1, BecomesIs DEF HubInv
<1>3. /\ tasks'[j][c] = r /\ \A b \in Ranges \ {c} : tasks'[j][b] = tasks[j][b]
      /\ \A k \in Jobs \ {j} : tasks'[k] = tasks[k]
  BY <1>1, <1>2, TaskMoves DEF HubInv
<1>4. PICK d, n, x : d = dir[j] /\ n = Name(j) /\ x = IF local[d][n] = NoFile THEN Empty ELSE local[d][n]
  OBVIOUS
<1>5. d \in Dirs /\ n \in Names
  BY <1>1, <1>4, LandsIs
<1>6. PICK row : row = [local[d] EXCEPT ![n] = x]
  OBVIOUS
<1>7. local \in [Dirs -> [Names -> {NoFile} \cup [Ranges -> 0 .. Len(Remote)]]]
  BY DEF HubInv, TypeInv
<1>8. local' = [local EXCEPT ![d] = row] /\ row[n] = x /\ \A m \in Names \ {n} : row[m] = local[d][m]
  BY <1>4, <1>5, <1>6, <1>7 DEF Open
<1>9. local'[d] = row /\ \A e \in Dirs \ {d} : local'[e] = local[e]
  BY <1>5, <1>7, <1>8
<1>10. ASSUME Alone(j), OwnFiles(j), pc[j] = "await" PROVE OwnFiles(j)'
  <2>1. /\ at[j] \in DOMAIN files[j] /\ at[j] \in Begun(j) /\ Fetched(j) \subseteq Begun(j) /\ Begun(j) \subseteq DOMAIN files[j]
        /\ \A a \in DOMAIN files[j] : Remote[files[j][a]].name \in Names /\ 1 .. Remote[files[j][a]].chunks \subseteq Ranges
    BY <1>10, AloneIs
  <2>2. \A a, b \in DOMAIN files[j] : a # b => Remote[files[j][a]].name # Remote[files[j][b]].name
    BY <1>10 DEF Alone
  <2>3. \A a \in DOMAIN files[j] : Content(j, a)' = IF a = at[j] THEN x ELSE Content(j, a)
    <3>1. ASSUME NEW a \in DOMAIN files[j] PROVE Content(j, a)' = IF a = at[j] THEN x ELSE Content(j, a)
      <4>1. PICK m : m = Remote[files[j][a]].name
        OBVIOUS
      <4>2. m \in Names /\ (m = n <=> a = at[j])
        BY <1>4, <2>1, <2>2, <4>1 DEF Name, Current
      <4>3. Content(j, a)' = row[m] /\ Content(j, a) = local[d][m]
        BY <1>1, <1>4, <1>9, <4>1 DEF Content
      <4> QED BY <1>8, <4>2, <4>3
    <3> QED BY <3>1
  <2>4. Content(j, at[j]) = local[d][n]
    BY <1>4 DEF Content, Name, Current
  <2>5. x # NoFile /\ \A b \in Ranges : Empty[b] = Hole
    BY <1>4, EmptyIs DEF Empty
  <2>6. \A a \in DOMAIN files[j] : Content(j, a) # NoFile => Content(j, a)' = Content(j, a)
    BY <1>4, <2>3, <2>4
  <2>7. \A a, b : Write(j, a, b)' = Write(j, a, b)
    BY <1>1 DEF Write
  <2>8. \A a \in DOMAIN files[j] : \A b : Comes(j, a, b) => Comes(j, a, b)'
    BY <1>1, <2>6, <2>7 DEF Comes
  <2>9. Begun(j)' = Begun(j) /\ Fetched(j)' = Fetched(j)
    BY <1>1 DEF Begun, Fetched
  <2>10. \A w \in landing' : w.dir = dir'[j] =>
           \E a \in Begun(j)' : \E b \in 1 .. Remote[files'[j][a]].chunks : w = Write(j, a, b)'
    BY <1>1, <1>10, <2>7, <2>9 DEF OwnFiles
  <2>11. ASSUME NEW a \in DOMAIN files'[j], Content(j, a)' # NoFile
         PROVE  /\ a \in Begun(j)'
                /\ \A b \in Ranges : Content(j, a)'[b] # Hole =>
                     Content(j, a)'[b] = files'[j][a] /\ b <= Remote[files'[j][a]].chunks
    <3>1. a \in DOMAIN files[j]
      BY <1>1
    <3>2. CASE Content(j, a) # NoFile
      <4>1. Content(j, a)' = Content(j, a)
        BY <2>6, <3>1, <3>2
      <4>2. /\ a \in Begun(j)
            /\ \A b \in Ranges : Content(j, a)[b] # Hole =>
                 Content(j, a)[b] = files[j][a] /\ b <= Remote[files[j][a]].chunks
        BY <1>10, <3>1, <3>2 DEF OwnFiles
      <4> QED BY <1>1, <2>9, <4>1, <4>2
    <3>3. CASE Content(j, a) = NoFile
      <4>1. a = at[j]
        BY <2>3, <2>11, <3>1, <3>3
      <4>2. Content(j, a)' = Empty
        BY <1>4, <2>3, <2>4, <3>1, <3>3, <4>1
      <4> QED BY <2>1, <2>5, <2>9, <4>1, <4>2
    <3> QED BY <3>2, <3>3
  <2>12. \A a \in Fetched(j)' : \A b \in 1 .. Remote[files'[j][a]].chunks : Comes(j, a, b)'
    <3>1. \A a \in Fetched(j) : \A b \in 1 .. Remote[files[j][a]].chunks : Comes(j, a, b)
      BY <1>10 DEF OwnFiles
    <3> QED BY <1>1, <2>1, <2>8, <2>9, <3>1
  <2>13. PICK i : i = at[j]
    OBVIOUS
  <2>14. i \in DOMAIN files[j] /\ at'[j] = i
    BY <1>1, <2>1, <2>13
  <2>15. Content(j, at[j])' = Content(j, i)' /\ \A b : Comes(j, at[j], b)' = Comes(j, i, b)'
    BY <1>1, <2>14 DEF Content, Comes, Write
  <2>16. ASSUME NEW b \in Ranges
         PROVE  /\ tasks'[j][b].state # "loose"
                /\ tasks'[j][b].state = "asks" => Content(j, i)' # NoFile
                /\ tasks'[j][b].state = "ok" => Comes(j, i, b)'
    <3>1. CASE b = c
      <4>1. Content(j, i)' # NoFile
        BY <2>3, <2>5, <2>13, <2>14
      <4> QED BY <1>2, <1>3, <3>1, <4>1
    <3>2. CASE b # c
      <4>1. tasks'[j][b] = tasks[j][b]
        BY <1>3, <3>2
      <4>2. /\ tasks[j][b].state # "loose"
            /\ tasks[j][b].state = "asks" => Content(j, i) # NoFile
            /\ tasks[j][b].state = "ok" => Comes(j, i, b)
        BY <1>10, <2>13 DEF OwnFiles
      <4> QED BY <2>6, <2>8, <2>14, <4>1, <4>2
    <3> QED BY <3>1, <3>2
  <2> QED BY <2>10, <2>11, <2>12, <2>15, <2>16 DEF OwnFiles
<1>11. \A w : w.dir # dir[j] => (w \in landing' <=> w \in landing)
  BY <1>1
<1>12. tasks[j][c].state # "idle" /\ \A e \in Dirs \ {dir[j]} : local'[e] = local[e]
  BY <1>1, <1>4, <1>9
<1> QED BY <1>1, <1>3, <1>10, <1>11, <1>12, TaskStep

\* A range that was answered is on its way to its file.
LEMMA AnswerWhole ==
  ASSUME HubConstants, HubInv, WholeInv, NEW j \in Jobs, NEW c \in Ranges, Answer(j, c)
  PROVE  WholeInv'
<1>1. /\ tasks[j][c].state \in {"asks", "loose"} /\ UNCHANGED <<pc, dir, files, format, at, local, lost>>
      /\ landing' = IF tasks[j][c].state = "asks" THEN landing \cup {Lands(j, c)} ELSE landing
  BY DEF Answer
<1>2. PICK r \in TaskRecord : tasks' = [tasks EXCEPT ![j][c] = r] /\ r.state = "ok"
  <2>1. "ok" \in States /\ Becomes(j, c, "ok")
    BY DEF Answer, States
  <2> QED BY <2>1, BecomesIs DEF HubInv
<1>3. /\ tasks'[j][c] = r /\ \A b \in Ranges \ {c} : tasks'[j][b] = tasks[j][b]
      /\ \A k \in Jobs \ {j} : tasks'[k] = tasks[k]
  BY <1>1, <1>2, TaskMoves DEF HubInv
<1>4. Lands(j, c) = Write(j, at[j], c) /\ Lands(j, c).dir = dir[j]
  BY DEF Lands, Write, Name, Current
<1>5. ASSUME Alone(j), OwnFiles(j), pc[j] = "await" PROVE OwnFiles(j)'
  <2>1. at[j] \in DOMAIN files[j] /\ at[j] \in Begun(j) /\ Fetched(j) \subseteq Begun(j) /\ Begun(j) \subseteq DOMAIN files[j]
    BY <1>5, AloneIs
  <2>2. tasks[j][c].state = "asks" /\ Content(j, at[j]) # NoFile
    BY <1>1, <1>5 DEF OwnFiles
  <2>3. landing' = landing \cup {Write(j, at[j], c)} /\ c \in 1 .. Remote[files[j][at[j]]].chunks
    BY <1>1, <1>4, <2>2, LandsIs DEF Current
  <2>4. \A a : Content(j, a)' = Content(j, a)
    BY <1>1 DEF Content
  <2>5. \A a, b : Write(j, a, b)' = Write(j, a, b)
    BY <1>1 DEF Write
  <2>6. \A a, b : Comes(j, a, b) => Comes(j, a, b)'
    BY <1>1, <2>3, <2>4, <2>5 DEF Comes
  <2>7. Begun(j)' = Begun(j) /\ Fetched(j)' = Fetched(j)
    BY <1>1 DEF Begun, Fetched
  <2>8. ASSUME NEW w \in landing', w.dir = dir'[j]
        PROVE  \E a \in Begun(j)' : \E b \in 1 .. Remote[files'[j][a]].chunks : w = Write(j, a, b)'
    <3>1. CASE w \in landing
      <4>1. \E a \in Begun(j) : \E b \in 1 .. Remote[files[j][a]].chunks : w = Write(j, a, b)
        BY <1>1, <1>5, <2>8, <3>1 DEF OwnFiles
      <4> QED BY <1>1, <2>5, <2>7, <4>1
    <3>2. CASE w = Write(j, at[j], c)
      <4>1. \E a \in Begun(j) : \E b \in 1 .. Remote[files[j][a]].chunks : w = Write(j, a, b)
        BY <2>1, <2>3, <3>2
      <4> QED BY <1>1, <2>5, <2>7, <4>1
    <3> QED BY <2>3, <3>1, <3>2
  <2>9. \A a \in DOMAIN files'[j] : Content(j, a)' # NoFile =>
          /\ a \in Begun(j)'
          /\ \A b \in Ranges : Content(j, a)'[b] # Hole =>
               Content(j, a)'[b] = files'[j][a] /\ b <= Remote[files'[j][a]].chunks
    BY <1>1, <1>5, <2>4, <2>7 DEF OwnFiles
  <2>10. \A a \in Fetched(j)' : \A b \in 1 .. Remote[files'[j][a]].chunks : Comes(j, a, b)'
    BY <1>1, <1>5, <2>6, <2>7 DEF OwnFiles
  <2>11. PICK i : i = at[j]
    OBVIOUS
  <2>12. Content(j, at[j])' = Content(j, i)' /\ \A b : Comes(j, at[j], b)' = Comes(j, i, b)'
    <3>1. at'[j] = i
      BY <1>1, <2>11
    <3> QED BY <3>1 DEF Content, Comes, Write
  <2>13. ASSUME NEW b \in Ranges
         PROVE  /\ tasks'[j][b].state # "loose"
                /\ tasks'[j][b].state = "asks" => Content(j, i)' # NoFile
                /\ tasks'[j][b].state = "ok" => Comes(j, i, b)'
    <3>1. CASE b = c
      <4>1. Content(j, i)' # NoFile /\ Write(j, i, c)' \in landing'
        BY <2>2, <2>3, <2>4, <2>5, <2>11
      <4>2. Comes(j, i, c)'
        BY <4>1 DEF Comes
      <4> QED BY <1>2, <1>3, <3>1, <4>2
    <3>2. CASE b # c
      <4>1. tasks'[j][b] = tasks[j][b]
        BY <1>3, <3>2
      <4>2. /\ tasks[j][b].state # "loose"
            /\ tasks[j][b].state = "asks" => Content(j, i) # NoFile
            /\ tasks[j][b].state = "ok" => Comes(j, i, b)
        BY <1>5, <2>11 DEF OwnFiles
      <4> QED BY <2>4, <2>6, <4>1, <4>2
    <3> QED BY <3>1, <3>2
  <2> QED BY <2>8, <2>9, <2>10, <2>12, <2>13 DEF OwnFiles
<1>6. \A w : w.dir # dir[j] => (w \in landing' <=> w \in landing)
  BY <1>1, <1>4
<1>7. tasks[j][c].state # "idle" /\ \A e \in Dirs \ {dir[j]} : local'[e] = local[e]
  BY <1>1
<1> QED BY <1>1, <1>3, <1>5, <1>6, <1>7, TaskStep

\* A write that lands in a job's directory is of its files.
LEMMA LandWhole ==
  ASSUME HubConstants, HubInv, WholeInv, Land
  PROVE  WholeInv'
<1>1. UNCHANGED <<pc, dir, files, format, at, tasks, gone, read>>
  BY DEF Land
<1>2. PICK w \in landing :
        /\ landing' = landing \ {w}
        /\ \/ lost' /\ local' = local
           \/ /\ lost' = lost
              /\ \A d \in Dirs, n \in Names :
                   local'[d][n] = IF d = w.dir /\ n = w.name /\ local[d][n] # NoFile
                                    THEN [local[d][n] EXCEPT ![w.range] = w.from] ELSE local[d][n]
  BY LandIs
<1>3. \A d \in Dirs, n \in Names :
        \/ local'[d][n] = local[d][n]
        \/ d = w.dir /\ n = w.name /\ local[d][n] # NoFile /\ local'[d][n] = [local[d][n] EXCEPT ![w.range] = w.from]
  BY <1>2
<1>4. UnusedInv'
  <2>1. ASSUME NEW d \in Dirs, \A k \in Jobs : pc'[k] # "resolve" => dir'[k] # d
        PROVE  (\A n \in Names : local'[d][n] = NoFile) /\ \A v \in landing' : v.dir # d
    <3>1. (\A n \in Names : local[d][n] = NoFile) /\ \A v \in landing : v.dir # d
      BY <1>1, <2>1 DEF WholeInv, UnusedInv
    <3> QED BY <1>2, <1>3, <3>1
  <2> QED BY <2>1 DEF UnusedInv
<1>5. ASSUME NEW j \in Jobs, Alone(j)' PROVE OwnFiles(j)'
  <2>1. Alone(j) /\ OwnFiles(j)
    <3>1. Alone(j)
      BY <1>1, <1>5 DEF Alone
    <3> QED BY <3>1 DEF WholeInv
  <2>2. /\ at[j] \in DOMAIN files[j] /\ dir[j] \in Dirs
        /\ Fetched(j) \subseteq Begun(j) /\ Begun(j) \subseteq DOMAIN files[j]
        /\ \A a \in DOMAIN files[j] :
             /\ files[j][a] \in DOMAIN Remote /\ Remote[files[j][a]].name \in Names
             /\ 1 .. Remote[files[j][a]].chunks \subseteq Ranges
             /\ Content(j, a) \in {NoFile} \cup [Ranges -> 0 .. Len(Remote)]
    BY <2>1, AloneIs
  <2>3. \A a, b \in DOMAIN files[j] : a # b => Remote[files[j][a]].name # Remote[files[j][b]].name
    BY <2>1 DEF Alone
  <2>4. \A a, c : Write(j, a, c)' = Write(j, a, c)
    BY <1>1 DEF Write
  <2>5. Begun(j)' = Begun(j) /\ Fetched(j)' = Fetched(j)
    BY <1>1 DEF Begun, Fetched
  \* What becomes of file a.
  <2>6. ASSUME NEW a \in DOMAIN files[j]
        PROVE  /\ Content(j, a)' = NoFile <=> Content(j, a) = NoFile
               /\ \/ Content(j, a)' = Content(j, a)
                  \/ \E c \in 1 .. Remote[files[j][a]].chunks :
                       w = Write(j, a, c) /\ Content(j, a)' = [Content(j, a) EXCEPT ![c] = files[j][a]]
    <3>1. PICK m, d : m = Remote[files[j][a]].name /\ d = dir[j]
      OBVIOUS
    <3>2. m \in Names /\ d \in Dirs /\ Content(j, a) = local[d][m] /\ Content(j, a)' = local'[d][m]
      BY <1>1, <2>2, <3>1 DEF Content
    <3>3. CASE local'[d][m] = local[d][m]
      BY <3>2, <3>3
    <3>4. CASE /\ d = w.dir /\ m = w.name /\ local[d][m] # NoFile
               /\ local'[d][m] = [local[d][m] EXCEPT ![w.range] = w.from]
      <4>1. PICK b \in Begun(j) : \E c \in 1 .. Remote[files[j][b]].chunks : w = Write(j, b, c)
        BY <2>1, <3>1, <3>4 DEF OwnFiles
      <4>2. PICK c \in 1 .. Remote[files[j][b]].chunks : w = Write(j, b, c)
        BY <4>1
      <4>3. b = a
        BY <2>2, <2>3, <3>1, <3>4, <4>2 DEF Write
      <4>4. w.range = c /\ w.from = files[j][a]
        BY <4>2, <4>3 DEF Write
      <4>5. Content(j, a)' = [Content(j, a) EXCEPT ![c] = files[j][a]]
        BY <3>2, <3>4, <4>4
      <4>6. Content(j, a)' # NoFile
        <5>1. PICK x, i : x = Content(j, a) /\ i = files[j][a]
          OBVIOUS
        <5>2. x \in [Ranges -> 0 .. Len(Remote)] /\ i \in DOMAIN Remote
          BY <2>2, <3>2, <3>4, <5>1
        <5>3. [x EXCEPT ![c] = i] \in [Ranges -> 0 .. Len(Remote)]
          <6>1. i \in 0 .. Len(Remote)
            BY <5>2, RemoteIs
          <6> QED BY <5>2, <6>1
        <5>4. [x EXCEPT ![c] = i] # NoFile
          BY <5>3, EmptyIs
        <5> QED BY <4>5, <5>1, <5>4
      <4> QED BY <3>2, <3>4, <4>2, <4>3, <4>5, <4>6
    <3> QED BY <1>3, <3>2, <3>3, <3>4
  <2>7. ASSUME NEW a \in DOMAIN files[j], NEW c \in Ranges, Comes(j, a, c) PROVE Comes(j, a, c)'
    <3>1. Content(j, a) # NoFile /\ Content(j, a)' # NoFile
      BY <2>6, <2>7 DEF Comes
    <3>2. Content(j, a) \in [Ranges -> 0 .. Len(Remote)]
      BY <2>2, <3>1
    <3>3. (files[j][a])' = files[j][a]
      BY <1>1
    <3>4. CASE lost'
      BY <3>1, <3>4 DEF Comes
    <3>5. CASE Content(j, a)[c] = files[j][a]
      <4>1. Content(j, a)'[c] = files[j][a]
        BY <2>6, <3>2, <3>5
      <4> QED BY <3>1, <3>3, <4>1 DEF Comes
    <3>6. CASE Write(j, a, c) \in landing /\ ~lost'
      <4>1. CASE Write(j, a, c) # w
        <5>1. Write(j, a, c)' \in landing'
          BY <1>2, <2>4, <3>6, <4>1
        <5> QED BY <3>1, <5>1 DEF Comes
      <4>2. CASE Write(j, a, c) = w
        <5>1. PICK m, d, x : m = Remote[files[j][a]].name /\ d = dir[j] /\ x = local[d][m]
          OBVIOUS
        <5>2. /\ m \in Names /\ d \in Dirs /\ Content(j, a) = x /\ Content(j, a)' = local'[d][m]
              /\ d = w.dir /\ m = w.name /\ w.range = c /\ w.from = files[j][a]
          BY <1>1, <2>2, <4>2, <5>1 DEF Content, Write
        <5>3. local'[d][m] = [x EXCEPT ![c] = files[j][a]]
          BY <1>2, <3>1, <3>6, <5>1, <5>2
        <5>4. Content(j, a)'[c] = files[j][a]
          BY <3>2, <5>2, <5>3
        <5> QED BY <3>1, <3>3, <5>4 DEF Comes
      <4> QED BY <4>1, <4>2
    <3>7. lost => lost'
      BY <1>2
    <3> QED BY <2>7, <3>4, <3>5, <3>6, <3>7 DEF Comes
  <2>8. \A v \in landing' : v.dir = dir'[j] =>
          \E a \in Begun(j)' : \E c \in 1 .. Remote[files'[j][a]].chunks : v = Write(j, a, c)'
    <3>1. \A v \in landing' : v.dir = dir[j] => \E a \in Begun(j) : \E c \in 1 .. Remote[files[j][a]].chunks : v = Write(j, a, c)
      BY <1>2, <2>1 DEF OwnFiles
    <3> QED BY <1>1, <2>4, <2>5, <3>1
  <2>9. ASSUME NEW a \in DOMAIN files'[j], Content(j, a)' # NoFile
        PROVE  /\ a \in Begun(j)'
               /\ \A c \in Ranges : Content(j, a)'[c] # Hole =>
                    Content(j, a)'[c] = files'[j][a] /\ c <= Remote[files'[j][a]].chunks
    <3>1. a \in DOMAIN files[j] /\ files'[j][a] = files[j][a]
      BY <1>1
    <3>2. Content(j, a) # NoFile
      BY <2>6, <2>9, <3>1
    <3>3. /\ a \in Begun(j)
          /\ \A c \in Ranges : Content(j, a)[c] # Hole =>
               Content(j, a)[c] = files[j][a] /\ c <= Remote[files[j][a]].chunks
      BY <2>1, <3>1, <3>2 DEF OwnFiles
    <3>4. Content(j, a) \in [Ranges -> 0 .. Len(Remote)]
      BY <2>2, <3>1, <3>2
    <3>5. CASE Content(j, a)' = Content(j, a)
      BY <2>5, <3>1, <3>3, <3>5
    <3>6. CASE \E c \in 1 .. Remote[files[j][a]].chunks :
                 w = Write(j, a, c) /\ Content(j, a)' = [Content(j, a) EXCEPT ![c] = files[j][a]]
      <4>1. PICK b \in 1 .. Remote[files[j][a]].chunks : Content(j, a)' = [Content(j, a) EXCEPT ![b] = files[j][a]]
        BY <3>6
      <4>2. b \in Ranges /\ b <= Remote[files[j][a]].chunks
        BY <2>2, <3>1, RangesAre
      <4>3. ASSUME NEW c \in Ranges, Content(j, a)'[c] # Hole
            PROVE  Content(j, a)'[c] = files'[j][a] /\ c <= Remote[files'[j][a]].chunks
        <5>1. CASE c = b
          BY <3>1, <3>4, <4>1, <4>2, <5>1
        <5>2. CASE c # b
          <6>1. Content(j, a)'[c] = Content(j, a)[c]
            BY <3>4, <4>1, <4>2, <5>2
          <6> QED BY <3>1, <3>3, <4>3, <6>1
        <5> QED BY <5>1, <5>2
      <4> QED BY <2>5, <3>3, <4>3
    <3> QED BY <2>6, <3>1, <3>5, <3>6
  <2>10. \A a \in Fetched(j)' : \A c \in 1 .. Remote[files'[j][a]].chunks : Comes(j, a, c)'
    <3>1. ASSUME NEW a \in Fetched(j), NEW c \in 1 .. Remote[files[j][a]].chunks PROVE Comes(j, a, c)'
      <4>1. a \in DOMAIN files[j] /\ c \in Ranges /\ Comes(j, a, c)
        BY <2>1, <2>2 DEF OwnFiles
      <4> QED BY <2>7, <4>1
    <3> QED BY <1>1, <2>5, <3>1
  <2>11. PICK i : i = at[j]
    OBVIOUS
  <2>12. Content(j, at[j])' = Content(j, i)' /\ (\A b : Comes(j, at[j], b)' = Comes(j, i, b)') /\ i \in DOMAIN files[j]
    <3>1. at'[j] = i
      BY <1>1, <2>11
    <3> QED BY <2>2, <2>11, <3>1 DEF Content, Comes, Write
  <2>13. ASSUME NEW b \in Ranges
         PROVE  /\ tasks'[j][b].state # "loose"
                /\ tasks'[j][b].state = "asks" => Content(j, i)' # NoFile
                /\ tasks'[j][b].state = "ok" => Comes(j, i, b)'
    <3>1. /\ tasks[j][b].state # "loose"
          /\ tasks[j][b].state = "asks" => Content(j, i) # NoFile
          /\ tasks[j][b].state = "ok" => Comes(j, i, b)
      BY <2>1, <2>11 DEF OwnFiles
    <3> QED BY <1>1, <2>6, <2>7, <2>12, <3>1
  <2> QED BY <2>8, <2>9, <2>10, <2>12, <2>13 DEF OwnFiles
<1> QED BY <1>4, <1>5 DEF WholeInv

LEMMA WholeStutter ==
  ASSUME WholeInv, UNCHANGED vars
  PROVE  WholeInv'
<1>1. UNCHANGED <<pc, dir, files, at, tasks, local, landing, lost>>
  BY DEF vars
<1>2. UnusedInv'
  BY <1>1 DEF WholeInv, UnusedInv
<1>3. ASSUME NEW k \in Jobs, Alone(k)' PROVE OwnFiles(k)'
  <2>1. Alone(k)
    BY <1>1, <1>3 DEF Alone
  <2>2. OwnFiles(k)
    BY <2>1 DEF WholeInv
  <2>3. \A w : w.dir = dir[k] => (w \in landing' <=> w \in landing)
    BY <1>1
  <2> QED BY <1>1, <2>2, <2>3, OwnSame
<1> QED BY <1>2, <1>3 DEF WholeInv

LEMMA WholeInvHolds ==
  ASSUME HubConstants
  PROVE  Spec => [](HubInv /\ WholeInv)
<1>1. Init => WholeInv
  <2> SUFFICES ASSUME Init PROVE WholeInv
    OBVIOUS
  <2>1. UnusedInv
    BY DEF Init, UnusedInv
  <2>2. \A j \in Jobs : ~Alone(j)
    BY DEF Init, Alone
  <2> QED BY <2>1, <2>2 DEF WholeInv
<1>2. HubInv /\ WholeInv /\ [Next]_vars => WholeInv'
  <2> SUFFICES ASSUME HubInv, WholeInv, [Next]_vars PROVE WholeInv'
    OBVIOUS
  <2>1. CASE UNCHANGED vars
    BY <2>1, WholeStutter
  <2>2. CASE Land
    BY <2>2, LandWhole
  <2>3. ASSUME NEW j \in Jobs, Resolve(j) \/ Spawn(j) \/ NextFile(j) \/ GiveUp(j) \/ Ingest(j)
        PROVE  WholeInv'
    BY <2>3, ResolveWhole, SpawnWhole, NextFileWhole, GiveUpWhole, IngestWhole
  <2>4. ASSUME NEW j \in Jobs, NEW c \in Ranges,
               Acquire(j, c) \/ Open(j, c) \/ Answer(j, c) \/ Refuse(j, c) \/ Retry(j, c)
        PROVE  WholeInv'
    BY <2>4, AcquireWhole, OpenWhole, AnswerWhole, RefuseWhole, RetryWhole
  <2> QED BY <2>1, <2>2, <2>3, <2>4 DEF Next
<1> QED BY <1>1, <1>2, HubInvHolds, PTL DEF Spec

\* Failures and retries of ranges, in any order and beside any other job, leave no
\* hole in what is fetched, and the limits on what is asked and tried again at a
\* time are kept.
THEOREM FetchedWhole ==
  ASSUME HubConstants
  PROVE  Spec => []FetchedIsWhole
<1>1. HubInv /\ WholeInv => FetchedIsWhole
  <2> SUFFICES ASSUME HubInv, WholeInv, NEW j \in Jobs
               PROVE  /\ pc[j] = "complete" /\ Apart(j) /\ landing = {} /\ ~lost
                           => \A a \in DOMAIN files[j] : local[dir[j]][Remote[files[j][a]].name] = Whole(files[j][a])
                      /\ Cardinality(Running(j)) <= MaxFiles
                      /\ Cardinality(Retrying(j)) <= ParallelFailures
    BY DEF FetchedIsWhole
  <2>1. Cardinality(Running(j)) <= MaxFiles /\ Cardinality(Retrying(j)) <= ParallelFailures
    BY DEF HubInv, LimitsInv
  <2>2. ASSUME pc[j] = "complete", Apart(j), landing = {}, ~lost, NEW a \in DOMAIN files[j]
        PROVE  local[dir[j]][Remote[files[j][a]].name] = Whole(files[j][a])
    <3>1. Alone(j)
      BY <2>2 DEF Alone, Apart
    <3>2. OwnFiles(j)
      BY <3>1 DEF WholeInv
    <3>3. at[j] = Len(files[j])
      BY <2>2 DEF HubInv, TasksInv
    <3>4. /\ files[j][a] \in DOMAIN Remote /\ DOMAIN files[j] = 1 .. Len(files[j])
          /\ Remote[files[j][a]].chunks \in Nat \ {0} /\ 1 .. Remote[files[j][a]].chunks \subseteq Ranges
          /\ Content(j, a) \in {NoFile} \cup [Ranges -> 0 .. Len(Remote)]
      BY <3>1, AloneIs
    <3>5. a \in Fetched(j)
      BY <2>2, <3>3, <3>4 DEF Fetched
    <3>6. \A c \in 1 .. Remote[files[j][a]].chunks : Content(j, a) # NoFile /\ Content(j, a)[c] = files[j][a]
      BY <2>2, <3>2, <3>5 DEF OwnFiles, Comes
    <3>7. 1 \in 1 .. Remote[files[j][a]].chunks
      BY <3>4
    <3>8. Content(j, a) \in [Ranges -> 0 .. Len(Remote)]
      BY <3>4, <3>6, <3>7
    <3>9. \A c \in Ranges : Content(j, a)[c] # Hole => c <= Remote[files[j][a]].chunks
      BY <3>2, <3>6, <3>7 DEF OwnFiles
    <3>10. ASSUME NEW c \in Ranges PROVE Content(j, a)[c] = Whole(files[j][a])[c]
      <4>1. c \in Nat \ {0}
        BY RangesAre
      <4>2. CASE c <= Remote[files[j][a]].chunks
        <5>1. c \in 1 .. Remote[files[j][a]].chunks
          BY <3>4, <4>1, <4>2
        <5> QED BY <3>6, <4>2, <5>1 DEF Whole
      <4>3. CASE ~ (c <= Remote[files[j][a]].chunks)
        BY <3>9, <4>3 DEF Whole
      <4> QED BY <4>2, <4>3
    <3>11. Content(j, a) = Whole(files[j][a])
      <4>1. PICK x, y : x = Content(j, a) /\ y = Whole(files[j][a])
        OBVIOUS
      <4>2. x = [c \in Ranges |-> x[c]] /\ y = [c \in Ranges |-> y[c]]
        BY <3>8, <4>1 DEF Whole
      <4>3. \A c \in Ranges : x[c] = y[c]
        BY <3>10, <4>1
      <4> QED BY <4>1, <4>2, <4>3
    <3> QED BY <3>11 DEF Content
  <2> QED BY <2>1, <2>2
<1> QED BY <1>1, WholeInvHolds, PTL
=============================================================================
