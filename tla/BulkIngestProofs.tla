--------------------------- MODULE BulkIngestProofs ---------------------------
(***************************************************************************)
(* What BulkIngest guarantees, for any number of jobs, tasks and batches.  *)
(* Types and the numbers of segments need nothing of the client; what a    *)
(* table serves needs one that waits for each job and task to end and      *)
(* cancels nothing.                                                        *)
(***************************************************************************)
EXTENDS BulkIngest, NaturalsInduction, WellFoundedInduction, TLAPS

-----------------------------------------------------------------------------
(* Numbers and manifests *)

LEMMA LargestOf ==
  ASSUME NEW n \in Nat, NEW T \in SUBSET (1 .. n), T # {}
  PROVE  \E i \in T : \A k \in T : k <= i
<1>1. PICK D : D = {n - i : i \in T}
  OBVIOUS
<1>2. D \in SUBSET Nat /\ D # {}
  <2>1. \A i \in T : i \in Nat /\ i <= n /\ n - i \in Nat
    OBVIOUS
  <2>2. \A d \in D : d \in Nat
    BY <1>1, <2>1
  <2> QED BY <1>1, <2>2
<1>3. IsWellFoundedOn(OpToRel(<, Nat), Nat)
  BY NatLessThanWellFounded
<1>4. PICK x \in D : \A y \in D : <<y, x>> \notin OpToRel(<, Nat)
  BY <1>2, <1>3, WFMin
<1>5. \A y \in D : ~ (y < x)
  BY <1>2, <1>4 DEF OpToRel
<1>6. PICK i \in T : x = n - i
  BY <1>1
<1>7. \A k \in T : n - k \in D
  BY <1>1
<1> QED BY <1>5, <1>6, <1>7

Counts == MaxBatches \in Nat /\ written \in 0 .. MaxBatches

\* A segment named after those that were read is not among them.
LEMMA PushIs ==
  ASSUME Counts, NEW m \in Manifests, Numbered(m), NEW n \in Segments, n = Len(m.segs) + 1, NEW id \in Nat
  PROVE  LET p == PushSegment(m, n, id)
         IN  /\ p \in Manifests /\ Len(p.segs) = n /\ \A i \in DOMAIN p.segs : p.segs[i] = i
             /\ DOMAIN p.range = DOMAIN m.range \cup {n} /\ p.range[n] = id
             /\ \A k \in DOMAIN m.range \ {n} : p.range[k] = m.range[k]
<1>1. m.segs \in Seq(Segments) /\ DOMAIN m.range \subseteq Segments /\ \A k \in DOMAIN m.range : m.range[k] \in Nat
  BY DEF Manifests
<1>2. PICK s, r : s = m.segs /\ r = WithRange(m.range, n, id)
  OBVIOUS
<1>3. ~ \E i \in DOMAIN s : s[i] = n
  BY <1>1, <1>2 DEF Numbered
<1>4. PushSegment(m, n, id) = [segs |-> Append(s, n), range |-> r]
  BY <1>2, <1>3 DEF PushSegment
<1>5. /\ Append(s, n) \in Seq(Segments) /\ Len(Append(s, n)) = n
      /\ \A i \in DOMAIN Append(s, n) : Append(s, n)[i] = i
  BY <1>1, <1>2 DEF Numbered
<1>6. /\ DOMAIN r = DOMAIN m.range \cup {n} /\ r[n] = id
      /\ \A k \in DOMAIN m.range \ {n} : r[k] = m.range[k]
      /\ r \in [DOMAIN m.range \cup {n} -> Nat] /\ DOMAIN m.range \cup {n} \in SUBSET Segments
  BY <1>1, <1>2 DEF WithRange
<1>7. [segs |-> Append(s, n), range |-> r] \in Manifests
  BY <1>5, <1>6 DEF Manifests
<1>8. PICK p : p = PushSegment(m, n, id)
  OBVIOUS
<1>9. p \in Manifests /\ p.segs = Append(s, n) /\ p.range = r
  BY <1>4, <1>7, <1>8
<1> QED BY <1>5, <1>6, <1>8, <1>9

\* The listed segments are the first ones.
LEMMA ListedIs ==
  ASSUME Counts, manifest \in Manifests, Numbered(manifest)
  PROVE  /\ Len(manifest.segs) \in Nat /\ Listed = 1 .. Len(manifest.segs) /\ Listed \subseteq Segments
         /\ Len(manifest.segs) <= MaxBatches
<1>1. manifest.segs \in Seq(Segments)
  BY DEF Manifests
<1>2. Len(manifest.segs) \in Nat /\ DOMAIN manifest.segs = 1 .. Len(manifest.segs)
  BY <1>1
<1> QED BY <1>2 DEF Listed, Numbered, Counts, Segments

-----------------------------------------------------------------------------
(* Type correctness *)

Scalars ==
  /\ file \in [Segments -> [batch : 0 .. MaxBatches, id : Nat]]
  /\ side \in [Segments -> 0 .. MaxBatches]
  /\ log \in Seq([seg : Segments, id : Nat])
  /\ status \in {"none", "building", "ready", "failed"} /\ session \in BOOLEAN
  /\ written \in 0 .. MaxBatches /\ committed \subseteq 1 .. MaxBatches
Counted == failures \in Nat /\ crashes \in Nat /\ cancels \in Nat

LEMMA ScalarCounts == Scalars => Counts
BY IngestAssumption DEF Scalars, Counts

LEMMA LogIs ==
  ASSUME Scalars
  PROVE  /\ Len(log) \in Nat /\ DOMAIN log = 1 .. Len(log)
         /\ \A i \in DOMAIN log : log[i].seg \in Segments /\ log[i].id \in Nat
<1>1. log \in Seq([seg : Segments, id : Nat])
  BY DEF Scalars
<1>2. Len(log) \in Nat /\ DOMAIN log = 1 .. Len(log)
  BY <1>1
<1>3. PICK R : R = [seg : Segments, id : Nat]
  OBVIOUS
<1>4. log \in Seq(R)
  BY <1>1, <1>3
<1>5. \A i \in DOMAIN log : log[i] \in R
  BY <1>4
<1> QED BY <1>2, <1>3, <1>5

\* The ranges a task finds are ranges of segments.
LEMMA RebuiltType ==
  ASSUME Scalars, NEW m \in Manifests
  PROVE  RebuiltRange(m) \in UNION {[S -> Nat] : S \in SUBSET Segments}
<1>1. CASE log = <<>>
  <2>1. PICK L : L = {k \in {m.segs[i] : i \in DOMAIN m.segs} : HasFile(k)}
    OBVIOUS
  <2>2. L \subseteq Segments
    BY <2>1 DEF Manifests
  <2>3. RebuiltRange(m) = [n \in L |-> file[n].id]
    BY <1>1, <2>1 DEF RebuiltRange
  <2>4. [n \in L |-> file[n].id] \in [L -> Nat]
    BY <2>2 DEF Scalars
  <2> QED BY <2>2, <2>3, <2>4
<1>2. CASE log # <<>>
  <2> DEFINE last(n) == CHOOSE i \in DOMAIN log : log[i].seg = n /\ \A k \in DOMAIN log : log[k].seg = n => k <= i
             L == {log[i].seg : i \in DOMAIN log}
  <2>1. RebuiltRange(m) = [n \in L |-> log[last(n)].id]
    BY <1>2 DEF RebuiltRange
  <2>2. ASSUME NEW n \in L PROVE last(n) \in DOMAIN log
    <3>1. PICK T : T = {i \in DOMAIN log : log[i].seg = n}
      OBVIOUS
    <3>2. Len(log) \in Nat /\ DOMAIN log = 1 .. Len(log)
      BY LogIs
    <3>5. T \in SUBSET (1 .. Len(log)) /\ T # {}
      BY <3>1, <3>2
    <3>3. PICK i \in T : \A k \in T : k <= i
      BY <3>2, <3>5, LargestOf
    <3>4. i \in DOMAIN log /\ log[i].seg = n /\ \A k \in DOMAIN log : log[k].seg = n => k <= i
      BY <3>1, <3>3
    <3>6. \E x : x \in DOMAIN log /\ log[x].seg = n /\ \A k \in DOMAIN log : log[k].seg = n => k <= x
      BY <3>4
    <3> QED BY <3>6
  <2>3. L \subseteq Segments /\ \A i \in DOMAIN log : log[i].id \in Nat
    BY LogIs
  <2>4. [n \in L |-> log[last(n)].id] \in [L -> Nat]
    <3> HIDE DEF last, L
    <3>1. \A n \in L : log[last(n)].id \in Nat
      BY <2>2, <2>3
    <3> QED BY <3>1
  <2> QED BY <2>1, <2>3, <2>4
<1> QED BY <1>1, <1>2

LEMMA TypesFollow == Scalars /\ NamesInv => TypeOK
<1> SUFFICES ASSUME Scalars, NamesInv PROVE TypeOK
  OBVIOUS
<1>1. ASSUME NEW m \in Manifests, Numbered(m) PROVE ManifestType(m)
  <2>1. DOMAIN m = {"segs", "range"} /\ m.segs \in Seq(Segments)
    BY DEF Manifests
  <2>2. DOMAIN m.range \subseteq Segments /\ \A n \in DOMAIN m.range : m.range[n] \in Nat
    BY DEF Manifests
  <2>3. \A i, k \in DOMAIN m.segs : m.segs[i] = m.segs[k] => i = k
    BY <1>1 DEF Numbered
  <2> QED BY <2>1, <2>2, <2>3 DEF ManifestType
<1>2. ASSUME NEW j \in Jobs PROVE job[j] \in JobType /\ job[j].read \in Manifests /\ Numbered(job[j].read)
  BY DEF NamesInv, JobType
<1>3. ASSUME NEW t \in Tasks PROVE task[t] \in TaskType /\ task[t].read \in Manifests /\ Numbered(task[t].read)
  BY DEF NamesInv, TaskType
<1>4. ManifestType(manifest)
  BY <1>1 DEF NamesInv
<1>5. \A j \in Jobs : ManifestType(job[j].read)
  BY <1>1, <1>2
<1>6. \A t \in Tasks : ManifestType(task[t].read)
  BY <1>1, <1>3
<1>7. ASSUME NEW j \in Jobs
      PROVE  /\ job[j].pc \in {"idle", "queued", "load", "log", "save"}
             /\ job[j].kind \in {"none", "upload", "hub"} /\ job[j].cancelled \in BOOLEAN
             /\ job[j].state \in {"none", "running", "done", "failed", "cancelled"}
             /\ job[j].next \in Nat /\ job[j].seg \in Segments \cup {0}
  BY <1>2 DEF JobType
<1>8. ASSUME NEW t \in Tasks
      PROVE  /\ task[t].pc \in {"idle", "mark", "checkpoint", "scan", "build", "ranges", "save", "ready", "replace"}
             /\ task[t].state \in {"none", "running", "done", "failed"} /\ task[t].todo \subseteq Segments
  BY <1>3 DEF TaskType
<1> QED BY <1>4, <1>5, <1>6, <1>7, <1>8 DEF TypeOK, Scalars

-----------------------------------------------------------------------------
(* Types are kept *)

\* The parts of NamesInv, of one manifest, job or task.
NumberedTo(m, w) == Len(m.segs) <= w /\ \A i \in DOMAIN m.segs : m.segs[i] = i
JobNamed(b, f, w) ==
  /\ b \in JobType /\ NumberedTo(b.read, w)
  /\ b.pc \in {"log", "save"} =>
       Len(b.read.segs) < w /\ b.seg = Len(b.read.segs) + 1 /\ f[b.seg].batch > 0
TaskNamed(b, w) == b \in TaskType /\ NumberedTo(b.read, w)
ManifestNamed(m, w) == m \in Manifests /\ NumberedTo(m, w)

LEMMA NamesAre ==
  NamesInv <=> /\ ManifestNamed(manifest, written)
               /\ job \in [Jobs -> JobType] /\ \A j \in Jobs : JobNamed(job[j], file, written)
               /\ task \in [Tasks -> TaskType] /\ \A t \in Tasks : TaskNamed(task[t], written)
BY DEF NamesInv, NumberedTo, JobNamed, TaskNamed, ManifestNamed, Numbered, HasFile

LEMMA NamesAreNext ==
  NamesInv' <=> /\ ManifestNamed(manifest', written')
                /\ job' \in [Jobs -> JobType] /\ \A j \in Jobs : JobNamed(job'[j], file', written')
                /\ task' \in [Tasks -> TaskType] /\ \A t \in Tasks : TaskNamed(task'[t], written')
BY DEF NamesInv, NumberedTo, JobNamed, TaskNamed, ManifestNamed, Numbered, HasFile

LEMMA EmptyNamed ==
  ASSUME NEW w \in Nat
  PROVE  /\ ManifestNamed([segs |-> <<>>, range |-> <<>>], w)
         /\ \A f : JobNamed(NoJob, f, w)
         /\ TaskNamed(NoTask, w)
<1>1. PICK m : m = [segs |-> <<>>, range |-> <<>>]
  OBVIOUS
<1>2. m.segs = <<>> /\ m.segs \in Seq(Segments) /\ Len(m.segs) = 0 /\ DOMAIN m.segs = {}
  BY <1>1
<1>3. m.range = <<>> /\ DOMAIN m.range = {} /\ m.range \in [{} -> Nat]
  BY <1>1
<1>4. m \in Manifests
  <2>1. m.range \in UNION {[S -> Nat] : S \in SUBSET Segments}
    BY <1>3
  <2> QED BY <1>1, <1>2, <2>1 DEF Manifests
<1>5. NumberedTo(m, w)
  BY <1>2 DEF NumberedTo
<1>6. \A f : JobNamed(NoJob, f, w)
  BY <1>1, <1>4, <1>5 DEF JobNamed, NoJob, JobType
<1>7. TaskNamed(NoTask, w)
  BY <1>1, <1>4, <1>5 DEF TaskNamed, NoTask, TaskType
<1> QED BY <1>1, <1>4, <1>5, <1>6, <1>7 DEF ManifestNamed

\* A later count and further files change nothing of it.
LEMMA NamedLater ==
  ASSUME NEW w \in Nat, NEW v \in Nat, w <= v, NEW f, NEW g,
         \A n \in Segments : f[n].batch > 0 => g[n].batch > 0
  PROVE  /\ \A m : ManifestNamed(m, w) => ManifestNamed(m, v)
         /\ \A b : TaskNamed(b, w) => TaskNamed(b, v)
         /\ \A b : JobNamed(b, f, w) => JobNamed(b, g, v)
<1>1. ASSUME NEW m \in Manifests, NumberedTo(m, w) PROVE NumberedTo(m, v)
  <2>1. m.segs \in Seq(Segments) /\ Len(m.segs) \in Nat
    BY DEF Manifests
  <2> QED BY <1>1, <2>1 DEF NumberedTo
<1>2. ASSUME NEW b, TaskNamed(b, w) PROVE TaskNamed(b, v)
  BY <1>1, <1>2 DEF TaskNamed, TaskType
<1>3. ASSUME NEW b, JobNamed(b, f, w) PROVE JobNamed(b, g, v)
  <2>1. b \in JobType /\ b.read \in Manifests /\ NumberedTo(b.read, v)
    BY <1>1, <1>3 DEF JobNamed, JobType
  <2>2. b.read.segs \in Seq(Segments) /\ Len(b.read.segs) \in Nat
    BY <2>1 DEF Manifests
  <2>3. ASSUME b.pc \in {"log", "save"}
        PROVE  Len(b.read.segs) < v /\ b.seg = Len(b.read.segs) + 1 /\ g[b.seg].batch > 0
    <3>1. Len(b.read.segs) < w /\ b.seg = Len(b.read.segs) + 1 /\ f[b.seg].batch > 0
      BY <1>3, <2>3 DEF JobNamed
    <3>2. b.seg \in Segments
      BY <2>1, <2>2, <3>1 DEF JobType
    <3> QED BY <2>2, <3>1, <3>2
  <2> QED BY <2>1, <2>3 DEF JobNamed
<1> QED BY <1>1, <1>2, <1>3 DEF ManifestNamed

LEMMA TypeStart == Init => Scalars /\ NamesInv
<1> SUFFICES ASSUME Init PROVE Scalars /\ NamesInv
  OBVIOUS
<1>1. Scalars
  <2>1. file \in [Segments -> [batch : 0 .. MaxBatches, id : Nat]]
    BY IngestAssumption DEF Init, NoFile
  <2>2. side \in [Segments -> 0 .. MaxBatches] /\ log \in Seq([seg : Segments, id : Nat])
    BY IngestAssumption DEF Init
  <2>3. written \in 0 .. MaxBatches /\ committed \subseteq 1 .. MaxBatches
    BY IngestAssumption DEF Init
  <2>4. status \in {"none", "building", "ready", "failed"} /\ session \in BOOLEAN
    BY DEF Init
  <2> QED BY <2>1, <2>2, <2>3, <2>4 DEF Scalars
<1>2. written \in Nat /\ manifest = [segs |-> <<>>, range |-> <<>>]
  BY DEF Init
<1>3. /\ \A j \in Jobs : job[j] = NoJob /\ JobNamed(job[j], file, written)
      /\ \A t \in Tasks : task[t] = NoTask /\ TaskNamed(task[t], written)
  BY <1>2, EmptyNamed DEF Init
<1>4. job \in [Jobs -> JobType] /\ task \in [Tasks -> TaskType]
  BY <1>3 DEF Init, JobNamed, TaskNamed
<1>5. ManifestNamed(manifest, written)
  BY <1>2, EmptyNamed
<1> QED BY <1>1, <1>3, <1>4, <1>5, NamesAre

\* What a step of a job or of a task leaves alone.
LEMMA OneJobNamed ==
  ASSUME NamesInv, Scalars, NEW j \in Jobs, NEW b,
         job' = [job EXCEPT ![j] = b], JobNamed(b, file', written'),
         written' \in Nat, written <= written',
         \A n \in Segments : file[n].batch > 0 => file'[n].batch > 0,
         ManifestNamed(manifest', written'), task' = task
  PROVE  NamesInv'
<1>1. written \in Nat
  BY ScalarCounts DEF Counts
<1>2. PICK w, v, f, g : w = written /\ v = written' /\ f = file /\ g = file'
  OBVIOUS
<1>3. /\ \A x : TaskNamed(x, w) => TaskNamed(x, v)
      /\ \A x : JobNamed(x, f, w) => JobNamed(x, g, v)
  BY <1>1, <1>2, NamedLater
<1>4. job \in [Jobs -> JobType] /\ \A k \in Jobs : JobNamed(job[k], f, w)
  BY <1>2, NamesAre
<1>5. task \in [Tasks -> TaskType] /\ \A t \in Tasks : TaskNamed(task[t], w)
  BY <1>2, NamesAre
<1>6. b \in JobType
  BY DEF JobNamed
<1>7. job' \in [Jobs -> JobType] /\ \A k \in Jobs : JobNamed(job'[k], file', written')
  BY <1>2, <1>3, <1>4, <1>6
<1>8. task' \in [Tasks -> TaskType] /\ \A t \in Tasks : TaskNamed(task'[t], written')
  BY <1>2, <1>3, <1>5
<1> QED BY <1>7, <1>8, NamesAreNext

LEMMA OneTaskNamed ==
  ASSUME NamesInv, NEW t \in Tasks, NEW b,
         task' = [task EXCEPT ![t] = b], TaskNamed(b, written),
         written' = written, file' = file, ManifestNamed(manifest', written), job' = job
  PROVE  NamesInv'
<1>1. /\ task \in [Tasks -> TaskType] /\ \A u \in Tasks : TaskNamed(task[u], written)
      /\ job \in [Jobs -> JobType] /\ \A k \in Jobs : JobNamed(job[k], file, written)
  BY NamesAre
<1>2. b \in TaskType
  BY DEF TaskNamed
<1>3. task' \in [Tasks -> TaskType] /\ \A u \in Tasks : TaskNamed(task'[u], written')
  BY <1>1, <1>2
<1> QED BY <1>1, <1>3, NamesAreNext

\* The parts of what a job or a task has read, with the rest of its record changed.
LEMMA JobChanged ==
  ASSUME NEW w, NEW f, NEW b, JobNamed(b, f, w), NEW c \in JobType,
         c.read = b.read, c.seg = b.seg, c.pc \in {"log", "save"} => b.pc \in {"log", "save"}
  PROVE  JobNamed(c, f, w)
BY DEF JobNamed

LEMMA TaskChanged ==
  ASSUME NEW w, NEW b, TaskNamed(b, w), NEW c \in TaskType, c.read = b.read
  PROVE  TaskNamed(c, w)
BY DEF TaskNamed

LEMMA TypeJobStart ==
  ASSUME Scalars, NamesInv, NEW j \in Jobs,
         (\E kind \in {"upload", "hub"} : BeginJob(j, kind)) \/ StartJob(j) \/ EndJob(j) \/ FailJob(j) \/ CancelJob(j)
  PROVE  Scalars' /\ NamesInv'
<1>1. Scalars'
  BY DEF Scalars, tableVars, counters, BeginJob, StartJob, EndJob, FailJob, CancelJob
<1>2. UNCHANGED <<manifest, file, written, task>>
  BY DEF tableVars, BeginJob, StartJob, EndJob, FailJob, CancelJob
<1>3. written \in Nat
  BY ScalarCounts DEF Counts
<1>4. JobNamed(job[j], file, written) /\ JobNamed(NoJob, file, written) /\ ManifestNamed(manifest, written)
  BY <1>3, EmptyNamed, NamesAre
<1>5. job[j] \in JobType /\ NoJob \in JobType /\ job \in [Jobs -> JobType]
  BY <1>4, NamesAre DEF JobNamed
<1>6. \E c : job' = [job EXCEPT ![j] = c] /\ JobNamed(c, file, written)
  <2>1. CASE \E kind \in {"upload", "hub"} : BeginJob(j, kind)
    <3>1. PICK kind \in {"upload", "hub"} :
            job' = [job EXCEPT ![j] = [NoJob EXCEPT !.pc = "queued", !.kind = kind, !.state = "running"]]
      BY <2>1 DEF BeginJob
    <3>2. PICK n, c : n = NoJob /\ c = [n EXCEPT !.pc = "queued", !.kind = kind, !.state = "running"]
      OBVIOUS
    <3>3. c \in JobType /\ c.read = n.read /\ c.seg = n.seg /\ c.pc = "queued"
      BY <1>5, <3>2 DEF JobType
    <3>4. JobNamed(c, file, written)
      BY <1>4, <3>2, <3>3, JobChanged
    <3> QED BY <3>1, <3>2, <3>4
  <2>2. CASE StartJob(j)
    <3>1. PICK pc \in {"idle", "load"}, st \in {"cancelled", "failed", "running"} :
            job' = [job EXCEPT ![j].pc = pc, ![j].state = st]
      BY <2>2 DEF StartJob
    <3>2. PICK b, c : b = job[j] /\ c = [b EXCEPT !.pc = pc, !.state = st]
      OBVIOUS
    <3>3. c \in JobType /\ c.read = b.read /\ c.seg = b.seg /\ c.pc = pc
      BY <1>5, <3>2 DEF JobType
    <3>4. JobNamed(c, file, written)
      BY <1>4, <3>2, <3>3, JobChanged
    <3>5. job' = [job EXCEPT ![j] = c]
      BY <1>5, <3>1, <3>2
    <3> QED BY <3>4, <3>5
  <2>3. CASE EndJob(j) \/ FailJob(j)
    <3>1. PICK st \in {"done", "failed"} : job' = [job EXCEPT ![j] = [NoJob EXCEPT !.state = st]]
      BY <2>3 DEF EndJob, FailJob
    <3>2. PICK n, c : n = NoJob /\ c = [n EXCEPT !.state = st]
      OBVIOUS
    <3>3. c \in JobType /\ c.read = n.read /\ c.seg = n.seg /\ c.pc = "idle"
      BY <1>5, <3>2 DEF JobType, NoJob
    <3>4. JobNamed(c, file, written)
      BY <1>4, <3>2, <3>3, JobChanged
    <3> QED BY <3>1, <3>2, <3>4
  <2>4. CASE CancelJob(j)
    <3>2. PICK b, c : b = job[j] /\ c = [b EXCEPT !.state = "cancelled", !.cancelled = TRUE]
      OBVIOUS
    <3>3. c \in JobType /\ c.read = b.read /\ c.seg = b.seg /\ c.pc = b.pc
      BY <1>5, <3>2 DEF JobType
    <3>4. JobNamed(c, file, written)
      BY <1>4, <3>2, <3>3, JobChanged
    <3>5. job' = [job EXCEPT ![j] = c]
      BY <2>4, <3>2 DEF CancelJob
    <3> QED BY <3>4, <3>5
  <2> QED BY <2>1, <2>2, <2>3, <2>4
<1>7. PICK c : job' = [job EXCEPT ![j] = c] /\ JobNamed(c, file', written')
  BY <1>2, <1>6
<1>8. ManifestNamed(manifest', written') /\ written' \in Nat /\ written <= written'
      /\ \A n \in Segments : file[n].batch > 0 => file'[n].batch > 0
  BY <1>2, <1>3, <1>4
<1>9. NamesInv'
  BY <1>2, <1>7, <1>8, OneJobNamed
<1> QED BY <1>1, <1>9

\* The name of the next segment is that of a segment: no more are listed than were written.
LEMMA NextName ==
  ASSUME Scalars, NamesInv, written < MaxBatches
  PROVE  LET n == Len(manifest.segs) + 1 IN n \in Segments /\ n - 1 <= written /\ n \in Nat \ {0}
<1>1. Counts /\ manifest \in Manifests /\ Numbered(manifest)
  BY ScalarCounts DEF NamesInv
<1>2. Len(manifest.segs) \in Nat /\ Len(manifest.segs) <= written
  BY <1>1, ListedIs DEF Numbered
<1> QED BY <1>1, <1>2 DEF Counts, Segments

LEMMA TypeWriteSegment ==
  ASSUME Scalars, NamesInv, NEW j \in Jobs, WriteSegment(j)
  PROVE  Scalars' /\ NamesInv'
<1>1. PICK n : n = Len(manifest.segs) + 1
  OBVIOUS
<1>2. /\ written < MaxBatches /\ written' = written + 1
      /\ file' = [file EXCEPT ![n] = [batch |-> written', id |-> job[j].next]]
      /\ job' = [job EXCEPT ![j].pc = "log", ![j].seg = n, ![j].read = manifest]
      /\ UNCHANGED <<manifest, side, log, status, session, task, committed, counters>>
  BY <1>1 DEF WriteSegment
<1>3. n \in Segments /\ n - 1 <= written /\ n \in Nat \ {0} /\ Counts
  BY <1>1, <1>2, NextName, ScalarCounts
<1>4. written \in Nat /\ written' \in 1 .. MaxBatches /\ written' = written + 1
  BY <1>2, <1>3 DEF Counts
<1>5. JobNamed(job[j], file, written) /\ ManifestNamed(manifest, written)
  BY NamesAre
<1>6. job[j] \in JobType /\ job[j].next \in Nat /\ job \in [Jobs -> JobType]
  BY <1>5, NamesAre DEF JobNamed, JobType
<1>7. file \in [Segments -> [batch : 0 .. MaxBatches, id : Nat]]
  BY DEF Scalars
<1>8. file' \in [Segments -> [batch : 0 .. MaxBatches, id : Nat]] /\ file'[n].batch = written'
      /\ \A k \in Segments : file[k].batch > 0 => file'[k].batch > 0
  <2>1. PICK r : r = [batch |-> written', id |-> job[j].next]
    OBVIOUS
  <2>2. r \in [batch : 0 .. MaxBatches, id : Nat] /\ r.batch = written' /\ written' > 0
    BY <1>4, <1>6, <2>1
  <2>3. file' = [file EXCEPT ![n] = r]
    BY <1>2, <2>1
  <2> QED BY <1>3, <1>7, <2>2, <2>3
<1>9. Scalars'
  <2>1. written' \in 0 .. MaxBatches
    BY <1>4
  <2>2. side' = side /\ log' = log /\ status' = status /\ session' = session /\ committed' = committed
    BY <1>2
  <2> QED BY <1>8, <2>1, <2>2 DEF Scalars
<1>10. ManifestNamed(manifest', written') /\ NumberedTo(manifest, written')
  <2>1. Len(manifest.segs) <= written' /\ manifest' = manifest
    BY <1>1, <1>2, <1>3, <1>4
  <2> QED BY <1>5, <2>1 DEF ManifestNamed, NumberedTo
<1>11. PICK b, c : b = job[j] /\ c = [b EXCEPT !.pc = "log", !.seg = n, !.read = manifest]
  OBVIOUS
<1>12. job' = [job EXCEPT ![j] = c]
  BY <1>2, <1>6, <1>11
<1>13. c \in JobType /\ c.read = manifest /\ c.seg = n /\ c.pc = "log"
  <2>1. manifest \in Manifests
    BY <1>5 DEF ManifestNamed
  <2> QED BY <1>3, <1>6, <1>11, <2>1 DEF JobType
<1>14. Len(manifest.segs) \in Nat
  BY <1>3, <1>5, ListedIs, NamesAre DEF NamesInv
<1>15. JobNamed(c, file', written')
  <2>1. Len(manifest.segs) < written' /\ n = Len(manifest.segs) + 1 /\ file'[n].batch > 0
    BY <1>1, <1>3, <1>4, <1>8, <1>14
  <2> QED BY <1>10, <1>13, <2>1 DEF JobNamed
<1>16. NamesInv'
  <2>1. written' \in Nat /\ written <= written' /\ task' = task
    BY <1>2, <1>4
  <2> QED BY <1>8, <1>10, <1>12, <1>15, <2>1, OneJobNamed
<1> QED BY <1>9, <1>16

LEMMA TypeAppendLog ==
  ASSUME Scalars, NamesInv, NEW j \in Jobs, AppendLog(j)
  PROVE  Scalars' /\ NamesInv'
<1>1. /\ job[j].pc = "log" /\ log' = Append(log, [seg |-> job[j].seg, id |-> job[j].next])
      /\ job' = [job EXCEPT ![j].pc = "save"]
      /\ UNCHANGED <<manifest, file, side, status, session, task, written, committed>>
  BY DEF AppendLog
<1>2. JobNamed(job[j], file, written) /\ ManifestNamed(manifest, written) /\ job \in [Jobs -> JobType]
  BY NamesAre
<1>3. written \in Nat /\ Counts
  BY ScalarCounts DEF Counts
<1>4. job[j] \in JobType /\ job[j].next \in Nat /\ job[j].seg \in Segments
  <2>1. job[j] \in JobType /\ job[j].next \in Nat /\ job[j].read \in Manifests /\ job[j].seg \in Segments \cup {0}
    BY <1>2 DEF JobNamed, JobType
  <2>2. job[j].read.segs \in Seq(Segments) /\ job[j].seg = Len(job[j].read.segs) + 1
    BY <1>1, <1>2, <2>1 DEF JobNamed, Manifests
  <2>3. Len(job[j].read.segs) \in Nat
    BY <2>2
  <2> QED BY <2>1, <2>2, <2>3
<1>5. log' \in Seq([seg : Segments, id : Nat])
  <2>1. PICK R, r : R = [seg : Segments, id : Nat] /\ r = [seg |-> job[j].seg, id |-> job[j].next]
    OBVIOUS
  <2>2. r \in R /\ log \in Seq(R) /\ log' = Append(log, r)
    BY <1>1, <1>4, <2>1 DEF Scalars
  <2> QED BY <2>1, <2>2
<1>6. Scalars'
  BY <1>1, <1>5 DEF Scalars
<1>7. PICK b, c : b = job[j] /\ c = [b EXCEPT !.pc = "save"]
  OBVIOUS
<1>8. c \in JobType /\ c.read = b.read /\ c.seg = b.seg /\ c.pc = "save" /\ b.pc = "log"
  BY <1>1, <1>4, <1>7 DEF JobType
<1>9. JobNamed(c, file', written')
  BY <1>1, <1>2, <1>7, <1>8, JobChanged
<1>10. job' = [job EXCEPT ![j] = c]
  BY <1>1, <1>7
<1>11. NamesInv'
  <2>1. written' \in Nat /\ written <= written' /\ task' = task /\ ManifestNamed(manifest', written')
        /\ \A n \in Segments : file[n].batch > 0 => file'[n].batch > 0
    BY <1>1, <1>2, <1>3
  <2> QED BY <1>9, <1>10, <2>1, OneJobNamed
<1> QED BY <1>6, <1>11

\* What a job saves.
LEMMA SavedIs ==
  ASSUME Scalars, NamesInv, NEW j \in Jobs, job[j].pc = "save"
  PROVE  /\ Counts /\ job[j].read \in Manifests /\ Numbered(job[j].read)
         /\ job[j].seg = Len(job[j].read.segs) + 1 /\ job[j].seg \in Segments /\ job[j].seg <= written
         /\ job[j].next \in Nat /\ HasFile(job[j].seg) /\ file[job[j].seg].batch \in 1 .. MaxBatches
<1>1. JobNamed(job[j], file, written) /\ Counts
  BY NamesAre, ScalarCounts
<1>2. job[j].next \in Nat /\ job[j].read \in Manifests /\ job[j].seg \in Segments \cup {0}
  BY <1>1 DEF JobNamed, JobType
<1>3. Len(job[j].read.segs) < written /\ job[j].seg = Len(job[j].read.segs) + 1 /\ file[job[j].seg].batch > 0
  BY <1>1 DEF JobNamed
<1>4. Len(job[j].read.segs) \in Nat
  BY <1>2 DEF Manifests
<1>5. job[j].seg \in Segments /\ job[j].seg <= written
  BY <1>1, <1>2, <1>3, <1>4 DEF Counts
<1>6. file[job[j].seg].batch \in 0 .. MaxBatches
  BY <1>5 DEF Scalars
<1>7. file[job[j].seg].batch \in 1 .. MaxBatches
  BY <1>3, <1>6
<1>8. Numbered(job[j].read)
  BY DEF NamesInv
<1> QED BY <1>1, <1>2, <1>3, <1>5, <1>7, <1>8 DEF HasFile

LEMMA TypeSaveManifest ==
  ASSUME Scalars, NamesInv, NEW j \in Jobs, SaveManifest(j)
  PROVE  Scalars' /\ NamesInv'
<1>1. /\ job[j].pc = "save" /\ manifest' = PushSegment(job[j].read, job[j].seg, job[j].next)
      /\ committed' = committed \cup {file[job[j].seg].batch}
      /\ job' = [job EXCEPT ![j].pc = "load", ![j].next = @ + 1, ![j].read = NoJob.read]
      /\ UNCHANGED <<file, side, log, status, session, task, written>>
  BY DEF SaveManifest
<1>2. /\ Counts /\ job[j].read \in Manifests /\ Numbered(job[j].read)
      /\ job[j].seg = Len(job[j].read.segs) + 1 /\ job[j].seg \in Segments /\ job[j].seg <= written
      /\ job[j].next \in Nat /\ file[job[j].seg].batch \in 1 .. MaxBatches
  BY <1>1, SavedIs
<1>3. Scalars'
  <2>1. committed' \subseteq 1 .. MaxBatches
    BY <1>1, <1>2 DEF Scalars
  <2> QED BY <1>1, <2>1 DEF Scalars
<1>4. ManifestNamed(manifest', written')
  <2>1. PICK m, n, id : m = job[j].read /\ n = job[j].seg /\ id = job[j].next
    OBVIOUS
  <2>2. PICK p : p = PushSegment(m, n, id)
    OBVIOUS
  <2>3. p \in Manifests /\ Len(p.segs) = n /\ \A i \in DOMAIN p.segs : p.segs[i] = i
    <3>1. Counts /\ m \in Manifests /\ Numbered(m) /\ n = Len(m.segs) + 1 /\ n \in Segments /\ id \in Nat
      BY <1>2, <2>1
    <3> QED BY <2>2, <3>1, PushIs
  <2>4. manifest' = p /\ n <= written'
    BY <1>1, <1>2, <2>1, <2>2
  <2> QED BY <2>3, <2>4 DEF ManifestNamed, NumberedTo
<1>5. job[j] \in JobType /\ job \in [Jobs -> JobType] /\ written \in Nat
  BY <1>2, NamesAre DEF JobNamed, Counts
<1>6. NoJob.read \in Manifests /\ NumberedTo(NoJob.read, written)
  BY <1>5, EmptyNamed DEF JobNamed, JobType
<1>7. PICK b, e, i, c : b = job[j] /\ e = NoJob.read /\ i = b.next + 1 /\ c = [b EXCEPT !.pc = "load", !.next = i, !.read = e]
  OBVIOUS
<1>8. c \in JobType /\ c.read = e /\ c.pc = "load"
  <2>1. b \in JobType /\ e \in Manifests /\ i \in Nat
    BY <1>2, <1>5, <1>6, <1>7
  <2> QED BY <1>7, <2>1 DEF JobType
<1>9. JobNamed(c, file', written')
  BY <1>1, <1>6, <1>7, <1>8 DEF JobNamed
<1>10. job' = [job EXCEPT ![j] = c]
  BY <1>1, <1>7
<1>11. NamesInv'
  <2>1. written' \in Nat /\ written <= written' /\ task' = task
        /\ \A n \in Segments : file[n].batch > 0 => file'[n].batch > 0
    BY <1>1, <1>5
  <2> QED BY <1>4, <1>9, <1>10, <2>1, OneJobNamed
<1> QED BY <1>3, <1>11

LEMMA TypeTaskStep ==
  ASSUME Scalars, NamesInv, NEW t \in Tasks, BeginTask(t) \/ TaskStep(t) \/ FailTask(t)
  PROVE  Scalars' /\ NamesInv'
<1>1. /\ TaskNamed(task[t], written) /\ ManifestNamed(manifest, written) /\ task \in [Tasks -> TaskType]
      /\ written \in Nat /\ Counts
  BY NamesAre, ScalarCounts DEF Counts
<1>2. TaskNamed(NoTask, written) /\ NoTask \in TaskType /\ task[t] \in TaskType
  BY <1>1, EmptyNamed DEF TaskNamed
<1>3. Listed \subseteq Segments /\ manifest \in Manifests
  BY <1>1, ListedIs, NamesAre DEF NamesInv
\* A task that changes what it does next, and not what it has read.
<1>4. ASSUME NEW b, TaskNamed(b, written), NEW c \in TaskType, c.read = b.read,
             task' = [task EXCEPT ![t] = c], UNCHANGED <<manifest, file, written, job>>
      PROVE  NamesInv'
  <2>1. TaskNamed(c, written)
    BY <1>4, TaskChanged
  <2>2. ManifestNamed(manifest', written')
    BY <1>1, <1>4
  <2> QED BY <1>4, <2>1, <2>2, OneTaskNamed
<1>5. CASE BeginTask(t) \/ FailTask(t)
  <2>1. PICK pc \in {"mark", "replace"}, st \in {"running", "failed"} :
          task' = [task EXCEPT ![t] = [NoTask EXCEPT !.pc = pc, !.state = st]]
    BY <1>5 DEF BeginTask, FailTask
  <2>2. PICK n, c : n = NoTask /\ c = [n EXCEPT !.pc = pc, !.state = st]
    OBVIOUS
  <2>3. c \in TaskType /\ c.read = n.read
    BY <1>2, <2>2 DEF TaskType
  <2>4. task' = [task EXCEPT ![t] = c] /\ UNCHANGED <<manifest, file, written, job>>
    BY <1>5, <2>1, <2>2 DEF BeginTask, FailTask, tableVars
  <2>5. NamesInv'
    BY <1>2, <1>4, <2>2, <2>3, <2>4
  <2>6. Scalars'
    BY <1>5 DEF Scalars, tableVars, counters, BeginTask, FailTask
  <2> QED BY <2>5, <2>6
<1>6. CASE MarkBuilding(t) \/ Checkpoint(t) \/ SidecarsDone(t) \/ EndTask(t)
  <2>1. PICK pc \in {"checkpoint", "scan", "ranges", "idle"} : task' = [task EXCEPT ![t].pc = pc]
    BY <1>6 DEF MarkBuilding, Checkpoint, SidecarsDone, EndTask
  <2>2. PICK b, c : b = task[t] /\ c = [b EXCEPT !.pc = pc]
    OBVIOUS
  <2>3. c \in TaskType /\ c.read = b.read
    BY <1>2, <2>2 DEF TaskType
  <2>4. task' = [task EXCEPT ![t] = c] /\ UNCHANGED <<manifest, file, written, job>>
    BY <1>6, <2>1, <2>2 DEF MarkBuilding, Checkpoint, SidecarsDone, EndTask, tableVars
  <2>5. NamesInv'
    BY <1>1, <1>4, <2>2, <2>3, <2>4
  <2>6. Scalars'
    <3>1. log' \in Seq([seg : Segments, id : Nat])
      <4>1. log' = log \/ log' = <<>>
        BY <1>6 DEF tableVars, MarkBuilding, Checkpoint, SidecarsDone, EndTask
      <4>2. PICK R : R = [seg : Segments, id : Nat]
        OBVIOUS
      <4>3. log \in Seq(R)
        BY <4>2 DEF Scalars
      <4>4. <<>> \in Seq(R)
        OBVIOUS
      <4>5. CASE log' = log
        BY <4>2, <4>3, <4>5
      <4>6. CASE log' = <<>>
        BY <4>2, <4>4, <4>6
      <4> QED BY <4>1, <4>5, <4>6
    <3> QED BY <1>6, <3>1 DEF Scalars, tableVars, counters, MarkBuilding, Checkpoint, SidecarsDone, EndTask
  <2> QED BY <2>5, <2>6
<1>7. CASE MarkReady(t)
  <2>1. PICK b, c : b = task[t] /\ c = [b EXCEPT !.pc = "replace", !.state = "done"]
    OBVIOUS
  <2>2. c \in TaskType /\ c.read = b.read
    BY <1>2, <2>1 DEF TaskType
  <2>3. task' = [task EXCEPT ![t] = c] /\ UNCHANGED <<manifest, file, written, job>>
    BY <1>7, <2>1 DEF MarkReady, tableVars
  <2>4. NamesInv'
    BY <1>1, <1>4, <2>1, <2>2, <2>3
  <2>5. Scalars'
    BY <1>7 DEF Scalars, tableVars, counters, MarkReady
  <2> QED BY <2>4, <2>5
<1>8. CASE Scan(t)
  <2>1. PICK L : L = {n \in Listed : HasFile(n)}
    OBVIOUS
  <2>2. PICK b, c : b = task[t] /\ c = [b EXCEPT !.pc = "build", !.todo = L]
    OBVIOUS
  <2>3. c \in TaskType /\ c.read = b.read
    <3>1. L \in SUBSET Segments
      BY <1>3, <2>1
    <3> QED BY <1>2, <2>2, <3>1 DEF TaskType
  <2>4. task' = [task EXCEPT ![t] = c] /\ UNCHANGED <<manifest, file, written, job>>
    BY <1>8, <2>1, <2>2 DEF Scan, tableVars
  <2>5. NamesInv'
    BY <1>1, <1>4, <2>2, <2>3, <2>4
  <2>6. Scalars'
    BY <1>8 DEF Scalars, tableVars, counters, Scan
  <2> QED BY <2>5, <2>6
<1>9. ASSUME NEW n \in Segments, BuildSidecar(t, n) PROVE Scalars' /\ NamesInv'
  <2>1. PICK b, c : b = task[t] /\ c = [b EXCEPT !.todo = @ \ {n}]
    OBVIOUS
  <2>2. c \in TaskType /\ c.read = b.read
    BY <1>2, <2>1 DEF TaskType
  <2>3. task' = [task EXCEPT ![t] = c] /\ UNCHANGED <<manifest, file, written, job>>
    BY <1>9, <2>1 DEF BuildSidecar
  <2>4. NamesInv'
    BY <1>1, <1>4, <2>1, <2>2, <2>3
  <2>5. side' \in [Segments -> 0 .. MaxBatches]
    <3>1. side \in [Segments -> 0 .. MaxBatches] /\ file[n].batch \in 0 .. MaxBatches
      BY DEF Scalars
    <3> QED BY <1>9, <3>1 DEF BuildSidecar
  <2>6. Scalars'
    BY <1>9, <2>5 DEF Scalars, BuildSidecar
  <2> QED BY <2>4, <2>6
<1>10. CASE ReadRanges(t)
  <2>1. PICK r, m : r = RebuiltRange(manifest) /\ m = [manifest EXCEPT !.range = r]
    OBVIOUS
  <2>2. m \in Manifests /\ m.segs = manifest.segs
    <3>1. r \in UNION {[S -> Nat] : S \in SUBSET Segments}
      BY <1>3, <2>1, RebuiltType
    <3> QED BY <1>3, <2>1, <3>1 DEF Manifests
  <2>3. PICK b, c : b = task[t] /\ c = [b EXCEPT !.pc = "save", !.read = m]
    OBVIOUS
  <2>4. c \in TaskType /\ c.read = m
    BY <1>2, <2>2, <2>3 DEF TaskType
  <2>5. TaskNamed(c, written)
    <3>1. NumberedTo(m, written)
      BY <1>1, <2>2 DEF ManifestNamed, NumberedTo
    <3> QED BY <2>4, <3>1 DEF TaskNamed
  <2>6. task' = [task EXCEPT ![t] = c] /\ UNCHANGED <<manifest, file, written, job>>
    BY <1>10, <2>1, <2>3 DEF ReadRanges, tableVars
  <2>7. ManifestNamed(manifest', written')
    BY <1>1, <2>6
  <2>8. NamesInv'
    BY <2>5, <2>6, <2>7, OneTaskNamed
  <2>9. Scalars'
    BY <1>10 DEF Scalars, tableVars, counters, ReadRanges
  <2> QED BY <2>8, <2>9
<1>11. CASE SaveRanges(t)
  <2>1. NoTask.read \in Manifests /\ NumberedTo(NoTask.read, written)
    BY <1>2 DEF TaskNamed, TaskType
  <2>2. PICK b, e, c : b = task[t] /\ e = NoTask.read /\ c = [b EXCEPT !.pc = "ready", !.read = e]
    OBVIOUS
  <2>3. c \in TaskType /\ c.read = e
    BY <1>2, <2>1, <2>2 DEF TaskType
  <2>4. TaskNamed(c, written)
    BY <2>1, <2>2, <2>3 DEF TaskNamed
  <2>5. task' = [task EXCEPT ![t] = c] /\ UNCHANGED <<file, written, job>> /\ manifest' = task[t].read
    BY <1>11, <2>2 DEF SaveRanges
  <2>6. ManifestNamed(manifest', written')
    <3>1. task[t].read \in Manifests /\ NumberedTo(task[t].read, written)
      BY <1>1, <1>2 DEF TaskNamed, TaskType
    <3> QED BY <2>5, <3>1 DEF ManifestNamed
  <2>7. NamesInv'
    BY <2>4, <2>5, <2>6, OneTaskNamed
  <2>8. Scalars'
    BY <1>11 DEF Scalars, counters, SaveRanges
  <2> QED BY <2>7, <2>8
<1> QED BY <1>5, <1>6, <1>7, <1>8, <1>9, <1>10, <1>11 DEF TaskStep

LEMMA TypeCrash ==
  ASSUME Scalars, NamesInv, Crash
  PROVE  Scalars' /\ NamesInv'
<1>1. Scalars'
  BY DEF Scalars, Crash, tableVars
<1>2. written \in Nat /\ UNCHANGED <<manifest, file, written>> /\ ManifestNamed(manifest, written)
  BY ScalarCounts, NamesAre DEF Counts, Crash, tableVars
<1>3. JobNamed(NoJob, file, written) /\ TaskNamed(NoTask, written)
  BY <1>2, EmptyNamed
<1>4. NoJob \in JobType /\ NoTask \in TaskType
  BY <1>3 DEF JobNamed, TaskNamed
<1>5. /\ job' \in [Jobs -> JobType] /\ \A j \in Jobs : JobNamed(job'[j], file', written')
      /\ task' \in [Tasks -> TaskType] /\ \A t \in Tasks : TaskNamed(task'[t], written')
  BY <1>2, <1>3, <1>4 DEF Crash
<1> QED BY <1>1, <1>2, <1>5, NamesAreNext

LEMMA TypeStep == Scalars /\ NamesInv /\ [Next]_vars => Scalars' /\ NamesInv'
<1> SUFFICES ASSUME Scalars, NamesInv, [Next]_vars PROVE Scalars' /\ NamesInv'
  OBVIOUS
<1>1. ASSUME NEW j \in Jobs, BeginJob(j, "upload") \/ BeginJob(j, "hub") \/ JobStep(j) \/ FailJob(j) \/ CancelJob(j)
      PROVE  Scalars' /\ NamesInv'
  <2>1. CASE \/ BeginJob(j, "upload") \/ BeginJob(j, "hub") \/ StartJob(j)
             \/ EndJob(j) \/ FailJob(j) \/ CancelJob(j)
    BY <2>1, TypeJobStart
  <2>2. CASE WriteSegment(j)
    BY <2>2, TypeWriteSegment
  <2>3. CASE AppendLog(j)
    BY <2>3, TypeAppendLog
  <2>4. CASE SaveManifest(j)
    BY <2>4, TypeSaveManifest
  <2> QED BY <1>1, <2>1, <2>2, <2>3, <2>4 DEF JobStep
<1>2. ASSUME NEW t \in Tasks, BeginTask(t) \/ TaskStep(t) \/ FailTask(t) PROVE Scalars' /\ NamesInv'
  BY <1>2, TypeTaskStep
<1>3. CASE Crash
  BY <1>3, TypeCrash
<1>4. CASE UNCHANGED vars
  BY <1>4 DEF vars, tableVars, counters, Scalars, NamesInv, Numbered, HasFile
<1> QED BY <1>1, <1>2, <1>3, <1>4 DEF Next

LEMMA CountedStart == Init => Counted
BY DEF Init, Counted

LEMMA CountedStep == Counted /\ [Next]_vars => Counted'
<1> SUFFICES ASSUME Counted, [Next]_vars PROVE Counted'
  OBVIOUS
<1>1. ASSUME NEW j \in Jobs, BeginJob(j, "upload") \/ BeginJob(j, "hub") \/ JobStep(j) \/ FailJob(j) \/ CancelJob(j)
      PROVE  Counted'
  BY <1>1 DEF Counted, counters, BeginJob, JobStep, StartJob, WriteSegment, AppendLog, SaveManifest, EndJob, FailJob, CancelJob
<1>2. ASSUME NEW t \in Tasks, BeginTask(t) \/ TaskStep(t) \/ FailTask(t) PROVE Counted'
  BY <1>2 DEF Counted, counters, BeginTask, TaskStep, MarkBuilding, Checkpoint, Scan, SidecarsDone, BuildSidecar,
       ReadRanges, SaveRanges, MarkReady, EndTask, FailTask
<1>3. CASE Crash
  BY <1>3 DEF Counted, Crash
<1>4. CASE UNCHANGED vars
  BY <1>4 DEF vars, counters, Counted
<1> QED BY <1>1, <1>2, <1>3, <1>4 DEF Next

TypeInv == Scalars /\ Counted /\ NamesInv

LEMMA TypeInvStart == Init => TypeInv
BY TypeStart, CountedStart DEF TypeInv

LEMMA TypeInvStep == TypeInv /\ [Next]_vars => TypeInv'
BY TypeStep, CountedStep DEF TypeInv

\* Every file, sidecar, record and manifest of a table is of the names and numbers the
\* program means, whoever writes it and however jobs, tasks and crashes follow each other:
\* a segment is listed once, and no name is beyond the batches written.
THEOREM IngestTypes == Spec => []TypeOK
<1>1. TypeInv => TypeOK
  BY TypesFollow DEF TypeInv
<1> QED BY <1>1, TypeInvStart, TypeInvStep, PTL DEF Spec

-----------------------------------------------------------------------------
(* What a ready table serves *)

ServeParts == OneWorker /\ WorkerInv /\ SidecarsInv /\ RangesInv /\ CommittedKept /\ ReadyIsIndexed

\* While a job is at work, no other job is and no task.
LEMMA JobAlone ==
  ASSUME OneWorker, NEW j \in Jobs, job[j].pc # "idle"
  PROVE  job[j].state = "running" /\ (\A k \in Jobs \ {j} : job[k].pc = "idle") /\ (\A t \in Tasks : ~ Working(t))
BY DEF OneWorker

LEMMA TaskAlone ==
  ASSUME OneWorker, NEW t \in Tasks, Working(t)
  PROVE  task[t].state = "running" /\ (\A j \in Jobs : job[j].pc = "idle") /\ (\A u \in Tasks \ {t} : ~ Working(u))
BY DEF OneWorker

\* Nobody is at work when the client starts something.
LEMMA NobodyWorks ==
  ASSUME OneWorker, ClientWaits = TRUE, MayStart
  PROVE  (\A j \in Jobs : job[j].pc = "idle") /\ (\A t \in Tasks : ~ Working(t))
<1>1. (\A j \in Jobs : job[j].state # "running") /\ (\A t \in Tasks : task[t].state # "running")
  BY DEF MayStart
<1> QED BY <1>1 DEF OneWorker

\* The step of the only job at work.
LEMMA JobWorks ==
  ASSUME NEW j \in Jobs, NEW c, job \in [Jobs -> JobType], job' = [job EXCEPT ![j] = c], task' = task,
         \A k \in Jobs \ {j} : job[k].pc = "idle", \A t \in Tasks : ~ Working(t),
         c.pc # "idle" => c.state = "running",
         c.pc \in {"load", "log", "save"} => status' = "none",
         c.pc \in {"log", "save"} => c.read = manifest' /\ file'[c.seg].id = c.next
  PROVE  OneWorker' /\ WorkerInv'
<1>1. job'[j] = c /\ \A k \in Jobs \ {j} : job'[k].pc = "idle"
  OBVIOUS
<1>2. \A t \in Tasks : task'[t].pc \in {"idle", "replace"}
  BY DEF Working
<1>3. OneWorker'
  <2>1. \A t \in Tasks : ~ Working(t)'
    BY <1>2 DEF Working
  <2>2. ASSUME NEW k \in Jobs, job'[k].pc # "idle"
        PROVE  job'[k].state = "running" /\ \A l \in Jobs \ {k} : job'[l].pc = "idle"
    BY <1>1, <2>2
  <2> QED BY <2>1, <2>2 DEF OneWorker
<1>4. WorkerInv'
  <2>1. ASSUME NEW k \in Jobs
        PROVE  /\ job'[k].pc \in {"load", "log", "save"} => status' = "none"
               /\ job'[k].pc \in {"log", "save"} => job'[k].read = manifest' /\ file'[job'[k].seg].id = job'[k].next
    BY <1>1
  <2>2. \A t \in Tasks : task'[t].pc \notin {"build", "ranges", "save", "ready"}
    BY <1>2
  <2> QED BY <2>1, <2>2 DEF WorkerInv
<1> QED BY <1>3, <1>4

\* The step of the only task at work.
LEMMA TaskWorks ==
  ASSUME NEW t \in Tasks, NEW c, task \in [Tasks -> TaskType], task' = [task EXCEPT ![t] = c], job' = job,
         \A j \in Jobs : job[j].pc = "idle", \A u \in Tasks \ {t} : ~ Working(u),
         c.pc \notin {"idle", "replace"} => c.state = "running",
         c.pc = "build" => c.todo \subseteq Listed' /\ \A n \in Listed' \ c.todo : Indexed(n)',
         c.pc \in {"ranges", "save", "ready"} => \A n \in Listed' : Indexed(n)',
         c.pc = "save" => c.read.segs = manifest'.segs
  PROVE  OneWorker' /\ WorkerInv'
<1>1. task'[t] = c /\ \A u \in Tasks \ {t} : task'[u].pc \in {"idle", "replace"}
  BY DEF Working
<1>2. \A j \in Jobs : job'[j].pc = "idle"
  OBVIOUS
<1>3. OneWorker'
  <2>1. ASSUME NEW u \in Tasks, Working(u)'
        PROVE  task'[u].state = "running" /\ \A v \in Tasks \ {u} : ~ Working(v)'
    BY <1>1, <2>1 DEF Working
  <2> QED BY <1>2, <2>1 DEF OneWorker
<1>4. WorkerInv'
  <2>1. ASSUME NEW u \in Tasks
        PROVE  /\ task'[u].pc = "build" =>
                    task'[u].todo \subseteq Listed' /\ \A n \in Listed' \ task'[u].todo : Indexed(n)'
               /\ task'[u].pc \in {"ranges", "save", "ready"} => \A n \in Listed' : Indexed(n)'
               /\ task'[u].pc = "save" => task'[u].read.segs = manifest'.segs
    BY <1>1
  <2> QED BY <1>2, <2>1 DEF WorkerInv
<1> QED BY <1>3, <1>4

\* Steps that touch no table: what its sidecars and its committed batches say stays.
LEMMA TableSame ==
  ASSUME UNCHANGED <<manifest, file, side, committed>>
  PROVE  /\ Listed' = Listed /\ (SidecarsInv => SidecarsInv') /\ (CommittedKept => CommittedKept')
         /\ \A n : Indexed(n)' <=> Indexed(n)
BY DEF SidecarsInv, CommittedKept, Listed, HasFile, Indexed

\* As long as no job is about to save a manifest, the log names listed segments.
LEMMA LogListed ==
  ASSUME RangesInv, failures = 0, crashes = 0, \A j \in Jobs : job[j].pc # "save"
  PROVE  \A i \in DOMAIN log : log[i].seg \in Listed
BY DEF RangesInv

LEMMA ServeJobStart ==
  ASSUME TypeInv, ServeParts, ClientWaits = TRUE, NEW j \in Jobs,
         (\E kind \in {"upload", "hub"} : BeginJob(j, kind)) \/ StartJob(j) \/ EndJob(j) \/ FailJob(j)
  PROVE  ServeParts'
<1>1. /\ UNCHANGED <<manifest, file, side, committed, log, task, crashes>>
      /\ status' \in {status, "none"}
      /\ (failures' = failures \/ failures' = failures + 1)
  BY DEF tableVars, counters, BeginJob, StartJob, EndJob, FailJob
<1>2. (\A k \in Jobs \ {j} : job[k].pc = "idle") /\ (\A t \in Tasks : ~ Working(t))
  <2>1. CASE \E kind \in {"upload", "hub"} : BeginJob(j, kind)
    BY <2>1, NobodyWorks DEF BeginJob, ServeParts
  <2>2. CASE StartJob(j) \/ EndJob(j) \/ FailJob(j)
    <3>1. job[j].pc # "idle"
      BY <2>2 DEF StartJob, EndJob, FailJob
    <3> QED BY <3>1, JobAlone DEF ServeParts
  <2> QED BY <2>1, <2>2
<1>3. job \in [Jobs -> JobType] /\ job[j] \in JobType
  BY DEF TypeInv, NamesInv
<1>4. \E c : /\ job' = [job EXCEPT ![j] = c] /\ c.pc \in {"idle", "queued", "load"}
             /\ (c.pc # "idle" => c.state = "running") /\ (c.pc = "load" => status' = "none")
  <2>1. CASE \E kind \in {"upload", "hub"} : BeginJob(j, kind)
    <3>1. PICK kind \in {"upload", "hub"} :
            job' = [job EXCEPT ![j] = [NoJob EXCEPT !.pc = "queued", !.kind = kind, !.state = "running"]]
      BY <2>1 DEF BeginJob
    <3>2. PICK c : c = [NoJob EXCEPT !.pc = "queued", !.kind = kind, !.state = "running"]
      OBVIOUS
    <3>3. c.pc = "queued" /\ c.state = "running"
      BY <3>2 DEF NoJob
    <3> QED BY <3>1, <3>2, <3>3
  <2>2. CASE StartJob(j)
    <3>1. PICK pc \in {"idle", "load"}, st \in {"cancelled", "failed", "running"} :
            job' = [job EXCEPT ![j].pc = pc, ![j].state = st] /\ (pc = "load" => st = "running")
      BY <2>2 DEF StartJob
    <3>2. PICK b, c : b = job[j] /\ c = [b EXCEPT !.pc = pc, !.state = st]
      OBVIOUS
    <3>3. c.pc = pc /\ c.state = st
      BY <1>3, <3>2 DEF JobType
    <3>4. job' = [job EXCEPT ![j] = c]
      BY <1>3, <3>1, <3>2
    <3>5. job'[j].pc = "load" => status' = "none"
      BY <2>2 DEF StartJob
    <3>6. job'[j] = c
      BY <1>3, <3>4
    <3> QED BY <3>1, <3>3, <3>4, <3>5, <3>6
  <2>3. CASE EndJob(j) \/ FailJob(j)
    <3>1. PICK st \in {"done", "failed"} : job' = [job EXCEPT ![j] = [NoJob EXCEPT !.state = st]]
      BY <2>3 DEF EndJob, FailJob
    <3>2. PICK c : c = [NoJob EXCEPT !.state = st]
      OBVIOUS
    <3>3. c.pc = "idle"
      BY <3>2 DEF NoJob
    <3> QED BY <3>1, <3>2, <3>3
  <2> QED BY <2>1, <2>2, <2>3
<1>5. PICK c : /\ job' = [job EXCEPT ![j] = c] /\ c.pc \in {"idle", "queued", "load"}
               /\ (c.pc # "idle" => c.state = "running") /\ (c.pc = "load" => status' = "none")
  BY <1>4
<1>6. OneWorker' /\ WorkerInv'
  <2>1. c.pc \in {"load", "log", "save"} => status' = "none"
    BY <1>5
  <2>2. c.pc \in {"log", "save"} => c.read = manifest' /\ file'[c.seg].id = c.next
    BY <1>5
  <2> QED BY <1>1, <1>2, <1>3, <1>5, <2>1, <2>2, JobWorks
<1>7. Listed' = Listed /\ SidecarsInv' /\ CommittedKept' /\ \A n : Indexed(n)' <=> Indexed(n)
  BY <1>1, TableSame DEF ServeParts
<1>8. ReadyIsIndexed'
  BY <1>1, <1>7 DEF ServeParts, ReadyIsIndexed, Indexed
<1>9. RangesInv'
  <2>1. SUFFICES ASSUME failures' = 0, crashes' = 0
                 PROVE  /\ \A n \in Listed' : InRange(manifest, n)'
                        /\ \A i \in DOMAIN log : log[i].seg \in Listed
                        /\ \A t \in Tasks : task[t].pc \notin {"scan", "build", "ranges", "save"}
    BY <1>1, <1>7 DEF RangesInv
  <2>2. failures \in Nat
    BY DEF TypeInv, Counted
  <2>3. failures = 0 /\ crashes = 0 /\ ~ FailJob(j)
    BY <1>1, <2>1, <2>2 DEF FailJob
  <2>4. \A k \in Jobs : job[k].pc # "save"
    <3>1. job[j].pc # "save"
      BY <2>3 DEF BeginJob, StartJob, EndJob
    <3> QED BY <1>2, <3>1
  <2>5. \A i \in DOMAIN log : log[i].seg \in Listed
    BY <2>3, <2>4, LogListed DEF ServeParts
  <2>6. \A n \in Listed' : InRange(manifest, n)'
    BY <1>1, <1>7, <2>3 DEF ServeParts, RangesInv, InRange
  <2> QED BY <1>2, <2>5, <2>6 DEF Working
<1> QED BY <1>6, <1>7, <1>8, <1>9 DEF ServeParts

LEMMA ServeWriteSegment ==
  ASSUME TypeInv, ServeParts, NEW j \in Jobs, WriteSegment(j)
  PROVE  ServeParts'
<1>1. PICK n : n = Len(manifest.segs) + 1
  OBVIOUS
<1>2. /\ job[j].pc = "load" /\ written < MaxBatches
      /\ file' = [file EXCEPT ![n] = [batch |-> written', id |-> job[j].next]]
      /\ job' = [job EXCEPT ![j].pc = "log", ![j].seg = n, ![j].read = manifest]
      /\ UNCHANGED <<manifest, side, log, status, task, committed, failures, crashes>>
  BY <1>1 DEF WriteSegment, counters
<1>3. n \in Segments
  BY <1>1, <1>2, NextName DEF TypeInv
<1>4. n \notin Listed /\ Listed' = Listed /\ Listed \subseteq Segments
  <2>1. Listed = 1 .. Len(manifest.segs) /\ Len(manifest.segs) \in Nat /\ Listed \subseteq Segments
    BY ListedIs, ScalarCounts DEF TypeInv, NamesInv
  <2>2. Listed' = Listed
    BY <1>2 DEF Listed
  <2> QED BY <1>1, <2>1, <2>2
<1>5. job[j].state = "running" /\ (\A k \in Jobs \ {j} : job[k].pc = "idle") /\ (\A t \in Tasks : ~ Working(t))
  BY <1>2, JobAlone DEF ServeParts
<1>6. job \in [Jobs -> JobType] /\ job[j] \in JobType
  BY DEF TypeInv, NamesInv
<1>7. status = "none"
  BY <1>2 DEF ServeParts, WorkerInv
<1>8. file'[n].id = job[j].next /\ \A k \in Segments \ {n} : file'[k] = file[k]
  <2>1. PICK r : r = [batch |-> written', id |-> job[j].next]
    OBVIOUS
  <2>2. file' = [file EXCEPT ![n] = r] /\ r.id = job[j].next /\ file \in [Segments -> [batch : 0 .. MaxBatches, id : Nat]]
    BY <1>2, <2>1 DEF TypeInv, Scalars
  <2> QED BY <1>3, <2>2
<1>9. OneWorker' /\ WorkerInv'
  <2>1. PICK b, c : b = job[j] /\ c = [b EXCEPT !.pc = "log", !.seg = n, !.read = manifest]
    OBVIOUS
  <2>2. c.pc = "log" /\ c.seg = n /\ c.read = manifest /\ c.state = "running" /\ c.next = job[j].next
    BY <1>5, <1>6, <2>1 DEF JobType
  <2>3. job' = [job EXCEPT ![j] = c]
    BY <1>2, <1>6, <2>1
  <2>4. c.pc \in {"load", "log", "save"} => status' = "none"
    BY <1>2, <1>7
  <2>5. c.pc \in {"log", "save"} => c.read = manifest' /\ file'[c.seg].id = c.next
    BY <1>2, <1>8, <2>2
  <2> QED BY <1>2, <1>5, <1>6, <2>2, <2>3, <2>4, <2>5, JobWorks
<1>10. \A k \in Listed : (HasFile(k)' <=> HasFile(k)) /\ (Indexed(k)' <=> Indexed(k)) /\ file'[k] = file[k]
  <2>1. \A k \in Listed : file'[k] = file[k]
    BY <1>4, <1>8
  <2> QED BY <1>2, <2>1 DEF HasFile, Indexed
<1>11. SidecarsInv'
  <2>1. \A k \in Listed' : HasFile(k)'
    BY <1>4, <1>10 DEF ServeParts, SidecarsInv
  <2>2. ASSUME NEW k \in Segments, side'[k] > 0 PROVE k \in Listed' /\ Indexed(k)'
    <3>1. k \in Listed /\ Indexed(k)
      BY <1>2, <2>2 DEF ServeParts, SidecarsInv
    <3> QED BY <1>4, <1>10, <3>1
  <2> QED BY <2>1, <2>2 DEF SidecarsInv
<1>12. CommittedKept'
  BY <1>2, <1>4, <1>10 DEF ServeParts, CommittedKept
<1>13. ReadyIsIndexed'
  BY <1>2, <1>7 DEF ReadyIsIndexed
<1>14. RangesInv'
  <2>1. SUFFICES ASSUME failures = 0, crashes = 0
                 PROVE  /\ \A k \in Listed' : InRange(manifest, k)'
                        /\ \A i \in DOMAIN log : log[i].seg \in Listed
                        /\ \A t \in Tasks : task[t].pc \notin {"scan", "build", "ranges", "save"}
    BY <1>2, <1>4 DEF RangesInv
  <2>2. \A k \in Jobs : job[k].pc # "save"
    BY <1>2, <1>5
  <2>3. \A i \in DOMAIN log : log[i].seg \in Listed
    BY <2>1, <2>2, LogListed DEF ServeParts
  <2>4. \A k \in Listed' : InRange(manifest, k)'
    BY <1>2, <1>4, <1>10, <2>1 DEF ServeParts, RangesInv, InRange
  <2> QED BY <1>5, <2>3, <2>4 DEF Working
<1> QED BY <1>9, <1>11, <1>12, <1>13, <1>14 DEF ServeParts

LEMMA ServeAppendLog ==
  ASSUME TypeInv, ServeParts, NEW j \in Jobs, AppendLog(j)
  PROVE  ServeParts'
<1>1. /\ job[j].pc = "log" /\ log' = Append(log, [seg |-> job[j].seg, id |-> job[j].next])
      /\ job' = [job EXCEPT ![j].pc = "save"]
      /\ UNCHANGED <<manifest, file, side, status, task, committed, failures, crashes>>
  BY DEF AppendLog, counters
<1>2. job[j].state = "running" /\ (\A k \in Jobs \ {j} : job[k].pc = "idle") /\ (\A t \in Tasks : ~ Working(t))
  BY <1>1, JobAlone DEF ServeParts
<1>3. job \in [Jobs -> JobType] /\ job[j] \in JobType
  BY DEF TypeInv, NamesInv
<1>4. status = "none" /\ job[j].read = manifest /\ file[job[j].seg].id = job[j].next
  BY <1>1 DEF ServeParts, WorkerInv
<1>5. PICK b, c : b = job[j] /\ c = [b EXCEPT !.pc = "save"]
  OBVIOUS
<1>6. /\ job' = [job EXCEPT ![j] = c] /\ c.pc = "save" /\ c.state = "running"
      /\ c.read = b.read /\ c.seg = b.seg /\ c.next = b.next /\ job'[j] = c
  BY <1>1, <1>2, <1>3, <1>5 DEF JobType
<1>7. OneWorker' /\ WorkerInv'
  <2>1. c.pc \in {"load", "log", "save"} => status' = "none"
    BY <1>1, <1>4
  <2>2. c.pc \in {"log", "save"} => c.read = manifest' /\ file'[c.seg].id = c.next
    BY <1>1, <1>4, <1>5, <1>6
  <2> QED BY <1>1, <1>2, <1>3, <1>6, <2>1, <2>2, JobWorks
<1>8. Listed' = Listed /\ SidecarsInv' /\ CommittedKept'
  BY <1>1, TableSame DEF ServeParts
<1>9. ReadyIsIndexed'
  BY <1>1, <1>4 DEF ReadyIsIndexed
<1>10. RangesInv'
  <2>1. SUFFICES ASSUME failures = 0, crashes = 0
                 PROVE  /\ \A k \in Listed' : InRange(manifest, k)'
                        /\ \A i \in DOMAIN log' : log'[i].seg \in Listed \/ log'[i].seg = job'[j].seg
                        /\ \A t \in Tasks : task[t].pc \notin {"scan", "build", "ranges", "save"}
    BY <1>1, <1>6, <1>8 DEF RangesInv
  <2>2. \A k \in Jobs : job[k].pc # "save"
    BY <1>1, <1>2
  <2>3. \A i \in DOMAIN log : log[i].seg \in Listed
    BY <2>1, <2>2, LogListed DEF ServeParts
  <2>4. \A i \in DOMAIN log' : log'[i].seg \in Listed \/ log'[i].seg = job'[j].seg
    <3>1. PICK R, r : R = [seg : Segments, id : Nat] /\ r = [seg |-> job[j].seg, id |-> job[j].next]
      OBVIOUS
    <3>2. log \in Seq(R) /\ log' = Append(log, r) /\ r.seg = job'[j].seg
      BY <1>1, <1>5, <1>6, <3>1 DEF TypeInv, Scalars
    <3>3. /\ DOMAIN log' = 1 .. Len(log) + 1 /\ Len(log) \in Nat /\ DOMAIN log = 1 .. Len(log)
          /\ log'[Len(log) + 1] = r /\ \A i \in DOMAIN log : log'[i] = log[i]
      BY <3>2
    <3> QED BY <2>3, <3>2, <3>3
  <2>5. \A k \in Listed' : InRange(manifest, k)'
    BY <1>1, <1>8, <2>1 DEF ServeParts, RangesInv, InRange
  <2> QED BY <1>2, <2>4, <2>5 DEF Working
<1> QED BY <1>7, <1>8, <1>9, <1>10 DEF ServeParts

LEMMA ServeSaveManifest ==
  ASSUME TypeInv, ServeParts, NEW j \in Jobs, SaveManifest(j)
  PROVE  ServeParts'
<1>1. /\ job[j].pc = "save" /\ manifest' = PushSegment(job[j].read, job[j].seg, job[j].next)
      /\ committed' = committed \cup {file[job[j].seg].batch}
      /\ job' = [job EXCEPT ![j].pc = "load", ![j].next = @ + 1, ![j].read = NoJob.read]
      /\ UNCHANGED <<file, side, log, status, task, failures, crashes>>
  BY DEF SaveManifest, counters
<1>2. job[j].state = "running" /\ (\A k \in Jobs \ {j} : job[k].pc = "idle") /\ (\A t \in Tasks : ~ Working(t))
  BY <1>1, JobAlone DEF ServeParts
<1>3. job \in [Jobs -> JobType] /\ job[j] \in JobType
  BY DEF TypeInv, NamesInv
<1>4. status = "none" /\ job[j].read = manifest /\ file[job[j].seg].id = job[j].next
  BY <1>1 DEF ServeParts, WorkerInv
<1>5. PICK n, id : n = job[j].seg /\ id = job[j].next
  OBVIOUS
<1>6. /\ Counts /\ manifest \in Manifests /\ Numbered(manifest) /\ n = Len(manifest.segs) + 1 /\ n \in Segments
      /\ id \in Nat /\ HasFile(n) /\ file[n].id = id
  BY <1>1, <1>4, <1>5, SavedIs DEF TypeInv
<1>7. PICK p : p = PushSegment(manifest, n, id)
  OBVIOUS
<1>8. /\ p \in Manifests /\ Len(p.segs) = n /\ (\A i \in DOMAIN p.segs : p.segs[i] = i)
      /\ DOMAIN p.range = DOMAIN manifest.range \cup {n} /\ p.range[n] = id
      /\ \A k \in DOMAIN manifest.range \ {n} : p.range[k] = manifest.range[k]
  BY <1>6, <1>7, PushIs
<1>9. manifest' = p
  BY <1>1, <1>4, <1>5, <1>7
<1>10. Listed' = Listed \cup {n} /\ n \notin Listed /\ Listed \subseteq Segments
  <2>1. Listed = 1 .. Len(manifest.segs) /\ Len(manifest.segs) \in Nat /\ Listed \subseteq Segments
    BY <1>6, ListedIs
  <2>2. DOMAIN p.segs = 1 .. n
    BY <1>6, <1>8, <2>1 DEF Manifests
  <2>3. Listed' = {p.segs[i] : i \in DOMAIN p.segs}
    BY <1>9 DEF Listed
  <2>4. Listed' = 1 .. n
    BY <1>8, <2>2, <2>3
  <2> QED BY <1>6, <2>1, <2>4
<1>11. OneWorker' /\ WorkerInv'
  <2>1. PICK b, e, i, c : b = job[j] /\ e = NoJob.read /\ i = b.next + 1 /\ c = [b EXCEPT !.pc = "load", !.next = i, !.read = e]
    OBVIOUS
  <2>2. c.pc = "load" /\ c.state = "running"
    BY <1>2, <1>3, <2>1 DEF JobType
  <2>3. job' = [job EXCEPT ![j] = c]
    BY <1>1, <2>1
  <2>4. c.pc \in {"load", "log", "save"} => status' = "none"
    BY <1>1, <1>4
  <2>5. c.pc \in {"log", "save"} => c.read = manifest' /\ file'[c.seg].id = c.next
    BY <2>2
  <2> QED BY <1>1, <1>2, <1>3, <2>2, <2>3, <2>4, <2>5, JobWorks
<1>12. \A k : (HasFile(k)' <=> HasFile(k)) /\ (Indexed(k)' <=> Indexed(k))
  BY <1>1 DEF HasFile, Indexed
<1>13. SidecarsInv'
  <2>1. \A k \in Listed' : HasFile(k)'
    BY <1>6, <1>10, <1>12 DEF ServeParts, SidecarsInv
  <2>2. ASSUME NEW k \in Segments, side'[k] > 0 PROVE k \in Listed' /\ Indexed(k)'
    BY <1>1, <1>10, <1>12, <2>2 DEF ServeParts, SidecarsInv
  <2> QED BY <2>1, <2>2 DEF SidecarsInv
<1>14. CommittedKept'
  <2>1. ASSUME NEW b \in committed' PROVE \E k \in Listed' : file'[k].batch = b
    <3>1. CASE b \in committed
      <4>1. PICK k \in Listed : file[k].batch = b
        BY <3>1 DEF ServeParts, CommittedKept
      <4> QED BY <1>1, <1>10, <4>1
    <3>2. CASE b = file[n].batch
      <4>1. n \in Listed' /\ file'[n].batch = b
        BY <1>1, <1>10, <3>2
      <4> QED BY <4>1
    <3> QED BY <1>1, <1>5, <2>1, <3>1, <3>2
  <2> QED BY <2>1 DEF CommittedKept
<1>15. ReadyIsIndexed'
  BY <1>1, <1>4 DEF ReadyIsIndexed
<1>16. RangesInv'
  <2>1. SUFFICES ASSUME failures = 0, crashes = 0
                 PROVE  /\ \A k \in Listed' : InRange(manifest, k)'
                        /\ \A i \in DOMAIN log : log[i].seg \in Listed'
                        /\ \A t \in Tasks : task[t].pc \notin {"scan", "build", "ranges", "save"}
    BY <1>1 DEF RangesInv
  <2>2. \A i \in DOMAIN log : log[i].seg \in Listed \/ log[i].seg = n
    <3>1. \A i \in DOMAIN log : log[i].seg \in Listed \/ \E k \in Jobs : job[k].pc = "save" /\ job[k].seg = log[i].seg
      BY <2>1 DEF ServeParts, RangesInv
    <3>2. \A k \in Jobs : job[k].pc = "save" => k = j
      BY <1>2
    <3> QED BY <1>5, <3>1, <3>2
  <2>3. ASSUME NEW k \in Listed' PROVE k \in DOMAIN p.range /\ p.range[k] = file'[k].id
    <3>1. CASE k = n
      BY <1>1, <1>6, <1>8, <3>1
    <3>2. CASE k # n
      <4>1. k \in DOMAIN manifest.range /\ manifest.range[k] = file[k].id
        BY <1>10, <2>1, <2>3, <3>2 DEF ServeParts, RangesInv, InRange
      <4> QED BY <1>1, <1>8, <3>2, <4>1
    <3> QED BY <3>1, <3>2
  <2>4. \A k \in Listed' : InRange(manifest, k)'
    BY <1>9, <2>3 DEF InRange
  <2> QED BY <1>2, <1>10, <2>2, <2>4 DEF Working
<1> QED BY <1>11, <1>13, <1>14, <1>15, <1>16 DEF ServeParts

\* The steps of a task that write neither segments nor sidecars nor the manifest.
LEMMA ServeTaskMarks ==
  ASSUME TypeInv, ServeParts, ClientWaits = TRUE, NEW t \in Tasks,
         \/ BeginTask(t) \/ MarkBuilding(t) \/ Checkpoint(t) \/ Scan(t) \/ SidecarsDone(t)
         \/ ReadRanges(t) \/ MarkReady(t) \/ FailTask(t)
  PROVE  ServeParts'
<1>1. /\ UNCHANGED <<manifest, file, side, committed, job, crashes>>
      /\ log' = log \/ Checkpoint(t)
      /\ failures' = failures \/ (FailTask(t) /\ failures' = failures + 1)
  BY DEF tableVars, counters, BeginTask, MarkBuilding, Checkpoint, Scan, SidecarsDone, ReadRanges, MarkReady, FailTask
<1>2. (\A j \in Jobs : job[j].pc = "idle") /\ (\A u \in Tasks \ {t} : ~ Working(u))
  <2>1. CASE BeginTask(t)
    BY <2>1, NobodyWorks DEF BeginTask, ServeParts
  <2>2. CASE ~ BeginTask(t)
    <3>1. Working(t)
      BY <2>2 DEF Working, MarkBuilding, Checkpoint, Scan, SidecarsDone, ReadRanges, MarkReady, FailTask
    <3> QED BY <3>1, TaskAlone DEF ServeParts
  <2> QED BY <2>1, <2>2
<1>3. task \in [Tasks -> TaskType] /\ task[t] \in TaskType /\ (Working(t) => task[t].state = "running")
  BY TaskAlone DEF TypeInv, NamesInv, ServeParts
<1>4. Listed' = Listed /\ SidecarsInv' /\ CommittedKept' /\ \A n : Indexed(n)' <=> Indexed(n)
  BY <1>1, TableSame DEF ServeParts
<1>5. /\ \A n \in Listed : HasFile(n)
      /\ failures = 0 /\ crashes = 0 => \A n \in Listed : InRange(manifest, n)
      /\ failures = 0 /\ crashes = 0 => \A i \in DOMAIN log : log[i].seg \in Listed
  BY <1>2 DEF ServeParts, SidecarsInv, RangesInv
<1>6. OneWorker' /\ WorkerInv' /\ ReadyIsIndexed'
  <2>1. CASE BeginTask(t) \/ FailTask(t)
    <3>1. PICK pc \in {"mark", "replace"}, st \in {"running", "failed"} :
            task' = [task EXCEPT ![t] = [NoTask EXCEPT !.pc = pc, !.state = st]] /\ (pc = "mark" => st = "running")
      BY <2>1 DEF BeginTask, FailTask
    <3>2. PICK c : c = [NoTask EXCEPT !.pc = pc, !.state = st]
      OBVIOUS
    <3>3. c.pc = pc /\ c.state = st
      BY <3>2 DEF NoTask
    <3>4. task' = [task EXCEPT ![t] = c]
      BY <3>1, <3>2
    <3>5. /\ c.pc \notin {"idle", "replace"} => c.state = "running"
          /\ c.pc \notin {"build", "ranges", "save", "ready"}
      BY <3>1, <3>3
    <3>6. OneWorker' /\ WorkerInv'
      BY <1>1, <1>2, <1>3, <3>4, <3>5, TaskWorks
    <3>7. status' = status \/ status' = "failed"
      BY <2>1 DEF BeginTask, FailTask
    <3>8. ReadyIsIndexed'
      BY <1>4, <3>7 DEF ServeParts, ReadyIsIndexed, Indexed
    <3> QED BY <3>6, <3>8
  <2>2. CASE MarkBuilding(t) \/ Checkpoint(t)
    <3>1. PICK pc \in {"checkpoint", "scan"} : task' = [task EXCEPT ![t].pc = pc]
      BY <2>2 DEF MarkBuilding, Checkpoint
    <3>2. PICK b, c : b = task[t] /\ c = [b EXCEPT !.pc = pc]
      OBVIOUS
    <3>3. Working(t) /\ task[t].state = "running"
      BY <1>3, <2>2 DEF Working, MarkBuilding, Checkpoint
    <3>4. c.pc = pc /\ c.state = "running"
      BY <1>3, <3>2, <3>3 DEF TaskType
    <3>5. task' = [task EXCEPT ![t] = c]
      BY <3>1, <3>2
    <3>6. OneWorker' /\ WorkerInv'
      BY <1>1, <1>2, <1>3, <3>4, <3>5, TaskWorks
    <3>7. status' = status \/ status' = "building"
      BY <2>2 DEF MarkBuilding, Checkpoint
    <3>8. ReadyIsIndexed'
      BY <1>4, <3>7 DEF ServeParts, ReadyIsIndexed, Indexed
    <3> QED BY <3>6, <3>8
  <2>3. CASE Scan(t)
    <3>1. PICK L : L = {n \in Listed : HasFile(n)}
      OBVIOUS
    <3>2. L = Listed
      BY <1>5, <3>1
    <3>3. PICK b, c : b = task[t] /\ c = [b EXCEPT !.pc = "build", !.todo = L]
      OBVIOUS
    <3>4. Working(t) /\ task[t].state = "running"
      BY <1>3, <2>3 DEF Working, Scan
    <3>5. c.pc = "build" /\ c.state = "running" /\ c.todo = Listed'
      BY <1>3, <1>4, <3>2, <3>3, <3>4 DEF TaskType
    <3>6. task' = [task EXCEPT ![t] = c] /\ status' = "building"
      BY <2>3, <3>1, <3>3 DEF Scan
    <3>7. c.todo \subseteq Listed' /\ \A n \in Listed' \ c.todo : Indexed(n)'
      BY <3>5
    <3>8. OneWorker' /\ WorkerInv'
      BY <1>1, <1>2, <1>3, <3>5, <3>6, <3>7, TaskWorks
    <3> QED BY <3>6, <3>8 DEF ReadyIsIndexed
  <2>4. CASE SidecarsDone(t)
    <3>1. PICK b, c : b = task[t] /\ c = [b EXCEPT !.pc = "ranges"]
      OBVIOUS
    <3>2. Working(t) /\ task[t].state = "running" /\ task[t].pc = "build" /\ task[t].todo = {}
      BY <1>3, <2>4 DEF Working, SidecarsDone
    <3>3. c.pc = "ranges" /\ c.state = "running"
      BY <1>3, <3>1, <3>2 DEF TaskType
    <3>4. task' = [task EXCEPT ![t] = c]
      BY <2>4, <3>1 DEF SidecarsDone
    <3>5. \A n \in Listed' : Indexed(n)'
      BY <1>4, <3>2 DEF ServeParts, WorkerInv
    <3>6. OneWorker' /\ WorkerInv'
      BY <1>1, <1>2, <1>3, <3>3, <3>4, <3>5, TaskWorks
    <3> QED BY <3>5, <3>6 DEF ReadyIsIndexed, Indexed
  <2>5. CASE ReadRanges(t)
    <3>1. PICK r, m : r = RebuiltRange(manifest) /\ m = [manifest EXCEPT !.range = r]
      OBVIOUS
    <3>2. m.segs = manifest'.segs
      BY <1>1, <3>1 DEF TypeInv, NamesInv, Manifests
    <3>3. PICK b, c : b = task[t] /\ c = [b EXCEPT !.pc = "save", !.read = m]
      OBVIOUS
    <3>4. Working(t) /\ task[t].state = "running" /\ task[t].pc = "ranges"
      BY <1>3, <2>5 DEF Working, ReadRanges
    <3>5. c.pc = "save" /\ c.state = "running" /\ c.read = m
      BY <1>3, <3>3, <3>4 DEF TaskType
    <3>6. task' = [task EXCEPT ![t] = c] /\ status' = status
      BY <2>5, <3>1, <3>3 DEF ReadRanges
    <3>7. \A n \in Listed' : Indexed(n)'
      BY <1>4, <3>4 DEF ServeParts, WorkerInv
    <3>8. OneWorker' /\ WorkerInv'
      BY <1>1, <1>2, <1>3, <3>2, <3>5, <3>6, <3>7, TaskWorks
    <3> QED BY <3>7, <3>8 DEF ReadyIsIndexed, Indexed
  <2>6. CASE MarkReady(t)
    <3>1. PICK b, c : b = task[t] /\ c = [b EXCEPT !.pc = "replace", !.state = "done"]
      OBVIOUS
    <3>2. c.pc = "replace"
      BY <1>3, <3>1 DEF TaskType
    <3>3. task' = [task EXCEPT ![t] = c] /\ task[t].pc = "ready"
      BY <2>6, <3>1 DEF MarkReady
    <3>4. \A n \in Listed' : Indexed(n)'
      BY <1>4, <3>3 DEF ServeParts, WorkerInv
    <3>5. OneWorker' /\ WorkerInv'
      BY <1>1, <1>2, <1>3, <3>2, <3>3, TaskWorks
    <3> QED BY <3>4, <3>5 DEF ReadyIsIndexed, Indexed
  <2> QED BY <2>1, <2>2, <2>3, <2>4, <2>5, <2>6
<1>7. RangesInv'
  <2>1. SUFFICES ASSUME failures' = 0, crashes' = 0
                 PROVE  /\ \A n \in Listed : InRange(manifest, n)
                        /\ \A i \in DOMAIN log' : log'[i].seg \in Listed
                        /\ \A u \in Tasks : task'[u].pc \in {"scan", "build", "ranges", "save"} => log' = <<>>
                        /\ \A u \in Tasks : task'[u].pc = "save" => \A n \in Listed : InRange(task'[u].read, n)
    <3>1. ASSUME NEW m, NEW n PROVE InRange(m, n)' <=> InRange(m, n)
      BY <1>1 DEF InRange
    <3>2. (\A n \in Listed : InRange(manifest, n)) => \A n \in Listed' : InRange(manifest, n)'
      BY <1>1, <1>4 DEF InRange
    <3>3. ASSUME NEW u \in Tasks, \A n \in Listed : InRange(task'[u].read, n)
          PROVE  \A n \in Listed' : InRange(task[u].read, n)'
      BY <1>1, <1>4, <3>3 DEF InRange
    <3> QED BY <1>4, <3>2, <3>3 DEF RangesInv
  <2>2. failures = 0 /\ crashes = 0 /\ ~ FailTask(t)
    BY <1>1, <2>1 DEF TypeInv, Counted, FailTask
  <2>3. log' = log \/ log' = <<>>
    BY <1>1 DEF Checkpoint
  <2>4. \A i \in DOMAIN log' : log'[i].seg \in Listed
    BY <1>5, <2>2, <2>3
  <2>5. Checkpoint(t) => log' = <<>>
    <3>1. \A i \in DOMAIN log : log[i].seg \in Listed /\ HasFile(log[i].seg)
      BY <1>5, <2>2
    <3> QED BY <3>1 DEF Checkpoint
  <2>6. \A u \in Tasks : task[u].pc \in {"scan", "build", "ranges", "save"} => log = <<>>
    BY <2>2 DEF ServeParts, RangesInv
  <2>7. \A u \in Tasks \ {t} : task'[u].pc \in {"idle", "replace"}
    <3>1. \A u \in Tasks \ {t} : task'[u] = task[u]
      BY <1>3 DEF BeginTask, MarkBuilding, Checkpoint, Scan, SidecarsDone, ReadRanges, MarkReady, FailTask
    <3> QED BY <1>2, <3>1 DEF Working
  <2>8. task'[t].pc \in {"scan", "build", "ranges", "save"} => log' = <<>>
    <3>1. CASE Checkpoint(t)
      BY <2>5, <3>1
    <3>2. CASE Scan(t) \/ SidecarsDone(t) \/ ReadRanges(t)
      BY <1>1, <2>6, <3>2 DEF Scan, SidecarsDone, ReadRanges, Checkpoint, tableVars
    <3>3. CASE BeginTask(t) \/ MarkBuilding(t) \/ MarkReady(t)
      BY <1>3, <3>3 DEF BeginTask, MarkBuilding, MarkReady, NoTask, TaskType
    <3> QED BY <2>2, <3>1, <3>2, <3>3
  <2>9. task'[t].pc = "save" => \A n \in Listed : InRange(task'[t].read, n)
    <3>1. ASSUME task'[t].pc = "save" PROVE ReadRanges(t)
      BY <1>3, <2>2, <3>1 DEF BeginTask, MarkBuilding, Checkpoint, Scan, SidecarsDone, MarkReady, NoTask, TaskType
    <3>2. ASSUME ReadRanges(t) PROVE \A n \in Listed : InRange(task'[t].read, n)
      <4>1. task[t].pc = "ranges" /\ log = <<>>
        BY <2>6, <3>2 DEF ReadRanges
      <4>2. PICK r, m : r = RebuiltRange(manifest) /\ m = [manifest EXCEPT !.range = r]
        OBVIOUS
      <4>3. PICK b, c : b = task[t] /\ c = [b EXCEPT !.pc = "save", !.read = m]
        OBVIOUS
      <4>4. m.range = r /\ task'[t].read = m
        <5>1. manifest \in Manifests
          BY DEF TypeInv, NamesInv
        <5>2. m.range = r
          BY <4>2, <5>1 DEF Manifests
        <5>3. task' = [task EXCEPT ![t] = c]
          BY <3>2, <4>2, <4>3 DEF ReadRanges
        <5>4. c.read = m
          BY <1>3, <4>3 DEF TaskType
        <5> QED BY <1>3, <5>2, <5>3, <5>4
      <4>5. PICK L : L = {k \in Listed : HasFile(k)}
        OBVIOUS
      <4>6. L = Listed
        BY <1>5, <4>5
      <4>7. r = [n \in L |-> file[n].id]
        BY <4>1, <4>2, <4>5 DEF RebuiltRange, Listed
      <4> QED BY <4>4, <4>6, <4>7 DEF InRange
    <3> QED BY <3>1, <3>2
  <2> QED BY <1>5, <2>2, <2>4, <2>7, <2>8, <2>9
<1> QED BY <1>4, <1>6, <1>7 DEF ServeParts

LEMMA ServeBuildSidecar ==
  ASSUME TypeInv, ServeParts, NEW t \in Tasks, NEW n \in Segments, BuildSidecar(t, n)
  PROVE  ServeParts'
<1>1. /\ task[t].pc = "build" /\ n \in task[t].todo /\ status' = "building"
      /\ (side' = [side EXCEPT ![n] = file[n].batch] \/ (side[n] > 0 /\ side' = side))
      /\ task' = [task EXCEPT ![t].todo = @ \ {n}]
      /\ UNCHANGED <<manifest, file, log, job, committed, failures, crashes>>
  BY DEF BuildSidecar, counters
<1>2. task[t].state = "running" /\ (\A j \in Jobs : job[j].pc = "idle") /\ (\A u \in Tasks \ {t} : ~ Working(u))
  <2>1. Working(t)
    BY <1>1 DEF Working
  <2> QED BY <2>1, TaskAlone DEF ServeParts
<1>3. task \in [Tasks -> TaskType] /\ task[t] \in TaskType /\ side \in [Segments -> 0 .. MaxBatches]
  BY DEF TypeInv, NamesInv, Scalars
<1>4. Listed' = Listed
  BY <1>1 DEF Listed
<1>5. n \in Listed /\ task[t].todo \subseteq Listed /\ \A k \in Listed \ task[t].todo : Indexed(k)
  BY <1>1 DEF ServeParts, WorkerInv
<1>6. Indexed(n)' /\ \A k \in Segments \ {n} : side'[k] = side[k] /\ (Indexed(k)' <=> Indexed(k))
  <2>1. CASE side' = [side EXCEPT ![n] = file[n].batch]
    BY <1>1, <1>3, <2>1 DEF Indexed
  <2>2. CASE side[n] > 0 /\ side' = side
    <3>1. Indexed(n)
      BY <2>2 DEF ServeParts, SidecarsInv
    <3> QED BY <1>1, <2>2, <3>1 DEF Indexed
  <2> QED BY <1>1, <2>1, <2>2
<1>7. Listed \subseteq Segments
  BY ListedIs, ScalarCounts DEF TypeInv, NamesInv
<1>8. OneWorker' /\ WorkerInv'
  <2>1. PICK b, c : b = task[t] /\ c = [b EXCEPT !.todo = @ \ {n}]
    OBVIOUS
  <2>2. c.pc = "build" /\ c.state = "running" /\ c.todo = task[t].todo \ {n}
    BY <1>1, <1>2, <1>3, <2>1 DEF TaskType
  <2>3. task' = [task EXCEPT ![t] = c]
    BY <1>1, <2>1
  <2>4. c.todo \subseteq Listed' /\ \A k \in Listed' \ c.todo : Indexed(k)'
    BY <1>4, <1>5, <1>6, <1>7, <2>2
  <2> QED BY <1>1, <1>2, <1>3, <2>2, <2>3, <2>4, TaskWorks
<1>9. SidecarsInv'
  <2>1. \A k \in Listed' : HasFile(k)'
    BY <1>1, <1>4 DEF ServeParts, SidecarsInv, HasFile
  <2>2. ASSUME NEW k \in Segments, side'[k] > 0 PROVE k \in Listed' /\ Indexed(k)'
    <3>1. CASE k = n
      BY <1>4, <1>5, <1>6, <3>1
    <3>2. CASE k # n
      BY <1>4, <1>6, <2>2, <3>2 DEF ServeParts, SidecarsInv
    <3> QED BY <3>1, <3>2
  <2> QED BY <2>1, <2>2 DEF SidecarsInv
<1>10. CommittedKept'
  BY <1>1, <1>4 DEF ServeParts, CommittedKept
<1>11. ReadyIsIndexed'
  BY <1>1 DEF ReadyIsIndexed
<1>12. RangesInv'
  <2>1. SUFFICES ASSUME failures = 0, crashes = 0
                 PROVE  /\ \A k \in Listed : InRange(manifest, k)
                        /\ \A i \in DOMAIN log : log[i].seg \in Listed
                        /\ \A u \in Tasks : task'[u].pc \in {"scan", "build", "ranges", "save"} => log = <<>>
                        /\ \A u \in Tasks : task'[u].pc # "save"
    BY <1>1, <1>4 DEF RangesInv, InRange
  <2>2. \A k \in Listed : InRange(manifest, k)
    BY <2>1 DEF ServeParts, RangesInv
  <2>3. \A i \in DOMAIN log : log[i].seg \in Listed
    BY <1>2, <2>1, LogListed DEF ServeParts
  <2>4. log = <<>>
    BY <1>1, <2>1 DEF ServeParts, RangesInv
  <2>5. \A u \in Tasks : task'[u].pc # "save"
    <3>1. \A u \in Tasks \ {t} : task'[u] = task[u]
      BY <1>1, <1>3
    <3>2. task'[t].pc = "build"
      BY <1>1, <1>3 DEF TaskType
    <3> QED BY <1>2, <3>1, <3>2 DEF Working
  <2> QED BY <2>2, <2>3, <2>4, <2>5
<1> QED BY <1>8, <1>9, <1>10, <1>11, <1>12 DEF ServeParts

LEMMA ServeSaveRanges ==
  ASSUME TypeInv, ServeParts, NEW t \in Tasks, SaveRanges(t)
  PROVE  ServeParts'
<1>1. /\ task[t].pc = "save" /\ manifest' = task[t].read
      /\ task' = [task EXCEPT ![t].pc = "ready", ![t].read = NoTask.read]
      /\ UNCHANGED <<file, side, log, status, job, committed, failures, crashes>>
  BY DEF SaveRanges, counters
<1>2. task[t].state = "running" /\ (\A j \in Jobs : job[j].pc = "idle") /\ (\A u \in Tasks \ {t} : ~ Working(u))
  <2>1. Working(t)
    BY <1>1 DEF Working
  <2> QED BY <2>1, TaskAlone DEF ServeParts
<1>3. task \in [Tasks -> TaskType] /\ task[t] \in TaskType
  BY DEF TypeInv, NamesInv
<1>4. Listed' = Listed
  BY <1>1 DEF ServeParts, WorkerInv, Listed
<1>5. \A n : (Indexed(n)' <=> Indexed(n)) /\ (HasFile(n)' <=> HasFile(n))
  BY <1>1 DEF Indexed, HasFile
<1>6. \A n \in Listed' : Indexed(n)'
  BY <1>1, <1>4, <1>5 DEF ServeParts, WorkerInv
<1>7. PICK b, e, c : b = task[t] /\ e = NoTask.read /\ c = [b EXCEPT !.pc = "ready", !.read = e]
  OBVIOUS
<1>8. c.pc = "ready" /\ c.state = "running" /\ task' = [task EXCEPT ![t] = c]
  BY <1>1, <1>2, <1>3, <1>7 DEF TaskType
<1>9. OneWorker' /\ WorkerInv'
  BY <1>1, <1>2, <1>3, <1>6, <1>8, TaskWorks
<1>10. SidecarsInv'
  BY <1>1, <1>4, <1>5 DEF ServeParts, SidecarsInv
<1>11. CommittedKept'
  BY <1>1, <1>4 DEF ServeParts, CommittedKept
<1>12. ReadyIsIndexed'
  BY <1>6 DEF ReadyIsIndexed, Indexed
<1>13. RangesInv'
  <2>1. SUFFICES ASSUME failures = 0, crashes = 0
                 PROVE  /\ \A k \in Listed : InRange(task[t].read, k)
                        /\ \A i \in DOMAIN log : log[i].seg \in Listed
                        /\ \A u \in Tasks : task'[u].pc \notin {"scan", "build", "ranges", "save"}
    BY <1>1, <1>4 DEF RangesInv, InRange
  <2>2. \A k \in Listed : InRange(task[t].read, k)
    BY <1>1, <2>1 DEF ServeParts, RangesInv
  <2>3. \A i \in DOMAIN log : log[i].seg \in Listed
    BY <1>2, <2>1, LogListed DEF ServeParts
  <2>4. \A u \in Tasks : task'[u].pc \notin {"scan", "build", "ranges", "save"}
    BY <1>2, <1>3, <1>8 DEF Working
  <2> QED BY <2>2, <2>3, <2>4
<1> QED BY <1>9, <1>10, <1>11, <1>12, <1>13 DEF ServeParts

\* A task that has ended puts its handle in the server's place: no worker starts or stops.
LEMMA ServeEndTask ==
  ASSUME TypeInv, ServeParts, NEW t \in Tasks, EndTask(t)
  PROVE  ServeParts'
<1>1. /\ task[t].pc = "replace" /\ task' = [task EXCEPT ![t].pc = "idle"]
      /\ UNCHANGED <<manifest, file, side, log, status, job, committed, failures, crashes>>
  BY DEF EndTask, counters, tableVars
<1>2. task \in [Tasks -> TaskType] /\ task[t] \in TaskType
  BY DEF TypeInv, NamesInv
<1>3. task'[t].pc = "idle" /\ \A u \in Tasks \ {t} : task'[u] = task[u]
  BY <1>1, <1>2 DEF TaskType
<1>4. Listed' = Listed /\ SidecarsInv' /\ CommittedKept' /\ \A n : Indexed(n)' <=> Indexed(n)
  BY <1>1, TableSame DEF ServeParts
<1>5. OneWorker'
  <2>1. \A u \in Tasks : Working(u)' => Working(u) /\ task'[u] = task[u]
    BY <1>3 DEF Working
  <2>2. \A j \in Jobs : job[j].pc # "idle" =>
          job[j].state = "running" /\ (\A k \in Jobs \ {j} : job[k].pc = "idle") /\ \A u \in Tasks : ~ Working(u)'
    BY <2>1 DEF ServeParts, OneWorker
  <2>3. \A u \in Tasks : Working(u)' => task'[u].state = "running" /\ \A v \in Tasks \ {u} : ~ Working(v)'
    BY <2>1 DEF ServeParts, OneWorker
  <2> QED BY <1>1, <2>2, <2>3 DEF OneWorker
<1>6. WorkerInv'
  <2>1. \A j \in Jobs :
          /\ job[j].pc \in {"load", "log", "save"} => status' = "none"
          /\ job[j].pc \in {"log", "save"} => job[j].read = manifest' /\ file'[job[j].seg].id = job[j].next
    BY <1>1 DEF ServeParts, WorkerInv
  <2>2. \A u \in Tasks :
          /\ task'[u].pc = "build" =>
               task'[u].todo \subseteq Listed' /\ \A n \in Listed' \ task'[u].todo : Indexed(n)'
          /\ task'[u].pc \in {"ranges", "save", "ready"} => \A n \in Listed' : Indexed(n)'
          /\ task'[u].pc = "save" => task'[u].read.segs = manifest'.segs
    BY <1>1, <1>3, <1>4 DEF ServeParts, WorkerInv
  <2> QED BY <1>1, <2>1, <2>2 DEF WorkerInv
<1>7. ReadyIsIndexed'
  BY <1>1, <1>4 DEF ServeParts, ReadyIsIndexed
<1>8. RangesInv'
  <2>1. \A m : \A n : InRange(m, n) <=> (n \in DOMAIN m.range /\ m.range[n] = file'[n].id)
    BY <1>1 DEF InRange
  <2>2. ASSUME failures = 0, crashes = 0
        PROVE  /\ \A n \in Listed : InRange(manifest, n)
               /\ \A i \in DOMAIN log : log[i].seg \in Listed \/ \E j \in Jobs : job[j].pc = "save" /\ job[j].seg = log[i].seg
               /\ \A u \in Tasks : task'[u].pc \in {"scan", "build", "ranges", "save"} => log = <<>>
               /\ \A u \in Tasks : task'[u].pc = "save" => \A n \in Listed : InRange(task'[u].read, n)
    BY <1>3, <2>2 DEF ServeParts, RangesInv
  <2> QED BY <1>1, <1>4, <2>1, <2>2 DEF RangesInv, InRange
<1> QED BY <1>4, <1>5, <1>6, <1>7, <1>8 DEF ServeParts

LEMMA ServeCrash ==
  ASSUME TypeInv, ServeParts, Crash
  PROVE  ServeParts'
<1>1. /\ job' = [j \in Jobs |-> NoJob] /\ task' = [t \in Tasks |-> NoTask] /\ crashes' = crashes + 1
      /\ UNCHANGED <<manifest, file, side, status, committed>>
  BY DEF Crash, tableVars
<1>2. (\A j \in Jobs : job'[j].pc = "idle") /\ (\A t \in Tasks : task'[t].pc = "idle")
  BY <1>1 DEF NoJob, NoTask
<1>3. Listed' = Listed /\ SidecarsInv' /\ CommittedKept' /\ \A n : Indexed(n)' <=> Indexed(n)
  BY <1>1, TableSame DEF ServeParts
<1>4. OneWorker' /\ WorkerInv'
  BY <1>2 DEF OneWorker, WorkerInv, Working
<1>5. ReadyIsIndexed'
  BY <1>1, <1>3 DEF ServeParts, ReadyIsIndexed
<1>6. crashes' # 0
  BY <1>1 DEF TypeInv, Counted
<1>7. RangesInv'
  BY <1>6 DEF RangesInv
<1> QED BY <1>3, <1>4, <1>5, <1>7 DEF ServeParts

LEMMA ServeStart == Init => ServeInv
<1> SUFFICES ASSUME Init PROVE ServeParts
  BY DEF ServeInv, ServeParts
<1>1. (\A j \in Jobs : job[j].pc = "idle") /\ (\A t \in Tasks : task[t].pc = "idle")
  BY DEF Init, NoJob, NoTask
<1>2. Listed = {} /\ log = <<>> /\ status = "none" /\ committed = {} /\ \A n \in Segments : side[n] = 0
  BY DEF Init, Listed
<1>3. OneWorker /\ WorkerInv
  BY <1>1 DEF OneWorker, WorkerInv, Working
<1>4. SidecarsInv /\ CommittedKept /\ ReadyIsIndexed
  BY <1>2 DEF SidecarsInv, CommittedKept, ReadyIsIndexed
<1>5. RangesInv
  BY <1>1, <1>2 DEF RangesInv
<1> QED BY <1>3, <1>4, <1>5 DEF ServeParts

LEMMA ServeStep == ClientWaits = TRUE /\ TypeInv /\ ServeInv /\ [Next]_vars => ServeInv'
<1> SUFFICES ASSUME ClientWaits = TRUE, TypeInv, ServeInv, [Next]_vars, cancels' = 0 PROVE ServeParts'
  BY DEF ServeInv, ServeParts
<1>1. ASSUME cancels' = cancels PROVE ServeParts
  BY <1>1 DEF ServeInv, ServeParts
<1>2. ASSUME NEW j \in Jobs, BeginJob(j, "upload") \/ BeginJob(j, "hub") \/ StartJob(j) \/ EndJob(j) \/ FailJob(j)
      PROVE  ServeParts'
  <2>1. cancels' = cancels
    BY <1>2 DEF counters, BeginJob, StartJob, EndJob, FailJob
  <2> QED BY <1>1, <1>2, <2>1, ServeJobStart
<1>3. ASSUME NEW j \in Jobs, WriteSegment(j) PROVE ServeParts'
  <2>1. cancels' = cancels
    BY <1>3 DEF counters, WriteSegment
  <2> QED BY <1>1, <1>3, <2>1, ServeWriteSegment
<1>4. ASSUME NEW j \in Jobs, AppendLog(j) PROVE ServeParts'
  <2>1. cancels' = cancels
    BY <1>4 DEF counters, AppendLog
  <2> QED BY <1>1, <1>4, <2>1, ServeAppendLog
<1>5. ASSUME NEW j \in Jobs, SaveManifest(j) PROVE ServeParts'
  <2>1. cancels' = cancels
    BY <1>5 DEF counters, SaveManifest
  <2> QED BY <1>1, <1>5, <2>1, ServeSaveManifest
<1>6. ASSUME NEW j \in Jobs, CancelJob(j) PROVE FALSE
  BY <1>6 DEF CancelJob, TypeInv, Counted
<1>7. ASSUME NEW t \in Tasks,
             \/ BeginTask(t) \/ MarkBuilding(t) \/ Checkpoint(t) \/ Scan(t) \/ SidecarsDone(t)
             \/ ReadRanges(t) \/ MarkReady(t) \/ FailTask(t)
      PROVE  ServeParts'
  <2>1. cancels' = cancels
    BY <1>7 DEF counters, BeginTask, MarkBuilding, Checkpoint, Scan, SidecarsDone, ReadRanges, MarkReady, FailTask
  <2> QED BY <1>1, <1>7, <2>1, ServeTaskMarks
<1>8. ASSUME NEW t \in Tasks, NEW n \in Segments, BuildSidecar(t, n) PROVE ServeParts'
  <2>1. cancels' = cancels
    BY <1>8 DEF counters, BuildSidecar
  <2> QED BY <1>1, <1>8, <2>1, ServeBuildSidecar
<1>9. ASSUME NEW t \in Tasks, SaveRanges(t) PROVE ServeParts'
  <2>1. cancels' = cancels
    BY <1>9 DEF counters, SaveRanges
  <2> QED BY <1>1, <1>9, <2>1, ServeSaveRanges
<1>10. ASSUME NEW t \in Tasks, EndTask(t) PROVE ServeParts'
  <2>1. cancels' = cancels
    BY <1>10 DEF counters, EndTask
  <2> QED BY <1>1, <1>10, <2>1, ServeEndTask
<1>11. CASE Crash
  <2>1. cancels' = cancels
    BY <1>11 DEF Crash
  <2> QED BY <1>1, <1>11, <2>1, ServeCrash
<1>12. CASE UNCHANGED vars
  <2>1. cancels' = cancels
    BY <1>12 DEF vars, counters
  <2>2. ServeParts
    BY <1>1, <2>1
  <2> QED BY <1>12, <2>2 DEF vars, tableVars, counters, ServeParts, OneWorker, Working, WorkerInv, SidecarsInv,
       RangesInv, InRange, CommittedKept, ReadyIsIndexed, Listed, HasFile, Indexed
<1> QED BY <1>2, <1>3, <1>4, <1>5, <1>6, <1>7, <1>8, <1>9, <1>10, <1>11, <1>12 DEF Next, JobStep, TaskStep

\* For a client that waits and cancels nothing, a batch that was taken is in the file of a
\* listed segment, whatever fails or crashes: no two writers give the same name, and no
\* manifest is saved over one that lists more.
THEOREM TakenIsKept ==
  ASSUME ClientWaits = TRUE
  PROVE  Spec => [](cancels = 0 => CommittedKept)
<1>1. TypeInv /\ ServeInv /\ [Next]_vars => ServeInv'
  BY ServeStep
<1>2. ServeInv => (cancels = 0 => CommittedKept)
  BY DEF ServeInv
<1> QED BY <1>1, <1>2, TypeInvStart, TypeInvStep, ServeStart, PTL DEF Spec

\* For such a client, a table marked ready (finalize_bulk_table_indexes) has for each listed
\* segment the sidecar of the batch that is in its file.
THEOREM ReadyHasSidecars ==
  ASSUME ClientWaits = TRUE
  PROVE  Spec => [](cancels = 0 => ReadyIsIndexed)
<1>1. TypeInv /\ ServeInv /\ [Next]_vars => ServeInv'
  BY ServeStep
<1>2. ServeInv => (cancels = 0 => ReadyIsIndexed)
  BY DEF ServeInv
<1> QED BY <1>1, <1>2, TypeInvStart, TypeInvStep, ServeStart, PTL DEF Spec

\* For such a client, and as long as nothing failed or crashed, fetch_documents_by_ids finds
\* every batch that was taken: the range recorded for its segment is that of the file,
\* whether it was pushed by the job or rebuilt by a task.
THEOREM ReadyIsFetched ==
  ASSUME ClientWaits = TRUE
  PROVE  Spec => [](cancels = 0 => ReadyIsFetchable)
<1>1. TypeInv /\ ServeInv /\ [Next]_vars => ServeInv'
  BY ServeStep
<1>2. TypeInv /\ ServeInv => (cancels = 0 => ReadyIsFetchable)
  <2> SUFFICES ASSUME TypeInv, ServeInv, cancels = 0, failures + crashes = 0, NEW b \in committed
               PROVE  \E n \in DOMAIN manifest.range : file[n].batch = b /\ manifest.range[n] = file[n].id
    BY DEF ReadyIsFetchable
  <2>1. failures = 0 /\ crashes = 0
    BY DEF TypeInv, Counted
  <2>2. \A n \in Listed : n \in DOMAIN manifest.range /\ manifest.range[n] = file[n].id
    BY <2>1 DEF ServeInv, RangesInv, InRange
  <2>3. PICK n \in Listed : file[n].batch = b
    BY DEF ServeInv, CommittedKept
  <2> QED BY <2>2, <2>3
<1> QED BY <1>1, <1>2, TypeInvStart, TypeInvStep, ServeStart, PTL DEF Spec

\* Where nothing may be cancelled, nothing is.
LEMMA NoneCancelled ==
  ASSUME MaxCancels = 0
  PROVE  Spec => [](cancels = 0)
<1>1. Init => cancels = 0
  BY DEF Init
<1>2. cancels = 0 /\ [Next]_vars => (cancels = 0)'
  <2> SUFFICES ASSUME cancels = 0, [Next]_vars PROVE cancels' = 0
    OBVIOUS
  <2>1. ASSUME NEW j \in Jobs, NEW kind, BeginJob(j, kind) PROVE cancels' = 0
    BY <2>1 DEF BeginJob, counters
  <2>2. ASSUME NEW j \in Jobs, JobStep(j) PROVE cancels' = 0
    BY <2>2 DEF JobStep, StartJob, WriteSegment, AppendLog, SaveManifest, EndJob, counters
  <2>3. ASSUME NEW j \in Jobs, FailJob(j) PROVE cancels' = 0
    BY <2>3 DEF FailJob
  <2>4. ASSUME NEW j \in Jobs, CancelJob(j) PROVE cancels' = 0
    BY <2>4 DEF CancelJob
  <2>5. ASSUME NEW t \in Tasks, BeginTask(t) PROVE cancels' = 0
    BY <2>5 DEF BeginTask, counters
  <2>6. ASSUME NEW t \in Tasks, TaskStep(t) PROVE cancels' = 0
    BY <2>6 DEF TaskStep, MarkBuilding, Checkpoint, Scan, SidecarsDone, BuildSidecar, ReadRanges, SaveRanges, MarkReady,
      EndTask, counters
  <2>7. ASSUME NEW t \in Tasks, FailTask(t) PROVE cancels' = 0
    BY <2>7 DEF FailTask
  <2>8. CASE Crash
    BY <2>8 DEF Crash
  <2>9. CASE UNCHANGED vars
    BY <2>9 DEF vars, counters
  <2> QED BY <2>1, <2>2, <2>3, <2>4, <2>5, <2>6, <2>7, <2>8, <2>9 DEF Next
<1> QED BY <1>1, <1>2, PTL DEF Spec
=============================================================================
