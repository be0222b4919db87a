-------------------------------- MODULE MCServer --------------------------------
(***************************************************************************)
(* The parts of the server that share nothing, checked side by side: the   *)
(* lists of jobs, what is remembered of connections and users, downloads   *)
(* from the hub, full syncs, ingests by a client that waits for each job   *)
(* to end, the catalogue of a database directory, the retrieval of a text  *)
(* search and the caches.  Each is an instance of its module on a part of  *)
(* the states: part names it, and x1 to x17 stand for its variables.       *)
(***************************************************************************)
EXTENDS Integers, Sequences, FiniteSets

CONSTANTS
  Parts,                                                             \* the parts to check
  MaxJobs, MaxListed, MaxReports, Progress,                          \* of ServerJobs
  KeyNames, NoKey, Torn, Ttl, MaxTime, MaxRequests,                       \* of ServerStore
  Remote, Served, Requests, Dirs, MaxFiles, ParallelFailures, MaxRetries, Unset,   \* of HubTransfer
  Rows, BatchSize, MaxReplacements, MaxCancels, MaxCopies,           \* of PipelineSync
  Tasks, MaxBatches,                                                 \* of BulkIngest
  Handles, TableNames, Types, Undeclared, Selected, MaxRows, MaxStatements, \* of Catalogue
  MaxId, Terms, Tfs, Queries, Ks, MaxTerms, BlockSize, DeltaWidth, Workers, Scale, \* of TextSearch
  Paths, MaxVersions, Sizes, Capacity, Budget, Unknown,              \* of StorageCaches
  Jobs,                     \* slots for downloads, for syncs and for ingests
  MaxFailures, MaxCrashes   \* of PipelineSync and BulkIngest

VARIABLES part, x1, x2, x3, x4, x5, x6, x7, x8, x9, x10, x11, x12, x13, x14, x15, x16, x17

from8 == <<x8, x9, x10>>
from12 == <<x12, x13>>
from14 == <<x14, x15, x16, x17>>
slots == <<part, x1, x2, x3, x4, x5, x6, x7, from8, x11, from12, from14>>

Unused == "unused"
Unused8 == x8 = Unused /\ x9 = Unused
Unused10 == x10 = Unused /\ x11 = Unused
Unused12 == x12 = Unused /\ x13 = Unused
Unused14 == x14 = Unused /\ x15 = Unused /\ x16 = Unused /\ x17 = Unused

-----------------------------------------------------------------------------
(* The lists of jobs *)

Lists == INSTANCE ServerJobs WITH
  list <- x1, jobs <- x2, nextId <- x3, kind <- x4, pc <- x5, result <- x6, reports <- x7, cancels <- x8, showing <- x9

-----------------------------------------------------------------------------
(* Connections, pipelines, users and keys *)

Store == INSTANCE ServerStore WITH
  Keys <- KeyNames, None <- NoKey,
  up <- x1, mem <- x2, disk <- x3, clock <- x4, tokens <- x5, acked <- x6, asked <- x7

-----------------------------------------------------------------------------
(* Downloads from the hub *)

Hub == INSTANCE HubTransfer WITH
  pc <- x1, dir <- x2, files <- x3, format <- x4, at <- x5, tasks <- x6, local <- x7, gone <- x8, landing <- x9,
  lost <- x10, read <- x11

-----------------------------------------------------------------------------
(* A pipeline in full mode, without a cursor column *)

Sync == INSTANCE PipelineSync WITH
  Pipelines <- {1}, Full <- {1}, Cur <- [r \in Rows |-> 0], TextRank <- [v \in {0} |-> 0], CursorColumn <- FALSE,
  MayDelete <- TRUE,
  source <- x1, connected <- x2, stored <- x3, last <- x4, record <- x5, running <- x6, cancelled <- x7, job <- x8,
  table <- x9, session <- x10, unindexed <- x11, failures <- x12, crashes <- x13, replacements <- x14, cancels <- x15

-----------------------------------------------------------------------------
(* Ingests, one after the other, and index tasks *)

Ingest == INSTANCE BulkIngest WITH
  ClientWaits <- TRUE, HubJobs <- TRUE, MaxCancels <- 0,
  manifest <- x1, file <- x2, side <- x3, log <- x4, status <- x5, session <- x6, job <- x7, task <- x8,
  written <- x9, committed <- x10, failures <- x11, crashes <- x12, cancels <- x13

-----------------------------------------------------------------------------
(* The catalogue *)

Tables == INSTANCE Catalogue WITH
  Names <- TableNames, Wanted <- Selected,
  tables <- x1, catalog <- x2, views <- x3, binder <- x4, memory <- x5, job <- x6, answer <- x7, searched <- x8,
  spoiled <- x9, statements <- x10

-----------------------------------------------------------------------------
(* A text search *)

Text == INSTANCE TextSearch WITH
  kind <- x1, texts <- x2, tf <- x3, query <- x4, k <- x5, terms <- x6, spans <- x7, at <- x8, heap <- x9, found <- x10

-----------------------------------------------------------------------------
(* The caches *)

Caches == INSTANCE StorageCaches WITH
  kind <- x1, file <- x2, size <- x3, cache <- x4, recent <- x5, changed <- x6

-----------------------------------------------------------------------------
\* What the parts need of their constants.
ASSUME ServerAssumption ==
  /\ {MaxJobs, MaxListed, MaxRows} \subseteq Nat
  /\ Store!StoreConstants
  /\ Hub!HubConstants
  /\ Rows \subseteq Nat \ {0} /\ IsFiniteSet(Rows) /\ {BatchSize, MaxCopies} \subseteq Nat \ {0}
  /\ {MaxBatches, MaxFailures, MaxCrashes, MaxReplacements, MaxCancels} \subseteq Nat
  /\ Text!TextConstants
  /\ Caches!CacheConstants

-----------------------------------------------------------------------------
Init ==
  /\ part \in Parts
  /\ \/ part = "jobs" /\ Lists!Init /\ Unused10 /\ Unused12 /\ Unused14
     \/ part = "store" /\ Store!Init /\ Unused8 /\ Unused10 /\ Unused12 /\ Unused14
     \/ part = "hub" /\ Hub!Init /\ Unused12 /\ Unused14
     \/ part = "sync" /\ Sync!Init /\ x16 = Unused /\ x17 = Unused
     \/ part = "ingest" /\ Ingest!Init /\ Unused14
     \/ part = "catalogue" /\ Tables!Init /\ x11 = Unused /\ Unused12 /\ Unused14
     \/ part = "text" /\ Text!Init /\ x11 = Unused /\ Unused12 /\ Unused14
     \/ part = "caches" /\ Caches!Init /\ x7 = Unused /\ Unused8 /\ Unused10 /\ Unused12 /\ Unused14

Next ==
  /\ UNCHANGED part
  /\ \/ part = "jobs" /\ Lists!Next /\ UNCHANGED <<x10, x11, from12, from14>>
     \/ part = "store" /\ Store!Next /\ UNCHANGED <<from8, x11, from12, from14>>
     \/ part = "hub" /\ Hub!Next /\ UNCHANGED <<from12, from14>>
     \/ part = "sync" /\ Sync!Next /\ UNCHANGED <<x16, x17>>
     \/ part = "ingest" /\ Ingest!Next /\ UNCHANGED from14
     \/ part = "catalogue" /\ Tables!Next /\ UNCHANGED <<x11, from12, from14>>
     \/ part = "text" /\ Text!Next /\ UNCHANGED <<x11, from12, from14>>
     \/ part = "caches" /\ Caches!Next /\ UNCHANGED <<x7, from8, x11, from12, from14>>

\* The fairness of ServerJobs.
Fairness ==
  \A id \in Lists!JobIds :
    /\ WF_slots(part = "jobs" /\ Lists!Step(id) /\ UNCHANGED <<part, x10, x11, from12, from14>>)
    /\ WF_slots(part = "jobs" /\ Lists!ShowCancel(id) /\ UNCHANGED <<part, x10, x11, from12, from14>>)
    /\ WF_slots(part = "jobs" /\ Lists!Downloaded(id) /\ UNCHANGED <<part, x10, x11, from12, from14>>)
    /\ WF_slots(part = "jobs" /\ Lists!Work(id) /\ UNCHANGED <<part, x10, x11, from12, from14>>)

Spec == Init /\ [][Next]_slots /\ Fairness

-----------------------------------------------------------------------------
(* Properties: each module's, of its part *)

\* The type invariants.
TypesOK ==
  /\ part = "jobs" => Lists!TypeOK
  /\ part = "store" => Store!TypeOK
  /\ part = "hub" => Hub!TypeOK
  /\ part = "sync" => Sync!TypeOK
  /\ part = "ingest" => Ingest!TypeOK
  /\ part = "catalogue" => Tables!TypeOK
  /\ part = "text" => Text!TypeOK
  /\ part = "caches" => Caches!TypeOK

\* What a job is shown to have ended with has come of it (lib.rs:963).
ShownIsTrue == part = "jobs" => Lists!ShownIsTrue

\* A job that stays on the list is shown ended for good (lib.rs:2041).
JobsSettle ==
  \A id \in Lists!JobIds :
    (part = "jobs" /\ x5[id] # "none") ~> [](part = "jobs" /\ (Lists!Listed(id) => Lists!Shown(id).state \in Lists!Ended))

\* What a client was told is there survives the process (store.rs:101, auth.rs:121).
AnswersSurvive == part = "store" => Store!AnswersSurvive

\* What a download has fetched is the file of the hub (hf_transfer.rs:183).
FetchedIsWhole == part = "hub" => Hub!FetchedIsWhole

\* A full sync that is done has taken every row there was (pipeline.rs:55).
FullTakesAll == part = "sync" => Sync!DoneTakesAll

\* Rows whose manifest was saved are kept, and a table that is ready is indexed
\* and can be read (persist.rs:1021, lib.rs:2105).
ReadyTableServes ==
  part = "ingest" => Ingest!CommittedKept /\ Ingest!ReadyIsIndexed /\ Ingest!ReadyIsFetchable

\* A view is the answer of one search, or a crash or another save has spoiled it
\* (materialized.rs:54, 60).
ViewIsOneAnswer == part = "catalogue" => Tables!ViewIsOneAnswer /\ Tables!BrokenHasCause

\* The result of a text search is the one of a full scan, and no document is given
\* up on the way before k better ones are found (bm25_tbm3.rs:936).
SearchExact == part = "text" => Text!ScanExact /\ Text!PassedAreBeaten

\* Caches stay within their bounds, and evict in the order of use (cache.rs:123).
CachesBounded == part = "caches" => Caches!CachesBounded

-----------------------------------------------------------------------------
(* Claims that do not hold: each is to be checked in place of the invariants, *)
(* with Parts the part it is about.                                          *)

\* jobs: what is shown of a job stays, and a job that runs is on the list
\* (lib.rs:2041, 2267, 948).
CancelledStays == Lists!CancelledStays
DoneStays == Lists!DoneStays
RunningListed == Lists!RunningListed

\* store: a session is needed once there is a user, pipelines have a connection,
\* what was refused is not there, and ids name one connection (auth.rs:121,
\* store.rs:116, 101, 71).
BootstrapEnables == Store!BootstrapEnables
PipelinesConnected == Store!PipelinesConnected
RefusedIsAbsent == Store!RefusedIsAbsent
IdsNotReused == Store!IdsNotReused

\* hub: an ingest reads what was picked, and a failed download leaves nothing
\* (ingest_hf.rs:318, hf_transfer.rs:234, 74).
ReadsAllPicked == Hub!ReadsAllPicked
FailedLeavesNothing == Hub!FailedLeavesNothing

\* catalogue: a refresh keeps the query, a view shows columns of its own rows, no
\* table leaves the catalogue, and dropping a view spares the table it hides
\* (format.rs:3, materialized.rs:192, catalog_store.rs:27, dag.rs:362).
RefreshKeepsQuery == Tables!RefreshKeepsQuery
ProjectedFromSource == Tables!ProjectedFromSource
CatalogueGrows == Tables!CatalogueGrows
DropSparesHidden == Tables!DropSparesHidden

\* text: a block that spans more ids than its first delta can hold is read back.
ListsReadBack == SearchExact

\* caches: the bytes that are counted are those that are held, and what is held is
\* what is on file (cache.rs:245, 298, persist.rs:1880).
Bm25Bounded == Caches!Bm25Bounded
Bm25Exact == Caches!Bm25Exact
CacheFresh == Caches!CacheFresh

-----------------------------------------------------------------------------
(* The instance that server.cfg checks: files of up to three ranges, two of one *)
(* name in different directories; ids 0 to 3, and terms in all, some or few   *)
(* of them                                                                    *)

File(name, kind, nested, split, config, chunks) ==
  [name |-> name, kind |-> kind, nested |-> nested, split |-> split, config |-> config, chunks |-> chunks]
Dataset ==
  <<File("a", "parquet", TRUE, "train", "km", 2), File("a", "parquet", TRUE, "test", "km", 3),
    File("b", "parquet", FALSE, "unset", "en", 1), File("c", "jsonl", TRUE, "train", "fr", 2),
    File("d", "jsonl", TRUE, "train", "fr", 1)>>
Asked ==
  {[split |-> split, config |-> config, few |-> few] :
     split \in {"unset", "train"}, config \in {"unset", "km", "fr", "xx"}, few \in BOOLEAN}
ServedFiles == <<1, 3>>

Texts == {<<t, [d \in 0 .. 3 |-> IF d \in set THEN 2 ELSE 0], [d \in 0 .. 3 |-> 1]>> :
            t \in [0 .. 3 -> {0, 1, 2, 4}], set \in {{}, {0}, {3}, {0, 3}, {1, 2}, 0 .. 3}}
TextQueries == {[t \in 1 .. 3 |-> 1], [t \in 1 .. 3 |-> IF t = 1 THEN 2 ELSE IF t = 2 THEN 1 ELSE 0]}
=============================================================================
