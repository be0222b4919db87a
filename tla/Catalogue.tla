------------------------------- MODULE Catalogue -------------------------------
(***************************************************************************)
(* Tables and views by name, for the handles of one database directory.    *)
(* (toradb-sdk database.rs, toradb-sql binder.rs and catalog_store.rs,     *)
(* toradb-engine materialized.rs, the tables' types in persist.rs)         *)
(*                                                                         *)
(* A handle keeps its own catalogue and its own rows.  It writes the whole *)
(* catalogue at every CREATE TABLE, and a view in place: the file is cut   *)
(* to nothing and then written, and nothing keeps two handles apart.  A    *)
(* save whose view is dropped under it is left out.                        *)
(***************************************************************************)
EXTENDS Integers, FiniteSets, FiniteSetsExt

CONSTANTS
  Handles,
  Names,          \* of tables and of views
  Types,          \* of the one column a table declares; Undeclared is none of them
  Undeclared,
  Wanted,         \* ids of the rows that the WHERE of a view lets through
  MaxRows,        \* bound: ids of a table
  MaxStatements   \* bound: statements

VARIABLES
  tables,      \* name -> the table's directory, or NoTable
  catalog,     \* catalog.json: name -> the index mode
  views,       \* name -> the view's file
  binder,      \* handle -> its catalogue
  memory,      \* handle -> name -> ids of the rows in memory
  job,         \* handle -> what it is doing with a view
  answer,      \* what the last query of a view gave
  \* history, which no step reads
  searched,    \* what searches for a view of a name found
  spoiled,     \* names whose save was cut by a crash or met another
  statements

vars == <<tables, catalog, views, binder, memory, job, answer, searched, spoiled, statements>>

NoTable == [type |-> Undeclared, rows |-> {0}]
NoView == [state |-> "none", of |-> Undeclared, where |-> FALSE, rows |-> {}]
Empty == [NoView EXCEPT !.state = "empty"]
Broken == [NoView EXCEPT !.state = "broken"]
View(of, where, rows) == [state |-> "saved", of |-> of, where |-> where, rows |-> rows]

Idle == [op |-> "idle", name |-> Undeclared, view |-> NoView]
Modes == {"TEXT", "HYBRID"}

Says(h) == statements < MaxStatements /\ job[h] = Idle /\ statements' = statements + 1

\* ensure_table_on_disk
Ensured(n) == IF tables[n] = NoTable THEN [type |-> Undeclared, rows |-> {}] ELSE tables[n]

\* is_materialized_view: there is a file, whatever is in it
IsView(n) == views[n] # NoView

RowsOf(n) == tables[n].rows \ {0}

Opened(h) ==
  /\ binder' = [binder EXCEPT ![h] = catalog]
  /\ memory' = [memory EXCEPT ![h] = [n \in Names |-> RowsOf(n)]]

---------------------------------------------------------------------------
(* Tables *)

\* The binder, the directory, the types and the catalogue, one after the other; a
\* catalogue that cannot be written is no error.
CreateTable(h, n, mode, type) ==
  /\ Says(h)
  /\ binder' = [binder EXCEPT ![h][n] = mode]
  /\ tables' = [tables EXCEPT ![n] = IF type = Undeclared THEN Ensured(n) ELSE [Ensured(n) EXCEPT !.type = type]]
  /\ \/ catalog' = binder'[h]
     \/ UNCHANGED catalog
  /\ UNCHANGED <<views, memory, job, answer, searched, spoiled>>

\* The process ends after the directory is made.
CreateTableCrash(h, n) ==
  /\ Says(h)
  /\ tables' = [tables EXCEPT ![n] = Ensured(n)]
  /\ binder' = [binder EXCEPT ![h] = catalog]
  /\ memory' = [memory EXCEPT ![h] = [m \in Names |-> tables'[m].rows \ {0}]]
  /\ UNCHANGED <<catalog, views, job, answer, searched, spoiled>>

\* A row takes the next id of the handle's own copy and is flushed.
Insert(h, n) ==
  LET id == Max(memory[h][n] \cup {0}) + 1
  IN /\ Says(h)
     /\ id <= MaxRows
     /\ memory' = [memory EXCEPT ![h][n] = @ \cup {id}]
     /\ tables' = [tables EXCEPT ![n] = [Ensured(n) EXCEPT !.rows = @ \cup {id}]]
     /\ UNCHANGED <<catalog, views, binder, job, answer, searched, spoiled>>

\* ALTER TABLE makes the directory of a name it does not know.
AlterType(h, n, type) ==
  /\ Says(h)
  /\ tables' = [tables EXCEPT ![n] = [Ensured(n) EXCEPT !.type = type]]
  /\ UNCHANGED <<catalog, views, binder, memory, job, answer, searched, spoiled>>

\* The rows in memory go; of the files the view's, or the table's if there is no
\* view.  The catalogues keep the name.
DropTable(h, n) ==
  /\ Says(h)
  /\ \A other \in Handles : job[other].name # n
  /\ memory' = [memory EXCEPT ![h][n] = {}]
  /\ IF IsView(n)
     THEN views' = [views EXCEPT ![n] = NoView] /\ UNCHANGED tables
     ELSE tables' = [tables EXCEPT ![n] = NoTable] /\ UNCHANGED views
  /\ spoiled' = spoiled \ {n}
  /\ UNCHANGED <<catalog, binder, job, answer, searched>>

---------------------------------------------------------------------------
(* Views *)

Found(h, of, where) == IF where THEN memory[h][of] \cap Wanted ELSE memory[h][of]

Search(h, n, of, where) ==
  /\ Says(h)
  /\ job' = [job EXCEPT ![h] = [op |-> "found", name |-> n, view |-> View(of, where, Found(h, of, where))]]
  /\ searched' = searched \cup {[name |-> n, view |-> View(of, where, Found(h, of, where))]}
  /\ UNCHANGED <<tables, catalog, views, binder, memory, answer, spoiled>>

CreateView(h, n, of, where) == Search(h, n, of, where)

\* The query that was kept has no WHERE.
RefreshView(h, n) == views[n].state = "saved" /\ Search(h, n, views[n].of, FALSE)

\* save_view: the file is opened and cut,
Truncate(h) ==
  /\ job[h].op = "found"
  /\ job' = [job EXCEPT ![h].op = "cut"]
  /\ views' = [views EXCEPT ![job[h].name] = Empty]
  /\ spoiled' = IF \E other \in Handles \ {h} : job[other].op = "cut" /\ job[other].name = job[h].name
                THEN spoiled \cup {job[h].name}
                ELSE spoiled \ {job[h].name}
  /\ UNCHANGED <<tables, catalog, binder, memory, answer, searched, statements>>

\* (mutant) a save adds to the ids that are there
WriteMore(h) ==
  /\ job[h].op = "cut"
  /\ views' = [views EXCEPT ![job[h].name] = [job[h].view EXCEPT !.rows = @ \cup views[job[h].name].rows]]
  /\ job' = [job EXCEPT ![h] = Idle]
  /\ UNCHANGED <<tables, catalog, binder, memory, answer, searched, spoiled, statements>>

\* and written from its start.  Over what another handle has written meanwhile the
\* longer of the two ends the file.
Write(h) ==
  /\ job[h].op = "cut"
  /\ \E file \in {job[h].view} \cup IF views[job[h].name] = Empty THEN {} ELSE {Broken} :
       views' = [views EXCEPT ![job[h].name] = file]
  /\ job' = [job EXCEPT ![h] = Idle]
  /\ UNCHANGED <<tables, catalog, binder, memory, answer, searched, spoiled, statements>>

\* A file that does not parse is dropped like any other.
DropView(h, n) ==
  /\ Says(h)
  /\ IsView(n)
  /\ \A other \in Handles : job[other].name # n
  /\ views' = [views EXCEPT ![n] = NoView]
  /\ spoiled' = spoiled \ {n}
  /\ UNCHANGED <<tables, catalog, binder, memory, job, answer, searched>>

\* query_materialized_view reads the file for the ids, and again for the table.
QueryIds(h, n) ==
  /\ Says(h)
  /\ views[n].state = "saved"
  /\ job' = [job EXCEPT ![h] = [op |-> "query", name |-> n, view |-> views[n]]]
  /\ UNCHANGED <<tables, catalog, views, binder, memory, answer, searched, spoiled>>

QuerySource(h) ==
  /\ job[h].op = "query"
  /\ answer' = IF views[job[h].name].state = "saved"
               THEN [rows |-> job[h].view.rows, of |-> job[h].view.of, source |-> views[job[h].name].of]
               ELSE answer
  /\ job' = [job EXCEPT ![h] = Idle]
  /\ UNCHANGED <<tables, catalog, views, binder, memory, searched, spoiled, statements>>

---------------------------------------------------------------------------

\* A handle is opened again, after a crash of its process too.
Reopen(h) ==
  /\ statements < MaxStatements /\ statements' = statements + 1
  /\ Opened(h)
  /\ job' = [job EXCEPT ![h] = Idle]
  /\ spoiled' = IF job[h].op = "cut" THEN spoiled \cup {job[h].name} ELSE spoiled
  /\ UNCHANGED <<tables, catalog, views, answer, searched>>

Init ==
  /\ tables = [n \in Names |-> NoTable]
  /\ catalog = [n \in Names |-> "none"]
  /\ views = [n \in Names |-> NoView]
  /\ binder = [h \in Handles |-> catalog]
  /\ memory = [h \in Handles |-> [n \in Names |-> {}]]
  /\ job = [h \in Handles |-> Idle]
  /\ answer = [rows |-> {}, of |-> Undeclared, source |-> Undeclared]
  /\ searched = {}
  /\ spoiled = {}
  /\ statements = 0

Next ==
  \E h \in Handles :
    \/ \E n \in Names :
         \/ \E mode \in Modes, type \in Types \cup {Undeclared} : CreateTable(h, n, mode, type)
         \/ CreateTableCrash(h, n)
         \/ Insert(h, n)
         \/ \E type \in Types : AlterType(h, n, type)
         \/ DropTable(h, n)
         \/ \E of \in Names, where \in BOOLEAN : CreateView(h, n, of, where)
         \/ RefreshView(h, n)
         \/ DropView(h, n)
         \/ QueryIds(h, n)
    \/ Truncate(h)
    \/ Write(h)
    \/ QuerySource(h)
    \/ Reopen(h)

Spec == Init /\ [][Next]_vars

---------------------------------------------------------------------------
(* Properties *)

Files == {NoView, Empty, Broken} \cup {View(of, where, rows) : of \in Names, where \in BOOLEAN, rows \in SUBSET (1 .. MaxRows)}

TypeOK ==
  /\ tables \in [Names -> [type : Types \cup {Undeclared}, rows : SUBSET (0 .. MaxRows)]]
  /\ catalog \in [Names -> Modes \cup {"none"}]
  /\ views \in [Names -> Files]
  /\ binder \in [Handles -> [Names -> Modes \cup {"none"}]]
  /\ memory \in [Handles -> [Names -> SUBSET (1 .. MaxRows)]]
  /\ job \in [Handles -> [op : {"idle", "found", "cut", "query"}, name : Names \cup {Undeclared}, view : Files]]

\* A view that can be read holds the ids of one search for it, whole, however the
\* saves of two handles and their crashes meet (materialized.rs:54).
ViewIsOneAnswer == \A n \in Names : views[n].state = "saved" => [name |-> n, view |-> views[n]] \in searched

\* A view cannot be read only while it is saved, or when a crash cut its save or
\* two saves of it met: no statement that fails leaves it so (materialized.rs:60).
BrokenHasCause ==
  \A n \in Names :
    views[n].state \in {"empty", "broken"} =>
      n \in spoiled \/ \E h \in Handles : job[h].op = "cut" /\ job[h].name = n

\* Claim that does not hold: "for materialized view refresh" (format.rs:3), a view
\* that is refreshed keeps its query.
RefreshKeepsQuery ==
  [][\A n \in Names, h \in Handles : RefreshView(h, n) => job'[h].view.where = views[n].where]_vars

\* Claim that does not hold: the columns of a view's rows are read from the table
\* that the rows are of (materialized.rs:192).
ProjectedFromSource == answer.of = answer.source

\* Claim that does not hold: a table that was created is in the catalogue of the
\* next handle: CREATE TABLE by a handle that does not know it removes it again
\* (catalog_store.rs:27), and a catalogue that cannot be written is no error.
CatalogueGrows == [][\A n \in Names : catalog[n] # "none" => catalog'[n] # "none"]_vars

\* Claim that does not hold: the table is hidden by a view of its name, not lost:
\* DROP TABLE drops the view and takes the rows from memory (dag.rs:362).
DropSparesHidden ==
  [][\A h \in Handles, n \in Names : DropTable(h, n) /\ IsView(n) => memory' = memory]_vars

=============================================================================
