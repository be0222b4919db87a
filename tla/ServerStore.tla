------------------------------ MODULE ServerStore ------------------------------
(***************************************************************************)
(* What the server remembers of connections, pipelines, users and keys.    *)
(* (toradb-pipe store.rs, secret.rs and auth.rs, toradb-api pipe_api.rs)   *)
(*                                                                         *)
(* Each request changes the store in memory under its lock and writes the  *)
(* file to a temporary name that it renames: the file is the old one or    *)
(* the new one.  A write may fail, and the process may die before or after *)
(* it.  Connections are encrypted with the key of a key file, and sessions *)
(* are signed with a secret of auth.json.  Digests, nonces and the         *)
(* comparison in constant time are left out.                               *)
(***************************************************************************)
EXTENDS Integers, FiniteSets

CONSTANTS
  Keys,       \* keys and secrets that are drawn at random
  None,
  Torn,       \* a key file that was not written to its end
  Ttl,        \* 7 days
  MaxTime,    \* bound: the clock
  MaxRequests \* bound: requests that write, and sessions

VARIABLES
  up,        \* "down", "store" (the pipe store is open) or "up"
  mem,       \* what the process holds
  disk,      \* the files of .torapipe
  clock,     \* seconds
  tokens,    \* sessions given to clients
  acked,     \* what a client was told is there, and was not deleted since
  asked      \* requests that wrote, and sessions

vars == <<up, mem, disk, clock, tokens, acked, asked>>

\* seq counts the ids given; checked are the connections that create_pipeline has
\* found and will refer to; enabled says that requests need a session or a key.
Blank == [conns |-> {}, pipes |-> {}, users |-> {}, apikeys |-> {}, key |-> None, secret |-> None,
          seq |-> 0, checked |-> {}, enabled |-> FALSE]

\* connections.json remembers the key it was encrypted with.
NoFiles == [keyfile |-> None, conns |-> {}, connsKey |-> None, pipes |-> {}, users |-> {}, apikeys |-> {}, secret |-> None]

Ids == (0 .. MaxTime) \X (1 .. MaxRequests)
NothingAcked == [conns |-> {}, pipes |-> {}, users |-> {}, apikeys |-> {}]

---------------------------------------------------------------------------
(* Start and end of the process *)

\* Random values do not repeat.
Fresh == Keys \ ({disk.keyfile, disk.connsKey, disk.secret, mem.key, mem.secret} \cup disk.apikeys \cup mem.apikeys
                  \cup acked.apikeys \cup {token.secret : token \in tokens})

\* The key file's key, or a new one when the file is missing or of another length.
ReadKey == IF disk.keyfile \in Keys THEN {disk.keyfile} ELSE Fresh

\* The pipe store opens first: it fails when the connections cannot be decrypted.
OpenStore ==
  /\ up = "down"
  /\ \E key \in ReadKey :
       \/ /\ disk' = [disk EXCEPT !.keyfile = key]
          /\ disk.connsKey \in {None, key}
          /\ up' = "store"
          /\ mem' = [Blank EXCEPT !.key = key, !.conns = disk.conns, !.pipes = disk.pipes]
       \/ /\ disk' = [disk EXCEPT !.keyfile = key]
          /\ disk.connsKey \notin {None, key}
          /\ UNCHANGED <<up, mem>>
       \/ /\ key # disk.keyfile
          /\ disk' = [disk EXCEPT !.keyfile = Torn]
          /\ UNCHANGED <<up, mem>>
  /\ UNCHANGED <<clock, tokens, acked, asked>>

SecretAtStart == IF disk.secret = None THEN Fresh ELSE {disk.secret}

\* auth.json is written back at every start, with a secret.  When it cannot be
\* the server does not start.
OpenAuth ==
  /\ up = "store"
  /\ \E secret \in SecretAtStart, required \in BOOLEAN :
       /\ disk' = [disk EXCEPT !.secret = secret]
       /\ mem' = [mem EXCEPT !.users = disk.users, !.apikeys = disk.apikeys, !.secret = secret,
                             !.enabled = required \/ disk.users # {}]
       /\ up' = "up"
  /\ UNCHANGED <<clock, tokens, acked, asked>>

Down == up' = "down" /\ mem' = Blank

Crash ==
  /\ up # "down"
  /\ Down
  /\ UNCHANGED <<disk, clock, tokens, acked, asked>>

Tick ==
  /\ clock < MaxTime
  /\ clock' = clock + 1
  /\ UNCHANGED <<up, mem, disk, tokens, acked, asked>>

---------------------------------------------------------------------------
(* Requests *)

\* The part of the files that a save writes from the store m.
SaveConns(m) == [disk EXCEPT !.conns = m.conns, !.connsKey = m.key]
SavePipes(m) == [disk EXCEPT !.pipes = m.pipes]
SaveAuth(m) == [disk EXCEPT !.users = m.users, !.apikeys = m.apikeys, !.secret = m.secret]

Asks == up = "up" /\ asked < MaxRequests /\ asked' = asked + 1

\* (mutant) the answer does not wait for the file
RequestUnsaved(m, file, answered, refused) ==
  /\ Asks
  /\ \/ mem' = m /\ disk' \in {disk, file} /\ acked' = answered /\ UNCHANGED up
     \/ Down /\ disk' \in {disk, file} /\ acked' = refused
  /\ UNCHANGED <<clock, tokens>>

\* A request leaves the store m and writes file.  When the write fails the answer
\* is an error, and the store in memory keeps the change.
Request(m, file, answered, refused) ==
  /\ Asks
  /\ \/ mem' = m /\ disk' = file /\ acked' = answered /\ UNCHANGED up
     \/ mem' = [m EXCEPT !.enabled = mem.enabled] /\ acked' = refused /\ UNCHANGED <<up, disk>>
     \/ Down /\ disk' \in {disk, file} /\ acked' = refused
  /\ UNCHANGED <<clock, tokens>>

\* An id is the second and a number that starts again with the process.
NextId == <<clock, mem.seq + 1>>

AddConnection ==
  LET m == [mem EXCEPT !.conns = @ \cup {NextId}, !.seq = @ + 1]
  IN Request(m, SaveConns(m), [acked EXCEPT !.conns = @ \cup {NextId}], acked)

\* Pipelines that read from the connection are not looked for.
DeleteConnection ==
  \E id \in mem.conns :
    LET m == [mem EXCEPT !.conns = @ \ {id}]
        left == [acked EXCEPT !.conns = @ \ {id}]
    IN Request(m, SaveConns(m), left, left)

\* create_pipeline lets go of the lock after it has found the connection.
CheckPipeline ==
  /\ up = "up"
  /\ \E id \in mem.conns \ mem.checked : mem' = [mem EXCEPT !.checked = @ \cup {id}]
  /\ UNCHANGED <<up, disk, clock, tokens, acked, asked>>

AddPipeline ==
  \E conn \in mem.checked :
    LET pipe == [id |-> NextId, conn |-> conn]
        m == [mem EXCEPT !.pipes = @ \cup {pipe}, !.seq = @ + 1, !.checked = @ \ {conn}]
    IN Request(m, SavePipes(m), [acked EXCEPT !.pipes = @ \cup {pipe}], acked)

DeletePipeline ==
  \E pipe \in mem.pipes :
    LET m == [mem EXCEPT !.pipes = {p \in @ : p.id # pipe.id}]
        left == [acked EXCEPT !.pipes = {p \in @ : p.id # pipe.id}]
    IN Request(m, SavePipes(m), left, left)

\* The first user.  The server asks for sessions once the file is written.
Bootstrap ==
  /\ mem.users = {}
  /\ LET user == <<clock, Cardinality(mem.users) + 1>>
         m == [mem EXCEPT !.users = @ \cup {user}, !.enabled = TRUE]
     IN Request(m, SaveAuth(m), [acked EXCEPT !.users = @ \cup {user}], acked)

CreateApiKey ==
  \E raw \in Fresh :
    LET m == [mem EXCEPT !.apikeys = @ \cup {raw}]
    IN Request(m, SaveAuth(m), [acked EXCEPT !.apikeys = @ \cup {raw}], acked)

Login ==
  /\ Asks
  /\ \E user \in mem.users :
       tokens' = tokens \cup {[user |-> user, expiry |-> clock + Ttl, secret |-> mem.secret]}
  /\ UNCHANGED <<up, mem, disk, clock, acked>>

\* validate_session, by a store that holds these users and this secret
Valid(token, users, secret) ==
  /\ clock <= token.expiry
  /\ token.secret = secret
  /\ token.user \in users

---------------------------------------------------------------------------
(* The specification *)

Init ==
  /\ up = "down"
  /\ mem = Blank
  /\ disk = NoFiles
  /\ clock = 0
  /\ tokens = {}
  /\ acked = NothingAcked
  /\ asked = 0

Next ==
  \/ OpenStore \/ OpenAuth \/ Crash \/ Tick
  \/ AddConnection \/ DeleteConnection
  \/ CheckPipeline \/ AddPipeline \/ DeletePipeline
  \/ Bootstrap \/ CreateApiKey \/ Login

Spec == Init /\ [][Next]_vars

---------------------------------------------------------------------------
(* Properties *)

Pipes == [id : Ids, conn : Ids]
MemType ==
  [conns : SUBSET Ids, pipes : SUBSET Pipes, users : SUBSET Ids, apikeys : SUBSET Keys, key : Keys \cup {None},
   secret : Keys \cup {None}, seq : Nat, checked : SUBSET Ids, enabled : BOOLEAN]
FileType ==
  [keyfile : Keys \cup {None, Torn}, conns : SUBSET Ids, connsKey : Keys \cup {None}, pipes : SUBSET Pipes,
   users : SUBSET Ids, apikeys : SUBSET Keys, secret : Keys \cup {None}]
AckedType == [conns : SUBSET Ids, pipes : SUBSET Pipes, users : SUBSET Ids, apikeys : SUBSET Keys]

\* The memory and the files of the store; no process gives more ids than it answers
\* requests.
TypeOK ==
  /\ up \in {"down", "store", "up"}
  /\ mem \in MemType /\ disk \in FileType /\ acked \in AckedType
  /\ clock \in 0 .. MaxTime /\ asked \in 0 .. MaxRequests /\ mem.seq <= asked
  /\ tokens \subseteq [user : Ids, expiry : Nat, secret : Keys \cup {None}]

\* Whenever the process dies, the next one finds what clients were told is there:
\* it can decrypt the connections, it holds every one that was acknowledged, and
\* the users, and it takes the sessions of acknowledged users that have not expired.
\* (add_connection, create_user, SecretBox::open, AuthStore::open)
AnswersSurvive ==
  /\ disk.connsKey # None => disk.keyfile = disk.connsKey
  /\ acked.conns \subseteq disk.conns
  /\ acked.pipes \subseteq disk.pipes
  /\ acked.users \subseteq disk.users
  /\ acked.apikeys \subseteq disk.apikeys
  /\ \A token \in tokens : token.user \in acked.users /\ clock <= token.expiry
       => Valid(token, disk.users, disk.secret)

\* A session is needed once there is a user: the server says that an admin
\* already exists only when it asks for sessions.  (auth_bootstrap)
\* Not so after a bootstrap whose file could not be written.
BootstrapEnables == up = "up" /\ mem.users # {} => mem.enabled

\* A pipeline reads from a connection that exists, as create_pipeline checks.
\* Not so: delete_connection does not look for pipelines.
PipelinesConnected == \A pipe \in disk.pipes : pipe.conn \in disk.conns

\* What a client was told has failed is not there.  Not so: the memory keeps it,
\* and the next save of another request writes it.
RefusedIsAbsent == up = "up" => mem.conns \subseteq acked.conns

\* No two answers name one connection.  Not so: numbers start again with the process.
IdsNotReused == [][\A id \in Ids : id \in acked'.conns /\ id \notin acked.conns => id \notin disk.conns]_vars

---------------------------------------------------------------------------
(* Inductive strengthening of AnswersSurvive *)

\* The bounds, and what a key never is.
StoreConstants ==
  /\ None \notin Keys /\ Torn \notin Keys
  /\ MaxTime \in Nat /\ MaxRequests \in Nat \ {0} /\ Ttl \in Nat

\* What was acknowledged is in the memory m of a process in phase u and in the files
\* f; the process has the key of the key file and the secret of auth.json, and no
\* file or session has another.
Safe(u, m, f, a) ==
  /\ f.connsKey # None => f.keyfile = f.connsKey
  /\ a.conns \subseteq f.conns /\ a.pipes \subseteq f.pipes
  /\ a.users \subseteq f.users /\ a.apikeys \subseteq f.apikeys
  /\ u # "down" =>
       /\ m.key \in Keys /\ m.key = f.keyfile
       /\ a.conns \subseteq m.conns /\ a.pipes \subseteq m.pipes
  /\ u = "up" =>
       /\ m.secret \in Keys /\ m.secret = f.secret
       /\ a.users \subseteq m.users /\ a.apikeys \subseteq m.apikeys
  /\ \A token \in tokens : token.secret = f.secret /\ f.secret # None

StoreInv == TypeOK /\ Safe(up, mem, disk, acked)
=============================================================================
