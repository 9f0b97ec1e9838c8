------------------------------ MODULE AdminCache ------------------------------
(***************************************************************************)
(* One process of the admin API at work: RPC handlers that find, create,   *)
(* update and delete rows of one configuration table, with the cache of    *)
(* the application service, its key locks and the pool of connections.     *)
(*                                                                         *)
(* A row is known by the stamp of the commit it was written by. The cache, *)
(* the locks and the pool are libraries (memory-utils, sqlx) modelled from *)
(* their use: with_cache_if_some holds the lock of a key from a miss until *)
(* the loaded row is cached, delete_cache takes the same lock, and a       *)
(* connection that does not come in time is an error.                      *)
(***************************************************************************)
EXTENDS Naturals, FiniteSets

CONSTANTS
    Row,        \* ids
    Name,       \* names of rows
    Task,       \* RPC handlers at a time
    PoolSize,   \* connections of the process
    MaxWrites   \* bound on commits, by this and by other processes

ASSUME AdminCacheAssumption ==
    /\ Row \cap Name = {} /\ Name # {}
    /\ PoolSize \in Nat \ {0}
    /\ MaxWrites \in Nat

\* Finds by id and by name are cached under different keys.
Key == Row \cup Name

VARIABLES
    slack,      \* the table is that of Slack event handlers
    db,         \* db[r]: the last commit of row r
    version,    \* commits so far
    cache,      \* cache[k]: the row cached under k, or Nothing
    task,       \* task[t]: what an RPC handler is at
    seen,       \* history: the newest row a find of the key was answered with
    acked       \* history: the newest update or delete that was answered

vars == <<slack, db, version, cache, task, seen, acked>>

-----------------------------------------------------------------------------
(* Data *)

Nothing == 0
AnyName == CHOOSE n \in Name : TRUE

Idle == [pc |-> "idle"]

Finder ==
    [pc : {"lookup", "locked", "loaded", "found"}, key : Key, row : Nat,
     seen : Nat, acked : Nat]
Writer ==
    [pc : {"begin", "tx", "written", "fetched", "clear", "clear_name"},
     op : {"create", "update", "delete"}, row : Row, name : Name, stamp : Nat]

\* The handlers that hold the lock of their key.
Loading == {"locked", "loaded"}

TypeOK ==
    /\ slack \in BOOLEAN
    /\ db \in [Row -> [live : BOOLEAN, name : Name, stamp : Nat]]
    /\ version \in Nat
    /\ cache \in [Key -> Nat]
    /\ task \in [Task -> Finder \cup Writer \cup {Idle}]
    /\ seen \in [Key -> Nat]
    /\ acked \in [Row -> Nat]
    /\ \A t, u \in Task :
        t # u /\ task[t].pc \in Loading /\ task[u].pc \in Loading => task[t].key # task[u].key

\* What the table answers under a key.
Under(k, r) == db[r].live /\ (r = k \/ db[r].name = k)
Read(k) ==
    IF \E r \in Row : Under(k, r) THEN db[CHOOSE r \in Row : Under(k, r)].stamp ELSE Nothing

-----------------------------------------------------------------------------
(* Locks and connections *)

Unlocked(k) == \A t \in Task : task[t].pc \in Loading => task[t].key # k

InTransaction == {"tx", "written", "fetched"}

\* What these handlers leave free. Those of the other services use the same pool
\* and may take that as well, so any wait for a connection may end in an error.
FreeConnections ==
    PoolSize - Cardinality({t \in Task : task[t].pc \in InTransaction})

\* A statement on a row waits for the transaction that has written it.
RowLocked(r) ==
    \E t \in Task : task[t].pc \in {"written", "fetched"} /\ task[t].row = r

Goto(t, pc) == task' = [task EXCEPT ![t].pc = pc]
Ends(t) == task' = [task EXCEPT ![t] = Idle]

-----------------------------------------------------------------------------
(* Finds: find_*, find_*_by_name *)

BeginFind(t, k) ==
    /\ task[t] = Idle
    /\ task' = [task EXCEPT ![t] =
                  [pc |-> "lookup", key |-> k, row |-> Nothing, seen |-> seen[k],
                   acked |-> IF k \in Row THEN acked[k] ELSE 0]]
    /\ UNCHANGED <<slack, db, version, cache, seen, acked>>

\* Mutant: a miss is loaded without the lock of the key.
LookupUnlocked(t) ==
    /\ task[t].pc = "lookup"
    /\ task' = [task EXCEPT ![t].pc = IF cache[task[t].key] = Nothing THEN "locked" ELSE "found",
                            ![t].row = cache[task[t].key]]
    /\ UNCHANGED <<slack, db, version, cache, seen, acked>>

\* A hit is answered; a miss keeps the lock.
Lookup(t) ==
    /\ task[t].pc = "lookup"
    /\ Unlocked(task[t].key)
    /\ task' = [task EXCEPT ![t].pc = IF cache[task[t].key] = Nothing THEN "locked" ELSE "found",
                            ![t].row = cache[task[t].key]]
    /\ UNCHANGED <<slack, db, version, cache, seen, acked>>

Load(t) ==
    /\ task[t].pc = "locked"
    /\ FreeConnections > 0
    /\ task' = [task EXCEPT ![t].pc = "loaded", ![t].row = Read(task[t].key)]
    /\ UNCHANGED <<slack, db, version, cache, seen, acked>>

\* Only a row that was found is cached.
Fill(t) ==
    /\ task[t].pc = "loaded"
    /\ cache' = IF task[t].row = Nothing THEN cache
                ELSE [cache EXCEPT ![task[t].key] = task[t].row]
    /\ Goto(t, "found")
    /\ UNCHANGED <<slack, db, version, seen, acked>>

\* No connection came in time.
FindTimesOut(t) ==
    /\ task[t].pc = "locked"
    /\ Ends(t)
    /\ UNCHANGED <<slack, db, version, cache, seen, acked>>

AnswerFind(t) ==
    /\ task[t].pc = "found"
    /\ seen' = IF task[t].row > seen[task[t].key]
               THEN [seen EXCEPT ![task[t].key] = task[t].row] ELSE seen
    /\ Ends(t)
    /\ UNCHANGED <<slack, db, version, cache, acked>>

\* The time to live of an entry (30 s), or an update that carries no data.
Expire(k) ==
    /\ cache[k] # Nothing
    /\ cache' = [cache EXCEPT ![k] = Nothing]
    /\ UNCHANGED <<slack, db, version, task, seen, acked>>

-----------------------------------------------------------------------------
(* Writes: create_*, update_*, delete_* *)

NeverGiven(r) ==
    db[r].stamp = 0 /\ \A t \in Task : task[t].pc \in {"begin"} \cup InTransaction => task[t].row # r

\* A create gets an id of its own; others may come too late. The name a delete
\* clears is the one it read before.
BeginWrite(t, op, r, n) ==
    /\ task[t] = Idle
    /\ version < MaxWrites
    /\ op = "create" => NeverGiven(r)
    /\ op # "create" => db[r].stamp # 0
    /\ op = "delete" => db[r].live /\ n = db[r].name
    /\ task' = [task EXCEPT ![t] =
                  [pc |-> "begin", op |-> op, row |-> r, name |-> n, stamp |-> 0]]
    /\ UNCHANGED <<slack, db, version, cache, seen, acked>>

OpenTransaction(t) ==
    /\ task[t].pc = "begin"
    /\ FreeConnections > 0
    /\ Goto(t, "tx")
    /\ UNCHANGED <<slack, db, version, cache, seen, acked>>

BeginTimesOut(t) ==
    /\ task[t].pc = "begin"
    /\ Ends(t)
    /\ UNCHANGED <<slack, db, version, cache, seen, acked>>

\* The row is gone: there is nothing to delete, and nothing to update for the
\* Slack service; the others commit and go on.
NothingToDo(t) ==
    /\ ~ db[task[t].row].live
    /\ task[t].op = "delete" \/ (slack /\ task[t].op = "update")

\* INSERT, UPDATE or DELETE.
Execute(t) ==
    /\ task[t].pc = "tx"
    /\ ~ RowLocked(task[t].row)
    /\ IF NothingToDo(t)
       THEN Ends(t) ELSE Goto(t, "written")
    /\ UNCHANGED <<slack, db, version, cache, seen, acked>>

\* The database gives up on a statement that waits for a row.
RowTimesOut(t) ==
    /\ task[t].pc = "tx"
    /\ RowLocked(task[t].row)
    /\ Ends(t)
    /\ UNCHANGED <<slack, db, version, cache, seen, acked>>

\* The Slack service reads the server of the row on a second connection, with
\* its transaction open.
FetchesServer(t) == slack /\ task[t].op # "delete"

FetchServer(t) ==
    /\ task[t].pc = "written"
    /\ FetchesServer(t)
    /\ FreeConnections > 0
    /\ Goto(t, "fetched")
    /\ UNCHANGED <<slack, db, version, cache, seen, acked>>

\* Mutant: a connection is tried for without a limit.
FetchRetries(t) ==
    /\ task[t].pc = "written"
    /\ FetchesServer(t)
    /\ FreeConnections = 0
    /\ UNCHANGED vars

FetchTimesOut(t) ==
    /\ task[t].pc = "written"
    /\ FetchesServer(t)
    /\ Ends(t)
    /\ UNCHANGED <<slack, db, version, cache, seen, acked>>

Committing(t) ==
    \/ task[t].pc = "written" /\ ~ FetchesServer(t)
    \/ task[t].pc = "fetched"

\* The row after the write; an update of a row that is gone changes nothing.
Written(t) ==
    LET w == task[t]
    IN IF w.op # "create" /\ ~ db[w.row].live THEN db
       ELSE [db EXCEPT ![w.row] =
               [live |-> w.op # "delete", stamp |-> version + 1,
                name |-> IF w.op = "delete" THEN @.name ELSE w.name]]

NameTaken(t) ==
    /\ task[t].op # "delete"
    /\ \E r \in Row \ {task[t].row} : db[r].live /\ db[r].name = task[t].name

\* A create has nothing to clear: nothing older was ever found.
Commit(t) ==
    /\ Committing(t)
    /\ ~ NameTaken(t)
    /\ db' = Written(t)
    /\ version' = version + 1
    /\ IF task[t].op = "create" THEN Ends(t)
       ELSE task' = [task EXCEPT ![t].pc = "clear", ![t].stamp = version + 1]
    /\ UNCHANGED <<slack, cache, seen, acked>>

\* The unique index refuses the name.
Refused(t) ==
    /\ Committing(t)
    /\ NameTaken(t)
    /\ Ends(t)
    /\ UNCHANGED <<slack, db, version, cache, seen, acked>>

\* Mutant: the entry of the id is not cleared.
WithoutId(t) == cache

WithoutEntry(t) == [cache EXCEPT ![task[t].row] = Nothing]

Acknowledged(t) ==
    [acked EXCEPT ![task[t].row] = IF @ < task[t].stamp THEN task[t].stamp ELSE @]

\* delete_cache takes the lock of the key; the Slack service removes the entry
\* from the cache itself, and goes on with that of the name it wrote.
ClearId(t) ==
    /\ task[t].pc = "clear"
    /\ slack \/ Unlocked(task[t].row)
    /\ cache' = WithoutEntry(t)
    /\ IF slack THEN Goto(t, "clear_name") ELSE Ends(t)
    /\ acked' = IF slack THEN acked ELSE Acknowledged(t)
    /\ UNCHANGED <<slack, db, version, seen>>

ClearName(t) ==
    /\ task[t].pc = "clear_name"
    /\ cache' = [cache EXCEPT ![task[t].name] = Nothing]
    /\ Ends(t)
    /\ acked' = Acknowledged(t)
    /\ UNCHANGED <<slack, db, version, seen>>

\* Another process of the admin API writes to the same database.
RemoteWrite(r, row) ==
    /\ version < MaxWrites
    /\ db[r].live /\ ~ RowLocked(r)
    /\ row.stamp = version + 1
    /\ row.live => \A s \in Row \ {r} : ~ (db[s].live /\ db[s].name = row.name)
    /\ db' = [db EXCEPT ![r] = row]
    /\ version' = version + 1
    /\ UNCHANGED <<slack, cache, task, seen, acked>>

-----------------------------------------------------------------------------
(* Specification *)

Init ==
    /\ slack \in BOOLEAN
    /\ db = [r \in Row |-> [live |-> FALSE, name |-> AnyName, stamp |-> 0]]
    /\ version = 0
    /\ cache = [k \in Key |-> Nothing]
    /\ task = [t \in Task |-> Idle]
    /\ seen = [k \in Key |-> 0]
    /\ acked = [r \in Row |-> 0]

Begin(t) ==
    \/ \E k \in Key : BeginFind(t, k)
    \/ \E op \in {"create", "update", "delete"}, r \in Row, n \in Name : BeginWrite(t, op, r, n)

\* What an RPC handler does once it was called.
Step(t) ==
    \/ Lookup(t) \/ Load(t) \/ FindTimesOut(t) \/ Fill(t) \/ AnswerFind(t)
    \/ OpenTransaction(t) \/ BeginTimesOut(t) \/ Execute(t) \/ RowTimesOut(t)
    \/ FetchServer(t) \/ FetchTimesOut(t) \/ Commit(t) \/ Refused(t)
    \/ ClearId(t) \/ ClearName(t)

RemoteStep ==
    \E r \in Row, b \in BOOLEAN, n \in Name :
        RemoteWrite(r, [live |-> b, name |-> n, stamp |-> version + 1])

Next ==
    \/ \E t \in Task : Begin(t) \/ Step(t)
    \/ \E k \in Key : Expire(k)
    \/ RemoteStep

Spec == Init /\ [][Next]_vars

\* RPC handlers are polled to their end, and locks are handed on in turn: none
\* is passed over forever by calls that come later.
Fairness == \A t \in Task : SF_vars(Step(t))

FairSpec == Spec /\ Fairness

-----------------------------------------------------------------------------
(* Properties *)

\* A find by id that is called after a write of the row was answered sees that
\* write or a later one: servers, schedulers and result handlers are cleared
\* from the cache before the answer, under the lock that keeps a find which
\* read the old row from putting it back. (The Slack service does not take it.)
ReadYourWrites ==
    \A t \in Task :
        ~ slack /\ task[t].pc = "found" /\ task[t].row # Nothing
            => task[t].row >= task[t].acked

\* Finds of one key never go back in time: one that is called after another was
\* answered does not find an older row, by name or by id and in either service,
\* whatever this and other processes write meanwhile.
AnswersNeverGoBack ==
    \A t \in Task :
        task[t].pc = "found" /\ task[t].row # Nothing => task[t].row >= task[t].seen

\* Every call ends, though finds wait for locks that are held by finds that wait
\* for connections, and writes hold a connection while they wait for rows and
\* for another connection of the same pool.
EveryCallEnds == \A t \in Task : []<>(task[t] = Idle)

=============================================================================
