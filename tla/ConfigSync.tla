------------------------------ MODULE ConfigSync ------------------------------
(***************************************************************************)
(* How a configuration change travels from the admin API to what runs: an  *)
(* RPC handler commits a row and then publishes an event, a bounded        *)
(* broadcast channel carries it, and one background task applies it to the *)
(* LocalConfigStore and to the scheduler and listener managers.            *)
(*                                                                         *)
(* Rows are abstracted to what the managers read: enabled, the name (which *)
(* is the managers' key for listeners only) and the jobworkerp servers     *)
(* referred to.                                                            *)
(***************************************************************************)
EXTENDS Naturals, Sequences, FiniteSets

CONSTANTS
    Server,       \* ids of jobworkerp servers
    Sched,        \* ids of cron schedulers
    Handler,      \* ids of worker result handlers
    Name,         \* names of worker result handlers
    Writer,       \* RPC handler tasks of the admin API
    Coordinated,  \* clients wait for a reply before they write the same row
                  \* again, and do not update rows that are gone
    Remote,       \* the admin API runs in other processes too (Redis)
    Faults,       \* may notifications, connections and receivers fail?
    Capacity,     \* NOTIFICATION_BUFFER_SIZE
    MaxWrites     \* bound on configuration writes

Entity == Server \cup Sched \cup Handler

ASSUME ConfigSyncAssumption ==
    /\ Server \cap Sched = {} /\ Server \cap Handler = {} /\ Sched \cap Handler = {}
    /\ Name # {}
    /\ Coordinated \in BOOLEAN /\ Remote \in BOOLEAN /\ Faults \in BOOLEAN
    /\ Capacity \in Nat \ {0}
    /\ MaxWrites \in Nat

VARIABLES
    db,         \* db[e]: the committed row, or Absent
    used,       \* ids that were ever given to a row
    out,        \* out[w]: the event RPC handler w has yet to publish
    chan,       \* events the background task has yet to receive
    toLoad,     \* tables the initial load has yet to read
    phase,      \* progress of the EventHandlerServerManager
    store,      \* store[e]: LocalConfigStore
    jobs,       \* jobs[s]: configuration the cron job of s was built from
    listeners,  \* running listeners: the owner and configuration of each
    failed,     \* entities whose last start attempt ended in an error
    writes      \* writes so far

dbVars == <<db, used, writes>>
managed == <<store, jobs, listeners, failed>>
vars == <<db, used, out, chan, toLoad, phase, store, jobs, listeners, failed, writes>>

-----------------------------------------------------------------------------
(* Data *)

AnyName == CHOOSE n \in Name : TRUE

\* No row. Like a disabled one it runs nothing.
Absent == [on |-> FALSE]

Config == [on : BOOLEAN, name : Name, needs : SUBSET Server]

\* What a client may write: a scheduler runs on one server, a handler listens
\* on one and processes on one.
ServerConfigs == {[on |-> TRUE, name |-> AnyName, needs |-> {}]}
SchedConfigs ==
    {[on |-> b, name |-> AnyName, needs |-> {s}] : b \in BOOLEAN, s \in Server}
HandlerConfigs ==
    {[on |-> b, name |-> n, needs |-> {l, p}] :
        b \in BOOLEAN, n \in Name, l \in Server, p \in Server}
ConfigsOf(e) ==
    IF e \in Server THEN ServerConfigs
    ELSE IF e \in Sched THEN SchedConfigs ELSE HandlerConfigs

Rows == [Entity -> Config \cup {Absent}]
Event == [entity : Entity, config : Config \cup {Absent}]
Listener == [of : Handler, config : Config]
Table == {Server, Sched, Handler}

TypeOK ==
    /\ db \in Rows
    /\ used \in SUBSET Entity
    /\ out \in [Writer -> Seq(Event)] /\ \A w \in Writer : Len(out[w]) <= 1
    /\ chan \in Seq(Event) /\ Len(chan) <= Capacity
    /\ toLoad \in SUBSET Table
    /\ phase \in {"loading", "up", "deaf"}
    /\ store \in Rows
    /\ jobs \in [Sched -> Config \cup {Absent}]
    /\ listeners \in SUBSET Listener
    /\ failed \in SUBSET Entity
    /\ writes \in 0 .. MaxWrites

\* UNIQUE INDEX on the names of worker result handlers.
UniqueNames(rows) ==
    \A h, k \in Handler :
        rows[h] # Absent /\ rows[k] # Absent /\ rows[h].name = rows[k].name
            => h = k

-----------------------------------------------------------------------------
(* The admin API: create_*, update_*, delete_* of the app services *)

\* The API of the conductor's own process opens after the manager is started.
ApiOpen == Remote \/ phase # "loading"

\* A write of row e was committed and is still to be announced.
Announcing(e) == \E w \in Writer : out[w] # <<>> /\ out[w][1].entity = e

\* Writer w may commit a write of row e.
MayWrite(w, e) ==
    /\ ApiOpen
    /\ writes < MaxWrites
    /\ out[w] = <<>>
    /\ ~ (Coordinated /\ Announcing(e))

\* The event of a write is published later, by the same RPC handler.
Committed(w, e, c) ==
    /\ writes' = writes + 1
    /\ out' = [out EXCEPT ![w] = <<[entity |-> e, config |-> c]>>]
    /\ UNCHANGED <<chan, toLoad, phase, managed>>

\* Ids are generated and never given twice.
Create(w, e, c) ==
    /\ MayWrite(w, e)
    /\ e \notin used
    /\ db' = [db EXCEPT ![e] = c]
    /\ UniqueNames(db')
    /\ used' = used \cup {e}
    /\ Committed(w, e, c)

\* UPDATE .. WHERE id: the number of affected rows is not looked at, so an
\* update of a row that is gone commits, and is announced, like any other.
Update(w, e, c) ==
    /\ MayWrite(w, e)
    /\ e \in used
    /\ ~ (Coordinated /\ db[e] = Absent)
    /\ db' = IF db[e] = Absent THEN db ELSE [db EXCEPT ![e] = c]
    /\ UniqueNames(db')
    /\ UNCHANGED used
    /\ Committed(w, e, c)

\* A delete that removes nothing announces nothing.
Delete(w, e) ==
    /\ MayWrite(w, e)
    /\ db[e] # Absent
    /\ db' = [db EXCEPT ![e] = Absent]
    /\ UNCHANGED used
    /\ Committed(w, e, Absent)

\* Mutant: the channel is not bounded.
PublishedUnbounded(events) == chan \o events

\* A full broadcast channel forgets its oldest event, and the receiver that
\* lagged behind goes on with the next.
Published(events) ==
    LET longer == chan \o events
    IN IF Len(longer) > Capacity THEN Tail(longer) ELSE longer

\* Without a subscriber nothing is kept; a failed publication is only logged.
Notify(w) ==
    /\ out[w] # <<>>
    /\ out' = [out EXCEPT ![w] = <<>>]
    /\ \/ chan' = IF phase = "up" THEN Published(out[w]) ELSE chan
       \/ Faults /\ UNCHANGED chan
    /\ UNCHANGED <<dbVars, toLoad, phase, managed>>

-----------------------------------------------------------------------------
(* Startup *)

Init ==
    /\ db \in {rows \in Rows :
                /\ \A e \in Entity : rows[e] \in ConfigsOf(e) \cup {Absent}
                /\ UniqueNames(rows)}
    /\ used = {e \in Entity : db[e] # Absent}
    /\ out = [w \in Writer |-> <<>>]
    /\ chan = <<>>
    /\ toLoad = Table
    /\ phase = "loading"
    /\ store = [e \in Entity |-> Absent]
    /\ jobs = [s \in Sched |-> Absent]
    /\ listeners = {}
    /\ failed = {}
    /\ writes = 0

\* load_all_configs reads each table with a query of its own.
Load(table) ==
    /\ table \in toLoad
    /\ toLoad' = toLoad \ {table}
    /\ store' = [e \in Entity |-> IF e \in table THEN db[e] ELSE store[e]]
    /\ UNCHANGED <<dbVars, out, chan, phase, jobs, listeners, failed>>

\* Every server a configuration refers to is in the store.
Servable(rows, c) == \A s \in c.needs : rows[s] # Absent

\* start: initial listeners and schedulers, each start failing on its own,
\* then the subscription. Nothing else touches the managers meanwhile, and a
\* write meanwhile is missed like one before the first listener.
Start ==
    /\ phase = "loading"
    /\ toLoad = {}
    /\ \E bad \in SUBSET {e \in Sched \cup Handler : store[e].on} :
        /\ \A e \in Sched \cup Handler :
              store[e].on =>
                (IF Servable(store, store[e]) THEN e \in bad => Faults ELSE e \in bad)
        /\ failed' = bad
        /\ jobs' = [s \in Sched |->
                      IF store[s].on /\ s \notin bad THEN store[s] ELSE Absent]
        /\ listeners' = {[of |-> h, config |-> store[h]] :
                            h \in {k \in Handler : store[k].on /\ k \notin bad}}
    /\ phase' = "up"
    /\ UNCHANGED <<dbVars, out, chan, toLoad, store>>

-----------------------------------------------------------------------------
(* The background task: handle_config_change_event *)

\* Mutant: an entry that is there already is kept.
StoredIfNew(ev) ==
    IF store[ev.entity] # Absent /\ ev.config # Absent THEN store
    ELSE [store EXCEPT ![ev.entity] = ev.config]

\* upsert_* and remove_* of the LocalConfigStore
Stored(ev) == [store EXCEPT ![ev.entity] = ev.config]

\* A configuration is started if it is enabled, its servers are known, and
\* building the cron job or connecting to the servers works.
Attempt(rows, e, started) ==
    IF rows[e].on /\ Servable(rows, rows[e])
    THEN started \/ Faults
    ELSE ~ started

Failures(rows, e, started) ==
    IF rows[e].on /\ ~ started THEN failed \cup {e} ELSE failed \ {e}

\* Mutant: a disabled scheduler returns before its old job is removed.
RescheduledUnlessOff(rows, s, started) ==
    IF rows[s] # Absent /\ ~ rows[s].on THEN jobs
    ELSE [jobs EXCEPT ![s] = IF started THEN rows[s] ELSE Absent]

\* update_scheduler_from_event: remove by id, then add from the store.
Rescheduled(rows, s, started) ==
    [jobs EXCEPT ![s] = IF started THEN rows[s] ELSE Absent]

\* Mutant: the listener removed is the one of the name before the change.
WithoutListenerByOldName(rows, h) ==
    {l \in listeners : store[h] = Absent \/ l.config.name # store[h].name}

\* remove_listener_by_id: the name is looked up in the store, which already
\* holds the change; a deleted handler has none there any more.
WithoutListener(rows, h) ==
    {l \in listeners : rows[h] = Absent \/ l.config.name # rows[h].name}

\* update_listener_from_event
Relistened(rows, h, started) ==
    IF started
    THEN {l \in WithoutListener(rows, h) : l.config.name # rows[h].name}
            \cup {[of |-> h, config |-> rows[h]]}
    ELSE WithoutListener(rows, h)

\* Servers change the store only.
HandleEvent ==
    /\ phase = "up"
    /\ chan # <<>>
    /\ chan' = Tail(chan)
    /\ store' = Stored(Head(chan))
    /\ LET e == Head(chan).entity IN
        \/ e \in Server /\ UNCHANGED <<jobs, listeners, failed>>
        \/ \E started \in BOOLEAN :
            /\ e \in Sched
            /\ Attempt(store', e, started)
            /\ jobs' = Rescheduled(store', e, started)
            /\ failed' = Failures(store', e, started)
            /\ UNCHANGED listeners
        \/ \E started \in BOOLEAN :
            /\ e \in Handler
            /\ Attempt(store', e, started)
            /\ listeners' = Relistened(store', e, started)
            /\ failed' = Failures(store', e, started)
            /\ UNCHANGED jobs
    /\ UNCHANGED <<dbVars, out, toLoad, phase>>

\* A receive error or a closed stream ends the task for good.
ReceiverEnds ==
    /\ Faults
    /\ phase = "up"
    /\ phase' = "deaf"
    /\ chan' = <<>>
    /\ UNCHANGED <<dbVars, out, toLoad, managed>>

-----------------------------------------------------------------------------
(* Specification *)

Write(w) ==
    \E e \in Entity :
        \/ \E c \in ConfigsOf(e) : Create(w, e, c) \/ Update(w, e, c)
        \/ Delete(w, e)

Startup == Start \/ \E table \in Table : Load(table)

Next ==
    \/ \E w \in Writer : Write(w) \/ Notify(w)
    \/ Startup
    \/ HandleEvent
    \/ ReceiverEnds

Spec == Init /\ [][Next]_vars

\* The conductor starts, RPC handlers run to their end, and the background
\* task is polled; no client has to write anything.
Fairness ==
    /\ WF_vars(Startup)
    /\ \A w \in Writer : WF_vars(Notify(w))
    /\ WF_vars(HandleEvent)

FairSpec == Spec /\ Fairness

-----------------------------------------------------------------------------
(* Properties *)

\* Every committed change was announced and applied.
Settled == phase = "up" /\ chan = <<>> /\ \A w \in Writer : out[w] = <<>>

\* The scheduler runs exactly the enabled schedulers of the store, each with
\* the configuration the store holds, except those whose last start attempt
\* was logged as failed: whatever events were lost, repeated or out of order,
\* no job outlives its scheduler or keeps an old configuration.
SchedulersFollowStore ==
    \A s \in Sched :
        jobs[s] = IF phase # "loading" /\ store[s].on /\ s \notin failed
                  THEN store[s] ELSE Absent

\* LocalConfigStore "gathers the settings to be synchronised between the API
\* server and the event handler server" (local_config_store.rs:51): once all
\* changes are announced and applied it holds what the database holds.
StoreConverges == Settled => store = db

\* Once all changes are applied every enabled handler has a listener of its
\* own with its current configuration, unless its last start attempt was
\* logged as failed: renaming and deleting handlers whose names others take
\* over never stops the wrong listener for good.
ListenersConverge ==
    Settled =>
        \A h \in Handler :
            db[h].on /\ h \notin failed =>
                [of |-> h, config |-> db[h]] \in listeners

\* A store that misses a committed change of a row catches up with the database,
\* once clients leave the row alone (MaxWrites ends their writes).
CommittedReachesStore ==
    \A e \in Entity : (store[e] # db[e]) ~> (store[e] = db[e])

\* The listener manager "starts, stops and updates listeners as the
\* configuration changes" (listener_manager.rs:13-14): once all changes are
\* applied no listener runs for a handler that was deleted, disabled or
\* renamed.
ListenersStopWithHandlers ==
    Settled =>
        \A l \in listeners : db[l.of].on /\ db[l.of].name = l.config.name

=============================================================================
