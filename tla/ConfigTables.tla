----------------------------- MODULE ConfigTables -----------------------------
(***************************************************************************)
(* The four configuration tables and their repositories: the rows, how a   *)
(* request becomes columns and columns become a configuration again, and   *)
(* what INSERT, UPDATE and DELETE do. Timestamps, descriptions, crontabs,  *)
(* arguments and the conditions of Slack handlers are left out.            *)
(***************************************************************************)
EXTENDS Naturals, FiniteSets

CONSTANTS
    Name,       \* names of rows; each table has its own unique index on them
    Endpoint,   \* host, port and ssl flag of a server
    Parsable,   \* those whose address, put together, is a URL with a host
    Normal,     \* Normal[e]: what is read back from the address of e
    Url,        \* workflow URLs
    Worker,     \* worker names
    Option,     \* channels of workflows, and methods ("using") of workers
    NoText,     \* NULL or the empty string, which all readers treat alike
    MaxId       \* bound on generated ids

ASSUME ConfigTablesAssumption ==
    /\ Name # {}
    /\ Parsable \subseteq Endpoint
    /\ Normal \in [Parsable -> Parsable]
    /\ \A e \in Parsable : Normal[Normal[e]] = Normal[e]
    /\ NoText \notin Name \cup Url \cup Worker \cup Option
    /\ MaxId \in Nat

VARIABLES
    jobworkerp_server, cron_scheduler, worker_result_handler, slack_event_handler,
    nextId      \* the id generator never gives an id twice

tables ==
    <<jobworkerp_server, cron_scheduler, worker_result_handler, slack_event_handler>>

-----------------------------------------------------------------------------
(* What is run: requests name it as a oneof, tables keep four columns *)

Text(S) == S \cup {NoText}

\* A workflow with its channel, or a worker with its method. "deprecated" are
\* the two fields of clients that do not know the oneof.
ExecutionTarget ==
    [kind : {"workflow", "deprecated"}, what : Text(Url), with : Text(Option)]
        \cup [kind : {"worker"}, what : Text(Worker), with : Text(Option)]

\* Every kind has to name something.
ValidExecutionTarget(t) == t.what # NoText

Columns ==
    [url : Text(Url), channel : Text(Option), worker_name : Text(Worker), using : Text(Option)]

FlattenExecutionTarget(t) ==
    IF t.kind = "worker"
    THEN [url |-> NoText, channel |-> NoText, worker_name |-> t.what, using |-> t.with]
    ELSE [url |-> t.what, channel |-> t.with, worker_name |-> NoText, using |-> NoText]

\* A worker name takes precedence; columns without either say nothing.
TargetOf(c) ==
    IF c.worker_name # NoText
    THEN {[kind |-> "worker", what |-> c.worker_name, with |-> c.using]}
    ELSE IF c.url # NoText
         THEN {[kind |-> "workflow", what |-> c.url, with |-> c.channel]}
         ELSE {}

-----------------------------------------------------------------------------
(* Rows, and the requests they are made from *)

Id == 1 .. MaxId

ServerData == [name : Name, endpoint : Endpoint, enabled : BOOLEAN]
CronData == [name : Name, server : Id, target : ExecutionTarget, enabled : BOOLEAN]
HandlerData ==
    [name : Name, listen : Id, process : Id, target : ExecutionTarget, enabled : BOOLEAN]
SlackData == CronData

ServerRow == [id : Id, name : Name, endpoint : Endpoint, enabled : BOOLEAN]
CronRow == [id : Id, name : Name, server : Id, columns : Columns, enabled : BOOLEAN]
HandlerRow ==
    [id : Id, name : Name, listen : Id, process : Id, columns : Columns, enabled : BOOLEAN]
SlackRow == CronRow

JobworkerpServerRow(id, d) ==
    [id |-> id, name |-> d.name, endpoint |-> d.endpoint, enabled |-> d.enabled]

CronSchedulerRow(id, d) ==
    [id |-> id, name |-> d.name, server |-> d.server,
     columns |-> FlattenExecutionTarget(d.target), enabled |-> d.enabled]

WorkerResultHandlerRow(id, d) ==
    [id |-> id, name |-> d.name, listen |-> d.listen, process |-> d.process,
     columns |-> FlattenExecutionTarget(d.target), enabled |-> d.enabled]

SlackEventHandlerRow(id, d) == CronSchedulerRow(id, d)

\* Every table has a unique index on the name, and nothing else: references
\* between tables are not checked.
UniqueNames(rows) == \A r, s \in rows : r.name = s.name => r = s

\* INSERT of a row: refused (AlreadyExists) if the name is taken.
Inserted(rows, row) == rows \cup {row}

\* UPDATE .. WHERE id = ?: changes nothing if the row is gone.
Updated(rows, row) ==
    IF \E r \in rows : r.id = row.id
    THEN {r \in rows : r.id # row.id} \cup {row} ELSE rows

\* DELETE .. WHERE id = ?; nothing that refers to the row is looked at.
Without(rows, id) == {r \in rows : r.id # id}

\* SELECT * .. WHERE id = ?: at most one row
Find(rows, id) == {r \in rows : r.id = id}

\* SELECT * .. WHERE name = ?
FindByName(rows, name) == {r \in rows : r.name = name}

(* update and delete of the four repositories *)

UpdatedJobworkerpServer(id, d) == Updated(jobworkerp_server, JobworkerpServerRow(id, d))
WithoutJobworkerpServer(id) == Without(jobworkerp_server, id)

UpdatedCronScheduler(id, d) == Updated(cron_scheduler, CronSchedulerRow(id, d))
WithoutCronScheduler(id) == Without(cron_scheduler, id)

UpdatedWorkerResultHandler(id, d) == Updated(worker_result_handler, WorkerResultHandlerRow(id, d))
WithoutWorkerResultHandler(id) == Without(worker_result_handler, id)

UpdatedSlackEventHandler(id, d) == Updated(slack_event_handler, SlackEventHandlerRow(id, d))
WithoutSlackEventHandler(id) == Without(slack_event_handler, id)

-----------------------------------------------------------------------------
(* The CRUD operations of the admin API, from request to commit. A request *)
(* that fails validation or meets a unique index changes nothing.          *)

NewId == nextId <= MaxId /\ nextId' = nextId + 1

OnlyServers ==
    UNCHANGED <<cron_scheduler, worker_result_handler, slack_event_handler>>
OnlyCronSchedulers ==
    UNCHANGED <<jobworkerp_server, worker_result_handler, slack_event_handler>>
OnlyWorkerResultHandlers ==
    UNCHANGED <<jobworkerp_server, cron_scheduler, slack_event_handler>>
OnlySlackEventHandlers ==
    UNCHANGED <<jobworkerp_server, cron_scheduler, worker_result_handler>>

\* Neither the name nor the host or port of a server is validated.
CreateJobworkerpServer(d) ==
    /\ NewId
    /\ jobworkerp_server' = Inserted(jobworkerp_server, JobworkerpServerRow(nextId, d))
    /\ UniqueNames(jobworkerp_server')
    /\ OnlyServers

UpdateJobworkerpServer(id, d) ==
    /\ jobworkerp_server' = UpdatedJobworkerpServer(id, d)
    /\ UniqueNames(jobworkerp_server')
    /\ UNCHANGED nextId /\ OnlyServers

\* Rows that refer to the server stay.
DeleteJobworkerpServer(id) ==
    /\ jobworkerp_server' = WithoutJobworkerpServer(id)
    /\ UNCHANGED nextId /\ OnlyServers

CreateCronScheduler(d) ==
    /\ ValidExecutionTarget(d.target)
    /\ NewId
    /\ cron_scheduler' = Inserted(cron_scheduler, CronSchedulerRow(nextId, d))
    /\ UniqueNames(cron_scheduler')
    /\ OnlyCronSchedulers

UpdateCronScheduler(id, d) ==
    /\ ValidExecutionTarget(d.target)
    /\ cron_scheduler' = UpdatedCronScheduler(id, d)
    /\ UniqueNames(cron_scheduler')
    /\ UNCHANGED nextId /\ OnlyCronSchedulers

DeleteCronScheduler(id) ==
    /\ cron_scheduler' = WithoutCronScheduler(id)
    /\ UNCHANGED nextId /\ OnlyCronSchedulers

CreateWorkerResultHandler(d) ==
    /\ ValidExecutionTarget(d.target)
    /\ NewId
    /\ worker_result_handler' =
          Inserted(worker_result_handler, WorkerResultHandlerRow(nextId, d))
    /\ UniqueNames(worker_result_handler')
    /\ OnlyWorkerResultHandlers

UpdateWorkerResultHandler(id, d) ==
    /\ ValidExecutionTarget(d.target)
    /\ worker_result_handler' = UpdatedWorkerResultHandler(id, d)
    /\ UniqueNames(worker_result_handler')
    /\ UNCHANGED nextId /\ OnlyWorkerResultHandlers

DeleteWorkerResultHandler(id) ==
    /\ worker_result_handler' = WithoutWorkerResultHandler(id)
    /\ UNCHANGED nextId /\ OnlyWorkerResultHandlers

\* A new Slack handler is enabled, whatever the request says.
CreateSlackEventHandler(d) ==
    /\ ValidExecutionTarget(d.target)
    /\ NewId
    /\ slack_event_handler' =
          Inserted(slack_event_handler,
                   SlackEventHandlerRow(nextId, [d EXCEPT !.enabled = TRUE]))
    /\ UniqueNames(slack_event_handler')
    /\ OnlySlackEventHandlers

UpdateSlackEventHandler(id, d) ==
    /\ ValidExecutionTarget(d.target)
    /\ slack_event_handler' = UpdatedSlackEventHandler(id, d)
    /\ UniqueNames(slack_event_handler')
    /\ UNCHANGED nextId /\ OnlySlackEventHandlers

DeleteSlackEventHandler(id) ==
    /\ slack_event_handler' = WithoutSlackEventHandler(id)
    /\ UNCHANGED nextId /\ OnlySlackEventHandlers

=============================================================================
