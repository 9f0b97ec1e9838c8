---------------------------- MODULE ConfigTransfer ----------------------------
(***************************************************************************)
(* Export, import and clearing of the configuration (ConfigManagement),    *)
(* among the other writes of the admin API. A file refers to servers by    *)
(* name and a table by id; an import runs in one transaction, and its      *)
(* overwriting form replaces three of the four tables.                     *)
(***************************************************************************)
EXTENDS ConfigTables, SequencesExt

CONSTANTS
    File,       \* files a user has written
    Requests    \* bound on the number of writes

VARIABLES
    file,       \* the file at hand: written by a user or exported last
    steps       \* writes so far

vars == <<tables, nextId, file, steps>>

-----------------------------------------------------------------------------
(* Files (WorkflowSettingFile) *)

\* The address of a server is kept as the endpoint it was put together from.
\* What an item lacks of its own fields (crontab, listen_worker_name) makes it
\* incomplete; a listener without listen_jobworkerp is incomplete as well.
ServerItem == [name : Name, endpoint : Endpoint]
SchedulerItem == [complete : BOOLEAN, name : Name, jobworkerp : Name, columns : Columns]
ListenerItem ==
    [complete : BOOLEAN, name : Name, listen : Name, jobworkerp : Name, columns : Columns]

WorkflowSettingFile ==
    [jobworkerp : SUBSET ServerItem, schedulers : SUBSET SchedulerItem,
     listeners : SUBSET ListenerItem]

\* Files are finite, and so are the numbers of writes that are looked at.
ASSUME ConfigTransferAssumption ==
    /\ \A f \in File :
          /\ f \in WorkflowSettingFile
          /\ IsFiniteSet(f.jobworkerp)
          /\ IsFiniteSet(f.schedulers) /\ IsFiniteSet(f.listeners)
    /\ Requests \in Nat

SaysWhatToRun(item) == TargetOf(item.columns) # {}

\* Mutant: as before schedulers were validated.
ValidateTomlConfigWithoutSchedulers(f) ==
    /\ f.jobworkerp # {}
    /\ UniqueNames(f.jobworkerp)
    /\ \A s \in f.jobworkerp : s.endpoint \in Parsable
    /\ \A l \in f.listeners : SaysWhatToRun(l)

ValidateTomlConfig(f) ==
    /\ f.jobworkerp # {}
    /\ UniqueNames(f.jobworkerp)
    /\ \A s \in f.jobworkerp : s.endpoint \in Parsable
    /\ \A l \in f.listeners \cup f.schedulers : SaysWhatToRun(l)

-----------------------------------------------------------------------------
(* The other reader of such files: the conductor without a database *)

ServerNames(f) == {s.name : s \in f.jobworkerp}

\* Mutant: as before schedulers could run workers.
SchedulerSettingOfWorkflow(f, s) ==
    /\ s.complete /\ s.columns.url # NoText
    /\ s.jobworkerp \in ServerNames(f)

SchedulerSetting(f, s) ==
    /\ s.complete /\ SaysWhatToRun(s)
    /\ s.jobworkerp \in ServerNames(f)

JobResultListenerSetting(f, l) ==
    /\ l.complete /\ SaysWhatToRun(l)
    /\ {l.jobworkerp, l.listen} \subseteq ServerNames(f)

\* All items have to be usable; of servers of one name the last counts. A
\* client is made for every server: connects are the endpoints for which the
\* client library makes one, by its own reading of an address.
LoadFromToml(f, connects) ==
    /\ \A s \in f.jobworkerp : s.endpoint \in connects
    /\ \A s \in f.schedulers : SchedulerSetting(f, s)
    /\ \A l \in f.listeners : JobResultListenerSetting(f, l)

-----------------------------------------------------------------------------
(* Export *)

Selected(rows, enabled_only) == {r \in rows : enabled_only => r.enabled}

ServerItems(enabled_only) ==
    {[name |-> r.name, endpoint |-> r.endpoint] :
        r \in Selected(jobworkerp_server, enabled_only)}

NameOf(id) == (CHOOSE s \in Find(jobworkerp_server, id) : TRUE).name

Joins(id) == Find(jobworkerp_server, id) # {}

\* Mutant: a row whose server is gone is exported with the name of another.
SchedulerItemsUnjoined(enabled_only) ==
    {[complete |-> TRUE, name |-> r.name, columns |-> r.columns,
      jobworkerp |-> IF Joins(r.server) THEN NameOf(r.server) ELSE r.name] :
        r \in Selected(cron_scheduler, enabled_only)}

\* JOIN: a row whose server is gone is left out, while one whose server is
\* disabled is not.
SchedulerItems(enabled_only) ==
    {[complete |-> TRUE, name |-> r.name, jobworkerp |-> NameOf(r.server),
      columns |-> r.columns] :
        r \in {s \in Selected(cron_scheduler, enabled_only) : Joins(s.server)}}

ListenerItems(enabled_only) ==
    {[complete |-> TRUE, name |-> r.name, listen |-> NameOf(r.listen),
      jobworkerp |-> NameOf(r.process), columns |-> r.columns] :
        r \in {s \in Selected(worker_result_handler, enabled_only) :
                  Joins(s.listen) /\ Joins(s.process)}}

ExportTomlConfig(enabled_only) ==
    [jobworkerp |-> ServerItems(enabled_only),
     schedulers |-> SchedulerItems(enabled_only),
     listeners |-> ListenerItems(enabled_only)]

-----------------------------------------------------------------------------
(* Import *)

\* Every item with an id for its row, from first on.
Numbered(items, first) ==
    LET order == SetToSeq(items)
    IN {<<first + i - 1, order[i]>> : i \in DOMAIN order}

ImportedServer(id, s) ==
    [id |-> id, name |-> s.name, endpoint |-> Normal[s.endpoint], enabled |-> TRUE]

\* In worker mode the workflow columns are cleared.
ImportedColumns(c) ==
    IF c.worker_name # NoText THEN [c EXCEPT !.url = NoText, !.channel = NoText] ELSE c

\* A listener in workflow mode loses its method too.
ImportedListenerColumns(c) ==
    IF c.worker_name # NoText THEN ImportedColumns(c) ELSE [c EXCEPT !.using = NoText]

\* Whether every name an item refers to is that of a server.
Resolves(servers, item) ==
    /\ item.complete
    /\ FindByName(servers, item.jobworkerp) # {}
    /\ "listen" \in DOMAIN item => FindByName(servers, item.listen) # {}

IdOf(servers, name) == (CHOOSE s \in FindByName(servers, name) : TRUE).id

\* Mutant: the two servers of a listener are exchanged.
ImportedListenerSwapped(servers, id, l) ==
    [id |-> id, name |-> l.name, listen |-> IdOf(servers, l.jobworkerp),
     process |-> IdOf(servers, l.listen), columns |-> ImportedListenerColumns(l.columns),
     enabled |-> TRUE]

ImportedListener(servers, id, l) ==
    [id |-> id, name |-> l.name, listen |-> IdOf(servers, l.listen),
     process |-> IdOf(servers, l.jobworkerp), columns |-> ImportedListenerColumns(l.columns),
     enabled |-> TRUE]

ImportedScheduler(servers, id, s) ==
    [id |-> id, name |-> s.name, server |-> IdOf(servers, s.jobworkerp),
     columns |-> ImportedColumns(s.columns), enabled |-> TRUE]

\* Mutant: ids start again once the tables are cleared.
FirstIdRestarted(overwrite) == IF overwrite THEN 1 ELSE nextId

FirstId(overwrite) == nextId

Kept(rows, overwrite) == IF overwrite THEN {} ELSE rows

ServersAfter(f, overwrite) ==
    Kept(jobworkerp_server, overwrite) \cup
        {ImportedServer(n[1], n[2]) : n \in Numbered(f.jobworkerp, FirstId(overwrite))}

\* Names are looked up in the whole table, the kept and the new rows.
SchedulersAfter(f, overwrite) ==
    LET servers == ServersAfter(f, overwrite)
        first == FirstId(overwrite) + Cardinality(f.jobworkerp)
    IN Kept(cron_scheduler, overwrite) \cup
        {ImportedScheduler(servers, n[1], n[2]) : n \in Numbered(f.schedulers, first)}

ListenersAfter(f, overwrite) ==
    LET servers == ServersAfter(f, overwrite)
        first == FirstId(overwrite) + Cardinality(f.jobworkerp) + Cardinality(f.schedulers)
    IN Kept(worker_result_handler, overwrite) \cup
        {ImportedListener(servers, n[1], n[2]) : n \in Numbered(f.listeners, first)}

\* Servers come first, then what refers to them; each name has to be unique
\* within its table. Any error rolls the whole transaction back.
Importable(f, overwrite) ==
    /\ ValidateTomlConfig(f)
    /\ UniqueNames(ServersAfter(f, overwrite))
    /\ \A item \in f.schedulers \cup f.listeners :
          Resolves(ServersAfter(f, overwrite), item)
    /\ UniqueNames(SchedulersAfter(f, overwrite))
    /\ UniqueNames(ListenersAfter(f, overwrite))

\* Slack handlers are not in a file, and keep the server ids they have.
ImportToml(f, overwrite) ==
    /\ Importable(f, overwrite)
    /\ jobworkerp_server' = ServersAfter(f, overwrite)
    /\ cron_scheduler' = SchedulersAfter(f, overwrite)
    /\ worker_result_handler' = ListenersAfter(f, overwrite)
    /\ nextId' = FirstId(overwrite) + Cardinality(f.jobworkerp)
                    + Cardinality(f.schedulers) + Cardinality(f.listeners)
    /\ nextId' <= MaxId + 1
    /\ UNCHANGED slack_event_handler

ClearAllConfigs ==
    /\ jobworkerp_server' = {} /\ cron_scheduler' = {} /\ worker_result_handler' = {}
    /\ UNCHANGED <<slack_event_handler, nextId>>

-----------------------------------------------------------------------------
(* Specification *)

Init ==
    /\ jobworkerp_server = {} /\ cron_scheduler = {}
    /\ worker_result_handler = {} /\ slack_event_handler = {}
    /\ nextId = 1
    /\ file \in File
    /\ steps = 0

\* Clients refer to servers that exist when they write.
Known == {s.id : s \in jobworkerp_server}
CronRequests == {d \in CronData : d.server \in Known}
HandlerRequests == {d \in HandlerData : d.listen \in Known /\ d.process \in Known}

ServerWrite ==
    \/ \E d \in ServerData :
        \/ CreateJobworkerpServer(d)
        \/ \E r \in jobworkerp_server : UpdateJobworkerpServer(r.id, d)
    \/ \E r \in jobworkerp_server : DeleteJobworkerpServer(r.id)

CronWrite ==
    \/ \E d \in CronRequests :
        \/ CreateCronScheduler(d)
        \/ \E r \in cron_scheduler : UpdateCronScheduler(r.id, d)
    \/ \E r \in cron_scheduler : DeleteCronScheduler(r.id)

HandlerWrite ==
    \/ \E d \in HandlerRequests :
        \/ CreateWorkerResultHandler(d)
        \/ \E r \in worker_result_handler : UpdateWorkerResultHandler(r.id, d)
    \/ \E r \in worker_result_handler : DeleteWorkerResultHandler(r.id)

SlackWrite ==
    \/ \E d \in CronRequests :
        \/ CreateSlackEventHandler(d)
        \/ \E r \in slack_event_handler : UpdateSlackEventHandler(r.id, d)
    \/ \E r \in slack_event_handler : DeleteSlackEventHandler(r.id)

Transfer == ClearAllConfigs \/ \E overwrite \in BOOLEAN : ImportToml(file, overwrite)

Write ==
    /\ steps < Requests
    /\ steps' = steps + 1
    /\ ServerWrite \/ CronWrite \/ HandlerWrite \/ SlackWrite \/ Transfer
    /\ UNCHANGED file

Export ==
    /\ \E enabled_only \in BOOLEAN : file' = ExportTomlConfig(enabled_only)
    /\ UNCHANGED <<tables, nextId, steps>>

Next == Write \/ Export

Spec == Init /\ [][Next]_vars

-----------------------------------------------------------------------------
(* Properties *)

UniqueIds(rows) == \A r, s \in rows : r.id = s.id => r = s

\* Rows have the shape of their table, ids and names are unique in it, and ids
\* are below the next one.
TypeOK ==
    /\ jobworkerp_server \in SUBSET ServerRow
    /\ cron_scheduler \in SUBSET CronRow
    /\ worker_result_handler \in SUBSET HandlerRow
    /\ slack_event_handler \in SUBSET SlackRow
    /\ nextId \in 1 .. MaxId + 1
    /\ \A t \in {jobworkerp_server, cron_scheduler, worker_result_handler,
                 slack_event_handler} :
          UniqueIds(t) /\ UniqueNames(t) /\ \A r \in t : r.id < nextId

\* Whichever way a scheduler or handler came into its table, by requests of old
\* and new clients or from a file, its columns name one thing to run, a workflow
\* or a worker, and never both (the oneof execution_target of the proto files).
EveryRowRunsOneThing ==
    \A r \in cron_scheduler \cup worker_result_handler \cup slack_event_handler :
        (r.columns.url # NoText) # (r.columns.worker_name # NoText)

\* What a file says to run, and where, whatever its wording.
Meaning(f) ==
    [servers |-> {[name |-> s.name, endpoint |-> Normal[s.endpoint]] : s \in f.jobworkerp},
     schedulers |-> {<<s.name, s.jobworkerp, TargetOf(s.columns)>> : s \in f.schedulers},
     listeners |->
        {<<l.name, l.listen, l.jobworkerp, TargetOf(l.columns)>> : l \in f.listeners}]

\* An overwriting import leaves exactly the configuration the file describes:
\* exporting it again says the same, for files written by users and for exports
\* that later writes have made obsolete.
ImportsWhatTheFileSays ==
    [][ImportToml(file, TRUE) => Meaning(ExportTomlConfig(FALSE)') = Meaning(file)]_vars

\* An export can be imported again over the configuration unless no server is
\* exported, the address of one cannot be read back, or an enabled row runs on a
\* disabled server: nothing else stands in the way, neither names nor rows whose
\* server is gone.
ReimportFailsOnlyForServers ==
    \A enabled_only \in BOOLEAN :
        LET servers == Selected(jobworkerp_server, enabled_only)
            Left(id) == Find(jobworkerp_server, id) \ servers
        IN Importable(ExportTomlConfig(enabled_only), TRUE) <=>
              /\ servers # {}
              /\ \A s \in servers : s.endpoint \in Parsable
              /\ \A r \in Selected(cron_scheduler, enabled_only) : Left(r.server) = {}
              /\ \A r \in Selected(worker_result_handler, enabled_only) :
                    Joins(r.listen) /\ Joins(r.process)
                        => Left(r.listen) = {} /\ Left(r.process) = {}

\* The two readers of a file agree on its items: of what can be imported over a
\* configuration, exports of any rows included, only the address of a server can
\* keep the conductor from running it without a database. Addresses are read by
\* two parsers (Parsable is that of the import); nothing is said of these.
ImportableFilesLoad ==
    \A connects \in SUBSET Endpoint :
        Importable(file, TRUE) /\ {s.endpoint : s \in file.jobworkerp} \subseteq connects
            => LoadFromToml(file, connects)

\* A reference into the server table that dangles, after a delete or an
\* overwriting import, dangles until the row itself is written again: it never
\* comes to mean another server. That is how an overwriting import leaves every
\* Slack handler.
NoReferenceIsRetargeted ==
    [][/\ \A r \in cron_scheduler \cup slack_event_handler :
             r \in cron_scheduler' \cup slack_event_handler' /\ ~ Joins(r.server)
                => ~ Joins(r.server)'
       /\ ImportToml(file, TRUE) => \A r \in slack_event_handler' : ~ Joins(r.server)']_vars

=============================================================================
