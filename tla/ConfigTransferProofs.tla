------------------------- MODULE ConfigTransferProofs -------------------------
(* Theorems about ConfigTransfer, for every set of names, addresses and files  *)
(* and any number of writes.                                                   *)
EXTENDS ConfigTransfer, FiniteSetTheorems, TLAPS

\* A finite set can be counted, each element once.
LEMMA SetToSeqCounts ==
    ASSUME NEW S, IsFiniteSet(S)
    PROVE  /\ Cardinality(S) \in Nat
           /\ SetToSeq(S) \in [1 .. Cardinality(S) -> S]
           /\ \A i, j \in 1 .. Cardinality(S) : SetToSeq(S)[i] = SetToSeq(S)[j] => i = j
           /\ \A x \in S : \E i \in 1 .. Cardinality(S) : SetToSeq(S)[i] = x
<1> DEFINE n == Cardinality(S)
           order == SetToSeq(S)
<1>1. n \in Nat /\ ExistsBijection(1 .. n, S)
  BY FS_CardinalityType
<1>2. \E f \in [1 .. n -> S] : IsInjective(f)
  BY <1>1 DEF ExistsBijection, Bijection, Injection, IsInjective
<1>3. order \in [1 .. n -> S] /\ IsInjective(order)
  BY <1>2 DEF SetToSeq
<1> HIDE DEF order
<1>4. \A i, j \in 1 .. n : order[i] = order[j] => i = j
  BY <1>3 DEF IsInjective
<1>5. order \in Injection(1 .. n, S)
  BY <1>3, <1>4 DEF Injection, IsInjective
<1>6. Cardinality(1 .. n) = n
  BY <1>1, FS_Interval
<1>7. order \in Surjection(1 .. n, S)
  BY <1>5, <1>6, FS_Injection
<1>8. \A x \in S : \E i \in 1 .. n : order[i] = x
  BY <1>7 DEF Surjection
<1>9. QED
  BY <1>1, <1>3, <1>4, <1>8 DEF order

\* Numbering gives every item one number, and no number or item twice.
LEMMA NumberedOnce ==
    ASSUME NEW items, IsFiniteSet(items), NEW first \in Nat
    PROVE  /\ \A m \in Numbered(items, first) :
                 /\ m[1] \in Nat /\ first <= m[1]
                 /\ m[1] < first + Cardinality(items)
                 /\ m[2] \in items
           /\ \A m, n \in Numbered(items, first) :
                 m[1] = n[1] \/ m[2] = n[2] => m = n
           /\ \A x \in items : \E m \in Numbered(items, first) : m[2] = x
<1> DEFINE order == SetToSeq(items)
<1>1. /\ Cardinality(items) \in Nat
      /\ order \in [1 .. Cardinality(items) -> items]
      /\ \A i, j \in 1 .. Cardinality(items) : order[i] = order[j] => i = j
      /\ \A x \in items : \E i \in 1 .. Cardinality(items) : order[i] = x
  BY SetToSeqCounts
<1>2. Numbered(items, first) =
         {<<first + i - 1, order[i]>> : i \in 1 .. Cardinality(items)}
  BY <1>1 DEF Numbered
<1> HIDE DEF order
<1>3. ASSUME NEW m \in Numbered(items, first)
      PROVE  \E i \in 1 .. Cardinality(items) :
                m = <<first + i - 1, order[i]>> /\ m[1] = first + i - 1 /\ m[2] = order[i]
  BY <1>2
<1>4. ASSUME NEW m \in Numbered(items, first)
      PROVE  /\ m[1] \in Nat /\ first <= m[1]
             /\ m[1] < first + Cardinality(items)
             /\ m[2] \in items
  <2>1. PICK i \in 1 .. Cardinality(items) : m[1] = first + i - 1 /\ m[2] = order[i]
    BY <1>3
  <2>2. m[1] \in Nat /\ first <= m[1] /\ m[1] < first + Cardinality(items)
    BY <1>1, <2>1
  <2>3. QED
    BY <1>1, <2>1, <2>2
<1>5. ASSUME NEW m \in Numbered(items, first), NEW n \in Numbered(items, first),
             m[1] = n[1] \/ m[2] = n[2]
      PROVE  m = n
  <2>1. PICK i \in 1 .. Cardinality(items) :
          m = <<first + i - 1, order[i]>> /\ m[1] = first + i - 1 /\ m[2] = order[i]
    BY <1>3
  <2>2. PICK j \in 1 .. Cardinality(items) :
          n = <<first + j - 1, order[j]>> /\ n[1] = first + j - 1 /\ n[2] = order[j]
    BY <1>3
  <2>3. i = j
    BY <1>1, <1>5, <2>1, <2>2
  <2>4. QED
    BY <2>1, <2>2, <2>3
<1>6. ASSUME NEW x \in items PROVE \E m \in Numbered(items, first) : m[2] = x
  <2>1. PICK i \in 1 .. Cardinality(items) : order[i] = x
    BY <1>1
  <2>2. <<first + i - 1, order[i]>> \in Numbered(items, first)
    BY <1>2
  <2>3. QED
    BY <2>1, <2>2
<1>7. QED
  BY <1>4, <1>5, <1>6

-----------------------------------------------------------------------------
(* The invariant *)

\* The columns name one thing to run.
OneThing(c) == (c.url # NoText) # (c.worker_name # NoText)

\* What may be in a table while ids from n on have not been given: rows that run
\* one thing and refer to ids that were given.
ServerRows(n) == {r \in ServerRow : r.id < n}
CronRows(n) == {r \in CronRow : r.id < n /\ r.server < n /\ OneThing(r.columns)}
HandlerRows(n) ==
    {r \in HandlerRow :
        r.id < n /\ r.listen < n /\ r.process < n /\ OneThing(r.columns)}

Sound(t, R) == t \in SUBSET R /\ UniqueIds(t) /\ UniqueNames(t)

TableInv ==
    /\ nextId \in 1 .. MaxId + 1
    /\ Sound(jobworkerp_server, ServerRows(nextId))
    /\ Sound(cron_scheduler, CronRows(nextId))
    /\ Sound(worker_result_handler, HandlerRows(nextId))
    /\ Sound(slack_event_handler, CronRows(nextId))

FiniteFile(f) ==
    /\ f \in WorkflowSettingFile
    /\ IsFiniteSet(f.jobworkerp)
    /\ IsFiniteSet(f.schedulers) /\ IsFiniteSet(f.listeners)

TransferInv == TableInv /\ FiniteFile(file)

\* The invariant holds initially.
LEMMA TransferInit == Init => TransferInv
BY ConfigTransferAssumption, ConfigTablesAssumption
   DEF Init, TransferInv, TableInv, FiniteFile, Sound, UniqueIds, UniqueNames

\* The invariant contains the properties of the tables.
LEMMA TableInvProperties == TableInv => TypeOK /\ EveryRowRunsOneThing
BY DEF TableInv, Sound, ServerRows, CronRows, HandlerRows, TypeOK, SlackRow,
       EveryRowRunsOneThing, OneThing

\* Ids are natural numbers, and there are more to give later.
LEMMA RowsGrow ==
    ASSUME NEW n \in Nat, NEW m \in Nat, n <= m
    PROVE  /\ ServerRows(n) \subseteq ServerRows(m)
           /\ CronRows(n) \subseteq CronRows(m)
           /\ HandlerRows(n) \subseteq HandlerRows(m)
BY DEF ServerRows, CronRows, HandlerRows, ServerRow, CronRow, HandlerRow, Id

-----------------------------------------------------------------------------
(* Statements *)

\* An INSERT with a new id keeps ids unique.
LEMMA InsertSound ==
    ASSUME NEW t, NEW R, NEW Q, NEW row \in Q, Sound(t, R), R \subseteq Q,
           \A r \in t : r.id # row.id, UniqueNames(Inserted(t, row))
    PROVE  Sound(Inserted(t, row), Q)
BY DEF Sound, Inserted, UniqueIds

\* An UPDATE replaces a row by one of the same id.
LEMMA UpdateSound ==
    ASSUME NEW t, NEW R, NEW row, \A r \in t : r.id = row.id => row \in R,
           Sound(t, R), UniqueNames(Updated(t, row))
    PROVE  Sound(Updated(t, row), R)
BY DEF Sound, Updated, UniqueIds

\* A DELETE keeps what is left.
LEMMA DeleteSound ==
    ASSUME NEW t, NEW R, NEW id, Sound(t, R)
    PROVE  Sound(Without(t, id), R)
BY DEF Sound, Without, UniqueIds, UniqueNames

\* A valid target is stored in columns that name one thing.
LEMMA FlattenedRunsOneThing ==
    ASSUME NEW t \in ExecutionTarget, ValidExecutionTarget(t)
    PROVE  FlattenExecutionTarget(t) \in Columns /\ OneThing(FlattenExecutionTarget(t))
BY DEF ExecutionTarget, ValidExecutionTarget, FlattenExecutionTarget, Columns, Text,
       OneThing

\* The rows requests are made into.
LEMMA RequestRows ==
    ASSUME NEW n \in Nat, NEW id \in Id, id < n
    PROVE  /\ \A d \in ServerData : JobworkerpServerRow(id, d) \in ServerRows(n)
           /\ \A d \in CronData :
                 ValidExecutionTarget(d.target) /\ d.server < n
                    => CronSchedulerRow(id, d) \in CronRows(n)
           /\ \A d \in HandlerData :
                 ValidExecutionTarget(d.target) /\ d.listen < n /\ d.process < n
                    => WorkerResultHandlerRow(id, d) \in HandlerRows(n)
<1>1. ASSUME NEW d \in ServerData PROVE JobworkerpServerRow(id, d) \in ServerRows(n)
  BY DEF ServerData, JobworkerpServerRow, ServerRows, ServerRow
<1>2. ASSUME NEW d \in CronData, ValidExecutionTarget(d.target), d.server < n
      PROVE  CronSchedulerRow(id, d) \in CronRows(n)
  BY <1>2, FlattenedRunsOneThing DEF CronData, CronSchedulerRow, CronRows, CronRow
<1>3. ASSUME NEW d \in HandlerData, ValidExecutionTarget(d.target),
             d.listen < n, d.process < n
      PROVE  WorkerResultHandlerRow(id, d) \in HandlerRows(n)
  BY <1>3, FlattenedRunsOneThing
     DEF HandlerData, WorkerResultHandlerRow, HandlerRows, HandlerRow
<1>4. QED
  BY <1>1, <1>2, <1>3

\* Requests refer to servers by ids that were given.
LEMMA RequestsRefer ==
    ASSUME TableInv
    PROVE  /\ \A d \in CronRequests : d \in CronData /\ d.server < nextId
           /\ \A d \in HandlerRequests :
                 d \in HandlerData /\ d.listen < nextId /\ d.process < nextId
BY DEF TableInv, Sound, ServerRows, CronRequests, HandlerRequests, Known

\* Ids of rows are ids.
LEMMA RowIds ==
    ASSUME TableInv
    PROVE  /\ nextId \in Nat /\ nextId + 1 \in Nat /\ MaxId \in Nat
           /\ \A r \in jobworkerp_server \cup cron_scheduler
                          \cup worker_result_handler \cup slack_event_handler :
                 r.id \in Id /\ r.id < nextId
BY ConfigTablesAssumption
   DEF TableInv, Sound, ServerRows, CronRows, HandlerRows, ServerRow, CronRow,
       HandlerRow, Id

\* A new id is an id no row has.
LEMMA FreshId ==
    ASSUME TableInv, NewId
    PROVE  /\ nextId \in Id /\ nextId' = nextId + 1 /\ nextId' \in 1 .. MaxId + 1
           /\ \A r \in jobworkerp_server \cup cron_scheduler
                          \cup worker_result_handler \cup slack_event_handler :
                 r.id # nextId
BY RowIds, ConfigTablesAssumption DEF NewId, TableInv, Id

\* What is not written stays sound as ids are given.
LEMMA TablesGrow ==
    ASSUME TableInv, NEW n \in Nat, nextId <= n
    PROVE  /\ Sound(jobworkerp_server, ServerRows(n))
           /\ Sound(cron_scheduler, CronRows(n))
           /\ Sound(worker_result_handler, HandlerRows(n))
           /\ Sound(slack_event_handler, CronRows(n))
BY RowIds, RowsGrow DEF TableInv, Sound

\* A write of the server table keeps the tables sound.
LEMMA ServerWriteSound ==
    ASSUME TableInv, ServerWrite
    PROVE  TableInv'
<1>1. ASSUME NEW d \in ServerData, CreateJobworkerpServer(d) PROVE TableInv'
  <2> DEFINE row == JobworkerpServerRow(nextId, d)
  <2>1. NewId /\ jobworkerp_server' = Inserted(jobworkerp_server, row)
           /\ UniqueNames(Inserted(jobworkerp_server, row)) /\ OnlyServers
    BY <1>1 DEF CreateJobworkerpServer
  <2>2. row \in ServerRows(nextId + 1) /\ row.id = nextId
    BY <2>1, RowIds, FreshId, RequestRows DEF JobworkerpServerRow
  <2> HIDE DEF row
  <2>3. Sound(jobworkerp_server', ServerRows(nextId + 1))
    BY <2>1, <2>2, FreshId, RowIds, RowsGrow, InsertSound DEF TableInv
  <2>4. QED
    BY <2>1, <2>3, FreshId, RowIds, TablesGrow DEF TableInv, OnlyServers
<1>2. ASSUME NEW d \in ServerData, NEW r \in jobworkerp_server,
             UpdateJobworkerpServer(r.id, d)
      PROVE  TableInv'
  <2> DEFINE row == JobworkerpServerRow(r.id, d)
  <2>1. row \in ServerRows(nextId)
    BY RowIds, RequestRows
  <2> HIDE DEF row
  <2>2. Sound(jobworkerp_server', ServerRows(nextId))
    BY <1>2, <2>1, UpdateSound
       DEF UpdateJobworkerpServer, UpdatedJobworkerpServer, TableInv, row
  <2>3. QED
    BY <1>2, <2>2 DEF UpdateJobworkerpServer, OnlyServers, TableInv
<1>3. ASSUME NEW r \in jobworkerp_server, DeleteJobworkerpServer(r.id)
      PROVE  TableInv'
  BY <1>3, DeleteSound
     DEF DeleteJobworkerpServer, WithoutJobworkerpServer, OnlyServers, TableInv
<1>4. QED
  BY <1>1, <1>2, <1>3 DEF ServerWrite

\* A write of the scheduler table keeps the tables sound.
LEMMA CronWriteSound ==
    ASSUME TableInv, CronWrite
    PROVE  TableInv'
<1>1. ASSUME NEW d \in CronRequests, CreateCronScheduler(d) PROVE TableInv'
  <2> DEFINE row == CronSchedulerRow(nextId, d)
  <2>1. /\ NewId /\ ValidExecutionTarget(d.target)
        /\ cron_scheduler' = Inserted(cron_scheduler, row)
        /\ UniqueNames(Inserted(cron_scheduler, row)) /\ OnlyCronSchedulers
    BY <1>1 DEF CreateCronScheduler
  <2>2. row \in CronRows(nextId + 1) /\ row.id = nextId
    <3>1. d \in CronData /\ d.server < nextId + 1
      BY RowIds, RequestsRefer DEF CronData, Id
    <3>2. QED
      BY <2>1, <3>1, RowIds, FreshId, RequestRows DEF CronSchedulerRow
  <2> HIDE DEF row
  <2>3. Sound(cron_scheduler', CronRows(nextId + 1))
    BY <2>1, <2>2, FreshId, RowIds, RowsGrow, InsertSound DEF TableInv
  <2>4. QED
    BY <2>1, <2>3, FreshId, RowIds, TablesGrow DEF TableInv, OnlyCronSchedulers
<1>2. ASSUME NEW d \in CronRequests, NEW r \in cron_scheduler,
             UpdateCronScheduler(r.id, d)
      PROVE  TableInv'
  <2> DEFINE row == CronSchedulerRow(r.id, d)
  <2>1. row \in CronRows(nextId)
    BY <1>2, RowIds, RequestRows, RequestsRefer DEF UpdateCronScheduler
  <2> HIDE DEF row
  <2>2. Sound(cron_scheduler', CronRows(nextId))
    BY <1>2, <2>1, UpdateSound
       DEF UpdateCronScheduler, UpdatedCronScheduler, TableInv, row
  <2>3. QED
    BY <1>2, <2>2 DEF UpdateCronScheduler, OnlyCronSchedulers, TableInv
<1>3. ASSUME NEW r \in cron_scheduler, DeleteCronScheduler(r.id)
      PROVE  TableInv'
  BY <1>3, DeleteSound
     DEF DeleteCronScheduler, WithoutCronScheduler, OnlyCronSchedulers, TableInv
<1>4. QED
  BY <1>1, <1>2, <1>3 DEF CronWrite

\* A write of the handler table keeps the tables sound.
LEMMA HandlerWriteSound ==
    ASSUME TableInv, HandlerWrite
    PROVE  TableInv'
<1>1. ASSUME NEW d \in HandlerRequests, CreateWorkerResultHandler(d) PROVE TableInv'
  <2> DEFINE row == WorkerResultHandlerRow(nextId, d)
  <2>1. /\ NewId /\ ValidExecutionTarget(d.target)
        /\ worker_result_handler' = Inserted(worker_result_handler, row)
        /\ UniqueNames(Inserted(worker_result_handler, row)) /\ OnlyWorkerResultHandlers
    BY <1>1 DEF CreateWorkerResultHandler
  <2>2. row \in HandlerRows(nextId + 1) /\ row.id = nextId
    <3>1. d \in HandlerData /\ d.listen < nextId + 1 /\ d.process < nextId + 1
      BY RowIds, RequestsRefer DEF HandlerData, Id
    <3>2. QED
      BY <2>1, <3>1, RowIds, FreshId, RequestRows DEF WorkerResultHandlerRow
  <2> HIDE DEF row
  <2>3. Sound(worker_result_handler', HandlerRows(nextId + 1))
    BY <2>1, <2>2, FreshId, RowIds, RowsGrow, InsertSound DEF TableInv
  <2>4. QED
    BY <2>1, <2>3, FreshId, RowIds, TablesGrow DEF TableInv, OnlyWorkerResultHandlers
<1>2. ASSUME NEW d \in HandlerRequests, NEW r \in worker_result_handler,
             UpdateWorkerResultHandler(r.id, d)
      PROVE  TableInv'
  <2> DEFINE row == WorkerResultHandlerRow(r.id, d)
  <2>1. row \in HandlerRows(nextId)
    BY <1>2, RowIds, RequestRows, RequestsRefer DEF UpdateWorkerResultHandler
  <2> HIDE DEF row
  <2>2. Sound(worker_result_handler', HandlerRows(nextId))
    BY <1>2, <2>1, UpdateSound
       DEF UpdateWorkerResultHandler, UpdatedWorkerResultHandler, TableInv, row
  <2>3. QED
    BY <1>2, <2>2 DEF UpdateWorkerResultHandler, OnlyWorkerResultHandlers, TableInv
<1>3. ASSUME NEW r \in worker_result_handler, DeleteWorkerResultHandler(r.id)
      PROVE  TableInv'
  BY <1>3, DeleteSound
     DEF DeleteWorkerResultHandler, WithoutWorkerResultHandler, OnlyWorkerResultHandlers, TableInv
<1>4. QED
  BY <1>1, <1>2, <1>3 DEF HandlerWrite

\* A write of the Slack handler table keeps the tables sound.
LEMMA SlackWriteSound ==
    ASSUME TableInv, SlackWrite
    PROVE  TableInv'
<1>1. ASSUME NEW d \in CronRequests, CreateSlackEventHandler(d) PROVE TableInv'
  <2>0. PICK e : e = [d EXCEPT !.enabled = TRUE]
    OBVIOUS
  <2> DEFINE row == SlackEventHandlerRow(nextId, e)
  <2>1. /\ NewId /\ ValidExecutionTarget(d.target)
        /\ slack_event_handler' = Inserted(slack_event_handler, row)
        /\ UniqueNames(Inserted(slack_event_handler, row)) /\ OnlySlackEventHandlers
    BY <1>1, <2>0 DEF CreateSlackEventHandler
  <2>2. row \in CronRows(nextId + 1) /\ row.id = nextId
    <3>1. d \in CronData /\ d.server < nextId + 1
      BY RowIds, RequestsRefer DEF CronData, Id
    <3>2. e \in CronData /\ e.server < nextId + 1 /\ ValidExecutionTarget(e.target)
      BY <2>0, <2>1, <3>1 DEF CronData
    <3>3. QED
      BY <2>1, <3>2, RowIds, FreshId, RequestRows
         DEF SlackEventHandlerRow, CronSchedulerRow
  <2> HIDE DEF row
  <2>3. Sound(slack_event_handler', CronRows(nextId + 1))
    BY <2>1, <2>2, FreshId, RowIds, RowsGrow, InsertSound DEF TableInv
  <2>4. QED
    BY <2>1, <2>3, FreshId, RowIds, TablesGrow DEF TableInv, OnlySlackEventHandlers
<1>2. ASSUME NEW d \in CronRequests, NEW r \in slack_event_handler,
             UpdateSlackEventHandler(r.id, d)
      PROVE  TableInv'
  <2> DEFINE row == SlackEventHandlerRow(r.id, d)
  <2>1. row \in CronRows(nextId)
    BY <1>2, RowIds, RequestRows, RequestsRefer
       DEF UpdateSlackEventHandler, SlackEventHandlerRow
  <2> HIDE DEF row
  <2>2. Sound(slack_event_handler', CronRows(nextId))
    BY <1>2, <2>1, UpdateSound
       DEF UpdateSlackEventHandler, UpdatedSlackEventHandler, TableInv, row
  <2>3. QED
    BY <1>2, <2>2 DEF UpdateSlackEventHandler, OnlySlackEventHandlers, TableInv
<1>3. ASSUME NEW r \in slack_event_handler, DeleteSlackEventHandler(r.id)
      PROVE  TableInv'
  BY <1>3, DeleteSound
     DEF DeleteSlackEventHandler, WithoutSlackEventHandler, OnlySlackEventHandlers, TableInv
<1>4. QED
  BY <1>1, <1>2, <1>3 DEF SlackWrite

-----------------------------------------------------------------------------
(* Import *)

\* What a file says to run is kept by either way to store it.
LEMMA ImportedColumnsSound ==
    ASSUME NEW c \in Columns, TargetOf(c) # {}
    PROVE  /\ ImportedColumns(c) \in Columns
           /\ OneThing(ImportedColumns(c))
           /\ TargetOf(ImportedColumns(c)) = TargetOf(c)
           /\ ImportedListenerColumns(c) \in Columns
           /\ OneThing(ImportedListenerColumns(c))
           /\ TargetOf(ImportedListenerColumns(c)) = TargetOf(c)
BY DEF Columns, Text, TargetOf, OneThing, ImportedColumns, ImportedListenerColumns

\* Rows with new ids may join what is kept of a table.
LEMMA JoinSound ==
    ASSUME NEW t, NEW R, NEW new, NEW overwrite \in BOOLEAN, Sound(t, R),
           new \subseteq R, UniqueIds(new), \A r \in t, q \in new : r.id # q.id,
           UniqueNames(Kept(t, overwrite) \cup new)
    PROVE  Sound(Kept(t, overwrite) \cup new, R)
<1>1. Kept(t, overwrite) \subseteq t
  BY DEF Kept
<1>2. QED
  BY <1>1 DEF Sound, UniqueIds

\* A name that is found leads to the id of a row.
LEMMA IdOfFound ==
    ASSUME NEW servers, NEW name, FindByName(servers, name) # {}
    PROVE  \E s \in servers : s.name = name /\ IdOf(servers, name) = s.id
BY DEF FindByName, IdOf

\* The ids an import gives: those of the servers, then those of the schedulers,
\* then those of the listeners.
LEMMA ImportCounts ==
    ASSUME TableInv, NEW f, FiniteFile(f), NEW overwrite \in BOOLEAN,
           ImportToml(f, overwrite)
    PROVE  /\ FirstId(overwrite) = nextId
           /\ nextId \in Nat /\ nextId > 0 /\ MaxId \in Nat
           /\ Cardinality(f.jobworkerp) \in Nat
           /\ Cardinality(f.schedulers) \in Nat
           /\ Cardinality(f.listeners) \in Nat
           /\ nextId' = nextId + Cardinality(f.jobworkerp)
                           + Cardinality(f.schedulers) + Cardinality(f.listeners)
           /\ nextId' \in 1 .. MaxId + 1
<1>1. /\ Cardinality(f.jobworkerp) \in Nat
      /\ Cardinality(f.schedulers) \in Nat
      /\ Cardinality(f.listeners) \in Nat
  BY FS_CardinalityType DEF FiniteFile
<1>2. nextId \in Nat /\ nextId > 0 /\ MaxId \in Nat
  BY ConfigTablesAssumption DEF TableInv
<1>3. QED
  BY <1>1, <1>2 DEF ImportToml, FirstId

\* The servers an import adds.
NewServers(f) == {ImportedServer(n[1], n[2]) : n \in Numbered(f.jobworkerp, nextId)}

LEMMA NewServersSound ==
    ASSUME TableInv, NEW f, FiniteFile(f), NEW overwrite \in BOOLEAN,
           ImportToml(f, overwrite)
    PROVE  /\ NewServers(f) \subseteq ServerRows(nextId')
           /\ UniqueIds(NewServers(f))
           /\ \A q \in NewServers(f) : q.id >= nextId
<1> DEFINE numbered == Numbered(f.jobworkerp, nextId)
<1>1. /\ \A m \in numbered :
            /\ m[1] \in Nat /\ nextId <= m[1]
            /\ m[1] < nextId + Cardinality(f.jobworkerp)
            /\ m[2] \in f.jobworkerp
      /\ \A m, n \in numbered : m[1] = n[1] => m = n
  BY ImportCounts, NumberedOnce DEF FiniteFile
<1> HIDE DEF numbered
<1>2. ASSUME NEW m \in numbered
      PROVE  m[1] \in Id /\ m[1] < nextId'
  BY <1>1, ImportCounts DEF Id
<1>3. ASSUME NEW m \in numbered
      PROVE  ImportedServer(m[1], m[2]) \in ServerRows(nextId')
  <2>1. m[2] \in ServerItem /\ m[2].endpoint \in Parsable
    BY <1>1 DEF FiniteFile, WorkflowSettingFile, ImportToml, Importable, ValidateTomlConfig
  <2>2. Normal[m[2].endpoint] \in Endpoint
    BY <2>1, ConfigTablesAssumption
  <2>3. QED
    BY <1>2, <2>1, <2>2 DEF ImportedServer, ServerRows, ServerRow, ServerItem
<1>4. UniqueIds(NewServers(f))
  <2> SUFFICES ASSUME NEW p \in NewServers(f), NEW q \in NewServers(f), p.id = q.id
               PROVE  p = q
    BY DEF UniqueIds
  <2>1. PICK m \in numbered : p = ImportedServer(m[1], m[2])
    BY DEF NewServers, numbered
  <2>2. PICK n \in numbered : q = ImportedServer(n[1], n[2])
    BY DEF NewServers, numbered
  <2>3. p.id = m[1] /\ q.id = n[1]
    BY <2>1, <2>2 DEF ImportedServer
  <2>4. m = n
    BY <1>1, <2>3
  <2>5. QED
    BY <2>1, <2>2, <2>4
<1>5. QED
  BY <1>1, <1>3, <1>4 DEF NewServers, ImportedServer, numbered

\* The servers after an import are sound.
LEMMA ServersAfterSound ==
    ASSUME TableInv, NEW f, FiniteFile(f), NEW overwrite \in BOOLEAN,
           ImportToml(f, overwrite)
    PROVE  Sound(ServersAfter(f, overwrite), ServerRows(nextId'))
<1>1. nextId <= nextId' /\ nextId' \in Nat
  BY ImportCounts
<1>2. ServersAfter(f, overwrite) = Kept(jobworkerp_server, overwrite) \cup NewServers(f)
  BY DEF ServersAfter, NewServers, FirstId
<1>3. \A r \in jobworkerp_server, q \in NewServers(f) : r.id # q.id
  <2>1. \A r \in jobworkerp_server : r.id \in Id /\ r.id < nextId
    BY RowIds
  <2>2. \A q \in NewServers(f) : q.id \in Id /\ q.id >= nextId
    BY NewServersSound DEF ServerRows, ServerRow
  <2>3. QED
    BY <2>1, <2>2, ImportCounts DEF Id
<1>4. UniqueNames(ServersAfter(f, overwrite))
  BY DEF ImportToml, Importable
<1>5. QED
  BY <1>1, <1>2, <1>3, <1>4, NewServersSound, TablesGrow, JoinSound

\* The schedulers an import adds, and the listeners.
NewSchedulers(f, servers) ==
    {ImportedScheduler(servers, n[1], n[2]) :
        n \in Numbered(f.schedulers, nextId + Cardinality(f.jobworkerp))}

NewListeners(f, servers) ==
    {ImportedListener(servers, n[1], n[2]) :
        n \in Numbered(f.listeners,
                       nextId + Cardinality(f.jobworkerp) + Cardinality(f.schedulers))}

\* What is imported is what is kept and what is new.
LEMMA AfterImport ==
    ASSUME NEW f, NEW overwrite \in BOOLEAN
    PROVE  /\ ServersAfter(f, overwrite) =
                 Kept(jobworkerp_server, overwrite) \cup NewServers(f)
           /\ SchedulersAfter(f, overwrite) =
                 Kept(cron_scheduler, overwrite)
                    \cup NewSchedulers(f, ServersAfter(f, overwrite))
           /\ ListenersAfter(f, overwrite) =
                 Kept(worker_result_handler, overwrite)
                    \cup NewListeners(f, ServersAfter(f, overwrite))
BY DEF ServersAfter, SchedulersAfter, ListenersAfter, NewServers, NewSchedulers,
       NewListeners, FirstId

\* A scheduler that is imported runs one thing on a server that has an id.
LEMMA ImportedSchedulerSound ==
    ASSUME TableInv, NEW f, FiniteFile(f), NEW overwrite \in BOOLEAN,
           ImportToml(f, overwrite), NEW s \in f.schedulers, NEW id \in Id, id < nextId'
    PROVE  ImportedScheduler(ServersAfter(f, overwrite), id, s) \in CronRows(nextId')
<1> DEFINE servers == ServersAfter(f, overwrite)
           server == IdOf(servers, s.jobworkerp)
           columns == ImportedColumns(s.columns)
<1>1. s \in SchedulerItem /\ s.columns \in Columns /\ s.name \in Name
  BY DEF FiniteFile, WorkflowSettingFile, SchedulerItem
<1>2. TargetOf(s.columns) # {} /\ FindByName(servers, s.jobworkerp) # {}
  BY DEF ImportToml, Importable, ValidateTomlConfig, SaysWhatToRun, Resolves
<1>3. servers \subseteq ServerRows(nextId')
  BY ServersAfterSound DEF Sound
<1> HIDE DEF servers
<1>4. server \in Id /\ server < nextId'
  BY <1>2, <1>3, IdOfFound DEF ServerRows, ServerRow
<1>5. columns \in Columns /\ OneThing(columns)
  BY <1>1, <1>2, ImportedColumnsSound
<1>6. ImportedScheduler(servers, id, s) =
         [id |-> id, name |-> s.name, server |-> server, columns |-> columns,
          enabled |-> TRUE]
  BY DEF ImportedScheduler
<1> HIDE DEF server, columns
<1>7. QED
  BY <1>1, <1>4, <1>5, <1>6 DEF CronRows, CronRow, servers

\* So does a listener, of its two servers.
LEMMA ImportedListenerSound ==
    ASSUME TableInv, NEW f, FiniteFile(f), NEW overwrite \in BOOLEAN,
           ImportToml(f, overwrite), NEW l \in f.listeners, NEW id \in Id, id < nextId'
    PROVE  ImportedListener(ServersAfter(f, overwrite), id, l) \in HandlerRows(nextId')
<1> DEFINE servers == ServersAfter(f, overwrite)
           listen == IdOf(servers, l.listen)
           process == IdOf(servers, l.jobworkerp)
           columns == ImportedListenerColumns(l.columns)
<1>1. l \in ListenerItem /\ l.columns \in Columns /\ l.name \in Name
         /\ "listen" \in DOMAIN l
  BY DEF FiniteFile, WorkflowSettingFile, ListenerItem
<1>2. /\ TargetOf(l.columns) # {}
      /\ FindByName(servers, l.jobworkerp) # {}
      /\ FindByName(servers, l.listen) # {}
  BY <1>1 DEF ImportToml, Importable, ValidateTomlConfig, SaysWhatToRun, Resolves
<1>3. servers \subseteq ServerRows(nextId')
  BY ServersAfterSound DEF Sound
<1> HIDE DEF servers
<1>4. listen \in Id /\ listen < nextId' /\ process \in Id /\ process < nextId'
  BY <1>2, <1>3, IdOfFound DEF ServerRows, ServerRow
<1>5. columns \in Columns /\ OneThing(columns)
  BY <1>1, <1>2, ImportedColumnsSound
<1>6. ImportedListener(servers, id, l) =
         [id |-> id, name |-> l.name, listen |-> listen, process |-> process,
          columns |-> columns, enabled |-> TRUE]
  BY DEF ImportedListener
<1> HIDE DEF listen, process, columns
<1>7. QED
  BY <1>1, <1>4, <1>5, <1>6 DEF HandlerRows, HandlerRow, servers

\* The schedulers after an import are sound.
LEMMA SchedulersAfterSound ==
    ASSUME TableInv, NEW f, FiniteFile(f), NEW overwrite \in BOOLEAN,
           ImportToml(f, overwrite)
    PROVE  Sound(SchedulersAfter(f, overwrite), CronRows(nextId'))
<1> DEFINE servers == ServersAfter(f, overwrite)
           first == nextId + Cardinality(f.jobworkerp)
           numbered == Numbered(f.schedulers, first)
           new == NewSchedulers(f, servers)
<1>1. first \in Nat /\ nextId <= first /\ first + Cardinality(f.schedulers) <= nextId'
         /\ nextId \in Nat /\ nextId' \in Nat /\ nextId <= nextId'
  BY ImportCounts
<1>2. /\ \A m \in numbered :
            /\ m[1] \in Nat /\ first <= m[1]
            /\ m[1] < first + Cardinality(f.schedulers)
            /\ m[2] \in f.schedulers
      /\ \A m, n \in numbered : m[1] = n[1] => m = n
  BY <1>1, NumberedOnce DEF FiniteFile
<1>3. new = {ImportedScheduler(servers, n[1], n[2]) : n \in numbered}
  BY DEF NewSchedulers
<1> HIDE DEF first, numbered, new
<1>4. ASSUME NEW m \in numbered
      PROVE  m[1] \in Id /\ nextId <= m[1] /\ m[1] < nextId'
  BY <1>1, <1>2, ImportCounts DEF Id
<1>5. ASSUME NEW p \in new
      PROVE  /\ p \in CronRows(nextId') /\ p.id \in Nat /\ nextId <= p.id
             /\ \E m \in numbered : p = ImportedScheduler(servers, m[1], m[2])
                                       /\ p.id = m[1]
  <2>1. PICK m \in numbered : p = ImportedScheduler(servers, m[1], m[2])
    BY <1>3
  <2>2. p.id = m[1]
    BY <2>1 DEF ImportedScheduler
  <2>3. p \in CronRows(nextId')
    BY <1>2, <1>4, <2>1, ImportedSchedulerSound
  <2>4. QED
    BY <1>2, <1>4, <2>1, <2>2, <2>3
<1>6. UniqueIds(new)
  BY <1>2, <1>5 DEF UniqueIds
<1>7. \A r \in cron_scheduler, q \in new : r.id # q.id
  <2>1. \A r \in cron_scheduler : r.id \in Nat /\ r.id < nextId
    BY RowIds DEF Id
  <2>2. QED
    BY <1>1, <1>5, <2>1
<1>8. UniqueNames(SchedulersAfter(f, overwrite))
  BY DEF ImportToml, Importable
<1>9. Sound(cron_scheduler, CronRows(nextId'))
  BY <1>1, TablesGrow
<1>10. SchedulersAfter(f, overwrite) = Kept(cron_scheduler, overwrite) \cup new
  BY AfterImport DEF new
<1>11. new \subseteq CronRows(nextId')
  BY <1>5
<1>12. QED
  BY <1>6, <1>7, <1>8, <1>9, <1>10, <1>11, JoinSound

\* The listeners after an import are sound.
LEMMA ListenersAfterSound ==
    ASSUME TableInv, NEW f, FiniteFile(f), NEW overwrite \in BOOLEAN,
           ImportToml(f, overwrite)
    PROVE  Sound(ListenersAfter(f, overwrite), HandlerRows(nextId'))
<1> DEFINE servers == ServersAfter(f, overwrite)
           first == nextId + Cardinality(f.jobworkerp) + Cardinality(f.schedulers)
           numbered == Numbered(f.listeners, first)
           new == NewListeners(f, servers)
<1>1. first \in Nat /\ nextId <= first /\ first + Cardinality(f.listeners) <= nextId'
         /\ nextId \in Nat /\ nextId' \in Nat /\ nextId <= nextId'
  BY ImportCounts
<1>2. /\ \A m \in numbered :
            /\ m[1] \in Nat /\ first <= m[1]
            /\ m[1] < first + Cardinality(f.listeners)
            /\ m[2] \in f.listeners
      /\ \A m, n \in numbered : m[1] = n[1] => m = n
  BY <1>1, NumberedOnce DEF FiniteFile
<1>3. new = {ImportedListener(servers, n[1], n[2]) : n \in numbered}
  BY DEF NewListeners
<1> HIDE DEF first, numbered, new
<1>4. ASSUME NEW m \in numbered
      PROVE  m[1] \in Id /\ nextId <= m[1] /\ m[1] < nextId'
  BY <1>1, <1>2, ImportCounts DEF Id
<1>5. ASSUME NEW p \in new
      PROVE  /\ p \in HandlerRows(nextId') /\ p.id \in Nat /\ nextId <= p.id
             /\ \E m \in numbered : p = ImportedListener(servers, m[1], m[2])
                                       /\ p.id = m[1]
  <2>1. PICK m \in numbered : p = ImportedListener(servers, m[1], m[2])
    BY <1>3
  <2>2. p.id = m[1]
    BY <2>1 DEF ImportedListener
  <2>3. p \in HandlerRows(nextId')
    BY <1>2, <1>4, <2>1, ImportedListenerSound
  <2>4. QED
    BY <1>2, <1>4, <2>1, <2>2, <2>3
<1>6. UniqueIds(new)
  BY <1>2, <1>5 DEF UniqueIds
<1>7. \A r \in worker_result_handler, q \in new : r.id # q.id
  <2>1. \A r \in worker_result_handler : r.id \in Nat /\ r.id < nextId
    BY RowIds DEF Id
  <2>2. QED
    BY <1>1, <1>5, <2>1
<1>8. UniqueNames(ListenersAfter(f, overwrite))
  BY DEF ImportToml, Importable
<1>9. Sound(worker_result_handler, HandlerRows(nextId'))
  BY <1>1, TablesGrow
<1>10. ListenersAfter(f, overwrite) = Kept(worker_result_handler, overwrite) \cup new
  BY AfterImport DEF new
<1>11. new \subseteq HandlerRows(nextId')
  BY <1>5
<1>12. QED
  BY <1>6, <1>7, <1>8, <1>9, <1>10, <1>11, JoinSound

\* An import keeps the tables sound.
LEMMA ImportSound ==
    ASSUME TableInv, NEW f, FiniteFile(f), NEW overwrite \in BOOLEAN,
           ImportToml(f, overwrite)
    PROVE  TableInv'
<1>1. nextId' \in 1 .. MaxId + 1 /\ nextId' \in Nat /\ nextId <= nextId'
  BY ImportCounts
<1>2. Sound(slack_event_handler, CronRows(nextId'))
  BY <1>1, TablesGrow
<1>3. Sound(jobworkerp_server', ServerRows(nextId'))
  BY ServersAfterSound DEF ImportToml
<1>4. Sound(cron_scheduler', CronRows(nextId'))
  BY SchedulersAfterSound DEF ImportToml
<1>5. Sound(worker_result_handler', HandlerRows(nextId'))
  BY ListenersAfterSound DEF ImportToml
<1>6. slack_event_handler' = slack_event_handler
  BY DEF ImportToml
<1>7. QED
  BY <1>1, <1>2, <1>3, <1>4, <1>5, <1>6 DEF TableInv

\* Clearing keeps the tables sound.
LEMMA ClearSound ==
    ASSUME TableInv, ClearAllConfigs
    PROVE  TableInv'
BY DEF TableInv, ClearAllConfigs, Sound, UniqueIds, UniqueNames

-----------------------------------------------------------------------------
(* Export *)

\* What a finite set is mapped onto is finite.
LEMMA ImageFinite ==
    ASSUME NEW S, IsFiniteSet(S), NEW T, NEW f \in [S -> T],
           \A y \in T : \E x \in S : f[x] = y
    PROVE  IsFiniteSet(T)
<1>1. f \in Surjection(S, T)
  BY DEF Surjection
<1>2. QED
  BY <1>1, FS_Surjection

\* Tables are finite, there being finitely many ids.
LEMMA TableFinite ==
    ASSUME NEW t, UniqueIds(t), \A r \in t : r.id \in Id
    PROVE  IsFiniteSet(t)
<1> DEFINE g == [r \in t |-> r.id]
<1>1. g \in Injection(t, Id)
  BY DEF Injection, IsInjective, UniqueIds
<1>2. IsFiniteSet(Id)
  BY ConfigTablesAssumption, FS_Interval DEF Id
<1>3. QED
  BY <1>1, <1>2, FS_Injection

\* What is selected of a table that is sound is finite.
LEMMA SelectedFinite ==
    ASSUME TableInv, NEW enabled_only
    PROVE  /\ IsFiniteSet(Selected(jobworkerp_server, enabled_only))
           /\ IsFiniteSet(Selected(cron_scheduler, enabled_only))
           /\ IsFiniteSet(Selected(worker_result_handler, enabled_only))
<1>1. /\ IsFiniteSet(jobworkerp_server) /\ IsFiniteSet(cron_scheduler)
      /\ IsFiniteSet(worker_result_handler)
  BY RowIds, TableFinite DEF TableInv, Sound
<1>2. /\ Selected(jobworkerp_server, enabled_only) \in SUBSET jobworkerp_server
      /\ Selected(cron_scheduler, enabled_only) \in SUBSET cron_scheduler
      /\ Selected(worker_result_handler, enabled_only) \in SUBSET worker_result_handler
  BY DEF Selected
<1>3. QED
  BY <1>1, <1>2, FS_Subset

\* A server that is there is found by its id and by its name, and it alone.
LEMMA FoundOnce ==
    ASSUME NEW servers, UniqueIds(servers), UniqueNames(servers), NEW s \in servers
    PROVE  /\ Find(servers, s.id) = {s}
           /\ FindByName(servers, s.name) = {s}
           /\ IdOf(servers, s.name) = s.id
<1>1. Find(servers, s.id) = {s}
  BY DEF UniqueIds, Find
<1>2. FindByName(servers, s.name) = {s}
  BY DEF UniqueNames, FindByName
<1>3. QED
  BY <1>1, <1>2 DEF IdOf

\* A reference that joins has the name of the one server it refers to.
LEMMA NameOfJoined ==
    ASSUME TableInv, NEW id, Joins(id)
    PROVE  \E s \in jobworkerp_server :
              s.id = id /\ Find(jobworkerp_server, id) = {s} /\ NameOf(id) = s.name
<1>1. PICK s \in jobworkerp_server : s.id = id
  BY DEF Joins, Find
<1>2. Find(jobworkerp_server, id) = {s}
  BY <1>1, FoundOnce DEF TableInv, Sound
<1>3. NameOf(id) = s.name
  BY <1>2 DEF NameOf
<1>4. QED
  BY <1>1, <1>2, <1>3

LEMMA NameOfJoinedIsName ==
    ASSUME TableInv, NEW id, Joins(id)
    PROVE  NameOf(id) \in Name
BY NameOfJoined DEF TableInv, Sound, ServerRows, ServerRow

\* What is exported is a file.
LEMMA ExportIsFile ==
    ASSUME TableInv, NEW enabled_only
    PROVE  FiniteFile(ExportTomlConfig(enabled_only))
<1> DEFINE S == Selected(jobworkerp_server, enabled_only)
           C == {s \in Selected(cron_scheduler, enabled_only) : Joins(s.server)}
           H == {s \in Selected(worker_result_handler, enabled_only) :
                    Joins(s.listen) /\ Joins(s.process)}
<1>1. ServerItems(enabled_only) \subseteq ServerItem
  <2> SUFFICES ASSUME NEW r \in S
               PROVE  [name |-> r.name, endpoint |-> r.endpoint] \in ServerItem
    BY DEF ServerItems
  <2> QED
    BY DEF Selected, TableInv, Sound, ServerRows, ServerRow, ServerItem
<1>2. SchedulerItems(enabled_only) \subseteq SchedulerItem
  <2> SUFFICES ASSUME NEW r \in C
               PROVE  [complete |-> TRUE, name |-> r.name, jobworkerp |-> NameOf(r.server),
                       columns |-> r.columns] \in SchedulerItem
    BY DEF SchedulerItems
  <2>1. r.name \in Name /\ r.columns \in Columns /\ Joins(r.server)
    BY DEF Selected, TableInv, Sound, CronRows, CronRow
  <2> QED
    BY <2>1, NameOfJoinedIsName DEF SchedulerItem
<1>3. ListenerItems(enabled_only) \subseteq ListenerItem
  <2> SUFFICES ASSUME NEW r \in H
               PROVE  [complete |-> TRUE, name |-> r.name, listen |-> NameOf(r.listen),
                       jobworkerp |-> NameOf(r.process), columns |-> r.columns]
                         \in ListenerItem
    BY DEF ListenerItems
  <2>1. r.name \in Name /\ r.columns \in Columns /\ Joins(r.listen) /\ Joins(r.process)
    BY DEF Selected, TableInv, Sound, HandlerRows, HandlerRow
  <2> QED
    BY <2>1, NameOfJoinedIsName DEF ListenerItem
<1>4. IsFiniteSet(ServerItems(enabled_only))
  <2> DEFINE g == [r \in S |-> [name |-> r.name, endpoint |-> r.endpoint]]
  <2>1. g \in [S -> ServerItems(enabled_only)]
           /\ \A y \in ServerItems(enabled_only) : \E x \in S : g[x] = y
    BY DEF ServerItems
  <2> HIDE DEF g
  <2>2. QED
    BY <2>1, SelectedFinite, ImageFinite
<1>5. IsFiniteSet(SchedulerItems(enabled_only))
  <2> DEFINE g == [r \in C |->
                     [complete |-> TRUE, name |-> r.name, jobworkerp |-> NameOf(r.server),
                      columns |-> r.columns]]
  <2>1. g \in [C -> SchedulerItems(enabled_only)]
           /\ \A y \in SchedulerItems(enabled_only) : \E x \in C : g[x] = y
    BY DEF SchedulerItems
  <2> HIDE DEF g
  <2>2. IsFiniteSet(C)
    BY SelectedFinite, FS_Subset
  <2>3. QED
    BY <2>1, <2>2, ImageFinite
<1>6. IsFiniteSet(ListenerItems(enabled_only))
  <2> DEFINE g == [r \in H |->
                     [complete |-> TRUE, name |-> r.name, listen |-> NameOf(r.listen),
                      jobworkerp |-> NameOf(r.process), columns |-> r.columns]]
  <2>1. g \in [H -> ListenerItems(enabled_only)]
           /\ \A y \in ListenerItems(enabled_only) : \E x \in H : g[x] = y
    BY DEF ListenerItems
  <2> HIDE DEF g
  <2>2. IsFiniteSet(H)
    BY SelectedFinite, FS_Subset
  <2>3. QED
    BY <2>1, <2>2, ImageFinite
<1>7. QED
  BY <1>1, <1>2, <1>3, <1>4, <1>5, <1>6
     DEF FiniteFile, WorkflowSettingFile, ExportTomlConfig

\* Every step keeps the invariant.
LEMMA TransferStep == TransferInv /\ [Next]_vars => TransferInv'
<1> SUFFICES ASSUME TransferInv, [Next]_vars PROVE TransferInv'
  OBVIOUS
<1> USE DEF TransferInv
<1>1. ASSUME Write, ServerWrite PROVE TransferInv'
  BY <1>1, ServerWriteSound DEF Write
<1>2. ASSUME Write, CronWrite PROVE TransferInv'
  BY <1>2, CronWriteSound DEF Write
<1>3. ASSUME Write, HandlerWrite PROVE TransferInv'
  BY <1>3, HandlerWriteSound DEF Write
<1>4. ASSUME Write, SlackWrite PROVE TransferInv'
  BY <1>4, SlackWriteSound DEF Write
<1>5. ASSUME Write, Transfer PROVE TransferInv'
  BY <1>5, ImportSound, ClearSound DEF Write, Transfer
<1>6. ASSUME Export PROVE TransferInv'
  <2>1. PICK enabled_only \in BOOLEAN : file' = ExportTomlConfig(enabled_only)
    BY <1>6 DEF Export
  <2>2. FiniteFile(file')
    BY <2>1, ExportIsFile
  <2>3. TableInv'
    BY <1>6 DEF Export, TableInv, tables
  <2>4. QED
    BY <2>2, <2>3
<1>7. CASE UNCHANGED vars
  BY <1>7 DEF vars, tables, TableInv
<1>8. QED
  BY <1>1, <1>2, <1>3, <1>4, <1>5, <1>6, <1>7 DEF Next, Write

\* The tables are sound, and the file at hand is finite, throughout.
LEMMA TransferInvariant == Spec => []TransferInv
BY TransferInit, TransferStep, PTL DEF Spec

-----------------------------------------------------------------------------
(* The tables *)

\* Rows have the shape of their table, ids and names are unique in it, and no id
\* has been given that is still to come.
THEOREM TablesTyped == Spec => []TypeOK
<1>1. TransferInv => TypeOK
  BY TableInvProperties DEF TransferInv
<1>2. QED
  BY <1>1, TransferInvariant, PTL

\* Every scheduler and handler runs one thing, a workflow or a worker, whether it
\* was written by requests of old or new clients or imported.
THEOREM RowsRunOneThing == Spec => []EveryRowRunsOneThing
<1>1. TransferInv => EveryRowRunsOneThing
  BY TableInvProperties DEF TransferInv
<1>2. QED
  BY <1>1, TransferInvariant, PTL

-----------------------------------------------------------------------------
(* References *)

\* A server a step brings in has an id that no reference has.
LEMMA NewServersAreNew ==
    ASSUME TransferInv, [Next]_vars, NEW q \in jobworkerp_server'
    PROVE  q.id >= nextId \/ \E s \in jobworkerp_server : s.id = q.id
<1> USE DEF TransferInv
<1>0. nextId \in Nat
  BY RowIds
<1>1. ASSUME NEW d, CreateJobworkerpServer(d)
      PROVE  q.id >= nextId \/ \E s \in jobworkerp_server : s.id = q.id
  BY <1>0, <1>1 DEF CreateJobworkerpServer, Inserted, JobworkerpServerRow
<1>2. ASSUME NEW d, NEW r \in jobworkerp_server, UpdateJobworkerpServer(r.id, d)
      PROVE  q.id >= nextId \/ \E s \in jobworkerp_server : s.id = q.id
  BY <1>2
     DEF UpdateJobworkerpServer, UpdatedJobworkerpServer, Updated, JobworkerpServerRow
<1>3. ASSUME NEW r \in jobworkerp_server, DeleteJobworkerpServer(r.id)
      PROVE  q.id >= nextId \/ \E s \in jobworkerp_server : s.id = q.id
  BY <1>3 DEF DeleteJobworkerpServer, WithoutJobworkerpServer, Without
<1>4. ASSUME jobworkerp_server' = jobworkerp_server
      PROVE  q.id >= nextId \/ \E s \in jobworkerp_server : s.id = q.id
  BY <1>4
<1>5. ASSUME CronWrite PROVE jobworkerp_server' = jobworkerp_server
  BY <1>5 DEF CronWrite, CreateCronScheduler, UpdateCronScheduler, DeleteCronScheduler,
              OnlyCronSchedulers
<1>6. ASSUME HandlerWrite PROVE jobworkerp_server' = jobworkerp_server
  BY <1>6 DEF HandlerWrite, CreateWorkerResultHandler, UpdateWorkerResultHandler,
              DeleteWorkerResultHandler, OnlyWorkerResultHandlers
<1>7. ASSUME SlackWrite PROVE jobworkerp_server' = jobworkerp_server
  BY <1>7 DEF SlackWrite, CreateSlackEventHandler, UpdateSlackEventHandler,
              DeleteSlackEventHandler, OnlySlackEventHandlers
<1>8. ASSUME NEW overwrite \in BOOLEAN, ImportToml(file, overwrite)
      PROVE  q.id >= nextId \/ \E s \in jobworkerp_server : s.id = q.id
  <2>1. jobworkerp_server' = Kept(jobworkerp_server, overwrite) \cup NewServers(file)
    BY <1>8, AfterImport DEF ImportToml
  <2>2. \A s \in NewServers(file) : s.id >= nextId
    BY <1>8, NewServersSound
  <2>3. QED
    BY <2>1, <2>2 DEF Kept
<1>9. ASSUME ClearAllConfigs PROVE FALSE
  BY <1>9 DEF ClearAllConfigs
<1>10. ASSUME Export \/ UNCHANGED vars PROVE jobworkerp_server' = jobworkerp_server
  BY <1>10 DEF Export, vars, tables
<1>11. QED
  BY <1>1, <1>2, <1>3, <1>4, <1>5, <1>6, <1>7, <1>8, <1>9, <1>10
     DEF Next, Write, ServerWrite, Transfer

\* A reference that dangles keeps dangling, and those of Slack handlers do after
\* an overwriting import: ids are not given twice, so that no server that comes
\* later, from a request or a file, is what an old reference meant.
THEOREM DanglingReferencesStay == Spec => NoReferenceIsRetargeted
<1>1. ASSUME TransferInv, [Next]_vars,
             NEW r \in cron_scheduler \cup slack_event_handler, ~ Joins(r.server)
      PROVE  ~ Joins(r.server)'
  <2>1. r.server \in Nat /\ r.server < nextId /\ nextId \in Nat
    BY <1>1, RowIds DEF TransferInv, TableInv, Sound, CronRows, CronRow, Id
  <2>2. ASSUME NEW q \in jobworkerp_server' PROVE q.id # r.server
    <3>1. TransferInv'
      BY <1>1, TransferStep
    <3>2. q.id \in Nat
      BY <3>1 DEF TransferInv, TableInv, Sound, ServerRows, ServerRow, Id
    <3>3. q.id >= nextId \/ \E s \in jobworkerp_server : s.id = q.id
      BY <1>1, NewServersAreNew
    <3>4. QED
      BY <1>1, <2>1, <3>2, <3>3 DEF Joins, Find
  <2>3. QED
    BY <2>2 DEF Joins, Find
<1>2. ASSUME TransferInv, [Next]_vars, ImportToml(file, TRUE),
             NEW r \in slack_event_handler'
      PROVE  ~ Joins(r.server)'
  <2>1. r \in slack_event_handler /\ jobworkerp_server' = NewServers(file)
    BY <1>2, AfterImport DEF ImportToml, Kept
  <2>2. r.server \in Nat /\ r.server < nextId /\ nextId \in Nat
    BY <1>2, <2>1, RowIds DEF TransferInv, TableInv, Sound, CronRows, CronRow, Id
  <2>3. \A q \in NewServers(file) : q.id \in Nat /\ q.id >= nextId
    <3>1. TableInv /\ FiniteFile(file) /\ TRUE \in BOOLEAN
      BY <1>2 DEF TransferInv
    <3>2. /\ NewServers(file) \subseteq ServerRows(nextId')
          /\ \A q \in NewServers(file) : q.id >= nextId
      BY <1>2, <3>1, NewServersSound
    <3>3. QED
      BY <3>2 DEF ServerRows, ServerRow, Id
  <2>4. QED
    BY <2>1, <2>2, <2>3 DEF Joins, Find
<1>3. TransferInv /\ [Next]_vars =>
        [/\ \A r \in cron_scheduler \cup slack_event_handler :
               r \in cron_scheduler' \cup slack_event_handler' /\ ~ Joins(r.server)
                  => ~ Joins(r.server)'
         /\ ImportToml(file, TRUE) => \A r \in slack_event_handler' : ~ Joins(r.server)']_vars
  BY <1>1, <1>2
<1>4. QED
  BY <1>3, TransferInvariant, PTL DEF Spec, NoReferenceIsRetargeted

-----------------------------------------------------------------------------
(* Files that can be imported *)

\* The names an overwriting import knows are those of the servers in the file.
LEMMA ImportedNames ==
    ASSUME TableInv, NEW f, FiniteFile(f), NEW name
    PROVE  /\ ServersAfter(f, TRUE) = NewServers(f)
           /\ FindByName(NewServers(f), name) # {} <=> name \in ServerNames(f)
<1>1. nextId \in Nat
  BY RowIds
<1>2. ServersAfter(f, TRUE) = NewServers(f)
  BY AfterImport DEF Kept
<1>3. \A m \in Numbered(f.jobworkerp, nextId) : m[2] \in f.jobworkerp
  BY <1>1, NumberedOnce DEF FiniteFile
<1>4. \A s \in f.jobworkerp : \E m \in Numbered(f.jobworkerp, nextId) : m[2] = s
  BY <1>1, NumberedOnce DEF FiniteFile
<1>5. ASSUME FindByName(NewServers(f), name) # {} PROVE name \in ServerNames(f)
  <2>1. PICK m \in Numbered(f.jobworkerp, nextId) : ImportedServer(m[1], m[2]).name = name
    BY <1>5 DEF FindByName, NewServers
  <2>2. m[2].name = name /\ m[2] \in f.jobworkerp
    BY <1>3, <2>1 DEF ImportedServer
  <2>3. QED
    BY <2>2 DEF ServerNames
<1>6. ASSUME name \in ServerNames(f) PROVE FindByName(NewServers(f), name) # {}
  <2>1. PICK s \in f.jobworkerp : s.name = name
    BY <1>6 DEF ServerNames
  <2>2. PICK m \in Numbered(f.jobworkerp, nextId) : m[2] = s
    BY <1>4
  <2>3. ImportedServer(m[1], m[2]) \in NewServers(f)
    BY DEF NewServers
  <2>4. ImportedServer(m[1], m[2]).name = name
    BY <2>1, <2>2 DEF ImportedServer
  <2>5. QED
    BY <2>3, <2>4 DEF FindByName
<1>7. QED
  BY <1>2, <1>5, <1>6

\* What can be imported over a configuration can be run without a database,
\* unless no client can be made for one of its servers.
THEOREM ImportedFilesLoad == Spec => []ImportableFilesLoad
<1>1. ASSUME TransferInv, NEW connects \in SUBSET Endpoint, Importable(file, TRUE),
             {s.endpoint : s \in file.jobworkerp} \subseteq connects
      PROVE  LoadFromToml(file, connects)
  <2>1. \A l \in file.listeners \cup file.schedulers : SaysWhatToRun(l)
    BY <1>1 DEF Importable, ValidateTomlConfig
  <2>2. \A item \in file.schedulers \cup file.listeners :
           /\ item.complete /\ item.jobworkerp \in ServerNames(file)
           /\ "listen" \in DOMAIN item => item.listen \in ServerNames(file)
    BY <1>1, ImportedNames DEF TransferInv, Importable, Resolves
  <2>3. \A l \in file.listeners : "listen" \in DOMAIN l
    BY <1>1 DEF TransferInv, FiniteFile, WorkflowSettingFile, ListenerItem
  <2>4. \A s \in file.jobworkerp : s.endpoint \in connects
    BY <1>1
  <2>5. QED
    BY <2>1, <2>2, <2>3, <2>4 DEF LoadFromToml, SchedulerSetting, JobResultListenerSetting
<1>2. TransferInv => ImportableFilesLoad
  BY <1>1 DEF ImportableFilesLoad
<1>3. QED
  BY <1>2, TransferInvariant, PTL

\* Rows made of numbered items have unique names if the items have.
LEMMA NumberedNames ==
    ASSUME NEW items, IsFiniteSet(items), NEW first \in Nat, UniqueNames(items),
           NEW rows, NEW g,
           \A p \in rows : \E m \in Numbered(items, first) :
              p = g[m] /\ p.name = m[2].name
    PROVE  UniqueNames(rows)
<1> SUFFICES ASSUME NEW p \in rows, NEW q \in rows, p.name = q.name PROVE p = q
  BY DEF UniqueNames
<1>1. PICK m \in Numbered(items, first) : p = g[m] /\ p.name = m[2].name
  OBVIOUS
<1>2. PICK n \in Numbered(items, first) : q = g[n] /\ q.name = n[2].name
  OBVIOUS
<1>3. m[2] \in items /\ n[2] \in items
  BY NumberedOnce
<1>4. m[2] = n[2]
  BY <1>1, <1>2, <1>3 DEF UniqueNames
<1>5. m = n
  BY <1>4, NumberedOnce
<1>6. QED
  BY <1>1, <1>2, <1>5

\* Over a configuration that is replaced, the names in a file are the only ones.
LEMMA ReplacedNames ==
    ASSUME TableInv, NEW f, FiniteFile(f), UniqueNames(f.jobworkerp),
           UniqueNames(f.schedulers), UniqueNames(f.listeners)
    PROVE  /\ UniqueNames(ServersAfter(f, TRUE))
           /\ UniqueNames(SchedulersAfter(f, TRUE))
           /\ UniqueNames(ListenersAfter(f, TRUE))
<1> DEFINE servers == ServersAfter(f, TRUE)
           fs == nextId + Cardinality(f.jobworkerp)
           fl == nextId + Cardinality(f.jobworkerp) + Cardinality(f.schedulers)
<1>1. nextId \in Nat /\ fs \in Nat /\ fl \in Nat
  BY RowIds, FS_CardinalityType DEF FiniteFile
<1>2. NewSchedulers(f, servers) =
         {ImportedScheduler(servers, n[1], n[2]) : n \in Numbered(f.schedulers, fs)}
  BY DEF NewSchedulers
<1>3. NewListeners(f, servers) =
         {ImportedListener(servers, n[1], n[2]) : n \in Numbered(f.listeners, fl)}
  BY DEF NewListeners
<1>4. ServersAfter(f, TRUE) = NewServers(f)
  BY AfterImport DEF Kept
<1>5. SchedulersAfter(f, TRUE) = NewSchedulers(f, servers)
  BY AfterImport DEF Kept
<1>6. ListenersAfter(f, TRUE) = NewListeners(f, servers)
  BY AfterImport DEF Kept
<1> HIDE DEF servers, fs, fl
<1>7. UniqueNames(NewServers(f))
  <2> DEFINE g == [m \in Numbered(f.jobworkerp, nextId) |-> ImportedServer(m[1], m[2])]
  <2>1. ASSUME NEW p \in NewServers(f)
        PROVE  \E m \in Numbered(f.jobworkerp, nextId) : p = g[m] /\ p.name = m[2].name
    <3>1. PICK m \in Numbered(f.jobworkerp, nextId) : p = ImportedServer(m[1], m[2])
      BY DEF NewServers
    <3>2. p = g[m]
      BY <3>1
    <3>3. p.name = m[2].name
      BY <3>1 DEF ImportedServer
    <3>4. QED
      BY <3>2, <3>3
  <2>2. PICK h : h = g
    OBVIOUS
  <2> HIDE DEF g
  <2>3. IsFiniteSet(f.jobworkerp)
    BY DEF FiniteFile
  <2>4. QED
    BY <1>1, <2>1, <2>2, <2>3, NumberedNames
<1>8. UniqueNames(NewSchedulers(f, servers))
  <2> DEFINE g == [m \in Numbered(f.schedulers, fs) |->
                     ImportedScheduler(servers, m[1], m[2])]
  <2>1. ASSUME NEW p \in NewSchedulers(f, servers)
        PROVE  \E m \in Numbered(f.schedulers, fs) : p = g[m] /\ p.name = m[2].name
    <3>1. PICK m \in Numbered(f.schedulers, fs) :
            p = ImportedScheduler(servers, m[1], m[2])
      BY <1>2
    <3>2. p = g[m]
      BY <3>1
    <3>3. p.name = m[2].name
      BY <3>1 DEF ImportedScheduler
    <3>4. QED
      BY <3>2, <3>3
  <2>2. PICK h : h = g
    OBVIOUS
  <2> HIDE DEF g
  <2>3. IsFiniteSet(f.schedulers)
    BY DEF FiniteFile
  <2>4. QED
    BY <1>1, <2>1, <2>2, <2>3, NumberedNames
<1>9. UniqueNames(NewListeners(f, servers))
  <2> DEFINE g == [m \in Numbered(f.listeners, fl) |->
                     ImportedListener(servers, m[1], m[2])]
  <2>1. ASSUME NEW p \in NewListeners(f, servers)
        PROVE  \E m \in Numbered(f.listeners, fl) : p = g[m] /\ p.name = m[2].name
    <3>1. PICK m \in Numbered(f.listeners, fl) :
            p = ImportedListener(servers, m[1], m[2])
      BY <1>3
    <3>2. p = g[m]
      BY <3>1
    <3>3. p.name = m[2].name
      BY <3>1 DEF ImportedListener
    <3>4. QED
      BY <3>2, <3>3
  <2>2. PICK h : h = g
    OBVIOUS
  <2> HIDE DEF g
  <2>3. IsFiniteSet(f.listeners)
    BY DEF FiniteFile
  <2>4. QED
    BY <1>1, <2>1, <2>2, <2>3, NumberedNames
<1>10. QED
  BY <1>4, <1>5, <1>6, <1>7, <1>8, <1>9

\* The names in an export are unique, and every item says what to run.
LEMMA ExportedItems ==
    ASSUME TableInv, NEW enabled_only, NEW f, f = ExportTomlConfig(enabled_only)
    PROVE  /\ UniqueNames(f.jobworkerp) /\ UniqueNames(f.schedulers)
           /\ UniqueNames(f.listeners)
           /\ \A item \in f.schedulers \cup f.listeners : SaysWhatToRun(item)
<1>1. f.jobworkerp = ServerItems(enabled_only)
         /\ f.schedulers = SchedulerItems(enabled_only)
         /\ f.listeners = ListenerItems(enabled_only)
  BY DEF ExportTomlConfig
<1>2. UniqueNames(jobworkerp_server) /\ UniqueNames(cron_scheduler)
         /\ UniqueNames(worker_result_handler)
  BY DEF TableInv, Sound
<1>3. UniqueNames(f.jobworkerp)
  <2> SUFFICES ASSUME NEW p \in f.jobworkerp, NEW q \in f.jobworkerp, p.name = q.name
               PROVE  p = q
    BY DEF UniqueNames
  <2>1. PICK r \in jobworkerp_server : p = [name |-> r.name, endpoint |-> r.endpoint]
    BY <1>1 DEF ServerItems, Selected
  <2>2. PICK s \in jobworkerp_server : q = [name |-> s.name, endpoint |-> s.endpoint]
    BY <1>1 DEF ServerItems, Selected
  <2>3. r = s
    BY <1>2, <2>1, <2>2 DEF UniqueNames
  <2>4. QED
    BY <2>1, <2>2, <2>3
<1>4. \A p \in f.schedulers : \E r \in cron_scheduler :
         p = [complete |-> TRUE, name |-> r.name, jobworkerp |-> NameOf(r.server),
              columns |-> r.columns]
  BY <1>1 DEF SchedulerItems, Selected
<1>5. UniqueNames(f.schedulers)
  <2> SUFFICES ASSUME NEW p \in f.schedulers, NEW q \in f.schedulers, p.name = q.name
               PROVE  p = q
    BY DEF UniqueNames
  <2>1. PICK r \in cron_scheduler :
          p = [complete |-> TRUE, name |-> r.name, jobworkerp |-> NameOf(r.server),
               columns |-> r.columns]
    BY <1>4
  <2>2. PICK s \in cron_scheduler :
          q = [complete |-> TRUE, name |-> s.name, jobworkerp |-> NameOf(s.server),
               columns |-> s.columns]
    BY <1>4
  <2>3. r = s
    BY <1>2, <2>1, <2>2 DEF UniqueNames
  <2>4. QED
    BY <2>1, <2>2, <2>3
<1>6. \A p \in f.listeners : \E r \in worker_result_handler :
         p = [complete |-> TRUE, name |-> r.name, listen |-> NameOf(r.listen),
              jobworkerp |-> NameOf(r.process), columns |-> r.columns]
  BY <1>1 DEF ListenerItems, Selected
<1>7. UniqueNames(f.listeners)
  <2> SUFFICES ASSUME NEW p \in f.listeners, NEW q \in f.listeners, p.name = q.name
               PROVE  p = q
    BY DEF UniqueNames
  <2>1. PICK r \in worker_result_handler :
          p = [complete |-> TRUE, name |-> r.name, listen |-> NameOf(r.listen),
               jobworkerp |-> NameOf(r.process), columns |-> r.columns]
    BY <1>6
  <2>2. PICK s \in worker_result_handler :
          q = [complete |-> TRUE, name |-> s.name, listen |-> NameOf(s.listen),
               jobworkerp |-> NameOf(s.process), columns |-> s.columns]
    BY <1>6
  <2>3. r = s
    BY <1>2, <2>1, <2>2 DEF UniqueNames
  <2>4. QED
    BY <2>1, <2>2, <2>3
<1>8. ASSUME NEW item \in f.schedulers \cup f.listeners PROVE SaysWhatToRun(item)
  <2>1. \E r \in cron_scheduler \cup worker_result_handler : item.columns = r.columns
    BY <1>4, <1>6
  <2>2. \A r \in cron_scheduler \cup worker_result_handler : OneThing(r.columns)
    BY DEF TableInv, Sound, CronRows, HandlerRows
  <2>3. QED
    BY <2>1, <2>2 DEF SaysWhatToRun, OneThing, TargetOf
<1>9. QED
  BY <1>3, <1>5, <1>7, <1>8

\* A name of an item is that of a server in the same export unless the server is
\* left out for being disabled.
LEMMA ExportedNames ==
    ASSUME TableInv, NEW enabled_only, NEW id, Joins(id)
    PROVE  NameOf(id) \in ServerNames(ExportTomlConfig(enabled_only)) <=>
              Find(jobworkerp_server, id) \ Selected(jobworkerp_server, enabled_only) = {}
<1> DEFINE servers == Selected(jobworkerp_server, enabled_only)
<1>1. PICK s \in jobworkerp_server :
        s.id = id /\ Find(jobworkerp_server, id) = {s} /\ NameOf(id) = s.name
  BY NameOfJoined
<1>2. ASSUME NEW name
      PROVE  name \in ServerNames(ExportTomlConfig(enabled_only)) <=>
                \E r \in servers : r.name = name
  <2>1. PICK items : items = ServerItems(enabled_only)
    OBVIOUS
  <2>2. ServerNames(ExportTomlConfig(enabled_only)) = {i.name : i \in items}
    BY <2>1 DEF ServerNames, ExportTomlConfig
  <2>3. \A i \in items : \E r \in servers : i.name = r.name
    BY <2>1 DEF ServerItems
  <2>4. ASSUME NEW r \in servers PROVE \E i \in items : i.name = r.name
    <3>1. [name |-> r.name, endpoint |-> r.endpoint] \in items
      BY <2>1 DEF ServerItems
    <3>2. QED
      BY <3>1
  <2>5. QED
    BY <2>2, <2>3, <2>4
<1>3. servers \subseteq jobworkerp_server
  BY DEF Selected
<1> HIDE DEF servers
<1>4. s.name \in ServerNames(ExportTomlConfig(enabled_only)) <=> s \in servers
  BY <1>2, <1>3 DEF TableInv, Sound, UniqueNames
<1>5. QED
  BY <1>1, <1>4 DEF servers

\* An export can be imported again over the configuration unless no server is
\* exported, the address of one cannot be read back, or an enabled row runs on a
\* disabled server.
THEOREM ReimportFails == Spec => []ReimportFailsOnlyForServers
<1> DEFINE Left(id, enabled_only) ==
             Find(jobworkerp_server, id) \ Selected(jobworkerp_server, enabled_only)
           Crons(enabled_only) ==
             \A r \in Selected(cron_scheduler, enabled_only) :
                Left(r.server, enabled_only) = {}
           Handlers(enabled_only) ==
             \A r \in Selected(worker_result_handler, enabled_only) :
                Joins(r.listen) /\ Joins(r.process)
                   => Left(r.listen, enabled_only) = {} /\ Left(r.process, enabled_only) = {}
<1>1. ASSUME TransferInv, NEW enabled_only \in BOOLEAN
      PROVE  Importable(ExportTomlConfig(enabled_only), TRUE) <=>
                /\ Selected(jobworkerp_server, enabled_only) # {}
                /\ \A s \in Selected(jobworkerp_server, enabled_only) :
                      s.endpoint \in Parsable
                /\ Crons(enabled_only) /\ Handlers(enabled_only)
  <2>1. PICK f : f = ExportTomlConfig(enabled_only)
    OBVIOUS
  <2>2. TableInv /\ FiniteFile(f)
    BY <1>1, <2>1, ExportIsFile DEF TransferInv
  <2>3. f.jobworkerp = ServerItems(enabled_only)
           /\ f.schedulers = SchedulerItems(enabled_only)
           /\ f.listeners = ListenerItems(enabled_only)
    BY <2>1 DEF ExportTomlConfig
  <2>4. /\ UniqueNames(f.jobworkerp) /\ UniqueNames(f.schedulers)
        /\ UniqueNames(f.listeners)
        /\ \A item \in f.schedulers \cup f.listeners : SaysWhatToRun(item)
    BY <2>1, <2>2, ExportedItems
  <2>5. /\ UniqueNames(ServersAfter(f, TRUE)) /\ UniqueNames(SchedulersAfter(f, TRUE))
        /\ UniqueNames(ListenersAfter(f, TRUE))
    BY <2>2, <2>4, ReplacedNames
  <2>6. f.jobworkerp # {} <=> Selected(jobworkerp_server, enabled_only) # {}
    BY <2>3 DEF ServerItems
  <2>7. (\A s \in f.jobworkerp : s.endpoint \in Parsable) <=>
           \A s \in Selected(jobworkerp_server, enabled_only) : s.endpoint \in Parsable
    <3>1. \A s \in f.jobworkerp : \E r \in Selected(jobworkerp_server, enabled_only) :
             s.endpoint = r.endpoint
      BY <2>3 DEF ServerItems
    <3>2. ASSUME NEW r \in Selected(jobworkerp_server, enabled_only)
          PROVE  \E s \in f.jobworkerp : s.endpoint = r.endpoint
      <4>1. [name |-> r.name, endpoint |-> r.endpoint] \in f.jobworkerp
        BY <2>3 DEF ServerItems
      <4>2. QED
        BY <4>1
    <3>3. QED
      BY <3>1, <3>2
  <2>8. \A name : FindByName(ServersAfter(f, TRUE), name) # {} <=> name \in ServerNames(f)
    BY <2>2, ImportedNames
  <2>9. (\A item \in f.schedulers : Resolves(ServersAfter(f, TRUE), item))
           <=> Crons(enabled_only)
    <3>1. \A r : Joins(r.server) =>
             LET item == [complete |-> TRUE, name |-> r.name,
                          jobworkerp |-> NameOf(r.server), columns |-> r.columns]
             IN Resolves(ServersAfter(f, TRUE), item)
                   <=> NameOf(r.server) \in ServerNames(f)
      BY <2>8 DEF Resolves
    <3>2. \A r : Joins(r.server) =>
             (NameOf(r.server) \in ServerNames(f) <=> Left(r.server, enabled_only) = {})
      BY <2>1, <2>2, ExportedNames
    <3>3. \A r : ~ Joins(r.server) => Left(r.server, enabled_only) = {}
      BY DEF Joins
    <3> HIDE DEF Left
    <3>4. (\A item \in f.schedulers : Resolves(ServersAfter(f, TRUE), item)) <=>
             \A r \in Selected(cron_scheduler, enabled_only) :
                Joins(r.server) =>
                   Resolves(ServersAfter(f, TRUE),
                            [complete |-> TRUE, name |-> r.name,
                             jobworkerp |-> NameOf(r.server), columns |-> r.columns])
      BY <2>3 DEF SchedulerItems
    <3>5. QED
      BY <3>1, <3>2, <3>3, <3>4
  <2>10. (\A item \in f.listeners : Resolves(ServersAfter(f, TRUE), item))
            <=> Handlers(enabled_only)
    <3>1. \A r :
             LET item == [complete |-> TRUE, name |-> r.name, listen |-> NameOf(r.listen),
                          jobworkerp |-> NameOf(r.process), columns |-> r.columns]
             IN Resolves(ServersAfter(f, TRUE), item)
                   <=> {NameOf(r.listen), NameOf(r.process)} \subseteq ServerNames(f)
      BY <2>8 DEF Resolves
    <3>2. \A id : Joins(id) =>
             (NameOf(id) \in ServerNames(f) <=> Left(id, enabled_only) = {})
      BY <2>1, <2>2, ExportedNames
    <3> HIDE DEF Left
    <3>4. (\A item \in f.listeners : Resolves(ServersAfter(f, TRUE), item)) <=>
             \A r \in Selected(worker_result_handler, enabled_only) :
                Joins(r.listen) /\ Joins(r.process) =>
                   Resolves(ServersAfter(f, TRUE),
                            [complete |-> TRUE, name |-> r.name, listen |-> NameOf(r.listen),
                             jobworkerp |-> NameOf(r.process), columns |-> r.columns])
      BY <2>3 DEF ListenerItems
    <3>5. QED
      BY <3>1, <3>2, <3>4
  <2> HIDE DEF Crons, Handlers
  <2>11. QED
    BY <2>1, <2>4, <2>5, <2>6, <2>7, <2>9, <2>10 DEF Importable, ValidateTomlConfig
<1>2. TransferInv => ReimportFailsOnlyForServers
  BY <1>1 DEF ReimportFailsOnlyForServers
<1>3. QED
  BY <1>2, TransferInvariant, PTL

-----------------------------------------------------------------------------
(* What an import stores *)

\* The name a reference is exported with.
NameIn(servers, id) == (CHOOSE s \in Find(servers, id) : TRUE).name

\* A name that was resolved when it was stored is what is exported.
LEMMA ResolvedName ==
    ASSUME NEW servers, UniqueIds(servers), UniqueNames(servers),
           NEW name, FindByName(servers, name) # {}
    PROVE  /\ Find(servers, IdOf(servers, name)) # {}
           /\ NameIn(servers, IdOf(servers, name)) = name
<1>1. PICK s \in servers : s.name = name /\ IdOf(servers, name) = s.id
  BY IdOfFound
<1>2. Find(servers, s.id) = {s}
  BY FoundOnce
<1>3. QED
  BY <1>1, <1>2 DEF NameIn

\* An item of the file and an item of the export say the same.
SameServer(s, t) == s.name = t.name /\ Normal[s.endpoint] = Normal[t.endpoint]
SameScheduler(s, t) ==
    s.name = t.name /\ s.jobworkerp = t.jobworkerp
       /\ TargetOf(s.columns) = TargetOf(t.columns)
SameListener(s, t) == SameScheduler(s, t) /\ s.listen = t.listen

\* Files whose items say the same mean the same.
LEMMA SameMeaning ==
    ASSUME NEW e, NEW f,
           \A s \in e.jobworkerp : \E t \in f.jobworkerp : SameServer(s, t),
           \A t \in f.jobworkerp : \E s \in e.jobworkerp : SameServer(s, t),
           \A s \in e.schedulers : \E t \in f.schedulers : SameScheduler(s, t),
           \A t \in f.schedulers : \E s \in e.schedulers : SameScheduler(s, t),
           \A s \in e.listeners : \E t \in f.listeners : SameListener(s, t),
           \A t \in f.listeners : \E s \in e.listeners : SameListener(s, t)
    PROVE  Meaning(e) = Meaning(f)
<1>1. {[name |-> s.name, endpoint |-> Normal[s.endpoint]] : s \in e.jobworkerp} =
         {[name |-> s.name, endpoint |-> Normal[s.endpoint]] : s \in f.jobworkerp}
  BY DEF SameServer
<1>2. {<<s.name, s.jobworkerp, TargetOf(s.columns)>> : s \in e.schedulers} =
         {<<s.name, s.jobworkerp, TargetOf(s.columns)>> : s \in f.schedulers}
  BY DEF SameScheduler
<1>3. {<<l.name, l.listen, l.jobworkerp, TargetOf(l.columns)>> : l \in e.listeners} =
         {<<l.name, l.listen, l.jobworkerp, TargetOf(l.columns)>> : l \in f.listeners}
  BY DEF SameListener, SameScheduler
<1>4. QED
  BY <1>1, <1>2, <1>3 DEF Meaning

\* The tables an overwriting import leaves.
LEMMA ReplacedTables ==
    ASSUME ImportToml(file, TRUE)
    PROVE  /\ jobworkerp_server' = NewServers(file)
           /\ cron_scheduler' = NewSchedulers(file, jobworkerp_server')
           /\ worker_result_handler' = NewListeners(file, jobworkerp_server')
<1>1. jobworkerp_server' = ServersAfter(file, TRUE)
         /\ cron_scheduler' = SchedulersAfter(file, TRUE)
         /\ worker_result_handler' = ListenersAfter(file, TRUE)
  BY DEF ImportToml
<1>2. ServersAfter(file, TRUE) = NewServers(file)
  BY AfterImport DEF Kept
<1>3. SchedulersAfter(file, TRUE) = NewSchedulers(file, ServersAfter(file, TRUE))
  BY AfterImport DEF Kept
<1>4. ListenersAfter(file, TRUE) = NewListeners(file, ServersAfter(file, TRUE))
  BY AfterImport DEF Kept
<1>5. QED
  BY <1>1, <1>2, <1>3, <1>4

\* Their rows are the items of the file, all of them and nothing else.
LEMMA ReplacedRows ==
    ASSUME TableInv, FiniteFile(file), ImportToml(file, TRUE),
           NEW servers, servers = jobworkerp_server'
    PROVE  /\ \A r \in servers : \E t \in file.jobworkerp : \E id : r = ImportedServer(id, t)
           /\ \A t \in file.jobworkerp : \E r \in servers : \E id : r = ImportedServer(id, t)
           /\ \A r \in cron_scheduler' : \E t \in file.schedulers : \E id :
                 r = ImportedScheduler(servers, id, t)
           /\ \A t \in file.schedulers : \E r \in cron_scheduler' : \E id :
                 r = ImportedScheduler(servers, id, t)
           /\ \A r \in worker_result_handler' : \E t \in file.listeners : \E id :
                 r = ImportedListener(servers, id, t)
           /\ \A t \in file.listeners : \E r \in worker_result_handler' : \E id :
                 r = ImportedListener(servers, id, t)
<1> DEFINE fs == nextId + Cardinality(file.jobworkerp)
           fl == nextId + Cardinality(file.jobworkerp) + Cardinality(file.schedulers)
           NS == Numbered(file.jobworkerp, nextId)
           NC == Numbered(file.schedulers, fs)
           NL == Numbered(file.listeners, fl)
<1>1. nextId \in Nat /\ fs \in Nat /\ fl \in Nat
  BY RowIds, FS_CardinalityType DEF FiniteFile
<1>2. /\ servers = {ImportedServer(n[1], n[2]) : n \in NS}
      /\ cron_scheduler' = {ImportedScheduler(servers, n[1], n[2]) : n \in NC}
      /\ worker_result_handler' = {ImportedListener(servers, n[1], n[2]) : n \in NL}
  BY ReplacedTables DEF NewServers, NewSchedulers, NewListeners
<1>3. (\A n \in NS : n[2] \in file.jobworkerp)
         /\ \A t \in file.jobworkerp : \E n \in NS : n[2] = t
  BY <1>1, NumberedOnce DEF FiniteFile
<1>4. (\A n \in NC : n[2] \in file.schedulers)
         /\ \A t \in file.schedulers : \E n \in NC : n[2] = t
  BY <1>1, NumberedOnce DEF FiniteFile
<1>5. (\A n \in NL : n[2] \in file.listeners)
         /\ \A t \in file.listeners : \E n \in NL : n[2] = t
  BY <1>1, NumberedOnce DEF FiniteFile
<1> HIDE DEF fs, fl, NS, NC, NL
<1>6. /\ \A r \in servers : \E t \in file.jobworkerp : \E id : r = ImportedServer(id, t)
      /\ \A t \in file.jobworkerp : \E r \in servers : \E id : r = ImportedServer(id, t)
  BY <1>2, <1>3
<1>7. /\ \A r \in cron_scheduler' : \E t \in file.schedulers : \E id :
            r = ImportedScheduler(servers, id, t)
      /\ \A t \in file.schedulers : \E r \in cron_scheduler' : \E id :
            r = ImportedScheduler(servers, id, t)
  BY <1>2, <1>4
<1>8. /\ \A r \in worker_result_handler' : \E t \in file.listeners : \E id :
            r = ImportedListener(servers, id, t)
      /\ \A t \in file.listeners : \E r \in worker_result_handler' : \E id :
            r = ImportedListener(servers, id, t)
  BY <1>2, <1>5
<1>9. QED
  BY <1>6, <1>7, <1>8

\* An overwriting import leaves exactly what the file describes: exporting it
\* again says the same.
THEOREM ImportIsExact == Spec => ImportsWhatTheFileSays
<1>1. ASSUME TransferInv, ImportToml(file, TRUE)
      PROVE  Meaning(ExportTomlConfig(FALSE)') = Meaning(file)
  <2>1. PICK servers, crons, handlers, e :
          /\ servers = jobworkerp_server' /\ crons = cron_scheduler'
          /\ handlers = worker_result_handler' /\ e = ExportTomlConfig(FALSE)'
    OBVIOUS
  <2>2. TableInv /\ FiniteFile(file) /\ TableInv' /\ TRUE \in BOOLEAN
    BY <1>1, ImportSound DEF TransferInv
  <2>3. UniqueIds(servers) /\ UniqueNames(servers)
    BY <2>1, <2>2 DEF TableInv, Sound
  <2>4. e.jobworkerp = {[name |-> r.name, endpoint |-> r.endpoint] : r \in servers}
    BY <2>1 DEF ExportTomlConfig, ServerItems, Selected
  <2>5. e.schedulers =
           {[complete |-> TRUE, name |-> r.name, jobworkerp |-> NameIn(servers, r.server),
             columns |-> r.columns] :
               r \in {s \in crons : Find(servers, s.server) # {}}}
    BY <2>1 DEF ExportTomlConfig, SchedulerItems, Selected, Joins, NameOf, NameIn
  <2>6. e.listeners =
           {[complete |-> TRUE, name |-> r.name, listen |-> NameIn(servers, r.listen),
             jobworkerp |-> NameIn(servers, r.process), columns |-> r.columns] :
               r \in {s \in handlers : Find(servers, s.listen) # {}
                                         /\ Find(servers, s.process) # {}}}
    BY <2>1 DEF ExportTomlConfig, ListenerItems, Selected, Joins, NameOf, NameIn
  <2>7. /\ \A r \in servers : \E t \in file.jobworkerp : \E id : r = ImportedServer(id, t)
        /\ \A t \in file.jobworkerp : \E r \in servers : \E id : r = ImportedServer(id, t)
        /\ \A r \in crons : \E t \in file.schedulers : \E id :
              r = ImportedScheduler(servers, id, t)
        /\ \A t \in file.schedulers : \E r \in crons : \E id :
              r = ImportedScheduler(servers, id, t)
        /\ \A r \in handlers : \E t \in file.listeners : \E id :
              r = ImportedListener(servers, id, t)
        /\ \A t \in file.listeners : \E r \in handlers : \E id :
              r = ImportedListener(servers, id, t)
    BY <1>1, <2>1, <2>2, ReplacedRows
  <2>8. \A t \in file.jobworkerp : t.endpoint \in Parsable
    BY <1>1 DEF ImportToml, Importable, ValidateTomlConfig
  <2>9. \A t \in file.schedulers \cup file.listeners :
           t.columns \in Columns /\ TargetOf(t.columns) # {}
    BY <1>1, <2>2
       DEF ImportToml, Importable, ValidateTomlConfig, SaysWhatToRun, FiniteFile,
           WorkflowSettingFile, SchedulerItem, ListenerItem
  <2>10. servers = ServersAfter(file, TRUE)
    BY <1>1, <2>1 DEF ImportToml
  <2>11. /\ \A t \in file.schedulers \cup file.listeners :
               FindByName(servers, t.jobworkerp) # {}
         /\ \A t \in file.listeners : FindByName(servers, t.listen) # {}
    BY <1>1, <2>2, <2>10
       DEF ImportToml, Importable, Resolves, FiniteFile, WorkflowSettingFile, ListenerItem
  <2>12. ASSUME NEW t \in file.jobworkerp, NEW r, NEW id, r = ImportedServer(id, t)
         PROVE  SameServer([name |-> r.name, endpoint |-> r.endpoint], t)
    <3>1. Normal[Normal[t.endpoint]] = Normal[t.endpoint]
      BY <2>8, ConfigTablesAssumption
    <3>2. QED
      BY <2>12, <3>1 DEF SameServer, ImportedServer
  <2>13. ASSUME NEW t \in file.schedulers, NEW r, NEW id,
                r = ImportedScheduler(servers, id, t)
         PROVE  /\ Find(servers, r.server) # {}
                /\ SameScheduler([complete |-> TRUE, name |-> r.name,
                                  jobworkerp |-> NameIn(servers, r.server),
                                  columns |-> r.columns], t)
    <3>1. /\ Find(servers, IdOf(servers, t.jobworkerp)) # {}
          /\ NameIn(servers, IdOf(servers, t.jobworkerp)) = t.jobworkerp
      BY <2>3, <2>11, ResolvedName
    <3>2. TargetOf(ImportedColumns(t.columns)) = TargetOf(t.columns)
      BY <2>9, ImportedColumnsSound
    <3>3. /\ r.server = IdOf(servers, t.jobworkerp) /\ r.name = t.name
          /\ r.columns = ImportedColumns(t.columns)
      BY <2>13 DEF ImportedScheduler
    <3>4. QED
      BY <3>1, <3>2, <3>3 DEF SameScheduler
  <2>14. ASSUME NEW t \in file.listeners, NEW r, NEW id,
                r = ImportedListener(servers, id, t)
         PROVE  /\ Find(servers, r.listen) # {} /\ Find(servers, r.process) # {}
                /\ SameListener([complete |-> TRUE, name |-> r.name,
                                 listen |-> NameIn(servers, r.listen),
                                 jobworkerp |-> NameIn(servers, r.process),
                                 columns |-> r.columns], t)
    <3>1. /\ Find(servers, IdOf(servers, t.jobworkerp)) # {}
          /\ NameIn(servers, IdOf(servers, t.jobworkerp)) = t.jobworkerp
      BY <2>3, <2>11, ResolvedName
    <3>2. /\ Find(servers, IdOf(servers, t.listen)) # {}
          /\ NameIn(servers, IdOf(servers, t.listen)) = t.listen
      BY <2>3, <2>11, ResolvedName
    <3>3. TargetOf(ImportedListenerColumns(t.columns)) = TargetOf(t.columns)
      BY <2>9, ImportedColumnsSound
    <3>4. /\ r.process = IdOf(servers, t.jobworkerp) /\ r.name = t.name
          /\ r.listen = IdOf(servers, t.listen)
          /\ r.columns = ImportedListenerColumns(t.columns)
      BY <2>14 DEF ImportedListener
    <3>5. QED
      BY <3>1, <3>2, <3>3, <3>4 DEF SameListener, SameScheduler
  <2>15. \A s \in e.jobworkerp : \E t \in file.jobworkerp : SameServer(s, t)
    BY <2>4, <2>7, <2>12
  <2>16. ASSUME NEW t \in file.jobworkerp PROVE \E s \in e.jobworkerp : SameServer(s, t)
    <3>1. PICK r \in servers : \E id : r = ImportedServer(id, t)
      BY <2>7
    <3>2. [name |-> r.name, endpoint |-> r.endpoint] \in e.jobworkerp
      BY <2>4
    <3>3. QED
      BY <2>12, <3>1, <3>2
  <2>17. \A s \in e.schedulers : \E t \in file.schedulers : SameScheduler(s, t)
    BY <2>5, <2>7, <2>13
  <2>18. ASSUME NEW t \in file.schedulers
         PROVE  \E s \in e.schedulers : SameScheduler(s, t)
    <3>1. PICK r \in crons : \E id : r = ImportedScheduler(servers, id, t)
      BY <2>7
    <3>2. Find(servers, r.server) # {}
      BY <2>13, <3>1
    <3>3. [complete |-> TRUE, name |-> r.name, jobworkerp |-> NameIn(servers, r.server),
           columns |-> r.columns] \in e.schedulers
      BY <2>5, <3>2
    <3>4. QED
      BY <2>13, <3>1, <3>3
  <2>19. \A s \in e.listeners : \E t \in file.listeners : SameListener(s, t)
    BY <2>6, <2>7, <2>14
  <2>20. ASSUME NEW t \in file.listeners
         PROVE  \E s \in e.listeners : SameListener(s, t)
    <3>1. PICK r \in handlers : \E id : r = ImportedListener(servers, id, t)
      BY <2>7
    <3>2. Find(servers, r.listen) # {} /\ Find(servers, r.process) # {}
      BY <2>14, <3>1
    <3>3. [complete |-> TRUE, name |-> r.name, listen |-> NameIn(servers, r.listen),
           jobworkerp |-> NameIn(servers, r.process), columns |-> r.columns] \in e.listeners
      BY <2>6, <3>2
    <3>4. QED
      BY <2>14, <3>1, <3>3
  <2>21. Meaning(e) = Meaning(file)
    BY <2>15, <2>16, <2>17, <2>18, <2>19, <2>20, SameMeaning
  <2>22. QED
    BY <2>1, <2>21
<1>2. TransferInv /\ [Next]_vars =>
        [ImportToml(file, TRUE) => Meaning(ExportTomlConfig(FALSE)') = Meaning(file)]_vars
  BY <1>1
<1>3. QED
  BY <1>2, TransferInvariant, PTL DEF Spec, ImportsWhatTheFileSays

=============================================================================
