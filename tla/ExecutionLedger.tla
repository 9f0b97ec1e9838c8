---------------------------- MODULE ExecutionLedger ----------------------------
(***************************************************************************)
(* The execution ledger: the table execution_ref, the recorders that fill  *)
(* it while a job runs in jobworkerp, and the RPC handlers that resolve,   *)
(* cancel and delete its rows.                                             *)
(*                                                                         *)
(* One Ref stands for one triggered execution: the row with that id, the   *)
(* recorder task that owns it and the single job it enqueues.  A column    *)
(* that holds a job id therefore only says whether the id is there.        *)
(* jobworkerp itself is outside the repository; its jobs are modelled from *)
(* what the conductor asks of them.                                        *)
(***************************************************************************)
EXTENDS Naturals, FiniteSets

CONSTANTS
    Ref,          \* executions
    Source,       \* sources (a cron scheduler, a Slack handler, ...)
    SourceOf,     \* the source that triggered each execution
    Op,           \* RPC handler tasks of ExecutionStatusService
    Origins,      \* how executions start: a subset of AllOrigins
    Rpcs,         \* RPCs clients call: a subset of AllRpcs
    Faults,       \* may a database write or a call to jobworkerp fail?
    Stores,       \* may workers store the JobResult (TRUE), or not (FALSE)?
    MaxCrashes,   \* bound on conductor crashes
    ChunkSize     \* DELETE_CHUNK_SIZE

AllOrigins == {"auto", "manual", "client"}
AllRpcs == {"status", "cancel", "delete", "sweep", "force"}

ASSUME LedgerAssumption ==
    /\ Ref # {}
    /\ SourceOf \in [Ref -> Source]
    /\ Origins \subseteq AllOrigins
    /\ Rpcs \subseteq AllRpcs
    /\ Faults \in BOOLEAN
    /\ Stores \in (SUBSET BOOLEAN) \ {{}}
    /\ MaxCrashes \in Nat
    /\ ChunkSize \in Nat \ {0}

VARIABLES
    present,  \* ids of the rows that exist
    row,      \* row[r]: columns job_id, result_status, enqueue_error
    job,      \* job[r]: the job in jobworkerp
    stored,   \* stored[r]: jobworkerp kept a JobResult for the job
    origin,   \* origin[r]: which code path triggers r
    pc,       \* pc[r]: progress of the recorder task of r
    hasId,    \* hasId[r]: the recorder got an id back for its pending row
    op,       \* op[o]: progress and locals of the RPC handler o
    unmarked, \* history: executions whose job was discarded and the mark of that lost
    crashes   \* conductor crashes so far

jobVars == <<job, stored>>
recVars == <<origin, pc, hasId>>
vars == <<present, row, job, stored, origin, pc, hasId, op, unmarked, crashes>>

-----------------------------------------------------------------------------
(* Data *)

ResultStatus == {"Success", "Failed", "Cancelled"}
Row == [jobId : BOOLEAN, status : ResultStatus \cup {"None"}, error : BOOLEAN]
PendingRow == [jobId |-> FALSE, status |-> "None", error |-> FALSE]

\* WAIT_RESULT and UNKNOWN are live like Running and are folded into it.
Live == {"Pending", "Running", "Cancelling"}
Finished == ResultStatus \cup {"Discarded"}
JobState == {"none"} \cup Live \cup Finished

TerminalResolved == {"Succeeded", "Failed", "Cancelled", "EnqueueFailed"}
Resolved == Live \cup TerminalResolved \cup {"Unavailable"}

\* A recorder is lost with the process, or loses the last write it had to make.
Active == {"enqueue", "jobId", "await", "fail"}
RecorderPc == {"idle", "done", "lost"} \cup Active

AnyRef == CHOOSE r \in Ref : TRUE
NoRows == [r \in Ref |-> PendingRow]
IdleOp == [rpc |-> "none", step |-> "idle", todo |-> {}, snap |-> NoRows,
           cur |-> AnyRef, doomed |-> {}, resolved |-> "Unavailable"]
OpState ==
    [rpc : AllRpcs \cup {"none"},
     step : {"idle", "pick", "processing", "result", "resolved", "purge",
             "call", "mark"},
     todo : SUBSET Ref, snap : [Ref -> Row], cur : Ref,
     doomed : SUBSET Ref, resolved : Resolved]

TypeOK ==
    /\ present \in SUBSET Ref
    /\ row \in [Ref -> Row]
    /\ job \in [Ref -> JobState]
    /\ stored \in [Ref -> BOOLEAN]
    /\ origin \in [Ref -> Origins]
    /\ pc \in [Ref -> RecorderPc]
    /\ hasId \in [Ref -> BOOLEAN]
    /\ op \in [Op -> OpState]
    /\ unmarked \in SUBSET Ref
    /\ crashes \in 0 .. MaxCrashes

-----------------------------------------------------------------------------
(* Statements on the table: each is one autocommitted UPDATE.  An UPDATE   *)
(* of a missing id matches no row and changes nothing.                     *)

\* Mutant: without the guard on a recorded cancellation.
UpdateResultUnguarded(r, jobId, status) ==
    IF r \in present
    THEN [row EXCEPT ![r].jobId = jobId, ![r].status = status]
    ELSE row

\* Mutant: the guard keeps whatever verdict came first.
UpdateResultFirstWins(r, jobId, status) ==
    IF r \in present /\ row[r].status = "None"
    THEN [row EXCEPT ![r].jobId = jobId, ![r].status = status]
    ELSE row

\* UPDATE .. SET job_id, result_status WHERE id AND NOT already Cancelled.
UpdateResult(r, jobId, status) ==
    IF r \in present /\ row[r].status # "Cancelled"
    THEN [row EXCEPT ![r].jobId = jobId, ![r].status = status]
    ELSE row

UpdateJobId(r) ==
    IF r \in present THEN [row EXCEPT ![r].jobId = TRUE] ELSE row

UpdateEnqueueError(r) ==
    IF r \in present THEN [row EXCEPT ![r].error = TRUE] ELSE row

\* Recording is best-effort: a failed write is logged and forgotten.
BestEffort(newRow) ==
    \/ row' = newRow
    \/ Faults /\ UNCHANGED row

-----------------------------------------------------------------------------
(* Status resolution *)

\* Mutant: the recorded status is passed on as it is.
MapResultStatusUnmapped(s) == s

MapResultStatus(s) ==
    IF s = "Success" THEN "Succeeded"
    ELSE IF s = "Cancelled" THEN "Cancelled" ELSE "Failed"

\* Mutant: the recorded status is not consulted.
InferSuccess(w) == "Succeeded"

\* Finished job without a stored JobResult: the recorded status decides, and
\* without one success is inferred.
ResolveWithoutStoredResult(w) ==
    IF w.status = "None" THEN "Succeeded" ELSE MapResultStatus(w.status)

ResolveJobidless(w) ==
    IF w.error THEN "EnqueueFailed"
    ELSE IF w.status = "None" THEN "Running"
    ELSE ResolveWithoutStoredResult(w)

\* What a resolution of r that ran in one instant would report.
ResolvedNow(r) ==
    IF ~ row[r].jobId THEN ResolveJobidless(row[r])
    ELSE IF job[r] \in Live THEN job[r]
    ELSE IF stored[r] THEN MapResultStatus(job[r])
    ELSE ResolveWithoutStoredResult(row[r])

\* Mutant: an indeterminate status counts as finished.
IsTerminalOrUnavailable(s) == s \in TerminalResolved \cup {"Unavailable"}

IsTerminal(s) == s \in TerminalResolved

-----------------------------------------------------------------------------
(* Recorders: record_pending_then_update (origin "auto": cron, Slack and   *)
(* worker-result paths) and trigger_execution with spawn_and_record        *)
(* (origin "manual").                                                      *)

Init ==
    /\ present = {}
    /\ row = NoRows
    /\ job = [r \in Ref |-> "none"]
    /\ stored = [r \in Ref |-> FALSE]
    /\ origin \in [Ref -> Origins]
    /\ pc = [r \in Ref |-> "idle"]
    /\ hasId = [r \in Ref |-> FALSE]
    /\ op = [o \in Op |-> IdleOp]
    /\ unmarked = {}
    /\ crashes = 0

\* The pending row is inserted before the enqueue.
RecordPending(r) ==
    /\ pc[r] = "idle"
    /\ origin[r] # "client"
    /\ present' = present \cup {r}
    /\ hasId' = [hasId EXCEPT ![r] = TRUE]
    /\ pc' = [pc EXCEPT ![r] = "enqueue"]
    /\ UNCHANGED <<row, job, stored, origin, op, unmarked, crashes>>

\* The insert fails: the automatic paths enqueue all the same, the manual
\* trigger must not.
RecordPendingFails(r) ==
    /\ Faults
    /\ pc[r] = "idle"
    /\ origin[r] # "client"
    /\ pc' = [pc EXCEPT ![r] =
                IF origin[r] = "manual" THEN "done" ELSE "enqueue"]
    /\ UNCHANGED <<present, row, job, stored, origin, hasId, op, unmarked, crashes>>

\* CreateExecutionRef: a client writes a row of its own, with the columns as it
\* says and no recorder.  The job it names may be one it has enqueued itself.
CreateExecutionRef(r) ==
    /\ pc[r] = "idle"
    /\ origin[r] = "client"
    /\ present' = present \cup {r}
    /\ \E w \in Row :
          /\ row' = [row EXCEPT ![r] = w]
          /\ \/ UNCHANGED job
             \/ w.jobId /\ job' = [job EXCEPT ![r] = "Pending"]
    /\ pc' = [pc EXCEPT ![r] = "done"]
    /\ UNCHANGED <<stored, origin, hasId, op, unmarked, crashes>>

\* A streaming runner returns the job id at once, the Direct fallback only
\* with the outcome.
EnqueueOk(r, streaming) ==
    /\ pc[r] = "enqueue"
    /\ job' = [job EXCEPT ![r] = "Pending"]
    /\ pc' = [pc EXCEPT ![r] =
                IF streaming /\ hasId[r] THEN "jobId" ELSE "await"]
    /\ UNCHANGED <<present, row, stored, origin, hasId, op, unmarked, crashes>>

\* The enqueue call fails: before the job exists, or with its reply lost.
EnqueueFails(r) ==
    /\ pc[r] = "enqueue"
    /\ pc' = [pc EXCEPT ![r] = "fail"]
    /\ \/ UNCHANGED job
       \/ Faults /\ job' = [job EXCEPT ![r] = "Pending"]
    /\ UNCHANGED <<present, row, stored, origin, hasId, op, unmarked, crashes>>

RecordJobId(r) ==
    /\ pc[r] = "jobId"
    /\ BestEffort(UpdateJobId(r))
    /\ pc' = [pc EXCEPT ![r] = "await"]
    /\ UNCHANGED <<present, job, stored, origin, hasId, op, unmarked, crashes>>

\* The stream to jobworkerp breaks while the job goes on.
LoseTerminal(r) ==
    /\ Faults
    /\ pc[r] = "await"
    /\ pc' = [pc EXCEPT ![r] = "fail"]
    /\ UNCHANGED <<present, row, job, stored, origin, hasId, op, unmarked, crashes>>

\* The outcome the terminal future yields: a discarded job has no JobResult,
\* and a missing result reads as Success.
TerminalStatus(j) == IF j = "Discarded" THEN "Success" ELSE j

\* The last thing a recorder does to its row, if it has one.
LastWrite(r, newRow) ==
    \/ /\ row' = IF hasId[r] THEN newRow ELSE row
       /\ pc' = [pc EXCEPT ![r] = "done"]
    \/ /\ Faults /\ hasId[r]
       /\ pc' = [pc EXCEPT ![r] = "lost"]
       /\ UNCHANGED row

\* The awaited outcome arrives and is recorded.  The outcome of a finished
\* job never changes, so waiting and writing are one step: the interleavings
\* between them are those before this step.
RecordResult(r) ==
    /\ pc[r] = "await"
    /\ job[r] \in Finished
    /\ \E carriesJobId \in BOOLEAN :
          LastWrite(r, UpdateResult(r, carriesJobId, TerminalStatus(job[r])))
    /\ UNCHANGED <<present, job, stored, origin, hasId, op, unmarked, crashes>>

\* Mutant: a terminal error leaves the row as it is.
RecordErrorForgets(r) ==
    /\ pc[r] = "fail"
    /\ pc' = [pc EXCEPT ![r] = "done"]
    /\ UNCHANGED <<present, row, job, stored, origin, hasId, op, unmarked, crashes>>

RecordError(r) ==
    /\ pc[r] = "fail"
    /\ LastWrite(r, UpdateEnqueueError(r))
    /\ UNCHANGED <<present, job, stored, origin, hasId, op, unmarked, crashes>>

-----------------------------------------------------------------------------
(* Jobs in jobworkerp (external) *)

JobStarts(r) ==
    /\ job[r] = "Pending"
    /\ job' = [job EXCEPT ![r] = "Running"]
    /\ UNCHANGED <<present, row, stored, recVars, op, unmarked, crashes>>

\* store_success / store_failure decide whether a JobResult stays.
JobFinishes(r) ==
    /\ \/ /\ job[r] = "Running"
          /\ \E s \in {"Success", "Failed"} : job' = [job EXCEPT ![r] = s]
       \/ /\ job[r] = "Cancelling"
          /\ \E s \in ResultStatus : job' = [job EXCEPT ![r] = s]
    /\ \E kept \in Stores : stored' = [stored EXCEPT ![r] = kept]
    /\ UNCHANGED <<present, row, recVars, op, unmarked, crashes>>

-----------------------------------------------------------------------------
(* RPC handlers *)

Begin(o, rpc, refs) ==
    /\ op[o].step = "idle"
    /\ rpc \in Rpcs
    /\ op' = [op EXCEPT ![o] =
                [IdleOp EXCEPT !.rpc = rpc, !.todo = refs,
                    !.step = IF refs = {} THEN "purge" ELSE "pick",
                    !.snap = [r \in Ref |->
                                IF r \in refs THEN row[r] ELSE PendingRow]]]
    /\ UNCHANGED <<present, row, jobVars, recVars, unmarked, crashes>>

\* find_runtime_status
FindRuntimeStatus(o, r) == r \in present /\ Begin(o, "status", {r})

\* delete_execution_ref
DeleteExecutionRef(o, r) == r \in present /\ Begin(o, "delete", {r})

OfSource(s) == {r \in present : SourceOf[r] = s}

\* delete_execution_refs_by_source with include_active = false
DeleteBySource(o, s) == Begin(o, "sweep", OfSource(s))

\* resolve_status takes the next row that was read.
ResolveNext(o) ==
    /\ op[o].step = "pick"
    /\ \E r \in op[o].todo :
          LET w == op[o].snap[r]
              taken == [op[o] EXCEPT !.todo = @ \ {r}, !.cur = r]
          IN op' = [op EXCEPT ![o] =
                IF w.jobId
                THEN [taken EXCEPT !.step = "processing"]
                ELSE [taken EXCEPT !.step = "resolved",
                                   !.resolved = ResolveJobidless(w)]]
    /\ UNCHANGED <<present, row, jobVars, recVars, unmarked, crashes>>

Resolve(o, s) ==
    op' = [op EXCEPT ![o] = [@ EXCEPT !.step = "resolved", !.resolved = s]]

\* Mutant: an unreachable server reads as a server that knows no such job.
UnreachableReadsAsAbsent(o) == op' = [op EXCEPT ![o] = [@ EXCEPT !.step = "result"]]

\* The server row is gone or the call fails: no verdict.
Unreachable(o) == Resolve(o, "Unavailable")

\* First question to jobworkerp: the processing status of the job.
FindProcessingStatus(o) ==
    /\ op[o].step = "processing"
    /\ \/ Faults /\ Unreachable(o)
       \/ job[op[o].cur] \in Live /\ Resolve(o, job[op[o].cur])
       \/ /\ job[op[o].cur] \notin Live
          /\ op' = [op EXCEPT ![o] = [@ EXCEPT !.step = "result"]]
    /\ UNCHANGED <<present, row, jobVars, recVars, unmarked, crashes>>

\* Second question: a stored JobResult; else the row as it was read.
FindJobResult(o) ==
    /\ op[o].step = "result"
    /\ LET r == op[o].cur IN
         \/ Faults /\ Unreachable(o)
         \/ stored[r] /\ Resolve(o, MapResultStatus(job[r]))
         \/ ~ stored[r] /\ Resolve(o, ResolveWithoutStoredResult(op[o].snap[r]))
    /\ UNCHANGED <<present, row, jobVars, recVars, unmarked, crashes>>

\* find_runtime_status returns; a delete keeps the id if it is terminal.
UseStatus(o) ==
    /\ op[o].step = "resolved"
    /\ LET st == op[o]
           judged == IF IsTerminal(st.resolved)
                     THEN st.doomed \cup {st.cur} ELSE st.doomed
           next == IF st.todo = {} THEN "purge" ELSE "pick"
       IN op' = [op EXCEPT ![o] =
                   IF st.rpc = "status" THEN IdleOp
                   ELSE [st EXCEPT !.doomed = judged, !.step = next]]
    /\ UNCHANGED <<present, row, jobVars, recVars, unmarked, crashes>>

Chunks(ids) ==
    {c \in SUBSET ids :
        Cardinality(c) = IF Cardinality(ids) < ChunkSize
                         THEN Cardinality(ids) ELSE ChunkSize}

\* delete / delete_by_ids: one statement per chunk; a failing statement ends
\* the call and leaves the earlier chunks deleted.
DeleteByIds(o) ==
    /\ op[o].step = "purge"
    /\ \/ Faults /\ op' = [op EXCEPT ![o] = IdleOp] /\ UNCHANGED present
       \/ \E c \in Chunks(op[o].doomed) :
            LET rest == op[o].doomed \ c IN
            /\ present' = present \ c
            /\ op' = [op EXCEPT ![o] =
                        IF rest = {} THEN IdleOp
                        ELSE [op[o] EXCEPT !.doomed = rest]]
    /\ UNCHANGED <<row, jobVars, recVars, unmarked, crashes>>

\* delete_execution_refs_by_source with include_active = true
DeleteAllBySource(s) ==
    /\ "force" \in Rpcs
    /\ OfSource(s) # {}
    /\ present' = present \ OfSource(s)
    /\ UNCHANGED <<row, jobVars, recVars, op, unmarked, crashes>>

\* cancel_execution reads the row and needs its job id.
CancelFind(o, r) ==
    /\ op[o].step = "idle"
    /\ "cancel" \in Rpcs
    /\ r \in present /\ row[r].jobId
    /\ op' = [op EXCEPT ![o] =
                [IdleOp EXCEPT !.rpc = "cancel", !.step = "call", !.cur = r]]
    /\ UNCHANGED <<present, row, jobVars, recVars, unmarked, crashes>>

\* jobworkerp's delete: a pending job is discarded without a JobResult, a
\* running one is told to stop, anything else is refused.
JobDelete(r) ==
    IF job[r] = "Pending" THEN [job EXCEPT ![r] = "Discarded"]
    ELSE IF job[r] = "Running" THEN [job EXCEPT ![r] = "Cancelling"]
    ELSE job

MarksLost(refs) ==
    unmarked' = unmarked \cup {r \in refs : job'[r] = "Discarded"}

CancelCall(o) ==
    /\ op[o].step = "call"
    /\ LET r == op[o].cur IN
         \/ /\ job' = JobDelete(r)
            /\ op' = [op EXCEPT ![o] =
                        IF job[r] \in Live
                        THEN [@ EXCEPT !.step = "mark"] ELSE IdleOp]
            /\ UNCHANGED unmarked
         \/ /\ Faults
            /\ \/ UNCHANGED <<job, unmarked>>
               \/ /\ job' = JobDelete(r)
                  /\ MarksLost({r})
            /\ op' = [op EXCEPT ![o] = IdleOp]
    /\ UNCHANGED <<present, row, stored, recVars, crashes>>

\* Only an accepted cancellation is recorded.
CancelMark(o) ==
    /\ op[o].step = "mark"
    /\ op' = [op EXCEPT ![o] = IdleOp]
    /\ UNCHANGED <<present, jobVars, recVars, crashes>>
    /\ \/ row' = UpdateResult(op[o].cur, TRUE, "Cancelled") /\ UNCHANGED unmarked
       \/ Faults /\ MarksLost({op[o].cur}) /\ UNCHANGED row

-----------------------------------------------------------------------------
(* The conductor process dies: recorders and handlers are gone, the table  *)
(* and jobworkerp are not.  Nothing resumes a recorder after the restart.  *)

\* Executions a cancellation is about to be recorded for.
Marking == {op[o].cur : o \in {p \in Op : op[p].step = "mark"}}

Crash ==
    /\ crashes < MaxCrashes
    /\ crashes' = crashes + 1
    /\ pc' = [r \in Ref |-> IF pc[r] \in Active THEN "lost" ELSE pc[r]]
    /\ op' = [o \in Op |-> IdleOp]
    /\ UNCHANGED <<present, row, jobVars, origin, hasId>>
    /\ MarksLost(Marking)

-----------------------------------------------------------------------------
(* Specification *)

Trigger(r) == RecordPending(r) \/ RecordPendingFails(r) \/ CreateExecutionRef(r)

RecorderStep(r) ==
    \/ \E streaming \in BOOLEAN : EnqueueOk(r, streaming)
    \/ EnqueueFails(r)
    \/ RecordJobId(r)
    \/ LoseTerminal(r)
    \/ RecordResult(r)
    \/ RecordError(r)

JobStep(r) == JobStarts(r) \/ JobFinishes(r)

Call(o) ==
    \/ \E r \in Ref : FindRuntimeStatus(o, r)
    \/ \E r \in Ref : DeleteExecutionRef(o, r)
    \/ \E s \in Source : DeleteBySource(o, s)
    \/ \E r \in Ref : CancelFind(o, r)

HandlerStep(o) ==
    \/ ResolveNext(o)
    \/ FindProcessingStatus(o)
    \/ FindJobResult(o)
    \/ UseStatus(o)
    \/ DeleteByIds(o)
    \/ CancelCall(o)
    \/ CancelMark(o)

Next ==
    \/ \E r \in Ref : Trigger(r)
    \/ \E r \in Ref : RecorderStep(r)
    \/ \E r \in Ref : JobStep(r)
    \/ \E o \in Op : Call(o)
    \/ \E o \in Op : HandlerStep(o)
    \/ \E s \in Source : DeleteAllBySource(s)
    \/ Crash

Spec == Init /\ [][Next]_vars

-----------------------------------------------------------------------------
(* Properties *)

\* Once a row says Cancelled, only a deletion changes what it says: neither
\* the terminal update of the job that was cancelled under its recorder nor a
\* second cancellation does (rdb.rs update_result).
CancelledIsFinal ==
    [][\A r \in present \cap present' :
          row[r].status = "Cancelled" =>
              /\ row'[r].status = "Cancelled"
              /\ row'[r].jobId = row[r].jobId]_vars

\* A live job whose id is in the ledger can be cancelled through the ledger
\* until it ends: no late update drops the id, and no deletion that protects
\* active rows removes the row, however the reads it judged by interleave with
\* the job (execution_status.rs is_terminal).  Only the forced cleanup may.
LiveJobStaysTrackable ==
    [][\A r \in present :
          row[r].jobId /\ job[r] \in Live /\ job'[r] \in Live =>
              \/ r \in present' /\ row'[r].jobId
              \/ \E s \in Source : DeleteAllBySource(s)]_vars

\* A resolution that ends in Succeeded, Failed or Cancelled is never about a
\* job that is still live, although the row, the processing status and the
\* JobResult were read at three different moments and each call may fail.
TerminalReportIsFinished ==
    \A o \in Op :
        op[o].step = "resolved"
            /\ op[o].resolved \in {"Succeeded", "Failed", "Cancelled"}
        => job[op[o].cur] \notin Live

\* A job that failed or was cancelled is shown as a success only while its
\* recorder is still at work, or after the recorder died, lost its last write or
\* lost the stream (and said so in enqueue_error).  A verdict it recorded is never
\* masked, whatever jobworkerp kept of the job; what a client says of its own row
\* is its own affair.
FailureNotMasked ==
    \A r \in present :
        /\ origin[r] # "client"
        /\ job[r] \in {"Failed", "Cancelled"}
        /\ ResolvedNow(r) = "Succeeded"
        => pc[r] \in Active \cup {"lost"} \/ row[r].error

\* A pending job discarded by a cancellation ends as Cancelled in the ledger,
\* whichever of the recorder and the cancellation writes last: it may say
\* something else only while that cancellation has yet to write, or if its write
\* was lost (the reply to the cancellation, the statement or the process).
DiscardedIsCancelled ==
    \A r \in present :
        job[r] = "Discarded" =>
            row[r].status = "Cancelled" \/ r \in Marking \cup unmarked

\* The recorder closes every row it opened, unless the row is deleted or the
\* recorder dies or loses its last write: enqueue failures, lost streams,
\* streaming and Direct runners alike.
EveryRowIsClosed ==
    \A r \in Ref :
        (r \in present /\ origin[r] # "client")
            ~> \/ r \notin present
               \/ row[r].status # "None" \/ row[r].error
               \/ pc[r] = "lost"

\* The ledger as LedgerPromise describes it.
Entry(r) ==
    IF r \in present
    THEN IF row[r].status = "None" THEN "open" ELSE row[r].status
    ELSE IF pc[r] = "idle" THEN "absent" ELSE "gone"

Truth(r) == IF job[r] \in Live THEN "live" ELSE job[r]

Promise == INSTANCE LedgerPromise WITH
    ledger <- [r \in Ref |-> Entry(r)],
    truth <- [r \in Ref |-> Truth(r)],
    claimed <- {r \in Ref : origin[r] = "client"}

\* The table, its recorders and the RPC handlers keep the promise.
KeepsPromise == Promise!Spec

=============================================================================
