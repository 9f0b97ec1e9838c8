------------------------------ MODULE SlackRetry ------------------------------
(***************************************************************************)
(* Running a handler for a Slack event: up to MaxRetries attempts, each an *)
(* execution of its own in the ExecutionLedger, with a row, a recorder and *)
(* a job.  Whether an attempt is followed by another is decided by words   *)
(* in the text of its error.                                               *)
(*                                                                         *)
(* A text "speaks" if it holds a word of the non-retriable errors (parse,  *)
(* json, 401, 403, unauthorized, validation, invalid, worker not found).   *)
(***************************************************************************)
EXTENDS ExecutionLedger

CONSTANTS
    Task,       \* handler runs that the matcher starts
    HandlerOf,  \* the Slack event handler of each task
    MaxRetries  \* MAX_RETRIES, which counts attempts

\* The executions of the ledger are the attempts, and their source the handler.
AttemptsAreRefs ==
    /\ Ref = Task \X (1 .. MaxRetries)
    /\ HandlerOf \in [Task -> Source]
    /\ SourceOf = [r \in Ref |-> HandlerOf[r[1]]]
    /\ MaxRetries \in Nat \ {0}
    /\ Origins = {"auto"}

VARIABLES
    data,  \* data[e]: what matters of the handler's row
    task   \* task[e]: progress of execute_workflow_with_retry

retryVars == <<vars, data, task>>

-----------------------------------------------------------------------------
(* Data *)

\* Does the name of the handler speak, does the id of its server, and are its
\* arguments well formed?
HandlerData == [name : BOOLEAN, serverId : BOOLEAN, args : BOOLEAN]

\* What an attempt failed with, and whether another attempt could mend it. The
\* errors of one attempt are: the server is not configured, the arguments do
\* not parse, the job ended badly, or there is no outcome (the enqueue failed
\* or the stream broke).
Error ==
    [what : {"server", "args", "job", "terminal"}, cause : {"temporary", "permanent"}]
NoError == [what |-> "none"]

\* errors[n] is a history of the errors; the code keeps the last.
TaskState ==
    [step : {"idle", "setup", "running", "sleep", "ok", "failed", "lost"},
     attempt : 0 .. MaxRetries,
     errors : [1 .. MaxRetries -> Error \cup {NoError}]]

RetryTypeOK ==
    /\ TypeOK
    /\ data \in [Task -> HandlerData]
    /\ task \in [Task -> TaskState]

Current(e) == <<e, task[e].attempt>>

-----------------------------------------------------------------------------
(* Which errors are retried *)

\* The text of an error without an outcome is "Failed to execute for handler",
\* the context put around the cause; the output of a failed job is in the text.
Speaks(e, error) ==
    CASE error.what = "server" -> data[e].serverId
      [] error.what = "args" -> TRUE
      [] error.what = "job" -> data[e].name \/ error.cause = "permanent"
      [] error.what = "terminal" -> data[e].name

IsRetriableError(e, error) == ~ Speaks(e, error)

\* Mutant: an attempt more.
AttemptsRemain(e) == task[e].attempt <= MaxRetries

AttemptsLeft(e) == task[e].attempt < MaxRetries

\* The attempt has failed: the error is judged at once.
AttemptFails(e, error) ==
    task' = [task EXCEPT
               ![e].errors = [task[e].errors EXCEPT ![task[e].attempt] = error],
               ![e].step = IF IsRetriableError(e, error) /\ AttemptsLeft(e)
                           THEN "sleep" ELSE "failed"]

-----------------------------------------------------------------------------
(* The loop *)

Dispatch(e) ==
    /\ task[e].step = "idle"
    /\ task' = [task EXCEPT ![e].step = "setup", ![e].attempt = 1]
    /\ UNCHANGED <<vars, data>>

\* The server is looked up anew by each attempt, and may not be configured now.
ServerMissing(e) ==
    /\ task[e].step = "setup"
    /\ AttemptFails(e, [what |-> "server", cause |-> "temporary"])
    /\ UNCHANGED <<vars, data>>

\* build_workflow_args
ArgsUnusable(e) ==
    /\ task[e].step = "setup"
    /\ ~ data[e].args
    /\ AttemptFails(e, [what |-> "args", cause |-> "permanent"])
    /\ UNCHANGED <<vars, data>>

\* record_pending_then_update begins; the row may not be written.
StartAttempt(e) ==
    /\ task[e].step = "setup"
    /\ data[e].args
    /\ RecordPending(Current(e)) \/ RecordPendingFails(Current(e))
    /\ task' = [task EXCEPT ![e].step = "running"]
    /\ UNCHANGED data

\* The recorder enqueues and awaits.
Progress(e) ==
    /\ task[e].step = "running"
    /\ \/ \E streaming \in BOOLEAN : EnqueueOk(Current(e), streaming)
       \/ EnqueueFails(Current(e))
       \/ RecordJobId(Current(e))
       \/ LoseTerminal(Current(e))
    /\ UNCHANGED <<data, task>>

\* Mutant: only a job that left a result counts as a success.
SucceededWithResult(r) == job[r] = "Success"

\* outcome.success, which a missing result does not deny
Succeeded(r) == TerminalStatus(job[r]) = "Success"

\* Mutant: an attempt whose job takes long counts as failed.
OutcomeTimesOut(e) ==
    /\ task[e].step = "running"
    /\ pc[Current(e)] = "await"
    /\ AttemptFails(e, [what |-> "job", cause |-> "temporary"])
    /\ UNCHANGED <<vars, data>>

\* The outcome has arrived and been recorded.
OutcomeArrives(e) ==
    /\ task[e].step = "running"
    /\ RecordResult(Current(e))
    /\ IF Succeeded(Current(e))
       THEN task' = [task EXCEPT ![e].step = "ok"]
       ELSE \E cause \in {"temporary", "permanent"} :
              AttemptFails(e, [what |-> "job", cause |-> cause])
    /\ UNCHANGED data

\* Mutant: the error is passed on only where there is a row to record it in.
NoOutcomeRecorded(e) ==
    /\ task[e].step = "running"
    /\ hasId[Current(e)]
    /\ RecordError(Current(e))
    /\ AttemptFails(e, [what |-> "terminal", cause |-> "temporary"])
    /\ UNCHANGED data

\* There will be no outcome. A job that exists was lost by a passing failure;
\* where there is none it may be that none can be created.
NoOutcome(e) ==
    /\ task[e].step = "running"
    /\ RecordError(Current(e))
    /\ \E cause \in {"temporary", "permanent"} :
         /\ cause = "permanent" => job[Current(e)] = "none"
         /\ AttemptFails(e, [what |-> "terminal", cause |-> cause])
    /\ UNCHANGED data

\* The delay is over.
Retry(e) ==
    /\ task[e].step = "sleep"
    /\ task' = [task EXCEPT ![e].step = "setup", ![e].attempt = task[e].attempt + 1]
    /\ UNCHANGED <<vars, data>>

-----------------------------------------------------------------------------
(* The rest of the world *)

Unfinished(e) == task[e].step \in {"setup", "running", "sleep"}

\* The conductor dies; nothing resumes a task.
CrashLosesTasks ==
    /\ Crash
    /\ task' = [e \in Task |->
                  IF Unfinished(e) THEN [task[e] EXCEPT !.step = "lost"] ELSE task[e]]
    /\ UNCHANGED data

\* The RPC handlers of ExecutionStatusService see each attempt as a row.
RpcStep ==
    /\ \/ \E o \in Op : Call(o) \/ HandlerStep(o)
       \/ \E s \in Source : DeleteAllBySource(s)
    /\ UNCHANGED <<data, task>>

JobMoves(r) == JobStep(r) /\ UNCHANGED <<data, task>>

RetryInit ==
    /\ Init
    /\ data \in [Task -> HandlerData]
    /\ task = [e \in Task |->
                 [step |-> "idle", attempt |-> 0,
                  errors |-> [n \in 1 .. MaxRetries |-> NoError]]]

TaskStep(e) ==
    \/ ServerMissing(e)
    \/ ArgsUnusable(e)
    \/ StartAttempt(e)
    \/ Progress(e)
    \/ OutcomeArrives(e)
    \/ NoOutcome(e)
    \/ Retry(e)

RetryNext ==
    \/ \E e \in Task : Dispatch(e)
    \/ \E e \in Task : TaskStep(e)
    \/ \E r \in Ref : JobMoves(r)
    \/ RpcStep
    \/ CrashLosesTasks

RetrySpec == RetryInit /\ [][RetryNext]_retryVars

\* Tokio polls every task, and jobworkerp works its queue off.
FairRetrySpec ==
    /\ RetrySpec
    /\ \A e \in Task : WF_retryVars(TaskStep(e))
    /\ \A r \in Ref : WF_retryVars(JobMoves(r))

-----------------------------------------------------------------------------
(* Properties *)

\* The row of an attempt says Success only if no other attempt follows it, and
\* the task did not report a failure: neither a cancellation that discards the
\* job nor a write that is lost makes the loop run a handler again that the
\* ledger shows as done.
SuccessIsLast ==
    \A r \in present :
        row[r].status = "Success" =>
            /\ task[r[1]].attempt = r[2]
            /\ task[r[1]].step \in {"running", "ok", "lost"}

\* An attempt whose job is live or has succeeded is followed by another, or
\* reported as a failure, only if its outcome was lost: a retry after a failed
\* job never doubles it and never repeats what was done, whatever cancellations
\* and lost writes do in between.
OnlyLostJobsAreRepeated ==
    \A r \in Ref :
        /\ job[r] \in Live \cup {"Success", "Discarded"}
        /\ r[2] < task[r[1]].attempt \/ task[r[1]].step = "failed"
        => task[r[1]].errors[r[2]].what = "terminal"

\* Every run of a handler ends, in a success, in a failure or with the process.
EveryRunEnds ==
    \A e \in Task : Unfinished(e) ~> ~ Unfinished(e)

=============================================================================
