------------------------ MODULE ExecutionLedgerProofs ------------------------
(***************************************************************************)
(* Theorems about ExecutionLedger, for every set of executions and         *)
(* handlers, and about SlackRetry, which adds the retry loop to it.  Only  *)
(* the latter take AttemptsAreRefs, which is one of their hypotheses.      *)
(***************************************************************************)
EXTENDS SlackRetry, TLAPS

\* The placeholder of an idle handler is an execution.
LEMMA AnyRefIsRef == AnyRef \in Ref
BY LedgerAssumption DEF AnyRef

\* A handler without a call is well formed.
LEMMA IdleOpType == IdleOp \in OpState
<1>1. NoRows \in [Ref -> Row]
  BY DEF NoRows, PendingRow, Row
<1>2. QED
  BY <1>1, AnyRefIsRef
     DEF IdleOp, OpState, Resolved, TerminalResolved, Live

\* What the table statements return is a table.
LEMMA StatementTypes ==
    ASSUME row \in [Ref -> Row], NEW r \in Ref,
           NEW jobId \in BOOLEAN, NEW s \in ResultStatus
    PROVE  /\ UpdateResult(r, jobId, s) \in [Ref -> Row]
           /\ UpdateJobId(r) \in [Ref -> Row]
           /\ UpdateEnqueueError(r) \in [Ref -> Row]
BY DEF UpdateResult, UpdateJobId, UpdateEnqueueError, Row

\* What a resolution concludes is one of the statuses the API knows.
LEMMA ResolutionTypes ==
    ASSUME NEW w \in Row
    PROVE  /\ ResolveWithoutStoredResult(w) \in Resolved
           /\ ResolveJobidless(w) \in Resolved
BY DEF ResolveWithoutStoredResult, ResolveJobidless, MapResultStatus, Row,
       Resolved, TerminalResolved, Live, ResultStatus

\* The marks that wait and those that get lost are marks of executions.
LEMMA MarkTypes ==
    ASSUME TypeOK, NEW refs \in SUBSET Ref, MarksLost(refs)
    PROVE  Marking \in SUBSET Ref /\ unmarked' \in SUBSET Ref
BY DEF MarksLost, Marking, TypeOK, OpState

\* Every recorded verdict maps to a status the API knows.
LEMMA MapType == \A s : MapResultStatus(s) \in Resolved
BY DEF MapResultStatus, Resolved, TerminalResolved, Live

-----------------------------------------------------------------------------
(* Type correctness *)

\* The types hold initially.
LEMMA TypeInit == Init => TypeOK
BY IdleOpType, LedgerAssumption
   DEF Init, TypeOK, NoRows, PendingRow, Row, JobState, RecorderPc

\* The types are kept by every step.
LEMMA TypeStep == TypeOK /\ [Next]_vars => TypeOK'
<1> SUFFICES ASSUME TypeOK, [Next]_vars PROVE TypeOK'
  OBVIOUS
<1> USE DEF TypeOK
<1>1. ASSUME NEW r \in Ref, Trigger(r) PROVE TypeOK'
  <2>1. CASE RecordPending(r)
    BY <2>1 DEF RecordPending, RecorderPc, Active
  <2>2. CASE RecordPendingFails(r)
    BY <2>2 DEF RecordPendingFails, RecorderPc, Active
  <2>3. CASE CreateExecutionRef(r)
    BY <2>3 DEF CreateExecutionRef, RecorderPc, JobState, Live
  <2>4. QED
    BY <1>1, <2>1, <2>2, <2>3 DEF Trigger
<1>2. ASSUME NEW r \in Ref, RecorderStep(r) PROVE TypeOK'
  <2>1. ASSUME NEW streaming \in BOOLEAN, EnqueueOk(r, streaming) PROVE TypeOK'
    BY <2>1 DEF EnqueueOk, RecorderPc, Active, JobState, Live
  <2>2. CASE EnqueueFails(r)
    BY <2>2 DEF EnqueueFails, RecorderPc, Active, JobState, Live
  <2>3. CASE RecordJobId(r)
    BY <2>3, StatementTypes
       DEF RecordJobId, BestEffort, RecorderPc, Active, ResultStatus
  <2>4. CASE LoseTerminal(r)
    BY <2>4 DEF LoseTerminal, RecorderPc, Active
  <2>5. CASE RecordResult(r)
    <3>1. TerminalStatus(job[r]) \in ResultStatus
      BY <2>5 DEF RecordResult, TerminalStatus, Finished, ResultStatus
    <3>2. row' \in [Ref -> Row]
      BY <2>5, <3>1, StatementTypes DEF RecordResult, LastWrite
    <3>3. QED
      BY <2>5, <3>2 DEF RecordResult, LastWrite, RecorderPc
  <2>6. CASE RecordError(r)
    BY <2>6, StatementTypes
       DEF RecordError, LastWrite, RecorderPc, ResultStatus
  <2>7. QED
    BY <1>2, <2>1, <2>2, <2>3, <2>4, <2>5, <2>6 DEF RecorderStep
<1>3. ASSUME NEW r \in Ref, JobStep(r) PROVE TypeOK'
  <2>1. CASE JobStarts(r)
    BY <2>1 DEF JobStarts, recVars, JobState, Live
  <2>2. CASE JobFinishes(r)
    BY <2>2, LedgerAssumption
       DEF JobFinishes, recVars, JobState, Finished, ResultStatus
  <2>3. QED
    BY <1>3, <2>1, <2>2 DEF JobStep
<1>4. ASSUME NEW o \in Op, Call(o) PROVE TypeOK'
  <2>1. ASSUME NEW rpc \in AllRpcs, NEW refs \in SUBSET Ref, Begin(o, rpc, refs)
        PROVE  TypeOK'
    <3>1. [r \in Ref |-> IF r \in refs THEN row[r] ELSE PendingRow]
            \in [Ref -> Row]
      BY DEF PendingRow, Row
    <3>2. op' \in [Op -> OpState]
      BY <2>1, <3>1, IdleOpType DEF Begin, OpState
    <3>3. QED
      BY <2>1, <3>2 DEF Begin, jobVars, recVars
  <2>2. ASSUME NEW r \in Ref, FindRuntimeStatus(o, r) PROVE TypeOK'
    BY <2>1, <2>2 DEF FindRuntimeStatus, AllRpcs
  <2>3. ASSUME NEW r \in Ref, DeleteExecutionRef(o, r) PROVE TypeOK'
    BY <2>1, <2>3 DEF DeleteExecutionRef, AllRpcs
  <2>4. ASSUME NEW s \in Source, DeleteBySource(o, s) PROVE TypeOK'
    BY <2>1, <2>4 DEF DeleteBySource, OfSource, AllRpcs
  <2>5. ASSUME NEW r \in Ref, CancelFind(o, r) PROVE TypeOK'
    BY <2>5, IdleOpType DEF CancelFind, jobVars, recVars, OpState, AllRpcs
  <2>6. QED
    BY <1>4, <2>2, <2>3, <2>4, <2>5 DEF Call
<1>5. ASSUME NEW o \in Op, HandlerStep(o) PROVE TypeOK'
  <2>0. op[o] \in OpState
    OBVIOUS
  <2>a. /\ op[o].snap \in [Ref -> Row]
        /\ op[o].cur \in Ref
        /\ op[o].todo \subseteq Ref
        /\ op[o].doomed \subseteq Ref
    BY <2>0 DEF OpState
  <2>b. ASSUME NEW s \in Resolved, Resolve(o, s) PROVE op' \in [Op -> OpState]
    <3>1. [op[o] EXCEPT !.step = "resolved", !.resolved = s] \in OpState
      BY <2>0 DEF OpState
    <3>2. QED
      BY <2>b, <3>1 DEF Resolve
  <2>c. "Unavailable" \in Resolved /\ Live \subseteq Resolved
    BY DEF Resolved
  <2>1. CASE ResolveNext(o)
    <3>1. ASSUME NEW r \in op[o].todo
          PROVE  /\ [op[o] EXCEPT !.todo = @ \ {r}, !.cur = r,
                                  !.step = "processing"] \in OpState
                 /\ [op[o] EXCEPT !.todo = @ \ {r}, !.cur = r,
                        !.step = "resolved",
                        !.resolved = ResolveJobidless(op[o].snap[r])] \in OpState
      <4>1. ResolveJobidless(op[o].snap[r]) \in Resolved
        BY <2>a, ResolutionTypes
      <4>2. QED
        BY <2>0, <2>a, <4>1 DEF OpState
    <3>2. op' \in [Op -> OpState]
      BY <2>1, <3>1 DEF ResolveNext
    <3>3. QED
      BY <2>1, <3>2 DEF ResolveNext, jobVars, recVars
  <2>2. CASE FindProcessingStatus(o)
    <3>1. [op[o] EXCEPT !.step = "result"] \in OpState
      BY <2>0 DEF OpState
    <3>2. op' \in [Op -> OpState]
      BY <2>2, <2>b, <2>c, <3>1 DEF FindProcessingStatus, Unreachable
    <3>3. QED
      BY <2>2, <3>2 DEF FindProcessingStatus, jobVars, recVars
  <2>3. CASE FindJobResult(o)
    <3>1. op' \in [Op -> OpState]
      BY <2>3, <2>a, <2>b, <2>c, MapType, ResolutionTypes
         DEF FindJobResult, Unreachable
    <3>2. QED
      BY <2>3, <3>1 DEF FindJobResult, jobVars, recVars
  <2>4. CASE UseStatus(o)
    <3>1. ASSUME NEW d \in SUBSET Ref, NEW st \in {"purge", "pick"}
          PROVE  [op[o] EXCEPT !.doomed = d, !.step = st] \in OpState
      BY <2>0 DEF OpState
    <3>2. op' \in [Op -> OpState]
      BY <2>4, <2>a, <3>1, IdleOpType DEF UseStatus
    <3>3. QED
      BY <2>4, <3>2 DEF UseStatus, jobVars, recVars
  <2>5. CASE DeleteByIds(o)
    <3>1. ASSUME NEW d \in SUBSET Ref
          PROVE  [op[o] EXCEPT !.doomed = d] \in OpState
      BY <2>0 DEF OpState
    <3>2. \A c : [op[o] EXCEPT !.doomed = op[o].doomed \ c] \in OpState
      BY <2>a, <3>1
    <3>3. PICK st \in OpState : op' = [op EXCEPT ![o] = st]
      BY <2>5, <3>2, IdleOpType DEF DeleteByIds
    <3>4. op' \in [Op -> OpState]
      BY <3>3
    <3>5. present' \in SUBSET Ref
      BY <2>5 DEF DeleteByIds
    <3>6. QED
      BY <2>5, <3>4, <3>5 DEF DeleteByIds, jobVars, recVars
  <2>6. CASE CancelCall(o)
    <3>1. [op[o] EXCEPT !.step = "mark"] \in OpState
      BY <2>0 DEF OpState
    <3>2. JobDelete(op[o].cur) \in [Ref -> JobState]
      BY <2>a DEF JobDelete, JobState, Live, Finished
    <3>3. op' \in [Op -> OpState]
      BY <2>6, <3>1, IdleOpType DEF CancelCall
    <3>4. unmarked' \in SUBSET Ref
      BY <2>6, <2>a, MarkTypes DEF CancelCall
    <3>5. QED
      BY <2>6, <3>2, <3>3, <3>4 DEF CancelCall, recVars
  <2>7. CASE CancelMark(o)
    <3>1. row' \in [Ref -> Row]
      BY <2>7, <2>a, StatementTypes DEF CancelMark, ResultStatus
    <3>2. unmarked' \in SUBSET Ref
      BY <2>7, <2>a, MarkTypes DEF CancelMark
    <3>3. QED
      BY <2>7, <3>1, <3>2, IdleOpType DEF CancelMark, jobVars, recVars
  <2>8. QED
    BY <1>5, <2>1, <2>2, <2>3, <2>4, <2>5, <2>6, <2>7 DEF HandlerStep
<1>6. ASSUME NEW s \in Source, DeleteAllBySource(s) PROVE TypeOK'
  BY <1>6 DEF DeleteAllBySource, jobVars, recVars
<1>7. CASE Crash
  <2>1. Marking \in SUBSET Ref
    BY DEF Marking, OpState
  <2>2. unmarked' \in SUBSET Ref
    BY <1>7, <2>1, MarkTypes DEF Crash
  <2>3. QED
    BY <1>7, <2>2, IdleOpType, LedgerAssumption
       DEF Crash, jobVars, RecorderPc
<1>8. CASE UNCHANGED vars
  BY <1>8 DEF vars
<1>9. QED
  BY <1>1, <1>2, <1>3, <1>4, <1>5, <1>6, <1>7, <1>8 DEF Next

\* Every reachable state of the ledger is well formed.
THEOREM TypeCorrect == Spec => []TypeOK
BY TypeInit, TypeStep, PTL DEF Spec

\* Only its recorder brings a job into being or a row to Success: the job worker,
\* the RPC handlers and a crash move a job only while it is live.
LEMMA OthersKeepResults ==
    ASSUME TypeOK, NEW q \in Ref,
           \/ \E r \in Ref : JobStep(r)
           \/ \E o \in Op : Call(o) \/ HandlerStep(o)
           \/ \E s \in Source : DeleteAllBySource(s)
           \/ Crash
    PROVE  /\ job'[q] # job[q] => job[q] \in Live
           /\ row'[q].status = "Success" => row[q].status = "Success"
<1> DEFINE Keeps == /\ job'[q] # job[q] => job[q] \in Live
                    /\ row'[q].status = "Success" => row[q].status = "Success"
<1>1. CASE UNCHANGED <<row, job>>
  BY <1>1
<1>2. ASSUME NEW r \in Ref, JobStep(r) PROVE Keeps
  BY <1>2 DEF JobStep, JobStarts, JobFinishes, Live, TypeOK
<1>3. ASSUME NEW o \in Op, CancelCall(o) PROVE Keeps
  BY <1>3 DEF CancelCall, JobDelete, Live, TypeOK
<1>4. ASSUME NEW o \in Op, CancelMark(o) PROVE Keeps
  <2>1. op[o].cur \in Ref /\ UNCHANGED job
    BY <1>4 DEF CancelMark, jobVars, TypeOK, OpState
  <2>2. row' = UpdateResult(op[o].cur, TRUE, "Cancelled") \/ UNCHANGED row
    BY <1>4 DEF CancelMark
  <2>3. row[q] = row'[q] \/ row'[q].status = "Cancelled"
    BY <2>1, <2>2 DEF UpdateResult, TypeOK, Row
  <2>4. QED
    BY <2>1, <2>3
<1>5. ASSUME NEW o \in Op, Call(o) \/ HandlerStep(o) PROVE Keeps
  BY <1>1, <1>3, <1>4, <1>5
     DEF Call, FindRuntimeStatus, DeleteExecutionRef, DeleteBySource, Begin,
         CancelFind, HandlerStep, ResolveNext, FindProcessingStatus,
         FindJobResult, UseStatus, DeleteByIds, jobVars
<1>6. QED
  BY <1>1, <1>2, <1>5 DEF DeleteAllBySource, Crash, jobVars

-----------------------------------------------------------------------------
(* The inductive invariant *)

\* The recorder of r has not yet written anything after the pending row.
Early(r) == pc[r] \in {"idle", "enqueue", "jobId"}

\* The job of r is over for good.
Settled(r) == pc[r] \notin {"idle", "enqueue"} /\ job[r] \notin Live

\* The recorder of r has given up and no job id will ever be known.
Untracked(r) == row[r].error /\ ~ row[r].jobId

\* What the recorder of r has made of its row: it knows the row, closes it before
\* it is done, and writes no verdict but that of the job.
Recorded(r) ==
    /\ r \in present => hasId[r]
    /\ r \in present /\ pc[r] = "done" => row[r].error \/ row[r].status # "None"
    /\ row[r].status \in {"Success", "Failed"} =>
          job[r] \in Finished /\ row[r].status = TerminalStatus(job[r])

RowInv(r) ==
    /\ pc[r] = "idle" => r \notin present
    /\ Early(r) => row[r] = PendingRow
    /\ pc[r] \in {"idle", "enqueue"} => job[r] = "none"
    /\ row[r].status # "None" /\ ~ row[r].jobId => job[r] \notin Live
    /\ row[r].error => pc[r] = "done"
    /\ pc[r] \in Active => row[r].status \in {"None", "Cancelled"}
    /\ IF origin[r] = "client" THEN pc[r] \notin Active ELSE Recorded(r)

\* The job id is there, or the outcome of the job took it away.
Cancellable(r) == row[r].jobId \/ (pc[r] = "done" /\ ~ row[r].error)

\* A cancellation under way saw a job id, which only the outcome of the job,
\* and never an error, can have removed since.
CancelInv(o) ==
    op[o].step \in {"call", "mark"} =>
        /\ ~ Early(op[o].cur)
        /\ Cancellable(op[o].cur)
        /\ op[o].step = "mark" => job[op[o].cur] # "none"

\* What a row read earlier still implies about the execution now.
SnapInv(o) ==
    \A r \in Ref :
        /\ op[o].snap[r] # PendingRow => ~ Early(r)
        /\ op[o].snap[r].status # "None" /\ ~ op[o].snap[r].jobId => Settled(r)
        /\ op[o].snap[r].error /\ ~ op[o].snap[r].jobId => Untracked(r)

\* What the step a resolution has reached implies.
ResolutionInv(o) ==
    /\ op[o].step \in {"processing", "result"} => op[o].snap[op[o].cur].jobId
    /\ op[o].step = "result" => Settled(op[o].cur)
    /\ op[o].step = "resolved" =>
          /\ op[o].resolved \in {"Succeeded", "Failed", "Cancelled"}
                => Settled(op[o].cur)
          /\ op[o].resolved = "EnqueueFailed" => Untracked(op[o].cur)
    /\ \A r \in op[o].doomed : Settled(r) \/ Untracked(r)

IInv ==
    /\ TypeOK
    /\ \A r \in Ref : RowInv(r)
    /\ \A o \in Op : CancelInv(o) /\ SnapInv(o) /\ ResolutionInv(o)

\* The state functions a handler's facts rest on never become false again.
Stable(r) ==
    /\ ~ Early(r) => ~ Early(r)'
    /\ Settled(r) => Settled(r)'
    /\ Untracked(r) => Untracked(r)'
    /\ ~ Early(r) /\ Cancellable(r) => Cancellable(r)'
    /\ job[r] # "none" => job'[r] # "none"

\* The inductive invariant holds initially.
LEMMA IInvInit == Init => IInv
<1> SUFFICES ASSUME Init PROVE IInv
  OBVIOUS
<1>1. TypeOK
  BY TypeInit
<1>2. \A r \in Ref : RowInv(r)
  BY DEF Init, RowInv, Recorded, NoRows, PendingRow, Active
<1>3. \A o \in Op : CancelInv(o) /\ SnapInv(o) /\ ResolutionInv(o)
  BY DEF Init, IdleOp, NoRows, PendingRow, CancelInv, SnapInv, ResolutionInv
<1>4. QED
  BY <1>1, <1>2, <1>3 DEF IInv

\* A recorder keeps the facts of every row, and what was once settled.
LEMMA RecorderKeepsRows ==
    ASSUME IInv, NEW r \in Ref, Trigger(r) \/ RecorderStep(r) \/ JobStep(r),
           NEW q \in Ref
    PROVE  Stable(q) /\ RowInv(q)'
<1> USE DEF IInv, TypeOK, Stable, Early, Settled, Untracked, Cancellable, Active, PendingRow, Row
<1>0. RowInv(q) /\ RowInv(r)
  OBVIOUS
<1> USE DEF RowInv, Recorded
<1>1. CASE RecordPending(r)
  BY <1>0, <1>1 DEF RecordPending
<1>2. CASE RecordPendingFails(r)
  BY <1>0, <1>2 DEF RecordPendingFails
<1>3. CASE CreateExecutionRef(r)
  <2>1. PICK w \in Row :
          /\ row' = [row EXCEPT ![r] = w]
          /\ job' = job \/ (w.jobId /\ job' = [job EXCEPT ![r] = "Pending"])
    BY <1>3 DEF CreateExecutionRef
  <2>2. /\ UNCHANGED <<origin, hasId>>
        /\ origin[r] = "client" /\ pc[r] = "idle"
        /\ pc' = [pc EXCEPT ![r] = "done"]
        /\ present' = present \cup {r}
    BY <1>3 DEF CreateExecutionRef
  <2>3. CASE q = r
    BY <1>0, <2>1, <2>2, <2>3 DEF Live
  <2>4. CASE q # r
    BY <1>0, <2>1, <2>2, <2>4
  <2>5. QED
    BY <2>3, <2>4
<1>4. ASSUME NEW streaming \in BOOLEAN, EnqueueOk(r, streaming)
      PROVE  Stable(q) /\ RowInv(q)'
  BY <1>0, <1>4 DEF EnqueueOk
<1>5. CASE EnqueueFails(r)
  BY <1>0, <1>5 DEF EnqueueFails
<1>6. CASE RecordJobId(r)
  <2>1. /\ row'[q].status = row[q].status
        /\ row'[q].error = row[q].error
        /\ q # r => row'[q] = row[q]
        /\ row[q].jobId => row'[q].jobId
    BY <1>6 DEF RecordJobId, BestEffort, UpdateJobId
  <2>2. row[r].error = FALSE /\ row[r].status = "None" /\ pc'[r] = "await"
    BY <1>0, <1>6 DEF RecordJobId
  <2>3. /\ UNCHANGED <<present, job, origin, hasId>>
        /\ q # r => pc'[q] = pc[q]
        /\ pc[r] = "jobId"
    BY <1>6 DEF RecordJobId
  <2>4. QED
    BY <1>0, <2>1, <2>2, <2>3
<1>7. CASE LoseTerminal(r)
  BY <1>0, <1>7 DEF LoseTerminal
<1>8. CASE RecordResult(r)
  <2>1. /\ UNCHANGED <<present, job, origin, hasId>>
        /\ q # r => pc'[q] = pc[q] /\ row'[q] = row[q]
        /\ pc[r] = "await" /\ pc'[r] \in {"done", "lost"}
        /\ job[r] \in Finished
    BY <1>8 DEF RecordResult, LastWrite, UpdateResult
  <2>2. /\ row'[r].error = row[r].error
        /\ \/ row'[r] = row[r]
           \/ row'[r].status = TerminalStatus(job[r]) /\ pc'[r] = "done"
    BY <1>8 DEF RecordResult, LastWrite, UpdateResult
  <2>3. pc'[r] = "done" /\ r \in present /\ hasId[r] => row'[r].status # "None"
    <3>1. TerminalStatus(job[r]) # "None"
      BY <2>1 DEF TerminalStatus, Finished, ResultStatus
    <3>2. QED
      BY <1>8, <3>1 DEF RecordResult, LastWrite, UpdateResult
  <2>4. /\ row[r].error = FALSE /\ job[r] \notin Live
        /\ row'[r].jobId = row[r].jobId \/ pc'[r] = "done"
    BY <1>0, <2>1, <1>8
       DEF Finished, ResultStatus, Live, RecordResult, LastWrite
  <2>5. CASE q = r
    BY <1>0, <2>1, <2>2, <2>3, <2>4, <2>5
  <2>6. CASE q # r
    BY <1>0, <2>1, <2>6
  <2>7. QED
    BY <2>5, <2>6
<1>9. CASE RecordError(r)
  <2>1. /\ UNCHANGED <<present, job, origin, hasId>>
        /\ q # r => pc'[q] = pc[q]
        /\ pc[r] = "fail" /\ pc'[r] \in {"done", "lost"}
        /\ pc'[r] = "lost" => row' = row
        /\ pc'[r] = "done" /\ r \in present /\ hasId[r] => row'[r].error
    BY <1>9 DEF RecordError, LastWrite, UpdateEnqueueError
  <2>2. /\ row'[q].status = row[q].status
        /\ row'[q].jobId = row[q].jobId
        /\ q # r => row'[q] = row[q]
        /\ row[q].error => row'[q].error
    BY <1>9 DEF RecordError, LastWrite, UpdateEnqueueError
  <2>3. QED
    BY <1>0, <2>1, <2>2
<1>10. CASE JobStarts(r)
  BY <1>0, <1>10 DEF JobStarts, recVars, Live, Finished, ResultStatus
<1>11. CASE JobFinishes(r)
  BY <1>0, <1>11 DEF JobFinishes, recVars, Live, Finished, ResultStatus
<1>12. QED
  BY <1>1, <1>2, <1>3, <1>4, <1>5, <1>6, <1>7, <1>8, <1>9, <1>10, <1>11
     DEF Trigger, RecorderStep, JobStep

\* Handlers touch a row only to mark an accepted cancellation and a job only to
\* cancel it.
LEMMA HandlerKeepsRows ==
    ASSUME IInv, NEW o \in Op, Call(o) \/ HandlerStep(o), NEW q \in Ref
    PROVE  Stable(q) /\ RowInv(q)'
<1>0. /\ RowInv(q)
      /\ CancelInv(o)
      /\ op[o].cur \in Ref
  BY DEF IInv, TypeOK, OpState
<1> USE DEF Stable, Early, Settled, Untracked, Cancellable
<1>1. ASSUME UNCHANGED <<row, job, pc, origin, hasId>>, present' \subseteq present
      PROVE  Stable(q) /\ RowInv(q)'
  BY <1>0, <1>1 DEF RowInv, Recorded
<1>2. CASE Call(o)
  BY <1>1, <1>2
     DEF Call, FindRuntimeStatus, DeleteExecutionRef, DeleteBySource, Begin,
         CancelFind, jobVars, recVars
<1>3. CASE ResolveNext(o) \/ FindProcessingStatus(o) \/ FindJobResult(o)
             \/ UseStatus(o)
  BY <1>1, <1>3
     DEF ResolveNext, FindProcessingStatus, FindJobResult, UseStatus, jobVars,
         recVars
<1>4. CASE DeleteByIds(o)
  BY <1>1, <1>4 DEF DeleteByIds, jobVars, recVars
<1>5. CASE CancelCall(o)
  <2>1. /\ UNCHANGED <<present, row, pc, origin, hasId>>
        /\ op[o].step = "call"
        /\ q # op[o].cur => job'[q] = job[q]
        /\ \/ job'[q] = job[q]
           \/ job[q] = "Pending" /\ job'[q] = "Discarded"
           \/ job[q] = "Running" /\ job'[q] = "Cancelling"
    BY <1>0, <1>5 DEF CancelCall, JobDelete, recVars, IInv, TypeOK
  <2>2. ~ Early(op[o].cur)
    BY <1>0, <2>1 DEF CancelInv
  <2>3. QED
    BY <1>0, <2>1, <2>2 DEF RowInv, Recorded, Live, Finished, ResultStatus
<1>6. CASE CancelMark(o)
  <2>1. /\ UNCHANGED <<present, job, pc, origin, hasId>>
        /\ op[o].step = "mark"
        /\ row'[q].error = row[q].error
        /\ q # op[o].cur => row'[q] = row[q]
        /\ \/ row'[q] = row[q]
           \/ row'[q].status = "Cancelled" /\ row'[q].jobId
    BY <1>0, <1>6
       DEF CancelMark, UpdateResult, jobVars, recVars, IInv, TypeOK, Row
  <2>2. /\ ~ Early(op[o].cur)
        /\ Untracked(op[o].cur) => FALSE
    BY <1>0, <2>1 DEF CancelInv
  <2>3. QED
    BY <1>0, <2>1, <2>2 DEF RowInv, Recorded, Live, Finished, ResultStatus
<1>7. QED
  BY <1>2, <1>3, <1>4, <1>5, <1>6 DEF HandlerStep

\* Every step keeps the facts of every row, and what was once settled.
LEMMA StepKeepsRows ==
    ASSUME IInv, [Next]_vars, NEW q \in Ref
    PROVE  Stable(q) /\ RowInv(q)'
<1>1. CASE \E r \in Ref : Trigger(r) \/ RecorderStep(r) \/ JobStep(r)
  BY <1>1, RecorderKeepsRows
<1>2. CASE \E o \in Op : Call(o) \/ HandlerStep(o)
  BY <1>2, HandlerKeepsRows
<1> USE DEF Stable, Early, Settled, Untracked, Cancellable, RowInv, Recorded
<1>0. RowInv(q)
  BY DEF IInv
<1>3. CASE \E s \in Source : DeleteAllBySource(s)
  BY <1>0, <1>3 DEF DeleteAllBySource, jobVars, recVars
<1>4. CASE Crash
  BY <1>0, <1>4 DEF Crash, jobVars, Active, IInv, TypeOK, RecorderPc
<1>5. CASE UNCHANGED vars
  BY <1>0, <1>5 DEF vars
<1>6. QED
  BY <1>1, <1>2, <1>3, <1>4, <1>5 DEF Next

\* A handler that does not move keeps its facts.
LEMMA IdleKeepsFacts ==
    ASSUME IInv, [Next]_vars, NEW o \in Op, op'[o] = op[o] \/ op'[o] = IdleOp
    PROVE  SnapInv(o)' /\ ResolutionInv(o)'
<1>1. \A q \in Ref : Stable(q)
  BY StepKeepsRows
<1>2. /\ op[o].cur \in Ref
      /\ op[o].doomed \subseteq Ref
      /\ SnapInv(o) /\ ResolutionInv(o)
  BY DEF IInv, TypeOK, OpState
<1>3. CASE op'[o] = op[o]
  BY <1>1, <1>2, <1>3 DEF SnapInv, ResolutionInv, Stable
<1>4. CASE op'[o] = IdleOp
  BY <1>4 DEF IdleOp, NoRows, PendingRow, SnapInv, ResolutionInv
<1>5. QED
  BY <1>3, <1>4

\* A resolution that ends leaves a handler that is well formed.
LEMMA ResolveEffect ==
    ASSUME TypeOK, NEW o \in Op, NEW s, Resolve(o, s)
    PROVE  /\ op'[o].snap = op[o].snap
           /\ op'[o].doomed = op[o].doomed
           /\ op'[o].cur = op[o].cur
           /\ op'[o].step = "resolved"
           /\ op'[o].resolved = s
<1>1. op[o] \in OpState
  BY DEF TypeOK
<1>2. op'[o] = [op[o] EXCEPT !.step = "resolved", !.resolved = s]
  BY DEF TypeOK, Resolve
<1>3. QED
  BY <1>1, <1>2 DEF OpState

\* A handler that moves keeps its own facts.
LEMMA HandlerKeepsFacts ==
    ASSUME IInv, NEW o \in Op, Call(o) \/ HandlerStep(o)
    PROVE  SnapInv(o)' /\ ResolutionInv(o)'
<1>0. /\ [Next]_vars
      /\ \A q \in Ref : Stable(q)
  BY StepKeepsRows DEF Next
<1>1. /\ op[o] \in OpState
      /\ op[o].cur \in Ref
      /\ op[o].todo \subseteq Ref
      /\ op[o].doomed \subseteq Ref
      /\ op \in [Op -> OpState]
      /\ SnapInv(o) /\ ResolutionInv(o)
  BY DEF IInv, TypeOK, OpState
<1>2. ASSUME op'[o].snap = op[o].snap
      PROVE  SnapInv(o)'
  BY <1>0, <1>1, <1>2 DEF SnapInv, Stable
<1>3. ASSUME op'[o].doomed \subseteq op[o].doomed
      PROVE  \A r \in op'[o].doomed : (Settled(r) \/ Untracked(r))'
  BY <1>0, <1>1, <1>3 DEF ResolutionInv, Stable
<1>4. CASE Call(o)
  <2>1. ASSUME NEW rpc, NEW refs \in SUBSET present, Begin(o, rpc, refs)
        PROVE  SnapInv(o)' /\ ResolutionInv(o)'
    <3>1. /\ UNCHANGED <<row, job, pc>>
          /\ op'[o].snap = [r \in Ref |-> IF r \in refs THEN row[r] ELSE PendingRow]
          /\ op'[o].step \in {"purge", "pick"}
          /\ op'[o].doomed = {}
      BY <1>1, <2>1 DEF Begin, jobVars, recVars, IdleOp
    <3>2. ASSUME NEW r \in Ref
          PROVE  /\ row[r] # PendingRow => ~ Early(r)
                 /\ row[r].status # "None" /\ ~ row[r].jobId => Settled(r)
                 /\ row[r].error /\ ~ row[r].jobId => Untracked(r)
      BY DEF IInv, RowInv, Early, Settled, Untracked, Cancellable, PendingRow
    <3>3. SnapInv(o)'
      BY <3>1, <3>2 DEF SnapInv, Early, Settled, Untracked, Cancellable, PendingRow
    <3>4. QED
      BY <3>1, <3>3 DEF ResolutionInv
  <2>2. CASE \E r \in Ref : FindRuntimeStatus(o, r) \/ DeleteExecutionRef(o, r)
    BY <2>1, <2>2 DEF FindRuntimeStatus, DeleteExecutionRef
  <2>3. CASE \E s \in Source : DeleteBySource(o, s)
    BY <2>1, <2>3 DEF DeleteBySource, OfSource
  <2>4. CASE \E r \in Ref : CancelFind(o, r)
    <3>1. /\ op'[o].snap = NoRows
          /\ op'[o].step = "call"
          /\ op'[o].doomed = {}
      BY <1>1, <2>4 DEF CancelFind, IdleOp
    <3>2. QED
      BY <3>1 DEF SnapInv, ResolutionInv, NoRows, PendingRow
  <2>5. QED
    BY <1>4, <2>2, <2>3, <2>4 DEF Call
<1>5. CASE ResolveNext(o)
  <2>1. PICK r \in op[o].todo :
          /\ op'[o].snap = op[o].snap /\ op'[o].doomed = op[o].doomed
          /\ op'[o].cur = r
          /\ \/ op[o].snap[r].jobId /\ op'[o].step = "processing"
             \/ /\ ~ op[o].snap[r].jobId
                /\ op'[o].step = "resolved"
                /\ op'[o].resolved = ResolveJobidless(op[o].snap[r])
    BY <1>1, <1>5 DEF ResolveNext, OpState
  <2>2. /\ ~ op[o].snap[r].jobId
           /\ ResolveJobidless(op[o].snap[r])
                 \in {"Succeeded", "Failed", "Cancelled"} => Settled(r)
        /\ ~ op[o].snap[r].jobId
           /\ ResolveJobidless(op[o].snap[r]) = "EnqueueFailed" => Untracked(r)
    BY <1>1
       DEF SnapInv, ResolveJobidless, ResolveWithoutStoredResult, MapResultStatus
  <2>3. /\ Settled(r) => Settled(r)'
        /\ Untracked(r) => Untracked(r)'
    BY <1>0, <1>1 DEF Stable
  <2>4. QED
    BY <1>2, <1>3, <2>1, <2>2, <2>3 DEF ResolutionInv
<1>6. CASE FindProcessingStatus(o)
  <2>1. /\ op'[o].snap = op[o].snap /\ op'[o].doomed = op[o].doomed
        /\ op'[o].cur = op[o].cur
        /\ op[o].step = "processing"
        /\ \/ /\ op'[o].step = "resolved"
              /\ op'[o].resolved \in Live \cup {"Unavailable"}
           \/ op'[o].step = "result" /\ job[op[o].cur] \notin Live
    <3>1. CASE \E s \in Live \cup {"Unavailable"} : Resolve(o, s)
      <4>1. PICK s \in Live \cup {"Unavailable"} : Resolve(o, s)
        BY <3>1
      <4>2. QED
        BY <1>6, <4>1, ResolveEffect DEF FindProcessingStatus, IInv
    <3>2. CASE job[op[o].cur] \notin Live
                 /\ op' = [op EXCEPT ![o] = [@ EXCEPT !.step = "result"]]
      <4>1. op'[o] = [op[o] EXCEPT !.step = "result"]
        BY <1>1, <3>2
      <4>2. QED
        BY <1>1, <1>6, <3>2, <4>1 DEF FindProcessingStatus, OpState
    <3>3. QED
      BY <1>6, <3>1, <3>2 DEF FindProcessingStatus, Unreachable
  <2>2. op[o].snap[op[o].cur].jobId
    BY <1>1, <2>1 DEF ResolutionInv
  <2>3. op'[o].step = "result" => Settled(op[o].cur)'
    <3>1. ~ Early(op[o].cur)
      BY <1>1, <2>2 DEF SnapInv, PendingRow
    <3>2. job[op[o].cur] \notin Live => Settled(op[o].cur)
      BY <3>1 DEF Early, Settled
    <3>3. QED
      BY <1>0, <1>1, <2>1, <3>2 DEF Stable, Live
  <2>4. QED
    BY <1>2, <1>3, <2>1, <2>2, <2>3 DEF ResolutionInv, Live
<1>7. CASE FindJobResult(o)
  <2>1. /\ op'[o].snap = op[o].snap /\ op'[o].doomed = op[o].doomed
        /\ op'[o].cur = op[o].cur
        /\ op[o].step = "result" /\ op'[o].step = "resolved"
        /\ op'[o].resolved # "EnqueueFailed"
    <3>1. PICK s : Resolve(o, s) /\ s # "EnqueueFailed"
      BY <1>7
         DEF FindJobResult, Unreachable, MapResultStatus,
             ResolveWithoutStoredResult
    <3>2. QED
      BY <1>7, <3>1, ResolveEffect DEF FindJobResult, IInv
  <2>2. Settled(op[o].cur)'
    BY <1>0, <1>1, <2>1 DEF ResolutionInv, Stable
  <2>3. QED
    BY <1>2, <1>3, <2>1, <2>2 DEF ResolutionInv
<1>8. CASE UseStatus(o)
  <2>1. CASE op'[o] = IdleOp
    BY <1>0, <2>1, IdleKeepsFacts
  <2>2. CASE op'[o] # IdleOp
    <3>1. /\ op'[o].snap = op[o].snap
          /\ op'[o].step \in {"purge", "pick"}
          /\ op[o].step = "resolved"
          /\ \A r \in op'[o].doomed :
                r \in op[o].doomed \/ (r = op[o].cur /\ IsTerminal(op[o].resolved))
      <4> DEFINE judged == IF IsTerminal(op[o].resolved)
                           THEN op[o].doomed \cup {op[o].cur} ELSE op[o].doomed
                 next == IF op[o].todo = {} THEN "purge" ELSE "pick"
      <4>1. /\ op[o].step = "resolved"
            /\ op'[o] = [op[o] EXCEPT !.doomed = judged, !.step = next]
        BY <1>1, <1>8, <2>2 DEF UseStatus
      <4>2. /\ op'[o].snap = op[o].snap
            /\ op'[o].step = next
            /\ op'[o].doomed = judged
        BY <1>1, <4>1 DEF OpState
      <4>3. /\ next \in {"purge", "pick"}
            /\ \A r \in judged :
                  r \in op[o].doomed \/ (r = op[o].cur /\ IsTerminal(op[o].resolved))
        BY DEF IsTerminal
      <4> HIDE DEF judged, next
      <4>4. QED
        BY <4>1, <4>2, <4>3
    <3>2. \A r \in op'[o].doomed : r \in Ref /\ (Settled(r) \/ Untracked(r))
      BY <1>1, <3>1 DEF ResolutionInv, IsTerminal, TerminalResolved
    <3>3. QED
      BY <1>0, <1>2, <3>1, <3>2 DEF ResolutionInv, Stable
  <2>3. QED
    BY <2>1, <2>2
<1>9. CASE DeleteByIds(o)
  <2>1. CASE op'[o] = IdleOp
    BY <1>0, <2>1, IdleKeepsFacts
  <2>2. CASE op'[o] # IdleOp
    <3>1. /\ op'[o].snap = op[o].snap
          /\ op'[o].step = "purge"
          /\ op'[o].doomed \subseteq op[o].doomed
      BY <1>1, <1>9, <2>2 DEF DeleteByIds, OpState
    <3>2. QED
      BY <1>2, <1>3, <3>1 DEF ResolutionInv
  <2>3. QED
    BY <2>1, <2>2
<1>10. CASE CancelCall(o)
  <2>1. \/ op'[o] = IdleOp
        \/ /\ op'[o].snap = op[o].snap
           /\ op'[o].doomed = op[o].doomed
           /\ op'[o].step = "mark"
    BY <1>1, <1>10 DEF CancelCall, OpState
  <2>2. QED
    BY <1>0, <1>2, <1>3, <2>1, IdleKeepsFacts DEF ResolutionInv
<1>11. CASE CancelMark(o)
  BY <1>0, <1>1, <1>11, IdleKeepsFacts DEF CancelMark
<1>12. QED
  BY <1>4, <1>5, <1>6, <1>7, <1>8, <1>9, <1>10, <1>11 DEF HandlerStep

\* A cancellation under way keeps its facts through every step.
LEMMA CancelStep ==
    ASSUME IInv, [Next]_vars, NEW o \in Op
    PROVE  CancelInv(o)'
<1>0. /\ \A q \in Ref : Stable(q) /\ RowInv(q)
      /\ op[o] \in OpState
      /\ op[o].cur \in Ref
      /\ op \in [Op -> OpState]
      /\ CancelInv(o)
  BY StepKeepsRows DEF IInv, TypeOK, OpState
<1>1. CASE op'[o] = op[o]
  BY <1>0, <1>1 DEF CancelInv, Stable
<1>2. CASE op'[o].step \notin {"call", "mark"}
  BY <1>2 DEF CancelInv
<1>3. CASE \E r \in Ref : CancelFind(o, r)
  <2>1. PICK r \in Ref : CancelFind(o, r)
    BY <1>3
  <2>2. op'[o].step = "call" /\ op'[o].cur = r
    BY <1>0, <2>1 DEF CancelFind, IdleOp
  <2>3. /\ UNCHANGED <<row, job, pc>>
        /\ row[r].jobId
    BY <2>1 DEF CancelFind, jobVars, recVars
  <2>4. ~ Early(r)
    BY <1>0, <2>3 DEF RowInv, PendingRow
  <2>5. QED
    BY <2>2, <2>3, <2>4 DEF CancelInv, Early, Cancellable
<1>4. CASE CancelCall(o)
  <2>1. CASE op'[o] = IdleOp
    BY <2>1 DEF CancelInv, IdleOp
  <2>2. CASE op'[o] # IdleOp
    <3>1. /\ op[o].step = "call"
          /\ op'[o] = [op[o] EXCEPT !.step = "mark"]
          /\ job[op[o].cur] \in Live
      BY <1>0, <1>4, <2>2 DEF CancelCall
    <3>2. op'[o].cur = op[o].cur
      BY <1>0, <3>1 DEF OpState
    <3>3. job[op[o].cur] # "none"
      BY <3>1 DEF Live
    <3>4. QED
      BY <1>0, <3>1, <3>2, <3>3 DEF CancelInv, Stable
  <2>3. QED
    BY <2>1, <2>2
<1>5. op'[o] = op[o] \/ op'[o].step \notin {"call", "mark"}
         \/ (\E r \in Ref : CancelFind(o, r)) \/ CancelCall(o)
  <2> SUFFICES ASSUME op'[o] # op[o],
                      ~ \E r \in Ref : CancelFind(o, r),
                      ~ CancelCall(o)
               PROVE  op'[o].step \notin {"call", "mark"}
    OBVIOUS
  <2>1. ASSUME NEW p \in Op, p # o, Call(p) \/ HandlerStep(p)
        PROVE  op'[o] = op[o]
    BY <1>0, <2>1
       DEF Call, FindRuntimeStatus, DeleteExecutionRef, DeleteBySource, Begin,
           CancelFind, HandlerStep, ResolveNext, FindProcessingStatus,
           FindJobResult, Unreachable, Resolve, UseStatus, DeleteByIds,
           CancelCall, CancelMark
  <2>2. ASSUME NEW rpc, NEW refs, Begin(o, rpc, refs)
        PROVE  op'[o].step \notin {"call", "mark"}
    BY <1>0, <2>2 DEF Begin, IdleOp
  <2>3. CASE Call(o)
    BY <2>2, <2>3 DEF Call, FindRuntimeStatus, DeleteExecutionRef, DeleteBySource
  <2>4. CASE HandlerStep(o)
    <3>1. CASE ResolveNext(o)
      BY <1>0, <3>1 DEF ResolveNext, OpState
    <3>2. CASE FindProcessingStatus(o)
      BY <1>0, <3>2, ResolveEffect
         DEF FindProcessingStatus, Unreachable, OpState, IInv
    <3>3. CASE FindJobResult(o)
      BY <3>3, ResolveEffect DEF FindJobResult, Unreachable, IInv
    <3>4. CASE UseStatus(o)
      BY <1>0, <3>4 DEF UseStatus, OpState, IdleOp
    <3>5. CASE DeleteByIds(o)
      BY <1>0, <3>5 DEF DeleteByIds, OpState, IdleOp
    <3>6. CASE CancelMark(o)
      BY <1>0, <3>6 DEF CancelMark, IdleOp
    <3>7. QED
      BY <2>4, <3>1, <3>2, <3>3, <3>4, <3>5, <3>6 DEF HandlerStep
  <2>5. CASE \E r \in Ref : Trigger(r) \/ RecorderStep(r) \/ JobStep(r)
    BY <2>5
       DEF Trigger, RecordPending, RecordPendingFails, CreateExecutionRef,
           RecorderStep, EnqueueOk, EnqueueFails, RecordJobId, LoseTerminal,
           RecordResult, RecordError, JobStep, JobStarts, JobFinishes
  <2>6. CASE \E s \in Source : DeleteAllBySource(s)
    BY <2>6 DEF DeleteAllBySource
  <2>7. CASE Crash
    BY <2>7 DEF Crash, IdleOp
  <2>8. CASE UNCHANGED vars
    BY <2>8 DEF vars
  <2>9. QED
    BY <2>1, <2>3, <2>4, <2>5, <2>6, <2>7, <2>8 DEF Next
<1>6. QED
  BY <1>1, <1>2, <1>3, <1>4, <1>5

\* The inductive invariant is kept by every step.
LEMMA IInvStep == IInv /\ [Next]_vars => IInv'
<1> SUFFICES ASSUME IInv, [Next]_vars PROVE IInv'
  OBVIOUS
<1>1. TypeOK'
  BY TypeStep DEF IInv
<1>2. \A r \in Ref : RowInv(r)'
  BY StepKeepsRows
<1>3. \A o \in Op : CancelInv(o)'
  BY CancelStep
<1>4. ASSUME NEW o \in Op PROVE SnapInv(o)' /\ ResolutionInv(o)'
  <2>1. CASE op'[o] = op[o] \/ op'[o] = IdleOp
    BY <2>1, IdleKeepsFacts
  <2>2. CASE Call(o) \/ HandlerStep(o)
    BY <2>2, HandlerKeepsFacts
  <2>3. ASSUME NEW p \in Op, p # o, Call(p) \/ HandlerStep(p)
        PROVE  op'[o] = op[o]
    BY <2>3
       DEF IInv, TypeOK, Call, FindRuntimeStatus, DeleteExecutionRef,
           DeleteBySource, Begin, CancelFind, HandlerStep, ResolveNext,
           FindProcessingStatus, FindJobResult, Unreachable, Resolve, UseStatus,
           DeleteByIds, CancelCall, CancelMark
  <2>4. CASE \E r \in Ref : Trigger(r) \/ RecorderStep(r) \/ JobStep(r)
    BY <2>1, <2>4
       DEF Trigger, RecordPending, RecordPendingFails, CreateExecutionRef,
           RecorderStep, EnqueueOk, EnqueueFails, RecordJobId, LoseTerminal,
           RecordResult, RecordError, JobStep, JobStarts, JobFinishes
  <2>5. CASE \E s \in Source : DeleteAllBySource(s)
    BY <2>1, <2>5 DEF DeleteAllBySource
  <2>6. CASE Crash
    BY <2>1, <2>6 DEF Crash
  <2>7. CASE UNCHANGED vars
    BY <2>1, <2>7 DEF vars
  <2>8. QED
    BY <2>1, <2>2, <2>3, <2>4, <2>5, <2>6, <2>7 DEF Next
<1>5. QED
  BY <1>1, <1>2, <1>3, <1>4 DEF IInv

\* Every reachable state satisfies IInv, which relates the row, the job, the
\* recorder and what the handlers have read of an execution.
THEOREM InductiveInvariant == Spec => []IInv
BY IInvInit, IInvStep, PTL DEF Spec

-----------------------------------------------------------------------------
(* The properties *)

\* A resolution reports Succeeded, Failed or Cancelled of finished jobs only.
THEOREM TerminalReports == Spec => []TerminalReportIsFinished
<1>1. IInv => TerminalReportIsFinished
  BY DEF IInv, ResolutionInv, Settled, TerminalReportIsFinished
<1>2. QED
  BY <1>1, InductiveInvariant, PTL

\* A job that failed or was cancelled shows as a success only while its recorder
\* works, or after the recorder died, lost its last write or recorded an error
\* (resolve_without_stored_result, for rows that a recorder of the conductor wrote).
THEOREM FailuresShow == Spec => []FailureNotMasked
<1>1. IInv => FailureNotMasked
  <2> SUFFICES ASSUME IInv, NEW r \in present,
                      origin[r] # "client", job[r] \in {"Failed", "Cancelled"},
                      pc[r] \notin Active \cup {"lost"}, ~ row[r].error
               PROVE  ResolvedNow(r) # "Succeeded"
    BY DEF FailureNotMasked
  <2>0. /\ RowInv(r) /\ Recorded(r)
        /\ pc[r] \in RecorderPc /\ row[r] \in Row
    BY DEF IInv, TypeOK, RowInv
  <2>1. pc[r] = "done"
    BY <2>0 DEF RowInv, RecorderPc
  <2>2. row[r].status \in {"Failed", "Cancelled"}
    BY <2>0, <2>1 DEF Recorded, Row, ResultStatus, TerminalStatus
  <2>3. QED
    BY <2>2
       DEF ResolvedNow, ResolveJobidless, ResolveWithoutStoredResult,
           MapResultStatus, Live
<1>2. QED
  BY <1>1, InductiveInvariant, PTL

\* A cancellation recorded for r stays, with its job id.
Kept(r) ==
    row[r].status = "Cancelled" =>
        row'[r].status = "Cancelled" /\ row'[r].jobId = row[r].jobId

\* No step makes a row that stays forget a cancellation.
LEMMA CancelledKept ==
    ASSUME IInv, [Next]_vars, NEW q \in present
    PROVE  Kept(q)
<1> USE DEF Kept
<1>0. q \in Ref /\ RowInv(q)
  BY DEF IInv, TypeOK
<1>1. ASSUME NEW r \in Ref, NEW jobId, NEW s, row' = UpdateResult(r, jobId, s)
      PROVE  Kept(q)
  BY <1>0, <1>1 DEF UpdateResult, IInv, TypeOK
<1>2. CASE UNCHANGED row
  BY <1>2
<1>3. ASSUME NEW r \in Ref, Trigger(r) \/ RecorderStep(r) \/ JobStep(r)
      PROVE  Kept(q)
  <2>1. CASE CreateExecutionRef(r)
    BY <1>0, <2>1 DEF CreateExecutionRef, RowInv, IInv, TypeOK
  <2>2. CASE RecordJobId(r)
    BY <1>0, <2>2
       DEF RecordJobId, BestEffort, UpdateJobId, RowInv, Early, PendingRow,
           IInv, TypeOK
  <2>3. CASE RecordResult(r)
    BY <1>1, <1>2, <2>3 DEF RecordResult, LastWrite
  <2>4. CASE RecordError(r)
    BY <1>0, <2>4
       DEF RecordError, LastWrite, UpdateEnqueueError, IInv, TypeOK, Row
  <2>5. QED
    BY <1>2, <1>3, <2>1, <2>2, <2>3, <2>4
       DEF Trigger, RecordPending, RecordPendingFails, RecorderStep, EnqueueOk,
           EnqueueFails, LoseTerminal, JobStep, JobStarts, JobFinishes
<1>4. ASSUME NEW o \in Op, CancelMark(o) PROVE Kept(q)
  <2>1. op[o].cur \in Ref
    BY DEF IInv, TypeOK, OpState
  <2>2. QED
    BY <1>1, <1>2, <1>4, <2>1 DEF CancelMark
<1>5. ASSUME NEW o \in Op, Call(o) \/ HandlerStep(o) PROVE Kept(q)
  BY <1>2, <1>4, <1>5
     DEF Call, FindRuntimeStatus, DeleteExecutionRef, DeleteBySource, Begin,
         CancelFind, HandlerStep, ResolveNext, FindProcessingStatus,
         FindJobResult, UseStatus, DeleteByIds, CancelCall
<1>6. QED
  BY <1>2, <1>3, <1>5 DEF Next, DeleteAllBySource, Crash, vars

\* A recorded cancellation is never replaced, whatever writes arrive late.
THEOREM CancellationsLast == Spec => CancelledIsFinal
<1>1. IInv /\ [Next]_vars =>
        [\A r \in present \cap present' :
            row[r].status = "Cancelled" =>
                /\ row'[r].status = "Cancelled"
                /\ row'[r].jobId = row[r].jobId]_vars
  BY CancelledKept DEF Kept
<1>2. QED
  BY <1>1, InductiveInvariant, PTL DEF Spec, CancelledIsFinal

\* A handler that has yet to record a cancellation does nothing else.
LEMMA MarkWaits ==
    ASSUME IInv, [Next]_vars, ~ Crash, NEW o \in Op, op[o].step = "mark"
    PROVE  op'[o] = op[o] \/ CancelMark(o)
<1>1. op \in [Op -> OpState]
  BY DEF IInv, TypeOK
<1>2. ASSUME NEW p \in Op, p # o, Call(p) \/ HandlerStep(p)
      PROVE  op'[o] = op[o]
  BY <1>1, <1>2
     DEF Call, FindRuntimeStatus, DeleteExecutionRef, DeleteBySource, Begin,
         CancelFind, HandlerStep, ResolveNext, FindProcessingStatus,
         FindJobResult, Unreachable, Resolve, UseStatus, DeleteByIds,
         CancelCall, CancelMark
<1>3. ASSUME Call(o) \/ HandlerStep(o) PROVE CancelMark(o)
  BY <1>3
     DEF Call, FindRuntimeStatus, DeleteExecutionRef, DeleteBySource, Begin,
         CancelFind, HandlerStep, ResolveNext, FindProcessingStatus,
         FindJobResult, UseStatus, DeleteByIds, CancelCall
<1>4. CASE \E r \in Ref : Trigger(r) \/ RecorderStep(r) \/ JobStep(r)
  BY <1>4
     DEF Trigger, RecordPending, RecordPendingFails, CreateExecutionRef,
         RecorderStep, EnqueueOk, EnqueueFails, RecordJobId, LoseTerminal,
         RecordResult, RecordError, JobStep, JobStarts, JobFinishes
<1>5. QED
  BY <1>2, <1>3, <1>4 DEF Next, DeleteAllBySource, vars

\* Only an accepted cancellation discards a job, and goes on to record that or has
\* lost the answer.
LEMMA DiscardIsMarked ==
    ASSUME IInv, [Next]_vars, NEW q \in Ref,
           job[q] # "Discarded", job'[q] = "Discarded"
    PROVE  q \in (Marking \cup unmarked)'
<1>1. /\ job \in [Ref -> JobState]
      /\ op \in [Op -> OpState]
  BY DEF IInv, TypeOK
<1>2. ASSUME NEW r \in Ref, Trigger(r) \/ RecorderStep(r) \/ JobStep(r)
      PROVE  FALSE
  BY <1>1, <1>2
     DEF Trigger, RecordPending, RecordPendingFails, CreateExecutionRef,
         RecorderStep, EnqueueOk, EnqueueFails, RecordJobId, LoseTerminal,
         RecordResult, RecordError, JobStep, JobStarts, JobFinishes, ResultStatus
<1>3. ASSUME NEW o \in Op, Call(o) \/ HandlerStep(o)
      PROVE  CancelCall(o)
  BY <1>3
     DEF Call, FindRuntimeStatus, DeleteExecutionRef, DeleteBySource, Begin,
         CancelFind, HandlerStep, ResolveNext, FindProcessingStatus,
         FindJobResult, UseStatus, DeleteByIds, CancelMark, jobVars
<1>4. PICK o \in Op : CancelCall(o)
  BY <1>2, <1>3 DEF Next, DeleteAllBySource, Crash, jobVars, vars
<1>5. /\ op[o] \in OpState
      /\ job' = JobDelete(op[o].cur)
  BY <1>1, <1>4 DEF CancelCall
<1>6. q = op[o].cur /\ job[q] = "Pending"
  BY <1>1, <1>5 DEF JobDelete, OpState
<1>7. CASE MarksLost({q})
  BY <1>7 DEF MarksLost
<1>8. CASE op' = [op EXCEPT ![o] = [op[o] EXCEPT !.step = "mark"]]
  <2>1. op'[o].step = "mark" /\ op'[o].cur = q
    BY <1>1, <1>5, <1>6, <1>8 DEF OpState
  <2>2. QED
    BY <2>1 DEF Marking
<1>9. QED
  BY <1>4, <1>6, <1>7, <1>8 DEF CancelCall, Live

\* No row is written anew once its execution has begun.
LEMMA RowsEnterOnce ==
    ASSUME [Next]_vars, NEW q \in Ref, pc[q] # "idle"
    PROVE  q \in present' => q \in present
<1>1. ASSUME NEW r \in Ref, Trigger(r) \/ RecorderStep(r) \/ JobStep(r)
      PROVE  q \in present' => q \in present
  BY <1>1
     DEF Trigger, RecordPending, RecordPendingFails, CreateExecutionRef,
         RecorderStep, EnqueueOk, EnqueueFails, RecordJobId, LoseTerminal,
         RecordResult, RecordError, JobStep, JobStarts, JobFinishes
<1>2. ASSUME NEW o \in Op, Call(o) \/ HandlerStep(o)
      PROVE  q \in present' => q \in present
  BY <1>2
     DEF Call, FindRuntimeStatus, DeleteExecutionRef, DeleteBySource, Begin,
         CancelFind, HandlerStep, ResolveNext, FindProcessingStatus,
         FindJobResult, UseStatus, DeleteByIds, CancelCall, CancelMark
<1>3. QED
  BY <1>1, <1>2 DEF Next, DeleteAllBySource, Crash, vars

\* A mark that was lost stays lost.
LEMMA UnmarkedStays ==
    ASSUME [Next]_vars
    PROVE  unmarked \subseteq unmarked'
<1>1. ASSUME NEW r \in Ref, Trigger(r) \/ RecorderStep(r) \/ JobStep(r)
      PROVE  UNCHANGED unmarked
  BY <1>1
     DEF Trigger, RecordPending, RecordPendingFails, CreateExecutionRef,
         RecorderStep, EnqueueOk, EnqueueFails, RecordJobId, LoseTerminal,
         RecordResult, RecordError, JobStep, JobStarts, JobFinishes
<1>2. ASSUME NEW o \in Op, Call(o) \/ HandlerStep(o)
      PROVE  unmarked \subseteq unmarked'
  BY <1>2
     DEF Call, FindRuntimeStatus, DeleteExecutionRef, DeleteBySource, Begin,
         CancelFind, HandlerStep, ResolveNext, FindProcessingStatus,
         FindJobResult, UseStatus, DeleteByIds, CancelCall, CancelMark, MarksLost
<1>3. QED
  BY <1>1, <1>2 DEF Next, DeleteAllBySource, Crash, MarksLost, vars

\* Every step keeps DiscardedIsCancelled.
LEMMA DiscardStep ==
    ASSUME IInv, DiscardedIsCancelled, [Next]_vars
    PROVE  DiscardedIsCancelled'
<1> SUFFICES ASSUME NEW q \in present', job'[q] = "Discarded"
             PROVE  row'[q].status = "Cancelled" \/ q \in (Marking \cup unmarked)'
  BY DEF DiscardedIsCancelled
<1>1. TypeOK /\ TypeOK'
  BY TypeStep DEF IInv
<1>2. q \in Ref
  BY <1>1 DEF TypeOK
<1>3. CASE job[q] # "Discarded"
  BY <1>2, <1>3, DiscardIsMarked
<1>4. CASE job[q] = "Discarded"
  <2>1. q \in present
    <3>1. pc[q] # "idle"
      BY <1>2, <1>4 DEF IInv, RowInv
    <3>2. QED
      BY <1>2, <3>1, RowsEnterOnce
  <2>2. CASE row[q].status = "Cancelled"
    BY <2>1, <2>2, CancelledKept DEF Kept
  <2>3. CASE q \in unmarked
    BY <2>3, UnmarkedStays
  <2>4. CASE q \in Marking
    <3>1. PICK o \in Op : op[o].step = "mark" /\ op[o].cur = q
      BY <2>4 DEF Marking
    <3>2. CASE op'[o] = op[o]
      BY <3>1, <3>2 DEF Marking
    <3>3. CASE CancelMark(o)
      <4>1. CASE row' = UpdateResult(q, TRUE, "Cancelled")
        BY <1>1, <1>2, <2>1, <4>1 DEF UpdateResult, TypeOK, Row
      <4>2. CASE MarksLost({q})
        BY <4>2 DEF MarksLost
      <4>3. QED
        BY <3>1, <3>3, <4>1, <4>2 DEF CancelMark
    <3>4. CASE Crash
      BY <2>4, <3>4 DEF Crash, MarksLost
    <3>5. QED
      BY <3>1, <3>2, <3>3, <3>4, MarkWaits
  <2>5. QED
    BY <1>4, <2>1, <2>2, <2>3, <2>4 DEF DiscardedIsCancelled
<1>5. QED
  BY <1>3, <1>4

\* A job that a cancellation discarded shows as Cancelled, whichever of the
\* recorder and the cancellation writes last, unless that cancellation has yet to
\* write or its write was lost.
THEOREM DiscardsShow == Spec => []DiscardedIsCancelled
<1>1. Init => DiscardedIsCancelled
  BY DEF Init, DiscardedIsCancelled
<1>2. IInv /\ DiscardedIsCancelled /\ [Next]_vars => DiscardedIsCancelled'
  BY DiscardStep
<1>3. QED
  BY <1>1, <1>2, InductiveInvariant, PTL DEF Spec

\* A live job keeps its id in the ledger, and its row unless it is forced out.
THEOREM LiveJobsStayTrackable == Spec => LiveJobStaysTrackable
<1> DEFINE Tracked(r) ==
      row[r].jobId /\ job[r] \in Live /\ job'[r] \in Live =>
          \/ r \in present' /\ row'[r].jobId
          \/ \E s \in Source : DeleteAllBySource(s)
<1>1. ASSUME IInv, [Next]_vars, NEW q \in present PROVE Tracked(q)
  <2>0. q \in Ref /\ RowInv(q)
    BY <1>1 DEF IInv, TypeOK
  <2>1. CASE UNCHANGED <<present, row>>
    BY <2>1
  <2>2. ASSUME NEW r \in Ref, Trigger(r) \/ RecorderStep(r) \/ JobStep(r)
        PROVE  Tracked(q)
    <3>1. q \in present'
      BY <2>2
         DEF Trigger, RecordPending, RecordPendingFails, CreateExecutionRef,
             RecorderStep, EnqueueOk, EnqueueFails, RecordJobId, LoseTerminal,
             RecordResult, RecordError, JobStep, JobStarts, JobFinishes
    <3>2. CASE CreateExecutionRef(r)
      BY <1>1, <2>0, <3>1, <3>2 DEF CreateExecutionRef, RowInv, IInv, TypeOK
    <3>3. CASE RecordJobId(r)
      BY <1>1, <2>0, <3>1, <3>3
         DEF RecordJobId, BestEffort, UpdateJobId, IInv, TypeOK, Row
    <3>4. CASE RecordResult(r)
      <4>1. q = r => job[q] \notin Live
        BY <3>4 DEF RecordResult, Finished, ResultStatus, Live
      <4>2. q # r => row'[q] = row[q]
        BY <1>1, <2>0, <3>4
           DEF RecordResult, LastWrite, UpdateResult, IInv, TypeOK
      <4>3. QED
        BY <3>1, <4>1, <4>2
    <3>5. CASE RecordError(r)
      BY <1>1, <2>0, <3>1, <3>5
         DEF RecordError, LastWrite, UpdateEnqueueError, IInv, TypeOK, Row
    <3>6. CASE UNCHANGED row
      BY <3>1, <3>6
    <3>7. QED
      BY <2>2, <3>2, <3>3, <3>4, <3>5, <3>6
         DEF Trigger, RecordPending, RecordPendingFails, RecorderStep, EnqueueOk,
             EnqueueFails, LoseTerminal, JobStep, JobStarts, JobFinishes
  <2>3. ASSUME NEW o \in Op, DeleteByIds(o) PROVE Tracked(q)
    <3>1. \A r \in op[o].doomed : Settled(r) \/ Untracked(r)
      BY <1>1 DEF IInv, ResolutionInv
    <3>2. row[q].jobId /\ job[q] \in Live => q \notin op[o].doomed
      BY <3>1 DEF Settled, Untracked
    <3>3. \A c \in Chunks(op[o].doomed) : c \subseteq op[o].doomed
      BY DEF Chunks
    <3>4. UNCHANGED row
      BY <2>3 DEF DeleteByIds
    <3>5. QED
      BY <2>3, <3>2, <3>3, <3>4 DEF DeleteByIds
  <2>4. ASSUME NEW o \in Op, CancelMark(o) PROVE Tracked(q)
    BY <1>1, <2>0, <2>4
       DEF CancelMark, UpdateResult, IInv, TypeOK, Row
  <2>5. ASSUME NEW o \in Op, Call(o) \/ HandlerStep(o) PROVE Tracked(q)
    BY <2>1, <2>3, <2>4, <2>5
       DEF Call, FindRuntimeStatus, DeleteExecutionRef, DeleteBySource, Begin,
           CancelFind, HandlerStep, ResolveNext, FindProcessingStatus,
           FindJobResult, UseStatus, CancelCall
  <2>6. QED
    BY <1>1, <2>1, <2>2, <2>5 DEF Next, Crash, vars
<1>2. IInv /\ [Next]_vars =>
        [\A r \in present :
            row[r].jobId /\ job[r] \in Live /\ job'[r] \in Live =>
                \/ r \in present' /\ row'[r].jobId
                \/ \E s \in Source : DeleteAllBySource(s)]_vars
  BY <1>1
<1>3. QED
  BY <1>2, InductiveInvariant, PTL DEF Spec, LiveJobStaysTrackable

-----------------------------------------------------------------------------
(* The refinement: ExecutionLedger implements LedgerPromise, step by step. *)


Ledger == [r \in Ref |-> Entry(r)]
Truths == [r \in Ref |-> Truth(r)]
Claimed == {r \in Ref : origin[r] = "client"}

\* How an execution starts never changes.
LEMMA OriginsStay == [Next]_vars => UNCHANGED origin
<1>1. ASSUME NEW r \in Ref, Trigger(r) \/ RecorderStep(r) \/ JobStep(r)
      PROVE  UNCHANGED origin
  BY <1>1
     DEF Trigger, RecordPending, RecordPendingFails, CreateExecutionRef,
         RecorderStep, EnqueueOk, EnqueueFails, RecordJobId, LoseTerminal,
         RecordResult, RecordError, JobStep, JobStarts, JobFinishes, recVars
<1>2. ASSUME NEW o \in Op, Call(o) \/ HandlerStep(o)
      PROVE  UNCHANGED origin
  BY <1>2
     DEF Call, FindRuntimeStatus, DeleteExecutionRef, DeleteBySource, Begin,
         CancelFind, HandlerStep, ResolveNext, FindProcessingStatus,
         FindJobResult, UseStatus, DeleteByIds, CancelCall, CancelMark, recVars
<1>3. QED
  BY <1>1, <1>2 DEF Next, DeleteAllBySource, Crash, recVars, vars

\* No execution is known initially, neither here nor in the abstract ledger.
LEMMA InitKeepsPromise == Init => Promise!Init
BY DEF Init, Promise!Init, Entry, Truth, Live

\* Nothing a reader can see has changed.
LEMMA Stutter ==
    ASSUME \A q \in Ref : Entry(q)' = Entry(q) /\ Truth(q)' = Truth(q),
           UNCHANGED origin
    PROVE  UNCHANGED Promise!vars
BY DEF Promise!vars

\* Only the ledger's entry of r has changed, to e.
LEMMA EntryMoves ==
    ASSUME NEW r \in Ref, NEW e,
           Entry(r)' = e,
           \A q \in Ref \ {r} : Entry(q)' = Entry(q),
           \A q \in Ref : Truth(q)' = Truth(q),
           UNCHANGED origin
    PROVE  /\ Ledger' = [Ledger EXCEPT ![r] = e]
           /\ Truths' = Truths
           /\ Claimed' = Claimed
BY DEF Ledger, Truths, Claimed

\* Only the fate of r's job has changed, to t.
LEMMA TruthMoves ==
    ASSUME NEW r \in Ref, NEW t,
           Truth(r)' = t,
           \A q \in Ref \ {r} : Truth(q)' = Truth(q),
           \A q \in Ref : Entry(q)' = Entry(q),
           UNCHANGED origin
    PROVE  /\ Truths' = [Truths EXCEPT ![r] = t]
           /\ Ledger' = Ledger
           /\ Claimed' = Claimed
BY DEF Ledger, Truths, Claimed

\* A set S of entries has gone.
LEMMA EntriesGo ==
    ASSUME NEW S \in SUBSET Ref,
           \A q \in S : Entry(q)' = "gone",
           \A q \in Ref \ S : Entry(q)' = Entry(q),
           \A q \in Ref : Truth(q)' = Truth(q),
           UNCHANGED origin
    PROVE  Promise!Next
<1>1. /\ Ledger' = [q \in Ref |-> IF q \in S THEN "gone" ELSE Ledger[q]]
      /\ Truths' = Truths
      /\ Claimed' = Claimed
  BY DEF Ledger, Truths, Claimed
<1>2. Promise!Drop(S)
  BY <1>1 DEF Promise!Drop, Ledger, Truths, Claimed
<1>3. QED
  BY <1>2 DEF Promise!Next

\* A step of a recorder or of a job maps to a step of the abstract ledger.
LEMMA RecorderKeepsPromise ==
    ASSUME IInv, NEW r \in Ref, Trigger(r) \/ RecorderStep(r) \/ JobStep(r)
    PROVE  Promise!Next \/ UNCHANGED Promise!vars
<1>0. /\ \A q \in Ref : RowInv(q)
      /\ row \in [Ref -> Row]
      /\ job \in [Ref -> JobState]
      /\ pc \in [Ref -> RecorderPc]
      /\ present \subseteq Ref
  BY DEF IInv, TypeOK
<1>a. UNCHANGED origin
  BY OriginsStay DEF Next
<1>1. CASE RecordPending(r)
  <2>1. Entry(r) = "absent" /\ Entry(r)' = "open" /\ origin[r] # "client"
    BY <1>0, <1>1 DEF RecordPending, Entry, RowInv, Early, PendingRow, Row
  <2>2. /\ \A q \in Ref \ {r} : Entry(q)' = Entry(q)
        /\ \A q \in Ref : Truth(q)' = Truth(q)
    BY <1>0, <1>1 DEF RecordPending, Entry, Truth
  <2>3. Promise!Open(r)
    BY <1>a, <2>1, <2>2, EntryMoves DEF Promise!Open, Ledger, Truths, Claimed
  <2>4. QED
    BY <2>3 DEF Promise!Next
<1>b. CASE CreateExecutionRef(r)
  <2>1. PICK w \in Row :
          /\ row' = [row EXCEPT ![r] = w]
          /\ job' = job \/ job' = [job EXCEPT ![r] = "Pending"]
    BY <1>b DEF CreateExecutionRef
  <2>2. /\ origin[r] = "client" /\ pc[r] = "idle" /\ r \notin present
        /\ job[r] = "none"
        /\ present' = present \cup {r}
        /\ pc' = [pc EXCEPT ![r] = "done"]
    BY <1>0, <1>b DEF CreateExecutionRef, RowInv
  <2>3. PICK e \in {"open"} \cup ResultStatus : Entry(r)' = e
    BY <1>0, <2>1, <2>2 DEF Entry, Row
  <2>4. /\ Entry(r) = "absent"
        /\ \A q \in Ref \ {r} : Entry(q)' = Entry(q) /\ Truth(q)' = Truth(q)
    BY <1>0, <2>1, <2>2 DEF Entry, Truth
  <2>5. Truth(r) = "none" /\ Truth(r)' \in {"none", "live"}
    BY <1>0, <2>1, <2>2 DEF Truth, Live
  <2>6. /\ Ledger' = [Ledger EXCEPT ![r] = e]
        /\ \/ Truths' = Truths
           \/ Truths' = [Truths EXCEPT ![r] = "live"]
        /\ Claimed' = Claimed
    BY <1>a, <2>3, <2>4, <2>5 DEF Ledger, Truths, Claimed
  <2>7. Promise!Claim(r)
    BY <2>2, <2>3, <2>4, <2>5, <2>6
       DEF Promise!Claim, Promise!Verdict, ResultStatus, Ledger, Truths, Claimed
  <2>8. QED
    BY <2>7 DEF Promise!Next
<1>2. CASE RecordPendingFails(r)
  <2>1. /\ Entry(r)' = "gone"
        /\ \A q \in Ref \ {r} : Entry(q)' = Entry(q)
        /\ \A q \in Ref : Truth(q)' = Truth(q)
    BY <1>0, <1>2 DEF RecordPendingFails, Entry, Truth, RowInv
  <2>2. QED
    BY <1>a, <2>1, EntriesGo, {r} \in SUBSET Ref
<1>3. ASSUME NEW t, Truth(r)' = t,
             \/ Truth(r) = "none" /\ t = "live"
             \/ Truth(r) = "live" /\ t \in ResultStatus \cup {"Discarded"},
             \A q \in Ref \ {r} : Truth(q)' = Truth(q),
             \A q \in Ref : Entry(q)' = Entry(q)
      PROVE  Promise!Next
  <2>1. Promise!JobMoves(r)
    BY <1>3, <1>a, TruthMoves
       DEF Promise!JobMoves, Promise!Verdict, Ledger, Truths, Claimed, ResultStatus
  <2>2. QED
    BY <2>1 DEF Promise!Next
<1>4. ASSUME pc[r] = "enqueue", pc'[r] # "idle",
             \A q \in Ref \ {r} : pc'[q] = pc[q],
             job' = job \/ job' = [job EXCEPT ![r] = "Pending"],
             UNCHANGED <<present, row>>
      PROVE  Promise!Next \/ UNCHANGED Promise!vars
  <2>1. /\ \A q \in Ref : Entry(q)' = Entry(q)
        /\ \A q \in Ref \ {r} : Truth(q)' = Truth(q)
        /\ Truth(r) = "none"
        /\ Truth(r)' \in {"none", "live"}
    BY <1>0, <1>4 DEF Entry, Truth, RowInv, Live
  <2>2. QED
    BY <1>3, <1>a, <2>1, Stutter
<1>5. ASSUME NEW streaming \in BOOLEAN, EnqueueOk(r, streaming)
      PROVE  Promise!Next \/ UNCHANGED Promise!vars
  BY <1>0, <1>4, <1>5 DEF EnqueueOk
<1>6. CASE EnqueueFails(r)
  BY <1>0, <1>4, <1>6 DEF EnqueueFails
<1>7. CASE RecordJobId(r) \/ LoseTerminal(r) \/ RecordError(r)
  <2>1. /\ UNCHANGED <<present, job>>
        /\ \A q \in Ref : row'[q].status = row[q].status
        /\ \A q \in Ref : pc'[q] = "idle" <=> pc[q] = "idle"
    BY <1>0, <1>7
       DEF RecordJobId, LoseTerminal, RecordError, BestEffort, LastWrite, UpdateJobId,
           UpdateEnqueueError, Row
  <2>2. QED
    BY <1>a, <2>1, Stutter DEF Entry, Truth
<1>8. CASE RecordResult(r)
  <2>1. /\ UNCHANGED <<present, job>>
        /\ \A q \in Ref : pc'[q] = "idle" <=> pc[q] = "idle"
        /\ job[r] \in Finished
        /\ pc[r] = "await"
    BY <1>0, <1>8 DEF RecordResult, LastWrite
  <2>2. CASE UNCHANGED row
    BY <1>a, <2>1, <2>2, Stutter DEF Entry, Truth
  <2>3. CASE row' # row
    <3>1. /\ r \in present /\ row[r].status = "None"
          /\ row'[r].status = TerminalStatus(job[r])
          /\ \A q \in Ref \ {r} : row'[q] = row[q]
      BY <1>0, <1>8, <2>1, <2>3
         DEF RecordResult, LastWrite, UpdateResult, RowInv, Active, Row
    <3>2. /\ Entry(r) = "open"
          /\ Entry(r)' = TerminalStatus(job[r])
          /\ Truth(r) = job[r]
      BY <2>1, <3>1
         DEF Entry, Truth, TerminalStatus, Finished, ResultStatus, Live
    <3>3. /\ \A q \in Ref \ {r} : Entry(q)' = Entry(q)
          /\ \A q \in Ref : Truth(q)' = Truth(q)
      BY <2>1, <3>1 DEF Entry, Truth
    <3>4. Promise!Close(r)
      BY <1>0, <1>a, <2>1, <3>2, <3>3, EntryMoves
         DEF Promise!Close, Promise!Verdict, Promise!VerdictOf, TerminalStatus,
             Finished, ResultStatus, Ledger, Truths, Claimed, RowInv, Active
    <3>5. QED
      BY <3>4 DEF Promise!Next
  <2>4. QED
    BY <2>2, <2>3
<1>9. CASE JobStep(r)
  <2>1. /\ UNCHANGED <<present, row, pc>>
        /\ \A q \in Ref \ {r} : job'[q] = job[q]
        /\ job[r] \in Live
        /\ job'[r] \in Live \cup ResultStatus
    BY <1>0, <1>9
       DEF JobStep, JobStarts, JobFinishes, recVars, Live, ResultStatus
  <2>2. /\ \A q \in Ref : Entry(q)' = Entry(q)
        /\ \A q \in Ref \ {r} : Truth(q)' = Truth(q)
        /\ Truth(r) = "live"
        /\ Truth(r)' \in {"live"} \cup ResultStatus
    BY <2>1 DEF Entry, Truth
  <2>3. QED
    BY <1>3, <1>a, <2>2, Stutter
<1>10. QED
  BY <1>1, <1>b, <1>2, <1>5, <1>6, <1>7, <1>8, <1>9 DEF Trigger, RecorderStep

\* A step of an RPC handler maps to a step of the abstract ledger or a stutter.
LEMMA HandlerKeepsPromise ==
    ASSUME IInv, NEW o \in Op, Call(o) \/ HandlerStep(o)
    PROVE  Promise!Next \/ UNCHANGED Promise!vars
<1>0. /\ \A q \in Ref : RowInv(q)
      /\ CancelInv(o)
      /\ row \in [Ref -> Row]
      /\ job \in [Ref -> JobState]
      /\ present \subseteq Ref
      /\ op[o].cur \in Ref
  BY DEF IInv, TypeOK, OpState
<1>a. UNCHANGED origin
  BY OriginsStay DEF Next
<1>1. CASE UNCHANGED <<present, row, job, pc>>
  BY <1>1, <1>a, Stutter DEF Entry, Truth
<1>2. CASE DeleteByIds(o)
  <2>1. /\ UNCHANGED <<row, job, pc>>
        /\ present' \subseteq present
    BY <1>2 DEF DeleteByIds, jobVars, recVars
  <2> DEFINE S == present \ present'
  <2>2. /\ S \in SUBSET Ref
        /\ \A q \in S : Entry(q)' = "gone"
        /\ \A q \in Ref \ S : Entry(q)' = Entry(q)
        /\ \A q \in Ref : Truth(q)' = Truth(q)
    BY <1>0, <2>1 DEF Entry, Truth, RowInv
  <2>3. QED
    BY <1>a, <2>2, EntriesGo
<1>3. CASE CancelCall(o)
  <2>0. PICK r \in Ref : r = op[o].cur
    BY <1>0
  <2>1. /\ UNCHANGED <<present, row, pc>>
        /\ \A q \in Ref \ {r} : job'[q] = job[q]
        /\ \/ job'[r] = job[r]
           \/ job[r] \in Live /\ job'[r] \in Live
           \/ job[r] \in Live /\ job'[r] = "Discarded"
    BY <1>0, <1>3, <2>0 DEF CancelCall, JobDelete, recVars, Live
  <2>2. /\ \A q \in Ref : Entry(q)' = Entry(q)
        /\ \A q \in Ref \ {r} : Truth(q)' = Truth(q)
        /\ \/ Truth(r)' = Truth(r)
           \/ Truth(r) = "live" /\ Truth(r)' = "Discarded"
    BY <2>1 DEF Entry, Truth, Live
  <2>3. CASE Truth(r)' = Truth(r)
    BY <1>a, <2>2, <2>3, Stutter
  <2>4. CASE Truth(r) = "live" /\ Truth(r)' = "Discarded"
    <3>1. Promise!JobMoves(r)
      BY <1>0, <1>a, <2>2, <2>4, TruthMoves
         DEF Promise!JobMoves, Ledger, Truths, Claimed
    <3>2. QED
      BY <1>0, <3>1 DEF Promise!Next
  <2>5. QED
    BY <2>2, <2>3, <2>4
<1>4. CASE CancelMark(o)
  <2>0. PICK r \in Ref : r = op[o].cur
    BY <1>0
  <2>1. UNCHANGED <<present, job, pc>> /\ op[o].step = "mark"
    BY <1>4 DEF CancelMark, jobVars, recVars
  <2>2. CASE UNCHANGED row
    BY <1>1, <2>1, <2>2
  <2>3. CASE row' # row
    <3>1. /\ r \in present /\ row[r].status # "Cancelled"
          /\ row'[r].status = "Cancelled"
          /\ \A q \in Ref \ {r} : row'[q] = row[q]
      BY <1>0, <1>4, <2>0, <2>3 DEF CancelMark, UpdateResult, Row
    <3>2. /\ Entry(r) \in {"open"} \cup ResultStatus
          /\ Entry(r)' = "Cancelled"
          /\ Truth(r) # "none"
      BY <1>0, <2>0, <2>1, <3>1 DEF Entry, Truth, CancelInv, Row, Live
    <3>3. /\ \A q \in Ref \ {r} : Entry(q)' = Entry(q)
          /\ \A q \in Ref : Truth(q)' = Truth(q)
      BY <2>1, <3>1 DEF Entry, Truth
    <3>4. Promise!Cancel(r)
      BY <1>0, <1>a, <3>2, <3>3, EntryMoves
         DEF Promise!Cancel, Promise!Verdict, ResultStatus, Ledger, Truths, Claimed
    <3>5. QED
      BY <1>0, <3>4 DEF Promise!Next
  <2>4. QED
    BY <2>2, <2>3
<1>5. QED
  BY <1>1, <1>2, <1>3, <1>4
     DEF Call, FindRuntimeStatus, DeleteExecutionRef, DeleteBySource, Begin,
         CancelFind, HandlerStep, ResolveNext, FindProcessingStatus,
         FindJobResult, UseStatus, jobVars, recVars

\* The table, its recorders and the RPC handlers implement LedgerPromise: every
\* step is one of its steps or changes nothing a reader can see.
THEOREM LedgerKeepsPromise == Spec => KeepsPromise
<1>1. IInv /\ [Next]_vars => [Promise!Next]_(Promise!vars)
  <2> SUFFICES ASSUME IInv, [Next]_vars
               PROVE  Promise!Next \/ UNCHANGED Promise!vars
    OBVIOUS
  <2>a. UNCHANGED origin
    BY OriginsStay
  <2>1. CASE \E s \in Source : DeleteAllBySource(s)
    <3>1. /\ UNCHANGED <<row, job, pc>>
          /\ present' \subseteq present
      BY <2>1 DEF DeleteAllBySource, jobVars, recVars
    <3> DEFINE S == present \ present'
    <3>2. /\ S \in SUBSET Ref
          /\ \A q \in S : Entry(q)' = "gone"
          /\ \A q \in Ref \ S : Entry(q)' = Entry(q)
          /\ \A q \in Ref : Truth(q)' = Truth(q)
      BY <3>1 DEF Entry, Truth, RowInv, IInv, TypeOK
    <3>3. QED
      BY <2>a, <3>2, EntriesGo
  <2>2. CASE Crash
    <3>1. /\ UNCHANGED <<present, row, job>>
          /\ \A q \in Ref : pc'[q] = "idle" <=> pc[q] = "idle"
      BY <2>2 DEF Crash, jobVars, Active, IInv, TypeOK
    <3>2. QED
      BY <2>a, <3>1, Stutter DEF Entry, Truth
  <2>3. CASE UNCHANGED vars
    BY <2>a, <2>3, Stutter DEF vars, Entry, Truth
  <2>4. QED
    BY <2>1, <2>2, <2>3, RecorderKeepsPromise, HandlerKeepsPromise DEF Next
<1>2. QED
  BY <1>1, InitKeepsPromise, InductiveInvariant, PTL
     DEF Spec, KeepsPromise, Promise!Spec

-----------------------------------------------------------------------------
(* Runs with retries (SlackRetry), whose attempts are executions of the ledger *)

\* An attempt is a run and a number.
LEMMA Attempts ==
    ASSUME AttemptsAreRefs, NEW r \in Ref
    PROVE  r[1] \in Task /\ r[2] \in 1 .. MaxRetries /\ r = <<r[1], r[2]>>
BY DEF AttemptsAreRefs

\* The loop of a run, apart from its attempts.
LoopInv(e) ==
    /\ task[e].step = "idle" <=> task[e].attempt = 0
    /\ task[e].step = "sleep" => task[e].attempt < MaxRetries

RetryTypeInv == RetryTypeOK /\ \A e \in Task : LoopInv(e)

\* A run that has begun is at an attempt.
LEMMA CurrentIsAttempt ==
    ASSUME AttemptsAreRefs, RetryTypeInv, NEW e \in Task, task[e].step # "idle"
    PROVE  Current(e) \in Ref
BY DEF RetryTypeInv, LoopInv, RetryTypeOK, TaskState, AttemptsAreRefs,
       Current

\* The parts of a run.
Steps == {"idle", "setup", "running", "sleep", "ok", "failed", "lost"}
Errors == [1 .. MaxRetries -> Error \cup {NoError}]

LEMMA TaskParts ==
    TaskState = [step : Steps, attempt : 0 .. MaxRetries, errors : Errors]
BY DEF TaskState, Steps, Errors

\* How the loop changes a run.
Moved(t, s) == [t EXCEPT !.step = s]
Turned(t, s, n) == [t EXCEPT !.step = s, !.attempt = n]
Faulted(t, s, errs) == [t EXCEPT !.errors = errs, !.step = s]

\* A run whose step changes stays a run, at its attempt.
LEMMA MovedRun ==
    ASSUME NEW t \in TaskState,
           NEW s \in Steps
    PROVE  /\ Moved(t, s) \in TaskState
           /\ Moved(t, s).step = s
           /\ Moved(t, s).attempt = t.attempt
           /\ Moved(t, s).errors = t.errors
BY TaskParts DEF Moved

\* A run that begins an attempt stays a run.
LEMMA TurnedRun ==
    ASSUME NEW t \in TaskState, NEW n \in 0 .. MaxRetries,
           NEW s \in Steps
    PROVE  /\ Turned(t, s, n) \in TaskState
           /\ Turned(t, s, n).step = s
           /\ Turned(t, s, n).attempt = n
           /\ Turned(t, s, n).errors = t.errors
BY TaskParts DEF Turned

\* A run whose attempt fails stays a run, at that attempt.
LEMMA FaultedRun ==
    ASSUME NEW t \in TaskState,
           NEW errs \in Errors,
           NEW s \in Steps
    PROVE  /\ Faulted(t, s, errs) \in TaskState
           /\ Faulted(t, s, errs).step = s
           /\ Faulted(t, s, errs).attempt = t.attempt
           /\ Faulted(t, s, errs).errors = errs
BY TaskParts DEF Faulted

\* Whatever the loop does, the ledger makes a step of its own or none.
LEMMA LedgerSteps ==
    ASSUME AttemptsAreRefs, RetryTypeInv, [RetryNext]_retryVars
    PROVE  [Next]_vars
<1>0. ASSUME NEW e \in Task, task[e].step \in {"setup", "running"}
      PROVE  Current(e) \in Ref
  BY <1>0, CurrentIsAttempt
<1>1. ASSUME NEW e \in Task, Dispatch(e)
      PROVE  UNCHANGED vars
  BY <1>1 DEF Dispatch
<1>2. ASSUME NEW e \in Task, TaskStep(e)
      PROVE  Next \/ UNCHANGED vars
  <2>1. CASE ServerMissing(e) \/ ArgsUnusable(e) \/ Retry(e)
    BY <2>1 DEF ServerMissing, ArgsUnusable, Retry
  <2>2. CASE StartAttempt(e)
    <3>1. Trigger(Current(e)) /\ Current(e) \in Ref
      BY <2>2, <1>0 DEF StartAttempt, Trigger
    <3>2. QED
      BY <3>1 DEF Next
  <2>3. CASE Progress(e) \/ OutcomeArrives(e) \/ NoOutcome(e)
    <3>1. /\ RecorderStep(Current(e))
          /\ Current(e) \in Ref
      BY <2>3, <1>0
         DEF Progress, OutcomeArrives, NoOutcome,
             RecorderStep
    <3>2. QED
      BY <3>1 DEF Next
  <2>4. QED
    BY <1>2, <2>1, <2>2, <2>3 DEF TaskStep
<1>3. ASSUME NEW r \in Ref, JobMoves(r) PROVE Next
  BY <1>3 DEF JobMoves, Next
<1>4. ASSUME RpcStep PROVE Next
  BY <1>4 DEF RpcStep, Next
<1>5. ASSUME CrashLosesTasks PROVE Next
  BY <1>5 DEF CrashLosesTasks, Next
<1>6. CASE UNCHANGED retryVars
  BY <1>6 DEF retryVars, vars, vars
<1>7. UNCHANGED vars => UNCHANGED vars
  BY DEF vars, vars
<1>8. QED
  BY <1>1, <1>2, <1>3, <1>4, <1>5, <1>6, <1>7 DEF RetryNext

\* A run goes on as the type says, and sleeps only while an attempt is left.
LEMMA RunTypeStep ==
    ASSUME AttemptsAreRefs, RetryTypeInv, [RetryNext]_retryVars
    PROVE  /\ data' \in [Task -> HandlerData]
           /\ task' \in [Task -> TaskState]
           /\ \A e \in Task : LoopInv(e)'
<1>0. /\ data \in [Task -> HandlerData]
      /\ task \in [Task -> TaskState]
      /\ \A e \in Task : LoopInv(e)
      /\ MaxRetries \in Nat \ {0}
  BY DEF RetryTypeInv, RetryTypeOK, AttemptsAreRefs
<1>1. ASSUME NEW e \in Task, NEW error \in Error,
             task[e].step # "idle", AttemptFails(e, error)
      PROVE  /\ task' \in [Task -> TaskState]
             /\ \A d \in Task : LoopInv(d)'
  <2>1. PICK s \in {"sleep", "failed"} :
           /\ task' = [task EXCEPT
                        ![e].errors = [task[e].errors EXCEPT ![task[e].attempt] = error],
                        ![e].step = s]
           /\ s = "sleep" => task[e].attempt < MaxRetries
    BY <1>1 DEF AttemptFails, AttemptsLeft
  <2>2. task[e] \in TaskState /\ task[e].attempt \in 1 .. MaxRetries
    BY <1>0, <1>1 DEF LoopInv, TaskState
  <2>3. PICK errs \in [1 .. MaxRetries -> Error \cup {NoError}] :
           errs = [task[e].errors EXCEPT ![task[e].attempt] = error]
    BY <2>2 DEF TaskState
  <2>4. /\ task' = [task EXCEPT ![e].errors = errs, ![e].step = s]
        /\ task'[e] = Faulted(task[e], s, errs)
    BY <2>1, <2>3, <1>0 DEF Faulted
  <2>5. task'[e] \in TaskState
    <3>1. s \in Steps /\ errs \in Errors
      BY <2>3 DEF Steps, Errors
    <3>2. Faulted(task[e], s, errs) \in TaskState
      BY <2>2, <3>1, FaultedRun
    <3>3. QED
      BY <2>4, <3>2
  <2>6. task' \in [Task -> TaskState]
    BY <1>0, <2>4, <2>5
  <2>7. LoopInv(e)'
    BY <2>1, <2>2, <2>4, <1>0 DEF LoopInv, TaskState
  <2>8. \A d \in Task \ {e} : LoopInv(d)'
    BY <2>4, <1>0 DEF LoopInv
  <2>9. QED
    BY <2>6, <2>7, <2>8
<1>2. ASSUME NEW e \in Task, NEW s \in {"setup", "running", "ok", "lost"},
             NEW n \in 1 .. MaxRetries,
             task' = [task EXCEPT ![e].step = s, ![e].attempt = n]
      PROVE  /\ task' \in [Task -> TaskState]
             /\ \A d \in Task : LoopInv(d)'
  <2>0. /\ task[e] \in TaskState
        /\ n \in 0 .. MaxRetries
        /\ s \in Steps
    BY <1>0, <1>2 DEF Steps
  <2>1. task'[e] = Turned(task[e], s, n)
    BY <1>0, <1>2 DEF Turned
  <2>2. task'[e] \in TaskState /\ task'[e].step = s /\ task'[e].attempt = n
    <3>1. /\ Turned(task[e], s, n) \in TaskState
          /\ Turned(task[e], s, n).step = s
          /\ Turned(task[e], s, n).attempt = n
      BY <2>0, TurnedRun
    <3>2. QED
      BY <2>1, <3>1
  <2>3. LoopInv(e)'
    BY <1>0, <2>2 DEF LoopInv
  <2>4. \A d \in Task \ {e} : task'[d] = task[d] /\ LoopInv(d)'
    BY <1>0, <1>2 DEF LoopInv
  <2>5. QED
    BY <1>0, <1>2, <2>2, <2>3, <2>4
<1>3. ASSUME NEW e \in Task, NEW s \in {"setup", "running", "ok", "lost"},
             task[e].step # "idle", task' = [task EXCEPT ![e].step = s]
      PROVE  /\ task' \in [Task -> TaskState]
             /\ \A d \in Task : LoopInv(d)'
  <2>0. /\ task[e] \in TaskState
        /\ s \in Steps
    BY <1>0, <1>3 DEF Steps
  <2>1. task'[e] = Moved(task[e], s)
    BY <1>0, <1>3 DEF Moved
  <2>2. /\ task'[e] \in TaskState
        /\ task'[e].step = s /\ task'[e].attempt = task[e].attempt
    <3>1. /\ Moved(task[e], s) \in TaskState
          /\ Moved(task[e], s).step = s
          /\ Moved(task[e], s).attempt = task[e].attempt
      BY <2>0, MovedRun
    <3>2. QED
      BY <2>1, <3>1
  <2>3. LoopInv(e)'
    BY <1>0, <1>3, <2>2 DEF LoopInv
  <2>4. \A d \in Task \ {e} : task'[d] = task[d] /\ LoopInv(d)'
    BY <1>0, <1>3 DEF LoopInv
  <2>5. QED
    BY <1>0, <1>3, <2>2, <2>3, <2>4
<1>4. ASSUME NEW e \in Task, Dispatch(e) \/ TaskStep(e)
      PROVE  /\ data' = data
             /\ task' \in [Task -> TaskState]
             /\ \A d \in Task : LoopInv(d)'
  <2>1. CASE Dispatch(e)
    <3>1. 1 \in 1 .. MaxRetries
      BY <1>0
    <3>2. QED
      BY <1>2, <2>1, <3>1 DEF Dispatch
  <2>2. CASE ServerMissing(e)
    <3>1. [what |-> "server", cause |-> "temporary"] \in Error
      BY DEF Error
    <3>2. QED
      BY <1>1, <2>2, <3>1 DEF ServerMissing
  <2>3. CASE ArgsUnusable(e)
    <3>1. [what |-> "args", cause |-> "permanent"] \in Error
      BY DEF Error
    <3>2. QED
      BY <1>1, <2>3, <3>1 DEF ArgsUnusable
  <2>4. CASE StartAttempt(e)
    BY <1>3, <2>4 DEF StartAttempt
  <2>5. CASE Progress(e)
    BY <1>0, <2>5 DEF Progress, LoopInv
  <2>6. CASE OutcomeArrives(e)
    <3>1. \A c \in {"temporary", "permanent"} : [what |-> "job", cause |-> c] \in Error
      BY DEF Error
    <3>2. CASE Succeeded(Current(e))
      BY <1>3, <2>6, <3>2 DEF OutcomeArrives
    <3>3. CASE ~ Succeeded(Current(e))
      <4>1. PICK c \in {"temporary", "permanent"} :
               AttemptFails(e, [what |-> "job", cause |-> c])
        BY <2>6, <3>3 DEF OutcomeArrives
      <4>2. QED
        BY <1>1, <2>6, <3>1, <4>1 DEF OutcomeArrives
    <3>4. QED
      BY <3>2, <3>3
  <2>7. CASE NoOutcome(e)
    <3>1. \A c \in {"temporary", "permanent"} :
             [what |-> "terminal", cause |-> c] \in Error
      BY DEF Error
    <3>2. PICK c \in {"temporary", "permanent"} :
             AttemptFails(e, [what |-> "terminal", cause |-> c])
      BY <2>7 DEF NoOutcome
    <3>3. QED
      BY <1>1, <2>7, <3>1, <3>2 DEF NoOutcome
  <2>8. CASE Retry(e)
    <3>1. task[e].attempt + 1 \in 1 .. MaxRetries
      BY <1>0, <2>8 DEF Retry, LoopInv, TaskState
    <3>2. QED
      BY <1>2, <2>8, <3>1 DEF Retry
  <2>9. QED
    BY <1>4, <2>1, <2>2, <2>3, <2>4, <2>5, <2>6, <2>7, <2>8 DEF TaskStep
<1>5. ASSUME CrashLosesTasks
      PROVE  /\ data' = data
             /\ task' \in [Task -> TaskState]
             /\ \A d \in Task : LoopInv(d)'
  <2>1. ASSUME NEW d \in Task
        PROVE  task'[d] = IF Unfinished(d) THEN [task[d] EXCEPT !.step = "lost"]
                         ELSE task[d]
    BY <1>5 DEF CrashLosesTasks
  <2>2. ASSUME NEW d \in Task PROVE task'[d] \in TaskState /\ LoopInv(d)'
    BY <1>0, <2>1, <2>2 DEF TaskState, Unfinished, LoopInv
  <2>3. DOMAIN task' = Task /\ task' = [d \in Task |-> task'[d]]
    BY <1>5 DEF CrashLosesTasks
  <2>4. QED
    BY <1>5, <2>2, <2>3 DEF CrashLosesTasks
<1>6. ASSUME data' = data, task' = task
      PROVE  /\ task' \in [Task -> TaskState]
             /\ \A d \in Task : LoopInv(d)'
  BY <1>0, <1>6 DEF LoopInv
<1>7. QED
  BY <1>0, <1>4, <1>5, <1>6
     DEF RetryNext, RpcStep, JobMoves, retryVars

LEMMA RetryTypeInit == AttemptsAreRefs /\ RetryInit => RetryTypeInv
<1>1. SUFFICES ASSUME AttemptsAreRefs, RetryInit PROVE RetryTypeInv
  OBVIOUS
<1>2. TypeOK
  BY <1>1, TypeInit DEF RetryInit
<1>3. data \in [Task -> HandlerData]
  BY <1>1 DEF RetryInit
<1>4. task \in [Task -> TaskState]
  <2>1. [n \in 1 .. MaxRetries |-> NoError]
           \in [1 .. MaxRetries -> Error \cup {NoError}]
    OBVIOUS
  <2>2. 0 \in 0 .. MaxRetries
    BY <1>1 DEF AttemptsAreRefs
  <2>3. QED
    BY <1>1, <2>1, <2>2 DEF RetryInit, TaskState
<1>5. \A e \in Task : LoopInv(e)
  BY <1>1 DEF RetryInit, LoopInv
<1>6. QED
  BY <1>2, <1>3, <1>4, <1>5 DEF RetryTypeInv, RetryTypeOK

LEMMA RetryTypeStep ==
    AttemptsAreRefs /\ RetryTypeInv /\ [RetryNext]_retryVars => RetryTypeInv'
<1>1. SUFFICES ASSUME AttemptsAreRefs, RetryTypeInv, [RetryNext]_retryVars
               PROVE  RetryTypeInv'
  OBVIOUS
<1>2. [Next]_vars
  BY <1>1, LedgerSteps
<1>3. TypeOK
  BY <1>1 DEF RetryTypeInv, RetryTypeOK
<1>4. TypeOK'
  BY <1>2, <1>3, TypeStep
<1>5. QED
  BY <1>1, <1>4, RunTypeStep DEF RetryTypeInv, RetryTypeOK

\* An attempt that has not enqueued anything yet, and one that is over with an
\* error.
Awaited(r) ==
    \/ r[2] > task[r[1]].attempt
    \/ r[2] = task[r[1]].attempt /\ task[r[1]].step = "setup"
Failed(r) ==
    \/ r[2] < task[r[1]].attempt
    \/ r[2] = task[r[1]].attempt /\ task[r[1]].step \in {"sleep", "failed"}

\* What an error says of the job of the attempt.
Explains(w, r) ==
    \/ w \in {"server", "args"} /\ job[r] = "none"
    \/ w = "job" /\ job[r] \in {"Failed", "Cancelled"}
    \/ w = "terminal"

\* A run enqueues at its present attempt only, keeps an error that explains each
\* attempt it left, and stops at the attempt whose row says Success.
AttemptInv(r) ==
    /\ Awaited(r) => job[r] = "none"
    /\ Failed(r) => Explains(task[r[1]].errors[r[2]].what, r)
    /\ row[r].status = "Success" =>
          r[2] = task[r[1]].attempt /\ task[r[1]].step = "ok"

RetryInv == RetryTypeInv /\ \A r \in Ref : AttemptInv(r)

\* What the ledger does to an attempt without its recorder.
Rests(r) ==
    /\ job'[r] # job[r] => job[r] \in Live
    /\ row'[r].status = "Success" => row[r].status = "Success"

\* An attempt keeps its invariant when its run does not move.
LEMMA AttemptRests ==
    ASSUME NEW r \in Ref, AttemptInv(r), Rests(r),
           task'[r[1]] = task[r[1]]
    PROVE  AttemptInv(r)'
BY DEF AttemptInv, Awaited, Failed, Explains, Rests, Live

\* The attempts whose run is not at them do not notice that its step changes.
LEMMA OtherAttempts ==
    ASSUME NEW r \in Ref, AttemptInv(r), Rests(r),
           task'[r[1]].attempt = task[r[1]].attempt, r[2] # task[r[1]].attempt,
           task'[r[1]].errors[r[2]] = task[r[1]].errors[r[2]]
    PROVE  AttemptInv(r)'
BY DEF AttemptInv, Awaited, Failed, Explains, Rests, Live

\* An attempt that fails leaves an error that explains it.
LEMMA AttemptFailsStep ==
    ASSUME AttemptsAreRefs, RetryInv, NEW e \in Task, NEW error \in Error,
           task[e].step # "idle", AttemptFails(e, error),
           Explains(error.what, Current(e))',
           row'[Current(e)].status # "Success",
           NEW r \in Ref, r # Current(e) => Rests(r)
    PROVE  AttemptInv(r)'
<1>0. /\ task \in [Task -> TaskState]
      /\ task[e].attempt \in 1 .. MaxRetries
      /\ AttemptInv(r)
      /\ r[1] \in Task /\ r[2] \in 1 .. MaxRetries /\ r = <<r[1], r[2]>>
  BY Attempts DEF RetryInv, RetryTypeInv, LoopInv, RetryTypeOK, TaskState
<1>1. PICK s \in {"sleep", "failed"} :
         task' = [task EXCEPT
                   ![e].errors = [task[e].errors EXCEPT ![task[e].attempt] = error],
                   ![e].step = s]
  BY DEF AttemptFails
<1>2. PICK errs \in [1 .. MaxRetries -> Error \cup {NoError}] :
         errs = [task[e].errors EXCEPT ![task[e].attempt] = error]
  BY <1>0 DEF TaskState
<1>3. /\ task'[e] = Faulted(task[e], s, errs)
      /\ \A d \in Task \ {e} : task'[d] = task[d]
  BY <1>0, <1>1, <1>2 DEF Faulted
<1>4. /\ task'[e].step = s
      /\ task'[e].attempt = task[e].attempt
      /\ task'[e].errors = errs
  <2>1. /\ task[e] \in TaskState
        /\ s \in Steps
    BY <1>0 DEF Steps
  <2>2. errs \in Errors
    BY <1>2 DEF Errors
  <2>3. /\ Faulted(task[e], s, errs).step = s
        /\ Faulted(task[e], s, errs).attempt = task[e].attempt
        /\ Faulted(task[e], s, errs).errors = errs
    BY <2>1, <2>2, FaultedRun
  <2>4. QED
    BY <1>3, <2>3
<1>5. /\ errs[task[e].attempt] = error
      /\ \A n \in 1 .. MaxRetries :
            n # task[e].attempt => errs[n] = task[e].errors[n]
  BY <1>0, <1>2 DEF TaskState
<1>6. CASE r[1] # e
  BY <1>0, <1>3, <1>6, AttemptRests DEF Current
<1>7. CASE r[1] = e /\ r[2] # task[e].attempt
  <2>1. /\ task'[r[1]].attempt = task[r[1]].attempt
        /\ task'[r[1]].errors[r[2]] = task[r[1]].errors[r[2]]
        /\ r[2] # task[r[1]].attempt
    BY <1>0, <1>4, <1>5, <1>7
  <2>2. Rests(r)
    BY <1>7 DEF Current
  <2>3. QED
    BY <1>0, <2>1, <2>2, OtherAttempts
<1>8. CASE r[1] = e /\ r[2] = task[e].attempt
  <2>1. r = Current(e)
    BY <1>0, <1>8 DEF Current
  <2>2. Explains(error.what, r)'
    BY <2>1, <1>4 DEF Explains, Current
  <2>3. /\ task'[r[1]].step \in {"sleep", "failed"}
        /\ r[2] = task'[r[1]].attempt
        /\ task'[r[1]].errors[r[2]] = error
    BY <1>4, <1>5, <1>8
  <2>4. ~ Awaited(r)'
    BY <1>0, <1>8, <2>3 DEF Awaited
  <2>5. QED
    BY <2>1, <2>2, <2>3, <2>4 DEF AttemptInv, Explains
<1>9. QED
  BY <1>6, <1>7, <1>8

\* A recorder moves the job of its own attempt only, and the status of a row only
\* when it records an outcome.
LEMMA RecorderEffects ==
    ASSUME RetryTypeInv, NEW c \in Ref, NEW q \in Ref
    PROVE  /\ \/ RecordPending(c) \/ RecordPendingFails(c)
              \/ \E streaming \in BOOLEAN : EnqueueOk(c, streaming)
              \/ EnqueueFails(c)
              \/ RecordJobId(c)
              \/ LoseTerminal(c)
              \/ RecordError(c)
              => /\ row'[q].status = row[q].status
                 /\ q # c => job'[q] = job[q]
           /\ RecordPending(c) \/ RecordPendingFails(c) =>
                 job' = job
           /\ RecordResult(c) =>
                 /\ job' = job
                 /\ job[c] \in Finished
                 /\ \/ row'[c].status = row[c].status
                    \/ row'[c].status = TerminalStatus(job[c])
                 /\ q # c => row'[q] = row[q]
<1>0. row \in [Ref -> Row] /\ DOMAIN job = Ref
  BY DEF RetryTypeInv, RetryTypeOK, TypeOK
<1>1. ASSUME RecordPending(c) \/ RecordPendingFails(c)
      PROVE  UNCHANGED <<row, job>>
  BY <1>1 DEF RecordPending, RecordPendingFails
<1>2. ASSUME NEW streaming \in BOOLEAN,
             \/ EnqueueOk(c, streaming)
             \/ EnqueueFails(c)
      PROVE  row' = row /\ (q # c => job'[q] = job[q])
  BY <1>0, <1>2 DEF EnqueueOk, EnqueueFails
<1>3. ASSUME RecordJobId(c) \/ RecordError(c)
      PROVE  job' = job /\ row'[q].status = row[q].status
  <2>1. /\ job' = job
        /\ \/ row' = row
           \/ row' = UpdateJobId(c)
           \/ row' = UpdateEnqueueError(c)
    BY <1>3
       DEF RecordJobId, RecordError, BestEffort, LastWrite
  <2>2. QED
    BY <1>0, <2>1
       DEF UpdateJobId, UpdateEnqueueError,
           Row
<1>4. ASSUME LoseTerminal(c) PROVE UNCHANGED <<row, job>>
  BY <1>4 DEF LoseTerminal
<1>5. ASSUME RecordResult(c)
      PROVE  /\ job' = job
             /\ job[c] \in Finished
             /\ \/ row'[c].status = row[c].status
                \/ row'[c].status = TerminalStatus(job[c])
             /\ q # c => row'[q] = row[q]
  <2>1. /\ job' = job
        /\ job[c] \in Finished
        /\ \/ row' = row
           \/ \E carriesJobId \in BOOLEAN :
                 row' = UpdateResult(c, carriesJobId,
                                                  TerminalStatus(job[c]))
    BY <1>5 DEF RecordResult, LastWrite
  <2>2. QED
    BY <1>0, <2>1 DEF UpdateResult, Row
<1>6. QED
  BY <1>1, <1>2, <1>3, <1>4, <1>5

\* What the worker, the RPC handlers and a crash do to an attempt.
LEMMA OthersRest ==
    ASSUME RetryTypeInv, NEW r \in Ref,
           \/ \E q \in Ref : JobStep(q)
           \/ \E o \in Op : Call(o) \/ HandlerStep(o)
           \/ \E s \in Source : DeleteAllBySource(s)
           \/ Crash
    PROVE  Rests(r)
<1>1. TypeOK
  BY DEF RetryTypeInv, RetryTypeOK
<1>2. /\ job'[r] # job[r] => job[r] \in Live
      /\ row'[r].status = "Success" => row[r].status = "Success"
  BY <1>1, OthersKeepResults
<1>3. QED
  BY <1>2 DEF Rests

\* What the invariant says of the present attempt of a run that works on it.
LEMMA RunningIsOpen ==
    ASSUME AttemptsAreRefs, RetryInv, NEW e \in Task, task[e].step \in {"setup", "running"}
    PROVE  row[Current(e)].status # "Success"
<1>1. /\ Current(e) \in Ref
      /\ Current(e)[1] = e /\ Current(e)[2] = task[e].attempt
  BY CurrentIsAttempt DEF RetryInv, Current
<1>2. AttemptInv(Current(e))
  BY <1>1 DEF RetryInv
<1>3. QED
  BY <1>1, <1>2 DEF AttemptInv

LEMMA SetupIsAwaited ==
    ASSUME AttemptsAreRefs, RetryInv, NEW e \in Task, task[e].step = "setup"
    PROVE  /\ job[Current(e)] = "none"
           /\ row[Current(e)].status # "Success"
<1>1. /\ Current(e) \in Ref
      /\ Current(e)[1] = e /\ Current(e)[2] = task[e].attempt
  BY CurrentIsAttempt DEF RetryInv, Current
<1>2. AttemptInv(Current(e))
  BY <1>1 DEF RetryInv
<1>3. QED
  BY <1>1, <1>2, RunningIsOpen DEF AttemptInv, Awaited

\* A failing attempt stays the present one.
LEMMA FailedCurrent ==
    ASSUME RetryInv, NEW e \in Task, NEW error, task[e].step # "idle",
           AttemptFails(e, error)
    PROVE  Current(e)' = Current(e)
BY DEF RetryInv, RetryTypeInv, RetryTypeOK, TaskState, AttemptFails,
       Current

\* Every step keeps what is known of an attempt.
LEMMA AttemptInvStep ==
    ASSUME AttemptsAreRefs, RetryInv, [RetryNext]_retryVars,
           NEW r \in Ref
    PROVE  AttemptInv(r)'
<1>0. /\ RetryTypeInv /\ AttemptInv(r)
      /\ task \in [Task -> TaskState]
      /\ r[1] \in Task /\ r[2] \in 1 .. MaxRetries /\ r = <<r[1], r[2]>>
      /\ \A e \in Task : task[e].attempt \in 0 .. MaxRetries /\ LoopInv(e)
  BY Attempts DEF RetryInv, RetryTypeInv, RetryTypeOK, TaskState
<1>1. ASSUME NEW e \in Task, Dispatch(e) PROVE AttemptInv(r)'
  <2>1. /\ row' = row /\ job' = job
        /\ task[e].attempt = 0
        /\ \A d \in Task \ {e} : task'[d] = task[d]
        /\ task'[e] = Turned(task[e], "setup", 1)
    BY <1>0, <1>1
       DEF Dispatch, vars, LoopInv, Turned
  <2>2. task'[e].step = "setup" /\ task'[e].attempt = 1
    <3>1. 1 \in 0 .. MaxRetries /\ task[e] \in TaskState /\ "setup" \in Steps
      BY <1>0 DEF AttemptsAreRefs, Steps
    <3>2. /\ Turned(task[e], "setup", 1).step = "setup"
          /\ Turned(task[e], "setup", 1).attempt = 1
      BY <3>1, TurnedRun
    <3>3. QED
      BY <2>1, <3>2
  <2>3. CASE r[1] # e
    BY <1>0, <2>1, <2>3, AttemptRests DEF Rests
  <2>4. CASE r[1] = e
    BY <1>0, <2>1, <2>2, <2>4 DEF AttemptInv, Awaited, Failed
  <2>5. QED
    BY <2>3, <2>4
<1>2. ASSUME NEW e \in Task, ServerMissing(e) PROVE AttemptInv(r)'
  <2>1. [what |-> "server", cause |-> "temporary"] \in Error
    BY DEF Error
  <2>2. row' = row /\ job' = job /\ task[e].step = "setup"
    BY <1>2 DEF ServerMissing, vars
  <2>3. /\ job[Current(e)] = "none"
        /\ row[Current(e)].status # "Success"
    BY <2>2, SetupIsAwaited
  <2>4. Explains("server", Current(e))'
    BY <1>2, <2>2, <2>3, FailedCurrent DEF Explains, ServerMissing
  <2>5. QED
    BY <1>2, <2>1, <2>2, <2>3, <2>4, AttemptFailsStep
       DEF ServerMissing, Rests
<1>3. ASSUME NEW e \in Task, ArgsUnusable(e) PROVE AttemptInv(r)'
  <2>1. [what |-> "args", cause |-> "permanent"] \in Error
    BY DEF Error
  <2>2. row' = row /\ job' = job /\ task[e].step = "setup"
    BY <1>3 DEF ArgsUnusable, vars
  <2>3. /\ job[Current(e)] = "none"
        /\ row[Current(e)].status # "Success"
    BY <2>2, SetupIsAwaited
  <2>4. Explains("args", Current(e))'
    BY <1>3, <2>2, <2>3, FailedCurrent DEF Explains, ArgsUnusable
  <2>5. QED
    BY <1>3, <2>1, <2>2, <2>3, <2>4, AttemptFailsStep
       DEF ArgsUnusable, Rests
<1>4. ASSUME NEW e \in Task, StartAttempt(e) PROVE AttemptInv(r)'
  <2>1. /\ task[e].step = "setup" /\ Current(e) \in Ref
        /\ \A d \in Task \ {e} : task'[d] = task[d]
        /\ task'[e] = Moved(task[e], "running")
    BY <1>0, <1>4, CurrentIsAttempt DEF StartAttempt, Moved
  <2>2. /\ task'[e].step = "running" /\ task'[e].attempt = task[e].attempt
        /\ task'[e].errors = task[e].errors
    <3>1. task[e] \in TaskState /\ "running" \in Steps
      BY <1>0 DEF Steps
    <3>2. /\ Moved(task[e], "running").step = "running"
          /\ Moved(task[e], "running").attempt = task[e].attempt
          /\ Moved(task[e], "running").errors = task[e].errors
      BY <3>1, MovedRun
    <3>3. QED
      BY <2>1, <3>2
  <2>3. row'[r].status = row[r].status /\ job' = job
    BY <1>0, <1>4, <2>1, RecorderEffects DEF StartAttempt
  <2>4. CASE r[1] # e
    BY <1>0, <2>1, <2>3, <2>4, AttemptRests DEF Rests
  <2>5. CASE r[1] = e
    BY <1>0, <2>1, <2>2, <2>3, <2>5 DEF AttemptInv, Awaited, Failed, Explains
  <2>6. QED
    BY <2>4, <2>5
<1>5. ASSUME NEW e \in Task, Progress(e) PROVE AttemptInv(r)'
  <2>1. /\ task[e].step = "running" /\ Current(e) \in Ref
        /\ task' = task
    BY <1>0, <1>5, CurrentIsAttempt DEF Progress
  <2>2. /\ row'[r].status = row[r].status
        /\ r # Current(e) => job'[r] = job[r]
    BY <1>0, <1>5, <2>1, RecorderEffects DEF Progress
  <2>3. CASE r # Current(e)
    BY <1>0, <2>1, <2>2, <2>3, AttemptRests DEF Rests
  <2>4. CASE r = Current(e)
    <3>1. r[1] = e /\ r[2] = task[e].attempt
      BY <2>4 DEF Current
    <3>2. QED
      BY <1>0, <2>1, <2>2, <3>1 DEF AttemptInv, Awaited, Failed
  <2>5. QED
    BY <2>3, <2>4
<1>6. ASSUME NEW e \in Task, OutcomeArrives(e) PROVE AttemptInv(r)'
  <2>0. task[e].step = "running" /\ Current(e) \in Ref
    BY <1>0, <1>6, CurrentIsAttempt DEF OutcomeArrives
  <2> DEFINE c == Current(e)
  <2>1. /\ job' = job
        /\ job[c] \in Finished
        /\ \/ row'[c].status = row[c].status
           \/ row'[c].status = TerminalStatus(job[c])
        /\ r # c => row'[r] = row[r]
    BY <1>0, <1>6, <2>0, RecorderEffects DEF OutcomeArrives
  <2>2. row[c].status # "Success"
    BY <2>0, RunningIsOpen
  <2>3. CASE Succeeded(c)
    <3>1. /\ \A d \in Task \ {e} : task'[d] = task[d]
          /\ task'[e] = Moved(task[e], "ok")
      BY <1>0, <1>6, <2>3 DEF OutcomeArrives, Moved
    <3>2. /\ task'[e].step = "ok" /\ task'[e].attempt = task[e].attempt
          /\ task'[e].errors = task[e].errors
      <4>1. task[e] \in TaskState /\ "ok" \in Steps
        BY <1>0 DEF Steps
      <4>2. /\ Moved(task[e], "ok").step = "ok"
            /\ Moved(task[e], "ok").attempt = task[e].attempt
            /\ Moved(task[e], "ok").errors = task[e].errors
        BY <4>1, MovedRun
      <4>3. QED
        BY <3>1, <4>2
    <3>3. CASE r[1] # e
      BY <1>0, <2>1, <3>1, <3>3, AttemptRests DEF Rests, Current
    <3>4. CASE r[1] = e /\ r[2] # task[e].attempt
      BY <1>0, <2>1, <3>2, <3>4, OtherAttempts DEF Rests, Current
    <3>5. CASE r[1] = e /\ r[2] = task[e].attempt
      BY <1>0, <2>0, <2>1, <3>2, <3>5 DEF AttemptInv, Awaited, Failed
    <3>6. QED
      BY <3>3, <3>4, <3>5
  <2>4. CASE ~ Succeeded(c)
    <3>1. PICK cause \in {"temporary", "permanent"} :
             AttemptFails(e, [what |-> "job", cause |-> cause])
      BY <1>6, <2>4 DEF OutcomeArrives
    <3>2. [what |-> "job", cause |-> cause] \in Error
      BY DEF Error
    <3>3. job[c] \in {"Failed", "Cancelled"} /\ row'[c].status # "Success"
      BY <2>1, <2>2, <2>4
         DEF Succeeded, Finished, ResultStatus,
             TerminalStatus
    <3>4. Explains("job", Current(e))'
      BY <2>0, <2>1, <3>1, <3>3, FailedCurrent DEF Explains
    <3>5. r # c => Rests(r)
      BY <2>1 DEF Rests
    <3>6. QED
      BY <2>0, <3>1, <3>2, <3>3, <3>4, <3>5, AttemptFailsStep
  <2>5. QED
    BY <2>3, <2>4
<1>7. ASSUME NEW e \in Task, NoOutcome(e) PROVE AttemptInv(r)'
  <2>0. task[e].step = "running" /\ Current(e) \in Ref
    BY <1>0, <1>7, CurrentIsAttempt DEF NoOutcome
  <2>1. PICK cause \in {"temporary", "permanent"} :
           AttemptFails(e, [what |-> "terminal", cause |-> cause])
    BY <1>7 DEF NoOutcome
  <2>2. [what |-> "terminal", cause |-> cause] \in Error
    BY DEF Error
  <2>3. \A q \in Ref :
           /\ row'[q].status = row[q].status
           /\ q # Current(e) => job'[q] = job[q]
    BY <1>0, <1>7, <2>0, RecorderEffects DEF NoOutcome
  <2>4. row'[Current(e)].status # "Success"
    BY <2>0, <2>3, RunningIsOpen
  <2>5. Explains("terminal", Current(e))'
    BY DEF Explains
  <2>6. QED
    BY <2>0, <2>1, <2>2, <2>3, <2>4, <2>5, AttemptFailsStep DEF Rests
<1>8. ASSUME NEW e \in Task, Retry(e) PROVE AttemptInv(r)'
  <2>1. /\ row' = row /\ job' = job /\ task[e].step = "sleep"
        /\ \A d \in Task \ {e} : task'[d] = task[d]
        /\ task'[e] = Turned(task[e], "setup", task[e].attempt + 1)
    BY <1>0, <1>8 DEF Retry, vars, Turned
  <2>2. /\ task'[e].step = "setup" /\ task'[e].attempt = task[e].attempt + 1
        /\ task'[e].errors = task[e].errors
    <3>1. /\ task[e].attempt + 1 \in 0 .. MaxRetries
          /\ task[e] \in TaskState /\ "setup" \in Steps
      BY <1>0, <2>1 DEF LoopInv, AttemptsAreRefs, Steps
    <3>2. /\ Turned(task[e], "setup", task[e].attempt + 1).step = "setup"
          /\ Turned(task[e], "setup", task[e].attempt + 1).attempt = task[e].attempt + 1
          /\ Turned(task[e], "setup", task[e].attempt + 1).errors = task[e].errors
      BY <3>1, TurnedRun
    <3>3. QED
      BY <2>1, <3>2
  <2>3. CASE r[1] # e
    BY <1>0, <2>1, <2>3, AttemptRests DEF Rests
  <2>4. CASE r[1] = e
    BY <1>0, <2>1, <2>2, <2>4 DEF AttemptInv, Awaited, Failed, Explains
  <2>5. QED
    BY <2>3, <2>4
<1>9. ASSUME JobMoves(r) \/ (\E q \in Ref : JobMoves(q)) \/ RpcStep
      PROVE  AttemptInv(r)'
  <2>1. task' = task
    BY <1>9 DEF JobMoves, RpcStep
  <2>2. Rests(r)
    BY <1>0, <1>9, OthersRest DEF JobMoves, RpcStep
  <2>3. QED
    BY <1>0, <2>1, <2>2, AttemptRests
<1>10. ASSUME CrashLosesTasks PROVE AttemptInv(r)'
  <2>1. task'[r[1]] = IF Unfinished(r[1]) THEN Moved(task[r[1]], "lost")
                     ELSE task[r[1]]
    BY <1>0, <1>10 DEF CrashLosesTasks, Moved
  <2>2. Rests(r)
    BY <1>0, <1>10, OthersRest DEF CrashLosesTasks
  <2>3. CASE ~ Unfinished(r[1])
    BY <1>0, <2>1, <2>2, <2>3, AttemptRests
  <2>4. CASE Unfinished(r[1])
    <3>1. /\ task'[r[1]].step = "lost" /\ task'[r[1]].attempt = task[r[1]].attempt
          /\ task'[r[1]].errors = task[r[1]].errors
      <4>1. task[r[1]] \in TaskState /\ "lost" \in Steps
        BY <1>0 DEF Steps
      <4>2. /\ Moved(task[r[1]], "lost").step = "lost"
            /\ Moved(task[r[1]], "lost").attempt = task[r[1]].attempt
            /\ Moved(task[r[1]], "lost").errors = task[r[1]].errors
        BY <4>1, MovedRun
      <4>3. QED
        BY <2>1, <2>4, <4>2
    <3>2. QED
      BY <1>0, <2>2, <2>4, <3>1
         DEF AttemptInv, Awaited, Failed, Explains, Rests, Live, Unfinished
  <2>5. QED
    BY <2>3, <2>4
<1>11. CASE UNCHANGED retryVars
  BY <1>0, <1>11, AttemptRests DEF Rests, retryVars, vars
<1>12. QED
  BY <1>1, <1>2, <1>3, <1>4, <1>5, <1>6, <1>7, <1>8, <1>9, <1>10, <1>11
     DEF RetryNext, TaskStep

\* What is known of every attempt holds initially.
LEMMA RetryInvInit == AttemptsAreRefs /\ RetryInit => RetryInv
<1>1. SUFFICES ASSUME AttemptsAreRefs, RetryInit PROVE RetryInv
  OBVIOUS
<1>2. ASSUME NEW r \in Ref PROVE AttemptInv(r)
  <2>1. /\ r[1] \in Task /\ r[2] \in 1 .. MaxRetries
        /\ task[r[1]].attempt = 0
        /\ job[r] = "none" /\ row[r].status = "None"
    BY <1>1, Attempts
       DEF RetryInit, Init, NoRows,
           PendingRow
  <2>2. QED
    BY <2>1 DEF AttemptInv, Awaited, Failed
<1>3. QED
  BY <1>1, <1>2, RetryTypeInit DEF RetryInv

\* The invariant holds in every state the loop reaches.
LEMMA RetryInvariant ==
    ASSUME AttemptsAreRefs
    PROVE  RetrySpec => []RetryInv
<1>1. RetryInit => RetryInv
  BY RetryInvInit
<1>2. RetryInv /\ [RetryNext]_retryVars => RetryInv'
  BY AttemptInvStep, RetryTypeStep DEF RetryInv
<1>3. QED
  BY <1>1, <1>2, PTL DEF RetrySpec

\* The attempts of the retry loop are executions of the ledger, one each, and the
\* loop lets the ledger do nothing that it could not do by itself: whatever is
\* proved of the ledger holds of the rows, jobs and recorders of the attempts.
THEOREM AttemptsAreExecutions ==
    ASSUME AttemptsAreRefs
    PROVE  RetrySpec => Spec
<1>1. RetryInit => Init
  BY DEF RetryInit
<1>2. RetryInv /\ [RetryNext]_retryVars => [Next]_vars
  BY LedgerSteps DEF RetryInv
<1>3. QED
  BY <1>1, <1>2, RetryInvariant, PTL DEF RetrySpec, Spec

\* Every reachable state of the runs and of their executions is well formed.
THEOREM RunsTyped ==
    ASSUME AttemptsAreRefs
    PROVE  RetrySpec => []RetryTypeOK
<1>1. RetryInv => RetryTypeOK
  BY DEF RetryInv, RetryTypeInv
<1>2. QED
  BY <1>1, RetryInvariant, PTL

\* A run whose ledger shows Success is not tried again and does not report a
\* failure (handler_executor.rs execute_workflow_with_retry).
THEOREM SuccessEndsARun ==
    ASSUME AttemptsAreRefs
    PROVE  RetrySpec => []SuccessIsLast
<1>1. ASSUME RetryInv PROVE SuccessIsLast
  <2>1. \A r \in present : r \in Ref /\ AttemptInv(r)
    BY <1>1 DEF RetryInv, RetryTypeInv, RetryTypeOK, TypeOK
  <2>2. QED
    BY <2>1 DEF AttemptInv, SuccessIsLast
<1>2. QED
  BY <1>1, RetryInvariant, PTL

\* A job that lives or has succeeded is doubled by a retry only if its outcome
\* was lost: a retry after a failed job never repeats what was done.
THEOREM RetriesSpareGoodJobs ==
    ASSUME AttemptsAreRefs
    PROVE  RetrySpec => []OnlyLostJobsAreRepeated
<1>1. ASSUME RetryInv PROVE OnlyLostJobsAreRepeated
  <2>1. SUFFICES ASSUME NEW r \in Ref,
                        job[r] \in Live \cup {"Success", "Discarded"},
                        r[2] < task[r[1]].attempt \/ task[r[1]].step = "failed"
                 PROVE  task[r[1]].errors[r[2]].what = "terminal"
    BY DEF OnlyLostJobsAreRepeated
  <2>2. /\ AttemptInv(r)
        /\ r[2] \in Nat /\ task[r[1]].attempt \in Nat
    BY <1>1, <2>1, Attempts
       DEF RetryInv, RetryTypeInv, RetryTypeOK, TaskState
  <2>3. job[r] \notin {"none", "Failed", "Cancelled"}
    BY <2>1 DEF Live
  <2>4. Failed(r)
    BY <2>1, <2>2, <2>3 DEF AttemptInv, Awaited, Failed
  <2>5. QED
    BY <2>2, <2>3, <2>4 DEF AttemptInv, Explains
<1>2. QED
  BY <1>1, RetryInvariant, PTL

=============================================================================
