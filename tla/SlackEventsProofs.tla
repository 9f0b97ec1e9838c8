--------------------------- MODULE SlackEventsProofs ---------------------------
(***************************************************************************)
(* Theorems about SlackEvents, for any handlers, events and number of      *)
(* configuration changes.                                                  *)
(***************************************************************************)
EXTENDS SlackEvents, TLAPS

(* What the checks say of the row of a handler, whichever kind it is for.  *)
Accepted(t, row) ==
    /\ row.on
    /\ row.channel \in {None, what[t[1]].channel}
    /\ CASE OfMessage(t) ->
              /\ row.mention = (t[2] = "mention")
              /\ Matches(row.pattern, WordOf(t))
         [] OTHER ->
              /\ t[2] = "added" => row.operation # "Removed"
              /\ t[2] = "removed" => row.operation # "Added"
              /\ Matches(row.names, WordOf(t))
              /\ Matches(row.filter, UserOf(t))

(* What the checks so far say of a handler whose user filter is left. *)
HalfAccepted(t, row) ==
    /\ ChannelFits(t, row)
    /\ OperationFits(t, row)
    /\ Matches(row.names, WordOf(t))

(* A task that has begun works on an event that was delivered. *)
Delivered(t) ==
    task[t].step # "none" =>
        what[t[1]] \in Happening /\ t[2] \in what[t[1]].kinds

(* Handlers are judged once, and only those that were enabled. *)
Judging(t) ==
    /\ \A h \in task[t].todo \cup task[t].matched : task[t].rows[h].on
    /\ task[t].todo \cap task[t].matched = {}
    /\ task[t].half # None => task[t].half \in task[t].todo /\ ~ OfMessage(t)
    /\ task[t].step = "done" => task[t].todo = {}
    /\ \A h \in task[t].matched : OfMessage(t) => MentionFits(t, task[t].rows[h])

(* A calm task has read what is stored and compiled now, and judged by it. *)
CalmInv(t) ==
    task[t].calm =>
        /\ task[t].step \in {"matching", "done"}
        /\ task[t].step = "matching" =>
              /\ applying = None
              /\ \A h \in task[t].todo : task[t].rows[h] = store[h]
        /\ \A h \in Handler \ task[t].todo :
              h \in task[t].matched <=> Accepted(t, task[t].rows[h])
        /\ task[t].half # None => HalfAccepted(t, task[t].rows[task[t].half])

(* What runs is what the finished tasks have matched. *)
RunsInv ==
    /\ \A r \in runs :
          /\ task[r.task].step = "done"
          /\ r.handler \in task[r.task].matched
          /\ r.row = task[r.task].rows[r.handler]
    /\ \A t \in Task :
          task[t].step = "done" => \A h \in task[t].matched : RunOf(t, h) \in runs

TaskInv(t) == Delivered(t) /\ Judging(t) /\ CalmInv(t)

TasksInv == \A t \in Task : TaskInv(t)

EventsInv == TypeOK /\ PatternsFollowStore /\ TasksInv /\ RunsInv

-----------------------------------------------------------------------------
(* Data *)

(* A condition and its compiled form agree (event_matcher.rs: a condition  *)
(* that is not set matches everything).                                    *)
LEMMA FitsMatches ==
    ASSUME NEW c \in Condition, NEW w
    PROVE  Fits(c, c, w) <=> Matches(c, w)
BY DEF Condition, Unset, Fits, Matches

(* Rows and compiled conditions have their fields. *)
LEMMA RowFields ==
    ASSUME NEW row \in Row
    PROVE  /\ row \in HandlerData
           /\ row.on \in BOOLEAN /\ row.mention \in BOOLEAN
           /\ row.pattern \in Condition /\ row.names \in Condition
           /\ row.filter \in Condition
           /\ row # Absent
           /\ CompiledFrom(row).pattern = row.pattern
           /\ CompiledFrom(row).names = row.names
           /\ CompiledFrom(row).filter = row.filter
           /\ CompiledFrom(row) \in Compiled
<1>1. row \in HandlerData
  BY SlackAssumption
<1>2. row # Absent
  BY <1>1 DEF HandlerData, Absent
<1> QED
  BY <1>1, <1>2 DEF HandlerData, CompiledFrom, Compiled

(* What is absent is not enabled. *)
LEMMA AbsentIsOff == Absent.on = FALSE /\ CompiledFrom(Absent) \in Compiled
BY DEF Absent, CompiledFrom, NothingCompiled, Compiled, Condition, Unset

(* Enabled rows are rows. *)
LEMMA EnabledIsRow ==
    ASSUME NEW row \in Row \cup {Absent}, row.on
    PROVE  row \in Row
BY AbsentIsOff

-----------------------------------------------------------------------------
(* Types *)

LEMMA InitTypes == Init => TypeOK
<1> SUFFICES ASSUME Init PROVE TypeOK
  OBVIOUS
<1>1. cache \in [Handler -> Compiled]
  BY RowFields, AbsentIsOff DEF Init, Rows
<1>2. NoTask \in TaskState
  BY DEF NoTask, TaskState, Rows
<1>3. 0 \in 0 .. MaxChanges
  BY SlackAssumption
<1> QED
  BY <1>1, <1>2, <1>3 DEF Init, TypeOK

(* Judging a handler keeps the type of the task. *)
LEMMA JudgedType ==
    ASSUME TypeOK, NEW t \in Task, NEW h \in Handler, NEW b \in BOOLEAN
    PROVE  Judged(t, h, b) \in [Task -> TaskState]
<1>1. task[t] \in TaskState
  BY DEF TypeOK
<1>2. PICK m \in SUBSET Handler :
        m = IF b THEN task[t].matched \cup {h} ELSE task[t].matched
  BY <1>1 DEF TaskState
<1> DEFINE new == [task[t] EXCEPT !.todo = task[t].todo \ {h}, !.half = None, !.matched = m]
<1>3. new \in TaskState
  BY <1>1, <1>2 DEF TaskState
<1>4. Judged(t, h, b) = [task EXCEPT ![t] = new]
  BY <1>1, <1>2 DEF Judged, TypeOK, TaskState
<1> QED
  BY <1>3, <1>4 DEF TypeOK

(* What judging does to the tasks. *)
LEMMA JudgedFields ==
    ASSUME TypeOK, NEW t \in Task, NEW h \in Handler, NEW b \in BOOLEAN,
           task' = Judged(t, h, b)
    PROVE  /\ task' \in [Task -> TaskState]
           /\ \A u \in Task \ {t} : task'[u] = task[u]
           /\ task'[t].step = task[t].step /\ task'[t].rows = task[t].rows
           /\ task'[t].calm = task[t].calm /\ task'[t].half = None
           /\ task'[t].todo = task[t].todo \ {h}
           /\ \A g : g \in task'[t].matched <=> g \in task[t].matched \/ (g = h /\ b)
<1>1. task' \in [Task -> TaskState]
  BY JudgedType
<1> QED
  BY <1>1 DEF TypeOK, Judged, TaskState

(* Every step keeps the types. *)
LEMMA StepTypes ==
    ASSUME TypeOK, TasksInv, [Next]_vars
    PROVE  TypeOK'
<1>1. ASSUME NEW h \in Handler, NEW row \in Row \cup {Absent}, StoreChange(h, row)
      PROVE  TypeOK'
  <2>1. store' \in Rows
    BY <1>1 DEF StoreChange, TypeOK, Rows
  <2>2. changes' \in 0 .. MaxChanges
    BY <1>1, SlackAssumption DEF StoreChange, TypeOK
  <2>3. task' \in [Task -> TaskState]
    BY <1>1 DEF StoreChange, Disturbed, TypeOK, TaskState
  <2> QED
    BY <1>1, <2>1, <2>2, <2>3 DEF StoreChange, TypeOK
<1>2. CASE CacheChange
  <2>1. applying \in Handler
    BY <1>2 DEF CacheChange, TypeOK
  <2>2. Recompiled(applying) \in Compiled
    BY <2>1, RowFields, AbsentIsOff DEF Recompiled, TypeOK, Rows
  <2> QED
    BY <1>2, <2>1, <2>2 DEF CacheChange, TypeOK
<1>3. ASSUME NEW p \in Post, NEW happening \in Happening, Deliver(p, happening)
      PROVE  TypeOK'
  <2>1. task' \in [Task -> TaskState]
    BY <1>3 DEF Deliver, TypeOK, TaskState
  <2> QED
    BY <1>3, <2>1 DEF Deliver, TypeOK
<1>4. ASSUME NEW t \in Task, Fetch(t)
      PROVE  TypeOK'
  <2>1. [h \in Handler |-> IF store[h].on THEN store[h] ELSE Absent] \in Rows
    BY DEF TypeOK, Rows
  <2>2. task' \in [Task -> TaskState]
    BY <1>4, <2>1 DEF Fetch, TypeOK, TaskState
  <2> QED
    BY <1>4, <2>2 DEF Fetch, TypeOK
<1>5. ASSUME NEW t \in Task, NEW h \in Handler, CheckMessage(t, h)
      PROVE  TypeOK'
  <2>1. PICK b \in BOOLEAN : task' = Judged(t, h, b)
    BY <1>5 DEF CheckMessage
  <2> QED
    BY <1>5, <2>1, JudgedType DEF CheckMessage, TypeOK
<1>6. ASSUME NEW t \in Task, NEW h \in Handler, CheckReaction(t, h)
      PROVE  TypeOK'
  <2>1. task' = [task EXCEPT ![t].half = h] \/ task' = Judged(t, h, FALSE)
    BY <1>6 DEF CheckReaction
  <2>2. [task EXCEPT ![t].half = h] \in [Task -> TaskState]
    BY DEF TypeOK, TaskState
  <2>3. task' \in [Task -> TaskState]
    BY <2>1, <2>2, JudgedType
  <2> QED
    BY <1>6, <2>3 DEF CheckReaction, TypeOK
<1>7. ASSUME NEW t \in Task, NEW h \in Handler, CheckUser(t, h)
      PROVE  TypeOK'
  <2>1. PICK b \in BOOLEAN : task' = Judged(t, h, b)
    BY <1>7 DEF CheckUser, Fits
  <2> QED
    BY <1>7, <2>1, JudgedType DEF CheckUser, TypeOK
<1>8. ASSUME NEW t \in Task, Dispatch(t)
      PROVE  TypeOK'
  <2>1. task' \in [Task -> TaskState]
    BY <1>8 DEF Dispatch, TypeOK, TaskState
  <2>2. ASSUME NEW h \in task[t].matched
        PROVE  RunOf(t, h) \in Run
    <3>1. h \in Handler /\ task[t].rows \in Rows
      BY <2>2 DEF TypeOK, TaskState
    <3>2. task[t].rows[h].on
      BY <2>2 DEF TasksInv, TaskInv, Judging
    <3> QED
      BY <3>1, <3>2, EnabledIsRow DEF RunOf, Run, Rows
  <2>3. runs' \subseteq Run
    BY <1>8, <2>2 DEF Dispatch, TypeOK
  <2> QED
    BY <1>8, <2>1, <2>3 DEF Dispatch, TypeOK
<1>9. CASE UNCHANGED vars
  BY <1>9 DEF vars, TypeOK, Run, Task, TaskState, Rows
<1> QED
  BY <1>1, <1>2, <1>3, <1>4, <1>5, <1>6, <1>7, <1>8, <1>9 DEF Next, Change, Match

(* The compiled conditions follow the store. *)
LEMMA StepPatterns ==
    ASSUME TypeOK, PatternsFollowStore, [Next]_vars
    PROVE  PatternsFollowStore'
<1>1. ASSUME NEW h \in Handler, NEW row \in Row \cup {Absent}, StoreChange(h, row)
      PROVE  PatternsFollowStore'
  BY <1>1, SlackAssumption DEF StoreChange, PatternsFollowStore, TypeOK, Rows
<1>2. CASE CacheChange
  BY <1>2, SlackAssumption DEF CacheChange, Recompiled, PatternsFollowStore, TypeOK
<1>3. CASE UNCHANGED <<store, cache, applying>>
  BY <1>3 DEF PatternsFollowStore
<1> QED
  BY <1>1, <1>2, <1>3
  DEF Next, Change, Match, vars, Deliver, Fetch, CheckMessage, CheckReaction, CheckUser, Dispatch

-----------------------------------------------------------------------------
(* Tasks *)

(* A task that does not move keeps its invariant while the configuration   *)
(* stands still.                                                           *)
LEMMA Frame ==
    ASSUME NEW t \in Task, TaskInv(t), task'[t] = task[t],
           what'[t[1]] = what[t[1]] \/ task[t].step = "none",
           task[t].step = "none" => ~ task[t].calm,
           store' = store, applying' = applying
    PROVE  TaskInv(t)'
<1>1. CASE task[t].step = "none"
  BY <1>1 DEF TaskInv, Delivered, Judging, CalmInv, OfMessage, MentionFits
<1>2. CASE what'[t[1]] = what[t[1]]
  BY <1>2 DEF TaskInv, Delivered, Judging, CalmInv, OfMessage, MentionFits, Accepted,
              HalfAccepted, ChannelFits, OperationFits, Matches, WordOf, UserOf
<1> QED
  BY <1>1, <1>2

(* What a calm task finds compiled belongs to the row it has read.         *)
LEMMA CalmCompiled ==
    ASSUME TypeOK, PatternsFollowStore, NEW t \in Task, TaskInv(t),
           task[t].step = "matching", task[t].calm,
           NEW h \in task[t].todo
    PROVE  /\ h \in Handler /\ task[t].rows[h] \in Row /\ task[t].rows[h].on
           /\ cache[h].pattern = task[t].rows[h].pattern
           /\ cache[h].names = task[t].rows[h].names
           /\ cache[h].filter = task[t].rows[h].filter
<1>1. h \in Handler
  BY DEF TypeOK, TaskState
<1>2. task[t].rows[h] = store[h] /\ task[t].rows[h].on /\ h # applying
  BY <1>1, SlackAssumption DEF TaskInv, CalmInv, Judging
<1>3. store[h] \in Row
  BY <1>1, <1>2, EnabledIsRow DEF TypeOK, Rows
<1>4. cache[h] = CompiledFrom(store[h])
  BY <1>1, <1>2 DEF PatternsFollowStore
<1> QED
  BY <1>1, <1>2, <1>3, <1>4, RowFields

(* The verdict on a message is what the row means.                         *)
LEMMA MessageVerdict ==
    ASSUME TypeOK, PatternsFollowStore, NEW t \in Task, TaskInv(t),
           task[t].step = "matching", task[t].calm, OfMessage(t),
           NEW h \in task[t].todo
    PROVE  /\ ChannelFits(t, task[t].rows[h])
           /\ MentionFits(t, task[t].rows[h])
           /\ Fits(task[t].rows[h].pattern, cache[h].pattern, WordOf(t))
           <=> Accepted(t, task[t].rows[h])
<1> DEFINE row == task[t].rows[h]
<1>1. /\ row \in Row /\ row.on
      /\ cache[h].pattern = row.pattern
  BY CalmCompiled
<1>2. row.pattern \in Condition /\ row.mention \in BOOLEAN
  BY <1>1, RowFields
<1>3. Fits(row.pattern, cache[h].pattern, WordOf(t)) <=> Matches(row.pattern, WordOf(t))
  BY <1>1, <1>2, FitsMatches
<1>4. ChannelFits(t, row) <=> row.channel \in {None, what[t[1]].channel}
  BY DEF ChannelFits
<1>5. MentionFits(t, row) <=> row.mention = (t[2] = "mention")
  BY <1>2 DEF MentionFits
<1> QED
  BY <1>1, <1>3, <1>4, <1>5 DEF Accepted

(* So are the two halves of the verdict on a reaction.                     *)
LEMMA ReactionVerdict ==
    ASSUME TypeOK, PatternsFollowStore, NEW t \in Task, TaskInv(t),
           task[t].step = "matching", task[t].calm, ~ OfMessage(t),
           NEW h \in task[t].todo
    PROVE  /\ /\ ChannelFits(t, task[t].rows[h])
              /\ OperationFits(t, task[t].rows[h])
              /\ Fits(task[t].rows[h].names, cache[h].names, WordOf(t))
              <=> HalfAccepted(t, task[t].rows[h])
           /\ /\ HalfAccepted(t, task[t].rows[h])
              /\ Fits(task[t].rows[h].filter, cache[h].filter, UserOf(t))
              <=> Accepted(t, task[t].rows[h])
<1> DEFINE row == task[t].rows[h]
<1>1. /\ row \in Row /\ row.on
      /\ cache[h].names = row.names /\ cache[h].filter = row.filter
  BY CalmCompiled
<1>2. row.names \in Condition /\ row.filter \in Condition /\ row \in HandlerData
  BY <1>1, RowFields
<1>3. /\ Fits(row.names, cache[h].names, WordOf(t)) <=> Matches(row.names, WordOf(t))
      /\ Fits(row.filter, cache[h].filter, UserOf(t)) <=> Matches(row.filter, UserOf(t))
  BY <1>1, <1>2, FitsMatches
<1>4. ChannelFits(t, row) <=> row.channel \in {None, what[t[1]].channel}
  BY DEF ChannelFits
<1>5. row.operation \in Operation /\ t[2] \in {"added", "removed"}
  BY <1>2 DEF HandlerData, Task, Kind, OfMessage
<1>6. OperationFits(t, row) <=>
         /\ t[2] = "added" => row.operation # "Removed"
         /\ t[2] = "removed" => row.operation # "Added"
  BY <1>5 DEF OperationFits, Operation
<1> QED
  BY <1>1, <1>3, <1>4, <1>6 DEF Accepted, HalfAccepted

(* Judging a handler rightly keeps the invariant of the task.              *)
LEMMA JudgedRightly ==
    ASSUME TypeOK, NEW t \in Task, TaskInv(t), task[t].step = "matching",
           NEW h \in task[t].todo, NEW b \in BOOLEAN,
           task' = Judged(t, h, b),
           store' = store, applying' = applying, what' = what,
           OfMessage(t) /\ b => MentionFits(t, task[t].rows[h]),
           task[t].calm => (b <=> Accepted(t, task[t].rows[h]))
    PROVE  TaskInv(t)'
<1>1. h \in Handler
  BY DEF TypeOK, TaskState
<1>2. /\ task'[t].step = "matching" /\ task'[t].rows = task[t].rows
      /\ task'[t].calm = task[t].calm /\ task'[t].half = None
      /\ task'[t].todo = task[t].todo \ {h}
      /\ \A g : g \in task'[t].matched <=> g \in task[t].matched \/ (g = h /\ b)
  BY <1>1, JudgedFields
<1>3. Delivered(t)'
  BY <1>2 DEF TaskInv, Delivered
<1>4. Judging(t)'
  <2>1. \A g \in task'[t].todo \cup task'[t].matched : task'[t].rows[g].on
    BY <1>2 DEF TaskInv, Judging
  <2>2. task'[t].todo \cap task'[t].matched = {}
    BY <1>2 DEF TaskInv, Judging
  <2>3. \A g \in task'[t].matched : OfMessage(t) => MentionFits(t, task[t].rows[g])
    BY <1>2 DEF TaskInv, Judging
  <2> QED
    BY <1>2, <2>1, <2>2, <2>3 DEF Judging, OfMessage, MentionFits
<1>5. \A g \in Handler : Accepted(t, task[t].rows[g])' <=> Accepted(t, task'[t].rows[g])
  <2> SUFFICES ASSUME NEW g \in Handler
               PROVE  Accepted(t, task[t].rows[g])' <=> Accepted(t, task'[t].rows[g])
    OBVIOUS
  <2> QED
    BY DEF Accepted, Matches, WordOf, UserOf, OfMessage
<1>6. ASSUME task'[t].calm
      PROVE  \A g \in Handler \ task'[t].todo :
               g \in task'[t].matched <=> Accepted(t, task[t].rows[g])'
  <2> SUFFICES ASSUME NEW g \in Handler, g \notin task'[t].todo
               PROVE  g \in task'[t].matched <=> Accepted(t, task'[t].rows[g])
    BY <1>5
  <2>1. CASE g = h
    BY <1>2, <1>6, <2>1 DEF TaskInv, Judging
  <2>2. CASE g # h
    BY <1>2, <1>6, <2>2 DEF TaskInv, CalmInv
  <2> QED
    BY <2>1, <2>2
<1>7. CalmInv(t)'
  BY <1>2, <1>6 DEF TaskInv, CalmInv
<1> QED
  BY <1>3, <1>4, <1>7 DEF TaskInv

(* Every step keeps what is known of the tasks. *)
LEMMA StepTasks ==
    ASSUME TypeOK, PatternsFollowStore, TasksInv, TypeOK', [Next]_vars
    PROVE  TasksInv'
<1> SUFFICES ASSUME NEW u \in Task PROVE TaskInv(u)'
  BY DEF TasksInv
<1>a. TaskInv(u)
  BY DEF TasksInv
<1>b. task[u].step = "none" => ~ task[u].calm
  BY <1>a DEF TaskInv, CalmInv
<1>c. task \in [Task -> TaskState] /\ task[u] \in TaskState
  BY DEF TypeOK
<1>1. ASSUME NEW h \in Handler, NEW row \in Row \cup {Absent}, StoreChange(h, row)
      PROVE  TaskInv(u)'
  <2>1. task'[u] = [task[u] EXCEPT !.calm = FALSE]
    BY <1>1 DEF StoreChange, Disturbed
  <2>2. /\ task'[u].step = task[u].step /\ task'[u].rows = task[u].rows
        /\ task'[u].todo = task[u].todo /\ task'[u].half = task[u].half
        /\ task'[u].matched = task[u].matched /\ ~ task'[u].calm
    BY <2>1, <1>c DEF TaskState
  <2>3. what' = what
    BY <1>1 DEF StoreChange
  <2> QED
    BY <1>a, <2>2, <2>3 DEF TaskInv, Delivered, Judging, CalmInv, OfMessage, MentionFits
<1>2. CASE CacheChange
  <2>1. task' = task /\ what' = what /\ store' = store /\ applying # None
    BY <1>2 DEF CacheChange
  <2> QED
    BY <1>a, <2>1
    DEF TaskInv, Delivered, Judging, CalmInv, OfMessage, MentionFits, Accepted,
        HalfAccepted, ChannelFits, OperationFits, Matches, WordOf, UserOf
<1>3. ASSUME NEW p \in Post, NEW happening \in Happening, Deliver(p, happening)
      PROVE  TaskInv(u)'
  <2>1. store' = store /\ applying' = applying /\ what' = [what EXCEPT ![p] = happening]
    BY <1>3 DEF Deliver
  <2>2. u[1] \in Post
    BY DEF Task
  <2>3. CASE u[1] = p /\ u[2] \in happening.kinds
    <3>1. task[u].step = "none"
      BY <2>3, <1>3, <1>a, SlackAssumption DEF TaskInv, Delivered, Deliver
    <3>2. task'[u] = [task[u] EXCEPT !.step = "arrived"]
      BY <1>3, <2>3 DEF Deliver
    <3>3. /\ task'[u].step = "arrived" /\ task'[u].rows = task[u].rows
          /\ task'[u].todo = task[u].todo /\ task'[u].half = task[u].half
          /\ task'[u].matched = task[u].matched /\ ~ task'[u].calm
      BY <3>1, <3>2, <1>b, <1>c DEF TaskState
    <3>4. what'[u[1]] = happening
      BY <2>1, <2>2, <2>3 DEF TypeOK
    <3> QED
      BY <1>a, <2>3, <3>3, <3>4
      DEF TaskInv, Delivered, Judging, CalmInv, OfMessage, MentionFits
  <2>4. CASE ~ (u[1] = p /\ u[2] \in happening.kinds)
    <3>1. task'[u] = task[u]
      BY <1>3, <2>4 DEF Deliver
    <3>2. what'[u[1]] = what[u[1]] \/ task[u].step = "none"
      BY <1>3, <2>1, <1>a, SlackAssumption DEF TaskInv, Delivered, Deliver, TypeOK
    <3> QED
      BY <1>a, <1>b, <2>1, <3>1, <3>2, Frame
  <2> QED
    BY <2>3, <2>4
<1>4. ASSUME NEW t \in Task, Fetch(t)
      PROVE  TaskInv(u)'
  <2>1. store' = store /\ applying' = applying /\ what' = what
    BY <1>4 DEF Fetch
  <2>2. CASE u # t
    BY <1>4, <1>a, <1>b, <2>1, <2>2, Frame DEF Fetch, TypeOK
  <2>3. CASE u = t
    <3>1. /\ task[u].step = "arrived" /\ task'[u].step = "matching"
          /\ task'[u].rows = [h \in Handler |-> IF store[h].on THEN store[h] ELSE Absent]
          /\ task'[u].todo = {h \in Handler : store[h].on}
          /\ task'[u].half = None /\ task'[u].matched = {}
          /\ task'[u].calm = (applying = None)
      BY <1>4, <1>c, <2>3 DEF Fetch
    <3>2. Delivered(u)'
      BY <1>a, <2>1, <3>1 DEF TaskInv, Delivered
    <3>3. Judging(u)'
      BY <3>1 DEF Judging
    <3>4. \A h \in Handler \ task'[u].todo : ~ Accepted(u, task[u].rows[h])'
      BY <3>1, AbsentIsOff DEF Accepted
    <3>5. CalmInv(u)'
      BY <2>1, <3>1, <3>4 DEF CalmInv
    <3> QED
      BY <3>2, <3>3, <3>5 DEF TaskInv
  <2> QED
    BY <2>2, <2>3
<1>5. ASSUME NEW t \in Task, NEW h \in Handler, CheckMessage(t, h)
      PROVE  TaskInv(u)'
  <2>1. store' = store /\ applying' = applying /\ what' = what
    BY <1>5 DEF CheckMessage
  <2> DEFINE row == task[t].rows[h]
             fits == /\ ChannelFits(t, row)
                     /\ MentionFits(t, row)
                     /\ Fits(row.pattern, cache[h].pattern, WordOf(t))
  <2>2. PICK b \in BOOLEAN : task' = Judged(t, h, b) /\ (b <=> fits)
    BY <1>5 DEF CheckMessage
  <2>3. task[t].step = "matching" /\ OfMessage(t) /\ h \in task[t].todo
    BY <1>5 DEF CheckMessage
  <2>4. CASE u # t
    BY <1>a, <1>b, <2>1, <2>2, <2>4, JudgedFields, Frame
  <2>5. CASE u = t
    <3>1. task[t].calm => (b <=> Accepted(t, row))
      BY <1>a, <2>2, <2>3, <2>5, MessageVerdict
    <3> QED
      BY <1>a, <2>1, <2>2, <2>3, <2>5, <3>1, JudgedRightly
  <2> QED
    BY <2>4, <2>5
<1>6. ASSUME NEW t \in Task, NEW h \in Handler, CheckReaction(t, h)
      PROVE  TaskInv(u)'
  <2>1. store' = store /\ applying' = applying /\ what' = what
    BY <1>6 DEF CheckReaction
  <2> DEFINE row == task[t].rows[h]
             fits == /\ ChannelFits(t, row)
                     /\ OperationFits(t, row)
                     /\ Fits(row.names, cache[h].names, WordOf(t))
  <2>2. /\ task[t].step = "matching" /\ ~ OfMessage(t)
        /\ h \in task[t].todo /\ task[t].half = None
    BY <1>6 DEF CheckReaction
  <2>3. CASE ~ fits
    <3>1. task' = Judged(t, h, FALSE)
      BY <1>6, <2>3 DEF CheckReaction
    <3>2. CASE u # t
      BY <1>a, <1>b, <2>1, <3>1, <3>2, JudgedFields, Frame
    <3>3. CASE u = t
      <4>1. task[t].calm => ~ Accepted(t, row)
        BY <1>a, <2>2, <2>3, <3>3, ReactionVerdict
      <4> QED
        BY <1>a, <2>1, <2>2, <3>1, <3>3, <4>1, JudgedRightly
    <3> QED
      BY <3>2, <3>3
  <2>4. CASE fits
    <3>1. task' = [task EXCEPT ![t].half = h]
      BY <1>6, <2>4 DEF CheckReaction
    <3>2. CASE u # t
      BY <1>a, <1>b, <1>c, <2>1, <3>1, <3>2, Frame
    <3>3. CASE u = t
      <4>1. /\ task'[u].step = "matching" /\ task'[u].rows = task[u].rows
            /\ task'[u].calm = task[u].calm /\ task'[u].half = h
            /\ task'[u].todo = task[u].todo /\ task'[u].matched = task[u].matched
        BY <1>c, <2>2, <3>1, <3>3 DEF TaskState
      <4>2. task[u].calm => HalfAccepted(u, row)
        BY <1>a, <2>2, <2>4, <3>3, ReactionVerdict
      <4>3. Delivered(u)' /\ Judging(u)'
        BY <1>a, <2>1, <2>2, <3>3, <4>1
        DEF TaskInv, Delivered, Judging, OfMessage, MentionFits
      <4>4. HalfAccepted(u, task[u].rows[task[u].half])' <=> HalfAccepted(u, row)
        BY <2>1, <3>3, <4>1 DEF HalfAccepted, ChannelFits, OperationFits, Matches, WordOf
      <4>5. ASSUME NEW g \in Handler
            PROVE  Accepted(u, task[u].rows[g])' <=> Accepted(u, task[u].rows[g])
        BY <2>1, <4>1 DEF Accepted, Matches, WordOf, UserOf, OfMessage
      <4>6. task'[u].calm => \A g \in Handler \ task'[u].todo :
              g \in task'[u].matched <=> Accepted(u, task[u].rows[g])'
        BY <1>a, <4>1, <4>5 DEF TaskInv, CalmInv
      <4>7. task'[u].calm =>
              /\ applying' = None
              /\ \A g \in task'[u].todo : task'[u].rows[g] = store'[g]
        BY <1>a, <2>1, <2>2, <3>3, <4>1 DEF TaskInv, CalmInv
      <4>8. task'[u].calm => HalfAccepted(u, task[u].rows[task[u].half])'
        BY <4>1, <4>2, <4>4
      <4>9. CalmInv(u)'
        BY <4>1, <4>6, <4>7, <4>8 DEF CalmInv
      <4> QED
        BY <4>3, <4>9 DEF TaskInv
    <3> QED
      BY <3>2, <3>3
  <2> QED
    BY <2>3, <2>4
<1>7. ASSUME NEW t \in Task, NEW h \in Handler, CheckUser(t, h)
      PROVE  TaskInv(u)'
  <2>1. store' = store /\ applying' = applying /\ what' = what
    BY <1>7 DEF CheckUser
  <2> DEFINE row == task[t].rows[h]
             fits == Fits(row.filter, cache[h].filter, UserOf(t))
  <2>2. PICK b \in BOOLEAN : task' = Judged(t, h, b) /\ (b <=> fits)
    BY <1>7 DEF CheckUser, Fits
  <2>3. task[t].step = "matching" /\ task[t].half = h
    BY <1>7 DEF CheckUser
  <2>4. CASE u # t
    BY <1>a, <1>b, <2>1, <2>2, <2>4, JudgedFields, Frame
  <2>5. CASE u = t
    <3>1. h \in task[t].todo /\ ~ OfMessage(t)
      BY <1>a, <2>3, <2>5, SlackAssumption DEF TaskInv, Judging
    <3>2. task[t].calm => HalfAccepted(t, row)
      BY <1>a, <2>3, <2>5, SlackAssumption DEF TaskInv, CalmInv
    <3>3. task[t].calm => (b <=> Accepted(t, row))
      BY <1>a, <2>2, <2>3, <2>5, <3>1, <3>2, ReactionVerdict
    <3> QED
      BY <1>a, <2>1, <2>2, <2>3, <2>5, <3>1, <3>3, JudgedRightly
  <2> QED
    BY <2>4, <2>5
<1>8. ASSUME NEW t \in Task, Dispatch(t)
      PROVE  TaskInv(u)'
  <2>1. /\ store' = store /\ applying' = applying /\ what' = what
        /\ task' = [task EXCEPT ![t].step = "done"]
        /\ task[t].step = "matching" /\ task[t].todo = {}
    BY <1>8 DEF Dispatch
  <2>2. CASE u # t
    BY <1>a, <1>b, <1>c, <2>1, <2>2, Frame
  <2>3. CASE u = t
    <3>1. /\ task'[u].step = "done" /\ task'[u].rows = task[u].rows
          /\ task'[u].todo = {} /\ task'[u].half = task[u].half
          /\ task'[u].matched = task[u].matched /\ task'[u].calm = task[u].calm
      BY <1>c, <2>1, <2>3 DEF TaskState
    <3> QED
      BY <1>a, <2>1, <2>3, <3>1
      DEF TaskInv, Delivered, Judging, CalmInv, OfMessage, MentionFits, Accepted,
          HalfAccepted, ChannelFits, OperationFits, Matches, WordOf, UserOf
  <2> QED
    BY <2>2, <2>3
<1>9. CASE UNCHANGED vars
  BY <1>a, <1>b, <1>9, Frame DEF vars
<1> QED
  BY <1>1, <1>2, <1>3, <1>4, <1>5, <1>6, <1>7, <1>8, <1>9 DEF Next, Change, Match

-----------------------------------------------------------------------------
(* Runs *)

(* Runs are left alone by steps that leave finished tasks alone.           *)
LEMMA RunsFrame ==
    ASSUME TypeOK, RunsInv, runs' = runs,
           \A t \in Task : task[t].step = "done" \/ task'[t].step = "done" =>
               /\ task'[t].step = task[t].step /\ task'[t].rows = task[t].rows
               /\ task'[t].matched = task[t].matched
    PROVE  RunsInv'
<1>1. \A r \in runs : r.task \in Task
  BY DEF TypeOK, Run
<1>2. \A t \in Task : task'[t].step = "done" =>
          \A h \in task'[t].matched : [task |-> t, handler |-> h, row |-> task'[t].rows[h]] \in runs
  BY DEF RunsInv, RunOf
<1> QED
  BY <1>1, <1>2 DEF RunsInv, RunOf

(* Every step keeps runs and finished tasks in agreement.                  *)
LEMMA StepRuns ==
    ASSUME TypeOK, TasksInv, RunsInv, [Next]_vars
    PROVE  RunsInv'
<1>a. task \in [Task -> TaskState]
  BY DEF TypeOK
<1>1. ASSUME NEW h \in Handler, NEW row \in Row \cup {Absent}, StoreChange(h, row)
      PROVE  RunsInv'
  <2>1. \A t \in Task :
          /\ task'[t].step = task[t].step /\ task'[t].rows = task[t].rows
          /\ task'[t].matched = task[t].matched
    BY <1>1, <1>a DEF StoreChange, Disturbed, TaskState
  <2> QED
    BY <1>1, <2>1, RunsFrame DEF StoreChange
<1>2. CASE CacheChange
  BY <1>2, RunsFrame DEF CacheChange
<1>3. ASSUME NEW p \in Post, NEW happening \in Happening, Deliver(p, happening)
      PROVE  RunsInv'
  <2>1. ASSUME NEW t \in Task
        PROVE  task'[t] = task[t]
                 \/ (task[t].step = "none" /\ task'[t] = [task[t] EXCEPT !.step = "arrived"])
    BY <1>3, <2>1, SlackAssumption DEF Deliver, TasksInv, TaskInv, Delivered
  <2>2. \A t \in Task : task[t].step = "done" \/ task'[t].step = "done" => task'[t] = task[t]
    BY <1>a, <2>1 DEF TaskState
  <2> QED
    BY <1>3, <2>2, RunsFrame DEF Deliver
<1>4. ASSUME NEW t \in Task, Fetch(t)
      PROVE  RunsInv'
  <2>1. \A u \in Task : task[u].step = "done" \/ task'[u].step = "done" => task'[u] = task[u]
    BY <1>4, <1>a DEF Fetch
  <2> QED
    BY <1>4, <2>1, RunsFrame DEF Fetch
<1>5. ASSUME NEW t \in Task, NEW h \in Handler,
             CheckMessage(t, h) \/ CheckReaction(t, h) \/ CheckUser(t, h)
      PROVE  RunsInv'
  <2>1. task[t].step = "matching" /\ runs' = runs
    BY <1>5 DEF CheckMessage, CheckReaction, CheckUser
  <2>2. (\E b \in BOOLEAN : task' = Judged(t, h, b)) \/ task' = [task EXCEPT ![t].half = h]
    BY <1>5 DEF CheckMessage, CheckReaction, CheckUser, Fits
  <2>3. task'[t].step = "matching" /\ \A u \in Task \ {t} : task'[u] = task[u]
    BY <1>a, <2>1, <2>2, JudgedFields DEF TaskState
  <2> QED
    BY <2>1, <2>3, RunsFrame
<1>6. ASSUME NEW t \in Task, Dispatch(t)
      PROVE  RunsInv'
  <2>1. /\ task[t].step = "matching" /\ task'[t].step = "done"
        /\ task'[t].rows = task[t].rows /\ task'[t].matched = task[t].matched
        /\ \A u \in Task \ {t} : task'[u] = task[u]
    BY <1>6, <1>a DEF Dispatch, TaskState
  <2>2. runs' = runs \cup {RunOf(t, h) : h \in task[t].matched}
    BY <1>6 DEF Dispatch
  <2>3. \A r \in runs : r.task \in Task \ {t}
    BY <2>1 DEF TypeOK, Run, RunsInv
  <2>4. ASSUME NEW r \in runs'
        PROVE  /\ task'[r.task].step = "done"
               /\ r.handler \in task'[r.task].matched
               /\ r.row = task'[r.task].rows[r.handler]
    <3>1. CASE r \in runs
      BY <2>1, <2>3, <3>1 DEF RunsInv
    <3>2. CASE r \notin runs
      <4>1. PICK h \in task[t].matched : r = RunOf(t, h)
        BY <2>2, <3>2
      <4> QED
        BY <2>1, <4>1 DEF RunOf
    <3> QED
      BY <3>1, <3>2
  <2>5. ASSUME NEW u \in Task, task'[u].step = "done", NEW h \in task'[u].matched
        PROVE  [task |-> u, handler |-> h, row |-> task'[u].rows[h]] \in runs'
    <3>1. CASE u = t
      BY <2>1, <2>2, <2>5, <3>1 DEF RunOf
    <3>2. CASE u # t
      BY <2>1, <2>2, <2>5, <3>2 DEF RunOf, RunsInv
    <3> QED
      BY <3>1, <3>2
  <2> QED
    BY <2>4, <2>5 DEF RunsInv, RunOf
<1>7. CASE UNCHANGED vars
  BY <1>7, RunsFrame DEF vars
<1> QED
  BY <1>1, <1>2, <1>3, <1>4, <1>5, <1>6, <1>7 DEF Next, Change, Match

-----------------------------------------------------------------------------
(* Theorems *)

(* The invariant the theorems below rest on: compiled conditions follow    *)
(* the store, tasks are judged once and rightly, and what runs is what the *)
(* finished tasks have matched.                                            *)
THEOREM EventsInvariant == Spec => []EventsInv
<1>1. Init => EventsInv
  <2> SUFFICES ASSUME Init PROVE EventsInv
    OBVIOUS
  <2>1. PatternsFollowStore
    BY DEF Init, PatternsFollowStore
  <2>2. ASSUME NEW t \in Task PROVE TaskInv(t)
    BY DEF Init, NoTask, TaskInv, Delivered, Judging, CalmInv
  <2>3. RunsInv
    BY DEF Init, NoTask, RunsInv
  <2> QED
    BY <2>1, <2>2, <2>3, InitTypes DEF EventsInv, TasksInv
<1>2. EventsInv /\ [Next]_vars => EventsInv'
  BY StepTypes, StepPatterns, StepTasks, StepRuns DEF EventsInv
<1> QED
  BY <1>1, <1>2, PTL DEF Spec

(* The variables keep their types.                                         *)
THEOREM EventsTypeCorrect == Spec => []TypeOK
<1>1. EventsInv => TypeOK
  BY DEF EventsInv
<1> QED
  BY <1>1, EventsInvariant, PTL

(* Compiled conditions follow the stored rows between two changes          *)
(* (SlackHandlerCache against LocalConfigStore), for any number of changes.*)
THEOREM PatternsFollow == Spec => []PatternsFollowStore
<1>1. EventsInv => PatternsFollowStore
  BY DEF EventsInv
<1> QED
  BY <1>1, EventsInvariant, PTL

(* The checks accept what an event is meant for, by the row alone.         *)
LEMMA MeantIsAccepted ==
    ASSUME NEW t \in Task, NEW row \in Row, Meant(t, row)
    PROVE  Accepted(t, row)
<1>1. row \in HandlerData
  BY RowFields
<1>2. row.operation \in Operation /\ row.mention \in BOOLEAN /\ t[2] \in Kind
  BY <1>1 DEF HandlerData, Task
<1>3. CASE OfMessage(t)
  <2>1. t[2] = IF row.mention THEN "mention" ELSE "message"
    BY <1>3 DEF Meant, KindsOf, OfMessage
  <2> QED
    BY <1>2, <1>3, <2>1 DEF Meant, Accepted
<1>4. CASE ~ OfMessage(t)
  <2>1. /\ t[2] = "added" => row.operation # "Removed"
        /\ t[2] = "removed" => row.operation # "Added"
    BY <1>2, <1>4 DEF Meant, KindsOf, OfMessage
  <2> QED
    BY <1>4, <2>1 DEF Meant, Accepted
<1> QED
  BY <1>3, <1>4

(* What they accept beyond that has conditions of the other kind.          *)
LEMMA AcceptedIsMeant ==
    ASSUME NEW t \in Task, NEW row \in Row, Accepted(t, row),
           OfMessage(t) = HasMessageCondition(row)
    PROVE  Meant(t, row)
<1>1. row \in HandlerData
  BY RowFields
<1>2. row.operation \in Operation /\ row.mention \in BOOLEAN /\ t[2] \in Kind
  BY <1>1 DEF HandlerData, Task
<1>3. CASE OfMessage(t)
  <2>1. t[2] \in KindsOf(row)
    BY <1>2, <1>3 DEF Accepted, KindsOf, OfMessage
  <2> QED
    BY <1>3, <2>1 DEF Meant, Accepted
<1>4. CASE ~ OfMessage(t)
  <2>1. ~ HasMessageCondition(row)
    BY <1>2, <1>4 DEF HasMessageCondition, OfMessage
  <2>2. t[2] \in {"added", "removed"}
    BY <1>2, <1>4 DEF OfMessage, Kind
  <2>3. t[2] \in KindsOf(row)
    BY <1>2, <1>4, <2>1, <2>2 DEF Accepted, KindsOf, Operation
  <2> QED
    BY <1>4, <2>3 DEF Meant, Accepted
<1> QED
  BY <1>3, <1>4

(* An event that is matched in calm runs every handler it is meant for,    *)
(* and of the handlers with conditions of its sort no other, for any       *)
(* handlers, conditions and concurrent events.                             *)
THEOREM CalmEventsRun == Spec => []CalmEventsRunTheirHandlers
<1>1. EventsInv => CalmEventsRunTheirHandlers
  <2> SUFFICES ASSUME EventsInv, NEW t \in Task, task[t].step = "done", task[t].calm
               PROVE  /\ \A h \in Handler :
                           Meant(t, task[t].rows[h]) =>
                             h \in {r.handler : r \in {s \in runs : s.task = t}}
                      /\ \A h \in {r.handler : r \in {s \in runs : s.task = t}} :
                           OfMessage(t) = HasMessageCondition(task[t].rows[h])
                             => Meant(t, task[t].rows[h])
    BY DEF CalmEventsRunTheirHandlers
  <2>1. task[t].todo = {} /\ task[t].matched \subseteq Handler
    BY DEF EventsInv, TasksInv, TaskInv, Judging, TypeOK, TaskState
  <2>2. \A h \in Handler : h \in task[t].matched <=> Accepted(t, task[t].rows[h])
    BY <2>1 DEF EventsInv, TasksInv, TaskInv, CalmInv
  <2>3. \A r \in runs : r.task = t => r.handler \in task[t].matched
    BY DEF EventsInv, RunsInv
  <2>4. ASSUME NEW h \in task[t].matched
        PROVE  h \in {r.handler : r \in {s \in runs : s.task = t}}
    <3>1. RunOf(t, h) \in runs /\ RunOf(t, h).task = t /\ RunOf(t, h).handler = h
      BY DEF EventsInv, RunsInv, RunOf
    <3> QED
      BY <3>1
  <2>5. ASSUME NEW h \in Handler, task[t].rows[h].on
        PROVE  task[t].rows[h] \in Row
    BY <2>5, EnabledIsRow DEF EventsInv, TypeOK, TaskState, Rows
  <2>6. ASSUME NEW h \in Handler, Meant(t, task[t].rows[h])
        PROVE  Accepted(t, task[t].rows[h])
    BY <2>5, <2>6, MeantIsAccepted DEF Meant
  <2>7. ASSUME NEW h \in Handler, Accepted(t, task[t].rows[h]),
               OfMessage(t) = HasMessageCondition(task[t].rows[h])
        PROVE  Meant(t, task[t].rows[h])
    BY <2>5, <2>7, AcceptedIsMeant DEF Accepted
  <2> QED
    BY <2>1, <2>2, <2>3, <2>4, <2>6, <2>7
<1> QED
  BY <1>1, EventsInvariant, PTL

(* What happens once in Slack runs a handler at most once, although a      *)
(* mention comes as two events, unless mention_required changes in between.*)
THEOREM MentionsRunOnce == Spec => []MentionRunsOnce
<1>1. EventsInv => MentionRunsOnce
  <2> SUFFICES ASSUME EventsInv, NEW r \in runs, NEW s \in runs,
                      r.task[1] = s.task[1], r.handler = s.handler, r # s
               PROVE  r.row.mention # s.row.mention
    BY DEF MentionRunsOnce
  <2>1. r \in Run /\ s \in Run
    BY DEF EventsInv, TypeOK
  <2>2. /\ r.row = task[r.task].rows[r.handler] /\ s.row = task[s.task].rows[s.handler]
        /\ r.handler \in task[r.task].matched /\ s.handler \in task[s.task].matched
        /\ task[r.task].step = "done" /\ task[s.task].step = "done"
    BY DEF EventsInv, RunsInv
  <2>3. r.task # s.task
    BY <2>1, <2>2 DEF Run
  <2>4. r.task[2] # s.task[2]
    BY <2>1, <2>3 DEF Run, Task
  <2>5. /\ what[r.task[1]] \in Happening
        /\ {r.task[2], s.task[2]} \subseteq what[r.task[1]].kinds
    BY <2>1, <2>2 DEF EventsInv, TasksInv, TaskInv, Delivered, Run
  <2>6. {r.task[2], s.task[2]} = {"message", "mention"}
    BY <2>4, <2>5, SlackAssumption DEF Happens
  <2>7. MentionFits(r.task, r.row) /\ MentionFits(s.task, s.row)
    BY <2>1, <2>2, <2>6 DEF EventsInv, TasksInv, TaskInv, Judging, OfMessage, Run
  <2> QED
    BY <2>6, <2>7 DEF MentionFits
<1> QED
  BY <1>1, EventsInvariant, PTL

================================================================================
