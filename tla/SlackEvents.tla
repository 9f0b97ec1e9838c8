------------------------------ MODULE SlackEvents ------------------------------
(***************************************************************************)
(* How Slack events find their handlers: Socket Mode delivers an event, a  *)
(* task of its own reads the enabled handlers from the LocalConfigStore,   *)
(* checks each against the event with the compiled conditions of the       *)
(* SlackHandlerCache, and runs those that match.  Meanwhile the event loop *)
(* applies configuration changes, first to the store and then to the       *)
(* cache, each under a lock of its own.                                    *)
(*                                                                         *)
(* A regular expression is the set of words it matches; an optional value  *)
(* is a set of at most one element.                                        *)
(***************************************************************************)
EXTENDS Naturals, FiniteSets

CONSTANTS
    Handler,    \* ids of Slack event handlers
    Word,       \* message texts, reaction names and users
    Channel,    \* ids of Slack channels
    Row,        \* handler rows that clients write
    Happening,  \* what may happen in Slack
    Post,       \* identities of the things that happen (bounds their number)
    None,       \* no channel, no handler, nothing happened
    MaxChanges  \* bound on configuration changes

Unset == {}
Condition == {Unset} \cup {{words} : words \in SUBSET Word}
Operation == {"Unspecified", "Added", "Removed", "Both"}
Kind == {"message", "mention", "added", "removed"}

\* SlackEventHandlerData, without what is run
HandlerData ==
    [on : BOOLEAN, channel : Channel \cup {None},
     pattern : Condition, mention : BOOLEAN,
     names : Condition, operation : Operation, filter : Condition]

HasMessageCondition(row) == row.pattern # Unset \/ row.mention
HasReactionCondition(row) == row.names # Unset \/ row.operation # "Unspecified"

\* validate_event_type_consistency: conditions of one kind, and of one only
Consistent(row) == HasMessageCondition(row) # HasReactionCondition(row)

\* One thing that happens may be delivered as several events: mentioning the
\* app in a channel is an app_mention and a message.
Happens ==
    [kinds : {{"message"}, {"mention"}, {"message", "mention"}, {"added"}, {"removed"}},
     channel : Channel, word : Word, user : Word]

ASSUME SlackAssumption ==
    /\ None \notin Channel /\ None \notin Handler /\ None \notin Happening
    /\ Row \subseteq HandlerData
    /\ \A row \in Row : Consistent(row)
    /\ Happening \subseteq Happens
    /\ MaxChanges \in Nat

VARIABLES
    store,     \* store[h]: the row of handler h in the LocalConfigStore
    cache,     \* cache[h]: the compiled conditions of h
    applying,  \* handler whose change has reached the store only
    changes,   \* configuration changes so far
    what,      \* what[p]: what happened as p
    task,      \* task[t]: the task that handles one event
    runs       \* executions started

vars == <<store, cache, applying, changes, what, task, runs>>

-----------------------------------------------------------------------------
(* Data *)

Absent == [on |-> FALSE]
Rows == [Handler -> Row \cup {Absent}]
Task == Post \X Kind
Compiled == [pattern : Condition, names : Condition, filter : Condition]
NothingCompiled == [pattern |-> Unset, names |-> Unset, filter |-> Unset]

\* The locals of handle_push_event; calm is a history variable: no change of
\* the configuration was under way since the task read the rows.
TaskState ==
    [step : {"none", "arrived", "matching", "done"},
     rows : Rows, todo : SUBSET Handler, half : Handler \cup {None},
     matched : SUBSET Handler, calm : BOOLEAN]

NoTask ==
    [step |-> "none", rows |-> [h \in Handler |-> Absent], todo |-> {},
     half |-> None, matched |-> {}, calm |-> FALSE]

Run == [task : Task, handler : Handler, row : Row]

TypeOK ==
    /\ store \in Rows
    /\ cache \in [Handler -> Compiled]
    /\ applying \in Handler \cup {None}
    /\ changes \in 0 .. MaxChanges
    /\ what \in [Post -> Happening \cup {None}]
    /\ task \in [Task -> TaskState]
    /\ runs \subseteq Run

\* The conditions of a row, compiled.
CompiledFrom(row) ==
    IF row = Absent THEN NothingCompiled
    ELSE [pattern |-> row.pattern, names |-> row.names, filter |-> row.filter]

-----------------------------------------------------------------------------
(* Configuration changes, applied one after the other by the event loop *)

\* Tasks that are matching when the configuration changes are no longer calm.
Disturbed == [t \in Task |-> [task[t] EXCEPT !.calm = FALSE]]

\* handle_slack_event_handler_change updates the store first ..
StoreChange(h, row) ==
    /\ applying = None
    /\ changes < MaxChanges
    /\ changes' = changes + 1
    /\ store' = [store EXCEPT ![h] = row]
    /\ applying' = h
    /\ task' = Disturbed
    /\ UNCHANGED <<cache, what, runs>>

\* Mutant: what the new row does not set keeps its old compiled condition.
RecompiledOver(h) ==
    LET new == CompiledFrom(store[h])
        kept(f) == IF new[f] = Unset THEN cache[h][f] ELSE new[f]
    IN [pattern |-> kept("pattern"), names |-> kept("names"), filter |-> kept("filter")]

\* Invalidation and compilation under one lock. Every stored condition
\* compiles: the service compiles it before it stores it.
Recompiled(h) == CompiledFrom(store[h])

\* .. and then the cache, under another lock.
CacheChange ==
    /\ applying # None
    /\ cache' = [cache EXCEPT ![applying] = Recompiled(applying)]
    /\ applying' = None
    /\ UNCHANGED <<store, changes, what, task, runs>>

-----------------------------------------------------------------------------
(* Matching *)

WordOf(t) == what[t[1]].word
UserOf(t) == what[t[1]].user
OfMessage(t) == t[2] \in {"message", "mention"}

ChannelFits(t, row) == row.channel \in {None, what[t[1]].channel}

\* Mutant: message events are matched whether or not a mention is required.
MentionFitsMentionsOnly(t, row) == t[2] = "mention" => row.mention

\* Handlers that require a mention match app_mention events, the others match
\* message events.
MentionFits(t, row) == (t[2] = "mention") <=> row.mention

OperationFits(t, row) ==
    \/ row.operation \in {"Unspecified", "Both"}
    \/ row.operation = "Added" /\ t[2] = "added"
    \/ row.operation = "Removed" /\ t[2] = "removed"

\* Mutant: a condition that is not set matches nothing.
FitsIfSet(wanted, compiled, word) == wanted # Unset /\ \E words \in compiled : word \in words

\* A condition that is set but not compiled matches nothing.
Fits(wanted, compiled, word) ==
    wanted = Unset \/ \E words \in compiled : word \in words

\* Something happens in Slack, and its events are delivered, each to a task.
Deliver(p, happening) ==
    /\ what[p] = None
    /\ what' = [what EXCEPT ![p] = happening]
    /\ task' = [t \in Task |->
                  IF t[1] = p /\ t[2] \in happening.kinds
                  THEN [task[t] EXCEPT !.step = "arrived"] ELSE task[t]]
    /\ UNCHANGED <<store, cache, applying, changes, runs>>

\* fetch_enabled_handlers
Fetch(t) ==
    /\ task[t].step = "arrived"
    /\ task' = [task EXCEPT ![t] =
                  [step |-> "matching",
                   rows |-> [h \in Handler |-> IF store[h].on THEN store[h] ELSE Absent],
                   todo |-> {h \in Handler : store[h].on},
                   half |-> None, matched |-> {}, calm |-> applying = None]]
    /\ UNCHANGED <<store, cache, applying, changes, what, runs>>

\* The handler is judged: it matches or not.
Judged(t, h, matches) ==
    [task EXCEPT ![t].todo = task[t].todo \ {h},
                 ![t].half = None,
                 ![t].matched = IF matches THEN task[t].matched \cup {h}
                                ELSE task[t].matched]

CheckMessage(t, h) ==
    /\ task[t].step = "matching"
    /\ OfMessage(t)
    /\ h \in task[t].todo
    /\ LET row == task[t].rows[h]
       IN task' = Judged(t, h, /\ ChannelFits(t, row)
                               /\ MentionFits(t, row)
                               /\ Fits(row.pattern, cache[h].pattern, WordOf(t)))
    /\ UNCHANGED <<store, cache, applying, changes, what, runs>>

\* The names are looked up under one lock of the cache ..
CheckReaction(t, h) ==
    /\ task[t].step = "matching"
    /\ ~ OfMessage(t)
    /\ h \in task[t].todo /\ task[t].half = None
    /\ LET row == task[t].rows[h]
       IN task' = IF /\ ChannelFits(t, row)
                     /\ OperationFits(t, row)
                     /\ Fits(row.names, cache[h].names, WordOf(t))
                  THEN [task EXCEPT ![t].half = h]
                  ELSE Judged(t, h, FALSE)
    /\ UNCHANGED <<store, cache, applying, changes, what, runs>>

\* .. and the user filter under another.
CheckUser(t, h) ==
    /\ task[t].step = "matching"
    /\ task[t].half = h
    /\ task' = Judged(t, h, Fits(task[t].rows[h].filter, cache[h].filter, UserOf(t)))
    /\ UNCHANGED <<store, cache, applying, changes, what, runs>>

\* What is run is the row read at the start.
RunOf(t, h) == [task |-> t, handler |-> h, row |-> task[t].rows[h]]

\* Every handler that matched is run, in a task of its own (see SlackRetry).
Dispatch(t) ==
    /\ task[t].step = "matching"
    /\ task[t].todo = {}
    /\ task' = [task EXCEPT ![t].step = "done"]
    /\ runs' = runs \cup {RunOf(t, h) : h \in task[t].matched}
    /\ UNCHANGED <<store, cache, applying, changes, what>>

-----------------------------------------------------------------------------
(* Specification *)

\* The manager has compiled the rows that the store held when it started.
Init ==
    /\ store \in Rows
    /\ cache = [h \in Handler |-> CompiledFrom(store[h])]
    /\ applying = None
    /\ changes = 0
    /\ what = [p \in Post |-> None]
    /\ task = [t \in Task |-> NoTask]
    /\ runs = {}

Change == \E h \in Handler, row \in Row \cup {Absent} : StoreChange(h, row)

Match(t) ==
    \/ Fetch(t)
    \/ \E h \in Handler : CheckMessage(t, h) \/ CheckReaction(t, h) \/ CheckUser(t, h)
    \/ Dispatch(t)

Next ==
    \/ Change
    \/ CacheChange
    \/ \E p \in Post, happening \in Happening : Deliver(p, happening)
    \/ \E t \in Task : Match(t)

Spec == Init /\ [][Next]_vars

-----------------------------------------------------------------------------
(* Properties *)

\* Between two changes the compiled conditions are those of the stored rows:
\* none is missing ("should not happen", event_matcher.rs:169), left over from
\* an earlier row or of a handler that is gone.
PatternsFollowStore ==
    \A h \in Handler : h # applying => cache[h] = CompiledFrom(store[h])

Matches(condition, word) == \A words \in condition : word \in words

\* The kinds of event a handler is for, by its conditions.
KindsOf(row) ==
    IF HasMessageCondition(row) THEN {IF row.mention THEN "mention" ELSE "message"}
    ELSE CASE row.operation = "Added" -> {"added"}
           [] row.operation = "Removed" -> {"removed"}
           [] OTHER -> {"added", "removed"}

\* The handlers an event is meant for, by the rows alone.
Meant(t, row) ==
    /\ row.on
    /\ t[2] \in KindsOf(row)
    /\ row.channel \in {None, what[t[1]].channel}
    /\ IF OfMessage(t) THEN Matches(row.pattern, WordOf(t))
       ELSE Matches(row.names, WordOf(t)) /\ Matches(row.filter, UserOf(t))

\* An event that is matched while the configuration stands still runs every
\* handler it is meant for, although rows and compiled conditions are kept and
\* read apart; and of the handlers with conditions on messages a message, of
\* those with conditions on reactions a reaction, runs no other.
CalmEventsRunTheirHandlers ==
    \A t \in Task :
        task[t].step = "done" /\ task[t].calm =>
            LET ran == {r.handler : r \in {s \in runs : s.task = t}}
                rowOf(h) == task[t].rows[h]
            IN /\ \A h \in Handler : Meant(t, rowOf(h)) => h \in ran
               /\ \A h \in ran :
                     OfMessage(t) = HasMessageCondition(rowOf(h)) => Meant(t, rowOf(h))

\* A handler is run by events of its own kinds only: one with mention_required
\* by app_mention events, one without by message events (event_matcher.rs:60-61),
\* one with conditions on reactions by reactions.
HandlersRunOnTheirEvents == \A r \in runs : r.task[2] \in KindsOf(r.row)

\* A handler is run at most once by what happens once, although a mention is
\* delivered as two events (event_matcher.rs:57-59), unless mention_required
\* was changed between the two.
MentionRunsOnce ==
    \A r, s \in runs :
        r.task[1] = s.task[1] /\ r.handler = s.handler /\ r # s
            => r.row.mention # s.row.mention

=============================================================================
