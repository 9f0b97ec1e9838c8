-------------------------- MODULE WorkerRegistration --------------------------
(***************************************************************************)
(* The commands that register the methods of the admin API as workers of a *)
(* jobworkerp server, and list these in a FunctionSet, and that take both  *)
(* back. Each is a process of its own that makes one call after the other; *)
(* nothing keeps two of them apart.                                        *)
(***************************************************************************)
EXTENDS Naturals, FiniteSets

CONSTANTS
    Process,        \* places where a command is run from
    Defs,           \* number of worker definitions
    MaxCommands     \* bound on commands run

ASSUME WorkerRegistrationAssumption ==
    /\ Defs \in Nat \ {0}
    /\ MaxCommands \in Nat

Def == 1 .. Defs
Command == {"register", "unregister"}

VARIABLES
    worker,     \* worker[d]: id of the worker that has the name of d, or None
    set,        \* the FunctionSet that has the name of the conductor, or NoSet
    made,       \* ids given out by jobworkerp
    task,       \* task[p]: the command p runs
    commands,   \* commands begun
    raced       \* history: a FunctionSet was written beside a removal, or not removed

vars == <<worker, set, made, task, commands, raced>>

-----------------------------------------------------------------------------
(* Data *)

None == 0
NoSet == [id |-> None, targets |-> {}]
LiveIds == {worker[d] : d \in Def} \ {None}

\* A command that had the server for itself, so far, and whose calls all
\* succeeded is calm. It is fair if no call about a worker failed.
Task ==
    [command : Command \cup {"none"},
     pc : {"idle", "findWorker", "createWorker", "deleteWorker",
           "findSet", "updateSet", "createSet", "deleteSet", "done"},
     at : 1 .. Defs + 1, found : Nat, got : SUBSET Nat,
     calm : BOOLEAN, fair : BOOLEAN]

Idle ==
    [command |-> "none", pc |-> "idle", at |-> 1, found |-> None, got |-> {},
     calm |-> FALSE, fair |-> FALSE]

TypeOK ==
    /\ made \in Nat
    /\ worker \in [Def -> 0 .. made]
    /\ set \in [id : 0 .. made, targets : SUBSET (1 .. made)]
    /\ task \in [Process -> Task]
    /\ commands \in 0 .. MaxCommands
    /\ raced \in BOOLEAN
    /\ \A p \in Process :
        /\ task[p].pc \in {"findWorker", "createWorker", "deleteWorker"} => task[p].at \in Def
        /\ task[p].found <= made /\ task[p].got \subseteq 1 .. made
    /\ \A d, e \in Def : worker[d] = worker[e] => d = e \/ worker[d] = None

-----------------------------------------------------------------------------
(* How a command goes on *)

\* Mutant: the workers are deleted before the FunctionSet that lists them.
OrderOfRegistration(command) == <<"findWorker", "findSet">>

Order(command) ==
    IF command = "register" THEN <<"findWorker", "findSet">>
    ELSE <<"findSet", "findWorker">>

After(t, part) ==
    IF Order(t.command)[1] = part THEN [t EXCEPT !.pc = Order(t.command)[2]]
    ELSE [t EXCEPT !.pc = "done"]

\* Nothing is listed if no worker was registered.
AfterWorkers(t) ==
    IF t.command = "register" /\ t.got = {} THEN Idle ELSE After(t, "findWorker")

WithNextDef(t) ==
    LET next == [t EXCEPT !.at = @ + 1, !.pc = "findWorker", !.found = None]
    IN IF t.at = Defs THEN AfterWorkers(next) ELSE next

Goto(p, t) == task' = [task EXCEPT ![p] = t]
Failing(t) == [t EXCEPT !.calm = FALSE]
Unfair(t) == [t EXCEPT !.calm = FALSE, !.fair = FALSE]

-----------------------------------------------------------------------------
(* Calls about a worker. Each may fail, before or after it took effect. *)

\* Mutant: every worker is created, also one that exists.
FoundNone(d) == None

FoundWorker(d) == worker[d]

FindWorker(p) ==
    LET t == task[p]
        id == FoundWorker(t.at)
    IN /\ t.pc = "findWorker"
       /\ Goto(p, CASE id = None /\ t.command = "register" -> [t EXCEPT !.pc = "createWorker"]
                    [] id = None /\ t.command = "unregister" -> WithNextDef(t)
                    [] id # None /\ t.command = "register" ->
                            WithNextDef([t EXCEPT !.got = @ \cup {id}])
                    [] OTHER -> [t EXCEPT !.pc = "deleteWorker", !.found = id])
       /\ UNCHANGED <<worker, set, made, commands, raced>>

FindWorkerFails(p) ==
    /\ task[p].pc = "findWorker"
    /\ Goto(p, WithNextDef(Unfair(task[p])))
    /\ UNCHANGED <<worker, set, made, commands, raced>>

\* jobworkerp refuses a name that is taken.
CreateWorker(p, replied) ==
    LET t == task[p]
        t1 == IF replied THEN [t EXCEPT !.got = @ \cup {made + 1}] ELSE Unfair(t)
    IN /\ t.pc = "createWorker"
       /\ worker[t.at] = None
       /\ made' = made + 1
       /\ worker' = [worker EXCEPT ![t.at] = made + 1]
       /\ Goto(p, WithNextDef(t1))
       /\ UNCHANGED <<set, commands, raced>>

CreateWorkerFails(p) ==
    LET t == task[p]
    IN /\ t.pc = "createWorker"
       /\ Goto(p, WithNextDef(IF worker[t.at] = None THEN Unfair(t) ELSE t))
       /\ UNCHANGED <<worker, set, made, commands, raced>>

DeleteWorker(p, replied) ==
    LET t == task[p]
    IN /\ t.pc = "deleteWorker"
       /\ worker' = [d \in Def |-> IF worker[d] = t.found THEN None ELSE worker[d]]
       /\ Goto(p, WithNextDef(IF replied THEN t ELSE Unfair(t)))
       /\ UNCHANGED <<set, made, commands, raced>>

DeleteWorkerFails(p) ==
    /\ task[p].pc = "deleteWorker"
    /\ Goto(p, WithNextDef(Unfair(task[p])))
    /\ UNCHANGED <<worker, set, made, commands, raced>>

-----------------------------------------------------------------------------
(* Calls about the FunctionSet *)

\* Mutant: a removal ends with the error, too.
SetCallFailedForGood(t) ==
    IF t.command = "register" THEN Idle ELSE [Failing(t) EXCEPT !.pc = "done"]

\* A registration ends with the error, a removal goes on with the workers.
SetCallFailed(t) ==
    IF t.command = "register" THEN Idle ELSE After(Failing(t), "findSet")

FindSet(p) ==
    LET t == task[p]
    IN /\ t.pc = "findSet"
       /\ Goto(p, CASE set = NoSet /\ t.command = "register" -> [t EXCEPT !.pc = "createSet"]
                    [] set = NoSet /\ t.command = "unregister" -> After(t, "findSet")
                    [] set # NoSet /\ t.command = "register" ->
                            [t EXCEPT !.pc = "updateSet", !.found = set.id]
                    [] OTHER -> [t EXCEPT !.pc = "deleteSet", !.found = set.id])
       /\ UNCHANGED <<worker, set, made, commands, raced>>

\* A set that is gone is not updated, whatever jobworkerp answers.
UpdateSet(p, replied) ==
    LET t == task[p]
    IN /\ t.pc = "updateSet"
       /\ set' = IF set.id = t.found THEN [set EXCEPT !.targets = t.got] ELSE set
       /\ Goto(p, IF replied THEN After(t, "findSet") ELSE SetCallFailed(t))
       /\ UNCHANGED <<worker, made, commands, raced>>

CreateSet(p, replied) ==
    LET t == task[p]
    IN /\ t.pc = "createSet"
       /\ set = NoSet
       /\ made' = made + 1
       /\ set' = [id |-> made + 1, targets |-> t.got]
       /\ Goto(p, IF replied THEN After(t, "findSet") ELSE SetCallFailed(t))
       /\ UNCHANGED <<worker, commands, raced>>

DeleteSet(p, replied) ==
    LET t == task[p]
    IN /\ t.pc = "deleteSet"
       /\ set' = IF set.id = t.found THEN NoSet ELSE set
       /\ Goto(p, IF replied THEN After(t, "findSet") ELSE SetCallFailed(t))
       /\ UNCHANGED <<worker, made, commands, raced>>

SetCallFails(p) ==
    LET t == task[p]
    IN /\ t.pc \in {"findSet", "updateSet", "createSet", "deleteSet"}
       /\ Goto(p, SetCallFailed(t))
       /\ raced' = (raced \/ t.command = "unregister")
       /\ UNCHANGED <<worker, set, made, commands>>

-----------------------------------------------------------------------------
(* The commands *)

Alone(p) == \A q \in Process \ {p} : task[q].pc \in {"idle", "done"}

Begin(p, command) ==
    /\ task[p].pc \in {"idle", "done"}
    /\ commands < MaxCommands
    /\ commands' = commands + 1
    /\ task' = [q \in Process |->
            IF q = p
            THEN [Idle EXCEPT !.command = command, !.pc = Order(command)[1],
                              !.calm = Alone(p), !.fair = Alone(p)]
            ELSE Unfair(task[q])]
    /\ raced' = (raced \/ ~ Alone(p))
    /\ UNCHANGED <<worker, set, made>>

\* The process is interrupted, or cannot go on for another reason.
Killed(p) ==
    /\ task[p].pc \notin {"idle", "done"}
    /\ Goto(p, Idle)
    /\ UNCHANGED <<worker, set, made, commands, raced>>

-----------------------------------------------------------------------------
(* Specification *)

Init ==
    /\ worker = [d \in Def |-> None]
    /\ set = NoSet
    /\ made = 0
    /\ task = [p \in Process |-> Idle]
    /\ commands = 0
    /\ raced = FALSE

Call(p) ==
    \/ FindWorker(p) \/ FindWorkerFails(p)
    \/ CreateWorkerFails(p) \/ DeleteWorkerFails(p)
    \/ FindSet(p) \/ SetCallFails(p)
    \/ \E replied \in BOOLEAN :
        \/ CreateWorker(p, replied) \/ DeleteWorker(p, replied)
        \/ UpdateSet(p, replied) \/ CreateSet(p, replied) \/ DeleteSet(p, replied)

Next ==
    \E p \in Process :
        \/ \E command \in Command : Begin(p, command)
        \/ Call(p)
        \/ Killed(p)

Spec == Init /\ [][Next]_vars

-----------------------------------------------------------------------------
(* Properties *)

\* A registration whose calls succeed, and that runs alone, lists every worker,
\* and each exists, whatever earlier commands have left behind: workers without a
\* set, a set without its workers, or a part of both.
CalmRegistrationCompletes ==
    \A p \in Process :
        task[p].pc = "done" /\ task[p].command = "register" /\ task[p].calm
            => /\ None \notin {worker[d] : d \in Def}
               /\ set.targets = LiveIds

\* A removal that runs alone leaves no worker behind, even if the FunctionSet
\* could not be found or deleted.
RemovalLeavesNoWorker ==
    \A p \in Process :
        task[p].pc = "done" /\ task[p].command = "unregister" /\ task[p].fair
            => LiveIds = {}

\* A function that is listed has its worker, also in the middle of a removal and
\* after one that was interrupted, as long as commands do not overlap and the
\* FunctionSet could be deleted.
ListedWorkersExist == raced \/ set.targets \subseteq LiveIds

=============================================================================
