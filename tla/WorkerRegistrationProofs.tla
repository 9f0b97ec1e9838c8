------------------------ MODULE WorkerRegistrationProofs ------------------------
(***************************************************************************)
(* What a registration and a removal of workers achieve, for any number of *)
(* definitions, of processes and of commands, and what they leave behind   *)
(* whenever one of their calls fails or they are interrupted.              *)
(***************************************************************************)
EXTENDS WorkerRegistration, TLAPS

-----------------------------------------------------------------------------
(* The inductive invariant, for the command that p runs *)

AtWorkers == {"findWorker", "createWorker", "deleteWorker"}
AtSet == {"findSet", "updateSet", "createSet", "deleteSet"}
Active(p) == task[p].pc \notin {"idle", "done"}
Observed(p) == task[p].calm \/ task[p].fair

\* How far a command can be.
ShapeInv(p) ==
    /\ task[p].pc \in {"createWorker", "updateSet", "createSet"} => task[p].command = "register"
    /\ task[p].pc \in {"deleteWorker", "deleteSet"} => task[p].command = "unregister"
    /\ task[p].pc # "idle" => task[p].command \in Command
    /\ task[p].command = "unregister" /\ task[p].pc \in AtSet => task[p].at \in Def
    /\ task[p].command = "register" /\ task[p].pc \in AtSet \cup {"done"} => task[p].at = Defs + 1
    /\ task[p].command = "unregister" /\ task[p].pc = "done" => task[p].at = Defs + 1

\* A calm registration has the workers of all definitions it went through.
CalmInv(p) ==
    task[p].calm /\ task[p].command = "register" =>
        /\ task[p].got = {worker[d] : d \in 1 .. task[p].at - 1} /\ None \notin task[p].got
        /\ task[p].pc = "createWorker" => worker[task[p].at] = None
        /\ task[p].pc = "updateSet" => set.id = task[p].found
        /\ task[p].pc = "done" => set.targets = task[p].got

\* A fair removal has left no worker of these behind.
FairInv(p) ==
    task[p].fair /\ task[p].command = "unregister" =>
        /\ \A d \in 1 .. task[p].at - 1 : worker[d] = None
        /\ task[p].pc = "deleteWorker" => worker[task[p].at] = task[p].found

\* Without a race workers are deleted after the set that lists them is gone.
TidyInv(p) ==
    ~ raced /\ Active(p) =>
        /\ task[p].command = "register" => task[p].got \subseteq LiveIds
        /\ task[p].command = "unregister" /\ task[p].pc \in AtWorkers => set.targets = {}
        /\ task[p].pc = "deleteSet" => set.id = task[p].found

SoloInv ==
    /\ \A p \in Process : Observed(p) => Alone(p)
    /\ ~ raced => \A p, q \in Process : Active(p) /\ Active(q) => p = q

IInv ==
    /\ TypeOK /\ SoloInv /\ ListedWorkersExist
    /\ \A p \in Process : ShapeInv(p) /\ CalmInv(p) /\ FairInv(p) /\ TidyInv(p)

-----------------------------------------------------------------------------
(* Lemmas *)

\* The type of the command that p runs, m being the last id given out.
TaskOK(t, m) ==
    /\ t \in Task
    /\ t.pc \in AtWorkers => t.at \in Def
    /\ t.found <= m /\ t.got \subseteq 1 .. m

LEMMA Fields ==
    ASSUME NEW t \in Task
    PROVE  /\ t.command \in Command \cup {"none"}
           /\ t.pc \in {"idle", "done"} \cup AtWorkers \cup AtSet
           /\ t.at \in 1 .. Defs + 1 /\ t.found \in Nat /\ t.got \subseteq Nat
           /\ t.calm \in BOOLEAN /\ t.fair \in BOOLEAN
BY DEF Task, AtWorkers, AtSet

LEMMA IdleTask == Idle \in Task /\ TaskOK(Idle, 0)
BY WorkerRegistrationAssumption DEF Idle, Task, TaskOK, AtWorkers, None, Command

\* A step of the command that p runs disturbs no other one.
LEMMA OneStep ==
    ASSUME IInv, NEW p \in Process, Active(p),
           \A q \in Process \ {p} : task'[q] = task[q],
           raced => raced', raced' \in BOOLEAN, Observed(p)' => Observed(p),
           TypeOK', ShapeInv(p)', CalmInv(p)', FairInv(p)', TidyInv(p)', ListedWorkersExist'
    PROVE  IInv'
<1>1. ASSUME NEW q \in Process \ {p}
      PROVE  ~ Observed(q) /\ (Active(q)' <=> Active(q)) /\ (Observed(q)' <=> Observed(q))
  BY DEF IInv, SoloInv, Alone, Active, Observed
<1>2. ASSUME NEW q \in Process \ {p} PROVE ShapeInv(q)' /\ CalmInv(q)' /\ FairInv(q)'
  <2>1. ShapeInv(q) /\ task'[q] = task[q]
    BY DEF IInv
  <2>2. ShapeInv(q)'
    BY <2>1 DEF ShapeInv
  <2>3. ~ task'[q].calm /\ ~ task'[q].fair
    BY <1>1, <2>1 DEF Observed
  <2> QED  BY <2>2, <2>3 DEF CalmInv, FairInv
<1>3. ASSUME NEW q \in Process \ {p}, ~ raced' PROVE ~ Active(q)
  BY <1>3 DEF IInv, SoloInv
<1>4. \A q \in Process \ {p} : TidyInv(q)'
  BY <1>1, <1>3 DEF TidyInv
<1>5. SoloInv'
  <2>1. ASSUME NEW q \in Process, Observed(q)' PROVE Alone(q)'
    <3>1. q = p /\ Alone(p)
      BY <1>1, <2>1 DEF IInv, SoloInv
    <3> QED  BY <3>1 DEF Alone
  <2>2. ASSUME ~ raced', NEW q \in Process, NEW s \in Process, Active(q)', Active(s)' PROVE q = s
    BY <1>1, <1>3, <2>2
  <2> QED  BY <2>1, <2>2 DEF SoloInv
<1> QED  BY <1>2, <1>4, <1>5 DEF IInv

LEMMA TypeStep ==
    ASSUME IInv, NEW p \in Process, NEW t, task' = [task EXCEPT ![p] = t], TaskOK(t, made'),
           made' \in Nat, made <= made', worker' \in [Def -> 0 .. made'],
           set' \in [id : 0 .. made', targets : SUBSET (1 .. made')],
           UNCHANGED commands, raced' \in BOOLEAN,
           \A d, e \in Def : worker'[d] = worker'[e] => d = e \/ worker'[d] = None
    PROVE  TypeOK' /\ task'[p] = t /\ \A q \in Process \ {p} : task'[q] = task[q]
<1>1. task \in [Process -> Task] /\ made \in Nat /\ commands' \in 0 .. MaxCommands
  BY DEF IInv, TypeOK
<1>2. task'[p] = t /\ \A q \in Process \ {p} : task'[q] = task[q]
  BY <1>1
<1>3. ASSUME NEW q \in Process PROVE TaskOK(task'[q], made')
  <2>1. CASE q = p
    BY <2>1, <1>2
  <2>2. CASE q # p
    <3>1. TaskOK(task[q], made) /\ task[q].found \in Nat
      BY <1>1, Fields DEF IInv, TypeOK, TaskOK, AtWorkers
    <3>2. 1 .. made \subseteq 1 .. made'
      BY <1>1
    <3> QED  BY <3>1, <3>2, <2>2, <1>1, <1>2 DEF TaskOK
  <2> QED  BY <2>1, <2>2
<1>4. task' \in [Process -> Task]
  BY <1>1, <1>2 DEF TaskOK
<1> QED  BY <1>1, <1>2, <1>3, <1>4 DEF TypeOK, TaskOK, AtWorkers

\* Going on to the next definition, or past the last.
LEMMA NextDef ==
    ASSUME NEW t \in Task, t.at \in Def, t.command \in Command
    PROVE  \/ WithNextDef(t) = Idle
           \/ \E pc \in {"findWorker", "findSet", "done"} :
                /\ WithNextDef(t) = [t EXCEPT !.at = t.at + 1, !.pc = pc, !.found = None]
                /\ pc = "findWorker" <=> t.at # Defs
                /\ t.at = Defs => pc = IF t.command = "register" THEN "findSet" ELSE "done"
<1> DEFINE n == [t EXCEPT !.at = @ + 1, !.pc = "findWorker", !.found = None]
<1>1. n.command = t.command /\ \A pc : [n EXCEPT !.pc = pc] = [t EXCEPT !.at = t.at + 1, !.pc = pc, !.found = None]
  BY DEF Task
<1>2. CASE t.at # Defs
  BY <1>1, <1>2 DEF WithNextDef
<1>3. CASE t.at = Defs /\ t.command = "register"
  <2>1. WithNextDef(t) = Idle \/ WithNextDef(t) = [n EXCEPT !.pc = "findSet"]
    BY <1>3, <1>1 DEF WithNextDef, AfterWorkers, After, Order
  <2> QED  BY <2>1, <1>1, <1>3
<1>4. CASE t.at = Defs /\ t.command = "unregister"
  <2>1. WithNextDef(t) = [n EXCEPT !.pc = "done"]
    BY <1>4, <1>1 DEF WithNextDef, AfterWorkers, After, Order
  <2> QED  BY <2>1, <1>1, <1>4
<1> QED  BY <1>2, <1>3, <1>4 DEF Command

-----------------------------------------------------------------------------
(* Calls about workers preserve the invariant *)

\* The command is through with a definition: t is what it knows then.
LEMMA WorkersStep ==
    ASSUME IInv, NEW p \in Process, task[p].pc \in AtWorkers,
           NEW t \in Task, task' = [task EXCEPT ![p] = WithNextDef(t)],
           t.command = task[p].command, t.at = task[p].at,
           t.calm \/ t.fair => Observed(p), t.got \subseteq 1 .. made',
           UNCHANGED <<set, commands, raced>>, made' \in Nat, made <= made',
           worker' \in [Def -> 0 .. made'],
           \A d, e \in Def : worker'[d] = worker'[e] => d = e \/ worker'[d] = None,
           t.calm /\ t.command = "register" =>
                t.got = {worker'[d] : d \in 1 .. t.at} /\ None \notin t.got,
           t.fair /\ t.command = "unregister" => \A d \in 1 .. t.at : worker'[d] = None,
           ~ raced /\ t.command = "register" => t.got \subseteq LiveIds',
           ~ raced => set.targets \subseteq LiveIds'
    PROVE  IInv'
<1> DEFINE n == WithNextDef(t)
<1>1. t.at \in Def /\ t.command \in Command /\ t.at \in Nat /\ Defs \in Nat \ {0}
  BY WorkerRegistrationAssumption DEF IInv, TypeOK, ShapeInv, AtWorkers, Def
<1>2. raced \in BOOLEAN /\ set \in [id : 0 .. made, targets : SUBSET (1 .. made)] /\ made \in Nat
  BY DEF IInv, TypeOK
<1>3. set' \in [id : 0 .. made', targets : SUBSET (1 .. made')] /\ raced' \in BOOLEAN
  <2>1. 0 .. made \subseteq 0 .. made' /\ 1 .. made \subseteq 1 .. made'
    BY <1>2
  <2> QED  BY <2>1, <1>2
<1>4. Active(p) /\ ListedWorkersExist'
  BY DEF Active, AtWorkers, ListedWorkersExist
<1>5. ~ raced /\ task[p].command = "unregister" => set.targets = {}
  BY <1>4 DEF IInv, TidyInv
<1>6. CASE n = Idle
  <2>1. TaskOK(n, made')
    BY <1>6, IdleTask DEF TaskOK, Idle, None, AtWorkers
  <2>2. TypeOK' /\ task'[p] = Idle /\ \A q \in Process \ {p} : task'[q] = task[q]
    BY <2>1, <1>3, <1>6, TypeStep
  <2>3. ShapeInv(p)' /\ CalmInv(p)' /\ FairInv(p)' /\ TidyInv(p)' /\ ~ Observed(p)'
    BY <2>2 DEF ShapeInv, CalmInv, FairInv, TidyInv, Observed, Active, Idle, AtSet
  <2> QED  BY <2>2, <2>3, <1>3, <1>4, OneStep
<1>7. CASE n # Idle
  <2>1. PICK pc \in {"findWorker", "findSet", "done"} :
            /\ n = [t EXCEPT !.at = t.at + 1, !.pc = pc, !.found = None]
            /\ pc = "findWorker" <=> t.at # Defs
            /\ t.at = Defs => pc = IF t.command = "register" THEN "findSet" ELSE "done"
    BY <1>1, <1>7, NextDef
  <2>2. /\ n.command = t.command /\ n.pc = pc /\ n.at = t.at + 1 /\ n.found = None
        /\ n.got = t.got /\ n.calm = t.calm /\ n.fair = t.fair
    BY <2>1 DEF Task
  <2>3. t.at + 1 \in 1 .. Defs + 1 /\ (t.at # Defs => t.at + 1 \in Def)
    BY <1>1 DEF Def
  <2>4. n \in Task
    <3> DEFINE m == [t EXCEPT !.at = t.at + 1, !.pc = pc, !.found = None]
    <3>1. m \in Task
      BY <2>3 DEF Task, None
    <3> QED  BY <2>1, <3>1
  <2> HIDE DEF n
  <2>5. TaskOK(n, made')
    BY <2>1, <2>2, <2>3, <2>4 DEF TaskOK, AtWorkers, None
  <2>6. TypeOK' /\ task'[p] = n /\ \A q \in Process \ {p} : task'[q] = task[q]
    <3>1. task' = [task EXCEPT ![p] = n]
      BY DEF n
    <3> QED  BY <3>1, <2>5, <1>3, TypeStep
  <2>7. ShapeInv(p)'
    BY <1>1, <2>1, <2>2, <2>3, <2>6 DEF ShapeInv, AtSet, Command
  <2>8. 1 .. n.at - 1 = 1 .. t.at
    BY <1>1, <2>2
  <2>9. CalmInv(p)'
    <3>1. SUFFICES ASSUME t.calm, t.command = "register" PROVE CalmInv(p)'
      BY <2>2, <2>6 DEF CalmInv
    <3>2. pc \in {"findWorker", "findSet"}
      BY <2>1, <3>1
    <3>3. n.got = {worker'[d] : d \in 1 .. n.at - 1} /\ None \notin n.got
      BY <2>2, <2>8, <3>1
    <3> QED  BY <2>2, <2>6, <3>2, <3>3 DEF CalmInv
  <2>10. FairInv(p)'
    BY <2>1, <2>2, <2>6, <2>8 DEF FairInv
  <2>11. TidyInv(p)'
    BY <1>5, <2>1, <2>2, <2>6 DEF TidyInv
  <2>12. Observed(p)' => Observed(p)
    BY <2>2, <2>6 DEF Observed
  <2> QED  BY <1>3, <1>4, <2>6, <2>7, <2>9, <2>10, <2>11, <2>12, OneStep
<1> QED  BY <1>6, <1>7

\* What is known of a command that is about to call.
LEMMA AtCall ==
    ASSUME IInv, NEW p \in Process, Active(p)
    PROVE  /\ task[p] \in Task /\ task[p].command \in Command /\ TaskOK(task[p], made)
           /\ ShapeInv(p) /\ CalmInv(p) /\ FairInv(p) /\ TidyInv(p)
           /\ made \in Nat /\ worker \in [Def -> 0 .. made] /\ raced \in BOOLEAN
           /\ \A d, e \in Def : worker[d] = worker[e] => d = e \/ worker[d] = None
           /\ set \in [id : 0 .. made, targets : SUBSET (1 .. made)]
           /\ ~ raced => set.targets \subseteq LiveIds
           /\ Defs \in Nat \ {0}
BY WorkerRegistrationAssumption
   DEF IInv, TypeOK, TaskOK, ShapeInv, Active, AtWorkers, ListedWorkersExist

LEMMA Gone ==
    ASSUME NEW t \in Task
    PROVE  /\ Unfair(t) \in Task /\ ~ Unfair(t).calm /\ ~ Unfair(t).fair
           /\ Unfair(t).command = t.command /\ Unfair(t).at = t.at /\ Unfair(t).got = t.got
           /\ Failing(t) \in Task /\ ~ Failing(t).calm /\ Failing(t).fair = t.fair
           /\ Failing(t).command = t.command /\ Failing(t).at = t.at /\ Failing(t).got = t.got
           /\ Failing(t).found = t.found
BY DEF Unfair, Failing, Task

\* The call failed without an effect.
LEMMA WorkerCallFails ==
    ASSUME IInv, NEW p \in Process, task[p].pc \in AtWorkers,
           Goto(p, WithNextDef(Unfair(task[p]))), UNCHANGED <<worker, set, made, commands, raced>>
    PROVE  IInv'
<1> DEFINE t == Unfair(task[p])
<1>1. Active(p)
  BY DEF Active, AtWorkers
<1>2. t \in Task /\ ~ t.calm /\ ~ t.fair /\ t.command = task[p].command /\ t.at = task[p].at
      /\ t.got = task[p].got
  BY <1>1, AtCall, Gone
<1>3. task' = [task EXCEPT ![p] = WithNextDef(t)]
  BY DEF Goto
<1>4. t.got \subseteq 1 .. made' /\ (~ raced /\ t.command = "register" => t.got \subseteq LiveIds)
  BY <1>1, <1>2, AtCall DEF TaskOK, TidyInv
<1>5. LiveIds' = LiveIds
  BY DEF LiveIds
<1>6. /\ made' \in Nat /\ made <= made' /\ worker' \in [Def -> 0 .. made']
      /\ \A d, e \in Def : worker'[d] = worker'[e] => d = e \/ worker'[d] = None
      /\ ~ raced => set.targets \subseteq LiveIds'
  BY <1>1, <1>5, AtCall
<1> HIDE DEF t
<1> QED  BY <1>2, <1>3, <1>4, <1>5, <1>6, WorkersStep

LEMMA FindWorkerStep == ASSUME IInv, NEW p \in Process, FindWorker(p) PROVE IInv'
<1> DEFINE t == task[p]
           id == worker[t.at]
<1>1. Active(p) /\ t.pc = "findWorker" /\ t.pc \in AtWorkers
      /\ UNCHANGED <<worker, set, made, commands, raced>>
  BY DEF FindWorker, Active, AtWorkers
<1>2. t \in Task /\ t.at \in Def /\ t.at \in Nat /\ id \in 0 .. made /\ t.got \subseteq 1 .. made
      /\ t.command \in Command
  BY <1>1, AtCall DEF TaskOK, Def
<1>3. LiveIds' = LiveIds
  BY <1>1 DEF LiveIds
<1>4. /\ made' \in Nat /\ made <= made' /\ worker' \in [Def -> 0 .. made']
      /\ \A d, e \in Def : worker'[d] = worker'[e] => d = e \/ worker'[d] = None
      /\ ~ raced => set.targets \subseteq LiveIds'
  BY <1>1, <1>3, AtCall
<1>5. 1 .. t.at = (1 .. t.at - 1) \cup {t.at}
  BY <1>2 DEF Def
<1>6. CASE id = None /\ t.command = "unregister"
  <2>1. task' = [task EXCEPT ![p] = WithNextDef(t)]
    BY <1>6 DEF FindWorker, FoundWorker, Goto
  <2>2. t.fair => \A d \in 1 .. t.at : worker'[d] = None
    BY <1>1, <1>5, <1>6, AtCall DEF FairInv
  <2>3. t.calm \/ t.fair => Observed(p)
    BY DEF Observed
  <2>4. t.got \subseteq 1 .. made' /\ t.command # "register" /\ t.command = task[p].command
        /\ t.at = task[p].at
    BY <1>1, <1>2, <1>6
  <2> QED  BY <1>1, <1>2, <1>4, <2>1, <2>2, <2>3, <2>4, WorkersStep
<1>7. CASE id # None /\ t.command = "register"
  <2> DEFINE u == [t EXCEPT !.got = @ \cup {id}]
  <2>1. task' = [task EXCEPT ![p] = WithNextDef(u)]
    BY <1>7 DEF FindWorker, FoundWorker, Goto
  <2>2. id \in 1 .. made /\ id \in LiveIds
    BY <1>2, <1>7 DEF LiveIds, None
  <2>3. u \in Task /\ u.command = t.command /\ u.at = t.at /\ u.got = t.got \cup {id}
        /\ u.calm = t.calm /\ u.fair = t.fair
    BY <1>2 DEF Task
  <2> HIDE DEF u
  <2>4. u.calm => u.got = {worker'[d] : d \in 1 .. u.at} /\ None \notin u.got
    <3>1. t.calm => t.got = {worker[d] : d \in 1 .. t.at - 1} /\ None \notin t.got
      BY <1>1, <1>7, AtCall DEF CalmInv
    <3>2. {worker[d] : d \in 1 .. t.at} = {worker[d] : d \in 1 .. t.at - 1} \cup {id}
      BY <1>5
    <3> QED  BY <1>1, <1>7, <2>3, <3>1, <3>2
  <2>5. ~ raced => u.got \subseteq LiveIds'
    BY <1>1, <1>3, <1>7, <2>2, <2>3, AtCall DEF TidyInv
  <2>6. u.got \subseteq 1 .. made' /\ (u.calm \/ u.fair => Observed(p)) /\ u.command # "unregister"
    BY <1>1, <1>2, <1>7, <2>2, <2>3 DEF Observed
  <2> QED  BY <1>1, <1>4, <2>1, <2>3, <2>4, <2>5, <2>6, WorkersStep
<1>8. CASE (id = None) = (t.command = "register")
  <2> DEFINE u == IF id = None THEN [t EXCEPT !.pc = "createWorker"]
                  ELSE [t EXCEPT !.pc = "deleteWorker", !.found = id]
  <2>1. task' = [task EXCEPT ![p] = u]
    BY <1>2, <1>8 DEF FindWorker, FoundWorker, Goto, Command
  <2>2. u \in Task /\ u.command = t.command /\ u.at = t.at /\ u.got = t.got
        /\ u.calm = t.calm /\ u.fair = t.fair
        /\ u.pc = (IF id = None THEN "createWorker" ELSE "deleteWorker")
        /\ u.found = (IF id = None THEN t.found ELSE id) /\ u.found <= made
    <3>1. t.found <= made /\ id <= made /\ id \in Nat
      BY <1>1, <1>2, AtCall DEF TaskOK
    <3>2. CASE id = None
      <4>1. u = [t EXCEPT !.pc = "createWorker"]
        BY <3>2
      <4> QED  BY <1>2, <3>1, <3>2, <4>1 DEF Task
    <3>3. CASE id # None
      <4>1. u = [t EXCEPT !.pc = "deleteWorker", !.found = id]
        BY <3>3
      <4> QED  BY <1>2, <3>1, <3>3, <4>1 DEF Task
    <3> QED  BY <3>2, <3>3
  <2> HIDE DEF u
  <2>3. TaskOK(u, made')
    BY <1>1, <1>2, <2>2 DEF TaskOK
  <2>4. set' \in [id : 0 .. made', targets : SUBSET (1 .. made')] /\ raced' \in BOOLEAN
    BY <1>1, AtCall
  <2>5. TypeOK' /\ task'[p] = u /\ \A q \in Process \ {p} : task'[q] = task[q]
    BY <1>1, <1>4, <2>1, <2>3, <2>4, TypeStep
  <2>6. ShapeInv(p)'
    BY <1>2, <1>8, <2>2, <2>5 DEF ShapeInv, AtSet, Command
  <2>7. CalmInv(p)' /\ FairInv(p)'
    BY <1>1, <1>8, <2>2, <2>5, AtCall DEF CalmInv, FairInv
  <2>8. TidyInv(p)'
    BY <1>1, <1>3, <2>2, <2>5, AtCall DEF TidyInv, AtWorkers
  <2>9. (Observed(p)' => Observed(p)) /\ ListedWorkersExist'
    BY <1>1, <1>4, <2>2, <2>5 DEF Observed, ListedWorkersExist
  <2> QED  BY <1>1, <2>4, <2>5, <2>6, <2>7, <2>8, <2>9, OneStep
<1> QED  BY <1>2, <1>6, <1>7, <1>8 DEF Command

LEMMA CreateWorkerStep ==
    ASSUME IInv, NEW p \in Process, NEW replied \in BOOLEAN, CreateWorker(p, replied) PROVE IInv'
<1> DEFINE t == task[p]
           u == IF replied THEN [t EXCEPT !.got = @ \cup {made + 1}] ELSE Unfair(t)
<1>1. /\ t.pc = "createWorker" /\ t.pc \in AtWorkers /\ Active(p) /\ worker[t.at] = None
      /\ made' = made + 1 /\ worker' = [worker EXCEPT ![t.at] = made + 1]
      /\ task' = [task EXCEPT ![p] = WithNextDef(u)] /\ UNCHANGED <<set, commands, raced>>
  BY DEF CreateWorker, Goto, Active, AtWorkers
<1>2. /\ t \in Task /\ t.at \in Def /\ t.at \in Nat /\ t.got \subseteq 1 .. made
      /\ t.command = "register" /\ made \in Nat /\ worker \in [Def -> 0 .. made]
  BY <1>1, AtCall DEF TaskOK, Def, ShapeInv
<1>3. /\ worker'[t.at] = made + 1 /\ \A d \in Def \ {t.at} : worker'[d] = worker[d]
      /\ worker' \in [Def -> 0 .. made'] /\ made + 1 # None
      /\ made' \in Nat /\ made <= made'
  BY <1>1, <1>2 DEF None
<1>4. LiveIds' = LiveIds \cup {made + 1}
  BY <1>1, <1>2, <1>3 DEF LiveIds
<1>5. \A d, e \in Def : worker'[d] = worker'[e] => d = e \/ worker'[d] = None
  <2>1. \A d \in Def : worker[d] # made + 1
    BY <1>2
  <2> QED  BY <1>1, <1>3, <2>1, AtCall
<1>6. ~ raced => set.targets \subseteq LiveIds' /\ t.got \subseteq LiveIds'
  BY <1>1, <1>2, <1>4, AtCall DEF TidyInv
<1>7. CASE replied
  <2>1. u = [t EXCEPT !.got = @ \cup {made + 1}]
    BY <1>7
  <2>2. u \in Task /\ u.command = t.command /\ u.at = t.at /\ u.got = t.got \cup {made + 1}
        /\ u.calm = t.calm /\ u.fair = t.fair
    BY <1>2, <2>1 DEF Task
  <2> HIDE DEF u
  <2>3. u.calm => u.got = {worker'[d] : d \in 1 .. u.at} /\ None \notin u.got
    <3>1. t.calm => t.got = {worker[d] : d \in 1 .. t.at - 1} /\ None \notin t.got
      BY <1>1, <1>2, AtCall DEF CalmInv
    <3>2. /\ 1 .. t.at = (1 .. t.at - 1) \cup {t.at}
          /\ 1 .. t.at - 1 \subseteq Def \ {t.at}
      BY <1>2, WorkerRegistrationAssumption DEF Def
    <3>3. {worker'[d] : d \in 1 .. t.at} = {worker[d] : d \in 1 .. t.at - 1} \cup {made + 1}
      BY <1>3, <3>2
    <3> QED  BY <1>3, <2>2, <3>1, <3>3
  <2>4. u.got \subseteq 1 .. made' /\ (u.calm \/ u.fair => Observed(p))
    BY <1>1, <1>2, <2>2 DEF Observed
  <2>5. ~ raced => u.got \subseteq LiveIds'
    BY <1>4, <1>6, <2>2
  <2>6. u.command = task[p].command /\ u.at = task[p].at /\ u.command # "unregister"
    BY <1>2, <2>2
  <2>7. task' = [task EXCEPT ![p] = WithNextDef(u)]
    BY <1>1 DEF u
  <2> QED  BY <1>1, <1>3, <1>5, <1>6, <2>2, <2>3, <2>4, <2>5, <2>6, <2>7, WorkersStep
<1>8. CASE ~ replied
  <2>1. u = Unfair(t)
    BY <1>8
  <2>2. u \in Task /\ ~ u.calm /\ ~ u.fair /\ u.command = t.command /\ u.at = t.at
        /\ u.got = t.got
    BY <1>2, <1>8, Gone
  <2>3. task' = [task EXCEPT ![p] = WithNextDef(u)]
    BY <1>1
  <2> HIDE DEF u
  <2>4. u.got \subseteq 1 .. made' /\ (~ raced => u.got \subseteq LiveIds')
    BY <1>1, <1>2, <1>6, <2>2
  <2> QED  BY <1>1, <1>3, <1>5, <1>6, <2>2, <2>3, <2>4, WorkersStep
<1> QED  BY <1>7, <1>8

\* A calm registration that creates a worker is not refused.
LEMMA CreateWorkerFailsStep ==
    ASSUME IInv, NEW p \in Process, CreateWorkerFails(p) PROVE IInv'
<1>1. task[p].pc = "createWorker" /\ task[p].pc \in AtWorkers /\ Active(p)
      /\ UNCHANGED <<worker, set, made, commands, raced>>
  BY DEF CreateWorkerFails, AtWorkers, Active
<1>2. CASE worker[task[p].at] = None
  BY <1>1, <1>2, WorkerCallFails DEF CreateWorkerFails
<1>3. CASE worker[task[p].at] # None
  <2> DEFINE t == task[p]
  <2>1. task' = [task EXCEPT ![p] = WithNextDef(t)]
    BY <1>3 DEF CreateWorkerFails, Goto
  <2>2. t \in Task /\ t.command = "register" /\ t.got \subseteq 1 .. made
    BY <1>1, AtCall DEF ShapeInv, TaskOK
  <2>3. ~ t.calm
    BY <1>1, <1>3, <2>2, AtCall DEF CalmInv
  <2>4. LiveIds' = LiveIds
    BY <1>1 DEF LiveIds
  <2>5. /\ made' \in Nat /\ made <= made' /\ worker' \in [Def -> 0 .. made']
        /\ \A d, e \in Def : worker'[d] = worker'[e] => d = e \/ worker'[d] = None
        /\ ~ raced => set.targets \subseteq LiveIds'
    BY <1>1, <2>4, AtCall
  <2>6. t.got \subseteq 1 .. made' /\ (~ raced => t.got \subseteq LiveIds')
        /\ (t.calm \/ t.fair => Observed(p))
    BY <1>1, <2>2, <2>4, AtCall DEF TidyInv, Observed
  <2>7. t.command = task[p].command /\ t.at = task[p].at /\ t.command # "unregister"
    BY <2>2
  <2> HIDE DEF t
  <2> QED  BY <1>1, <2>1, <2>2, <2>3, <2>5, <2>6, <2>7, WorkersStep
<1> QED  BY <1>2, <1>3

LEMMA DeleteWorkerStep ==
    ASSUME IInv, NEW p \in Process, NEW replied \in BOOLEAN, DeleteWorker(p, replied) PROVE IInv'
<1> DEFINE t == task[p]
           u == IF replied THEN t ELSE Unfair(t)
<1>1. /\ t.pc = "deleteWorker" /\ t.pc \in AtWorkers /\ Active(p)
      /\ worker' = [d \in Def |-> IF worker[d] = t.found THEN None ELSE worker[d]]
      /\ task' = [task EXCEPT ![p] = WithNextDef(u)] /\ UNCHANGED <<set, made, commands, raced>>
  BY DEF DeleteWorker, Goto, Active, AtWorkers
<1>2. /\ t \in Task /\ t.at \in Def /\ t.at \in Nat /\ t.got \subseteq 1 .. made
      /\ t.command = "unregister" /\ made \in Nat /\ worker \in [Def -> 0 .. made]
  BY <1>1, AtCall DEF TaskOK, Def, ShapeInv
<1>3. /\ worker' \in [Def -> 0 .. made'] /\ made' \in Nat /\ made <= made'
      /\ \A d \in Def : worker'[d] \in {None, worker[d]}
  BY <1>1, <1>2 DEF None
<1>4. \A d, e \in Def : worker'[d] = worker'[e] => d = e \/ worker'[d] = None
  BY <1>1, <1>3, AtCall
<1>5. ~ raced => set.targets \subseteq LiveIds'
  BY <1>1, <1>2, AtCall DEF TidyInv
<1>6. /\ u \in Task /\ u.command = t.command /\ u.at = t.at /\ u.got = t.got
      /\ (u.fair => t.fair) /\ (u.calm => t.calm)
  BY <1>2, Gone
<1> HIDE DEF u
<1>7. u.fair => \A d \in 1 .. u.at : worker'[d] = None
  <2>1. ASSUME t.fair, NEW d \in 1 .. t.at PROVE worker'[d] = None
    <3>1. d \in Def
      BY <1>2, WorkerRegistrationAssumption DEF Def
    <3>2. CASE d = t.at
      BY <1>1, <1>2, <2>1, <3>1, <3>2, AtCall DEF FairInv
    <3>3. CASE d # t.at
      <4>1. d \in 1 .. t.at - 1
        BY <1>2, <3>3
      <4>2. worker[d] = None
        BY <1>1, <1>2, <2>1, <4>1, AtCall DEF FairInv
      <4> QED  BY <1>3, <3>1, <4>2
    <3> QED  BY <3>2, <3>3
  <2> QED  BY <1>6, <2>1
<1>8. u.got \subseteq 1 .. made' /\ (u.calm \/ u.fair => Observed(p)) /\ u.command # "register"
      /\ u.command = task[p].command /\ u.at = task[p].at
  BY <1>1, <1>2, <1>6 DEF Observed
<1> QED  BY <1>1, <1>3, <1>4, <1>5, <1>6, <1>7, <1>8, WorkersStep

-----------------------------------------------------------------------------
(* Calls about the FunctionSet preserve the invariant *)

\* The call leaves the command at t, and the set as it says.
LEMMA SetStep ==
    ASSUME IInv, NEW p \in Process, task[p].pc \in AtSet,
           NEW t \in Task, task' = [task EXCEPT ![p] = t], t.found <= made,
           t.command = task[p].command, t.at = task[p].at, t.got = task[p].got,
           t.calm => task[p].calm, t.fair => task[p].fair,
           t.pc \in IF t.command = "register" THEN {"updateSet", "createSet", "done"}
                    ELSE {"deleteSet", "findWorker"},
           UNCHANGED <<worker, commands>>, raced' \in BOOLEAN, raced => raced',
           made' \in Nat, made <= made',
           set' \in [id : 0 .. made', targets : SUBSET (1 .. made')],
           t.calm /\ t.pc = "done" => set'.targets = t.got,
           t.calm /\ t.pc = "updateSet" => set'.id = t.found,
           ~ raced' /\ t.pc = "findWorker" => set'.targets = {},
           ~ raced' /\ t.pc = "deleteSet" => set'.id = t.found,
           ~ raced' => set'.targets \subseteq LiveIds
    PROVE  IInv'
<1>1. Active(p)
  BY DEF Active, AtSet
<1>2. /\ task[p] \in Task /\ task[p].command \in Command /\ TaskOK(task[p], made)
      /\ ShapeInv(p) /\ CalmInv(p) /\ FairInv(p) /\ TidyInv(p) /\ made \in Nat
      /\ worker \in [Def -> 0 .. made] /\ raced \in BOOLEAN
      /\ \A d, e \in Def : worker[d] = worker[e] => d = e \/ worker[d] = None
  BY <1>1, AtCall
<1>3. 0 .. made \subseteq 0 .. made' /\ 1 .. made \subseteq 1 .. made'
  BY <1>2
<1>4. t.command = "unregister" => t.at \in Def
  BY <1>2 DEF ShapeInv
<1>5. t.found \in Nat
  BY Fields
<1>6. t.pc \in AtWorkers => t.at \in Def
  BY <1>2, <1>4 DEF AtWorkers, Command
<1>7. t.found <= made' /\ t.got \subseteq 1 .. made'
  BY <1>2, <1>3, <1>5 DEF TaskOK
<1>8. TaskOK(t, made')
  BY <1>6, <1>7 DEF TaskOK
<1>9. worker' \in [Def -> 0 .. made']
  BY <1>2, <1>3
<1>10. TypeOK' /\ task'[p] = t /\ \A q \in Process \ {p} : task'[q] = task[q]
  BY <1>2, <1>8, <1>9, TypeStep
<1>11. ShapeInv(p)'
  BY <1>2, <1>4, <1>10 DEF ShapeInv, AtSet, Command
<1>12. CalmInv(p)'
  BY <1>2, <1>10 DEF CalmInv
<1>13. FairInv(p)'
  BY <1>2, <1>10 DEF FairInv
<1>14. TidyInv(p)'
  <2>1. LiveIds' = LiveIds
    BY DEF LiveIds
  <2> QED  BY <1>1, <1>2, <1>10, <2>1 DEF TidyInv, AtWorkers
<1>15. (Observed(p)' => Observed(p)) /\ ListedWorkersExist'
  BY <1>10 DEF Observed, ListedWorkersExist, LiveIds
<1> QED  BY <1>1, <1>2, <1>10, <1>11, <1>12, <1>13, <1>14, <1>15, OneStep

\* The command ends without having done its work.
LEMMA ToIdle ==
    ASSUME IInv, NEW p \in Process, Active(p), Goto(p, Idle),
           UNCHANGED <<worker, commands>>, raced' \in BOOLEAN, raced => raced',
           made' \in Nat, made <= made',
           set' \in [id : 0 .. made', targets : SUBSET (1 .. made')],
           ~ raced' => set'.targets \subseteq LiveIds
    PROVE  IInv'
<1>1. /\ made \in Nat /\ worker \in [Def -> 0 .. made] /\ 0 .. made \subseteq 0 .. made'
      /\ \A d, e \in Def : worker[d] = worker[e] => d = e \/ worker[d] = None
  BY AtCall
<1>2. worker' \in [Def -> 0 .. made']
  BY <1>1
<1>3. task' = [task EXCEPT ![p] = Idle] /\ TaskOK(Idle, made')
  BY IdleTask DEF Goto, TaskOK, Idle, None, AtWorkers
<1>4. TypeOK' /\ task'[p] = Idle /\ \A q \in Process \ {p} : task'[q] = task[q]
  BY <1>1, <1>2, <1>3, TypeStep
<1>5. ShapeInv(p)' /\ CalmInv(p)' /\ FairInv(p)' /\ TidyInv(p)' /\ ~ Observed(p)'
  BY <1>4 DEF ShapeInv, CalmInv, FairInv, TidyInv, Observed, Active, Idle, AtSet
<1>6. ListedWorkersExist'
  BY DEF ListedWorkersExist, LiveIds
<1> QED  BY <1>4, <1>5, <1>6, OneStep

LEMMA AfterSet ==
    ASSUME NEW t \in Task, t.command \in Command
    PROVE  LET u == After(t, "findSet")
           IN  /\ u \in Task /\ u.pc = IF t.command = "register" THEN "done" ELSE "findWorker"
               /\ u.command = t.command /\ u.at = t.at /\ u.got = t.got /\ u.found = t.found
               /\ u.calm = t.calm /\ u.fair = t.fair
<1>1. CASE t.command = "register"
  BY <1>1 DEF After, Order, Task
<1>2. CASE t.command = "unregister"
  BY <1>2 DEF After, Order, Task
<1> QED  BY <1>1, <1>2 DEF Command

\* A call that changes the set was answered, or not.
LEMMA SetCalled ==
    ASSUME IInv, NEW p \in Process, task[p].pc \in AtSet, NEW replied \in BOOLEAN,
           Goto(p, IF replied THEN After(task[p], "findSet") ELSE SetCallFailed(task[p])),
           UNCHANGED <<worker, commands>>, raced' \in BOOLEAN, raced => raced',
           made' \in Nat, made <= made',
           set' \in [id : 0 .. made', targets : SUBSET (1 .. made')],
           replied /\ task[p].calm /\ task[p].command = "register" => set'.targets = task[p].got,
           ~ raced' /\ task[p].command = "unregister" => set'.targets = {},
           ~ raced' => set'.targets \subseteq LiveIds
    PROVE  IInv'
<1> DEFINE t == task[p]
           u == IF replied THEN t ELSE Failing(t)
           n == After(u, "findSet")
<1>1. Active(p)
  BY DEF Active, AtSet
<1>2. t \in Task /\ t.command \in Command /\ t.found <= made
  BY <1>1, AtCall DEF TaskOK
<1>3. CASE ~ replied /\ t.command = "register"
  BY <1>1, <1>3, ToIdle DEF SetCallFailed
<1>4. CASE replied \/ t.command = "unregister"
  <2>1. task' = [task EXCEPT ![p] = n]
    BY <1>2, <1>4 DEF Goto, SetCallFailed, Command
  <2>2. /\ u \in Task /\ u.command = t.command /\ u.at = t.at /\ u.got = t.got /\ u.found = t.found
        /\ (u.calm => t.calm /\ replied) /\ u.fair = t.fair
    BY <1>2, Gone
  <2> HIDE DEF u
  <2>3. /\ n \in Task /\ n.pc = IF t.command = "register" THEN "done" ELSE "findWorker"
        /\ n.command = t.command /\ n.at = t.at /\ n.got = t.got /\ n.found = t.found
        /\ n.calm = u.calm /\ n.fair = u.fair
    BY <1>2, <2>2, AfterSet
  <2> HIDE DEF n
  <2>4. n.pc \in IF n.command = "register" THEN {"updateSet", "createSet", "done"}
                 ELSE {"deleteSet", "findWorker"}
    BY <2>3
  <2>5. n.calm /\ n.pc = "done" => set'.targets = n.got
    BY <2>2, <2>3
  <2>6. ~ raced' /\ n.pc = "findWorker" => set'.targets = {}
    BY <1>2, <2>3 DEF Command
  <2>7. n.pc \notin {"updateSet", "deleteSet"} /\ n.found <= made /\ (n.calm => t.calm)
        /\ (n.fair => t.fair)
    BY <1>2, <2>2, <2>3
  <2> QED  BY <2>1, <2>3, <2>4, <2>5, <2>6, <2>7, SetStep
<1> QED  BY <1>2, <1>3, <1>4 DEF Command

LEMMA FindSetStep == ASSUME IInv, NEW p \in Process, FindSet(p) PROVE IInv'
<1> DEFINE t == task[p]
<1>1. t.pc = "findSet" /\ t.pc \in AtSet /\ Active(p)
      /\ UNCHANGED <<worker, set, made, commands, raced>>
  BY DEF FindSet, Active, AtSet
<1>2. /\ t \in Task /\ t.command \in Command /\ t.found <= made /\ made \in Nat
      /\ set \in [id : 0 .. made, targets : SUBSET (1 .. made)] /\ raced \in BOOLEAN
      /\ ~ raced => set.targets \subseteq LiveIds
      /\ ShapeInv(p) /\ CalmInv(p)
  BY <1>1, AtCall DEF TaskOK
<1>3. CASE set = NoSet /\ t.command = "unregister"
  <2>1. PICK replied \in BOOLEAN : replied
    OBVIOUS
  <2>2. Goto(p, IF replied THEN After(t, "findSet") ELSE SetCallFailed(t)) /\ set'.targets = {}
    BY <1>1, <1>3, <2>1 DEF FindSet, NoSet
  <2>3. /\ made' \in Nat /\ made <= made' /\ raced' \in BOOLEAN /\ t.command # "register"
        /\ set' \in [id : 0 .. made', targets : SUBSET (1 .. made')]
        /\ ~ raced' => set'.targets \subseteq LiveIds
    BY <1>1, <1>2, <1>3
  <2> QED  BY <1>1, <2>2, <2>3, SetCalled
<1>4. CASE ~ (set = NoSet /\ t.command = "unregister")
  <2> DEFINE pc == IF set = NoSet THEN "createSet"
                   ELSE IF t.command = "register" THEN "updateSet" ELSE "deleteSet"
             found == IF set = NoSet THEN t.found ELSE set.id
             n == [t EXCEPT !.pc = pc, !.found = found]
  <2>1. task' = [task EXCEPT ![p] = n]
    <3>1. CASE set = NoSet
      <4>1. n = [t EXCEPT !.pc = "createSet"]
        BY <1>2, <3>1 DEF Task
      <4> QED  BY <1>2, <1>4, <3>1, <4>1 DEF FindSet, Goto, Command
    <3>2. CASE set # NoSet
      BY <1>2, <3>2 DEF FindSet, Goto, Command
    <3> QED  BY <3>1, <3>2
  <2>2. pc \in {"createSet", "updateSet", "deleteSet"} /\ found \in Nat /\ found <= made
    BY <1>2, Fields
  <2>3. /\ n \in Task /\ n.pc = pc /\ n.found = found /\ n.command = t.command /\ n.at = t.at
        /\ n.got = t.got /\ n.calm = t.calm /\ n.fair = t.fair
    <3> HIDE DEF pc, found
    <3> QED  BY <1>2, <2>2 DEF Task
  <2>4. n.pc \in IF n.command = "register" THEN {"updateSet", "createSet", "done"}
                 ELSE {"deleteSet", "findWorker"}
    BY <1>2, <1>4, <2>3 DEF Command
  <2>5. n.pc \in {"updateSet", "deleteSet"} => set'.id = n.found
    BY <1>1, <2>3
  <2>6. n.pc # "done" /\ n.pc # "findWorker"
    BY <2>2, <2>3
  <2>7. set' \in [id : 0 .. made', targets : SUBSET (1 .. made')] /\ made <= made'
        /\ made' \in Nat /\ raced' \in BOOLEAN /\ (~ raced' => set'.targets \subseteq LiveIds)
    BY <1>1, <1>2
  <2> HIDE DEF n
  <2> QED  BY <1>1, <2>1, <2>2, <2>3, <2>4, <2>5, <2>6, <2>7, SetStep
<1> QED  BY <1>3, <1>4

LEMMA WriteSetStep ==
    ASSUME IInv, NEW p \in Process, NEW replied \in BOOLEAN,
           UpdateSet(p, replied) \/ CreateSet(p, replied) \/ DeleteSet(p, replied)
    PROVE  IInv'
<1> DEFINE t == task[p]
<1>1. /\ t.pc \in {"updateSet", "createSet", "deleteSet"} /\ t.pc \in AtSet /\ Active(p)
      /\ Goto(p, IF replied THEN After(t, "findSet") ELSE SetCallFailed(t))
      /\ UNCHANGED <<worker, commands, raced>>
  BY DEF UpdateSet, CreateSet, DeleteSet, Active, AtSet
<1>2. /\ t.got \subseteq 1 .. made /\ t.command \in Command /\ made \in Nat
      /\ set \in [id : 0 .. made, targets : SUBSET (1 .. made)] /\ raced \in BOOLEAN
      /\ ~ raced => set.targets \subseteq LiveIds
      /\ ~ raced /\ t.command = "register" => t.got \subseteq LiveIds
      /\ t.pc = "deleteSet" <=> t.command = "unregister"
  BY <1>1, AtCall DEF TaskOK, TidyInv, ShapeInv, Command
<1>3. CASE UpdateSet(p, replied)
  <2>1. /\ t.pc = "updateSet" /\ made' = made
        /\ set' = IF set.id = t.found THEN [set EXCEPT !.targets = t.got] ELSE set
    BY <1>3 DEF UpdateSet
  <2>2. set' \in [id : 0 .. made, targets : SUBSET (1 .. made)]
    BY <1>2, <2>1
  <2>3. t.calm /\ t.command = "register" => set'.targets = t.got
    BY <1>1, <1>2, <2>1, AtCall DEF CalmInv
  <2>4. ~ raced => set'.targets \subseteq LiveIds
    BY <1>2, <2>1 DEF Command
  <2>5. t.command # "unregister" /\ made' \in Nat /\ made <= made' /\ raced' \in BOOLEAN
    BY <1>1, <1>2, <2>1
  <2> QED  BY <1>1, <2>1, <2>2, <2>3, <2>4, <2>5, SetCalled
<1>4. CASE CreateSet(p, replied)
  <2>1. t.pc = "createSet" /\ made' = made + 1 /\ set' = [id |-> made + 1, targets |-> t.got]
    BY <1>4 DEF CreateSet
  <2>2. 1 .. made \subseteq 1 .. made' /\ made + 1 \in 0 .. made' /\ made' \in Nat /\ made <= made'
    BY <1>2, <2>1
  <2>3. set' \in [id : 0 .. made', targets : SUBSET (1 .. made')]
    BY <1>2, <2>1, <2>2
  <2>4. set'.targets = t.got /\ t.command = "register" /\ raced' \in BOOLEAN
    BY <1>1, <1>2, <2>1 DEF Command
  <2> QED  BY <1>1, <1>2, <2>2, <2>3, <2>4, SetCalled
<1>5. CASE DeleteSet(p, replied)
  <2>1. /\ t.pc = "deleteSet" /\ made' = made /\ t.command = "unregister"
        /\ set' = IF set.id = t.found THEN NoSet ELSE set
    BY <1>2, <1>5 DEF DeleteSet
  <2>2. set' \in [id : 0 .. made, targets : SUBSET (1 .. made)]
    BY <1>2, <2>1 DEF NoSet, None
  <2>3. ~ raced => set'.targets = {}
    BY <1>1, <2>1, AtCall DEF TidyInv, NoSet
  <2>4. made' \in Nat /\ made <= made' /\ raced' \in BOOLEAN
    BY <1>1, <1>2, <2>1
  <2> QED  BY <1>1, <2>1, <2>2, <2>3, <2>4, SetCalled
<1> QED  BY <1>3, <1>4, <1>5

LEMMA SetCallFailsStep == ASSUME IInv, NEW p \in Process, SetCallFails(p) PROVE IInv'
<1>0. PICK replied \in BOOLEAN : ~ replied
  OBVIOUS
<1>1. /\ task[p].pc \in AtSet /\ Active(p) /\ UNCHANGED <<worker, set, made, commands>>
      /\ Goto(p, IF replied THEN After(task[p], "findSet") ELSE SetCallFailed(task[p]))
      /\ raced' = (raced \/ task[p].command = "unregister")
  BY <1>0 DEF SetCallFails, AtSet, Active
<1>2. /\ made \in Nat /\ raced \in BOOLEAN
      /\ set \in [id : 0 .. made, targets : SUBSET (1 .. made)]
      /\ ~ raced => set.targets \subseteq LiveIds
  BY <1>1, AtCall
<1>3. /\ raced' \in BOOLEAN /\ raced => raced'
      /\ ~ (~ raced' /\ task[p].command = "unregister")
  BY <1>1, Zenon
<1>4. /\ made' \in Nat /\ made <= made'
      /\ set' \in [id : 0 .. made', targets : SUBSET (1 .. made')]
      /\ ~ raced' => set'.targets \subseteq LiveIds
  BY <1>1, <1>2, <1>3
<1> QED  BY <1>0, <1>1, <1>3, <1>4, SetCalled

-----------------------------------------------------------------------------
(* The commands preserve the invariant *)

LEMMA KilledStep == ASSUME IInv, NEW p \in Process, Killed(p) PROVE IInv'
<1>1. Active(p) /\ Goto(p, Idle) /\ UNCHANGED <<worker, set, made, commands, raced>>
  BY DEF Killed, Active
<1>2. /\ made \in Nat /\ raced \in BOOLEAN
      /\ set \in [id : 0 .. made, targets : SUBSET (1 .. made)]
      /\ ~ raced => set.targets \subseteq LiveIds
  BY <1>1, AtCall
<1> QED  BY <1>1, <1>2, ToIdle

LEMMA BeginStep == ASSUME IInv, NEW p \in Process, NEW command \in Command, Begin(p, command)
                   PROVE IInv'
<1> DEFINE t == [Idle EXCEPT !.command = command, !.pc = Order(command)[1],
                             !.calm = Alone(p), !.fair = Alone(p)]
<1>1. /\ commands < MaxCommands /\ commands' = commands + 1
      /\ task' = [q \in Process |-> IF q = p THEN t ELSE Unfair(task[q])]
      /\ raced' = (raced \/ ~ Alone(p)) /\ UNCHANGED <<worker, set, made>>
  BY DEF Begin
<1>2. task \in [Process -> Task] /\ made \in Nat /\ commands \in 0 .. MaxCommands
  BY DEF IInv, TypeOK
<1>3. Order(command)[1] \in {"findWorker", "findSet"}
      /\ (Order(command)[1] = "findSet" <=> command = "unregister")
  BY DEF Order, Command
<1>4. Alone(p) \in BOOLEAN /\ 1 \in Def /\ 1 \in 1 .. Defs + 1
  BY WorkerRegistrationAssumption DEF Alone, Def
<1>5. /\ t \in Task /\ t.command = command /\ t.at = 1 /\ t.got = {} /\ t.found = None
      /\ t.pc = Order(command)[1] /\ t.calm = Alone(p) /\ t.fair = Alone(p)
  BY <1>3, <1>4 DEF Idle, Task, None
<1> HIDE DEF t
<1>6. task'[p] = t /\ \A q \in Process \ {p} : task'[q] = Unfair(task[q])
  BY <1>1
<1>7. ASSUME NEW q \in Process \ {p}
      PROVE  /\ task'[q] \in Task /\ ~ Observed(q)' /\ (Active(q)' <=> Active(q))
             /\ task'[q].pc = task[q].pc /\ task'[q].command = task[q].command
             /\ task'[q].at = task[q].at /\ task'[q].got = task[q].got
             /\ task'[q].found = task[q].found
  <2>1. task[q] \in Task
    BY <1>2
  <2> QED  BY <1>6, <2>1 DEF Unfair, Observed, Active, Task
<1>8. TypeOK'
  <2>1. task' \in [Process -> Task]
    BY <1>1, <1>5, <1>6, <1>7
  <2>2. commands' \in 0 .. MaxCommands /\ raced' \in BOOLEAN
    BY <1>1, <1>2, <1>4, WorkerRegistrationAssumption DEF IInv, TypeOK
  <2>3. ASSUME NEW q \in Process
        PROVE  /\ task'[q].pc \in AtWorkers => task'[q].at \in Def
               /\ task'[q].found <= made /\ task'[q].got \subseteq 1 .. made
    <3>1. CASE q = p
      BY <1>2, <1>4, <1>5, <1>6, <3>1 DEF None
    <3>2. CASE q # p
      BY <1>7, <3>2 DEF IInv, TypeOK, AtWorkers
    <3> QED  BY <3>1, <3>2
  <2> QED  BY <1>1, <2>1, <2>2, <2>3 DEF IInv, TypeOK, AtWorkers
<1>9. SoloInv'
  <2>1. ASSUME NEW q \in Process, Observed(q)' PROVE Alone(q)'
    <3>1. q = p /\ Alone(p)
      BY <1>5, <1>6, <1>7, <2>1 DEF Observed
    <3> QED  BY <1>7, <3>1 DEF Alone
  <2>2. ASSUME ~ raced', NEW q \in Process, NEW s \in Process, Active(q)', Active(s)' PROVE q = s
    <3>1. \A r \in Process \ {p} : ~ Active(r)
      BY <1>1, <2>2 DEF Alone, Active
    <3> QED  BY <1>7, <2>2, <3>1
  <2> QED  BY <2>1, <2>2 DEF SoloInv
<1>10. ListedWorkersExist'
  BY <1>1 DEF IInv, ListedWorkersExist, LiveIds
<1>11. ShapeInv(p)' /\ CalmInv(p)' /\ FairInv(p)' /\ TidyInv(p)'
  BY <1>3, <1>4, <1>5, <1>6 DEF ShapeInv, CalmInv, FairInv, TidyInv, AtSet, AtWorkers
<1>12. ASSUME NEW q \in Process \ {p}
       PROVE  ShapeInv(q)' /\ CalmInv(q)' /\ FairInv(q)' /\ TidyInv(q)'
  <2>1. ShapeInv(q)'
    BY <1>7 DEF IInv, ShapeInv
  <2>2. CalmInv(q)' /\ FairInv(q)'
    BY <1>7 DEF CalmInv, FairInv, Observed
  <2>3. TidyInv(q)'
    BY <1>1, <1>7 DEF TidyInv, Alone, Active
  <2> QED  BY <2>1, <2>2, <2>3
<1> QED  BY <1>8, <1>9, <1>10, <1>11, <1>12 DEF IInv

LEMMA InvInit == Init => IInv
<1> SUFFICES ASSUME Init PROVE IInv
  OBVIOUS
<1>1. \A p \in Process : task[p] = Idle /\ ~ Observed(p) /\ ~ Active(p)
  BY DEF Init, Observed, Active, Idle
<1>2. TypeOK
  <2>1. task \in [Process -> Task]
    BY IdleTask DEF Init
  <2>2. /\ made \in Nat /\ worker \in [Def -> 0 .. made] /\ commands \in 0 .. MaxCommands
        /\ set \in [id : 0 .. made, targets : SUBSET (1 .. made)]
    BY WorkerRegistrationAssumption DEF Init, NoSet, None
  <2>3. /\ raced \in BOOLEAN /\ \A d \in Def : worker[d] = None
        /\ \A p \in Process : task[p].pc = "idle" /\ task[p].found = None /\ task[p].got = {}
    BY <1>1 DEF Init, Idle
  <2>4. \A p \in Process : task[p].found <= made /\ task[p].got \subseteq 1 .. made
    BY <2>2, <2>3 DEF None
  <2> QED  BY <2>1, <2>2, <2>3, <2>4 DEF TypeOK
<1>3. \A p \in Process : ShapeInv(p) /\ CalmInv(p) /\ FairInv(p) /\ TidyInv(p)
  BY <1>1 DEF ShapeInv, CalmInv, FairInv, TidyInv, Idle, AtSet, Active
<1> QED  BY <1>1, <1>2, <1>3 DEF IInv, SoloInv, ListedWorkersExist, Init, NoSet

LEMMA InvStep == IInv /\ [Next]_vars => IInv'
<1> SUFFICES ASSUME IInv, [Next]_vars PROVE IInv'
  OBVIOUS
<1>1. CASE \E p \in Process, command \in Command : Begin(p, command)
  BY <1>1, BeginStep
<1>2. CASE \E p \in Process : Killed(p)
  BY <1>2, KilledStep
<1>3. ASSUME NEW p \in Process, Call(p) PROVE IInv'
  <2>1. CASE FindWorker(p)
    BY <2>1, FindWorkerStep
  <2>2. CASE FindWorkerFails(p) \/ DeleteWorkerFails(p)
    BY <2>2, WorkerCallFails DEF FindWorkerFails, DeleteWorkerFails, AtWorkers
  <2>3. CASE CreateWorkerFails(p)
    BY <2>3, CreateWorkerFailsStep
  <2>4. CASE FindSet(p)
    BY <2>4, FindSetStep
  <2>5. CASE SetCallFails(p)
    BY <2>5, SetCallFailsStep
  <2>6. CASE \E replied \in BOOLEAN : CreateWorker(p, replied)
    BY <2>6, CreateWorkerStep
  <2>7. CASE \E replied \in BOOLEAN : DeleteWorker(p, replied)
    BY <2>7, DeleteWorkerStep
  <2>8. CASE \E replied \in BOOLEAN :
                UpdateSet(p, replied) \/ CreateSet(p, replied) \/ DeleteSet(p, replied)
    BY <2>8, WriteSetStep
  <2> QED  BY <1>3, <2>1, <2>2, <2>3, <2>4, <2>5, <2>6, <2>7, <2>8 DEF Call
<1>4. CASE UNCHANGED vars
  BY <1>4 DEF vars, IInv, TypeOK, SoloInv, ListedWorkersExist, ShapeInv, CalmInv, FairInv, TidyInv,
              LiveIds, Active, Observed, Alone
<1> QED  BY <1>1, <1>2, <1>3, <1>4 DEF Next

-----------------------------------------------------------------------------
(* Theorems *)

\* The inductive invariant that the other theorems rest on.
THEOREM RegistrationInvariant == Spec => []IInv
<1>1. Init => IInv
  BY InvInit
<1>2. IInv /\ [Next]_vars => IInv'
  BY InvStep
<1> QED  BY <1>1, <1>2, PTL DEF Spec

\* No two definitions ever have the same worker, and ids are given once.
THEOREM RegistrationTypeCorrect == Spec => []TypeOK
<1>1. IInv => TypeOK
  BY DEF IInv
<1> QED  BY <1>1, RegistrationInvariant, PTL

\* As long as commands do not overlap and sets can be deleted, every listed
\* function has its worker, wherever a command fails or is interrupted.
THEOREM ListedExist == Spec => []ListedWorkersExist
<1>1. IInv => ListedWorkersExist
  BY DEF IInv
<1> QED  BY <1>1, RegistrationInvariant, PTL

\* A registration that runs alone, and whose calls succeed, leaves exactly the
\* workers of all definitions listed, whatever was there before.
THEOREM CalmRegistrations == Spec => []CalmRegistrationCompletes
<1>1. IInv => CalmRegistrationCompletes
  <2> SUFFICES ASSUME IInv, NEW p \in Process, task[p].pc = "done",
                      task[p].command = "register", task[p].calm
               PROVE  None \notin {worker[d] : d \in Def} /\ set.targets = LiveIds
    BY DEF CalmRegistrationCompletes
  <2>1. task[p].at = Defs + 1 /\ Defs \in Nat
    BY WorkerRegistrationAssumption DEF IInv, ShapeInv
  <2>2. 1 .. task[p].at - 1 = Def
    BY <2>1 DEF Def
  <2> QED  BY <2>2 DEF IInv, CalmInv, LiveIds
<1> QED  BY <1>1, RegistrationInvariant, PTL

\* A removal that runs alone, and whose calls about workers succeed, leaves no
\* worker, whether or not the set could be found and deleted.
THEOREM RemovalsLeaveNoWorker == Spec => []RemovalLeavesNoWorker
<1>1. IInv => RemovalLeavesNoWorker
  <2> SUFFICES ASSUME IInv, NEW p \in Process, task[p].pc = "done",
                      task[p].command = "unregister", task[p].fair
               PROVE  LiveIds = {}
    BY DEF RemovalLeavesNoWorker
  <2>1. task[p].at = Defs + 1 /\ Defs \in Nat
    BY WorkerRegistrationAssumption DEF IInv, ShapeInv
  <2>2. 1 .. task[p].at - 1 = Def
    BY <2>1 DEF Def
  <2> QED  BY <2>2 DEF IInv, FairInv, LiveIds
<1> QED  BY <1>1, RegistrationInvariant, PTL

=============================================================================
