--------------------------- MODULE ConfigSyncProofs ---------------------------
(* Theorems about ConfigSync: for every set of entities, names and writers,   *)
(* every channel size, any loss of events and any order of announcements.     *)
EXTENDS ConfigSync, SequenceTheorems, FiniteSetTheorems, TLAPS

\* What a client writes is a configuration.
LEMMA ConfigTypes == \A e \in Entity : ConfigsOf(e) \subseteq Config
<1>1. AnyName \in Name
  BY ConfigSyncAssumption DEF AnyName
<1>2. ServerConfigs \subseteq Config
  BY <1>1 DEF ServerConfigs, Config
<1>3. SchedConfigs \subseteq Config
  BY <1>1 DEF SchedConfigs, Config
<1>4. HandlerConfigs \subseteq Config
  BY DEF HandlerConfigs, Config
<1>5. QED
  BY <1>2, <1>3, <1>4 DEF ConfigsOf

-----------------------------------------------------------------------------
(* Type correctness *)

\* The types hold initially.
LEMMA TypeInit == Init => TypeOK
BY ConfigSyncAssumption
   DEF Init, TypeOK, Rows, Entity, Table, Listener

\* A write changes one row and leaves one event behind.
LEMMA CommittedType ==
    ASSUME TypeOK, NEW w \in Writer, NEW e \in Entity,
           NEW c \in Config \cup {Absent}, MayWrite(w, e), Committed(w, e, c)
    PROVE  /\ writes' \in 0 .. MaxWrites
           /\ out' \in [Writer -> Seq(Event)]
           /\ \A v \in Writer : Len(out'[v]) <= 1
<1>1. writes' \in 0 .. MaxWrites
  BY ConfigSyncAssumption DEF TypeOK, MayWrite, Committed
<1>2. <<[entity |-> e, config |-> c]>> \in Seq(Event)
  BY DEF Event
<1>3. Len(<<[entity |-> e, config |-> c]>>) <= 1
  OBVIOUS
<1>4. out' = [out EXCEPT ![w] = <<[entity |-> e, config |-> c]>>]
  BY DEF Committed
<1>5. out' \in [Writer -> Seq(Event)] /\ \A v \in Writer : Len(out'[v]) <= 1
  BY <1>2, <1>3, <1>4 DEF TypeOK
<1>6. QED
  BY <1>1, <1>5

\* A commit keeps the types.
LEMMA WriteType ==
    ASSUME TypeOK, NEW w \in Writer, Write(w)
    PROVE  TypeOK'
<1>1. PICK e \in Entity :
        \/ \E c \in ConfigsOf(e) : Create(w, e, c) \/ Update(w, e, c)
        \/ Delete(w, e)
  BY DEF Write
<1>2. PICK c \in Config \cup {Absent} : MayWrite(w, e) /\ Committed(w, e, c)
  BY <1>1, ConfigTypes DEF Create, Update, Delete
<1>3. db' \in Rows /\ used' \in SUBSET Entity
  BY <1>1, ConfigTypes DEF Create, Update, Delete, TypeOK, Rows
<1>4. UNCHANGED <<chan, toLoad, phase, store, jobs, listeners, failed>>
  BY <1>2 DEF Committed, managed
<1>5. QED
  BY <1>2, <1>3, <1>4, CommittedType DEF TypeOK

\* A sequence of at most one element that is not empty has one.
LEMMA OneElement ==
    ASSUME NEW S, NEW s \in Seq(S), s # <<>>, Len(s) <= 1
    PROVE  Len(s) = 1
<1>1. Len(s) \in Nat /\ Len(s) # 0
  OBVIOUS
<1>2. QED
  BY <1>1

\* Lengths add up when sequences are joined.
LEMMA ConcatenationLength ==
    ASSUME NEW S, NEW s \in Seq(S), NEW t \in Seq(S)
    PROVE  s \o t \in Seq(S) /\ Len(s \o t) = Len(s) + Len(t)
OBVIOUS

\* The channel never holds more than its capacity.
LEMMA PublishedType ==
    ASSUME TypeOK, NEW w \in Writer, out[w] # <<>>
    PROVE  Published(out[w]) \in Seq(Event) /\ Len(Published(out[w])) <= Capacity
<1>1. out[w] \in Seq(Event) /\ Len(out[w]) = 1
  BY OneElement DEF TypeOK
<1>2. chan \in Seq(Event) /\ Len(chan) <= Capacity /\ Capacity \in Nat \ {0}
  BY ConfigSyncAssumption DEF TypeOK
<1>3. /\ chan \o out[w] \in Seq(Event)
      /\ Len(chan \o out[w]) = Len(chan) + 1
  BY <1>1, <1>2, ConcatenationLength
<1>4. CASE Len(chan \o out[w]) > Capacity
  <2>1. chan \o out[w] # <<>>
    BY <1>2, <1>3
  <2>2. /\ Tail(chan \o out[w]) \in Seq(Event)
        /\ Len(Tail(chan \o out[w])) = Len(chan)
    BY <1>2, <1>3, <2>1
  <2>3. QED
    BY <1>2, <1>4, <2>2 DEF Published
<1>5. CASE ~ (Len(chan \o out[w]) > Capacity)
  BY <1>2, <1>3, <1>5 DEF Published
<1>6. QED
  BY <1>4, <1>5

\* A publication keeps the types.
LEMMA NotifyType ==
    ASSUME TypeOK, NEW w \in Writer, Notify(w)
    PROVE  TypeOK'
<1>1. chan' \in Seq(Event) /\ Len(chan') <= Capacity
  BY PublishedType DEF Notify, TypeOK
<1>2. out' \in [Writer -> Seq(Event)] /\ \A v \in Writer : Len(out'[v]) <= 1
  BY DEF Notify, TypeOK
<1>3. UNCHANGED <<db, used, writes, toLoad, phase, store, jobs, listeners, failed>>
  BY DEF Notify, dbVars, managed
<1>4. QED
  BY <1>1, <1>2, <1>3 DEF TypeOK

\* Only enabled rows are started, and those are configurations.
LEMMA EnabledIsConfig ==
    ASSUME NEW c \in Config \cup {Absent}, c.on
    PROVE  c \in Config
BY DEF Absent

\* Loading and starting keep the types.
LEMMA StartupType ==
    ASSUME TypeOK, Startup
    PROVE  TypeOK'
<1>1. CASE Start
  <2>1. PICK bad \in SUBSET {e \in Sched \cup Handler : store[e].on} :
          /\ failed' = bad
          /\ jobs' = [s \in Sched |->
                        IF store[s].on /\ s \notin bad THEN store[s] ELSE Absent]
          /\ listeners' = {[of |-> h, config |-> store[h]] :
                              h \in {k \in Handler : store[k].on /\ k \notin bad}}
    BY <1>1 DEF Start
  <2>2. \A e \in Entity : store[e] \in Config \cup {Absent}
    BY DEF TypeOK, Rows
  <2>3. failed' \in SUBSET Entity
    BY <2>1 DEF Entity
  <2>4. jobs' \in [Sched -> Config \cup {Absent}]
    BY <2>1, <2>2 DEF Entity
  <2>5. listeners' \in SUBSET Listener
    BY <2>1, <2>2, EnabledIsConfig DEF Entity, Listener
  <2>6. phase' = "up" /\ UNCHANGED <<db, used, writes, out, chan, toLoad, store>>
    BY <1>1 DEF Start, dbVars
  <2>7. QED
    BY <2>3, <2>4, <2>5, <2>6 DEF TypeOK
<1>2. ASSUME NEW table \in Table, Load(table)
      PROVE  TypeOK'
  <2>1. toLoad' \in SUBSET Table /\ store' \in Rows
    BY <1>2 DEF Load, TypeOK, Rows
  <2>2. UNCHANGED <<db, used, writes, out, chan, phase, jobs, listeners, failed>>
    BY <1>2 DEF Load, dbVars
  <2>3. QED
    BY <2>1, <2>2 DEF TypeOK
<1>3. QED
  BY <1>1, <1>2 DEF Startup

\* The listeners left after a handler's update are listeners of configurations.
LEMMA RelistenedType ==
    ASSUME TypeOK, NEW rows \in Rows, NEW h \in Handler, NEW started \in BOOLEAN,
           started => rows[h].on
    PROVE  Relistened(rows, h, started) \in SUBSET Listener
<1>1. WithoutListener(rows, h) \in SUBSET Listener
  BY DEF WithoutListener, TypeOK
<1>2. started => [of |-> h, config |-> rows[h]] \in Listener
  BY EnabledIsConfig DEF Rows, Entity, Listener
<1>3. QED
  BY <1>1, <1>2 DEF Relistened

\* A start is only ever attempted with an enabled row.
LEMMA AttemptOn ==
    ASSUME NEW rows, NEW e, NEW started \in BOOLEAN, Attempt(rows, e, started)
    PROVE  started => rows[e].on
BY DEF Attempt

\* Applying an event keeps the types.
LEMMA HandleEventType ==
    ASSUME TypeOK, HandleEvent
    PROVE  TypeOK'
<1>1. chan' \in Seq(Event) /\ Len(chan') <= Capacity
  BY ConfigSyncAssumption DEF HandleEvent, TypeOK
<1>2. Head(chan) \in Event
  BY DEF HandleEvent, TypeOK
<1>3. store' \in Rows
  BY <1>2 DEF HandleEvent, Stored, TypeOK, Rows, Event
<1>4. UNCHANGED <<db, used, writes, out, toLoad, phase>>
  BY DEF HandleEvent, dbVars
<1> DEFINE e == Head(chan).entity
<1>5. e \in Entity
  BY <1>2 DEF Event
<1>6. CASE e \in Server /\ UNCHANGED <<jobs, listeners, failed>>
  BY <1>1, <1>3, <1>4, <1>6 DEF TypeOK
<1>7. ASSUME NEW started \in BOOLEAN, e \in Sched, Attempt(store', e, started),
             jobs' = Rescheduled(store', e, started),
             failed' = Failures(store', e, started), UNCHANGED listeners
      PROVE  TypeOK'
  <2>1. jobs' \in [Sched -> Config \cup {Absent}]
    BY <1>3, <1>5, <1>7 DEF Rescheduled, TypeOK, Rows
  <2>2. failed' \in SUBSET Entity
    BY <1>5, <1>7 DEF Failures, TypeOK
  <2>3. QED
    BY <1>1, <1>3, <1>4, <1>7, <2>1, <2>2 DEF TypeOK
<1>8. ASSUME NEW started \in BOOLEAN, e \in Handler, Attempt(store', e, started),
             listeners' = Relistened(store', e, started),
             failed' = Failures(store', e, started), UNCHANGED jobs
      PROVE  TypeOK'
  <2>1. listeners' \in SUBSET Listener
    BY <1>3, <1>8, AttemptOn, RelistenedType
  <2>2. failed' \in SUBSET Entity
    BY <1>5, <1>8 DEF Failures, TypeOK
  <2>3. QED
    BY <1>1, <1>3, <1>4, <1>8, <2>1, <2>2 DEF TypeOK
<1>9. QED
  BY <1>6, <1>7, <1>8 DEF HandleEvent

\* The types are kept by every step.
LEMMA TypeStep == TypeOK /\ [Next]_vars => TypeOK'
<1> SUFFICES ASSUME TypeOK, [Next]_vars PROVE TypeOK'
  OBVIOUS
<1>1. ASSUME NEW w \in Writer, Write(w) PROVE TypeOK'
  BY <1>1, WriteType
<1>2. ASSUME NEW w \in Writer, Notify(w) PROVE TypeOK'
  BY <1>2, NotifyType
<1>3. CASE Startup
  BY <1>3, StartupType
<1>4. CASE HandleEvent
  BY <1>4, HandleEventType
<1>5. CASE ReceiverEnds
  BY <1>5, ConfigSyncAssumption DEF ReceiverEnds, TypeOK, dbVars, managed
<1>6. CASE UNCHANGED vars
  BY <1>6 DEF TypeOK, vars
<1>7. QED
  BY <1>1, <1>2, <1>3, <1>4, <1>5, <1>6 DEF Next

\* Every reachable state is well formed; in particular the channel keeps its
\* capacity and every RPC handler has at most one event to publish.
THEOREM ConfigTypeCorrect == Spec => []TypeOK
BY TypeInit, TypeStep, PTL DEF Spec

-----------------------------------------------------------------------------
(* The scheduler follows the store *)

\* Loading is over once the manager has started, so that only the background
\* task, which keeps the jobs in step, writes the store from then on.
FollowInv ==
    /\ TypeOK
    /\ SchedulersFollowStore
    /\ phase # "loading" => toLoad = {}

\* Nothing is scheduled and nothing loaded initially.
LEMMA FollowInit == Init => FollowInv
BY TypeInit DEF Init, FollowInv, SchedulersFollowStore

\* The start schedules what the store holds, once it is loaded.
LEMMA StartFollows ==
    ASSUME FollowInv, Start
    PROVE  SchedulersFollowStore' /\ toLoad' = {}
BY DEF Start, FollowInv, SchedulersFollowStore

\* Applying an event changes at most the job of the scheduler it is about.
LEMMA HandleEventFollows ==
    ASSUME FollowInv, HandleEvent
    PROVE  SchedulersFollowStore'
<1> DEFINE e == Head(chan).entity
<1>1. Head(chan) \in Event /\ e \in Entity
  <2>1. chan \in Seq(Event) /\ chan # <<>>
    BY DEF HandleEvent, FollowInv, TypeOK
  <2>2. Head(chan) \in Event
    BY <2>1
  <2>3. QED
    BY <2>2 DEF Event
<1>2. /\ phase = "up" /\ phase' = "up"
      /\ store' = [store EXCEPT ![e] = Head(chan).config]
      /\ store' \in Rows
      /\ \A d \in Entity : d # e => store'[d] = store[d]
  BY <1>1 DEF HandleEvent, Stored, FollowInv, TypeOK, Rows, Event
<1>3. CASE e \in Server /\ UNCHANGED <<jobs, listeners, failed>>
  BY <1>2, <1>3, ConfigSyncAssumption DEF FollowInv, SchedulersFollowStore, Entity
<1>4. ASSUME NEW started \in BOOLEAN, e \in Sched, Attempt(store', e, started),
             jobs' = Rescheduled(store', e, started),
             failed' = Failures(store', e, started)
      PROVE  SchedulersFollowStore'
  <2> SUFFICES ASSUME NEW s \in Sched
               PROVE  jobs'[s] = IF store'[s].on /\ s \notin failed'
                                 THEN store'[s] ELSE Absent
    BY <1>2 DEF SchedulersFollowStore
  <2>1. CASE s = e
    <3>1. jobs'[s] = IF started THEN store'[s] ELSE Absent
      BY <1>4, <2>1 DEF Rescheduled, FollowInv, TypeOK
    <3>2. CASE started
      BY <1>4, <2>1, <3>1, <3>2, AttemptOn DEF Failures
    <3>3. CASE ~ started
      BY <1>4, <2>1, <3>1, <3>3 DEF Failures
    <3>4. QED
      BY <3>2, <3>3
  <2>2. CASE s # e
    <3>1. jobs'[s] = jobs[s] /\ store'[s] = store[s]
      BY <1>2, <1>4, <2>2 DEF Rescheduled, FollowInv, TypeOK, Entity
    <3>2. s \in failed' <=> s \in failed
      BY <1>4, <2>2 DEF Failures
    <3>3. QED
      BY <1>2, <3>1, <3>2 DEF FollowInv, SchedulersFollowStore
  <2>3. QED
    BY <2>1, <2>2
<1>5. ASSUME NEW started \in BOOLEAN, e \in Handler,
             failed' = Failures(store', e, started), UNCHANGED jobs
      PROVE  SchedulersFollowStore'
  <2> SUFFICES ASSUME NEW s \in Sched
               PROVE  jobs'[s] = IF store'[s].on /\ s \notin failed'
                                 THEN store'[s] ELSE Absent
    BY <1>2 DEF SchedulersFollowStore
  <2>1. s # e /\ s \in Entity
    BY <1>5, ConfigSyncAssumption DEF Entity
  <2>2. store'[s] = store[s] /\ (s \in failed' <=> s \in failed)
    BY <1>2, <1>5, <2>1 DEF Failures
  <2>3. QED
    BY <1>2, <1>5, <2>2 DEF FollowInv, SchedulersFollowStore
<1>6. QED
  BY <1>3, <1>4, <1>5 DEF HandleEvent

\* FollowInv is kept by every step.
LEMMA FollowStep == FollowInv /\ [Next]_vars => FollowInv'
<1> SUFFICES ASSUME FollowInv, [Next]_vars PROVE FollowInv'
  OBVIOUS
<1>1. TypeOK'
  BY TypeStep DEF FollowInv
<1>2. ASSUME UNCHANGED <<phase, toLoad, store, jobs, failed>> PROVE FollowInv'
  BY <1>1, <1>2 DEF FollowInv, SchedulersFollowStore
<1>3. ASSUME NEW w \in Writer, Write(w) PROVE FollowInv'
  BY <1>2, <1>3 DEF Write, Create, Update, Delete, Committed, managed
<1>4. ASSUME NEW w \in Writer, Notify(w) PROVE FollowInv'
  BY <1>2, <1>4 DEF Notify, managed
<1>5. CASE Startup
  <2>1. CASE Start
    BY <1>1, <2>1, StartFollows DEF FollowInv
  <2>2. ASSUME NEW table \in Table, Load(table) PROVE FollowInv'
    <3>1. phase = "loading" /\ phase' = "loading" /\ UNCHANGED jobs
      BY <2>2 DEF Load, FollowInv
    <3>2. QED
      BY <1>1, <3>1 DEF FollowInv, SchedulersFollowStore
  <2>3. QED
    BY <1>5, <2>1, <2>2 DEF Startup
<1>6. CASE HandleEvent
  <2>1. toLoad' = toLoad /\ phase' = phase
    BY <1>6 DEF HandleEvent
  <2>2. QED
    BY <1>1, <1>6, <2>1, HandleEventFollows DEF FollowInv
<1>7. CASE ReceiverEnds
  BY <1>1, <1>7 DEF ReceiverEnds, managed, FollowInv, SchedulersFollowStore
<1>8. CASE UNCHANGED vars
  BY <1>2, <1>8 DEF vars
<1>9. QED
  BY <1>3, <1>4, <1>5, <1>6, <1>7, <1>8 DEF Next

\* Whatever events are lost, repeated or out of order, no cron job outlives its
\* scheduler or keeps an old configuration.
THEOREM SchedulersFollow == Spec => []SchedulersFollowStore
<1>1. FollowInv => SchedulersFollowStore
  BY DEF FollowInv
<1>2. QED
  BY <1>1, FollowInit, FollowStep, PTL DEF Spec

-----------------------------------------------------------------------------
(* The store and the listeners follow the database *)

\* A committed change of e is in the channel.
InChan(e) == \E i \in 1 .. Len(chan) : chan[i].entity = e

\* Position i of the channel holds the last event about e.
LastOf(e, i) ==
    chan[i].entity = e /\ \A j \in 1 .. Len(chan) : j > i => chan[j].entity # e

\* Nothing is written before the start, so what is loaded is what is committed.
LoadInv ==
    /\ phase # "deaf"
    /\ phase = "loading" =>
          /\ chan = <<>> /\ \A w \in Writer : out[w] = <<>>
          /\ \A table \in Table \ toLoad : \A e \in table : store[e] = db[e]
    /\ phase # "loading" => toLoad = {}

\* An event to be published says what is committed, and no two handlers have one
\* about the same row.
OutInv ==
    /\ \A w \in Writer :
          out[w] # <<>> => out[w][1].config = db[out[w][1].entity]
    /\ \A v, w \in Writer :
          out[v] # <<>> /\ out[w] # <<>> /\ out[v][1].entity = out[w][1].entity
            => v = w

\* Unless a later one is announced, the last event about a row in the channel
\* says what is committed; without any event the store does.
StoreInv ==
    \A e \in Entity :
        ~ Announcing(e) =>
            /\ \A i \in 1 .. Len(chan) : LastOf(e, i) => chan[i].config = db[e]
            /\ phase = "up" /\ ~ InChan(e) => store[e] = db[e]

\* An event about another handler with the name that h has now is followed by
\* one about h: whatever it stops, h is started after it.
NameInv ==
    /\ UniqueNames(db)
    /\ \A h, k \in Handler : \A i \in 1 .. Len(chan) :
          /\ h # k /\ db[h] # Absent
          /\ chan[i].entity = k /\ chan[i].config # Absent
          /\ chan[i].config.name = db[h].name
          => Announcing(h) \/ \E j \in 1 .. Len(chan) : j > i /\ chan[j].entity = h

\* A handler about which nothing is to come is listened for, or its last start
\* failed.
ListenInv ==
    phase = "up" =>
        \A h \in Handler :
            db[h].on /\ h \notin failed /\ ~ Announcing(h) /\ ~ InChan(h) =>
                [of |-> h, config |-> db[h]] \in listeners

SyncInv == TypeOK /\ LoadInv /\ OutInv /\ StoreInv /\ NameInv /\ ListenInv

\* Clients are coordinated, the admin API is this process's own, and nothing fails.
Undisturbed == Coordinated /\ ~ Remote /\ ~ Faults

\* The channel has room for what is to be published.
Room == \A w \in Writer : out[w] # <<>> => Len(chan) < Capacity

\* The rows of the three tables are all the rows there are.
LEMMA EntityTable == \A e \in Entity : \E table \in Table : e \in table
BY DEF Entity, Table

\* The invariant holds initially.
LEMMA SyncInit == Init => SyncInv
<1> SUFFICES ASSUME Init PROVE SyncInv
  OBVIOUS
<1>1. TypeOK
  BY TypeInit
<1>2. LoadInv /\ OutInv /\ ListenInv
  BY DEF Init, LoadInv, OutInv, ListenInv
<1>3. Len(chan) = 0
  BY DEF Init
<1>4. StoreInv /\ NameInv
  BY <1>3 DEF Init, StoreInv, NameInv
<1>5. QED
  BY <1>1, <1>2, <1>4 DEF SyncInv

\* What an event to be published is about.
LEMMA OutEvent ==
    ASSUME TypeOK, NEW w \in Writer, out[w] # <<>>
    PROVE  out[w][1] \in Event /\ out[w] = <<out[w][1]>>
<1>1. out[w] \in Seq(Event) /\ Len(out[w]) = 1
  BY OneElement DEF TypeOK
<1>2. QED
  BY <1>1

\* A write of one row leaves an event behind that says what it wrote.
LEMMA WriteEffect ==
    ASSUME Undisturbed, SyncInv, NEW w \in Writer, Write(w)
    PROVE  \E e \in Entity : \E c \in Config \cup {Absent} :
              /\ phase # "loading" /\ out[w] = <<>> /\ ~ Announcing(e)
              /\ db' = [db EXCEPT ![e] = c]
              /\ UniqueNames(db')
              /\ out' = [out EXCEPT ![w] = <<[entity |-> e, config |-> c]>>]
              /\ UNCHANGED <<chan, toLoad, phase, store, listeners, failed>>
<1>1. PICK e \in Entity :
        \/ \E c \in ConfigsOf(e) : Create(w, e, c) \/ Update(w, e, c)
        \/ Delete(w, e)
  BY DEF Write
<1> DEFINE Effect(c) ==
      /\ phase # "loading" /\ out[w] = <<>> /\ ~ Announcing(e)
      /\ db' = [db EXCEPT ![e] = c]
      /\ UniqueNames(db')
      /\ out' = [out EXCEPT ![w] = <<[entity |-> e, config |-> c]>>]
      /\ UNCHANGED <<chan, toLoad, phase, store, listeners, failed>>
<1>2. ASSUME NEW c, MayWrite(w, e), Committed(w, e, c)
      PROVE  /\ phase # "loading" /\ out[w] = <<>> /\ ~ Announcing(e)
             /\ out' = [out EXCEPT ![w] = <<[entity |-> e, config |-> c]>>]
             /\ UNCHANGED <<chan, toLoad, phase, store, listeners, failed>>
  BY <1>2 DEF MayWrite, ApiOpen, Undisturbed, Committed, managed
<1>3. ASSUME NEW c \in ConfigsOf(e), Create(w, e, c) \/ Update(w, e, c)
      PROVE  Effect(c)
  BY <1>2, <1>3 DEF Create, Update, Undisturbed
<1>4. ASSUME Delete(w, e) PROVE Effect(Absent)
  <2>1. db' = [db EXCEPT ![e] = Absent] /\ db \in Rows
    BY <1>4 DEF Delete, SyncInv, TypeOK
  <2>2. UniqueNames(db')
    BY <2>1 DEF UniqueNames, SyncInv, NameInv, Rows, Entity
  <2>3. QED
    BY <1>2, <1>4, <2>1, <2>2 DEF Delete
<1>5. QED
  BY <1>1, <1>3, <1>4, ConfigTypes

\* A write keeps the invariant.
LEMMA WriteSync ==
    ASSUME Undisturbed, SyncInv, NEW w \in Writer, Write(w)
    PROVE  LoadInv' /\ OutInv' /\ StoreInv' /\ NameInv' /\ ListenInv'
<1>1. PICK e \in Entity, c \in Config \cup {Absent} :
        /\ phase # "loading" /\ out[w] = <<>> /\ ~ Announcing(e)
        /\ db' = [db EXCEPT ![e] = c]
        /\ UniqueNames(db')
        /\ out' = [out EXCEPT ![w] = <<[entity |-> e, config |-> c]>>]
        /\ UNCHANGED <<chan, toLoad, phase, store, listeners, failed>>
  BY WriteEffect
<1>2. /\ db \in Rows
      /\ out \in [Writer -> Seq(Event)]
      /\ LoadInv /\ OutInv /\ StoreInv /\ NameInv /\ ListenInv
  BY DEF SyncInv, TypeOK
<1>3. /\ db'[e] = c
      /\ \A d \in Entity : d # e => db'[d] = db[d]
  BY <1>1, <1>2 DEF Rows
<1>4. /\ out'[w] # <<>>
      /\ out'[w][1].entity = e /\ out'[w][1].config = c
      /\ \A v \in Writer : v # w => out'[v] = out[v]
  BY <1>1, <1>2
<1>5. \A d : Announcing(d)' <=> Announcing(d) \/ d = e
  BY <1>1, <1>4 DEF Announcing
<1>6. LoadInv'
  BY <1>1, <1>2 DEF LoadInv
<1>7. OutInv'
  <2>1. ASSUME NEW v \in Writer, v # w, out[v] # <<>>
        PROVE  out[v][1].entity \in Entity /\ out[v][1].entity # e
    <3>1. out[v][1] \in Event
      BY <2>1, OutEvent DEF SyncInv
    <3>2. QED
      BY <1>1, <2>1, <3>1 DEF Announcing, Event
  <2>2. ASSUME NEW v \in Writer, out'[v] # <<>>
        PROVE  out'[v][1].config = db'[out'[v][1].entity]
    <3>1. CASE v = w
      BY <1>3, <1>4, <3>1
    <3>2. CASE v # w
      <4>1. out'[v] = out[v]
        BY <1>4, <3>2
      <4>2. out[v][1].config = db[out[v][1].entity]
        BY <1>2, <2>2, <4>1 DEF OutInv
      <4>3. QED
        BY <1>3, <2>1, <2>2, <3>2, <4>1, <4>2
    <3>3. QED
      BY <3>1, <3>2
  <2>3. ASSUME NEW u \in Writer, NEW v \in Writer, out'[u] # <<>>, out'[v] # <<>>,
               out'[u][1].entity = out'[v][1].entity
        PROVE  u = v
    <3>1. CASE u # w /\ v # w
      BY <1>2, <1>4, <2>3, <3>1 DEF OutInv
    <3>2. CASE u = w \/ v = w
      BY <1>4, <2>1, <2>3, <3>2
    <3>3. QED
      BY <3>1, <3>2
  <2>4. QED
    BY <2>2, <2>3 DEF OutInv
<1>8. StoreInv'
  BY <1>1, <1>2, <1>3, <1>5 DEF StoreInv, LastOf, InChan
<1>9. NameInv'
  BY <1>1, <1>2, <1>3, <1>5 DEF NameInv, Entity
<1>10. ListenInv'
  BY <1>1, <1>2, <1>3, <1>5 DEF ListenInv, InChan, Entity
<1>11. QED
  BY <1>6, <1>7, <1>8, <1>9, <1>10

\* With room in the channel a publication puts the event behind the others.
LEMMA NotifyEffect ==
    ASSUME Undisturbed, SyncInv, Room, NEW w \in Writer, Notify(w)
    PROVE  /\ out[w] # <<>> /\ phase = "up"
           /\ Len(chan') = Len(chan) + 1
           /\ \A i \in 1 .. Len(chan) : chan'[i] = chan[i]
           /\ chan'[Len(chan) + 1] = out[w][1]
           /\ out'[w] = <<>>
           /\ \A v \in Writer : v # w => out'[v] = out[v]
           /\ UNCHANGED <<db, toLoad, phase, store, listeners, failed>>
<1>1. /\ out[w] # <<>> /\ phase = "up"
      /\ chan' = Published(out[w])
      /\ out' = [out EXCEPT ![w] = <<>>]
      /\ UNCHANGED <<db, toLoad, phase, store, listeners, failed>>
  BY DEF Notify, Undisturbed, SyncInv, TypeOK, LoadInv, dbVars, managed
<1>2. out'[w] = <<>> /\ \A v \in Writer : v # w => out'[v] = out[v]
  BY <1>1 DEF SyncInv, TypeOK
<1>3. /\ out[w] \in Seq(Event) /\ Len(out[w]) = 1
      /\ chan \in Seq(Event)
  BY <1>1, OneElement DEF SyncInv, TypeOK
<1>4. /\ Len(chan \o out[w]) = Len(chan) + 1
      /\ \A i \in 1 .. Len(chan) + 1 :
            (chan \o out[w])[i] = IF i <= Len(chan) THEN chan[i]
                                  ELSE out[w][i - Len(chan)]
  <2>1. /\ Len(chan \o out[w]) = Len(chan) + Len(out[w])
        /\ \A i \in 1 .. Len(chan) + Len(out[w]) :
              (chan \o out[w])[i] = IF i <= Len(chan) THEN chan[i]
                                    ELSE out[w][i - Len(chan)]
    BY <1>3, ConcatProperties
  <2>2. QED
    BY <1>3, <2>1
<1>5. Len(chan) \in Nat /\ Len(chan) < Capacity /\ Capacity \in Nat
  BY <1>1, <1>3, ConfigSyncAssumption DEF Room
<1>6. chan' = chan \o out[w]
  BY <1>1, <1>4, <1>5 DEF Published
<1>7. /\ \A i \in 1 .. Len(chan) : chan'[i] = chan[i]
      /\ chan'[Len(chan) + 1] = out[w][1]
  BY <1>4, <1>5, <1>6
<1>8. QED
  BY <1>1, <1>2, <1>4, <1>6, <1>7

\* A publication keeps the invariant.
LEMMA NotifySync ==
    ASSUME Undisturbed, SyncInv, Room, NEW w \in Writer, Notify(w)
    PROVE  LoadInv' /\ OutInv' /\ StoreInv' /\ NameInv' /\ ListenInv'
<1> DEFINE n == Len(chan)
<1>0. PICK ev : ev = out[w][1]
  OBVIOUS
<1>1. /\ out[w] # <<>> /\ phase = "up"
      /\ Len(chan') = n + 1
      /\ \A i \in 1 .. n : chan'[i] = chan[i]
      /\ chan'[n + 1] = ev
      /\ out'[w] = <<>>
      /\ \A v \in Writer : v # w => out'[v] = out[v]
      /\ UNCHANGED <<db, toLoad, phase, store, listeners, failed>>
  BY <1>0, NotifyEffect
<1>2. /\ LoadInv /\ OutInv /\ StoreInv /\ NameInv /\ ListenInv
      /\ n \in Nat
  BY LenProperties DEF SyncInv, TypeOK
<1>3. ev.entity \in Entity /\ ev.config = db[ev.entity]
  BY <1>0, <1>1, <1>2, OutEvent DEF SyncInv, OutInv, Event
<1> HIDE DEF n
<1>4. \A d \in Entity : d # ev.entity => (Announcing(d)' <=> Announcing(d))
  BY <1>0, <1>1 DEF Announcing
<1>5. Announcing(ev.entity)
  BY <1>0, <1>1 DEF Announcing
<1>6. /\ \A d \in Entity : d # ev.entity => (InChan(d)' <=> InChan(d))
      /\ InChan(ev.entity)'
  <2>1. \A i \in 1 .. n + 1 : chan'[i].entity =
            IF i = n + 1 THEN ev.entity ELSE chan[i].entity
    BY <1>1, <1>2
  <2>2. \A d : (\E i \in 1 .. n + 1 : chan'[i].entity = d)
                  <=> d = ev.entity \/ \E i \in 1 .. n : chan[i].entity = d
    BY <1>2, <2>1
  <2>3. QED
    BY <1>1, <2>2 DEF InChan, n
<1>7. LoadInv' /\ OutInv'
  BY <1>1, <1>2 DEF LoadInv, OutInv
<1>8. StoreInv'
  <2> SUFFICES ASSUME NEW d \in Entity, ~ Announcing(d)'
               PROVE  /\ \A i \in 1 .. Len(chan') :
                            LastOf(d, i)' => chan'[i].config = db'[d]
                      /\ phase' = "up" /\ ~ InChan(d)' => store'[d] = db'[d]
    BY DEF StoreInv
  <2>1. CASE d = ev.entity
    <3>1. \A i \in 1 .. Len(chan') : LastOf(d, i)' => i = n + 1
      BY <1>1, <1>2, <2>1 DEF LastOf
    <3>2. QED
      BY <1>1, <1>3, <1>6, <2>1, <3>1
  <2>2. CASE d # ev.entity
    <3>1. ~ Announcing(d)
      BY <1>4, <2>2
    <3>2. ASSUME NEW i \in 1 .. Len(chan'), LastOf(d, i)'
          PROVE  i \in 1 .. n /\ LastOf(d, i)
      BY <1>1, <1>2, <2>2, <3>2 DEF LastOf, n
    <3>3. ASSUME NEW i \in 1 .. Len(chan'), LastOf(d, i)'
          PROVE  chan'[i].config = db'[d]
      BY <1>1, <1>2, <3>1, <3>2, <3>3 DEF StoreInv, n
    <3>4. QED
      BY <1>1, <1>2, <1>6, <2>2, <3>1, <3>3 DEF StoreInv
  <2>3. QED
    BY <2>1, <2>2
<1>9. NameInv'
  <2> SUFFICES ASSUME NEW h \in Handler, NEW k \in Handler,
                      NEW i \in 1 .. Len(chan'), h # k, db'[h] # Absent,
                      chan'[i].entity = k, chan'[i].config # Absent,
                      chan'[i].config.name = db'[h].name,
                      ~ Announcing(h)'
               PROVE  \E j \in 1 .. Len(chan') : j > i /\ chan'[j].entity = h
    BY <1>1, <1>2 DEF NameInv
  <2>1. i \in 1 .. n
    <3>1. CASE i = n + 1
      <4>1. k = ev.entity /\ db[k] # Absent /\ db[k].name = db[h].name
        BY <1>1, <1>3, <3>1
      <4>2. QED
        BY <1>1, <1>2, <4>1 DEF NameInv, UniqueNames
    <3>2. QED
      BY <1>1, <1>2, <3>1
  <2>2. chan'[i] = chan[i]
    BY <1>1, <2>1
  <2>3. Announcing(h) \/ \E j \in 1 .. n : j > i /\ chan[j].entity = h
    BY <1>1, <1>2, <2>1, <2>2 DEF NameInv, n
  <2>4. CASE Announcing(h)
    <3>1. h = ev.entity
      BY <1>4, <2>4 DEF Entity
    <3>2. n + 1 \in 1 .. Len(chan') /\ n + 1 > i
      BY <1>1, <1>2, <2>1
    <3>3. QED
      BY <1>1, <3>1, <3>2
  <2>5. CASE \E j \in 1 .. n : j > i /\ chan[j].entity = h
    BY <1>1, <1>2, <2>5
  <2>6. QED
    BY <2>3, <2>4, <2>5
<1>10. ListenInv'
  <2>1. \A h \in Handler : h \in Entity
    BY DEF Entity
  <2>2. \A h \in Handler :
           ~ Announcing(h)' /\ ~ InChan(h)' => ~ Announcing(h) /\ ~ InChan(h)
    BY <1>4, <1>6, <2>1
  <2>3. QED
    BY <1>1, <1>2, <2>2 DEF ListenInv
<1>11. QED
  BY <1>7, <1>8, <1>9, <1>10

\* The background task takes the oldest event and stores what it says.
LEMMA HandleEventEffect ==
    ASSUME SyncInv, HandleEvent
    PROVE  /\ phase = "up" /\ Len(chan) \in Nat \ {0}
           /\ chan[1] \in Event
           /\ Head(chan) = chan[1]
           /\ Len(chan') = Len(chan) - 1
           /\ \A i \in 1 .. Len(chan') : chan'[i] = chan[i + 1]
           /\ store'[chan[1].entity] = chan[1].config
           /\ \A d \in Entity : d # chan[1].entity => store'[d] = store[d]
           /\ UNCHANGED <<db, out, toLoad, phase>>
<1>1. chan \in Seq(Event) /\ chan # <<>> /\ chan' = Tail(chan)
  BY DEF HandleEvent, SyncInv, TypeOK
<1>2. /\ Len(chan) \in Nat \ {0}
      /\ Head(chan) = chan[1] /\ chan[1] \in Event
  <2>1. Len(chan) \in Nat \ {0}
    BY <1>1, EmptySeq
  <2>2. Head(chan) \in Event /\ Head(chan) = chan[1]
    BY <1>1, HeadTailProperties
  <2>3. QED
    BY <2>1, <2>2
<1>3. /\ Len(chan') = Len(chan) - 1
      /\ \A i \in 1 .. Len(chan') : chan'[i] = chan[i + 1]
  BY <1>1, HeadTailProperties
<1>4. store' = [store EXCEPT ![chan[1].entity] = chan[1].config]
  BY <1>2 DEF HandleEvent, Stored
<1>5. QED
  BY <1>2, <1>3, <1>4 DEF HandleEvent, SyncInv, TypeOK, Rows, Event, dbVars

\* Applying an event to another handler leaves the listener of h alone, unless
\* the event has the name of h.
LEMMA OthersListenersStay ==
    ASSUME NEW rows, NEW k, NEW h, NEW c, NEW started \in BOOLEAN,
           [of |-> h, config |-> c] \in listeners,
           rows[k] # Absent => rows[k].name # c.name,
           started => rows[k] # Absent
    PROVE  [of |-> h, config |-> c] \in Relistened(rows, k, started)
BY DEF Relistened, WithoutListener

\* An enabled row is a row.
LEMMA StartedIsRow ==
    ASSUME NEW rows, NEW e, NEW started \in BOOLEAN, Attempt(rows, e, started)
    PROVE  started => rows[e] # Absent
<1>1. started => rows[e].on
  BY AttemptOn
<1>2. ~ Absent.on
  BY DEF Absent
<1>3. QED
  BY <1>1, <1>2

\* Applying an event keeps the invariant.
LEMMA HandleEventSync ==
    ASSUME SyncInv, HandleEvent
    PROVE  LoadInv' /\ OutInv' /\ StoreInv' /\ NameInv' /\ ListenInv'
<1>0. PICK ev : ev = chan[1]
  OBVIOUS
<1> DEFINE n == Len(chan)
<1>1. /\ phase = "up" /\ n \in Nat \ {0}
      /\ ev \in Event /\ Head(chan) = ev
      /\ Len(chan') = n - 1
      /\ \A i \in 1 .. n - 1 : chan'[i] = chan[i + 1]
      /\ store'[ev.entity] = ev.config
      /\ \A d \in Entity : d # ev.entity => store'[d] = store[d]
      /\ UNCHANGED <<db, out, toLoad, phase>>
  BY <1>0, HandleEventEffect
<1>2. LoadInv /\ OutInv /\ StoreInv /\ NameInv /\ ListenInv
  BY DEF SyncInv
<1>3. \A d : Announcing(d)' <=> Announcing(d)
  BY <1>1 DEF Announcing
<1>4. ASSUME NEW d, d # ev.entity PROVE InChan(d) => InChan(d)'
  <2> SUFFICES ASSUME NEW i \in 1 .. n, chan[i].entity = d
               PROVE  \E j \in 1 .. n - 1 : chan'[j].entity = d
    BY <1>1 DEF InChan
  <2>1. i # 1
    BY <1>0, <1>4
  <2>2. i - 1 \in 1 .. n - 1 /\ chan'[i - 1] = chan[i]
    BY <1>1, <2>1
  <2>3. QED
    BY <2>2
<1> HIDE DEF n
<1>5. LoadInv' /\ OutInv'
  BY <1>1, <1>2 DEF LoadInv, OutInv
<1>6. StoreInv'
  <2> SUFFICES ASSUME NEW d \in Entity, ~ Announcing(d)'
               PROVE  /\ \A i \in 1 .. Len(chan') :
                            LastOf(d, i)' => chan'[i].config = db'[d]
                      /\ phase' = "up" /\ ~ InChan(d)' => store'[d] = db'[d]
    BY DEF StoreInv
  <2>1. ~ Announcing(d)
    BY <1>3
  <2>2. ASSUME NEW i \in 1 .. n - 1, LastOf(d, i)'
        PROVE  chan'[i].config = db'[d]
    <3>1. i + 1 \in 1 .. n /\ chan'[i] = chan[i + 1]
      BY <1>1
    <3>2. ASSUME NEW j \in 1 .. n, j > i + 1 PROVE chan[j].entity # d
      <4>1. j - 1 \in 1 .. n - 1 /\ j - 1 > i /\ chan'[j - 1] = chan[j]
        BY <1>1, <3>2
      <4>2. QED
        BY <1>1, <2>2, <4>1 DEF LastOf
    <3>3. LastOf(d, i + 1)
      BY <2>2, <3>1, <3>2 DEF LastOf, n
    <3>4. QED
      BY <1>1, <1>2, <2>1, <3>1, <3>3 DEF StoreInv, n
  <2>3. ASSUME ~ InChan(d)' PROVE store'[d] = db'[d]
    <3>1. CASE d # ev.entity
      BY <1>1, <1>2, <1>4, <2>1, <2>3, <3>1 DEF StoreInv
    <3>2. CASE d = ev.entity
      <4>1. ASSUME NEW j \in 1 .. n, j > 1 PROVE chan[j].entity # d
        <5>1. j - 1 \in 1 .. n - 1 /\ chan'[j - 1] = chan[j]
          BY <1>1, <4>1
        <5>2. QED
          BY <1>1, <2>3, <5>1 DEF InChan
      <4>2. LastOf(d, 1) /\ 1 \in 1 .. n
        BY <1>0, <1>1, <3>2, <4>1 DEF LastOf, n
      <4>3. QED
        BY <1>0, <1>1, <1>2, <2>1, <3>2, <4>2 DEF StoreInv, n
    <3>3. QED
      BY <3>1, <3>2
  <2>4. QED
    BY <1>1, <2>2, <2>3
<1>7. NameInv'
  <2> SUFFICES ASSUME NEW h \in Handler, NEW k \in Handler,
                      NEW i \in 1 .. n - 1, h # k, db[h] # Absent,
                      chan'[i].entity = k, chan'[i].config # Absent,
                      chan'[i].config.name = db[h].name,
                      ~ Announcing(h)
               PROVE  \E j \in 1 .. n - 1 : j > i /\ chan'[j].entity = h
    BY <1>1, <1>2, <1>3 DEF NameInv
  <2>1. i + 1 \in 1 .. n /\ chan'[i] = chan[i + 1]
    BY <1>1
  <2>2. PICK j \in 1 .. n : j > i + 1 /\ chan[j].entity = h
    BY <1>2, <2>1 DEF NameInv, n
  <2>3. j - 1 \in 1 .. n - 1 /\ j - 1 > i /\ chan'[j - 1] = chan[j]
    BY <1>1, <2>2
  <2>4. QED
    BY <2>2, <2>3
<1>8. ListenInv'
  <2> SUFFICES ASSUME NEW h \in Handler, db[h].on, h \notin failed',
                      ~ Announcing(h), ~ InChan(h)'
               PROVE  [of |-> h, config |-> db[h]] \in listeners'
    BY <1>1, <1>3 DEF ListenInv
  <2>0. h \in Entity /\ db[h] # Absent
    BY DEF Entity, Absent
  <2>1. h # ev.entity => [of |-> h, config |-> db[h]] \in listeners \/ h \in failed
    BY <1>1, <1>2, <1>4 DEF ListenInv
  <2>2. CASE ev.entity \in Server /\ UNCHANGED <<jobs, listeners, failed>>
    BY <2>1, <2>2, ConfigSyncAssumption
  <2>3. ASSUME NEW started \in BOOLEAN, ev.entity \in Sched,
               failed' = Failures(store', ev.entity, started), UNCHANGED listeners
        PROVE  [of |-> h, config |-> db[h]] \in listeners'
    BY <2>1, <2>3, ConfigSyncAssumption DEF Failures
  <2>4. ASSUME NEW started \in BOOLEAN, ev.entity \in Handler,
               Attempt(store', ev.entity, started),
               listeners' = Relistened(store', ev.entity, started),
               failed' = Failures(store', ev.entity, started)
        PROVE  [of |-> h, config |-> db[h]] \in listeners'
    <3>1. CASE h = ev.entity
      <4>1. store'[h] = db[h]
        BY <1>1, <1>3, <1>6, <2>0 DEF StoreInv
      <4>2. started
        BY <2>4, <3>1, <4>1 DEF Failures
      <4>3. QED
        BY <2>4, <3>1, <4>1, <4>2 DEF Relistened
    <3>2. CASE h # ev.entity
      <4>1. [of |-> h, config |-> db[h]] \in listeners
        BY <2>1, <2>4, <3>2 DEF Failures
      <4>2. ~ InChan(h)
        BY <1>4, <3>2
      <4>3. ev.config # Absent => ev.config.name # db[h].name
        <5>1. 1 \in 1 .. n /\ chan[1].entity = ev.entity /\ chan[1].config = ev.config
          BY <1>0, <1>1
        <5>2. ~ \E j \in 1 .. n : j > 1 /\ chan[j].entity = h
          BY <4>2 DEF InChan, n
        <5>3. QED
          BY <1>2, <2>0, <2>4, <3>2, <5>1, <5>2 DEF NameInv, n
      <4>4. QED
        BY <1>1, <2>4, <4>1, <4>3, OthersListenersStay, StartedIsRow
    <3>3. QED
      BY <3>1, <3>2
  <2>5. QED
    BY <1>1, <2>2, <2>3, <2>4 DEF HandleEvent
<1>9. QED
  BY <1>5, <1>6, <1>7, <1>8

\* Loading and starting keep the invariant.
LEMMA StartupSync ==
    ASSUME SyncInv, Startup
    PROVE  LoadInv' /\ OutInv' /\ StoreInv' /\ NameInv' /\ ListenInv'
<1>1. /\ LoadInv /\ OutInv /\ StoreInv /\ NameInv
      /\ toLoad \in SUBSET Table
      /\ store \in Rows
  BY DEF SyncInv, TypeOK
<1>2. ASSUME NEW table \in Table, Load(table)
      PROVE  LoadInv' /\ OutInv' /\ StoreInv' /\ NameInv' /\ ListenInv'
  <2>1. /\ phase = "loading"
        /\ toLoad' = toLoad \ {table}
        /\ store' = [e \in Entity |-> IF e \in table THEN db[e] ELSE store[e]]
        /\ UNCHANGED <<db, out, chan, phase>>
    BY <1>1, <1>2 DEF Load, LoadInv, dbVars
  <2>2. chan = <<>> /\ Len(chan) = 0
    BY <1>1, <2>1 DEF LoadInv
  <2>3. ASSUME NEW t \in Table \ toLoad', NEW e \in t
        PROVE  store'[e] = db'[e]
    <3>1. e \in Entity
      BY <2>3 DEF Table, Entity
    <3>2. e \notin table => store[e] = db[e]
      BY <1>1, <2>1, <2>3 DEF LoadInv
    <3>3. QED
      BY <2>1, <3>1, <3>2
  <2>4. LoadInv'
    BY <1>1, <2>1, <2>3 DEF LoadInv
  <2>5. OutInv' /\ StoreInv' /\ NameInv' /\ ListenInv'
    BY <1>1, <2>1, <2>2 DEF OutInv, StoreInv, NameInv, ListenInv, UniqueNames,
                            Announcing
  <2>6. QED
    BY <2>4, <2>5
<1>3. CASE Start
  <2>1. /\ phase = "loading" /\ toLoad = {} /\ phase' = "up"
        /\ listeners' = {[of |-> h, config |-> store[h]] :
                            h \in {k \in Handler : store[k].on /\ k \notin failed'}}
        /\ UNCHANGED <<db, out, chan, toLoad, store>>
    BY <1>3 DEF Start, dbVars
  <2>2. /\ chan = <<>> /\ Len(chan) = 0
        /\ \A e \in Entity : store[e] = db[e]
    BY <1>1, <2>1, EntityTable DEF LoadInv
  <2>3. LoadInv' /\ OutInv' /\ NameInv'
    BY <1>1, <2>1, <2>2 DEF LoadInv, OutInv, NameInv, UniqueNames, Announcing
  <2>4. StoreInv'
    BY <2>1, <2>2 DEF StoreInv
  <2>5. ListenInv'
    BY <2>1, <2>2 DEF ListenInv, Entity
  <2>6. QED
    BY <2>3, <2>4, <2>5
<1>4. QED
  BY <1>2, <1>3 DEF Startup

\* The invariant is kept by every step as long as the channel has room.
LEMMA SyncStep ==
    ASSUME Undisturbed, SyncInv, Room, [Next]_vars
    PROVE  SyncInv'
<1>1. TypeOK'
  BY TypeStep DEF SyncInv
<1>2. ASSUME NEW w \in Writer, Write(w) \/ Notify(w) PROVE SyncInv'
  BY <1>1, <1>2, WriteSync, NotifySync DEF SyncInv
<1>3. CASE Startup
  BY <1>1, <1>3, StartupSync DEF SyncInv
<1>4. CASE HandleEvent
  BY <1>1, <1>4, HandleEventSync DEF SyncInv
<1>5. ~ ReceiverEnds
  BY DEF ReceiverEnds, Undisturbed
<1>6. CASE UNCHANGED vars
  BY <1>6
     DEF vars, SyncInv, TypeOK, LoadInv, OutInv, StoreInv, NameInv, ListenInv,
         UniqueNames, Announcing, InChan, LastOf
<1>7. QED
  BY <1>2, <1>3, <1>4, <1>5, <1>6 DEF Next

\* Once everything was announced and applied, nothing is on its way.
LEMMA SettledConverges == SyncInv => StoreConverges /\ ListenersConverge
<1> SUFFICES ASSUME SyncInv, Settled
             PROVE  /\ store = db
                    /\ \A h \in Handler :
                          db[h].on /\ h \notin failed =>
                              [of |-> h, config |-> db[h]] \in listeners
  BY DEF StoreConverges, ListenersConverge
<1>1. \A e \in Entity : ~ Announcing(e) /\ ~ InChan(e)
  BY DEF Settled, Announcing, InChan
<1>2. \A e \in Entity : store[e] = db[e]
  BY <1>1 DEF SyncInv, StoreInv, Settled
<1>3. store = db
  BY <1>2 DEF SyncInv, TypeOK, Rows
<1>4. QED
  BY <1>1, <1>3 DEF SyncInv, ListenInv, Settled, Entity

\* As long as the channel never lacks room for an event, whatever the number of
\* writes, the store holds what the database holds once everything is applied.
THEOREM StoreFollowsDatabase ==
    Undisturbed => (Spec /\ []Room => []StoreConverges)
<1> SUFFICES ASSUME Undisturbed PROVE Spec /\ []Room => []StoreConverges
  OBVIOUS
<1>1. SyncInv /\ Room /\ [Next]_vars => SyncInv'
  BY SyncStep
<1>2. QED
  BY <1>1, SyncInit, SettledConverges, PTL DEF Spec

\* And every enabled handler then has a listener of its own with its current
\* configuration, unless its last start failed, however handlers take over each
\* other's names and whichever of their changes is announced first.
THEOREM ListenersFollowDatabase ==
    Undisturbed => (Spec /\ []Room => []ListenersConverge)
<1> SUFFICES ASSUME Undisturbed PROVE Spec /\ []Room => []ListenersConverge
  OBVIOUS
<1>1. SyncInv /\ Room /\ [Next]_vars => SyncInv'
  BY SyncStep
<1>2. QED
  BY <1>1, SyncInit, SettledConverges, PTL DEF Spec

-----------------------------------------------------------------------------
(* Few writes always find room *)

\* RPC handlers that have an event to publish
Busy == {w \in Writer : out[w] # <<>>}

\* Every event in the channel or to be published comes from a write of its own.
CountInv ==
    /\ TypeOK
    /\ IsFiniteSet(Busy)
    /\ Len(chan) + Cardinality(Busy) <= writes

\* No event and no write initially.
LEMMA CountInit == Init => CountInv
<1> SUFFICES ASSUME Init PROVE CountInv
  OBVIOUS
<1>1. Busy = {} /\ Len(chan) = 0 /\ writes = 0
  BY DEF Init, Busy
<1>2. QED
  BY <1>1, TypeInit, FS_EmptySet DEF CountInv

\* The channel grows by at most the event that is published.
LEMMA PublishedLength ==
    ASSUME TypeOK, NEW w \in Writer, out[w] # <<>>
    PROVE  Len(Published(out[w])) <= Len(chan) + 1
<1>1. out[w] \in Seq(Event) /\ Len(out[w]) = 1 /\ chan \in Seq(Event)
  BY OneElement DEF TypeOK
<1>2. /\ chan \o out[w] \in Seq(Event)
      /\ Len(chan \o out[w]) = Len(chan) + 1
      /\ Len(chan) \in Nat
  <2>1. /\ chan \o out[w] \in Seq(Event)
        /\ Len(chan \o out[w]) = Len(chan) + Len(out[w])
    BY <1>1, ConcatenationLength
  <2>2. Len(chan) \in Nat
    BY <1>1
  <2>3. QED
    BY <1>1, <2>1, <2>2
<1>3. chan \o out[w] # <<>>
  BY <1>2
<1>4. Len(Tail(chan \o out[w])) = Len(chan)
  BY <1>2, <1>3, HeadTailProperties
<1>5. QED
  BY <1>2, <1>4 DEF Published

\* CountInv is kept by every step, with or without faults and loss.
LEMMA CountStep == CountInv /\ [Next]_vars => CountInv'
<1> SUFFICES ASSUME CountInv, [Next]_vars PROVE CountInv'
  OBVIOUS
<1>0. TypeOK /\ TypeOK'
  BY TypeStep DEF CountInv
<1>1. /\ chan \in Seq(Event) /\ chan' \in Seq(Event)
      /\ Len(chan) \in Nat /\ Len(chan') \in Nat
      /\ writes \in Nat
      /\ IsFiniteSet(Busy) /\ Cardinality(Busy) \in Nat
      /\ Len(chan) + Cardinality(Busy) <= writes
  BY <1>0, LenProperties, FS_CardinalityType, ConfigSyncAssumption
     DEF TypeOK, CountInv
<1>2. ASSUME UNCHANGED <<out, writes>>, Len(chan') <= Len(chan)
      PROVE  CountInv'
  <2>1. Busy' = Busy
    BY <1>2 DEF Busy
  <2>2. QED
    BY <1>0, <1>1, <1>2, <2>1 DEF CountInv
<1>3. ASSUME NEW w \in Writer, Write(w) PROVE CountInv'
  <2>1. PICK e \in Entity : \E c :
          /\ out[w] = <<>>
          /\ out' = [out EXCEPT ![w] = <<[entity |-> e, config |-> c]>>]
          /\ writes' = writes + 1
          /\ chan' = chan
    BY <1>3 DEF Write, Create, Update, Delete, MayWrite, Committed
  <2>2. Busy' = Busy \cup {w} /\ w \notin Busy
    BY <1>0, <2>1 DEF Busy, TypeOK
  <2>3. IsFiniteSet(Busy') /\ Cardinality(Busy') = Cardinality(Busy) + 1
    BY <1>1, <2>2, FS_AddElement
  <2>4. QED
    BY <1>0, <1>1, <2>1, <2>3 DEF CountInv
<1>4. ASSUME NEW w \in Writer, Notify(w) PROVE CountInv'
  <2>1. /\ out[w] # <<>>
        /\ out' = [out EXCEPT ![w] = <<>>]
        /\ writes' = writes
        /\ Len(chan') <= Len(chan) + 1
    BY <1>0, <1>1, <1>4, PublishedLength DEF Notify, dbVars
  <2>2. Busy' = Busy \ {w} /\ w \in Busy
    BY <1>0, <2>1 DEF Busy, TypeOK
  <2>3. IsFiniteSet(Busy') /\ Cardinality(Busy') = Cardinality(Busy) - 1
    BY <1>1, <2>2, FS_RemoveElement
  <2>4. QED
    BY <1>0, <1>1, <2>1, <2>3 DEF CountInv
<1>5. CASE Startup
  BY <1>1, <1>2, <1>5 DEF Startup, Start, Load, dbVars
<1>6. CASE HandleEvent
  <2>1. Len(chan') = Len(chan) - 1
    BY <1>1, <1>6, HeadTailProperties DEF HandleEvent
  <2>2. UNCHANGED <<out, writes>>
    BY <1>6 DEF HandleEvent, dbVars
  <2>3. QED
    BY <1>1, <1>2, <2>1, <2>2
<1>7. CASE ReceiverEnds
  BY <1>1, <1>2, <1>7 DEF ReceiverEnds, dbVars
<1>8. CASE UNCHANGED vars
  BY <1>1, <1>2, <1>8 DEF vars
<1>9. QED
  BY <1>3, <1>4, <1>5, <1>6, <1>7, <1>8 DEF Next

\* At most as many writes as the channel holds events leave room for each.
LEMMA FewWritesFit == MaxWrites <= Capacity /\ CountInv => Room
<1> SUFFICES ASSUME MaxWrites <= Capacity, CountInv, NEW w \in Writer, out[w] # <<>>
             PROVE  Len(chan) < Capacity
  BY DEF Room
<1>1. /\ Len(chan) \in Nat /\ writes \in Nat /\ writes <= MaxWrites
      /\ MaxWrites \in Nat /\ Capacity \in Nat
      /\ Cardinality(Busy) \in Nat
      /\ Len(chan) + Cardinality(Busy) <= writes
  BY LenProperties, FS_CardinalityType, ConfigSyncAssumption DEF TypeOK, CountInv
<1>2. Cardinality(Busy) # 0
  BY FS_EmptySet DEF Busy, CountInv
<1>3. QED
  BY <1>1, <1>2

\* Without any assumption about how fast the background task is, a number of
\* writes that the channel holds reaches the store and the listeners.
THEOREM FewWritesConverge ==
    Undisturbed /\ MaxWrites <= Capacity =>
        (Spec => [](StoreConverges /\ ListenersConverge))
<1> SUFFICES ASSUME Undisturbed, MaxWrites <= Capacity
             PROVE  Spec => [](StoreConverges /\ ListenersConverge)
  OBVIOUS
<1>1. CountInv => Room
  BY FewWritesFit
<1>2. SyncInv /\ Room /\ [Next]_vars => SyncInv'
  BY SyncStep
<1>3. QED
  BY <1>1, <1>2, CountInit, CountStep, SyncInit, SettledConverges, PTL DEF Spec

=============================================================================
