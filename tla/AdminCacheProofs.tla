---------------------------- MODULE AdminCacheProofs ----------------------------
(***************************************************************************)
(* What the admin API answers, for any number of rows, names, RPC handlers *)
(* and connections: types and the exclusion of the key locks, finds of one *)
(* key that never go back, and finds by id that see the caller's writes.   *)
(***************************************************************************)
EXTENDS AdminCache, TLAPS

-----------------------------------------------------------------------------
(* The inductive invariant *)

Finding == {"lookup", "locked", "loaded", "found"}
Clearing == {"clear", "clear_name"}

\* Every stamp is that of a commit, so the next one is newer than all of them.
StampsAreCommits ==
    /\ \A r \in Row : db[r].stamp <= version /\ acked[r] <= version
    /\ \A k \in Key : cache[k] <= version /\ seen[k] <= version
    /\ \A t \in Task : task[t].pc \in Finding => task[t].row <= version
    /\ \A t \in Task : task[t].pc \in Clearing => task[t].stamp <= version

NamesAreUnique ==
    \A r, s \in Row : db[r].live /\ db[s].live /\ db[r].name = db[s].name => r = s

\* The row under a key is newer than what is cached, on its way or answered.
TableIsNewest ==
    \A k \in Key, r \in Row : Under(k, r) =>
        /\ cache[k] <= db[r].stamp
        /\ seen[k] <= db[r].stamp
        /\ \A t \in Task :
            task[t].pc \in {"loaded", "found"} /\ task[t].key = k => task[t].row <= db[r].stamp

\* While a key is locked nothing is cached under it.
LockedKeysAreEmpty ==
    \A t \in Task : task[t].pc \in Loading => cache[task[t].key] = Nothing

\* What may still be found under a key is not older than what was found.
CacheIsNewer ==
    \A k \in Key : cache[k] # Nothing =>
        /\ seen[k] <= cache[k]
        /\ \A t \in Task : task[t].pc = "found" /\ task[t].key = k => task[t].row <= cache[k]
LoadedIsNewer ==
    \A t \in Task : task[t].pc = "loaded" /\ task[t].row # Nothing =>
        /\ seen[task[t].key] <= task[t].row
        /\ \A u \in Task :
            task[u].pc = "found" /\ task[u].key = task[t].key => task[u].row <= task[t].row

\* What a find was called after is still known.
FloorsHold ==
    \A t \in Task : task[t].pc \in Finding =>
        /\ task[t].seen <= seen[task[t].key]
        /\ task[t].acked <= IF task[t].key \in Row THEN acked[task[t].key] ELSE 0

\* Without the Slack service: rows, entries and loads are not older than answers.
WritesAreSeen ==
    ~ slack =>
        /\ \A r \in Row : db[r].live => acked[r] <= db[r].stamp
        /\ \A r \in Row, t \in Task :
            db[r].live /\ task[t].pc \in Clearing /\ task[t].row = r => task[t].stamp <= db[r].stamp
        /\ \A r \in Row : cache[r] # Nothing => acked[r] <= cache[r]
        /\ \A t \in Task :
            task[t].pc = "loaded" /\ task[t].row # Nothing /\ task[t].key \in Row
                => acked[task[t].key] <= task[t].row
        /\ \A t \in Task : task[t].pc # "clear_name"

IInv ==
    /\ TypeOK /\ StampsAreCommits /\ NamesAreUnique /\ TableIsNewest
    /\ LockedKeysAreEmpty /\ CacheIsNewer /\ LoadedIsNewer /\ FloorsHold
    /\ WritesAreSeen /\ AnswersNeverGoBack /\ ReadYourWrites

-----------------------------------------------------------------------------
(* Lemmas *)

LEMMA KeysOfRows == ASSUME NEW k \in Key, NEW r \in Row, TypeOK, Under(k, r)
                    PROVE  db[r].live /\ (k = r \/ (k \in Name /\ db[r].name = k))
BY DEF TypeOK, Under, Key

\* A find reads the row under its key, or nothing if there is none.
LEMMA ReadIsUnder ==
    ASSUME IInv, NEW k \in Key
    PROVE  /\ Read(k) \in Nat /\ Read(k) <= version
           /\ \A r \in Row : Under(k, r) => Read(k) = db[r].stamp
           /\ Read(k) # Nothing => \E r \in Row : Under(k, r) /\ Read(k) = db[r].stamp
<1>1. CASE \E r \in Row : Under(k, r)
  <2> DEFINE c == CHOOSE r \in Row : Under(k, r)
  <2>1. c \in Row /\ Under(k, c)
    BY <1>1
  <2>2. Read(k) = db[c].stamp
    BY <1>1 DEF Read
  <2> HIDE DEF c
  <2>3. \A r \in Row : Under(k, r) => r = c
    BY <2>1, AdminCacheAssumption DEF IInv, TypeOK, NamesAreUnique, Under, Key
  <2> QED
    BY <2>1, <2>2, <2>3 DEF IInv, TypeOK, StampsAreCommits
<1>2. CASE ~ \E r \in Row : Under(k, r)
  <2>1. Read(k) = 0
    BY <1>2 DEF Read, Nothing
  <2> QED
    BY <1>2, <2>1 DEF IInv, TypeOK, Nothing
<1> QED
  BY <1>1, <1>2

LEMMA FindersAreFinders ==
    ASSUME TypeOK, NEW t \in Task, task[t].pc \in Finding
    PROVE  task[t] \in Finder
BY DEF TypeOK, Finding, Finder, Writer, Idle

LEMMA WritersAreWriters ==
    ASSUME TypeOK, NEW t \in Task, task[t].pc \notin Finding, task[t].pc # "idle"
    PROVE  task[t] \in Writer
BY DEF TypeOK, Finding, Finder, Writer, Idle

LEMMA Fields ==
    ASSUME TypeOK
    PROVE  /\ \A u \in Task : task[u].pc \in Finding =>
               /\ task[u].key \in Key /\ task[u].row \in Nat
               /\ task[u].seen \in Nat /\ task[u].acked \in Nat
           /\ \A u \in Task : task[u].pc \in Clearing =>
               task[u].row \in Row /\ task[u].name \in Name /\ task[u].stamp \in Nat
           /\ \A k \in Key : cache[k] \in Nat /\ seen[k] \in Nat
           /\ \A r \in Row : r \in Key /\ acked[r] \in Nat /\ db[r].stamp \in Nat
           /\ version \in Nat
<1>1. \A u \in Task : task[u].pc \in Finding => task[u] \in Finder
  BY FindersAreFinders
<1>2. \A u \in Task : task[u].pc \in Clearing => task[u] \in Writer
  BY WritersAreWriters DEF Finding, Clearing
<1> QED
  BY <1>1, <1>2 DEF TypeOK, Finder, Writer, Key

\* A step of a write before its commit touches nothing that a find reads, and
\* so does the end of any call.
LEMMA WriterMoves ==
    ASSUME IInv, NEW t \in Task, NEW w \in Writer \cup {Idle}, w.pc \notin Clearing,
           task' = [task EXCEPT ![t] = w],
           UNCHANGED <<slack, db, version, cache, seen, acked>>
    PROVE  IInv'
<1>1. w.pc \notin Finding
  BY DEF Writer, Idle, Finding
<1>2. \A u \in Task : u # t => task'[u] = task[u]
  BY DEF IInv, TypeOK
<1>3. task'[t] = w
  BY DEF IInv, TypeOK
<1>4. TypeOK'
  BY <1>1, <1>2, <1>3 DEF IInv, TypeOK, Loading, Finding
<1>5. StampsAreCommits'
  BY <1>1, <1>2, <1>3 DEF IInv, StampsAreCommits
<1>6. NamesAreUnique' /\ TableIsNewest'
  BY <1>1, <1>2, <1>3 DEF IInv, NamesAreUnique, TableIsNewest, Under, Finding
<1>7. LockedKeysAreEmpty'
  BY <1>1, <1>2, <1>3 DEF IInv, LockedKeysAreEmpty, Loading, Finding
<1>8. CacheIsNewer' /\ LoadedIsNewer'
  BY <1>1, <1>2, <1>3 DEF IInv, CacheIsNewer, LoadedIsNewer, Finding
<1>9. FloorsHold'
  BY <1>1, <1>2, <1>3 DEF IInv, FloorsHold, Finding
<1>10. WritesAreSeen'
  BY <1>1, <1>2, <1>3 DEF IInv, WritesAreSeen, Finding, Clearing
<1>11. AnswersNeverGoBack' /\ ReadYourWrites'
  BY <1>1, <1>2, <1>3 DEF IInv, AnswersNeverGoBack, ReadYourWrites, Finding
<1> QED
  BY <1>4, <1>5, <1>6, <1>7, <1>8, <1>9, <1>10, <1>11 DEF IInv

LEMMA BeginFindStep ==
    ASSUME IInv, NEW t \in Task, NEW k \in Key, BeginFind(t, k) PROVE IInv'
<1>1. /\ UNCHANGED <<slack, db, version, cache, seen, acked>>
      /\ \A u \in Task : u # t => task'[u] = task[u]
  BY DEF BeginFind, IInv, TypeOK, Goto, Ends
<1>2. task[t].pc = "idle"
  BY DEF Idle, BeginFind
<1>3. task'[t].pc = "lookup" /\ task'[t].key = k /\ task'[t].row = Nothing /\ task'[t].seen = seen[k] /\ task'[t].acked = (IF k \in Row THEN acked[k] ELSE 0)
  BY DEF BeginFind, IInv, TypeOK
<1>4. task'[t] \in Finder
  BY DEF BeginFind, IInv, TypeOK, Finder, Nothing, Key
<1>5. TypeOK'
  <2>1. task' \in [Task -> Finder \cup Writer \cup {Idle}]
    BY <1>1, <1>2, <1>3, <1>4 DEF IInv, TypeOK, BeginFind, Goto, Ends
  <2>2. \A u, v \in Task :
            u # v /\ task'[u].pc \in Loading /\ task'[v].pc \in Loading => task'[u].key # task'[v].key
    BY <1>1, <1>2, <1>3, <1>4 DEF IInv, TypeOK, Loading, BeginFind, Unlocked
  <2>3. cache' \in [Key -> Nat] /\ seen' \in [Key -> Nat]
    BY <1>1, <1>2, <1>3, <1>4, Fields DEF IInv, TypeOK, Finding, BeginFind
  <2> QED
    BY <1>1, <2>1, <2>2, <2>3 DEF IInv, TypeOK
<1>6. StampsAreCommits'
  BY <1>1, <1>2, <1>3, <1>4, Fields DEF IInv, StampsAreCommits, Finding, Clearing, Nothing, Key
<1>7. NamesAreUnique'
  BY <1>1, <1>2, <1>3, <1>4, Fields DEF IInv, NamesAreUnique
<1>8. TableIsNewest'
  BY <1>1, <1>2, <1>3, <1>4, Fields DEF IInv, TableIsNewest, Under, Finding, Key
<1>9. LockedKeysAreEmpty'
  BY <1>1, <1>2, <1>3, <1>4, Fields DEF IInv, LockedKeysAreEmpty, Loading, Finding, Key, Nothing
<1>10. CacheIsNewer'
  BY <1>1, <1>2, <1>3, <1>4, Fields DEF IInv, CacheIsNewer, Finding, Nothing
<1>11. LoadedIsNewer'
  BY <1>1, <1>2, <1>3, <1>4, Fields DEF IInv, LoadedIsNewer, Finding, Nothing, Key
<1>12. FloorsHold'
  BY <1>1, <1>2, <1>3, <1>4, Fields DEF IInv, FloorsHold, Finding, Key
<1>13. WritesAreSeen'
  BY <1>1, <1>2, <1>3, <1>4, Fields DEF IInv, WritesAreSeen, Finding, Clearing, Nothing, Key
<1>14. AnswersNeverGoBack'
  BY <1>1, <1>2, <1>3, <1>4, Fields DEF IInv, AnswersNeverGoBack, Finding, Nothing
<1>15. ReadYourWrites'
  BY <1>1, <1>2, <1>3, <1>4, Fields DEF IInv, ReadYourWrites, Finding, Nothing, Key
<1> QED
  BY <1>5, <1>6, <1>7, <1>8, <1>9, <1>10, <1>11, <1>12, <1>13, <1>14, <1>15 DEF IInv

LEMMA LookupStep ==
    ASSUME IInv, NEW t \in Task, Lookup(t) PROVE IInv'
<1>1. /\ UNCHANGED <<slack, db, version, cache, seen, acked>>
      /\ \A u \in Task : u # t => task'[u] = task[u]
  BY DEF Lookup, IInv, TypeOK, Goto, Ends
<1>2. task[t].pc = "lookup" /\ task[t] \in Finder
  BY FindersAreFinders DEF Lookup, IInv, Finding
<1>3. /\ task'[t].pc = (IF cache[task[t].key] = Nothing THEN "locked" ELSE "found")
      /\ task'[t].row = cache[task[t].key]
      /\ task'[t].key = task[t].key /\ task'[t].seen = task[t].seen /\ task'[t].acked = task[t].acked
  BY <1>2 DEF Lookup, IInv, TypeOK, Finder
<1>4. task'[t] \in Finder
  BY <1>2 DEF Lookup, IInv, TypeOK, Finder, Key
<1>5. TypeOK'
  <2>1. task' \in [Task -> Finder \cup Writer \cup {Idle}]
    BY <1>1, <1>2, <1>3, <1>4 DEF IInv, TypeOK, Lookup, Goto, Ends
  <2>2. \A u, v \in Task :
            u # v /\ task'[u].pc \in Loading /\ task'[v].pc \in Loading => task'[u].key # task'[v].key
    BY <1>1, <1>2, <1>3, <1>4 DEF IInv, TypeOK, Loading, Lookup, Unlocked
  <2>3. cache' \in [Key -> Nat] /\ seen' \in [Key -> Nat]
    BY <1>1, <1>2, <1>3, <1>4, Fields DEF IInv, TypeOK, Finding, Lookup
  <2> QED
    BY <1>1, <2>1, <2>2, <2>3 DEF IInv, TypeOK
<1>6. StampsAreCommits'
  BY <1>1, <1>2, <1>3, <1>4, Fields DEF IInv, StampsAreCommits, Finding, Clearing, Nothing, Key
<1>7. NamesAreUnique'
  BY <1>1, <1>2, <1>3, <1>4, Fields DEF IInv, NamesAreUnique
<1>8. TableIsNewest'
  BY <1>1, <1>2, <1>3, <1>4, Fields DEF IInv, TableIsNewest, Under, Finding, Key
<1>9. LockedKeysAreEmpty'
  BY <1>1, <1>2, <1>3, <1>4, Fields DEF IInv, LockedKeysAreEmpty, Loading, Finding, Key, Nothing
<1>10. CacheIsNewer'
  BY <1>1, <1>2, <1>3, <1>4, Fields DEF IInv, CacheIsNewer, Finding, Nothing
<1>11. LoadedIsNewer'
  <2>1. \A u \in Task : task[u].pc = "loaded" => task[u].key # task[t].key
    BY DEF Lookup, Unlocked, Loading
  <2> SUFFICES ASSUME NEW u \in Task, task'[u].pc = "loaded", task'[u].row # Nothing
               PROVE  /\ seen[task'[u].key] <= task'[u].row
                      /\ \A v \in Task : task'[v].pc = "found" /\ task'[v].key = task'[u].key
                            => task'[v].row <= task'[u].row
    BY <1>1 DEF LoadedIsNewer
  <2>2. u # t /\ task[u] = task'[u] /\ task[u].key # task[t].key
    BY <1>1, <1>3, <2>1
  <2> QED
    BY <2>2, <1>1, <1>3 DEF IInv, LoadedIsNewer
<1>12. FloorsHold'
  BY <1>1, <1>2, <1>3, <1>4, Fields DEF IInv, FloorsHold, Finding, Key
<1>13. WritesAreSeen'
  BY <1>1, <1>2, <1>3, <1>4, Fields DEF IInv, WritesAreSeen, Finding, Clearing, Nothing, Key
<1>14. AnswersNeverGoBack'
  BY <1>1, <1>2, <1>3, <1>4, Fields DEF IInv, AnswersNeverGoBack, Finding, Nothing, CacheIsNewer, FloorsHold
<1>15. ReadYourWrites'
  BY <1>1, <1>2, <1>3, <1>4, Fields DEF IInv, ReadYourWrites, Finding, Nothing, Key, WritesAreSeen, FloorsHold
<1> QED
  BY <1>5, <1>6, <1>7, <1>8, <1>9, <1>10, <1>11, <1>12, <1>13, <1>14, <1>15 DEF IInv

LEMMA LoadStep ==
    ASSUME IInv, NEW t \in Task, Load(t) PROVE IInv'
<1>1. /\ UNCHANGED <<slack, db, version, cache, seen, acked>>
      /\ \A u \in Task : u # t => task'[u] = task[u]
  BY DEF Load, IInv, TypeOK, Goto, Ends
<1>2. task[t].pc = "locked" /\ task[t] \in Finder
  BY FindersAreFinders DEF Load, IInv, Finding
<1>3. /\ task'[t].pc = "loaded" /\ task'[t].row = Read(task[t].key)
      /\ task'[t].key = task[t].key /\ task'[t].seen = task[t].seen /\ task'[t].acked = task[t].acked
  BY <1>2 DEF Load, IInv, TypeOK, Finder
<1>4. /\ Read(task[t].key) \in Nat /\ Read(task[t].key) <= version
      /\ \A r \in Row : Under(task[t].key, r) => Read(task[t].key) = db[r].stamp
      /\ Read(task[t].key) # Nothing => \E r \in Row : Under(task[t].key, r) /\ Read(task[t].key) = db[r].stamp
  BY <1>2, ReadIsUnder DEF Finder
<1>5. task'[t] \in Finder
  BY <1>2, <1>4 DEF Load, IInv, TypeOK, Finder, Key
<1>6. TypeOK'
  <2>1. task' \in [Task -> Finder \cup Writer \cup {Idle}]
    BY <1>1, <1>2, <1>3, <1>4, <1>5 DEF IInv, TypeOK, Load, Goto, Ends
  <2>2. \A u, v \in Task :
            u # v /\ task'[u].pc \in Loading /\ task'[v].pc \in Loading => task'[u].key # task'[v].key
    BY <1>1, <1>2, <1>3, <1>4, <1>5 DEF IInv, TypeOK, Loading, Load, Unlocked
  <2>3. cache' \in [Key -> Nat] /\ seen' \in [Key -> Nat]
    BY <1>1, <1>2, <1>3, <1>4, <1>5, Fields DEF IInv, TypeOK, Finding, Load
  <2> QED
    BY <1>1, <2>1, <2>2, <2>3 DEF IInv, TypeOK
<1>7. StampsAreCommits'
  BY <1>1, <1>2, <1>3, <1>4, <1>5, Fields DEF IInv, StampsAreCommits, Finding, Clearing, Nothing, Key
<1>8. NamesAreUnique'
  BY <1>1, <1>2, <1>3, <1>4, <1>5, Fields DEF IInv, NamesAreUnique
<1>9. TableIsNewest'
  <2> SUFFICES ASSUME NEW k \in Key, NEW r \in Row, Under(k, r), NEW u \in Task,
                      task'[u].pc \in {"loaded", "found"}, task'[u].key = k
               PROVE  task'[u].row <= db[r].stamp
    BY <1>1 DEF IInv, TableIsNewest, Under
  <2>1. CASE u = t
    BY <2>1, <1>3, <1>4, Fields DEF IInv
  <2>2. CASE u # t
    BY <2>2, <1>1 DEF IInv, TableIsNewest
  <2> QED
    BY <2>1, <2>2
<1>10. LockedKeysAreEmpty'
  BY <1>1, <1>2, <1>3, <1>4, <1>5, Fields DEF IInv, LockedKeysAreEmpty, Loading, Finding, Key, Nothing
<1>11. CacheIsNewer'
  BY <1>1, <1>2, <1>3, <1>4, <1>5, Fields DEF IInv, CacheIsNewer, Finding, Nothing
<1>12. LoadedIsNewer'
  BY <1>1, <1>2, <1>3, <1>4, <1>5, Fields DEF IInv, LoadedIsNewer, Finding, Nothing, Key, TableIsNewest
<1>13. FloorsHold'
  BY <1>1, <1>2, <1>3, <1>4, <1>5, Fields DEF IInv, FloorsHold, Finding, Key
<1>14. WritesAreSeen'
  <2>1. ASSUME ~ slack, task'[t].row # Nothing, task'[t].key \in Row
        PROVE  acked[task'[t].key] <= task'[t].row
    <3>1. PICK r \in Row : Under(task[t].key, r) /\ Read(task[t].key) = db[r].stamp
      BY <2>1, <1>3, <1>4
    <3>2. db[r].live /\ task[t].key = r
      BY <2>1, <3>1, <1>3, AdminCacheAssumption DEF IInv, TypeOK, Under
    <3> QED
      BY <2>1, <3>1, <3>2, <1>3 DEF IInv, WritesAreSeen
  <2> QED
    BY <2>1, <1>1, <1>3 DEF IInv, WritesAreSeen, Clearing
<1>15. AnswersNeverGoBack'
  BY <1>1, <1>2, <1>3, <1>4, <1>5, Fields DEF IInv, AnswersNeverGoBack, Finding, Nothing
<1>16. ReadYourWrites'
  BY <1>1, <1>2, <1>3, <1>4, <1>5, Fields DEF IInv, ReadYourWrites, Finding, Nothing, Key
<1> QED
  BY <1>6, <1>7, <1>8, <1>9, <1>10, <1>11, <1>12, <1>13, <1>14, <1>15, <1>16 DEF IInv

LEMMA FillStep ==
    ASSUME IInv, NEW t \in Task, Fill(t) PROVE IInv'
<1>1. /\ UNCHANGED <<slack, db, version, seen, acked>>
      /\ \A u \in Task : u # t => task'[u] = task[u]
  BY DEF Fill, IInv, TypeOK, Goto, Ends
<1>2. task[t].pc = "loaded" /\ task[t] \in Finder
  BY FindersAreFinders DEF Fill, IInv, Finding
<1>3. /\ task'[t].pc = "found" /\ task'[t].row = task[t].row
      /\ task'[t].key = task[t].key /\ task'[t].seen = task[t].seen /\ task'[t].acked = task[t].acked
  BY <1>2 DEF Fill, Goto, IInv, TypeOK, Finder
<1>4. cache' = IF task[t].row = Nothing THEN cache ELSE [cache EXCEPT ![task[t].key] = task[t].row]
  BY DEF Fill
<1>5. task'[t] \in Finder
  BY <1>2 DEF Fill, Goto, IInv, TypeOK, Finder, Key
<1>6. TypeOK'
  <2>1. task' \in [Task -> Finder \cup Writer \cup {Idle}]
    BY <1>1, <1>2, <1>3, <1>4, <1>5 DEF IInv, TypeOK, Fill, Goto, Ends
  <2>2. \A u, v \in Task :
            u # v /\ task'[u].pc \in Loading /\ task'[v].pc \in Loading => task'[u].key # task'[v].key
    BY <1>1, <1>2, <1>3, <1>4, <1>5 DEF IInv, TypeOK, Loading, Fill, Unlocked
  <2>3. cache' \in [Key -> Nat] /\ seen' \in [Key -> Nat]
    BY <1>1, <1>2, <1>3, <1>4, <1>5, Fields DEF IInv, TypeOK, Finding, Fill
  <2> QED
    BY <1>1, <2>1, <2>2, <2>3 DEF IInv, TypeOK
<1>7. StampsAreCommits'
  BY <1>1, <1>2, <1>3, <1>4, <1>5, Fields DEF IInv, StampsAreCommits, Finding, Clearing, Nothing, Key
<1>8. NamesAreUnique'
  BY <1>1, <1>2, <1>3, <1>4, <1>5, Fields DEF IInv, NamesAreUnique
<1>9. TableIsNewest'
  BY <1>1, <1>2, <1>3, <1>4, <1>5, Fields DEF IInv, TableIsNewest, Under, Finding, Key
<1>10. LockedKeysAreEmpty'
  BY <1>1, <1>2, <1>3, <1>4, <1>5, Fields DEF IInv, LockedKeysAreEmpty, Loading, Finding, Key, Nothing, TypeOK
<1>11. CacheIsNewer'
  <2> SUFFICES ASSUME NEW k \in Key, cache'[k] # Nothing
               PROVE  /\ seen[k] <= cache'[k]
                      /\ \A u \in Task : task'[u].pc = "found" /\ task'[u].key = k
                            => task'[u].row <= cache'[k]
    BY <1>1 DEF CacheIsNewer
  <2>1. CASE k = task[t].key /\ task[t].row # Nothing
    <3>1. cache'[k] = task[t].row /\ task[t].row \in Nat
      BY <2>1, <1>2, <1>4, Fields DEF IInv, TypeOK, Finding
    <3> QED
      BY <3>1, <2>1, <1>1, <1>2, <1>3 DEF IInv, LoadedIsNewer
  <2>2. CASE k # task[t].key \/ task[t].row = Nothing
    <3>1. cache'[k] = cache[k] /\ cache[k] \in Nat
      BY <2>2, <1>4, Fields DEF IInv, TypeOK
    <3> QED
      BY <3>1, <2>2, <1>1, <1>3 DEF IInv, CacheIsNewer, Nothing
  <2> QED
    BY <2>1, <2>2
<1>12. LoadedIsNewer'
  BY <1>1, <1>2, <1>3, <1>4, <1>5, Fields DEF IInv, LoadedIsNewer, Finding, Nothing, Key, TypeOK, Loading
<1>13. FloorsHold'
  BY <1>1, <1>2, <1>3, <1>4, <1>5, Fields DEF IInv, FloorsHold, Finding, Key
<1>14. WritesAreSeen'
  BY <1>1, <1>2, <1>3, <1>4, <1>5, Fields DEF IInv, WritesAreSeen, Finding, Clearing, Nothing, Key
<1>15. AnswersNeverGoBack'
  BY <1>1, <1>2, <1>3, <1>4, <1>5, Fields DEF IInv, AnswersNeverGoBack, Finding, Nothing, LoadedIsNewer, FloorsHold
<1>16. ReadYourWrites'
  BY <1>1, <1>2, <1>3, <1>4, <1>5, Fields DEF IInv, ReadYourWrites, Finding, Nothing, Key, WritesAreSeen, FloorsHold
<1> QED
  BY <1>6, <1>7, <1>8, <1>9, <1>10, <1>11, <1>12, <1>13, <1>14, <1>15, <1>16 DEF IInv

LEMMA AnswerFindStep ==
    ASSUME IInv, NEW t \in Task, AnswerFind(t) PROVE IInv'
<1>1. /\ UNCHANGED <<slack, db, version, cache, acked>>
      /\ \A u \in Task : u # t => task'[u] = task[u]
  BY DEF AnswerFind, IInv, TypeOK, Goto, Ends
<1>2. task[t].pc = "found" /\ task[t] \in Finder
  BY FindersAreFinders DEF AnswerFind, IInv, Finding
<1>3. task'[t].pc = "idle" /\ task'[t] = Idle
  BY DEF AnswerFind, Ends, Idle, IInv, TypeOK
<1>4. /\ seen' = [k \in Key |-> seen'[k]]
      /\ \A k \in Key : seen'[k] = IF k = task[t].key /\ task[t].row > seen[k] THEN task[t].row ELSE seen[k]
  BY <1>2 DEF AnswerFind, IInv, TypeOK, Finder
<1>5. TypeOK'
  <2>1. task' \in [Task -> Finder \cup Writer \cup {Idle}]
    BY <1>1, <1>2, <1>3, <1>4 DEF IInv, TypeOK, AnswerFind, Goto, Ends
  <2>2. \A u, v \in Task :
            u # v /\ task'[u].pc \in Loading /\ task'[v].pc \in Loading => task'[u].key # task'[v].key
    BY <1>1, <1>2, <1>3, <1>4 DEF IInv, TypeOK, Loading, AnswerFind, Unlocked
  <2>3. cache' \in [Key -> Nat] /\ seen' \in [Key -> Nat]
    BY <1>1, <1>2, <1>3, <1>4, Fields DEF IInv, TypeOK, Finding, AnswerFind
  <2> QED
    BY <1>1, <2>1, <2>2, <2>3 DEF IInv, TypeOK
<1>6. StampsAreCommits'
  BY <1>1, <1>2, <1>3, <1>4, Fields DEF IInv, StampsAreCommits, Finding, Clearing, Nothing, Key
<1>7. NamesAreUnique'
  BY <1>1, <1>2, <1>3, <1>4, Fields DEF IInv, NamesAreUnique
<1>8. TableIsNewest'
  BY <1>1, <1>2, <1>3, <1>4, Fields DEF IInv, TableIsNewest, Under, Finding, Key
<1>9. LockedKeysAreEmpty'
  BY <1>1, <1>2, <1>3, <1>4, Fields DEF IInv, LockedKeysAreEmpty, Loading, Finding, Key, Nothing
<1>10. CacheIsNewer'
  BY <1>1, <1>2, <1>3, <1>4, Fields DEF IInv, CacheIsNewer, Finding, Nothing
<1>11. LoadedIsNewer'
  BY <1>1, <1>2, <1>3, <1>4, Fields DEF IInv, LoadedIsNewer, Finding, Nothing, Key
<1>12. FloorsHold'
  BY <1>1, <1>2, <1>3, <1>4, Fields DEF IInv, FloorsHold, Finding, Key
<1>13. WritesAreSeen'
  BY <1>1, <1>2, <1>3, <1>4, Fields DEF IInv, WritesAreSeen, Finding, Clearing, Nothing, Key
<1>14. AnswersNeverGoBack'
  BY <1>1, <1>2, <1>3, <1>4, Fields DEF IInv, AnswersNeverGoBack, Finding, Nothing
<1>15. ReadYourWrites'
  BY <1>1, <1>2, <1>3, <1>4, Fields DEF IInv, ReadYourWrites, Finding, Nothing, Key
<1> QED
  BY <1>5, <1>6, <1>7, <1>8, <1>9, <1>10, <1>11, <1>12, <1>13, <1>14, <1>15 DEF IInv

\* Taking an entry out of the cache takes nothing else.
LEMMA CacheForgets ==
    ASSUME IInv, NEW k \in Key, cache' = [cache EXCEPT ![k] = Nothing],
           UNCHANGED <<slack, db, version, task, seen, acked>>
    PROVE  IInv'
<1>1. \A j \in Key : cache'[j] = Nothing \/ cache'[j] = cache[j]
  BY DEF IInv, TypeOK
<1>2. TypeOK'
  BY DEF IInv, TypeOK, Nothing, Loading
<1>3. StampsAreCommits' /\ NamesAreUnique'
  BY <1>1, Fields DEF IInv, StampsAreCommits, NamesAreUnique, Nothing
<1>4. TableIsNewest' /\ LockedKeysAreEmpty'
  <2>1. TableIsNewest'
    BY <1>1, Fields DEF IInv, TableIsNewest, Under, Nothing
  <2>2. LockedKeysAreEmpty'
    BY <1>1, Fields DEF IInv, LockedKeysAreEmpty, Nothing, Loading, Finding
  <2> QED
    BY <2>1, <2>2
<1>5. CacheIsNewer' /\ LoadedIsNewer' /\ FloorsHold'
  BY <1>1 DEF IInv, CacheIsNewer, LoadedIsNewer, FloorsHold, Nothing
<1>6. WritesAreSeen'
  BY <1>1, Fields DEF IInv, WritesAreSeen, Nothing
<1>7. AnswersNeverGoBack' /\ ReadYourWrites'
  BY DEF IInv, AnswersNeverGoBack, ReadYourWrites
<1> QED
  BY <1>2, <1>3, <1>4, <1>5, <1>6, <1>7 DEF IInv

\* Clearing the cache after an update or delete, and acknowledging it.
LEMMA Clears ==
    ASSUME IInv, NEW t \in Task, task[t].pc \in Clearing,
           cache' \in [Key -> Nat], \A k \in Key : cache'[k] = Nothing \/ cache'[k] = cache[k],
           ~ slack => cache'[task[t].row] = Nothing /\ Unlocked(task[t].row),
           acked' = acked \/ acked' = Acknowledged(t),
           NEW w \in Writer \cup {Idle}, task' = [task EXCEPT ![t] = w],
           w = Idle \/ (slack /\ w.pc = "clear_name" /\ w.stamp = task[t].stamp),
           UNCHANGED <<slack, db, version, seen>>
    PROVE  IInv'
<1>1. task[t] \in Writer
  BY WritersAreWriters DEF IInv, Finding, Clearing
<1>2. /\ \A u \in Task : u # t => task'[u] = task[u]
      /\ task'[t] = w /\ (w.pc = "idle" \/ w.pc = "clear_name")
  BY DEF IInv, TypeOK, Idle
<1>3. \A r \in Row :
         /\ acked'[r] \in Nat /\ acked[r] <= acked'[r] /\ acked'[r] <= version
         /\ acked'[r] = acked[r] \/ (r = task[t].row /\ acked'[r] = task[t].stamp)
  BY <1>1, Fields DEF Acknowledged, IInv, TypeOK, StampsAreCommits, Writer, Clearing
<1>4. TypeOK'
  <2>1. acked' \in [Row -> Nat]
    BY <1>1 DEF Acknowledged, IInv, TypeOK, Writer
  <2>2. task' \in [Task -> Finder \cup Writer \cup {Idle}]
    BY DEF IInv, TypeOK
  <2>3. \A u, v \in Task :
            u # v /\ task'[u].pc \in Loading /\ task'[v].pc \in Loading => task'[u].key # task'[v].key
    BY <1>2 DEF IInv, TypeOK, Loading
  <2> QED
    BY <2>1, <2>2, <2>3 DEF IInv, TypeOK
<1>5. StampsAreCommits' /\ NamesAreUnique'
  <2>1. \A k \in Key : cache'[k] <= version /\ seen[k] <= version
    BY Fields DEF IInv, StampsAreCommits, Nothing
  <2>2. \A u \in Task : task'[u].pc \in Finding => task'[u].row <= version
    BY <1>2 DEF IInv, StampsAreCommits, Finding
  <2>3. \A u \in Task : task'[u].pc \in Clearing => task'[u].stamp <= version
    BY <1>2 DEF IInv, StampsAreCommits, Clearing, Idle
  <2> QED
    BY <2>1, <2>2, <2>3, <1>3 DEF IInv, StampsAreCommits, NamesAreUnique
<1>6. TableIsNewest'
  BY <1>2, Fields DEF IInv, TableIsNewest, Under, Nothing
<1>7. LockedKeysAreEmpty' /\ CacheIsNewer' /\ LoadedIsNewer'
  <2>1. LockedKeysAreEmpty'
    BY <1>2, Fields DEF IInv, LockedKeysAreEmpty, Loading, Finding
  <2>2. CacheIsNewer'
    BY <1>2 DEF IInv, CacheIsNewer
  <2>3. LoadedIsNewer'
    BY <1>2 DEF IInv, LoadedIsNewer
  <2> QED
    BY <2>1, <2>2, <2>3
<1>8. FloorsHold'
  <2> SUFFICES ASSUME NEW u \in Task, task'[u].pc \in Finding
               PROVE  /\ task'[u].seen <= seen[task'[u].key]
                      /\ task'[u].acked <= IF task'[u].key \in Row THEN acked'[task'[u].key] ELSE 0
    BY DEF FloorsHold
  <2>1. task'[u] = task[u]
    BY <1>2 DEF Finding
  <2> QED
    BY <2>1, <1>3, Fields DEF IInv, FloorsHold
<1>9. WritesAreSeen'
  <2> SUFFICES ASSUME ~ slack PROVE WritesAreSeen'
    BY DEF WritesAreSeen
  <2>1. \A r \in Row : db[r].live => acked'[r] <= db[r].stamp
    BY <1>3 DEF IInv, WritesAreSeen
  <2>2. \A r \in Row : cache'[r] # Nothing => acked'[r] <= cache'[r]
    BY <1>3, Fields DEF IInv, WritesAreSeen
  <2>3. \A u \in Task : task'[u].pc = "loaded" => task'[u] = task[u] /\ task[u].key # task[t].row
    BY <1>2 DEF Unlocked, Loading
  <2>4. \A u \in Task :
           task'[u].pc = "loaded" /\ task'[u].row # Nothing /\ task'[u].key \in Row
               => acked'[task'[u].key] <= task'[u].row
    BY <2>3, <1>3 DEF IInv, WritesAreSeen
  <2>5. \A u \in Task : task'[u].pc \in Clearing => u # t /\ task'[u] = task[u]
    BY <1>2 DEF Clearing, Idle
  <2>6. \A u \in Task : task'[u].pc # "clear_name"
    BY <2>5 DEF IInv, WritesAreSeen, Clearing
  <2>7. \A r \in Row, u \in Task :
           db[r].live /\ task'[u].pc \in Clearing /\ task'[u].row = r => task'[u].stamp <= db[r].stamp
    BY <2>5 DEF IInv, WritesAreSeen
  <2> QED
    BY <2>1, <2>2, <2>4, <2>6, <2>7 DEF WritesAreSeen
<1>10. AnswersNeverGoBack' /\ ReadYourWrites'
  BY <1>2 DEF IInv, AnswersNeverGoBack, ReadYourWrites
<1> QED
  BY <1>4, <1>5, <1>6, <1>7, <1>8, <1>9, <1>10 DEF IInv

LEMMA ClearIdStep == ASSUME IInv, NEW t \in Task, ClearId(t) PROVE IInv'
<1>1. task[t] \in Writer /\ task[t].pc = "clear"
  BY WritersAreWriters DEF IInv, ClearId, Finding
<1>2. /\ cache' \in [Key -> Nat] /\ cache'[task[t].row] = Nothing
      /\ \A k \in Key : cache'[k] = Nothing \/ cache'[k] = cache[k]
  BY <1>1 DEF ClearId, WithoutEntry, IInv, TypeOK, Nothing, Writer, Key
<1>3. CASE slack
  <2> DEFINE w == [task[t] EXCEPT !.pc = "clear_name"]
  <2>1. w \in Writer /\ w.pc = "clear_name" /\ w.stamp = task[t].stamp
    BY <1>1 DEF Writer
  <2>2. task' = [task EXCEPT ![t] = w] /\ acked' = acked /\ UNCHANGED <<slack, db, version, seen>>
    BY <1>3 DEF ClearId, Goto
  <2> HIDE DEF w
  <2> QED
    BY <1>1, <1>2, <1>3, <2>1, <2>2, Clears DEF Clearing
<1>4. CASE ~ slack
  BY <1>1, <1>2, <1>4, Clears DEF ClearId, Ends, Clearing
<1> QED
  BY <1>3, <1>4

LEMMA ClearNameStep == ASSUME IInv, NEW t \in Task, ClearName(t) PROVE IInv'
<1>1. task[t] \in Writer /\ slack
  BY WritersAreWriters DEF IInv, ClearName, Finding, WritesAreSeen
<1>2. cache' \in [Key -> Nat] /\ \A k \in Key : cache'[k] = Nothing \/ cache'[k] = cache[k]
  BY <1>1 DEF ClearName, IInv, TypeOK, Nothing, Writer, Key
<1> QED
  BY <1>1, <1>2, Clears DEF ClearName, Ends, Clearing

\* A commit, by a handler or by another process: what it writes is newer than
\* everything there is.
LEMMA Commits ==
    ASSUME IInv,
           db' \in [Row -> [live : BOOLEAN, name : Name, stamp : Nat]],
           \A r \in Row : db'[r] = db[r] \/ db'[r].stamp = version + 1,
           NamesAreUnique', version' = version + 1,
           task' \in [Task -> Finder \cup Writer \cup {Idle}],
           \A u \in Task :
               \/ task'[u] = task[u]
               \/ task'[u] = Idle
               \/ /\ task'[u] \in Writer /\ task'[u].pc = "clear"
                  /\ task'[u].stamp = version + 1
                  /\ db'[task'[u].row].live => db'[task'[u].row].stamp = version + 1,
           UNCHANGED <<slack, cache, seen, acked>>
    PROVE  IInv'
<1>1. \A u \in Task :
         /\ task'[u].pc \in Finding => task'[u] = task[u]
         /\ task'[u].pc \in Clearing => task'[u] = task[u] \/ task'[u].stamp = version + 1
         /\ task'[u].pc = "clear_name" => task'[u] = task[u]
  BY DEF Finding, Clearing, Idle, Writer
<1>2. version \in Nat /\ \A r \in Row : db[r].stamp \in Nat /\ db[r].stamp <= version
  BY DEF IInv, TypeOK, StampsAreCommits
<1>3. TypeOK'
  <2>1. \A u, v \in Task :
            u # v /\ task'[u].pc \in Loading /\ task'[v].pc \in Loading => task'[u].key # task'[v].key
    BY <1>1 DEF IInv, TypeOK, Loading, Finding
  <2> QED
    BY <2>1, <1>2 DEF IInv, TypeOK
<1>4. StampsAreCommits'
  <2>1. \A r \in Row : db'[r].stamp <= version + 1 /\ acked[r] <= version + 1
    BY <1>2, Fields DEF IInv, StampsAreCommits
  <2>2. \A k \in Key : cache[k] <= version + 1 /\ seen[k] <= version + 1
    BY <1>2, Fields DEF IInv, StampsAreCommits
  <2>3. \A u \in Task : task'[u].pc \in Finding => task'[u].row <= version + 1
    BY <1>1, <1>2, Fields DEF IInv, StampsAreCommits
  <2>4. \A u \in Task : task'[u].pc \in Clearing => task'[u].stamp <= version + 1
    BY <1>1, <1>2, Fields DEF IInv, StampsAreCommits
  <2> QED
    BY <2>1, <2>2, <2>3, <2>4 DEF StampsAreCommits
<1>5. TableIsNewest'
  <2> SUFFICES ASSUME NEW k \in Key, NEW r \in Row, Under(k, r)'
               PROVE  /\ cache[k] <= db'[r].stamp /\ seen[k] <= db'[r].stamp
                      /\ \A u \in Task : task'[u].pc \in {"loaded", "found"} /\ task'[u].key = k
                             => task'[u].row <= db'[r].stamp
    BY DEF TableIsNewest
  <2>1. CASE db'[r] = db[r]
    BY <2>1, <1>1 DEF IInv, TableIsNewest, Under, Finding
  <2>2. CASE db'[r].stamp = version + 1
    <3>1. cache[k] <= version + 1 /\ seen[k] <= version + 1
      BY <1>2, Fields DEF IInv, StampsAreCommits
    <3>2. \A u \in Task : task'[u].pc \in Finding => task'[u].row <= version + 1
      BY <1>1, <1>2, Fields DEF IInv, StampsAreCommits
    <3> QED
      BY <2>2, <3>1, <3>2 DEF Finding
  <2> QED
    BY <2>1, <2>2
<1>6. LockedKeysAreEmpty' /\ CacheIsNewer' /\ LoadedIsNewer' /\ FloorsHold'
  <2>1. LockedKeysAreEmpty'
    BY <1>1 DEF IInv, LockedKeysAreEmpty, Finding, Loading
  <2>2. CacheIsNewer' /\ LoadedIsNewer'
    BY <1>1 DEF IInv, CacheIsNewer, LoadedIsNewer, Finding
  <2>3. FloorsHold'
    BY <1>1 DEF IInv, FloorsHold
  <2> QED
    BY <2>1, <2>2, <2>3
<1>7. WritesAreSeen'
  <2> SUFFICES ASSUME ~ slack PROVE WritesAreSeen'
    BY DEF WritesAreSeen
  <2>1. \A r \in Row : db'[r].live => acked[r] <= db'[r].stamp
    BY <1>2, Fields DEF IInv, WritesAreSeen, StampsAreCommits
  <2>2. ASSUME NEW r \in Row, NEW u \in Task, db'[r].live, task'[u].pc \in Clearing, task'[u].row = r
        PROVE  task'[u].stamp <= db'[r].stamp
    <3>1. CASE task'[u] # task[u]
      BY <2>2, <3>1, <1>2 DEF Idle, Clearing
    <3>2. CASE task'[u] = task[u]
      <4>1. task[u].stamp \in Nat /\ task[u].stamp <= version
        BY <2>2, <3>2, Fields DEF IInv, StampsAreCommits
      <4> QED
        BY <2>2, <3>2, <4>1, <1>2 DEF IInv, WritesAreSeen
    <3> QED
      BY <3>1, <3>2
  <2>3. \A u \in Task :
           task'[u].pc = "loaded" /\ task'[u].row # Nothing /\ task'[u].key \in Row
               => acked[task'[u].key] <= task'[u].row
    BY <1>1 DEF IInv, WritesAreSeen, Finding
  <2> QED
    BY <2>1, <2>2, <2>3, <1>1 DEF IInv, WritesAreSeen
<1>8. AnswersNeverGoBack' /\ ReadYourWrites'
  BY <1>1 DEF IInv, AnswersNeverGoBack, ReadYourWrites, Finding
<1> QED
  BY <1>3, <1>4, <1>5, <1>6, <1>7, <1>8 DEF IInv

LEMMA CommitStep == ASSUME IInv, NEW t \in Task, Commit(t) PROVE IInv'
<1> DEFINE w == task[t]
<1>1. w \in Writer /\ w.pc \in {"written", "fetched"}
  BY WritersAreWriters DEF IInv, Commit, Committing, Finding
<1>2. CASE w.op # "create" /\ ~ db[w.row].live
  <2>1. db' = db
    BY <1>2 DEF Commit, Written
  <2>2. NamesAreUnique'
    BY <2>1 DEF IInv, NamesAreUnique
  <2>3. task' = [task EXCEPT ![t].pc = "clear", ![t].stamp = version + 1] /\ version' = version + 1
    BY <1>2 DEF Commit
  <2>4. /\ task'[t] \in Writer /\ task'[t].pc = "clear" /\ task'[t].stamp = version + 1
        /\ task'[t].row = w.row
        /\ \A u \in Task : u # t => task'[u] = task[u]
    <3>1. version + 1 \in Nat
      BY DEF IInv, TypeOK
    <3> QED
      BY <1>1, <2>3, <3>1 DEF IInv, TypeOK, Writer
  <2>5. task' \in [Task -> Finder \cup Writer \cup {Idle}]
    BY <2>3, <2>4 DEF IInv, TypeOK
  <2> QED
    BY <1>2, <2>1, <2>2, <2>3, <2>4, <2>5, Commits DEF IInv, TypeOK, Commit
<1>3. CASE ~ (w.op # "create" /\ ~ db[w.row].live)
  <2>1. /\ w.row \in Row /\ w.name \in Name /\ version + 1 \in Nat
    BY <1>1 DEF Writer, IInv, TypeOK
  <2>2. PICK row \in [live : BOOLEAN, name : Name, stamp : Nat] :
          /\ db' = [db EXCEPT ![w.row] = row]
          /\ row.stamp = version + 1
          /\ row.live => w.op # "delete" /\ row.name = w.name
    <3> DEFINE row == [live |-> w.op # "delete", stamp |-> version + 1,
                       name |-> IF w.op = "delete" THEN db[w.row].name ELSE w.name]
    <3>1. db' = [db EXCEPT ![w.row] = row]
      BY <1>3, <2>1 DEF Commit, Written, IInv, TypeOK
    <3>2. /\ row \in [live : BOOLEAN, name : Name, stamp : Nat] /\ row.stamp = version + 1
          /\ row.live => w.op # "delete" /\ row.name = w.name
      BY <2>1 DEF IInv, TypeOK
    <3> HIDE DEF row
    <3> QED
      BY <3>1, <3>2
  <2>3. /\ db'[w.row] = row /\ \A s \in Row : s # w.row => db'[s] = db[s]
        /\ db' \in [Row -> [live : BOOLEAN, name : Name, stamp : Nat]]
    BY <2>1, <2>2 DEF IInv, TypeOK
  <2>4. \A s \in Row \ {w.row} : row.live => ~ (db[s].live /\ db[s].name = row.name)
    BY <2>2 DEF Commit, NameTaken
  <2>5. NamesAreUnique'
    BY <2>3, <2>4 DEF IInv, NamesAreUnique
  <2>6. version' = version + 1
    BY DEF Commit
  <2>7. /\ task' \in [Task -> Finder \cup Writer \cup {Idle}]
        /\ \A u \in Task : u # t => task'[u] = task[u]
        /\ \/ task'[t] = Idle
           \/ /\ task'[t] \in Writer /\ task'[t].pc = "clear" /\ task'[t].row = w.row
              /\ task'[t].stamp = version + 1
    <3>1. CASE w.op = "create"
      BY <3>1 DEF Commit, Ends, IInv, TypeOK
    <3>2. CASE w.op # "create"
      <4>1. task' = [task EXCEPT ![t].pc = "clear", ![t].stamp = version + 1]
        BY <3>2 DEF Commit
      <4>2. /\ task'[t] \in Writer /\ task'[t].pc = "clear" /\ task'[t].stamp = version + 1
            /\ task'[t].row = w.row
            /\ \A u \in Task : u # t => task'[u] = task[u]
        BY <1>1, <2>1, <4>1 DEF IInv, TypeOK, Writer
      <4>3. task' \in [Task -> Finder \cup Writer \cup {Idle}]
        BY <4>1, <4>2 DEF IInv, TypeOK
      <4> QED
        BY <4>2, <4>3
    <3> QED
      BY <3>1, <3>2
  <2> HIDE DEF w
  <2> QED
    BY <2>2, <2>3, <2>5, <2>6, <2>7, Commits DEF Commit
<1> QED
  BY <1>2, <1>3

LEMMA RemoteStepStep == ASSUME IInv, RemoteStep PROVE IInv'
<1>1. PICK r \in Row, b \in BOOLEAN, n \in Name :
        RemoteWrite(r, [live |-> b, name |-> n, stamp |-> version + 1])
  BY DEF RemoteStep
<1> DEFINE row == [live |-> b, name |-> n, stamp |-> version + 1]
<1>2. /\ db' = [db EXCEPT ![r] = row]
      /\ row \in [live : BOOLEAN, name : Name, stamp : Nat] /\ row.stamp = version + 1
      /\ \A s \in Row \ {r} : row.live => ~ (db[s].live /\ db[s].name = row.name)
      /\ version' = version + 1 /\ task' = task /\ UNCHANGED <<slack, cache, seen, acked>>
  BY <1>1 DEF RemoteWrite, IInv, TypeOK
<1> HIDE DEF row
<1>3. /\ db'[r] = row /\ \A s \in Row : s # r => db'[s] = db[s]
      /\ db' \in [Row -> [live : BOOLEAN, name : Name, stamp : Nat]]
  BY <1>2 DEF IInv, TypeOK
<1>4. NamesAreUnique'
  BY <1>2, <1>3 DEF IInv, NamesAreUnique
<1>5. task' \in [Task -> Finder \cup Writer \cup {Idle}]
  BY <1>2 DEF IInv, TypeOK
<1> QED
  BY <1>2, <1>3, <1>4, <1>5, Commits

\* The steps of a write that end before its commit or lead to it.
LEMMA MoveStep ==
    ASSUME IInv, NEW t \in Task,
           \/ FindTimesOut(t) \/ OpenTransaction(t) \/ BeginTimesOut(t) \/ Execute(t) \/ RowTimesOut(t)
           \/ FetchServer(t) \/ FetchTimesOut(t) \/ Refused(t)
    PROVE  IInv'
<1>1. UNCHANGED <<slack, db, version, cache, seen, acked>>
  BY DEF FindTimesOut, OpenTransaction, BeginTimesOut, Execute, RowTimesOut, FetchServer,
         FetchTimesOut, Refused
<1>2. \/ Ends(t)
      \/ task[t].pc \in {"begin", "tx", "written"} /\ \E pc \in {"tx", "written", "fetched"} : Goto(t, pc)
  BY DEF FindTimesOut, OpenTransaction, BeginTimesOut, Execute, RowTimesOut, FetchServer,
         FetchTimesOut, Refused
<1>3. CASE Ends(t)
  BY <1>1, <1>3, WriterMoves DEF Ends, Idle, Clearing
<1>4. ASSUME task[t].pc \in {"begin", "tx", "written"},
             NEW pc \in {"tx", "written", "fetched"}, Goto(t, pc)
      PROVE  IInv'
  <2> DEFINE w == [task[t] EXCEPT !.pc = pc]
  <2>1. task[t] \in Writer
    BY <1>4, WritersAreWriters DEF IInv, Finding
  <2>2. w \in Writer /\ w.pc \notin Clearing
    BY <2>1 DEF Writer, Clearing
  <2>3. task' = [task EXCEPT ![t] = w]
    BY <1>4 DEF Goto
  <2> HIDE DEF w
  <2> QED
    BY <1>1, <2>2, <2>3, WriterMoves
<1> QED
  BY <1>2, <1>3, <1>4

LEMMA BeginWriteStep ==
    ASSUME IInv, NEW t \in Task, NEW op \in {"create", "update", "delete"}, NEW r \in Row,
           NEW n \in Name, BeginWrite(t, op, r, n)
    PROVE  IInv'
<1> DEFINE w == [pc |-> "begin", op |-> op, row |-> r, name |-> n, stamp |-> 0]
<1>1. w \in Writer /\ w.pc \notin Clearing
  BY DEF Writer, Clearing
<1>2. task' = [task EXCEPT ![t] = w] /\ UNCHANGED <<slack, db, version, cache, seen, acked>>
  BY DEF BeginWrite
<1> HIDE DEF w
<1> QED
  BY <1>1, <1>2, WriterMoves

-----------------------------------------------------------------------------
(* Theorems *)

\* The inductive invariant holds in every reachable state, for any number of
\* rows, names, handlers and connections and for both kinds of service.
THEOREM CacheInvariant == Spec => []IInv
<1>1. Init => IInv
  BY AdminCacheAssumption DEF Init, IInv, TypeOK, AnyName, Idle, Nothing, Key, StampsAreCommits,
     NamesAreUnique, TableIsNewest, Under, LockedKeysAreEmpty, CacheIsNewer, LoadedIsNewer, FloorsHold,
     WritesAreSeen, AnswersNeverGoBack, ReadYourWrites, Finding, Clearing, Loading
<1>2. IInv /\ [Next]_vars => IInv'
  <2> SUFFICES ASSUME IInv, [Next]_vars PROVE IInv'
    OBVIOUS
  <2>1. ASSUME NEW t \in Task, Begin(t) PROVE IInv'
    BY <2>1, BeginFindStep, BeginWriteStep DEF Begin
  <2>2. ASSUME NEW t \in Task, Step(t) PROVE IInv'
    BY <2>2, LookupStep, LoadStep, FillStep, AnswerFindStep, MoveStep, CommitStep, ClearIdStep,
       ClearNameStep DEF Step
  <2>3. ASSUME NEW k \in Key, Expire(k) PROVE IInv'
    BY <2>3, CacheForgets DEF Expire
  <2>4. CASE RemoteStep
    BY <2>4, RemoteStepStep
  <2>5. CASE UNCHANGED vars
    BY <2>5 DEF vars, IInv, TypeOK, StampsAreCommits, NamesAreUnique, TableIsNewest, Under,
       LockedKeysAreEmpty, CacheIsNewer, LoadedIsNewer, FloorsHold, WritesAreSeen, AnswersNeverGoBack,
       ReadYourWrites
  <2> QED
    BY <2>1, <2>2, <2>3, <2>4, <2>5 DEF Next
<1> QED
  BY <1>1, <1>2, PTL DEF Spec

\* Types, and at most one find at a time that loads a key.
THEOREM CacheTypeCorrect == Spec => []TypeOK
<1>1. IInv => TypeOK
  BY DEF IInv
<1> QED
  BY <1>1, CacheInvariant, PTL

\* Finds of one key never go back in time, by id or name, whatever is written by
\* this process and by others.
THEOREM AnswersGoForward == Spec => []AnswersNeverGoBack
<1>1. IInv => AnswersNeverGoBack
  BY DEF IInv
<1> QED
  BY <1>1, CacheInvariant, PTL

\* A find by id sees the updates and deletes that were answered before it.
THEOREM WritesAreRead == Spec => []ReadYourWrites
<1>1. IInv => ReadYourWrites
  BY DEF IInv
<1> QED
  BY <1>1, CacheInvariant, PTL

=============================================================================
