-------------------------- MODULE ResultListenerProofs --------------------------
(***************************************************************************)
(* How often a result is run, for any number of results and listeners: at  *)
(* most once for each name its handler has listened under and for each     *)
(* listener that stop_all was ending.                                      *)
(***************************************************************************)
EXTENDS ResultListener, FiniteSetTheorems, TLAPS

-----------------------------------------------------------------------------
(* The inductive invariant *)

\* Listeners that nothing but the map of another name, or stop_all, knows of.
Aside == orphans \cup drained

\* A result that is sent to a stream stays in it or was taken, once.
Has(l, r) == r \in InStream(l) \/ work[l][r] # "none"

StreamsInv ==
    \A l \in Listener :
        /\ \A i, j \in DOMAIN listener[l].stream :
            listener[l].stream[i] = listener[l].stream[j] => i = j
        /\ \A r \in InStream(l) : work[l][r] = "none"

SentInv == \A l \in Listener, r \in Result : Has(l, r) => job[r] # "running"

HoldersInv ==
    \A r \in Result : \A l, m \in Listener \ Aside : Has(l, r) /\ Has(m, r) => l = m

\* At most the listener in the map is at work, unless it was put aside.
AtWork(l) == listener[l].pc \notin {"unborn", "ended"}
ActiveInv == \A l \in Listener \ Aside : AtWork(l) => l = current

ManagerInv ==
    /\ \A l \in Listener : l > started <=> listener[l].pc = "unborn"
    /\ manager = "starting" => current = 0
    /\ manager = "stopping" => current # 0
    /\ manager # "idle" => started < MaxStarts
    /\ halt = "no" => drained = {}

Done(r) == {l \in Listener : work[l][r] = "done"}
RunsInv ==
    \A r \in Result : runs[r] <= Cardinality(Done(r)) /\ (runs[r] > 0 => job[r] = "success")

IInv ==
    /\ TypeOK /\ StreamsInv /\ SentInv /\ HoldersInv
    /\ ActiveInv /\ ManagerInv /\ RunsInv

-----------------------------------------------------------------------------
(* Lemmas *)

In(s) == {s[i] : i \in DOMAIN s}
Injective(s) == \A i, j \in DOMAIN s : s[i] = s[j] => i = j

LEMMA AppendHolds ==
    ASSUME NEW s \in Seq(Result), NEW r \in Result, r \notin In(s), Injective(s)
    PROVE  /\ Append(s, r) \in Seq(Result)
           /\ In(Append(s, r)) = In(s) \cup {r}
           /\ Injective(Append(s, r))
<1> DEFINE a == Append(s, r)
<1>1. a \in Seq(Result) /\ DOMAIN a = 1 .. Len(s) + 1 /\ DOMAIN s = 1 .. Len(s) /\ Len(s) \in Nat
  OBVIOUS
<1>2. a[Len(s) + 1] = r /\ \A i \in 1 .. Len(s) : a[i] = s[i]
  OBVIOUS
<1> HIDE DEF a
<1>3. In(a) = In(s) \cup {r}
  BY <1>1, <1>2 DEF In
<1>4. Injective(a)
  BY <1>1, <1>2 DEF In, Injective
<1> QED  BY <1>1, <1>3, <1>4 DEF a

LEMMA TailHolds ==
    ASSUME NEW s \in Seq(Result), s # <<>>, Injective(s)
    PROVE  /\ Head(s) \in Result /\ Head(s) \in In(s)
           /\ Tail(s) \in Seq(Result) /\ In(Tail(s)) \subseteq In(s) \ {Head(s)}
           /\ Injective(Tail(s))
<1> DEFINE t == Tail(s)
<1>1. /\ t \in Seq(Result) /\ DOMAIN s = 1 .. Len(s) /\ Len(s) \in Nat \ {0}
      /\ DOMAIN t = 1 .. Len(s) - 1 /\ \A i \in 1 .. Len(s) - 1 : t[i] = s[i + 1]
      /\ Head(s) = s[1] /\ Head(s) \in Result
  OBVIOUS
<1> HIDE DEF t
<1>2. Head(s) \in In(s)
  BY <1>1 DEF In
<1>3. In(t) \subseteq In(s) \ {Head(s)}
  <2> SUFFICES ASSUME NEW i \in DOMAIN t PROVE t[i] \in In(s) /\ t[i] # s[1]
    BY <1>1 DEF In
  <2>1. i + 1 \in DOMAIN s /\ 1 \in DOMAIN s /\ i + 1 # 1 /\ t[i] = s[i + 1]
    BY <1>1
  <2> QED  BY <2>1 DEF In, Injective
<1>4. Injective(t)
  <2> SUFFICES ASSUME NEW i \in DOMAIN t, NEW j \in DOMAIN t, t[i] = t[j] PROVE i = j
    BY DEF Injective
  <2>1. i + 1 \in DOMAIN s /\ j + 1 \in DOMAIN s /\ s[i + 1] = s[j + 1] /\ i \in Int /\ j \in Int
    BY <1>1
  <2>2. i + 1 = j + 1
    BY <2>1 DEF Injective
  <2> QED  BY <2>1, <2>2
<1> QED  BY <1>1, <1>2, <1>3, <1>4 DEF t

LEMMA PrefixHolds ==
    ASSUME NEW s \in Seq(Result), NEW n \in 0 .. Len(s), Injective(s)
    PROVE  /\ SubSeq(s, 1, n) \in Seq(Result)
           /\ In(SubSeq(s, 1, n)) \subseteq In(s)
           /\ Injective(SubSeq(s, 1, n))
<1> DEFINE t == SubSeq(s, 1, n)
<1>1. /\ t \in Seq(Result) /\ DOMAIN s = 1 .. Len(s) /\ Len(s) \in Nat
      /\ DOMAIN t = 1 .. n /\ \A i \in 1 .. n : t[i] = s[i]
  OBVIOUS
<1> HIDE DEF t
<1>2. In(t) \subseteq In(s) /\ Injective(t)
  BY <1>1 DEF In, Injective
<1> QED  BY <1>1, <1>2 DEF t

LEMMA EmptyHolds == <<>> \in Seq(Result) /\ In(<<>>) = {} /\ Injective(<<>>)
BY DEF In, Injective

LEMMA StreamIn == ASSUME NEW l PROVE InStream(l) = In(listener[l].stream)
BY DEF InStream, In

LEMMA Fields ==
    ASSUME TypeOK, NEW l \in Listener
    PROVE  /\ listener[l].pc \in {"unborn", "connecting", "serving", "sleeping", "ended"}
           /\ listener[l].stream \in Seq(Result)
           /\ listener[l].closed \in {"no", "end", "error"}
           /\ listener[l] \in Task
BY DEF TypeOK, Task

\* The results that a listener was sent are run by it at most once each, so they
\* are not more than the listeners put aside, and one.
LEMMA HoldersBound ==
    ASSUME IInv, NEW r \in Result
    PROVE  Cardinality(Done(r)) <= Cardinality(Aside) + 1
<1>1. IsFiniteSet(Listener)
  BY FS_Interval, ResultListenerAssumption DEF Listener
<1>2. Aside \subseteq Listener
  BY ResultListenerAssumption DEF IInv, TypeOK, Aside, Listener
<1>3. IsFiniteSet(Aside) /\ Cardinality(Aside) \in Nat
  BY <1>1, <1>2, FS_Subset, FS_CardinalityType
<1>4. CASE Done(r) \subseteq Aside
  BY <1>3, <1>4, FS_Subset, FS_CardinalityType
<1>5. CASE ~ (Done(r) \subseteq Aside)
  <2>1. PICK l \in Done(r) : l \notin Aside
    BY <1>5
  <2>2. Done(r) \subseteq Aside \cup {l}
    <3> SUFFICES ASSUME NEW m \in Done(r), m \notin Aside PROVE m = l
      OBVIOUS
    <3>1. Has(l, r) /\ Has(m, r) /\ l \in Listener \ Aside /\ m \in Listener \ Aside
      BY <2>1 DEF Done, Has
    <3> QED  BY <3>1 DEF IInv, HoldersInv
  <2>3. IsFiniteSet(Aside \cup {l}) /\ Cardinality(Aside \cup {l}) = Cardinality(Aside) + 1
    BY <1>3, <2>1, FS_AddElement
  <2>4. Cardinality(Done(r)) <= Cardinality(Aside \cup {l})
    BY <2>2, <2>3, FS_Subset
  <2> QED  BY <2>3, <2>4
<1> QED  BY <1>4, <1>5

-----------------------------------------------------------------------------
(* Every step preserves the invariant *)

\* What follows once streams and work change so that nobody holds more than before.
LEMMA NothingNewHeld ==
    ASSUME IInv,
           Aside \subseteq Aside',
           \A l \in Listener, r \in Result : Has(l, r)' => Has(l, r),
           \A r \in Result : job'[r] = job[r]
    PROVE  SentInv' /\ HoldersInv'
BY DEF IInv, SentInv, HoldersInv

LEMMA InvInit == Init => IInv
<1> SUFFICES ASSUME Init PROVE IInv
  OBVIOUS
<1>1. \A l \in Listener : listener[l] = Unborn /\ InStream(l) = {} /\ \A r \in Result : work[l][r] = "none"
  BY EmptyHolds, StreamIn DEF Init, Unborn
<1>2. TypeOK
  <2>1. Unborn \in Task
    BY EmptyHolds DEF Unborn, Task
  <2> QED  BY <2>1, <1>1, ResultListenerAssumption DEF Init, TypeOK, Serving, Unborn
<1>3. StreamsInv /\ SentInv /\ HoldersInv
  BY <1>1 DEF StreamsInv, SentInv, HoldersInv, Has, Unborn
<1>4. ActiveInv /\ ManagerInv
  BY <1>1, ResultListenerAssumption DEF ActiveInv, AtWork, ManagerInv, Init, Unborn, Listener
<1>5. RunsInv
  <2> SUFFICES ASSUME NEW r \in Result PROVE 0 <= Cardinality(Done(r))
    BY DEF RunsInv, Init
  <2>1. Done(r) = {}
    BY <1>1 DEF Done
  <2> QED  BY <2>1, FS_EmptySet
<1> QED  BY <1>2, <1>3, <1>4, <1>5 DEF IInv

\* Steps of the manager and of the server leave the listeners' work alone.
LEMMA QuietSteps ==
    ASSUME IInv, UNCHANGED <<job, listening>>, due' \in SUBSET Result,
           Aside \subseteq Aside', TypeOK', ActiveInv', ManagerInv'
    PROVE  IInv'
<1>1. \A l \in Listener : InStream(l)' = InStream(l)
  BY DEF InStream, listening
<1>2. StreamsInv'
  BY <1>1 DEF IInv, StreamsInv, listening
<1>3. SentInv' /\ HoldersInv'
  BY <1>1, NothingNewHeld DEF Has, listening
<1>4. RunsInv'
  BY DEF IInv, RunsInv, Done, listening
<1> QED  BY <1>2, <1>3, <1>4 DEF IInv

\* Steps that change one listener's state but neither what was taken nor the map.
LEMMA ListenerSteps ==
    ASSUME IInv, NEW l \in Listener, NEW t \in Task,
           listener' = [listener EXCEPT ![l] = t],
           In(t.stream) \subseteq InStream(l), Injective(t.stream),
           listener[l].pc # "unborn", t.pc # "unborn", AtWork(l) \/ t.pc = "ended",
           UNCHANGED <<up, job, work, runs, managing>>, due' \in SUBSET Result
    PROVE  IInv'
<1>1. listener \in [Listener -> Task] /\ listener'[l] = t
      /\ \A m \in Listener \ {l} : listener'[m] = listener[m]
  BY DEF IInv, TypeOK
<1>2. \A m \in Listener : InStream(m)' \subseteq InStream(m)
  BY <1>1, StreamIn DEF InStream, In
<1>3. \A m \in Listener \ Aside : AtWork(m)' => m = current
  BY <1>1 DEF IInv, ActiveInv, AtWork
<1>4. TypeOK'
  <2>1. \A m, n \in Listener \ Aside : Serving(m)' /\ Serving(n)' => m = n
    BY <1>3 DEF Serving, AtWork
  <2> QED  BY <2>1, <1>1 DEF IInv, TypeOK, managing, Aside
<1>5. StreamsInv'
  <2> SUFFICES ASSUME NEW m \in Listener PROVE StreamsInv!(m)'
    BY DEF StreamsInv
  <2>1. CASE m = l
    BY <2>1, <1>1, <1>2 DEF IInv, StreamsInv, Injective
  <2>2. CASE m # l
    BY <2>2, <1>1, <1>2 DEF IInv, StreamsInv
  <2> QED  BY <2>1, <2>2
<1>6. SentInv' /\ HoldersInv'
  <2>1. Aside' = Aside
    BY DEF Aside, managing
  <2>2. \A m \in Listener, r \in Result : Has(m, r)' => Has(m, r)
    BY <1>2 DEF Has
  <2> QED  BY <2>1, <2>2, NothingNewHeld
<1>7. ActiveInv'
  BY <1>3 DEF ActiveInv, managing, Aside
<1>8. ManagerInv'
  BY <1>1 DEF IInv, ManagerInv, managing
<1>9. RunsInv'
  BY DEF IInv, RunsInv, Done
<1> QED  BY <1>4, <1>5, <1>6, <1>7, <1>8, <1>9 DEF IInv

\* The job ends: its result is sent to every open stream.
LEMMA JobEndsStep ==
    ASSUME IInv, NEW r \in Result, NEW outcome \in Outcome, JobEnds(r, outcome) PROVE IInv'
<1>1. /\ job[r] = "running" /\ job' = [job EXCEPT ![r] = outcome]
      /\ listener' = Sent(r) /\ UNCHANGED <<up, work, runs, managing>> /\ due' \in SUBSET Result
  BY DEF JobEnds, IInv, TypeOK
<1>2. \A l \in Listener : ~ Has(l, r)
  BY <1>1 DEF IInv, SentInv
<1>3. ASSUME NEW l \in Listener
      PROVE  /\ listener'[l] \in Task /\ listener'[l].pc = listener[l].pc
             /\ InStream(l)' \subseteq InStream(l) \cup {r} /\ Injective(listener'[l].stream)
             /\ r \in InStream(l)' => Serving(l)
  <2>1. listener[l] \in Task /\ listener[l].stream \in Seq(Result) /\ r \notin InStream(l)
        /\ Injective(listener[l].stream)
    BY <1>2, Fields DEF IInv, Has, StreamsInv, Injective
  <2> DEFINE open == Serving(l) /\ listener[l].closed = "no"
             s == Append(listener[l].stream, r)
  <2>2. CASE open
    <3>1. s \in Seq(Result) /\ In(s) = InStream(l) \cup {r} /\ Injective(s)
      BY <2>1, AppendHolds, StreamIn
    <3>2. listener'[l] = [listener[l] EXCEPT !.stream = s]
      BY <1>1, <2>2 DEF Sent
    <3>3. listener'[l] \in Task /\ listener'[l].pc = listener[l].pc /\ listener'[l].stream = s
      BY <2>1, <3>1, <3>2 DEF Task
    <3>4. InStream(l)' = In(s)
      BY <3>3 DEF InStream, In
    <3> QED  BY <2>2, <3>1, <3>3, <3>4
  <2>3. CASE ~ open
    <3>1. listener'[l] = listener[l]
      BY <1>1, <2>3 DEF Sent
    <3> QED  BY <2>1, <3>1 DEF InStream
  <2> QED  BY <2>2, <2>3
<1>4. TypeOK'
  <2>1. listener' \in [Listener -> Task]
    BY <1>1, <1>3 DEF Sent
  <2>2. \A l \in Listener : Serving(l)' <=> Serving(l)
    BY <1>3 DEF Serving
  <2> QED  BY <1>1, <2>1, <2>2 DEF IInv, TypeOK, managing
<1>5. StreamsInv'
  <2> SUFFICES ASSUME NEW l \in Listener
               PROVE  /\ Injective(listener'[l].stream)
                      /\ \A q \in InStream(l)' : work[l][q] = "none"
    BY <1>1 DEF StreamsInv, Injective
  <2>1. work[l][r] = "none"
    BY <1>2 DEF Has
  <2> QED  BY <2>1, <1>3 DEF IInv, StreamsInv
<1>6. SentInv'
  BY <1>1, <1>3 DEF IInv, SentInv, Has, TypeOK, Outcome
<1>7. HoldersInv'
  <2> SUFFICES ASSUME NEW q \in Result, NEW l \in Listener \ Aside, NEW m \in Listener \ Aside,
                      Has(l, q)', Has(m, q)'
               PROVE  l = m
    BY <1>1 DEF HoldersInv, managing, Aside
  <2>1. CASE q # r
    BY <2>1, <1>1, <1>3 DEF IInv, HoldersInv, Has
  <2>2. CASE q = r
    <3>1. r \in InStream(l)' /\ r \in InStream(m)'
      BY <2>2, <1>1, <1>2 DEF Has
    <3>2. Serving(l) /\ Serving(m)
      BY <3>1, <1>3
    <3> QED  BY <3>2 DEF IInv, TypeOK, Aside
  <2> QED  BY <2>1, <2>2
<1>8. ActiveInv' /\ ManagerInv'
  BY <1>1, <1>3 DEF IInv, ActiveInv, ManagerInv, AtWork, managing, Aside
<1>9. RunsInv'
  BY <1>1 DEF IInv, RunsInv, Done, TypeOK
<1> QED  BY <1>4, <1>5, <1>6, <1>7, <1>8, <1>9 DEF IInv

LEMMA TakeStep == ASSUME IInv, NEW l \in Listener, Take(l) PROVE IInv'
<1> DEFINE s == listener[l].stream
           r == Head(s)
<1>1. listener[l] \in Task /\ s \in Seq(Result) /\ s # <<>> /\ Injective(s) /\ Serving(l)
  BY Fields DEF IInv, Take, StreamsInv, Injective
<1>2. r \in Result /\ r \in In(s) /\ Tail(s) \in Seq(Result) /\ In(Tail(s)) \subseteq In(s) \ {r}
      /\ Injective(Tail(s))
  BY <1>1, TailHolds
<1> DEFINE t == [listener[l] EXCEPT !.stream = Tail(s)]
<1>3. /\ listener' = [listener EXCEPT ![l] = t]
      /\ work' = [work EXCEPT ![l][r] = "taken"]
      /\ UNCHANGED <<up, job, runs, due, managing>>
  BY DEF Take
<1>4. t \in Task /\ t.pc = listener[l].pc /\ t.stream = Tail(s)
  BY <1>1, <1>2 DEF Task
<1>5. listener \in [Listener -> Task] /\ work \in [Listener -> [Result -> {"none", "taken", "done"}]]
  BY DEF IInv, TypeOK
<1>6. /\ \A m \in Listener : listener'[m] = IF m = l THEN t ELSE listener[m]
      /\ \A m \in Listener, q \in Result :
            work'[m][q] = IF m = l /\ q = r THEN "taken" ELSE work[m][q]
  BY <1>2, <1>3, <1>5
<1> HIDE DEF t
<1>7. work[l][r] = "none" /\ r \in InStream(l)
  BY <1>2, StreamIn DEF IInv, StreamsInv
<1>8. ASSUME NEW m \in Listener
      PROVE  InStream(m)' \subseteq IF m = l THEN InStream(l) \ {r} ELSE InStream(m)
  <2>1. CASE m = l
    <3>1. InStream(m)' = In(Tail(s))
      BY <2>1, <1>4, <1>6 DEF InStream, In
    <3> QED  BY <2>1, <3>1, <1>2, StreamIn
  <2>2. CASE m # l
    BY <2>2, <1>6 DEF InStream
  <2> QED  BY <2>1, <2>2
<1>9. \A m \in Listener, q \in Result : Has(m, q)' => Has(m, q)
  BY <1>6, <1>7, <1>8 DEF Has
<1>10. SentInv' /\ HoldersInv'
  <2>1. Aside' = Aside /\ job' = job
    BY <1>3 DEF Aside, managing
  <2> QED  BY <2>1, <1>9, NothingNewHeld
<1>11. TypeOK'
  <2>1. \A m \in Listener : Serving(m)' <=> Serving(m)
    BY <1>4, <1>6 DEF Serving
  <2>2. listener' \in [Listener -> Task]
    BY <1>3, <1>4, <1>5
  <2>3. work' \in [Listener -> [Result -> {"none", "taken", "done"}]]
    BY <1>2, <1>3, <1>5
  <2> QED  BY <1>3, <2>1, <2>2, <2>3 DEF IInv, TypeOK, managing
<1>12. StreamsInv'
  <2> SUFFICES ASSUME NEW m \in Listener
               PROVE  Injective(listener'[m].stream) /\ \A q \in InStream(m)' : work'[m][q] = "none"
    BY DEF StreamsInv, Injective
  <2>1. InStream(m) \subseteq Result
    BY Fields, StreamIn DEF IInv, In
  <2>2. Injective(listener'[m].stream)
    BY <1>2, <1>4, <1>6 DEF IInv, StreamsInv, Injective
  <2>3. \A q \in InStream(m)' : work'[m][q] = "none"
    BY <2>1, <1>6, <1>8 DEF IInv, StreamsInv
  <2> QED  BY <2>2, <2>3
<1>13. ActiveInv' /\ ManagerInv'
  BY <1>3, <1>4, <1>6 DEF IInv, ActiveInv, ManagerInv, AtWork, managing, Aside
<1>14. RunsInv'
  <2>1. \A q \in Result : Done(q)' = Done(q)
    BY <1>6, <1>7 DEF Done
  <2> QED  BY <2>1, <1>3 DEF IInv, RunsInv
<1> QED  BY <1>10, <1>11, <1>12, <1>13, <1>14 DEF IInv

LEMMA HandleStep ==
    ASSUME IInv, NEW l \in Listener, NEW r \in Result, HandleJobResult(l, r) PROVE IInv'
<1>1. /\ work[l][r] = "taken" /\ work' = [work EXCEPT ![l][r] = "done"]
      /\ UNCHANGED <<up, job, listener, managing>>
      /\ \/ job[r] = "success" /\ runs' = [runs EXCEPT ![r] = @ + 1]
         \/ runs' = runs
      /\ due' \in SUBSET Result
  BY DEF HandleJobResult, IInv, TypeOK
<1>2. work \in [Listener -> [Result -> {"none", "taken", "done"}]] /\ runs \in [Result -> Nat]
  BY DEF IInv, TypeOK
<1>3. \A m \in Listener, q \in Result :
        work'[m][q] = IF m = l /\ q = r THEN "done" ELSE work[m][q]
  BY <1>1, <1>2
<1>4. \A m \in Listener : InStream(m)' = InStream(m)
  BY <1>1 DEF InStream
<1>5. TypeOK'
  <2>1. work' \in [Listener -> [Result -> {"none", "taken", "done"}]] /\ runs' \in [Result -> Nat]
    BY <1>1, <1>2
  <2> QED  BY <1>1, <2>1 DEF IInv, TypeOK, managing, Serving
<1>6. StreamsInv'
  <2>1. \A m \in Listener : InStream(m) \subseteq Result
    BY Fields, StreamIn DEF IInv, In
  <2> QED  BY <2>1, <1>1, <1>3, <1>4 DEF IInv, StreamsInv
<1>7. SentInv' /\ HoldersInv'
  <2>1. Aside' = Aside /\ \A m \in Listener, q \in Result : Has(m, q)' => Has(m, q)
    BY <1>1, <1>3, <1>4 DEF Has, Aside, managing
  <2> QED  BY <2>1, <1>1, NothingNewHeld
<1>8. ActiveInv' /\ ManagerInv'
  BY <1>1 DEF IInv, ActiveInv, ManagerInv, AtWork, managing, Aside
<1>9. RunsInv'
  <2> SUFFICES ASSUME NEW q \in Result
               PROVE  runs'[q] <= Cardinality(Done(q))' /\ (runs'[q] > 0 => job[q] = "success")
    BY <1>1 DEF RunsInv
  <2>1. runs[q] <= Cardinality(Done(q)) /\ (runs[q] > 0 => job[q] = "success") /\ runs[q] \in Nat
    BY <1>2 DEF IInv, RunsInv
  <2>2. CASE q # r
    <3>1. Done(q)' = Done(q) /\ runs'[q] = runs[q]
      BY <2>2, <1>1, <1>2, <1>3 DEF Done
    <3> QED  BY <2>1, <3>1
  <2>3. CASE q = r
    <3>1. Done(r)' = Done(r) \cup {l} /\ l \notin Done(r)
      BY <1>1, <1>3 DEF Done
    <3>2. IsFiniteSet(Done(r))
      <4>1. IsFiniteSet(Listener)
        BY FS_Interval, ResultListenerAssumption DEF Listener
      <4>2. Done(r) \subseteq Listener
        BY DEF Done
      <4> QED  BY <4>1, <4>2, FS_Subset
    <3>3. Cardinality(Done(r)') = Cardinality(Done(r)) + 1 /\ Cardinality(Done(r)) \in Nat
      BY <3>1, <3>2, FS_AddElement, FS_CardinalityType
    <3>4. runs'[r] <= runs[r] + 1 /\ (runs'[r] > 0 => job[r] = "success")
      BY <2>1, <2>3, <1>1, <1>2
    <3>5. runs'[r] \in Nat
      BY <1>5 DEF TypeOK
    <3> QED  BY <2>1, <2>3, <3>3, <3>4, <3>5
  <2> QED  BY <2>2, <2>3
<1> QED  BY <1>5, <1>6, <1>7, <1>8, <1>9 DEF IInv

\* Moving a task on to another place.
LEMMA GotoStep ==
    ASSUME IInv, NEW l \in Listener, AtWork(l),
           NEW pc \in {"connecting", "serving", "sleeping"}, Goto(l, pc),
           UNCHANGED <<up, job, work, runs, due, managing>>
    PROVE  IInv'
<1> DEFINE t == [listener[l] EXCEPT !.pc = pc]
<1>1. listener[l] \in Task /\ Injective(listener[l].stream) /\ due \in SUBSET Result
  BY Fields DEF IInv, StreamsInv, Injective, TypeOK
<1>2. t \in Task /\ t.pc = pc /\ t.stream = listener[l].stream
  BY <1>1 DEF Task
<1>3. listener' = [listener EXCEPT ![l] = t]
  BY DEF Goto
<1> HIDE DEF t
<1>4. In(t.stream) \subseteq InStream(l) /\ Injective(t.stream)
  BY <1>1, <1>2, StreamIn
<1> QED  BY <1>1, <1>2, <1>3, <1>4, ListenerSteps DEF AtWork

LEMMA StreamClosesStep ==
    ASSUME IInv, NEW l \in Listener, NEW how \in {"end", "error"}, StreamCloses(l, how)
    PROVE  IInv'
<1>1. PICK n \in 0 .. Len(listener[l].stream) :
        LET kept == SubSeq(listener[l].stream, 1, n)
        IN  listener' = Closed(l, how, kept) /\ due' = due \ (InStream(l) \ {kept[i] : i \in 1 .. n})
  BY DEF StreamCloses
<1> DEFINE s == listener[l].stream
           kept == SubSeq(s, 1, n)
           t == [[listener[l] EXCEPT !.closed = how] EXCEPT !.stream = kept]
<1>2. listener[l] \in Task /\ s \in Seq(Result) /\ Injective(s) /\ due' \in SUBSET Result
  BY <1>1, Fields DEF IInv, StreamsInv, Injective, TypeOK
<1>3. kept \in Seq(Result) /\ In(kept) \subseteq In(s) /\ Injective(kept)
  BY <1>2, PrefixHolds
<1>4. listener' = [listener EXCEPT ![l] = t]
  BY <1>1, <1>2 DEF Closed, IInv, TypeOK
<1>5. t \in Task /\ t.stream = kept /\ t.pc = listener[l].pc
  BY <1>2, <1>3 DEF Task
<1>6. Serving(l) /\ UNCHANGED <<up, job, work, runs, managing>>
  BY DEF StreamCloses
<1> HIDE DEF t
<1>7. In(t.stream) \subseteq InStream(l) /\ Injective(t.stream)
  BY <1>3, <1>5, StreamIn
<1> QED  BY <1>2, <1>4, <1>5, <1>6, <1>7, ListenerSteps DEF AtWork, Serving

LEMMA ConnectStep == ASSUME IInv, NEW l \in Listener, Connect(l) PROVE IInv'
<1>1. listener[l].pc = "connecting" /\ UNCHANGED <<up, job, work, runs, due, managing>>
  BY DEF Connect
<1>2. CASE ~ up
  BY <1>1, <1>2, GotoStep DEF Connect, AtWork
<1>3. CASE up
  <2> DEFINE t == [pc |-> "serving", stream |-> <<>>, closed |-> "no"]
  <2>1. listener' = [listener EXCEPT ![l] = t]
    BY <1>3 DEF Connect
  <2>2. t \in Task /\ In(t.stream) \subseteq InStream(l) /\ Injective(t.stream) /\ t.pc # "unborn"
    BY EmptyHolds DEF Task
  <2>3. due' \in SUBSET Result
    BY <1>1 DEF IInv, TypeOK
  <2> HIDE DEF t
  <2> QED  BY <1>1, <2>1, <2>2, <2>3, ListenerSteps DEF AtWork
<1> QED  BY <1>2, <1>3

\* A task that ends, by a signal or because it is asked to.
LEMMA EndedStep ==
    ASSUME IInv, NEW l \in Listener, Ended(l), listener[l].pc # "unborn",
           UNCHANGED <<up, job, work, runs, managing>>
    PROVE  IInv'
<1> DEFINE t == [pc |-> "ended", stream |-> <<>>, closed |-> "no"]
<1>1. listener' = [listener EXCEPT ![l] = t] /\ due' \in SUBSET Result
  BY DEF Ended, IInv, TypeOK
<1>2. t \in Task /\ In(t.stream) \subseteq InStream(l) /\ Injective(t.stream) /\ t.pc = "ended"
  BY EmptyHolds DEF Task
<1> HIDE DEF t
<1> QED  BY <1>1, <1>2, ListenerSteps

\* The listener in the map and those that stop_all has taken out of it were started.
LEMMA ShutdownStep == ASSUME IInv, NEW l \in Listener, Shutdown(l) PROVE IInv'
<1>1. Ended(l) /\ UNCHANGED <<up, job, work, runs, managing>>
  BY DEF Shutdown
<1>2. l \in 1 .. started /\ started \in Nat
  BY DEF Shutdown, Asked, IInv, TypeOK, Listener
<1>3. listener[l].pc # "unborn"
  BY <1>2 DEF IInv, ManagerInv
<1> QED  BY <1>1, <1>3, EndedStep

LEMMA ListenStepStep == ASSUME IInv, NEW l \in Listener, ListenStep(l) \/ CtrlC(l) PROVE IInv'
<1>1. CASE Connect(l)
  BY <1>1, ConnectStep
<1>2. CASE Take(l)
  BY <1>2, TakeStep
<1>3. CASE StreamDone(l)
  BY <1>3, GotoStep DEF StreamDone, AfterStream, Serving, AtWork
<1>4. CASE Wake(l)
  BY <1>4, GotoStep DEF Wake, AtWork
<1>5. CASE Shutdown(l)
  BY <1>5, ShutdownStep
<1>6. CASE CtrlC(l)
  BY <1>6, EndedStep DEF CtrlC, Serving
<1> QED  BY <1>1, <1>2, <1>3, <1>4, <1>5, <1>6 DEF ListenStep

\* The streams served outside the map change only with the listeners put aside.
LEMMA ManagerTypes ==
    ASSUME IInv, UNCHANGED <<job, listening>>, Aside \subseteq Aside',
           up' \in BOOLEAN, due' \in SUBSET Result, started' \in 0 .. MaxStarts,
           current' \in 0 .. started', orphans' \in SUBSET (1 .. started'),
           drained' \in SUBSET (1 .. started'), manager' \in {"idle", "stopping", "starting"},
           halt' \in {"no", "stopping", "stopped"}
    PROVE  TypeOK'
<1>1. \A l \in Listener : Serving(l)' <=> Serving(l)
  BY DEF Serving, listening
<1>2. \A l, m \in Listener \ Aside' : Serving(l)' /\ Serving(m)' => l = m
  BY <1>1 DEF IInv, TypeOK, Aside
<1> QED  BY <1>2 DEF IInv, TypeOK, listening, Aside

LEMMA ServerStep == ASSUME IInv, ServerGoes \/ ServerReturns PROVE IInv'
<1>1. up' \in BOOLEAN /\ UNCHANGED <<job, listening, due, managing>>
  BY DEF ServerGoes, ServerReturns
<1>2. Aside' = Aside /\ ActiveInv' /\ ManagerInv'
  BY <1>1 DEF IInv, ActiveInv, ManagerInv, AtWork, managing, listening, Aside
<1>3. TypeOK'
  BY <1>1, <1>2, ManagerTypes DEF IInv, TypeOK, managing
<1>4. due' \in SUBSET Result
  BY <1>1 DEF IInv, TypeOK
<1> QED  BY <1>1, <1>2, <1>3, <1>4, QuietSteps

LEMMA MapStep ==
    ASSUME IInv, Replace \/ Rename \/ StopDone \/ StartNothing \/ StopAll \/ StopAllDone
    PROVE  IInv'
<1>1. /\ UNCHANGED <<up, job, listening, due, started>>
      /\ started \in 0 .. MaxStarts /\ current \in 0 .. started
      /\ orphans \in SUBSET (1 .. started) /\ drained \in SUBSET (1 .. started)
      /\ halt = "no" => drained = {}
  BY DEF Replace, Rename, StopDone, StartNothing, StopAll, StopAllDone, stopAll, IInv, TypeOK,
         ManagerInv
<1>2. /\ current' \in 0 .. started /\ manager' \in {"idle", "stopping", "starting"}
      /\ halt' \in {"no", "stopping", "stopped"}
      /\ orphans' \in SUBSET (1 .. started) /\ drained' \in SUBSET (1 .. started)
      /\ Aside \subseteq Aside'
  <2>1. CASE Rename
    BY <2>1, <1>1 DEF Rename, stopAll, IInv, TypeOK, Aside
  <2>2. CASE StopAll
    BY <2>2, <1>1 DEF StopAll, IInv, TypeOK, Aside
  <2>3. CASE Replace \/ StopDone \/ StartNothing \/ StopAllDone
    <3>1. UNCHANGED <<orphans, drained>> /\ (current' = current \/ current' = 0)
      BY <2>3 DEF Replace, StopDone, StartNothing, StopAllDone, stopAll
    <3>2. manager' \in {"idle", "stopping", "starting"} /\ halt' \in {"no", "stopping", "stopped"}
      BY <2>3 DEF Replace, StopDone, StartNothing, StopAllDone, stopAll, IInv, TypeOK
    <3>3. started \in Nat
      BY <1>1
    <3> QED  BY <3>1, <3>2, <3>3, <1>1 DEF Aside
  <2> QED  BY <2>1, <2>2, <2>3
<1>3. TypeOK' /\ due' \in SUBSET Result
  BY <1>1, <1>2, ManagerTypes DEF IInv, TypeOK
<1>4. \A l \in Listener : AtWork(l)' <=> AtWork(l)
  BY <1>1 DEF AtWork, listening
<1>5. ActiveInv'
  <2> SUFFICES ASSUME NEW l \in Listener \ Aside', AtWork(l) PROVE l = current'
    BY <1>4 DEF ActiveInv
  <2>1. l = current /\ l # 0
    BY <1>2 DEF IInv, ActiveInv, Listener
  <2>2. CASE Rename
    BY <2>1, <2>2 DEF Rename, Aside
  <2>3. CASE StopAll
    BY <2>1, <2>3 DEF StopAll, Aside
  <2>4. CASE StopDone
    BY <2>1, <2>4 DEF StopDone, Stopped, AtWork
  <2>5. CASE Replace \/ StartNothing \/ StopAllDone
    BY <2>1, <2>5 DEF Replace, StartNothing, StopAllDone
  <2> QED  BY <2>2, <2>3, <2>4, <2>5
<1>6. ManagerInv'
  <2>1. \A l \in Listener : (l > started <=> listener[l].pc = "unborn")'
    BY <1>1 DEF IInv, ManagerInv, listening
  <2>2. /\ manager' = "starting" => current' = 0
        /\ manager' = "stopping" => current' # 0
        /\ manager' # "idle" => started < MaxStarts
    BY DEF Replace, Rename, StopDone, StartNothing, StopAll, StopAllDone, IInv, ManagerInv
  <2>3. halt' = "no" => drained' = {}
    BY DEF Replace, Rename, StopDone, StartNothing, StopAll, StopAllDone, stopAll, IInv, ManagerInv
  <2> QED  BY <2>1, <2>2, <2>3, <1>1 DEF ManagerInv
<1> QED  BY <1>1, <1>2, <1>3, <1>5, <1>6, QuietSteps

LEMMA StartStep == ASSUME IInv, Start PROVE IInv'
<1> DEFINE n == started + 1
<1>1. /\ manager = "starting" /\ manager' = "idle" /\ started' = n /\ current' = n
      /\ listener' = [listener EXCEPT ![n].pc = "connecting"]
      /\ UNCHANGED <<up, job, work, runs, due, orphans, stopAll>>
  BY DEF Start
<1>2. started \in Nat /\ n \in Listener /\ started < MaxStarts
  BY <1>1, ResultListenerAssumption DEF IInv, TypeOK, ManagerInv, Listener
<1>3. listener \in [Listener -> Task] /\ listener[n].pc = "unborn" /\ current = 0
  BY <1>1, <1>2 DEF IInv, TypeOK, ManagerInv
<1>4. /\ \A l \in Listener \ {n} : listener'[l] = listener[l]
      /\ listener'[n] \in Task /\ listener'[n].pc = "connecting"
      /\ listener'[n].stream = listener[n].stream
  BY <1>1, <1>2, <1>3 DEF Task
<1>5. Aside' = Aside /\ Aside \subseteq 1 .. started
  BY <1>1 DEF Aside, stopAll, IInv, TypeOK
<1>6. \A l \in Listener : InStream(l)' = InStream(l) /\ listener'[l].stream = listener[l].stream
  BY <1>4 DEF InStream
<1>7. \A l \in Listener \ Aside : AtWork(l)' => l = n
  BY <1>3, <1>4 DEF IInv, ActiveInv, AtWork, Listener
<1>8. TypeOK'
  <2>1. listener' \in [Listener -> Task]
    BY <1>1, <1>3, <1>4
  <2>2. \A l, m \in Listener \ Aside' : Serving(l)' /\ Serving(m)' => l = m
    BY <1>5, <1>7 DEF Serving, AtWork
  <2>3. /\ started' \in 0 .. MaxStarts /\ current' \in 0 .. started'
        /\ orphans' \in SUBSET (1 .. started') /\ drained' \in SUBSET (1 .. started')
    BY <1>1, <1>2, ResultListenerAssumption DEF IInv, TypeOK, stopAll
  <2> QED  BY <1>1, <2>1, <2>2, <2>3 DEF IInv, TypeOK, stopAll, Aside
<1>9. StreamsInv'
  BY <1>1, <1>6 DEF IInv, StreamsInv
<1>10. SentInv' /\ HoldersInv'
  <2>1. \A l \in Listener, r \in Result : Has(l, r)' => Has(l, r)
    BY <1>1, <1>6 DEF Has
  <2> QED  BY <2>1, <1>1, <1>5, NothingNewHeld
<1>11. ActiveInv'
  BY <1>1, <1>5, <1>7 DEF ActiveInv
<1>12. ManagerInv'
  <2> SUFFICES ASSUME NEW l \in Listener PROVE (l > started <=> listener[l].pc = "unborn")'
    BY <1>1 DEF ManagerInv, stopAll, IInv
  <2>1. l \in Nat /\ (l > started <=> listener[l].pc = "unborn")
    BY DEF IInv, ManagerInv, Listener
  <2> QED  BY <2>1, <1>1, <1>2, <1>4
<1>13. RunsInv'
  BY <1>1 DEF IInv, RunsInv, Done
<1> QED  BY <1>8, <1>9, <1>10, <1>11, <1>12, <1>13 DEF IInv

LEMMA InvStep == IInv /\ [Next]_vars => IInv'
<1> SUFFICES ASSUME IInv, [Next]_vars PROVE IInv'
  OBVIOUS
<1>1. CASE \E r \in Result, outcome \in Outcome : JobEnds(r, outcome)
  BY <1>1, JobEndsStep
<1>2. CASE \E l \in Listener, how \in {"end", "error"} : StreamCloses(l, how)
  BY <1>2, StreamClosesStep
<1>3. CASE ServerGoes \/ ServerReturns
  BY <1>3, ServerStep
<1>4. CASE \E l \in Listener : ListenStep(l) \/ CtrlC(l)
  BY <1>4, ListenStepStep
<1>5. CASE \E l \in Listener, r \in Result : HandleJobResult(l, r)
  BY <1>5, HandleStep
<1>6. CASE Start
  BY <1>6, StartStep
<1>7. CASE Replace \/ Rename \/ StopDone \/ StartNothing \/ StopAll \/ StopAllDone
  BY <1>7, MapStep
<1>8. CASE UNCHANGED vars
  <2>1. UNCHANGED <<up, job, listening, due, managing>>
    BY <1>8 DEF vars, listening, managing
  <2>2. Aside' = Aside /\ ActiveInv' /\ ManagerInv'
    BY <2>1 DEF IInv, ActiveInv, ManagerInv, AtWork, managing, listening, Aside
  <2>3. TypeOK' /\ due' \in SUBSET Result
    BY <2>1, <2>2, ManagerTypes DEF IInv, TypeOK, managing
  <2> QED  BY <2>1, <2>2, <2>3, QuietSteps
<1> QED  BY <1>1, <1>2, <1>3, <1>4, <1>5, <1>6, <1>7, <1>8 DEF Next, ManagerStep

-----------------------------------------------------------------------------
(* Theorems *)

\* A result is in at most one stream, or taken by at most one listener, among
\* those that are not left under another name or being stopped.
THEOREM ListenerInvariant == Spec => []IInv
<1>1. Init => IInv
  BY InvInit
<1>2. IInv /\ [Next]_vars => IInv'
  BY InvStep
<1> QED  BY <1>1, <1>2, PTL DEF Spec

\* At most one listener of a handler serves, besides those left behind.
THEOREM ListenerTypeCorrect == Spec => []TypeOK
<1>1. IInv => TypeOK
  BY DEF IInv
<1> QED  BY <1>1, ListenerInvariant, PTL

\* However often streams break, listeners connect again and are replaced, a result
\* triggers at most one execution for each name its handler has listened under and
\* each listener that stop_all ends, and only a success triggers one.
THEOREM ResultsRunAtMostOnce == Spec => []ResultsRunOnce
<1>1. IInv => ResultsRunOnce
  <2> SUFFICES ASSUME IInv, NEW r \in Result
               PROVE  runs[r] <= Cardinality(Aside) + 1 /\ (runs[r] > 0 => job[r] = "success")
    BY DEF ResultsRunOnce, Aside
  <2>1. IsFiniteSet(Listener)
    BY FS_Interval, ResultListenerAssumption DEF Listener
  <2>2. Done(r) \subseteq Listener /\ Aside \subseteq Listener
    BY ResultListenerAssumption DEF Done, IInv, TypeOK, Aside, Listener
  <2>3. IsFiniteSet(Done(r)) /\ IsFiniteSet(Aside)
    BY <2>1, <2>2, FS_Subset
  <2>4. Cardinality(Done(r)) \in Nat /\ Cardinality(Aside) \in Nat
    BY <2>3, FS_CardinalityType
  <2>5. runs[r] \in Nat /\ runs[r] <= Cardinality(Done(r)) /\ (runs[r] > 0 => job[r] = "success")
    BY DEF IInv, TypeOK, RunsInv
  <2> QED  BY <2>4, <2>5, HoldersBound
<1> QED  BY <1>1, ListenerInvariant, PTL

=============================================================================
