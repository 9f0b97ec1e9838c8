---------------------------- MODULE ResultListener ----------------------------
(***************************************************************************)
(* A worker result handler at work: the task that listens to the results   *)
(* of a jobworkerp worker, connecting again whenever its stream ends, the  *)
(* tasks that handle what it takes from the stream, and the manager that   *)
(* replaces the listener when the handler changes.                         *)
(*                                                                         *)
(* jobworkerp sends a result once to every stream that is open when the    *)
(* job ends, and never again.                                              *)
(***************************************************************************)
EXTENDS Naturals, Sequences, FiniteSets

CONSTANTS
    Result,     \* jobs of the worker listened to
    MaxStarts   \* bound on listeners started for the handler

ASSUME ResultListenerAssumption == MaxStarts \in Nat \ {0}

\* The listeners of the handler, one after the other.
Listener == 1 .. MaxStarts

VARIABLES
    up,         \* the server listened to answers
    job,        \* job[r]: running, or how it ended
    listener,   \* listener[l]: state of the task, its stream and how that ended
    work,       \* work[l][r]: the task that handles result r for listener l
    runs,       \* runs[r]: executions that result r has triggered
    due,        \* history: successes sent to an open stream and not lost since
    current,    \* the listener in active_listeners, 0 if there is none
    started,    \* listeners started so far
    orphans,    \* listeners kept under a name the handler had before
    manager,    \* what the event loop is at in the manager
    drained,    \* listeners taken out of the map by stop_all
    halt        \* how far stop_all has come

listening == <<listener, work, runs>>
stopAll == <<drained, halt>>
managing == <<current, started, orphans, manager, drained, halt>>
vars == <<up, job, listener, work, runs, due, current, started, orphans, manager,
          drained, halt>>

-----------------------------------------------------------------------------
(* Data *)

\* A job may fail, and its output be empty or not what its worker's descriptor says.
Outcome == {"success", "useless"}

Task ==
    [pc : {"unborn", "connecting", "serving", "sleeping", "ended"},
     stream : Seq(Result), closed : {"no", "end", "error"}]
Unborn == [pc |-> "unborn", stream |-> <<>>, closed |-> "no"]

Serving(l) == listener[l].pc = "serving"

TypeOK ==
    /\ up \in BOOLEAN
    /\ job \in [Result -> Outcome \cup {"running"}]
    /\ listener \in [Listener -> Task]
    /\ work \in [Listener -> [Result -> {"none", "taken", "done"}]]
    /\ runs \in [Result -> Nat]
    /\ due \in SUBSET Result
    /\ current \in 0 .. started
    /\ started \in 0 .. MaxStarts
    /\ manager \in {"idle", "stopping", "starting"}
    /\ orphans \in SUBSET (1 .. started)
    /\ drained \in SUBSET (1 .. started)
    /\ halt \in {"no", "stopping", "stopped"}
    /\ \A l, m \in Listener \ (orphans \cup drained) : Serving(l) /\ Serving(m) => l = m

Goto(l, pc) == listener' = [listener EXCEPT ![l].pc = pc]
InStream(l) == {listener[l].stream[i] : i \in DOMAIN listener[l].stream}

-----------------------------------------------------------------------------
(* jobworkerp *)

Sent(r) ==
    [l \in Listener |->
        IF Serving(l) /\ listener[l].closed = "no"
        THEN [listener[l] EXCEPT !.stream = Append(@, r)] ELSE listener[l]]

JobEnds(r, outcome) ==
    /\ up
    /\ job[r] = "running"
    /\ job' = [job EXCEPT ![r] = outcome]
    /\ listener' = Sent(r)
    /\ due' = IF outcome = "success" /\ listener' # listener THEN due \cup {r} ELSE due
    /\ UNCHANGED <<up, work, runs, managing>>

\* A stream ends or breaks; a break may lose what was sent but not taken yet.
Closed(l, how, kept) == [listener EXCEPT ![l].closed = how, ![l].stream = kept]

StreamCloses(l, how) ==
    /\ Serving(l)
    /\ listener[l].closed = "no"
    /\ \E n \in 0 .. Len(listener[l].stream) :
        LET kept == SubSeq(listener[l].stream, 1, n)
        IN /\ how = "end" => n = Len(listener[l].stream)
           /\ listener' = Closed(l, how, kept)
           /\ due' = due \ (InStream(l) \ {kept[i] : i \in 1 .. n})
    /\ UNCHANGED <<up, job, work, runs, managing>>

\* A server that goes away takes the streams with it.
ServerGoes ==
    /\ up
    /\ \A l \in Listener : Serving(l) => listener[l].closed # "no"
    /\ up' = FALSE
    /\ UNCHANGED <<job, listening, due, managing>>

ServerReturns ==
    /\ ~ up
    /\ up' = TRUE
    /\ UNCHANGED <<job, listening, due, managing>>

-----------------------------------------------------------------------------
(* The listening task: listen *)

Connect(l) ==
    /\ listener[l].pc = "connecting"
    /\ IF up
       THEN listener' = [listener EXCEPT ![l] = [pc |-> "serving", stream |-> <<>>, closed |-> "no"]]
       ELSE Goto(l, "sleeping")
    /\ UNCHANGED <<up, job, work, runs, due, managing>>

\* Each result is handled by a task of its own.
Take(l) ==
    /\ Serving(l)
    /\ listener[l].stream # <<>>
    /\ work' = [work EXCEPT ![l][Head(listener[l].stream)] = "taken"]
    /\ listener' = [listener EXCEPT ![l].stream = Tail(@)]
    /\ UNCHANGED <<up, job, runs, due, managing>>

\* Mutant: after an error the same stream is read again.
AfterStreamReadsOn(l) == IF listener[l].closed = "end" THEN "sleeping" ELSE "serving"

AfterStream(l) == "sleeping"

StreamDone(l) ==
    /\ Serving(l)
    /\ listener[l].stream = <<>>
    /\ listener[l].closed # "no"
    /\ Goto(l, AfterStream(l))
    /\ UNCHANGED <<up, job, work, runs, due, managing>>

\* 3 seconds after a failed connection, 1 after the end of a stream, 4 after an
\* error in it.
Wake(l) ==
    /\ listener[l].pc = "sleeping"
    /\ Goto(l, "connecting")
    /\ UNCHANGED <<up, job, work, runs, due, managing>>

Ended(l) ==
    /\ listener' = [listener EXCEPT ![l] = [pc |-> "ended", stream |-> <<>>, closed |-> "no"]]
    /\ due' = due \ InStream(l)

\* The signal is looked at while serving only.
CtrlC(l) ==
    /\ Serving(l)
    /\ Ended(l)
    /\ UNCHANGED <<up, job, work, runs, managing>>

-----------------------------------------------------------------------------
(* The handling tasks: handle_job_result *)

\* Only a success whose output is found and not empty is run. The server is
\* asked how to decode the output, and without an answer the result is lost.
HandleJobResult(l, r) ==
    /\ work[l][r] = "taken"
    /\ work' = [work EXCEPT ![l][r] = "done"]
    /\ LET decoded == job[r] = "success" /\ up
       IN /\ runs' = IF decoded THEN [runs EXCEPT ![r] = @ + 1] ELSE runs
          /\ due' = IF decoded THEN due ELSE due \ {r}
    /\ UNCHANGED <<up, job, listener, managing>>

-----------------------------------------------------------------------------
(* The manager: update_listener_from_event in the event loop, stop_all in main *)

\* A change that keeps the name of the handler.
Replace ==
    /\ manager = "idle"
    /\ started < MaxStarts
    /\ manager' = IF current = 0 THEN "starting" ELSE "stopping"
    /\ UNCHANGED <<up, job, listening, due, current, started, orphans, stopAll>>

\* The old listener is looked up by the name the store holds by now: a handler
\* that was renamed or deleted leaves its listener behind.
Rename ==
    /\ manager = "idle"
    /\ started < MaxStarts
    /\ manager' = "starting"
    /\ orphans' = IF current = 0 THEN orphans ELSE orphans \cup {current}
    /\ current' = 0
    /\ UNCHANGED <<up, job, listening, due, started, stopAll>>

Asked(l) == l \in drained \/ (manager = "stopping" /\ l = current)

\* Mutant: the request to stop is looked at while serving only.
ShutdownWhileServing(l) ==
    /\ Asked(l)
    /\ Serving(l)
    /\ Ended(l)
    /\ UNCHANGED <<up, job, work, runs, managing>>

\* Mutant: the tasks that handle results belong to the listener.
ShutdownAborts(l) ==
    /\ Asked(l)
    /\ listener[l].pc # "ended"
    /\ Ended(l)
    /\ work' = [work EXCEPT ![l] = [r \in Result |-> "done"]]
    /\ UNCHANGED <<up, job, runs, managing>>

\* The task is dropped wherever it waits; what it has taken goes on.
Shutdown(l) ==
    /\ Asked(l)
    /\ listener[l].pc # "ended"
    /\ Ended(l)
    /\ UNCHANGED <<up, job, work, runs, managing>>

\* Mutant: the end of the old task is not waited for.
Gone(l) == TRUE

Stopped(l) == listener[l].pc = "ended"

StopDone ==
    /\ manager = "stopping"
    /\ Stopped(current)
    /\ current' = 0
    /\ manager' = "starting"
    /\ UNCHANGED <<up, job, listening, due, started, orphans, stopAll>>

Start ==
    /\ manager = "starting"
    /\ manager' = "idle"
    /\ started' = started + 1
    /\ current' = started + 1
    /\ listener' = [listener EXCEPT ![started + 1].pc = "connecting"]
    /\ UNCHANGED <<up, job, work, runs, due, orphans, stopAll>>

\* A disabled or deleted handler is not started, nor one for which a server is
\* missing or a client cannot be built.
StartNothing ==
    /\ manager = "starting"
    /\ manager' = "idle"
    /\ UNCHANGED <<up, job, listening, due, current, started, orphans, stopAll>>

\* The map is locked while an old listener is waited for, but not while a new one
\* is built, which is put into the emptied map afterwards.
StopAll ==
    /\ halt = "no"
    /\ manager # "stopping"
    /\ halt' = "stopping"
    /\ drained' = orphans \cup ({current} \ {0})
    /\ current' = 0
    /\ orphans' = {}
    /\ UNCHANGED <<up, job, listening, due, started, manager>>

StopAllDone ==
    /\ halt = "stopping"
    /\ \A l \in drained : Stopped(l)
    /\ halt' = "stopped"
    /\ UNCHANGED <<up, job, listening, due, current, started, orphans, manager, drained>>

-----------------------------------------------------------------------------
(* Specification *)

Init ==
    /\ up \in BOOLEAN
    /\ job = [r \in Result |-> "running"]
    /\ listener = [l \in Listener |-> Unborn]
    /\ work = [l \in Listener |-> [r \in Result |-> "none"]]
    /\ runs = [r \in Result |-> 0]
    /\ due = {}
    /\ current = 0
    /\ started = 0
    /\ orphans = {}
    /\ manager = "starting"
    /\ drained = {}
    /\ halt = "no"

ListenStep(l) == Connect(l) \/ Take(l) \/ StreamDone(l) \/ Wake(l) \/ Shutdown(l)
ManagerStep == StopDone \/ Start \/ StartNothing

Next ==
    \/ \E r \in Result, outcome \in Outcome : JobEnds(r, outcome)
    \/ \E l \in Listener, how \in {"end", "error"} : StreamCloses(l, how)
    \/ ServerGoes \/ ServerReturns
    \/ \E l \in Listener : ListenStep(l) \/ CtrlC(l)
    \/ \E l \in Listener, r \in Result : HandleJobResult(l, r)
    \/ Replace \/ Rename \/ ManagerStep
    \/ StopAll \/ StopAllDone

Spec == Init /\ [][Next]_vars

\* Tasks are polled to their end; a request to stop is seen at the latest when
\* the task waits again.
Fairness ==
    /\ \A l \in Listener : WF_vars(ListenStep(l)) /\ WF_vars(Shutdown(l))
    /\ \A l \in Listener, r \in Result : WF_vars(HandleJobResult(l, r))
    /\ WF_vars(ManagerStep)
    /\ WF_vars(StopAllDone)

FairSpec == Spec /\ Fairness

-----------------------------------------------------------------------------
(* Properties *)

\* A result triggers one execution for each name its handler is listening under
\* and for each listener that stop_all is ending, though the listener connects again
\* and is replaced while tasks of the one before still run; and nothing but a
\* success triggers any.
ResultsRunOnce ==
    \A r \in Result :
        /\ runs[r] <= Cardinality(orphans \cup drained) + 1
        /\ runs[r] > 0 => job[r] = "success"

\* A success that was sent while a stream was open is run, unless that stream
\* broke, the listener was stopped, or the server could not be asked, before.
ResultsAreRun == \A r \in Result : []<>(r \in due => runs[r] > 0)

\* A listener that was not stopped reads an open stream again and again, as long
\* as the server answers: whatever ended its stream, and however often.
ListenerReturns ==
    \A l \in Listener :
        []<>(\/ Serving(l) /\ listener[l].closed = "no"
             \/ ~ up
             \/ listener[l].pc \in {"unborn", "ended"})

\* The manager gets through every change and through stop_all, and with it the
\* background task that applies all configuration changes and the shutdown of the
\* process: they wait for the end of listeners that may be connecting, sleeping or
\* serving.
ChangesGetThrough == []<>(manager = "idle" /\ halt # "stopping")

=============================================================================
