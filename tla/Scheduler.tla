------------------------------ MODULE Scheduler ------------------------------
(***************************************************************************)
(* CScheduler and SingleThreadedSchedulerClient (scheduler.cpp), with the   *)
(* threads that use them: the callers of ActivateBestChain, which limit the *)
(* queue of validation callbacks and may wait for it (validation.cpp,       *)
(* validationinterface.cpp), and PrepareShutdown, which joins everything    *)
(* and runs what is left of the queue itself (init.cpp).                    *)
(*                                                                          *)
(* A critical section of newTaskMutex or of m_cs_callbacks_pending is one   *)
(* step.  The tasks are a bag: which of two tasks with the same time runs   *)
(* first is left open.  Spurious wake-ups, MockForward and StopWhenDrained  *)
(* (tests only) are left out.                                               *)
(***************************************************************************)
EXTENDS Naturals, Sequences

CONSTANTS
    Threads,       \* the threads in serviceQueue (the node has one)
    Producers,     \* callers of ActivateBestChain joined before the scheduler stops
    Loaders,       \* g_load_block: joined after it
    Main,          \* the thread that runs PrepareShutdown
    Limit,         \* callbacks above which LimitValidationInterfaceQueue waits (10)
    Delta,         \* period of a scheduleEvery task
    MaxTime,       \* bound on the clock
    MaxCallbacks   \* bound on the callbacks that are added

ASSUME SchedulerAssumption ==
    /\ Main \notin Threads \cup Producers \cup Loaders
    /\ Threads \cap (Producers \cup Loaders) = {}
    /\ Delta \in Nat /\ MaxTime \in Nat

Callers == Producers \cup Loaders
Actors == Threads \cup Callers \cup {Main}

Times == 0..(MaxTime + Delta)
Tasks == [time : Times, what : {"process", "repeat"}]

VARIABLES
    taskQueue,     \* how many of each task are scheduled
    stopRequested,
    now,           \* the system clock
    m_callbacks_pending, m_are_callbacks_running,
    pc,            \* of every actor: see the actions
    until,         \* what a thread passed to wait_until, while it waits
    cb,            \* the callback an actor runs
    waitFor,       \* the promise a caller waits for, or 0
    stage,         \* which FlushBackgroundCallbacks of PrepareShutdown comes next
    added,         \* history: number of callbacks added
    lastId,        \* history: the last one taken from the list
    done           \* history: those that have run

vars == <<taskQueue, stopRequested, now, m_callbacks_pending, m_are_callbacks_running,
          pc, until, cb, waitFor, stage, added, lastId, done>>

queueVars == <<taskQueue, stopRequested, until>>
listVars == <<m_callbacks_pending, m_are_callbacks_running, cb, added, lastId, done>>

Init ==
    /\ taskQueue = [x \in Tasks |-> IF x = [time |-> 0, what |-> "repeat"] THEN 1 ELSE 0]
    /\ stopRequested = FALSE
    /\ now = 0
    /\ m_callbacks_pending = <<>>
    /\ m_are_callbacks_running = FALSE
    /\ pc = [a \in Actors |-> IF a \in Threads THEN "top"
                              ELSE IF a = Main THEN "up" ELSE "out"]
    /\ until = [t \in Threads |-> 0]
    /\ cb = [a \in Actors |-> 0]
    /\ waitFor = [a \in Callers |-> 0]
    /\ stage = 1
    /\ added = 0 /\ lastId = 0
    /\ done = {}

ShutdownRequested == pc[Main] # "up"

Tick ==
    /\ now < MaxTime
    /\ now' = now + 1
    /\ UNCHANGED <<queueVars, listVars, pc, waitFor, stage>>

-----------------------------------------------------------------------------
(* CScheduler. *)

QueueEmpty == \A x \in Tasks : taskQueue[x] = 0

Waiting == {t \in Threads : pc[t] \in {"wait", "until"}}

\* Mutant of NotifyOne: nobody is notified.
NotifyNobody(a, p) == pc' = [pc EXCEPT ![a] = p]

\* newTaskScheduled.notify_one() at the end of a step that takes a to p.
NotifyOne(a, p) ==
    \/ /\ Waiting \ {a} = {}
       /\ pc' = [pc EXCEPT ![a] = p]
    \/ \E w \in Waiting \ {a} : pc' = [pc EXCEPT ![a] = p, ![w] = "top"]

\* schedule, by the actor a, which goes on at p.
schedule(a, what, time, p) ==
    /\ taskQueue' = [taskQueue EXCEPT ![[time |-> time, what |-> what]] = @ + 1]
    /\ NotifyOne(a, p)

\* serviceQueue from the top of its loop to one of the two waits, or out of it.
Service(t) ==
    /\ pc[t] = "top"
    /\ \/ /\ stopRequested
          /\ NotifyOne(t, "done")
          /\ UNCHANGED until
       \/ /\ ~stopRequested /\ QueueEmpty
          /\ pc' = [pc EXCEPT ![t] = "wait"]
          /\ UNCHANGED until
       \/ /\ ~stopRequested
          /\ \E x \in Tasks :
               /\ taskQueue[x] > 0
               /\ \A y \in Tasks : taskQueue[y] > 0 => x.time <= y.time
               /\ until' = [until EXCEPT ![t] = x.time]
          /\ pc' = [pc EXCEPT ![t] = "until"]
    /\ UNCHANGED <<taskQueue, stopRequested, now, listVars, waitFor, stage>>

\* wait_until times out: the first task is taken, whichever it is by now.
Timeout(t) ==
    /\ pc[t] = "until" /\ until[t] <= now
    /\ IF stopRequested \/ QueueEmpty
       THEN pc' = [pc EXCEPT ![t] = "top"] /\ UNCHANGED taskQueue
       ELSE \E x \in Tasks :
              /\ taskQueue[x] > 0
              /\ \A y \in Tasks : taskQueue[y] > 0 => x.time <= y.time
              /\ taskQueue' = [taskQueue EXCEPT ![x] = @ - 1]
              /\ pc' = [pc EXCEPT ![t] = x.what]
    /\ until' = [until EXCEPT ![t] = 0]
    /\ UNCHANGED <<stopRequested, now, listVars, waitFor, stage>>

\* Repeat: the function of scheduleEvery, then the next time.
Repeat(t) ==
    /\ pc[t] = "repeat"
    /\ schedule(t, "repeat", now + Delta, "top")
    /\ UNCHANGED <<stopRequested, now, until, listVars, waitFor, stage>>

-----------------------------------------------------------------------------
(* SingleThreadedSchedulerClient. *)

\* Where an actor continues after ProcessQueue, after AddToProcessQueue.
Continue(a) ==
    CASE a \in Threads -> "top"
      [] a = Main      -> "process"
      [] OTHER         -> IF waitFor[a] # 0 THEN "await" ELSE "check"

\* Mutant of ProcessQueue: it does not look whether a callback is running.
ProcessQueueAnyway(a) ==
    /\ pc[a] = "process"
    /\ IF m_callbacks_pending = <<>>
       THEN /\ pc' = [pc EXCEPT ![a] = IF a \in Threads THEN "top"
                                       ELSE IF stage = 1 THEN "flush" ELSE "closed"]
            /\ UNCHANGED listVars
       ELSE /\ m_are_callbacks_running' = TRUE
            /\ cb' = [cb EXCEPT ![a] = Head(m_callbacks_pending)]
            /\ lastId' = Head(m_callbacks_pending)
            /\ m_callbacks_pending' = Tail(m_callbacks_pending)
            /\ pc' = [pc EXCEPT ![a] = "callback"]
            /\ UNCHANGED <<added, done>>
    /\ UNCHANGED <<queueVars, now, waitFor, stage>>

\* ProcessQueue, up to the callback.  EmptyQueue calls it until the list is
\* empty.
ProcessQueue(a) ==
    /\ pc[a] = "process"
    /\ IF m_are_callbacks_running \/ m_callbacks_pending = <<>>
       THEN /\ pc' = [pc EXCEPT ![a] =
                        IF a \in Threads THEN "top"
                        ELSE IF m_callbacks_pending # <<>> THEN "process"
                        ELSE IF stage = 1 THEN "flush" ELSE "closed"]
            /\ UNCHANGED listVars
       ELSE /\ m_are_callbacks_running' = TRUE
            /\ cb' = [cb EXCEPT ![a] = Head(m_callbacks_pending)]
            /\ lastId' = Head(m_callbacks_pending)
            /\ m_callbacks_pending' = Tail(m_callbacks_pending)
            /\ pc' = [pc EXCEPT ![a] = "callback"]
            /\ UNCHANGED <<added, done>>
    /\ UNCHANGED <<queueVars, now, waitFor, stage>>

\* Mutant of Put: the newest callback goes first.
PutFirst ==
    /\ m_callbacks_pending' = <<added + 1>> \o m_callbacks_pending
    /\ added' = added + 1

\* Append a callback to the list.
Put ==
    /\ m_callbacks_pending' = Append(m_callbacks_pending, added + 1)
    /\ added' = added + 1

\* The callback runs; it may add another one, for which the call of
\* MaybeScheduleProcessQueue does nothing because this one is running.
Callback(a) ==
    /\ pc[a] = "callback"
    /\ done' = done \cup {cb[a]}
    /\ pc' = [pc EXCEPT ![a] = "finish"]
    /\ \/ UNCHANGED <<m_callbacks_pending, added>>
       \/ added < MaxCallbacks /\ Put
    /\ UNCHANGED <<queueVars, now, m_are_callbacks_running, cb, waitFor, stage, lastId>>

\* Mutant of Finish: the rest of the list is not scheduled.
FinishOnly(a) ==
    /\ pc[a] = "finish"
    /\ m_are_callbacks_running' = FALSE
    /\ cb' = [cb EXCEPT ![a] = 0]
    /\ pc' = [pc EXCEPT ![a] = Continue(a)]
    /\ UNCHANGED <<queueVars, now, m_callbacks_pending, added, lastId, done, waitFor, stage>>

\* The destructor of RAIICallbacksRunning, before MaybeScheduleProcessQueue.
Finish(a) ==
    /\ pc[a] = "finish"
    /\ m_are_callbacks_running' = FALSE
    /\ cb' = [cb EXCEPT ![a] = 0]
    /\ pc' = [pc EXCEPT ![a] = "maybe"]
    /\ UNCHANGED <<queueVars, now, m_callbacks_pending, added, lastId, done, waitFor, stage>>

\* MaybeScheduleProcessQueue: the look at the list, and the call of schedule.
MaybeScheduleProcessQueue(a) ==
    /\ pc[a] = "maybe"
    /\ pc' = [pc EXCEPT ![a] = IF m_are_callbacks_running \/ m_callbacks_pending = <<>>
                               THEN Continue(a) ELSE "sched"]
    /\ UNCHANGED <<queueVars, now, listVars, waitFor, stage>>

ScheduleProcessQueue(a) ==
    /\ pc[a] = "sched"
    /\ schedule(a, "process", now, Continue(a))
    /\ UNCHANGED <<stopRequested, until, now, listVars, waitFor, stage>>

-----------------------------------------------------------------------------
(* ActivateBestChain, as far as it uses the callbacks. *)

Enter(a) ==
    /\ pc[a] = "out" /\ ~ShutdownRequested
    /\ added < MaxCallbacks
    /\ pc' = [pc EXCEPT ![a] = "lock"]
    /\ UNCHANGED <<queueVars, now, listVars, waitFor, stage>>

\* LOCK(m_cs_chainstate), held until ActivateBestChain returns.
Lock(a) ==
    /\ pc[a] = "lock"
    /\ \A b \in Callers : pc[b] \in {"out", "lock"}
    /\ pc' = [pc EXCEPT ![a] = "limit"]
    /\ UNCHANGED <<queueVars, now, listVars, waitFor, stage>>

LimitValidationInterfaceQueue(a) ==
    /\ pc[a] = "limit"
    /\ pc' = [pc EXCEPT ![a] = IF Len(m_callbacks_pending) > Limit THEN "sync" ELSE "add"]
    /\ UNCHANGED <<queueVars, now, listVars, waitFor, stage>>

\* SyncWithValidationInterfaceQueue adds a callback that sets a promise ...
SyncWithValidationInterfaceQueue(a) ==
    /\ pc[a] = "sync"
    /\ Put
    /\ waitFor' = [waitFor EXCEPT ![a] = added + 1]
    /\ pc' = [pc EXCEPT ![a] = "maybe"]
    /\ UNCHANGED <<queueVars, now, m_are_callbacks_running, cb, lastId, done, stage>>

\* ... and waits for it.
Await(a) ==
    /\ pc[a] = "await" /\ waitFor[a] \in done
    /\ waitFor' = [waitFor EXCEPT ![a] = 0]
    /\ pc' = [pc EXCEPT ![a] = "add"]
    /\ UNCHANGED <<queueVars, now, listVars, stage>>

\* GetMainSignals().BlockConnected or UpdatedBlockTip.
Signal(a) ==
    /\ pc[a] = "add"
    /\ Put
    /\ pc' = [pc EXCEPT ![a] = "maybe"]
    /\ UNCHANGED <<queueVars, now, m_are_callbacks_running, cb, lastId, done, waitFor, stage>>

\* if (!blocks_connected) return true.
NothingToConnect(a) ==
    /\ pc[a] = "add"
    /\ pc' = [pc EXCEPT ![a] = "out"]
    /\ UNCHANGED <<queueVars, now, listVars, waitFor, stage>>

\* The next callback of this round, the next round, or the end: the most work
\* chain is reached, or if (ShutdownRequested()) break.
Check(a) ==
    /\ pc[a] = "check"
    /\ \E p \in {"add", "limit", "out"} :
         /\ p \in {"add", "limit"} => added < MaxCallbacks
         /\ p = "limit" => ~ShutdownRequested
         /\ pc' = [pc EXCEPT ![a] = p]
    /\ UNCHANGED <<queueVars, now, listVars, waitFor, stage>>

-----------------------------------------------------------------------------
(* PrepareShutdown. *)

RequestShutdown ==
    /\ pc[Main] = "up"
    /\ pc' = [pc EXCEPT ![Main] = "interrupt"]
    /\ UNCHANGED <<queueVars, now, listVars, waitFor, stage>>

\* Mutant of StopScheduler: the waiting threads are not notified.
StopSilently ==
    /\ pc[Main] = "interrupt"
    /\ \A a \in Producers : pc[a] = "out"
    /\ stopRequested' = TRUE
    /\ pc' = [pc EXCEPT ![Main] = "join"]
    /\ UNCHANGED <<taskQueue, until, now, listVars, waitFor, stage>>

\* node.connman->Stop() has joined the producers; CScheduler::stop.
StopScheduler ==
    /\ pc[Main] = "interrupt"
    /\ \A a \in Producers : pc[a] = "out"
    /\ stopRequested' = TRUE
    /\ pc' = [a \in Actors |-> IF a = Main THEN "join"
                               ELSE IF a \in Waiting THEN "top" ELSE pc[a]]
    /\ UNCHANGED <<taskQueue, until, now, listVars, waitFor, stage>>

\* Mutant of Join: the threads of the scheduler are not joined.
JoinLoaders ==
    /\ pc[Main] = "join"
    /\ \A a \in Loaders : pc[a] = "out"
    /\ pc' = [pc EXCEPT ![Main] = "process"]
    /\ UNCHANGED <<queueVars, now, listVars, waitFor, stage>>

\* m_service_thread.join(), g_load_block.join(), and on to EmptyQueue.
Join ==
    /\ pc[Main] = "join"
    /\ \A a \in Threads : pc[a] = "done"
    /\ \A a \in Loaders : pc[a] = "out"
    /\ pc' = [pc EXCEPT ![Main] = "process"]
    /\ UNCHANGED <<queueVars, now, listVars, waitFor, stage>>

\* ForceFlushStateToDisk between the two calls of FlushBackgroundCallbacks.
FlushState ==
    /\ pc[Main] = "flush"
    /\ Put
    /\ stage' = 2
    /\ pc' = [pc EXCEPT ![Main] = "maybe"]
    /\ UNCHANGED <<queueVars, now, m_are_callbacks_running, cb, lastId, done, waitFor>>

-----------------------------------------------------------------------------
ClientStep(a) ==
    \/ ProcessQueue(a) \/ Callback(a) \/ Finish(a)
    \/ MaybeScheduleProcessQueue(a) \/ ScheduleProcessQueue(a)

ThreadStep(t) == Service(t) \/ Timeout(t) \/ Repeat(t) \/ ClientStep(t)

CallerStep(a) ==
    \/ Lock(a) \/ LimitValidationInterfaceQueue(a) \/ SyncWithValidationInterfaceQueue(a)
    \/ Await(a) \/ Signal(a) \/ NothingToConnect(a) \/ Check(a)
    \/ MaybeScheduleProcessQueue(a) \/ ScheduleProcessQueue(a)

MainStep == StopScheduler \/ Join \/ FlushState \/ ClientStep(Main)

Next ==
    \/ Tick
    \/ \E t \in Threads : ThreadStep(t)
    \/ \E a \in Callers : Enter(a) \/ CallerStep(a)
    \/ RequestShutdown \/ MainStep

Spec == Init /\ [][Next]_vars

\* The threads run.  Nobody is forced to connect a block or to shut down, and a
\* caller in ActivateBestChain reaches its most work chain in the end.
Fairness ==
    /\ \A t \in Threads : WF_vars(ThreadStep(t))
    /\ \A a \in Callers : WF_vars(CallerStep(a))
    /\ WF_vars(MainStep)

FairSpec == Spec /\ Fairness

-----------------------------------------------------------------------------
(* Properties. *)

Running == {a \in Actors : pc[a] \in {"callback", "finish"}}

\* "no two jobs will be executed at the same time", whichever threads run
\* ProcessQueue and also while EmptyQueue runs (SingleThreadedSchedulerClient).
Serial ==
    /\ \A a, b \in Running : a = b
    /\ m_are_callbacks_running <=> Running # {}

\* Every callback is run once, in the order in which it was added, and none is
\* dropped (AddToProcessQueue, ProcessQueue).
OnceInOrder ==
    /\ Len(m_callbacks_pending) = added - lastId
    /\ \A i \in DOMAIN m_callbacks_pending : m_callbacks_pending[i] = lastId + i
    /\ done = (1..lastId) \ {cb[a] : a \in {b \in Actors : pc[b] = "callback"}}

\* When callbacks are pending and none is running, somebody is about to look:
\* a ProcessQueue task is scheduled, or has been taken, or will be
\* (MaybeScheduleProcessQueue, the destructor of RAIICallbacksRunning).
NoLostWakeup ==
    m_callbacks_pending # <<>> /\ ~m_are_callbacks_running =>
        \/ \E x \in Tasks : x.what = "process" /\ taskQueue[x] > 0
        \/ \E a \in Actors : pc[a] \in {"process", "maybe", "sched"}

\* What was added before the second FlushBackgroundCallbacks has run when the
\* shutdown goes on to destroy its listeners (EmptyQueue, PrepareShutdown).
DrainedAtShutdown == pc[Main] = "closed" => done = 1..added

PCs == {"top", "wait", "until", "done", "repeat",
        "process", "callback", "finish", "maybe", "sched",
        "out", "lock", "limit", "sync", "await", "add", "check",
        "up", "interrupt", "join", "flush", "closed"}

\* The inductive invariant.
SchedulerInv ==
    /\ taskQueue \in [Tasks -> Nat] /\ now \in 0..MaxTime
    /\ m_callbacks_pending \in Seq(Nat) /\ m_are_callbacks_running \in BOOLEAN
    /\ pc \in [Actors -> PCs] /\ cb \in [Actors -> Nat] /\ waitFor \in [Callers -> Nat]
    /\ added \in Nat /\ lastId \in Nat /\ done \subseteq Nat
    /\ Serial /\ OnceInOrder /\ NoLostWakeup /\ DrainedAtShutdown
    \* the running callback is the last one taken
    /\ \A a \in Actors : pc[a] = "callback" => cb[a] = lastId /\ lastId # 0
    \* who is where: threads do not wait for promises, callers run no callback
    /\ \A t \in Threads : pc[t] \in {"top", "wait", "until", "done", "repeat", "process",
                                     "callback", "finish", "maybe", "sched"}
    /\ \A a \in Callers : pc[a] \in {"out", "lock", "limit", "sync", "await", "add", "check",
                                     "maybe", "sched"}
    /\ pc[Main] \in {"up", "interrupt", "join", "process", "callback", "finish", "maybe",
                     "sched", "flush", "closed"}
    \* once Main has joined the others it is alone
    /\ pc[Main] = "join" => \A a \in Producers : pc[a] = "out"
    /\ pc[Main] \notin {"up", "interrupt", "join"} =>
          /\ \A t \in Threads : pc[t] = "done"
          /\ \A a \in Callers : pc[a] = "out"

\* Every callback that was added runs (AddToProcessQueue).
EveryCallbackRuns == \A i \in 1..MaxCallbacks : added >= i ~> i \in done

\* A shutdown that was asked for comes to its end (PrepareShutdown).
ShutdownCompletes == pc[Main] = "interrupt" ~> pc[Main] = "closed"

=============================================================================
