----------------------------- MODULE CheckQueue -----------------------------
(***************************************************************************)
(* CCheckQueue (checkqueue.h): the script checks of a block, pushed by the  *)
(* master thread and processed by the worker threads and, once everything   *)
(* is pushed, by the master itself.  A critical section of m_mutex is one   *)
(* step.  A check is a model value that succeeds unless it is in Bad; the   *)
(* order of the queue does not matter and is left out.                      *)
(***************************************************************************)
EXTENDS Naturals, FiniteSets

CONSTANTS
    Workers,    \* the worker threads
    Master,     \* the thread that runs ConnectBlock
    Checks,     \* the checks of one block
    Bad,        \* those that fail
    nBatchSize

ASSUME CheckQueueAssumption ==
    /\ Master \notin Workers
    /\ IsFiniteSet(Checks)

CheckThreads == Workers \cup {Master}

VARIABLES
    queue, nIdle, nTotal, fAllOk, nTodo, m_request_stop,
    at,       \* of every thread: see CheckPCs
    vChecks,  \* its batch, kept until nNow has been subtracted from nTodo
    fOk,      \* its local result
    round,    \* history: what was added since the last verdict
    verdict   \* history: the last result of Wait and what it was about

checkVars == <<queue, nIdle, nTotal, fAllOk, nTodo, m_request_stop, at, vChecks, fOk,
          round, verdict>>

\* "off": outside of Loop; "first": about to enter it; "wait", "woken": in
\* cond.wait; "work": executing checks; "enter": back for the next critical
\* section; "adding" (Master): a CCheckQueueControl exists.
CheckPCs == {"off", "adding", "first", "wait", "woken", "work", "enter"}

CheckInit ==
    /\ queue = {} /\ nIdle = 0 /\ nTotal = 0 /\ fAllOk = TRUE /\ nTodo = 0
    /\ m_request_stop = FALSE
    /\ at = [t \in CheckThreads |-> "off"]
    /\ vChecks = [t \in CheckThreads |-> {}]
    /\ fOk = [t \in CheckThreads |-> TRUE]
    /\ round = {}
    /\ verdict = [round |-> {}, ok |-> TRUE]

\* StartWorkerThreads.
StartWorkerThreads ==
    /\ ~m_request_stop
    /\ \A t \in CheckThreads : at[t] = "off"
    /\ nIdle' = 0 /\ nTotal' = 0 /\ fAllOk' = TRUE
    /\ at' = [t \in CheckThreads |-> IF t \in Workers THEN "first" ELSE at[t]]
    /\ UNCHANGED <<queue, nTodo, m_request_stop, vChecks, fOk, round, verdict>>

\* CCheckQueueControl: ConnectBlock uses the queue only while the workers run.
Control ==
    /\ at[Master] = "off"
    /\ ~m_request_stop
    /\ \E t \in Workers : at[t] # "off"
    /\ at' = [at EXCEPT ![Master] = "adding"]
    /\ UNCHANGED <<queue, nIdle, nTotal, fAllOk, nTodo, m_request_stop, vChecks, fOk,
                   round, verdict>>

\* Add: a single check wakes one worker, if one waits, several wake them all.
Add(S) ==
    /\ at[Master] = "adding"
    /\ S # {} /\ S \cap round = {}
    /\ queue' = queue \cup S
    /\ nTodo' = nTodo + Cardinality(S)
    /\ round' = round \cup S
    /\ LET waiting == {t \in Workers : at[t] = "wait"}
       IN  \E woken \in SUBSET waiting :
             /\ IF Cardinality(S) = 1
                THEN IF waiting = {} THEN woken = {} ELSE Cardinality(woken) = 1
                ELSE woken = waiting
             /\ at' = [t \in CheckThreads |-> IF t \in woken THEN "woken" ELSE at[t]]
    /\ UNCHANGED <<nIdle, nTotal, fAllOk, m_request_stop, vChecks, fOk, verdict>>

\* CCheckQueueControl::Wait or its destructor.
Wait ==
    /\ at[Master] = "adding"
    /\ at' = [at EXCEPT ![Master] = "first"]
    /\ UNCHANGED <<queue, nIdle, nTotal, fAllOk, nTodo, m_request_stop, vChecks, fOk,
                   round, verdict>>

-----------------------------------------------------------------------------
(* Loop, one critical section: first the clean-up, whose results are total,
   idle, todo and ok, then the head of the inner loop.  wake says whether the
   master is notified. *)

AtLock(t) == at[t] \in {"first", "woken", "enter"}

Total(t) == IF at[t] = "first" THEN nTotal + 1 ELSE nTotal

Idle(t) == IF at[t] = "woken" THEN nIdle - 1 ELSE nIdle
Todo(t) == IF at[t] = "enter" THEN nTodo - Cardinality(vChecks[t]) ELSE nTodo

\* Mutant of AllOk: a failed batch does not count.
AllOkIgnored(t) == fAllOk

AllOk(t) == IF at[t] = "enter" THEN fAllOk /\ fOk[t] ELSE fAllOk

\* Mutant of Notifies: the master is left waiting.
NotifiesNobody(t) == FALSE

\* The worker that completes the last check notifies the master.
Notifies(t) == at[t] = "enter" /\ t # Master /\ Todo(t) = 0

Moved(t, p) ==
    [u \in CheckThreads |-> IF u = t THEN p
                       ELSE IF u = Master /\ Notifies(t) /\ at[u] = "wait" THEN "woken"
                       ELSE at[u]]

CleanUp(t) ==
    /\ AtLock(t)
    /\ nTodo' = Todo(t)

\* Mutant of Return: the result is not reset.
ReturnKeepsResult ==
    /\ CleanUp(Master)
    /\ queue = {} /\ ~m_request_stop
    /\ Todo(Master) = 0
    /\ nTotal' = Total(Master) - 1
    /\ nIdle' = Idle(Master)
    /\ fAllOk' = AllOk(Master)
    /\ at' = Moved(Master, "off")
    /\ vChecks' = [vChecks EXCEPT ![Master] = {}]
    /\ verdict' = [round |-> round, ok |-> AllOk(Master)]
    /\ round' = {}
    /\ UNCHANGED <<queue, m_request_stop, fOk>>

\* The master returns the result and resets it.
Return ==
    /\ CleanUp(Master)
    /\ queue = {} /\ ~m_request_stop
    /\ Todo(Master) = 0
    /\ nTotal' = Total(Master) - 1
    /\ nIdle' = Idle(Master)
    /\ fAllOk' = TRUE
    /\ at' = Moved(Master, "off")
    /\ vChecks' = [vChecks EXCEPT ![Master] = {}]
    /\ verdict' = [round |-> round, ok |-> AllOk(Master)]
    /\ round' = {}
    /\ UNCHANGED <<queue, m_request_stop, fOk>>

Sleep(t) ==
    /\ CleanUp(t)
    /\ queue = {} /\ ~m_request_stop
    /\ ~(t = Master /\ Todo(t) = 0)
    /\ nTotal' = Total(t)
    /\ nIdle' = Idle(t) + 1
    /\ fAllOk' = AllOk(t)
    /\ at' = Moved(t, "wait")
    /\ vChecks' = [vChecks EXCEPT ![t] = {}]
    /\ UNCHANGED <<queue, m_request_stop, fOk, round, verdict>>

\* How many checks a thread takes: nTotal, nIdle and the queue as they are now.
Least(a, b) == IF a < b THEN a ELSE b
nNow(t) ==
    LET n == Least(nBatchSize, Cardinality(queue) \div (Total(t) + Idle(t) + 1))
    IN  IF n < 1 THEN 1 ELSE n

Take(t) ==
    /\ CleanUp(t)
    /\ queue # {} /\ ~m_request_stop
    /\ nTotal' = Total(t)
    /\ nIdle' = Idle(t)
    /\ fAllOk' = AllOk(t)
    /\ \E S \in SUBSET queue :
          /\ Cardinality(S) = nNow(t)
          /\ queue' = queue \ S
          /\ vChecks' = [vChecks EXCEPT ![t] = S]
    /\ fOk' = [fOk EXCEPT ![t] = AllOk(t)]
    /\ at' = Moved(t, "work")
    /\ UNCHANGED <<m_request_stop, round, verdict>>

\* A worker leaves when it is told to; nTotal stays as it is.
Leave(t) ==
    /\ CleanUp(t)
    /\ m_request_stop
    /\ nTotal' = Total(t)
    /\ nIdle' = Idle(t)
    /\ fAllOk' = AllOk(t)
    /\ at' = Moved(t, "off")
    /\ vChecks' = [vChecks EXCEPT ![t] = {}]
    /\ UNCHANGED <<queue, m_request_stop, fOk, round, verdict>>

\* The checks of a batch run until one fails, or not at all when another
\* thread's batch has failed already.
Execute(t) ==
    /\ at[t] = "work"
    /\ fOk' = [fOk EXCEPT ![t] = @ /\ vChecks[t] \cap Bad = {}]
    /\ at' = [at EXCEPT ![t] = "enter"]
    /\ UNCHANGED <<queue, nIdle, nTotal, fAllOk, nTodo, m_request_stop, vChecks, round,
                   verdict>>

-----------------------------------------------------------------------------
\* StopWorkerThreads, which PrepareShutdown calls when no block is connected
\* any more; it joins the workers and withdraws the request.
StopWorkerThreads ==
    /\ ~m_request_stop
    /\ at[Master] = "off"
    /\ \E t \in Workers : at[t] # "off"
    /\ m_request_stop' = TRUE
    /\ at' = [t \in CheckThreads |-> IF t \in Workers /\ at[t] = "wait" THEN "woken" ELSE at[t]]
    /\ UNCHANGED <<queue, nIdle, nTotal, fAllOk, nTodo, vChecks, fOk, round, verdict>>

Joined ==
    /\ m_request_stop
    /\ \A t \in Workers : at[t] = "off"
    /\ m_request_stop' = FALSE
    /\ UNCHANGED <<queue, nIdle, nTotal, fAllOk, nTodo, at, vChecks, fOk, round, verdict>>

Step(t) == Sleep(t) \/ Take(t) \/ Leave(t) \/ Execute(t) \/ (t = Master /\ Return)

CheckNext ==
    \/ StartWorkerThreads \/ Control \/ Wait \/ StopWorkerThreads \/ Joined
    \/ \E S \in SUBSET Checks : Add(S)
    \/ \E t \in CheckThreads : Step(t)

CheckSpec == CheckInit /\ [][CheckNext]_checkVars

\* Every thread that can run does, and a block that is being connected ends.
CheckFairness == WF_checkVars(Wait) /\ WF_checkVars(Joined) /\ \A t \in CheckThreads : WF_checkVars(Step(t))
CheckFairSpec == CheckSpec /\ CheckFairness

-----------------------------------------------------------------------------
(* Properties. *)

Outstanding == queue \cup UNION {vChecks[t] : t \in CheckThreads}

\* The inductive invariant.
CheckQueueInv ==
    /\ queue \subseteq round /\ round \subseteq Checks
    /\ fAllOk \in BOOLEAN /\ m_request_stop \in BOOLEAN
    /\ nTodo \in Nat
    /\ at \in [CheckThreads -> CheckPCs]
    /\ vChecks \in [CheckThreads -> SUBSET round]
    /\ fOk \in [CheckThreads -> BOOLEAN]
    /\ verdict \in [round : SUBSET Checks, ok : BOOLEAN]
    \* a check is in one place, and nTodo counts the places
    /\ \A t \in CheckThreads : queue \cap vChecks[t] = {}
    /\ \A t, u \in CheckThreads : t # u => vChecks[t] \cap vChecks[u] = {}
    /\ nTodo = Cardinality(Outstanding)
    \* only a thread at work, or back from it, has a batch
    /\ \A t \in CheckThreads : at[t] \in {"work", "enter"} <=> vChecks[t] # {}
    /\ at[Master] = "off" => round = {}
    /\ m_request_stop => at[Master] = "off"
    \* results, global and local
    /\ fAllOk => (round \ Outstanding) \cap Bad = {}
    /\ ~fAllOk => round \cap Bad # {}
    /\ \A t \in CheckThreads : at[t] \in {"work", "enter"} /\ ~fOk[t] => round \cap Bad # {}
    /\ \A t \in CheckThreads : at[t] = "enter" /\ fOk[t] => vChecks[t] \cap Bad = {}

\* Wait returns true exactly when every check added for this block is good:
\* no result is lost, none leaks in from the block before (Loop, fAllOk, nTodo).
VerdictRight == verdict.ok <=> verdict.round \cap Bad = {}

\* While no block is connected, nothing of the last one is left: no thread
\* holds a check, nTodo is zero and fAllOk true (Loop).
QuietBetweenBlocks ==
    at[Master] = "off" => Outstanding = {} /\ nTodo = 0 /\ fAllOk

\* The master comes out of Wait: neither a check nor a wake-up is lost.
WaitReturns == at[Master] \in {"first", "wait", "woken", "work", "enter"} ~> at[Master] = "off"

=============================================================================
