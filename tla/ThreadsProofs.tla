-------------------------- MODULE ThreadsProofs --------------------------
(*****************************************************************************)
(* Proofs about CCheckQueue and about CScheduler with its client, for any    *)
(* number of threads, callers, checks and callbacks and any batch size and   *)
(* limit.  SchedulerInv is inductive: Serial and OnceInOrder need each other *)
(* (only the actor that took a callback reports it as done), and             *)
(* DrainedAtShutdown needs to know that Main is alone when it empties the    *)
(* list.                                                                     *)
(*****************************************************************************)
EXTENDS CheckQueue, Scheduler, FiniteSetTheorems, TLAPS

-----------------------------------------------------------------------------
(* CCheckQueue. *)

(* What is outstanding was added for this block and is finite. *)
LEMMA OutstandingFinite ==
    ASSUME CheckQueueInv
    PROVE  /\ Outstanding \subseteq round
           /\ IsFiniteSet(round) /\ IsFiniteSet(Outstanding)
<1>1. Outstanding \subseteq round
  BY DEF CheckQueueInv, Outstanding
<1>2. round \in SUBSET Checks
  BY Zenon DEF CheckQueueInv
<1>3. IsFiniteSet(round)
  BY <1>2, CheckQueueAssumption, FS_Subset, Zenon
<1> QED BY <1>1, <1>3, FS_Subset, Zenon

(* The clean-up of a thread's last batch in Loop: nTodo loses exactly that
   batch, and fAllOk stands for everything that has left the books. *)
LEMMA CleanUpRight ==
    ASSUME CheckQueueInv, NEW t \in CheckThreads, AtLock(t)
    PROVE  /\ Todo(t) = Cardinality(Outstanding \ vChecks[t])
           /\ Todo(t) \in Nat
           /\ AllOk(t) \in BOOLEAN
           /\ AllOk(t) => (round \ (Outstanding \ vChecks[t])) \cap Bad = {}
           /\ ~AllOk(t) => round \cap Bad # {}
<1> DEFINE Rest == Outstanding \ vChecks[t]
<1>1. IsFiniteSet(Outstanding) /\ IsFiniteSet(Rest) /\ Outstanding \cap vChecks[t] = vChecks[t]
  BY OutstandingFinite, FS_Difference, Zenon DEF Outstanding
<1>2. Cardinality(Rest) = Cardinality(Outstanding) - Cardinality(vChecks[t])
  BY <1>1, FS_Difference
<1>3. Cardinality(Rest) \in Nat
  BY <1>1, FS_CardinalityType, Zenon
<1>4. CASE at[t] = "enter"
  <2>1. Todo(t) = Cardinality(Rest)
    BY <1>2, <1>4, Zenon DEF Todo, CheckQueueInv
  <2>2. AllOk(t) <=> fAllOk /\ fOk[t]
    BY <1>4, Zenon DEF AllOk
  <2>3. AllOk(t) \in BOOLEAN
    BY <1>4, Zenon DEF AllOk, CheckQueueInv
  <2>4. AllOk(t) => (round \ Rest) \cap Bad = {}
    BY <1>4, <2>2, Zenon DEF CheckQueueInv
  <2>5. ~AllOk(t) => round \cap Bad # {}
    BY <1>4, <2>2, Zenon DEF CheckQueueInv
  <2> QED BY <1>3, <2>1, <2>3, <2>4, <2>5, Zenon
<1>5. CASE at[t] # "enter"
  <2>1. vChecks[t] = {}
    BY <1>5, Zenon DEF AtLock, CheckQueueInv
  <2>2. Rest = Outstanding
    BY <2>1, Zenon
  <2>3. AllOk(t) = fAllOk /\ Todo(t) = nTodo
    BY <1>5, Zenon DEF AllOk, Todo
  <2> QED BY <1>3, <2>2, <2>3, Zenon DEF CheckQueueInv
<1> QED BY <1>4, <1>5, Zenon

(* A critical section of Loop that gives the thread t the batch S, possibly
   none, keeps the invariant. *)
LEMMA LoopKeeps ==
    ASSUME CheckQueueInv, NEW t \in CheckThreads, AtLock(t), NEW S \in SUBSET queue,
           NEW p \in {"wait", "work", "off"},
           p = "work" <=> S # {},
           t = Master => p # "off" /\ ~m_request_stop,
           queue' = queue \ S,
           vChecks' = [vChecks EXCEPT ![t] = S],
           nTodo' = Todo(t),
           fAllOk' = AllOk(t),
           at' = Moved(t, p),
           fOk' = IF p = "work" THEN [fOk EXCEPT ![t] = AllOk(t)] ELSE fOk,
           UNCHANGED <<m_request_stop, round, verdict>>
    PROVE  CheckQueueInv'
<1>1. Outstanding' = Outstanding \ vChecks[t]
  BY DEF Outstanding, CheckQueueInv
<1>2. /\ nTodo' \in Nat /\ nTodo' = Cardinality(Outstanding')
      /\ fAllOk' \in BOOLEAN
      /\ fAllOk' => (round' \ Outstanding') \cap Bad = {}
      /\ ~fAllOk' => round' \cap Bad # {}
  BY <1>1, CleanUpRight, Zenon
<1>3. /\ at' \in [CheckThreads -> CheckPCs]
      /\ at'[t] = p
      /\ \A u \in CheckThreads \ {t} :
            at'[u] = at[u] \/ (u = Master /\ at[u] = "wait" /\ at'[u] = "woken")
  BY Zenon DEF Moved, CheckPCs, CheckQueueInv
<1>4. /\ vChecks' \in [CheckThreads -> SUBSET round'] /\ vChecks'[t] = S
      /\ \A u \in CheckThreads \ {t} : vChecks'[u] = vChecks[u]
      /\ queue' \subseteq round' /\ round' \subseteq Checks
  BY Zenon DEF CheckQueueInv
<1>5. /\ fOk' \in [CheckThreads -> BOOLEAN]
      /\ p = "work" => fOk'[t] = AllOk(t)
      /\ \A u \in CheckThreads \ {t} : fOk'[u] = fOk[u]
  BY <1>2 DEF CheckQueueInv
<1>6. /\ \A u \in CheckThreads : queue' \cap vChecks'[u] = {}
      /\ \A u, v \in CheckThreads : u # v => vChecks'[u] \cap vChecks'[v] = {}
  BY <1>4 DEF CheckQueueInv
<1>7. \A u \in CheckThreads : at'[u] \in {"work", "enter"} <=> vChecks'[u] # {}
  BY <1>3, <1>4, Zenon DEF CheckQueueInv
<1>8. /\ at'[Master] = "off" => round' = {}
      /\ m_request_stop' => at'[Master] = "off"
  BY <1>3, Zenon DEF CheckQueueInv, CheckThreads
<1>9. /\ \A u \in CheckThreads : at'[u] \in {"work", "enter"} /\ ~fOk'[u] => round' \cap Bad # {}
      /\ \A u \in CheckThreads : at'[u] = "enter" /\ fOk'[u] => vChecks'[u] \cap Bad = {}
  BY <1>2, <1>3, <1>4, <1>5 DEF CheckQueueInv
<1>10. m_request_stop' \in BOOLEAN /\ verdict' \in [round : SUBSET Checks, ok : BOOLEAN]
  BY Zenon DEF CheckQueueInv
<1> QED BY <1>2, <1>3, <1>4, <1>5, <1>6, <1>7, <1>8, <1>9, <1>10, Zenon DEF CheckQueueInv

(* When the master returns, everything added for the block has left the books,
   so that fAllOk is the result of them all (Loop). *)
LEMMA ReturnRight ==
    ASSUME CheckQueueInv, Return
    PROVE  /\ verdict' = [round |-> round, ok |-> AllOk(Master)]
           /\ AllOk(Master) <=> round \cap Bad = {}
           /\ \A u \in CheckThreads \ {Master} : vChecks[u] = {}
<1>1. Master \in CheckThreads /\ AtLock(Master) /\ queue = {} /\ Todo(Master) = 0
  BY Zenon DEF CheckThreads, Return, CleanUp
<1>2. IsFiniteSet(Outstanding \ vChecks[Master])
  BY OutstandingFinite, FS_Difference, Zenon
<1>3. Outstanding \ vChecks[Master] = {}
  BY <1>1, <1>2, CleanUpRight, FS_EmptySet, Zenon
<1>4. \A u \in CheckThreads \ {Master} : vChecks[u] = {}
  BY <1>1, <1>3 DEF Outstanding, CheckQueueInv
<1>5. AllOk(Master) <=> round \cap Bad = {}
  BY <1>1, <1>3, CleanUpRight, Zenon
<1> QED BY <1>4, <1>5, Zenon DEF Return

(* Every step keeps the invariant and a right verdict. *)
LEMMA CheckQueueStep ==
    ASSUME CheckQueueInv, VerdictRight, [CheckNext]_checkVars
    PROVE  CheckQueueInv' /\ VerdictRight'
<1>1. CASE StartWorkerThreads
  <2>1. round = {} /\ Outstanding = {} /\ Outstanding' = Outstanding
    BY <1>1 DEF StartWorkerThreads, CheckQueueInv, Outstanding, CheckThreads
  <2>2. \A t \in CheckThreads : vChecks[t] = {} /\ at'[t] \in {"first", "off"}
    BY <1>1, Zenon DEF StartWorkerThreads, CheckQueueInv
  <2>3. at'[Master] = "off" \/ at'[Master] = "first"
    BY <2>2, Zenon DEF CheckThreads
  <2>4. at' \in [CheckThreads -> CheckPCs]
    BY <1>1, Zenon DEF StartWorkerThreads, CheckQueueInv, CheckPCs
  <2> QED BY <1>1, <2>1, <2>2, <2>3, <2>4, Zenon DEF StartWorkerThreads, CheckQueueInv, VerdictRight
<1>2. CASE Control \/ Wait
  <2>1. \E p \in {"adding", "first"} : at' = [at EXCEPT ![Master] = p]
    BY <1>2, Zenon DEF Control, Wait
  <2>2. /\ UNCHANGED <<queue, fAllOk, nTodo, m_request_stop, vChecks, fOk, round, verdict>>
        /\ at[Master] \in {"off", "adding"} /\ ~m_request_stop
    BY <1>2, Zenon DEF Control, Wait, CheckQueueInv
  <2>3. Outstanding' = Outstanding
    BY <2>2, Zenon DEF Outstanding
  <2>4. /\ at' \in [CheckThreads -> CheckPCs]
        /\ \A t \in CheckThreads : at'[t] \in {"work", "enter"} <=> at[t] \in {"work", "enter"}
        /\ \A t \in CheckThreads : at'[t] = "enter" <=> at[t] = "enter"
        /\ at'[Master] # "off"
    BY <2>1, <2>2, Zenon DEF CheckQueueInv, CheckPCs, CheckThreads
  <2> QED BY <2>2, <2>3, <2>4, Zenon DEF CheckQueueInv, VerdictRight
<1>3. ASSUME NEW S \in SUBSET Checks, Add(S)
      PROVE  CheckQueueInv' /\ VerdictRight'
  <2>1. /\ queue' = queue \cup S /\ round' = round \cup S /\ S \cap round = {}
        /\ nTodo' = nTodo + Cardinality(S)
        /\ at[Master] = "adding"
        /\ UNCHANGED <<fAllOk, m_request_stop, vChecks, fOk, verdict>>
    BY <1>3, Zenon DEF Add
  <2>2. /\ at' \in [CheckThreads -> CheckPCs]
        /\ \A t \in CheckThreads : at'[t] = at[t] \/ (at[t] = "wait" /\ at'[t] = "woken")
    BY <1>3 DEF Add, CheckQueueInv, CheckPCs
  <2>3. Outstanding' = Outstanding \cup S /\ Outstanding \cap S = {}
    BY <2>1, OutstandingFinite DEF Outstanding
  <2>4. nTodo' = Cardinality(Outstanding') /\ nTodo' \in Nat
    <3>1. IsFiniteSet(S) /\ Cardinality(S) \in Nat
      BY CheckQueueAssumption, FS_Subset, FS_CardinalityType, Zenon
    <3>2. Cardinality(Outstanding \cup S)
              = Cardinality(Outstanding) + Cardinality(S) - Cardinality(Outstanding \cap S)
      BY <3>1, OutstandingFinite, FS_Union, Zenon
    <3>3. Cardinality(Outstanding \cap S) = 0
      BY <2>3, FS_EmptySet, Zenon
    <3>4. nTodo \in Nat /\ nTodo = Cardinality(Outstanding)
      BY Zenon DEF CheckQueueInv
    <3> QED BY <2>1, <2>3, <3>1, <3>2, <3>3, <3>4
  <2>5. /\ \A t \in CheckThreads : at'[t] \in {"work", "enter"} <=> at[t] \in {"work", "enter"}
        /\ \A t \in CheckThreads : at'[t] = "enter" <=> at[t] = "enter"
        /\ at'[Master] = "adding"
    BY <2>1, <2>2, Zenon DEF CheckThreads
  <2>6. /\ queue' \subseteq round' /\ round' \subseteq Checks
        /\ vChecks' \in [CheckThreads -> SUBSET round']
        /\ \A t \in CheckThreads : queue' \cap vChecks'[t] = {}
    BY <2>1, Zenon DEF CheckQueueInv
  <2>7. round' \ Outstanding' = round \ Outstanding
    BY <2>1, <2>3, Zenon
  <2> QED BY <2>1, <2>2, <2>4, <2>5, <2>6, <2>7, Zenon DEF CheckQueueInv, VerdictRight
<1>4. ASSUME NEW t \in CheckThreads, Sleep(t)
      PROVE  CheckQueueInv' /\ VerdictRight'
  <2>1. CheckQueueInv'
    BY <1>4, LoopKeeps, Zenon DEF Sleep, CleanUp
  <2> QED BY <1>4, <2>1, Zenon DEF Sleep, VerdictRight
<1>5. ASSUME NEW t \in CheckThreads, Take(t)
      PROVE  CheckQueueInv' /\ VerdictRight'
  <2>1. PICK S \in SUBSET queue :
           /\ Cardinality(S) = nNow(t)
           /\ queue' = queue \ S
           /\ vChecks' = [vChecks EXCEPT ![t] = S]
    BY <1>5, Zenon DEF Take
  <2>2. S # {}
    <3>1. nNow(t) # 0
      BY DEF nNow
    <3> QED BY <2>1, <3>1, FS_EmptySet, Zenon
  <2>3. CheckQueueInv'
    BY <1>5, <2>1, <2>2, LoopKeeps, Zenon DEF Take, CleanUp
  <2> QED BY <1>5, <2>3, Zenon DEF Take, VerdictRight
<1>6. ASSUME NEW t \in CheckThreads, Leave(t)
      PROVE  CheckQueueInv' /\ VerdictRight'
  <2>1. t # Master
    BY <1>6, Zenon DEF Leave, CleanUp, AtLock, CheckQueueInv
  <2>2. CheckQueueInv'
    BY <1>6, <2>1, LoopKeeps, Zenon DEF Leave, CleanUp
  <2> QED BY <1>6, <2>2, Zenon DEF Leave, VerdictRight
<1>7. ASSUME NEW t \in CheckThreads, Execute(t)
      PROVE  CheckQueueInv' /\ VerdictRight'
  <2>1. /\ at[t] = "work" /\ at' = [at EXCEPT ![t] = "enter"]
        /\ fOk' = [fOk EXCEPT ![t] = fOk[t] /\ vChecks[t] \cap Bad = {}]
        /\ UNCHANGED <<queue, fAllOk, nTodo, m_request_stop, vChecks, round, verdict>>
    BY <1>7, Zenon DEF Execute
  <2>2. Outstanding' = Outstanding
    BY <2>1, Zenon DEF Outstanding
  <2>3. /\ at' \in [CheckThreads -> CheckPCs] /\ fOk' \in [CheckThreads -> BOOLEAN]
        /\ \A u \in CheckThreads : at'[u] \in {"work", "enter"} <=> at[u] \in {"work", "enter"}
        /\ at'[t] = "enter" /\ \A u \in CheckThreads \ {t} : at'[u] = at[u] /\ fOk'[u] = fOk[u]
        /\ fOk'[t] <=> fOk[t] /\ vChecks[t] \cap Bad = {}
        /\ at'[Master] = "off" <=> at[Master] = "off"
    BY <2>1, Zenon DEF CheckQueueInv, CheckPCs, CheckThreads
  <2>4. vChecks[t] \subseteq round
    BY Zenon DEF CheckQueueInv
  <2>5. /\ \A u \in CheckThreads : at'[u] \in {"work", "enter"} /\ ~fOk'[u] => round' \cap Bad # {}
        /\ \A u \in CheckThreads : at'[u] = "enter" /\ fOk'[u] => vChecks'[u] \cap Bad = {}
    BY <2>1, <2>3, <2>4 DEF CheckQueueInv
  <2> QED BY <2>1, <2>2, <2>3, <2>5 DEF CheckQueueInv, VerdictRight
<1>8. CASE Return
  <2>1. /\ queue' = {} /\ round' = {} /\ fAllOk' = TRUE
        /\ vChecks' = [vChecks EXCEPT ![Master] = {}] /\ nTodo' = Todo(Master)
        /\ Todo(Master) = 0 /\ at' = Moved(Master, "off")
        /\ UNCHANGED <<m_request_stop, fOk>>
    BY <1>8, Zenon DEF Return, CleanUp
  <2>2. \A t \in CheckThreads : vChecks'[t] = {}
    BY <1>8, <2>1, ReturnRight DEF CheckQueueInv
  <2>3. Outstanding' = {}
    BY <2>1, <2>2, Zenon DEF Outstanding
  <2>4. at' \in [CheckThreads -> CheckPCs] /\ at'[Master] = "off"
    BY <2>1, Zenon DEF Moved, CheckQueueInv, CheckPCs, CheckThreads
  <2>5. \A t \in CheckThreads : at'[t] \notin {"work", "enter"}
    <3>1. \A t \in CheckThreads \ {Master} : at[t] \notin {"work", "enter"}
      BY <1>8, ReturnRight, Zenon DEF CheckQueueInv
    <3> QED BY <2>1, <3>1, Zenon DEF Moved
  <2>6. AllOk(Master) \in BOOLEAN
    BY <1>8, CleanUpRight, Zenon DEF Return, CleanUp, CheckThreads
  <2>7. verdict' \in [round : SUBSET Checks, ok : BOOLEAN] /\ VerdictRight'
    BY <1>8, <2>6, ReturnRight DEF CheckQueueInv, VerdictRight
  <2>8. nTodo' = Cardinality(Outstanding') /\ nTodo' \in Nat
    BY <2>1, <2>3, FS_EmptySet
  <2>9. vChecks' \in [CheckThreads -> SUBSET round']
    BY <2>1, <2>2, Zenon DEF CheckQueueInv
  <2> QED BY <2>1, <2>2, <2>3, <2>4, <2>5, <2>7, <2>8, <2>9, Zenon DEF CheckQueueInv
<1>9. CASE StopWorkerThreads \/ Joined
  <2>1. /\ UNCHANGED <<queue, fAllOk, nTodo, vChecks, fOk, round, verdict>>
        /\ m_request_stop' \in BOOLEAN
        /\ m_request_stop' => at[Master] = "off"
    BY <1>9, Zenon DEF StopWorkerThreads, Joined, CheckQueueInv
  <2>2. /\ at' \in [CheckThreads -> CheckPCs]
        /\ \A t \in CheckThreads : at'[t] = at[t] \/ (at[t] = "wait" /\ at'[t] = "woken")
    BY <1>9 DEF StopWorkerThreads, Joined, CheckQueueInv, CheckPCs
  <2>3. Outstanding' = Outstanding
    BY <2>1, Zenon DEF Outstanding
  <2>4. /\ \A t \in CheckThreads : at'[t] \in {"work", "enter"} <=> at[t] \in {"work", "enter"}
        /\ \A t \in CheckThreads : at'[t] = "enter" <=> at[t] = "enter"
        /\ at'[Master] = "off" <=> at[Master] = "off"
    BY <2>2, Zenon DEF CheckThreads
  <2> QED BY <2>1, <2>2, <2>3, <2>4, Zenon DEF CheckQueueInv, VerdictRight
<1>10. CASE UNCHANGED checkVars
  BY <1>10 DEF checkVars, CheckQueueInv, VerdictRight, Outstanding
<1> QED BY <1>1, <1>2, <1>3, <1>4, <1>5, <1>6, <1>7, <1>8, <1>9, <1>10, Zenon DEF CheckNext, Step

(* The books of the queue are right: every check is in one place, nTodo counts
   those not yet accounted for, and fAllOk and fOk stand for the others. *)
THEOREM CheckQueueInvariant == CheckSpec => [](CheckQueueInv /\ VerdictRight)
<1>1. CheckInit => CheckQueueInv /\ VerdictRight
  <2> SUFFICES ASSUME CheckInit PROVE CheckQueueInv /\ VerdictRight
    BY Zenon
  <2>1. Outstanding = {}
    BY Zenon DEF CheckInit, Outstanding
  <2> QED BY <2>1, FS_EmptySet, Zenon DEF CheckInit, CheckQueueInv, VerdictRight, CheckPCs
<1> QED BY <1>1, CheckQueueStep, PTL DEF CheckSpec

(* Wait returns true exactly when every check added for the block succeeds. *)
THEOREM VerdictTheorem == CheckSpec => []VerdictRight
  BY CheckQueueInvariant, PTL

(* Nothing of a block is left in the queue when its master has returned. *)
THEOREM QuietTheorem == CheckSpec => []QuietBetweenBlocks
<1>1. CheckQueueInv => QuietBetweenBlocks
  <2> SUFFICES ASSUME CheckQueueInv, at[Master] = "off"
               PROVE  Outstanding = {} /\ nTodo = 0 /\ fAllOk
    BY Zenon DEF QuietBetweenBlocks
  <2>1. round = {} /\ Outstanding = {}
    BY OutstandingFinite, Zenon DEF CheckQueueInv
  <2> QED BY <2>1, FS_EmptySet, Zenon DEF CheckQueueInv
<1> QED BY <1>1, CheckQueueInvariant, PTL

-----------------------------------------------------------------------------
(* CScheduler and SingleThreadedSchedulerClient. *)

\* No callback runs and no task is due when the node starts (CScheduler, Init).
LEMMA SchedulerInit == Init => SchedulerInv
<1> SUFFICES ASSUME Init PROVE SchedulerInv
    BY Zenon
<1>0. /\ m_callbacks_pending = <<>> /\ m_are_callbacks_running = FALSE
      /\ added = 0 /\ lastId = 0 /\ done = {}
    BY Zenon DEF Init
<1>1. Running = {}
    BY SchedulerAssumption, Zenon DEF Init, Running, Actors, Callers
<1>2. Serial /\ NoLostWakeup
    BY <1>1, Zenon DEF Init, Serial, NoLostWakeup
<1>4. OnceInOrder
  <2>1. {b \in Actors : pc[b] = "callback"} = {} /\ 1..0 = {}
    BY <1>1 DEF Running
  <2>2. {cb[a] : a \in {b \in Actors : pc[b] = "callback"}} = {}
    BY <2>1, Zenon
  <2> QED
    BY <1>0, <2>1, <2>2 DEF OnceInOrder
<1>3. /\ pc \in [Actors -> PCs] /\ taskQueue \in [Tasks -> Nat]
      /\ \A t \in Threads : pc[t] = "top"
      /\ \A a \in Callers : pc[a] = "out"
      /\ pc[Main] = "up"
    BY SchedulerAssumption, Zenon DEF Init, PCs, Actors, Callers
<1>5. now \in 0..MaxTime /\ cb \in [Actors -> Nat] /\ waitFor \in [Callers -> Nat]
    BY SchedulerAssumption DEF Init
<1>6. /\ m_callbacks_pending \in Seq(Nat) /\ added \in Nat /\ lastId \in Nat
    BY <1>0
<1>8. m_are_callbacks_running \in BOOLEAN /\ done \subseteq Nat
    BY <1>0, Zenon
<1>7. \A a \in Actors : pc[a] # "callback"
    BY <1>1, Zenon DEF Running
<1> QED
    BY <1>2, <1>3, <1>4, <1>5, <1>6, <1>7, <1>8, Zenon DEF SchedulerInv, DrainedAtShutdown

\* A step that leaves the list of callbacks alone and takes nobody to or from
\* a callback keeps Serial and OnceInOrder (the steps of CScheduler and of
\* ActivateBestChain that only move).
LEMMA MovesKeep ==
    ASSUME Serial, OnceInOrder, UNCHANGED listVars,
           \A a \in Actors : pc'[a] # pc[a] =>
              /\ pc[a] \notin {"callback", "finish"}
              /\ pc'[a] \notin {"callback", "finish"}
    PROVE  Serial' /\ OnceInOrder'
<1>1. Running' = Running
    BY Zenon DEF Running
<1>2. {b \in Actors : pc'[b] = "callback"} = {b \in Actors : pc[b] = "callback"}
    BY Zenon
<1> QED
    BY <1>1, <1>2, Zenon DEF Serial, OnceInOrder, listVars

\* A step that leaves the list alone keeps NoLostWakeup when no ProcessQueue
\* task disappears and nobody who is about to look turns away
\* (MaybeScheduleProcessQueue).
LEMMA WakeupKept ==
    ASSUME NoLostWakeup, UNCHANGED listVars,
           \A x \in Tasks : x.what = "process" /\ taskQueue[x] > 0 =>
              \/ taskQueue'[x] > 0
              \/ \E a \in Actors : pc'[a] = "process",
           \A a \in Actors : pc[a] \in {"process", "maybe", "sched"} => pc'[a] = pc[a]
    PROVE  NoLostWakeup'
<1> SUFFICES ASSUME m_callbacks_pending' # <<>>, ~m_are_callbacks_running'
             PROVE  \/ \E x \in Tasks : x.what = "process" /\ taskQueue'[x] > 0
                    \/ \E a \in Actors : pc'[a] \in {"process", "maybe", "sched"}
    BY Zenon DEF NoLostWakeup
<1>1. m_callbacks_pending # <<>> /\ ~m_are_callbacks_running
    BY Zenon DEF listVars
<1>2. CASE \E x \in Tasks : x.what = "process" /\ taskQueue[x] > 0
    BY <1>2, Zenon
<1>3. CASE \E a \in Actors : pc[a] \in {"process", "maybe", "sched"}
    BY <1>3, Zenon
<1> QED
    BY <1>1, <1>2, <1>3, Zenon DEF NoLostWakeup

\* What NotifyOne does to the program counters: a moves to p, and at most one
\* waiting thread goes back to the top of its loop (notify_one).
LEMMA NotifyMoves ==
    ASSUME NEW a \in Actors, NEW p \in PCs, pc \in [Actors -> PCs], NotifyOne(a, p)
    PROVE  /\ pc' \in [Actors -> PCs]
           /\ pc'[a] = p
           /\ \A b \in Actors : b # a /\ pc'[b] # pc[b] =>
                 b \in Threads /\ pc[b] \in {"wait", "until"} /\ pc'[b] = "top"
BY DEF NotifyOne, Waiting, PCs, Actors

\* schedule adds a task and removes none.
LEMMA SchedulesMore ==
    ASSUME taskQueue \in [Tasks -> Nat], NEW a, NEW what, NEW time, NEW p,
           [time |-> time, what |-> what] \in Tasks, schedule(a, what, time, p)
    PROVE  /\ taskQueue' \in [Tasks -> Nat]
           /\ taskQueue'[[time |-> time, what |-> what]] > 0
           /\ \A x \in Tasks : taskQueue[x] > 0 => taskQueue'[x] > 0
BY DEF schedule

\* The steps of the service threads outside of the callbacks keep the invariant
\* (serviceQueue, Repeat).
LEMMA ThreadKeeps ==
    ASSUME SchedulerInv, NEW t \in Threads,
           Service(t) \/ Timeout(t) \/ Repeat(t)
    PROVE  SchedulerInv'
<1> USE DEF SchedulerInv
<1>0. t \in Actors /\ t # Main /\ t \notin Callers
    BY SchedulerAssumption, Zenon DEF Actors, Callers
<1>1. CASE Service(t)
  <2>1. /\ pc' \in [Actors -> PCs]
        /\ pc[t] = "top" /\ pc'[t] \in {"done", "wait", "until"}
        /\ \A b \in Actors : b # t /\ pc'[b] # pc[b] =>
              b \in Threads /\ pc[b] \in {"wait", "until"} /\ pc'[b] = "top"
        /\ UNCHANGED <<taskQueue, now, listVars, waitFor>>
    <3>1. pc[t] = "top" /\ UNCHANGED <<taskQueue, now, listVars, waitFor>>
      BY <1>1, Zenon DEF Service
    <3>2. CASE NotifyOne(t, "done")
      BY <1>0, <3>1, <3>2, NotifyMoves, Zenon DEF PCs
    <3>3. CASE \E p \in {"wait", "until"} : pc' = [pc EXCEPT ![t] = p]
      BY <1>0, <3>1, <3>3 DEF PCs
    <3> QED
      BY <1>1, <3>1, <3>2, <3>3, Zenon DEF Service
  <2>2. Serial' /\ OnceInOrder'
    BY <1>0, <2>1, MovesKeep, Zenon
  <2>3. NoLostWakeup'
    BY <1>0, <2>1, WakeupKept, Zenon
  <2> QED
    BY SchedulerAssumption, <1>0, <2>1, <2>2, <2>3, Zenon DEF listVars, DrainedAtShutdown, Actors, Callers
<1>2. CASE Timeout(t)
  <2>1. PICK p \in {"top", "process", "repeat"} : pc' = [pc EXCEPT ![t] = p]
    BY <1>2, Zenon DEF Timeout, Tasks
  <2>2. /\ pc[t] = "until" /\ UNCHANGED <<now, listVars, waitFor>>
        /\ taskQueue' \in [Tasks -> Nat]
        /\ \A x \in Tasks : x.what = "process" /\ taskQueue[x] > 0 =>
              taskQueue'[x] > 0 \/ p = "process"
    <3>1. pc[t] = "until" /\ UNCHANGED <<now, listVars, waitFor>>
      BY <1>2, Zenon DEF Timeout
    <3>2. CASE UNCHANGED taskQueue
      BY <3>1, <3>2, Zenon
    <3>3. CASE ~UNCHANGED taskQueue
      <4>1. PICK x \in Tasks : /\ taskQueue[x] > 0
                               /\ taskQueue' = [taskQueue EXCEPT ![x] = @ - 1]
                               /\ pc' = [pc EXCEPT ![t] = x.what]
        BY <1>2, <3>3, Zenon DEF Timeout
      <4>2. x.what = p
        BY <1>0, <2>1, <4>1
      <4>3. taskQueue' \in [Tasks -> Nat] /\ \A y \in Tasks : y # x => taskQueue'[y] = taskQueue[y]
        BY <4>1
      <4> QED
        BY <3>1, <4>2, <4>3, Zenon
    <3> QED
      BY <3>2, <3>3, Zenon
  <2>3. pc' \in [Actors -> PCs]
    BY <2>1, <1>0, Zenon DEF PCs
  <2>4. NoLostWakeup'
    BY <1>0, <2>1, <2>2, <2>3, WakeupKept, Zenon
  <2>5. Serial' /\ OnceInOrder'
    BY <1>0, <2>1, <2>2, <2>3, MovesKeep, Zenon
  <2> QED
    BY SchedulerAssumption, <1>0, <2>1, <2>2, <2>3, <2>4, <2>5, Zenon DEF listVars, DrainedAtShutdown, Actors, Callers
<1>3. CASE Repeat(t)
  <2>1. [time |-> now + Delta, what |-> "repeat"] \in Tasks
    BY SchedulerAssumption DEF Tasks, Times
  <2>2. /\ pc' \in [Actors -> PCs]
        /\ pc[t] = "repeat" /\ pc'[t] = "top"
        /\ \A b \in Actors : b # t /\ pc'[b] # pc[b] =>
              b \in Threads /\ pc[b] \in {"wait", "until"} /\ pc'[b] = "top"
        /\ UNCHANGED <<now, listVars, waitFor>>
    BY <1>0, <1>3, NotifyMoves, Zenon DEF Repeat, schedule, PCs
  <2>3. /\ taskQueue' \in [Tasks -> Nat]
        /\ \A x \in Tasks : taskQueue[x] > 0 => taskQueue'[x] > 0
    BY <1>3, <2>1, SchedulesMore, Zenon DEF Repeat
  <2>4. Serial' /\ OnceInOrder'
    BY <1>0, <2>2, MovesKeep, Zenon
  <2>5. NoLostWakeup'
    BY <1>0, <2>2, <2>3, WakeupKept, Zenon
  <2> QED
    BY SchedulerAssumption, <1>0, <2>2, <2>3, <2>4, <2>5, Zenon DEF listVars, DrainedAtShutdown, Actors, Callers
<1> QED
    BY <1>1, <1>2, <1>3, Zenon

\* The part of SchedulerInv about the places of the actors.
WhoIsWhere ==
    /\ \A t \in Threads : pc[t] \in {"top", "wait", "until", "done", "repeat", "process",
                                     "callback", "finish", "maybe", "sched"}
    /\ \A a \in Callers : pc[a] \in {"out", "lock", "limit", "sync", "await", "add", "check",
                                     "maybe", "sched"}
    /\ pc[Main] \in {"up", "interrupt", "join", "process", "callback", "finish", "maybe",
                     "sched", "flush", "closed"}
    /\ pc[Main] = "join" => \A a \in Producers : pc[a] = "out"
    /\ pc[Main] \notin {"up", "interrupt", "join"} =>
          /\ \A t \in Threads : pc[t] = "done"
          /\ \A a \in Callers : pc[a] = "out"

\* Where an actor goes on after a callback or after adding one.
LEMMA ContinueType ==
    ASSUME NEW a \in Actors
    PROVE  /\ a \in Threads => Continue(a) = "top"
           /\ a = Main => Continue(a) = "process"
           /\ a \in Callers => Continue(a) \in {"await", "check"}
           /\ Continue(a) \in PCs
BY SchedulerAssumption, Zenon DEF Continue, Actors, Callers, PCs

\* MaybeScheduleProcessQueue and the call of schedule in it, by any actor, keep
\* the invariant.
LEMMA MaybeKeeps ==
    ASSUME SchedulerInv, NEW a \in Actors,
           MaybeScheduleProcessQueue(a) \/ ScheduleProcessQueue(a)
    PROVE  SchedulerInv'
<1> USE DEF SchedulerInv
<1>0. a \in Threads \/ a \in Callers \/ a = Main
    BY Zenon DEF Actors
<1>1. CASE MaybeScheduleProcessQueue(a)
  <2>1. PICK p \in {"sched", Continue(a)} : pc' = [pc EXCEPT ![a] = p]
    BY <1>1, Zenon DEF MaybeScheduleProcessQueue
  <2>2. pc[a] = "maybe" /\ UNCHANGED <<taskQueue, now, listVars, waitFor>>
    BY <1>1, Zenon DEF MaybeScheduleProcessQueue, queueVars
  <2>3. pc' \in [Actors -> PCs] /\ pc'[a] = p /\ p \notin {"callback", "finish", "out", "done"}
    BY <1>0, <2>1, ContinueType, Zenon DEF PCs
  <2>4. Serial' /\ OnceInOrder'
    BY <2>1, <2>2, <2>3, MovesKeep, Zenon
  <2>5. NoLostWakeup'
    <3>1. CASE m_are_callbacks_running \/ m_callbacks_pending = <<>>
      BY <2>2, <3>1, Zenon DEF listVars, NoLostWakeup
    <3>2. CASE ~(m_are_callbacks_running \/ m_callbacks_pending = <<>>)
      <4>1. pc'[a] = "sched"
        BY <1>1, <3>2, Zenon DEF MaybeScheduleProcessQueue
      <4> QED
        BY <4>1, Zenon DEF NoLostWakeup
    <3> QED
      BY <3>1, <3>2, Zenon
  <2>6. WhoIsWhere'
    BY SchedulerAssumption, <1>0, <2>1, <2>2, <2>3, <2>4, ContinueType
    DEF WhoIsWhere, listVars, Actors, Callers
  <2>7. DrainedAtShutdown' /\ \A b \in Actors : pc'[b] = "callback" => cb'[b] = lastId' /\ lastId' # 0
    BY SchedulerAssumption, <1>0, <2>1, <2>2, <2>3, <2>4, ContinueType
    DEF listVars, DrainedAtShutdown, Actors, Callers
  <2> QED
    BY <1>0, <2>1, <2>2, <2>3, <2>4, <2>5, <2>6, <2>7, Zenon DEF WhoIsWhere, listVars
<1>2. CASE ScheduleProcessQueue(a)
  <2>1. /\ [time |-> now, what |-> "process"] \in Tasks
        /\ [time |-> now, what |-> "process"].what = "process"
    BY SchedulerAssumption DEF Tasks, Times
  <2>2. pc[a] = "sched" /\ UNCHANGED <<now, listVars, waitFor>>
    BY <1>2, Zenon DEF ScheduleProcessQueue
  <2>3. /\ pc' \in [Actors -> PCs] /\ pc'[a] = Continue(a)
        /\ \A b \in Actors : b # a /\ pc'[b] # pc[b] =>
              b \in Threads /\ pc[b] \in {"wait", "until"} /\ pc'[b] = "top"
    BY <1>2, NotifyMoves, ContinueType DEF ScheduleProcessQueue, schedule
  <2>4. /\ taskQueue' \in [Tasks -> Nat]
        /\ taskQueue'[[time |-> now, what |-> "process"]] > 0
    BY <1>2, <2>1, SchedulesMore, Zenon DEF ScheduleProcessQueue
  <2>5. Continue(a) \notin {"callback", "finish", "out", "done"}
    BY <1>0, ContinueType, Zenon
  <2>6. Serial' /\ OnceInOrder'
    BY <2>2, <2>3, <2>5, MovesKeep, Zenon
  <2>7. NoLostWakeup'
    BY <2>1, <2>4, Zenon DEF NoLostWakeup
  <2>8. WhoIsWhere'
    BY SchedulerAssumption, <1>0, <2>2, <2>3, <2>4, <2>5, ContinueType, Zenon
    DEF WhoIsWhere, listVars, Actors, Callers
  <2>9. DrainedAtShutdown' /\ \A b \in Actors : pc'[b] = "callback" => cb'[b] = lastId' /\ lastId' # 0
    BY SchedulerAssumption, <1>0, <2>2, <2>3, <2>4, <2>5, ContinueType
    DEF listVars, DrainedAtShutdown, Actors, Callers
  <2> QED
    BY <1>0, <2>2, <2>3, <2>4, <2>5, <2>6, <2>7, <2>8, <2>9, Zenon DEF WhoIsWhere, listVars
<1> QED
    BY <1>1, <1>2, Zenon

\* ProcessQueue takes the first callback of the list, which is the one after
\* the last one taken, and only when no other is running.
LEMMA ProcessKeeps ==
    ASSUME SchedulerInv, NEW a \in Threads \cup {Main}, ProcessQueue(a)
    PROVE  SchedulerInv'
<1> USE DEF SchedulerInv
<1>0. /\ a \in Actors /\ a \notin Callers /\ Main \notin Threads
      /\ pc[a] = "process" /\ UNCHANGED <<taskQueue, now, waitFor>>
    BY SchedulerAssumption, Zenon DEF Actors, Callers, ProcessQueue, queueVars
<1>1. CASE m_are_callbacks_running \/ m_callbacks_pending = <<>>
  <2>1. PICK p \in {"top", "process", "flush", "closed"} :
           /\ pc' = [pc EXCEPT ![a] = p]
           /\ a \in Threads => p = "top"
           /\ a \notin Threads => p # "top"
           /\ p \in {"flush", "closed"} => m_callbacks_pending = <<>>
    BY <1>1, Zenon DEF ProcessQueue
  <2>2. UNCHANGED listVars /\ pc' \in [Actors -> PCs] /\ pc'[a] = p
    BY <1>0, <1>1, <2>1, Zenon DEF ProcessQueue, PCs
  <2>3. Serial' /\ OnceInOrder'
    BY <1>0, <2>1, <2>2, MovesKeep, Zenon
  <2>4. NoLostWakeup'
    BY <1>1, <2>2, Zenon DEF NoLostWakeup, listVars
  <2>5. DrainedAtShutdown'
    <3>1. SUFFICES ASSUME pc'[Main] = "closed" PROVE done' = 1..added'
      BY Zenon DEF DrainedAtShutdown
    <3>2. CASE a # Main
      BY <1>0, <2>1, <2>2, <3>1, <3>2 DEF DrainedAtShutdown, listVars
    <3>3. CASE a = Main
      <4>1. m_callbacks_pending = <<>> /\ added = lastId
        BY <1>0, <2>1, <2>2, <3>1, <3>3 DEF OnceInOrder
      <4>2. {b \in Actors : pc[b] = "callback"} = {}
        BY <1>0, <3>3, Zenon DEF Actors
      <4>3. {cb[b] : b \in {b \in Actors : pc[b] = "callback"}} = {}
        BY <4>2, Zenon
      <4> QED
        BY <2>2, <4>1, <4>3, Zenon DEF OnceInOrder, listVars
    <3> QED
      BY <3>2, <3>3, Zenon
  <2> QED
    BY <1>0, <2>1, <2>2, <2>3, <2>4, <2>5, Zenon DEF listVars, Actors, Callers
<1>2. CASE ~(m_are_callbacks_running \/ m_callbacks_pending = <<>>)
  <2>1. /\ m_are_callbacks_running' = TRUE
        /\ cb' = [cb EXCEPT ![a] = Head(m_callbacks_pending)]
        /\ lastId' = Head(m_callbacks_pending)
        /\ m_callbacks_pending' = Tail(m_callbacks_pending)
        /\ pc' = [pc EXCEPT ![a] = "callback"]
        /\ UNCHANGED <<added, done>>
    BY <1>2, Zenon DEF ProcessQueue
  <2>2. Running = {} /\ m_callbacks_pending # <<>>
    BY <1>2, Zenon DEF Serial
  <2>3. /\ Len(m_callbacks_pending) > 0 /\ Head(m_callbacks_pending) = lastId + 1
        /\ Tail(m_callbacks_pending) \in Seq(Nat)
        /\ Len(Tail(m_callbacks_pending)) = Len(m_callbacks_pending) - 1
        /\ \A i \in DOMAIN Tail(m_callbacks_pending) :
              i + 1 \in DOMAIN m_callbacks_pending
              /\ Tail(m_callbacks_pending)[i] = m_callbacks_pending[i + 1]
    <3>1. 1 \in DOMAIN m_callbacks_pending /\ Len(m_callbacks_pending) \in Nat
      BY <2>2
    <3>2. Head(m_callbacks_pending) = lastId + 1
      BY <2>2, <3>1 DEF OnceInOrder
    <3>3. /\ Tail(m_callbacks_pending) \in Seq(Nat)
          /\ Len(Tail(m_callbacks_pending)) = Len(m_callbacks_pending) - 1
      BY <2>2
    <3>4. \A i \in DOMAIN Tail(m_callbacks_pending) :
             i + 1 \in DOMAIN m_callbacks_pending
             /\ Tail(m_callbacks_pending)[i] = m_callbacks_pending[i + 1]
      BY <2>2, <3>3
    <3> QED
      BY <3>1, <3>2, <3>3, <3>4
  <2>4. pc' \in [Actors -> PCs] /\ cb' \in [Actors -> Nat] /\ lastId' = lastId + 1
    BY <1>0, <2>1, <2>3 DEF PCs
  <2>5. Running' = {a} /\ {b \in Actors : pc'[b] = "callback"} = {a}
    BY <1>0, <2>1, <2>2, Zenon DEF Running
  <2>6. Serial'
    BY <2>1, <2>5, Zenon DEF Serial
  <2>7. done = 1..lastId
    <3>1. {b \in Actors : pc[b] = "callback"} = {}
      BY <2>2, Zenon DEF Running
    <3>2. {cb[b] : b \in {b \in Actors : pc[b] = "callback"}} = {}
      BY <3>1, Zenon
    <3> QED
      BY <3>2, Zenon DEF OnceInOrder
  <2>8. OnceInOrder'
    <3>1. {cb'[b] : b \in {b \in Actors : pc'[b] = "callback"}} = {lastId + 1}
      BY <1>0, <2>1, <2>3, <2>5
    <3>2. 1..lastId = (1..(lastId + 1)) \ {lastId + 1}
      OBVIOUS
    <3>3. Len(m_callbacks_pending') = added' - lastId'
      BY <2>1, <2>3, <2>4 DEF OnceInOrder
    <3>4. ASSUME NEW i \in DOMAIN m_callbacks_pending'
          PROVE  m_callbacks_pending'[i] = lastId' + i
      <4>1. /\ i \in Nat /\ i + 1 \in DOMAIN m_callbacks_pending
            /\ m_callbacks_pending'[i] = m_callbacks_pending[i + 1]
        <5>1. m_callbacks_pending' = Tail(m_callbacks_pending)
          BY <2>1, Zenon
        <5> QED
          BY <2>3, <5>1
      <4>2. m_callbacks_pending[i + 1] = lastId + (i + 1)
        BY <4>1, Zenon DEF OnceInOrder
      <4> QED
        BY <2>4, <4>1, <4>2
    <3> QED
      BY <2>1, <2>4, <2>7, <3>1, <3>2, <3>3, <3>4, Zenon DEF OnceInOrder
  <2>9. NoLostWakeup' /\ DrainedAtShutdown'
    BY <1>0, <2>1 DEF NoLostWakeup, DrainedAtShutdown
  <2>10. WhoIsWhere'
    BY <1>0, <2>1, <2>4 DEF WhoIsWhere, Actors, Callers
  <2>11. \A b \in Actors : pc'[b] = "callback" => cb'[b] = lastId' /\ lastId' # 0
    BY <1>0, <2>1, <2>3, <2>4, <2>5
  <2> QED
    BY <1>0, <2>1, <2>3, <2>4, <2>5, <2>6, <2>8, <2>9, <2>10, <2>11 DEF WhoIsWhere
<1> QED
    BY <1>1, <1>2, Zenon

\* A callback that is added goes behind all others (AddToProcessQueue).
LEMMA PutInOrder ==
    ASSUME SchedulerInv, Put, lastId' = lastId
    PROVE  /\ m_callbacks_pending' \in Seq(Nat) /\ added' \in Nat
           /\ Len(m_callbacks_pending') = added' - lastId'
           /\ \A i \in DOMAIN m_callbacks_pending' : m_callbacks_pending'[i] = lastId' + i
<1> USE DEF SchedulerInv
<1>1. /\ m_callbacks_pending' = Append(m_callbacks_pending, added + 1) /\ added' = added + 1
      /\ Len(m_callbacks_pending) = added - lastId
      /\ m_callbacks_pending \in Seq(Nat)
    BY Zenon DEF Put, OnceInOrder
<1>2. ASSUME NEW i \in DOMAIN m_callbacks_pending'
      PROVE  m_callbacks_pending'[i] = lastId' + i
  <2>1. CASE i \in DOMAIN m_callbacks_pending
    BY <1>1, <2>1 DEF OnceInOrder
  <2>2. CASE i \notin DOMAIN m_callbacks_pending
    <3>1. i = Len(m_callbacks_pending) + 1
      BY <1>1, <2>2
    <3>2. ASSUME NEW q \in Seq(Nat), NEW e \in Nat PROVE Append(q, e)[Len(q) + 1] = e
      OBVIOUS
    <3>3. m_callbacks_pending'[i] = added + 1
      <4>1. m_callbacks_pending'[i] =
               Append(m_callbacks_pending, added + 1)[Len(m_callbacks_pending) + 1]
        BY <1>1, <3>1, Zenon
      <4>2. m_callbacks_pending \in Seq(Nat) /\ added + 1 \in Nat
        BY <1>1
      <4> QED
        BY <3>2, <4>1, <4>2, Zenon
    <3> QED
      BY <1>1, <3>1, <3>3
  <2> QED
    BY <2>1, <2>2, Zenon
<1> QED
    BY <1>1, <1>2

\* The callback that runs is the last one taken; when it has run, all up to it
\* have (ProcessQueue).
LEMMA CallbackKeeps ==
    ASSUME SchedulerInv, NEW a \in Threads \cup {Main}, Callback(a)
    PROVE  SchedulerInv'
<1> USE DEF SchedulerInv
<1>0. /\ a \in Actors /\ a \notin Callers /\ Main \notin Threads
      /\ pc[a] = "callback" /\ cb[a] = lastId /\ lastId # 0
      /\ UNCHANGED <<taskQueue, now, m_are_callbacks_running, cb, waitFor, lastId>>
      /\ pc' = [pc EXCEPT ![a] = "finish"]
      /\ done' = done \cup {cb[a]}
    BY SchedulerAssumption, Zenon DEF Actors, Callers, Callback, queueVars
<1>1. /\ m_callbacks_pending' \in Seq(Nat) /\ added' \in Nat
      /\ Len(m_callbacks_pending') = added' - lastId'
      /\ \A i \in DOMAIN m_callbacks_pending' : m_callbacks_pending'[i] = lastId' + i
  <2>1. CASE UNCHANGED <<m_callbacks_pending, added>>
    BY <1>0, <2>1, Zenon DEF OnceInOrder
  <2>2. CASE Put
    BY <1>0, <2>2, PutInOrder, Zenon
  <2> QED
    BY <2>1, <2>2, Zenon DEF Callback
<1>2. pc' \in [Actors -> PCs] /\ done' \subseteq Nat
    BY <1>0, Zenon DEF PCs
<1>3. Running' = Running /\ a \in Running
    BY <1>0, Zenon DEF Running
<1>4. Serial' /\ m_are_callbacks_running
    BY <1>0, <1>3, Zenon DEF Serial
<1>5. OnceInOrder'
  <2>1. {b \in Actors : pc[b] = "callback"} = {a} /\ {b \in Actors : pc'[b] = "callback"} = {}
    BY <1>0, <1>3 DEF Running, Serial
  <2>2. /\ {cb[b] : b \in {b \in Actors : pc[b] = "callback"}} = {lastId}
        /\ {cb'[b] : b \in {b \in Actors : pc'[b] = "callback"}} = {}
    BY <1>0, <2>1
  <2>3. done = (1..lastId) \ {lastId}
    BY <2>2, Zenon DEF OnceInOrder
  <2>4. done' = 1..lastId
    BY <1>0, <2>3
  <2> QED
    BY <1>0, <1>1, <2>2, <2>4, Zenon DEF OnceInOrder
<1>6. NoLostWakeup' /\ DrainedAtShutdown'
    BY <1>0, <1>4 DEF NoLostWakeup, DrainedAtShutdown
<1>7. \A b \in Actors : pc'[b] # "callback"
    BY <1>0, <1>3, Zenon DEF Running, Serial
<1> QED
    BY <1>0, <1>1, <1>2, <1>4, <1>5, <1>6, <1>7, Zenon DEF Actors, Callers

\* The destructor of RAIICallbacksRunning: whoever ran the callback is about to
\* look at the list again.
LEMMA FinishKeeps ==
    ASSUME SchedulerInv, NEW a \in Threads \cup {Main}, Finish(a)
    PROVE  SchedulerInv'
<1> USE DEF SchedulerInv
<1>0. /\ a \in Actors /\ a \notin Callers /\ Main \notin Threads
      /\ pc[a] = "finish" /\ m_are_callbacks_running' = FALSE
      /\ UNCHANGED <<taskQueue, now, m_callbacks_pending, added, lastId, done, waitFor>>
      /\ cb' = [cb EXCEPT ![a] = 0]
      /\ pc' = [pc EXCEPT ![a] = "maybe"]
    BY SchedulerAssumption, Zenon DEF Actors, Callers, Finish, queueVars
<1>1. pc' \in [Actors -> PCs] /\ pc'[a] = "maybe"
    BY <1>0, Zenon DEF PCs
<1>2. Running' = {} /\ Serial'
    BY <1>0 DEF Running, Serial
<1>3. OnceInOrder'
  <2>1. {b \in Actors : pc'[b] = "callback"} = {b \in Actors : pc[b] = "callback"}
    BY <1>0, Zenon
  <2> QED
    BY <1>0, <2>1 DEF OnceInOrder
<1>4. NoLostWakeup' /\ DrainedAtShutdown'
    BY <1>0, <1>1 DEF NoLostWakeup, DrainedAtShutdown
<1> QED
    BY <1>0, <1>1, <1>2, <1>3, <1>4, Zenon DEF Actors, Callers

\* A caller of ActivateBestChain that adds a callback goes on to
\* MaybeScheduleProcessQueue, so that the invariant is kept.
LEMMA CallerPuts ==
    ASSUME SchedulerInv, NEW a \in Callers \cup {Main}, Put,
           pc[a] \in {"sync", "add", "flush"}, pc' = [pc EXCEPT ![a] = "maybe"],
           waitFor' \in [Callers -> Nat],
           UNCHANGED <<taskQueue, now, m_are_callbacks_running, cb, lastId, done>>
    PROVE  SchedulerInv'
<1> USE DEF SchedulerInv
<1>0. a \in Actors /\ a \notin Threads /\ Main \notin Callers /\ Main \in Actors
    BY SchedulerAssumption, Zenon DEF Actors, Callers
<1>1. pc' \in [Actors -> PCs] /\ pc'[a] = "maybe"
    BY <1>0, Zenon DEF PCs
<1>2. Running' = Running /\ Serial'
    BY <1>0 DEF Running, Serial
<1>3. OnceInOrder'
  <2>1. {b \in Actors : pc'[b] = "callback"} = {b \in Actors : pc[b] = "callback"}
    BY <1>0, Zenon
  <2> QED
    BY <2>1, PutInOrder DEF OnceInOrder
<1>4. NoLostWakeup'
    BY <1>0, <1>1, Zenon DEF NoLostWakeup
<1>5. DrainedAtShutdown'
    BY <1>0, <1>1, Zenon DEF DrainedAtShutdown
<1> QED
    BY <1>0, <1>1, <1>2, <1>3, <1>4, <1>5, PutInOrder, Zenon DEF Actors, Callers

\* A caller that only moves keeps the invariant; none moves once Main has
\* joined it (ActivateBestChain, g_load_block.join()).
LEMMA CallerMoves ==
    ASSUME SchedulerInv, NEW a \in Callers,
           NEW p \in {"out", "lock", "limit", "sync", "await", "add", "check"},
           pc[a] \in {"out", "lock", "limit", "await", "add", "check"},
           pc[a] = "out" => pc[Main] = "up",
           pc' = [pc EXCEPT ![a] = p], waitFor' \in [Callers -> Nat],
           UNCHANGED <<taskQueue, now, listVars>>
    PROVE  SchedulerInv'
<1> USE DEF SchedulerInv
<1>0. a \in Actors /\ a \notin Threads /\ a # Main /\ Main \in Actors
    BY SchedulerAssumption, Zenon DEF Actors, Callers
<1>1. pc' \in [Actors -> PCs] /\ pc'[a] = p
    BY <1>0, Zenon DEF PCs
<1>2. Serial' /\ OnceInOrder'
    BY <1>0, <1>1, MovesKeep, Zenon
<1>3. NoLostWakeup'
    BY <1>0, <1>1, WakeupKept, Zenon
<1> QED
    BY <1>0, <1>1, <1>2, <1>3 DEF listVars, DrainedAtShutdown, Actors, Callers

\* Every step of a caller keeps the invariant (ActivateBestChain).
LEMMA CallerKeeps ==
    ASSUME SchedulerInv, NEW a \in Callers, Enter(a) \/ CallerStep(a)
    PROVE  SchedulerInv'
<1>0. a \in Actors /\ waitFor \in [Callers -> Nat] /\ added + 1 \in Nat
    BY DEF Actors, SchedulerInv
<1>1. CASE Enter(a)
    BY <1>1, <1>0, CallerMoves, Zenon DEF Enter, ShutdownRequested, queueVars
<1>2. CASE Lock(a)
    BY <1>2, <1>0, CallerMoves, Zenon DEF Lock, queueVars
<1>3. CASE LimitValidationInterfaceQueue(a)
    BY <1>3, <1>0, CallerMoves, Zenon DEF LimitValidationInterfaceQueue, queueVars
<1>4. CASE SyncWithValidationInterfaceQueue(a)
    BY <1>4, <1>0, CallerPuts, Zenon DEF SyncWithValidationInterfaceQueue, queueVars
<1>5. CASE Await(a)
    BY <1>5, <1>0, CallerMoves, Zenon DEF Await, queueVars
<1>6. CASE Signal(a)
    BY <1>6, <1>0, CallerPuts, Zenon DEF Signal, queueVars
<1>7. CASE NothingToConnect(a)
    BY <1>7, <1>0, CallerMoves, Zenon DEF NothingToConnect, queueVars
<1>8. CASE Check(a)
    BY <1>8, <1>0, CallerMoves, Zenon DEF Check, queueVars
<1> QED
    BY <1>0, <1>1, <1>2, <1>3, <1>4, <1>5, <1>6, <1>7, <1>8, MaybeKeeps, Zenon DEF CallerStep

\* The steps of PrepareShutdown outside of EmptyQueue keep the invariant.
LEMMA MainKeeps ==
    ASSUME SchedulerInv,
           RequestShutdown \/ StopScheduler \/ Join \/ FlushState
    PROVE  SchedulerInv'
<1> USE DEF SchedulerInv
<1>0. Main \in Actors /\ Main \notin Threads /\ Main \notin Callers
    BY SchedulerAssumption, Zenon DEF Actors, Callers
<1>1. CASE FlushState
    BY <1>0, <1>1, CallerPuts, Zenon DEF FlushState, queueVars
<1>2. ASSUME UNCHANGED <<taskQueue, now, listVars, waitFor>>, pc' \in [Actors -> PCs],
             <<pc[Main], pc'[Main]>> \in
                {<<"up", "interrupt">>, <<"interrupt", "join">>, <<"join", "process">>},
             \A b \in Actors \ {Main} : pc'[b] # pc[b] =>
                b \in Threads /\ pc[b] \in {"wait", "until"} /\ pc'[b] = "top",
             pc'[Main] = "join" => \A b \in Producers : pc[b] = "out",
             pc'[Main] = "process" => /\ \A t \in Threads : pc[t] = "done"
                                      /\ \A b \in Loaders : pc[b] = "out"
      PROVE  SchedulerInv'
  <2>1. Serial' /\ OnceInOrder'
    BY <1>0, <1>2, MovesKeep, Zenon
  <2>2. NoLostWakeup'
    BY <1>0, <1>2, WakeupKept, Zenon
  <2> QED
    BY <1>0, <1>2, <2>1, <2>2 DEF listVars, DrainedAtShutdown, Actors, Callers
<1>3. CASE RequestShutdown
    BY <1>0, <1>2, <1>3, Zenon DEF RequestShutdown, queueVars, PCs
<1>4. CASE StopScheduler
    BY <1>0, <1>2, <1>4, Zenon DEF StopScheduler, Waiting, PCs
<1>5. CASE Join
    BY <1>0, <1>2, <1>5, Zenon DEF Join, queueVars, PCs
<1> QED
    BY <1>1, <1>3, <1>4, <1>5, Zenon

\* Every step of Scheduler keeps SchedulerInv.
LEMMA SchedulerStep ==
    SchedulerInv /\ [Next]_vars => SchedulerInv'
<1> SUFFICES ASSUME SchedulerInv, [Next]_vars PROVE SchedulerInv'
    BY Zenon
<1>1. ASSUME NEW a \in Threads \cup {Main}, ClientStep(a) PROVE SchedulerInv'
    BY <1>1, ProcessKeeps, CallbackKeeps, FinishKeeps, MaybeKeeps, Zenon DEF ClientStep, Actors
<1>2. ASSUME NEW t \in Threads, ThreadStep(t) PROVE SchedulerInv'
    BY <1>1, <1>2, ThreadKeeps, Zenon DEF ThreadStep
<1>3. CASE RequestShutdown \/ MainStep
    BY <1>1, <1>3, MainKeeps, Zenon DEF MainStep
<1>4. CASE Tick
  <2>1. UNCHANGED <<taskQueue, listVars, pc, waitFor>> /\ now' \in 0..MaxTime
    BY SchedulerAssumption, <1>4 DEF Tick, queueVars, SchedulerInv
  <2>2. Serial' /\ OnceInOrder'
    BY <2>1, MovesKeep, Zenon DEF SchedulerInv
  <2> QED
    BY <2>1, <2>2, WakeupKept, Zenon DEF SchedulerInv, listVars, DrainedAtShutdown
<1>5. CASE UNCHANGED vars
  <2>1. UNCHANGED <<taskQueue, listVars, pc, waitFor, now>>
    BY <1>5, Zenon DEF vars, listVars
  <2>2. Serial' /\ OnceInOrder'
    BY <2>1, MovesKeep, Zenon DEF SchedulerInv
  <2> QED
    BY <2>1, <2>2, WakeupKept, Zenon DEF SchedulerInv, listVars, DrainedAtShutdown
<1> QED
    BY <1>2, <1>3, <1>4, <1>5, CallerKeeps, Zenon DEF Next

\* SchedulerInv holds in every reachable state, for every set of threads and
\* callers (scheduler.cpp with ActivateBestChain and PrepareShutdown).
THEOREM SchedulerInvariant == Spec => []SchedulerInv
BY SchedulerInit, SchedulerStep, PTL DEF Spec

\* No two callbacks run at the same time (SingleThreadedSchedulerClient).
THEOREM SerialTheorem == Spec => []Serial
<1>1. SchedulerInv => Serial
    BY Zenon DEF SchedulerInv
<1> QED
    BY <1>1, SchedulerInvariant, PTL

\* Every callback runs at most once and in the order of AddToProcessQueue, and
\* none leaves the list without being run.
THEOREM OrderTheorem == Spec => []OnceInOrder
<1>1. SchedulerInv => OnceInOrder
    BY Zenon DEF SchedulerInv
<1> QED
    BY <1>1, SchedulerInvariant, PTL

\* Pending callbacks are never forgotten (MaybeScheduleProcessQueue).
THEOREM WakeupTheorem == Spec => []NoLostWakeup
<1>1. SchedulerInv => NoLostWakeup
    BY Zenon DEF SchedulerInv
<1> QED
    BY <1>1, SchedulerInvariant, PTL

\* A shutdown that comes to its end has run every callback (EmptyQueue).
THEOREM DrainedTheorem == Spec => []DrainedAtShutdown
<1>1. SchedulerInv => DrainedAtShutdown
    BY Zenon DEF SchedulerInv
<1> QED
    BY <1>1, SchedulerInvariant, PTL

=============================================================================
