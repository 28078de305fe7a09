------------------------------ MODULE MCThreads ------------------------------
(***************************************************************************)
(* CheckQueue and Scheduler in one run: part says which of the two takes    *)
(* the steps; the other one stays where it starts.                          *)
(***************************************************************************)
EXTENDS CheckQueue, Scheduler

VARIABLE part

allVars == <<vars, checkVars, part>>

MCInit == part \in {"checkqueue", "scheduler"} /\ CheckInit /\ Init

InCheckQueue(A) == part = "checkqueue" /\ A /\ UNCHANGED <<part, vars>>
InScheduler(A) == part = "scheduler" /\ A /\ UNCHANGED <<part, checkVars>>

MCNext == InCheckQueue(CheckNext) \/ InScheduler(Next)

\* The fairness of each of the two; the steps of the other one are disabled.
MCFairness ==
    /\ WF_allVars(InCheckQueue(Wait))
    /\ WF_allVars(InCheckQueue(Joined))
    /\ \A t \in CheckThreads : WF_allVars(InCheckQueue(Step(t)))
    /\ \A t \in Threads : WF_allVars(InScheduler(ThreadStep(t)))
    /\ \A a \in Callers : WF_allVars(InScheduler(CallerStep(a)))
    /\ WF_allVars(InScheduler(MainStep))

MCSpec == MCInit /\ [][MCNext]_allVars /\ MCFairness

=============================================================================
