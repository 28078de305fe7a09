------------------------------ MODULE ChainLocks ------------------------------
(***************************************************************************)
(* CChainLocksHandler (src/llmq/chainlocks.cpp) on one node, and the parts *)
(* of the chain state that ask it or obey it (src/validation.cpp).         *)
(*                                                                         *)
(* Threads: "msg" is the message handler (CLSIG messages), "worker" the    *)
(* thread that delivers recovered signatures (HandleNewRecoveredSig),      *)
(* "sched" the handler's own scheduler.  Headers and blocks arrive from    *)
(* the message handler or from RPC threads.  cs_main and cs are held for   *)
(* one step each; what a thread read before a step is in its record.       *)
(*                                                                         *)
(* A CLSIG that a quorum really made is identified by its block: height    *)
(* and request id follow from it.  Every block has the same work.  Root is *)
(* buried, on every chain, and past DIP0008.  Left out: the announcement   *)
(* of an enforced lock, which no decision reads.                           *)
(***************************************************************************)
EXTENDS BlockTree

CONSTANTS
    Signed,                \* blocks whose CLSIG the network can send
    Forged,                \* blocks for which CLSIGs with bad signatures are sent
    SignOffset,            \* SIGN_HEIGHT_OFFSET
    Modes,                 \* the values fMasternodeMode may have
    MaxToggles,            \* bound on the changes of SPORK_19
    None

ASSUME LocksAssumption ==
    /\ Signed \subseteq Blocks \ {Root} /\ Forged \subseteq Blocks
    /\ SignOffset \in Nat /\ Modes \subseteq BOOLEAN /\ MaxToggles \in Nat
    /\ None \notin Blocks

Threads == {"msg", "worker", "sched"}
Sporks == {"off", "nosign", "on"}
Lock == Blocks \cup {None}

\* A null CChainLockSig has height -1.
LockHeight(l) == IF l = None THEN -1 ELSE Height[l]

VARIABLES
    fMasternodeMode,    \* set at the start of the process
    spork, toggles,     \* SPORK_19_CHAINLOCKS_ENABLED: inactive, 1 (enforce only) or 0
    known,              \* block index
    data,               \* blocks with BLOCK_HAVE_DATA
    failed,             \* BLOCK_FAILED_MASK
    conflict,           \* BLOCK_CONFLICT_CHAINLOCK
    tip,                \* ChainActive().Tip()
    isEnabled, isEnforced,
    bestChainLock, bestChainLockBlockIndex,
    seenChainLocks,
    lastSigned,         \* lastSignedHeight, lastSignedRequestId, lastSignedMsgHash
    thread

chain == <<known, data, failed, conflict, tip>>
sporks == <<fMasternodeMode, spork, toggles>>
locks == <<bestChainLock, bestChainLockBlockIndex>>
active == <<isEnabled, isEnforced>>
vars == <<sporks, chain, active, locks, seenChainLocks, lastSigned, thread>>

Idle == [pc |-> "idle", old |-> FALSE, on |-> FALSE, sig |-> None, ok |-> FALSE, index |-> None, try |-> FALSE]
ThreadState ==
    [pc : {"idle", "check", "set", "setEnforced", "reset", "seen", "verify", "store", "enforce", "block", "activate",
           "try", "sign"},
     old : BOOLEAN, on : BOOLEAN, sig : Lock, ok : BOOLEAN, index : Lock, try : BOOLEAN]

Goto(t, pc) == thread' = [thread EXCEPT ![t].pc = pc]
Finish(t) == thread' = [thread EXCEPT ![t] = Idle]

-----------------------------------------------------------------------------
(* What the handler answers *)

HasChainLock(b) ==
    isEnforced /\ bestChainLockBlockIndex # None /\ b \in Anc[bestChainLockBlockIndex]

HasConflictingChainLock(b) ==
    /\ isEnforced /\ bestChainLockBlockIndex # None
    /\ Height[b] <= Height[bestChainLockBlockIndex]
    /\ b \notin Anc[bestChainLockBlockIndex]

-----------------------------------------------------------------------------
(* The chain state *)

Path(b) == Anc[b] \ Anc[tip]

\* Mutant: ConnectBlock does not ask for a conflicting ChainLock.
MutantNoConnectCheck(line, b) == {}

\* With line connected, the blocks of b's chain that cannot be connected because ConnectBlock
\* refuses one of them or one before them.
Blocked(line, b) == {x \in Anc[b] \ line : \E y \in Anc[x] \ line : HasConflictingChainLock(y)}

\* The blocks with all data, no less work than the tip and no marked block above line.
\* (FindMostWorkChain also hands a mark on to the blocks above; a path through a mark is
\* refused here instead.)
Candidates(D, line, bad) ==
    {b \in Blocks : Anc[b] \subseteq D /\ Height[b] >= Height[tip] /\ (Anc[b] \ line) \cap bad = {}}

Highest(C) == {b \in C : \A c \in C : Height[c] <= Height[b]}

\* The candidates with most work.  The block that is connected now wins a tie
\* (PruneBlockIndexCandidates), then the old tip.
FindMostWorkChain(D, s) ==
    LET most == Highest(Candidates(D, s.line, s.failed \cup conflict))
        now == {b \in most : Anc[b] = s.line}
    IN  IF now # {} THEN now ELSE IF tip \in most THEN {tip} ELSE most

\* Connect as much as possible of a candidate; what ConnectBlock refuses is marked failed.
ActivateBestChainStep(D, s) ==
    LET connect(b) == [line |-> Anc[b] \ Blocked(s.line, b), failed |-> s.failed \cup Blocked(s.line, b)]
        most == FindMostWorkChain(D, s)
    IN  IF most = {} THEN {s} ELSE {connect(b) : b \in most}

\* What n steps can lead to.  As many steps as there are blocks are enough: a step that does
\* not end on its candidate refuses a block.
ActivateRun(D) ==
    LET run[n \in 0..Cardinality(D)] ==
            IF n = 0 THEN {[line |-> Anc[tip], failed |-> failed]}
            ELSE UNION {ActivateBestChainStep(D, s) : s \in run[n - 1]}
    IN  run

\* ActivateBestChain with the blocks D on disk: steps until nothing changes.  One action:
\* no lock is stored and no header accepted in the middle of it.
ActivateBestChain(D) ==
    \E s \in ActivateRun(D)[Cardinality(D)] :
        /\ tip' \in {b \in s.line : Anc[b] = s.line}
        /\ failed' = s.failed

\* AcceptBlockHeader; AcceptedBlockHeader of the handler is called under cs_main.
AcceptBlockHeader(b) ==
    /\ b \notin known /\ Parent[b] \in known
    /\ Parent[b] \notin conflict /\ Anc[Parent[b]] \cap failed = {}
    /\ known' = known \cup {b}
    /\ IF HasConflictingChainLock(b)
       THEN /\ conflict' = conflict \cup {b}
            /\ UNCHANGED bestChainLockBlockIndex
       ELSE /\ bestChainLockBlockIndex' = IF b = bestChainLock THEN b ELSE bestChainLockBlockIndex
            /\ UNCHANGED conflict
    /\ UNCHANGED <<sporks, data, failed, tip, active, bestChainLock,
                   seenChainLocks, lastSigned, thread>>

\* ProcessNewBlock of a block whose header is known.
ProcessNewBlock(b) ==
    /\ b \in known \ (data \cup conflict \cup failed)
    /\ data' = data \cup {b}
    /\ ActivateBestChain(data')
    /\ UNCHANGED <<sporks, known, conflict, active, locks, seenChainLocks, lastSigned, thread>>

-----------------------------------------------------------------------------
(* CheckActiveState, called by every thread before anything else *)

CheckActiveState(t) ==
    /\ thread[t].pc = "check"
    /\ thread' = [thread EXCEPT ![t].pc = "set", ![t].old = isEnforced, ![t].on = (spork # "off")]
    /\ UNCHANGED <<sporks, chain, active, locks, seenChainLocks, lastSigned>>

AfterCheck(t) == IF t = "sched" THEN "enforce" ELSE "seen"

CheckActiveSet(t) ==
    /\ thread[t].pc = "set"
    /\ isEnabled' = thread[t].on
    /\ thread' = [thread EXCEPT ![t].pc = "setEnforced", ![t].on = FALSE]
    /\ UNCHANGED <<sporks, chain, isEnforced, locks, seenChainLocks, lastSigned>>

\* isEnabled is read again: another thread may have changed it.
CheckActiveSetEnforced(t) ==
    /\ thread[t].pc = "setEnforced"
    /\ isEnforced' = isEnabled
    /\ thread' = [thread EXCEPT ![t].pc = IF thread[t].old THEN AfterCheck(t) ELSE "reset", ![t].old = FALSE]
    /\ UNCHANGED <<sporks, chain, isEnabled, locks, seenChainLocks, lastSigned>>

CheckActiveReset(t) ==
    /\ thread[t].pc = "reset"
    /\ IF isEnforced
       THEN bestChainLock' = None /\ bestChainLockBlockIndex' = None
       ELSE UNCHANGED locks
    /\ Goto(t, AfterCheck(t))
    /\ UNCHANGED <<sporks, chain, active, seenChainLocks, lastSigned>>

-----------------------------------------------------------------------------
(* ProcessNewChainLock *)

Sig(b, ok) == [block |-> b, ok |-> ok]

\* ProcessMessage of a CLSIG, good or bad.
ReceiveCLSIG(b, ok) ==
    /\ thread["msg"].pc = "idle" /\ spork # "off"
    /\ thread' = [thread EXCEPT !["msg"].pc = "check", !["msg"].sig = b, !["msg"].ok = ok]
    /\ UNCHANGED <<sporks, chain, active, locks, seenChainLocks, lastSigned>>

\* HandleNewRecoveredSig for what we signed last.
HandleNewRecoveredSig ==
    /\ thread["worker"].pc = "idle" /\ isEnabled
    /\ lastSigned \in Signed /\ LockHeight(bestChainLock) < Height[lastSigned]
    /\ thread' = [thread EXCEPT !["worker"].pc = "check", !["worker"].sig = lastSigned, !["worker"].ok = TRUE]
    /\ UNCHANGED <<sporks, chain, active, locks, seenChainLocks, lastSigned>>

\* First section under cs.
ProcessNewChainLock(t) ==
    /\ thread[t].pc = "seen"
    /\ LET s == Sig(thread[t].sig, thread[t].ok)
       IN  /\ seenChainLocks' = seenChainLocks \cup {s}
           /\ IF s \in seenChainLocks \/ Height[s.block] <= LockHeight(bestChainLock)
              THEN Finish(t) ELSE Goto(t, "verify")
    /\ UNCHANGED <<sporks, chain, active, locks, lastSigned>>

\* VerifyRecoveredSig needs the quorum of the height SignOffset below; then LookupBlockIndex.
ProcessVerify(t) ==
    /\ thread[t].pc = "verify"
    /\ LET b == thread[t].sig
       IN  IF thread[t].ok /\ Height[b] - SignOffset <= Height[tip]
           THEN thread' = [thread EXCEPT ![t].pc = "store", ![t].index = IF b \in known THEN b ELSE None]
           ELSE Finish(t)
    /\ UNCHANGED <<sporks, chain, active, locks, seenChainLocks, lastSigned>>

\* Second section under cs: nothing is compared again.
ProcessStore(t) ==
    /\ thread[t].pc = "store"
    /\ bestChainLock' = thread[t].sig
    /\ bestChainLockBlockIndex' = IF thread[t].index = None THEN bestChainLockBlockIndex ELSE thread[t].index
    /\ Finish(t)
    /\ UNCHANGED <<sporks, chain, active, seenChainLocks, lastSigned>>

-----------------------------------------------------------------------------
(* The scheduler: EnforceBestChainLock and TrySignChainTip *)

\* A periodic or scheduled job; the job that a new CLSIG schedules does not sign.
StartJob(try) ==
    /\ thread["sched"].pc = "idle"
    /\ thread' = [thread EXCEPT !["sched"].pc = "check", !["sched"].try = try]
    /\ UNCHANGED <<sporks, chain, active, locks, seenChainLocks, lastSigned>>

AfterEnforce == thread' = [thread EXCEPT !["sched"] = IF @.try THEN [Idle EXCEPT !.pc = "try"] ELSE Idle]

EnforceBestChainLock ==
    /\ thread["sched"].pc = "enforce"
    /\ IF isEnforced /\ bestChainLockBlockIndex # None
       THEN thread' = [thread EXCEPT !["sched"].pc = "block", !["sched"].index = bestChainLockBlockIndex]
       ELSE AfterEnforce
    /\ UNCHANGED <<sporks, chain, active, locks, seenChainLocks, lastSigned>>

\* Mutant: conflicting blocks are marked but stay connected.
MutantKeepConnected ==
    /\ thread["sched"].pc = "block"
    /\ LET p == thread["sched"].index
           siblings == {s \in known \ {Root} : \E w \in Path(p) : s # w /\ Parent[s] = Parent[w]}
       IN  conflict' = conflict \cup siblings
    /\ Goto("sched", "activate")
    /\ UNCHANGED <<sporks, known, data, failed, tip, active, locks, seenChainLocks, lastSigned>>

\* Every sibling of the path to the locked block is conflicting; if one is in the
\* active chain, the chain is disconnected back to its parent.
EnforceBlock ==
    /\ thread["sched"].pc = "block"
    /\ LET p == thread["sched"].index
           siblings == {s \in known \ {Root} : \E w \in Path(p) : s # w /\ Parent[s] = Parent[w]}
           inChain == siblings \cap Anc[tip]
       IN  /\ conflict' = conflict \cup siblings \cup {x \in Anc[tip] : Anc[x] \cap inChain # {}}
           /\ \/ inChain = {} /\ UNCHANGED tip
              \/ \E s \in inChain : tip' = Parent[s]
           /\ failed' = IF p \in failed THEN failed \ (Anc[p] \cup {x \in Blocks : p \in Anc[x]}) ELSE failed
    /\ Goto("sched", "activate")
    /\ UNCHANGED <<sporks, known, data, active, locks, seenChainLocks, lastSigned>>

EnforceActivate ==
    /\ thread["sched"].pc = "activate"
    /\ IF thread["sched"].index \in Anc[tip] THEN UNCHANGED <<tip, failed>> ELSE ActivateBestChain(data)
    /\ AfterEnforce
    /\ UNCHANGED <<sporks, known, data, conflict, active, locks, seenChainLocks, lastSigned>>

\* Cleanup, which forgets the CLSIGs seen a day ago, the early returns and the first
\* section under cs.
TrySignChainTip(gone) ==
    /\ thread["sched"].pc = "try"
    /\ seenChainLocks' = seenChainLocks \ gone
    /\ IF /\ fMasternodeMode /\ isEnabled /\ spork = "on" /\ tip # Root
          /\ Height[tip] # LockHeight(lastSigned)
          /\ LockHeight(bestChainLock) < Height[tip]
          /\ ~HasConflictingChainLock(tip)
       THEN thread' = [thread EXCEPT !["sched"].pc = "sign", !["sched"].index = tip]
       ELSE Finish("sched")
    /\ UNCHANGED <<sporks, chain, active, locks, lastSigned>>

\* Some transaction is neither locked nor old enough.
NotSafe ==
    /\ thread["sched"].pc = "sign"
    /\ Finish("sched")
    /\ UNCHANGED <<sporks, chain, active, locks, seenChainLocks, lastSigned>>

\* All transactions are safe: second section under cs, then AsyncSignIfMember.
SignChainTip ==
    /\ thread["sched"].pc = "sign"
    /\ LET p == thread["sched"].index
       IN  IF LockHeight(bestChainLock) >= Height[p]
           THEN UNCHANGED lastSigned
           ELSE lastSigned' = p
    /\ Finish("sched")
    /\ UNCHANGED <<sporks, chain, active, locks, seenChainLocks>>

\* SPORK_19 is changed on the network.
ToggleSpork(v) ==
    /\ toggles < MaxToggles /\ v # spork
    /\ spork' = v /\ toggles' = toggles + 1
    /\ UNCHANGED <<fMasternodeMode, chain, active, locks, seenChainLocks, lastSigned, thread>>

-----------------------------------------------------------------------------
Init ==
    /\ fMasternodeMode \in Modes
    /\ spork \in {"off", "on"} /\ toggles = 0
    /\ known = {Root} /\ data = {Root} /\ failed = {} /\ conflict = {} /\ tip = Root
    /\ isEnabled = FALSE /\ isEnforced = FALSE
    /\ bestChainLock = None /\ bestChainLockBlockIndex = None
    /\ seenChainLocks = {} /\ lastSigned = None
    /\ thread = [t \in Threads |-> Idle]

SchedStep ==
    \/ CheckActiveState("sched") \/ CheckActiveSet("sched") \/ CheckActiveSetEnforced("sched") \/ CheckActiveReset("sched")
    \/ EnforceBestChainLock \/ EnforceBlock \/ EnforceActivate
    \/ \E gone \in SUBSET seenChainLocks : TrySignChainTip(gone)
    \/ NotSafe \/ SignChainTip

Process(t) ==
    \/ CheckActiveState(t) \/ CheckActiveSet(t) \/ CheckActiveSetEnforced(t) \/ CheckActiveReset(t)
    \/ ProcessNewChainLock(t) \/ ProcessVerify(t) \/ ProcessStore(t)

Next ==
    \/ \E b \in Blocks \ {Root} : AcceptBlockHeader(b)
    \/ \E b \in Blocks : ProcessNewBlock(b)
    \/ \E b \in Signed : ReceiveCLSIG(b, TRUE)
    \/ \E b \in Forged : ReceiveCLSIG(b, FALSE)
    \/ HandleNewRecoveredSig
    \/ \E t \in {"msg", "worker"} : Process(t)
    \/ \E try \in BOOLEAN : StartJob(try)
    \/ SchedStep
    \/ \E v \in Sporks : ToggleSpork(v)

Spec == Init /\ [][Next]_vars

(* The scheduler runs its job every five seconds and finishes it; a thread that *)
(* began to process a CLSIG finishes.  Nothing is said of what arrives.         *)
Fairness ==
    /\ WF_vars(\E try \in BOOLEAN : StartJob(try))
    /\ WF_vars(SchedStep)
    /\ \A t \in {"msg", "worker"} : WF_vars(Process(t))

FairSpec == Spec /\ Fairness

-----------------------------------------------------------------------------
(* Properties *)

\* Type invariant; what is marked, active or locked is in the block index.
TypeOK ==
    /\ fMasternodeMode \in Modes /\ spork \in Sporks /\ toggles \in 0..MaxToggles
    /\ known \subseteq Blocks /\ data \subseteq known /\ failed \subseteq known /\ conflict \subseteq known
    /\ tip \in data
    /\ isEnabled \in BOOLEAN /\ isEnforced \in BOOLEAN
    /\ bestChainLock \in Lock /\ bestChainLockBlockIndex \in known \cup {None}
    /\ seenChainLocks \subseteq [block : Blocks, ok : BOOLEAN]
    /\ lastSigned \in Lock
    /\ thread \in [Threads -> ThreadState]

\* The quorums do not lock two blocks of which neither builds on the other (external).
SignedOnOneChain == \A x, y \in Signed : x \in Anc[y] \/ y \in Anc[x]

\* While a lock is enforced and its block is active, no step of any thread leaves that block,
\* whatever work arrives on a fork (a call of ActivateBestChain is one step): ConnectBlock
\* refuses every fork below the lock, and the scheduler, which may still be enforcing an
\* earlier lock, disconnects only what conflicts.
LockedBlockStays ==
    [][(/\ isEnforced /\ isEnforced'
        /\ bestChainLockBlockIndex \in Anc[tip] /\ bestChainLockBlockIndex' = bestChainLockBlockIndex)
       => bestChainLockBlockIndex \in Anc[tip']]_vars

\* No block of the active chain carries a mark: MarkConflictingBlock disconnects before it
\* marks, a refused block is not connected, and a path through a mark is never activated.
NeverMarkedActive == Anc[tip] \cap (failed \cup conflict) = {}

\* Once a lock is enforced and all blocks up to it have arrived, the node ends up on the
\* locked chain, or the lock is replaced or switched off.
LockEnforced ==
    \A b \in Signed :
        (isEnforced /\ bestChainLockBlockIndex = b /\ Anc[b] \subseteq data) ~>
            (b \in Anc[tip] \/ ~isEnforced \/ bestChainLockBlockIndex # b)

\* "leaving us with some stale values which we should not try to enforce anymore"
\* (chainlocks.cpp:224): when enforcement is switched on, whatever lock is there is dropped.
ReactivationForgets ==
    [][(~isEnforced /\ isEnforced' /\ bestChainLockBlockIndex # None) =>
          \E t \in Threads : thread'[t].pc = "reset"]_vars

\* "no need to process/relay older CLSIGs" (chainlocks.cpp:119): a CLSIG does not replace a newer one.
NeverOlder == [][bestChainLock' # None => LockHeight(bestChainLock) <= LockHeight(bestChainLock')]_vars

\* "when the block or the header later comes in, we will enforce the correct chain"
\* (chainlocks.cpp:164): as soon as the header is there, the best lock has its index.
LateHeaderIndexed == bestChainLock \in known => bestChainLockBlockIndex = bestChainLock
=============================================================================
