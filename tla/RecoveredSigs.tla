---------------------------- MODULE RecoveredSigs ----------------------------
(***************************************************************************)
(* CSigningManager and CRecoveredSigsDb (src/llmq/signing.cpp) on one      *)
(* masternode: the votes it cast, the recovered signatures it knows, the   *)
(* leveldb keys that index them and the LRU caches in front of the keys.   *)
(*                                                                         *)
(* Threads: the worker of CSigSharesManager (pending signatures, cleanup), *)
(* callers of AsyncSignIfMember (InstantSend, ChainLocks, RPC), readers    *)
(* (message handler and share manager: any Has... lookup, incoming         *)
(* QSIGREC) and whoever truncates.  "cs" is the lock of CSigningManager;   *)
(* the lock of CRecoveredSigsDb covers single steps here.                  *)
(*                                                                         *)
(* A recovered signature is identified by its id, message hash and quorum: *)
(* threshold BLS signatures are unique, so hash and sign hash are both     *)
(* the record itself.                                                      *)
(***************************************************************************)
EXTENDS Integers, Sequences

CONSTANTS
    Ids, MsgHashes, Quorums,
    RecSigs,       \* signatures peers may send: [id, msg, quorum] records
    Forged,        \* those that do not verify
    Peers,
    Callers,       \* threads calling AsyncSignIfMember
    Readers,       \* threads doing lookups and receiving QSIGREC
    MaxAge,        \* -maxrecsigsage
    MaxTime,       \* bound on the clock
    MaxSigned,     \* bound on the signing requests
    None, Absent   \* no value; no cache entry

RecSig == [id : Ids, msg : MsgHashes, quorum : Quorums]
Times == 0..MaxTime

ASSUME ConstantsAssumption ==
    /\ RecSigs \subseteq RecSig /\ Forged \subseteq RecSigs
    /\ MaxAge \in Nat /\ MaxTime \in Nat /\ MaxSigned \in Nat
    /\ None \notin RecSig \cup MsgHashes \cup Callers \cup {"worker"}
    /\ Absent \notin BOOLEAN
    /\ "worker" \notin Callers

VARIABLES
    now,
    rs_r,        \* key rs_r(id): the recovered signature of an id
    rs_rm,       \* keys rs_r(id, msgHash)
    rs_h,        \* keys rs_h(hash)
    rs_s,        \* keys rs_s(signHash)
    rs_t,        \* keys rs_t(time, id)
    rs_v,        \* key rs_v(id): the message hash voted for
    rs_vt,       \* keys rs_vt(time, id)
    cache,       \* hasSigForIdCache, hasSigForSessionCache, hasSigForHashCache
    pendingRecoveredSigs,               \* unverified, by peer
    pendingReconstructedRecoveredSigs,  \* verified as part of an ISLOCK or CLSIG
    cs,          \* holder of CSigningManager::cs
    worker,      \* [pc, work, sig, has, del, batch]
    caller,      \* progress of every AsyncSignIfMember call
    reader,      \* progress of every lookup
    signed       \* history: signing requests handed to the share manager, in order

db == <<rs_r, rs_rm, rs_h, rs_s, rs_t>>
votes == <<rs_v, rs_vt>>
pending == <<pendingRecoveredSigs, pendingReconstructedRecoveredSigs>>
vars == <<now, db, votes, cache, pending, cs, worker, caller, reader, signed>>

-----------------------------------------------------------------------------
(* Lookups: HasRecoveredSigForId, HasRecoveredSigForSession, HasRecoveredSigForHash *)

IdKey(id) == <<"id", id>>
SessionKey(r) == <<"session", r>>
HashKey(r) == <<"hash", r>>
Keys == {IdKey(id) : id \in Ids} \cup {SessionKey(r) : r \in RecSigs} \cup {HashKey(r) : r \in RecSigs}

Exists(k) ==
    \/ k[1] = "id" /\ rs_r[k[2]] # None
    \/ k[1] = "session" /\ k[2] \in rs_s
    \/ k[1] = "hash" /\ k[2] \in rs_h

\* What a lookup answers if nothing happens between its two steps.
Has(k) == IF cache[k] = Absent THEN Exists(k) ELSE cache[k]

Insert(k, b) == [cache EXCEPT ![k] = b]
Erase(ks) == [k \in Keys |-> IF k \in ks THEN Absent ELSE cache[k]]

NoReader == [pc |-> "idle"]
ReaderState == {NoReader} \cup [pc : {"insert"}, key : Keys, ret : BOOLEAN, peer : {None}]
                          \cup [pc : {"insert"}, key : {HashKey(r) : r \in RecSigs}, ret : BOOLEAN, peer : Peers]
                          \cup [pc : {"push"}, sig : RecSigs, peer : Peers]

NoCaller == [pc |-> "idle"]
CallerState == {NoCaller} \cup [pc : {"insert", "vote"}, id : Ids, msg : MsgHashes, quorum : Quorums,
                                hasVoted : BOOLEAN, has : BOOLEAN]

\* "top": the worker is at the head of the loop of WorkThreadMain.
WorkerState == [pc : {"idle", "id", "insert", "get", "cache", "erase", "batch", "votes"}, top : BOOLEAN,
                work : SUBSET RecSigs, sig : RecSigs \cup {None}, has : BOOLEAN,
                del : SUBSET (Times \X Ids), batch : SUBSET RecSigs]
NoWorker == [pc |-> "idle", top |-> TRUE, work |-> {}, sig |-> None, has |-> FALSE, del |-> {}, batch |-> {}]

\* Mutant: the id key is left behind.
MutantKeepIdKey(rs) ==
    /\ rs_rm' = rs_rm \ {<<r.id, r.msg>> : r \in rs}
    /\ rs_s' = rs_s \ rs
    /\ UNCHANGED rs_r

\* The keys RemoveRecoveredSig always puts in the batch; rs_h only if deleteHashKey.
EraseKeys(rs) ==
    /\ rs_r' = [id \in Ids |-> IF \E r \in rs : r.id = id THEN None ELSE rs_r[id]]
    /\ rs_rm' = rs_rm \ {<<r.id, r.msg>> : r \in rs}
    /\ rs_s' = rs_s \ rs

Stored(ids) == {rs_r[id] : id \in {i \in ids : rs_r[i] # None}}

-----------------------------------------------------------------------------
Init ==
    /\ now = 0
    /\ rs_r = [id \in Ids |-> None] /\ rs_rm = {} /\ rs_h = {} /\ rs_s = {} /\ rs_t = {}
    /\ rs_v = [id \in Ids |-> None] /\ rs_vt = {}
    /\ cache = [k \in Keys |-> Absent]
    /\ pendingRecoveredSigs = [p \in Peers |-> {}]
    /\ pendingReconstructedRecoveredSigs = {}
    /\ cs = None
    /\ worker = NoWorker
    /\ caller = [c \in Callers |-> NoCaller]
    /\ reader = [t \in Readers |-> NoReader]
    /\ signed = <<>>

Tick ==
    /\ now < MaxTime
    /\ now' = now + 1
    /\ UNCHANGED <<db, votes, cache, pending, cs, worker, caller, reader, signed>>

(* Readers *)

\* Cache miss, then db->Exists without a lock.  "peer" is the sender when the lookup
\* is the one at the top of ProcessMessageRecoveredSig, None for every other lookup.
HasMiss(t, k, peer) ==
    /\ reader[t].pc = "idle" /\ cache[k] = Absent
    /\ peer # None => k[1] = "hash"
    /\ reader' = [reader EXCEPT ![t] = [pc |-> "insert", key |-> k, ret |-> Exists(k), peer |-> peer]]
    /\ UNCHANGED <<now, db, votes, cache, pending, cs, worker, caller, signed>>

HasInsert(t) ==
    /\ reader[t].pc = "insert"
    /\ cache' = Insert(reader[t].key, reader[t].ret)
    /\ reader' = [reader EXCEPT ![t] = IF reader[t].peer # None /\ ~reader[t].ret
                                       THEN [pc |-> "push", sig |-> reader[t].key[2], peer |-> reader[t].peer]
                                       ELSE NoReader]
    /\ UNCHANGED <<now, db, votes, pending, cs, worker, caller, signed>>

\* ProcessMessageRecoveredSig when the cache says the signature is not known.
ReceiveCachedUnknown(t, p, r) ==
    /\ reader[t].pc = "idle" /\ cache[HashKey(r)] = FALSE
    /\ reader' = [reader EXCEPT ![t] = [pc |-> "push", sig |-> r, peer |-> p]]
    /\ UNCHANGED <<now, db, votes, cache, pending, cs, worker, caller, signed>>

\* The end of ProcessMessageRecoveredSig, under cs.
PushPending(t) ==
    /\ reader[t].pc = "push" /\ cs = None
    /\ LET r == reader[t].sig
       IN  pendingRecoveredSigs' = IF r \in pendingReconstructedRecoveredSigs
                                   THEN pendingRecoveredSigs
                                   ELSE [pendingRecoveredSigs EXCEPT ![reader[t].peer] = @ \cup {r}]
    /\ reader' = [reader EXCEPT ![t] = NoReader]
    /\ UNCHANGED <<now, db, votes, cache, pendingReconstructedRecoveredSigs, cs, worker, caller, signed>>

\* The LRU cache drops an entry when it is full.
Evict(k) ==
    /\ cache[k] # Absent
    /\ cache' = Erase({k})
    /\ UNCHANGED <<now, db, votes, pending, cs, worker, caller, reader, signed>>

\* An ISLOCK or CLSIG was verified and its signature handed over.
PushReconstructedRecoveredSig(r) ==
    /\ cs = None
    /\ r \notin Forged
    /\ pendingReconstructedRecoveredSigs' = pendingReconstructedRecoveredSigs \cup {r}
    /\ UNCHANGED <<now, db, votes, cache, pendingRecoveredSigs, cs, worker, caller, reader, signed>>

(* The worker: pending signatures *)

\* The first thing in every round; the worker waits here for cs.
ProcessPendingReconstructedRecoveredSigs ==
    /\ worker.pc = "idle" /\ worker.top /\ cs = None
    /\ worker' = [worker EXCEPT !.top = FALSE, !.work = pendingReconstructedRecoveredSigs]
    /\ pendingReconstructedRecoveredSigs' = {}
    /\ UNCHANGED <<now, db, votes, cache, pendingRecoveredSigs, cs, caller, reader, signed>>

\* Mutant: the result of the batch verification is ignored.
MutantSkipVerification(taken, active) ==
    /\ worker.pc = "idle" /\ ~worker.top /\ worker.work = {} /\ cs = None
    /\ \E p \in Peers : taken[p] # {}
    /\ \A p \in Peers : taken[p] \subseteq pendingRecoveredSigs[p]
    /\ pendingRecoveredSigs' = [p \in Peers |-> pendingRecoveredSigs[p] \ taken[p]]
    /\ worker' = [worker EXCEPT !.work = UNION {taken[p] : p \in Peers}]
    /\ UNCHANGED <<now, db, votes, cache, pendingReconstructedRecoveredSigs, cs, caller, reader, signed>>

\* CollectPendingRecoveredSigsToVerify and the batch verification.  The round-robin
\* over the peers takes some prefix of every list; signatures already known or of a
\* quorum that is no longer active are dropped, and one bad signature discards
\* everything its peer contributed to the batch.
ProcessPendingRecoveredSigs(taken, active) ==
    /\ worker.pc = "idle" /\ ~worker.top /\ worker.work = {} /\ cs = None
    /\ \E p \in Peers : taken[p] # {}
    /\ \A p \in Peers : taken[p] \subseteq pendingRecoveredSigs[p]
    /\ pendingRecoveredSigs' = [p \in Peers |-> pendingRecoveredSigs[p] \ taken[p]]
    /\ LET Batch(p) == {r \in taken[p] : ~Has(HashKey(r)) /\ r.quorum \in active}
           badSources == {p \in Peers : Batch(p) \cap Forged # {}}
       IN  worker' = [worker EXCEPT !.work = UNION {Batch(p) : p \in Peers \ badSources}]
    /\ cache' = [k \in Keys |-> IF \E p \in Peers, r \in RecSigs : r \in taken[p] /\ k = HashKey(r)
                               THEN Has(k) ELSE cache[k]]
    /\ UNCHANGED <<now, db, votes, pendingReconstructedRecoveredSigs, cs, caller, reader, signed>>

\* The worker recovered a signature from verified shares.  (Its lookups by id are like those of
\* the readers, and ProcessRecoveredSig repeats them.)
TryRecoverSig(r) ==
    /\ worker.pc = "idle" /\ ~worker.top /\ worker.work = {}
    /\ r \notin Forged
    /\ worker' = [worker EXCEPT !.work = {r}]
    /\ UNCHANGED <<now, db, votes, cache, pending, cs, caller, reader, signed>>

(* The worker: ProcessRecoveredSig *)

\* First lookup, by hash, outside cs.  Only the worker itself writes or erases rs_h,
\* so its lookup is one step.
ProcessRecoveredSig(r) ==
    /\ worker.pc = "idle" /\ r \in worker.work
    /\ cache' = Insert(HashKey(r), Has(HashKey(r)))
    /\ worker' = IF Has(HashKey(r))
                 THEN [worker EXCEPT !.work = @ \ {r}]
                 ELSE [worker EXCEPT !.work = @ \ {r}, !.pc = "id", !.sig = r]
    /\ UNCHANGED <<now, db, votes, pending, cs, caller, reader, signed>>

\* LOCK(cs) and the lookup by id, whose insert may come after a truncation.
ProcessLookupId ==
    /\ worker.pc = "id" /\ cs = None
    /\ cs' = "worker"
    /\ LET k == IdKey(worker.sig.id)
       IN  worker' = [worker EXCEPT !.has = Has(k), !.pc = IF cache[k] = Absent THEN "insert" ELSE "get"]
    /\ UNCHANGED <<now, db, votes, cache, pending, caller, reader, signed>>

ProcessInsertId ==
    /\ worker.pc = "insert"
    /\ cache' = Insert(IdKey(worker.sig.id), worker.has)
    /\ worker' = [worker EXCEPT !.pc = "get"]
    /\ UNCHANGED <<now, db, votes, pending, cs, caller, reader, signed>>

\* Mutant: a positive lookup is believed without reading the signature.
MutantTrustLookup ==
    /\ worker.pc = "get"
    /\ worker.has
    /\ cs' = None
    /\ worker' = [worker EXCEPT !.pc = "idle", !.sig = None, !.has = FALSE]
    /\ UNCHANGED <<now, db, votes, cache, pending, caller, reader, signed>>

\* GetRecoveredSigById finds a signature, the same or a conflicting one: bail out.
ProcessKnown ==
    /\ worker.pc = "get"
    /\ worker.has /\ rs_r[worker.sig.id] # None
    /\ cs' = None
    /\ worker' = [worker EXCEPT !.pc = "idle", !.sig = None, !.has = FALSE]
    /\ UNCHANGED <<now, db, votes, cache, pending, caller, reader, signed>>

\* WriteRecoveredSig: the batch, then the caches under the other lock.
WriteRecoveredSig ==
    /\ worker.pc = "get"
    /\ ~(worker.has /\ rs_r[worker.sig.id] # None)
    /\ LET r == worker.sig
       IN  /\ rs_r' = [rs_r EXCEPT ![r.id] = r]
           /\ rs_rm' = rs_rm \cup {<<r.id, r.msg>>}
           /\ rs_h' = rs_h \cup {r}
           /\ rs_s' = rs_s \cup {r}
           /\ rs_t' = rs_t \cup {<<now, r.id>>}
    /\ worker' = [worker EXCEPT !.pc = "cache"]
    /\ UNCHANGED <<now, votes, cache, pending, cs, caller, reader, signed>>

WriteRecoveredSigCaches ==
    /\ worker.pc = "cache"
    /\ LET r == worker.sig
       IN  /\ cache' = [cache EXCEPT ![IdKey(r.id)] = TRUE, ![SessionKey(r)] = TRUE, ![HashKey(r)] = TRUE]
           /\ pendingReconstructedRecoveredSigs' = pendingReconstructedRecoveredSigs \ {r}
    /\ cs' = None
    /\ worker' = [worker EXCEPT !.pc = "idle", !.sig = None, !.has = FALSE]
    /\ UNCHANGED <<now, db, votes, pendingRecoveredSigs, caller, reader, signed>>

(* The worker: Cleanup, which is CleanupOldRecoveredSigs and then CleanupOldVotes *)

Expired(T) == {e \in T : e[1] < now - MaxAge}

\* The last cleanup was less than five seconds ago: the round ends.
CleanupTooEarly ==
    /\ worker.pc = "idle" /\ ~worker.top /\ worker.work = {}
    /\ worker' = [worker EXCEPT !.top = TRUE]
    /\ UNCHANGED <<now, db, votes, cache, pending, cs, caller, reader, signed>>

CleanupOldRecoveredSigs ==
    /\ worker.pc = "idle" /\ ~worker.top /\ worker.work = {}
    /\ worker' = [worker EXCEPT !.pc = IF Expired(rs_t) = {} THEN "votes" ELSE "erase",
                                !.top = TRUE, !.del = Expired(rs_t)]
    /\ UNCHANGED <<now, db, votes, cache, pending, cs, caller, reader, signed>>

\* RemoveRecoveredSig for every expired id: erases the cache entries now, the keys later.
CleanupErase ==
    /\ worker.pc = "erase"
    /\ LET rs == Stored({e[2] : e \in worker.del})
       IN  /\ worker' = [worker EXCEPT !.pc = "batch", !.batch = rs]
           /\ cache' = Erase(UNION {{IdKey(r.id), SessionKey(r), HashKey(r)} : r \in rs})
    /\ UNCHANGED <<now, db, votes, pending, cs, caller, reader, signed>>

CleanupWriteBatch ==
    /\ worker.pc = "batch"
    /\ EraseKeys(worker.batch)
    /\ rs_h' = rs_h \ worker.batch
    /\ rs_t' = rs_t \ worker.del
    /\ worker' = [worker EXCEPT !.pc = "votes", !.del = {}, !.batch = {}]
    /\ UNCHANGED <<now, votes, cache, pending, cs, caller, reader, signed>>

\* Mutant: only the time key of an expired vote is erased.
MutantKeepVote ==
    /\ worker.pc = "votes"
    /\ worker' = [worker EXCEPT !.pc = "idle"]
    /\ rs_vt' = rs_vt \ Expired(rs_vt)
    /\ UNCHANGED <<now, db, rs_v, cache, pending, cs, caller, reader, signed>>

\* No vote of an id in the batch can be renewed before the batch is written: one step.
CleanupOldVotes ==
    /\ worker.pc = "votes"
    /\ worker' = [worker EXCEPT !.pc = "idle"]
    /\ rs_vt' = rs_vt \ Expired(rs_vt)
    /\ rs_v' = [id \in Ids |-> IF \E e \in Expired(rs_vt) : e[2] = id THEN None ELSE rs_v[id]]
    /\ UNCHANGED <<now, db, cache, pending, cs, caller, reader, signed>>

(* TruncateRecoveredSig, by InstantSend when a lock is confirmed *)

TruncateRecoveredSig(id) ==
    /\ rs_r[id] # None
    /\ LET r == rs_r[id]
       IN  /\ EraseKeys({r})
           /\ cache' = Erase({IdKey(id), SessionKey(r)})
    /\ UNCHANGED <<now, rs_h, rs_t, votes, pending, cs, worker, caller, reader, signed>>

(* AsyncSignIfMember of a masternode that is a valid member of the quorum *)

\* Mutant: allowReSign also admits another message hash.
MutantReSignAny(c, id, msg, q, allowReSign) ==
    /\ caller[c].pc = "idle" /\ cs = None /\ Len(signed) < MaxSigned
    /\ rs_v[id] = None \/ allowReSign
    /\ cs' = c
    /\ caller' = [caller EXCEPT ![c] =
                     [pc |-> "vote", id |-> id, msg |-> msg, quorum |-> q,
                      hasVoted |-> rs_v[id] # None, has |-> Has(IdKey(id))]]
    /\ UNCHANGED <<now, db, votes, cache, pending, worker, reader, signed>>

\* LOCK(cs), the early returns on an earlier vote, and the first half of the lookup by id.
AsyncSignIfMember(c, id, msg, q, allowReSign) ==
    /\ caller[c].pc = "idle" /\ cs = None /\ Len(signed) < MaxSigned
    /\ rs_v[id] = None \/ (rs_v[id] = msg /\ allowReSign)
    /\ cs' = c
    /\ caller' = [caller EXCEPT ![c] =
                     [pc |-> IF cache[IdKey(id)] = Absent THEN "insert" ELSE "vote",
                      id |-> id, msg |-> msg, quorum |-> q,
                      hasVoted |-> rs_v[id] # None, has |-> Has(IdKey(id))]]
    /\ UNCHANGED <<now, db, votes, cache, pending, worker, reader, signed>>

AsyncSignInsert(c) ==
    /\ caller[c].pc = "insert"
    /\ cache' = Insert(IdKey(caller[c].id), caller[c].has)
    /\ caller' = [caller EXCEPT ![c].pc = "vote"]
    /\ UNCHANGED <<now, db, votes, pending, cs, worker, reader, signed>>

\* A recovered signature exists: nothing to sign.
AsyncSignSkip(c) ==
    /\ caller[c].pc = "vote" /\ caller[c].has
    /\ cs' = None
    /\ caller' = [caller EXCEPT ![c] = NoCaller]
    /\ UNCHANGED <<now, db, votes, cache, pending, worker, reader, signed>>

\* WriteVoteForId unless we had voted, then the share manager gets the request.
AsyncSignVote(c) ==
    /\ caller[c].pc = "vote" /\ ~caller[c].has
    /\ LET x == caller[c]
       IN  /\ rs_v' = IF x.hasVoted THEN rs_v ELSE [rs_v EXCEPT ![x.id] = x.msg]
           /\ rs_vt' = IF x.hasVoted THEN rs_vt ELSE rs_vt \cup {<<now, x.id>>}
           /\ signed' = Append(signed, [id |-> x.id, msg |-> x.msg, time |-> now])
    /\ cs' = None
    /\ caller' = [caller EXCEPT ![c] = NoCaller]
    /\ UNCHANGED <<now, db, cache, pending, worker, reader>>

\* The process dies; leveldb keeps what was written.
Crash ==
    /\ cache' = [k \in Keys |-> Absent]
    /\ pendingRecoveredSigs' = [p \in Peers |-> {}]
    /\ pendingReconstructedRecoveredSigs' = {}
    /\ cs' = None
    /\ worker' = NoWorker
    /\ caller' = [c \in Callers |-> NoCaller]
    /\ reader' = [t \in Readers |-> NoReader]
    /\ UNCHANGED <<now, db, votes, signed>>

WorkerStep ==
    \/ ProcessPendingReconstructedRecoveredSigs
    \/ \E taken \in [Peers -> SUBSET RecSigs], active \in SUBSET Quorums :
          ProcessPendingRecoveredSigs(taken, active)
    \/ \E r \in RecSigs : ProcessRecoveredSig(r)
    \/ ProcessLookupId
    \/ ProcessInsertId
    \/ ProcessKnown
    \/ WriteRecoveredSig
    \/ WriteRecoveredSigCaches
    \/ CleanupTooEarly
    \/ CleanupOldRecoveredSigs
    \/ CleanupErase
    \/ CleanupWriteBatch
    \/ CleanupOldVotes

CallerStep(c) ==
    \/ \E id \in Ids, msg \in MsgHashes, q \in Quorums, re \in BOOLEAN :
          AsyncSignIfMember(c, id, msg, q, re)
    \/ AsyncSignInsert(c)
    \/ AsyncSignSkip(c)
    \/ AsyncSignVote(c)

ReaderStep(t) ==
    \/ \E k \in Keys, p \in Peers \cup {None} : HasMiss(t, k, p)
    \/ HasInsert(t)
    \/ \E p \in Peers, r \in RecSigs : ReceiveCachedUnknown(t, p, r)
    \/ PushPending(t)

Step ==
    \/ Tick
    \/ WorkerStep
    \/ \E c \in Callers : CallerStep(c)
    \/ \E t \in Readers : ReaderStep(t)
    \/ \E k \in Keys : Evict(k)
    \/ \E r \in RecSigs : PushReconstructedRecoveredSig(r)
    \/ \E r \in RecSigs : TryRecoverSig(r)
    \/ \E id \in Ids : TruncateRecoveredSig(id)

Next == Step \/ Crash

Spec == Init /\ [][Next]_vars

(* The worker loops for ever and each of its rounds ends; cs is released by     *)
(* whoever holds it and a thread that waits for it gets it in the end.  Said of *)
(* one run of the process: Step has no Crash.                                   *)
Fairness ==
    /\ WF_vars(WorkerStep)
    /\ SF_vars(ProcessPendingReconstructedRecoveredSigs)
    /\ SF_vars(ProcessLookupId)
    /\ SF_vars(CleanupTooEarly \/ CleanupOldRecoveredSigs)
    /\ \A c \in Callers : WF_vars(AsyncSignInsert(c) \/ AsyncSignSkip(c) \/ AsyncSignVote(c))

LiveSpec == Init /\ [][Step]_vars /\ Fairness

-----------------------------------------------------------------------------
(* Properties *)

\* Type invariant of the keys, caches and threads of the signing manager.
TypeOK ==
    /\ now \in Times
    /\ rs_r \in [Ids -> RecSigs \cup {None}]
    /\ rs_rm \subseteq Ids \X MsgHashes
    /\ rs_h \subseteq RecSigs /\ rs_s \subseteq RecSigs
    /\ rs_t \subseteq Times \X Ids /\ rs_vt \subseteq Times \X Ids
    /\ rs_v \in [Ids -> MsgHashes \cup {None}]
    /\ cache \in [Keys -> BOOLEAN \cup {Absent}]
    /\ pendingRecoveredSigs \in [Peers -> SUBSET RecSigs]
    /\ pendingReconstructedRecoveredSigs \subseteq RecSigs
    /\ cs \in Callers \cup {"worker", None}
    /\ worker \in WorkerState
    /\ caller \in [Callers -> CallerState]
    /\ reader \in [Readers -> ReaderState]
    /\ signed \in Seq([id : Ids, msg : MsgHashes, time : Times])

\* The node asks for shares on another message hash of an id only when its first vote
\* for the earlier one is more than -maxrecsigsage old: AsyncSignIfMember tests and
\* writes rs_v under cs, but lookups, cleanup and crashes interleave with it.
NoDoubleVote ==
    \A i, j \in DOMAIN signed :
        (i < j /\ signed[i].id = signed[j].id /\ signed[i].msg # signed[j].msg) =>
            \E k \in 1..i : /\ signed[k].id = signed[i].id /\ signed[k].msg = signed[i].msg
                           /\ signed[j].time - signed[k].time > MaxAge

\* Every stored signature can be found again by each key, and by the time key that
\* leads the cleanup to it: WriteRecoveredSig and RemoveRecoveredSig treat them alike.
IndexConsistent ==
    \A id \in Ids :
        rs_r[id] # None =>
            /\ rs_r[id].id = id
            /\ <<id, rs_r[id].msg>> \in rs_rm
            /\ rs_r[id] \in rs_h
            /\ rs_r[id] \in rs_s
            /\ \E t \in Times : <<t, id>> \in rs_t

\* Nothing enters the database unless its signature was verified, by the batch
\* verification, by the ISLOCK/CLSIG it came with or share by share.
OnlyVerified == rs_h \cap Forged = {}

\* A vote and its time key come and go together, so that no vote is kept for ever.
VoteIndexed ==
    \A id \in Ids : rs_v[id] # None <=> \E t \in Times : <<t, id>> \in rs_vt

\* No cache entry and no lookup under way says that the signature is already stored.
Unknown(r) ==
    /\ r \notin rs_h /\ cache[HashKey(r)] # TRUE
    /\ \A t \in Readers : reader[t].pc = "insert" => ~(reader[t].key = HashKey(r) /\ reader[t].ret)

\* A signature that came with a verified ISLOCK or CLSIG and is not taken for a known one ends
\* up in the database, unless another one for the id is there: neither a stale entry of the
\* id cache nor a concurrent truncation makes the worker lose it.  (A lookup by hash between
\* CleanupErase and CleanupWriteBatch leaves a stale entry, and then the worker does drop it.)
ReconstructedStored ==
    \A r \in RecSigs :
        (r \in pendingReconstructedRecoveredSigs /\ Unknown(r)) ~> (r \in rs_h \/ rs_r[r.id] # None)

\* "Cleanup will later remove the remains" (signing.h:196): whatever rs_h key is left
\* can still be reached from a time key.
RemainsCollectable ==
    \A r \in rs_h : \E t \in Times : <<t, r.id>> \in rs_t

\* "It can only happen when cleanup caused this specific recSig to vanish between the
\* HasRecoveredSigForId and GetRecoveredSigById call" (signing.cpp:807): while nobody is
\* removing anything, a positive lookup by id means that there is a signature.
PositiveLookupTrue ==
    (worker.pc \notin {"erase", "batch"}) => \A id \in Ids : cache[IdKey(id)] = TRUE => rs_r[id] # None

-----------------------------------------------------------------------------
(* The inductive invariants behind the safety properties *)

\* cs is held by the thread that is inside it.
LockInv ==
    /\ \A c \in Callers : caller[c].pc # "idle" => cs = c
    /\ worker.pc \in {"insert", "get", "cache"} => cs = "worker"
    /\ worker.pc \in {"id", "insert", "get", "cache"} => worker.sig # None

SameVote(x, y) == x.id = y.id /\ x.msg = y.msg

\* Every request goes back to a vote that has expired or is still in the database.
Covered(i) ==
    \E k \in 1..i :
        /\ SameVote(signed[k], signed[i])
        /\ \/ now - signed[k].time > MaxAge
           \/ /\ rs_v[signed[i].id] = signed[i].msg
              /\ \A t \in Times : <<t, signed[i].id>> \in rs_vt => signed[k].time <= t

\* A call that is inside cs still sees the vote it read, unless cleanup erased it.
CallerInv(c) ==
    caller[c].pc # "idle" =>
        IF caller[c].hasVoted
        THEN /\ rs_v[caller[c].id] \in {caller[c].msg, None}
             /\ \E k \in DOMAIN signed : SameVote(signed[k], caller[c])
        ELSE rs_v[caller[c].id] = None

VoteInv ==
    /\ NoDoubleVote
    /\ \A i \in DOMAIN signed : signed[i].time <= now /\ Covered(i)
    /\ VoteIndexed
    /\ \A id \in Ids, t, u \in Times : (<<t, id>> \in rs_vt /\ <<u, id>> \in rs_vt) => t = u
    /\ \A id \in Ids : rs_v[id] # None =>
          \E k \in DOMAIN signed : signed[k].id = id /\ signed[k].msg = rs_v[id]
    /\ \A c \in Callers : CallerInv(c)

\* What the worker carries through its rounds and through a cleanup.
DbInv ==
    /\ IndexConsistent
    /\ OnlyVerified
    /\ (worker.work \cup {worker.sig} \cup pendingReconstructedRecoveredSigs) \cap Forged = {}
    /\ worker.pc = "batch" =>
          \A e \in worker.del : rs_r[e[2]] # None => rs_r[e[2]] \in worker.batch

RecInv == TypeOK /\ LockInv /\ VoteInv /\ DbInv
=============================================================================
