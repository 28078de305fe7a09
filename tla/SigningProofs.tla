-------------------------- MODULE SigningProofs --------------------------
(*****************************************************************************)
(* Proofs about CSigningManager and CRecoveredSigsDb for any ids, message    *)
(* hashes, quorums, peers, threads and clock: a masternode does not vote     *)
(* twice, every key of the database is in order, nothing unverified is       *)
(* stored (the invariants are at the end of RecoveredSigs.tla).  And what the *)
(* votes are for: two transactions with a common input never both get an     *)
(* ISLOCK, for any masternodes, quorums, transactions and tips with VotesMeet. *)
(*****************************************************************************)
EXTENDS RecoveredSigs, InstantSendVotes, FiniteSetTheorems, TLAPS

-----------------------------------------------------------------------------
(* The signing manager. *)

\* Lookups answer with a Boolean.
LEMMA LookupType ==
    ASSUME TypeOK, NEW k \in Keys
    PROVE  Exists(k) \in BOOLEAN /\ Has(k) \in BOOLEAN
BY Zenon DEF Exists, Has, TypeOK

\* The three kinds of keys.
LEMMA KeyTypes ==
    /\ \A id \in Ids : IdKey(id) \in Keys
    /\ \A r \in RecSigs : SessionKey(r) \in Keys /\ HashKey(r) \in Keys
    /\ \A k \in Keys : k[1] = "hash" => k \in {HashKey(r) : r \in RecSigs}
    /\ \A r \in RecSigs : HashKey(r)[2] = r
BY DEF Keys, IdKey, SessionKey, HashKey

\* Cache updates keep the type of the cache.
LEMMA CacheType ==
    ASSUME TypeOK
    PROVE  /\ \A k \in Keys, b \in BOOLEAN : Insert(k, b) \in [Keys -> BOOLEAN \cup {Absent}]
           /\ \A ks : Erase(ks) \in [Keys -> BOOLEAN \cup {Absent}]
BY Zenon DEF TypeOK, Insert, Erase

\* The id of a recovered signature is one of Ids.
LEMMA SigFields == \A r \in RecSigs : r.id \in Ids /\ r.msg \in MsgHashes
BY ConstantsAssumption, Zenon DEF RecSig

\* Erasing keys keeps the types of the tables.
LEMMA EraseType ==
    ASSUME TypeOK, NEW rs, EraseKeys(rs)
    PROVE  /\ rs_r' \in [Ids -> RecSigs \cup {None}]
           /\ rs_rm' \subseteq Ids \X MsgHashes
           /\ rs_s' \subseteq RecSigs
BY Zenon DEF TypeOK, EraseKeys

\* Only fields of the worker record change.
LEMMA WorkerType ==
    ASSUME TypeOK
    PROVE  /\ worker.work \subseteq RecSigs /\ worker.sig \in RecSigs \cup {None}
           /\ worker.has \in BOOLEAN /\ worker.del \subseteq Times \X Ids
           /\ worker.batch \subseteq RecSigs /\ NoWorker \in WorkerState
BY Zenon DEF TypeOK, WorkerState, NoWorker

\* The steps of the worker keep the types.
LEMMA WorkerStepType == ASSUME TypeOK, LockInv, WorkerStep PROVE TypeOK'
<1> USE DEF db, votes, pending
<1>1. CASE ProcessPendingReconstructedRecoveredSigs
  <2>1. worker' \in WorkerState
    BY <1>1, Zenon DEF ProcessPendingReconstructedRecoveredSigs, TypeOK, WorkerState
  <2>2. QED
    BY <1>1, <2>1, Zenon DEF ProcessPendingReconstructedRecoveredSigs, TypeOK
<1>2. ASSUME NEW taken \in [Peers -> SUBSET RecSigs], NEW active \in SUBSET Quorums,
             ProcessPendingRecoveredSigs(taken, active)
      PROVE  TypeOK'
  <2> DEFINE Batch(p) == {r \in taken[p] : ~Has(HashKey(r)) /\ r.quorum \in active}
             bad == {p \in Peers : Batch(p) \cap Forged # {}}
             W == UNION {Batch(p) : p \in Peers \ bad}
  <2>1. W \subseteq RecSigs
    BY Zenon
  <2>2. worker' = [worker EXCEPT !.work = W]
    BY <1>2, Zenon DEF ProcessPendingRecoveredSigs
  <2>3. worker' \in WorkerState
    BY <2>1, <2>2, Zenon DEF TypeOK, WorkerState
  <2>4. cache' \in [Keys -> BOOLEAN \cup {Absent}]
    BY <1>2, LookupType, Zenon DEF ProcessPendingRecoveredSigs, TypeOK
  <2>5. pendingRecoveredSigs' \in [Peers -> SUBSET RecSigs]
    BY <1>2, Zenon DEF ProcessPendingRecoveredSigs, TypeOK
  <2>6. QED
    BY <1>2, <2>3, <2>4, <2>5, Zenon DEF ProcessPendingRecoveredSigs, TypeOK
<1>3. ASSUME NEW r \in RecSigs, ProcessRecoveredSig(r) PROVE TypeOK'
  <2>1. worker' \in WorkerState
    BY <1>3, Zenon DEF ProcessRecoveredSig, TypeOK, WorkerState
  <2>2. cache' \in [Keys -> BOOLEAN \cup {Absent}]
    BY <1>3, LookupType, KeyTypes, CacheType, Zenon DEF ProcessRecoveredSig
  <2>3. QED
    BY <1>3, <2>1, <2>2, Zenon DEF ProcessRecoveredSig, TypeOK
<1>4. CASE ProcessLookupId
  <2>1. IdKey(worker.sig.id) \in Keys
    BY <1>4, WorkerType, SigFields, KeyTypes, Zenon DEF ProcessLookupId, LockInv
  <2>2. Has(IdKey(worker.sig.id)) \in BOOLEAN
    BY <2>1, LookupType, Zenon
  <2>3. worker' \in WorkerState
    BY <1>4, <2>2, Zenon DEF ProcessLookupId, TypeOK, WorkerState
  <2>4. QED
    BY <1>4, <2>3, Zenon DEF ProcessLookupId, TypeOK
<1>5. CASE ProcessInsertId
  <2>1. IdKey(worker.sig.id) \in Keys
    BY <1>5, WorkerType, SigFields, KeyTypes, Zenon DEF ProcessInsertId, LockInv
  <2>2. cache' \in [Keys -> BOOLEAN \cup {Absent}]
    BY <1>5, <2>1, WorkerType, CacheType, Zenon DEF ProcessInsertId
  <2>3. worker' \in WorkerState
    BY <1>5, Zenon DEF ProcessInsertId, TypeOK, WorkerState
  <2>4. QED
    BY <1>5, <2>2, <2>3, Zenon DEF ProcessInsertId, TypeOK
<1>6. CASE ProcessKnown
  <2>1. worker' \in WorkerState
    BY <1>6, Zenon DEF ProcessKnown, TypeOK, WorkerState
  <2>2. QED
    BY <1>6, <2>1, Zenon DEF ProcessKnown, TypeOK
<1>7. CASE WriteRecoveredSig
  <2>1. worker.sig \in RecSigs /\ worker.sig.id \in Ids /\ worker.sig.msg \in MsgHashes
    BY <1>7, WorkerType, SigFields, Zenon DEF WriteRecoveredSig, LockInv
  <2>2. worker' \in WorkerState
    BY <1>7, Zenon DEF WriteRecoveredSig, TypeOK, WorkerState
  <2>3. QED
    BY <1>7, <2>1, <2>2 DEF WriteRecoveredSig, TypeOK
<1>8. CASE WriteRecoveredSigCaches
  <2>1. worker' \in WorkerState
    BY <1>8, Zenon DEF WriteRecoveredSigCaches, TypeOK, WorkerState
  <2>2. cache' \in [Keys -> BOOLEAN \cup {Absent}]
    BY <1>8, Zenon DEF WriteRecoveredSigCaches, TypeOK
  <2>3. QED
    BY <1>8, <2>1, <2>2, Zenon DEF WriteRecoveredSigCaches, TypeOK
<1>9. CASE CleanupOldRecoveredSigs
  <2>1. worker' \in WorkerState
    BY <1>9, Zenon DEF CleanupOldRecoveredSigs, TypeOK, WorkerState, Expired
  <2>2. QED
    BY <1>9, <2>1, Zenon DEF CleanupOldRecoveredSigs, TypeOK
<1>10. CASE CleanupErase
  <2> DEFINE rs == Stored({e[2] : e \in worker.del})
  <2>1. rs \subseteq RecSigs
    BY WorkerType DEF Stored, TypeOK
  <2>2. worker' \in WorkerState
    BY <1>10, <2>1, Zenon DEF CleanupErase, TypeOK, WorkerState
  <2>3. cache' \in [Keys -> BOOLEAN \cup {Absent}]
    BY <1>10, CacheType, Zenon DEF CleanupErase
  <2>4. QED
    BY <1>10, <2>2, <2>3, Zenon DEF CleanupErase, TypeOK
<1>11. CASE CleanupWriteBatch
  <2>1. worker' \in WorkerState
    BY <1>11, Zenon DEF CleanupWriteBatch, TypeOK, WorkerState
  <2>2. QED
    BY <1>11, <2>1, EraseType, Zenon DEF CleanupWriteBatch, TypeOK
<1>12. CASE CleanupOldVotes
  <2>1. worker' \in WorkerState
    BY <1>12, Zenon DEF CleanupOldVotes, TypeOK, WorkerState
  <2>2. QED
    BY <1>12, <2>1, Zenon DEF CleanupOldVotes, TypeOK
<1>13. CASE CleanupTooEarly
  <2>1. worker' \in WorkerState
    BY <1>13, Zenon DEF CleanupTooEarly, TypeOK, WorkerState
  <2>2. QED
    BY <1>13, <2>1, Zenon DEF CleanupTooEarly, TypeOK
<1>14. QED
  BY <1>1, <1>2, <1>3, <1>4, <1>5, <1>6, <1>7, <1>8, <1>9, <1>10, <1>11, <1>12, <1>13, Zenon DEF WorkerStep

\* What a call of AsyncSignIfMember carries.
LEMMA CallerFields ==
    ASSUME TypeOK, NEW c \in Callers, caller[c].pc # "idle"
    PROVE  caller[c] \in [pc : {"insert", "vote"}, id : Ids, msg : MsgHashes, quorum : Quorums,
                          hasVoted : BOOLEAN, has : BOOLEAN]
BY DEF TypeOK, CallerState, NoCaller

\* The steps of a caller keep the types.
LEMMA CallerStepType == ASSUME TypeOK, NEW c \in Callers, CallerStep(c) PROVE TypeOK'
<1> USE DEF db, votes, pending
<1>1. ASSUME NEW id \in Ids, NEW msg \in MsgHashes, NEW q \in Quorums, NEW re \in BOOLEAN,
             AsyncSignIfMember(c, id, msg, q, re)
      PROVE  TypeOK'
  <2>1. Has(IdKey(id)) \in BOOLEAN
    BY LookupType, KeyTypes, Zenon
  <2>2. caller' \in [Callers -> CallerState]
    BY <1>1, <2>1, Zenon DEF AsyncSignIfMember, TypeOK, CallerState
  <2>3. QED
    BY <1>1, <2>2, Zenon DEF AsyncSignIfMember, TypeOK
<1>2. CASE AsyncSignInsert(c)
  <2>1. caller' \in [Callers -> CallerState]
    BY <1>2, CallerFields DEF AsyncSignInsert, TypeOK, CallerState
  <2>2. cache' \in [Keys -> BOOLEAN \cup {Absent}]
    BY <1>2, CallerFields, KeyTypes, CacheType, Zenon DEF AsyncSignInsert
  <2>3. QED
    BY <1>2, <2>1, <2>2, Zenon DEF AsyncSignInsert, TypeOK
<1>3. CASE AsyncSignSkip(c)
  BY <1>3, Zenon DEF AsyncSignSkip, TypeOK, CallerState
<1>4. CASE AsyncSignVote(c)
  <2>1. /\ caller[c].id \in Ids /\ caller[c].msg \in MsgHashes
    BY <1>4, CallerFields, Zenon DEF AsyncSignVote
  <2>2. signed' \in Seq([id : Ids, msg : MsgHashes, time : Times])
    BY <1>4, <2>1 DEF AsyncSignVote, TypeOK
  <2>3. rs_v' \in [Ids -> MsgHashes \cup {None}] /\ rs_vt' \subseteq Times \X Ids
    BY <1>4, <2>1 DEF AsyncSignVote, TypeOK
  <2>4. caller' \in [Callers -> CallerState]
    BY <1>4, Zenon DEF AsyncSignVote, TypeOK, CallerState
  <2>5. QED
    BY <1>4, <2>2, <2>3, <2>4, Zenon DEF AsyncSignVote, TypeOK
<1>5. QED
  BY <1>1, <1>2, <1>3, <1>4, Zenon DEF CallerStep

\* What a lookup in progress carries.
LEMMA ReaderFields ==
    ASSUME TypeOK, NEW t \in Readers
    PROVE  /\ reader[t].pc = "insert" =>
                /\ reader[t].key \in Keys /\ reader[t].ret \in BOOLEAN
                /\ reader[t].peer # None => /\ reader[t].key[2] \in RecSigs
                                           /\ reader[t].peer \in Peers
           /\ reader[t].pc = "push" => reader[t].sig \in RecSigs /\ reader[t].peer \in Peers
BY KeyTypes DEF TypeOK, ReaderState, NoReader

\* The steps of a reader keep the types.
LEMMA ReaderStepType == ASSUME TypeOK, NEW t \in Readers, ReaderStep(t) PROVE TypeOK'
<1> USE DEF db, votes, pending
<1>1. ASSUME NEW k \in Keys, NEW p \in Peers \cup {None}, HasMiss(t, k, p) PROVE TypeOK'
  <2>1. Exists(k) \in BOOLEAN
    BY LookupType, Zenon
  <2>2. reader' \in [Readers -> ReaderState]
    BY <1>1, <2>1, KeyTypes, Zenon DEF HasMiss, TypeOK, ReaderState
  <2>3. QED
    BY <1>1, <2>2, Zenon DEF HasMiss, TypeOK
<1>2. CASE HasInsert(t)
  <2>1. reader' \in [Readers -> ReaderState]
    BY <1>2, ReaderFields, Zenon DEF HasInsert, TypeOK, ReaderState
  <2>2. cache' \in [Keys -> BOOLEAN \cup {Absent}]
    BY <1>2, ReaderFields, CacheType, Zenon DEF HasInsert
  <2>3. QED
    BY <1>2, <2>1, <2>2, Zenon DEF HasInsert, TypeOK
<1>3. ASSUME NEW p \in Peers, NEW r \in RecSigs, ReceiveCachedUnknown(t, p, r) PROVE TypeOK'
  BY <1>3, Zenon DEF ReceiveCachedUnknown, TypeOK, ReaderState
<1>4. CASE PushPending(t)
  <2>1. pendingRecoveredSigs' \in [Peers -> SUBSET RecSigs]
    BY <1>4, ReaderFields DEF PushPending, TypeOK
  <2>2. reader' \in [Readers -> ReaderState]
    BY <1>4, Zenon DEF PushPending, TypeOK, ReaderState
  <2>3. QED
    BY <1>4, <2>1, <2>2, Zenon DEF PushPending, TypeOK
<1>5. QED
  BY <1>1, <1>2, <1>3, <1>4, Zenon DEF ReaderStep

\* Every step keeps the types.
LEMMA TypeStep == ASSUME TypeOK, LockInv, Next PROVE TypeOK'
<1> USE DEF db, votes, pending
<1>1. CASE Tick
  BY <1>1, ConstantsAssumption DEF Tick, TypeOK, Times
<1>2. ASSUME NEW k \in Keys, Evict(k) PROVE TypeOK'
  BY <1>2, CacheType, Zenon DEF Evict, TypeOK
<1>3. ASSUME NEW r \in RecSigs, PushReconstructedRecoveredSig(r) PROVE TypeOK'
  BY <1>3, Zenon DEF PushReconstructedRecoveredSig, TypeOK
<1>4. ASSUME NEW id \in Ids, TruncateRecoveredSig(id) PROVE TypeOK'
  <2>1. cache' \in [Keys -> BOOLEAN \cup {Absent}]
    BY <1>4, CacheType, Zenon DEF TruncateRecoveredSig
  <2>2. QED
    BY <1>4, <2>1, EraseType, Zenon DEF TruncateRecoveredSig, TypeOK
<1>5. CASE Crash
  BY <1>5, WorkerType, Zenon DEF Crash, TypeOK, CallerState, ReaderState
<1>6. ASSUME NEW r \in RecSigs, TryRecoverSig(r) PROVE TypeOK'
  <2>1. worker' \in WorkerState
    BY <1>6, Zenon DEF TryRecoverSig, TypeOK, WorkerState
  <2>2. QED
    BY <1>6, <2>1, Zenon DEF TryRecoverSig, TypeOK
<1>7. QED
  BY <1>1, <1>2, <1>3, <1>4, <1>5, <1>6, WorkerStepType, CallerStepType, ReaderStepType, Zenon DEF Next, Step

\* The lock is held by whoever is inside.
LEMMA LockStep == ASSUME TypeOK, LockInv, Next PROVE LockInv'
<1> USE DEF db, votes, pending
<1>0. None \notin Callers /\ "worker" \notin Callers /\ None # "worker" /\ None \notin RecSigs
  BY ConstantsAssumption, Zenon
<1>1. CASE WorkerStep
  <2>1. UNCHANGED caller
    BY <1>1, Zenon DEF WorkerStep, ProcessPendingReconstructedRecoveredSigs, ProcessPendingRecoveredSigs,
       ProcessRecoveredSig, ProcessLookupId, ProcessInsertId, ProcessKnown, WriteRecoveredSig,
       WriteRecoveredSigCaches, CleanupTooEarly, CleanupOldRecoveredSigs, CleanupErase, CleanupWriteBatch, CleanupOldVotes
  <2>2. \/ UNCHANGED cs
        \/ cs = None /\ cs' = "worker"
        \/ cs' = None /\ worker.pc \in {"get", "cache"}
    BY <1>1, Zenon DEF WorkerStep, ProcessPendingReconstructedRecoveredSigs, ProcessPendingRecoveredSigs,
       ProcessRecoveredSig, ProcessLookupId, ProcessInsertId, ProcessKnown, WriteRecoveredSig,
       WriteRecoveredSigCaches, CleanupTooEarly, CleanupOldRecoveredSigs, CleanupErase, CleanupWriteBatch, CleanupOldVotes
  <2>3. \A c \in Callers : caller'[c].pc # "idle" => cs' = c
    BY <1>0, <2>1, <2>2, Zenon DEF LockInv
  <2>4. /\ worker'.pc \in {"insert", "get", "cache"} => cs' = "worker"
        /\ worker'.pc \in {"id", "insert", "get", "cache"} => worker'.sig # None
    <3>1. CASE ProcessPendingReconstructedRecoveredSigs
      BY <3>1, Zenon DEF ProcessPendingReconstructedRecoveredSigs, LockInv, TypeOK, WorkerState
    <3>2. CASE \E taken \in [Peers -> SUBSET RecSigs], active \in SUBSET Quorums : ProcessPendingRecoveredSigs(taken, active)
      <4>1. worker.pc = "idle" /\ worker'.pc = worker.pc
        BY <3>2, Zenon DEF ProcessPendingRecoveredSigs, TypeOK, WorkerState
      <4>2. QED
        BY <4>1, Zenon
    <3>3. CASE \E r \in RecSigs : ProcessRecoveredSig(r)
      BY <3>3, <1>0 DEF ProcessRecoveredSig, LockInv, TypeOK, WorkerState
    <3>4. CASE ProcessLookupId
      BY <3>4, Zenon DEF ProcessLookupId, LockInv, TypeOK, WorkerState
    <3>5. CASE ProcessInsertId
      BY <3>5, Zenon DEF ProcessInsertId, LockInv, TypeOK, WorkerState
    <3>6. CASE ProcessKnown
      BY <3>6, Zenon DEF ProcessKnown, LockInv, TypeOK, WorkerState
    <3>7. CASE WriteRecoveredSig
      BY <3>7, Zenon DEF WriteRecoveredSig, LockInv, TypeOK, WorkerState
    <3>8. CASE WriteRecoveredSigCaches
      BY <3>8, Zenon DEF WriteRecoveredSigCaches, LockInv, TypeOK, WorkerState
    <3>9. CASE CleanupOldRecoveredSigs
      BY <3>9, Zenon DEF CleanupOldRecoveredSigs, LockInv, TypeOK, WorkerState
    <3>10. CASE CleanupErase
      BY <3>10, Zenon DEF CleanupErase, LockInv, TypeOK, WorkerState
    <3>11. CASE CleanupWriteBatch
      BY <3>11, Zenon DEF CleanupWriteBatch, LockInv, TypeOK, WorkerState
    <3>12. CASE CleanupOldVotes
      BY <3>12, Zenon DEF CleanupOldVotes, LockInv, TypeOK, WorkerState
    <3>13. CASE CleanupTooEarly
      BY <3>13, Zenon DEF CleanupTooEarly, LockInv, TypeOK, WorkerState
    <3>14. QED
      BY <1>1, <3>1, <3>2, <3>3, <3>4, <3>5, <3>6, <3>7, <3>8, <3>9, <3>10, <3>11, <3>12, <3>13, Zenon DEF WorkerStep
  <2>5. QED
    BY <2>3, <2>4, Zenon DEF LockInv
<1>2. ASSUME NEW c \in Callers, CallerStep(c) PROVE LockInv'
  <2>1. UNCHANGED worker
    BY <1>2, Zenon DEF CallerStep, AsyncSignIfMember, AsyncSignInsert, AsyncSignSkip, AsyncSignVote
  <2>2. cs \in {None, c} /\ cs' \in {None, c}
    BY <1>2, CallerFields, Zenon DEF LockInv, CallerStep, AsyncSignIfMember, AsyncSignInsert, AsyncSignSkip, AsyncSignVote
  <2>3. \A d \in Callers : caller'[d].pc # "idle" => cs' = d
    BY <1>2, <1>0, <2>2 DEF LockInv, TypeOK, NoCaller, CallerStep, AsyncSignIfMember, AsyncSignInsert, AsyncSignSkip, AsyncSignVote
  <2>4. QED
    BY <1>0, <2>1, <2>2, <2>3, Zenon DEF LockInv
<1>3. CASE \/ Tick
           \/ \E t \in Readers : ReaderStep(t)
           \/ \E k \in Keys : Evict(k)
           \/ \E r \in RecSigs : PushReconstructedRecoveredSig(r)
           \/ \E id \in Ids : TruncateRecoveredSig(id)
  <2>1. UNCHANGED <<cs, worker, caller>>
    BY <1>3, Zenon DEF Tick, ReaderStep, HasMiss, HasInsert, ReceiveCachedUnknown, PushPending, Evict,
       PushReconstructedRecoveredSig, TruncateRecoveredSig
  <2>2. QED
    BY <2>1, Zenon DEF LockInv
<1>4. CASE Crash
  BY <1>4, Zenon DEF Crash, LockInv, NoWorker, NoCaller
<1>5. ASSUME NEW r \in RecSigs, TryRecoverSig(r) PROVE LockInv'
  BY <1>5, Zenon DEF TryRecoverSig, LockInv, TypeOK, WorkerState
<1>6. QED
  BY <1>1, <1>2, <1>3, <1>4, <1>5, Zenon DEF Next, Step

\* Steps that do not touch the votes.
LEMMA VotesFrame ==
    ASSUME VoteInv, UNCHANGED <<now, rs_v, rs_vt, signed>>, \A c \in Callers : CallerInv(c)'
    PROVE  VoteInv'
<1>1. \A i : Covered(i)' <=> Covered(i)
  BY Zenon DEF Covered
<1>2. NoDoubleVote' /\ VoteIndexed'
  BY Zenon DEF VoteInv, NoDoubleVote, VoteIndexed
<1>3. QED
  BY <1>1, <1>2, Zenon DEF VoteInv

\* Steps that touch neither votes nor callers.
LEMMA VoteFrame == ASSUME VoteInv, UNCHANGED <<now, rs_v, rs_vt, signed, caller>> PROVE VoteInv'
<1>1. \A c \in Callers : CallerInv(c)'
  BY Zenon DEF VoteInv, CallerInv
<1>2. QED
  BY <1>1, VotesFrame, Zenon

\* The fields of the requests.
LEMMA SignedFields ==
    ASSUME TypeOK
    PROVE  /\ DOMAIN signed = 1..Len(signed) /\ Len(signed) \in Nat
           /\ \A i \in DOMAIN signed : /\ signed[i].id \in Ids /\ signed[i].msg \in MsgHashes
                                       /\ signed[i].time \in Times
<1> DEFINE R == [id : Ids, msg : MsgHashes, time : Times]
<1>1. signed \in Seq(R)
  BY Zenon DEF TypeOK
<1> HIDE DEF R
<1>2. DOMAIN signed = 1..Len(signed) /\ Len(signed) \in Nat
  BY <1>1
<1>3. \A i \in DOMAIN signed : signed[i] \in R
  BY <1>1
<1>4. QED
  BY <1>2, <1>3, Zenon DEF R

\* Votes become older.
LEMMA VoteTick == ASSUME TypeOK, VoteInv, Tick PROVE VoteInv'
<1> USE DEF db, votes, pending
<1>1. UNCHANGED <<rs_v, rs_vt, signed, caller>> /\ now' = now + 1
  BY Zenon DEF Tick
<1>2. now \in Int /\ MaxAge \in Nat /\ \A i \in DOMAIN signed : signed[i].time \in Int
  BY SignedFields, ConstantsAssumption DEF TypeOK, Times
<1>3. ASSUME NEW i \in DOMAIN signed PROVE (signed[i].time <= now /\ Covered(i))'
  <2>1. signed[i].time <= now /\ Covered(i)
    BY <1>1, <1>3, Zenon DEF VoteInv
  <2>2. PICK k \in 1..i : /\ SameVote(signed[k], signed[i])
                          /\ \/ now - signed[k].time > MaxAge
                             \/ /\ rs_v[signed[i].id] = signed[i].msg
                                /\ \A t \in Times : <<t, signed[i].id>> \in rs_vt => signed[k].time <= t
    BY <2>1, Zenon DEF Covered
  <2>3. k \in DOMAIN signed
    BY <1>3, <1>1, SignedFields
  <2>4. now - signed[k].time > MaxAge => now' - signed[k].time > MaxAge
    BY <1>1, <1>2, <2>3
  <2>5. Covered(i)'
    BY <1>1, <2>2, <2>4, Zenon DEF Covered, SameVote
  <2>6. QED
    BY <1>1, <1>2, <1>3, <2>1, <2>5
<1>4. QED
  BY <1>1, <1>3, Zenon DEF VoteInv, NoDoubleVote, VoteIndexed, CallerInv

\* An expired vote is older than -maxrecsigsage, and so is the request behind it.
LEMMA VoteCleanup == ASSUME TypeOK, VoteInv, CleanupOldVotes PROVE VoteInv'
<1> USE DEF db, votes, pending
<1>1. UNCHANGED <<now, signed, caller>> /\ rs_vt' \subseteq rs_vt
  BY Zenon DEF CleanupOldVotes
<1>2. now \in Int /\ MaxAge \in Nat /\ Times \subseteq Int
  BY ConstantsAssumption DEF TypeOK, Times
<1>3. ASSUME NEW id \in Ids
      PROVE  \/ rs_v'[id] = rs_v[id] /\ \A t \in Times : <<t, id>> \in rs_vt' <=> <<t, id>> \in rs_vt
             \/ /\ rs_v'[id] = None /\ \A t \in Times : <<t, id>> \notin rs_vt'
                /\ \E t \in Times : <<t, id>> \in rs_vt /\ t < now - MaxAge
  <2>1. CASE \E e \in Expired(rs_vt) : e[2] = id
    <3>1. PICK t \in Times : <<t, id>> \in Expired(rs_vt)
      BY <2>1 DEF Expired, TypeOK
    <3>2. <<t, id>> \in rs_vt /\ t < now - MaxAge
      BY <3>1, Zenon DEF Expired
    <3>3. \A u \in Times : <<u, id>> \notin rs_vt'
      BY <3>1, <3>2, Zenon DEF CleanupOldVotes, VoteInv
    <3>4. QED
      BY <2>1, <3>2, <3>3, Zenon DEF CleanupOldVotes
  <2>2. CASE ~\E e \in Expired(rs_vt) : e[2] = id
    BY <2>2, Zenon DEF CleanupOldVotes
  <2>3. QED
    BY <2>1, <2>2, Zenon
<1>4. ASSUME NEW i \in DOMAIN signed PROVE Covered(i)'
  <2>1. PICK k \in 1..i : /\ SameVote(signed[k], signed[i])
                          /\ \/ now - signed[k].time > MaxAge
                             \/ /\ rs_v[signed[i].id] = signed[i].msg
                                /\ \A t \in Times : <<t, signed[i].id>> \in rs_vt => signed[k].time <= t
    BY <1>4, <1>1, Zenon DEF VoteInv, Covered
  <2>a. k \in DOMAIN signed
    BY <1>4, SignedFields
  <2>2. signed[k].time \in Int /\ signed[i].id \in Ids
    BY <1>2, <2>a, SignedFields, Zenon
  <2>3. \/ now - signed[k].time > MaxAge
        \/ /\ rs_v'[signed[i].id] = signed[i].msg
           /\ \A t \in Times : <<t, signed[i].id>> \in rs_vt' => signed[k].time <= t
    <3> DEFINE id == signed[i].id
    <3>1. CASE rs_v'[id] = rs_v[id] /\ \A t \in Times : <<t, id>> \in rs_vt' <=> <<t, id>> \in rs_vt
      BY <2>1, <3>1, Zenon
    <3>2. ASSUME NEW t \in Times, <<t, id>> \in rs_vt, t < now - MaxAge, signed[k].time <= t
          PROVE  now - signed[k].time > MaxAge
      BY <1>2, <2>2, <3>2
    <3>3. CASE \E t \in Times : <<t, id>> \in rs_vt /\ t < now - MaxAge
      BY <2>1, <3>2, <3>3, Zenon
    <3>4. QED
      BY <1>3, <2>2, <3>1, <3>3, Zenon
  <2>4. QED
    BY <1>1, <2>1, <2>3, Zenon DEF Covered, SameVote
<1>5. VoteIndexed'
  BY <1>3, Zenon DEF VoteInv, VoteIndexed
<1>6. \A c \in Callers : CallerInv(c)'
  <2> SUFFICES ASSUME NEW c \in Callers, caller[c].pc # "idle"
               PROVE  CallerInv(c)'
    BY <1>1, Zenon DEF CallerInv
  <2>1. caller[c].id \in Ids
    BY CallerFields, Zenon
  <2>2. CallerInv(c)
    BY Zenon DEF VoteInv
  <2>3. rs_v'[caller[c].id] \in {rs_v[caller[c].id], None}
    BY <1>3, <2>1, Zenon
  <2>4. QED
    BY <1>1, <2>2, <2>3, Zenon DEF CallerInv
<1>7. QED
  BY <1>1, <1>3, <1>4, <1>5, <1>6 DEF VoteInv, NoDoubleVote

\* Nobody else is inside cs.
LEMMA OneCaller ==
    ASSUME LockInv, NEW c \in Callers, caller[c].pc # "idle", NEW d \in Callers, d # c
    PROVE  caller[d].pc = "idle"
BY Zenon DEF LockInv

\* Taking the lock and looking up the id.
LEMMA VoteEnter ==
    ASSUME TypeOK, VoteInv, NEW c \in Callers,
           NEW id \in Ids, NEW msg \in MsgHashes, NEW q \in Quorums, NEW re \in BOOLEAN,
           AsyncSignIfMember(c, id, msg, q, re)
    PROVE  VoteInv'
<1> USE DEF db, votes, pending
<1>1. UNCHANGED <<now, rs_v, rs_vt, signed>>
  BY Zenon DEF AsyncSignIfMember
<1>2. /\ \A d \in Callers \ {c} : caller'[d] = caller[d]
      /\ caller'[c].id = id /\ caller'[c].msg = msg /\ caller'[c].hasVoted = (rs_v[id] # None)
      /\ rs_v[id] \in {msg, None}
  BY Zenon DEF AsyncSignIfMember, TypeOK
<1>3. rs_v[id] # None => \E k \in DOMAIN signed : SameVote(signed[k], caller'[c])
  BY <1>2 DEF VoteInv, SameVote
<1>4. CallerInv(c)'
  BY <1>1, <1>2, <1>3, Zenon DEF CallerInv
<1>5. \A d \in Callers : CallerInv(d)'
  BY <1>1, <1>2, <1>4 DEF VoteInv, CallerInv
<1>6. QED
  BY <1>1, <1>5, VotesFrame, Zenon

\* Insert and skip: only the caller itself changes.
LEMMA VoteLeave ==
    ASSUME TypeOK, VoteInv, NEW c \in Callers, AsyncSignInsert(c) \/ AsyncSignSkip(c)
    PROVE  VoteInv'
<1> USE DEF db, votes, pending
<1>1. UNCHANGED <<now, rs_v, rs_vt, signed>>
  BY Zenon DEF AsyncSignInsert, AsyncSignSkip
<1>2. \A d \in Callers \ {c} : caller'[d] = caller[d]
  BY Zenon DEF AsyncSignInsert, AsyncSignSkip, TypeOK
<1>3. ASSUME AsyncSignInsert(c) PROVE CallerInv(c)'
  <2>1. caller[c].pc # "idle"
    BY <1>3, Zenon DEF AsyncSignInsert
  <2>2. /\ caller'[c].id = caller[c].id /\ caller'[c].msg = caller[c].msg
        /\ caller'[c].hasVoted = caller[c].hasVoted
    BY <1>3, CallerFields, Zenon DEF AsyncSignInsert, TypeOK
  <2>3. CallerInv(c)'
    BY <1>1, <2>1, <2>2 DEF VoteInv, CallerInv, SameVote
  <2>4. QED
    BY <2>3, Zenon
<1>4. ASSUME AsyncSignSkip(c) PROVE CallerInv(c)'
  BY <1>4, Zenon DEF AsyncSignSkip, TypeOK, NoCaller, CallerInv
<1>5. CallerInv(c)'
  BY <1>3, <1>4, Zenon
<1>6. ASSUME NEW d \in Callers \ {c} PROVE CallerInv(d)'
  <2>1. CallerInv(d) /\ caller'[d] = caller[d]
    BY <1>2, Zenon DEF VoteInv
  <2>2. QED
    BY <1>1, <2>1, Zenon DEF CallerInv, SameVote
<1>7. \A d \in Callers : CallerInv(d)'
  BY <1>5, <1>6, Zenon
<1>8. QED
  BY <1>1, <1>7, VotesFrame, Zenon

\* The request itself: what was requested before for another hash has expired.
LEMMA VoteWrite ==
    ASSUME TypeOK, LockInv, VoteInv, NEW c \in Callers, AsyncSignVote(c)
    PROVE  VoteInv'
<1>0. PICK n \in Nat : n = Len(signed) + 1
  BY SignedFields
<1> DEFINE x == caller[c]
           req == [id |-> x.id, msg |-> x.msg, time |-> now]
<1> USE DEF db, votes, pending
<1>1. /\ x.pc # "idle" /\ x.id \in Ids /\ x.msg \in MsgHashes /\ x.hasVoted \in BOOLEAN
      /\ x.msg # None /\ CallerInv(c)
  BY CallerFields, ConstantsAssumption DEF AsyncSignVote, VoteInv
<1>2. /\ signed' = Append(signed, req) /\ now' = now
      /\ rs_v' = IF x.hasVoted THEN rs_v ELSE [rs_v EXCEPT ![x.id] = x.msg]
      /\ rs_vt' = IF x.hasVoted THEN rs_vt ELSE rs_vt \cup {<<now, x.id>>}
      /\ caller' = [caller EXCEPT ![c] = NoCaller]
  BY Zenon DEF AsyncSignVote
<1>3. /\ DOMAIN signed' = 1..n /\ DOMAIN signed = 1..Len(signed) /\ Len(signed) \in Nat
      /\ signed'[n] = req
      /\ \A i \in 1..Len(signed) : signed'[i] = signed[i]
  <2> DEFINE R == [id : Ids, msg : MsgHashes, time : Times]
  <2>1. signed \in Seq(R) /\ req \in R
    BY <1>1, Zenon DEF TypeOK
  <2> HIDE DEF req, R
  <2>2. QED
    BY <1>0, <1>2, <2>1
<1>a. req.id = x.id /\ req.msg = x.msg /\ req.time = now
  BY Zenon
<1>4. now \in Int /\ MaxAge \in Nat /\ Times \subseteq Int /\ now \in Times
  BY ConstantsAssumption DEF TypeOK, Times
<1> HIDE DEF x, req
<1>5. rs_v[x.id] = None \/ (x.hasVoted /\ rs_v[x.id] = x.msg)
  BY <1>1, Zenon DEF CallerInv, x
<1>6. ASSUME NEW i \in 1..Len(signed) PROVE signed[i].time <= now /\ Covered(i)
  BY <1>3, <1>6, Zenon DEF VoteInv
<1>7. ASSUME NEW i \in 1..Len(signed) PROVE Covered(i)'
  <2>1. PICK k \in 1..i : /\ SameVote(signed[k], signed[i])
                          /\ \/ now - signed[k].time > MaxAge
                             \/ /\ rs_v[signed[i].id] = signed[i].msg
                                /\ \A t \in Times : <<t, signed[i].id>> \in rs_vt => signed[k].time <= t
    BY <1>6, Zenon DEF Covered
  <2>2. k \in 1..Len(signed) /\ signed'[k] = signed[k] /\ signed'[i] = signed[i]
    BY <1>3
  <2>3. signed[i].id \in Ids /\ signed[i].msg \in MsgHashes /\ signed[i].msg # None
    BY <1>3, SignedFields, ConstantsAssumption, Zenon
  <2>4. \/ now - signed[k].time > MaxAge
        \/ /\ rs_v'[signed[i].id] = signed[i].msg
           /\ \A t \in Times : <<t, signed[i].id>> \in rs_vt' => signed[k].time <= t
    <3>1. CASE x.hasVoted
      BY <3>1, <1>2, <2>1, Zenon
    <3>2. CASE ~x.hasVoted
      <4>1. rs_v[x.id] = None
        BY <3>2, <1>5, Zenon
      <4>2. CASE signed[i].id = x.id
        BY <4>1, <4>2, <2>1, <2>3, Zenon
      <4>3. CASE signed[i].id # x.id
        BY <4>3, <3>2, <1>2, <2>1, <2>3, Zenon DEF TypeOK
      <4>4. QED
        BY <4>2, <4>3, Zenon
    <3>3. QED
      BY <1>1, <3>1, <3>2, Zenon
  <2>5. QED
    BY <1>2, <2>1, <2>2, <2>4, Zenon DEF Covered, SameVote
<1>8. Covered(n)'
  <2>1. CASE x.hasVoted
    <3>1. PICK j \in 1..Len(signed) : SameVote(signed[j], x)
      BY <2>1, <1>1, <1>3, Zenon DEF CallerInv, x
    <3>2. PICK k \in 1..j : /\ SameVote(signed[k], signed[j])
                            /\ \/ now - signed[k].time > MaxAge
                               \/ /\ rs_v[signed[j].id] = signed[j].msg
                                  /\ \A t \in Times : <<t, signed[j].id>> \in rs_vt => signed[k].time <= t
      BY <1>6, Zenon DEF Covered
    <3>3. k \in 1..n /\ signed'[k] = signed[k] /\ signed'[n].id = x.id /\ signed'[n].msg = x.msg
      BY <1>0, <1>3, <1>a
    <3>4. SameVote(signed'[k], signed'[n])
      BY <3>1, <3>2, <3>3, Zenon DEF SameVote
    <3>5. signed[j].id = x.id /\ signed[j].msg = x.msg
      BY <3>1, Zenon DEF SameVote
    <3>6. QED
      BY <2>1, <1>2, <3>2, <3>3, <3>4, <3>5, Zenon DEF Covered
  <2>2. CASE ~x.hasVoted
    <3>1. rs_v[x.id] = None
      BY <2>2, <1>5, Zenon
    <3>2. \A t \in Times : <<t, x.id>> \notin rs_vt
      BY <3>1, <1>1, Zenon DEF VoteInv, VoteIndexed
    <3>3. rs_v'[x.id] = x.msg /\ \A t \in Times : <<t, x.id>> \in rs_vt' => now = t
      BY <1>1, <1>2, <2>2, <3>2, Zenon DEF TypeOK
    <3>4. n \in 1..n /\ signed'[n].id = x.id /\ signed'[n].msg = x.msg /\ signed'[n].time = now
      BY <1>0, <1>3, <1>a
    <3>5. \A t \in Times : now = t => now <= t
      BY <1>4
    <3>6. QED
      BY <3>3, <3>4, <3>5, Zenon DEF Covered, SameVote
  <2>3. QED
    BY <1>1, <2>1, <2>2, Zenon
<1>9. NoDoubleVote'
  <2> SUFFICES ASSUME NEW i \in 1..n, NEW j \in 1..n, i < j, signed'[i].id = signed'[j].id,
                      signed'[i].msg # signed'[j].msg
               PROVE  \E k \in 1..i : /\ signed'[k].id = signed'[i].id /\ signed'[k].msg = signed'[i].msg
                                      /\ signed'[j].time - signed'[k].time > MaxAge
    BY <1>3, Zenon DEF NoDoubleVote
  <2>1. i \in 1..Len(signed) /\ signed'[i] = signed[i] /\ \A k \in 1..i : signed'[k] = signed[k]
    BY <1>0, <1>3
  <2>2. CASE j \in 1..Len(signed)
    <3>1. signed'[j] = signed[j]
      BY <1>3, <2>2, Zenon
    <3>2. NoDoubleVote
      BY Zenon DEF VoteInv
    <3>3. \E k \in 1..i : /\ signed[k].id = signed[i].id /\ signed[k].msg = signed[i].msg
                          /\ signed[j].time - signed[k].time > MaxAge
      BY <1>3, <2>1, <2>2, <3>1, <3>2 DEF NoDoubleVote
    <3>4. QED
      BY <2>1, <3>1, <3>3, Zenon
  <2>3. CASE j = n
    <3>1. signed[i].id = x.id /\ signed[i].msg # x.msg /\ signed'[j].time = now
      BY <2>1, <2>3, <1>3, <1>a, Zenon
    <3>2. signed[i].msg # None
      BY <1>3, <2>1, SignedFields, ConstantsAssumption, Zenon
    <3>3. rs_v[signed[i].id] # signed[i].msg
      BY <1>5, <3>1, <3>2, Zenon
    <3>4. \E k \in 1..i : SameVote(signed[k], signed[i]) /\ now - signed[k].time > MaxAge
      BY <1>6, <2>1, <3>3, Zenon DEF Covered
    <3>5. QED
      BY <2>1, <3>1, <3>4, Zenon DEF SameVote
  <2>4. QED
    BY <2>2, <2>3, <1>0, <1>3
<1>10. \A i \in DOMAIN signed' : signed'[i].time <= now' /\ Covered(i)'
  <2>1. signed'[n].time <= now'
    BY <1>2, <1>3, <1>4, <1>a
  <2>2. \A i \in 1..Len(signed) : signed'[i].time <= now'
    BY <1>2, <1>3, <1>6, Zenon
  <2>3. QED
    BY <1>3, <1>7, <1>8, <2>1, <2>2, <1>0
<1>11. /\ VoteIndexed'
       /\ \A id \in Ids, t, u \in Times : (<<t, id>> \in rs_vt' /\ <<u, id>> \in rs_vt') => t = u
  <2>1. CASE x.hasVoted
    BY <2>1, <1>2, Zenon DEF VoteInv, VoteIndexed
  <2>2. CASE ~x.hasVoted
    <3>1. rs_v[x.id] = None
      BY <2>2, <1>5, Zenon
    <3>2. \A t \in Times : <<t, x.id>> \notin rs_vt
      BY <3>1, <1>1, Zenon DEF VoteInv, VoteIndexed
    <3>3. rs_v'[x.id] = x.msg /\ \A t \in Times : <<t, x.id>> \in rs_vt' <=> t = now
      BY <1>1, <1>2, <1>4, <2>2, <3>2, Zenon DEF TypeOK
    <3>4. \A id \in Ids \ {x.id} : rs_v'[id] = rs_v[id] /\ \A t \in Times : <<t, id>> \in rs_vt' <=> <<t, id>> \in rs_vt
      BY <1>1, <1>2, <2>2, Zenon DEF TypeOK
    <3>5. QED
      BY <1>1, <1>4, <3>3, <3>4 DEF VoteInv, VoteIndexed
  <2>3. QED
    BY <1>1, <2>1, <2>2, Zenon
<1>12. \A id \in Ids : rs_v'[id] # None =>
          \E k \in DOMAIN signed' : signed'[k].id = id /\ signed'[k].msg = rs_v'[id]
  <2> SUFFICES ASSUME NEW id \in Ids, rs_v'[id] # None
               PROVE  \E k \in 1..n : signed'[k].id = id /\ signed'[k].msg = rs_v'[id]
    BY <1>3, Zenon
  <2>1. CASE rs_v'[id] = rs_v[id]
    <3>1. PICK k \in 1..Len(signed) : signed[k].id = id /\ signed[k].msg = rs_v[id]
      BY <2>1, <1>3, Zenon DEF VoteInv
    <3>2. k \in 1..n /\ signed'[k] = signed[k]
      BY <1>0, <1>3
    <3>3. QED
      BY <2>1, <3>1, <3>2, Zenon
  <2>2. CASE rs_v'[id] # rs_v[id]
    <3>1. id = x.id /\ rs_v'[id] = x.msg
      BY <2>2, <1>2, Zenon DEF TypeOK
    <3>2. n \in 1..n /\ signed'[n].id = x.id /\ signed'[n].msg = x.msg
      BY <1>0, <1>3, <1>a
    <3>3. QED
      BY <3>1, <3>2, Zenon
  <2>3. QED
    BY <2>1, <2>2, Zenon
<1>13. \A d \in Callers : caller'[d].pc = "idle"
  BY <1>1, <1>2, OneCaller, Zenon DEF TypeOK, NoCaller, x
<1>14. QED
  BY <1>9, <1>10, <1>11, <1>12, <1>13, Zenon DEF VoteInv, CallerInv

\* Every step keeps the invariant of the votes.
LEMMA VoteStep == ASSUME TypeOK, LockInv, VoteInv, Next PROVE VoteInv'
<1>1. CASE WorkerStep /\ ~CleanupOldVotes
  <2>1. UNCHANGED <<now, rs_v, rs_vt, signed, caller>>
    BY <1>1, Zenon DEF WorkerStep, ProcessPendingReconstructedRecoveredSigs, ProcessPendingRecoveredSigs,
       ProcessRecoveredSig, ProcessLookupId, ProcessInsertId, ProcessKnown, WriteRecoveredSig,
       WriteRecoveredSigCaches, CleanupTooEarly, CleanupOldRecoveredSigs, CleanupErase, CleanupWriteBatch, votes
  <2>2. QED
    BY <2>1, VoteFrame, Zenon
<1>2. CASE \/ \E t \in Readers : ReaderStep(t)
           \/ \E k \in Keys : Evict(k)
           \/ \E r \in RecSigs : PushReconstructedRecoveredSig(r)
           \/ \E r \in RecSigs : TryRecoverSig(r)
           \/ \E id \in Ids : TruncateRecoveredSig(id)
  <2>1. UNCHANGED <<now, rs_v, rs_vt, signed, caller>>
    BY <1>2, Zenon DEF ReaderStep, HasMiss, HasInsert, ReceiveCachedUnknown, PushPending, Evict,
       PushReconstructedRecoveredSig, TryRecoverSig, TruncateRecoveredSig, votes
  <2>2. QED
    BY <2>1, VoteFrame, Zenon
<1>3. CASE Crash
  BY <1>3, VotesFrame, Zenon DEF Crash, votes, CallerInv, NoCaller
<1>4. QED
  BY <1>1, <1>2, <1>3, VoteTick, VoteCleanup, VoteEnter, VoteLeave, VoteWrite, Zenon DEF Next, Step, CallerStep

\* Steps that touch neither the database nor the worker.
LEMMA DbFrame ==
    ASSUME DbInv, UNCHANGED <<db, worker>>,
           pendingReconstructedRecoveredSigs' \cap Forged = {}
    PROVE  DbInv'
BY Zenon DEF DbInv, IndexConsistent, OnlyVerified, db

\* Steps of the worker that leave the database alone and prepare no batch.
LEMMA DbWorker ==
    ASSUME DbInv, UNCHANGED db, worker'.pc # "batch",
           (worker'.work \cup {worker'.sig} \cup pendingReconstructedRecoveredSigs') \cap Forged = {}
    PROVE  DbInv'
BY Zenon DEF DbInv, IndexConsistent, OnlyVerified, db

\* None is not a signature.
LEMMA NoneNotForged == None \notin Forged /\ None \notin RecSigs
BY ConstantsAssumption, Zenon

\* The steps of the worker keep the indices consistent.
LEMMA DbWorkerStep == ASSUME TypeOK, LockInv, DbInv, WorkerStep PROVE DbInv'
<1> USE DEF pending
<1>0. /\ worker.work \cap Forged = {} /\ worker.sig \notin Forged
      /\ pendingReconstructedRecoveredSigs \cap Forged = {}
  BY Zenon DEF DbInv
<1>1. CASE ProcessPendingReconstructedRecoveredSigs
  BY <1>0, <1>1, DbWorker DEF ProcessPendingReconstructedRecoveredSigs, TypeOK, WorkerState
<1>2. ASSUME NEW taken \in [Peers -> SUBSET RecSigs], NEW active \in SUBSET Quorums,
             ProcessPendingRecoveredSigs(taken, active)
      PROVE  DbInv'
  <2> DEFINE Batch(p) == {r \in taken[p] : ~Has(HashKey(r)) /\ r.quorum \in active}
             bad == {p \in Peers : Batch(p) \cap Forged # {}}
             W == UNION {Batch(p) : p \in Peers \ bad}
  <2>1. W \cap Forged = {}
    BY Zenon
  <2>2. /\ worker' = [worker EXCEPT !.work = W] /\ worker.pc = "idle" /\ UNCHANGED db
        /\ UNCHANGED pendingReconstructedRecoveredSigs
    BY <1>2, Zenon DEF ProcessPendingRecoveredSigs
  <2> HIDE DEF W
  <2>3. worker'.work = W /\ worker'.sig = worker.sig /\ worker'.pc = "idle"
    BY <2>2, Zenon DEF TypeOK, WorkerState
  <2>4. QED
    BY <1>0, <2>1, <2>2, <2>3, DbWorker, Zenon
<1>3. ASSUME NEW r \in RecSigs, ProcessRecoveredSig(r) PROVE DbInv'
  <2>1. /\ UNCHANGED <<db, pendingReconstructedRecoveredSigs>>
        /\ worker'.pc # "batch" /\ worker'.work \subseteq worker.work
        /\ worker'.sig \in {r, worker.sig} /\ r \in worker.work
    BY <1>3, Zenon DEF ProcessRecoveredSig, TypeOK, WorkerState
  <2>2. QED
    BY <1>0, <2>1, DbWorker, Zenon
<1>4. CASE ProcessLookupId \/ ProcessInsertId \/ ProcessKnown \/ WriteRecoveredSigCaches
           \/ CleanupOldRecoveredSigs \/ CleanupOldVotes
  <2>1. /\ UNCHANGED db /\ pendingReconstructedRecoveredSigs' \subseteq pendingReconstructedRecoveredSigs
        /\ worker'.pc # "batch" /\ worker'.work = worker.work /\ worker'.sig \in {None, worker.sig}
    BY <1>4 DEF ProcessLookupId, ProcessInsertId, ProcessKnown, WriteRecoveredSigCaches,
       CleanupOldRecoveredSigs, CleanupOldVotes, TypeOK, WorkerState
  <2>2. QED
    BY <1>0, <2>1, DbWorker, NoneNotForged, Zenon
<1>5. CASE WriteRecoveredSig
  <2> DEFINE r == worker.sig
  <2>1. r \in RecSigs /\ r.id \in Ids /\ r \notin Forged /\ now \in Times
    BY <1>5, <1>0, WorkerType, SigFields, Zenon DEF WriteRecoveredSig, LockInv, TypeOK
  <2>2. /\ rs_r' = [rs_r EXCEPT ![r.id] = r] /\ rs_rm' = rs_rm \cup {<<r.id, r.msg>>}
        /\ rs_h' = rs_h \cup {r} /\ rs_s' = rs_s \cup {r} /\ rs_t' = rs_t \cup {<<now, r.id>>}
        /\ UNCHANGED pendingReconstructedRecoveredSigs
    BY <1>5, Zenon DEF WriteRecoveredSig
  <2>3. worker'.pc = "cache" /\ worker'.work = worker.work /\ worker'.sig = worker.sig
    BY <1>5, Zenon DEF WriteRecoveredSig, TypeOK, WorkerState
  <2> HIDE DEF r
  <2>4. IndexConsistent'
    BY <2>1, <2>2, Zenon DEF DbInv, IndexConsistent, TypeOK
  <2>5. OnlyVerified'
    BY <2>1, <2>2, Zenon DEF DbInv, OnlyVerified
  <2>6. QED
    BY <1>0, <2>2, <2>3, <2>4, <2>5, Zenon DEF DbInv
<1>6. CASE CleanupErase
  <2>1. /\ worker'.batch = Stored({e[2] : e \in worker.del}) /\ worker'.del = worker.del
        /\ worker'.work = worker.work /\ worker'.sig = worker.sig
        /\ UNCHANGED <<db, pendingReconstructedRecoveredSigs>>
    BY <1>6, Zenon DEF CleanupErase, TypeOK, WorkerState
  <2>2. \A e \in worker'.del : rs_r'[e[2]] # None => rs_r'[e[2]] \in worker'.batch
    BY <2>1, Zenon DEF Stored, db
  <2>3. IndexConsistent' /\ OnlyVerified'
    BY <2>1, Zenon DEF DbInv, IndexConsistent, OnlyVerified, db
  <2>4. QED
    BY <1>0, <2>1, <2>2, <2>3, Zenon DEF DbInv
<1>7. CASE CleanupWriteBatch
  <2>1. /\ worker'.pc = "votes" /\ worker'.work = worker.work /\ worker'.sig = worker.sig
        /\ UNCHANGED pendingReconstructedRecoveredSigs
        /\ rs_h' = rs_h \ worker.batch /\ rs_t' = rs_t \ worker.del /\ worker.pc = "batch"
    BY <1>7, Zenon DEF CleanupWriteBatch, TypeOK, WorkerState
  <2>2. /\ rs_r' = [id \in Ids |-> IF \E r \in worker.batch : r.id = id THEN None ELSE rs_r[id]]
        /\ rs_rm' = rs_rm \ {<<r.id, r.msg>> : r \in worker.batch}
        /\ rs_s' = rs_s \ worker.batch
    BY <1>7, Zenon DEF CleanupWriteBatch, EraseKeys
  <2>3. ASSUME NEW id \in Ids, rs_r'[id] # None
        PROVE  /\ rs_r'[id].id = id /\ <<id, rs_r'[id].msg>> \in rs_rm'
               /\ rs_r'[id] \in rs_h' /\ rs_r'[id] \in rs_s'
               /\ \E t \in Times : <<t, id>> \in rs_t'
    <3>1. /\ \A r \in worker.batch : r.id # id
          /\ rs_r'[id] = rs_r[id] /\ rs_r[id] # None
      BY <2>2, <2>3, Zenon
    <3>2. /\ rs_r[id].id = id /\ <<id, rs_r[id].msg>> \in rs_rm /\ rs_r[id] \in rs_h /\ rs_r[id] \in rs_s
          /\ \E t \in Times : <<t, id>> \in rs_t
      BY <3>1, Zenon DEF DbInv, IndexConsistent
    <3>3. rs_r[id] \notin worker.batch
      BY <3>1, <3>2, Zenon
    <3>4. \A t : <<t, id>> \notin worker.del
      BY <2>1, <3>1, <3>3, Zenon DEF DbInv
    <3>5. <<id, rs_r[id].msg>> \in rs_rm'
      BY <2>2, <3>1, <3>2, Zenon
    <3>6. QED
      BY <2>1, <2>2, <3>1, <3>2, <3>3, <3>4, <3>5, Zenon
  <2>4. IndexConsistent'
    BY <2>3, Zenon DEF IndexConsistent
  <2>5. OnlyVerified'
    BY <2>1, Zenon DEF DbInv, OnlyVerified
  <2>6. QED
    BY <1>0, <2>1, <2>4, <2>5, Zenon DEF DbInv
<1>8. CASE CleanupTooEarly
  <2>1. /\ worker'.pc = "idle" /\ worker'.work = worker.work /\ worker'.sig = worker.sig
        /\ UNCHANGED <<db, pendingReconstructedRecoveredSigs>>
    BY <1>8, Zenon DEF CleanupTooEarly, TypeOK, WorkerState, pending
  <2>2. IndexConsistent' /\ OnlyVerified'
    BY <2>1, Zenon DEF DbInv, IndexConsistent, OnlyVerified, db
  <2>3. QED
    BY <1>0, <2>1, <2>2, Zenon DEF DbInv
<1>9. QED
  BY <1>1, <1>2, <1>3, <1>4, <1>5, <1>6, <1>7, <1>8, Zenon DEF WorkerStep

\* Truncation removes all keys of the id but rs_h and rs_t.
LEMMA DbTruncate ==
    ASSUME TypeOK, DbInv, NEW id \in Ids, TruncateRecoveredSig(id)
    PROVE  DbInv'
<1> DEFINE r == rs_r[id]
<1>1. r # None /\ r.id = id
  BY Zenon DEF TruncateRecoveredSig, DbInv, IndexConsistent
<1>2. /\ rs_r' = [i \in Ids |-> IF i = id THEN None ELSE rs_r[i]]
      /\ rs_rm' = rs_rm \ {<<id, r.msg>>} /\ rs_s' = rs_s \ {r}
  BY <1>1, Zenon DEF TruncateRecoveredSig, EraseKeys
<1>3. UNCHANGED <<rs_h, rs_t, worker, pendingReconstructedRecoveredSigs>>
  BY Zenon DEF TruncateRecoveredSig, pending
<1>4. IndexConsistent'
  BY <1>1, <1>2, <1>3, Zenon DEF DbInv, IndexConsistent
<1>5. \A e \in worker.del : rs_r'[e[2]] # None => rs_r'[e[2]] = rs_r[e[2]]
  <2>1. \A e \in worker.del : e[2] \in Ids
    BY WorkerType, Zenon
  <2>2. QED
    BY <1>2, <2>1, Zenon
<1>6. QED
  BY <1>3, <1>4, <1>5, Zenon DEF DbInv, OnlyVerified

\* Every step keeps the indices consistent.
LEMMA DbStep == ASSUME TypeOK, LockInv, DbInv, Next PROVE DbInv'
<1>1. ASSUME \/ Tick
             \/ \E c \in Callers : CallerStep(c)
             \/ \E t \in Readers : ReaderStep(t)
             \/ \E k \in Keys : Evict(k)
             \/ \E r \in RecSigs : PushReconstructedRecoveredSig(r)
      PROVE  DbInv'
  <2>1. UNCHANGED <<db, worker>>
    BY <1>1 DEF Tick, ReaderStep, HasMiss, HasInsert, ReceiveCachedUnknown, PushPending, Evict,
       PushReconstructedRecoveredSig, CallerStep, AsyncSignIfMember, AsyncSignInsert, AsyncSignSkip, AsyncSignVote
  <2>2. \A r \in pendingReconstructedRecoveredSigs' : r \in pendingReconstructedRecoveredSigs \/ r \notin Forged
    BY <1>1 DEF Tick, ReaderStep, HasMiss, HasInsert, ReceiveCachedUnknown, PushPending, Evict, pending,
       PushReconstructedRecoveredSig, CallerStep, AsyncSignIfMember, AsyncSignInsert, AsyncSignSkip, AsyncSignVote
  <2>3. pendingReconstructedRecoveredSigs' \cap Forged = {}
    BY <2>2, Zenon DEF DbInv
  <2>4. QED
    BY <2>1, <2>3, DbFrame, Zenon
<1>2. CASE Crash
  BY <1>2, NoneNotForged, DbWorker, Zenon DEF Crash, NoWorker
<1>3. ASSUME NEW r \in RecSigs, TryRecoverSig(r) PROVE DbInv'
  <2>1. /\ worker'.pc = "idle" /\ worker'.work = {r} /\ worker'.sig = worker.sig /\ r \notin Forged
        /\ UNCHANGED <<db, pendingReconstructedRecoveredSigs>>
    BY <1>3, Zenon DEF TryRecoverSig, TypeOK, WorkerState, pending
  <2>2. QED
    BY <2>1, DbWorker, Zenon DEF DbInv
<1>4. QED
  BY <1>1, <1>2, <1>3, DbWorkerStep, DbTruncate, Zenon DEF Next, Step

\* The initial state satisfies the invariants.
LEMMA RecInit == Init => RecInv
<1> SUFFICES ASSUME Init PROVE RecInv
  BY Zenon
<1>1. signed \in Seq([id : Ids, msg : MsgHashes, time : Times])
  BY DEF Init
<1>2. now \in Times
  BY ConstantsAssumption DEF Init, Times
<1>3. TypeOK
  BY <1>1, <1>2, WorkerType, Zenon DEF Init, TypeOK, CallerState, ReaderState, WorkerState, NoWorker
<1>4. LockInv
  BY Zenon DEF Init, LockInv, NoWorker, NoCaller
<1>5. DOMAIN signed = {}
  BY DEF Init
<1>6. VoteInv
  BY <1>5, Zenon DEF Init, VoteInv, NoDoubleVote, VoteIndexed, CallerInv, NoCaller
<1>7. DbInv
  BY NoneNotForged, Zenon DEF Init, DbInv, IndexConsistent, OnlyVerified, NoWorker
<1>8. QED
  BY <1>3, <1>4, <1>6, <1>7, Zenon DEF RecInv

\* RecInv is inductive: it holds in every reachable state of the signing manager.
THEOREM RecInvariant == Spec => []RecInv
<1>1. RecInv /\ [Next]_vars => RecInv'
  <2> SUFFICES ASSUME RecInv, [Next]_vars PROVE RecInv'
    BY Zenon
  <2>1. CASE Next
    BY <2>1, TypeStep, LockStep, VoteStep, DbStep, Zenon DEF RecInv
  <2>2. CASE UNCHANGED vars
    <3>1. UNCHANGED <<now, db, votes, cache, pending, cs, worker, caller, reader, signed>>
      BY <2>2, Zenon DEF vars
    <3>2. TypeOK' /\ LockInv'
      BY <3>1, Zenon DEF RecInv, TypeOK, LockInv, db, votes, pending
    <3>3. VoteInv'
      BY <3>1, VoteFrame, Zenon DEF RecInv, votes
    <3>4. DbInv'
      BY <3>1, DbFrame, Zenon DEF RecInv, DbInv, pending
    <3>5. QED
      BY <3>2, <3>3, <3>4, Zenon DEF RecInv
  <2>3. QED
    BY <2>1, <2>2, Zenon
<1>2. QED
  BY RecInit, <1>1, PTL DEF Spec

\* The types of CSigningManager's state, for every set of ids, quorums, peers and threads.
THEOREM RecTypeCorrect == Spec => []TypeOK
<1>1. RecInv => TypeOK
  BY Zenon DEF RecInv
<1>2. QED
  BY RecInvariant, <1>1, PTL

\* A masternode never asks for shares on two message hashes of one id unless the first
\* vote is older than -maxrecsigsage (AsyncSignIfMember), for any number of threads.
THEOREM RecNoDoubleVote == Spec => []NoDoubleVote
<1>1. RecInv => NoDoubleVote
  BY Zenon DEF RecInv, VoteInv
<1>2. QED
  BY RecInvariant, <1>1, PTL

\* A vote and its time key come and go together (WriteVoteForId, CleanupOldVotes).
THEOREM RecVoteIndexed == Spec => []VoteIndexed
<1>1. RecInv => VoteIndexed
  BY Zenon DEF RecInv, VoteInv
<1>2. QED
  BY RecInvariant, <1>1, PTL

\* Every stored recovered signature is reachable through each of its keys
\* (WriteRecoveredSig, RemoveRecoveredSig, TruncateRecoveredSig, CleanupOldRecoveredSigs).
THEOREM RecIndexConsistent == Spec => []IndexConsistent
<1>1. RecInv => IndexConsistent
  BY Zenon DEF RecInv, DbInv
<1>2. QED
  BY RecInvariant, <1>1, PTL

\* Nothing unverified is stored (ProcessPendingRecoveredSigs).
THEOREM RecOnlyVerified == Spec => []OnlyVerified
<1>1. RecInv => OnlyVerified
  BY Zenon DEF RecInv, DbInv
<1>2. QED
  BY RecInvariant, <1>1, PTL

-----------------------------------------------------------------------------
(* The votes for InstantSend locks. *)

\* A share is a vote, for a quorum that some tip selects; a share for an ISLOCK
\* was given when every input had a recovered signature.
Justified(m, q, id, t) ==
    /\ voted[m][id] = t
    /\ \E h \in 0..MaxHeight : q = SelectQuorum[h][id]
    /\ id \in LockIds => \A o \in vin[t] : \E q1 \in Llmqs : Recovered(q1, o, t)

SharesInv ==
    \A m \in Honest, q \in Llmqs, id \in RequestIds, t \in Payments :
        <<m, q, id, t>> \in shares => Justified(m, q, id, t)

\* A recovered signature that a masternode has was really recovered.
RecSigInv ==
    \A m \in Honest, id \in RequestIds, t \in Payments :
        recSig[m][id] = t => \E q \in Llmqs : Recovered(q, id, t)

VotesInv == VotesTypeOK /\ SharesInv /\ RecSigInv

-----------------------------------------------------------------------------
\* A recovered signature stays one when shares are added.
LEMMA RecoveredStays ==
    ASSUME NEW q \in Llmqs, NEW id, NEW t, shares \subseteq shares', Recovered(q, id, t)
    PROVE  Recovered(q, id, t)'
<1>1. SharesFor(q, id, t) \subseteq SharesFor(q, id, t)'
  BY Zenon DEF SharesFor
<1>2. IsFiniteSet(SharesFor(q, id, t)')
  BY FS_Subset, VotesAssumption, Zenon DEF SharesFor
<1>3. /\ Cardinality(SharesFor(q, id, t)) <= Cardinality(SharesFor(q, id, t)')
      /\ IsFiniteSet(SharesFor(q, id, t))
  BY <1>1, <1>2, FS_Subset, Zenon
<1>4. /\ Cardinality(SharesFor(q, id, t)) \in Nat
      /\ Cardinality(SharesFor(q, id, t)') \in Nat
  BY <1>2, <1>3, FS_CardinalityType, Zenon
<1> QED
  BY <1>3, <1>4, VotesAssumption DEF Recovered

\* What a vote may change, and when.
Votes(m, id, t) ==
    /\ voted[m][id] \in {NoTx, t}
    /\ voted' = [voted EXCEPT ![m][id] = t]
    /\ shares' = shares \cup {<<m, SelectQuorum[height[m]][id], id, t>>}

\* SignIfMember votes for t or does nothing.
LEMMA SignIfMemberVotes ==
    ASSUME NEW m, NEW id, NEW t, NEW r, NEW known, SignIfMember(m, id, t, r, known)
    PROVE  Votes(m, id, t) \/ UNCHANGED <<voted, shares>>
  BY Zenon DEF SignIfMember, Votes

\* A vote that is allowed keeps the invariant on shares.
LEMMA VoteKeepsSharesInv ==
    ASSUME VotesTypeOK, SharesInv,
           NEW m \in Honest, NEW id \in RequestIds, NEW t \in Payments,
           Votes(m, id, t),
           id \in LockIds => \A o \in vin[t] : \E q1 \in Llmqs : Recovered(q1, o, t)
    PROVE  SharesInv'
<1>1. shares \subseteq shares'
  BY Zenon DEF Votes
<1>2. SUFFICES ASSUME NEW n \in Honest, NEW q \in Llmqs, NEW i \in RequestIds, NEW u \in Payments,
                      <<n, q, i, u>> \in shares'
               PROVE  /\ voted'[n][i] = u
                      /\ \E h \in 0..MaxHeight : q = SelectQuorum[h][i]
                      /\ i \in LockIds => \A o \in vin[u] : \E q1 \in Llmqs : Recovered(q1, o, u)'
  BY Zenon DEF SharesInv, Justified
<1>3. /\ \/ voted[n][i] = u
         \/ n = m /\ i = id /\ u = t
      /\ \E h \in 0..MaxHeight : q = SelectQuorum[h][i]
      /\ i \in LockIds => \A o \in vin[u] : \E q1 \in Llmqs : Recovered(q1, o, u)
  <2>1. CASE <<n, q, i, u>> \in shares
    <3>1. Justified(n, q, i, u)
      BY <2>1, Zenon DEF SharesInv
    <3> QED
      BY <3>1, Zenon DEF Justified
  <2>2. CASE <<n, q, i, u>> = <<m, SelectQuorum[height[m]][id], id, t>>
    BY <2>2, Zenon DEF VotesTypeOK
  <2> QED
    BY <1>2, <2>1, <2>2, Zenon DEF Votes
<1>4. voted'[n][i] = u
  BY <1>3, VotesAssumption, Zenon DEF Votes, VotesTypeOK
<1>5. i \in LockIds => \A o \in vin[u] : \E q1 \in Llmqs : Recovered(q1, o, u)'
  BY <1>1, <1>3, RecoveredStays, Zenon
<1> QED
  BY <1>3, <1>4, <1>5, Zenon

\* TrySignInstantSendLock votes for an ISLOCK whose inputs are all known, or does nothing.
LEMMA TrySignVotes ==
    ASSUME NEW m, NEW t, NEW known, TrySignInstantSendLock(m, t, known)
    PROVE  \/ Votes(m, GetRequestId[t], t) /\ \A o \in vin[t] : known[o] = t
           \/ UNCHANGED <<voted, shares>>
  BY SignIfMemberVotes, Zenon DEF TrySignInstantSendLock

\* What a step of an honest masternode m does to votes and shares.
VotesFairly(m) ==
    \/ UNCHANGED <<voted, shares>>
    \/ \E id \in RequestIds, t \in Payments :
          /\ Votes(m, id, t)
          /\ id \in LockIds => \A o \in vin[t] : \E q \in Llmqs : Recovered(q, o, t)

\* The initial state has no votes.
LEMMA VotesInitInv == VotesInit => VotesInv
<1> SUFFICES ASSUME VotesInit PROVE VotesInv
  BY Zenon
<1>1. VotesTypeOK
  BY VotesAssumption DEF VotesInit, VotesTypeOK
<1>2. SharesInv
  BY Zenon DEF VotesInit, SharesInv
<1>3. RecSigInv
  BY VotesAssumption, Zenon DEF VotesInit, RecSigInv
<1> QED
  BY <1>1, <1>2, <1>3, Zenon DEF VotesInv

\* Every step keeps the types.
LEMMA VotesTypeStep == VotesTypeOK /\ [VotesNext]_voteVars => VotesTypeOK'
<1> SUFFICES ASSUME VotesTypeOK, [VotesNext]_voteVars PROVE VotesTypeOK'
  BY Zenon
<1> USE VotesAssumption DEF VotesTypeOK
<1>1. ASSUME NEW m \in Honest, NEW id \in RequestIds, NEW t \in Payments, NEW r, NEW known,
             SignIfMember(m, id, t, r, known)
      PROVE  /\ voted' \in [Honest -> [RequestIds -> Payments \cup {NoTx}]]
             /\ shares' \subseteq Honest \X Llmqs \X RequestIds \X Payments
  <2>1. <<m, SelectQuorum[height[m]][id], id, t>> \in Honest \X Llmqs \X RequestIds \X Payments
    OBVIOUS
  <2>2. [voted EXCEPT ![m][id] = t] \in [Honest -> [RequestIds -> Payments \cup {NoTx}]]
    BY Zenon
  <2>3. \/ /\ voted' = [voted EXCEPT ![m][id] = t]
           /\ shares' = shares \cup {<<m, SelectQuorum[height[m]][id], id, t>>}
        \/ voted' = voted /\ shares' = shares
    BY <1>1, Zenon DEF SignIfMember
  <2>4. voted' \in [Honest -> [RequestIds -> Payments \cup {NoTx}]]
    BY <2>2, <2>3, Zenon
  <2>5. shares' \subseteq Honest \X Llmqs \X RequestIds \X Payments
    BY <2>1, <2>3, Zenon
  <2> QED
    BY <2>4, <2>5, Zenon
<1>2. ASSUME NEW m \in Honest, NEW t \in Payments, NEW known, TrySignInstantSendLock(m, t, known)
      PROVE  /\ voted' \in [Honest -> [RequestIds -> Payments \cup {NoTx}]]
             /\ shares' \subseteq Honest \X Llmqs \X RequestIds \X Payments
             /\ creating' \in [Honest -> SUBSET LockIds]
  <2>1. CASE UNCHANGED <<creating, voted, shares>>
    BY <2>1, Zenon
  <2>2. CASE /\ creating' = [creating EXCEPT ![m] = @ \cup {GetRequestId[t]}]
             /\ SignIfMember(m, GetRequestId[t], t, FALSE, known)
    <3>1. GetRequestId[t] \in LockIds /\ GetRequestId[t] \in RequestIds
      BY Zenon DEF RequestIds
    <3> QED
      BY <1>1, <2>2, <3>1, Zenon
  <2> QED
    BY <1>2, <2>1, <2>2, Zenon DEF TrySignInstantSendLock
<1>3. CASE UNCHANGED voteVars
  BY <1>3, Zenon DEF voteVars
<1>4. ASSUME NEW m \in Honest, MasternodeStep(m)
      PROVE  VotesTypeOK'
  <2>1. ASSUME NEW th \in VoteThreads, NEW t \in Payments, ProcessTx(m, th, t)
        PROVE  VotesTypeOK'
    <3>1. job' \in [Honest -> [VoteThreads -> {NoJob} \cup [tx : Payments, todo : SUBSET Inputs]]]
      <4> DEFINE j == [tx |-> t, todo |-> IF th = "mempool" /\ \A o \in vin[t] : voted[m][o] = t
                                          THEN {} ELSE vin[t]]
      <4>1. j \in [tx : Payments, todo : SUBSET Inputs] /\ job' = [job EXCEPT ![m][th] = j]
        BY <2>1, Zenon DEF ProcessTx
      <4> HIDE DEF j
      <4> QED
        BY <4>1, Zenon
    <3> QED
      BY <2>1, <3>1, Zenon DEF ProcessTx
  <2>2. ASSUME NEW th \in VoteThreads, NEW o \in Inputs, SignInput(m, th, o)
        PROVE  VotesTypeOK'
    <3>1. job[m][th] \in [tx : Payments, todo : SUBSET Inputs] /\ o \in RequestIds
      BY <2>2 DEF SignInput, NoJob, RequestIds
    <3>2. job' \in [Honest -> [VoteThreads -> {NoJob} \cup [tx : Payments, todo : SUBSET Inputs]]]
      <4> DEFINE j == [job[m][th] EXCEPT !.todo = @ \ {o}]
      <4>1. j \in [tx : Payments, todo : SUBSET Inputs] /\ job' = [job EXCEPT ![m][th] = j]
        BY <2>2, <3>1, Zenon DEF SignInput
      <4> HIDE DEF j
      <4> QED
        BY <4>1, Zenon
    <3>3. inputRequestIds' \in [Honest -> SUBSET Inputs]
      BY <2>2, Zenon DEF SignInput
    <3> QED
      BY <1>1, <2>2, <3>1, <3>2, <3>3, Zenon DEF SignInput
  <2>3. ASSUME NEW th \in VoteThreads, EndProcessTx(m, th)
        PROVE  VotesTypeOK'
    <3> DEFINE Jobs == [tx : Payments, todo : SUBSET Inputs]
    <3>1. job[m][th] \in Jobs
      BY <2>3 DEF EndProcessTx
    <3>2. job' \in [Honest -> [VoteThreads -> {NoJob} \cup Jobs]]
      <4>1. job' = [job EXCEPT ![m][th] = NoJob] /\ job \in [Honest -> [VoteThreads -> {NoJob} \cup Jobs]]
        BY <2>3, Zenon DEF EndProcessTx
      <4> HIDE DEF Jobs
      <4> QED
        BY <4>1, Zenon
    <3> QED
      BY <1>2, <2>3, <3>1, <3>2, Zenon DEF EndProcessTx
  <2>4. ASSUME NEW q \in Llmqs, NEW id \in RequestIds, NEW t \in Payments, StoreRecoveredSig(m, q, id, t)
        PROVE  VotesTypeOK'
    <3>1. /\ recSig' \in [Honest -> [RequestIds -> Payments \cup {NoTx}]]
          /\ sigHashes' \in [Honest -> SUBSET (Llmqs \X RequestIds \X Payments)]
      <4> DEFINE SigHashes == Llmqs \X RequestIds \X Payments
      <4>1. /\ recSig' = [recSig EXCEPT ![m][id] = t]
            /\ sigHashes' = [sigHashes EXCEPT ![m] = @ \cup {<<q, id, t>>}]
        BY <2>4, Zenon DEF StoreRecoveredSig
      <4>2. recSig' \in [Honest -> [RequestIds -> Payments \cup {NoTx}]]
        BY <4>1, Zenon
      <4>3. <<q, id, t>> \in SigHashes /\ sigHashes \in [Honest -> SUBSET SigHashes]
        BY Zenon
      <4> HIDE DEF SigHashes
      <4>4. sigHashes' \in [Honest -> SUBSET SigHashes]
        BY <4>1, <4>3, Zenon
      <4> QED
        BY <4>2, <4>4, Zenon DEF SigHashes
    <3>2. /\ voted' \in [Honest -> [RequestIds -> Payments \cup {NoTx}]]
          /\ shares' \subseteq Honest \X Llmqs \X RequestIds \X Payments
          /\ creating' \in [Honest -> SUBSET LockIds]
      <4>1. CASE TrySignInstantSendLock(m, t, recSig'[m])
        BY <1>2, <4>1, Zenon
      <4>2. CASE creating' = [creating EXCEPT ![m] = @ \ {id}] /\ UNCHANGED <<voted, shares>>
        BY <4>2, Zenon
      <4> QED
        BY <2>4, <4>1, <4>2, Zenon DEF StoreRecoveredSig
    <3> QED
      BY <2>4, <3>1, <3>2, Zenon DEF StoreRecoveredSig
  <2>5. ASSUME NEW t \in Payments, ProcessInstantSendLock(m, t)
        PROVE  VotesTypeOK'
    <3>1. Truncated(m, vin[t]) \in [RequestIds -> Payments \cup {NoTx}]
      BY DEF Truncated
    <3>2. /\ islocks' \in [Honest -> SUBSET Payments]
          /\ inputRequestIds' \in [Honest -> SUBSET Inputs]
          /\ recSig' \in [Honest -> [RequestIds -> Payments \cup {NoTx}]]
      <4>1. CASE UNCHANGED <<islocks, inputRequestIds, recSig>>
        BY <4>1, Zenon
      <4>2. CASE /\ islocks' = [islocks EXCEPT ![m] = @ \cup {t}]
                 /\ inputRequestIds' = [inputRequestIds EXCEPT ![m] = @ \ vin[t]]
                 /\ recSig' = [recSig EXCEPT ![m] = Truncated(m, vin[t])]
        BY <3>1, <4>2, Zenon
      <4> QED
        BY <2>5, <4>1, <4>2, Zenon DEF ProcessInstantSendLock
    <3> QED
      BY <2>5, <3>2, Zenon DEF ProcessInstantSendLock
  <2>6. ASSUME NEW t \in Payments, RemoveConfirmedLock(m, t)
        PROVE  VotesTypeOK'
    <3>1. Truncated(m, vin[t] \cup {GetRequestId[t]}) \in [RequestIds -> Payments \cup {NoTx}]
      BY DEF Truncated
    <3> QED
      BY <2>6, <3>1, Zenon DEF RemoveConfirmedLock
  <2>7. ASSUME NEW t \in Payments, RemoveConflictingLock(m, t)
        PROVE  VotesTypeOK'
    BY <2>7, Zenon DEF RemoveConflictingLock
  <2>8. ASSUME NewTip(m)
        PROVE  VotesTypeOK'
    BY <2>8 DEF NewTip
  <2>9. ASSUME Restart(m)
        PROVE  VotesTypeOK'
    <3>1. [th \in VoteThreads |-> NoJob]
            \in [VoteThreads -> {NoJob} \cup [tx : Payments, todo : SUBSET Inputs]]
      BY Zenon
    <3> QED
      BY <2>9, <3>1, Zenon DEF Restart
  <2> QED
    BY <1>4, <2>1, <2>2, <2>3, <2>4, <2>5, <2>6, <2>7, <2>8, <2>9, Zenon DEF MasternodeStep
<1> QED
  BY <1>3, <1>4, Zenon DEF VotesNext

\* A masternode votes for an ISLOCK only when a signature on every input was recovered,
\* and never against an earlier vote of its own.
LEMMA StepVotesFairly ==
    ASSUME VotesInv, NEW m \in Honest, MasternodeStep(m)
    PROVE  VotesFairly(m)
<1> USE VotesAssumption
<1>1. ASSUME NEW t \in Payments, NEW known, TrySignInstantSendLock(m, t, known),
             \A o \in vin[t] : known[o] = t => \E q \in Llmqs : Recovered(q, o, t)
      PROVE  VotesFairly(m)
  <2>1. GetRequestId[t] \in RequestIds
    BY Zenon DEF RequestIds
  <2> QED
    BY <1>1, <2>1, TrySignVotes, Zenon DEF VotesFairly
<1>2. ASSUME NEW th \in VoteThreads, NEW o \in Inputs, SignInput(m, th, o)
      PROVE  VotesFairly(m)
  <2>1. /\ job[m][th].tx \in Payments
        /\ o \in RequestIds /\ o \notin LockIds
    BY <1>2 DEF SignInput, NoJob, RequestIds, VotesInv, VotesTypeOK
  <2>2. Votes(m, o, job[m][th].tx) \/ UNCHANGED <<voted, shares>>
    BY <1>2, SignIfMemberVotes, Zenon DEF SignInput
  <2> QED
    BY <2>1, <2>2, Zenon DEF VotesFairly
<1>3. ASSUME NEW th \in VoteThreads, EndProcessTx(m, th)
      PROVE  VotesFairly(m)
  <2>1. job[m][th].tx \in Payments
    BY <1>3 DEF EndProcessTx, VotesInv, VotesTypeOK
  <2>2. \A o \in vin[job[m][th].tx] : o \in RequestIds
    BY <2>1, Zenon DEF RequestIds
  <2>3. \A o \in vin[job[m][th].tx] : recSig[m][o] = job[m][th].tx
                                     => \E q \in Llmqs : Recovered(q, o, job[m][th].tx)
    BY <2>1, <2>2, Zenon DEF VotesInv, RecSigInv
  <2> QED
    BY <1>1, <1>3, <2>1, <2>3, Zenon DEF EndProcessTx
<1>4. ASSUME NEW q \in Llmqs, NEW id \in RequestIds, NEW t \in Payments, StoreRecoveredSig(m, q, id, t)
      PROVE  VotesFairly(m)
  <2>1. CASE id \in inputRequestIds[m]
    <3>1. ASSUME NEW o \in vin[t], recSig'[m][o] = t
          PROVE  \E p \in Llmqs : Recovered(p, o, t)
      <4>1. o \in RequestIds
        BY Zenon DEF RequestIds
      <4>2. o = id \/ recSig[m][o] = t
        BY <1>4, <3>1, <4>1, Zenon DEF StoreRecoveredSig, VotesInv, VotesTypeOK
      <4>3. Recovered(q, id, t)
        BY <1>4, Zenon DEF StoreRecoveredSig
      <4> QED
        BY <4>1, <4>2, <4>3, Zenon DEF VotesInv, RecSigInv
    <3>2. TrySignInstantSendLock(m, t, recSig'[m])
      BY <1>4, <2>1, Zenon DEF StoreRecoveredSig
    <3> QED
      BY <1>1, <3>1, <3>2, Zenon
  <2>2. CASE id \notin inputRequestIds[m]
    BY <1>4, <2>2, Zenon DEF StoreRecoveredSig, VotesFairly
  <2> QED
    BY <2>1, <2>2, Zenon
<1>5. ASSUME NEW th \in VoteThreads, NEW t \in Payments, ProcessTx(m, th, t)
      PROVE  VotesFairly(m)
  BY <1>5, Zenon DEF ProcessTx, VotesFairly
<1>6. ASSUME NEW t \in Payments,
             ProcessInstantSendLock(m, t) \/ RemoveConfirmedLock(m, t) \/ RemoveConflictingLock(m, t)
      PROVE  VotesFairly(m)
  BY <1>6, Zenon DEF ProcessInstantSendLock, RemoveConfirmedLock, RemoveConflictingLock, VotesFairly
<1>7. ASSUME NewTip(m) \/ Restart(m)
      PROVE  VotesFairly(m)
  BY <1>7, Zenon DEF NewTip, Restart, VotesFairly
<1> QED
  BY <1>2, <1>3, <1>4, <1>5, <1>6, <1>7, Zenon DEF MasternodeStep

\* A step stores only recovered signatures.
LEMMA StepRecSigs ==
    ASSUME VotesInv, NEW m \in Honest, MasternodeStep(m)
    PROVE  \A n \in Honest, i \in RequestIds, u \in Payments :
               recSig'[n][i] = u => \E p \in Llmqs : Recovered(p, i, u)
<1> USE VotesAssumption DEF VotesInv, VotesTypeOK, RecSigInv
<1>1. ASSUME NEW q \in Llmqs, NEW id \in RequestIds, NEW t \in Payments, StoreRecoveredSig(m, q, id, t),
             NEW n \in Honest, NEW i \in RequestIds, NEW u \in Payments, recSig'[n][i] = u
      PROVE  \E p \in Llmqs : Recovered(p, i, u)
  <2>1. recSig[n][i] = u \/ (i = id /\ u = t)
    BY <1>1, Zenon DEF StoreRecoveredSig
  <2>2. Recovered(q, id, t)
    BY <1>1, Zenon DEF StoreRecoveredSig
  <2> QED
    BY <2>1, <2>2, Zenon
<1>2. ASSUME NEW ids, recSig' = [recSig EXCEPT ![m] = Truncated(m, ids)],
             NEW n \in Honest, NEW i \in RequestIds, NEW u \in Payments, recSig'[n][i] = u
      PROVE  \E p \in Llmqs : Recovered(p, i, u)
  <2>1. recSig[n][i] = u
    BY <1>2, Zenon DEF Truncated
  <2> QED
    BY <2>1, Zenon
<1>3. \/ recSig' = recSig
      \/ \E ids : recSig' = [recSig EXCEPT ![m] = Truncated(m, ids)]
      \/ \E q \in Llmqs, id \in RequestIds, t \in Payments : StoreRecoveredSig(m, q, id, t)
  BY Zenon DEF MasternodeStep, ProcessTx, SignInput, EndProcessTx, ProcessInstantSendLock,
         RemoveConfirmedLock, RemoveConflictingLock, NewTip, Restart
<1> QED
  BY <1>1, <1>2, <1>3, Zenon

\* Every step keeps the invariant: a new share is a vote that is allowed, and what was
\* recovered stays recovered.
LEMMA VotesInvStep == VotesInv /\ [VotesNext]_voteVars => VotesInv'
<1> SUFFICES ASSUME VotesInv, [VotesNext]_voteVars PROVE VotesInv'
  BY Zenon
<1>1. VotesTypeOK'
  BY VotesTypeStep, Zenon DEF VotesInv
<1>2. ASSUME shares' = shares, voted' = voted
      PROVE  SharesInv'
  BY <1>2 DEF VotesInv, SharesInv, Justified, Recovered, SharesFor
<1>3. CASE UNCHANGED voteVars
  <2>1. SharesInv'
    BY <1>2, <1>3, Zenon DEF voteVars
  <2>2. RecSigInv'
    BY <1>3 DEF voteVars, VotesInv, RecSigInv, Recovered, SharesFor
  <2> QED
    BY <1>1, <2>1, <2>2, Zenon DEF VotesInv
<1>4. ASSUME NEW m \in Honest, MasternodeStep(m)
      PROVE  VotesInv'
  <2>1. VotesFairly(m)
    BY <1>4, StepVotesFairly, Zenon
  <2>2. shares \subseteq shares'
    BY <2>1, Zenon DEF VotesFairly, Votes
  <2>3. SharesInv'
    <3>1. CASE UNCHANGED <<voted, shares>>
      BY <1>2, <3>1, Zenon
    <3>2. ASSUME NEW id \in RequestIds, NEW t \in Payments, Votes(m, id, t),
                 id \in LockIds => \A o \in vin[t] : \E q \in Llmqs : Recovered(q, o, t)
          PROVE  SharesInv'
      BY <3>2, VoteKeepsSharesInv, Zenon DEF VotesInv
    <3> QED
      BY <2>1, <3>1, <3>2, Zenon DEF VotesFairly
  <2>4. RecSigInv'
    BY <1>4, <2>2, StepRecSigs, RecoveredStays, Zenon DEF RecSigInv
  <2> QED
    BY <1>1, <2>3, <2>4, Zenon DEF VotesInv
<1> QED
  BY <1>3, <1>4, Zenon DEF VotesNext

\* The inductive invariant holds in every reachable state.
THEOREM VotesInvariant == VotesSpec => []VotesInv
<1>1. VotesInit => VotesInv
  BY VotesInitInv, Zenon
<1>2. VotesInv /\ [VotesNext]_voteVars => VotesInv'
  BY VotesInvStep, Zenon
<1> QED
  BY <1>1, <1>2, PTL DEF VotesSpec

-----------------------------------------------------------------------------
\* The signers of a recovered signature: threshold members, of which the honest ones
\* have sent a share.
LEMMA Signers ==
    ASSUME VotesInv, NEW q \in Llmqs, NEW id, NEW t, Recovered(q, id, t)
    PROVE  /\ SharesFor(q, id, t) \in SUBSET Masternodes
           /\ SharesFor(q, id, t) \subseteq IsValidMember[q]
           /\ Cardinality(SharesFor(q, id, t)) >= threshold
           /\ \A m \in SharesFor(q, id, t) \cap Honest : <<m, q, id, t>> \in shares
  BY VotesAssumption, Zenon DEF Recovered, SharesFor, Honest

\* What SharesInv says of one share.
LEMMA ShareJustified ==
    ASSUME VotesInv, NEW m \in Honest, NEW q \in Llmqs, NEW id \in RequestIds, NEW t \in Payments,
           <<m, q, id, t>> \in shares
    PROVE  Justified(m, q, id, t)
  BY Zenon DEF VotesInv, SharesInv

\* Some honest member signed an ISLOCK, so that signatures on all inputs were recovered.
LEMMA LockedInputs ==
    ASSUME VotesMeet, VotesInv, NEW t \in Payments, Locked(t), NEW o \in vin[t]
    PROVE  \E q \in Llmqs : Recovered(q, o, t)
<1>1. PICK q \in Llmqs : Recovered(q, GetRequestId[t], t)
  BY Zenon DEF Locked
<1>2. PICK m \in SharesFor(q, GetRequestId[t], t) : m \in Honest
  BY <1>1, Signers, Zenon DEF VotesMeet
<1>3. <<m, q, GetRequestId[t], t>> \in shares
  BY <1>1, <1>2, Signers, Zenon
<1>4. GetRequestId[t] \in LockIds /\ GetRequestId[t] \in RequestIds
  BY VotesAssumption, Zenon DEF RequestIds
<1>5. Justified(m, q, GetRequestId[t], t)
  BY <1>2, <1>3, <1>4, ShareJustified, Zenon
<1> QED
  BY <1>4, <1>5, Zenon DEF Justified

\* Signatures recovered on an input are all for one transaction: some honest masternode
\* signed for both, and it votes once.
LEMMA OneTxPerInput ==
    ASSUME VotesMeet, VotesInv, NEW o \in Inputs, NEW t \in Payments, NEW u \in Payments,
           NEW p \in Llmqs, NEW q \in Llmqs, Recovered(p, o, t), Recovered(q, o, u)
    PROVE  t = u
<1>0. o \in RequestIds
  BY Zenon DEF RequestIds
<1>1. PICK m \in SharesFor(p, o, t) : m \in Honest
  BY Signers, Zenon DEF VotesMeet
<1>2. PICK n \in SharesFor(q, o, u) : n \in Honest
  BY Signers, Zenon DEF VotesMeet
<1>3. \E h1, h2 \in 0..MaxHeight : SelectQuorum[h1][o] = p /\ SelectQuorum[h2][o] = q
  <2>1. <<m, p, o, t>> \in shares /\ <<n, q, o, u>> \in shares
    BY <1>1, <1>2, Signers, Zenon
  <2>2. Justified(m, p, o, t) /\ Justified(n, q, o, u)
    BY <1>0, <1>1, <1>2, <2>1, ShareJustified, Zenon
  <2> QED
    BY <2>2, Zenon DEF Justified
<1>4. PICK k \in Honest : k \in SharesFor(p, o, t) /\ k \in SharesFor(q, o, u)
  <2>1. SharesFor(p, o, t) \cap SharesFor(q, o, u) \cap Honest # {}
    BY <1>3, Signers, Zenon DEF VotesMeet
  <2> QED
    BY <2>1, Zenon
<1>5. <<k, p, o, t>> \in shares /\ <<k, q, o, u>> \in shares
  BY <1>4, Signers, Zenon
<1>6. Justified(k, p, o, t) /\ Justified(k, q, o, u)
  BY <1>0, <1>5, ShareJustified, Zenon
<1> QED
  BY <1>6, Zenon DEF Justified

\* Two transactions that spend the same output never both get an ISLOCK, whatever the
\* masternodes' threads, restarts, tips and lost signatures, if the signers of two
\* signatures on an input always have an honest masternode in common.
THEOREM LocksAgree == ASSUME VotesMeet PROVE VotesSpec => []NoConflictingLocks
<1>1. VotesInv => NoConflictingLocks
  <2> SUFFICES ASSUME VotesInv, NEW t \in Payments, NEW u \in Payments,
                      Conflicting(t, u), Locked(t), Locked(u)
               PROVE  FALSE
    BY Zenon DEF NoConflictingLocks
  <2>1. PICK o \in vin[t] : o \in vin[u] /\ o \in Inputs
    BY VotesAssumption, Zenon DEF Conflicting
  <2>2. PICK p \in Llmqs : Recovered(p, o, t)
    BY <2>1, LockedInputs, Zenon
  <2>3. PICK q \in Llmqs : Recovered(q, o, u)
    BY <2>1, LockedInputs, Zenon
  <2> QED
    BY <2>1, <2>2, <2>3, OneTxPerInput, Zenon DEF Conflicting
<1> QED
  BY <1>1, VotesInvariant, PTL

=============================================================================
