-------------------------- MODULE InstantSendVotes --------------------------
(***************************************************************************)
(* How the masternodes agree on one of several transactions that spend the  *)
(* same output.  CInstantSendManager (llmq/instantsend.cpp) votes for every *)
(* input of a transaction and, once all inputs have a recovered signature,  *)
(* for the ISLOCK itself, through CSigningManager::AsyncSignIfMember        *)
(* (llmq/signing.cpp).                                                      *)
(*                                                                          *)
(* A signature share is cast to everyone; a recovered signature or ISLOCK   *)
(* that enough members signed reaches a masternode at any time, late, in    *)
(* any order or never.  The masternodes in Faulty sign whatever is asked.   *)
(*                                                                          *)
(* On one masternode ProcessTx runs in the validation callbacks for the     *)
(* transactions of a block ("block", fRetroactive) and in the callbacks and *)
(* the InstantSend worker for those of the mempool ("mempool").  One call   *)
(* of AsyncSignIfMember is one step, as CSigningManager::cs makes it; so is *)
(* storing a recovered signature and handing it to the InstantSend manager. *)
(* InstantSend is enabled, CheckCanLock holds, there is one type of quorum, *)
(* a transaction is known wherever it is asked for, and no vote is as old   *)
(* as -maxrecsigsage (RecoveredSigs has the clean-up of votes).             *)
(***************************************************************************)
EXTENDS Naturals, FiniteSets

CONSTANTS
    Masternodes, Faulty,
    Inputs, Payments,   \* outputs to spend, and the transactions that do
    vin,                \* the outputs a transaction spends
    LockIds,
    GetRequestId,       \* the request id of the ISLOCK of a transaction
    Llmqs,
    IsValidMember,      \* the valid members of a quorum
    threshold,          \* shares that make a recovered signature
    MaxHeight,          \* bound on the height of the tips
    SelectQuorum,       \* SelectQuorumForSigning, by height of the tip and id
    NoTx

Honest == Masternodes \ Faulty
RequestIds == Inputs \cup LockIds
VoteThreads == {"block", "mempool"}
NoJob == [tx |-> NoTx, todo |-> {}]

ASSUME VotesAssumption ==
    /\ IsFiniteSet(Masternodes)
    /\ vin \in [Payments -> SUBSET Inputs]
    /\ GetRequestId \in [Payments -> LockIds] /\ Inputs \cap LockIds = {}
    /\ IsValidMember \in [Llmqs -> SUBSET Masternodes]
    /\ threshold \in Nat /\ MaxHeight \in Nat
    /\ SelectQuorum \in [0..MaxHeight -> [RequestIds -> Llmqs]]
    /\ NoTx \notin Payments

VARIABLES
    height,           \* of the active chain of every masternode
    voted,            \* rs_v: the transaction voted for under an id
    shares,           \* signature shares sent: <<masternode, quorum, id, tx>>
    recSig,           \* rs_r: the transaction of the recovered signature of an id
    sigHashes,        \* rs_h: <<quorum, id, tx>> of every signature stored so far
    islocks,          \* the transactions whose ISLOCK is in the database
    inputRequestIds,
    creating,         \* creatingInstantSendLocks: ids of the ISLOCKs being signed
    job               \* calls of ProcessTx: the inputs that are still to be signed

voteVars == <<height, voted, shares, recSig, sigHashes, islocks, inputRequestIds, creating, job>>

VotesInit ==
    /\ height = [m \in Honest |-> 0]
    /\ voted = [m \in Honest |-> [id \in RequestIds |-> NoTx]]
    /\ shares = {}
    /\ recSig = [m \in Honest |-> [id \in RequestIds |-> NoTx]]
    /\ sigHashes = [m \in Honest |-> {}]
    /\ islocks = [m \in Honest |-> {}]
    /\ inputRequestIds = [m \in Honest |-> {}]
    /\ creating = [m \in Honest |-> {}]
    /\ job = [m \in Honest |-> [th \in VoteThreads |-> NoJob]]

\* External: a quorum recovers a signature from threshold shares.
SharesFor(q, id, t) ==
    {m \in IsValidMember[q] : m \in Faulty \/ <<m, q, id, t>> \in shares}
Recovered(q, id, t) == Cardinality(SharesFor(q, id, t)) >= threshold

Conflicting(t, u) == t # u /\ vin[t] \cap vin[u] # {}
GetConflictingLock(m, t) == {u \in islocks[m] : Conflicting(t, u)}

\* Mutant: an earlier vote for another transaction does not matter.
MutantVoteAgain(m, id, t, allowReSign, known) ==
    LET q == SelectQuorum[height[m]][id]
    IN  IF m \in IsValidMember[q] /\ known[id] = NoTx
        THEN /\ voted' = [voted EXCEPT ![m][id] = t]
             /\ shares' = shares \cup {<<m, q, id, t>>}
        ELSE UNCHANGED <<voted, shares>>

\* AsyncSignIfMember on m; known are the recovered signatures m has.
SignIfMember(m, id, t, allowReSign, known) ==
    LET q == SelectQuorum[height[m]][id]
    IN  IF /\ m \in IsValidMember[q]
           /\ voted[m][id] = NoTx \/ (voted[m][id] = t /\ allowReSign)
           /\ known[id] = NoTx
        THEN /\ voted' = [voted EXCEPT ![m][id] = t]
             /\ shares' = shares \cup {<<m, q, id, t>>}
        ELSE UNCHANGED <<voted, shares>>

TrySignInstantSendLock(m, t, known) ==
    LET id == GetRequestId[t]
    IN  IF (\A o \in vin[t] : known[o] = t) /\ known[id] = NoTx /\ id \notin creating[m]
        THEN /\ creating' = [creating EXCEPT ![m] = @ \cup {id}]
             /\ SignIfMember(m, id, t, FALSE, known)
        ELSE UNCHANGED <<creating, voted, shares>>

\* TruncateRecoveredSig for every id in ids: only the key by hash stays.
Truncated(m, ids) == [id \in RequestIds |-> IF id \in ids THEN NoTx ELSE recSig[m][id]]

-----------------------------------------------------------------------------
\* ProcessTx with the checks of TrySignInputLocks.  Votes are only added, so that
\* checking the inputs one after the other refuses no more than checking them at once.
ProcessTx(m, th, t) ==
    /\ job[m][th] = NoJob
    /\ vin[t] # {}
    /\ GetConflictingLock(m, t) = {}
    /\ \A o \in vin[t] : voted[m][o] \in {NoTx, t} /\ recSig[m][o] \in {NoTx, t}
    /\ LET bailOut == th = "mempool" /\ \A o \in vin[t] : voted[m][o] = t
       IN  job' = [job EXCEPT ![m][th] =
                      [tx |-> t, todo |-> IF bailOut THEN {} ELSE vin[t]]]
    /\ UNCHANGED <<height, voted, shares, recSig, sigHashes, islocks, inputRequestIds, creating>>

\* One round of the signing loop of TrySignInputLocks.
SignInput(m, th, o) ==
    /\ o \in job[m][th].todo
    /\ inputRequestIds' = [inputRequestIds EXCEPT ![m] = @ \cup {o}]
    /\ SignIfMember(m, o, job[m][th].tx, th = "block", recSig[m])
    /\ job' = [job EXCEPT ![m][th].todo = @ \ {o}]
    /\ UNCHANGED <<height, recSig, sigHashes, islocks, creating>>

\* The end of ProcessTx.
EndProcessTx(m, th) ==
    /\ job[m][th] # NoJob /\ job[m][th].todo = {}
    /\ TrySignInstantSendLock(m, job[m][th].tx, recSig[m])
    /\ job' = [job EXCEPT ![m][th] = NoJob]
    /\ UNCHANGED <<height, recSig, sigHashes, islocks, inputRequestIds>>

\* ProcessRecoveredSig: a new signature is stored unless its id has one, and handed to
\* HandleNewRecoveredSig; one for an ISLOCK ends its creation.
StoreRecoveredSig(m, q, id, t) ==
    /\ Recovered(q, id, t)
    /\ <<q, id, t>> \notin sigHashes[m]
    /\ recSig[m][id] = NoTx
    /\ recSig' = [recSig EXCEPT ![m][id] = t]
    /\ sigHashes' = [sigHashes EXCEPT ![m] = @ \cup {<<q, id, t>>}]
    /\ IF id \in inputRequestIds[m]
       THEN TrySignInstantSendLock(m, t, recSig'[m])
       ELSE /\ creating' = [creating EXCEPT ![m] = @ \ {id}]
            /\ UNCHANGED <<voted, shares>>
    /\ UNCHANGED <<height, islocks, inputRequestIds, job>>

\* ProcessInstantSendLock for an ISLOCK that verified, our own or from a peer: it is
\* dropped (known, or its transaction is under a ChainLock), or it is stored and the
\* recovered signatures of its inputs are truncated.
ProcessInstantSendLock(m, t) ==
    /\ \E q \in Llmqs : Recovered(q, GetRequestId[t], t)
    /\ creating' = [creating EXCEPT ![m] = @ \ {GetRequestId[t]}]
    /\ \/ UNCHANGED <<islocks, inputRequestIds, recSig>>
       \/ /\ t \notin islocks[m]
          /\ islocks' = [islocks EXCEPT ![m] = @ \cup {t}]
          /\ inputRequestIds' = [inputRequestIds EXCEPT ![m] = @ \ vin[t]]
          /\ recSig' = [recSig EXCEPT ![m] = Truncated(m, vin[t])]
    /\ UNCHANGED <<height, voted, shares, sigHashes, job>>

\* HandleFullyConfirmedBlock for the block that has the transaction of an ISLOCK.
RemoveConfirmedLock(m, t) ==
    /\ t \in islocks[m]
    /\ islocks' = [islocks EXCEPT ![m] = @ \ {t}]
    /\ inputRequestIds' = [inputRequestIds EXCEPT ![m] = @ \ vin[t]]
    /\ recSig' = [recSig EXCEPT ![m] = Truncated(m, vin[t] \cup {GetRequestId[t]})]
    /\ UNCHANGED <<height, voted, shares, sigHashes, creating, job>>

\* A ChainLock decides for a conflicting transaction, or the locked one leaves the mempool.
RemoveConflictingLock(m, t) ==
    /\ t \in islocks[m]
    /\ islocks' = [islocks EXCEPT ![m] = @ \ {t}]
    /\ UNCHANGED <<height, voted, shares, recSig, sigHashes, inputRequestIds, creating, job>>

\* External: the chain of m grows.
NewTip(m) ==
    /\ height[m] < MaxHeight
    /\ height' = [height EXCEPT ![m] = @ + 1]
    /\ UNCHANGED <<voted, shares, recSig, sigHashes, islocks, inputRequestIds, creating, job>>

\* Votes, recovered signatures and locks are in LevelDB, the rest is in memory.
Restart(m) ==
    /\ inputRequestIds' = [inputRequestIds EXCEPT ![m] = {}]
    /\ creating' = [creating EXCEPT ![m] = {}]
    /\ job' = [job EXCEPT ![m] = [th \in VoteThreads |-> NoJob]]
    /\ UNCHANGED <<height, voted, shares, recSig, sigHashes, islocks>>

MasternodeStep(m) ==
    \/ \E th \in VoteThreads, t \in Payments : ProcessTx(m, th, t)
    \/ \E th \in VoteThreads, o \in Inputs : SignInput(m, th, o)
    \/ \E th \in VoteThreads : EndProcessTx(m, th)
    \/ \E q \in Llmqs, id \in RequestIds, t \in Payments : StoreRecoveredSig(m, q, id, t)
    \/ \E t \in Payments : ProcessInstantSendLock(m, t)
    \/ \E t \in Payments : RemoveConfirmedLock(m, t) \/ RemoveConflictingLock(m, t)
    \/ NewTip(m)
    \/ Restart(m)

VotesNext == \E m \in Honest : MasternodeStep(m)

VotesSpec == VotesInit /\ [][VotesNext]_voteVars

-----------------------------------------------------------------------------
VotesTypeOK ==
    /\ height \in [Honest -> 0..MaxHeight]
    /\ voted \in [Honest -> [RequestIds -> Payments \cup {NoTx}]]
    /\ shares \subseteq Honest \X Llmqs \X RequestIds \X Payments
    /\ recSig \in [Honest -> [RequestIds -> Payments \cup {NoTx}]]
    /\ sigHashes \in [Honest -> SUBSET (Llmqs \X RequestIds \X Payments)]
    /\ islocks \in [Honest -> SUBSET Payments]
    /\ inputRequestIds \in [Honest -> SUBSET Inputs]
    /\ creating \in [Honest -> SUBSET LockIds]
    /\ job \in [Honest -> [VoteThreads -> {NoJob} \cup [tx : Payments, todo : SUBSET Inputs]]]

\* What the agreement rests on: threshold members of a quorum are never all faulty,
\* and the signers of two signatures on the same input, of one quorum or of two that
\* tips of different heights select, have an honest masternode in common.
VotesMeet ==
    \A q1, q2 \in Llmqs, S1, S2 \in SUBSET Masternodes :
        /\ S1 \subseteq IsValidMember[q1] /\ Cardinality(S1) >= threshold
        /\ S2 \subseteq IsValidMember[q2] /\ Cardinality(S2) >= threshold
        => /\ S1 \cap Honest # {}
           /\ (\E o \in Inputs, h1, h2 \in 0..MaxHeight :
                  SelectQuorum[h1][o] = q1 /\ SelectQuorum[h2][o] = q2)
              => S1 \cap S2 \cap Honest # {}

Locked(t) == \E q \in Llmqs : Recovered(q, GetRequestId[t], t)

\* Two transactions that spend the same output never both have an ISLOCK, although the
\* locks are voted on under different ids: only the votes on the common input, cast by
\* racing threads of masternodes that restart and lose recovered signatures, prevent it.
NoConflictingLocks ==
    \A t, u \in Payments : Conflicting(t, u) => ~(Locked(t) /\ Locked(u))

\* signing.cpp, on the choice of the quorum: "it shouldn't be possible to get conflicting
\* recovered signatures", and on a second signature: "a majority is only possible on one
\* quorum and one msgHash per id".
OneMsgHashPerId ==
    \A id \in RequestIds, t, u \in Payments, q1, q2 \in Llmqs :
        Recovered(q1, id, t) /\ Recovered(q2, id, u) => t = u

=============================================================================
