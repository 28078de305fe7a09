------------------------------ MODULE MCSafety ------------------------------
(***************************************************************************)
(* The safety of RecoveredSigs, Spork and InstantSendVotes on four          *)
(* instances in one run, chosen by part: callers that vote while the worker *)
(* stores and cleans up ("votes"); signatures from a peer, one of them      *)
(* forged, with a reader ("db"); three spork signers, the node's own one    *)
(* with at most two of the three messages, and restarts with other keys     *)
(* ("spork"); two masternodes that vote on two conflicting transactions     *)
(* ("islock").                                                              *)
(***************************************************************************)
EXTENDS MCRecoveredSigs, MCSpork, MCVotes

\* The quorums of the instance are as the agreement on locks needs them.
ASSUME VotesMeet

VARIABLE part

MCInit ==
    /\ part \in {"votes", "db", "spork", "islock"}
    /\ Init /\ SporkInit /\ VotesInit

MCNext ==
    \/ part = "votes" /\ Next /\ UNCHANGED <<part, reader, sporkVars, voteVars>>
    \/ /\ part = "db" /\ Next /\ now' <= MaxAge + 1
       /\ UNCHANGED <<part, caller, sporkVars, voteVars>>
    \/ /\ part = "spork" /\ SporkNext /\ UNCHANGED <<part, vars, voteVars>>
       /\ Cardinality({m \in net' \cup rpc' : m.signer = k1}) <= 2
    \/ part = "islock" /\ VotesStep /\ UNCHANGED <<part, vars, sporkVars>>

MCSpec == MCInit /\ [][MCNext]_<<vars, part, sporkVars, voteVars>>

=============================================================================
