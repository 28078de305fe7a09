------------------------------ MODULE MCStorage ------------------------------
(***************************************************************************)
(* ChainState, EvoDB with its iterator, and CoinsCache in one run: part says *)
(* which of the three takes the steps; the others stay where they start.     *)
(***************************************************************************)
EXTENDS MCChainState, DBIterator, CoinsCache

ASSUME StorageInstance == DeepRoot /\ CoinsWritesSucceed

VARIABLE part

allVars == <<vars, evoVars, coinVars, part>>

MCInit ==
    /\ part \in {"chainstate", "evodb", "coins"}
    /\ Init
    /\ EvoInit /\ (part # "evodb" => \A k \in Keys : db[k] = Absent)
    /\ CoinsInit /\ (part # "coins" => \A o \in OutPoints : coins[o] = Spent)

InChainState(A) == part = "chainstate" /\ A /\ UNCHANGED <<part, evoVars, coinVars>>

MCNext ==
    \/ InChainState(Next)
    \/ part = "evodb" /\ EvoNext /\ UNCHANGED <<part, vars, coinVars>>
    \/ part = "coins" /\ CoinsNext /\ UNCHANGED <<part, vars, evoVars>>

MCSpec == MCInit /\ [][MCNext]_allVars /\ WF_allVars(InChainState(NodeStep))

=============================================================================
