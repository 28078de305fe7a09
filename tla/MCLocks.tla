------------------------------- MODULE MCLocks -------------------------------
(***************************************************************************)
(* The safety of ChainLocks on two instances in one run.  A masternode,      *)
(* which signs, with two locked blocks and a fork of the same length; and a  *)
(* node that is not one, with a fork longer than the locked chain, CLSIGs    *)
(* that do not verify, and a spork that is switched off and on again.        *)
(***************************************************************************)
EXTENDS MCChainLocks

ASSUME OneChain == SignedOnOneChain

MCNext ==
    /\ Next
    /\ IF fMasternodeMode
       THEN UNCHANGED sporks /\ (thread'["msg"].sig # None => thread'["msg"].ok)
       ELSE b2 \notin known' /\ thread'["msg"].sig # b2

MCSpec == Init /\ [][MCNext]_vars

=============================================================================
