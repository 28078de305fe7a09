------------------------------- MODULE MCSpork -------------------------------
(* Instances of Spork for TLC: one spork id, three signers of which a key set  *)
(* of three (threshold 2) or of two (threshold 2) is configured.               *)
EXTENDS Spork, TLC

CONSTANTS k1, k2, k3, s1

\* Value 0 is active from the second clock tick on, OFF never.
OFF == 9
MCValues == {0, OFF}
MCsporkDefs == [id \in {s1} |-> OFF]

\* The node holds k1; a restart may drop k1 from -sporkaddr.
MCConfigs == {[keys |-> {k1, k2, k3}, min |-> 2, priv |-> k1],
              [keys |-> {k2, k3}, min |-> 2, priv |-> NoKey],
              [keys |-> {k1, k2, k3}, min |-> 1, priv |-> NoKey]}

Symmetry == Permutations({k2, k3})

\* For liveness: the node signs with k1, k2 is remote, and every message says 0.
MCLiveConfigs == {[keys |-> {k1, k2}, min |-> 2, priv |-> k1]}
MCLiveValues == {0}
=============================================================================
