----------------------------- MODULE MCChainLocks -----------------------------
(* Instances of ChainLocks for TLC: a locked chain and a longer fork. *)
EXTENDS ChainLocks

CONSTANTS r, b1, b2, f1, f2, f3

MCParent == [b \in Blocks \ {Root} |->
                CASE b = b1 -> r [] b = b2 -> b1 [] b = f1 -> r [] b = f2 -> f1 [] b = f3 -> f2]

MCLine[b \in Blocks] == {b} \cup (IF b = Root THEN {} ELSE MCLine[MCParent[b]])
MCAncestors(b) == MCLine[b]
=============================================================================
