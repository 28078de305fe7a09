---------------------------- MODULE MCChainState ----------------------------
(***************************************************************************)
(* A trunk g - a - b - d with a fork c on a.  a creates two outputs; b       *)
(* spends one and creates one it spends itself; c spends the other; d        *)
(* spends what is left of a.                                                 *)
(***************************************************************************)
EXTENDS ChainState

MCParent == [x \in Blocks \ {"g"} |-> CASE x = "a" -> "g" [] x = "d" -> "b" [] OTHER -> "a"]

MCLine[x \in Blocks] == {x} \cup (IF x = Root THEN {} ELSE MCLine[MCParent[x]])
MCAncestors(x) == MCLine[x]

MCTxs ==
    [x \in Blocks |->
        CASE x = "a" -> <<[vin |-> {}, vout |-> {1, 2}]>>
          [] x = "b" -> <<[vin |-> {1}, vout |-> {3}], [vin |-> {3}, vout |-> {4}]>>
          [] x = "c" -> <<[vin |-> {2}, vout |-> {5}]>>
          [] x = "d" -> <<[vin |-> {2, 4}, vout |-> {3}]>>
          [] OTHER   -> <<>>]

=============================================================================
