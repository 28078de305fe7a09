------------------------------ MODULE MCHeaders ------------------------------
(***************************************************************************)
(* HeadersSync on a tree with a main chain 1..6 and a branch 23..27 that    *)
(* leaves it after header 2.                                                *)
(***************************************************************************)
EXTENDS HeadersSync

MCBlocks == 0..6 \cup 23..27
MCAncestors(b) == IF b < 7 THEN 0..b ELSE 0..2 \cup 23..b
MCParent == [b \in MCBlocks \ {0} |-> IF b = 23 THEN 2 ELSE b - 1]

=============================================================================
