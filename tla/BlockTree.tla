------------------------------ MODULE BlockTree ------------------------------
(***************************************************************************)
(* The tree of block headers (CBlockIndex, chain.h and chain.cpp): the      *)
(* parent of a block, its height, and its ancestor at a height.             *)
(***************************************************************************)
EXTENDS Integers, FiniteSets

CONSTANTS
    Blocks,         \* the blocks of the tree
    Root,           \* a block on every chain
    RootHeight,     \* its height; 0 when it is the genesis block
    Parent,         \* pprev
    Ancestors(_)    \* a block and its ancestors, down to Root

Anc == [b \in Blocks |-> Ancestors(b)]

ASSUME TreeAssumption ==
    /\ Root \in Blocks /\ RootHeight \in Nat
    /\ Parent \in [Blocks \ {Root} -> Blocks]
    /\ Anc \in [Blocks -> SUBSET Blocks] /\ Anc[Root] = {Root}
    /\ \A b \in Blocks \ {Root} : b \notin Anc[Parent[b]] /\ Anc[b] = {b} \cup Anc[Parent[b]]
    /\ \A b \in Blocks : IsFiniteSet(Anc[b])

\* nHeight.
Height == [b \in Blocks |-> RootHeight + Cardinality(Anc[b]) - 1]

\* CBlockIndex::GetAncestor.
GetAncestor(b, h) == CHOOSE a \in Anc[b] : Height[a] = h

LastCommonAncestor(a, b) ==
    CHOOSE c \in Anc[a] \cap Anc[b] : \A d \in Anc[a] \cap Anc[b] : Height[d] <= Height[c]

=============================================================================
