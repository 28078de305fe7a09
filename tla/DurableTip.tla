----------------------------- MODULE DurableTip -----------------------------
(***************************************************************************)
(* What the chain state promises about its tip: it moves along the block    *)
(* tree one block at a time, it is saved by one atomic write, and a process  *)
(* that starts again resumes at the tip that was saved last.                 *)
(***************************************************************************)

CONSTANTS
    Blocks,
    Root,
    Parent,
    NoBlock     \* the tip of a process that is not up

VARIABLES
    tip,    \* the tip in memory
    saved   \* the tip on disk

tipVars == <<tip, saved>>

Init == tip = Root /\ saved = Root

Connect(b) == tip = Parent[b] /\ tip' = b /\ UNCHANGED saved

Disconnect == tip \in Blocks \ {Root} /\ tip' = Parent[tip] /\ UNCHANGED saved

Save == tip # NoBlock /\ saved' = tip /\ UNCHANGED tip

Stop == tip # NoBlock /\ tip' = NoBlock /\ UNCHANGED saved

Resume == tip = NoBlock /\ tip' = saved /\ UNCHANGED saved

Next ==
    \/ \E b \in Blocks \ {Root} : Connect(b)
    \/ Disconnect \/ Save \/ Stop \/ Resume

Spec == Init /\ [][Next]_tipVars

=============================================================================
