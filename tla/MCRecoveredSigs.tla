--------------------------- MODULE MCRecoveredSigs ---------------------------
(* Instances of RecoveredSigs for TLC. *)
EXTENDS RecoveredSigs

CONSTANTS i1, m1, m2, q1, q2

\* Two quorums recovered the same vote, one signature is forged.
SigA == [id |-> i1, msg |-> m1, quorum |-> q1]
SigB == [id |-> i1, msg |-> m1, quorum |-> q2]
SigBad == [id |-> i1, msg |-> m2, quorum |-> q1]

MCVoteSigs == {SigA}
MCDbSigs == {SigA, SigBad}
MCForged == {SigBad}
=============================================================================
