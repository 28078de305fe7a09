------------------------------- MODULE MCVotes -------------------------------
(* Instances of InstantSendVotes for TLC: a spends two outputs, b one of them. *)
EXTENDS InstantSendVotes, TLC

CONSTANTS a, b, oa, ob, la, lb, mn1, mn2, Q1, Q2

MCvin == a :> {oa, ob} @@ b :> {ob}
MCGetRequestId == a :> la @@ b :> lb

\* The lowest tips select Q1, higher ones Q2.  The masternodes are members of both
\* quorums, or of one each.
MCBothMembers == [q \in Llmqs |-> Masternodes]
MCOneEach == Q1 :> {mn1} @@ Q2 :> {mn2}
MCSelectQuorum == [h \in 0..MaxHeight |-> [id \in RequestIds |-> IF h = 0 THEN Q1 ELSE Q2]]

\* Inputs are signed in order and a is not mined; the second masternode keeps its
\* locks and stays up.
VotesStep ==
    /\ VotesNext
    /\ \A m \in Honest, th \in VoteThreads : job'[m][th].todo # {oa}
    /\ \A m \in Honest : job'[m]["block"].tx # a
    /\ islocks[mn2] \subseteq islocks'[mn2]
    /\ inputRequestIds[mn2] = {} \/ inputRequestIds'[mn2] # {} \/ islocks'[mn2] # islocks[mn2]
=============================================================================
