----------------------------- MODULE HeadersSync -----------------------------
(***************************************************************************)
(* The synchronisation of headers during initial block download:            *)
(* HeadersSyncState (headerssync.cpp) and its use in net_processing.cpp -   *)
(* the start of the synchronisation with a peer, block announcements, the   *)
(* headers message, the timeout and the end of a connection.                *)
(*                                                                          *)
(* A header is a block of a tree of valid headers; each has one unit of     *)
(* work.  The peers are honest: they answer getheaders from their active    *)
(* chain, extend it, reorganise to a longer one, and announce the result.   *)
(* The message handler is one thread, so that a message is one step.        *)
(* External: the peers, all of them preferred for download.  Left out: ban   *)
(* scores below 100, direct fetch of blocks, hashLastUnknownBlock, and       *)
(* headers that do not follow each other (no peer sends them).               *)
(***************************************************************************)
EXTENDS BlockTree, Sequences

CONSTANTS
    Peers,
    Outbound,            \* peers that may be disconnected for too little work
    Resting,             \* peers whose chain does not grow
    NoBan,               \* peers with the noban permission
    Invalid,             \* headers that AcceptBlockHeader refuses
    Recent,              \* headers younger than nMaxTipAge
    Tips,                \* tips that the active chain of a peer may have
    nMinimumChainWork,
    MAX_HEADERS_RESULTS,
    MAX_BLOCKS_TO_ANNOUNCE,
    COMMITMENT_PERIOD,   \* HEADER_PRESYNC_COMMITMENT_PERIOD
    MAX_PRESYNC_PEERS,
    MaxCommitments,      \* m_max_commitments
    MaxQueue,            \* bound on the messages between us and a peer
    MaxSyncStarted,      \* bound on nSyncStarted
    MaxFaults,           \* bound on the timeouts and lost connections
    None                 \* a model value: nullptr

ASSUME HeadersAssumption ==
    /\ IsFiniteSet(Peers) /\ Tips \subseteq Blocks
    /\ COMMITMENT_PERIOD \in Nat \ {0} /\ MAX_HEADERS_RESULTS \in Nat \ {0}
    /\ nMinimumChainWork \in Nat /\ MAX_PRESYNC_PEERS \in Nat

Highest(S) == CHOOSE b \in S : \A c \in S : Height[c] <= Height[b]

VARIABLES
    index,          \* the headers of the block index
    ibd,            \* IsInitialBlockDownload
    pindexBestHeader,
    nSyncStarted,
    conn,           \* peers that are connected
    fDisconnect,    \* those about to be disconnected
    fSyncStarted,
    sync,           \* m_headers_sync of a peer, or None
    bestKnown,      \* pindexBestKnownBlock of a peer
    punished,       \* history: why Misbehaving(100) was called, or None
    faults,         \* how many timeouts and lost connections there were
    tip, sent,      \* (external) a peer's tip and the last header it sent us
    toPeer,         \* (external) the locators of getheaders on their way
    fromPeer        \* (external) messages on their way to us

vars == <<index, ibd, pindexBestHeader, nSyncStarted, conn, fDisconnect, fSyncStarted,
          sync, bestKnown, punished, faults, tip, sent, toPeer, fromPeer>>

nodeVars == <<index, ibd, pindexBestHeader>>
syncVars == <<nSyncStarted, fSyncStarted, sync, bestKnown, punished>>
peerVars == <<tip, sent>>

Init ==
    /\ index = {Root} /\ ibd = TRUE /\ pindexBestHeader = Root
    /\ nSyncStarted = 0
    /\ conn = Peers /\ fDisconnect = {}
    /\ fSyncStarted = [p \in Peers |-> FALSE]
    /\ sync = [p \in Peers |-> None]
    /\ bestKnown = [p \in Peers |-> None]
    /\ punished = [p \in Peers |-> None]
    /\ faults = 0
    /\ tip \in [Peers -> Tips]
    /\ sent = [p \in Peers |-> Root]
    /\ toPeer = [p \in Peers |-> <<>>]
    /\ fromPeer = [p \in Peers |-> <<>>]

fNearTip == pindexBestHeader \in Recent

\* CChain::GetLocator: on a short chain every ancestor.
GetLocator(b) == Anc[b]

-----------------------------------------------------------------------------
(* The peers. *)

Room(p) == Len(toPeer[p]) + Len(fromPeer[p]) < MaxQueue

\* The chain of p moves to a longer tip, which is announced: by a header when p
\* thinks that we have its parent, otherwise by an inv.
NewTip(p, b) ==
    /\ p \in conn \ Resting
    /\ Height[b] > Height[tip[p]]
    /\ Room(p)
    /\ tip' = [tip EXCEPT ![p] = b]
    /\ IF Parent[b] \in Anc[sent[p]]
       THEN /\ fromPeer' = [fromPeer EXCEPT ![p] = Append(@, [type |-> "headers", what |-> <<b>>])]
            /\ sent' = [sent EXCEPT ![p] = b]
       ELSE /\ fromPeer' = [fromPeer EXCEPT ![p] = Append(@, [type |-> "inv", what |-> <<b>>])]
            /\ UNCHANGED sent
    /\ UNCHANGED <<nodeVars, syncVars, conn, fDisconnect, faults, toPeer>>

\* The headers of p's chain that follow b, at most MAX_HEADERS_RESULTS.
After(p, b) ==
    LET n == Height[tip[p]] - Height[b]
        k == IF n < MAX_HEADERS_RESULTS THEN n ELSE MAX_HEADERS_RESULTS
    IN  [i \in 1..k |-> GetAncestor(tip[p], Height[b] + i)]

\* getheaders is answered from the last header of the locator that p's chain has.
Answer(p) ==
    /\ p \in conn /\ toPeer[p] # <<>>
    /\ LET hs == After(p, Highest(Head(toPeer[p]) \cap Anc[tip[p]]))
       IN  /\ fromPeer' = [fromPeer EXCEPT ![p] = Append(@, [type |-> "headers", what |-> hs])]
           /\ sent' = [sent EXCEPT ![p] = IF hs = <<>> THEN tip[p] ELSE hs[Len(hs)]]
    /\ toPeer' = [toPeer EXCEPT ![p] = Tail(@)]
    /\ UNCHANGED <<nodeVars, syncVars, conn, fDisconnect, faults, tip>>

-----------------------------------------------------------------------------
(* The start and the end of the synchronisation with a peer. *)

StartSync(p, locator) ==
    /\ fSyncStarted' = [fSyncStarted EXCEPT ![p] = TRUE]
    /\ nSyncStarted' = nSyncStarted + 1
    /\ toPeer' = [toPeer EXCEPT ![p] = Append(@, locator)]

\* "Start block sync" of SendMessages.
SendMessages(p) ==
    /\ p \in conn \ fDisconnect
    /\ ~fSyncStarted[p] /\ sync[p] = None
    /\ \/ nSyncStarted < (IF ibd /\ ~fNearTip THEN MAX_PRESYNC_PEERS ELSE 1)
       \/ fNearTip
    /\ nSyncStarted < MaxSyncStarted /\ Room(p)
    /\ StartSync(p, GetLocator(IF pindexBestHeader = Root THEN Root ELSE Parent[pindexBestHeader]))
    /\ UNCHANGED <<nodeVars, conn, fDisconnect, sync, bestKnown, punished, faults, peerVars,
                   fromPeer>>

\* Mutant of StopSync: the slot is given back, the peer keeps it.
StopSyncHalf(p) ==
    /\ nSyncStarted' = IF fSyncStarted[p] THEN nSyncStarted - 1 ELSE nSyncStarted
    /\ UNCHANGED fSyncStarted

\* if (state->fSyncStarted) { nSyncStarted--; state->fSyncStarted = false; }
StopSync(p) ==
    /\ nSyncStarted' = IF fSyncStarted[p] THEN nSyncStarted - 1 ELSE nSyncStarted
    /\ fSyncStarted' = [fSyncStarted EXCEPT ![p] = FALSE]

\* Everything that is known of p goes, and what was on its way is lost
\* (FinalizeNode).  A new connection starts from nothing.
FinalizeNode(p) ==
    /\ p \in conn
    /\ IF p \in fDisconnect THEN UNCHANGED faults
       ELSE faults < MaxFaults /\ faults' = faults + 1
    /\ conn' = conn \ {p} /\ fDisconnect' = fDisconnect \ {p}
    /\ StopSync(p)
    /\ sync' = [sync EXCEPT ![p] = None]
    /\ bestKnown' = [bestKnown EXCEPT ![p] = None]
    /\ toPeer' = [toPeer EXCEPT ![p] = <<>>]
    /\ fromPeer' = [fromPeer EXCEPT ![p] = <<>>]
    /\ sent' = [sent EXCEPT ![p] = Root]
    /\ UNCHANGED <<nodeVars, punished, tip>>

Reconnect(p) ==
    /\ p \notin conn /\ punished[p] = None
    /\ conn' = conn \cup {p}
    /\ UNCHANGED <<nodeVars, syncVars, fDisconnect, faults, peerVars, toPeer, fromPeer>>

\* The timeout of SendMessages, for a peer with the noban permission (without
\* it the peer is disconnected, see FinalizeNode).  Somebody else must be there.
Timeout(p) ==
    /\ p \in (conn \cap NoBan) \ fDisconnect /\ fSyncStarted[p] /\ ~fNearTip
    /\ conn # {p} /\ faults < MaxFaults
    /\ faults' = faults + 1
    /\ nSyncStarted = 1 \/ sync[p] # None
    /\ StopSync(p)
    /\ sync' = [sync EXCEPT ![p] = None]
    /\ UNCHANGED <<nodeVars, conn, fDisconnect, bestKnown, punished, peerVars, toPeer, fromPeer>>

\* The block download, of which only this is modelled: the blocks up to a tip
\* with enough work are there, and IsInitialBlockDownload latches.
LeaveIBD ==
    /\ ibd /\ fNearTip /\ Height[pindexBestHeader] >= nMinimumChainWork
    /\ ibd' = FALSE
    /\ UNCHANGED <<index, pindexBestHeader, syncVars, conn, fDisconnect, faults, peerVars, toPeer,
                   fromPeer>>

-----------------------------------------------------------------------------
(* The inv of a block and the headers message. *)

\* getheaders.
Request(p, locator) == toPeer' = [toPeer EXCEPT ![p] = Append(@, locator)]

\* The locator of a header that the index does not have cannot be built.
RequestAfter(p, b, known) == IF b \in known THEN Request(p, GetLocator(b)) ELSE UNCHANGED toPeer

Take(p) ==
    /\ p \in conn \ fDisconnect
    /\ fromPeer[p] # <<>>
    /\ fromPeer' = [fromPeer EXCEPT ![p] = Tail(@)]

Message(p) == Head(fromPeer[p])

\* UpdateBlockAvailability.
Known(p, h) ==
    IF bestKnown[p] = None \/ Height[h] >= Height[bestKnown[p]] THEN h ELSE bestKnown[p]

\* An inv of a block: "Only actively request headers from a single peer, unless
\* we're close to end of initial download."
ProcessInv(p) ==
    /\ Take(p) /\ Message(p).type = "inv"
    /\ LET b == Message(p).what[1]
       IN  \/ /\ b \in index
              /\ bestKnown' = [bestKnown EXCEPT ![p] = Known(p, b)]
              /\ UNCHANGED <<nSyncStarted, fSyncStarted, toPeer>>
           \/ /\ b \notin index
              /\ IF nSyncStarted = 0 \/ fNearTip
                 THEN nSyncStarted < MaxSyncStarted /\ StartSync(p, GetLocator(pindexBestHeader))
                 ELSE UNCHANGED <<nSyncStarted, fSyncStarted, toPeer>>
              /\ UNCHANGED bestKnown
    /\ UNCHANGED <<nodeVars, conn, fDisconnect, sync, punished, faults, peerVars>>

\* The headers up to the first one that is refused.
Valid(hs) ==
    SubSeq(hs, 1, CHOOSE n \in 0..Len(hs) :
                      /\ \A i \in 1..n : Anc[hs[i]] \cap Invalid = {}
                      /\ n < Len(hs) => Anc[hs[n + 1]] \cap Invalid # {})

\* ProcessNewBlockHeaders and, for its last header, UpdateBlockAvailability.
Accept(p, hs) ==
    /\ index' = index \cup {hs[i] : i \in DOMAIN hs}
    /\ pindexBestHeader' =
          IF hs # <<>> /\ Height[hs[Len(hs)]] > Height[pindexBestHeader]
          THEN hs[Len(hs)] ELSE pindexBestHeader
    /\ UNCHANGED ibd

\* A peer that is told to go: Misbehaving(100), or only fDisconnect.
Drop(p, why) ==
    /\ fDisconnect' = fDisconnect \cup {p}
    /\ punished' = [punished EXCEPT ![p] = why]

\* ProcessHeadersMessage without an active HeadersSyncState.
\* Fewer than MAX_BLOCKS_TO_ANNOUNCE headers that do not connect look like an
\* announcement; more are refused by ProcessNewBlockHeaders.
Unconnecting(p, hs) ==
    /\ Parent[hs[1]] \notin index
    /\ IF Len(hs) < MAX_BLOCKS_TO_ANNOUNCE
       THEN Request(p, GetLocator(pindexBestHeader)) ELSE UNCHANGED toPeer
    /\ UNCHANGED <<nodeVars, nSyncStarted, fDisconnect, fSyncStarted, sync, bestKnown, punished>>

\* The work that this message and what it builds on show.
Work(hs) == Height[Parent[hs[1]]] + Len(hs)

StartsPresync(hs) == ibd /\ Len(hs) = MAX_HEADERS_RESULTS /\ Work(hs) < nMinimumChainWork

\* "Fix 3: detect low-work chains reactively during IBD and start presync".
StartPresync(p, hs) ==
    /\ Parent[hs[1]] \in index /\ StartsPresync(hs)
    /\ LET start == Parent[hs[1]]
       IN  /\ sync' = [sync EXCEPT ![p] =
                 [phase |-> "PRESYNC", start |-> start, tip |-> start, height |-> Height[start],
                  work |-> Height[start], commitments |-> <<>>,
                  prev |-> start, redownloaded |-> Height[start], next |-> 1]]
           /\ Request(p, GetLocator(start))
    /\ UNCHANGED <<nodeVars, nSyncStarted, fDisconnect, fSyncStarted, bestKnown, punished>>

AcceptHeaders(p, hs) ==
    /\ Parent[hs[1]] \in index /\ ~StartsPresync(hs)
    /\ Accept(p, Valid(hs))
    /\ IF Valid(hs) # hs
       THEN Drop(p, "invalid") /\ UNCHANGED <<bestKnown, toPeer>>
       ELSE LET last == hs[Len(hs)]
                full == Len(hs) = MAX_HEADERS_RESULTS
            IN  /\ bestKnown' = [bestKnown EXCEPT ![p] = Known(p, last)]
                /\ IF full THEN Request(p, GetLocator(last)) ELSE UNCHANGED toPeer
                /\ IF /\ ibd /\ ~full /\ p \in Outbound
                      /\ Height[Known(p, last)] < nMinimumChainWork
                   THEN fDisconnect' = fDisconnect \cup {p}
                   ELSE UNCHANGED fDisconnect
                /\ UNCHANGED punished
    /\ UNCHANGED <<nSyncStarted, fSyncStarted, sync>>

-----------------------------------------------------------------------------
(* MaybeProcessPresyncHeaders with ProcessNextHeaders. *)

\* A failure of ProcessNextHeaders.
Fail(p, why) ==
    /\ Drop(p, why)
    /\ StopSync(p)
    /\ sync' = [sync EXCEPT ![p] = None]
    /\ UNCHANGED <<nodeVars, bestKnown, toPeer>>

\* Mutant of RedownloadFrom: the header after which presync ended.
RedownloadFromTip(s) == s.tip

\* The header after which the chain is downloaded again.
RedownloadFrom(s) == s.start

\* The commitments after each header of hs, the first of which is at height + 1.
Committed(commitments, height, hs) ==
    LET c[i \in 0..Len(hs)] ==
            IF i = 0 THEN commitments
            ELSE IF (height + i) % COMMITMENT_PERIOD # 0 THEN c[i - 1]
            ELSE Append(c[i - 1], [height |-> height + i, hash |-> hs[i]])
    IN  c

Presync(p, hs) ==
    LET s == sync[p]
        n == Len(hs)
        commitments == Committed(s.commitments, s.height, hs)[n]
        t == [s EXCEPT !.tip = hs[n], !.height = @ + n, !.work = @ + n,
                       !.commitments = commitments]
    IN  /\ s.phase = "PRESYNC"
        /\ \/ /\ Parent[hs[1]] # s.tip
              /\ Fail(p, "not continuous")
           \/ /\ Parent[hs[1]] = s.tip
              /\ \/ Len(commitments) > MaxCommitments
                 \/ t.work < nMinimumChainWork /\ n < MAX_HEADERS_RESULTS
              /\ Fail(p, None)
           \/ /\ Parent[hs[1]] = s.tip
              /\ Len(commitments) <= MaxCommitments
              /\ \/ /\ t.work >= nMinimumChainWork
                    /\ sync' = [sync EXCEPT ![p] = [t EXCEPT !.phase = "REDOWNLOAD"]]
                    /\ RequestAfter(p, RedownloadFrom(t), index)
                 \/ /\ t.work < nMinimumChainWork /\ n = MAX_HEADERS_RESULTS
                    /\ sync' = [sync EXCEPT ![p] = t]
                    /\ Request(p, {t.tip} \cup GetLocator(s.start))
              /\ UNCHANGED <<nodeVars, nSyncStarted, fDisconnect, fSyncStarted, bestKnown,
                             punished>>

\* commit_idx is at the commitment of this height.
FallsOn(s, idx, height) == idx <= Len(s.commitments) /\ s.commitments[idx].height = height

\* commit_idx after each header of hs.
Passed(s, hs) ==
    LET idx[i \in 0..Len(hs)] ==
            IF i = 0 THEN s.next
            ELSE idx[i - 1] + (IF FallsOn(s, idx[i - 1], s.redownloaded + i) THEN 1 ELSE 0)
    IN  idx

\* Mutant of Mismatch: the commitments are not looked at.
MismatchIgnored(s, hs) == FALSE

Mismatch(s, hs) == \E i \in 1..Len(hs) :
    LET idx == Passed(s, hs)[i - 1]
    IN  FallsOn(s, idx, s.redownloaded + i) /\ s.commitments[idx].hash # hs[i]

Redownload(p, hs) ==
    LET s == sync[p]
        t == [s EXCEPT !.prev = hs[Len(hs)], !.redownloaded = @ + Len(hs),
                       !.next = Passed(s, hs)[Len(hs)]]
        full == Len(hs) = MAX_HEADERS_RESULTS
    IN  /\ s.phase = "REDOWNLOAD"
        /\ \/ /\ Parent[hs[1]] # s.prev
              /\ Fail(p, "not continuous")
           \/ /\ Parent[hs[1]] = s.prev /\ Mismatch(s, hs)
              /\ Fail(p, "commitment")
           \/ /\ Parent[hs[1]] = s.prev /\ ~Mismatch(s, hs)
              /\ Accept(p, Valid(hs))
              /\ IF Valid(hs) # hs
                 THEN /\ Drop(p, "invalid")
                      /\ StopSync(p)
                      /\ sync' = [sync EXCEPT ![p] = None]
                      /\ UNCHANGED <<bestKnown, toPeer>>
                 ELSE /\ bestKnown' = [bestKnown EXCEPT ![p] = Known(p, hs[Len(hs)])]
                      /\ sync' = [sync EXCEPT ![p] = IF full THEN t ELSE None]
                      /\ IF full
                         THEN /\ RequestAfter(p, t.prev, index')
                              /\ UNCHANGED <<nSyncStarted, fSyncStarted>>
                         ELSE StopSync(p) /\ UNCHANGED toPeer
                      /\ UNCHANGED <<fDisconnect, punished>>

\* "Nothing interesting": an empty message changes nothing.
ProcessHeadersMessage(p) ==
    /\ Take(p) /\ Message(p).type = "headers"
    /\ LET hs == Message(p).what
       IN  \/ /\ hs = <<>>
              /\ UNCHANGED <<nodeVars, nSyncStarted, fDisconnect, fSyncStarted, sync, bestKnown,
                             punished, toPeer>>
           \/ /\ hs # <<>> /\ sync[p] # None
              /\ Presync(p, hs) \/ Redownload(p, hs)
           \/ /\ hs # <<>> /\ sync[p] = None
              /\ Unconnecting(p, hs) \/ StartPresync(p, hs) \/ AcceptHeaders(p, hs)
    /\ UNCHANGED <<faults, conn, peerVars>>

-----------------------------------------------------------------------------
Next ==
    \/ LeaveIBD
    \/ \E p \in Peers :
         \/ \E b \in Tips : NewTip(p, b)
         \/ Answer(p) \/ SendMessages(p) \/ FinalizeNode(p) \/ Reconnect(p) \/ Timeout(p)
         \/ ProcessInv(p) \/ ProcessHeadersMessage(p)

Spec == Init /\ [][Next]_vars

\* The message handler serves the resting peers, and they answer while they stay
\* connected.  Nobody has to find a block, to disconnect, to come back, or to be
\* slow, and the other peers need not be served at all.
Fairness == \A p \in Resting :
    /\ WF_vars(Answer(p)) /\ WF_vars(SendMessages(p))
    /\ WF_vars(ProcessInv(p) \/ ProcessHeadersMessage(p))

FairSpec == Spec /\ Fairness

-----------------------------------------------------------------------------
(* Properties. *)

\* Up to the last commitment that was checked, what is downloaded again is the
\* chain that showed nMinimumChainWork, and no commitment is passed over: fewer
\* than a period of headers are ever accepted on trust before the last one
\* (ProcessNextHeaders).
CommitmentsBind == \A p \in Peers :
    sync[p] # None /\ sync[p].phase = "REDOWNLOAD" =>
        LET s == sync[p]
            checked == IF s.next = 1 THEN s.start ELSE s.commitments[s.next - 1].hash
        IN  /\ Height[s.tip] >= nMinimumChainWork
            /\ checked \in Anc[s.tip] \cap Anc[s.prev]
            /\ s.next <= Len(s.commitments) => Height[s.prev] - Height[checked] < COMMITMENT_PERIOD

\* Every peer that synchronises has its slot: the slots that are given back when
\* peers fail, finish, time out or leave were taken, so that nSyncStarted does
\* not fall below the number of peers with fSyncStarted (net_processing.cpp).
SlotsCovered == nSyncStarted >= Cardinality({p \in Peers : fSyncStarted[p]})

\* "Number of nodes with fSyncStarted."
SlotsCounted == nSyncStarted = Cardinality({p \in Peers : fSyncStarted[p]})

\* "misbehaving == true means the peer sent provably invalid data (bad PoW or
\* commitment mismatch)".
PunishedForInvalidData == \A p \in Peers : punished[p] # "not continuous"

\* The headers of a peer that stays, and whose chain rests and has enough work,
\* arrive, by presync or without it, whatever the other peers do
\* (ProcessHeadersMessage, SendMessages).
HeadersArrive == \A p \in Resting :
    []<>(p \in conn \ fDisconnect /\ Height[tip[p]] >= nMinimumChainWork => tip[p] \in index)

=============================================================================
