----------------------------- MODULE ChainState -----------------------------
(***************************************************************************)
(* The chain state on disk and its recovery: connecting and disconnecting  *)
(* blocks over the coins cache and the EvoDB (validation.cpp), the flush    *)
(* that writes the block index, then the coins in several batches, then     *)
(* the EvoDB (validation.cpp, txdb.cpp), and the start-up sequence that     *)
(* replays an interrupted flush, rewinds after an unclean shutdown and      *)
(* verifies the result (init.cpp).  The process may die between any two     *)
(* writes.                                                                  *)
(*                                                                          *)
(* Everything here runs under cs_main, so only the writes to disk divide a  *)
(* handler into steps.  A coin is abstracted to its presence in the set of  *)
(* unspent outputs; the flags of the cache are the subject of CoinsCache,   *)
(* the transactions of the EvoDB that of EvoDB.  No reorganisation          *)
(* disconnects Root.                                                        *)
(***************************************************************************)
EXTENDS BlockTree, Sequences, SequencesExt

CONSTANTS
    Txs,            \* the transactions of each block: sequences of [vin, vout]
    Outs,           \* the outpoints
    NoBlock,        \* a null hash
    DIP0003Height,  \* first height at which the EvoDB is verified and filled
    RecoveryDepth,  \* AUTO_BLOCK_RECOVERY_DEPTH
    CheckDepth,     \* nCheckDepth: -checkblocks, or the height when that is 0
    FailingWrites,  \* the writes that may fail: subset of the pc values of FlushFails
    MaxCrashes,     \* bound: crashes of the process
    MaxIOErrors     \* bound: database writes that fail

ASSUME ChainAssumption ==
    /\ Txs \in [Blocks -> Seq([vin : SUBSET Outs, vout : SUBSET Outs])]
    /\ NoBlock \notin Blocks
    /\ DIP0003Height \in Nat
    /\ CheckDepth \in Nat

\* The EvoDB is in use from Root on, as on every network today.
DeepRoot == RootHeight > 0 /\ RootHeight >= DIP0003Height

\* No batch of coins fails to be written.
CoinsWritesSucceed == "coins" \notin FailingWrites

VARIABLES
    blockTree,  \* the block index on disk
    coinsDB,    \* the coins database: coins, DB_BEST_BLOCK, DB_HEAD_BLOCKS
    evoDB,      \* the EvoDB on disk: best block, blocks whose special txs it holds
    marker,     \* the file .startup-incomplete exists
    known,      \* m_block_index
    cache,      \* CoinsTip(): best block, unspent and spent entries that are DIRTY
    evo,        \* the EvoDB as read through its root transaction
    pc,         \* where the node is
    after,      \* where it continues after a flush
    boot,       \* the locals of AppInitMain's load loop
    rewoundTo,  \* history: the tip RewindBlockDatabase reported
    crashes, ioErrors

mem  == <<known, cache, evo, boot, rewoundTo>>
disk == <<blockTree, coinsDB, evoDB, marker>>
vars == <<blockTree, coinsDB, evoDB, marker, known, cache, evo, pc, after,
          boot, rewoundTo, crashes, ioErrors>>

-----------------------------------------------------------------------------
(* Blocks and their effect on the unspent outputs. *)

\* The blocks from Root (excluded) to b.
Chain == [b \in Blocks |-> Anc[b] \ {Root}]

\* UpdateCoins in ConnectBlock, and RollforwardBlock: spend the inputs, then
\* add the outputs.  Spending what is spent and adding what is there are no-ops.
ApplyTx(view, tx) == (view \ tx.vin) \cup tx.vout

\* The coins after each transaction of b.
TxsApplied(view, b) ==
    LET applied[i \in 0..Len(Txs[b])] == IF i = 0 THEN view ELSE ApplyTx(applied[i - 1], Txs[b][i])
    IN  applied

ConnectCoins(view, b) == TxsApplied(view, b)[Len(Txs[b])]

\* DisconnectBlock, from the last transaction to the first: spend the outputs,
\* restore the inputs; not clean when an output is missing or an input there.
UndoTx(tx, st) ==
    [view  |-> (st.view \ tx.vout) \cup tx.vin,
     clean |-> st.clean /\ tx.vout \subseteq st.view
                        /\ tx.vin \cap (st.view \ tx.vout) = {}]

\* Mutant of TxsUndone: the transactions are undone from the first to the last.
TxsUndoneForward(view, b) ==
    LET undone[k \in 0..Len(Txs[b])] ==
            IF k = 0 THEN [view |-> view, clean |-> TRUE] ELSE UndoTx(Txs[b][k], undone[k - 1])
    IN  undone

\* The coins after the last k transactions of b have been undone.
TxsUndone(view, b) ==
    LET n == Len(Txs[b])
        undone[k \in 0..n] ==
            IF k = 0 THEN [view |-> view, clean |-> TRUE] ELSE UndoTx(Txs[b][n - k + 1], undone[k - 1])
    IN  undone

DisconnectCoins(view, b) == TxsUndone(view, b)[Len(Txs[b])]

\* The inputs of each transaction of b are unspent and its outputs are new.
Connectable(view, b) ==
    \A i \in 1..Len(Txs[b]) :
        LET before == TxsApplied(view, b)[i - 1]
        IN  Txs[b][i].vin \subseteq before /\ Txs[b][i].vout \cap before = {}

\* The loop of ReplayBlocks: the coins after each block from fork, excluded, to new.
BlocksApplied(view, fork, new) ==
    LET rolled[n \in 0..(Height[new] - Height[fork])] ==
            IF n = 0 THEN view ELSE ConnectCoins(rolled[n - 1], GetAncestor(new, Height[fork] + n))
    IN  rolled

RollForward(view, fork, new) == BlocksApplied(view, fork, new)[Height[new] - Height[fork]]

\* Reference: the unspent outputs and the EvoDB contents of the chain ending in b.
Utxo == [b \in Blocks |-> RollForward({}, Root, b)]
EvoOf(b) == {c \in Chain[b] : Height[c] >= DIP0003Height}

-----------------------------------------------------------------------------
(* The coins cache over the database. *)

View == (coinsDB.coins \ cache.del) \cup cache.add

\* A cache over the database whose contents are view, its best block b.
CacheOf(view, b) ==
    [best |-> b, add |-> view \ coinsDB.coins, del |-> coinsDB.coins \ view]

Clean(b) == [best |-> b, add |-> {}, del |-> {}]

\* CEvoDB::VerifyBestBlock, as ConnectBlock and DisconnectBlock call it for a
\* block at height h.
VerifyBestBlock(h, b) == h >= DIP0003Height => evo.best = b

EvoConnect(e, b) ==
    [best |-> b, applied |-> e.applied \cup (EvoOf(b) \cap {b})]

EvoDisconnect(e, b) == [best |-> Parent[b], applied |-> e.applied \ {b}]

NoBoot == [recover |-> FALSE, attempted |-> FALSE, left |-> 0]

-----------------------------------------------------------------------------
Init ==
    /\ blockTree = {Root}
    /\ coinsDB = [coins |-> {}, best |-> Root, heads |-> <<>>]
    /\ evoDB = [best |-> IF RootHeight = 0 THEN NoBlock ELSE Root, applied |-> {}]
    /\ marker = TRUE
    /\ known = {Root}
    /\ cache = Clean(Root)
    /\ evo = evoDB
    /\ pc = "running"
    /\ after = "running"
    /\ boot = NoBoot
    /\ rewoundTo = NoBlock
    /\ crashes = 0
    /\ ioErrors = 0

\* Continue at p, or first run FlushStateToDisk there: IF_NEEDED and PERIODIC
\* flush when a cache is too large or some time has passed.
Goto(p) == pc' = p /\ UNCHANGED after

FlushThen(p) == pc' = "index" /\ after' = p

\* AbortNode and StartShutdown: the node goes through PrepareShutdown, which
\* flushes twice and then removes the marker.
Abort == FlushThen("stop")

-----------------------------------------------------------------------------
(* The running node. *)

\* AcceptBlock / AddToBlockIndex.
AcceptBlock(b) ==
    /\ pc = "running"
    /\ b \notin known
    /\ Parent[b] \in known
    /\ known' = known \cup {b}
    /\ UNCHANGED <<disk, cache, evo, pc, after, boot, rewoundTo, crashes, ioErrors>>

\* ConnectTip: the block view and the EvoDB transaction are committed together
\* in memory, then the state is written if needed.
ConnectTip(b) ==
    /\ pc = "running"
    /\ b \in known \ {Root}
    /\ Parent[b] = cache.best
    /\ IF ~VerifyBestBlock(Height[b], Parent[b])
       THEN Abort /\ UNCHANGED <<cache, evo>>
       ELSE /\ Connectable(View, b)
            /\ cache' = CacheOf(ConnectCoins(View, b), b)
            /\ evo' = EvoConnect(evo, b)
            /\ Goto("running") \/ FlushThen("running")
    /\ rewoundTo' = NoBlock
    /\ UNCHANGED <<disk, known, boot, crashes, ioErrors>>

\* DisconnectTip, from the running node (p = "running") or from
\* RewindBlockDatabase (p = "rewind").
DisconnectTip(p) ==
    LET b == cache.best
        undo == DisconnectCoins(View, b)
    IN  /\ b # Root
        /\ VerifyBestBlock(Height[b], b)
        /\ undo.clean
        /\ cache' = CacheOf(undo.view, Parent[b])
        /\ evo' = EvoDisconnect(evo, b)
        /\ Goto(p) \/ FlushThen(p)
        /\ UNCHANGED <<disk, known, crashes, ioErrors>>

\* DisconnectBlock finds the EvoDB inconsistent, or the coins not clean.
DisconnectFails ==
    \/ ~VerifyBestBlock(Height[cache.best], cache.best)
    \/ ~DisconnectCoins(View, cache.best).clean

DisconnectTipRunning ==
    /\ pc = "running"
    /\ DisconnectTip("running")
    /\ rewoundTo' = NoBlock
    /\ UNCHANGED boot

DisconnectTipAborts ==
    /\ pc = "running"
    /\ cache.best # Root
    /\ ~VerifyBestBlock(Height[cache.best], cache.best)
    /\ Abort
    /\ UNCHANGED <<disk, mem, crashes, ioErrors>>

\* FlushStateToDisk(PERIODIC or ALWAYS) of the running node, and PrepareShutdown.
BeginFlush ==
    /\ pc = "running"
    /\ FlushThen("running") \/ FlushThen("stop")
    /\ UNCHANGED <<disk, mem, crashes, ioErrors>>

-----------------------------------------------------------------------------
(* FlushStateToDisk: three writes, in this order. *)

\* Mutants of WriteBlockIndex: the index is not written before the coins, and
\* the EvoDB is.
WriteNoIndex ==
    /\ pc = "index"
    /\ Goto("coins")
    /\ UNCHANGED <<disk, mem, crashes, ioErrors>>

WriteIndexAndEvoDB ==
    /\ pc = "index"
    /\ blockTree' = known
    /\ evoDB' = evo
    /\ Goto("coins")
    /\ UNCHANGED <<coinsDB, marker, mem, crashes, ioErrors>>

\* fPeriodicWrite stops after the block index; a full flush goes on.
WriteBlockIndex ==
    /\ pc = "index"
    /\ blockTree' = known
    /\ \/ Goto("coins")
       \/ after = "running" /\ Goto("running")
    /\ UNCHANGED <<coinsDB, evoDB, marker, mem, crashes, ioErrors>>

\* CCoinsViewDB::BatchWrite: old_tip, when the database is mid-way already.
OldTip == IF coinsDB.heads = <<>> THEN coinsDB.best ELSE coinsDB.heads[2]

Writing == pc \in {"coins", "replay"}

\* The database after the entries out have been written.
Written(out) == (coinsDB.coins \ (cache.del \cap out)) \cup (cache.add \cap out)

\* The entries out leave the cache as they enter the batch.
Taken(out) == [cache EXCEPT !.add = @ \ out, !.del = @ \ out]

\* A partial batch: the first one also replaces the best block by the heads.
WritePartialBatch ==
    /\ Writing
    /\ \E out \in SUBSET (cache.add \cup cache.del) :
          /\ out # {}
          /\ coinsDB' = [coins |-> Written(out), best |-> NoBlock,
                         heads |-> <<cache.best, OldTip>>]
          /\ cache' = Taken(out)
    /\ UNCHANGED <<blockTree, evoDB, marker, known, evo, pc, after, boot, rewoundTo,
                   crashes, ioErrors>>

\* Mutant of WriteFinalBatch: the best block written is the one from before.
WriteFinalOldTip ==
    /\ Writing
    /\ coinsDB' = [coins |-> Written(Outs), best |-> OldTip, heads |-> <<>>]
    /\ cache' = Clean(cache.best)
    /\ Goto(IF pc = "coins" THEN "evo" ELSE "commit")
    /\ UNCHANGED <<blockTree, evoDB, marker, known, evo, boot, rewoundTo, crashes, ioErrors>>

\* The last batch: the rest of the entries, and the best block again.
WriteFinalBatch ==
    /\ Writing
    /\ coinsDB' = [coins |-> Written(Outs), best |-> cache.best, heads |-> <<>>]
    /\ cache' = Clean(cache.best)
    /\ Goto(IF pc = "coins" THEN "evo" ELSE "commit")
    /\ UNCHANGED <<blockTree, evoDB, marker, known, evo, boot, rewoundTo, crashes, ioErrors>>

\* CEvoDB::CommitRootTransaction of the flush.
\* PrepareShutdown calls ForceFlushStateToDisk twice.
AfterFlush ==
    IF after = "stop" THEN FlushThen("exit") ELSE Goto(after)

CommitEvoDB ==
    /\ pc = "evo"
    /\ evoDB' = evo
    /\ AfterFlush
    /\ UNCHANGED <<blockTree, coinsDB, marker, mem, crashes, ioErrors>>

\* A write that fails throws: FlushStateToDisk turns it into AbortNode, and the
\* shutdown flushes again.  The entries of a coins batch have left the cache.
\* During ReplayBlocks there is no cache to flush yet: the node just exits.
FlushFails ==
    /\ pc \in FailingWrites \cap {"index", "coins", "evo", "replay", "commit"}
    /\ ioErrors < MaxIOErrors
    /\ ioErrors' = ioErrors + 1
    /\ \/ cache' = cache
       \/ pc = "coins" /\ \E out \in SUBSET (cache.add \cup cache.del) :
                              out # {} /\ cache' = Taken(out)
    /\ CASE pc = "replay" \/ after = "exit" -> Goto("exit")
         [] pc # "replay" /\ after = "stop"  -> FlushThen("exit")
         [] OTHER                            -> Abort
    /\ UNCHANGED <<disk, known, evo, boot, rewoundTo, crashes>>

\* The end of PrepareShutdown: ClearStartupRecoveryMarker.
ClearMarker ==
    /\ pc = "exit"
    /\ marker' = FALSE
    /\ pc' = "down"
    /\ known' = {} /\ cache' = Clean(NoBlock) /\ evo' = evoDB
    /\ boot' = NoBoot /\ rewoundTo' = NoBlock /\ after' = "running"
    /\ UNCHANGED <<blockTree, coinsDB, evoDB, crashes, ioErrors>>

Crash ==
    /\ pc # "down"
    /\ crashes < MaxCrashes
    /\ crashes' = crashes + 1
    /\ pc' = "down"
    /\ known' = {} /\ cache' = Clean(NoBlock) /\ evo' = evoDB
    /\ boot' = NoBoot /\ rewoundTo' = NoBlock /\ after' = "running"
    /\ UNCHANGED <<disk, ioErrors>>

-----------------------------------------------------------------------------
(* Start-up: AppInitMain, step 7b. *)

Start ==
    /\ pc = "down"
    /\ boot' = [NoBoot EXCEPT !.recover = marker]
    /\ marker' = TRUE
    /\ Goto("load")
    /\ UNCHANGED <<blockTree, coinsDB, evoDB, known, cache, evo, rewoundTo, crashes, ioErrors>>

\* Mutant of CanReplay: a fork is rolled forward too.
CanReplayFork(new, old) == {new, old} \subseteq blockTree

\* ReplayBlocks goes on only when both heads are known and the old tip is an
\* ancestor of the new one.
CanReplay(new, old) ==
    /\ {new, old} \subseteq blockTree
    /\ old \in Anc[new]

\* The load loop opens the databases again: what was in memory is gone.
\* ReplayBlocks rolls the coins and the EvoDB forward.
LoadAndReplay ==
    /\ pc = "load"
    /\ known' = blockTree
    /\ IF coinsDB.heads = <<>>
       THEN /\ cache' = Clean(coinsDB.best)
            /\ evo' = evoDB
            /\ Goto("commit")
       ELSE LET new == coinsDB.heads[1]
                old == coinsDB.heads[2]
            IN  IF CanReplay(new, old)
                THEN /\ cache' = CacheOf(RollForward(coinsDB.coins, LastCommonAncestor(old, new), new), new)
                     /\ evo' = [best |-> new, applied |-> evoDB.applied \cup
                                                   (EvoOf(new) \ Chain[old])]
                     /\ Goto("replay")
                ELSE /\ cache' = Clean(NoBlock)
                     /\ evo' = evoDB
                     /\ Goto("exit")
    /\ UNCHANGED <<disk, boot, rewoundTo, crashes, ioErrors>>

\* The EvoDB is flushed, LoadChainTip sets the tip.  After an unclean shutdown
\* the node rewinds before it verifies.
LoadChainTip ==
    /\ pc = "commit"
    /\ evoDB' = evo
    /\ CASE cache.best \notin known -> Abort /\ UNCHANGED boot
         [] cache.best \in known /\ boot.recover /\ ~boot.attempted
              /\ cache.best # Root ->
              /\ boot' = [boot EXCEPT !.left = RecoveryDepth]
              /\ Goto("rewind")
         [] OTHER -> Goto("verify") /\ UNCHANGED boot
    /\ UNCHANGED <<blockTree, coinsDB, marker, known, cache, evo, rewoundTo, crashes, ioErrors>>

\* RewindBlockDatabase, one block at a time.
RewindStep ==
    /\ pc = "rewind"
    /\ boot.left > 0
    /\ boot' = [boot EXCEPT !.left = @ - 1]
    /\ UNCHANGED rewoundTo
    /\ DisconnectTip("rewind")

\* It fails: the node is not loaded and exits.
RewindFails ==
    /\ pc = "rewind"
    /\ boot.left > 0
    /\ cache.best # Root
    /\ DisconnectFails
    /\ Abort
    /\ UNCHANGED <<disk, mem, crashes, ioErrors>>

\* Mutant of RewindDone: the loop does not remember the attempt.
RewindForgotten ==
    /\ pc = "rewind"
    /\ boot.left = 0 \/ cache.best = Root
    /\ rewoundTo' = cache.best
    /\ boot' = [boot EXCEPT !.left = 0]
    /\ Goto("load")
    /\ UNCHANGED <<disk, known, cache, evo, crashes, ioErrors>>

\* It is done: the loop runs again, with new database objects.
RewindDone ==
    /\ pc = "rewind"
    /\ boot.left = 0 \/ cache.best = Root
    /\ rewoundTo' = cache.best
    /\ boot' = [recover |-> FALSE, attempted |-> TRUE, left |-> 0]
    /\ Goto("load")
    /\ UNCHANGED <<disk, known, cache, evo, crashes, ioErrors>>

\* CVerifyDB::VerifyDB at level 3 on scratch copies of the coins and the EvoDB:
\* one more block disconnected, unless Root is reached.
VerifyBlock(st) ==
    IF st.b = Root THEN st
    ELSE LET undo == DisconnectCoins(st.view, st.b)
         IN  [view |-> undo.view, b |-> Parent[st.b], clean |-> st.clean /\ undo.clean]

\* The scratch coins after each block, from tip downwards.
BlocksVerified(view, tip) ==
    LET verified[n \in 0..CheckDepth] ==
            IF n = 0 THEN [view |-> view, b |-> tip, clean |-> TRUE] ELSE VerifyBlock(verified[n - 1])
    IN  verified

VerifyCoins(view, tip) == BlocksVerified(view, tip)[CheckDepth].clean

\* Mutant of VerifyEvoDB: the best block of the EvoDB is not compared.
VerifyNothing == TRUE

\* With only the genesis block there is nothing to verify.
VerifyEvoDB ==
    Height[cache.best] > 0 => VerifyBestBlock(Height[cache.best], cache.best)

VerifyDB ==
    /\ pc = "verify"
    /\ CASE ~VerifyEvoDB -> Abort /\ UNCHANGED boot
         [] VerifyEvoDB /\ ~VerifyCoins(View, cache.best) ->
              IF boot.attempted
              THEN Abort /\ UNCHANGED boot
              ELSE Goto("rewind") /\ boot' = [boot EXCEPT !.left = RecoveryDepth]
         [] OTHER -> Goto("running") /\ boot' = NoBoot
    /\ UNCHANGED <<disk, known, cache, evo, rewoundTo, crashes, ioErrors>>

-----------------------------------------------------------------------------
NodeStep ==
    \/ Start \/ LoadAndReplay \/ LoadChainTip
    \/ RewindStep \/ RewindFails \/ RewindDone \/ VerifyDB
    \/ WriteBlockIndex \/ WritePartialBatch \/ WriteFinalBatch \/ CommitEvoDB
    \/ ClearMarker

Next ==
    \/ \E b \in Blocks : AcceptBlock(b) \/ ConnectTip(b)
    \/ DisconnectTipRunning \/ DisconnectTipAborts \/ BeginFlush
    \/ NodeStep
    \/ FlushFails
    \/ Crash

Spec == Init /\ [][Next]_vars

\* A flush and the start-up run on the thread that began them until they are done.
FairSpec == Spec /\ WF_vars(NodeStep)

-----------------------------------------------------------------------------
(* Properties. *)

TypeOK ==
    /\ blockTree \subseteq Blocks /\ known \subseteq Blocks
    /\ coinsDB.coins \subseteq Outs
    /\ coinsDB.best \in Blocks \cup {NoBlock}
    /\ coinsDB.heads \in {<<>>} \cup (Blocks \X Blocks)
    /\ \A e \in {evoDB, evo} : e.best \in Blocks \cup {NoBlock} /\ e.applied \subseteq Blocks
    /\ cache.best \in Blocks \cup {NoBlock}
    /\ cache.add \subseteq Outs \ coinsDB.coins
    /\ cache.del \subseteq coinsDB.coins
    /\ marker \in BOOLEAN
    /\ pc \in {"down", "load", "replay", "commit", "rewind", "verify", "running",
              "index", "coins", "evo", "exit"}
    /\ after \in {"running", "rewind", "stop", "exit"}

\* Whatever flushes, replays and crashes came before: with a best block the
\* coins database holds exactly the unspent outputs of that block, and between
\* two heads every output the two tips agree on is right (CCoinsViewDB::
\* BatchWrite, ReplayBlocks).
CoinsMatchHeads ==
    IF coinsDB.heads = <<>>
    THEN coinsDB.coins = Utxo[coinsDB.best]
    ELSE LET new == Utxo[coinsDB.heads[1]]
             old == Utxo[coinsDB.heads[2]]
         IN  /\ new \cap old \subseteq coinsDB.coins
             /\ coinsDB.coins \subseteq new \cup old

\* A node that got through its start-up works on the coins and on the EvoDB of
\* its own tip, also when the process died between the two databases
\* (FlushStateToDisk, VerifyDB, CEvoDB::VerifyBestBlock).
RunsOnItsTip ==
    pc = "running" => /\ View = Utxo[cache.best]
                      /\ evo.applied = EvoOf(cache.best)

\* The coins database never names a block the block index on disk lacks, so
\* that ReplayBlocks and LoadChainTip find it (FlushStateToDisk writes the
\* index first).
IndexBeforeCoins ==
    ({coinsDB.best} \cup ToSet(coinsDB.heads)) \ {NoBlock} \subseteq blockTree

\* The EvoDB on disk belongs to one block, and it is never ahead of the coins:
\* in the middle of a flush it is at the tip the flush started from
\* (CommitRootTransaction after CoinsTip().Flush(), ReplayBlocks).
EvoDBBehindCoins ==
    /\ evoDB.best # NoBlock => evoDB.applied = EvoOf(evoDB.best)
    /\ coinsDB.heads # <<>> /\ Height[coinsDB.heads[2]] >= DIP0003Height =>
          evoDB.best = coinsDB.heads[2]

\* Nothing that is intact is taken for damaged: a running node can always
\* disconnect its tip, coins and EvoDB agreeing with it, and VerifyDB finds the
\* coins clean at every start, so that it never sends an intact database to
\* the rewind (DisconnectBlock, ApplyTxInUndo, CVerifyDB::VerifyDB).
NoFalseAlarm ==
    /\ pc = "running" /\ cache.best # Root => ~DisconnectFails
    /\ pc = "verify" => VerifyCoins(View, cache.best)

\* The node has its block index, its coins and its EvoDB in memory.
Live == pc \in {"running", "index", "coins", "evo", "rewind", "verify", "commit", "replay"}

\* The tip in memory, and the one on disk: the batches of one flush count as
\* one write, made when the first of them names the new head.
LiveTip == IF Live THEN cache.best ELSE NoBlock
SavedTip == IF coinsDB.heads = <<>> THEN coinsDB.best ELSE coinsDB.heads[1]

Tip == INSTANCE DurableTip WITH tip <- LiveTip, saved <- SavedTip

\* Seen from the tip the flush is atomic: the tip moves by one block at a time,
\* a crash at any point inside the batches leaves either the block flushed
\* before or the one being flushed, and every start resumes at that block
\* (CCoinsViewDB::BatchWrite, ReplayBlocks, LoadChainTip).
TipSpec == Tip!Spec

\* Disk states from which a start succeeds: an interrupted flush along one
\* branch with the EvoDB at its old tip, or a finished one with the EvoDB there.
Restartable ==
    IF coinsDB.heads = <<>>
    THEN Height[coinsDB.best] >= DIP0003Height => evoDB.best = coinsDB.best
    ELSE CanReplay(coinsDB.heads[1], coinsDB.heads[2])

\* A node that is down with such a disk comes up again by itself, once it
\* stops crashing (ReplayBlocks, RewindBlockDatabase, VerifyDB).
ComesUpAgain ==
    (pc = "down" /\ Restartable /\ crashes = MaxCrashes /\ ioErrors = MaxIOErrors)
        ~> pc = "running"

\* "Recovered from an unsafe or inconsistent shutdown by rewinding %d block(s)
\* ... Synchronization will continue from the recovered tip." (init.cpp:234)
RecoveredTipKept ==
    pc \in {"verify", "running"} /\ rewoundTo # NoBlock => cache.best = rewoundTo

=============================================================================
