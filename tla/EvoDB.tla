-------------------------------- MODULE EvoDB --------------------------------
(***************************************************************************)
(* CEvoDB (evo/evodb.cpp): a current transaction over a root transaction    *)
(* over the database, each a CDBTransaction (dbwrapper.h) with a map of     *)
(* writes and a set of deletes.  BeginTransaction returns a committer that  *)
(* commits the current transaction into the root one or rolls it back; the  *)
(* root transaction is moved to a batch and written when the chain state is *)
(* flushed.                                                                 *)
(***************************************************************************)
EXTENDS Naturals

CONSTANTS Keys, Values, Absent

VARIABLES
    db,         \* the LevelDB database
    rootBatch,  \* the operations of CDBBatch not yet written
    root, cur,  \* rootDBTransaction, curDBTransaction
    open,       \* a CEvoDBScopedCommitter is alive (cs_main is held)
    failed,     \* db.WriteBatch has thrown: the node is shutting down
    op          \* history: the call last made, with its arguments

evoVars == <<db, rootBatch, root, cur, open, failed, op>>

Maybe == Values \cup {Absent}

-----------------------------------------------------------------------------
(* CDBTransaction.  writes[k] = Absent: k is not in the map. *)

Empty == [writes |-> [k \in Keys |-> Absent], deletes |-> {}]

Updated(t) == {k \in Keys : t.writes[k] # Absent}

TxWrite(t, k, v) ==
    [writes |-> [t.writes EXCEPT ![k] = v], deletes |-> t.deletes \ {k}]

TxErase(t, k) ==
    [writes |-> [t.writes EXCEPT ![k] = Absent], deletes |-> t.deletes \cup {k}]

\* Read, with parent the map the parent's Read returns.
TxRead(t, parent, k) ==
    IF k \in t.deletes THEN Absent
    ELSE IF t.writes[k] # Absent THEN t.writes[k]
    ELSE parent[k]

TxView(t, parent) == [k \in Keys |-> TxRead(t, parent, k)]

\* Commit: Erase for every delete, then Write for every write, into a target
\* that is itself a transaction or a batch.
TxCommit(t, target) ==
    [writes |-> [k \in Keys |-> IF k \in Updated(t) THEN t.writes[k]
                                ELSE IF k \in t.deletes THEN Absent
                                ELSE target.writes[k]],
     deletes |-> (target.deletes \cup t.deletes) \ Updated(t)]

-----------------------------------------------------------------------------
EvoInit ==
    /\ db \in [Keys -> Maybe]
    /\ rootBatch = Empty
    /\ root = Empty
    /\ cur = Empty
    /\ open = FALSE
    /\ failed = FALSE
    /\ op = <<"other">>

BeginTransaction ==
    /\ op' = <<"other">>
    /\ ~open /\ ~failed
    /\ open' = TRUE
    /\ UNCHANGED <<db, rootBatch, root, cur, failed>>

Write(k, v) ==
    /\ op' = <<"set", k, v>>
    /\ open
    /\ cur' = TxWrite(cur, k, v)
    /\ UNCHANGED <<db, rootBatch, root, open, failed>>

Erase(k) ==
    /\ op' = <<"set", k, Absent>>
    /\ open
    /\ cur' = TxErase(cur, k)
    /\ UNCHANGED <<db, rootBatch, root, open, failed>>

\* CEvoDBScopedCommitter::Commit / CommitCurTransaction.
CommitCurTransaction ==
    /\ op' = <<"keep">>
    /\ open
    /\ root' = TxCommit(cur, root)
    /\ cur' = Empty
    /\ open' = FALSE
    /\ UNCHANGED <<db, rootBatch, failed>>

\* CEvoDBScopedCommitter::Rollback or its destructor / RollbackCurTransaction.
RollbackCurTransaction ==
    /\ op' = <<"drop">>
    /\ open
    /\ cur' = Empty
    /\ open' = FALSE
    /\ UNCHANGED <<db, rootBatch, root, failed>>

\* Mutant of CommitRootTransaction: the batch of a failed call is not written.
CommitRootForgets ==
    /\ op' = <<"persist">>
    /\ ~open
    /\ db' = TxView(root, db)
    /\ root' = Empty
    /\ rootBatch' = Empty
    /\ failed' = FALSE
    /\ UNCHANGED <<cur, open>>

\* CommitRootTransaction, from the flush of the chain state.  It asserts that
\* the current transaction is clean; a retry after a failure writes the batch
\* that the failed call left behind.
CommitRootTransaction ==
    /\ op' = <<"persist">>
    /\ ~open
    /\ db' = TxView(TxCommit(root, rootBatch), db)
    /\ root' = Empty
    /\ rootBatch' = Empty
    /\ failed' = FALSE
    /\ UNCHANGED <<cur, open>>

\* db.WriteBatch throws: the root transaction is in the batch, which is kept.
CommitRootFails ==
    /\ op' = <<"other">>
    /\ ~open
    /\ rootBatch' = TxCommit(root, rootBatch)
    /\ root' = Empty
    /\ failed' = TRUE
    /\ UNCHANGED <<db, cur, open>>

EvoCrash ==
    /\ op' = <<"crash">>
    /\ rootBatch' = Empty
    /\ root' = Empty
    /\ cur' = Empty
    /\ open' = FALSE
    /\ failed' = FALSE
    /\ UNCHANGED db

EvoNext ==
    \/ BeginTransaction
    \/ \E k \in Keys : Erase(k) \/ \E v \in Values \ {Absent} : Write(k, v)
    \/ CommitCurTransaction \/ RollbackCurTransaction
    \/ CommitRootTransaction \/ CommitRootFails
    \/ EvoCrash

EvoSpec == EvoInit /\ [][EvoNext]_evoVars

-----------------------------------------------------------------------------
(* Properties. *)

TxType == [writes : [Keys -> Maybe], deletes : SUBSET Keys]

\* A transaction never holds a key both as written and as deleted.
Disjoint(t) == Updated(t) \cap t.deletes = {}

\* The inductive invariant of the refinement: types, and what CommitRootTransaction
\* and the committer leave clean.
EvoDBInv ==
    /\ db \in [Keys -> Maybe]
    /\ rootBatch \in TxType /\ root \in TxType /\ cur \in TxType
    /\ open \in BOOLEAN /\ failed \in BOOLEAN
    /\ Disjoint(rootBatch) /\ Disjoint(root) /\ Disjoint(cur)
    /\ ~open => cur = Empty
    /\ ~failed => rootBatch = Empty
    /\ failed => ~open

\* What a flush would leave on disk, and what CEvoDB::Read returns over it.
Flushed == TxView(root, TxView(rootBatch, db))
Current == TxView(cur, Flushed)

\* The stack of transactions behaves as one map: a block's writes appear
\* together or not at all, a flush stores exactly what was committed, also when
\* the first attempt failed, and a crash falls back to the last flush (CEvoDB,
\* CDBTransaction).
EvoMap == INSTANCE LayeredStore WITH work <- Current, committed <- Flushed, stored <- db
MapSpec == EvoMap!Spec

=============================================================================
