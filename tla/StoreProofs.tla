-------------------------- MODULE StoreProofs --------------------------
(*****************************************************************************)
(* The transactions of CEvoDB and the coins caches implement LayeredStore,   *)
(* for every set of keys, values, outpoints and coins; the iterator of the   *)
(* transactions yields what they hold, in order; the caches never throw a    *)
(* logic_error.  BlockTreeProofs is here for its lemmas on induction and on  *)
(* loops, which have nothing to do with blocks.                              *)
(*****************************************************************************)
EXTENDS DBIterator, CoinsCache, BlockTreeProofs, SequenceTheorems

-----------------------------------------------------------------------------
(* CEvoDB. *)

(* A transaction over a map is a map (CDBTransaction::Read). *)
LEMMA TxViewType ==
    ASSUME NEW t \in TxType, NEW p \in [Keys -> Maybe]
    PROVE  TxView(t, p) \in [Keys -> Maybe]
  BY Zenon DEF TxView, TxRead, TxType, Maybe

(* A clean transaction reads as its parent (CDBTransaction::Clear). *)
LEMMA EmptyView ==
    /\ Empty \in TxType
    /\ Disjoint(Empty)
    /\ \A p \in [Keys -> Maybe] : TxView(Empty, p) = p
  BY Zenon DEF TxView, TxRead, TxType, Maybe, Empty, Disjoint, Updated

(* Committing t into u gives a transaction that reads as t over u over the
   parent: the deletes go first, so that no write is lost (CDBTransaction::Commit). *)
LEMMA CommitView ==
    ASSUME NEW t \in TxType, NEW u \in TxType, Disjoint(t), Disjoint(u)
    PROVE  /\ TxCommit(t, u) \in TxType
           /\ Disjoint(TxCommit(t, u))
           /\ \A p \in [Keys -> Maybe] : TxView(TxCommit(t, u), p) = TxView(t, TxView(u, p))
<1>1. TxCommit(t, u) \in TxType
  BY Zenon DEF TxCommit, TxType, Maybe, Updated
<1>2. Disjoint(TxCommit(t, u))
  BY Zenon DEF TxCommit, TxType, Maybe, Updated, Disjoint
<1>3. ASSUME NEW p \in [Keys -> Maybe]
      PROVE  TxView(TxCommit(t, u), p) = TxView(t, TxView(u, p))
  <2>1. ASSUME NEW k \in Keys
        PROVE  TxRead(TxCommit(t, u), p, k) = TxRead(t, TxView(u, p), k)
    <3>1. CASE k \in t.deletes
      BY <3>1, Zenon DEF TxRead, TxCommit, TxType, Updated, Disjoint
    <3>2. CASE k \in Updated(t)
      BY <3>2, Zenon DEF TxRead, TxCommit, TxType, Updated, Disjoint
    <3>3. CASE k \notin t.deletes /\ k \notin Updated(t)
      BY <3>3, Zenon DEF TxRead, TxView, TxCommit, TxType, Updated, Disjoint
    <3> QED BY <3>1, <3>2, <3>3, Zenon
  <2> QED BY <2>1, Zenon DEF TxView
<1> QED BY <1>1, <1>2, <1>3, Zenon

(* Write keeps a transaction well formed and changes what one key reads
   (CDBTransaction::Write). *)
LEMMA WriteView ==
    ASSUME NEW t \in TxType, Disjoint(t), NEW k \in Keys, NEW v \in Values \ {Absent}
    PROVE  /\ TxWrite(t, k, v) \in TxType
           /\ Disjoint(TxWrite(t, k, v))
           /\ \A p \in [Keys -> Maybe] :
                 TxView(TxWrite(t, k, v), p) = [TxView(t, p) EXCEPT ![k] = v]
  BY Zenon DEF TxWrite, TxType, Disjoint, Updated, TxView, TxRead, Maybe

(* Erase keeps a transaction well formed and makes one key absent
   (CDBTransaction::Erase). *)
LEMMA EraseView ==
    ASSUME NEW t \in TxType, Disjoint(t), NEW k \in Keys
    PROVE  /\ TxErase(t, k) \in TxType
           /\ Disjoint(TxErase(t, k))
           /\ \A p \in [Keys -> Maybe] :
                 TxView(TxErase(t, k), p) = [TxView(t, p) EXCEPT ![k] = Absent]
  BY Zenon DEF TxErase, TxType, Disjoint, Updated, TxView, TxRead, Maybe

(* The transactions stay well formed, the current one is clean outside a
   BeginTransaction scope and the batch is empty unless a write failed. *)
THEOREM EvoDBInvariant == EvoSpec => []EvoDBInv
<1>1. EvoInit => EvoDBInv
  BY EmptyView, Zenon DEF EvoInit, EvoDBInv
<1>2. EvoDBInv /\ [EvoNext]_evoVars => EvoDBInv'
  <2> SUFFICES ASSUME EvoDBInv, [EvoNext]_evoVars PROVE EvoDBInv'
    BY Zenon
  <2> USE DEF EvoDBInv
  <2>1. CASE BeginTransaction
    BY <2>1, Zenon DEF BeginTransaction
  <2>2. ASSUME NEW k \in Keys, NEW v \in Values \ {Absent}, Write(k, v) PROVE EvoDBInv'
    BY <2>2, WriteView, Zenon DEF Write
  <2>3. ASSUME NEW k \in Keys, Erase(k) PROVE EvoDBInv'
    BY <2>3, EraseView, Zenon DEF Erase
  <2>4. CASE CommitCurTransaction
    BY <2>4, CommitView, EmptyView, Zenon DEF CommitCurTransaction
  <2>5. CASE RollbackCurTransaction
    BY <2>5, EmptyView, Zenon DEF RollbackCurTransaction
  <2>6. CASE CommitRootTransaction
    <3>1. db' \in [Keys -> Maybe]
      BY <2>6, CommitView, TxViewType, Zenon DEF CommitRootTransaction
    <3> QED BY <2>6, <3>1, EmptyView, Zenon DEF CommitRootTransaction
  <2>7. CASE CommitRootFails
    BY <2>7, CommitView, EmptyView, Zenon DEF CommitRootFails
  <2>8. CASE EvoCrash
    BY <2>8, EmptyView, Zenon DEF EvoCrash
  <2>9. CASE UNCHANGED evoVars
    BY <2>9, Zenon DEF evoVars
  <2> QED BY <2>1, <2>2, <2>3, <2>4, <2>5, <2>6, <2>7, <2>8, <2>9, Zenon DEF EvoNext
<1> QED BY <1>1, <1>2, PTL DEF EvoSpec

(* CEvoDB implements one map with all-or-nothing blocks, flushes and crashes:
   every step of the transaction stack is a step of LayeredStore or none. *)
THEOREM EvoDBImplementsMap == EvoSpec => MapSpec
<1>1. EvoInit => EvoMap!Init
  BY EmptyView, TxViewType, Zenon DEF EvoInit, EvoMap!Init, EvoMap!Store, Flushed, Current, Maybe
<1>2. EvoDBInv /\ EvoDBInv' /\ [EvoNext]_evoVars => [EvoMap!Next]_(EvoMap!vars)
  <2> SUFFICES ASSUME EvoDBInv, EvoDBInv', [EvoNext]_evoVars
               PROVE  EvoMap!Next \/ UNCHANGED EvoMap!vars
    BY Zenon
  <2> DEFINE Base == TxView(rootBatch, db)
  <2>0. /\ Base \in [Keys -> Maybe] /\ Flushed \in [Keys -> Maybe]
        /\ Current \in [Keys -> Maybe]
        /\ ~open => Current = Flushed
    <3>1. Base \in [Keys -> Maybe]
      BY TxViewType, Zenon DEF EvoDBInv
    <3>2. Flushed \in [Keys -> Maybe]
      BY <3>1, TxViewType, Zenon DEF EvoDBInv, Flushed
    <3> QED BY <3>1, <3>2, TxViewType, EmptyView, Zenon DEF EvoDBInv, Current
  <2>1. CASE BeginTransaction
    <3>1. EvoMap!Other
      BY <2>1, Zenon DEF BeginTransaction, EvoMap!Other, Current, Flushed
    <3> QED BY <3>1, Zenon DEF EvoMap!Next
  <2>2. ASSUME NEW k \in Keys, NEW v \in Values \ {Absent}, Write(k, v)
        PROVE  EvoMap!Next
    <3>1. Flushed' = Flushed /\ db' = db
      BY <2>2, Zenon DEF Write, Flushed
    <3>2. Current' = [Current EXCEPT ![k] = v]
      BY <2>2, <3>1, <2>0, WriteView DEF Write, Current, EvoDBInv
    <3>3. EvoMap!Set(k, v)
      BY <2>2, <3>1, <3>2, Zenon DEF Write, EvoMap!Set
    <3> QED BY <3>3, Zenon DEF EvoMap!Next
  <2>3. ASSUME NEW k \in Keys, Erase(k)
        PROVE  EvoMap!Next
    <3>1. Flushed' = Flushed /\ db' = db
      BY <2>3, Zenon DEF Erase, Flushed
    <3>2. Current' = [Current EXCEPT ![k] = Absent]
      BY <2>3, <3>1, <2>0, EraseView DEF Erase, Current, EvoDBInv
    <3>3. EvoMap!Set(k, Absent)
      BY <2>3, <3>1, <3>2, Zenon DEF Erase, EvoMap!Set
    <3> QED BY <3>3, Zenon DEF EvoMap!Next
  <2>4. CASE CommitCurTransaction
    <3>1. Flushed' = Current
      BY <2>4, <2>0, CommitView DEF CommitCurTransaction, Flushed, Current, EvoDBInv
    <3>2. Flushed' \in [Keys -> Maybe]
      BY <3>1, <2>0, Zenon
    <3>3. Current' = Flushed'
      BY <2>4, <3>2, EmptyView, Zenon DEF CommitCurTransaction, Current
    <3>4. EvoMap!Keep
      BY <2>4, <3>1, <3>3, Zenon DEF CommitCurTransaction, EvoMap!Keep
    <3> QED BY <3>4, Zenon DEF EvoMap!Next
  <2>5. CASE RollbackCurTransaction
    <3>1. Flushed' = Flushed /\ db' = db
      BY <2>5, Zenon DEF RollbackCurTransaction, Flushed
    <3>2. Current' = Flushed
      BY <2>5, <3>1, <2>0, EmptyView, Zenon DEF RollbackCurTransaction, Current
    <3>3. EvoMap!Drop
      BY <2>5, <3>1, <3>2, Zenon DEF RollbackCurTransaction, EvoMap!Drop
    <3> QED BY <3>3, Zenon DEF EvoMap!Next
  <2>6. CASE CommitRootTransaction
    <3>1. db' = Flushed
      BY <2>6, <2>0, CommitView DEF CommitRootTransaction, Flushed, EvoDBInv
    <3>2. Flushed' = db'
      BY <2>6, <3>1, <2>0, EmptyView, Zenon DEF CommitRootTransaction, Flushed
    <3>3. Current' = Flushed'
      BY <2>6, <3>1, <3>2, <2>0, EmptyView, Zenon DEF CommitRootTransaction, Current, EvoDBInv
    <3>4. EvoMap!Persist
      BY <2>6, <3>1, <3>2, <3>3, <2>0, Zenon DEF CommitRootTransaction, EvoMap!Persist
    <3> QED BY <3>4, Zenon DEF EvoMap!Next
  <2>7. CASE CommitRootFails
    <3>1. TxView(rootBatch', db) = Flushed
      BY <2>7, CommitView DEF CommitRootFails, Flushed, EvoDBInv
    <3>2. Flushed' = Flushed /\ db' = db
      BY <2>7, <3>1, <2>0, EmptyView, Zenon DEF CommitRootFails, Flushed
    <3>3. Current' = Current
      BY <2>7, <3>2, Zenon DEF CommitRootFails, Current
    <3>4. EvoMap!Other
      BY <2>7, <3>2, <3>3, Zenon DEF CommitRootFails, EvoMap!Other
    <3> QED BY <3>4, Zenon DEF EvoMap!Next
  <2>8. CASE EvoCrash
    <3>1. db' = db /\ Flushed' = db
      BY <2>8, EmptyView, Zenon DEF EvoCrash, Flushed, EvoDBInv
    <3>2. Current' = db
      BY <2>8, <3>1, EmptyView, Zenon DEF EvoCrash, Current, EvoDBInv
    <3>3. EvoMap!Crash
      BY <2>8, <3>1, <3>2, Zenon DEF EvoCrash, EvoMap!Crash
    <3> QED BY <3>3, Zenon DEF EvoMap!Next
  <2>9. CASE UNCHANGED evoVars
    BY <2>9, Zenon DEF evoVars, EvoMap!vars, Current, Flushed
  <2> QED BY <2>1, <2>2, <2>3, <2>4, <2>5, <2>6, <2>7, <2>8, <2>9, Zenon DEF EvoNext
<1> QED BY <1>1, <1>2, EvoDBInvariant, PTL DEF EvoSpec, MapSpec, EvoMap!Spec

-----------------------------------------------------------------------------
(* Keys in ascending order. *)

\* s holds the keys of S, each once and in ascending order.
Lists(s, S) ==
    /\ s \in Seq(S)
    /\ \A i, j \in 1..Len(s) : i < j => s[i] < s[j]
    /\ \A k \in S : \E i \in 1..Len(s) : s[i] = k

(* There is one such sequence at most. *)
LEMMA ListsOnce ==
  ASSUME NEW S \in SUBSET Nat, NEW s, NEW u, Lists(s, S), Lists(u, S)
  PROVE  s = u
<1>1. /\ Len(s) \in Nat /\ Len(u) \in Nat
      /\ \A i \in 1..Len(s) : s[i] \in S /\ s[i] \in Nat
      /\ \A i \in 1..Len(u) : u[i] \in S /\ u[i] \in Nat
  <2>1. s \in Seq(S) /\ u \in Seq(S)
    BY Zenon DEF Lists
  <2>2. Len(s) \in Nat /\ Len(u) \in Nat
    BY <2>1, LenProperties, Zenon
  <2>3. (\A i \in 1..Len(s) : s[i] \in S) /\ (\A i \in 1..Len(u) : u[i] \in S)
    BY <2>1, ElementOfSeq, Zenon
  <2> QED BY <2>2, <2>3, Zenon
<1>2. ASSUME NEW n \in 1..Len(s), n \in 1..Len(u), \A m \in 1..(n - 1) : s[m] = u[m]
      PROVE  s[n] = u[n]
  <2>1. PICK j \in 1..Len(u) : u[j] = s[n]
    BY <1>1, Zenon DEF Lists
  <2>2. PICK i \in 1..Len(s) : s[i] = u[n]
    BY <1>1, <1>2, Zenon DEF Lists
  <2>3. j >= n
    <3> SUFFICES ASSUME j < n PROVE FALSE
      BY <1>1
    <3>1. j \in 1..(n - 1) /\ j \in 1..Len(s)
      BY <1>1
    <3>2. s[j] = s[n] /\ s[j] < s[n]
      BY <1>2, <2>1, <3>1, Zenon DEF Lists
    <3> QED BY <1>1, <3>1, <3>2
  <2>4. i >= n
    <3> SUFFICES ASSUME i < n PROVE FALSE
      BY <1>1
    <3>1. i \in 1..(n - 1) /\ i \in 1..Len(u)
      BY <1>1, <1>2
    <3>2. u[i] = u[n] /\ u[i] < u[n]
      BY <1>2, <2>2, <3>1, Zenon DEF Lists
    <3> QED BY <1>1, <1>2, <3>1, <3>2
  <2>5. j = n \/ u[n] < u[j]
    BY <1>1, <1>2, <2>3 DEF Lists
  <2>6. i = n \/ s[n] < s[i]
    BY <1>1, <1>2, <2>4 DEF Lists
  <2> QED BY <1>1, <1>2, <2>1, <2>2, <2>5, <2>6
<1> DEFINE T == {n \in 1..Len(s) : n \in 1..Len(u) /\ s[n] # u[n]}
<1>3. T = {}
  <2> SUFFICES ASSUME T # {} PROVE FALSE
    BY Zenon
  <2>1. T \in SUBSET Nat
    BY <1>1
  <2>2. PICK n \in T : \A m \in T : n <= m
    BY <2>1, LeastNat, Zenon
  <2>3. n \in 1..Len(s) /\ n \in 1..Len(u) /\ s[n] # u[n]
    BY <2>2, Zenon
  <2>4. \A m \in 1..(n - 1) : m \in 1..Len(s) /\ m \in 1..Len(u) /\ m \notin T
    BY <1>1, <2>1, <2>2, <2>3
  <2>5. \A m \in 1..(n - 1) : s[m] = u[m]
    BY <2>4, Zenon
  <2> QED BY <1>2, <2>3, <2>5, Zenon
<1>4. ~(Len(s) < Len(u))
  <2> SUFFICES ASSUME Len(s) < Len(u) PROVE FALSE
    BY Zenon
  <2> DEFINE n == Len(s) + 1
  <2>1. n \in 1..Len(u)
    BY <1>1
  <2>2. PICK i \in 1..Len(s) : s[i] = u[n]
    BY <1>1, <2>1, Zenon DEF Lists
  <2>3. i \in 1..Len(u) /\ i < n /\ s[i] = u[i]
    BY <1>1, <1>3
  <2>4. u[i] < u[n]
    BY <2>1, <2>3, Zenon DEF Lists
  <2> QED BY <1>1, <2>1, <2>2, <2>3, <2>4
<1>5. ~(Len(u) < Len(s))
  <2> SUFFICES ASSUME Len(u) < Len(s) PROVE FALSE
    BY Zenon
  <2> DEFINE n == Len(u) + 1
  <2>1. n \in 1..Len(s)
    BY <1>1
  <2>2. PICK i \in 1..Len(u) : u[i] = s[n]
    BY <1>1, <2>1, Zenon DEF Lists
  <2>3. i \in 1..Len(s) /\ i < n /\ s[i] = u[i]
    BY <1>1, <1>3
  <2>4. s[i] < s[n]
    BY <2>1, <2>3, Zenon DEF Lists
  <2> QED BY <1>1, <2>1, <2>2, <2>3, <2>4
<1>6. Len(s) = Len(u)
  BY <1>1, <1>4, <1>5
<1>7. s \in [1..Len(s) -> S] /\ u \in [1..Len(s) -> S]
  BY <1>6, SeqDef DEF Lists
<1> QED BY <1>3, <1>6, <1>7

(* A finite set of keys has one: its least key, then the others. *)
LEMMA ListsExists ==
  ASSUME NEW S \in SUBSET Nat, IsFiniteSet(S)
  PROVE  \E s : Lists(s, S) /\ Len(s) = Cardinality(S)
<1> DEFINE P(n, U) == \E s : Lists(s, U) /\ Len(s) = n
           I == {n \in Nat : \A U \in SUBSET Nat : IsFiniteSet(U) /\ Cardinality(U) = n => P(n, U)}
<1>1. 0 \in I
  <2>1. ASSUME NEW U \in SUBSET Nat, IsFiniteSet(U), Cardinality(U) = 0 PROVE P(0, U)
    <3>1. U = {}
      BY <2>1, FS_EmptySet, Zenon
    <3>2. << >> \in Seq(U) /\ Len(<< >>) = 0
      BY EmptySeq, Zenon
    <3>3. Lists(<< >>, U)
      BY <3>1, <3>2 DEF Lists
    <3> QED BY <3>2, <3>3, Zenon
  <2> QED BY <2>1, Zenon
<1>2. ASSUME NEW n \in Nat, n \in I PROVE n + 1 \in I
  <2>1. ASSUME NEW U \in SUBSET Nat, IsFiniteSet(U), Cardinality(U) = n + 1 PROVE P(n + 1, U)
    <3>1. U # {}
      BY <2>1, FS_EmptySet
    <3>2. PICK x \in U : \A y \in U : x <= y
      BY <3>1, LeastNat, Zenon
    <3>3. IsFiniteSet(U \ {x}) /\ Cardinality(U \ {x}) = n
      <4>1. (n + 1) - 1 = n
        OBVIOUS
      <4> QED BY <2>1, <4>1, FS_RemoveElement, Zenon
    <3>4. P(n, U \ {x})
      BY <1>2, <3>3, Zenon
    <3>5. PICK e : Lists(e, U \ {x}) /\ Len(e) = n
      BY <3>4, Zenon
    <3>6. e \in [1..n -> U \ {x}]
      BY <3>5, LenProperties, Zenon DEF Lists
    <3> DEFINE s == [i \in 1..(n + 1) |-> IF i = 1 THEN x ELSE e[i - 1]]
    <3>7. s \in [1..(n + 1) -> U]
      BY <3>6
    <3>8. s \in Seq(U)
      BY <3>7, SeqDef
    <3>9. Len(s) = n + 1
      OBVIOUS
    <3>10. \A i \in 1..n : s[i + 1] = e[i] /\ i + 1 \in 1..(n + 1)
      OBVIOUS
    <3>11. s[1] = x /\ 1 \in 1..(n + 1)
      OBVIOUS
    <3> HIDE DEF s
    <3>12. ASSUME NEW i \in 1..(n + 1), NEW j \in 1..(n + 1), i < j PROVE s[i] < s[j]
      <4>1. j - 1 \in 1..n /\ s[j] = e[j - 1] /\ e[j - 1] \in U \ {x}
        BY <3>6, <3>10, <3>12
      <4>2. CASE i = 1
        <5>1. x <= e[j - 1] /\ x # e[j - 1] /\ x \in Nat /\ e[j - 1] \in Nat
          BY <3>2, <4>1, Zenon
        <5> QED BY <3>11, <4>1, <4>2, <5>1
      <4>3. CASE i # 1
        <5>1. i - 1 \in 1..n /\ s[i] = e[i - 1] /\ i - 1 < j - 1
          BY <3>10, <3>12, <4>3
        <5> QED BY <3>5, <4>1, <5>1, Zenon DEF Lists
      <4> QED BY <4>2, <4>3, Zenon
    <3>13. ASSUME NEW k \in U PROVE \E i \in 1..(n + 1) : s[i] = k
      <4>1. CASE k = x
        BY <3>11, <4>1, Zenon
      <4>2. CASE k # x
        <5>1. PICK i \in 1..n : e[i] = k
          BY <3>5, <4>2, Zenon DEF Lists
        <5> QED BY <3>10, <5>1, Zenon
      <4> QED BY <4>1, <4>2, Zenon
    <3>14. Lists(s, U)
      BY <3>8, <3>9, <3>12, <3>13, Zenon DEF Lists
    <3> QED BY <3>9, <3>14, Zenon
  <2> HIDE DEF P
  <2> QED BY <2>1
<1>3. Cardinality(S) \in Nat /\ Cardinality(S) \in I
  <2>1. Cardinality(S) \in Nat
    BY FS_CardinalityType, Zenon
  <2> HIDE DEF I
  <2> QED BY <1>1, <1>2, <2>1, SetInduction, Zenon
<1> QED BY <1>3, Zenon

(* Sorted is that sequence. *)
LEMMA SortedLists ==
  ASSUME NEW S \in SUBSET Nat, IsFiniteSet(S)
  PROVE  Lists(Sorted(S), S)
<1> DEFINE n == Cardinality(S)
           Up(s) == \A i, j \in DOMAIN s : i < j => s[i] < s[j]
<1>1. n \in Nat
  BY FS_CardinalityType, Zenon
<1> HIDE DEF n
<1>2. PICK e : Lists(e, S) /\ Len(e) = n
  BY ListsExists, Zenon DEF n
<1>3. e \in [1..n -> S] /\ \A i, j \in 1..n : i < j => e[i] < e[j]
  BY <1>2, LenProperties, Zenon DEF Lists
<1>4. e \in SetToSeqs(S) /\ Up(e)
  <2>1. \A i \in 1..n : e[i] \in Nat
    BY <1>3, Zenon
  <2>2. \A i, j \in 1..n : i # j => i < j \/ j < i
    BY <1>1
  <2>3. \A i, j \in 1..n : i # j => e[i] # e[j]
    BY <1>3, <2>1, <2>2
  <2> QED BY <1>3, <2>3, Zenon DEF SetToSeqs, n
<1>5. Sorted(S) \in SetToSeqs(S) /\ Up(Sorted(S))
  BY <1>4, Zenon DEF Sorted
<1> DEFINE s == Sorted(S)
<1>6. s \in [1..n -> S] /\ \A i, j \in 1..n : i # j => s[i] # s[j]
  BY <1>5, Zenon DEF SetToSeqs, n
<1> HIDE DEF s
<1>7. s \in Seq(S) /\ Len(s) = n
  BY <1>1, <1>6, SeqDef
<1>8. s \in Injection(1..n, S)
  BY <1>6, Zenon DEF Injection, IsInjective
<1>9. s \in Surjection(1..n, S)
  <2>1. Cardinality(1..n) = n
    BY <1>1, FS_Interval
  <2> QED BY <1>8, <2>1, FS_Injection, Zenon DEF n
<1>10. \A k \in S : \E i \in 1..n : s[i] = k
  BY <1>9, Zenon DEF Surjection
<1>11. \A i, j \in 1..n : i < j => s[i] < s[j]
  BY <1>5, <1>6, Zenon DEF s
<1> QED BY <1>7, <1>10, <1>11, Zenon DEF Lists, s

(* FirstFrom finds the first position with a key of S. *)
LEMMA FirstFromFacts ==
  ASSUME NEW s \in Seq(Nat), NEW j \in 1..(Len(s) + 1), NEW S
  PROVE  /\ FirstFrom(s, j, S) \in j..(Len(s) + 1)
         /\ FirstFrom(s, j, S) <= Len(s) => s[FirstFrom(s, j, S)] \in S
         /\ \A m \in j..(FirstFrom(s, j, S) - 1) : s[m] \notin S
<1> DEFINE last == Len(s) + 1
           T == {n \in j..last : n <= Len(s) => s[n] \in S}
<1>1. Len(s) \in Nat /\ last \in T /\ T \in SUBSET Nat
  BY LenProperties
<1>2. PICK n \in T : \A m \in T : n <= m
  BY <1>1, LeastNat, Zenon
<1>3. \A m \in j..(n - 1) : m \in j..last /\ m \notin T
  BY <1>1, <1>2
<1>4. \A m \in j..(n - 1) : s[m] \notin S
  BY <1>3, Zenon
<1>5. n \in j..last /\ (n <= Len(s) => s[n] \in S)
  BY <1>2, Zenon
<1> QED BY <1>4, <1>5, Zenon DEF FirstFrom

-----------------------------------------------------------------------------
(* The iterator. *)

Hidden(t) == t.deletes \cup Updated(t)

Cursors(writes, parent) ==
    [i : 1..(Len(writes) + 1), j : 1..(Len(parent) + 1), out : Seq(Keys)]

(* Next keeps both cursors within their sequences. *)
LEMMA AdvanceType ==
  ASSUME NEW t, NEW writes \in Seq(Keys), NEW parent \in Seq(Keys),
         NEW c \in Cursors(writes, parent), Valid(writes, parent, c)
  PROVE  Advance(t, writes, parent, c) \in Cursors(writes, parent)
<1>1. Len(writes) \in Nat /\ Len(parent) \in Nat /\ parent \in Seq(Nat)
  <2>1. Keys \subseteq Nat
    BY KeysAssumption, Zenon
  <2> QED BY <2>1, LenProperties, SeqMonotonic, Zenon
<1>2. c.i \in 1..(Len(writes) + 1) /\ c.j \in 1..(Len(parent) + 1) /\ c.out \in Seq(Keys)
  BY Zenon DEF Cursors
<1>3. CASE CurIsParent(writes, parent, c)
  <2>1. c.j \in 1..Len(parent) /\ c.j + 1 \in 1..(Len(parent) + 1)
    BY <1>1, <1>2, <1>3 DEF CurIsParent
  <2>2. Skip(t, parent, c.j + 1) \in (c.j + 1)..(Len(parent) + 1)
    BY <1>1, <2>1, FirstFromFacts, Zenon DEF Skip
  <2>3. Skip(t, parent, c.j + 1) \in 1..(Len(parent) + 1)
    BY <1>1, <2>1, <2>2
  <2>4. parent[c.j] \in Keys
    BY <2>1, ElementOfSeq, Zenon
  <2>5. Append(c.out, parent[c.j]) \in Seq(Keys)
    BY <1>2, <2>4, AppendProperties, Zenon
  <2> QED BY <1>2, <1>3, <2>3, <2>5, Zenon DEF Advance, Cursors
<1>4. CASE ~CurIsParent(writes, parent, c)
  <2>1. c.i \in 1..Len(writes) /\ c.i + 1 \in 1..(Len(writes) + 1)
    BY <1>1, <1>2, <1>4 DEF CurIsParent, Valid
  <2>2. writes[c.i] \in Keys
    BY <2>1, ElementOfSeq, Zenon
  <2>3. Append(c.out, writes[c.i]) \in Seq(Keys)
    BY <1>2, <2>2, AppendProperties, Zenon
  <2> QED BY <1>2, <1>4, <2>1, <2>3, Zenon DEF Advance, Cursors
<1> QED BY <1>3, <1>4, Zenon

(* Seek puts them there. *)
LEMMA SeekType ==
  ASSUME NEW t, NEW writes \in Seq(Keys), NEW parent \in Seq(Keys), NEW key
  PROVE  Seek(t, writes, parent, key) \in Cursors(writes, parent)
<1>1. Len(writes) \in Nat /\ Len(parent) \in Nat /\ writes \in Seq(Nat) /\ parent \in Seq(Nat)
  <2>1. Keys \subseteq Nat
    BY KeysAssumption, Zenon
  <2> QED BY <2>1, LenProperties, SeqMonotonic, Zenon
<1>2. 1 \in 1..(Len(writes) + 1) /\ 1 \in 1..(Len(parent) + 1)
  BY <1>1
<1>3. LowerBound(writes, key) \in 1..(Len(writes) + 1) /\ Skip(t, parent, 1) \in 1..(Len(parent) + 1)
  BY <1>1, <1>2, FirstFromFacts, Zenon DEF LowerBound, Skip
<1>4. << >> \in Seq(Keys)
  BY EmptySeq, Zenon
<1> QED BY <1>3, <1>4, Zenon DEF Seek, Cursors

(* The walk takes one step after the other. *)
LEMMA WalkUnfolds ==
  ASSUME NEW t, NEW writes \in Seq(Keys), NEW parent \in Seq(Keys), NEW key
  PROVE  /\ Walk(t, writes, parent, key)[0] = Seek(t, writes, parent, key)
         /\ \A n \in 1..(Len(writes) + Len(parent)) :
               Walk(t, writes, parent, key)[n] =
                  IF Valid(writes, parent, Walk(t, writes, parent, key)[n - 1])
                  THEN Advance(t, writes, parent, Walk(t, writes, parent, key)[n - 1])
                  ELSE Walk(t, writes, parent, key)[n - 1]
<1> DEFINE W == Walk(t, writes, parent, key)
           m == Len(writes) + Len(parent)
           V == Cursors(writes, parent)
           start == Seek(t, writes, parent, key)
           At(v) == IF Valid(writes, parent, v) THEN Advance(t, writes, parent, v) ELSE v
           Body(f, n) == IF n = 0 THEN start
                         ELSE IF Valid(writes, parent, f[n - 1])
                         THEN Advance(t, writes, parent, f[n - 1])
                         ELSE f[n - 1]
           F == [i \in 1..m |-> [v \in V |-> At(v)]]
<1>1. m \in Nat /\ start \in V
  <2>1. Len(writes) \in Nat /\ Len(parent) \in Nat
    BY LenProperties, Zenon
  <2>2. start \in V
    BY SeekType, Zenon
  <2> QED BY <2>1, <2>2
<1>2. Steps(m, V, F)
  <2> SUFFICES ASSUME NEW i \in 1..m, NEW v \in V PROVE At(v) \in V
    BY Zenon DEF Steps
  <2> QED BY AdvanceType, Zenon
<1>3. PICK f : Solves(m, V, F, start, f)
  <2> HIDE DEF m, F, V, start
  <2> QED BY <1>1, <1>2, Recursion, Zenon
<1>4. ASSUME NEW n \in 0..m PROVE f[n] = Body(f, n)
  <2>1. CASE n = 0
    BY <1>3, <2>1, Zenon DEF Solves
  <2>2. CASE n # 0
    <3>1. n \in 1..m /\ n - 1 \in 0..m
      BY <1>1, <2>2
    <3>2. f[n - 1] \in V /\ f[n] = F[n][f[n - 1]]
      BY <1>3, <3>1, Zenon DEF Solves
    <3>3. f[n] = At(f[n - 1])
      <4> HIDE DEF V, At
      <4> QED BY <3>1, <3>2, Zenon
    <3> QED BY <2>2, <3>3, Zenon
  <2> QED BY <2>1, <2>2, Zenon
<1>5. f = [n \in 0..m |-> Body(f, n)]
  <2>1. f = [n \in 0..m |-> f[n]]
    BY <1>3, Zenon DEF Solves
  <2> HIDE DEF m, Body
  <2> QED BY <1>4, <2>1, Zenon
<1>6. W = CHOOSE g : g = [n \in 0..m |-> Body(g, n)]
  BY Zenon DEF Walk
<1> HIDE DEF W
<1>7. W = [n \in 0..m |-> Body(W, n)]
  <2> HIDE DEF m, Body
  <2> QED BY <1>5, <1>6, Zenon
<1>8. ASSUME NEW n \in 0..m PROVE W[n] = Body(W, n)
  <2> HIDE DEF m, Body
  <2> QED BY <1>7, Zenon
<1>9. 0 \in 0..m /\ \A n \in 1..m : n \in 0..m /\ n # 0
  BY <1>1
<1>10. W[0] = start /\ \A n \in 1..m : W[n] = At(W[n - 1])
  BY <1>8, <1>9, Zenon
<1> QED BY <1>10, Zenon DEF W

(* What the iterator is over: the writes and the keys of the parent, each in
   order, the keys to be yielded, and those it has yielded. *)
Sides(t, writes, parent, ahead) ==
    /\ Lists(writes, Updated(t))
    /\ Lists(parent, ahead)

Due(t, key, ahead) == {k \in Updated(t) : k >= key} \cup (ahead \ Hidden(t))

Yielded(c) == {c.out[a] : a \in 1..Len(c.out)}

(* The inductive invariant of the walk.  Neither cursor is at a key the other
   side decides about, all that is behind a cursor and due has been yielded, and
   what has been yielded is in order and before both cursors. *)
WalkInv(t, writes, parent, key, ahead, c) ==
    /\ c \in Cursors(writes, parent)
    /\ c.i <= Len(writes) => writes[c.i] >= key
    /\ c.j <= Len(parent) => parent[c.j] \notin Hidden(t)
    /\ \A a, b \in 1..Len(c.out) : a < b => c.out[a] < c.out[b]
    /\ \A k \in Yielded(c) : /\ k \in Due(t, key, ahead)
                             /\ c.i <= Len(writes) => k < writes[c.i]
                             /\ c.j <= Len(parent) => k < parent[c.j]
    /\ \A m \in 1..(c.i - 1) : writes[m] >= key => writes[m] \in Yielded(c)
    /\ \A m \in 1..(c.j - 1) : parent[m] \notin Hidden(t) => parent[m] \in Yielded(c)

(* Appending a key that follows all keys yielded so far. *)
LEMMA YieldOne ==
  ASSUME NEW c, NEW d, NEW x \in Nat, c.out \in Seq(Nat), d.out = Append(c.out, x),
         \A a, b \in 1..Len(c.out) : a < b => c.out[a] < c.out[b],
         \A k \in Yielded(c) : k < x
  PROVE  /\ Yielded(d) = Yielded(c) \cup {x}
         /\ \A a, b \in 1..Len(d.out) : a < b => d.out[a] < d.out[b]
<1> DEFINE s == c.out
           u == Append(s, x)
           l == Len(s)
<1>1. l \in Nat /\ Len(u) = l + 1 /\ u[l + 1] = x /\ \A a \in 1..l : u[a] = s[a]
  <2> HIDE DEF s
  <2> QED BY DEF s
<1>2. \A a \in 1..l : s[a] \in Yielded(c)
  BY Zenon DEF Yielded
<1> HIDE DEF u, s, l
<1>3. d.out = u
  BY Zenon DEF u, s
<1>4. ASSUME NEW k PROVE k \in Yielded(d) <=> k \in Yielded(c) \cup {x}
  <2>1. k \in Yielded(d) <=> \E a \in 1..(l + 1) : u[a] = k
    BY <1>1, <1>3, Zenon DEF Yielded
  <2>2. k \in Yielded(c) <=> \E a \in 1..l : s[a] = k
    BY Zenon DEF Yielded, s, l
  <2>3. 1..(l + 1) = (1..l) \cup {l + 1}
    BY <1>1
  <2> QED BY <1>1, <2>1, <2>2, <2>3, Zenon
<1>5. ASSUME NEW a \in 1..(l + 1), NEW b \in 1..(l + 1), a < b PROVE u[a] < u[b]
  <2>1. a \in 1..l
    BY <1>1, <1>5
  <2>2. CASE b = l + 1
    BY <1>1, <1>2, <2>1, <2>2, Zenon
  <2>3. CASE b # l + 1
    <3>1. b \in 1..l
      BY <1>1, <2>3
    <3>2. s[a] < s[b]
      BY <1>5, <2>1, <3>1, Zenon DEF s, l
    <3> QED BY <1>1, <2>1, <3>1, <3>2, Zenon
  <2> QED BY <2>2, <2>3, Zenon
<1> QED BY <1>1, <1>3, <1>4, <1>5, Zenon

(* Seek: nothing before the cursors is due. *)
LEMMA SeekInv ==
  ASSUME NEW t, NEW writes \in Seq(Keys), NEW parent \in Seq(Keys), NEW key \in Keys, NEW ahead
  PROVE  WalkInv(t, writes, parent, key, ahead, Seek(t, writes, parent, key))
<1> DEFINE c == Seek(t, writes, parent, key)
           w == LowerBound(writes, key)
           p == Skip(t, parent, 1)
<1>1. /\ Keys \subseteq Nat /\ Len(writes) \in Nat /\ Len(parent) \in Nat
      /\ writes \in Seq(Nat) /\ parent \in Seq(Nat)
      /\ \A n \in 1..Len(writes) : writes[n] \in Keys
      /\ \A n \in 1..Len(parent) : parent[n] \in Keys
  <2>1. Keys \subseteq Nat
    BY KeysAssumption, Zenon
  <2> QED BY <2>1, LenProperties, SeqMonotonic, ElementOfSeq, Zenon
<1>2. 1 \in 1..(Len(writes) + 1) /\ 1 \in 1..(Len(parent) + 1)
  BY <1>1
<1>3. /\ w \in 1..(Len(writes) + 1)
      /\ w <= Len(writes) => writes[w] \in {k \in Keys : k >= key}
      /\ \A m \in 1..(w - 1) : writes[m] \notin {k \in Keys : k >= key}
  BY <1>1, <1>2, FirstFromFacts, Zenon DEF LowerBound
<1>4. /\ p \in 1..(Len(parent) + 1)
      /\ p <= Len(parent) => parent[p] \in Keys \ Hidden(t)
      /\ \A m \in 1..(p - 1) : parent[m] \notin Keys \ Hidden(t)
  <2> DEFINE q == FirstFrom(parent, 1, Keys \ Hidden(t))
  <2>1. /\ q \in 1..(Len(parent) + 1)
        /\ q <= Len(parent) => parent[q] \in Keys \ Hidden(t)
        /\ \A m \in 1..(q - 1) : parent[m] \notin Keys \ Hidden(t)
    BY <1>1, <1>2, FirstFromFacts, Zenon
  <2>2. p = q
    BY Zenon DEF Skip, Hidden
  <2> HIDE DEF p, q
  <2> QED BY <2>1, <2>2, Zenon
<1>5. c.i = w /\ c.j = p /\ c.out = << >>
  BY Zenon DEF Seek
<1>6. c \in Cursors(writes, parent)
  BY SeekType, Zenon
<1>7. Len(c.out) = 0 /\ 1..0 = {}
  BY <1>5
<1>8. Yielded(c) = {} /\ 1..Len(c.out) = {}
  BY <1>7, Zenon DEF Yielded
<1>9. ASSUME NEW m \in 1..(w - 1), writes[m] >= key PROVE FALSE
  <2>1. m \in 1..Len(writes)
    BY <1>1, <1>3
  <2> QED BY <1>1, <1>3, <1>9, <2>1, Zenon
<1>10. ASSUME NEW m \in 1..(p - 1) PROVE parent[m] \in Hidden(t)
  <2>1. m \in 1..Len(parent)
    BY <1>1, <1>4
  <2> QED BY <1>1, <1>4, <2>1, Zenon
<1> HIDE DEF c, w, p
<1>11. WalkInv(t, writes, parent, key, ahead, c)
  BY <1>3, <1>4, <1>5, <1>6, <1>8, <1>9, <1>10, Zenon DEF WalkInv
<1> QED BY <1>11, Zenon DEF c

(* Next yields the smaller of the two current keys. *)
LEMMA AdvanceInv ==
  ASSUME NEW t, NEW writes \in Seq(Keys), NEW parent \in Seq(Keys), NEW key \in Keys,
         NEW ahead, Sides(t, writes, parent, ahead), NEW c,
         WalkInv(t, writes, parent, key, ahead, c), Valid(writes, parent, c)
  PROVE  LET d == Advance(t, writes, parent, c)
         IN  /\ WalkInv(t, writes, parent, key, ahead, d)
             /\ d.i + d.j > c.i + c.j
<1> DEFINE d == Advance(t, writes, parent, c)
<1>1. /\ Keys \subseteq Nat /\ Len(writes) \in Nat /\ Len(parent) \in Nat
      /\ writes \in Seq(Nat) /\ parent \in Seq(Nat)
      /\ \A n \in 1..Len(writes) : writes[n] \in Keys /\ writes[n] \in Updated(t)
      /\ \A n \in 1..Len(parent) : parent[n] \in Keys /\ parent[n] \in ahead
  <2>1. Keys \subseteq Nat
    BY KeysAssumption, Zenon
  <2>2. writes \in Seq(Updated(t)) /\ parent \in Seq(ahead)
    BY Zenon DEF Sides, Lists
  <2> QED BY <2>1, <2>2, LenProperties, SeqMonotonic, ElementOfSeq, Zenon
<1>2. /\ c.i \in 1..(Len(writes) + 1) /\ c.j \in 1..(Len(parent) + 1) /\ c.out \in Seq(Nat)
      /\ c.i \in Nat /\ c.j \in Nat
  <2>1. c.i \in 1..(Len(writes) + 1) /\ c.j \in 1..(Len(parent) + 1) /\ c.out \in Seq(Keys)
    BY Zenon DEF WalkInv, Cursors
  <2>2. c.out \in Seq(Nat)
    BY <1>1, <2>1, SeqMonotonic, Zenon
  <2> QED BY <2>1, <2>2
<1>3. d \in Cursors(writes, parent)
  BY AdvanceType, Zenon DEF WalkInv
<1>4. /\ \A m, n \in 1..Len(writes) : m < n => writes[m] < writes[n]
      /\ \A m, n \in 1..Len(parent) : m < n => parent[m] < parent[n]
  BY Zenon DEF Sides, Lists
<1>5. /\ c.i <= Len(writes) => writes[c.i] >= key
      /\ c.j <= Len(parent) => parent[c.j] \notin Hidden(t)
      /\ \A a, b \in 1..Len(c.out) : a < b => c.out[a] < c.out[b]
      /\ \A k \in Yielded(c) : /\ k \in Due(t, key, ahead)
                               /\ c.i <= Len(writes) => k < writes[c.i]
                               /\ c.j <= Len(parent) => k < parent[c.j]
      /\ \A m \in 1..(c.i - 1) : writes[m] >= key => writes[m] \in Yielded(c)
      /\ \A m \in 1..(c.j - 1) : parent[m] \notin Hidden(t) => parent[m] \in Yielded(c)
  BY Zenon DEF WalkInv
<1>6. \A k \in Yielded(c) : k \in Nat
  BY <1>2, ElementOfSeq, Zenon DEF Yielded
<1>7. CASE CurIsParent(writes, parent, c)
  <2> DEFINE x == parent[c.j]
  <2>1. /\ c.j <= Len(parent) /\ c.j \in 1..Len(parent) /\ c.j + 1 \in 1..(Len(parent) + 1)
        /\ x \in Keys /\ x \in ahead /\ x \notin Hidden(t) /\ x \in Nat
    <3>1. c.j <= Len(parent)
      BY <1>7, Zenon DEF CurIsParent
    <3>2. c.j \in 1..Len(parent) /\ c.j + 1 \in 1..(Len(parent) + 1)
      <4>1. \A a, l \in Nat : a \in 1..(l + 1) /\ a <= l => a \in 1..l /\ a + 1 \in 1..(l + 1)
        OBVIOUS
      <4> QED BY <1>1, <1>2, <3>1, <4>1, Zenon
    <3> QED BY <1>1, <1>5, <3>1, <3>2, Zenon
  <2>2. d.i = c.i /\ d.j = Skip(t, parent, c.j + 1) /\ d.out = Append(c.out, x)
    BY <1>7, Zenon DEF Advance
  <2> HIDE DEF d, x
  <2>3. /\ d.j \in (c.j + 1)..(Len(parent) + 1)
        /\ d.j <= Len(parent) => parent[d.j] \in Keys \ Hidden(t)
        /\ \A m \in (c.j + 1)..(d.j - 1) : parent[m] \notin Keys \ Hidden(t)
    <3> DEFINE q == FirstFrom(parent, c.j + 1, Keys \ Hidden(t))
    <3>1. /\ q \in (c.j + 1)..(Len(parent) + 1)
          /\ q <= Len(parent) => parent[q] \in Keys \ Hidden(t)
          /\ \A m \in (c.j + 1)..(q - 1) : parent[m] \notin Keys \ Hidden(t)
      BY <1>1, <2>1, FirstFromFacts, Zenon
    <3>2. d.j = q
      BY <2>2, Zenon DEF Skip, Hidden
    <3> HIDE DEF q
    <3> QED BY <3>1, <3>2, Zenon
  <2>4. \A k \in Yielded(c) : k < x
    BY <1>5, <2>1, Zenon DEF x
  <2>5. /\ Yielded(d) = Yielded(c) \cup {x}
        /\ \A a, b \in 1..Len(d.out) : a < b => d.out[a] < d.out[b]
    BY <1>2, <1>5, <2>1, <2>2, <2>4, YieldOne, Zenon
  <2>6. d.i <= Len(writes) => x < writes[d.i]
    <3> SUFFICES ASSUME c.i <= Len(writes) PROVE x < writes[c.i]
      BY <2>2, Zenon
    <3>1. c.i \in 1..Len(writes)
      BY <1>1, <1>2
    <3>2. writes[c.i] \in Nat /\ writes[c.i] \in Hidden(t)
      BY <1>1, <3>1, Zenon DEF Hidden
    <3>3. ~(writes[c.i] < x)
      BY <1>7, Zenon DEF CurIsParent, x
    <3>4. writes[c.i] # x
      BY <2>1, <3>2, Zenon
    <3> QED BY <2>1, <3>2, <3>3, <3>4
  <2>7. d.j <= Len(parent) => x < parent[d.j] /\ parent[d.j] \in Nat
    <3> SUFFICES ASSUME d.j <= Len(parent) PROVE x < parent[d.j] /\ parent[d.j] \in Nat
      BY Zenon
    <3>1. d.j \in 1..Len(parent) /\ c.j < d.j
      <4>1. \A a, l \in Nat : \A b \in (a + 1)..(l + 1) : b <= l => b \in 1..l /\ a < b
        OBVIOUS
      <4> QED BY <1>1, <1>2, <2>3, <4>1, Zenon
    <3> QED BY <1>1, <1>4, <2>1, <3>1, Zenon DEF x
  <2>8. ASSUME NEW k \in Yielded(d)
        PROVE  /\ k \in Due(t, key, ahead)
               /\ d.i <= Len(writes) => k < writes[d.i]
               /\ d.j <= Len(parent) => k < parent[d.j]
    <3>1. CASE k = x
      BY <2>1, <2>6, <2>7, <3>1, Zenon DEF Due
    <3>2. CASE k \in Yielded(c)
      <4>1. d.j <= Len(parent) => k < parent[d.j]
        <5>1. k < x /\ k \in Nat
          BY <1>6, <2>4, <3>2, Zenon
        <5> QED BY <2>1, <2>7, <5>1
      <4> QED BY <1>5, <2>2, <3>2, <4>1, Zenon
    <3> QED BY <2>5, <3>1, <3>2, Zenon
  <2>9. ASSUME NEW m \in 1..(d.j - 1), parent[m] \notin Hidden(t) PROVE parent[m] \in Yielded(d)
    <3>1. CASE m < c.j
      <4>1. m \in 1..(c.j - 1)
        BY <1>2, <3>1
      <4> QED BY <1>5, <2>5, <2>9, <4>1, Zenon
    <3>2. CASE m = c.j
      BY <2>5, <3>2, Zenon DEF x
    <3>3. CASE m > c.j
      <4>1. m \in (c.j + 1)..(d.j - 1) /\ m \in 1..Len(parent)
        <5>1. \A a, b, e, l \in Nat : e \in 1..(b - 1) /\ b \in (a + 1)..(l + 1) /\ e > a
                  => e \in (a + 1)..(b - 1) /\ e \in 1..l
          OBVIOUS
        <5>2. d.j \in Nat /\ m \in Nat
          BY <1>2, <2>3
        <5> QED BY <1>1, <1>2, <2>3, <3>3, <5>1, <5>2, Zenon
      <4> QED BY <1>1, <2>3, <2>9, <4>1, Zenon
    <3> QED BY <1>2, <3>1, <3>2, <3>3
  <2>10. \A m \in 1..(d.i - 1) : writes[m] >= key => writes[m] \in Yielded(d)
    BY <1>5, <2>2, <2>5, Zenon
  <2>11. WalkInv(t, writes, parent, key, ahead, d)
    BY <1>3, <1>5, <2>2, <2>3, <2>5, <2>8, <2>9, <2>10, Zenon DEF WalkInv
  <2>12. d.i + d.j > c.i + c.j
    BY <1>1, <1>2, <2>2, <2>3
  <2> QED BY <2>11, <2>12, Zenon DEF d
<1>8. CASE ~CurIsParent(writes, parent, c)
  <2> DEFINE x == writes[c.i]
  <2>1. /\ c.i <= Len(writes) /\ c.i \in 1..Len(writes)
        /\ x \in Keys /\ x \in Updated(t) /\ x >= key /\ x \in Nat
    <3>1. c.i <= Len(writes)
      BY <1>1, <1>2, <1>8, Zenon DEF CurIsParent, Valid
    <3>2. c.i \in 1..Len(writes)
      BY <1>1, <1>2, <3>1
    <3> QED BY <1>1, <1>5, <3>1, <3>2, Zenon
  <2>2. d.i = c.i + 1 /\ d.j = c.j /\ d.out = Append(c.out, x)
    BY <1>8, Zenon DEF Advance
  <2>3. d.j <= Len(parent) => x < parent[d.j]
    BY <1>8, <2>1, <2>2, Zenon DEF CurIsParent
  <2> HIDE DEF d, x
  <2>4. \A k \in Yielded(c) : k < x
    BY <1>5, <2>1, Zenon DEF x
  <2>5. /\ Yielded(d) = Yielded(c) \cup {x}
        /\ \A a, b \in 1..Len(d.out) : a < b => d.out[a] < d.out[b]
    BY <1>2, <1>5, <2>1, <2>2, <2>4, YieldOne, Zenon
  <2>6. d.i <= Len(writes) => x < writes[d.i] /\ writes[d.i] \in Nat /\ writes[d.i] >= key
    <3> SUFFICES ASSUME d.i <= Len(writes)
                 PROVE  x < writes[d.i] /\ writes[d.i] \in Nat /\ writes[d.i] >= key
      BY Zenon
    <3>1. d.i \in 1..Len(writes) /\ c.i < d.i
      <4>1. \A a, l \in Nat : a + 1 <= l => a + 1 \in 1..l /\ a < a + 1
        OBVIOUS
      <4> QED BY <1>1, <1>2, <2>2, <4>1, Zenon
    <3>2. x < writes[d.i] /\ writes[d.i] \in Nat
      BY <1>1, <1>4, <2>1, <3>1, Zenon DEF x
    <3>3. key \in Nat
      BY <1>1, Zenon
    <3>4. writes[d.i] >= key
      BY <2>1, <3>2, <3>3
    <3> QED BY <3>2, <3>4, Zenon
  <2>8. ASSUME NEW k \in Yielded(d)
        PROVE  /\ k \in Due(t, key, ahead)
               /\ d.i <= Len(writes) => k < writes[d.i]
               /\ d.j <= Len(parent) => k < parent[d.j]
    <3>1. CASE k = x
      BY <2>1, <2>3, <2>6, <3>1, Zenon DEF Due
    <3>2. CASE k \in Yielded(c)
      <4>1. d.i <= Len(writes) => k < writes[d.i]
        <5>1. k < x /\ k \in Nat
          BY <1>6, <2>4, <3>2, Zenon
        <5> QED BY <2>1, <2>6, <5>1
      <4> QED BY <1>5, <2>2, <3>2, <4>1, Zenon
    <3> QED BY <2>5, <3>1, <3>2, Zenon
  <2>9. ASSUME NEW m \in 1..(d.i - 1), writes[m] >= key PROVE writes[m] \in Yielded(d)
    <3>1. m \in 1..(c.i - 1) \/ m = c.i
      BY <1>2, <2>2
    <3>2. CASE m \in 1..(c.i - 1)
      BY <1>5, <2>5, <2>9, <3>2, Zenon
    <3>3. CASE m = c.i
      BY <2>5, <3>3, Zenon DEF x
    <3> QED BY <3>1, <3>2, <3>3, Zenon
  <2>10. \A m \in 1..(d.j - 1) : parent[m] \notin Hidden(t) => parent[m] \in Yielded(d)
    BY <1>5, <2>2, <2>5, Zenon
  <2>11. WalkInv(t, writes, parent, key, ahead, d)
    BY <1>3, <1>5, <2>2, <2>5, <2>6, <2>8, <2>9, <2>10, Zenon DEF WalkInv
  <2>12. d.i + d.j > c.i + c.j
    BY <1>2, <2>2
  <2> QED BY <2>11, <2>12, Zenon DEF d
<1> QED BY <1>7, <1>8, Zenon

(* The walk stops at the end of both sides, with what is due yielded. *)
LEMMA WalkEnds ==
  ASSUME NEW t, NEW writes \in Seq(Keys), NEW parent \in Seq(Keys), NEW key \in Keys,
         NEW ahead, Sides(t, writes, parent, ahead)
  PROVE  Lists(Walk(t, writes, parent, key)[Len(writes) + Len(parent)].out, Due(t, key, ahead))
<1> DEFINE W == Walk(t, writes, parent, key)
           lw == Len(writes)
           lp == Len(parent)
           m == lw + lp
           Inv(n) == /\ WalkInv(t, writes, parent, key, ahead, W[n])
                     /\ Valid(writes, parent, W[n]) => W[n].i + W[n].j >= n + 2
           I == {n \in Nat : n <= m => Inv(n)}
<1>1. lw \in Nat /\ lp \in Nat /\ m \in Nat
  <2>1. lw \in Nat /\ lp \in Nat
    BY LenProperties, Zenon
  <2> QED BY <2>1
<1>2. /\ W[0] = Seek(t, writes, parent, key)
      /\ \A n \in 1..m : W[n] = IF Valid(writes, parent, W[n - 1])
                                THEN Advance(t, writes, parent, W[n - 1])
                                ELSE W[n - 1]
  BY WalkUnfolds
<1> HIDE DEF W, m, lw, lp
<1>3. ASSUME NEW c \in Cursors(writes, parent)
      PROVE  c.i \in 1..(lw + 1) /\ c.j \in 1..(lp + 1)
  BY Zenon DEF Cursors, lw, lp
<1>4. 0 \in I
  <2>1. WalkInv(t, writes, parent, key, ahead, W[0])
    BY <1>2, SeekInv, Zenon
  <2>2. W[0].i \in 1..(lw + 1) /\ W[0].j \in 1..(lp + 1)
    BY <1>3, <2>1, Zenon DEF WalkInv
  <2>3. \A a \in 1..(lw + 1), b \in 1..(lp + 1) : a + b >= 0 + 2
    BY <1>1
  <2> QED BY <2>1, <2>2, <2>3, Zenon
<1>5. ASSUME NEW n \in Nat, n \in I PROVE n + 1 \in I
  <2> SUFFICES ASSUME n + 1 <= m PROVE Inv(n + 1)
    OBVIOUS
  <2>1. n <= m /\ n + 1 \in 1..m /\ (n + 1) - 1 = n
    BY <1>1
  <2>2. Inv(n)
    BY <1>5, <2>1, Zenon
  <2> DEFINE c == W[n]
             d == W[n + 1]
  <2>3. d = IF Valid(writes, parent, c) THEN Advance(t, writes, parent, c) ELSE c
    BY <1>2, <2>1, Zenon
  <2> HIDE DEF c, d
  <2>4. /\ WalkInv(t, writes, parent, key, ahead, c)
        /\ Valid(writes, parent, c) => c.i + c.j >= n + 2
    BY <2>2, Zenon DEF c
  <2>5. CASE ~Valid(writes, parent, c)
    BY <2>3, <2>4, <2>5, Zenon DEF d
  <2>6. CASE Valid(writes, parent, c)
    <3>1. WalkInv(t, writes, parent, key, ahead, d) /\ d.i + d.j > c.i + c.j
      BY <2>3, <2>4, <2>6, AdvanceInv, Zenon
    <3>2. /\ c.i \in 1..(lw + 1) /\ c.j \in 1..(lp + 1)
          /\ d.i \in 1..(lw + 1) /\ d.j \in 1..(lp + 1)
      BY <1>3, <2>4, <3>1, Zenon DEF WalkInv
    <3>3. \A a, e \in 1..(lw + 1), b, f \in 1..(lp + 1) :
            a + b >= n + 2 /\ e + f > a + b => e + f >= (n + 1) + 2
      BY <1>1
    <3>4. d.i + d.j >= (n + 1) + 2
      BY <2>4, <2>6, <3>1, <3>2, <3>3, Zenon
    <3> QED BY <3>1, <3>4, Zenon DEF d
  <2> QED BY <2>5, <2>6, Zenon
<1>6. Inv(m)
  <2>1. m \in I
    <3> HIDE DEF I
    <3> QED BY <1>1, <1>4, <1>5, SetInduction, Zenon
  <2>2. m <= m
    BY <1>1
  <2> QED BY <2>1, <2>2, Zenon
<1> DEFINE c == W[m]
<1> HIDE DEF c
<1>7. /\ WalkInv(t, writes, parent, key, ahead, c)
      /\ Valid(writes, parent, c) => c.i + c.j >= m + 2
  BY <1>6, Zenon DEF c
<1>8. c.i \in 1..(lw + 1) /\ c.j \in 1..(lp + 1) /\ c.out \in Seq(Keys)
  BY <1>3, <1>7, Zenon DEF WalkInv, Cursors
<1>9. c.i = lw + 1 /\ c.j = lp + 1
  <2>1. \A a \in 1..(lw + 1), b \in 1..(lp + 1) :
           (a <= lw \/ b <= lp => a + b >= m + 2) => a = lw + 1 /\ b = lp + 1
    BY <1>1 DEF m
  <2>2. c.i <= lw \/ c.j <= lp => c.i + c.j >= m + 2
    BY <1>7, Zenon DEF Valid, lw, lp
  <2> QED BY <1>8, <2>1, <2>2, Zenon
<1>10. (c.i - 1) = lw /\ (c.j - 1) = lp
  BY <1>1, <1>9
<1>11. ASSUME NEW k \in Due(t, key, ahead) PROVE k \in Yielded(c)
  <2>1. CASE k \in Updated(t) /\ k >= key
    <3>1. PICK n \in 1..lw : writes[n] = k
      BY <2>1, Zenon DEF Sides, Lists, lw
    <3> QED BY <1>7, <1>10, <2>1, <3>1, Zenon DEF WalkInv
  <2>2. CASE k \in ahead /\ k \notin Hidden(t)
    <3>1. PICK n \in 1..lp : parent[n] = k
      BY <2>2, Zenon DEF Sides, Lists, lp
    <3> QED BY <1>7, <1>10, <2>2, <3>1, Zenon DEF WalkInv
  <2> QED BY <2>1, <2>2, Zenon DEF Due
<1>12. \A a \in 1..Len(c.out) : c.out[a] \in Due(t, key, ahead)
  BY <1>7, Zenon DEF WalkInv, Yielded
<1>13. c.out \in Seq(Due(t, key, ahead))
  <2> DEFINE s == c.out
             D == Due(t, key, ahead)
  <2> HIDE DEF s, D
  <2>1. s \in Seq(Keys) /\ \A a \in 1..Len(s) : s[a] \in D
    BY <1>8, <1>12, Zenon DEF s, D
  <2>2. Len(s) \in Nat /\ s \in [1..Len(s) -> Keys]
    BY <2>1, LenProperties, Zenon
  <2>3. s \in [1..Len(s) -> D]
    BY <2>1, <2>2, Zenon
  <2>4. s \in Seq(D)
    BY <2>2, <2>3, SeqDef, Zenon
  <2> QED BY <2>4, Zenon DEF s, D
<1>14. Lists(c.out, Due(t, key, ahead))
  BY <1>7, <1>11, <1>13, Zenon DEF Lists, WalkInv, Yielded
<1> QED BY <1>14, Zenon DEF c, W, m, lw, lp

(* The iterator of a transaction lists what its Read finds, if that of the
   parent does. *)
LEMMA IterateLists ==
  ASSUME NEW t \in TxType, Disjoint(t), NEW p \in [Keys -> Maybe], NEW key \in Keys, NEW parent,
         Lists(parent, {k \in Keys : p[k] # Absent /\ k >= key})
  PROVE  Lists(IterateFrom(t, parent, key), {k \in Keys : TxView(t, p)[k] # Absent /\ k >= key})
<1> DEFINE writes == Sorted(Updated(t))
           ahead == {k \in Keys : p[k] # Absent /\ k >= key}
<1>1. Keys \subseteq Nat /\ IsFiniteSet(Keys)
  BY KeysAssumption, Zenon
<1>2. Updated(t) \in SUBSET Keys /\ Updated(t) \in SUBSET Nat /\ IsFiniteSet(Updated(t))
  <2>1. Updated(t) \in SUBSET Keys
    BY Zenon DEF Updated
  <2>2. IsFiniteSet(Updated(t))
    BY <1>1, <2>1, FS_Subset, Zenon
  <2> QED BY <1>1, <2>1, <2>2, Zenon
<1>3. Lists(writes, Updated(t))
  BY <1>2, SortedLists, Zenon
<1> HIDE DEF writes
<1>4. writes \in Seq(Keys) /\ parent \in Seq(Keys)
  <2>1. writes \in Seq(Updated(t)) /\ parent \in Seq(ahead)
    BY <1>3, Zenon DEF Lists
  <2>2. ahead \subseteq Keys
    BY Zenon
  <2> HIDE DEF ahead
  <2> QED BY <1>2, <2>1, <2>2, SeqMonotonic, Zenon
<1>5. Sides(t, writes, parent, ahead)
  BY <1>3, Zenon DEF Sides
<1> HIDE DEF ahead
<1>6. Lists(IterateFrom(t, parent, key), Due(t, key, ahead))
  BY <1>4, <1>5, WalkEnds, Zenon DEF IterateFrom, writes
<1>7. Due(t, key, ahead) = {k \in Keys : TxView(t, p)[k] # Absent /\ k >= key}
  <2>1. ASSUME NEW k \in Keys
        PROVE  k \in Due(t, key, ahead) <=> TxView(t, p)[k] # Absent /\ k >= key
    <3>1. TxView(t, p)[k] = TxRead(t, p, k)
      BY Zenon DEF TxView
    <3>2. k \in Updated(t) <=> t.writes[k] # Absent
      BY Zenon DEF Updated
    <3>3. k \in ahead <=> p[k] # Absent /\ k >= key
      BY Zenon DEF ahead
    <3>4. ~(k \in Updated(t) /\ k \in t.deletes)
      BY Zenon DEF Disjoint
    <3>5. CASE k \in t.deletes
      BY <3>1, <3>4, <3>5, Zenon DEF Due, Hidden, TxRead
    <3>6. CASE k \notin t.deletes
      BY <3>1, <3>2, <3>3, <3>6, Zenon DEF Due, Hidden, TxRead
    <3> QED BY <3>5, <3>6, Zenon
  <2>2. Due(t, key, ahead) \subseteq Keys
    BY <1>2, Zenon DEF Due, ahead
  <2> QED BY <2>1, <2>2, Zenon
<1> QED BY <1>6, <1>7, Zenon

(* The merging iterator over both transactions and the database yields the keys
   that CEvoDB::Exists confirms, each once and in order, in every state a node
   reaches and for any finite set of keys. *)
THEOREM IteratorAgreesThm == EvoSpec => []IteratorAgrees
<1>1. EvoDBInv => IteratorAgrees
  <2> SUFFICES ASSUME EvoDBInv, ~failed, NEW key \in Keys
               PROVE  IterateCur(key) = Sorted({k \in Keys : Current[k] # Absent /\ k >= key})
    BY Zenon DEF IteratorAgrees
  <2> DEFINE Ahead(p) == {k \in Keys : p[k] # Absent /\ k >= key}
             first == IterateDB(key)
             second == IterateFrom(root, first, key)
  <2>1. \A p : Ahead(p) \in SUBSET Nat /\ IsFiniteSet(Ahead(p))
    <3>1. Keys \in SUBSET Nat /\ IsFiniteSet(Keys)
      BY KeysAssumption, Zenon
    <3>2. \A p : Ahead(p) \in SUBSET Keys
      BY Zenon
    <3> HIDE DEF Ahead
    <3> QED BY <3>1, <3>2, FS_Subset, Zenon
  <2>2. db \in [Keys -> Maybe] /\ Flushed = TxView(root, db)
    BY EmptyView, Zenon DEF EvoDBInv, Flushed
  <2>3. Flushed \in [Keys -> Maybe]
    BY <2>2, TxViewType, Zenon DEF EvoDBInv
  <2>4. Lists(first, Ahead(db))
    BY <2>1, SortedLists, Zenon DEF IterateDB
  <2>5. Lists(second, Ahead(Flushed))
    BY <2>2, <2>4, IterateLists, Zenon DEF EvoDBInv
  <2>6. Lists(IterateCur(key), Ahead(Current))
    BY <2>3, <2>5, IterateLists, Zenon DEF EvoDBInv, Current, IterateCur
  <2>7. Lists(Sorted(Ahead(Current)), Ahead(Current))
    BY <2>1, SortedLists, Zenon
  <2> QED BY <2>1, <2>6, <2>7, ListsOnce, Zenon
<1> QED BY <1>1, EvoDBInvariant, PTL

-----------------------------------------------------------------------------
(* CCoinsViewCache. *)

(* FetchCoin caches what is below and changes no result (CCoinsViewCache::FetchCoin). *)
LEMMA FetchKeeps ==
    ASSUME NEW cache \in [OutPoints -> Entry], NEW base \in [OutPoints -> MaybeCoin], NEW o \in OutPoints,
           \A x \in OutPoints : ValidEntry(cache[x]) /\ Backed(cache[x], base[x])
    PROVE  /\ FetchCoin(cache, base, o) \in [OutPoints -> Entry]
           /\ \A x \in OutPoints : /\ ValidEntry(FetchCoin(cache, base, o)[x])
                              /\ Backed(FetchCoin(cache, base, o)[x], base[x])
           /\ ViewOf(FetchCoin(cache, base, o), base) = ViewOf(cache, base)
           /\ ~FetchCoin(cache, base, o)[o].in => base[o] = Spent
  BY Zenon DEF FetchCoin, Fetched, NoEntry, Entry, ValidEntry, Backed, ViewOf, Get, MaybeCoin, Flags

(* A cache over a map is a map. *)
LEMMA ViewType ==
    ASSUME NEW cache \in [OutPoints -> Entry], NEW base \in [OutPoints -> MaybeCoin]
    PROVE  ViewOf(cache, base) \in [OutPoints -> MaybeCoin]
  BY Zenon DEF ViewOf, Get, Entry

(* AddCoin with possible_overwrite keeps the flags right
   (CCoinsViewCache::AddCoin). *)
LEMMA AddOverwriteKeeps ==
    ASSUME NEW cache \in [OutPoints -> Entry], NEW base \in [OutPoints -> MaybeCoin], NEW o \in OutPoints,
           NEW c \in Coins \ {Spent},
           \A x \in OutPoints : ValidEntry(cache[x]) /\ Backed(cache[x], base[x])
    PROVE  /\ AddCoin(cache, o, c, TRUE) \in [OutPoints -> Entry]
           /\ \A x \in OutPoints : /\ ValidEntry(AddCoin(cache, o, c, TRUE)[x])
                              /\ Backed(AddCoin(cache, o, c, TRUE)[x], base[x])
<1> DEFINE new == AddCoin(cache, o, c, TRUE)
<1>1. /\ new \in [OutPoints -> Entry]
      /\ \A x \in OutPoints \ {o} : new[x] = cache[x]
      /\ new[o].in /\ new[o].coin = c /\ "DIRTY" \in new[o].flags
  BY Zenon DEF AddCoin, Entry, MaybeCoin, Flags
<1>2. ValidEntry(new[o])
  BY <1>1, Zenon DEF ValidEntry
<1>3. Backed(new[o], base[o])
  BY <1>1, Zenon DEF AddCoin, Backed, Get, ValidEntry, NoEntry, Entry
<1> QED BY <1>1, <1>2, <1>3, Zenon

(* AddCoin without possible_overwrite may mark the coin FRESH: it is spent below. *)
LEMMA AddNewKeeps ==
    ASSUME NEW cache \in [OutPoints -> Entry], NEW base \in [OutPoints -> MaybeCoin], NEW o \in OutPoints,
           NEW c \in Coins \ {Spent},
           \A x \in OutPoints : ValidEntry(cache[x]) /\ Backed(cache[x], base[x]),
           Get(cache, base, o) = Spent
    PROVE  /\ AddCoin(cache, o, c, FALSE) \in [OutPoints -> Entry]
           /\ \A x \in OutPoints : /\ ValidEntry(AddCoin(cache, o, c, FALSE)[x])
                              /\ Backed(AddCoin(cache, o, c, FALSE)[x], base[x])
<1> DEFINE new == AddCoin(cache, o, c, FALSE)
<1>1. /\ new \in [OutPoints -> Entry]
      /\ \A x \in OutPoints \ {o} : new[x] = cache[x]
      /\ new[o].in /\ new[o].coin = c /\ "DIRTY" \in new[o].flags
  BY Zenon DEF AddCoin, Entry, MaybeCoin, Flags
<1>2. ValidEntry(new[o])
  BY <1>1, Zenon DEF ValidEntry
<1>3. Backed(new[o], base[o])
  BY <1>1, Zenon DEF AddCoin, Backed, Get, ValidEntry, NoEntry, Entry
<1> QED BY <1>1, <1>2, <1>3, Zenon

(* SpendCoin removes one coin, also by erasing a FRESH entry
   (CCoinsViewCache::SpendCoin). *)
LEMMA SpendKeeps ==
    ASSUME NEW cache \in [OutPoints -> Entry], NEW base \in [OutPoints -> MaybeCoin], NEW o \in OutPoints,
           \A x \in OutPoints : ValidEntry(cache[x]) /\ Backed(cache[x], base[x]),
           ~cache[o].in => base[o] = Spent
    PROVE  /\ SpendCoin(cache, o) \in [OutPoints -> Entry]
           /\ \A x \in OutPoints : /\ ValidEntry(SpendCoin(cache, o)[x])
                              /\ Backed(SpendCoin(cache, o)[x], base[x])
           /\ ViewOf(SpendCoin(cache, o), base) = [ViewOf(cache, base) EXCEPT ![o] = Spent]
  BY Zenon DEF SpendCoin, NoEntry, Entry, ValidEntry, Backed, ViewOf, Get, MaybeCoin, Flags

(* BatchWrite of a child entry into its parent leaves the parent with the
   child's coin and valid flags (CCoinsViewCache::BatchWrite). *)
LEMMA MergeKeeps ==
    ASSUME NEW child \in Entry, NEW us \in Entry, NEW below \in MaybeCoin,
           ValidEntry(child), ValidEntry(us), Backed(us, below),
           Backed(child, IF us.in THEN us.coin ELSE below)
    PROVE  /\ Merge(child, us) \in Entry
           /\ ValidEntry(Merge(child, us))
           /\ Backed(Merge(child, us), below)
           /\ ~MergeThrows(child, us)
           /\ (IF Merge(child, us).in THEN Merge(child, us).coin ELSE below)
                 = IF child.in THEN child.coin ELSE IF us.in THEN us.coin ELSE below
  BY Zenon DEF Merge, MergeThrows, NoEntry, Entry, ValidEntry, Backed, MaybeCoin, Flags

(* An empty cache is valid and reads as what is below it (CCoinsViewCache::Flush). *)
LEMMA EmptyKeeps ==
    /\ EmptyCache \in [OutPoints -> Entry]
    /\ \A o \in OutPoints, below \in MaybeCoin :
          ValidEntry(EmptyCache[o]) /\ Backed(EmptyCache[o], below)
    /\ \A base \in [OutPoints -> MaybeCoin] : ViewOf(EmptyCache, base) = base
  BY Zenon DEF EmptyCache, NoEntry, Entry, ValidEntry, Backed, ViewOf, Get, MaybeCoin, Flags

(* Writing the DIRTY entries gives the database the contents of the cache
   (CCoinsViewDB::BatchWrite). *)
LEMMA WriteKeeps ==
    ASSUME NEW cache \in [OutPoints -> Entry], NEW base \in [OutPoints -> MaybeCoin],
           \A x \in OutPoints : Backed(cache[x], base[x])
    PROVE  WriteToDB(cache, base) = ViewOf(cache, base)
  BY Zenon DEF WriteToDB, ViewOf, Get, Backed, Entry, MaybeCoin, Flags

(* The invariant in the form the lemmas use. *)
LEMMA InvForm ==
    ASSUME CoinsInv
    PROVE  /\ TipView \in [OutPoints -> MaybeCoin]
           /\ \A o \in OutPoints : Get(tip, coins, o) = TipView[o]
           /\ \A o \in OutPoints : Backed(view[o], TipView[o])
  BY ViewType, Zenon DEF CoinsInv, TipView, ViewOf

(* Fetching through CoinsTip() leaves the tip's contents and the invariant alone. *)
LEMMA TipFetchKeeps ==
    ASSUME CoinsInv, NEW o \in OutPoints
    PROVE  /\ TipFetch(o) \in [OutPoints -> Entry]
           /\ \A x \in OutPoints : ValidEntry(TipFetch(o)[x]) /\ Backed(TipFetch(o)[x], coins[x])
           /\ ViewOf(TipFetch(o), coins) = TipView
  BY FetchKeeps, Zenon DEF CoinsInv, TipFetch, TipView

(* Fetching into the view of a block changes none of its coins
   (CCoinsViewCache::FetchCoin). *)
LEMMA ViewFetchKeeps ==
    ASSUME CoinsInv, NEW o \in OutPoints
    PROVE  /\ ViewFetch(o) \in [OutPoints -> Entry]
           /\ \A x \in OutPoints : ValidEntry(ViewFetch(o)[x]) /\ Backed(ViewFetch(o)[x], TipView[x])
           /\ ViewOf(ViewFetch(o), TipView) = ViewOf(view, TipView)
           /\ ~ViewFetch(o)[o].in => TipView[o] = Spent
  BY FetchKeeps, InvForm, Zenon DEF CoinsInv, ViewFetch

(* A new pair of caches with the contents the lemmas describe satisfies the
   invariant again. *)
LEMMA InvStep ==
    ASSUME NEW d \in [OutPoints -> MaybeCoin], NEW t \in [OutPoints -> Entry], NEW v \in [OutPoints -> Entry],
           \A x \in OutPoints : ValidEntry(t[x]) /\ Backed(t[x], d[x]),
           \A x \in OutPoints : ValidEntry(v[x]) /\ Backed(v[x], ViewOf(t, d)[x])
    PROVE  \A x \in OutPoints : Backed(v[x], Get(t, d, x))
  BY Zenon DEF ViewOf

(* What one step does to the three layers: the invariant again, and a step of
   the map or none. *)
LEMMA CoinsStep ==
    ASSUME CoinsInv, [CoinsNext]_coinVars
    PROVE  /\ CoinsInv'
           /\ CoinsMap!Next \/ UNCHANGED CoinsMap!vars
<1>0. /\ coins \in [OutPoints -> MaybeCoin] /\ tip \in [OutPoints -> Entry] /\ view \in [OutPoints -> Entry]
      /\ \A x \in OutPoints : ValidEntry(tip[x]) /\ Backed(tip[x], coins[x])
      /\ \A x \in OutPoints : ValidEntry(view[x]) /\ Backed(view[x], TipView[x])
      /\ TipView \in [OutPoints -> MaybeCoin]
  BY InvForm, Zenon DEF CoinsInv
<1> DEFINE Work == ViewOf(view, TipView)
<1>1. CASE OpenView
  <2>1. CoinsInv'
    BY <1>1, Zenon DEF OpenView, CoinsInv, Get
  <2>2. CoinsMap!Other
    BY <1>1, Zenon DEF OpenView, CoinsMap!Other, TipView
  <2> QED BY <2>1, <2>2, Zenon DEF CoinsMap!Next
<1>2. ASSUME NEW o \in OutPoints, Fetch(o)
      PROVE  CoinsInv' /\ CoinsMap!Next
  <2>1. tip' = TipFetch(o) /\ view' = ViewFetch(o) /\ coins' = coins /\ viewOpen' = viewOpen /\ viewOpen
    BY <1>2, Zenon DEF Fetch
  <2>2. TipView' = TipView
    BY <2>1, TipFetchKeeps, Zenon DEF TipView
  <2>3. CoinsInv'
    BY <2>1, <2>2, <1>0, TipFetchKeeps, ViewFetchKeeps, InvStep, Zenon DEF CoinsInv, TipView
  <2>4. Work' = Work
    BY <2>1, <2>2, ViewFetchKeeps, Zenon
  <2>5. CoinsMap!Other
    BY <1>2, <2>1, <2>2, <2>4, Zenon DEF Fetch, CoinsMap!Other
  <2> QED BY <2>3, <2>5, Zenon DEF CoinsMap!Next
<1>3. ASSUME NEW o \in OutPoints, NEW c \in Coins \ {Spent}, AddCoinbase(o, c)
      PROVE  CoinsInv' /\ CoinsMap!Next
  <2>1. view' = AddCoin(view, o, c, TRUE) /\ tip' = tip /\ coins' = coins /\ viewOpen' = viewOpen /\ viewOpen
    BY <1>3, Zenon DEF AddCoinbase
  <2>2. TipView' = TipView
    BY <2>1, Zenon DEF TipView
  <2>3. CoinsInv'
    BY <2>1, <2>2, <1>0, AddOverwriteKeeps, InvStep, Zenon DEF CoinsInv, TipView
  <2>4. Work' = [Work EXCEPT ![o] = c]
    <3>1. \A x \in OutPoints : Get(AddCoin(view, o, c, TRUE), TipView, x)
                             = IF x = o THEN c ELSE Get(view, TipView, x)
      BY <1>0, Zenon DEF AddCoin, Get
    <3> QED BY <2>1, <2>2, <3>1, Zenon DEF ViewOf
  <2>5. CoinsMap!Set(o, c)
    BY <1>3, <2>1, <2>2, <2>4, Zenon DEF AddCoinbase, CoinsMap!Set
  <2> QED BY <2>3, <2>5, Zenon DEF CoinsMap!Next
<1>4. ASSUME NEW o \in OutPoints, NEW c \in Coins \ {Spent}, AddOutput(o, c)
      PROVE  CoinsInv' /\ CoinsMap!Next
  <2>1. /\ view' = AddCoin(view, o, c, FALSE) /\ tip' = tip /\ coins' = coins
        /\ viewOpen' = viewOpen /\ viewOpen /\ Get(view, TipView, o) = Spent
    BY <1>4, Zenon DEF AddOutput
  <2>2. TipView' = TipView
    BY <2>1, Zenon DEF TipView
  <2>3. CoinsInv'
    BY <2>1, <2>2, <1>0, AddNewKeeps, InvStep, Zenon DEF CoinsInv, TipView
  <2>4. Work' = [Work EXCEPT ![o] = c]
    <3>1. \A x \in OutPoints : Get(AddCoin(view, o, c, FALSE), TipView, x)
                             = IF x = o THEN c ELSE Get(view, TipView, x)
      BY <1>0, Zenon DEF AddCoin, Get
    <3> QED BY <2>1, <2>2, <3>1, Zenon DEF ViewOf
  <2>5. CoinsMap!Set(o, c)
    BY <1>4, <2>1, <2>2, <2>4, Zenon DEF AddOutput, CoinsMap!Set
  <2> QED BY <2>3, <2>5, Zenon DEF CoinsMap!Next
<1>5. ASSUME NEW o \in OutPoints, NEW c \in Coins \ {Spent}, AddChecked(o, c)
      PROVE  CoinsInv' /\ CoinsMap!Next
  <2> DEFINE ow == Get(view, TipView, o) # Spent
  <2>1. /\ view' = AddCoin(ViewFetch(o), o, c, ow) /\ tip' = TipFetch(o) /\ coins' = coins
        /\ viewOpen' = viewOpen /\ viewOpen
    BY <1>5, Zenon DEF AddChecked
  <2>2. TipView' = TipView
    BY <2>1, TipFetchKeeps, Zenon DEF TipView
  <2>3. ~ow => Get(ViewFetch(o), TipView, o) = Spent
    <3>1. ViewOf(ViewFetch(o), TipView)[o] = ViewOf(view, TipView)[o]
      BY ViewFetchKeeps, Zenon
    <3> QED BY <3>1, Zenon DEF ViewOf
  <2>4. /\ view' \in [OutPoints -> Entry]
        /\ \A x \in OutPoints : ValidEntry(view'[x]) /\ Backed(view'[x], TipView[x])
        /\ ViewOf(view', TipView) = [ViewOf(ViewFetch(o), TipView) EXCEPT ![o] = c]
    <3>1. CASE ow
      <4>1. view' = AddCoin(ViewFetch(o), o, c, TRUE)
        BY <2>1, <3>1, Zenon
      <4>2. /\ AddCoin(ViewFetch(o), o, c, TRUE) \in [OutPoints -> Entry]
            /\ \A x \in OutPoints : /\ ValidEntry(AddCoin(ViewFetch(o), o, c, TRUE)[x])
                               /\ Backed(AddCoin(ViewFetch(o), o, c, TRUE)[x], TipView[x])
        BY <1>0, ViewFetchKeeps, AddOverwriteKeeps, Zenon
      <4>3. \A x \in OutPoints : Get(AddCoin(ViewFetch(o), o, c, TRUE), TipView, x)
                               = IF x = o THEN c ELSE Get(ViewFetch(o), TipView, x)
        BY ViewFetchKeeps, Zenon DEF AddCoin, Get
      <4> QED BY <4>1, <4>2, <4>3, Zenon DEF ViewOf
    <3>2. CASE ~ow
      <4>1. view' = AddCoin(ViewFetch(o), o, c, FALSE)
        BY <2>1, <3>2, Zenon
      <4>2. /\ AddCoin(ViewFetch(o), o, c, FALSE) \in [OutPoints -> Entry]
            /\ \A x \in OutPoints : /\ ValidEntry(AddCoin(ViewFetch(o), o, c, FALSE)[x])
                               /\ Backed(AddCoin(ViewFetch(o), o, c, FALSE)[x], TipView[x])
        BY <2>3, <3>2, <1>0, ViewFetchKeeps, AddNewKeeps, Zenon
      <4>3. \A x \in OutPoints : Get(AddCoin(ViewFetch(o), o, c, FALSE), TipView, x)
                               = IF x = o THEN c ELSE Get(ViewFetch(o), TipView, x)
        BY ViewFetchKeeps, Zenon DEF AddCoin, Get
      <4> QED BY <4>1, <4>2, <4>3, Zenon DEF ViewOf
    <3> QED BY <3>1, <3>2, Zenon
  <2>5. CoinsInv'
    BY <2>1, <2>2, <2>4, <1>0, TipFetchKeeps, InvStep, Zenon DEF CoinsInv, TipView
  <2>6. Work' = [Work EXCEPT ![o] = c]
    BY <2>2, <2>4, ViewFetchKeeps, Zenon
  <2>7. CoinsMap!Set(o, c)
    BY <1>5, <2>1, <2>2, <2>6, Zenon DEF AddChecked, CoinsMap!Set
  <2> QED BY <2>5, <2>7, Zenon DEF CoinsMap!Next
<1>6. ASSUME NEW o \in OutPoints, Spend(o)
      PROVE  CoinsInv' /\ CoinsMap!Next
  <2>1. /\ view' = SpendCoin(ViewFetch(o), o) /\ tip' = TipFetch(o) /\ coins' = coins
        /\ viewOpen' = viewOpen /\ viewOpen
    BY <1>6, Zenon DEF Spend
  <2>2. TipView' = TipView
    BY <2>1, TipFetchKeeps, Zenon DEF TipView
  <2>3. /\ view' \in [OutPoints -> Entry]
        /\ \A x \in OutPoints : ValidEntry(view'[x]) /\ Backed(view'[x], TipView[x])
        /\ ViewOf(view', TipView) = [ViewOf(ViewFetch(o), TipView) EXCEPT ![o] = Spent]
    BY <2>1, <1>0, ViewFetchKeeps, SpendKeeps, Zenon
  <2>4. CoinsInv'
    BY <2>1, <2>2, <2>3, <1>0, TipFetchKeeps, InvStep, Zenon DEF CoinsInv, TipView
  <2>5. Work' = [Work EXCEPT ![o] = Spent]
    BY <2>2, <2>3, ViewFetchKeeps, Zenon
  <2>6. CoinsMap!Set(o, Spent)
    BY <1>6, <2>1, <2>2, <2>5, Zenon DEF Spend, CoinsMap!Set
  <2> QED BY <2>4, <2>6, Zenon DEF CoinsMap!Next
<1>7. CASE FlushView
  <2>1. /\ tip' = [o \in OutPoints |-> Merge(view[o], tip[o])] /\ view' = EmptyCache
        /\ viewOpen' = FALSE /\ coins' = coins
    BY <1>7, Zenon DEF FlushView
  <2>2. ASSUME NEW o \in OutPoints
        PROVE  /\ tip'[o] \in Entry /\ ValidEntry(tip'[o]) /\ Backed(tip'[o], coins[o])
               /\ Get(tip', coins, o) = Get(view, TipView, o)
    BY <2>1, <1>0, MergeKeeps DEF Get, TipView, ViewOf
  <2>3. tip' \in [OutPoints -> Entry]
    BY <2>1, <2>2, Zenon
  <2>4. TipView' = Work
    BY <2>1, <2>2, Zenon DEF TipView, ViewOf
  <2>5. Work \in [OutPoints -> MaybeCoin]
    BY <1>0, ViewType, Zenon
  <2>6. CoinsInv'
    BY <2>1, <2>2, <2>3, <2>4, <2>5, <1>0, EmptyKeeps, InvStep, Zenon DEF CoinsInv, TipView
  <2>7. Work' = Work
    BY <2>1, <2>4, <2>5, EmptyKeeps, Zenon
  <2>8. CoinsMap!Keep
    BY <1>7, <2>1, <2>4, <2>7, Zenon DEF FlushView, CoinsMap!Keep
  <2> QED BY <2>6, <2>8, Zenon DEF CoinsMap!Next
<1>8. CASE DropView
  <2>1. view' = EmptyCache /\ viewOpen' = FALSE /\ coins' = coins /\ tip' = tip
    BY <1>8, Zenon DEF DropView
  <2>2. TipView' = TipView
    BY <2>1, Zenon DEF TipView
  <2>3. CoinsInv'
    BY <2>1, <2>2, <1>0, EmptyKeeps, InvStep, Zenon DEF CoinsInv, TipView
  <2>4. Work' = TipView
    BY <2>1, <2>2, <1>0, EmptyKeeps, Zenon
  <2>5. CoinsMap!Drop
    BY <1>8, <2>1, <2>2, <2>4, Zenon DEF DropView, CoinsMap!Drop
  <2> QED BY <2>3, <2>5, Zenon DEF CoinsMap!Next
<1>9. ASSUME NEW o \in OutPoints, FetchTip(o)
      PROVE  CoinsInv' /\ CoinsMap!Next
  <2>1. /\ tip' = FetchCoin(tip, coins, o) /\ view' = view /\ coins' = coins /\ viewOpen' = viewOpen
    BY <1>9, Zenon DEF FetchTip
  <2>2. TipView' = TipView
    BY <2>1, <1>0, FetchKeeps, Zenon DEF TipView
  <2>3. CoinsInv'
    BY <2>1, <2>2, <1>0, FetchKeeps, InvStep, Zenon DEF CoinsInv, TipView
  <2>4. CoinsMap!Other
    BY <1>9, <2>1, <2>2, Zenon DEF FetchTip, CoinsMap!Other
  <2> QED BY <2>3, <2>4, Zenon DEF CoinsMap!Next
<1>10. ASSUME NEW o \in OutPoints, Uncache(o)
       PROVE  CoinsInv' /\ CoinsMap!Next
  <2>1. /\ tip' = [tip EXCEPT ![o] = NoEntry] /\ view' = view /\ coins' = coins /\ viewOpen' = viewOpen
        /\ tip[o].in /\ tip[o].flags = {}
    BY <1>10, Zenon DEF Uncache
  <2>2. TipView' = TipView
    BY <2>1, <1>0, Zenon DEF TipView, ViewOf, Get, NoEntry, Backed
  <2>3. /\ tip' \in [OutPoints -> Entry]
        /\ \A x \in OutPoints : ValidEntry(tip'[x]) /\ Backed(tip'[x], coins[x])
    BY <2>1, <1>0, Zenon DEF NoEntry, Entry, ValidEntry, Backed, MaybeCoin
  <2>4. CoinsInv'
    BY <2>1, <2>2, <2>3, <1>0, InvStep, Zenon DEF CoinsInv, TipView
  <2>5. CoinsMap!Other
    BY <1>10, <2>1, <2>2, Zenon DEF Uncache, CoinsMap!Other
  <2> QED BY <2>4, <2>5, Zenon DEF CoinsMap!Next
<1>11. CASE FlushTip
  <2>1. coins' = WriteToDB(tip, coins) /\ tip' = EmptyCache /\ view' = view /\ viewOpen' = viewOpen /\ ~viewOpen
    BY <1>11, Zenon DEF FlushTip
  <2>2. coins' = TipView
    BY <2>1, <1>0, WriteKeeps, Zenon DEF TipView
  <2>3. TipView' = TipView
    BY <2>1, <2>2, <1>0, EmptyKeeps, Zenon DEF TipView
  <2>4. view = EmptyCache /\ Work = TipView
    BY <2>1, <1>0, EmptyKeeps, Zenon DEF CoinsInv
  <2>5. CoinsInv'
    BY <2>1, <2>2, <2>3, <2>4, <1>0, EmptyKeeps, InvStep, Zenon DEF CoinsInv, TipView
  <2>6. Work' = Work
    BY <2>1, <2>3, Zenon
  <2>7. CoinsMap!Persist
    BY <1>11, <2>2, <2>3, <2>4, <2>6, Zenon DEF FlushTip, CoinsMap!Persist
  <2> QED BY <2>5, <2>7, Zenon DEF CoinsMap!Next
<1>12. CASE UNCHANGED coinVars
  BY <1>12, Zenon DEF coinVars, CoinsInv, CoinsMap!vars, TipView, Get
<1> QED BY <1>1, <1>2, <1>3, <1>4, <1>5, <1>6, <1>7, <1>8, <1>9, <1>10, <1>11, <1>12
        DEF CoinsNext

(* The flags of every entry are valid and mean what coins.h says. *)
THEOREM CoinsInvariant == CoinsSpec => []FlagsMeanWhatTheySay
<1>1. CoinsInit => CoinsInv
  <2> SUFFICES ASSUME CoinsInit PROVE CoinsInv
    BY Zenon
  <2>1. \A o \in OutPoints : Get(tip, coins, o) \in MaybeCoin
    BY Zenon DEF CoinsInit, Get, EmptyCache, NoEntry, MaybeCoin
  <2> QED BY <2>1, EmptyKeeps, Zenon DEF CoinsInit, CoinsInv
<1>2. CoinsInv /\ [CoinsNext]_coinVars => CoinsInv'
  BY CoinsStep, Zenon
<1> QED BY <1>1, <1>2, PTL DEF CoinsSpec, FlagsMeanWhatTheySay

(* Neither logic_error of coins.cpp can be thrown. *)
THEOREM NoLogicErrorThm == CoinsSpec => []NoLogicError
<1>1. CoinsInv => NoLogicError
  <2> SUFFICES ASSUME CoinsInv, NEW o \in OutPoints
               PROVE  /\ Get(view, TipView, o) = Spent => ~AddCoinThrows(view, o, FALSE)
                      /\ ~MergeThrows(view[o], tip[o])
    BY Zenon DEF NoLogicError
  <2>1. Get(view, TipView, o) = Spent => ~AddCoinThrows(view, o, FALSE)
    BY DEF Get, AddCoinThrows, CoinsInv, ValidEntry, NoEntry
  <2>2. ~MergeThrows(view[o], tip[o])
    BY MergeKeeps, Zenon DEF CoinsInv, Get
  <2> QED BY <2>1, <2>2, Zenon
<1> QED BY <1>1, CoinsInvariant, PTL DEF FlagsMeanWhatTheySay

(* The coins caches implement one map: every step of the three layers is a step
   of LayeredStore or none. *)
THEOREM CoinsImplementsMap == CoinsSpec => CoinsMapSpec
<1>1. CoinsInit => CoinsMap!Init
  BY EmptyKeeps, Zenon DEF CoinsInit, CoinsMap!Init, CoinsMap!Store, TipView, MaybeCoin
<1>2. CoinsInv /\ [CoinsNext]_coinVars => [CoinsMap!Next]_(CoinsMap!vars)
  BY CoinsStep, Zenon
<1> QED BY <1>1, <1>2, CoinsInvariant, PTL DEF CoinsSpec, CoinsMapSpec, CoinsMap!Spec, FlagsMeanWhatTheySay

=============================================================================
