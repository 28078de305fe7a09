--------------------------- MODULE ChainStateProofs ---------------------------
(***************************************************************************)
(* Proofs about ChainState, for every block tree, every transactions and    *)
(* any number of crashes.                                                   *)
(***************************************************************************)
EXTENDS ChainState, BlockTreeProofs

-----------------------------------------------------------------------------
(* What the recursions over transactions and blocks compute. *)

\* The transactions of a block spend and create outputs.
LEMMA TxFacts ==
  ASSUME NEW b \in Blocks
  PROVE  /\ Len(Txs[b]) \in Nat
         /\ \A i \in 1..Len(Txs[b]) : Txs[b][i].vin \subseteq Outs /\ Txs[b][i].vout \subseteq Outs
<1> DEFINE T == [vin : SUBSET Outs, vout : SUBSET Outs]
<1>1. Txs[b] \in Seq(T)
  BY ChainAssumption, Zenon
<1>2. Len(Txs[b]) \in Nat /\ \A i \in 1..Len(Txs[b]) : Txs[b][i] \in T
  <2> HIDE DEF T
  <2> QED BY <1>1
<1> QED BY <1>2, Zenon

\* TxsApplied takes one transaction after the other.
LEMMA TxsAppliedUnfolds ==
  ASSUME NEW b \in Blocks, NEW view \in SUBSET Outs
  PROVE  /\ TxsApplied(view, b)[0] = view
         /\ \A i \in 1..Len(Txs[b]) : TxsApplied(view, b)[i] = ApplyTx(TxsApplied(view, b)[i - 1], Txs[b][i])
<1> DEFINE m == Len(Txs[b])
           Body(f, i) == IF i = 0 THEN view ELSE ApplyTx(f[i - 1], Txs[b][i])
           V == SUBSET Outs
           F == [i \in 1..m |-> [v \in V |-> ApplyTx(v, Txs[b][i])]]
<1>1. m \in Nat /\ view \in V
  BY TxFacts, Zenon
<1>2. Steps(m, V, F)
  BY TxFacts, Zenon DEF ApplyTx, Steps
<1>3. PICK f : Solves(m, V, F, view, f)
  <2> HIDE DEF m, F, V
  <2> QED BY <1>1, <1>2, Recursion, Zenon
<1>4. ASSUME NEW n \in 0..m PROVE f[n] = Body(f, n)
  <2>1. CASE n = 0
    BY <1>3, <2>1, Zenon DEF Solves
  <2>2. CASE n # 0
    <3>1. n \in 1..m /\ n - 1 \in 0..m
      BY <1>1, <2>2
    <3>2. f[n - 1] \in V /\ f[n] = F[n][f[n - 1]]
      BY <1>3, <3>1, Zenon DEF Solves
    <3> QED BY <2>2, <3>1, <3>2, Zenon
  <2> QED BY <2>1, <2>2, Zenon
<1>5. f = [n \in 0..m |-> Body(f, n)]
  <2>1. f = [n \in 0..m |-> f[n]]
    BY <1>3, Zenon DEF Solves
  <2> HIDE DEF m, Body
  <2> QED BY <1>4, <2>1, Zenon
<1>6. TxsApplied(view, b) = CHOOSE g : g = [n \in 0..m |-> Body(g, n)]
  BY Zenon DEF TxsApplied
<1>7. TxsApplied(view, b) = [n \in 0..m |-> Body(TxsApplied(view, b), n)]
  <2> HIDE DEF m, Body
  <2> QED BY <1>5, <1>6, Zenon
<1>8. ASSUME NEW n \in 0..m PROVE TxsApplied(view, b)[n] = Body(TxsApplied(view, b), n)
  <2> DEFINE A == TxsApplied(view, b)
  <2> HIDE DEF A, m, Body
  <2> QED BY <1>7, Zenon DEF A
<1> QED BY <1>1, <1>8

\* Applying transactions keeps to the outpoints, and asks of each outpoint
\* alone whether it was unspent.
LEMMA AppliedFacts ==
  ASSUME NEW b \in Blocks, NEW view \in SUBSET Outs
  PROVE  /\ \A i \in 0..Len(Txs[b]) : TxsApplied(view, b)[i] \in SUBSET Outs
         /\ \A w \in SUBSET Outs : \A x : (x \in view => x \in w) =>
               (x \in ConnectCoins(view, b) => x \in ConnectCoins(w, b))
<1> DEFINE m == Len(Txs[b])
           A(v) == TxsApplied(v, b)
<1>1. m \in Nat
  BY TxFacts, Zenon
<1>2. ASSUME NEW v \in SUBSET Outs
      PROVE  A(v)[0] = v /\ \A i \in Nat : i + 1 <= m => A(v)[i + 1] = (A(v)[i] \ Txs[b][i + 1].vin) \cup Txs[b][i + 1].vout
  <2>1. A(v)[0] = v /\ \A i \in 1..m : A(v)[i] = ApplyTx(A(v)[i - 1], Txs[b][i])
    BY TxsAppliedUnfolds, Zenon
  <2> SUFFICES ASSUME NEW i \in Nat, i + 1 <= m
               PROVE  A(v)[i + 1] = (A(v)[i] \ Txs[b][i + 1].vin) \cup Txs[b][i + 1].vout
    BY <2>1, Zenon
  <2>2. i + 1 \in 1..m /\ (i + 1) - 1 = i
    BY <1>1
  <2> HIDE DEF A, m
  <2> QED BY <2>1, <2>2, Zenon DEF ApplyTx
<1>3. \A i \in Nat : i + 1 <= m => Txs[b][i + 1].vout \subseteq Outs
  BY <1>1, TxFacts
<1>4. \A i \in 0..m : A(view)[i] \in SUBSET Outs
  <2> DEFINE S == {i \in Nat : i <= m => A(view)[i] \in SUBSET Outs}
  <2>1. 0 \in S
    BY <1>2, Zenon
  <2>2. ASSUME NEW i \in Nat, i \in S PROVE i + 1 \in S
    <3> HIDE DEF A, m
    <3> QED BY <1>1, <1>2, <1>3, <2>2
  <2>3. Nat \subseteq S
    <3> HIDE DEF S
    <3> QED BY <2>1, <2>2, SetInduction, Zenon
  <2> QED BY <1>1, <2>3
<1>5. ASSUME NEW w \in SUBSET Outs, NEW x, x \in view => x \in w
      PROVE  x \in A(view)[m] => x \in A(w)[m]
  <2> DEFINE S == {i \in Nat : i <= m => (x \in A(view)[i] => x \in A(w)[i])}
  <2>1. 0 \in S
    BY <1>2, <1>5, Zenon
  <2>2. ASSUME NEW i \in Nat, i \in S PROVE i + 1 \in S
    <3> HIDE DEF A, m
    <3> QED BY <1>1, <1>2, <2>2
  <2>3. Nat \subseteq S
    <3> HIDE DEF S
    <3> QED BY <2>1, <2>2, SetInduction, Zenon
  <2> QED BY <1>1, <2>3
<1> QED BY <1>4, <1>5, Zenon DEF ConnectCoins

\* Connecting a block keeps to the outpoints.
LEMMA ConnectType ==
  ASSUME NEW b \in Blocks, NEW view \in SUBSET Outs
  PROVE  ConnectCoins(view, b) \in SUBSET Outs
<1>1. Len(Txs[b]) \in 0..Len(Txs[b])
  BY TxFacts
<1> QED BY <1>1, AppliedFacts, Zenon DEF ConnectCoins

\* TxsUndone takes back one transaction after the other, from the last.
LEMMA TxsUndoneUnfolds ==
  ASSUME NEW b \in Blocks, NEW view \in SUBSET Outs
  PROVE  /\ TxsUndone(view, b)[0] = [view |-> view, clean |-> TRUE]
         /\ \A k \in 1..Len(Txs[b]) :
               TxsUndone(view, b)[k] = UndoTx(Txs[b][Len(Txs[b]) - k + 1], TxsUndone(view, b)[k - 1])
<1> DEFINE m == Len(Txs[b])
           start == [view |-> view, clean |-> TRUE]
           Body(f, k) == IF k = 0 THEN start ELSE UndoTx(Txs[b][m - k + 1], f[k - 1])
           V == [view : SUBSET Outs, clean : BOOLEAN]
           F == [k \in 1..m |-> [v \in V |-> UndoTx(Txs[b][m - k + 1], v)]]
<1>1. m \in Nat /\ start \in V
  BY TxFacts, Zenon
<1>2. Steps(m, V, F)
  <2> SUFFICES ASSUME NEW k \in 1..m, NEW v \in V PROVE UndoTx(Txs[b][m - k + 1], v) \in V
    BY Zenon DEF Steps
  <2>1. m - k + 1 \in 1..m
    BY <1>1
  <2> QED BY <2>1, TxFacts, Zenon DEF UndoTx
<1>3. PICK f : Solves(m, V, F, start, f)
  <2> HIDE DEF m, F, V, start
  <2> QED BY <1>1, <1>2, Recursion, Zenon
<1>4. ASSUME NEW n \in 0..m PROVE f[n] = Body(f, n)
  <2>1. CASE n = 0
    BY <1>3, <2>1, Zenon DEF Solves
  <2>2. CASE n # 0
    <3>1. n \in 1..m /\ n - 1 \in 0..m
      BY <1>1, <2>2
    <3>2. f[n - 1] \in V /\ f[n] = F[n][f[n - 1]]
      BY <1>3, <3>1, Zenon DEF Solves
    <3> QED BY <2>2, <3>1, <3>2, Zenon
  <2> QED BY <2>1, <2>2, Zenon
<1>5. f = [n \in 0..m |-> Body(f, n)]
  <2>1. f = [n \in 0..m |-> f[n]]
    BY <1>3, Zenon DEF Solves
  <2> HIDE DEF m, Body
  <2> QED BY <1>4, <2>1, Zenon
<1>6. TxsUndone(view, b) = CHOOSE g : g = [n \in 0..m |-> Body(g, n)]
  BY Zenon DEF TxsUndone
<1>7. TxsUndone(view, b) = [n \in 0..m |-> Body(TxsUndone(view, b), n)]
  <2> HIDE DEF m, Body
  <2> QED BY <1>5, <1>6, Zenon
<1>8. ASSUME NEW n \in 0..m PROVE TxsUndone(view, b)[n] = Body(TxsUndone(view, b), n)
  <2> DEFINE A == TxsUndone(view, b)
  <2> HIDE DEF A, m, Body
  <2> QED BY <1>7, Zenon DEF A
<1>9. 0 \in 0..m /\ \A k \in 1..m : k \in 0..m /\ k # 0
  BY <1>1
<1> QED BY <1>8, <1>9, Zenon

\* Disconnecting a block that could be connected is clean and gives the coins
\* before it.
LEMMA UndoInverts ==
  ASSUME NEW b \in Blocks, NEW view \in SUBSET Outs, Connectable(view, b)
  PROVE  DisconnectCoins(ConnectCoins(view, b), b) = [view |-> view, clean |-> TRUE]
<1> DEFINE m == Len(Txs[b])
           A == TxsApplied(view, b)
           U == TxsUndone(ConnectCoins(view, b), b)
           S == {k \in Nat : k <= m => U[k] = [view |-> A[m - k], clean |-> TRUE]}
<1>1. m \in Nat
  BY TxFacts, Zenon
<1>2. A[0] = view /\ \A i \in 1..m : A[i] = (A[i - 1] \ Txs[b][i].vin) \cup Txs[b][i].vout
  BY TxsAppliedUnfolds, Zenon DEF ApplyTx
<1>3. /\ U[0] = [view |-> A[m], clean |-> TRUE]
      /\ \A k \in 1..m : U[k] = UndoTx(Txs[b][m - k + 1], U[k - 1])
  BY TxsUndoneUnfolds, ConnectType, Zenon DEF ConnectCoins
<1>4. \A i \in 1..m : Txs[b][i].vin \subseteq A[i - 1] /\ Txs[b][i].vout \cap A[i - 1] = {}
  BY Zenon DEF Connectable
<1>5. 0 \in S
  <2> HIDE DEF U, A, m
  <2>1. m - 0 = m
    BY <1>1
  <2> QED BY <1>3, <2>1, Zenon
<1>6. ASSUME NEW k \in Nat, k \in S PROVE k + 1 \in S
  <2>9. k + 1 \in Nat
    OBVIOUS
  <2> SUFFICES ASSUME k + 1 <= m PROVE U[k + 1] = [view |-> A[m - (k + 1)], clean |-> TRUE]
    BY <2>9, Zenon
  <2> HIDE DEF U, A, m
  <2>0. k <= m
    BY <1>1
  <2>1. U[k] = [view |-> A[m - k], clean |-> TRUE]
    BY <1>6, <2>0, Zenon
  <2> DEFINE i == m - k
             tx == Txs[b][i]
  <2>2. i \in 1..m /\ k + 1 \in 1..m /\ m - (k + 1) + 1 = i /\ m - (k + 1) = i - 1 /\ (k + 1) - 1 = k
    BY <1>1
  <2>3. U[k + 1] = UndoTx(tx, U[k])
    <3> HIDE DEF i
    <3> QED BY <1>3, <2>2, Zenon
  <2>4. A[i] = (A[i - 1] \ tx.vin) \cup tx.vout /\ tx.vin \subseteq A[i - 1] /\ tx.vout \cap A[i - 1] = {}
    BY <1>2, <1>4, <2>2, Zenon
  <2> HIDE DEF tx, i
  <2>5. /\ (A[i] \ tx.vout) \cup tx.vin = A[i - 1]
        /\ tx.vout \subseteq A[i]
        /\ tx.vin \cap (A[i] \ tx.vout) = {}
    BY <2>4, Zenon
  <2>6. U[k] = [view |-> A[i], clean |-> TRUE]
    BY <2>1, Zenon DEF i
  <2>7. UndoTx(tx, U[k]) = [view |-> A[i - 1], clean |-> TRUE]
    <3>1. U[k].view = A[i] /\ U[k].clean = TRUE
      BY <2>6
    <3>2. (U[k].view \ tx.vout) \cup tx.vin = A[i - 1]
      BY <2>5, <3>1, Zenon
    <3>3. (U[k].clean /\ tx.vout \subseteq U[k].view /\ tx.vin \cap (U[k].view \ tx.vout) = {}) = TRUE
      BY <2>5, <3>1, Zenon
    <3> QED BY <3>2, <3>3, Zenon DEF UndoTx
  <2> QED BY <2>2, <2>3, <2>7, Zenon
<1>7. Nat \subseteq S
  <2> HIDE DEF S
  <2> QED BY <1>5, <1>6, SetInduction, Zenon
<1>8. U[m] = [view |-> A[m - m], clean |-> TRUE] /\ m - m = 0
  <2>1. m \in S /\ m <= m /\ m - m = 0
    BY <1>1, <1>7
  <2> HIDE DEF U, A, m
  <2> QED BY <2>1, Zenon
<1> HIDE DEF U, A, m
<1> QED BY <1>2, <1>8, Zenon DEF DisconnectCoins, U, m

\* Disconnecting a block keeps to the outpoints.
LEMMA DisconnectType ==
  ASSUME NEW b \in Blocks, NEW view \in SUBSET Outs
  PROVE  DisconnectCoins(view, b) \in [view : SUBSET Outs, clean : BOOLEAN]
<1> DEFINE m == Len(Txs[b])
           V == [view : SUBSET Outs, clean : BOOLEAN]
           U == TxsUndone(view, b)
           S == {k \in Nat : k <= m => U[k] \in V}
<1>1. m \in Nat
  BY TxFacts, Zenon
<1>2. U[0] = [view |-> view, clean |-> TRUE] /\ \A k \in 1..m : U[k] = UndoTx(Txs[b][m - k + 1], U[k - 1])
  BY TxsUndoneUnfolds, Zenon
<1>0. [view |-> view, clean |-> TRUE] \in V /\ \A i \in 1..m : \A v \in V : UndoTx(Txs[b][i], v) \in V
  BY TxFacts, Zenon DEF UndoTx
<1>3. 0 \in S
  <2> HIDE DEF V, U
  <2> QED BY <1>0, <1>2
<1>4. ASSUME NEW k \in Nat, k \in S PROVE k + 1 \in S
  <2> HIDE DEF U
  <2>1. k + 1 \in Nat
    OBVIOUS
  <2> SUFFICES ASSUME k + 1 <= m PROVE U[k + 1] \in V
    BY <2>1, Zenon
  <2>2. k <= m /\ k + 1 \in 1..m /\ (k + 1) - 1 = k /\ m - (k + 1) + 1 \in 1..m
    <3> HIDE DEF m
    <3> QED BY <1>1
  <2>3. U[k] \in V /\ U[k + 1] = UndoTx(Txs[b][m - (k + 1) + 1], U[k])
    <3> HIDE DEF m, V
    <3> QED BY <1>2, <1>4, <2>2, Zenon
  <2> HIDE DEF m, V
  <2> QED BY <1>0, <2>2, <2>3, Zenon
<1>5. Nat \subseteq S
  <2> HIDE DEF S
  <2> QED BY <1>3, <1>4, SetInduction, Zenon
<1>6. m \in S /\ m <= m
  <2> HIDE DEF m, S
  <2> QED BY <1>1, <1>5
<1> HIDE DEF U, V
<1> QED BY <1>6, Zenon DEF DisconnectCoins, U, V

\* BlocksApplied connects one block after the other.
LEMMA BlocksAppliedUnfolds ==
  ASSUME NEW fork \in Blocks, NEW new \in Blocks, Height[fork] <= Height[new], NEW view \in SUBSET Outs
  PROVE  /\ BlocksApplied(view, fork, new)[0] = view
         /\ \A n \in 1..(Height[new] - Height[fork]) :
               /\ GetAncestor(new, Height[fork] + n) \in Blocks
               /\ BlocksApplied(view, fork, new)[n] =
                     ConnectCoins(BlocksApplied(view, fork, new)[n - 1], GetAncestor(new, Height[fork] + n))
<1> DEFINE m == Height[new] - Height[fork]
           At(n) == GetAncestor(new, Height[fork] + n)
           Body(f, n) == IF n = 0 THEN view ELSE ConnectCoins(f[n - 1], At(n))
           V == SUBSET Outs
           F == [n \in 1..m |-> [v \in V |-> ConnectCoins(v, At(n))]]
<1>1. m \in Nat /\ view \in V
  BY HeightFacts
<1>0. \A n \in 1..m : At(n) \in Blocks
  <2> SUFFICES ASSUME NEW n \in 1..m PROVE At(n) \in Blocks
    BY Zenon
  <2>1. Height[fork] + n \in RootHeight..Height[new]
    BY <1>1, HeightFacts, TreeAssumption
  <2> QED BY <2>1, AncestorFacts, AncFacts
<1>2. Steps(m, V, F)
  <2> SUFFICES ASSUME NEW n \in 1..m, NEW v \in V PROVE ConnectCoins(v, At(n)) \in V
    BY Zenon DEF Steps
  <2> HIDE DEF At
  <2> QED BY <1>0, ConnectType, Zenon
<1>3. PICK f : Solves(m, V, F, view, f)
  <2> HIDE DEF m, F, V
  <2> QED BY <1>1, <1>2, Recursion, Zenon
<1>4. ASSUME NEW n \in 0..m PROVE f[n] = Body(f, n)
  <2>1. CASE n = 0
    BY <1>3, <2>1, Zenon DEF Solves
  <2>2. CASE n # 0
    <3>1. n \in 1..m /\ n - 1 \in 0..m
      BY <1>1, <2>2
    <3>2. f[n - 1] \in V /\ f[n] = F[n][f[n - 1]]
      BY <1>3, <3>1, Zenon DEF Solves
    <3> QED BY <2>2, <3>1, <3>2
  <2> QED BY <2>1, <2>2, Zenon
<1>5. f = [n \in 0..m |-> Body(f, n)]
  <2>1. f = [n \in 0..m |-> f[n]]
    BY <1>3, Zenon DEF Solves
  <2> HIDE DEF m, Body
  <2> QED BY <1>4, <2>1, Zenon
<1>6. BlocksApplied(view, fork, new) = CHOOSE g : g = [n \in 0..m |-> Body(g, n)]
  BY Zenon DEF BlocksApplied
<1>7. BlocksApplied(view, fork, new) = [n \in 0..m |-> Body(BlocksApplied(view, fork, new), n)]
  <2> HIDE DEF m, Body
  <2> QED BY <1>5, <1>6, Zenon
<1>8. ASSUME NEW n \in 0..m PROVE BlocksApplied(view, fork, new)[n] = Body(BlocksApplied(view, fork, new), n)
  <2> DEFINE A == BlocksApplied(view, fork, new)
  <2> HIDE DEF A, m, Body
  <2> QED BY <1>7, Zenon DEF A
<1> QED BY <1>0, <1>1, <1>8

\* The same in steps from n to n + 1, with what each step keeps.
LEMMA BlocksAppliedSteps ==
  ASSUME NEW fork \in Blocks, NEW new \in Blocks, NEW m \in Nat, m = Height[new] - Height[fork],
         NEW view \in SUBSET Outs
  PROVE  /\ BlocksApplied(view, fork, new)[0] = view
         /\ \A n \in Nat : n + 1 <= m =>
               /\ GetAncestor(new, Height[fork] + n + 1) \in Blocks
               /\ BlocksApplied(view, fork, new)[n + 1] =
                     ConnectCoins(BlocksApplied(view, fork, new)[n], GetAncestor(new, Height[fork] + n + 1))
         /\ \A n \in Nat : n <= m => BlocksApplied(view, fork, new)[n] \in SUBSET Outs
<1> DEFINE A == BlocksApplied(view, fork, new)
           At(h) == GetAncestor(new, h)
           S == {n \in Nat : n <= m => A[n] \in SUBSET Outs}
<1>1. Height[fork] \in Nat /\ Height[new] \in Nat /\ Height[fork] <= Height[new]
  BY HeightFacts
<1>2. A[0] = view /\ \A n \in 1..m : At(Height[fork] + n) \in Blocks /\ A[n] = ConnectCoins(A[n - 1], At(Height[fork] + n))
  BY <1>1, BlocksAppliedUnfolds
<1>3. ASSUME NEW n \in Nat, n + 1 <= m
      PROVE  At(Height[fork] + n + 1) \in Blocks /\ A[n + 1] = ConnectCoins(A[n], At(Height[fork] + n + 1))
  <2>1. n + 1 \in 1..m /\ (n + 1) - 1 = n /\ Height[fork] + (n + 1) = Height[fork] + n + 1
    BY <1>1, <1>3
  <2> HIDE DEF A, At
  <2> QED BY <1>2, <2>1, Zenon
<1>4. 0 \in S
  BY <1>2, Zenon
<1>5. ASSUME NEW n \in Nat, n \in S PROVE n + 1 \in S
  <2> HIDE DEF A, At
  <2> QED BY <1>3, <1>5, ConnectType
<1>6. Nat \subseteq S
  <2> HIDE DEF S
  <2> QED BY <1>4, <1>5, SetInduction, Zenon
<1> QED BY <1>2, <1>3, <1>6, Zenon

\* Rolling forward asks of each outpoint alone whether it was unspent.
LEMMA RollPointwise ==
  ASSUME NEW fork \in Blocks, NEW new \in Blocks, Height[fork] <= Height[new],
         NEW v \in SUBSET Outs, NEW w \in SUBSET Outs, NEW x, x \in v => x \in w
  PROVE  x \in RollForward(v, fork, new) => x \in RollForward(w, fork, new)
<1> DEFINE m == Height[new] - Height[fork]
           A == BlocksApplied(v, fork, new)
           B == BlocksApplied(w, fork, new)
           At(n) == GetAncestor(new, Height[fork] + n + 1)
           S == {n \in Nat : n <= m => (x \in A[n] => x \in B[n])}
<1>1. m \in Nat
  BY HeightFacts
<1>2. /\ A[0] = v /\ B[0] = w
      /\ \A n \in Nat : n + 1 <= m =>
            At(n) \in Blocks /\ A[n + 1] = ConnectCoins(A[n], At(n)) /\ B[n + 1] = ConnectCoins(B[n], At(n))
      /\ \A n \in Nat : n <= m => A[n] \in SUBSET Outs /\ B[n] \in SUBSET Outs
  BY <1>1, BlocksAppliedSteps
<1>3. 0 \in S
  BY <1>2, Zenon
<1>4. ASSUME NEW n \in Nat, n \in S PROVE n + 1 \in S
  <2> SUFFICES ASSUME n + 1 <= m, x \in A[n + 1] PROVE x \in B[n + 1]
    OBVIOUS
  <2> HIDE DEF A, B, At, m
  <2>1. n <= m
    BY <1>1
  <2>2. A[n] \in SUBSET Outs /\ B[n] \in SUBSET Outs /\ At(n) \in Blocks /\ (x \in A[n] => x \in B[n])
    BY <1>2, <1>4, <2>1, Zenon
  <2>3. x \in ConnectCoins(A[n], At(n)) => x \in ConnectCoins(B[n], At(n))
    BY <2>2, AppliedFacts, Zenon
  <2> QED BY <1>2, <2>3, Zenon
<1>5. Nat \subseteq S
  <2> HIDE DEF S
  <2> QED BY <1>3, <1>4, SetInduction, Zenon
<1> QED BY <1>1, <1>5 DEF RollForward

\* The unspent outputs of a block are those of its parent with the block connected.
LEMMA UtxoStep ==
  ASSUME NEW b \in Blocks \ {Root}
  PROVE  Utxo[b] = ConnectCoins(Utxo[Parent[b]], b)
<1> DEFINE p == Parent[b]
           m == Height[p] - Height[Root]
           A == BlocksApplied({}, Root, b)
           B == BlocksApplied({}, Root, p)
           S == {n \in Nat : n <= m => A[n] = B[n]}
<1>1. p \in Blocks /\ p \in Anc[b] /\ b \in Anc[b] /\ Root \in Blocks
  BY TreeAssumption, AncFacts
<1>2. m \in Nat /\ Height[b] = Height[p] + 1 /\ Height[p] \in Nat /\ Height[Root] = RootHeight /\ RootHeight \in Nat
  BY <1>1, HeightFacts, TreeAssumption
<1> HIDE DEF p
<1>3. m + 1 \in Nat /\ m + 1 = Height[b] - Height[Root] /\ RootHeight + m = Height[p]
  BY <1>2
<1>4. /\ A[0] = {}
      /\ \A n \in Nat : n + 1 <= m + 1 => A[n + 1] = ConnectCoins(A[n], GetAncestor(b, RootHeight + n + 1))
  BY <1>1, <1>2, <1>3, BlocksAppliedSteps
<1>5. /\ B[0] = {}
      /\ \A n \in Nat : n + 1 <= m => B[n + 1] = ConnectCoins(B[n], GetAncestor(p, RootHeight + n + 1))
  BY <1>1, <1>2, BlocksAppliedSteps
<1>6. ASSUME NEW n \in Nat, n + 1 <= m
      PROVE  GetAncestor(b, RootHeight + n + 1) = GetAncestor(p, RootHeight + n + 1)
  <2>1. RootHeight + n + 1 \in RootHeight..Height[p]
    BY <1>2, <1>6
  <2> QED BY <1>1, <2>1, AncestorFacts
<1>7. 0 \in S
  BY <1>4, <1>5, Zenon
<1>8. ASSUME NEW n \in Nat, n \in S PROVE n + 1 \in S
  <2> SUFFICES ASSUME n + 1 <= m PROVE A[n + 1] = B[n + 1]
    OBVIOUS
  <2>1. A[n] = B[n] /\ n + 1 <= m + 1
    <3> HIDE DEF A, B
    <3> QED BY <1>2, <1>8
  <2> HIDE DEF A, B, m
  <2> QED BY <1>4, <1>5, <1>6, <2>1, Zenon
<1>9. Nat \subseteq S
  <2> HIDE DEF S
  <2> QED BY <1>7, <1>8, SetInduction
<1>10. A[m] = B[m]
  <2> HIDE DEF A, B
  <2> QED BY <1>2, <1>9
<1>11. GetAncestor(b, RootHeight + m + 1) = b
  <2>1. RootHeight + m + 1 = Height[b]
    BY <1>2
  <2> HIDE DEF m
  <2> QED BY <1>1, <2>1, AncestorFacts, Zenon
<1>12. A[m + 1] = ConnectCoins(B[m], b)
  <2> HIDE DEF A, B, m
  <2> QED BY <1>2, <1>4, <1>10, <1>11
<1>13. Utxo[b] = A[m + 1]
  <2>1. Utxo[b] = A[Height[b] - Height[Root]]
    BY Zenon DEF Utxo, RollForward
  <2> HIDE DEF A, m
  <2> QED BY <1>3, <2>1, Zenon
<1>14. Utxo[p] = B[m]
  BY <1>1, Zenon DEF Utxo, RollForward
<1> HIDE DEF A, B, m
<1> QED BY <1>12, <1>13, <1>14, Zenon DEF p

\* The unspent outputs of a block are outpoints; Root has none.
LEMMA UtxoFacts ==
  /\ \A b \in Blocks : Utxo[b] \in SUBSET Outs
  /\ Utxo[Root] = {}
<1>1. ASSUME NEW b \in Blocks PROVE Utxo[b] \in SUBSET Outs
  <2> DEFINE m == Height[b] - Height[Root]
  <2>1. m \in Nat /\ Root \in Blocks
    BY HeightFacts, TreeAssumption
  <2>2. \A n \in Nat : n <= m => BlocksApplied({}, Root, b)[n] \in SUBSET Outs
    BY <2>1, BlocksAppliedSteps, Zenon
  <2>3. BlocksApplied({}, Root, b)[m] \in SUBSET Outs
    <3> HIDE DEF m
    <3> QED BY <2>1, <2>2
  <2> QED BY <2>3, Zenon DEF Utxo, RollForward
<1>2. Utxo[Root] = {}
  <2>1. Height[Root] - Height[Root] = 0 /\ Root \in Blocks
    BY HeightFacts, TreeAssumption
  <2>2. BlocksApplied({}, Root, Root)[0] = {}
    BY <2>1, BlocksAppliedSteps
  <2> QED BY <2>1, <2>2, Zenon DEF Utxo, RollForward
<1> QED BY <1>1, <1>2, Zenon

\* Rolling the coins of a block forward gives the coins of its descendant.
LEMMA RollFromOld ==
  ASSUME NEW new \in Blocks, NEW old \in Anc[new]
  PROVE  RollForward(Utxo[old], old, new) = Utxo[new]
<1> DEFINE m == Height[new] - Height[old]
           A == BlocksApplied(Utxo[old], old, new)
           At(h) == GetAncestor(new, h)
           S == {n \in Nat : n <= m => A[n] = Utxo[At(Height[old] + n)]}
<1>1. old \in Blocks /\ new \in Anc[new] /\ Utxo[old] \in SUBSET Outs
  BY AncFacts, UtxoFacts, Zenon
<1>2. m \in Nat /\ Height[new] \in Nat /\ Height[old] \in Nat /\ RootHeight \in Nat /\ RootHeight <= Height[old]
  BY <1>1, HeightFacts, LineFacts, TreeAssumption
<1>3. /\ A[0] = Utxo[old]
      /\ \A n \in Nat : n + 1 <= m => A[n + 1] = ConnectCoins(A[n], At(Height[old] + n + 1))
  BY <1>1, <1>2, BlocksAppliedSteps
<1>4. ASSUME NEW n \in Nat, n + 1 <= m
      PROVE  Utxo[At(Height[old] + n + 1)] = ConnectCoins(Utxo[At(Height[old] + n)], At(Height[old] + n + 1))
  <2>1. Height[old] + n + 1 \in (RootHeight + 1)..Height[new] /\ (Height[old] + n + 1) - 1 = Height[old] + n
    BY <1>2, <1>4
  <2>2. At(Height[old] + n + 1) \in Blocks \ {Root} /\ Parent[At(Height[old] + n + 1)] = At(Height[old] + n)
    BY <2>1, AncestorFacts
  <2> HIDE DEF At
  <2> QED BY <2>2, UtxoStep, Zenon
<1>5. 0 \in S
  <2>1. Height[old] + 0 = Height[old] /\ At(Height[old]) = old
    BY <1>2, AncestorFacts
  <2> HIDE DEF At, A
  <2> QED BY <1>3, <2>1, Zenon
<1>6. ASSUME NEW n \in Nat, n \in S PROVE n + 1 \in S
  <2> SUFFICES ASSUME n + 1 <= m PROVE A[n + 1] = Utxo[At(Height[old] + (n + 1))]
    OBVIOUS
  <2>1. Height[old] + (n + 1) = Height[old] + n + 1 /\ n <= m
    BY <1>2
  <2> HIDE DEF A, At, m
  <2> QED BY <1>3, <1>4, <1>6, <2>1, Zenon
<1>7. Nat \subseteq S
  <2> HIDE DEF S
  <2> QED BY <1>5, <1>6, SetInduction, Zenon
<1>8. Height[old] + m = Height[new] /\ At(Height[new]) = new
  BY <1>1, <1>2, AncestorFacts
<1>9. A[m] = Utxo[new]
  <2> HIDE DEF A, At, m
  <2> QED BY <1>2, <1>7, <1>8
<1> QED BY <1>9, Zenon DEF RollForward

\* Replaying an interrupted flush: whatever part of it was written, rolling
\* forward from the old tip gives the coins of the new one.
LEMMA Replay ==
  ASSUME NEW new \in Blocks, NEW old \in Anc[new], NEW view \in SUBSET Outs,
         Utxo[new] \cap Utxo[old] \subseteq view, view \subseteq Utxo[new] \cup Utxo[old]
  PROVE  RollForward(view, old, new) = Utxo[new]
<1>1. old \in Blocks /\ Height[old] <= Height[new] /\ Utxo[old] \in SUBSET Outs
  BY AncFacts, LineFacts, UtxoFacts
<1>2. ASSUME NEW x \in RollForward(view, old, new) PROVE x \in Utxo[new]
  <2>1. CASE x \in view => x \in Utxo[old]
    BY <1>1, <1>2, <2>1, RollPointwise, RollFromOld
  <2>2. CASE ~(x \in view => x \in Utxo[old])
    BY <2>2, Zenon
  <2> QED BY <2>1, <2>2, Zenon
<1>3. ASSUME NEW x \in Utxo[new] PROVE x \in RollForward(view, old, new)
  <2>1. x \in Utxo[old] => x \in view
    BY <1>3, Zenon
  <2> QED BY <1>1, <1>3, <2>1, RollPointwise, RollFromOld
<1> QED BY <1>2, <1>3, Zenon

-----------------------------------------------------------------------------
(* The inductive invariant. *)

\* The chain up to b could be connected block by block.
GoodChain(b) == \A c \in Chain[b] : Connectable(Utxo[Parent[c]], c)

Closed(S) == S \subseteq Blocks /\ \A b \in S \ {Root} : Parent[b] \in S

Between(view, new, old) == Utxo[new] \cap Utxo[old] \subseteq view /\ view \subseteq Utxo[new] \cup Utxo[old]

DiskInv ==
    /\ Closed(blockTree)
    /\ coinsDB \in [coins : SUBSET Outs, best : Blocks \cup {NoBlock}, heads : {<<>>} \cup (Blocks \X Blocks)]
    /\ IF coinsDB.heads = <<>>
       THEN coinsDB.best \in blockTree /\ GoodChain(coinsDB.best) /\ coinsDB.coins = Utxo[coinsDB.best]
       ELSE /\ coinsDB.best = NoBlock
            /\ \A i \in 1..2 : coinsDB.heads[i] \in blockTree /\ GoodChain(coinsDB.heads[i])
            /\ Between(coinsDB.coins, coinsDB.heads[1], coinsDB.heads[2])

AfterOK == after \in {"running", "rewind", "stop", "exit"}

MemInv ==
    /\ cache \in [best : Blocks \cup {NoBlock}, add : SUBSET Outs, del : SUBSET Outs]
    /\ Live =>
         /\ Closed(known) /\ blockTree \subseteq known
         /\ cache.best \in known /\ GoodChain(cache.best)
         /\ cache.add \cap coinsDB.coins = {} /\ cache.del \subseteq coinsDB.coins
         /\ View = Utxo[cache.best]
         /\ Writing => cache.best \in blockTree
         /\ coinsDB.heads # <<>> => Writing /\ coinsDB.heads[1] = cache.best

CoinsInv == DiskInv /\ MemInv

Synced == evo.best = cache.best
DiskSynced == evoDB.best = coinsDB.best
CacheEmpty == cache.add = {} /\ cache.del = {} /\ cache.best = coinsDB.best

EvoRecord == {[best |-> b, applied |-> EvoOf(b)] : b \in Blocks}

EvoInv ==
    /\ evo \in EvoRecord /\ evoDB \in EvoRecord
    /\ coinsDB.heads # <<>> => evoDB.best = coinsDB.heads[2]
    /\ pc = "replay" => coinsDB.heads # <<>>
    /\ pc = "running" => Synced /\ DiskSynced
    /\ pc \in {"index", "coins"} /\ coinsDB.heads = <<>> =>
          /\ DiskSynced \/ CacheEmpty
          /\ after \in {"running", "rewind"} => DiskSynced
    /\ pc \in {"index", "coins", "evo"} /\ after \in {"running", "rewind"} => Synced
    /\ pc \in {"evo", "verify", "commit"} => CacheEmpty
    /\ pc = "verify" => evo = evoDB
    /\ pc = "rewind" => (Synced /\ DiskSynced) \/ (CacheEmpty /\ ~Synced)

-----------------------------------------------------------------------------
(* The coins. *)

\* The chain of a block is that of its parent and the block.
LEMMA ChainStep ==
  ASSUME NEW b \in Blocks \ {Root}
  PROVE  /\ Parent[b] \in Blocks /\ Chain[b] = Chain[Parent[b]] \cup {b} /\ b \notin Chain[Parent[b]]
         /\ GoodChain(b) <=> GoodChain(Parent[b]) /\ Connectable(Utxo[Parent[b]], b)
<1>1. Parent[b] \in Blocks /\ Anc[b] = {b} \cup Anc[Parent[b]] /\ b \notin Anc[Parent[b]]
  BY TreeAssumption, Zenon
<1>2. Chain[b] = Chain[Parent[b]] \cup {b} /\ b \notin Chain[Parent[b]]
  BY <1>1, Zenon DEF Chain
<1> QED BY <1>1, <1>2, Zenon DEF GoodChain

\* The loop of VerifyDB disconnects one block after the other.
LEMMA BlocksVerifiedUnfolds ==
  ASSUME NEW tip \in Blocks, NEW view \in SUBSET Outs
  PROVE  /\ BlocksVerified(view, tip)[0] = [view |-> view, b |-> tip, clean |-> TRUE]
         /\ \A n \in 1..CheckDepth : BlocksVerified(view, tip)[n] = VerifyBlock(BlocksVerified(view, tip)[n - 1])
<1> DEFINE m == CheckDepth
           start == [view |-> view, b |-> tip, clean |-> TRUE]
           Body(f, n) == IF n = 0 THEN start ELSE VerifyBlock(f[n - 1])
           V == [view : SUBSET Outs, b : Blocks, clean : BOOLEAN]
           F == [n \in 1..m |-> [v \in V |-> VerifyBlock(v)]]
<1>1. m \in Nat /\ start \in V
  BY ChainAssumption, Zenon
<1>2. Steps(m, V, F)
  <2> SUFFICES ASSUME NEW v \in V PROVE VerifyBlock(v) \in V
    BY Zenon DEF Steps
  <2>1. CASE v.b = Root
    BY <2>1, Zenon DEF VerifyBlock
  <2>2. CASE v.b # Root
    <3>1. v.b \in Blocks \ {Root} /\ v.view \in SUBSET Outs /\ v.clean \in BOOLEAN
      BY <2>2, Zenon
    <3>2. Parent[v.b] \in Blocks
      BY <3>1, ChainStep, Zenon
    <3>3. DisconnectCoins(v.view, v.b) \in [view : SUBSET Outs, clean : BOOLEAN]
      BY <3>1, DisconnectType, Zenon
    <3>4. VerifyBlock(v) = [view |-> DisconnectCoins(v.view, v.b).view, b |-> Parent[v.b],
                            clean |-> v.clean /\ DisconnectCoins(v.view, v.b).clean]
      BY <2>2, Zenon DEF VerifyBlock
    <3>5. DisconnectCoins(v.view, v.b).view \in SUBSET Outs /\ DisconnectCoins(v.view, v.b).clean \in BOOLEAN
      BY <3>3, Zenon
    <3>6. (v.clean /\ DisconnectCoins(v.view, v.b).clean) \in BOOLEAN
      BY Zenon
    <3> QED BY <3>2, <3>4, <3>5, <3>6
  <2> QED BY <2>1, <2>2, Zenon
<1>3. PICK f : Solves(m, V, F, start, f)
  <2> HIDE DEF m, F, V, start
  <2> QED BY <1>1, <1>2, Recursion, Zenon
<1>4. ASSUME NEW n \in 0..m PROVE f[n] = Body(f, n)
  <2>1. CASE n = 0
    BY <1>3, <2>1, Zenon DEF Solves
  <2>2. CASE n # 0
    <3>1. n \in 1..m /\ n - 1 \in 0..m
      BY <1>1, <2>2
    <3>2. f[n - 1] \in V /\ f[n] = F[n][f[n - 1]]
      BY <1>3, <3>1, Zenon DEF Solves
    <3> HIDE DEF V
    <3> QED BY <2>2, <3>1, <3>2, Zenon
  <2> QED BY <2>1, <2>2, Zenon
<1>5. f = [n \in 0..m |-> Body(f, n)]
  <2>1. f = [n \in 0..m |-> f[n]]
    BY <1>3, Zenon DEF Solves
  <2> HIDE DEF m, Body
  <2> QED BY <1>4, <2>1, Zenon
<1>6. BlocksVerified(view, tip) = CHOOSE g : g = [n \in 0..m |-> Body(g, n)]
  BY Zenon DEF BlocksVerified
<1>7. BlocksVerified(view, tip) = [n \in 0..m |-> Body(BlocksVerified(view, tip), n)]
  <2> HIDE DEF m, Body
  <2> QED BY <1>5, <1>6, Zenon
<1>8. ASSUME NEW n \in 0..m PROVE BlocksVerified(view, tip)[n] = Body(BlocksVerified(view, tip), n)
  <2> DEFINE A == BlocksVerified(view, tip)
  <2> HIDE DEF A, m, Body
  <2> QED BY <1>7, Zenon DEF A
<1>9. 0 \in 0..m /\ \A n \in 1..m : n \in 0..m /\ n # 0
  BY <1>1
<1> QED BY <1>8, <1>9, Zenon

\* The coins of a chain that could be connected can be taken back, and VerifyDB
\* finds them clean.
LEMMA GoodVerifies ==
  ASSUME NEW tip \in Blocks, GoodChain(tip)
  PROVE  /\ tip # Root => DisconnectCoins(Utxo[tip], tip).clean
         /\ VerifyCoins(Utxo[tip], tip)
<1> DEFINE At(c) == [view |-> Utxo[c], b |-> c, clean |-> TRUE]
           R == BlocksVerified(Utxo[tip], tip)
           S == {n \in Nat : n <= CheckDepth => \E c \in Blocks : GoodChain(c) /\ R[n] = At(c)}
<1>1. R[0] = At(tip) /\ \A n \in 1..CheckDepth : R[n] = VerifyBlock(R[n - 1])
  BY BlocksVerifiedUnfolds, UtxoFacts, Zenon
<1>2. ASSUME NEW c \in Blocks \ {Root}, GoodChain(c)
      PROVE  /\ Parent[c] \in Blocks /\ GoodChain(Parent[c])
             /\ DisconnectCoins(Utxo[c], c) = [view |-> Utxo[Parent[c]], clean |-> TRUE]
  <2>1. Parent[c] \in Blocks /\ GoodChain(Parent[c]) /\ Connectable(Utxo[Parent[c]], c)
    BY <1>2, ChainStep, Zenon
  <2>2. Utxo[Parent[c]] \in SUBSET Outs /\ Utxo[c] = ConnectCoins(Utxo[Parent[c]], c)
    BY <2>1, UtxoFacts, UtxoStep, Zenon
  <2> QED BY <2>1, <2>2, UndoInverts, Zenon
<1>3. ASSUME NEW c \in Blocks, GoodChain(c)
      PROVE  \E d \in Blocks : GoodChain(d) /\ VerifyBlock(At(c)) = At(d)
  <2>1. CASE c = Root
    BY <1>3, <2>1, Zenon DEF VerifyBlock
  <2>2. CASE c # Root
    <3>1. DisconnectCoins(Utxo[c], c).view = Utxo[Parent[c]] /\ DisconnectCoins(Utxo[c], c).clean = TRUE
      <4>1. DisconnectCoins(Utxo[c], c) = [view |-> Utxo[Parent[c]], clean |-> TRUE]
        BY <1>2, <1>3, <2>2, Zenon
      <4> QED BY <4>1
    <3>2. VerifyBlock(At(c)) = [view |-> DisconnectCoins(Utxo[c], c).view, b |-> Parent[c],
                                clean |-> TRUE /\ DisconnectCoins(Utxo[c], c).clean]
      BY <2>2, Zenon DEF VerifyBlock
    <3>3. (TRUE /\ DisconnectCoins(Utxo[c], c).clean) = TRUE
      BY <3>1, Zenon
    <3>4. VerifyBlock(At(c)) = At(Parent[c])
      BY <3>1, <3>2, <3>3, Zenon
    <3> HIDE DEF At
    <3> QED BY <1>2, <1>3, <2>2, <3>4, Zenon
  <2> QED BY <2>1, <2>2, Zenon
<1>4. 0 \in S
  <2> HIDE DEF R, At
  <2> QED BY <1>1
<1>5. ASSUME NEW n \in Nat, n \in S PROVE n + 1 \in S
  <2> HIDE DEF R, At
  <2>1. n + 1 \in Nat /\ (n + 1 <= CheckDepth => n <= CheckDepth /\ n + 1 \in 1..CheckDepth /\ (n + 1) - 1 = n)
    BY ChainAssumption
  <2> SUFFICES ASSUME n + 1 <= CheckDepth PROVE \E c \in Blocks : GoodChain(c) /\ R[n + 1] = At(c)
    BY <2>1, Zenon
  <2>2. R[n + 1] = VerifyBlock(R[n])
    BY <1>1, <2>1, Zenon
  <2>3. PICK c \in Blocks : GoodChain(c) /\ R[n] = At(c)
    BY <1>5, <2>1, Zenon
  <2> QED BY <1>3, <2>2, <2>3, Zenon
<1>6. Nat \subseteq S
  <2> HIDE DEF S
  <2> QED BY <1>4, <1>5, SetInduction, Zenon
<1>7. CheckDepth \in S /\ CheckDepth <= CheckDepth
  <2> HIDE DEF S
  <2> QED BY <1>6, ChainAssumption
<1>8. PICK c \in Blocks : R[CheckDepth] = At(c)
  <2> HIDE DEF R, At
  <2> QED BY <1>7, Zenon
<1>9. R[CheckDepth].clean
  <2> HIDE DEF R
  <2> QED BY <1>8
<1>10. tip # Root => DisconnectCoins(Utxo[tip], tip).clean
  <2>1. tip # Root => DisconnectCoins(Utxo[tip], tip) = [view |-> Utxo[Parent[tip]], clean |-> TRUE]
    BY <1>2, Zenon
  <2> QED BY <2>1
<1> HIDE DEF R
<1> QED BY <1>9, <1>10, Zenon DEF VerifyCoins, R

\* A cache made for a view shows that view.
LEMMA CacheOfFacts ==
  ASSUME NEW view \in SUBSET Outs, NEW b \in Blocks, NEW c, c = CacheOf(view, b), coinsDB.coins \in SUBSET Outs
  PROVE  /\ c \in [best : Blocks \cup {NoBlock}, add : SUBSET Outs, del : SUBSET Outs]
         /\ c.best = b /\ c.add \cap coinsDB.coins = {} /\ c.del \subseteq coinsDB.coins
         /\ (coinsDB.coins \ c.del) \cup c.add = view
BY Zenon DEF CacheOf

\* A step that moves on with the same disk, index and cache keeps the invariant.
LEMMA CoinsSame ==
  ASSUME CoinsInv, UNCHANGED <<blockTree, coinsDB, known, cache>>,
         Live' => Live /\ (Writing \/ coinsDB.heads # <<>> => Writing'),
         Live /\ Writing' => Writing \/ blockTree = known
  PROVE  CoinsInv'
<1>1. DiskInv'
  BY Zenon DEF CoinsInv, DiskInv
<1>2. MemInv'
  <2>1. Live' => (Writing' => cache.best \in blockTree)
    BY Zenon DEF CoinsInv, MemInv
  <2>2. Live' => (coinsDB.heads # <<>> => Writing' /\ coinsDB.heads[1] = cache.best)
    BY Zenon DEF CoinsInv, MemInv
  <2> QED BY <2>1, <2>2, Zenon DEF CoinsInv, MemInv, View
<1> QED BY <1>1, <1>2, Zenon DEF CoinsInv

\* A step after which nothing is in memory keeps the invariant.
LEMMA CoinsGone ==
  ASSUME CoinsInv, UNCHANGED <<blockTree, coinsDB>>, ~Live', cache' = Clean(NoBlock)
  PROVE  CoinsInv'
<1>1. DiskInv'
  BY Zenon DEF CoinsInv, DiskInv
<1> QED BY <1>1, Zenon DEF CoinsInv, MemInv, Clean

\* The initial state: Root and no coins.
LEMMA CoinsInit == Init => CoinsInv
<1> SUFFICES ASSUME Init PROVE CoinsInv
  BY Zenon
<1>1. Root \in Blocks /\ Chain[Root] = {} /\ Utxo[Root] = {}
  BY TreeAssumption, UtxoFacts, Zenon DEF Chain
<1>2. Closed({Root}) /\ GoodChain(Root)
  BY <1>1, Zenon DEF Closed, GoodChain
<1>3. DiskInv
  BY <1>1, <1>2, Zenon DEF Init, DiskInv
<1>4. MemInv
  BY <1>1, <1>2 DEF Init, MemInv, Clean, View, Writing
<1> QED BY <1>3, <1>4 DEF CoinsInv

\* Connecting a block.
LEMMA CoinsConnect ==
  ASSUME CoinsInv, NEW b \in Blocks, ConnectTip(b)
  PROVE  CoinsInv'
<1>0. pc = "running" /\ Live /\ ~Writing /\ UNCHANGED <<blockTree, coinsDB, known>>
  BY Zenon DEF ConnectTip, Live, Writing, disk
<1>1. coinsDB.heads = <<>>
  BY <1>0, Zenon DEF CoinsInv, MemInv
<1>2. CASE ~VerifyBestBlock(Height[b], Parent[b])
  <2>1. cache' = cache /\ Live' /\ ~Writing'
    BY <1>2, Zenon DEF ConnectTip, Abort, FlushThen, Live, Writing
  <2> QED BY <1>0, <1>1, <2>1, CoinsSame
<1>3. CASE VerifyBestBlock(Height[b], Parent[b])
  <2>1. /\ b \in known /\ b # Root /\ Parent[b] = cache.best /\ Connectable(View, b)
        /\ cache' = CacheOf(ConnectCoins(View, b), b)
        /\ Live' /\ ~Writing'
    BY <1>0, <1>3, Zenon DEF ConnectTip, Goto, FlushThen, Live, Writing
  <2>2. View = Utxo[Parent[b]] /\ GoodChain(Parent[b]) /\ Parent[b] \in Blocks
    BY <1>0, <2>1, ChainStep DEF CoinsInv, MemInv
  <2>3. ConnectCoins(View, b) = Utxo[b] /\ GoodChain(b) /\ Utxo[b] \in SUBSET Outs
    BY <2>1, <2>2, ChainStep, UtxoStep, UtxoFacts
  <2>4. coinsDB.coins \in SUBSET Outs /\ cache' = CacheOf(Utxo[b], b)
    BY <2>1, <2>3, Zenon DEF CoinsInv, DiskInv
  <2>5. /\ cache' \in [best : Blocks \cup {NoBlock}, add : SUBSET Outs, del : SUBSET Outs]
        /\ cache'.best = b /\ cache'.add \cap coinsDB.coins = {} /\ cache'.del \subseteq coinsDB.coins
        /\ (coinsDB.coins \ cache'.del) \cup cache'.add = Utxo[b]
    BY <2>3, <2>4, CacheOfFacts, ZenonT(30)
  <2>6. DiskInv'
    BY <1>0, Zenon DEF CoinsInv, DiskInv
  <2>7. MemInv'
    BY <1>0, <1>1, <2>1, <2>3, <2>5, Zenon DEF CoinsInv, MemInv, View
  <2> QED BY <2>6, <2>7, Zenon DEF CoinsInv
<1> QED BY <1>2, <1>3, Zenon

\* Disconnecting the tip, in the running node or in a rewind.
LEMMA CoinsDisconnect ==
  ASSUME CoinsInv, NEW p \in {"running", "rewind"}, pc = p, DisconnectTip(p)
  PROVE  CoinsInv'
<1>0. Live /\ ~Writing /\ Live' /\ ~Writing' /\ UNCHANGED <<blockTree, coinsDB, known>>
  BY Zenon DEF DisconnectTip, Live, Writing, disk, Goto, FlushThen
<1>1. coinsDB.heads = <<>>
  BY <1>0, Zenon DEF CoinsInv, MemInv
<1> DEFINE b == cache.best
<1>2. b \in known /\ b \in Blocks /\ b # Root /\ Parent[b] \in known /\ View = Utxo[b] /\ GoodChain(b)
  BY <1>0, Zenon DEF CoinsInv, MemInv, DisconnectTip, Closed
<1>3. cache' = CacheOf(DisconnectCoins(View, b).view, Parent[b])
  BY Zenon DEF DisconnectTip
<1> HIDE DEF b
<1>4. Parent[b] \in Blocks /\ GoodChain(Parent[b]) /\ Connectable(Utxo[Parent[b]], b) /\ Utxo[Parent[b]] \in SUBSET Outs
  BY <1>2, ChainStep, UtxoFacts, Zenon
<1>5. DisconnectCoins(View, b).view = Utxo[Parent[b]]
  BY <1>2, <1>4, UtxoStep, UndoInverts
<1>6. coinsDB.coins \in SUBSET Outs /\ cache' = CacheOf(Utxo[Parent[b]], Parent[b])
  BY <1>3, <1>5, Zenon DEF CoinsInv, DiskInv
<1>7. /\ cache' \in [best : Blocks \cup {NoBlock}, add : SUBSET Outs, del : SUBSET Outs]
      /\ cache'.best = Parent[b] /\ cache'.add \cap coinsDB.coins = {} /\ cache'.del \subseteq coinsDB.coins
      /\ (coinsDB.coins \ cache'.del) \cup cache'.add = Utxo[Parent[b]]
  <2>1. PICK q \in Blocks, w \in SUBSET Outs : q = Parent[b] /\ w = Utxo[Parent[b]]
    BY <1>4, Zenon
  <2>2. cache' = CacheOf(w, q)
    BY <1>6, <2>1, Zenon
  <2>3. /\ cache' \in [best : Blocks \cup {NoBlock}, add : SUBSET Outs, del : SUBSET Outs]
        /\ cache'.best = q /\ cache'.add \cap coinsDB.coins = {} /\ cache'.del \subseteq coinsDB.coins
        /\ (coinsDB.coins \ cache'.del) \cup cache'.add = w
    BY <1>6, <2>2, CacheOfFacts, ZenonT(30)
  <2> QED BY <2>1, <2>3, Zenon
<1>8. DiskInv'
  BY <1>0, Zenon DEF CoinsInv, DiskInv
<1>9. MemInv'
  BY <1>0, <1>1, <1>2, <1>4, <1>7, Zenon DEF CoinsInv, MemInv, View
<1> QED BY <1>8, <1>9, Zenon DEF CoinsInv

\* The block index is on disk, with all that the coins database names.
LEMMA CoinsIndex ==
  ASSUME CoinsInv, WriteBlockIndex
  PROVE  CoinsInv'
<1>0. /\ Live /\ ~Writing /\ blockTree' = known /\ UNCHANGED <<coinsDB, known, cache>>
      /\ Live'
  BY Zenon DEF WriteBlockIndex, Live, Writing, mem, Goto
<1>1. coinsDB.heads = <<>> /\ Closed(known) /\ blockTree \subseteq known /\ cache.best \in known
  BY <1>0, Zenon DEF CoinsInv, MemInv
<1>2. DiskInv'
  BY <1>0, <1>1, Zenon DEF CoinsInv, DiskInv
<1>3. MemInv'
  BY <1>0, <1>1, Zenon DEF CoinsInv, MemInv, View
<1> QED BY <1>2, <1>3, Zenon DEF CoinsInv

\* A batch, whatever it holds, leaves the database between the two tips.
LEMMA CoinsPartial ==
  ASSUME CoinsInv, WritePartialBatch
  PROVE  CoinsInv'
<1> DEFINE new == cache.best
           old == OldTip
<1>0. Writing /\ Live /\ Writing' /\ Live' /\ UNCHANGED <<blockTree, known>>
  BY Zenon DEF WritePartialBatch, Writing, Live
<1>1. PICK out \in SUBSET (cache.add \cup cache.del) :
          /\ coinsDB' = [coins |-> Written(out), best |-> NoBlock, heads |-> <<new, old>>]
          /\ cache' = Taken(out)
  BY Zenon DEF WritePartialBatch
<1>2. /\ new \in blockTree /\ new \in Blocks /\ GoodChain(new)
      /\ cache.add \cap coinsDB.coins = {} /\ cache.del \subseteq coinsDB.coins
      /\ (coinsDB.coins \ cache.del) \cup cache.add = Utxo[new]
      /\ cache \in [best : Blocks \cup {NoBlock}, add : SUBSET Outs, del : SUBSET Outs]
      /\ coinsDB.coins \in SUBSET Outs
  BY <1>0, Zenon DEF CoinsInv, MemInv, DiskInv, View, Closed
<1>3. old \in blockTree /\ old \in Blocks /\ GoodChain(old) /\ Between(coinsDB.coins, new, old)
  <2>1. CASE coinsDB.heads = <<>>
    BY <2>1, Zenon DEF CoinsInv, DiskInv, OldTip, Between, Closed
  <2>2. CASE coinsDB.heads # <<>>
    <3>1. coinsDB.heads[1] = new
      BY <1>0, <2>2, Zenon DEF CoinsInv, MemInv
    <3>2. 1 \in 1..2 /\ 2 \in 1..2
      OBVIOUS
    <3> QED BY <2>2, <3>1, <3>2 DEF CoinsInv, DiskInv, OldTip, Closed
  <2> QED BY <2>1, <2>2, Zenon
<1> HIDE DEF new, old
<1>4. /\ cache'.best = new /\ cache'.add = cache.add \ out /\ cache'.del = cache.del \ out
      /\ cache' \in [best : Blocks \cup {NoBlock}, add : SUBSET Outs, del : SUBSET Outs]
  BY <1>1, <1>2, Zenon DEF Taken, new
<1>5. /\ coinsDB'.coins = (coinsDB.coins \ (cache.del \cap out)) \cup (cache.add \cap out)
      /\ coinsDB'.best = NoBlock /\ coinsDB'.heads = <<new, old>>
      /\ coinsDB'.heads[1] = new /\ coinsDB'.heads[2] = old /\ coinsDB'.heads # <<>>
  BY <1>1, Zenon DEF Written
<1>6. coinsDB'.coins \in SUBSET Outs
  BY <1>2, <1>5, Zenon
<1>7. Between(coinsDB'.coins, new, old)
  BY <1>2, <1>3, <1>5, Zenon DEF Between
<1>8. DiskInv'
  <2>1. coinsDB' \in [coins : SUBSET Outs, best : Blocks \cup {NoBlock}, heads : {<<>>} \cup (Blocks \X Blocks)]
    <3>1. Written(out) \in SUBSET Outs
      BY <1>1, <1>6, Zenon
    <3> QED BY <1>1, <1>2, <1>3, <3>1, Zenon
  <2>2. \A i \in 1..2 : coinsDB'.heads[i] \in blockTree /\ GoodChain(coinsDB'.heads[i])
    <3>1. \A i \in 1..2 : i = 1 \/ i = 2
      OBVIOUS
    <3> QED BY <1>2, <1>3, <1>5, <3>1, Zenon
  <2>3. Closed(blockTree)
    BY Zenon DEF CoinsInv, DiskInv
  <2> QED BY <1>0, <1>5, <1>7, <2>1, <2>2, <2>3 DEF DiskInv
<1>9. MemInv'
  <2>1. /\ cache'.add \cap coinsDB'.coins = {} /\ cache'.del \subseteq coinsDB'.coins
        /\ (coinsDB'.coins \ cache'.del) \cup cache'.add = Utxo[new]
    BY <1>2, <1>4, <1>5, Zenon
  <2>2. Closed(known) /\ blockTree \subseteq known
    BY <1>0, Zenon DEF CoinsInv, MemInv
  <2> QED BY <1>0, <1>2, <1>4, <1>5, <2>1, <2>2 DEF MemInv, View
<1> QED BY <1>8, <1>9, Zenon DEF CoinsInv

\* The last batch leaves the coins of the new tip.
LEMMA CoinsFinal ==
  ASSUME CoinsInv, WriteFinalBatch
  PROVE  CoinsInv'
<1> DEFINE new == cache.best
<1>0. Writing /\ Live /\ ~Writing' /\ Live' /\ UNCHANGED <<blockTree, known>>
  BY Zenon DEF WriteFinalBatch, Writing, Live, Goto
<1>1. coinsDB' = [coins |-> Written(Outs), best |-> new, heads |-> <<>>] /\ cache' = Clean(new)
  BY Zenon DEF WriteFinalBatch
<1>2. /\ new \in blockTree /\ new \in Blocks /\ GoodChain(new) /\ Utxo[new] \in SUBSET Outs
      /\ cache.add \subseteq Outs /\ cache.del \subseteq Outs
      /\ (coinsDB.coins \ cache.del) \cup cache.add = Utxo[new]
      /\ Closed(blockTree) /\ Closed(known) /\ blockTree \subseteq known
  BY <1>0, UtxoFacts, Zenon DEF CoinsInv, MemInv, DiskInv, View, Closed
<1>3. Written(Outs) = Utxo[new]
  <2>1. cache.add \cap Outs = cache.add /\ cache.del \cap Outs = cache.del
    BY <1>2, Zenon
  <2> QED BY <1>2, <2>1, Zenon DEF Written
<1> HIDE DEF new
<1>4. DiskInv'
  BY <1>0, <1>1, <1>2, <1>3, Zenon DEF DiskInv
<1>5. MemInv'
  BY <1>0, <1>1, <1>2, <1>3, Zenon DEF MemInv, Clean, View
<1> QED BY <1>4, <1>5, Zenon DEF CoinsInv

\* The load loop: a finished flush is read, an interrupted one replayed.
LEMMA CoinsLoad ==
  ASSUME CoinsInv, LoadAndReplay
  PROVE  CoinsInv'
<1>0. UNCHANGED <<blockTree, coinsDB>> /\ known' = blockTree
  BY Zenon DEF LoadAndReplay, disk
<1>1. DiskInv' /\ Closed(blockTree) /\ coinsDB.coins \in SUBSET Outs
  BY <1>0, Zenon DEF CoinsInv, DiskInv
<1>2. CASE coinsDB.heads = <<>>
  <2>1. cache' = Clean(coinsDB.best) /\ Live' /\ ~Writing'
    BY <1>2, Zenon DEF LoadAndReplay, Goto, Live, Writing
  <2>2. /\ coinsDB.best \in blockTree /\ coinsDB.best \in Blocks /\ GoodChain(coinsDB.best)
        /\ coinsDB.coins = Utxo[coinsDB.best]
    BY <1>1, <1>2, Zenon DEF CoinsInv, DiskInv, Closed
  <2>3. MemInv'
    BY <1>0, <1>1, <1>2, <2>1, <2>2, Zenon DEF MemInv, Clean, View
  <2> QED BY <1>1, <2>3, Zenon DEF CoinsInv
<1>3. CASE coinsDB.heads # <<>>
  <2> DEFINE new == coinsDB.heads[1]
             old == coinsDB.heads[2]
  <2>1. CASE ~CanReplay(new, old)
    <3>1. cache' = Clean(NoBlock) /\ ~Live'
      BY <1>3, <2>1, Zenon DEF LoadAndReplay, Goto, Live
    <3> QED BY <1>0, <3>1, CoinsGone, Zenon
  <2>2. CASE CanReplay(new, old)
    <3>1. /\ cache' = CacheOf(RollForward(coinsDB.coins, LastCommonAncestor(old, new), new), new)
          /\ Live' /\ Writing'
      BY <1>3, <2>2, Zenon DEF LoadAndReplay, Goto, Live, Writing
    <3>2. new \in blockTree /\ GoodChain(new) /\ Between(coinsDB.coins, new, old)
      <4>1. 1 \in 1..2
        OBVIOUS
      <4> QED BY <1>3, <4>1, Zenon DEF CoinsInv, DiskInv
    <3> HIDE DEF new, old
    <3>3. new \in Blocks /\ old \in Anc[new]
      BY <1>1, <2>2, <3>2, Zenon DEF CanReplay, Closed
    <3>4. RollForward(coinsDB.coins, LastCommonAncestor(old, new), new) = Utxo[new] /\ Utxo[new] \in SUBSET Outs
      <4>1. LastCommonAncestor(old, new) = old
        BY <3>3, CommonAncestor, Zenon
      <4>2. Utxo[new] \cap Utxo[old] \subseteq coinsDB.coins /\ coinsDB.coins \subseteq Utxo[new] \cup Utxo[old]
        BY <3>2, Zenon DEF Between
      <4> QED BY <1>1, <3>3, <4>1, <4>2, Replay, UtxoFacts
    <3>5. cache' = CacheOf(Utxo[new], new)
      BY <3>1, <3>4, Zenon
    <3>6. /\ cache' \in [best : Blocks \cup {NoBlock}, add : SUBSET Outs, del : SUBSET Outs]
          /\ cache'.best = new /\ cache'.add \cap coinsDB.coins = {} /\ cache'.del \subseteq coinsDB.coins
          /\ (coinsDB.coins \ cache'.del) \cup cache'.add = Utxo[new]
      BY <1>1, <3>3, <3>4, <3>5, CacheOfFacts
    <3>7. coinsDB'.heads[1] = new
      BY <1>0, Zenon DEF new
    <3>8. MemInv'
      BY <1>0, <1>1, <3>1, <3>2, <3>6, <3>7, Zenon DEF MemInv, View
    <3> QED BY <1>1, <3>8, Zenon DEF CoinsInv
  <2> QED BY <2>1, <2>2, Zenon
<1> QED BY <1>2, <1>3, Zenon

\* A flush returns to where the code called it.
LEMMA AfterStep == AfterOK /\ [Next]_vars => AfterOK'
<1> SUFFICES ASSUME AfterOK, [Next]_vars PROVE AfterOK'
  BY Zenon
<1> USE DEF AfterOK, Goto, FlushThen, Abort
<1>1. ASSUME NEW b \in Blocks, AcceptBlock(b) \/ ConnectTip(b) PROVE AfterOK'
  BY <1>1, Zenon DEF AcceptBlock, ConnectTip
<1>2. CASE DisconnectTipRunning \/ DisconnectTipAborts \/ BeginFlush
  BY <1>2, Zenon DEF DisconnectTipRunning, DisconnectTip, DisconnectTipAborts, BeginFlush
<1>3. CASE LoadAndReplay
  BY <1>3, Zenon DEF LoadAndReplay
<1>4. CASE Start \/ LoadChainTip \/ RewindStep \/ RewindFails \/ RewindDone
  BY <1>4, Zenon DEF Start, LoadChainTip, RewindStep, DisconnectTip, RewindFails, RewindDone
<1>5. CASE VerifyDB
  BY <1>5, Zenon DEF VerifyDB
<1>6. CASE WriteBlockIndex \/ WritePartialBatch \/ WriteFinalBatch \/ CommitEvoDB \/ ClearMarker
  BY <1>6, Zenon DEF WriteBlockIndex, WritePartialBatch, WriteFinalBatch, CommitEvoDB, AfterFlush, ClearMarker
<1>7. CASE FlushFails \/ Crash \/ UNCHANGED vars
  BY <1>7, Zenon DEF FlushFails, Crash, vars
<1> QED BY <1>1, <1>2, <1>3, <1>4, <1>5, <1>6, <1>7, Zenon DEF Next, NodeStep

\* Every step keeps the coins right.
LEMMA CoinsStep ==
  ASSUME CoinsWritesSucceed, AfterOK, CoinsInv, [Next]_vars
  PROVE  CoinsInv'
<1>0. Live /\ ~Writing => coinsDB.heads = <<>>
  BY Zenon DEF CoinsInv, MemInv
<1>1. ASSUME NEW b \in Blocks, AcceptBlock(b) PROVE CoinsInv'
  <2>1. /\ Live /\ ~Writing /\ Live' /\ ~Writing' /\ UNCHANGED <<blockTree, coinsDB, cache>>
        /\ known' = known \cup {b} /\ Parent[b] \in known
    BY <1>1, Zenon DEF AcceptBlock, disk, Live, Writing
  <2>2. Closed(known')
    BY <2>1, Zenon DEF CoinsInv, MemInv, Closed
  <2>3. DiskInv'
    BY <2>1, Zenon DEF CoinsInv, DiskInv
  <2>4. MemInv'
    BY <1>0, <2>1, <2>2, Zenon DEF CoinsInv, MemInv, View
  <2> QED BY <2>3, <2>4, Zenon DEF CoinsInv
<1>2. CASE DisconnectTipRunning
  BY <1>2, CoinsDisconnect, Zenon DEF DisconnectTipRunning
<1>3. CASE RewindStep
  BY <1>3, CoinsDisconnect, Zenon DEF RewindStep
<1>4. CASE DisconnectTipAborts \/ BeginFlush \/ RewindFails
  <2>1. Live /\ ~Writing /\ Live' /\ ~Writing' /\ UNCHANGED <<blockTree, coinsDB, known, cache>>
    BY <1>4, Zenon DEF DisconnectTipAborts, BeginFlush, RewindFails, Abort, FlushThen, Live, Writing, disk, mem
  <2> QED BY <1>0, <2>1, CoinsSame, Zenon
<1>5. CASE LoadChainTip
  <2>1. Live /\ ~Writing /\ Live' /\ ~Writing' /\ UNCHANGED <<blockTree, coinsDB, known, cache>>
    BY <1>5, Zenon DEF LoadChainTip, Abort, FlushThen, Goto, Live, Writing
  <2> QED BY <1>0, <2>1, CoinsSame, Zenon
<1>6. CASE VerifyDB
  <2>1. Live /\ ~Writing /\ UNCHANGED <<blockTree, coinsDB, known, cache>>
    BY <1>6, Zenon DEF VerifyDB, Live, Writing, disk
  <2>2. Live' /\ ~Writing'
    <3>1. pc' \in {"index", "rewind", "running"}
      BY <1>6, Zenon DEF VerifyDB, Abort, FlushThen, Goto
    <3> QED BY <3>1, Zenon DEF Live, Writing
  <2> QED BY <1>0, <2>1, <2>2, CoinsSame, Zenon
<1>7. CASE RewindDone \/ Start
  <2>1. ~Live' /\ ~Writing' /\ UNCHANGED <<blockTree, coinsDB, known, cache>>
    BY <1>7, Zenon DEF RewindDone, Start, Goto, Live, Writing, disk
  <2> QED BY <2>1, CoinsSame, Zenon
<1>8. CASE CommitEvoDB
  <2>1. Live /\ ~Writing /\ UNCHANGED <<blockTree, coinsDB, known, cache>>
    BY <1>8, Zenon DEF CommitEvoDB, Live, Writing, mem
  <2>2. ~Writing'
    BY <1>8, Zenon DEF CommitEvoDB, AfterFlush, FlushThen, Goto, Writing, AfterOK
  <2> QED BY <1>0, <2>1, <2>2, CoinsSame, Zenon
<1>9. CASE FlushFails
  <2>1. pc \in {"index", "evo", "replay", "commit"} /\ cache' = cache /\ UNCHANGED <<blockTree, coinsDB, known>>
    BY <1>9, Zenon DEF FlushFails, CoinsWritesSucceed, disk
  <2>2. CASE pc = "replay"
    <3>1. ~Live' /\ ~Writing'
      BY <1>9, <2>2, Zenon DEF FlushFails, Goto, Live, Writing
    <3> QED BY <2>1, <3>1, CoinsSame, Zenon
  <2>3. CASE pc # "replay"
    <3>1. pc' \in {"exit", "index"}
      BY <1>9, <2>3, Zenon DEF FlushFails, Goto, FlushThen, Abort
    <3>2. Live /\ ~Writing /\ ~Writing'
      BY <2>1, <2>3, <3>1, Zenon DEF Live, Writing
    <3> QED BY <1>0, <2>1, <3>2, CoinsSame, Zenon
  <2> QED BY <2>2, <2>3, Zenon
<1>10. CASE ClearMarker \/ Crash
  <2>1. ~Live' /\ cache' = Clean(NoBlock) /\ UNCHANGED <<blockTree, coinsDB>>
    BY <1>10, Zenon DEF ClearMarker, Crash, Live, disk
  <2> QED BY <2>1, CoinsGone, Zenon
<1>11. CASE UNCHANGED vars
  <2>1. UNCHANGED <<blockTree, coinsDB, known, cache>> /\ (Live' <=> Live) /\ (Writing' <=> Writing)
    BY <1>11, Zenon DEF vars, Live, Writing
  <2>2. Live' => (Writing \/ coinsDB.heads # <<>> => Writing')
    BY <1>0, <2>1, Zenon
  <2> QED BY <2>1, <2>2, CoinsSame, Zenon
<1> QED BY <1>1, <1>2, <1>3, <1>4, <1>5, <1>6, <1>7, <1>8, <1>9, <1>10, <1>11,
           CoinsConnect, CoinsIndex, CoinsPartial, CoinsFinal, CoinsLoad, Zenon DEF Next, NodeStep

\* The coins database, the index and the cache stay consistent through flushes,
\* crashes, replays and rewinds (FlushStateToDisk, CCoinsViewDB::BatchWrite,
\* ReplayBlocks).
THEOREM CoinsInvariant ==
  ASSUME CoinsWritesSucceed
  PROVE  Spec => [](AfterOK /\ CoinsInv)
<1>1. Init => AfterOK /\ CoinsInv
  BY CoinsInit, Zenon DEF Init, AfterOK
<1>2. AfterOK /\ CoinsInv /\ [Next]_vars => (AfterOK /\ CoinsInv)'
  BY AfterStep, CoinsStep, Zenon
<1> QED BY <1>1, <1>2, PTL DEF Spec

\* With a best block the coins database holds the unspent outputs of that block;
\* between two heads it is right wherever the two tips agree.
THEOREM CoinsMatchHeadsThm ==
  ASSUME CoinsWritesSucceed
  PROVE  Spec => []CoinsMatchHeads
<1>1. CoinsInv => CoinsMatchHeads
  BY Zenon DEF CoinsInv, DiskInv, CoinsMatchHeads, Between
<1> QED BY <1>1, CoinsInvariant, PTL

\* The block index on disk has every block the coins database names
\* (FlushStateToDisk writes the index first).
THEOREM IndexBeforeCoinsThm ==
  ASSUME CoinsWritesSucceed
  PROVE  Spec => []IndexBeforeCoins
<1>1. CoinsInv => IndexBeforeCoins
  <2> SUFFICES ASSUME CoinsInv, NEW b \in ({coinsDB.best} \cup ToSet(coinsDB.heads)) \ {NoBlock}
               PROVE  b \in blockTree
    BY Zenon DEF IndexBeforeCoins
  <2>1. CASE coinsDB.heads = <<>>
    BY <2>1 DEF CoinsInv, DiskInv, ToSet
  <2>2. CASE coinsDB.heads # <<>>
    <3>1. coinsDB.heads \in Blocks \X Blocks /\ coinsDB.best = NoBlock
      BY <2>2, Zenon DEF CoinsInv, DiskInv
    <3>2. Len(coinsDB.heads) = 2
      BY <3>1, Zenon
    <3>3. PICK i \in 1..2 : b = coinsDB.heads[i]
      BY <3>1, <3>2 DEF ToSet
    <3> QED BY <2>2, <3>3, Zenon DEF CoinsInv, DiskInv
  <2> QED BY <2>1, <2>2, Zenon
<1> QED BY <1>1, CoinsInvariant, PTL

-----------------------------------------------------------------------------
(* The EvoDB. *)

\* Above the activation height the EvoDB is verified and filled at every block.
LEMMA DeepFacts ==
  ASSUME DeepRoot, NEW b \in Blocks
  PROVE  /\ Height[b] > 0 /\ EvoOf(b) = Chain[b]
         /\ \A x : VerifyBestBlock(Height[b], x) <=> evo.best = x
<1>1. \A c \in Blocks : Height[c] >= DIP0003Height /\ Height[c] > 0
  BY HeightFacts, TreeAssumption, ChainAssumption DEF DeepRoot
<1>2. Chain[b] \subseteq Blocks
  BY AncFacts, Zenon DEF Chain
<1> QED BY <1>1, <1>2, Zenon DEF EvoOf, VerifyBestBlock

\* Connecting or disconnecting a block moves the EvoDB from one block to the next.
LEMMA EvoMoves ==
  ASSUME DeepRoot, NEW b \in Blocks \ {Root}, NEW e \in EvoRecord
  PROVE  /\ e.best = Parent[b] => EvoConnect(e, b) \in EvoRecord /\ EvoConnect(e, b).best = b
         /\ e.best = b => EvoDisconnect(e, b) \in EvoRecord /\ EvoDisconnect(e, b).best = Parent[b]
<1>1. Parent[b] \in Blocks /\ Chain[b] = Chain[Parent[b]] \cup {b} /\ b \notin Chain[Parent[b]]
  BY ChainStep, Zenon
<1>2. EvoOf(b) = Chain[b] /\ EvoOf(Parent[b]) = Chain[Parent[b]]
  BY <1>1, DeepFacts, Zenon
<1>3. e.applied = EvoOf(e.best)
  BY DEF EvoRecord
<1>4. ASSUME e.best = Parent[b] PROVE EvoConnect(e, b) = [best |-> b, applied |-> EvoOf(b)]
  <2>1. e.applied \cup (EvoOf(b) \cap {b}) = EvoOf(b)
    BY <1>1, <1>2, <1>3, <1>4, Zenon
  <2> QED BY <2>1, Zenon DEF EvoConnect
<1>5. ASSUME e.best = b PROVE EvoDisconnect(e, b) = [best |-> Parent[b], applied |-> EvoOf(Parent[b])]
  <2>1. e.applied \ {b} = EvoOf(Parent[b])
    BY <1>1, <1>2, <1>3, <1>5, Zenon
  <2> QED BY <2>1, Zenon DEF EvoDisconnect
<1> QED BY <1>1, <1>4, <1>5 DEF EvoRecord

\* The initial state: everything is at Root.
LEMMA EvoInitial == DeepRoot /\ Init => EvoInv
<1> SUFFICES ASSUME DeepRoot, Init PROVE EvoInv
  BY Zenon
<1>1. Root \in Blocks /\ EvoOf(Root) = {}
  BY TreeAssumption, Zenon DEF EvoOf, Chain
<1>2. RootHeight # 0
  BY TreeAssumption DEF DeepRoot
<1>3. evoDB = [best |-> Root, applied |-> EvoOf(Root)] /\ evo = evoDB
  BY <1>1, <1>2, Zenon DEF Init
<1>4. evo \in EvoRecord /\ evoDB \in EvoRecord
  BY <1>1, <1>3, Zenon DEF EvoRecord
<1>5. Synced /\ DiskSynced /\ coinsDB.heads = <<>> /\ pc = "running"
  BY <1>3 DEF Init, Clean, Synced, DiskSynced
<1> QED BY <1>4, <1>5, Zenon DEF EvoInv

\* Disconnecting the tip keeps the EvoDB with the coins.
LEMMA EvoDisconnects ==
  ASSUME DeepRoot, CoinsInv, EvoInv, NEW p \in {"running", "rewind"}, pc = p, DisconnectTip(p)
  PROVE  EvoInv'
<1>1. /\ Live /\ ~Writing /\ cache.best # Root /\ VerifyBestBlock(Height[cache.best], cache.best)
      /\ UNCHANGED <<coinsDB, evoDB>>
      /\ evo' = EvoDisconnect(evo, cache.best) /\ cache'.best = Parent[cache.best]
      /\ (pc' = p /\ after' = after) \/ (pc' = "index" /\ after' = p)
  BY Zenon DEF DisconnectTip, Live, Writing, disk, Goto, FlushThen, CacheOf
<1>2. cache.best \in Blocks /\ coinsDB.heads = <<>>
  BY <1>1, Zenon DEF CoinsInv, MemInv, Closed
<1>3. Synced /\ DiskSynced
  <2>1. Synced
    BY <1>1, <1>2, DeepFacts, Zenon DEF Synced
  <2> QED BY <2>1, Zenon DEF EvoInv
<1>4. evo' \in EvoRecord /\ evo'.best = Parent[cache.best]
  BY <1>1, <1>2, <1>3, EvoMoves, Zenon DEF EvoInv, Synced
<1>5. Synced' /\ DiskSynced'
  BY <1>1, <1>3, <1>4, Zenon DEF Synced, DiskSynced
<1> QED BY <1>1, <1>2, <1>4, <1>5, Zenon DEF EvoInv

\* Connecting a block keeps the EvoDB with the coins.
LEMMA EvoConnects ==
  ASSUME DeepRoot, CoinsInv, EvoInv, NEW b \in Blocks, ConnectTip(b)
  PROVE  EvoInv'
<1>1. Live /\ ~Writing /\ pc = "running" /\ b # Root /\ Parent[b] = cache.best /\ UNCHANGED <<coinsDB, evoDB>>
  BY Zenon DEF ConnectTip, Live, Writing, disk
<1>2. coinsDB.heads = <<>> /\ Synced /\ DiskSynced
  BY <1>1, Zenon DEF CoinsInv, MemInv, EvoInv
<1>3. VerifyBestBlock(Height[b], Parent[b])
  BY <1>1, <1>2, DeepFacts, Zenon DEF Synced
<1>4. /\ evo' = EvoConnect(evo, b) /\ cache'.best = b
      /\ (pc' = "running" /\ after' = after) \/ (pc' = "index" /\ after' = "running")
  BY <1>1, <1>3 DEF ConnectTip, Goto, FlushThen, CacheOf
<1>5. evo' \in EvoRecord /\ evo'.best = b
  BY <1>1, <1>2, <1>4, EvoMoves DEF EvoInv, Synced
<1>6. Synced' /\ DiskSynced'
  BY <1>1, <1>2, <1>4, <1>5, Zenon DEF Synced, DiskSynced
<1> QED BY <1>1, <1>2, <1>4, <1>5, <1>6, Zenon DEF EvoInv

\* A replay rolls the EvoDB forward to the new tip.
LEMMA EvoLoads ==
  ASSUME DeepRoot, CoinsInv, EvoInv, LoadAndReplay
  PROVE  EvoInv'
<1>1. pc = "load" /\ UNCHANGED <<coinsDB, evoDB>>
  BY Zenon DEF LoadAndReplay, disk
<1>2. CASE coinsDB.heads = <<>>
  <2>1. cache' = Clean(coinsDB.best) /\ evo' = evoDB /\ pc' = "commit"
    BY <1>2, Zenon DEF LoadAndReplay, Goto
  <2>2. CacheEmpty'
    BY <1>1, <2>1, Zenon DEF Clean, CacheEmpty
  <2> QED BY <1>1, <1>2, <2>1, <2>2, Zenon DEF EvoInv
<1>3. CASE coinsDB.heads # <<>>
  <2> DEFINE new == coinsDB.heads[1]
             old == coinsDB.heads[2]
  <2>1. CASE ~CanReplay(new, old)
    <3>1. evo' = evoDB /\ pc' = "exit"
      BY <1>3, <2>1, Zenon DEF LoadAndReplay, Goto
    <3> QED BY <1>1, <1>3, <3>1, Zenon DEF EvoInv
  <2>2. CASE CanReplay(new, old)
    <3>1. evo' = [best |-> new, applied |-> evoDB.applied \cup (EvoOf(new) \ Chain[old])] /\ pc' = "replay"
      BY <1>3, <2>2, Zenon DEF LoadAndReplay, Goto
    <3>2. evoDB \in EvoRecord /\ evoDB.best = old
      BY <1>3, Zenon DEF EvoInv
    <3> HIDE DEF new, old
    <3>3. new \in Blocks /\ old \in Anc[new] /\ old \in Blocks
      BY <2>2, Zenon DEF CanReplay, CoinsInv, DiskInv, Closed
    <3>4. EvoOf(new) = Chain[new] /\ EvoOf(old) = Chain[old] /\ Chain[old] \subseteq Chain[new]
      BY <3>3, DeepFacts, AncFacts, Zenon DEF Chain
    <3>5. evoDB.applied = EvoOf(old)
      BY <3>2 DEF EvoRecord
    <3>6. evoDB.applied \cup (EvoOf(new) \ Chain[old]) = EvoOf(new)
      BY <3>4, <3>5, Zenon
    <3>7. evo' \in EvoRecord
      BY <3>1, <3>3, <3>6, Zenon DEF EvoRecord
    <3> QED BY <1>1, <1>3, <3>1, <3>7, Zenon DEF EvoInv
  <2> QED BY <2>1, <2>2, Zenon
<1> QED BY <1>2, <1>3, Zenon

\* Every step keeps the EvoDB where the recovery expects it.
LEMMA EvoStep ==
  ASSUME DeepRoot, CoinsWritesSucceed, AfterOK, CoinsInv, EvoInv, [Next]_vars
  PROVE  EvoInv'
<1>0. Live /\ ~Writing => coinsDB.heads = <<>>
  BY Zenon DEF CoinsInv, MemInv
<1>1. ASSUME NEW b \in Blocks, AcceptBlock(b) PROVE EvoInv'
  BY <1>1, Zenon DEF AcceptBlock, disk, EvoInv, Synced, DiskSynced
<1>2. CASE DisconnectTipRunning
  BY <1>2, EvoDisconnects, Zenon DEF DisconnectTipRunning
<1>3. CASE RewindStep
  BY <1>3, EvoDisconnects, Zenon DEF RewindStep
<1>4. CASE DisconnectTipAborts \/ BeginFlush \/ RewindFails
  <2>1. /\ pc \in {"running", "rewind"} /\ pc' = "index" /\ after' \in {"running", "stop"}
        /\ after' = "running" => pc = "running"
        /\ UNCHANGED <<coinsDB, evoDB, cache, evo>>
    BY <1>4, Zenon DEF DisconnectTipAborts, BeginFlush, RewindFails, Abort, FlushThen, disk, mem
  <2>2. coinsDB.heads = <<>>
    BY <1>0, <2>1, Zenon DEF Live, Writing
  <2> QED BY <2>1, <2>2, Zenon DEF EvoInv, Synced, DiskSynced, CacheEmpty
<1>5. CASE WriteBlockIndex
  <2>1. /\ pc = "index" /\ pc' \in {"coins", "running"} /\ (pc' = "running" => after = "running")
        /\ UNCHANGED <<coinsDB, evoDB, cache, evo, after>>
    BY <1>5, Zenon DEF WriteBlockIndex, Goto, mem
  <2>2. coinsDB.heads = <<>>
    BY <1>0, <2>1, Zenon DEF Live, Writing
  <2> QED BY <2>1, <2>2, Zenon DEF EvoInv, Synced, DiskSynced, CacheEmpty
<1>6. CASE WritePartialBatch
  <2>1. /\ pc \in {"coins", "replay"} /\ UNCHANGED <<evoDB, evo, pc, after>>
        /\ cache.add \cup cache.del # {} /\ cache'.best = cache.best
        /\ coinsDB'.heads = <<cache.best, OldTip>>
    BY <1>6 DEF WritePartialBatch, Writing, Taken, CoinsInv, MemInv
  <2>2. coinsDB'.heads # <<>> /\ coinsDB'.heads[2] = OldTip
    BY <2>1
  <2>3. evoDB.best = OldTip
    BY <2>1, Zenon DEF EvoInv, OldTip, DiskSynced, CacheEmpty
  <2> QED BY <2>1, <2>2, <2>3, Zenon DEF EvoInv, Synced
<1>7. CASE WriteFinalBatch
  <2>1. /\ coinsDB'.heads = <<>> /\ UNCHANGED <<evoDB, evo, after>> /\ cache'.best = cache.best
        /\ (pc = "coins" /\ pc' = "evo") \/ (pc = "replay" /\ pc' = "commit")
        /\ CacheEmpty'
    BY <1>7, Zenon DEF WriteFinalBatch, Goto, Clean, CacheEmpty, Writing
  <2> QED BY <2>1, Zenon DEF EvoInv, Synced
<1>8. CASE CommitEvoDB
  <2>1. /\ pc = "evo" /\ evoDB' = evo /\ UNCHANGED <<coinsDB, cache, evo>>
        /\ IF after = "stop" THEN pc' = "index" /\ after' = "exit" ELSE pc' = after /\ after' = after
    BY <1>8, Zenon DEF CommitEvoDB, AfterFlush, Goto, FlushThen, mem
  <2>2. coinsDB.heads = <<>> /\ CacheEmpty /\ CacheEmpty'
    BY <1>0, <2>1, Zenon DEF Live, Writing, EvoInv, CacheEmpty
  <2> QED BY <2>1, <2>2, Zenon DEF EvoInv, Synced, DiskSynced, CacheEmpty, AfterOK
<1>9. CASE FlushFails
  <2>1. /\ pc \in {"index", "evo", "replay", "commit"} /\ UNCHANGED <<coinsDB, evoDB, cache, evo>>
        /\ pc' = "exit" \/ (pc # "replay" /\ pc' = "index" /\ after' \in {"stop", "exit"})
    BY <1>9, Zenon DEF FlushFails, CoinsWritesSucceed, disk, Goto, FlushThen, Abort
  <2>2. pc # "replay" => coinsDB.heads = <<>>
    BY <1>0, <2>1, Zenon DEF Live, Writing
  <2> QED BY <2>1, <2>2, Zenon DEF EvoInv, Synced, DiskSynced, CacheEmpty
<1>10. CASE ClearMarker \/ Crash
  <2>1. pc' = "down" /\ evo' = evoDB /\ UNCHANGED <<coinsDB, evoDB>>
    BY <1>10, Zenon DEF ClearMarker, Crash, disk
  <2> QED BY <2>1, Zenon DEF EvoInv
<1>11. CASE Start \/ RewindDone
  <2>1. pc' = "load" /\ UNCHANGED <<coinsDB, evoDB, evo>>
    BY <1>11, Zenon DEF Start, RewindDone, Goto, disk
  <2> QED BY <2>1, Zenon DEF EvoInv
<1>12. CASE LoadChainTip
  <2>1. pc = "commit" /\ evoDB' = evo /\ UNCHANGED <<coinsDB, cache, evo>>
    BY <1>12, Zenon DEF LoadChainTip
  <2>2. cache.best \in known /\ coinsDB.heads = <<>> /\ CacheEmpty /\ CacheEmpty'
    BY <1>0, <2>1, Zenon DEF CoinsInv, MemInv, Live, Writing, EvoInv, CacheEmpty
  <2>3. pc' \in {"rewind", "verify"}
    BY <1>12, <2>2, Zenon DEF LoadChainTip, Goto
  <2> QED BY <2>1, <2>2, <2>3, Zenon DEF EvoInv, Synced, DiskSynced, CacheEmpty
<1>13. CASE VerifyDB
  <2>1. pc = "verify" /\ UNCHANGED <<coinsDB, evoDB, cache, evo>>
    BY <1>13, Zenon DEF VerifyDB, disk
  <2>2. coinsDB.heads = <<>> /\ CacheEmpty /\ evo = evoDB /\ cache.best \in Blocks
    BY <1>0, <2>1, Zenon DEF CoinsInv, MemInv, Closed, Live, Writing, EvoInv
  <2>3. VerifyEvoDB => Synced /\ DiskSynced
    BY <2>2, DeepFacts, Zenon DEF VerifyEvoDB, Synced, DiskSynced, CacheEmpty
  <2>4. (pc' = "index" /\ after' = "stop") \/ (VerifyEvoDB /\ pc' \in {"rewind", "running"})
    BY <1>13, Zenon DEF VerifyDB, Abort, FlushThen, Goto
  <2> QED BY <2>1, <2>2, <2>3, <2>4, Zenon DEF EvoInv, Synced, DiskSynced, CacheEmpty
<1>14. CASE UNCHANGED vars
  BY <1>14, Zenon DEF vars, EvoInv, Synced, DiskSynced, CacheEmpty
<1> QED BY <1>1, <1>2, <1>3, <1>4, <1>5, <1>6, <1>7, <1>8, <1>9, <1>10, <1>11, <1>12, <1>13, <1>14,
           EvoConnects, EvoLoads DEF Next, NodeStep

\* The EvoDB is never ahead of the coins, and it holds the special transactions
\* of its block (CommitRootTransaction after CoinsTip().Flush(), ReplayBlocks).
THEOREM EvoInvariant ==
  ASSUME DeepRoot, CoinsWritesSucceed
  PROVE  Spec => []EvoInv
<1>1. Init => EvoInv
  BY EvoInitial, Zenon
<1>2. AfterOK /\ CoinsInv /\ EvoInv /\ [Next]_vars => EvoInv'
  BY EvoStep, Zenon
<1> QED BY <1>1, <1>2, CoinsInvariant, PTL DEF Spec

\* In the middle of a flush the EvoDB on disk is at the tip the flush started from.
THEOREM EvoDBBehindCoinsThm ==
  ASSUME DeepRoot, CoinsWritesSucceed
  PROVE  Spec => []EvoDBBehindCoins
<1>1. EvoInv => EvoDBBehindCoins
  BY DEF EvoInv, EvoDBBehindCoins, EvoRecord
<1> QED BY <1>1, EvoInvariant, PTL

\* A running node works on the coins and on the EvoDB of its own tip, whatever
\* crashes, replays and rewinds brought it there.
THEOREM RunsOnItsTipThm ==
  ASSUME DeepRoot, CoinsWritesSucceed
  PROVE  Spec => []RunsOnItsTip
<1>1. CoinsInv /\ EvoInv => RunsOnItsTip
  <2> SUFFICES ASSUME CoinsInv, EvoInv, pc = "running"
               PROVE  View = Utxo[cache.best] /\ evo.applied = EvoOf(cache.best)
    BY Zenon DEF RunsOnItsTip
  <2>1. View = Utxo[cache.best]
    BY Zenon DEF CoinsInv, MemInv, Live
  <2>2. evo.best = cache.best /\ evo \in EvoRecord
    BY Zenon DEF EvoInv, Synced
  <2> QED BY <2>1, <2>2 DEF EvoRecord
<1> QED BY <1>1, CoinsInvariant, EvoInvariant, PTL

\* Nothing intact is taken for damaged: a running node can disconnect its tip,
\* and VerifyDB finds the coins clean (DisconnectBlock, CVerifyDB::VerifyDB).
THEOREM NoFalseAlarmThm ==
  ASSUME DeepRoot, CoinsWritesSucceed
  PROVE  Spec => []NoFalseAlarm
<1>1. CoinsInv /\ EvoInv => NoFalseAlarm
  <2> SUFFICES ASSUME CoinsInv, EvoInv PROVE NoFalseAlarm
    BY Zenon
  <2>1. Live => cache.best \in Blocks /\ GoodChain(cache.best) /\ View = Utxo[cache.best]
    BY Zenon DEF CoinsInv, MemInv, Closed
  <2>2. ASSUME pc = "running", cache.best # Root PROVE ~DisconnectFails
    <3>1. cache.best \in Blocks /\ GoodChain(cache.best) /\ View = Utxo[cache.best]
      BY <2>1, <2>2, Zenon DEF Live
    <3>2. VerifyBestBlock(Height[cache.best], cache.best)
      BY <2>2, <3>1, DeepFacts, Zenon DEF EvoInv, Synced
    <3>3. DisconnectCoins(View, cache.best).clean
      BY <2>2, <3>1, GoodVerifies, Zenon
    <3> QED BY <3>2, <3>3, Zenon DEF DisconnectFails
  <2>3. ASSUME pc = "verify" PROVE VerifyCoins(View, cache.best)
    <3>1. cache.best \in Blocks /\ GoodChain(cache.best) /\ View = Utxo[cache.best]
      BY <2>1, <2>3, Zenon DEF Live
    <3> QED BY <3>1, GoodVerifies, Zenon
  <2> QED BY <2>2, <2>3, Zenon DEF NoFalseAlarm
<1> QED BY <1>1, CoinsInvariant, EvoInvariant, PTL

-----------------------------------------------------------------------------
(* The tip and its flush. *)

TipInv ==
    /\ DOMAIN cache = {"best", "add", "del"}
    /\ Live => cache.best \in Blocks
    /\ SavedTip \in Blocks

TipMoves == Tip!Next \/ UNCHANGED Tip!tipVars

\* A step that leaves the tips alone, or with which the process ends.
LEMMA TipStays ==
  ASSUME TipInv, coinsDB' = coinsDB, Live' => Live,
         DOMAIN cache' = {"best", "add", "del"}, Live' => cache'.best = cache.best
  PROVE  TipInv' /\ TipMoves
<1>1. SavedTip' = SavedTip
  BY Zenon DEF SavedTip
<1>2. TipInv'
  BY <1>1, Zenon DEF TipInv
<1>3. CASE Live' \/ ~Live
  <2>1. LiveTip' = LiveTip
    BY <1>3, Zenon DEF LiveTip
  <2> QED BY <1>1, <1>2, <2>1, Zenon DEF TipMoves, Tip!tipVars
<1>4. CASE Live /\ ~Live'
  <2>1. LiveTip \in Blocks /\ LiveTip' = NoBlock
    BY <1>4, Zenon DEF LiveTip, TipInv
  <2>2. Tip!Stop
    BY <1>1, <2>1, ChainAssumption, Zenon DEF Tip!Stop
  <2> QED BY <1>2, <2>2, Zenon DEF TipMoves, Tip!Next
<1> QED BY <1>3, <1>4, Zenon

\* A step in which the running node goes to another tip.
LEMMA TipChanges ==
  ASSUME TipInv, coinsDB' = coinsDB, Live, Live', NEW b \in Blocks,
         DOMAIN cache' = {"best", "add", "del"}, cache'.best = b,
         \/ b # Root /\ cache.best = Parent[b]
         \/ cache.best # Root /\ b = Parent[cache.best]
  PROVE  TipInv' /\ TipMoves
<1>1. SavedTip' = SavedTip /\ LiveTip = cache.best /\ LiveTip' = b /\ LiveTip \in Blocks
  BY Zenon DEF SavedTip, LiveTip, TipInv
<1>2. TipInv'
  BY <1>1, Zenon DEF TipInv
<1>3. CASE b # Root /\ cache.best = Parent[b]
  <2>1. Tip!Connect(b)
    BY <1>1, <1>3, Zenon DEF Tip!Connect
  <2> QED BY <1>2, <1>3, <2>1, Zenon DEF TipMoves, Tip!Next
<1>4. CASE cache.best # Root /\ b = Parent[cache.best]
  <2>1. Tip!Disconnect
    BY <1>1, <1>4, Zenon DEF Tip!Disconnect
  <2> QED BY <1>2, <2>1, Zenon DEF TipMoves, Tip!Next
<1> QED BY <1>3, <1>4, Zenon

\* A batch of coins: the tip is saved with the first one.
LEMMA TipSaves ==
  ASSUME TipInv, Live, Live', DOMAIN cache' = {"best", "add", "del"},
         cache'.best = cache.best, SavedTip' = cache.best
  PROVE  TipInv' /\ TipMoves
<1>1. LiveTip = cache.best /\ LiveTip' = cache.best /\ cache.best \in Blocks /\ cache.best # NoBlock
  BY ChainAssumption, Zenon DEF LiveTip, TipInv
<1>2. TipInv'
  BY <1>1, Zenon DEF TipInv
<1>3. Tip!Save
  BY <1>1, Zenon DEF Tip!Save
<1> QED BY <1>2, <1>3, Zenon DEF TipMoves, Tip!Next

\* Every step of the chain state is a step of the durable tip.
LEMMA TipStep ==
  ASSUME TipInv, [Next]_vars
  PROVE  TipInv' /\ TipMoves
<1> DEFINE Fields == {"best", "add", "del"}
<1>0. DOMAIN cache = Fields /\ (Live => cache.best \in Blocks) /\ SavedTip \in Blocks
  BY Zenon DEF TipInv
<1>1. ASSUME NEW b \in Blocks, AcceptBlock(b) PROVE TipInv' /\ TipMoves
  <2>1. UNCHANGED <<coinsDB, cache, pc>>
    BY <1>1, Zenon DEF AcceptBlock, disk
  <2> QED BY <1>0, <2>1, TipStays, Zenon DEF Live
<1>2. ASSUME NEW b \in Blocks, ConnectTip(b) PROVE TipInv' /\ TipMoves
  <2>1. coinsDB' = coinsDB /\ Live /\ Live'
    BY <1>2, Zenon DEF ConnectTip, Abort, FlushThen, Goto, Live, disk
  <2>2. CASE cache' = cache
    BY <1>0, <2>1, <2>2, TipStays, Zenon
  <2>3. CASE cache' = CacheOf(ConnectCoins(View, b), b)
    <3>1. DOMAIN cache' = Fields /\ cache'.best = b
      BY <2>3, Zenon DEF CacheOf
    <3>2. b # Root /\ cache.best = Parent[b]
      BY <1>2, Zenon DEF ConnectTip
    <3> QED BY <2>1, <3>1, <3>2, TipChanges, Zenon
  <2> QED BY <1>2, <2>2, <2>3, Zenon DEF ConnectTip
<1>3. CASE DisconnectTipRunning \/ RewindStep
  <2>1. PICK p \in {"running", "rewind"} : pc = p /\ DisconnectTip(p)
    BY <1>3, Zenon DEF DisconnectTipRunning, RewindStep
  <2>2. coinsDB' = coinsDB /\ Live /\ Live' /\ cache.best # Root
    BY <2>1, Zenon DEF DisconnectTip, FlushThen, Goto, Live, disk
  <2>3. cache' = CacheOf(DisconnectCoins(View, cache.best).view, Parent[cache.best])
    BY <2>1, Zenon DEF DisconnectTip
  <2>4. DOMAIN cache' = Fields /\ cache'.best = Parent[cache.best]
    BY <2>3, Zenon DEF CacheOf
  <2>5. Parent[cache.best] \in Blocks
    BY <1>0, <2>2, TreeAssumption, Zenon
  <2> QED BY <2>2, <2>4, <2>5, TipChanges, Zenon
<1>4. CASE DisconnectTipAborts \/ BeginFlush \/ RewindFails
  <2>1. UNCHANGED <<coinsDB, cache>> /\ Live
    BY <1>4, Zenon DEF DisconnectTipAborts, BeginFlush, RewindFails, Live, disk, mem
  <2> QED BY <1>0, <2>1, TipStays, Zenon
<1>5. CASE LoadChainTip \/ VerifyDB \/ WriteBlockIndex \/ CommitEvoDB
  <2>1. UNCHANGED <<coinsDB, cache>> /\ Live
    BY <1>5, Zenon DEF LoadChainTip, VerifyDB, WriteBlockIndex, CommitEvoDB, Live, disk, mem
  <2> QED BY <1>0, <2>1, TipStays, Zenon
<1>6. CASE RewindDone \/ Start
  <2>1. UNCHANGED <<coinsDB, cache>> /\ ~Live'
    BY <1>6, Zenon DEF RewindDone, Start, Goto, Live, disk
  <2> QED BY <1>0, <2>1, TipStays, Zenon
<1>7. CASE ClearMarker \/ Crash
  <2>1. coinsDB' = coinsDB /\ ~Live' /\ cache' = Clean(NoBlock)
    BY <1>7, Zenon DEF ClearMarker, Crash, Live, disk
  <2>2. DOMAIN cache' = Fields
    BY <2>1, Zenon DEF Clean
  <2> QED BY <2>1, <2>2, TipStays, Zenon
<1>8. CASE FlushFails
  <2>1. coinsDB' = coinsDB /\ Live
    BY <1>8, Zenon DEF FlushFails, Live, disk
  <2>2. cache' = cache \/ \E out : cache' = Taken(out)
    BY <1>8, Zenon DEF FlushFails
  <2>3. DOMAIN cache' = Fields /\ cache'.best = cache.best
    BY <1>0, <2>2 DEF Taken
  <2> QED BY <2>1, <2>3, TipStays, Zenon
<1>9. CASE WritePartialBatch
  <2>1. PICK out : /\ cache' = Taken(out)
                   /\ coinsDB' = [coins |-> Written(out), best |-> NoBlock, heads |-> <<cache.best, OldTip>>]
    BY <1>9, Zenon DEF WritePartialBatch
  <2>2. Live /\ Live'
    BY <1>9, Zenon DEF WritePartialBatch, Writing, Live
  <2>3. DOMAIN cache' = Fields /\ cache'.best = cache.best
    BY <1>0, <2>1 DEF Taken
  <2>4. SavedTip' = cache.best
    BY <2>1 DEF SavedTip
  <2> QED BY <2>2, <2>3, <2>4, TipSaves, Zenon
<1>10. CASE WriteFinalBatch
  <2>1. /\ cache' = Clean(cache.best)
        /\ coinsDB' = [coins |-> Written(Outs), best |-> cache.best, heads |-> <<>>]
    BY <1>10, Zenon DEF WriteFinalBatch
  <2>2. Live /\ Live'
    BY <1>10, Zenon DEF WriteFinalBatch, Writing, Live, Goto
  <2>3. DOMAIN cache' = Fields /\ cache'.best = cache.best
    BY <2>1, Zenon DEF Clean
  <2>4. SavedTip' = cache.best
    BY <2>1, Zenon DEF SavedTip
  <2> QED BY <2>2, <2>3, <2>4, TipSaves, Zenon
<1>11. CASE LoadAndReplay
  <2>1. coinsDB' = coinsDB /\ ~Live /\ LiveTip = NoBlock /\ SavedTip' = SavedTip
    BY <1>11, Zenon DEF LoadAndReplay, Live, LiveTip, SavedTip, disk
  <2>2. CASE cache' = Clean(NoBlock) /\ pc' = "exit"
    <3>1. DOMAIN cache' = Fields /\ ~Live'
      BY <2>2, Zenon DEF Clean, Live
    <3> QED BY <2>1, <3>1, TipStays, Zenon
  <2>3. CASE DOMAIN cache' = Fields /\ cache'.best = SavedTip /\ Live'
    <3>1. LiveTip' = SavedTip
      BY <2>3, Zenon DEF LiveTip
    <3>2. Tip!Resume
      BY <2>1, <3>1, Zenon DEF Tip!Resume
    <3>3. TipInv'
      BY <1>0, <2>1, <2>3, Zenon DEF TipInv
    <3> QED BY <3>2, <3>3, Zenon DEF TipMoves, Tip!Next
  <2>4. CASE coinsDB.heads = <<>>
    <3>1. cache' = Clean(SavedTip) /\ pc' = "commit"
      BY <1>11, <2>4, Zenon DEF LoadAndReplay, SavedTip, Goto
    <3>2. DOMAIN cache' = Fields /\ cache'.best = SavedTip /\ Live'
      BY <3>1, Zenon DEF Clean, Live
    <3> QED BY <2>3, <3>2, Zenon
  <2>5. CASE coinsDB.heads # <<>> /\ CanReplay(coinsDB.heads[1], coinsDB.heads[2])
    <3>1. pc' = "replay" /\ \E view : cache' = CacheOf(view, SavedTip)
      BY <1>11, <2>5, Zenon DEF LoadAndReplay, SavedTip, Goto
    <3>2. PICK view : cache' = CacheOf(view, SavedTip)
      BY <3>1, Zenon
    <3>3. DOMAIN cache' = Fields /\ cache'.best = SavedTip
      BY <3>2, Zenon DEF CacheOf
    <3>4. Live'
      BY <3>1, Zenon DEF Live
    <3> QED BY <2>3, <3>3, <3>4, Zenon
  <2>6. CASE coinsDB.heads # <<>> /\ ~CanReplay(coinsDB.heads[1], coinsDB.heads[2])
    BY <1>11, <2>2, <2>6, Zenon DEF LoadAndReplay, Goto
  <2> QED BY <2>4, <2>5, <2>6, Zenon
<1>12. CASE UNCHANGED vars
  <2>1. UNCHANGED <<coinsDB, cache, pc>>
    BY <1>12, Zenon DEF vars
  <2> QED BY <1>0, <2>1, TipStays, Zenon DEF Live
<1> QED BY <1>1, <1>2, <1>3, <1>4, <1>5, <1>6, <1>7, <1>8, <1>9, <1>10, <1>11, <1>12, Zenon DEF Next, NodeStep

\* The flush in batches, the crashes inside it and the replay implement one tip
\* saved by an atomic write, whichever writes fail (FlushStateToDisk,
\* CCoinsViewDB::BatchWrite, ReplayBlocks, LoadChainTip).
THEOREM ChainImplementsTip == Spec => TipSpec
<1>1. Init => TipInv /\ Tip!Init
  <2> SUFFICES ASSUME Init PROVE TipInv /\ Tip!Init
    BY Zenon
  <2>1. LiveTip = Root /\ SavedTip = Root /\ cache = Clean(Root)
    BY Zenon DEF Init, LiveTip, SavedTip, Live, Clean
  <2>2. DOMAIN cache = {"best", "add", "del"} /\ cache.best = Root
    BY <2>1, Zenon DEF Clean
  <2> QED BY <2>1, <2>2, TreeAssumption, Zenon DEF TipInv, Tip!Init
<1>2. TipInv /\ [Next]_vars => TipInv' /\ [Tip!Next]_(Tip!tipVars)
  BY TipStep, Zenon DEF TipMoves
<1> QED BY <1>1, <1>2, PTL DEF Spec, TipSpec, Tip!Spec

=============================================================================
