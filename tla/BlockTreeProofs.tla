--------------------------- MODULE BlockTreeProofs ---------------------------
(***************************************************************************)
(* Lemmas about the block tree, by induction over the heights.  Induction   *)
(* over the natural numbers is stated in terms of sets.                     *)
(***************************************************************************)
EXTENDS BlockTree, FiniteSetTheorems, WellFoundedInduction, TLAPS

-----------------------------------------------------------------------------
(* Induction over the natural numbers. *)

\* A non-empty set of natural numbers has a least element.
LEMMA LeastNat ==
  ASSUME NEW T \in SUBSET Nat, T # {}
  PROVE  \E n \in T : \A m \in T : n <= m
<1> DEFINE R == OpToRel(<, Nat)
<1>1. IsWellFoundedOn(R, Nat)
  BY NatLessThanWellFounded DEF OpToRel
<1>2. PICK n \in T : \A m \in T : <<m, n>> \notin R
  BY <1>1, WFMin, Zenon
<1>3. \A m \in T : ~(m < n)
  BY <1>2 DEF OpToRel
<1> QED BY <1>3

\* A set with 0, and with the successor of each of its numbers, has all of them.
LEMMA SetInduction ==
  ASSUME NEW S, 0 \in S, \A n \in Nat : n \in S => n + 1 \in S
  PROVE  Nat \subseteq S
<1> SUFFICES ASSUME Nat \ S # {} PROVE FALSE
  OBVIOUS
<1>1. PICK n \in Nat \ S : \A m \in Nat \ S : n <= m
  BY LeastNat
<1>2. n # 0 /\ n - 1 \in Nat /\ n - 1 \in S
  BY <1>1
<1> QED BY <1>1, <1>2

-----------------------------------------------------------------------------
(* The block tree. *)

\* The height of a block is one more than that of its parent.
LEMMA HeightFacts ==
  /\ \A b \in Blocks : Height[b] \in Nat /\ Height[b] >= RootHeight
  /\ Height[Root] = RootHeight
  /\ \A b \in Blocks \ {Root} : Height[b] = Height[Parent[b]] + 1
<1>1. \A b \in Blocks : Height[b] = RootHeight + Cardinality(Anc[b]) - 1
  BY DEF Height
<1>2. Cardinality(Anc[Root]) = 1
  BY TreeAssumption, FS_Singleton
<1>3. ASSUME NEW b \in Blocks \ {Root}
      PROVE  Cardinality(Anc[b]) = Cardinality(Anc[Parent[b]]) + 1
  <2>1. Parent[b] \in Blocks /\ IsFiniteSet(Anc[Parent[b]]) /\ b \notin Anc[Parent[b]]
    BY TreeAssumption
  <2>2. Anc[b] = Anc[Parent[b]] \cup {b}
    BY TreeAssumption
  <2> QED BY <2>1, <2>2, FS_AddElement
<1>4. ASSUME NEW b \in Blocks
      PROVE  Cardinality(Anc[b]) \in Nat /\ Cardinality(Anc[b]) # 0
  <2>1. IsFiniteSet(Anc[b]) /\ Anc[b] # {}
    BY TreeAssumption
  <2> QED BY <2>1, FS_CardinalityType, FS_EmptySet
<1>5. RootHeight \in Nat /\ \A b \in Blocks : Height[b] \in Nat /\ Height[b] >= RootHeight
  BY <1>1, <1>4, TreeAssumption
<1>6. Root \in Blocks /\ \A b \in Blocks \ {Root} : Parent[b] \in Blocks
  BY TreeAssumption
<1>7. Height[Root] = RootHeight
  BY <1>1, <1>2, <1>5, <1>6
<1>8. ASSUME NEW b \in Blocks \ {Root} PROVE Height[b] = Height[Parent[b]] + 1
  BY <1>1, <1>3, <1>4, <1>5, <1>6
<1> QED BY <1>5, <1>7, <1>8

\* A set with Root, and with every block whose parent it has, has all blocks.
LEMMA TreeInduction ==
  ASSUME NEW S, Root \in S,
         \A b \in Blocks \ {Root} : Parent[b] \in S => b \in S
  PROVE  Blocks \subseteq S
<1> SUFFICES ASSUME Blocks \ S # {} PROVE FALSE
  OBVIOUS
<1> DEFINE T == {Height[b] : b \in Blocks \ S}
<1>1. T \in SUBSET Nat /\ T # {}
  BY HeightFacts
<1>2. PICK n \in T : \A m \in T : n <= m
  BY <1>1, LeastNat
<1>3. PICK b \in Blocks \ S : n = Height[b]
  BY <1>2
<1>4. b # Root /\ Parent[b] \in Blocks \ S
  BY <1>3, TreeAssumption
<1>5. Height[Parent[b]] \in T
  BY <1>4
<1>6. Height[b] = Height[Parent[b]] + 1 /\ Height[Parent[b]] \in Nat /\ Height[b] \in Nat
  BY <1>3, <1>4, HeightFacts
<1>7. Height[b] <= Height[Parent[b]]
  BY <1>2, <1>3, <1>5
<1> HIDE DEF T
<1> QED BY <1>6, <1>7

\* A block and Root are ancestors of a block, and so are the ancestors of its ancestors.
LEMMA AncFacts ==
  /\ \A b \in Blocks : Anc[b] \subseteq Blocks /\ b \in Anc[b] /\ Root \in Anc[b]
  /\ \A b \in Blocks : \A a \in Anc[b] : Anc[a] \subseteq Anc[b]
<1>1. \A b \in Blocks : Anc[b] \subseteq Blocks /\ b \in Anc[b]
  BY TreeAssumption
<1> DEFINE S == {b \in Blocks : Root \in Anc[b] /\ \A a \in Anc[b] : Anc[a] \subseteq Anc[b]}
<1>2. Root \in S
  BY TreeAssumption
<1>3. ASSUME NEW b \in Blocks \ {Root}, Parent[b] \in S PROVE b \in S
  BY <1>3, TreeAssumption
<1>4. Blocks \subseteq S
  <2> HIDE DEF S
  <2> QED BY <1>2, <1>3, TreeInduction
<1> QED BY <1>1, <1>4

\* The ancestors of a block are a line, with one block at each height up to its own.
LEMMA LineFacts ==
  /\ \A b \in Blocks : \A x, y \in Anc[b] : x \in Anc[y] \/ y \in Anc[x]
  /\ \A b \in Blocks : \A a \in Anc[b] : Height[a] <= Height[b] /\ (a # b => Height[a] < Height[b])
  /\ \A b \in Blocks : \A n \in RootHeight..Height[b] : \E a \in Anc[b] : Height[a] = n
<1> DEFINE S == {b \in Blocks : \A x, y \in Anc[b] : x \in Anc[y] \/ y \in Anc[x]}
           U == {b \in Blocks : /\ \A a \in Anc[b] : Height[a] <= Height[b] /\ (a # b => Height[a] < Height[b])
                                /\ \A n \in RootHeight..Height[b] : \E a \in Anc[b] : Height[a] = n}
<1>1. Root \in S /\ Root \in U
  BY TreeAssumption, HeightFacts
<1>2. ASSUME NEW b \in Blocks \ {Root}, Parent[b] \in S PROVE b \in S
  BY <1>2, TreeAssumption
<1>3. ASSUME NEW b \in Blocks \ {Root}, Parent[b] \in U PROVE b \in U
  <2> DEFINE p == Parent[b]
  <2>1. /\ p \in Blocks /\ Anc[b] = {b} \cup Anc[p] /\ b \in Blocks
        /\ Height[b] \in Nat /\ Height[p] \in Nat /\ Height[b] = Height[p] + 1
        /\ \A a \in Anc[p] : a \in Blocks /\ Height[a] \in Nat
    BY TreeAssumption, HeightFacts
  <2>2. /\ \A a \in Anc[p] : Height[a] <= Height[p]
        /\ \A n \in RootHeight..Height[p] : \E a \in Anc[p] : Height[a] = n
    BY <1>3
  <2> HIDE DEF p
  <2>3. \A a \in Anc[b] : Height[a] <= Height[b] /\ (a # b => Height[a] < Height[b])
    BY <2>1, <2>2
  <2>4. \A n \in RootHeight..Height[b] : \E a \in Anc[b] : Height[a] = n
    BY <2>1, <2>2
  <2> QED BY <2>1, <2>3, <2>4
<1>4. Blocks \subseteq S
  <2> HIDE DEF S
  <2> QED BY <1>1, <1>2, TreeInduction
<1>5. Blocks \subseteq U
  <2> HIDE DEF U
  <2> QED BY <1>1, <1>3, TreeInduction
<1> QED BY <1>4, <1>5

\* GetAncestor returns the one ancestor at a height, whichever block of the line it starts at.
LEMMA AncestorFacts ==
  /\ \A b \in Blocks : \A h \in RootHeight..Height[b] :
        GetAncestor(b, h) \in Anc[b] /\ Height[GetAncestor(b, h)] = h
  /\ \A b \in Blocks : \A a \in Anc[b] : GetAncestor(b, Height[a]) = a
  /\ \A b \in Blocks : \A a \in Anc[b] : \A h \in RootHeight..Height[a] : GetAncestor(b, h) = GetAncestor(a, h)
  /\ \A b \in Blocks : \A h \in (RootHeight + 1)..Height[b] :
        GetAncestor(b, h) \in Blocks \ {Root} /\ Parent[GetAncestor(b, h)] = GetAncestor(b, h - 1)
<1>1. \A b \in Blocks : \A h \in RootHeight..Height[b] :
        GetAncestor(b, h) \in Anc[b] /\ Height[GetAncestor(b, h)] = h
  BY LineFacts DEF GetAncestor
<1>2. ASSUME NEW b \in Blocks, NEW x \in Anc[b], NEW y \in Anc[b], Height[x] = Height[y] PROVE x = y
  <2>1. x \in Blocks /\ y \in Blocks /\ (x \in Anc[y] \/ y \in Anc[x])
    BY AncFacts, LineFacts
  <2> QED BY <1>2, <2>1, LineFacts, HeightFacts
<1>3. ASSUME NEW b \in Blocks, NEW a \in Anc[b]
      PROVE  a \in Blocks /\ Height[a] \in RootHeight..Height[b] /\ Anc[a] \subseteq Anc[b]
  BY AncFacts, LineFacts, HeightFacts, TreeAssumption
<1>4. ASSUME NEW b \in Blocks, NEW a \in Anc[b] PROVE GetAncestor(b, Height[a]) = a
  BY <1>1, <1>2, <1>3
<1>5. ASSUME NEW b \in Blocks, NEW a \in Anc[b], NEW h \in RootHeight..Height[a]
      PROVE  GetAncestor(b, h) = GetAncestor(a, h)
  <2>1. GetAncestor(a, h) \in Anc[b] /\ Height[GetAncestor(a, h)] = h
    BY <1>1, <1>3
  <2> QED BY <1>4, <2>1
<1>6. ASSUME NEW b \in Blocks, NEW h \in (RootHeight + 1)..Height[b]
      PROVE  GetAncestor(b, h) \in Blocks \ {Root} /\ Parent[GetAncestor(b, h)] = GetAncestor(b, h - 1)
  <2> DEFINE a == GetAncestor(b, h)
  <2>1. RootHeight \in Nat /\ h \in RootHeight..Height[b]
    BY TreeAssumption, HeightFacts
  <2>2. a \in Anc[b] /\ Height[a] = h
    BY <1>1, <2>1
  <2> HIDE DEF a
  <2>3. a \in Blocks /\ a # Root
    BY <1>3, <2>1, <2>2, HeightFacts
  <2>4. Parent[a] \in Anc[a] /\ Height[Parent[a]] = h - 1
    BY <2>1, <2>2, <2>3, TreeAssumption, AncFacts, HeightFacts
  <2>5. Parent[a] \in Anc[b]
    BY <1>3, <2>2, <2>4
  <2> QED BY <1>4, <2>3, <2>4, <2>5 DEF a
<1> QED BY <1>1, <1>4, <1>5, <1>6

\* Of two blocks on one line the lower one is the last common ancestor.
LEMMA CommonAncestor ==
  ASSUME NEW b \in Blocks, NEW a \in Anc[b]
  PROVE  LastCommonAncestor(a, b) = a
<1>1. a \in Blocks /\ Anc[a] \cap Anc[b] = Anc[a] /\ a \in Anc[a]
  BY AncFacts
<1>2. \A d \in Anc[a] : d \in Blocks /\ Height[d] <= Height[a]
  BY <1>1, AncFacts, LineFacts
<1>3. ASSUME NEW c \in Anc[a], \A d \in Anc[a] : Height[d] <= Height[c] PROVE c = a
  <2>1. Height[a] <= Height[c]
    BY <1>1, <1>3
  <2>2. c # a => Height[c] < Height[a]
    BY <1>1, LineFacts
  <2>3. Height[a] \in Nat /\ Height[c] \in Nat
    BY <1>1, <1>2, HeightFacts
  <2> QED BY <2>1, <2>2, <2>3
<1> QED BY <1>1, <1>2, <1>3 DEF LastCommonAncestor
-----------------------------------------------------------------------------
(* Loops over 0..m. *)

\* F has the steps of a recursion over 0..m whose values are in V, f solves it.
Steps(m, V, F) == F \in [1..m -> [V -> V]]
Solves(m, V, F, start, f) ==
    f \in [0..m -> V] /\ f[0] = start /\ \A n \in 1..m : f[n] = F[n][f[n - 1]]

\* Such a recursion has a solution.
LEMMA Recursion ==
  ASSUME NEW m \in Nat, NEW V, NEW start \in V, NEW F, Steps(m, V, F)
  PROVE  \E f : Solves(m, V, F, start, f)
<1> DEFINE Sol(k, f) == f \in [0..k -> V] /\ f[0] = start /\ \A n \in 1..k : n <= m => f[n] = F[n][f[n - 1]]
           S == {k \in Nat : \E f : Sol(k, f)}
<1>1. 0 \in S
  <2>1. Sol(0, [n \in 0..0 |-> start])
    OBVIOUS
  <2> QED BY <2>1
<1>2. ASSUME NEW k \in Nat, k \in S PROVE k + 1 \in S
  <2>1. PICK f : Sol(k, f)
    BY <1>2
  <2> DEFINE last == IF k + 1 <= m THEN F[k + 1][f[k]] ELSE start
             g == [n \in 0..(k + 1) |-> IF n = k + 1 THEN last ELSE f[n]]
  <2>2. last \in V
    <3>1. f[k] \in V
      BY <2>1
    <3>2. CASE k + 1 <= m
      <4>1. F[k + 1] \in [V -> V]
        BY <3>2 DEF Steps
      <4> QED BY <3>1, <3>2, <4>1
    <3>3. CASE ~(k + 1 <= m)
      BY <3>3
    <3> QED BY <3>2, <3>3
  <2>3. g \in [0..(k + 1) -> V] /\ \A n \in 0..k : g[n] = f[n]
    BY <2>1, <2>2
  <2>4. g[k + 1] = last
    OBVIOUS
  <2> HIDE DEF g
  <2>5. ASSUME NEW n \in 1..(k + 1), n <= m PROVE g[n] = F[n][g[n - 1]]
    <3>1. g[n - 1] = f[n - 1]
      BY <2>3
    <3>2. CASE n = k + 1
      BY <2>4, <2>5, <3>1, <3>2
    <3>3. CASE n # k + 1
      <4>1. n \in 1..k /\ n \in 0..k
        BY <3>3
      <4> QED BY <2>1, <2>3, <2>5, <3>1, <4>1
    <3> QED BY <3>2, <3>3
  <2>6. Sol(k + 1, g)
    BY <2>1, <2>3, <2>5
  <2> HIDE DEF Sol
  <2> QED BY <2>6
<1>3. m \in S
  <2> HIDE DEF S
  <2> QED BY <1>1, <1>2, SetInduction DEF S
<1>4. PICK f : Sol(m, f)
  BY <1>3
<1> QED BY <1>4 DEF Solves

=============================================================================
