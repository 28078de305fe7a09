--------------------------- MODULE HeadersSyncProofs ---------------------------
(***************************************************************************)
(* Proofs about HeadersSync, for every tree of headers, any number of peers *)
(* and every commitment period.                                             *)
(***************************************************************************)
EXTENDS HeadersSync, BlockTreeProofs

-----------------------------------------------------------------------------
(* The inductive invariant. *)

\* Headers that follow each other, as a peer sends them.
Linked == {hs \in Seq(Blocks \ {Root}) : \A i \in 2..Len(hs) : Parent[hs[i]] = hs[i - 1]}

Messages == [type : {"headers", "inv"}, what : Linked]
Locators == {L \in SUBSET Blocks : Root \in L}
Commitments == [height : Nat, hash : Blocks]

\* The commitments are on the chain from start to end, in ascending order, and
\* none is missing.
Complete(cs, start, end) ==
    /\ cs \in Seq(Commitments)
    /\ start \in Anc[end]
    /\ \A k \in 1..Len(cs) : /\ cs[k].hash \in Anc[end] /\ cs[k].height = Height[cs[k].hash]
                             /\ cs[k].height > Height[start]
    /\ \A k \in 1..Len(cs) : \A j \in 1..(k - 1) : cs[j].height < cs[k].height
    /\ \A h \in (Height[start] + 1)..Height[end] :
          h % COMMITMENT_PERIOD = 0 => \E k \in 1..Len(cs) : cs[k].height = h

\* The commitments before next are on the chain up to prev, the others above it.
CheckedUpTo(cs, next, prev) ==
    /\ next \in 1..(Len(cs) + 1)
    /\ \A k \in 1..(next - 1) : cs[k].hash \in Anc[prev]
    /\ \A k \in next..Len(cs) : cs[k].height > Height[prev]

SyncStates ==
    [phase : {"PRESYNC", "REDOWNLOAD"}, start : Blocks, tip : Blocks, height : Nat, work : Nat,
     commitments : Seq(Commitments), prev : Blocks, redownloaded : Nat, next : Nat]

SyncOK(s) ==
    /\ s \in SyncStates
    /\ Complete(s.commitments, s.start, s.tip)
    /\ s.height = Height[s.tip] /\ s.work = Height[s.tip]
    /\ s.start \in Anc[s.prev] /\ s.redownloaded = Height[s.prev]
    /\ CheckedUpTo(s.commitments, s.next, s.prev)
    /\ s.phase = "PRESYNC" => s.prev = s.start
    /\ s.phase = "REDOWNLOAD" => s.work >= nMinimumChainWork

ChannelsOK ==
    /\ pindexBestHeader \in Blocks
    /\ tip \in [Peers -> Blocks]
    /\ toPeer \in [Peers -> Seq(Locators)]
    /\ fromPeer \in [Peers -> Seq(Messages)]

SyncsOK == DOMAIN sync = Peers /\ \A p \in Peers : sync[p] # None => SyncOK(sync[p])

SlotsOK ==
    /\ fSyncStarted \in [Peers -> BOOLEAN]
    /\ nSyncStarted \in Nat
    /\ SlotsCovered

-----------------------------------------------------------------------------
(* The loops of ProcessNextHeaders. *)

\* Among any period of heights there is a multiple of the period.
LEMMA MultipleInPeriod ==
  ASSUME NEW P \in Nat \ {0}, NEW h \in Nat
  PROVE  \E m \in (h + 1)..(h + P) : m % P = 0
<1> DEFINE d == h \div P
           m == P * (d + 1)
<1>1. h % P \in 0..(P - 1) /\ h = P * d + (h % P) /\ d \in Nat
  OBVIOUS
<1>2. ASSUME NEW q \in Nat PROVE (P * q) % P = 0 /\ P * q \in Nat
  OBVIOUS
<1>3. m % P = 0 /\ m \in Nat
  <2> HIDE DEF d
  <2> QED BY <1>1, <1>2
<1>4. m = P * d + P
  <2> HIDE DEF d
  <2> QED BY <1>1
<1>5. m \in (h + 1)..(h + P)
  <2>1. P * d \in Nat
    BY <1>1, <1>2, Zenon
  <2> DEFINE r == h % P
             k == P * d
  <2> HIDE DEF r, k, m, d
  <2> QED BY <1>1, <1>3, <1>4, <2>1 DEF r, k
<1> QED BY <1>3, <1>5, Zenon

\* The header before the first i of hs, which follow b.
Pos(b, hs, i) == IF i = 0 THEN b ELSE hs[i]

\* Headers that follow each other climb one at a time.
LEMMA LinkedFacts ==
  ASSUME NEW hs \in Linked, hs # <<>>, NEW b \in Blocks, Parent[hs[1]] = b
  PROVE  /\ Len(hs) \in Nat /\ Len(hs) >= 1
         /\ \A i \in Nat : i + 1 <= Len(hs) => hs[i + 1] \in Blocks \ {Root} /\ Parent[hs[i + 1]] = Pos(b, hs, i)
         /\ \A i \in Nat : i <= Len(hs) => Pos(b, hs, i) \in Blocks /\ Height[Pos(b, hs, i)] = Height[b] + i
<1> DEFINE m == Len(hs)
           S == {i \in Nat : i <= m => Pos(b, hs, i) \in Blocks /\ Height[Pos(b, hs, i)] = Height[b] + i}
<1>1. /\ m \in Nat /\ m >= 1 /\ \A i \in 1..m : hs[i] \in Blocks \ {Root}
      /\ \A i \in 2..m : Parent[hs[i]] = hs[i - 1]
  <2> DEFINE B == Blocks \ {Root}
  <2>1. hs \in Seq(B) /\ \A i \in 2..m : Parent[hs[i]] = hs[i - 1]
    BY Zenon DEF Linked
  <2>2. m \in Nat /\ m >= 1 /\ \A i \in 1..m : hs[i] \in B
    <3> HIDE DEF B
    <3> QED BY <2>1
  <2> QED BY <2>1, <2>2, Zenon
<1>2. ASSUME NEW i \in Nat, i + 1 <= m
      PROVE  hs[i + 1] \in Blocks \ {Root} /\ Parent[hs[i + 1]] = Pos(b, hs, i)
  <2>1. i + 1 \in 1..m /\ (i # 0 => i + 1 \in 2..m) /\ (i + 1) - 1 = i /\ (i = 0 => i + 1 = 1)
    BY <1>1, <1>2
  <2> HIDE DEF m
  <2> QED BY <1>1, <2>1, Zenon DEF Pos
<1>3. Height[b] \in Nat
  BY HeightFacts, Zenon
<1>4. 0 \in S
  BY <1>3 DEF Pos
<1>5. ASSUME NEW i \in Nat, i \in S PROVE i + 1 \in S
  <2> SUFFICES ASSUME i + 1 <= m
               PROVE  Pos(b, hs, i + 1) \in Blocks /\ Height[Pos(b, hs, i + 1)] = Height[b] + (i + 1)
    OBVIOUS
  <2>1. i <= m /\ i + 1 # 0
    BY <1>1
  <2>2. Pos(b, hs, i) \in Blocks /\ Height[Pos(b, hs, i)] = Height[b] + i
    BY <1>5, <2>1, Zenon
  <2>3. Pos(b, hs, i + 1) = hs[i + 1]
    BY <2>1, Zenon DEF Pos
  <2>4. hs[i + 1] \in Blocks \ {Root} /\ Parent[hs[i + 1]] = Pos(b, hs, i)
    BY <1>2, Zenon
  <2>5. Height[hs[i + 1]] = (Height[b] + i) + 1
    BY <2>2, <2>4, HeightFacts, Zenon
  <2>6. (Height[b] + i) + 1 = Height[b] + (i + 1)
    BY <1>3
  <2> QED BY <2>3, <2>4, <2>5, <2>6, Zenon
<1>6. Nat \subseteq S
  <2> HIDE DEF S
  <2> QED BY <1>4, <1>5, SetInduction, Zenon
<1> QED BY <1>1, <1>2, <1>6, Zenon

\* One header more of PRESYNC.
LEMMA CommitStep ==
  ASSUME NEW start \in Blocks, NEW b \in Blocks, NEW c \in Blocks \ {Root}, Parent[c] = b,
         NEW cs, Complete(cs, start, b)
  PROVE  Complete(IF Height[c] % COMMITMENT_PERIOD # 0 THEN cs
                  ELSE Append(cs, [height |-> Height[c], hash |-> c]), start, c)
<1>1. /\ Height[c] = Height[b] + 1 /\ Height[b] \in Nat /\ Height[c] \in Nat /\ Height[start] \in Nat
      /\ Anc[b] \subseteq Anc[c] /\ c \in Anc[c]
  BY HeightFacts, AncFacts, TreeAssumption, Zenon
<1>2. Height[start] <= Height[b]
  BY LineFacts, Zenon DEF Complete
<1>3. CASE Height[c] % COMMITMENT_PERIOD # 0
  <2>1. ASSUME NEW h \in (Height[start] + 1)..Height[c], h % COMMITMENT_PERIOD = 0
        PROVE  h \in (Height[start] + 1)..Height[b]
    BY <1>1, <1>3, <2>1
  <2> QED BY <1>1, <1>3, <2>1, Zenon DEF Complete
<1>4. CASE Height[c] % COMMITMENT_PERIOD = 0
  <2> DEFINE new == [height |-> Height[c], hash |-> c]
             d == Append(cs, new)
             n == Len(cs)
  <2>1. cs \in Seq(Commitments) /\ new \in Commitments /\ n \in Nat
    BY <1>1 DEF Complete, Commitments
  <2>2. d \in Seq(Commitments) /\ Len(d) = n + 1 /\ d[n + 1] = new /\ \A k \in 1..n : d[k] = cs[k]
    <3> HIDE DEF new
    <3> QED BY <2>1
  <2>3. new.height = Height[c] /\ new.hash = c
    BY Zenon
  <2> HIDE DEF d, new
  <2>4. \A k \in 1..n : /\ cs[k].hash \in Anc[b] /\ cs[k].height = Height[cs[k].hash]
                        /\ cs[k].height > Height[start] /\ cs[k].height \in Nat
                        /\ cs[k].height < Height[c]
    <3>1. \A k \in 1..n : /\ cs[k].hash \in Anc[b] /\ cs[k].height = Height[cs[k].hash]
                          /\ cs[k].height > Height[start]
      BY Zenon DEF Complete
    <3>2. \A a \in Anc[b] : Height[a] \in Nat /\ Height[a] <= Height[b]
      BY LineFacts, HeightFacts, AncFacts, Zenon
    <3> QED BY <1>1, <3>1, <3>2
  <2>5. \A k \in 1..(n + 1) : k \in 1..n \/ k = n + 1
    BY <2>1
  <2>6. ASSUME NEW k \in 1..(n + 1)
        PROVE  d[k].hash \in Anc[c] /\ d[k].height = Height[d[k].hash] /\ d[k].height > Height[start]
    BY <1>1, <1>2, <2>2, <2>3, <2>4, <2>5
  <2>7. ASSUME NEW k \in 1..(n + 1), NEW j \in 1..(k - 1) PROVE d[j].height < d[k].height
    <3>1. j \in 1..n
      BY <2>1
    <3>2. CASE k = n + 1
      BY <2>2, <2>3, <2>4, <3>1, <3>2, Zenon
    <3>3. CASE k \in 1..n
      BY <2>2, <3>1, <3>3, Zenon DEF Complete
    <3> QED BY <2>5, <3>2, <3>3, Zenon
  <2>8. ASSUME NEW h \in (Height[start] + 1)..Height[c], h % COMMITMENT_PERIOD = 0
        PROVE  \E k \in 1..(n + 1) : d[k].height = h
    <3>1. CASE h = Height[c]
      <4>1. n + 1 \in 1..(n + 1)
        BY <2>1
      <4> QED BY <2>2, <2>3, <3>1, <4>1, Zenon
    <3>2. CASE h # Height[c]
      <4>1. h \in (Height[start] + 1)..Height[b]
        BY <1>1, <3>2
      <4>2. PICK k \in 1..n : cs[k].height = h
        BY <2>8, <4>1, Zenon DEF Complete
      <4> QED BY <2>1, <2>2, <4>2
    <3> QED BY <3>1, <3>2, Zenon
  <2>9. start \in Anc[c]
    BY <1>1, Zenon DEF Complete
  <2>10. Complete(d, start, c)
    BY <2>2, <2>6, <2>7, <2>8, <2>9, Zenon DEF Complete
  <2> QED BY <1>4, <2>10, Zenon DEF d, new
<1> QED BY <1>3, <1>4, Zenon

\* Committed takes one header after the other.
LEMMA CommittedUnfolds ==
  ASSUME NEW hs \in Linked, NEW cs \in Seq(Commitments), NEW height \in Nat
  PROVE  /\ Committed(cs, height, hs)[0] = cs
         /\ \A i \in 1..Len(hs) : Committed(cs, height, hs)[i] =
               IF (height + i) % COMMITMENT_PERIOD # 0 THEN Committed(cs, height, hs)[i - 1]
               ELSE Append(Committed(cs, height, hs)[i - 1], [height |-> height + i, hash |-> hs[i]])
<1> DEFINE m == Len(hs)
           V == Seq(Commitments)
           At(v, i) == IF (height + i) % COMMITMENT_PERIOD # 0 THEN v
                       ELSE Append(v, [height |-> height + i, hash |-> hs[i]])
           Body(f, i) == IF i = 0 THEN cs
                         ELSE IF (height + i) % COMMITMENT_PERIOD # 0 THEN f[i - 1]
                         ELSE Append(f[i - 1], [height |-> height + i, hash |-> hs[i]])
           F == [i \in 1..m |-> [v \in V |-> At(v, i)]]
<1>1. m \in Nat /\ cs \in V /\ \A i \in 1..m : hs[i] \in Blocks
  <2> DEFINE B == Blocks \ {Root}
  <2>1. hs \in Seq(B)
    BY Zenon DEF Linked
  <2>2. m \in Nat /\ \A i \in 1..m : hs[i] \in B
    <3> HIDE DEF B
    <3> QED BY <2>1
  <2> QED BY <2>2, Zenon
<1>2. Steps(m, V, F)
  <2> SUFFICES ASSUME NEW i \in 1..m, NEW v \in V PROVE At(v, i) \in V
    BY Zenon DEF Steps
  <2>1. [height |-> height + i, hash |-> hs[i]] \in Commitments
    BY <1>1 DEF Commitments
  <2> DEFINE c == [height |-> height + i, hash |-> hs[i]]
  <2> HIDE DEF c
  <2>2. Append(v, c) \in V
    BY <2>1 DEF c
  <2> QED BY <2>2, Zenon DEF c
<1>3. PICK f : Solves(m, V, F, cs, f)
  <2> HIDE DEF m, F, V
  <2> QED BY <1>1, <1>2, Recursion, Zenon
<1>4. ASSUME NEW n \in 0..m PROVE f[n] = Body(f, n)
  <2>1. CASE n = 0
    BY <1>3, <2>1, Zenon DEF Solves
  <2>2. CASE n # 0
    <3>1. n \in 1..m /\ n - 1 \in 0..m
      BY <1>1, <2>2
    <3>2. f[n - 1] \in V /\ f[n] = F[n][f[n - 1]]
      BY <1>3, <3>1, Zenon DEF Solves
    <3>3. f[n] = At(f[n - 1], n)
      <4> HIDE DEF V, At
      <4> QED BY <3>1, <3>2, Zenon
    <3> QED BY <2>2, <3>3, Zenon
  <2> QED BY <2>1, <2>2, Zenon
<1>5. f = [n \in 0..m |-> Body(f, n)]
  <2>1. f = [n \in 0..m |-> f[n]]
    BY <1>3, Zenon DEF Solves
  <2> HIDE DEF m, Body
  <2> QED BY <1>4, <2>1, Zenon
<1>6. Committed(cs, height, hs) = CHOOSE g : g = [n \in 0..m |-> Body(g, n)]
  BY Zenon DEF Committed
<1>7. Committed(cs, height, hs) = [n \in 0..m |-> Body(Committed(cs, height, hs), n)]
  <2> HIDE DEF m, Body
  <2> QED BY <1>5, <1>6, Zenon
<1>8. ASSUME NEW n \in 0..m PROVE Committed(cs, height, hs)[n] = Body(Committed(cs, height, hs), n)
  <2> DEFINE A == Committed(cs, height, hs)
  <2> HIDE DEF A, m, Body
  <2> QED BY <1>7, Zenon DEF A
<1>9. ASSUME NEW n \in 1..m PROVE n \in 0..m /\ n # 0
  BY <1>1
<1>10. 0 \in 0..m
  BY <1>1
<1> QED BY <1>8, <1>9, <1>10, Zenon

\* After a message of PRESYNC no commitment is missing.
LEMMA CommittedFacts ==
  ASSUME NEW hs \in Linked, hs # <<>>, NEW start \in Blocks, NEW b \in Blocks, Parent[hs[1]] = b,
         NEW cs, Complete(cs, start, b)
  PROVE  Complete(Committed(cs, Height[b], hs)[Len(hs)], start, hs[Len(hs)])
<1> DEFINE m == Len(hs)
           A == Committed(cs, Height[b], hs)
           S == {i \in Nat : i <= m => Complete(A[i], start, Pos(b, hs, i))}
<1>1. /\ m \in Nat /\ m >= 1 /\ cs \in Seq(Commitments) /\ Height[b] \in Nat
      /\ \A i \in Nat : i + 1 <= m => hs[i + 1] \in Blocks \ {Root} /\ Parent[hs[i + 1]] = Pos(b, hs, i)
      /\ \A i \in Nat : i <= m => Pos(b, hs, i) \in Blocks /\ Height[Pos(b, hs, i)] = Height[b] + i
  BY LinkedFacts, HeightFacts DEF Complete
<1>2. /\ A[0] = cs
      /\ \A i \in 1..m : A[i] = IF (Height[b] + i) % COMMITMENT_PERIOD # 0 THEN A[i - 1]
                                ELSE Append(A[i - 1], [height |-> Height[b] + i, hash |-> hs[i]])
  BY <1>1, CommittedUnfolds
<1>3. 0 \in S
  BY <1>2, Zenon DEF Pos
<1>4. ASSUME NEW i \in Nat, i \in S PROVE i + 1 \in S
  <2> SUFFICES ASSUME i + 1 <= m PROVE Complete(A[i + 1], start, Pos(b, hs, i + 1))
    OBVIOUS
  <2> DEFINE c == hs[i + 1]
             p == Pos(b, hs, i)
  <2>1. i + 1 \in 1..m /\ (i + 1) - 1 = i /\ i <= m /\ i + 1 # 0
    BY <1>1
  <2>2. c \in Blocks \ {Root} /\ Parent[c] = p /\ p \in Blocks /\ Pos(b, hs, i + 1) = c
    BY <1>1, <2>1, Zenon DEF Pos
  <2>3. Height[c] = Height[b] + (i + 1)
    BY <1>1, <2>1, <2>2
  <2>4. Complete(A[i], start, p)
    BY <1>4, <2>1, Zenon
  <2>5. A[i + 1] = IF (Height[b] + (i + 1)) % COMMITMENT_PERIOD # 0 THEN A[i]
                   ELSE Append(A[i], [height |-> Height[b] + (i + 1), hash |-> c])
    <3> HIDE DEF A, m
    <3> QED BY <1>2, <2>1, Zenon
  <2> HIDE DEF A, c, p
  <2>6. A[i + 1] = IF Height[c] % COMMITMENT_PERIOD # 0 THEN A[i]
                   ELSE Append(A[i], [height |-> Height[c], hash |-> c])
    BY <2>3, <2>5, Zenon
  <2>7. Complete(A[i + 1], start, c)
    BY <2>2, <2>4, <2>6, CommitStep
  <2> QED BY <2>2, <2>7, Zenon
<1>5. Nat \subseteq S
  <2> HIDE DEF S
  <2> QED BY <1>3, <1>4, SetInduction, Zenon
<1>6. Pos(b, hs, m) = hs[m]
  BY <1>1 DEF Pos
<1> QED BY <1>1, <1>5, <1>6

\* Passed takes one header after the other.
LEMMA PassedUnfolds ==
  ASSUME NEW hs, Len(hs) \in Nat, NEW s, s.next \in Nat
  PROVE  /\ Passed(s, hs)[0] = s.next
         /\ \A i \in 1..Len(hs) : Passed(s, hs)[i] =
               Passed(s, hs)[i - 1] + (IF FallsOn(s, Passed(s, hs)[i - 1], s.redownloaded + i) THEN 1 ELSE 0)
<1> DEFINE m == Len(hs)
           At(v, i) == v + (IF FallsOn(s, v, s.redownloaded + i) THEN 1 ELSE 0)
           Body(f, i) == IF i = 0 THEN s.next
                         ELSE f[i - 1] + (IF FallsOn(s, f[i - 1], s.redownloaded + i) THEN 1 ELSE 0)
           F == [i \in 1..m |-> [v \in Nat |-> At(v, i)]]
<1>1. m \in Nat /\ s.next \in Nat
  BY Zenon
<1>2. Steps(m, Nat, F)
  <2> SUFFICES ASSUME NEW i \in 1..m, NEW v \in Nat PROVE At(v, i) \in Nat
    BY Zenon DEF Steps
  <2> QED OBVIOUS
<1>3. PICK f : Solves(m, Nat, F, s.next, f)
  <2> HIDE DEF m, F
  <2> QED BY <1>1, <1>2, Recursion, Zenon
<1>4. ASSUME NEW n \in 0..m PROVE f[n] = Body(f, n)
  <2>1. CASE n = 0
    BY <1>3, <2>1, Zenon DEF Solves
  <2>2. CASE n # 0
    <3>1. n \in 1..m /\ n - 1 \in 0..m
      BY <1>1, <2>2
    <3>2. f[n - 1] \in Nat /\ f[n] = F[n][f[n - 1]]
      BY <1>3, <3>1, Zenon DEF Solves
    <3>3. f[n] = At(f[n - 1], n)
      <4> HIDE DEF At
      <4> QED BY <3>1, <3>2, Zenon
    <3> QED BY <2>2, <3>3, Zenon
  <2> QED BY <2>1, <2>2, Zenon
<1>5. f = [n \in 0..m |-> Body(f, n)]
  <2>1. f = [n \in 0..m |-> f[n]]
    BY <1>3, Zenon DEF Solves
  <2> HIDE DEF m, Body
  <2> QED BY <1>4, <2>1, Zenon
<1>6. Passed(s, hs) = CHOOSE g : g = [n \in 0..m |-> Body(g, n)]
  BY Zenon DEF Passed
<1>7. Passed(s, hs) = [n \in 0..m |-> Body(Passed(s, hs), n)]
  <2> HIDE DEF m, Body
  <2> QED BY <1>5, <1>6, Zenon
<1>8. ASSUME NEW n \in 0..m PROVE Passed(s, hs)[n] = Body(Passed(s, hs), n)
  <2> DEFINE A == Passed(s, hs)
  <2> HIDE DEF A, m, Body
  <2> QED BY <1>7, Zenon DEF A
<1>9. ASSUME NEW n \in 1..m PROVE n \in 0..m /\ n # 0
  BY <1>1
<1>10. 0 \in 0..m
  BY <1>1
<1> QED BY <1>8, <1>9, <1>10, Zenon

\* One header more of REDOWNLOAD: a commitment on its height is checked, and no
\* commitment is passed over.
LEMMA PassStep ==
  ASSUME NEW s, NEW start \in Blocks, NEW end \in Blocks, Complete(s.commitments, start, end),
         NEW next, NEW prev \in Blocks, CheckedUpTo(s.commitments, next, prev),
         NEW c \in Blocks \ {Root}, Parent[c] = prev,
         FallsOn(s, next, Height[c]) => s.commitments[next].hash = c
  PROVE  CheckedUpTo(s.commitments, next + (IF FallsOn(s, next, Height[c]) THEN 1 ELSE 0), c)
<1> DEFINE cs == s.commitments
           n == Len(cs)
<1>1. /\ n \in Nat /\ next \in 1..(n + 1)
      /\ \A k \in 1..n : cs[k].height \in Nat
      /\ \A k \in 1..n : \A j \in 1..(k - 1) : cs[j].height < cs[k].height
      /\ \A k \in 1..(next - 1) : cs[k].hash \in Anc[prev]
      /\ \A k \in next..n : cs[k].height > Height[prev]
  <2>1. cs \in Seq(Commitments) /\ next \in 1..(n + 1)
    BY Zenon DEF Complete, CheckedUpTo
  <2>2. n \in Nat /\ \A k \in 1..n : cs[k] \in Commitments
    <3> HIDE DEF cs
    <3> QED BY <2>1
  <2>3. \A k \in 1..n : cs[k].height \in Nat
    BY <2>2, Zenon DEF Commitments
  <2> QED BY <2>1, <2>2, <2>3, Zenon DEF Complete, CheckedUpTo
<1>2. Height[c] = Height[prev] + 1 /\ Height[prev] \in Nat /\ Anc[prev] \subseteq Anc[c] /\ c \in Anc[c]
  BY HeightFacts, AncFacts, TreeAssumption, Zenon
<1>3. FallsOn(s, next, Height[c]) <=> next <= n /\ cs[next].height = Height[c]
  BY Zenon DEF FallsOn
<1>4. CASE FallsOn(s, next, Height[c])
  <2>1. next \in 1..n /\ cs[next].height = Height[c] /\ cs[next].hash = c
    BY <1>1, <1>3, <1>4
  <2> HIDE DEF cs
  <2>2. next + 1 \in 1..(n + 1)
    BY <1>1, <2>1
  <2>3. ASSUME NEW k \in 1..((next + 1) - 1) PROVE cs[k].hash \in Anc[c]
    <3>1. k = next \/ k \in 1..(next - 1)
      BY <1>1
    <3> QED BY <1>1, <1>2, <2>1, <3>1, Zenon
  <2>4. ASSUME NEW k \in (next + 1)..n PROVE cs[k].height > Height[c]
    <3>1. k \in 1..n /\ next \in 1..(k - 1)
      BY <1>1, <2>1
    <3> QED BY <1>1, <1>2, <2>1, <3>1, Zenon
  <2> QED BY <1>4, <2>2, <2>3, <2>4, Zenon DEF CheckedUpTo, cs
<1>5. CASE ~FallsOn(s, next, Height[c])
  <2>1. next > n \/ cs[next].height # Height[c]
    BY <1>1, <1>3, <1>5
  <2> HIDE DEF cs
  <2>2. next + 0 = next
    BY <1>1
  <2>3. \A k \in 1..(next - 1) : cs[k].hash \in Anc[c]
    BY <1>1, <1>2, Zenon
  <2>4. ASSUME NEW k \in next..n PROVE cs[k].height > Height[c]
    <3>1. next \in 1..n /\ next \in next..n /\ k \in 1..n
      BY <1>1
    <3>2. cs[next].height > Height[c]
      BY <1>1, <1>2, <2>1, <3>1
    <3>3. k = next \/ next \in 1..(k - 1)
      BY <1>1
    <3> QED BY <1>1, <1>2, <3>1, <3>2, <3>3
  <2>5. CheckedUpTo(cs, next, c)
    BY <1>1, <2>3, <2>4, Zenon DEF CheckedUpTo
  <2> QED BY <1>5, <2>2, <2>5, Zenon DEF cs
<1> QED BY <1>4, <1>5, Zenon

\* After a message of REDOWNLOAD without a mismatch the headers are on the chain
\* of the commitments.
LEMMA PassedFacts ==
  ASSUME NEW s, SyncOK(s), NEW hs \in Linked, hs # <<>>, Parent[hs[1]] = s.prev, ~Mismatch(s, hs)
  PROVE  CheckedUpTo(s.commitments, Passed(s, hs)[Len(hs)], hs[Len(hs)])
<1> DEFINE m == Len(hs)
           b == s.prev
           A == Passed(s, hs)
           S == {i \in Nat : i <= m => CheckedUpTo(s.commitments, A[i], Pos(b, hs, i))}
<1>1. /\ b \in Blocks /\ s.start \in Blocks /\ s.tip \in Blocks /\ s.next \in Nat
      /\ s.redownloaded = Height[b] /\ Height[b] \in Nat
      /\ Complete(s.commitments, s.start, s.tip) /\ CheckedUpTo(s.commitments, s.next, b)
  BY HeightFacts, Zenon DEF SyncOK, SyncStates
<1>2. /\ m \in Nat /\ m >= 1
      /\ \A i \in Nat : i + 1 <= m => hs[i + 1] \in Blocks \ {Root} /\ Parent[hs[i + 1]] = Pos(b, hs, i)
      /\ \A i \in Nat : i <= m => Pos(b, hs, i) \in Blocks /\ Height[Pos(b, hs, i)] = Height[b] + i
  BY <1>1, LinkedFacts, Zenon
<1>3. /\ A[0] = s.next
      /\ \A i \in 1..m : A[i] = A[i - 1] + (IF FallsOn(s, A[i - 1], s.redownloaded + i) THEN 1 ELSE 0)
  BY <1>1, <1>2, PassedUnfolds, Zenon
<1>4. \A i \in 1..m : FallsOn(s, A[i - 1], s.redownloaded + i) => s.commitments[A[i - 1]].hash = hs[i]
  BY Zenon DEF Mismatch
<1>5. 0 \in S
  BY <1>1, <1>3, Zenon DEF Pos
<1>6. ASSUME NEW i \in Nat, i \in S PROVE i + 1 \in S
  <2> SUFFICES ASSUME i + 1 <= m PROVE CheckedUpTo(s.commitments, A[i + 1], Pos(b, hs, i + 1))
    OBVIOUS
  <2> DEFINE c == hs[i + 1]
             p == Pos(b, hs, i)
  <2>1. i + 1 \in 1..m /\ (i + 1) - 1 = i /\ i <= m /\ i + 1 # 0
    BY <1>2
  <2>2. c \in Blocks \ {Root} /\ Parent[c] = p /\ p \in Blocks /\ Pos(b, hs, i + 1) = c
    BY <1>2, <2>1, Zenon DEF Pos
  <2>3. Height[c] = s.redownloaded + (i + 1)
    <3> HIDE DEF b
    <3> QED BY <1>1, <1>2, <2>1, <2>2
  <2>4. CheckedUpTo(s.commitments, A[i], p)
    BY <1>6, <2>1, Zenon
  <2> HIDE DEF A, c, p, m
  <2>5. A[i + 1] = A[i] + (IF FallsOn(s, A[i], Height[c]) THEN 1 ELSE 0)
    BY <1>3, <2>1, <2>3, Zenon
  <2>6. FallsOn(s, A[i], Height[c]) => s.commitments[A[i]].hash = c
    BY <1>4, <2>1, <2>3, Zenon DEF c
  <2>7. CheckedUpTo(s.commitments, A[i] + (IF FallsOn(s, A[i], Height[c]) THEN 1 ELSE 0), c)
    BY <1>1, <2>2, <2>4, <2>6, PassStep, Zenon
  <2> QED BY <2>2, <2>5, <2>7, Zenon
<1>7. Nat \subseteq S
  <2> HIDE DEF S
  <2> QED BY <1>5, <1>6, SetInduction, Zenon
<1>8. Pos(b, hs, m) = hs[m]
  BY <1>2 DEF Pos
<1> QED BY <1>2, <1>7, <1>8

\* What was checked binds what is downloaded again.
LEMMA Binds ==
  ASSUME NEW s, SyncOK(s), s.phase = "REDOWNLOAD",
         NEW checked, checked = IF s.next = 1 THEN s.start ELSE s.commitments[s.next - 1].hash
  PROVE  /\ Height[s.tip] >= nMinimumChainWork
         /\ checked \in Anc[s.tip] \cap Anc[s.prev]
         /\ s.next <= Len(s.commitments) => Height[s.prev] - Height[checked] < COMMITMENT_PERIOD
<1> DEFINE cs == s.commitments
           n == Len(cs)
           P == COMMITMENT_PERIOD
<1>1. /\ s.start \in Blocks /\ s.tip \in Blocks /\ s.prev \in Blocks
      /\ s.start \in Anc[s.tip] /\ s.start \in Anc[s.prev] /\ Height[s.tip] >= nMinimumChainWork
      /\ cs \in Seq(Commitments) /\ s.next \in 1..(n + 1)
  BY Zenon DEF SyncOK, SyncStates, Complete, CheckedUpTo
<1>2. /\ \A k \in 1..n : cs[k].hash \in Anc[s.tip] /\ cs[k].height = Height[cs[k].hash] /\ cs[k].height > Height[s.start]
      /\ \A k \in 1..n : \A j \in 1..(k - 1) : cs[j].height < cs[k].height
      /\ \A h \in (Height[s.start] + 1)..Height[s.tip] : h % P = 0 => \E k \in 1..n : cs[k].height = h
      /\ \A k \in 1..(s.next - 1) : cs[k].hash \in Anc[s.prev]
      /\ \A k \in s.next..n : cs[k].height > Height[s.prev]
  BY Zenon DEF SyncOK, Complete, CheckedUpTo
<1>3. n \in Nat
  BY <1>1
<1>4. Height[s.start] \in Nat /\ Height[s.tip] \in Nat /\ Height[s.prev] \in Nat /\ P \in Nat \ {0}
  BY <1>1, HeightFacts, HeadersAssumption, Zenon
<1> HIDE DEF cs, P
<1>5. checked \in Anc[s.tip] \cap Anc[s.prev] /\ Height[checked] \in Nat /\ Height[checked] >= Height[s.start]
      /\ (s.next # 1 => s.next - 1 \in 1..n /\ Height[checked] = cs[s.next - 1].height)
  <2>1. CASE s.next = 1
    BY <1>1, <1>4, <2>1
  <2>2. CASE s.next # 1
    <3>1. s.next - 1 \in 1..n /\ s.next - 1 \in 1..(s.next - 1)
      BY <1>1, <1>3, <2>2
    <3>2. checked = cs[s.next - 1].hash
      BY <2>2, Zenon DEF cs
    <3>3. checked \in Anc[s.tip] \cap Anc[s.prev] /\ cs[s.next - 1].height = Height[checked] /\ Height[checked] > Height[s.start]
      BY <1>2, <3>1, <3>2
    <3>4. Height[checked] \in Nat
      BY <1>1, <3>3, AncFacts, HeightFacts, Zenon
    <3>5. Height[checked] >= Height[s.start]
      BY <1>4, <3>3, <3>4
    <3> QED BY <3>1, <3>3, <3>4, <3>5, Zenon
  <2> QED BY <2>1, <2>2, Zenon
<1>6. ASSUME s.next <= n, ~(Height[s.prev] - Height[checked] < P) PROVE FALSE
  <2>1. PICK m \in (Height[checked] + 1)..(Height[checked] + P) : m % P = 0
    BY <1>4, <1>5, MultipleInPeriod, Zenon
  <2>2. s.next \in 1..n /\ s.next \in s.next..n
    BY <1>1, <1>3, <1>6
  <2>3. cs[s.next].height > Height[s.prev] /\ cs[s.next].height <= Height[s.tip] /\ cs[s.next].height \in Nat
    <3>1. cs[s.next].hash \in Anc[s.tip] /\ cs[s.next].height = Height[cs[s.next].hash]
      BY <1>2, <2>2, Zenon
    <3>2. Height[cs[s.next].hash] <= Height[s.tip] /\ Height[cs[s.next].hash] \in Nat
      BY <1>1, <3>1, LineFacts, AncFacts, HeightFacts, Zenon
    <3> QED BY <1>2, <2>2, <3>1, <3>2, Zenon
  <2>4. m <= Height[s.prev] /\ m \in (Height[s.start] + 1)..Height[s.tip]
    <3> DEFINE hp == Height[s.prev]
               hc == Height[checked]
               hs == Height[s.start]
               ht == Height[s.tip]
               hn == cs[s.next].height
    <3>1. hp \in Nat /\ hc \in Nat /\ hs \in Nat /\ ht \in Nat /\ hn \in Nat /\ P \in Nat
      BY <1>4, <1>5, <2>3, Zenon
    <3>2. hc >= hs /\ hn > hp /\ hn <= ht /\ ~(hp - hc < P) /\ m \in (hc + 1)..(hc + P)
      BY <1>5, <1>6, <2>1, <2>3, Zenon
    <3>3. m <= hp /\ m \in (hs + 1)..ht
      <4> HIDE DEF hp, hc, hs, ht, hn
      <4> QED BY <3>1, <3>2
    <3> QED BY <3>3, Zenon
  <2>5. PICK k \in 1..n : cs[k].height = m
    BY <1>2, <2>1, <2>4, Zenon
  <2>6. CASE k >= s.next
    <3>1. k \in s.next..n
      BY <1>3, <2>2, <2>6
    <3>2. cs[k].height > Height[s.prev]
      BY <1>2, <3>1, Zenon
    <3> QED BY <1>4, <2>4, <2>5, <3>2
  <2>7. CASE k < s.next
    <3>1. s.next # 1 /\ (k = s.next - 1 \/ k \in 1..((s.next - 1) - 1))
      BY <1>3, <2>2, <2>7
    <3>2. s.next - 1 \in 1..n /\ Height[checked] = cs[s.next - 1].height
      BY <1>5, <3>1, Zenon
    <3> DEFINE hc == Height[checked]
    <3>3. m = hc \/ m < hc
      <4>1. CASE k = s.next - 1
        BY <2>5, <3>2, <4>1, Zenon
      <4>2. CASE k \in 1..((s.next - 1) - 1)
        BY <1>2, <2>5, <3>2, <4>2, Zenon
      <4> QED BY <3>1, <4>1, <4>2, Zenon
    <3>4. hc \in Nat /\ P \in Nat /\ m \in (hc + 1)..(hc + P)
      BY <1>4, <1>5, <2>1, Zenon
    <3> HIDE DEF hc
    <3> QED BY <3>3, <3>4
  <2> QED BY <1>3, <2>2, <2>6, <2>7
<1> QED BY <1>1, <1>5, <1>6, Zenon DEF cs, P

-----------------------------------------------------------------------------
(* What the peers send. *)

\* Of some ancestors of a block one is highest.
LEMMA HighestFacts ==
  ASSUME NEW b \in Blocks, NEW S \in SUBSET Anc[b], S # {}
  PROVE  Highest(S) \in S
<1> DEFINE T == {Height[b] - Height[c] : c \in S}
<1>1. \A c \in S : c \in Blocks /\ Height[c] \in Nat /\ Height[c] <= Height[b] /\ Height[b] \in Nat
  BY AncFacts, LineFacts, HeightFacts, Zenon
<1>2. T \in SUBSET Nat /\ T # {}
  BY <1>1
<1>3. PICK n \in T : \A m \in T : n <= m
  <2> HIDE DEF T
  <2> QED BY <1>2, LeastNat, Zenon
<1>4. PICK c \in S : n = Height[b] - Height[c]
  BY <1>3, Zenon
<1>5. \A d \in S : Height[d] <= Height[c]
  <2> SUFFICES ASSUME NEW d \in S PROVE Height[d] <= Height[c]
    BY Zenon
  <2>1. Height[b] - Height[c] <= Height[b] - Height[d]
    BY <1>3, <1>4, Zenon
  <2> QED BY <1>1, <2>1
<1> QED BY <1>5, Zenon DEF Highest

\* An answer to getheaders is a piece of the peer's chain.
LEMMA AfterFacts ==
  ASSUME NEW p \in Peers, tip[p] \in Blocks, NEW b \in Anc[tip[p]]
  PROVE  After(p, b) \in Linked
<1> DEFINE t == tip[p]
           n == Height[t] - Height[b]
           k == IF n < MAX_HEADERS_RESULTS THEN n ELSE MAX_HEADERS_RESULTS
           hs == [i \in 1..k |-> GetAncestor(t, Height[b] + i)]
<1>1. /\ t \in Blocks /\ b \in Blocks /\ Height[b] <= Height[t]
      /\ Height[b] \in Nat /\ Height[t] \in Nat /\ Height[b] >= RootHeight /\ RootHeight \in Nat
  BY AncFacts, LineFacts, HeightFacts, TreeAssumption, Zenon
<1>2. k \in Nat /\ Height[b] + k <= Height[t]
  BY <1>1, HeadersAssumption
<1> HIDE DEF k, t
<1>3. ASSUME NEW i \in 1..k
      PROVE  hs[i] \in Blocks \ {Root} /\ (i # 1 => Parent[hs[i]] = hs[i - 1])
  <2>1. Height[b] + i \in (RootHeight + 1)..Height[t] /\ (Height[b] + i) - 1 = Height[b] + (i - 1)
    BY <1>1, <1>2
  <2>2. /\ GetAncestor(t, Height[b] + i) \in Blocks \ {Root}
        /\ Parent[GetAncestor(t, Height[b] + i)] = GetAncestor(t, Height[b] + (i - 1))
    BY <1>1, <2>1, AncestorFacts
  <2>3. i # 1 => i - 1 \in 1..k
    BY <1>2
  <2> QED BY <2>2, <2>3, Zenon
<1>4. Len(hs) = k /\ hs \in Seq(Blocks \ {Root})
  <2> DEFINE B == Blocks \ {Root}
  <2>1. hs \in [1..k -> B]
    BY <1>3, Zenon
  <2> HIDE DEF B, hs
  <2>2. hs \in Seq(B) /\ Len(hs) = k
    BY <1>2, <2>1
  <2> QED BY <2>2, Zenon DEF B
<1>5. hs \in Linked
  <2>1. \A i \in 2..k : i \in 1..k /\ i # 1
    BY <1>2
  <2> HIDE DEF hs
  <2> QED BY <1>3, <1>4, <2>1, Zenon DEF Linked
<1> QED BY <1>5, Zenon DEF After, k, t

\* The headers that are accepted are a prefix of the message.
LEMMA ValidFacts ==
  ASSUME NEW hs \in Linked, Valid(hs) # <<>>
  PROVE  Valid(hs)[Len(Valid(hs))] \in Blocks
<1> DEFINE m == Len(hs)
           B == Blocks \ {Root}
           Ok(i) == Anc[hs[i]] \cap Invalid = {}
           Good(n) == (\A i \in 1..n : Ok(i)) /\ (n < m => ~Ok(n + 1))
           T == {n \in 0..m : n < m => ~Ok(n + 1)}
<1>1. hs \in Seq(B) /\ m \in Nat
  BY DEF Linked
<1>2. \E n \in 0..m : Good(n)
  <2>1. T \in SUBSET Nat /\ m \in T
    BY <1>1
  <2>2. PICK n \in T : \A j \in T : n <= j
    <3> HIDE DEF T
    <3> QED BY <2>1, LeastNat, Zenon
  <2>3. ASSUME NEW i \in 1..n PROVE Ok(i)
    <3>1. i - 1 \in 0..m /\ i - 1 < m /\ ~(n <= i - 1) /\ (i - 1) + 1 = i
      BY <1>1, <2>2
    <3>2. i - 1 \notin T
      BY <2>2, <3>1, Zenon
    <3> HIDE DEF Ok
    <3> QED BY <3>1, <3>2, Zenon
  <2> QED BY <2>2, <2>3, Zenon
<1>3. PICK n \in 0..m : Valid(hs) = SubSeq(hs, 1, n)
  <2>1. Valid(hs) = SubSeq(hs, 1, CHOOSE n \in 0..m : Good(n))
    BY Zenon DEF Valid
  <2>2. (CHOOSE n \in 0..m : Good(n)) \in 0..m
    <3> HIDE DEF Good, m
    <3> QED BY <1>2, Zenon
  <2> HIDE DEF Good
  <2> QED BY <2>1, <2>2, Zenon
<1>4. n # 0 /\ Len(SubSeq(hs, 1, n)) = n /\ SubSeq(hs, 1, n)[n] = hs[n] /\ hs[n] \in B
  <2> HIDE DEF B
  <2> QED BY <1>1, <1>3
<1> QED BY <1>3, <1>4, Zenon

-----------------------------------------------------------------------------
(* The headers message. *)

Requests(p) == toPeer' = toPeer \/ \E L \in Locators : Request(p, L)
KeepsSync(p) == sync' = sync \/ \E t : (t = None \/ SyncOK(t)) /\ sync' = [sync EXCEPT ![p] = t]
KeepsSlots(p) == UNCHANGED <<nSyncStarted, fSyncStarted>> \/ StopSync(p)

Effect(p) == pindexBestHeader' \in Blocks /\ Requests(p) /\ KeepsSync(p) /\ KeepsSlots(p)

\* A block locator.
LEMMA LocatorFacts ==
  ASSUME NEW b \in Blocks
  PROVE  GetLocator(b) \in Locators /\ \A c \in Blocks : {c} \cup GetLocator(b) \in Locators
<1>1. Anc[b] \subseteq Blocks /\ Root \in Anc[b]
  BY AncFacts, Zenon
<1> QED BY <1>1, Zenon DEF GetLocator, Locators

\* The best header after some headers have been accepted.
LEMMA AcceptFacts ==
  ASSUME pindexBestHeader \in Blocks, NEW p, NEW hs \in Linked, Accept(p, Valid(hs))
  PROVE  pindexBestHeader' \in Blocks
BY ValidFacts, Zenon DEF Accept

\* The end of a message that is not the last of a sync.
LEMMA MessageEnds ==
  ASSUME NEW hs \in Linked, hs # <<>>
  PROVE  /\ hs[1] \in Blocks \ {Root} /\ Parent[hs[1]] \in Blocks /\ Len(hs) \in Nat \ {0}
         /\ hs[Len(hs)] \in Blocks
         /\ Height[hs[Len(hs)]] = Height[Parent[hs[1]]] + Len(hs)
         /\ Parent[hs[1]] \in Anc[hs[Len(hs)]]
<1> DEFINE B == Blocks \ {Root}
           m == Len(hs)
           b == Parent[hs[1]]
           S == {i \in Nat : i <= m => b \in Anc[Pos(b, hs, i)]}
<1>1. hs[1] \in Blocks \ {Root}
  <2>1. hs \in Seq(B)
    BY Zenon DEF Linked
  <2>2. hs[1] \in B
    <3> HIDE DEF B
    <3> QED BY <2>1
  <2> QED BY <2>2, Zenon
<1>2. b \in Blocks
  BY <1>1, TreeAssumption, Zenon
<1>3. /\ m \in Nat /\ m >= 1
      /\ \A i \in Nat : i + 1 <= m => hs[i + 1] \in Blocks \ {Root} /\ Parent[hs[i + 1]] = Pos(b, hs, i)
      /\ \A i \in Nat : i <= m => Pos(b, hs, i) \in Blocks /\ Height[Pos(b, hs, i)] = Height[b] + i
  BY <1>2, LinkedFacts, Zenon
<1>4. Pos(b, hs, m) = hs[m] /\ m # 0 /\ m <= m
  BY <1>3 DEF Pos
<1>5. 0 \in S
  BY <1>2, AncFacts, Zenon DEF Pos
<1>6. ASSUME NEW i \in Nat, i \in S PROVE i + 1 \in S
  <2> SUFFICES ASSUME i + 1 <= m PROVE b \in Anc[Pos(b, hs, i + 1)]
    OBVIOUS
  <2>1. i <= m /\ Pos(b, hs, i + 1) = hs[i + 1]
    BY <1>3 DEF Pos
  <2>2. b \in Anc[Pos(b, hs, i)]
    BY <1>6, <2>1, Zenon
  <2> QED BY <1>3, <2>1, <2>2, TreeAssumption
<1>7. Nat \subseteq S
  <2> HIDE DEF S
  <2> QED BY <1>5, <1>6, SetInduction, Zenon
<1> QED BY <1>1, <1>2, <1>3, <1>4, <1>7, Zenon

\* Without an active sync.
LEMMA PlainMessage ==
  ASSUME ChannelsOK, NEW p \in Peers, NEW hs \in Linked, hs # <<>>,
         Unconnecting(p, hs) \/ StartPresync(p, hs) \/ AcceptHeaders(p, hs)
  PROVE  Effect(p)
<1>1. CASE Unconnecting(p, hs)
  <2>1. GetLocator(pindexBestHeader) \in Locators
    BY LocatorFacts, Zenon DEF ChannelsOK
  <2> QED BY <1>1, <2>1, Zenon DEF Unconnecting, Effect, Requests, KeepsSync, KeepsSlots, nodeVars, ChannelsOK
<1>2. CASE StartPresync(p, hs)
  <2> DEFINE b == Parent[hs[1]]
             t == [phase |-> "PRESYNC", start |-> b, tip |-> b, height |-> Height[b],
                   work |-> Height[b], commitments |-> <<>>,
                   prev |-> b, redownloaded |-> Height[b], next |-> 1]
  <2>1. b \in Blocks /\ Height[b] \in Nat /\ b \in Anc[b] /\ GetLocator(b) \in Locators
    BY MessageEnds, HeightFacts, AncFacts, LocatorFacts, Zenon
  <2>2. sync' = [sync EXCEPT ![p] = t] /\ Request(p, GetLocator(b))
    BY <1>2, Zenon DEF StartPresync
  <2> HIDE DEF b
  <2>3. SyncOK(t)
    <3>1. t \in SyncStates
      BY <2>1 DEF SyncStates
    <3>2. Complete(<<>>, b, b)
      BY <2>1 DEF Complete
    <3>3. CheckedUpTo(<<>>, 1, b)
      BY DEF CheckedUpTo
    <3> QED BY <2>1, <3>1, <3>2, <3>3, Zenon DEF SyncOK
  <2> HIDE DEF t
  <2> QED BY <1>2, <2>1, <2>2, <2>3, Zenon DEF StartPresync, Effect, Requests, KeepsSync, KeepsSlots, nodeVars, ChannelsOK
<1>3. CASE AcceptHeaders(p, hs)
  <2>1. pindexBestHeader' \in Blocks
    BY <1>3, AcceptFacts, Zenon DEF AcceptHeaders, ChannelsOK
  <2>2. GetLocator(hs[Len(hs)]) \in Locators
    BY MessageEnds, LocatorFacts, Zenon
  <2>3. Requests(p)
    BY <1>3, <2>2, Zenon DEF AcceptHeaders, Requests
  <2> QED BY <1>3, <2>1, <2>3, Zenon DEF AcceptHeaders, Effect, KeepsSync, KeepsSlots
<1> QED BY <1>1, <1>2, <1>3, Zenon

\* Before the second download no commitment is checked.
LEMMA CheckedNone ==
  ASSUME NEW cs, NEW ds, NEW start \in Blocks, NEW b \in Blocks, NEW c \in Blocks,
         Complete(cs, start, b), Complete(ds, start, c), NEW next, CheckedUpTo(cs, next, start)
  PROVE  next = 1 /\ CheckedUpTo(ds, 1, start)
<1>1. Len(cs) \in Nat /\ next \in 1..(Len(cs) + 1) /\ Len(ds) \in Nat /\ Height[start] \in Nat
  BY HeightFacts DEF Complete, CheckedUpTo
<1>2. ASSUME next # 1 PROVE FALSE
  <2>1. 1 \in 1..(next - 1) /\ 1 \in 1..Len(cs)
    BY <1>1, <1>2
  <2>2. cs[1].hash \in Anc[start] /\ cs[1].height = Height[cs[1].hash] /\ cs[1].height > Height[start]
    BY <2>1, Zenon DEF Complete, CheckedUpTo
  <2>3. Height[cs[1].hash] <= Height[start] /\ Height[cs[1].hash] \in Nat
    BY <2>2, LineFacts, AncFacts, HeightFacts
  <2> QED BY <1>1, <2>2, <2>3
<1>3. CheckedUpTo(ds, 1, start)
  BY <1>1 DEF Complete, CheckedUpTo
<1> QED BY <1>2, <1>3, Zenon

\* In the phase PRESYNC.
LEMMA PresyncMessage ==
  ASSUME ChannelsOK, NEW p \in Peers, SyncOK(sync[p]), NEW hs \in Linked, hs # <<>>, Presync(p, hs)
  PROVE  Effect(p)
<1> DEFINE s == sync[p]
           n == Len(hs)
           cs == Committed(s.commitments, s.height, hs)[n]
           t == [s EXCEPT !.tip = hs[n], !.height = @ + n, !.work = @ + n, !.commitments = cs]
<1>1. CASE Fail(p, "not continuous") \/ Fail(p, None)
  BY <1>1, Zenon DEF Fail, Effect, Requests, KeepsSync, KeepsSlots, nodeVars, ChannelsOK
<1>2. CASE ~(Fail(p, "not continuous") \/ Fail(p, None))
  <2>1. /\ s.phase = "PRESYNC" /\ Parent[hs[1]] = s.tip
        /\ \/ /\ t.work >= nMinimumChainWork
              /\ sync' = [sync EXCEPT ![p] = [t EXCEPT !.phase = "REDOWNLOAD"]]
              /\ RequestAfter(p, t.start, index)
           \/ /\ sync' = [sync EXCEPT ![p] = t]
              /\ Request(p, {t.tip} \cup GetLocator(s.start))
        /\ UNCHANGED <<pindexBestHeader, nSyncStarted, fSyncStarted>>
    <3>1. /\ s.phase = "PRESYNC" /\ Parent[hs[1]] = s.tip
          /\ \/ /\ t.work >= nMinimumChainWork
                /\ sync' = [sync EXCEPT ![p] = [t EXCEPT !.phase = "REDOWNLOAD"]]
                /\ RequestAfter(p, RedownloadFrom(t), index)
             \/ /\ sync' = [sync EXCEPT ![p] = t]
                /\ Request(p, {t.tip} \cup GetLocator(s.start))
          /\ UNCHANGED <<nodeVars, nSyncStarted, fSyncStarted>>
      BY <1>2, Zenon DEF Presync
    <3> HIDE DEF t
    <3> QED BY <3>1, Zenon DEF nodeVars, RedownloadFrom
  <2>2. /\ s \in SyncStates /\ s.start \in Blocks /\ s.tip \in Blocks
        /\ s.height = Height[s.tip] /\ s.work = Height[s.tip] /\ s.prev = s.start /\ s.start \in Anc[s.prev]
        /\ s.redownloaded = Height[s.prev] /\ s.next \in Nat
        /\ Complete(s.commitments, s.start, s.tip) /\ CheckedUpTo(s.commitments, s.next, s.prev)
    BY <2>1, Zenon DEF SyncOK, SyncStates
  <2>3. /\ hs[n] \in Blocks /\ n \in Nat /\ Height[hs[n]] = Height[s.tip] + n /\ Height[s.tip] \in Nat
        /\ Height[hs[n]] \in Nat
    BY <2>1, <2>2, MessageEnds, HeightFacts, Zenon
  <2>4. Complete(cs, s.start, hs[n])
    BY <2>1, <2>2, CommittedFacts, Zenon
  <2>5. CheckedUpTo(cs, s.next, s.prev)
    BY <2>2, <2>3, <2>4, CheckedNone
  <2>6. t \in SyncStates /\ [t EXCEPT !.phase = "REDOWNLOAD"] \in SyncStates
    <3>1. cs \in Seq(Commitments)
      BY <2>4, Zenon DEF Complete
    <3> HIDE DEF cs
    <3> QED BY <2>2, <2>3, <3>1, Zenon DEF SyncStates
  <2>7. /\ t.start = s.start /\ t.tip = hs[n] /\ t.height = Height[hs[n]] /\ t.work = Height[hs[n]]
        /\ t.commitments = cs /\ t.prev = s.prev /\ t.redownloaded = s.redownloaded /\ t.next = s.next
        /\ t.phase = "PRESYNC"
    BY <2>1, <2>2, <2>3, Zenon DEF SyncStates
  <2> DEFINE u == [t EXCEPT !.phase = "REDOWNLOAD"]
  <2>8. /\ u.start = s.start /\ u.tip = hs[n] /\ u.height = Height[hs[n]] /\ u.work = t.work
        /\ u.commitments = cs /\ u.prev = s.prev /\ u.redownloaded = s.redownloaded /\ u.next = s.next
        /\ u.phase = "REDOWNLOAD"
    BY <2>6, <2>7, Zenon DEF SyncStates
  <2> HIDE DEF t, cs, n, s
  <2>9. SyncOK(t)
    BY <2>2, <2>4, <2>5, <2>6, <2>7, Zenon DEF SyncOK
  <2> HIDE DEF u
  <2>10. t.work >= nMinimumChainWork => SyncOK(u)
    BY <2>2, <2>4, <2>5, <2>6, <2>7, <2>8, Zenon DEF SyncOK, u
  <2>11. KeepsSync(p)
    BY <2>1, <2>9, <2>10, Zenon DEF KeepsSync, u
  <2>12. Requests(p)
    <3>1. GetLocator(t.start) \in Locators /\ {t.tip} \cup GetLocator(s.start) \in Locators
      BY <2>2, <2>3, <2>7, LocatorFacts, Zenon
    <3> QED BY <2>1, <3>1, Zenon DEF Requests, RequestAfter
  <2> QED BY <2>1, <2>11, <2>12, Zenon DEF Effect, KeepsSlots, ChannelsOK
<1> QED BY <1>1, <1>2, Zenon

\* The index of the next commitment is a number.
LEMMA NextIsNat ==
  ASSUME NEW cs \in Seq(Commitments), NEW next, NEW prev, CheckedUpTo(cs, next, prev)
  PROVE  next \in Nat
<1>1. Len(cs) \in Nat /\ next \in 1..(Len(cs) + 1)
  BY DEF CheckedUpTo
<1> QED BY <1>1

\* In the phase REDOWNLOAD.
LEMMA RedownloadMessage ==
  ASSUME ChannelsOK, NEW p \in Peers, SyncOK(sync[p]), NEW hs \in Linked, hs # <<>>,
         Redownload(p, hs)
  PROVE  Effect(p)
<1> DEFINE s == sync[p]
           n == Len(hs)
           t == [s EXCEPT !.prev = hs[n], !.redownloaded = @ + n, !.next = Passed(s, hs)[n]]
<1>1. CASE Fail(p, "not continuous") \/ Fail(p, "commitment")
  BY <1>1, Zenon DEF Fail, Effect, Requests, KeepsSync, KeepsSlots, nodeVars, ChannelsOK
<1>2. CASE ~(Fail(p, "not continuous") \/ Fail(p, "commitment"))
  <2>1. /\ s.phase = "REDOWNLOAD" /\ Parent[hs[1]] = s.prev /\ ~Mismatch(s, hs)
        /\ Accept(p, Valid(hs))
        /\ sync' = [sync EXCEPT ![p] = t] \/ sync' = [sync EXCEPT ![p] = None]
        /\ toPeer' = toPeer \/ RequestAfter(p, t.prev, index')
        /\ UNCHANGED <<nSyncStarted, fSyncStarted>> \/ StopSync(p)
    BY <1>2, Zenon DEF Redownload
  <2>2. /\ s \in SyncStates /\ s.start \in Blocks /\ s.tip \in Blocks /\ s.prev \in Blocks
        /\ s.height = Height[s.tip] /\ s.work = Height[s.tip] /\ s.start \in Anc[s.prev]
        /\ s.redownloaded = Height[s.prev] /\ s.work >= nMinimumChainWork
        /\ Complete(s.commitments, s.start, s.tip)
    BY <2>1, Zenon DEF SyncOK, SyncStates
  <2>3. /\ hs[n] \in Blocks /\ n \in Nat /\ Height[hs[n]] = Height[s.prev] + n
        /\ Height[hs[n]] \in Nat /\ s.prev \in Anc[hs[n]]
    BY <2>1, <2>2, MessageEnds, HeightFacts, Zenon
  <2>4. s.start \in Anc[hs[n]]
    BY <2>2, <2>3, LineFacts, AncFacts
  <2>5. CheckedUpTo(s.commitments, Passed(s, hs)[n], hs[n])
    BY <2>1, PassedFacts, Zenon
  <2>6. Passed(s, hs)[n] \in Nat
    BY <2>2, <2>5, NextIsNat, Zenon DEF Complete
  <2>7. t \in SyncStates
    BY <2>2, <2>3, <2>6, Zenon DEF SyncStates
  <2>8. /\ t.start = s.start /\ t.tip = s.tip /\ t.height = s.height /\ t.work = s.work
        /\ t.commitments = s.commitments /\ t.prev = hs[n] /\ t.redownloaded = Height[hs[n]]
        /\ t.next = Passed(s, hs)[n] /\ t.phase = "REDOWNLOAD"
    BY <2>1, <2>2, <2>3, Zenon DEF SyncStates
  <2> HIDE DEF t, n, s
  <2>9. SyncOK(t)
    BY <2>2, <2>4, <2>5, <2>7, <2>8, Zenon DEF SyncOK
  <2>10. GetLocator(t.prev) \in Locators
    BY <2>3, <2>8, LocatorFacts, Zenon
  <2>11. pindexBestHeader' \in Blocks
    BY <2>1, AcceptFacts, Zenon DEF ChannelsOK
  <2>12. KeepsSync(p) /\ Requests(p) /\ KeepsSlots(p)
    BY <2>1, <2>9, <2>10, Zenon DEF KeepsSync, Requests, KeepsSlots, RequestAfter
  <2> QED BY <2>11, <2>12, Zenon DEF Effect
<1> QED BY <1>1, <1>2, Zenon

\* The message at the head of a queue.
LEMMA HeadMessage ==
  ASSUME ChannelsOK, NEW p \in Peers, Take(p)
  PROVE  /\ Message(p).what \in Linked
         /\ fromPeer' \in [Peers -> Seq(Messages)]
<1>1. fromPeer[p] \in Seq(Messages) /\ fromPeer[p] # <<>>
  BY Zenon DEF ChannelsOK, Take
<1>2. Head(fromPeer[p]) \in Messages /\ Tail(fromPeer[p]) \in Seq(Messages)
  <2> HIDE DEF Messages
  <2> QED BY <1>1
<1>3. fromPeer' = [fromPeer EXCEPT ![p] = Tail(fromPeer[p])]
  BY Zenon DEF Take
<1> QED BY <1>2, <1>3, Zenon DEF ChannelsOK, Messages, Message

\* The handler of the headers message.
LEMMA MessageFacts ==
  ASSUME ChannelsOK, SyncsOK, NEW p \in Peers, ProcessHeadersMessage(p)
  PROVE  Effect(p) /\ tip' = tip /\ fromPeer' \in [Peers -> Seq(Messages)]
<1> DEFINE hs == Message(p).what
<1>1. hs \in Linked /\ fromPeer' \in [Peers -> Seq(Messages)] /\ tip' = tip
  BY HeadMessage, Zenon DEF ProcessHeadersMessage, peerVars
<1>2. \/ hs = <<>> /\ UNCHANGED <<nodeVars, nSyncStarted, fSyncStarted, sync, toPeer>>
      \/ hs # <<>> /\ sync[p] # None /\ (Presync(p, hs) \/ Redownload(p, hs))
      \/ hs # <<>> /\ (Unconnecting(p, hs) \/ StartPresync(p, hs) \/ AcceptHeaders(p, hs))
  BY Zenon DEF ProcessHeadersMessage
<1> HIDE DEF hs
<1>3. CASE hs = <<>> /\ UNCHANGED <<nodeVars, nSyncStarted, fSyncStarted, sync, toPeer>>
  BY <1>1, <1>3, Zenon DEF Effect, Requests, KeepsSync, KeepsSlots, nodeVars, ChannelsOK
<1>4. CASE hs # <<>> /\ sync[p] # None /\ (Presync(p, hs) \/ Redownload(p, hs))
  <2>1. SyncOK(sync[p])
    BY <1>4, Zenon DEF SyncsOK
  <2> QED BY <1>1, <1>4, <2>1, PresyncMessage, RedownloadMessage, Zenon
<1>5. CASE hs # <<>> /\ (Unconnecting(p, hs) \/ StartPresync(p, hs) \/ AcceptHeaders(p, hs))
  BY <1>1, <1>5, PlainMessage, Zenon
<1> QED BY <1>2, <1>3, <1>4, <1>5, Zenon

-----------------------------------------------------------------------------
(* The steps. *)

\* A step puts at most one request on the way to a peer.
LEMMA RequestKeeps ==
  ASSUME ChannelsOK, NEW p \in Peers, Requests(p)
  PROVE  toPeer' \in [Peers -> Seq(Locators)]
<1>1. ASSUME NEW L \in Locators PROVE Append(toPeer[p], L) \in Seq(Locators)
  <2> HIDE DEF Locators
  <2> QED BY <1>1 DEF ChannelsOK
<1> HIDE DEF Locators
<1> QED BY <1>1, Zenon DEF ChannelsOK, Requests, Request

\* A headers or an inv message is put on the way to us.
LEMMA SendKeeps ==
  ASSUME ChannelsOK, NEW p \in Peers, NEW hs \in Linked, NEW type \in {"headers", "inv"},
         fromPeer' = [fromPeer EXCEPT ![p] = Append(@, [type |-> type, what |-> hs])]
  PROVE  fromPeer' \in [Peers -> Seq(Messages)]
<1> DEFINE m == [type |-> type, what |-> hs]
<1>1. m \in Messages
  BY Zenon DEF Messages
<1>2. fromPeer[p] \in Seq(Messages) /\ fromPeer' = [fromPeer EXCEPT ![p] = Append(fromPeer[p], m)]
  BY Zenon DEF ChannelsOK
<1>3. Append(fromPeer[p], m) \in Seq(Messages)
  <2> HIDE DEF m, Messages
  <2> QED BY <1>1, <1>2
<1> QED BY <1>2, <1>3, Zenon DEF ChannelsOK

\* Every step keeps what is on its way between us and the peers.
LEMMA ChannelsStep ==
  ASSUME ChannelsOK, SyncsOK, [Next]_vars
  PROVE  ChannelsOK'
<1>1. CASE UNCHANGED vars \/ LeaveIBD
  BY <1>1, Zenon DEF ChannelsOK, vars, LeaveIBD, peerVars
<1>2. ASSUME NEW p \in Peers, NEW b \in Tips, NewTip(p, b) PROVE ChannelsOK'
  <2>1. b \in Blocks /\ tip[p] \in Blocks /\ Height[tip[p]] >= RootHeight /\ Height[tip[p]] \in Nat
    BY HeadersAssumption, HeightFacts, Zenon DEF ChannelsOK
  <2>2. b \in Blocks \ {Root}
    BY <1>2, <2>1, HeightFacts, TreeAssumption DEF NewTip
  <2>3. <<b>> \in Linked
    BY <2>2 DEF Linked
  <2>4. fromPeer' \in [Peers -> Seq(Messages)]
    BY <1>2, <2>3, SendKeeps, Zenon DEF NewTip
  <2> QED BY <1>2, <2>1, <2>4, Zenon DEF NewTip, ChannelsOK, nodeVars
<1>3. ASSUME NEW p \in Peers, Answer(p) PROVE ChannelsOK'
  <2>1. /\ toPeer[p] \in Seq(Locators) /\ toPeer[p] # <<>> /\ tip[p] \in Blocks
        /\ toPeer' = [toPeer EXCEPT ![p] = Tail(toPeer[p])]
    BY <1>3, Zenon DEF Answer, ChannelsOK
  <2>2. Head(toPeer[p]) \in Locators /\ Tail(toPeer[p]) \in Seq(Locators)
    <3> HIDE DEF Locators
    <3> QED BY <2>1
  <2> DEFINE L == Head(toPeer[p]) \cap Anc[tip[p]]
  <2>3. L \in SUBSET Anc[tip[p]] /\ Root \in L
    BY <2>1, <2>2, AncFacts, Zenon DEF Locators
  <2>4. After(p, Highest(L)) \in Linked
    BY <2>1, <2>3, HighestFacts, AfterFacts, Zenon
  <2>5. fromPeer' = [fromPeer EXCEPT ![p] =
                       Append(@, [type |-> "headers", what |-> After(p, Highest(L))])]
    BY <1>3, Zenon DEF Answer
  <2>6. fromPeer' \in [Peers -> Seq(Messages)]
    <3> HIDE DEF L
    <3> QED BY <2>4, <2>5, SendKeeps, Zenon
  <2>7. toPeer' \in [Peers -> Seq(Locators)]
    BY <2>1, <2>2, Zenon DEF ChannelsOK
  <2> QED BY <1>3, <2>6, <2>7, Zenon DEF Answer, ChannelsOK, nodeVars
<1>4. ASSUME NEW p \in Peers, SendMessages(p) PROVE ChannelsOK'
  <2> DEFINE b == IF pindexBestHeader = Root THEN Root ELSE Parent[pindexBestHeader]
  <2>1. b \in Blocks
    BY TreeAssumption, Zenon DEF ChannelsOK
  <2>2. StartSync(p, GetLocator(b)) /\ UNCHANGED <<nodeVars, peerVars, fromPeer>>
    BY <1>4, Zenon DEF SendMessages
  <2>3. Requests(p)
    BY <2>1, <2>2, LocatorFacts, Zenon DEF Requests, Request, StartSync
  <2> QED BY <2>2, <2>3, RequestKeeps, Zenon DEF ChannelsOK, nodeVars, peerVars
<1>5. ASSUME NEW p \in Peers, FinalizeNode(p) PROVE ChannelsOK'
  BY <1>5 DEF FinalizeNode, ChannelsOK, nodeVars
<1>6. ASSUME NEW p \in Peers, Reconnect(p) \/ Timeout(p) PROVE ChannelsOK'
  BY <1>6, Zenon DEF Reconnect, Timeout, ChannelsOK, nodeVars, peerVars
<1>7. ASSUME NEW p \in Peers, ProcessInv(p) PROVE ChannelsOK'
  <2>1. fromPeer' \in [Peers -> Seq(Messages)]
    BY <1>7, HeadMessage, Zenon DEF ProcessInv
  <2>2. GetLocator(pindexBestHeader) \in Locators
    BY LocatorFacts, Zenon DEF ChannelsOK
  <2>3. Requests(p)
    BY <1>7, <2>2, Zenon DEF ProcessInv, Requests, Request, StartSync
  <2> QED BY <1>7, <2>1, <2>3, RequestKeeps, Zenon DEF ProcessInv, ChannelsOK, nodeVars, peerVars
<1>8. ASSUME NEW p \in Peers, ProcessHeadersMessage(p) PROVE ChannelsOK'
  BY <1>8, MessageFacts, RequestKeeps, Zenon DEF Effect, ChannelsOK
<1> QED BY <1>1, <1>2, <1>3, <1>4, <1>5, <1>6, <1>7, <1>8, Zenon DEF Next

\* Every step keeps the states of the synchronisation.
LEMMA SyncsStep ==
  ASSUME ChannelsOK, SyncsOK, [Next]_vars
  PROVE  SyncsOK'
<1>1. ASSUME sync' = sync PROVE SyncsOK'
  BY <1>1, Zenon DEF SyncsOK
<1>2. ASSUME NEW p \in Peers, KeepsSync(p) PROVE SyncsOK'
  BY <1>1, <1>2, Zenon DEF SyncsOK, KeepsSync
<1>3. ASSUME NEW p \in Peers, FinalizeNode(p) \/ Timeout(p) PROVE SyncsOK'
  BY <1>3, <1>2, Zenon DEF FinalizeNode, Timeout, KeepsSync
<1>4. ASSUME NEW p \in Peers, ProcessHeadersMessage(p) PROVE SyncsOK'
  BY <1>4, <1>2, MessageFacts, Zenon DEF Effect
<1>5. CASE UNCHANGED vars \/ LeaveIBD
  BY <1>5, <1>1, Zenon DEF vars, LeaveIBD, syncVars
<1>6. ASSUME NEW p \in Peers,
             \/ \E b \in Tips : NewTip(p, b)
             \/ Answer(p) \/ SendMessages(p) \/ Reconnect(p) \/ ProcessInv(p)
      PROVE  SyncsOK'
  BY <1>6, <1>1, Zenon DEF NewTip, Answer, SendMessages, Reconnect, ProcessInv, syncVars
<1> QED BY <1>3, <1>4, <1>5, <1>6, Zenon DEF Next

\* Taking and giving back a slot.
LEMMA SlotFacts ==
  ASSUME SlotsOK, NEW p \in Peers,
         \/ fSyncStarted' = [fSyncStarted EXCEPT ![p] = TRUE] /\ nSyncStarted' = nSyncStarted + 1
         \/ StopSync(p)
  PROVE  SlotsOK'
<1> DEFINE S == {q \in Peers : fSyncStarted[q]}
           n == Cardinality(S)
<1>1. fSyncStarted \in [Peers -> BOOLEAN] /\ nSyncStarted \in Nat /\ nSyncStarted >= n
  BY Zenon DEF SlotsOK, SlotsCovered
<1>2. IsFiniteSet(S) /\ n \in Nat /\ (p \in S => n >= 1)
  <2>1. IsFiniteSet(S)
    BY HeadersAssumption, FS_Subset, Zenon
  <2>2. n \in Nat
    BY <2>1, FS_CardinalityType, Zenon
  <2>3. p \in S => n # 0
    BY <2>1, FS_EmptySet, Zenon
  <2> HIDE DEF n, S
  <2> QED BY <2>1, <2>2, <2>3
<1>3. CASE fSyncStarted' = [fSyncStarted EXCEPT ![p] = TRUE] /\ nSyncStarted' = nSyncStarted + 1
  <2>1. {q \in Peers : fSyncStarted'[q]} = S \cup {p}
    BY <1>1, <1>3, Zenon
  <2>2. Cardinality(S \cup {p}) = n \/ Cardinality(S \cup {p}) = n + 1
    <3> HIDE DEF S
    <3> QED BY <1>2, FS_AddElement, Zenon
  <2>3. nSyncStarted' >= Cardinality(S \cup {p})
    <3> HIDE DEF n, S
    <3> QED BY <1>1, <1>2, <1>3, <2>2
  <2>4. fSyncStarted' \in [Peers -> BOOLEAN] /\ nSyncStarted' \in Nat
    BY <1>1, <1>3
  <2> HIDE DEF S
  <2> QED BY <2>1, <2>3, <2>4, Zenon DEF SlotsOK, SlotsCovered
<1>4. CASE StopSync(p)
  <2>1. /\ fSyncStarted' = [fSyncStarted EXCEPT ![p] = FALSE]
        /\ nSyncStarted' = IF p \in S THEN nSyncStarted - 1 ELSE nSyncStarted
    BY <1>4, Zenon DEF StopSync
  <2>2. {q \in Peers : fSyncStarted'[q]} = S \ {p}
    BY <1>1, <2>1, Zenon
  <2>3. Cardinality(S \ {p}) = IF p \in S THEN n - 1 ELSE n
    <3> HIDE DEF S
    <3> QED BY <1>2, FS_RemoveElement, Zenon
  <2>4. nSyncStarted' \in Nat /\ nSyncStarted' >= Cardinality(S \ {p})
    <3> HIDE DEF n, S
    <3> QED BY <1>1, <1>2, <2>1, <2>3
  <2>5. fSyncStarted' \in [Peers -> BOOLEAN]
    BY <1>1, <2>1, Zenon
  <2> HIDE DEF S
  <2> QED BY <2>2, <2>4, <2>5, Zenon DEF SlotsOK, SlotsCovered
<1> QED BY <1>3, <1>4, Zenon

\* Every step keeps the slots.
LEMMA SlotsStep ==
  ASSUME ChannelsOK, SyncsOK, SlotsOK, [Next]_vars
  PROVE  SlotsOK'
<1>1. ASSUME UNCHANGED <<nSyncStarted, fSyncStarted>> PROVE SlotsOK'
  BY <1>1, Zenon DEF SlotsOK, SlotsCovered
<1>2. ASSUME NEW p \in Peers, StopSync(p) PROVE SlotsOK'
  BY <1>2, SlotFacts, Zenon
<1>3. ASSUME NEW p \in Peers, NEW L, StartSync(p, L) PROVE SlotsOK'
  BY <1>3, SlotFacts, Zenon DEF StartSync
<1>4. ASSUME NEW p \in Peers, FinalizeNode(p) \/ Timeout(p) PROVE SlotsOK'
  BY <1>4, <1>2, Zenon DEF FinalizeNode, Timeout
<1>5. ASSUME NEW p \in Peers, ProcessHeadersMessage(p) PROVE SlotsOK'
  BY <1>5, <1>1, <1>2, MessageFacts, Zenon DEF Effect, KeepsSlots
<1>6. ASSUME NEW p \in Peers, SendMessages(p) PROVE SlotsOK'
  BY <1>6, <1>3, Zenon DEF SendMessages
<1>7. ASSUME NEW p \in Peers, ProcessInv(p) PROVE SlotsOK'
  <2>1. UNCHANGED <<nSyncStarted, fSyncStarted>> \/ StartSync(p, GetLocator(pindexBestHeader))
    BY <1>7, Zenon DEF ProcessInv
  <2> QED BY <1>1, <1>3, <2>1, Zenon
<1>8. CASE UNCHANGED vars \/ LeaveIBD
  BY <1>8, <1>1, Zenon DEF vars, LeaveIBD, syncVars
<1>9. ASSUME NEW p \in Peers, (\E b \in Tips : NewTip(p, b)) \/ Answer(p) \/ Reconnect(p)
      PROVE  SlotsOK'
  BY <1>9, <1>1, Zenon DEF NewTip, Answer, Reconnect, syncVars
<1> QED BY <1>4, <1>5, <1>6, <1>7, <1>8, <1>9, Zenon DEF Next

-----------------------------------------------------------------------------
(* The theorems. *)

\* The initial states.
LEMMA HeadersInit ==
  ASSUME Init
  PROVE  ChannelsOK /\ SyncsOK /\ SlotsOK
<1>1. ChannelsOK
  BY HeadersAssumption, TreeAssumption DEF Init, ChannelsOK
<1>2. SyncsOK
  BY Zenon DEF Init, SyncsOK
<1>3. {p \in Peers : fSyncStarted[p]} = {}
  BY Zenon DEF Init
<1>4. Cardinality({p \in Peers : fSyncStarted[p]}) = 0
  BY <1>3, FS_EmptySet, Zenon
<1>5. nSyncStarted = 0 /\ fSyncStarted \in [Peers -> BOOLEAN]
  BY Zenon DEF Init
<1>6. SlotsCovered
  BY <1>4, <1>5 DEF SlotsCovered
<1>7. SlotsOK
  BY <1>5, <1>6, Zenon DEF SlotsOK
<1> QED BY <1>1, <1>2, <1>7, Zenon

\* What is on its way between us and a peer are locators of our chain and
\* headers that follow each other, and a HeadersSyncState holds, of the chain
\* that it has seen, exactly the commitments of ProcessNextHeaders, of which
\* those already passed are on the chain that is downloaded again.
THEOREM HeadersInvariant == Spec => [](ChannelsOK /\ SyncsOK /\ SlotsOK)
<1>1. Init => ChannelsOK /\ SyncsOK /\ SlotsOK
  BY HeadersInit, Zenon
<1>2. ChannelsOK /\ SyncsOK /\ SlotsOK /\ [Next]_vars => (ChannelsOK /\ SyncsOK /\ SlotsOK)'
  BY ChannelsStep, SyncsStep, SlotsStep, Zenon
<1> QED BY <1>1, <1>2, PTL DEF Spec

\* In the second download of headers (REDOWNLOAD of ProcessNextHeaders) the
\* chain agrees with the one that showed enough work up to the last commitment
\* that was checked, and fewer than a period of headers lie beyond it before
\* the next one: for every tree of headers, every period, any number of peers
\* and messages, and any reorganisation of the peers.
THEOREM CommitmentsBindThm == Spec => []CommitmentsBind
<1>1. SyncsOK => CommitmentsBind
  <2> SUFFICES ASSUME SyncsOK, NEW p \in Peers, sync[p] # None, sync[p].phase = "REDOWNLOAD"
               PROVE  LET s == sync[p]
                          checked == IF s.next = 1 THEN s.start ELSE s.commitments[s.next - 1].hash
                      IN  /\ Height[s.tip] >= nMinimumChainWork
                          /\ checked \in Anc[s.tip] \cap Anc[s.prev]
                          /\ s.next <= Len(s.commitments) =>
                                Height[s.prev] - Height[checked] < COMMITMENT_PERIOD
    BY Zenon DEF CommitmentsBind
  <2> DEFINE s == sync[p]
             checked == IF s.next = 1 THEN s.start ELSE s.commitments[s.next - 1].hash
  <2>1. SyncOK(s) /\ s.phase = "REDOWNLOAD"
    BY Zenon DEF SyncsOK
  <2>2. /\ Height[s.tip] >= nMinimumChainWork
        /\ checked \in Anc[s.tip] \cap Anc[s.prev]
        /\ s.next <= Len(s.commitments) => Height[s.prev] - Height[checked] < COMMITMENT_PERIOD
    <3> HIDE DEF s
    <3> QED BY <2>1, Binds, Zenon
  <2> QED BY <2>2, Zenon
<1> QED BY <1>1, HeadersInvariant, PTL

\* nSyncStarted never falls below the number of peers with fSyncStarted, however
\* failures, timeouts, announcements and lost connections fall (net_processing.cpp).
THEOREM SlotsCoveredThm == Spec => []SlotsCovered
<1>1. SlotsOK => SlotsCovered
  BY Zenon DEF SlotsOK
<1> QED BY <1>1, HeadersInvariant, PTL
=============================================================================
