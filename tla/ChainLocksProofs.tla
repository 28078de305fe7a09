--------------------------- MODULE ChainLocksProofs ---------------------------
(***************************************************************************)
(* Proofs about ChainLocks, for every block tree and every set of locks.   *)
(***************************************************************************)
EXTENDS ChainLocks, BlockTreeProofs

-----------------------------------------------------------------------------
(* ActivateBestChain. *)

Start == [line |-> Anc[tip], failed |-> failed]
RunBody(D, f, n) == IF n = 0 THEN {Start} ELSE UNION {ActivateBestChainStep(D, s) : s \in f[n - 1]}

\* The recursion of ActivateRun has a solution.
LEMMA RunExists ==
  ASSUME NEW D, NEW m \in Nat
  PROVE  \E f : f = [n \in 0..m |-> RunBody(D, f, n)]
<1> DEFINE S == {k \in Nat : \E f : f = [n \in 0..k |-> RunBody(D, f, n)]}
<1>1. 0 \in S
  <2> DEFINE f == [n \in 0..0 |-> {Start}]
  <2>1. f = [n \in 0..0 |-> RunBody(D, f, n)]
    BY DEF RunBody
  <2> QED BY <2>1, Zenon
<1>2. ASSUME NEW k \in Nat, k \in S PROVE k + 1 \in S
  <2>1. PICK f : f = [n \in 0..k |-> RunBody(D, f, n)]
    BY <1>2, Zenon
  <2> DEFINE g == [n \in 0..(k + 1) |-> IF n = k + 1 THEN RunBody(D, f, k + 1) ELSE f[n]]
  <2>2. \A n \in 0..k : g[n] = f[n]
    OBVIOUS
  <2>3. \A n \in 0..k : f[n] = RunBody(D, f, n)
    BY <2>1, Zenon
  <2>4. ASSUME NEW n \in 0..(k + 1) PROVE RunBody(D, g, n) = RunBody(D, f, n)
    <3>1. CASE n = 0
      BY <3>1, Zenon DEF RunBody
    <3>2. CASE n # 0
      <4>1. n - 1 \in 0..k
        BY <3>2
      <4>2. g[n - 1] = f[n - 1]
        BY <4>1, <2>2, Zenon
      <4> HIDE DEF g
      <4> QED BY <4>2, Zenon DEF RunBody
    <3> QED BY <3>1, <3>2, Zenon
  <2>5. \A n \in 0..(k + 1) : g[n] = RunBody(D, g, n)
    <3> SUFFICES ASSUME NEW n \in 0..(k + 1) PROVE g[n] = RunBody(D, g, n)
      BY Zenon
    <3>1. g[n] = IF n = k + 1 THEN RunBody(D, f, k + 1) ELSE f[n]
      BY Zenon
    <3>2. g[n] = RunBody(D, f, n)
      <4> HIDE DEF g
      <4> QED BY <3>1, <2>3
    <3> HIDE DEF g
    <3> QED BY <3>2, <2>4, Zenon
  <2>6. g = [n \in 0..(k + 1) |-> RunBody(D, g, n)]
    <3>1. g = [n \in 0..(k + 1) |-> g[n]]
      BY Zenon
    <3> HIDE DEF g
    <3> QED BY <3>1, <2>5, Zenon
  <2> HIDE DEF g
  <2> QED BY <2>6
<1>3. Nat \subseteq S
  <2> HIDE DEF S
  <2> QED BY <1>1, <1>2, SetInduction, Zenon
<1> QED BY <1>3, Zenon

\* ActivateRun takes one step after the other.
LEMMA RunUnfolds ==
  ASSUME NEW D, IsFiniteSet(D)
  PROVE  /\ ActivateRun(D)[0] = {Start}
         /\ \A n \in 1..Cardinality(D) :
               ActivateRun(D)[n] = UNION {ActivateBestChainStep(D, s) : s \in ActivateRun(D)[n - 1]}
<1> DEFINE N == Cardinality(D)
           run == ActivateRun(D)
<1>1. N \in Nat
  BY FS_CardinalityType, Zenon
<1>2. run = CHOOSE f : f = [n \in 0..N |-> RunBody(D, f, n)]
  BY Zenon DEF ActivateRun, Start, RunBody
<1>3. \E f : f = [n \in 0..N |-> RunBody(D, f, n)]
  BY <1>1, RunExists, Zenon
<1>4. run = [n \in 0..N |-> RunBody(D, run, n)]
  <2> HIDE DEF run, N
  <2> QED BY <1>2, <1>3, Zenon
<1>5. \A n \in 0..N : run[n] = RunBody(D, run, n)
  <2> HIDE DEF run, N
  <2> QED BY <1>4, Zenon
<1> HIDE DEF run, N
<1>6. run[0] = {Start}
  <2>1. 0 \in 0..N
    BY <1>1
  <2> QED BY <2>1, <1>5, Zenon DEF RunBody
<1>7. ASSUME NEW n \in 1..N PROVE run[n] = UNION {ActivateBestChainStep(D, s) : s \in run[n - 1]}
  <2>1. n \in 0..N /\ n # 0
    BY <1>1
  <2> QED BY <2>1, <1>5, Zenon DEF RunBody
<1> QED BY <1>6, <1>7, Zenon DEF run, N

\* What every step keeps, from step to step, holds of the result.
LEMMA RunInduction ==
  ASSUME NEW D, IsFiniteSet(D), NEW P, Start \in P[0],
         \A n \in Nat : \A s \in P[n] : ActivateBestChainStep(D, s) \subseteq P[n + 1]
  PROVE  ActivateRun(D)[Cardinality(D)] \subseteq P[Cardinality(D)]
<1> DEFINE N == Cardinality(D)
           run == ActivateRun(D)
           S == {n \in Nat : n <= N => run[n] \subseteq P[n]}
<1>1. N \in Nat
  BY FS_CardinalityType, Zenon
<1>2. /\ run[0] = {Start}
      /\ \A n \in 1..N : run[n] = UNION {ActivateBestChainStep(D, s) : s \in run[n - 1]}
  BY RunUnfolds, Zenon
<1> HIDE DEF run, N
<1>3. 0 \in S
  BY <1>2, Zenon
<1>4. ASSUME NEW n \in Nat, n \in S PROVE n + 1 \in S
  <2> SUFFICES ASSUME n + 1 <= N PROVE run[n + 1] \subseteq P[n + 1]
    OBVIOUS
  <2>1. n + 1 \in 1..N /\ (n + 1) - 1 = n /\ n <= N
    BY <1>1
  <2>2. run[n + 1] = UNION {ActivateBestChainStep(D, s) : s \in run[n]}
    BY <1>2, <2>1, Zenon
  <2>3. run[n] \subseteq P[n]
    BY <1>4, <2>1, Zenon
  <2> QED BY <2>2, <2>3, Zenon
<1>5. Nat \subseteq S
  <2> HIDE DEF S
  <2> QED BY <1>3, <1>4, SetInduction, Zenon
<1> QED BY <1>1, <1>5 DEF run, N

RunState == [line : SUBSET Blocks, failed : SUBSET Blocks]

\* A line of blocks with data and without marks, and only blocks of K marked failed.
Clean(D, K, s) ==
    s \in RunState /\ s.line \subseteq D /\ s.failed \subseteq K /\ s.line \cap (s.failed \cup conflict) = {}

\* A step connects no marked block.
LEMMA StepClean ==
  ASSUME NEW D \in SUBSET Blocks, NEW K, D \subseteq K, NEW s, Clean(D, K, s),
         NEW t \in ActivateBestChainStep(D, s)
  PROVE  Clean(D, K, t)
<1>1. CASE FindMostWorkChain(D, s) = {}
  BY <1>1, Zenon DEF ActivateBestChainStep
<1>2. CASE FindMostWorkChain(D, s) # {}
  <2>1. PICK b \in FindMostWorkChain(D, s) :
          t = [line |-> Anc[b] \ Blocked(s.line, b), failed |-> s.failed \cup Blocked(s.line, b)]
    BY <1>2, Zenon DEF ActivateBestChainStep
  <2>2. b \in Candidates(D, s.line, s.failed \cup conflict)
    BY <2>1, Zenon DEF FindMostWorkChain, Highest
  <2>3. b \in Blocks /\ Anc[b] \subseteq D /\ (Anc[b] \ s.line) \cap (s.failed \cup conflict) = {}
    BY <2>2, Zenon DEF Candidates
  <2>4. Blocked(s.line, b) \subseteq Anc[b]
    BY Zenon DEF Blocked
  <2>5. s \in RunState /\ s.line \subseteq D /\ s.failed \subseteq K /\ s.line \cap (s.failed \cup conflict) = {}
    BY Zenon DEF Clean
  <2>6. t.line = Anc[b] \ Blocked(s.line, b) /\ t.failed = s.failed \cup Blocked(s.line, b)
    BY <2>1, Zenon
  <2>7. t \in RunState
    BY <2>1, <2>3, <2>4, <2>5, Zenon DEF RunState
  <2> QED BY <2>3, <2>4, <2>5, <2>6, <2>7, Zenon DEF Clean
<1> QED BY <1>1, <1>2, Zenon

-----------------------------------------------------------------------------
(* ActivateBestChain while the block of the lock is active. *)

LockActive(D) ==
    /\ D \in SUBSET Blocks /\ IsFiniteSet(D) /\ failed \subseteq Blocks
    /\ tip \in D /\ Anc[tip] \subseteq D /\ Anc[tip] \cap (failed \cup conflict) = {}
    /\ isEnforced /\ bestChainLockBlockIndex \in Blocks \cap Anc[tip] /\ bestChainLockBlockIndex # None

\* No active block conflicts with the lock, and every block as high as the lock that does
\* not build on it has an ancestor that conflicts.
LEMMA ConflictFacts ==
  ASSUME NEW D, LockActive(D)
  PROVE  /\ \A y \in Anc[tip] : ~HasConflictingChainLock(y)
         /\ \A b \in Blocks :
               Height[b] >= Height[tip] /\ bestChainLockBlockIndex \notin Anc[b] =>
                   \E y \in Anc[b] : HasConflictingChainLock(y)
<1> DEFINE L == bestChainLockBlockIndex
<1>1. tip \in Blocks /\ L \in Blocks /\ L \in Anc[tip] /\ L # None /\ isEnforced
  BY Zenon DEF LockActive
<1>2. ASSUME NEW y \in Anc[tip], Height[y] <= Height[L] PROVE y \in Anc[L]
  <2>1. y \in Blocks
    BY <1>1, AncFacts, Zenon
  <2>2. y \in Anc[L] \/ L \in Anc[y]
    BY <1>1, LineFacts, Zenon
  <2>3. L \in Anc[y] => L = y
    BY <1>1, <1>2, <2>1, LineFacts, HeightFacts
  <2> QED BY <1>1, <2>2, <2>3, AncFacts, Zenon
<1>3. ASSUME NEW b \in Blocks, Height[b] >= Height[tip], L \notin Anc[b]
      PROVE  \E y \in Anc[b] : HasConflictingChainLock(y)
  <2>1. Height[L] <= Height[tip]
    BY <1>1, LineFacts, Zenon
  <2>2. Height[L] \in Nat /\ Height[tip] \in Nat /\ Height[b] \in Nat
    BY <1>1, HeightFacts, Zenon
  <2>3. Height[L] \in RootHeight..Height[b]
    BY <1>1, <1>3, <2>1, <2>2, HeightFacts
  <2>4. PICK y \in Anc[b] : Height[y] = Height[L]
    BY <2>3, LineFacts, Zenon
  <2>5. y \notin Anc[L]
    BY <1>1, <1>3, <2>2, <2>4, LineFacts
  <2> QED BY <1>1, <2>2, <2>4, <2>5 DEF HasConflictingChainLock
<1> QED BY <1>2, <1>3, Zenon DEF HasConflictingChainLock

\* There is a candidate, and one of the highest is found.
LEMMA CandidateFound ==
  ASSUME NEW D, LockActive(D), NEW s, s.failed \cap Anc[tip] = {}
  PROVE  Highest(Candidates(D, s.line, s.failed \cup conflict)) # {}
<1> DEFINE C == Candidates(D, s.line, s.failed \cup conflict)
           N == RootHeight + Cardinality(D)
           T == {N - Height[b] : b \in C}
<1>1. tip \in C
  <2>1. tip \in Blocks /\ Anc[tip] \subseteq D /\ (Anc[tip] \ s.line) \cap (s.failed \cup conflict) = {}
    BY Zenon DEF LockActive
  <2>2. Height[tip] >= Height[tip]
    BY <2>1, HeightFacts
  <2> QED BY <2>1, <2>2, Zenon DEF Candidates
<1>2. ASSUME NEW b \in C PROVE b \in Blocks /\ N - Height[b] \in Nat
  <2>1. b \in Blocks /\ Anc[b] \subseteq D /\ IsFiniteSet(D)
    BY Zenon DEF Candidates, LockActive
  <2>2. Cardinality(Anc[b]) <= Cardinality(D) /\ Cardinality(D) \in Nat /\ Cardinality(Anc[b]) \in Nat
    BY <2>1, FS_Subset, FS_CardinalityType, Zenon
  <2>3. Height[b] = RootHeight + Cardinality(Anc[b]) - 1
    BY <2>1, Zenon DEF Height
  <2> QED BY <2>1, <2>2, <2>3, TreeAssumption
<1>3. T \in SUBSET Nat /\ T # {}
  BY <1>1, <1>2, Zenon
<1>4. PICK m \in T : \A k \in T : m <= k
  BY <1>3, LeastNat, Zenon
<1>5. PICK b \in C : m = N - Height[b]
  BY <1>4, Zenon
<1>6. ASSUME NEW c \in C PROVE Height[c] <= Height[b]
  <2>1. N - Height[b] <= N - Height[c]
    BY <1>4, <1>5, Zenon
  <2>2. Height[b] \in Nat /\ Height[c] \in Nat
    BY <1>2, HeightFacts, Zenon
  <2>3. N \in Nat
    BY FS_CardinalityType, TreeAssumption DEF LockActive
  <2> QED BY <2>1, <2>2, <2>3
<1> QED BY <1>5, <1>6, Zenon DEF Highest

\* The state is a candidate with most work that builds on the lock: no step leaves it.
Settled(D, s) ==
    /\ bestChainLockBlockIndex \in s.line
    /\ \E b \in Highest(Candidates(D, s.line, s.failed \cup conflict)) : Anc[b] = s.line

\* After n steps the state is settled, or n blocks have been refused.
Progress(D, n, s) ==
    /\ Clean(D, Blocks, s)
    /\ s.failed \cap Anc[tip] = {}
    /\ \A y \in s.line : ~HasConflictingChainLock(y)
    /\ Settled(D, s) \/ Cardinality(s.failed \cap D) >= n

\* A settled state stays as it is.
LEMMA SettledStays ==
  ASSUME NEW D, NEW s, Clean(D, Blocks, s), Settled(D, s)
  PROVE  ActivateBestChainStep(D, s) = {s}
<1> DEFINE M == FindMostWorkChain(D, s)
<1>1. M # {} /\ \A b \in M : Anc[b] = s.line
  BY Zenon DEF Settled, FindMostWorkChain
<1>2. ASSUME NEW b \in M PROVE Blocked(s.line, b) = {}
  BY <1>1, Zenon DEF Blocked
<1>3. s = [line |-> s.line, failed |-> s.failed]
  BY Zenon DEF Clean, RunState
<1>4. ASSUME NEW b \in M
      PROVE  [line |-> Anc[b] \ Blocked(s.line, b), failed |-> s.failed \cup Blocked(s.line, b)] = s
  <2>1. Anc[b] \ Blocked(s.line, b) = s.line /\ s.failed \cup Blocked(s.line, b) = s.failed
    BY <1>1, <1>2, Zenon
  <2> QED BY <2>1, <1>3, Zenon
<1> HIDE DEF M
<1>5. ActivateBestChainStep(D, s) =
        {[line |-> Anc[b] \ Blocked(s.line, b), failed |-> s.failed \cup Blocked(s.line, b)] : b \in M}
  BY <1>1, Zenon DEF ActivateBestChainStep, M
<1> QED BY <1>1, <1>4, <1>5, Zenon

\* A step from a state that is not settled settles or refuses one more block.
LEMMA StepProgress ==
  ASSUME NEW D, LockActive(D), NEW n \in Nat, NEW s, Progress(D, n, s),
         NEW t \in ActivateBestChainStep(D, s)
  PROVE  Progress(D, n + 1, t)
<1>1. CASE Settled(D, s)
  BY <1>1, SettledStays DEF Progress
<1>2. CASE ~Settled(D, s)
  <2> DEFINE L == bestChainLockBlockIndex
             C == Candidates(D, s.line, s.failed \cup conflict)
  <2>0. D \in SUBSET Blocks /\ IsFiniteSet(D)
    BY Zenon DEF LockActive
  <2>1. /\ Clean(D, Blocks, s) /\ s.failed \cap Anc[tip] = {}
        /\ \A y \in s.line : ~HasConflictingChainLock(y)
        /\ Cardinality(s.failed \cap D) >= n
    BY <1>2, Zenon DEF Progress
  <2>2. FindMostWorkChain(D, s) # {} /\ FindMostWorkChain(D, s) \subseteq Highest(C)
    BY <2>1, CandidateFound, Zenon DEF FindMostWorkChain
  <2>3. PICK b \in Highest(C) :
          t = [line |-> Anc[b] \ Blocked(s.line, b), failed |-> s.failed \cup Blocked(s.line, b)]
    BY <2>2, Zenon DEF ActivateBestChainStep
  <2>4. t.line = Anc[b] \ Blocked(s.line, b) /\ t.failed = s.failed \cup Blocked(s.line, b)
    BY <2>3, Zenon
  <2>5. /\ b \in Blocks /\ Anc[b] \subseteq D /\ Height[b] >= Height[tip]
        /\ (Anc[b] \ s.line) \cap (s.failed \cup conflict) = {}
    BY Zenon DEF Highest, Candidates
  <2>6. Clean(D, Blocks, t)
    BY <2>0, <2>1, StepClean, Zenon
  <2>7. t.failed \cap Anc[tip] = {}
    <3>1. ASSUME NEW x \in Blocked(s.line, b) PROVE x \notin Anc[tip]
      <4>1. PICK y \in Anc[x] : HasConflictingChainLock(y)
        BY Zenon DEF Blocked
      <4> QED BY <4>1, AncFacts, ConflictFacts, Zenon DEF LockActive
    <3> QED BY <2>1, <2>4, <3>1, Zenon
  <2>8. \A y \in t.line : ~HasConflictingChainLock(y)
    <3> SUFFICES ASSUME NEW y \in t.line, HasConflictingChainLock(y) PROVE FALSE
      BY Zenon
    <3>1. y \in Anc[b] /\ y \notin Blocked(s.line, b)
      BY <2>4, Zenon
    <3>2. y \notin s.line
      BY <2>1, Zenon
    <3>3. y \in Anc[y]
      BY <2>5, <3>1, AncFacts, Zenon
    <3> QED BY <3>1, <3>2, <3>3, Zenon DEF Blocked
  <2>9. CASE Blocked(s.line, b) = {}
    <3>1. t.line = Anc[b] /\ t.failed = s.failed
      BY <2>4, <2>9, Zenon
    <3>2. L \in Anc[b]
      <4> SUFFICES ASSUME L \notin Anc[b] PROVE FALSE
        BY Zenon
      <4>1. PICK y \in Anc[b] : HasConflictingChainLock(y)
        BY <2>5, ConflictFacts, Zenon
      <4> QED BY <2>8, <3>1, <4>1, Zenon
    <3>3. \A c \in Blocks : (Anc[c] \ s.line) \cap (s.failed \cup conflict) = {}
                            <=> (Anc[c] \ t.line) \cap (t.failed \cup conflict) = {}
      BY <2>1, <2>6, <3>1, Zenon DEF Clean
    <3>4. Candidates(D, t.line, t.failed \cup conflict) = C
      BY <3>3, Zenon DEF Candidates
    <3>5. Settled(D, t)
      BY <3>1, <3>2, <3>4, Zenon DEF Settled
    <3> QED BY <2>6, <2>7, <2>8, <3>5, Zenon DEF Progress
  <2>10. CASE Blocked(s.line, b) # {}
    <3>1. PICK x : x \in Blocked(s.line, b)
      BY <2>10, Zenon
    <3>2. x \in D \ s.failed
      BY <3>1, <2>5, Zenon DEF Blocked
    <3> DEFINE A == s.failed \cap D
               B == t.failed \cap D
    <3>3. IsFiniteSet(A) /\ IsFiniteSet(B) /\ x \notin A /\ A \cup {x} \subseteq B
      BY <2>0, <2>4, <3>1, <3>2, FS_Subset, Zenon
    <3>4. Cardinality(A \cup {x}) = Cardinality(A) + 1 /\ Cardinality(A) \in Nat /\ Cardinality(B) \in Nat
      BY <3>3, FS_AddElement, FS_CardinalityType, Zenon
    <3>5. Cardinality(A \cup {x}) <= Cardinality(B)
      BY <3>3, FS_Subset, Zenon
    <3>6. Cardinality(A) >= n
      BY <2>1, Zenon
    <3>7. Cardinality(B) >= n + 1
      <4> HIDE DEF A, B
      <4> QED BY <3>4, <3>5, <3>6
    <3> QED BY <2>6, <2>7, <2>8, <3>7, Zenon DEF Progress
  <2> QED BY <2>9, <2>10, Zenon
<1> QED BY <1>1, <1>2, Zenon

\* ActivateBestChain does not leave the block of the lock: every fork it tries is refused,
\* and it has steps enough to come back.
LEMMA ActivateKeepsLock ==
  ASSUME NEW D, LockActive(D), NEW s \in ActivateRun(D)[Cardinality(D)]
  PROVE  bestChainLockBlockIndex \in s.line
<1> DEFINE P == [n \in Nat |-> {x \in RunState : Progress(D, n, x)}]
           N == Cardinality(D)
<1>1. IsFiniteSet(D) /\ N \in Nat /\ D \in SUBSET Blocks /\ tip \in D /\ tip \in Anc[tip]
  BY FS_CardinalityType, AncFacts, Zenon DEF LockActive
<1>2. Start \in P[0]
  <2>1. Start \in RunState /\ Start.line = Anc[tip] /\ Start.failed = failed
    BY <1>1, AncFacts, Zenon DEF Start, RunState, LockActive
  <2>2. IsFiniteSet(failed \cap D)
    BY <1>1, FS_Subset, Zenon
  <2>3. Cardinality(failed \cap D) >= 0
    BY <2>2, FS_CardinalityType
  <2>4. Clean(D, Blocks, Start) /\ Start.failed \cap Anc[tip] = {}
    BY <2>1, Zenon DEF Clean, LockActive
  <2>5. Progress(D, 0, Start)
    BY <2>1, <2>3, <2>4, ConflictFacts, Zenon DEF Progress
  <2> QED BY <2>1, <2>5, Zenon
<1>3. ASSUME NEW n \in Nat, NEW x \in P[n] PROVE ActivateBestChainStep(D, x) \subseteq P[n + 1]
  <2> SUFFICES ASSUME NEW t \in ActivateBestChainStep(D, x) PROVE t \in RunState /\ Progress(D, n + 1, t)
    OBVIOUS
  <2>1. Progress(D, n, x)
    BY Zenon
  <2>2. Progress(D, n + 1, t)
    BY <2>1, StepProgress, Zenon
  <2> QED BY <2>2, Zenon DEF Progress, Clean
<1>4. s \in P[N]
  <2> HIDE DEF P
  <2> QED BY <1>1, <1>2, <1>3, RunInduction, Zenon
<1>5. Progress(D, N, s)
  BY <1>1, <1>4, Zenon
<1>6. ~(Cardinality(s.failed \cap D) >= N)
  <2> DEFINE A == s.failed \cap D
  <2>1. tip \notin A /\ A \cup {tip} \subseteq D
    BY <1>1, <1>5, Zenon DEF Progress
  <2>2. IsFiniteSet(A) /\ Cardinality(A) \in Nat
    BY <1>1, FS_Subset, FS_CardinalityType, Zenon
  <2>3. Cardinality(A \cup {tip}) = Cardinality(A) + 1
    BY <2>1, <2>2, FS_AddElement, Zenon
  <2>4. Cardinality(A \cup {tip}) <= N
    BY <1>1, <2>1, FS_Subset, Zenon
  <2> HIDE DEF A, N
  <2> QED BY <1>1, <2>2, <2>3, <2>4 DEF A
<1> QED BY <1>5, <1>6, Zenon DEF Progress, Settled

-----------------------------------------------------------------------------
(* What the steps do to the active chain. *)

\* ActivateBestChain activates blocks that are on disk and carry no mark.
LEMMA ActivateIsClean ==
  ASSUME NEW D \in SUBSET Blocks, IsFiniteSet(D), NEW K \in SUBSET Blocks, D \subseteq K, failed \subseteq K,
         tip \in D, Anc[tip] \subseteq D, NeverMarkedActive,
         ActivateBestChain(D)
  PROVE  tip' \in D /\ Anc[tip'] \subseteq D /\ Anc[tip'] \cap (failed' \cup conflict) = {} /\ failed' \subseteq K
<1> DEFINE P == [n \in Nat |-> {x \in RunState : Clean(D, K, x)}]
           N == Cardinality(D)
<1>1. N \in Nat
  BY FS_CardinalityType, Zenon
<1>2. Start \in P[0]
  <2>1. Start \in RunState /\ Start.line = Anc[tip] /\ Start.failed = failed
    BY AncFacts, Zenon DEF Start, RunState
  <2> QED BY <2>1, Zenon DEF Clean, NeverMarkedActive
<1>3. ASSUME NEW n \in Nat, NEW x \in P[n] PROVE ActivateBestChainStep(D, x) \subseteq P[n + 1]
  <2> SUFFICES ASSUME NEW t \in ActivateBestChainStep(D, x) PROVE t \in RunState /\ Clean(D, K, t)
    OBVIOUS
  <2>1. Clean(D, K, x)
    BY Zenon
  <2>2. Clean(D, K, t)
    BY <2>1, StepClean, Zenon
  <2> QED BY <2>2, Zenon DEF Clean
<1>4. PICK s \in ActivateRun(D)[N] : tip' \in s.line /\ Anc[tip'] = s.line /\ failed' = s.failed
  BY Zenon DEF ActivateBestChain
<1>5. s \in P[N]
  <2> HIDE DEF P
  <2> QED BY <1>2, <1>3, RunInduction, Zenon
<1>6. Clean(D, K, s)
  BY <1>1, <1>5, Zenon
<1> QED BY <1>4, <1>6, Zenon DEF Clean

\* EnforceBlock goes back to a block that it does not mark, and not below an active block
\* that is locked too.
LEMMA EnforceIsClean ==
  ASSUME EnforceBlock, tip \in Blocks, NeverMarkedActive, thread["sched"].index \in Blocks, known \subseteq Blocks
  PROVE  /\ tip' \in Anc[tip]
         /\ Anc[tip'] \cap (failed' \cup conflict') = {}
         /\ failed' \subseteq failed /\ conflict' \subseteq conflict \cup known \cup Anc[tip]
         /\ \A l \in Anc[tip] :
               l \in Anc[thread["sched"].index] \/ thread["sched"].index \in Anc[l] => l \in Anc[tip']
<1> DEFINE p == thread["sched"].index
           siblings == {s \in known \ {Root} : \E w \in Path(p) : s # w /\ Parent[s] = Parent[w]}
           inChain == siblings \cap Anc[tip]
<1>1. /\ conflict' = conflict \cup siblings \cup {x \in Anc[tip] : Anc[x] \cap inChain # {}}
      /\ (inChain = {} /\ tip' = tip) \/ \E s \in inChain : tip' = Parent[s]
      /\ failed' \subseteq failed
  BY Zenon DEF EnforceBlock
<1>2. p \in Blocks /\ Path(p) = Anc[p] \ Anc[tip] /\ tip \in Anc[tip]
  BY AncFacts, Zenon DEF Path
<1>3. \A w \in Path(p) : w \in Blocks \ {Root} /\ Parent[w] \in Blocks /\ w \notin Anc[Parent[w]]
                         /\ Anc[w] = {w} \cup Anc[Parent[w]]
  BY <1>2, AncFacts, TreeAssumption, Zenon
<1>4. CASE inChain = {}
  <2>1. tip' = tip
    BY <1>1, <1>4, Zenon
  <2>2. conflict' = conflict \cup siblings
    BY <1>1, <1>4, Zenon
  <2> QED BY <1>1, <1>2, <1>4, <2>1, <2>2, Zenon DEF NeverMarkedActive
<1>5. CASE inChain # {}
  <2>1. PICK s \in inChain : tip' = Parent[s]
    BY <1>1, <1>5, Zenon
  <2>2. /\ s \in Blocks \ {Root} /\ s \in Anc[tip] /\ Parent[s] \in Blocks /\ s \notin Anc[Parent[s]]
        /\ Anc[s] = {s} \cup Anc[Parent[s]] /\ Parent[s] \in Anc[Parent[s]]
    BY TreeAssumption, AncFacts, Zenon
  <2>3. Anc[Parent[s]] \subseteq Anc[tip]
    BY <2>2, AncFacts, Zenon
  <2>4. PICK w \in Path(p) : s # w /\ Parent[s] = Parent[w]
    BY Zenon
  <2> HIDE DEF p
  <2>5. ASSUME NEW v \in Path(p), Parent[v] \in Anc[tip] PROVE v = w
    \* Both are the first block of the path.
    <3>1. v \in Anc[w] \/ w \in Anc[v]
      BY <1>2, LineFacts, Zenon
    <3>2. Anc[Parent[v]] \subseteq Anc[tip] /\ Anc[Parent[w]] \subseteq Anc[tip]
      BY <2>3, <2>4, <2>5, AncFacts, Zenon
    <3>3. v \notin Anc[tip] /\ w \notin Anc[tip]
      BY <1>2, Zenon
    <3> QED BY <1>3, <3>1, <3>2, <3>3
  <2>6. ASSUME NEW x \in inChain PROVE x = s
    <3>1. x \in Blocks \ {Root} /\ x \in Anc[tip] /\ Anc[x] = {x} \cup Anc[Parent[x]] /\ Parent[x] \in Anc[x]
          /\ x \notin Anc[Parent[x]]
      BY TreeAssumption, AncFacts
    <3>2. PICK v \in Path(p) : x # v /\ Parent[x] = Parent[v]
      BY Zenon
    <3>3. Parent[x] \in Anc[tip]
      BY <3>1, AncFacts, Zenon
    <3>4. v = w
      BY <2>5, <3>2, <3>3, Zenon
    <3>5. Parent[x] = Parent[s]
      BY <2>4, <3>2, <3>4, Zenon
    <3>6. x \in Anc[s] \/ s \in Anc[x]
      BY <2>2, <3>1, LineFacts, Zenon
    <3> QED BY <2>2, <3>1, <3>5, <3>6, Zenon
  <2>7. ASSUME NEW x \in Anc[Parent[s]] PROVE x \notin conflict' /\ x \notin failed'
    <3>1. x \in Anc[tip]
      BY <2>3, Zenon
    <3>2. x \notin siblings
      BY <2>2, <2>6, <3>1, Zenon
    <3>3. x \in Blocks /\ Anc[x] \subseteq Anc[Parent[s]]
      BY <2>2, AncFacts, Zenon
    <3>4. Anc[x] \cap inChain = {}
      BY <2>2, <2>6, <3>3, Zenon
    <3> QED BY <1>1, <3>1, <3>2, <3>4, Zenon DEF NeverMarkedActive
  <2>8. ASSUME NEW l \in Anc[tip], l \in Anc[p] \/ p \in Anc[l] PROVE l \in Anc[Parent[s]]
    <3>1. l \in Blocks
      BY AncFacts, Zenon
    <3>2. l \in Anc[p]
      <4>1. p \in Anc[l] => Anc[p] \subseteq Anc[tip]
        BY <3>1, AncFacts, Zenon
      <4> QED BY <1>2, <2>4, <2>8, <4>1, Zenon
    <3>3. l \in Anc[w] \/ w \in Anc[l]
      BY <1>2, <3>2, LineFacts, Zenon
    <3>4. w \notin Anc[l]
      BY <1>2, AncFacts, Zenon
    <3>5. l # w
      BY <1>2, Zenon
    <3> QED BY <1>3, <2>4, <3>3, <3>4, <3>5
  <2>9. tip' \in Anc[tip]
    BY <2>1, <2>2, <2>3, Zenon
  <2>10. siblings \subseteq known
    BY Zenon
  <2> QED BY <1>1, <2>1, <2>7, <2>8, <2>9, <2>10, Zenon DEF p
<1> QED BY <1>4, <1>5, Zenon

-----------------------------------------------------------------------------
(* The invariant. *)

\* What is on disk is finite, has all its ancestors where it is active, and what is active
\* carries no mark.
ChainInv == IsFiniteSet(data) /\ Anc[tip] \subseteq data /\ NeverMarkedActive

\* What a thread carries through its steps: a good signature is one a quorum made, an index
\* is that of a known block, and the index to be stored or enforced that of a locked one.
ThreadInv(t) ==
    /\ thread[t].ok => thread[t].sig \in Signed
    /\ thread[t].index \in known \cup {None}
    /\ thread[t].pc = "store" => thread[t].ok /\ thread[t].index \in {thread[t].sig, None}
    /\ thread[t].pc \in {"block", "activate"} => thread[t].index \in Signed
    /\ thread[t].pc # "idle" /\ t # "sched" => thread[t].sig \in Blocks
    /\ t = "sched" => thread[t].pc \notin {"seen", "verify", "store"}

LockInv ==
    /\ bestChainLock \in Signed \cup {None}
    /\ bestChainLockBlockIndex \in Signed \cup {None}
    /\ \A t \in Threads : ThreadInv(t)

IInv == TypeOK /\ ChainInv /\ LockInv

\* The initial state.
LEMMA InitInv == Init => IInv
<1> SUFFICES ASSUME Init PROVE IInv
  BY Zenon
<1>1. TypeOK
  <2>1. thread \in [Threads -> ThreadState]
    BY Zenon DEF Init, Lock, ThreadState, Idle
  <2>2. toggles \in 0..MaxToggles
    BY LocksAssumption DEF Init
  <2> QED BY <2>1, <2>2, TreeAssumption, Zenon DEF Init, TypeOK, Sporks, Lock
<1>2. ChainInv
  BY TreeAssumption, FS_Singleton, Zenon DEF Init, ChainInv, NeverMarkedActive
<1>3. LockInv
  BY Zenon DEF Init, LockInv, ThreadInv, Idle, Threads
<1> QED BY <1>1, <1>2, <1>3, Zenon DEF IInv

\* A thread that moves on keeps its own invariant, and that of the others.
LEMMA MoveOn ==
  ASSUME IInv, NEW t \in Threads, NEW r \in ThreadState,
         thread' = [thread EXCEPT ![t] = r], UNCHANGED known,
         /\ r.ok => r.sig \in Signed
         /\ r.index \in known \cup {None}
         /\ r.pc = "store" => r.ok /\ r.index \in {r.sig, None}
         /\ r.pc \in {"block", "activate"} => r.index \in Signed
         /\ r.pc # "idle" /\ t # "sched" => r.sig \in Blocks
         /\ t = "sched" => r.pc \notin {"seen", "verify", "store"}
  PROVE  thread' \in [Threads -> ThreadState] /\ \A u \in Threads : ThreadInv(u)'
<1>1. thread \in [Threads -> ThreadState] /\ \A u \in Threads : ThreadInv(u)
  BY Zenon DEF IInv, TypeOK, LockInv
<1>2. thread' \in [Threads -> ThreadState] /\ thread'[t] = r /\ \A u \in Threads \ {t} : thread'[u] = thread[u]
  BY <1>1, Zenon
<1>3. ThreadInv(t)'
  BY <1>2, Zenon DEF ThreadInv
<1>4. ASSUME NEW u \in Threads \ {t} PROVE ThreadInv(u)'
  BY <1>1, <1>2, Zenon DEF ThreadInv
<1> QED BY <1>2, <1>3, <1>4, Zenon

\* Idle is a record that MoveOn accepts.
LEMMA IdleMoves ==
  /\ Idle \in ThreadState /\ Idle.ok = FALSE /\ Idle.index = None /\ Idle.pc = "idle"
  /\ [Idle EXCEPT !.pc = "try"] \in ThreadState
  /\ [Idle EXCEPT !.pc = "try"].ok = FALSE /\ [Idle EXCEPT !.pc = "try"].index = None
  /\ [Idle EXCEPT !.pc = "try"].pc = "try"
BY Zenon DEF Idle, ThreadState, Lock

\* Every step keeps the invariant.
LEMMA NextInv == IInv /\ [Next]_vars => IInv'
<1> SUFFICES ASSUME IInv, [Next]_vars PROVE IInv'
  BY Zenon
<1> USE DEF IInv
<1>0. /\ thread \in [Threads -> ThreadState] /\ \A t \in Threads : thread[t] \in ThreadState /\ ThreadInv(t)
      /\ known \subseteq Blocks /\ Signed \subseteq Blocks /\ None \notin Blocks
      /\ "sched" \in Threads /\ "msg" \in Threads /\ "worker" \in Threads
  BY LocksAssumption, Zenon DEF TypeOK, LockInv, Threads
<1>1. ASSUME NEW t \in Threads, CheckActiveState(t) PROVE IInv'
  <2> DEFINE r == [thread[t] EXCEPT !.pc = "set", !.old = isEnforced, !.on = (spork # "off")]
  <2>1. r \in ThreadState /\ thread' = [thread EXCEPT ![t] = r] /\ r.pc = "set"
        /\ r.ok = thread[t].ok /\ r.sig = thread[t].sig /\ r.index = thread[t].index
    <3>1. thread[t] \in ThreadState /\ isEnforced \in BOOLEAN /\ (spork # "off") \in BOOLEAN
      BY <1>0, Zenon DEF TypeOK
    <3>2. thread' = [thread EXCEPT ![t] = r]
      BY <1>1, Zenon DEF CheckActiveState
    <3> QED BY <3>1, <3>2, Zenon DEF ThreadState
  <2>2. thread' \in [Threads -> ThreadState] /\ \A u \in Threads : ThreadInv(u)'
    <3>1. ThreadInv(t) /\ thread[t].pc = "check" /\ UNCHANGED known
      BY <1>0, <1>1, Zenon DEF CheckActiveState, chain
    <3> HIDE DEF r
    <3> QED BY <2>1, <3>1, MoveOn, Zenon DEF ThreadInv
  <2> QED BY <1>1, <2>2, Zenon DEF CheckActiveState, TypeOK, ChainInv, NeverMarkedActive, LockInv, sporks, chain, active, locks
<1>2. ASSUME NEW t \in Threads, CheckActiveSet(t) PROVE IInv'
  <2> DEFINE r == [thread[t] EXCEPT !.pc = "setEnforced", !.on = FALSE]
  <2>1. r \in ThreadState /\ thread' = [thread EXCEPT ![t] = r] /\ r.pc = "setEnforced"
        /\ r.ok = thread[t].ok /\ r.sig = thread[t].sig /\ r.index = thread[t].index
    BY <1>0, <1>2, Zenon DEF CheckActiveSet, ThreadState
  <2>2. thread' \in [Threads -> ThreadState] /\ \A u \in Threads : ThreadInv(u)'
    <3>1. ThreadInv(t) /\ thread[t].pc = "set" /\ UNCHANGED known
      BY <1>0, <1>2, Zenon DEF CheckActiveSet, chain
    <3> HIDE DEF r
    <3> QED BY <2>1, <3>1, MoveOn, Zenon DEF ThreadInv
  <2>3. thread[t].on \in BOOLEAN
    BY <1>0, Zenon DEF ThreadState
  <2> QED BY <1>2, <2>2, <2>3, Zenon DEF CheckActiveSet, TypeOK, ChainInv, NeverMarkedActive, LockInv, sporks, chain, active, locks
<1>3. ASSUME NEW t \in Threads, CheckActiveSetEnforced(t) PROVE IInv'
  <2> DEFINE r == [thread[t] EXCEPT !.pc = IF thread[t].old THEN AfterCheck(t) ELSE "reset", !.old = FALSE]
  <2>1. r \in ThreadState /\ thread' = [thread EXCEPT ![t] = r]
        /\ r.pc \in {IF t = "sched" THEN "enforce" ELSE "seen", "reset"}
        /\ r.ok = thread[t].ok /\ r.sig = thread[t].sig /\ r.index = thread[t].index
    BY <1>0, <1>3 DEF CheckActiveSetEnforced, ThreadState, AfterCheck
  <2>2. thread' \in [Threads -> ThreadState] /\ \A u \in Threads : ThreadInv(u)'
    <3>1. ThreadInv(t) /\ thread[t].pc = "setEnforced" /\ UNCHANGED known
      BY <1>0, <1>3, Zenon DEF CheckActiveSetEnforced, chain
    <3> HIDE DEF r
    <3> QED BY <2>1, <3>1, MoveOn, Zenon DEF ThreadInv
  <2> QED BY <1>3, <2>2, Zenon DEF CheckActiveSetEnforced, TypeOK, ChainInv, NeverMarkedActive, LockInv, sporks, chain, active, locks
<1>4. ASSUME NEW t \in Threads, CheckActiveReset(t) PROVE IInv'
  <2> DEFINE r == [thread[t] EXCEPT !.pc = AfterCheck(t)]
  <2>1. r \in ThreadState /\ thread' = [thread EXCEPT ![t] = r]
        /\ r.pc = (IF t = "sched" THEN "enforce" ELSE "seen")
        /\ r.ok = thread[t].ok /\ r.sig = thread[t].sig /\ r.index = thread[t].index
    BY <1>0, <1>4, Zenon DEF CheckActiveReset, Goto, ThreadState, AfterCheck
  <2>2. thread' \in [Threads -> ThreadState] /\ \A u \in Threads : ThreadInv(u)'
    <3>1. ThreadInv(t) /\ thread[t].pc = "reset" /\ UNCHANGED known
      BY <1>0, <1>4, Zenon DEF CheckActiveReset, chain
    <3> HIDE DEF r
    <3> QED BY <2>1, <3>1, MoveOn, Zenon DEF ThreadInv
  <2> QED BY <1>4, <2>2, Zenon DEF CheckActiveReset, TypeOK, ChainInv, NeverMarkedActive, LockInv, Lock, sporks, chain, active, locks
<1>5. ASSUME NEW b, NEW ok \in BOOLEAN, ok => b \in Signed, b \in Blocks, ReceiveCLSIG(b, ok) PROVE IInv'
  <2> DEFINE r == [thread["msg"] EXCEPT !.pc = "check", !.sig = b, !.ok = ok]
  <2>1. r \in ThreadState /\ thread' = [thread EXCEPT !["msg"] = r] /\ r.pc = "check"
        /\ r.ok = ok /\ r.sig = b /\ r.index = thread["msg"].index
    <3>1. thread["msg"] \in ThreadState /\ thread' = [thread EXCEPT !["msg"] = r]
      BY <1>0, <1>5, Zenon DEF ReceiveCLSIG
    <3> QED BY <1>5, <3>1, Zenon DEF ThreadState, Lock
  <2>2. thread' \in [Threads -> ThreadState] /\ \A u \in Threads : ThreadInv(u)'
    <3>1. ThreadInv("msg") /\ UNCHANGED known
      BY <1>0, <1>5, Zenon DEF ReceiveCLSIG, chain
    <3> HIDE DEF r
    <3> QED BY <1>0, <1>5, <2>1, <3>1, MoveOn, Zenon DEF ThreadInv
  <2> QED BY <1>5, <2>2, Zenon DEF ReceiveCLSIG, TypeOK, ChainInv, NeverMarkedActive, LockInv, sporks, chain, active, locks
<1>6. ASSUME HandleNewRecoveredSig PROVE IInv'
  <2> DEFINE r == [thread["worker"] EXCEPT !.pc = "check", !.sig = lastSigned, !.ok = TRUE]
  <2>1. r \in ThreadState /\ thread' = [thread EXCEPT !["worker"] = r] /\ r.pc = "check"
        /\ r.ok = TRUE /\ r.sig = lastSigned /\ r.index = thread["worker"].index
    <3>1. thread["worker"] \in ThreadState /\ thread' = [thread EXCEPT !["worker"] = r] /\ lastSigned \in Blocks
      BY <1>0, <1>6, Zenon DEF HandleNewRecoveredSig
    <3> QED BY <3>1, Zenon DEF ThreadState, Lock
  <2>2. thread' \in [Threads -> ThreadState] /\ \A u \in Threads : ThreadInv(u)'
    <3>1. ThreadInv("worker") /\ UNCHANGED known /\ lastSigned \in Signed
      BY <1>0, <1>6, Zenon DEF HandleNewRecoveredSig, chain
    <3> HIDE DEF r
    <3> QED BY <1>0, <2>1, <3>1, MoveOn, Zenon DEF ThreadInv
  <2> QED BY <1>6, <2>2, Zenon DEF HandleNewRecoveredSig, TypeOK, ChainInv, NeverMarkedActive, LockInv, sporks, chain, active, locks
<1>7. ASSUME NEW t \in {"msg", "worker"}, ProcessNewChainLock(t) PROVE IInv'
  <2>1. t \in Threads /\ t # "sched" /\ thread[t].pc = "seen" /\ ThreadInv(t) /\ UNCHANGED known
    BY <1>0, <1>7, Zenon DEF ProcessNewChainLock, chain
  <2>2. thread[t].sig \in Blocks /\ thread[t].ok \in BOOLEAN
    BY <1>0, <2>1, Zenon DEF ThreadInv, ThreadState
  <2>3. thread' \in [Threads -> ThreadState] /\ \A u \in Threads : ThreadInv(u)'
    <3>1. CASE Finish(t)
      BY <1>0, <2>1, <3>1, IdleMoves, MoveOn, Zenon DEF Finish
    <3>2. CASE Goto(t, "verify")
      <4> DEFINE r == [thread[t] EXCEPT !.pc = "verify"]
      <4>1. r \in ThreadState /\ thread' = [thread EXCEPT ![t] = r] /\ r.pc = "verify"
            /\ r.ok = thread[t].ok /\ r.sig = thread[t].sig /\ r.index = thread[t].index
        BY <1>0, <2>1, <3>2, Zenon DEF Goto, ThreadState
      <4> HIDE DEF r
      <4> QED BY <2>1, <4>1, MoveOn, Zenon DEF ThreadInv
    <3> QED BY <1>7, <3>1, <3>2, Zenon DEF ProcessNewChainLock
  <2>4. seenChainLocks' \subseteq [block : Blocks, ok : BOOLEAN]
    BY <1>7, <2>2 DEF ProcessNewChainLock, Sig, TypeOK
  <2> QED BY <1>7, <2>3, <2>4, Zenon DEF ProcessNewChainLock, TypeOK, ChainInv, NeverMarkedActive, LockInv, sporks, chain, active, locks
<1>8. ASSUME NEW t \in {"msg", "worker"}, ProcessVerify(t) PROVE IInv'
  <2>1. t \in Threads /\ t # "sched" /\ thread[t].pc = "verify" /\ ThreadInv(t) /\ UNCHANGED known
    BY <1>0, <1>8, Zenon DEF ProcessVerify, chain
  <2> DEFINE b == thread[t].sig
             r == [thread[t] EXCEPT !.pc = "store", !.index = IF b \in known THEN b ELSE None]
  <2>2. Finish(t) \/ (thread[t].ok /\ thread' = [thread EXCEPT ![t] = r])
    BY <1>0, <1>8, Zenon DEF ProcessVerify, ThreadState
  <2>3. thread' \in [Threads -> ThreadState] /\ \A u \in Threads : ThreadInv(u)'
    <3>1. CASE Finish(t)
      BY <1>0, <2>1, <3>1, IdleMoves, MoveOn, Zenon DEF Finish
    <3>2. CASE thread[t].ok /\ thread' = [thread EXCEPT ![t] = r]
      <4>1. r \in ThreadState /\ r.pc = "store" /\ r.ok /\ r.sig = b /\ r.index \in {b, None} /\ r.index \in known \cup {None}
        <5>1. thread[t] \in ThreadState /\ b \in Lock /\ (IF b \in known THEN b ELSE None) \in Lock
          BY <1>0, <2>1, Zenon DEF ThreadState, Lock
        <5> QED BY <3>2, <5>1, Zenon DEF ThreadState
      <4>2. b \in Signed /\ b \in Blocks
        BY <1>0, <2>1, <3>2, Zenon DEF ThreadInv
      <4> HIDE DEF r
      <4> QED BY <2>1, <3>2, <4>1, <4>2, MoveOn, Zenon
    <3> QED BY <2>2, <3>1, <3>2, Zenon
  <2> QED BY <1>8, <2>3, Zenon DEF ProcessVerify, TypeOK, ChainInv, NeverMarkedActive, LockInv, sporks, chain, active, locks
<1>9. ASSUME NEW t \in {"msg", "worker"}, ProcessStore(t) PROVE IInv'
  <2>1. t \in Threads /\ t # "sched" /\ thread[t].pc = "store" /\ ThreadInv(t) /\ UNCHANGED known /\ Finish(t)
    BY <1>0, <1>9, Zenon DEF ProcessStore, chain
  <2>2. thread' \in [Threads -> ThreadState] /\ \A u \in Threads : ThreadInv(u)'
    BY <1>0, <2>1, IdleMoves, MoveOn, Zenon DEF Finish
  <2>3. thread[t].sig \in Signed /\ thread[t].index \in {thread[t].sig, None} /\ thread[t].index \in known \cup {None}
    BY <2>1, Zenon DEF ThreadInv
  <2> QED BY <1>0, <1>9, <2>2, <2>3, Zenon DEF ProcessStore, TypeOK, ChainInv, NeverMarkedActive, LockInv, Lock, sporks, chain, active
<1>10. ASSUME NEW try \in BOOLEAN, StartJob(try) PROVE IInv'
  <2> DEFINE r == [thread["sched"] EXCEPT !.pc = "check", !.try = try]
  <2>1. r \in ThreadState /\ thread' = [thread EXCEPT !["sched"] = r] /\ r.pc = "check"
        /\ r.ok = thread["sched"].ok /\ r.sig = thread["sched"].sig /\ r.index = thread["sched"].index
    <3>1. thread["sched"] \in ThreadState /\ thread' = [thread EXCEPT !["sched"] = r]
      BY <1>0, <1>10, Zenon DEF StartJob
    <3> QED BY <1>10, <3>1, Zenon DEF ThreadState
  <2>2. thread' \in [Threads -> ThreadState] /\ \A u \in Threads : ThreadInv(u)'
    <3>1. ThreadInv("sched") /\ UNCHANGED known
      BY <1>0, <1>10, Zenon DEF StartJob, chain
    <3> HIDE DEF r
    <3> QED BY <1>0, <2>1, <3>1, MoveOn, Zenon DEF ThreadInv
  <2> QED BY <1>10, <2>2, Zenon DEF StartJob, TypeOK, ChainInv, NeverMarkedActive, LockInv, sporks, chain, active, locks
<1>11. ASSUME AfterEnforce, UNCHANGED known PROVE thread' \in [Threads -> ThreadState] /\ \A u \in Threads : ThreadInv(u)'
  <2> DEFINE r == IF thread["sched"].try THEN [Idle EXCEPT !.pc = "try"] ELSE Idle
  <2>1. thread' = [thread EXCEPT !["sched"] = r]
    BY <1>11, Zenon DEF AfterEnforce
  <2>2. r \in ThreadState /\ r.ok = FALSE /\ r.index = None /\ r.pc \in {"idle", "try"}
    BY IdleMoves, Zenon
  <2> HIDE DEF r
  <2> QED BY <1>0, <1>11, <2>1, <2>2, MoveOn, Zenon
<1>12. ASSUME EnforceBestChainLock PROVE IInv'
  <2>1. ThreadInv("sched") /\ UNCHANGED known
    BY <1>0, <1>12, Zenon DEF EnforceBestChainLock, chain
  <2>2. thread' \in [Threads -> ThreadState] /\ \A u \in Threads : ThreadInv(u)'
    <3>1. CASE AfterEnforce
      BY <1>11, <2>1, <3>1, Zenon
    <3>2. CASE ~AfterEnforce
      <4> DEFINE r == [thread["sched"] EXCEPT !.pc = "block", !.index = bestChainLockBlockIndex]
      <4>1. bestChainLockBlockIndex \in Signed /\ bestChainLockBlockIndex \in known
        BY <1>12, <3>2, Zenon DEF EnforceBestChainLock, LockInv, TypeOK
      <4>2. r \in ThreadState /\ thread' = [thread EXCEPT !["sched"] = r] /\ r.pc = "block"
            /\ r.ok = thread["sched"].ok /\ r.sig = thread["sched"].sig /\ r.index = bestChainLockBlockIndex
        BY <1>0, <1>12, <3>2, <4>1 DEF EnforceBestChainLock, ThreadState, Lock
      <4> HIDE DEF r
      <4> QED BY <1>0, <2>1, <4>1, <4>2, MoveOn, Zenon DEF ThreadInv
    <3> QED BY <3>1, <3>2, Zenon
  <2> QED BY <1>12, <2>2, Zenon DEF EnforceBestChainLock, TypeOK, ChainInv, NeverMarkedActive, LockInv, sporks, chain, active, locks
<1>13. ASSUME EnforceBlock PROVE IInv'
  <2>1. ThreadInv("sched") /\ UNCHANGED known /\ thread["sched"].pc = "block" /\ Goto("sched", "activate")
    BY <1>0, <1>13, Zenon DEF EnforceBlock
  <2>2. thread' \in [Threads -> ThreadState] /\ \A u \in Threads : ThreadInv(u)'
    <3> DEFINE r == [thread["sched"] EXCEPT !.pc = "activate"]
    <3>1. r \in ThreadState /\ thread' = [thread EXCEPT !["sched"] = r] /\ r.pc = "activate"
          /\ r.ok = thread["sched"].ok /\ r.sig = thread["sched"].sig /\ r.index = thread["sched"].index
      BY <1>0, <2>1 DEF Goto, ThreadState
    <3> HIDE DEF r
    <3> QED BY <1>0, <2>1, <3>1, MoveOn, Zenon DEF ThreadInv
  <2>3. thread["sched"].index \in Blocks /\ tip \in Blocks /\ Anc[tip] \subseteq data /\ NeverMarkedActive /\ data \subseteq known
    BY <1>0, <2>1, Zenon DEF ThreadInv, TypeOK, ChainInv
  <2>4. /\ tip' \in Anc[tip] /\ Anc[tip'] \cap (failed' \cup conflict') = {}
        /\ failed' \subseteq failed /\ conflict' \subseteq conflict \cup known \cup Anc[tip]
    BY <1>0, <1>13, <2>3, EnforceIsClean, Zenon
  <2>5. Anc[tip'] \subseteq Anc[tip]
    BY <2>3, <2>4, AncFacts, Zenon
  <2> QED BY <1>13, <2>2, <2>3, <2>4, <2>5, Zenon DEF EnforceBlock, TypeOK, ChainInv, NeverMarkedActive, LockInv, sporks, active, locks
<1>14. ASSUME EnforceActivate PROVE IInv'
  <2>1. UNCHANGED <<known, data, conflict>> /\ AfterEnforce
    BY <1>14, Zenon DEF EnforceActivate
  <2>2. thread' \in [Threads -> ThreadState] /\ \A u \in Threads : ThreadInv(u)'
    BY <1>11, <2>1, Zenon
  <2>3. IsFiniteSet(data) /\ tip \in data /\ data \subseteq known /\ failed \subseteq known /\ Anc[tip] \subseteq data /\ NeverMarkedActive
    BY Zenon DEF TypeOK, ChainInv
  <2>4. tip' \in data /\ Anc[tip'] \subseteq data /\ Anc[tip'] \cap (failed' \cup conflict) = {} /\ failed' \subseteq known
    <3>1. CASE UNCHANGED <<tip, failed>>
      BY <2>3, <3>1, Zenon DEF NeverMarkedActive
    <3>2. CASE ActivateBestChain(data)
      BY <1>0, <2>3, <3>2, ActivateIsClean, Zenon
    <3> QED BY <1>14, <3>1, <3>2, Zenon DEF EnforceActivate
  <2> QED BY <1>14, <2>1, <2>2, <2>3, <2>4, Zenon DEF EnforceActivate, TypeOK, ChainInv, NeverMarkedActive, LockInv, sporks, active, locks
<1>15. ASSUME NEW gone \in SUBSET seenChainLocks, TrySignChainTip(gone) PROVE IInv'
  <2>1. ThreadInv("sched") /\ UNCHANGED known /\ tip \in known /\ thread["sched"].pc = "try"
    BY <1>0, <1>15, Zenon DEF TrySignChainTip, chain, TypeOK
  <2>2. thread' \in [Threads -> ThreadState] /\ \A u \in Threads : ThreadInv(u)'
    <3>1. CASE Finish("sched")
      BY <1>0, <2>1, <3>1, IdleMoves, MoveOn, Zenon DEF Finish
    <3>2. CASE ~Finish("sched")
      <4> DEFINE r == [thread["sched"] EXCEPT !.pc = "sign", !.index = tip]
      <4>1. r \in ThreadState /\ thread' = [thread EXCEPT !["sched"] = r] /\ r.pc = "sign"
            /\ r.ok = thread["sched"].ok /\ r.sig = thread["sched"].sig /\ r.index = tip
        <5>1. thread["sched"] \in ThreadState /\ tip \in Blocks
          BY <1>0, <2>1, Zenon
        <5>2. thread' = [thread EXCEPT !["sched"] = r]
          BY <1>15, <3>2, Zenon DEF TrySignChainTip
        <5> QED BY <5>1, <5>2, Zenon DEF ThreadState, Lock
      <4> HIDE DEF r
      <4> QED BY <1>0, <2>1, <4>1, MoveOn, Zenon DEF ThreadInv
    <3> QED BY <3>1, <3>2, Zenon
  <2> QED BY <1>15, <2>2, Zenon DEF TrySignChainTip, TypeOK, ChainInv, NeverMarkedActive, LockInv, sporks, chain, active, locks
<1>16. ASSUME NotSafe \/ SignChainTip PROVE IInv'
  <2>1. UNCHANGED known /\ Finish("sched") /\ ThreadInv("sched")
    BY <1>0, <1>16, Zenon DEF NotSafe, SignChainTip, chain
  <2>2. thread' \in [Threads -> ThreadState] /\ \A u \in Threads : ThreadInv(u)'
    BY <1>0, <2>1, IdleMoves, MoveOn, Zenon DEF Finish
  <2>3. lastSigned' \in Lock
    BY <1>0, <1>16, <2>1, Zenon DEF NotSafe, SignChainTip, ThreadInv, Lock, TypeOK
  <2> QED BY <1>16, <2>2, <2>3, Zenon DEF NotSafe, SignChainTip, TypeOK, ChainInv, NeverMarkedActive, LockInv, sporks, chain, active, locks
<1>17. ASSUME NEW v \in Sporks, ToggleSpork(v) PROVE IInv'
  <2>1. toggles' \in 0..MaxToggles
    BY <1>17, LocksAssumption DEF ToggleSpork, TypeOK
  <2>2. \A u \in Threads : ThreadInv(u)'
    BY <1>0, <1>17, Zenon DEF ToggleSpork, ThreadInv, chain
  <2> QED BY <1>17, <2>1, <2>2, Zenon DEF ToggleSpork, TypeOK, ChainInv, NeverMarkedActive, LockInv, chain, active, locks
<1>18. ASSUME NEW b \in Blocks \ {Root}, AcceptBlockHeader(b) PROVE IInv'
  <2>1. \A u \in Threads : ThreadInv(u)'
    BY <1>0, <1>18, Zenon DEF AcceptBlockHeader, ThreadInv
  <2>2. conflict' \subseteq conflict \cup {b} /\ b \notin data /\ known' = known \cup {b}
    BY <1>18, Zenon DEF AcceptBlockHeader, TypeOK
  <2>3. bestChainLockBlockIndex' = bestChainLockBlockIndex \/ (b = bestChainLock /\ bestChainLockBlockIndex' = b)
    BY <1>18, Zenon DEF AcceptBlockHeader
  <2>4. bestChainLockBlockIndex' \in Signed \cup {None} /\ bestChainLockBlockIndex' \in known' \cup {None}
    BY <1>0, <2>2, <2>3, Zenon DEF LockInv, TypeOK
  <2> QED BY <1>18, <2>1, <2>2, <2>4 DEF AcceptBlockHeader, TypeOK, ChainInv, NeverMarkedActive, LockInv, sporks, active
<1>19. ASSUME NEW b \in Blocks, ProcessNewBlock(b) PROVE IInv'
  <2> DEFINE D == data \cup {b}
  <2>1. data' = D /\ ActivateBestChain(D) /\ b \in known /\ UNCHANGED <<known, conflict, thread>>
    BY <1>19, Zenon DEF ProcessNewBlock
  <2>2. D \in SUBSET Blocks /\ IsFiniteSet(D) /\ D \subseteq known /\ failed \subseteq known /\ tip \in D /\ Anc[tip] \subseteq D /\ NeverMarkedActive
    BY <1>0, <2>1, FS_AddElement, Zenon DEF TypeOK, ChainInv
  <2> HIDE DEF D
  <2>3. tip' \in D /\ Anc[tip'] \subseteq D /\ Anc[tip'] \cap (failed' \cup conflict) = {} /\ failed' \subseteq known
    BY <1>0, <2>1, <2>2, ActivateIsClean, Zenon
  <2>4. \A u \in Threads : ThreadInv(u)'
    BY <1>0, <2>1, Zenon DEF ThreadInv
  <2> QED BY <1>19, <2>1, <2>2, <2>3, <2>4, Zenon DEF ProcessNewBlock, TypeOK, ChainInv, NeverMarkedActive, LockInv, sporks, active, locks
<1>20. CASE UNCHANGED vars
  BY <1>20, Zenon DEF vars, sporks, chain, active, locks, TypeOK, ChainInv, NeverMarkedActive, LockInv, ThreadInv
<1>21. ASSUME SchedStep PROVE IInv'
  BY <1>0, <1>1, <1>2, <1>3, <1>4, <1>12, <1>13, <1>14, <1>15, <1>16, <1>21, Zenon DEF SchedStep
<1>22. ASSUME NEW t \in {"msg", "worker"}, Process(t) PROVE IInv'
  BY <1>0, <1>1, <1>2, <1>3, <1>4, <1>7, <1>8, <1>9, <1>22, Zenon DEF Process
<1>23. ASSUME NEW b \in Signed, ReceiveCLSIG(b, TRUE) PROVE IInv'
  BY <1>0, <1>5, <1>23, Zenon
<1>24. ASSUME NEW b \in Forged, ReceiveCLSIG(b, FALSE) PROVE IInv'
  BY <1>5, <1>24, LocksAssumption, Zenon
<1> HIDE DEF IInv
<1> QED BY <1>6, <1>10, <1>17, <1>18, <1>19, <1>20, <1>21, <1>22, <1>23, <1>24, Zenon DEF Next

\* The invariant holds throughout, and with it the type invariant and what the handler
\* carries from step to step.
THEOREM ChainLocksInvariant == Spec => []IInv
<1>1. Init => IInv
  BY InitInv, Zenon
<1>2. IInv /\ [Next]_vars => IInv'
  BY NextInv, Zenon
<1> QED BY <1>1, <1>2, PTL DEF Spec

\* No block of the active chain carries a mark, whatever the tree, the locks and the order
\* in which headers, blocks and CLSIGs arrive (MarkConflictingBlock, ActivateBestChain).
THEOREM NeverMarkedActiveThm == Spec => []NeverMarkedActive
<1>1. IInv => NeverMarkedActive
  BY Zenon DEF IInv, ChainInv
<1> QED BY <1>1, ChainLocksInvariant, PTL

-----------------------------------------------------------------------------
(* The locked block stays. *)

StaysStep ==
    (/\ isEnforced /\ isEnforced'
     /\ bestChainLockBlockIndex \in Anc[tip] /\ bestChainLockBlockIndex' = bestChainLockBlockIndex)
    => bestChainLockBlockIndex \in Anc[tip']

\* ActivateBestChain with more blocks on disk keeps the block of the lock.
LEMMA ActivateStays ==
  ASSUME IInv, NEW D \in SUBSET Blocks, IsFiniteSet(D), data \subseteq D, ActivateBestChain(D),
         isEnforced, bestChainLockBlockIndex \in Anc[tip]
  PROVE  bestChainLockBlockIndex \in Anc[tip']
<1>1. tip \in Blocks /\ bestChainLockBlockIndex \in Blocks /\ bestChainLockBlockIndex # None
  BY AncFacts, LocksAssumption, Zenon DEF IInv, TypeOK
<1>2. LockActive(D)
  BY <1>1, Zenon DEF LockActive, IInv, TypeOK, ChainInv, NeverMarkedActive
<1>3. PICK s \in ActivateRun(D)[Cardinality(D)] : Anc[tip'] = s.line
  BY Zenon DEF ActivateBestChain
<1> QED BY <1>2, <1>3, ActivateKeepsLock, Zenon

\* A step of the scheduler or of a thread that processes a CLSIG.
LEMMA ThreadStays ==
  ASSUME SignedOnOneChain, IInv, SchedStep \/ \E t \in {"msg", "worker"} : Process(t)
  PROVE  StaysStep
<1> SUFFICES ASSUME isEnforced, bestChainLockBlockIndex \in Anc[tip] PROVE bestChainLockBlockIndex \in Anc[tip']
  BY Zenon DEF StaysStep
<1> DEFINE L == bestChainLockBlockIndex
<1>1. tip \in Blocks /\ L \in Blocks /\ L # None /\ L \in Signed
  BY AncFacts, LocksAssumption, Zenon DEF IInv, TypeOK, LockInv
<1>2. CASE EnforceBlock
  <2>1. /\ thread["sched"].index \in Signed /\ thread["sched"].index \in Blocks
        /\ NeverMarkedActive /\ known \subseteq Blocks
    BY <1>2, LocksAssumption, Zenon DEF EnforceBlock, IInv, TypeOK, LockInv, ThreadInv, Threads, ChainInv
  <2>2. L \in Anc[thread["sched"].index] \/ thread["sched"].index \in Anc[L]
    BY <1>1, <2>1, Zenon DEF SignedOnOneChain
  <2> QED BY <1>1, <1>2, <2>1, <2>2, EnforceIsClean, Zenon
<1>3. CASE EnforceActivate
  <2>1. CASE ActivateBestChain(data)
    BY <2>1, ActivateStays, Zenon DEF IInv, TypeOK, ChainInv
  <2>2. CASE UNCHANGED tip
    BY <2>2, Zenon
  <2> QED BY <1>3, <2>1, <2>2, Zenon DEF EnforceActivate
<1>4. CASE ~EnforceBlock /\ ~EnforceActivate
  <2>1. UNCHANGED tip
    BY <1>4, Zenon DEF SchedStep, Process, CheckActiveState, CheckActiveSet, CheckActiveSetEnforced, CheckActiveReset,
                EnforceBestChainLock, TrySignChainTip, NotSafe, SignChainTip, ProcessNewChainLock, ProcessVerify,
                ProcessStore, chain
  <2> QED BY <2>1, Zenon
<1> QED BY <1>2, <1>3, <1>4, Zenon

\* Every step.
LEMMA StepStays ==
  ASSUME SignedOnOneChain, IInv, [Next]_vars
  PROVE  StaysStep
<1>1. ASSUME NEW b \in Blocks, ProcessNewBlock(b) PROVE StaysStep
  <2>1. data \cup {b} \in SUBSET Blocks /\ IsFiniteSet(data \cup {b}) /\ ActivateBestChain(data \cup {b})
    BY <1>1, FS_AddElement, Zenon DEF ProcessNewBlock, IInv, TypeOK, ChainInv
  <2> QED BY <2>1, ActivateStays, Zenon DEF StaysStep
<1>2. CASE SchedStep \/ \E t \in {"msg", "worker"} : Process(t)
  BY <1>2, ThreadStays, Zenon
<1>3. CASE \/ \E b \in Blocks \ {Root} : AcceptBlockHeader(b)
           \/ \E b \in Signed : ReceiveCLSIG(b, TRUE)
           \/ \E b \in Forged : ReceiveCLSIG(b, FALSE)
           \/ HandleNewRecoveredSig
           \/ \E try \in BOOLEAN : StartJob(try)
           \/ \E v \in Sporks : ToggleSpork(v)
           \/ UNCHANGED vars
  <2>1. UNCHANGED tip
    BY <1>3, Zenon DEF AcceptBlockHeader, ReceiveCLSIG, HandleNewRecoveredSig, StartJob, ToggleSpork, vars, chain
  <2> QED BY <2>1, Zenon DEF StaysStep
<1> QED BY <1>1, <1>2, <1>3, Zenon DEF Next

\* If the quorums lock one chain only, then no step leaves the block of an enforced lock
\* that is active, however many blocks of however many forks arrive (ConnectBlock,
\* ActivateBestChain, EnforceBlock).
THEOREM LockedBlockStaysThm ==
  ASSUME SignedOnOneChain
  PROVE  Spec => LockedBlockStays
<1>1. IInv /\ [Next]_vars => [StaysStep]_vars
  BY StepStays, Zenon
<1>2. Spec => [][StaysStep]_vars
  BY <1>1, ChainLocksInvariant, PTL DEF Spec
<1> QED BY <1>2, Zenon DEF LockedBlockStays, StaysStep
=============================================================================
