SPECIFICATION MCSpec
CONSTANTS
  i1 = i1
  m1 = m1
  m2 = m2
  q1 = q1
  q2 = q2
  None = None
  Absent = Absent
  Ids = {i1}
  MsgHashes = {m1, m2}
  Quorums = {q1}
  RecSigs <- MCDbSigs
  Forged <- MCForged
  Peers = {p1}
  Callers = {c1, c2}
  Readers = {t1}
  MaxAge = 0
  MaxTime = 2
  MaxSigned = 3
  k1 = k1
  k2 = k2
  k3 = k3
  s1 = s1
  SporkIds = {s1}
  Signers = {k1, k2, k3}
  NoKey = NoKey
  NoValue = NoValue
  Askers = {r1}
  Values <- MCValues
  sporkDefs <- MCsporkDefs
  Configs <- MCConfigs
  MaxClock = 1
  FutureLimit = 0
  MaxMsgs = 3
  a = a
  b = b
  oa = oa
  ob = ob
  la = la
  lb = lb
  mn1 = mn1
  mn2 = mn2
  Q1 = Q1
  Q2 = Q2
  NoTx = NoTx
  Masternodes = {mn1, mn2}
  Faulty = {}
  Inputs = {oa, ob}
  Payments = {a, b}
  vin <- MCvin
  LockIds = {la, lb}
  GetRequestId <- MCGetRequestId
  Llmqs = {Q1}
  IsValidMember <- MCBothMembers
  threshold = 2
  MaxHeight = 0
  SelectQuorum <- MCSelectQuorum
SYMMETRY Symmetry
INVARIANTS  VoteIndexed IndexConsistent OnlyVerified CachedValueFresh ThresholdSafety  NoConflictingLocks
