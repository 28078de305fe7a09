SPECIFICATION LiveSpec
CONSTANTS
  i1 = i1
  m1 = m1
  m2 = m2
  q1 = q1
  q2 = q2
  None = None
  Absent = Absent
  Ids = {i1}
  MsgHashes = {m1, m2}
  Quorums = {q1}
  RecSigs <- MCVoteSigs
  Forged = {}
  Peers = {p1}
  Callers = {c1}
  Readers = {t1}
  MaxAge = 0
  MaxTime = 1
  MaxSigned = 1
PROPERTY ReconstructedStored
