SPECIFICATION SporkSpec
CONSTANTS
  k1 = k1
  k2 = k2
  k3 = k3
  s1 = s1
  SporkIds = {s1}
  Signers = {k1, k2, k3}
  NoKey = NoKey
  NoValue = NoValue
  Askers = {r1}
  Values <- MCValues
  sporkDefs <- MCsporkDefs
  Configs <- MCConfigs
  MaxClock = 1
  FutureLimit = 0
  MaxMsgs = 3
SYMMETRY Symmetry
INVARIANT CachedActiveFresh
