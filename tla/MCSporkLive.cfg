SPECIFICATION SporkFairSpec
CONSTANTS
  k1 = k1
  k2 = k2
  k3 = k3
  s1 = s1
  SporkIds = {s1}
  Signers = {k1, k2}
  NoKey = NoKey
  NoValue = NoValue
  Askers = {r1}
  Values <- MCLiveValues
  sporkDefs <- MCsporkDefs
  Configs <- MCLiveConfigs
  MaxClock = 1
  FutureLimit = 0
  MaxMsgs = 3
PROPERTY MessageTakesEffect
