CONSTANTS
    Blocks = {"g", "a", "b", "c", "d"}
    Root = "g"
    RootHeight = 2
    Parent <- MCParent
    Ancestors <- MCAncestors
    Txs <- MCTxs
    Outs = {1, 2, 3, 4, 5}
    NoBlock = "none"
    DIP0003Height = 2
    RecoveryDepth = 1
    CheckDepth = 2
    FailingWrites = {"index", "evo", "replay", "commit"}
    MaxCrashes = 3
    MaxIOErrors = 1
    Keys = {1, 2, 3}
    Values = {v1}
    Absent = absent
    OutPoints = {o1, o2}
    Coins = {c1, c2}
    Spent = spent
SPECIFICATION MCSpec
INVARIANTS CoinsMatchHeads RunsOnItsTip  EvoDBBehindCoins NoFalseAlarm IteratorAgrees NoLogicError FlagsMeanWhatTheySay
PROPERTIES  TipSpec MapSpec CoinsMapSpec
