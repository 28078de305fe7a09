CONSTANTS
    Blocks = {"g", "a", "b", "c", "d"}
    Root = "g"
    RootHeight = 2
    Parent <- MCParent
    Ancestors <- MCAncestors
    Txs <- MCTxs
    Outs = {1, 2, 3, 4, 5}
    NoBlock = "none"
    DIP0003Height = 2
    RecoveryDepth = 1
    CheckDepth = 2
    FailingWrites = {"index", "evo", "replay", "commit"}
    MaxCrashes = 2
    MaxIOErrors = 0
SPECIFICATION Spec
INVARIANT RecoveredTipKept
