CONSTANTS
    Peers = {p1, p2}
    Outbound = {p1}
    NoBan = {p2}
    Blocks <- MCBlocks
    Root = 0
    RootHeight = 0
    Parent <- MCParent
    Ancestors <- MCAncestors
    Invalid = {26}
    Recent = {5}
    Tips = {4, 5, 26}
    nMinimumChainWork = 5
    MAX_HEADERS_RESULTS = 2
    MAX_BLOCKS_TO_ANNOUNCE = 2
    COMMITMENT_PERIOD = 2
    MAX_PRESYNC_PEERS = 2
    MaxCommitments = 3
    MaxQueue = 2
    MaxSyncStarted = 3
    MaxFaults = 1
    Resting = {p2}
    None = None
SPECIFICATION FairSpec
INVARIANTS CommitmentsBind SlotsCovered
 
CHECK_DEADLOCK FALSE
