\* One peer on our chain that goes on growing, over one connection.
CONSTANTS
    MaxNum = 7
    Blocks <- MCBlocks
    Threw = Threw
    None = None
    Limit = 3
    PeerMayFork = FALSE
    PushMayFail = FALSE
    InOrder = TRUE
    MayReconnect = FALSE
SPECIFICATION FairSpec
INVARIANTS SyncBlocksLink AsksFromTip
PROPERTIES CatchesUp
CHECK_DEADLOCK FALSE
