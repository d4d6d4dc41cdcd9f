\* Forks, blocks that fail or arrive out of order, and new connections.
CONSTANTS
    MaxNum = 4
    Blocks <- MCBlocks
    Threw = Threw
    None = None
    Limit = 2
    PeerMayFork = TRUE
    PushMayFail = TRUE
    InOrder = FALSE
    MayReconnect = TRUE
SPECIFICATION Spec
INVARIANTS TypeOK SyncLeavesNoGap
PROPERTIES RepliesContinue RefusedOnlyBeyondUndo
CHECK_DEADLOCK FALSE
