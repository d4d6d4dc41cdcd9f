\* Every database with chains of at most five blocks that part once.
CONSTANTS
    MaxNum = 5
    Blocks <- MCBlocks
    Threw = Threw
    MaxAfter = 4
    Limits = {1, 2, 4}
SPECIFICATION Spec
CHECK_DEADLOCK FALSE
INVARIANTS SynopsisSummarises SynopsisIsShort ReplyContinuesSynopsis ReachableForksMeet
