\* Two plugins, four signals of any kind, two tasks waiting at most.
CONSTANTS
    Plugins = {p1, p2}
    MaxSignals = 4
    MaxTasks = 2
SPECIFICATION FairSpec
INVARIANTS TypeOK CallsFindTheChain
PROPERTIES SigintEndsTheNode SearchesAreServed
CHECK_DEADLOCK FALSE
