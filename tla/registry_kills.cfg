\* Contracts end in any way, there is one space fewer than contracts, and the
\* process may be killed at any time but between the two saves of ~ChainHandler.
CONSTANTS
    Plugins = {"voting.so", "voting2.so", "market"}
    Contracts = {"voting", "market"}
    NameOf <- MCNameOf
    FIRST_AVAILABLE_SPACE_ID = 1
    SpaceModulus = 2
    NoContract = NoContract
    InitOutcomes = {"accept", "reject", "throwFc", "throwOther"}
    LateFailures = FALSE
    Geneses = {"first", "second"}
    NoGenesis = NoGenesis
    KillPhases = {"boot", "up", "terminate", "libraries", "monitors", "chain"}
    UnloadUnmaps = TRUE
SPECIFICATION Spec
INVARIANTS DiskDatabasesAgree CalledCodeIsLoaded SameChain
PROPERTIES SavedRecordsStay ObjectsSurvive
