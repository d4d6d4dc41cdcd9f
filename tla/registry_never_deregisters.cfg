\* A contract fails after it has registered its code with the chain.
CONSTANTS
    Plugins = {"voting", "market"}
    Contracts = {"voting", "market"}
    NameOf <- MCNameOf
    FIRST_AVAILABLE_SPACE_ID = 3
    SpaceModulus = 8
    NoContract = NoContract
    InitOutcomes = {"accept", "reject"}
    LateFailures = TRUE
    Geneses = {"genesis"}
    NoGenesis = NoGenesis
    KillPhases = {}
    UnloadUnmaps = TRUE
SPECIFICATION Spec
INVARIANTS CalledCodeIsLoaded
