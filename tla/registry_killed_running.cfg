\* The process is killed while it runs, before ~ChainHandler saves the records.
CONSTANTS
    Plugins = {"voting", "market"}
    Contracts = {"voting", "market"}
    NameOf <- MCNameOf
    FIRST_AVAILABLE_SPACE_ID = 3
    SpaceModulus = 8
    NoContract = NoContract
    InitOutcomes = {"accept"}
    LateFailures = FALSE
    Geneses = {"genesis"}
    NoGenesis = NoGenesis
    KillPhases = {"up"}
    UnloadUnmaps = FALSE
SPECIFICATION Spec
PROPERTIES AssignmentIsConsistent
