\* Every exit is orderly; contracts accept, or reject before or after they
\* have registered their code.
CONSTANTS
    Plugins = {"voting.so", "voting2.so", "market"}
    Contracts = {"voting", "market"}
    NameOf <- MCNameOf
    FIRST_AVAILABLE_SPACE_ID = 3
    SpaceModulus = 8
    NoContract = NoContract
    InitOutcomes = {"accept", "reject"}
    LateFailures = TRUE
    Geneses = {"genesis"}
    NoGenesis = NoGenesis
    KillPhases = {}
    UnloadUnmaps = FALSE
SPECIFICATION Spec
INVARIANTS TypeOK NoLibraryForgotten MonitorsFollowContracts SpacesAreForContracts SpacesAreShared
PROPERTIES AssignmentIsConsistent
