SPECIFICATION Spec
CONSTANTS
    IllFormed = IllFormed
    Modules <- MCModules
    Root = "node"
    MayContain <- MCMayContain
    Categorizations <- MCCategorizations
    Names <- MCNames
    Characters = {"a", "b", "/"}
    Capacity = 5
    MaxProgram = 6
INVARIANTS
    ListsObeyReference
    SplitFindsWords
    WalkVisitsEveryPath
    PathsLeadToModules
    MoreSpecificMatchesLess
    AllocatesTheOneNamed
CHECK_DEADLOCK FALSE
