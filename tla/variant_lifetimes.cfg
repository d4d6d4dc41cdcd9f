\* Three variants; every constructor of strings may throw.
CONSTANTS
    Variants = {"a", "b", "other"}
    List <- MCList
    Tags <- MCTags
    Values = {1, 2}
    Moved = 0
    Throwing = {"string"}
    None = None
SPECIFICATION Spec
INVARIANTS TypeOK TagTellsType ComparisonsAgree
PROPERTIES UndefinedOnlyAfterThrow
CHECK_DEADLOCK FALSE
