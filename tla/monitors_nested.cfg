\* Contract code modifies an object while it modifies another of its table.
CONSTANTS
    Monitors = {m1}
    Tables = {t1}
    Ids = {1, 2}
    Values = {u, v}
    None = None
    MaxNesting = 2
    MayNestInTable = TRUE
SPECIFICATION Spec
INVARIANTS SubscribersKeepUp
CHECK_DEADLOCK FALSE
