\* Two libraries of a contract with two tables; modifications within each
\* other are of different tables.
CONSTANTS
    Monitors = {m1, m2}
    Tables = {t1, t2}
    Ids = {1, 2}
    Values = {u, v}
    None = None
    MaxNesting = 2
    MayNestInTable = FALSE
SYMMETRY Symmetry
SPECIFICATION Spec
INVARIANTS TypeOK SubscribersKeepUp
PROPERTIES ChangesStartWhereTheLastEnded SilentOnceDestroyed
CHECK_DEADLOCK FALSE
