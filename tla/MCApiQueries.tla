----------------------------- MODULE MCApiQueries -----------------------------
EXTENDS ModuleTree

\* One string is a prefix of the other.
a == <<"a">>
ab == <<"a", "b">>

MCModules == {"node", "chain", "index"}
MCMayContain == [m \in MCModules |-> CASE m = "node" -> {"chain", "index"}
                                       [] m = "chain" -> {"index"}
                                       [] m = "index" -> {}]
MCCategorizations == {<<>>, <<a>>, <<ab>>, <<a, a>>}
MCNames == {a, ab}
================================================================================
