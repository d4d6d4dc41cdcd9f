------------------------------ MODULE MCChainSync ------------------------------
(* Instances of ChainSync: chains of a trunk and at most one branch.         *)
EXTENDS ChainSync

CONSTANT MaxNum   \* bound: length of the longest chain

\* n blocks of the trunk, then m of a branch.
Branch(n, m) == [i \in 1..(n + m) |-> IF i <= n THEN "a" ELSE "b"]
MCBlocks == {Branch(n, m) : n \in 0..MaxNum, m \in 0..MaxNum}
            \cap UNION {[1..k -> {"a", "b"}] : k \in 1..MaxNum}
================================================================================
