---------------------------- MODULE MCTableMonitors ----------------------------
(* Instances of TableMonitors.                                               *)
EXTENDS TableMonitors, TLC

Symmetry == Permutations(Values) \cup Permutations(Monitors)
================================================================================
