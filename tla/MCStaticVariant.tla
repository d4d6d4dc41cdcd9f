---------------------------- MODULE MCStaticVariant ----------------------------
(* Instances of StaticVariant: two variants of one list, one of another that *)
(* has one type in common with it.                                           *)
EXTENDS StaticVariant

MCList == [v \in Variants |-> IF v = "other" THEN <<"string", "vector">>
                                            ELSE <<"int", "string">>]
MCTags == -1..2
================================================================================
