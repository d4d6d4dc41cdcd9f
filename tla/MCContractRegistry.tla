-------------------------- MODULE MCContractRegistry --------------------------
(* Instances of ContractRegistry: three libraries, two of them copies of one *)
(* contract.                                                                  *)
EXTENDS ContractRegistry

MCNameOf == [p \in Plugins |-> IF p = "voting.so" THEN "voting"
                               ELSE IF p = "voting2.so" THEN "voting"
                               ELSE p]
================================================================================
