---------------------------- MODULE SpaceAssignment ----------------------------
(***************************************************************************)
(* What the contract registry promises to the contracts.  The comment on   *)
(* ContractRecord says that a record exists "to consistently assign object *)
(* space IDs": once a contract has been told its space it is never told    *)
(* another one, and no two contracts are ever told the same space.         *)
(***************************************************************************)

CONSTANTS Contracts,  \* names of contracts
          SpaceIds    \* object space IDs a contract may be given

VARIABLE assigned     \* the pairs <<contract, space>> handed out so far

Init == assigned = {}

\* A contract without a space is given one that nobody else has.
Assign(c, s) ==
    /\ \A a \in assigned : a[1] # c /\ a[2] # s
    /\ assigned' = assigned \cup {<<c, s>>}

Next == \E c \in Contracts, s \in SpaceIds : Assign(c, s)

Spec == Init /\ [][Next]_assigned
================================================================================
