------------------------------ MODULE MCShops ------------------------------
(***************************************************************************)
(* Sales, warehouses that are stopped and removed, and branches, on small     *)
(* instances: a behaviour is that of one of them (part), and the others keep   *)
(* their initial state.                                                        *)
(***************************************************************************)
EXTENDS Sales, WarehouseRemoval, Branches

VARIABLE part

ShopsInit ==
  /\ Init /\ RemovalInit /\ BranchesInit
  /\ part \in {"sales", "warehouses", "branches"}

ShopsNext ==
  /\ \/ part = "sales" /\ Next /\ UNCHANGED <<removalVars, branchVars>>
     \/ part = "warehouses" /\ RemovalNext /\ UNCHANGED <<vars, branchVars>>
     \/ part = "branches" /\ BranchesNext /\ UNCHANGED <<vars, removalVars>>
  /\ UNCHANGED part

ShopsSpec == ShopsInit /\ [][ShopsNext]_<<part, vars, removalVars, branchVars>>
=============================================================================
