---------------------------- MODULE CompanyStock ----------------------------
(***************************************************************************)
(* What the stock documents promise the company as a whole: it owns a        *)
(* quantity of each product at one moving average cost.  Goods bought or     *)
(* returned at a cost weigh it into the average; everything else (sales,     *)
(* counts, losses, and transfers between warehouses, which leave what is     *)
(* owned as it is unless something is missing on arrival) leaves the         *)
(* average alone.                                                            *)
(***************************************************************************)
EXTENDS Integers, UnitSums

CONSTANTS Products, UnitCosts

VARIABLES owned, average

Init ==
  /\ owned = [p \in Products |-> 0]
  /\ average = [p \in Products |-> 0]

(* The average once quantity units join those owned at a cost of cost each *)
Weighed(quantity, avg, more, cost) ==
  IF quantity <= 0 THEN cost
  ELSE RoundedQuotient(quantity * avg + more * cost, quantity + more)

MoveAtAverage(p) == average'[p] = average[p]

BringIn(p) ==
  /\ owned'[p] > owned[p]
  /\ \E cost \in UnitCosts :
       average'[p] = Weighed(owned[p], average[p], owned'[p] - owned[p], cost)

Next ==
  /\ owned' \in [Products -> Int]
  /\ average' \in [Products -> UnitCosts]
  /\ \A p \in Products : MoveAtAverage(p) \/ BringIn(p)

Spec == Init /\ [][Next]_<<owned, average>>
=============================================================================
