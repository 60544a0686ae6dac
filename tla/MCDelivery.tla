---------------------------- MODULE MCDelivery -----------------------------
(***************************************************************************)
(* The money of the deliveries, and the couriers who carry them, on small      *)
(* instances: a behaviour is that of one of them (part), and the other keeps   *)
(* its initial state.                                                          *)
(***************************************************************************)
EXTENDS Delivery, Couriers, TLC

CONSTANTS
  r1,    \* one of the requests
  c2, t1 \* one of the couriers, and the till

VARIABLE part

Symmetry == Permutations(Orders) \cup Permutations(Agents)

-----------------------------------------------------------------------------
(* The money of two orders while one request is at work at a time and returns      *)
(* are of whole invoices, or of parts of the only one; and two requests that race  *)
(* on one order                                                                     *)
OneRequest ==
  /\ \A r \in Requests \ {r1} : At(r, "idle")
  /\ \A o, p \in Orders : invoice[o].returned = 1 /\ invoice[p] # NoInvoice => o = p
OneOrder == \A o, p \in Orders : invoice[o] = NoInvoice \/ invoice[p] = NoInvoice \/ o = p

(* Two couriers and the office ..                                                *)
Assigning == desk[t1] = NoCall /\ desk[c2] = NoCall /\ keys <= 1

(* .. and one courier, whose parcels a till sells as well                        *)
Selling == courier[c2] = NoAgent

DeliveryInit ==
  /\ Init /\ CouriersInit
  /\ part \in {"money", "racing", "assigning", "selling"}

DeliveryNext ==
  /\ \/ part = "money" /\ Next /\ OneRequest' /\ UNCHANGED courierVars
     \/ part = "racing" /\ Next /\ OneOrder' /\ UNCHANGED courierVars
     \/ part = "assigning" /\ CouriersNext /\ Assigning' /\ UNCHANGED vars
     \/ part = "selling" /\ CouriersNext /\ Selling' /\ UNCHANGED vars
  /\ UNCHANGED part

deliveryVars == <<part, vars, courierVars>>

DeliverySpec == DeliveryInit /\ [][DeliveryNext]_deliveryVars
=============================================================================
