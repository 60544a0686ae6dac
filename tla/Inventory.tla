------------------------------ MODULE Inventory ------------------------------
(***************************************************************************)
(* The stock ledger of one company: StockService.apply, the single entry    *)
(* through which every document changes a balance, and the documents that   *)
(* call it (adjustments, purchases, sales, returns, stocktakes and the      *)
(* three-step transfer between warehouses).                                 *)
(*                                                                          *)
(* One action is one committed database transaction.  That is the code's    *)
(* own granularity: applyOne takes the item row FOR UPDATE before it reads  *)
(* a balance and keeps it to the commit, a transfer is worked on under its  *)
(* own row lock, and a failed line rolls the whole document back.  That the *)
(* statements of several clients amount to this is module                   *)
(* StockTransactions; how warehouses come and go under the documents is     *)
(* module WarehouseRemoval.                                                 *)
(***************************************************************************)
EXTENDS Integers, Sequences, FiniteSets, UnitSums

CONSTANTS
  Warehouses,      \* active warehouses of the company
  Products,        \* stocked products
  Transfers,       \* transfer documents
  NegativeAllowed, \* the warehouses with allowNegativeStock
  Costs,           \* unit costs a document may bring in
  MaxCost,         \* the largest of them
  MaxQty,          \* bound: the largest quantity on a document line
  MaxMovements,    \* bound: ledger rows kept per warehouse and product
  NoTransfer       \* referenceId of a movement that belongs to no transfer

ASSUME InventoryAssumption ==
  /\ IsFiniteSet(Warehouses) /\ Warehouses # {}
  /\ IsFiniteSet(Transfers)
  /\ NegativeAllowed \subseteq Warehouses
  /\ MaxCost \in Nat
  /\ Costs \subseteq 0..MaxCost
  /\ MaxQty \in Nat
  /\ MaxMovements \in Nat
  /\ NoTransfer \notin Transfers

VARIABLES
  level,     \* stock_levels: quantity per warehouse and product
  avgCost,   \* inventory_items.avgCost per product
  inTransit, \* inventory_items.inTransitQuantity per product
  movements, \* stock_movements: the rows of one warehouse and product, in order
  transfer   \* stock_transfers with their lines

stock == <<level, avgCost, movements>>
vars == <<level, avgCost, inTransit, movements, transfer>>

-----------------------------------------------------------------------------
NoCost == -1
Free == [p \in Products |-> NoCost]

MovementTypes == {"opening", "purchase", "purchase_return", "sale", "sale_return",
                  "transfer_out", "transfer_in", "adjustment", "stocktake"}

(* One row of the ledger.  fromPos tells a till sale, the one document that   *)
(* asks apply for allowNegative; in the database it is the source column of   *)
(* the invoice the row refers to.                                             *)
Movement == [type : MovementTypes, quantity : Int, unitCost : 0..MaxCost, balanceAfter : Int,
             fromPos : BOOLEAN, transfer : Transfers \cup {NoTransfer}]

Document(type) == [type |-> type, fromPos |-> FALSE, transfer |-> NoTransfer]

(* The lines of a document: a quantity per product, 0 for a product not on it. *)
Quantities == [Products -> 0..MaxQty]
Empty == [p \in Products |-> 0]
Lines == Quantities \ {Empty}
Out(lines) == [p \in Products |-> -lines[p]]

Statuses == {"none", "draft", "in_transit", "received", "cancelled"}
TransferRow == [status : Statuses, from : Warehouses, to : Warehouses,
                lines : [Products -> Nat], received : [Products -> Nat]]

(* A transfer that is not created yet; its other fields say nothing *)
NoRow == LET any == CHOOSE w \in Warehouses : TRUE
         IN  [status |-> "none", from |-> any, to |-> any, lines |-> Empty, received |-> Empty]

-----------------------------------------------------------------------------
(* StockService.applyOne *)

(* What the company holds of p: every warehouse, and what moves between them *)
OnHand(p) == Total([w \in Warehouses |-> level[w][p]]) + inTransit[p]

(* Plausible slips in the definitions below are written down as operators of   *)
(* their own, marked "slip": each breaks a property named in its comment.      *)

(* slip: goods bought for stock already sold do not count (AverageWithinCosts) *)
WeightedAverageDebtIgnored(onHand, avg, delta, cost) ==
  IF onHand < 0 THEN avg
  ELSE IF onHand = 0 THEN cost
  ELSE RoundedQuotient(onHand * avg + delta * cost, onHand + delta)

(* slip: a half is rounded down (CompanyView) *)
WeightedAverageHalfDown(onHand, avg, delta, cost) ==
  IF onHand <= 0 THEN cost
  ELSE (2 * (onHand * avg + delta * cost) + onHand + delta - 1) \div (2 * (onHand + delta))

(* The moving average after delta units at unit cost cost join those on hand *)
WeightedAverage(onHand, avg, delta, cost) ==
  IF onHand <= 0 THEN cost
  ELSE RoundedQuotient(onHand * avg + delta * cost, onHand + delta)

Incoming(delta, cost) == delta > 0 /\ cost # NoCost

(* slip: goods in transit are left out of the stock (ValueFollowsLedger) *)
AverageAfterOnShelf(p, delta, cost) ==
  IF Incoming(delta, cost)
  THEN WeightedAverage(OnHand(p) - inTransit[p], avgCost[p], delta, cost)
  ELSE avgCost[p]

AverageAfter(p, delta, cost) ==
  IF Incoming(delta, cost) THEN WeightedAverage(OnHand(p), avgCost[p], delta, cost)
  ELSE avgCost[p]

(* slip: the row keeps the balance it found (LedgerExplainsLevels) *)
RowBefore(w, p, delta, cost, doc) ==
  [type |-> doc.type, quantity |-> delta,
   unitCost |-> IF Incoming(delta, cost) THEN cost ELSE avgCost[p],
   balanceAfter |-> level[w][p],
   fromPos |-> doc.fromPos, transfer |-> doc.transfer]

Row(w, p, delta, cost, doc) ==
  [type |-> doc.type, quantity |-> delta,
   unitCost |-> IF Incoming(delta, cost) THEN cost ELSE avgCost[p],
   balanceAfter |-> level[w][p] + delta,
   fromPos |-> doc.fromPos, transfer |-> doc.transfer]

(* slip: the balance is tested before the line is taken (NegativeStockIsTraced) *)
OverdrawnAlready(w, p, delta) ==
  delta < 0 /\ level[w][p] < 0 /\ w \notin NegativeAllowed

Overdrawn(w, p, delta) ==
  delta < 0 /\ level[w][p] + delta < 0 /\ w \notin NegativeAllowed

(* StockService.apply: every line of a document in one transaction.  A line    *)
(* that changes nothing writes no row (only a stocktake has such lines).       *)
Apply(w, delta, cost, doc) ==
  /\ \A p \in Products : Overdrawn(w, p, delta[p]) => doc.fromPos
  /\ \A p \in Products : delta[p] # 0 => Len(movements[w][p]) < MaxMovements
  /\ level' = [level EXCEPT ![w] = [p \in Products |-> level[w][p] + delta[p]]]
  /\ avgCost' = [p \in Products |-> AverageAfter(p, delta[p], cost[p])]
  /\ movements' = [movements EXCEPT ![w] = [p \in Products |->
       IF delta[p] = 0 THEN movements[w][p]
       ELSE Append(movements[w][p], Row(w, p, delta[p], cost[p], doc))]]

(* StockService.adjustInTransit on every line of a transfer *)
AdjustInTransit(delta) ==
  inTransit' = [p \in Products |-> inTransit[p] + delta[p]]

-----------------------------------------------------------------------------
Init ==
  /\ level = [w \in Warehouses |-> Empty]
  /\ avgCost = Empty
  /\ inTransit = Empty
  /\ movements = [w \in Warehouses |-> [p \in Products |-> <<>>]]
  /\ transfer = [t \in Transfers |-> NoRow]

(* POST /inventory/adjustments: an opening balance only brings goods in, and   *)
(* only a line that brings goods in may name a cost.                           *)
Adjust(w, type, delta, cost) ==
  /\ delta # Empty
  /\ type = "opening" => \A p \in Products : delta[p] >= 0
  /\ \A p \in Products : delta[p] <= 0 => cost[p] = NoCost
  /\ Apply(w, delta, cost, Document(type))
  /\ UNCHANGED <<inTransit, transfer>>

(* A posted purchase brings its lines in at their cost *)
Purchase(w, lines, cost) ==
  /\ Apply(w, lines, [p \in Products |-> cost], Document("purchase"))
  /\ UNCHANGED <<inTransit, transfer>>

(* What left a warehouse by documents of the given types, less what came back *)
NetOut(types, w, p) ==
  Total([i \in DOMAIN movements[w][p] |->
    IF movements[w][p][i].type \in types THEN -movements[w][p][i].quantity ELSE 0])

(* A return of purchased goods, or a posted purchase cancelled: from the       *)
(* warehouse of the invoice, at most what is left of it                        *)

PurchaseReturn(w, lines) ==
  /\ \A p \in Products : lines[p] <= -NetOut({"purchase", "purchase_return"}, w, p)
  /\ Apply(w, Out(lines), Free, Document("purchase_return"))
  /\ UNCHANGED <<inTransit, transfer>>

(* SalesInvoicesService.finalize; a sale from a till is recorded even when the *)
(* system has no stock for it                                                  *)
Sale(w, lines, fromPos) ==
  /\ Apply(w, Out(lines), Free, [Document("sale") EXCEPT !.fromPos = fromPos])
  /\ UNCHANGED <<inTransit, transfer>>

(* A return brings goods back, to the warehouse they were sold from, at the    *)
(* cost they were sold at: m is the movement of the invoice line, at most its  *)
(* quantity comes back                                                         *)
SaleReturn(w, p, quantity, m) ==
  /\ m.type = "sale"
  /\ quantity <= -m.quantity
  /\ quantity <= NetOut({"sale", "sale_return"}, w, p)
  /\ Apply(w, [Empty EXCEPT ![p] = quantity], [Free EXCEPT ![p] = m.unitCost],
           Document("sale_return"))
  /\ UNCHANGED <<inTransit, transfer>>

(* StocktakesService.post: each counted product is set to its count, the       *)
(* difference being taken under the item's lock                                *)
PostStocktake(w, counted, count) ==
  /\ LET delta == [p \in Products |-> IF p \in counted THEN count[p] - level[w][p] ELSE 0]
     IN  Apply(w, delta, Free, Document("stocktake"))
  /\ UNCHANGED <<inTransit, transfer>>

-----------------------------------------------------------------------------
(* TransfersService *)

Create(t, from, to, lines) ==
  /\ transfer[t].status = "none"
  /\ from # to
  /\ transfer' = [transfer EXCEPT ![t] = [status |-> "draft", from |-> from, to |-> to,
                                          lines |-> lines, received |-> Empty]]
  /\ UNCHANGED <<level, avgCost, inTransit, movements>>

Update(t, from, to, lines) ==
  /\ transfer[t].status = "draft"
  /\ from # to
  /\ transfer' = [transfer EXCEPT ![t] = [@ EXCEPT !.from = from, !.to = to, !.lines = lines]]
  /\ UNCHANGED <<level, avgCost, inTransit, movements>>

TransferDocument(type, t) == [Document(type) EXCEPT !.transfer = t]

Send(t) ==
  /\ transfer[t].status = "draft"
  /\ Apply(transfer[t].from, Out(transfer[t].lines), Free, TransferDocument("transfer_out", t))
  /\ AdjustInTransit(transfer[t].lines)
  /\ transfer' = [transfer EXCEPT ![t].status = "in_transit"]

(* slip: only what arrived leaves transit (InTransitIsCarried) *)
ReceiveArrived(t, received) ==
  /\ transfer[t].status = "in_transit"
  /\ \A p \in Products : received[p] <= transfer[t].lines[p]
  /\ Apply(transfer[t].to, received, Free, TransferDocument("transfer_in", t))
  /\ AdjustInTransit(Out(received))
  /\ transfer' = [transfer EXCEPT ![t].status = "received", ![t].received = received]

(* What is short of the quantity sent enters no warehouse, and leaves transit  *)
(* all the same                                                                *)
Receive(t, received) ==
  /\ transfer[t].status = "in_transit"
  /\ \A p \in Products : received[p] <= transfer[t].lines[p]
  /\ Apply(transfer[t].to, received, Free, TransferDocument("transfer_in", t))
  /\ AdjustInTransit(Out(transfer[t].lines))
  /\ transfer' = [transfer EXCEPT ![t].status = "received", ![t].received = received]

CancelDraft(t) ==
  /\ transfer[t].status = "draft"
  /\ transfer' = [transfer EXCEPT ![t].status = "cancelled"]
  /\ UNCHANGED <<level, avgCost, inTransit, movements>>

(* slip: the goods of a sent transfer go to the recipient (TransferMovesOnce) *)
CancelSentForward(t) ==
  /\ transfer[t].status = "in_transit"
  /\ Apply(transfer[t].to, transfer[t].lines, Free, TransferDocument("transfer_in", t))
  /\ AdjustInTransit(Out(transfer[t].lines))
  /\ transfer' = [transfer EXCEPT ![t].status = "cancelled"]

CancelSent(t) ==
  /\ transfer[t].status = "in_transit"
  /\ Apply(transfer[t].from, transfer[t].lines, Free, TransferDocument("transfer_in", t))
  /\ AdjustInTransit(Out(transfer[t].lines))
  /\ transfer' = [transfer EXCEPT ![t].status = "cancelled"]

-----------------------------------------------------------------------------
(* The ledger rows of one balance *)
RowsOf(w, p) == {movements[w][p][i] : i \in DOMAIN movements[w][p]}

Documents(w) ==
  \/ \E type \in {"opening", "adjustment"}, delta \in [Products -> -MaxQty..MaxQty],
        c \in Costs \cup {NoCost} :
       Adjust(w, type, delta, [p \in Products |-> IF delta[p] > 0 THEN c ELSE NoCost])
  \/ \E lines \in Lines, c \in Costs : Purchase(w, lines, c)
  \/ \E lines \in Lines : PurchaseReturn(w, lines)
  \/ \E lines \in Lines, fromPos \in BOOLEAN : Sale(w, lines, fromPos)
  \/ \E p \in Products, quantity \in 1..MaxQty : \E m \in RowsOf(w, p) : SaleReturn(w, p, quantity, m)
  \/ \E counted \in SUBSET Products \ {{}}, count \in Quantities : PostStocktake(w, counted, count)

TransferStep(t) ==
  \/ \E from, to \in Warehouses, lines \in Lines : Create(t, from, to, lines) \/ Update(t, from, to, lines)
  \/ Send(t)
  \/ \E received \in Quantities : Receive(t, received)
  \/ CancelDraft(t)
  \/ CancelSent(t)

Next ==
  \/ \E w \in Warehouses : Documents(w)
  \/ \E t \in Transfers : TransferStep(t)

Spec == Init /\ [][Next]_vars

-----------------------------------------------------------------------------
TypeOK ==
  /\ level \in [Warehouses -> [Products -> Int]]
  /\ avgCost \in [Products -> 0..MaxCost]
  /\ inTransit \in [Products -> Int]
  /\ movements \in [Warehouses -> [Products -> Seq(Movement)]]
  /\ transfer \in [Transfers -> TransferRow]

(* Every balance is explained by its ledger: each row carries on from the     *)
(* balance the row before it left, and the balance kept in stock_levels is    *)
(* the one the last row left.                                                 *)
BalanceBefore(rows, i) == IF i = 1 THEN 0 ELSE rows[i - 1].balanceAfter

LedgerExplainsLevels ==
  \A w \in Warehouses, p \in Products :
    LET rows == movements[w][p]
    IN  /\ \A i \in DOMAIN rows : rows[i].balanceAfter = BalanceBefore(rows, i) + rows[i].quantity
        /\ level[w][p] = BalanceBefore(rows, Len(rows) + 1)

(* The in-transit quantity of a product is what the open transfers carry: no  *)
(* send, receipt (short or full) or cancellation leaves a unit in transit     *)
(* that no transfer holds, or holds one twice.                                *)
Carried(t, p) == IF transfer[t].status = "in_transit" THEN transfer[t].lines[p] ELSE 0

InTransitIsCarried ==
  \A p \in Products : inTransit[p] = Total([t \in Transfers |-> Carried(t, p)])

(* A transfer moves its goods once: over all its ledger rows, the sender lost *)
(* what was sent (nothing once cancelled) and the recipient gained what was   *)
(* received.                                                                  *)
MovedIn(rows, t) ==
  [i \in DOMAIN rows |-> IF rows[i].transfer = t THEN rows[i].quantity ELSE 0]

MovedBy(t, w, p) == Total(MovedIn(movements[w][p], t))

TransferMovesOnce ==
  \A t \in Transfers, w \in Warehouses, p \in Products :
    LET row == transfer[t]
    IN  MovedBy(t, w, p) =
          (IF row.status \in {"in_transit", "received"} /\ w = row.from THEN -row.lines[p] ELSE 0)
          + (IF row.status = "received" /\ w = row.to THEN row.received[p] ELSE 0)

(* A balance below zero in a warehouse that does not allow it can be traced   *)
(* to a till sale, since which the balance never recovered: no transfer,      *)
(* return, adjustment or office sale took what was not there.                 *)
NegativeStockIsTraced ==
  \A w \in Warehouses \ NegativeAllowed, p \in Products :
    level[w][p] < 0 =>
      \E i \in DOMAIN movements[w][p] :
        /\ movements[w][p][i].fromPos
        /\ \A j \in i..Len(movements[w][p]) : movements[w][p][j].balanceAfter < 0

(* The moving average stays among the costs goods came in at, whatever is      *)
(* sold, moved, lost or sold before it is bought.                             *)
AverageWithinCosts ==
  \A p \in Products :
    LET costs == {row.unitCost : row \in {r \in UNION {RowsOf(w, p) : w \in Warehouses} : r.quantity > 0}}
    IN  costs # {} => \E lo, hi \in costs : lo <= avgCost[p] /\ avgCost[p] <= hi

(* The value of the stock follows the ledger: a row that is not part of a     *)
(* transfer changes what the company holds, at the average, by the row's      *)
(* quantity at the row's cost, within the rounding of the average (and when   *)
(* goods arrive for stock already sold, the average starts afresh).           *)
Value(p) == OnHand(p) * avgCost[p]

ValueFollows(w, p) ==
  LET row == movements'[w][p][Len(movements'[w][p])]
      error == Value(p)' - Value(p) - row.quantity * row.unitCost
  IN  (row.transfer = NoTransfer /\ (row.quantity < 0 \/ OnHand(p) >= 0)) =>
        error = 0 \/ (2 * error <= OnHand(p)' /\ -2 * error <= OnHand(p)')

ValueFollowsLedger ==
  [][\A w \in Warehouses, p \in Products :
       movements'[w][p] # movements[w][p] => ValueFollows(w, p)]_vars

(* Every quantity is accounted for: on the shelves, on the road, moved once,   *)
(* and below zero                                                              *)
StockAccounted ==
  LedgerExplainsLevels /\ InTransitIsCarried /\ TransferMovesOnce /\ NegativeStockIsTraced

(* What the documents promise the company, whichever warehouse they touch:    *)
(* module CompanyStock.                                                       *)
Company == INSTANCE CompanyStock WITH
  UnitCosts <- 0..MaxCost,
  owned <- [p \in Products |-> OnHand(p)],
  average <- avgCost

CompanyView == Company!Spec
=============================================================================
