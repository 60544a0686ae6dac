--------------------------- MODULE InventoryProofs ---------------------------
(* Inventory, for any number of warehouses, products, transfers and movements *)
EXTENDS StockTransactions, Purchasing, UnitSumsProofs

UnitCostOrNone == 0..MaxCost \cup {NoCost}

-----------------------------------------------------------------------------
(* Types *)

LEMMA OnHandType ==
  ASSUME TypeOK, NEW p \in Products
  PROVE  OnHand(p) \in Int
<1>1. [w \in Warehouses |-> level[w][p]] \in [Warehouses -> Int]
  BY DEF TypeOK
<1>2. Total([w \in Warehouses |-> level[w][p]]) \in Int
  BY <1>1, InventoryAssumption, TotalType
<1> QED
  BY <1>2 DEF OnHand, TypeOK

(* The weighted average of an average and a cost within the bound is within it *)
LEMMA AverageType ==
  ASSUME TypeOK, NEW p \in Products, NEW delta \in Int, NEW cost \in UnitCostOrNone
  PROVE  AverageAfter(p, delta, cost) \in 0..MaxCost
<1> DEFINE q == OnHand(p)
           a == avgCost[p]
<1>1. q \in Int /\ a \in 0..MaxCost /\ MaxCost \in Nat
  BY OnHandType, InventoryAssumption DEF TypeOK
<1>2. CASE ~Incoming(delta, cost)
  BY <1>1, <1>2 DEF AverageAfter
<1>3. CASE Incoming(delta, cost)
  <2>1. delta > 0 /\ cost \in 0..MaxCost
    BY <1>3 DEF Incoming, UnitCostOrNone
  <2>2. CASE q <= 0
    BY <1>3, <2>1, <2>2 DEF AverageAfter, WeightedAverage
  <2>3. CASE q > 0
    <3> DEFINE n == q * a + delta * cost
               d == q + delta
    <3>1. d \in Nat \ {0}
      BY <1>1, <2>1, <2>3
    <3>2. q * a \in Nat /\ q * a <= q * MaxCost
      BY <1>1, <2>3, SMT
    <3>3. delta * cost \in Nat /\ delta * cost <= delta * MaxCost
      BY <1>1, <2>1, SMT
    <3>4. d * MaxCost = q * MaxCost + delta * MaxCost
      BY <1>1, SMT
    <3>5. n \in Nat /\ n <= d * MaxCost
      <4> DEFINE x == q * a
                 y == delta * cost
                 u == q * MaxCost
                 v == delta * MaxCost
      <4>1. u \in Int /\ v \in Int
        BY <1>1
      <4>2. x \in Nat /\ y \in Nat /\ x <= u /\ y <= v /\ n = x + y /\ d * MaxCost = u + v
        BY <3>2, <3>3, <3>4
      <4> HIDE DEF x, y, u, v, n, d
      <4> QED
        BY <4>1, <4>2
    <3>6. RoundedQuotient(n, d) \in Nat /\ RoundedQuotient(n, d) <= MaxCost
      <4> HIDE DEF n, d
      <4> QED
        BY <1>1, <3>1, <3>5, RoundedQuotientType, RoundedQuotientBound
    <3>7. AverageAfter(p, delta, cost) = RoundedQuotient(n, d)
      BY <1>1, <1>3, <2>3 DEF AverageAfter, WeightedAverage
    <3> HIDE DEF n, d
    <3> QED
      BY <1>1, <3>6, <3>7
  <2> QED
    BY <1>1, <2>2, <2>3
<1> QED
  BY <1>2, <1>3

LEMMA RowType ==
  ASSUME TypeOK, NEW w \in Warehouses, NEW p \in Products,
         NEW delta \in Int, NEW cost \in UnitCostOrNone, NEW doc \in DocumentType
  PROVE  Row(w, p, delta, cost, doc) \in Movement
  BY DEF Row, Movement, TypeOK, Incoming, UnitCostOrNone, DocumentType

LEMMA ApplyType ==
  ASSUME TypeOK, NEW w \in Warehouses, NEW delta \in [Products -> Int],
         NEW cost \in [Products -> UnitCostOrNone], NEW doc \in DocumentType,
         Apply(w, delta, cost, doc)
  PROVE  /\ level' \in [Warehouses -> [Products -> Int]]
         /\ avgCost' \in [Products -> 0..MaxCost]
         /\ movements' \in [Warehouses -> [Products -> Seq(Movement)]]
<1>1. level' \in [Warehouses -> [Products -> Int]]
  BY DEF Apply, TypeOK
<1>2. avgCost' \in [Products -> 0..MaxCost]
  BY AverageType DEF Apply
<1>3. \A p \in Products : Row(w, p, delta[p], cost[p], doc) \in Movement
  BY RowType
<1>4. \A p \in Products :
        (IF delta[p] = 0 THEN movements[w][p]
         ELSE Append(movements[w][p], Row(w, p, delta[p], cost[p], doc))) \in Seq(Movement)
  BY <1>3 DEF TypeOK
<1>5. movements' \in [Warehouses -> [Products -> Seq(Movement)]]
  BY <1>4 DEF Apply, TypeOK
<1> QED
  BY <1>1, <1>2, <1>5

-----------------------------------------------------------------------------
(* Every document that is not a transfer is one call of apply *)

DocumentStep ==
  \E w \in Warehouses, delta \in [Products -> Int], cost \in [Products -> UnitCostOrNone],
     doc \in DocumentType :
    /\ doc.transfer = NoTransfer
    /\ Apply(w, delta, cost, doc)
    /\ UNCHANGED <<inTransit, transfer>>

LEMMA DocumentsTyped ==
  ASSUME NEW type \in MovementTypes, NEW t \in Transfers, NEW b \in BOOLEAN
  PROVE  /\ Document(type) \in DocumentType /\ Document(type).transfer = NoTransfer
         /\ [Document(type) EXCEPT !.fromPos = b] \in DocumentType
         /\ [Document(type) EXCEPT !.fromPos = b].transfer = NoTransfer
         /\ TransferDocument(type, t) \in DocumentType
         /\ TransferDocument(type, t).transfer = t
  BY DEF Document, TransferDocument, DocumentType

LEMMA QuantityTypes ==
  /\ Free \in [Products -> UnitCostOrNone]
  /\ Empty \in [Products -> Nat]
  /\ Lines \subseteq [Products -> Nat]
  /\ Quantities \subseteq [Products -> Nat]
  /\ \A lines \in [Products -> Nat] : Out(lines) \in [Products -> Int]
  BY InventoryAssumption DEF Free, UnitCostOrNone, NoCost, Empty, Lines, Quantities, Out

LEMMA DocumentsAreDocumentSteps ==
  ASSUME TypeOK, NEW w \in Warehouses, Documents(w)
  PROVE  DocumentStep
<1>1. ASSUME NEW type \in {"opening", "adjustment"},
             NEW delta \in [Products -> -MaxQty..MaxQty], NEW c \in Costs \cup {NoCost},
             Adjust(w, type, delta, [p \in Products |-> IF delta[p] > 0 THEN c ELSE NoCost])
      PROVE  DocumentStep
  <2> DEFINE cost == [p \in Products |-> IF delta[p] > 0 THEN c ELSE NoCost]
  <2>1. delta \in [Products -> Int] /\ cost \in [Products -> UnitCostOrNone]
    BY InventoryAssumption DEF UnitCostOrNone
  <2>2. Document(type) \in DocumentType /\ Document(type).transfer = NoTransfer
    BY DocumentsTyped DEF Document, DocumentType, MovementTypes
  <2>3. Apply(w, delta, cost, Document(type)) /\ UNCHANGED <<inTransit, transfer>>
    BY <1>1 DEF Adjust
  <2> HIDE DEF cost
  <2> QED
    BY <2>1, <2>2, <2>3 DEF DocumentStep
<1>2. ASSUME NEW lines \in Lines, NEW c \in Costs, Purchase(w, lines, c)
      PROVE  DocumentStep
  <2> DEFINE cost == [p \in Products |-> c]
  <2>1. lines \in [Products -> Int] /\ cost \in [Products -> UnitCostOrNone]
    BY QuantityTypes, InventoryAssumption DEF UnitCostOrNone
  <2>2. Document("purchase") \in DocumentType /\ Document("purchase").transfer = NoTransfer
    BY DEF Document, DocumentType, MovementTypes
  <2>3. Apply(w, lines, cost, Document("purchase")) /\ UNCHANGED <<inTransit, transfer>>
    BY <1>2 DEF Purchase
  <2> HIDE DEF cost
  <2> QED
    BY <2>1, <2>2, <2>3 DEF DocumentStep
<1>3. ASSUME NEW lines \in Lines, PurchaseReturn(w, lines)
      PROVE  DocumentStep
  <2>1. Out(lines) \in [Products -> Int] /\ Free \in [Products -> UnitCostOrNone]
    BY QuantityTypes
  <2>2. Document("purchase_return") \in DocumentType
          /\ Document("purchase_return").transfer = NoTransfer
    BY DEF Document, DocumentType, MovementTypes
  <2>3. Apply(w, Out(lines), Free, Document("purchase_return"))
          /\ UNCHANGED <<inTransit, transfer>>
    BY <1>3 DEF PurchaseReturn
  <2> QED
    BY <2>1, <2>2, <2>3 DEF DocumentStep
<1>4. ASSUME NEW lines \in Lines, NEW fromPos \in BOOLEAN, Sale(w, lines, fromPos)
      PROVE  DocumentStep
  <2> DEFINE doc == [Document("sale") EXCEPT !.fromPos = fromPos]
  <2>1. Out(lines) \in [Products -> Int] /\ Free \in [Products -> UnitCostOrNone]
    BY QuantityTypes
  <2>2. doc \in DocumentType /\ doc.transfer = NoTransfer
    BY DEF Document, DocumentType, MovementTypes
  <2>3. Apply(w, Out(lines), Free, doc) /\ UNCHANGED <<inTransit, transfer>>
    BY <1>4 DEF Sale
  <2> HIDE DEF doc
  <2> QED
    BY <2>1, <2>2, <2>3 DEF DocumentStep
<1>5. ASSUME NEW p \in Products, NEW quantity \in 1..MaxQty, NEW m \in RowsOf(w, p),
             SaleReturn(w, p, quantity, m)
      PROVE  DocumentStep
  <2> DEFINE delta == [Empty EXCEPT ![p] = quantity]
             cost == [Free EXCEPT ![p] = m.unitCost]
  <2>1. m.unitCost \in 0..MaxCost
    <3>1. PICK i \in DOMAIN movements[w][p] : m = movements[w][p][i]
      BY DEF RowsOf
    <3>2. m \in Movement
      BY <3>1 DEF TypeOK
    <3> QED
      BY <3>2 DEF Movement
  <2>2. delta \in [Products -> Int] /\ cost \in [Products -> UnitCostOrNone]
    BY <2>1 DEF Empty, Free, UnitCostOrNone, NoCost
  <2>3. Document("sale_return") \in DocumentType /\ Document("sale_return").transfer = NoTransfer
    BY DEF Document, DocumentType, MovementTypes
  <2>4. Apply(w, delta, cost, Document("sale_return")) /\ UNCHANGED <<inTransit, transfer>>
    BY <1>5 DEF SaleReturn
  <2> HIDE DEF delta, cost
  <2> QED
    BY <2>2, <2>3, <2>4 DEF DocumentStep
<1>6. ASSUME NEW counted \in SUBSET Products, NEW count \in Quantities,
             PostStocktake(w, counted, count)
      PROVE  DocumentStep
  <2> DEFINE delta == [p \in Products |-> IF p \in counted THEN count[p] - level[w][p] ELSE 0]
  <2>1. delta \in [Products -> Int] /\ Free \in [Products -> UnitCostOrNone]
    BY QuantityTypes DEF TypeOK
  <2>2. Document("stocktake") \in DocumentType /\ Document("stocktake").transfer = NoTransfer
    BY DEF Document, DocumentType, MovementTypes
  <2>3. Apply(w, delta, Free, Document("stocktake")) /\ UNCHANGED <<inTransit, transfer>>
    BY <1>6 DEF PostStocktake
  <2> HIDE DEF delta
  <2> QED
    BY <2>1, <2>2, <2>3 DEF DocumentStep
<1> QED
  BY <1>1, <1>2, <1>3, <1>4, <1>5, <1>6 DEF Documents

-----------------------------------------------------------------------------
(* Type correctness *)

LEMMA TransferRowType ==
  ASSUME TypeOK, NEW t \in Transfers
  PROVE  /\ transfer[t] \in TransferRow
         /\ transfer[t].from \in Warehouses /\ transfer[t].to \in Warehouses
         /\ transfer[t].lines \in [Products -> Nat]
         /\ Out(transfer[t].lines) \in [Products -> Int]
         /\ \A p \in Products : Out(transfer[t].lines)[p] = -transfer[t].lines[p]
  BY DEF TypeOK, TransferRow, Out

LEMMA InitType == Init => TypeOK
<1> SUFFICES ASSUME Init PROVE TypeOK
  OBVIOUS
<1>1. level \in [Warehouses -> [Products -> Int]] /\ avgCost \in [Products -> 0..MaxCost]
        /\ inTransit \in [Products -> Int]
  BY InventoryAssumption DEF Init, Empty
<1>2. movements \in [Warehouses -> [Products -> Seq(Movement)]]
  BY DEF Init
<1>3. transfer \in [Transfers -> TransferRow]
  <2>1. NoRow \in TransferRow
    BY InventoryAssumption DEF NoRow, TransferRow, Statuses, Empty
  <2> QED
    BY <2>1 DEF Init
<1> QED
  BY <1>1, <1>2, <1>3 DEF TypeOK

(* What a transfer does to the stock, to what is in transit and to its row *)
LEMMA TransferTypes ==
  ASSUME TypeOK, NEW w \in Warehouses, NEW t \in Transfers, NEW type \in MovementTypes,
         NEW delta \in [Products -> Int], NEW more \in [Products -> Int],
         Apply(w, delta, Free, TransferDocument(type, t)), AdjustInTransit(more),
         transfer' \in [Transfers -> TransferRow]
  PROVE  TypeOK'
<1>1. TransferDocument(type, t) \in DocumentType /\ Free \in [Products -> UnitCostOrNone]
  BY DocumentsTyped, QuantityTypes
<1>2. inTransit' \in [Products -> Int]
  BY DEF AdjustInTransit, TypeOK
<1> QED
  BY <1>1, <1>2, ApplyType DEF TypeOK

LEMMA NextType == TypeOK /\ [Next]_vars => TypeOK'
<1> SUFFICES ASSUME TypeOK, [Next]_vars PROVE TypeOK'
  OBVIOUS
<1>1. ASSUME NEW w \in Warehouses, Documents(w)
      PROVE  TypeOK'
  <2>1. DocumentStep
    BY <1>1, DocumentsAreDocumentSteps
  <2> QED
    BY <2>1, ApplyType DEF DocumentStep, TypeOK
<1>2. ASSUME NEW t \in Transfers, TransferStep(t)
      PROVE  TypeOK'
  <2>1. ASSUME NEW from \in Warehouses, NEW to \in Warehouses, NEW lines \in Lines,
               Create(t, from, to, lines) \/ Update(t, from, to, lines)
        PROVE  TypeOK'
    <3>1. lines \in [Products -> Nat] /\ Empty \in [Products -> Nat]
      BY QuantityTypes
    <3>2. transfer' \in [Transfers -> TransferRow]
      <4>1. CASE Create(t, from, to, lines)
        <5>1. [status |-> "draft", from |-> from, to |-> to, lines |-> lines,
               received |-> Empty] \in TransferRow
          BY <3>1 DEF TransferRow, Statuses
        <5> QED
          BY <4>1, <5>1 DEF Create, TypeOK
      <4>2. CASE Update(t, from, to, lines)
        <5> DEFINE row == [transfer[t] EXCEPT !.from = from, !.to = to, !.lines = lines]
        <5>1. row \in TransferRow
          BY <3>1, TransferRowType DEF TransferRow
        <5>2. transfer' = [transfer EXCEPT ![t] = row]
          BY <4>2 DEF Update
        <5> HIDE DEF row
        <5> QED
          BY <5>1, <5>2 DEF TypeOK
      <4> QED
        BY <2>1, <4>1, <4>2
    <3> QED
      BY <2>1, <3>2 DEF Create, Update, TypeOK
  <2>2. CASE Send(t)
    <3>1. transfer' \in [Transfers -> TransferRow]
      BY <2>2 DEF Send, TypeOK, TransferRow, Statuses
    <3>2. transfer[t].lines \in [Products -> Int]
      BY TransferRowType
    <3> QED
      BY <2>2, <3>1, <3>2, TransferRowType, TransferTypes DEF Send, MovementTypes
  <2>3. ASSUME NEW received \in Quantities, Receive(t, received)
        PROVE  TypeOK'
    <3>1. received \in [Products -> Nat]
      BY QuantityTypes
    <3>2. transfer' \in [Transfers -> TransferRow]
      BY <2>3, <3>1 DEF Receive, TypeOK, TransferRow, Statuses
    <3> QED
      BY <2>3, <3>1, <3>2, TransferRowType, TransferTypes DEF Receive, MovementTypes
  <2>4. CASE CancelDraft(t)
    BY <2>4 DEF CancelDraft, TypeOK, TransferRow, Statuses
  <2>5. CASE CancelSent(t)
    <3>1. transfer' \in [Transfers -> TransferRow]
      BY <2>5 DEF CancelSent, TypeOK, TransferRow, Statuses
    <3>2. transfer[t].lines \in [Products -> Int]
      BY TransferRowType
    <3> QED
      BY <2>5, <3>1, <3>2, TransferRowType, TransferTypes DEF CancelSent, MovementTypes
  <2> QED
    BY <1>2, <2>1, <2>2, <2>3, <2>4, <2>5 DEF TransferStep
<1>3. CASE UNCHANGED vars
  BY <1>3 DEF vars, TypeOK
<1> QED
  BY <1>1, <1>2, <1>3 DEF Next

(* Every reachable state is well typed; in particular the moving average never *)
(* leaves the range of the unit costs documents may bring in (StockService.    *)
(* applyOne), whatever the order of purchases, sales, counts and transfers.    *)
THEOREM TypeCorrect == Spec => []TypeOK
  BY InitType, NextType, PTL DEF Spec

-----------------------------------------------------------------------------
(* The ledger explains the balances *)

LEMMA ApplyLedger ==
  ASSUME TypeOK, LedgerExplainsLevels, NEW w \in Warehouses,
         NEW delta \in [Products -> Int], NEW cost \in [Products -> UnitCostOrNone],
         NEW doc \in DocumentType, Apply(w, delta, cost, doc)
  PROVE  LedgerExplainsLevels'
<1> SUFFICES ASSUME NEW v \in Warehouses, NEW p \in Products
             PROVE  LET rows == movements'[v][p]
                    IN  /\ \A i \in DOMAIN rows :
                             rows[i].balanceAfter = BalanceBefore(rows, i) + rows[i].quantity
                        /\ level'[v][p] = BalanceBefore(rows, Len(rows) + 1)
  BY DEF LedgerExplainsLevels, BalanceBefore
<1> DEFINE rows == movements[v][p]
           row == Row(w, p, delta[p], cost[p], doc)
<1>1. /\ rows \in Seq(Movement)
      /\ \A i \in DOMAIN rows : rows[i].balanceAfter = BalanceBefore(rows, i) + rows[i].quantity
      /\ level[v][p] = BalanceBefore(rows, Len(rows) + 1)
  BY DEF TypeOK, LedgerExplainsLevels
<1>2. CASE v # w
  <2>1. movements'[v][p] = rows /\ level'[v][p] = level[v][p]
    BY <1>2 DEF Apply, TypeOK
  <2> QED
    BY <1>1, <2>1
<1>3. CASE v = w /\ delta[p] = 0
  <2>1. movements'[v][p] = rows /\ level'[v][p] = level[v][p]
    BY <1>3 DEF Apply, TypeOK
  <2> QED
    BY <1>1, <2>1
<1>4. CASE v = w /\ delta[p] # 0
  <2>1. movements'[v][p] = Append(rows, row) /\ level'[v][p] = level[v][p] + delta[p]
    BY <1>4 DEF Apply, TypeOK
  <2>2. row.balanceAfter = level[v][p] + delta[p] /\ row.quantity = delta[p] /\ row \in Movement
    BY <1>4, RowType DEF Row
  <2> HIDE DEF row, rows
  <2>3. ASSUME NEW i \in DOMAIN Append(rows, row)
        PROVE  Append(rows, row)[i].balanceAfter
                 = BalanceBefore(Append(rows, row), i) + Append(rows, row)[i].quantity
    <3>1. CASE i \in DOMAIN rows
      <4>1. Append(rows, row)[i] = rows[i]
        BY <1>1, <2>2, <3>1
      <4>2. BalanceBefore(Append(rows, row), i) = BalanceBefore(rows, i)
        BY <1>1, <2>2, <3>1 DEF BalanceBefore
      <4> QED
        BY <1>1, <3>1, <4>1, <4>2
    <3>2. CASE i = Len(rows) + 1
      <4>1. Append(rows, row)[i] = row
        BY <1>1, <2>2, <3>2
      <4>2. BalanceBefore(Append(rows, row), i) = BalanceBefore(rows, i)
        BY <1>1, <2>2, <3>2 DEF BalanceBefore
      <4> QED
        BY <1>1, <2>2, <3>2, <4>1, <4>2
    <3> QED
      BY <1>1, <2>2, <3>1, <3>2
  <2>4. BalanceBefore(Append(rows, row), Len(Append(rows, row)) + 1) = row.balanceAfter
    BY <1>1, <2>2 DEF BalanceBefore
  <2> QED
    BY <2>1, <2>2, <2>3, <2>4
<1> QED
  BY <1>2, <1>3, <1>4

LEMMA InitLedger == Init => LedgerExplainsLevels
  BY DEF Init, LedgerExplainsLevels, BalanceBefore, Empty

(* What a step does to the balances: nothing, or one call of apply *)
StockUnchanged == UNCHANGED <<level, avgCost, movements>>

StockApplied ==
  \E w \in Warehouses, delta \in [Products -> Int], cost \in [Products -> UnitCostOrNone],
     doc \in DocumentType : Apply(w, delta, cost, doc)

LEMMA StepsAreApplied ==
  ASSUME TypeOK, [Next]_vars
  PROVE  StockUnchanged \/ StockApplied
<1>1. ASSUME NEW w \in Warehouses, Documents(w) PROVE StockApplied
  BY <1>1, DocumentsAreDocumentSteps DEF DocumentStep, StockApplied
<1>2. ASSUME NEW t \in Transfers, TransferStep(t) PROVE StockUnchanged \/ StockApplied
  <2>1. Free \in [Products -> UnitCostOrNone]
    BY QuantityTypes
  <2>2. TransferDocument("transfer_out", t) \in DocumentType
          /\ TransferDocument("transfer_in", t) \in DocumentType
    BY DocumentsTyped DEF MovementTypes
  <2>3. CASE Send(t)
    BY <2>1, <2>2, <2>3, TransferRowType DEF Send, StockApplied
  <2>4. ASSUME NEW received \in Quantities, Receive(t, received) PROVE StockApplied
    <3>1. received \in [Products -> Int]
      BY QuantityTypes
    <3> QED
      BY <2>1, <2>2, <2>4, <3>1, TransferRowType DEF Receive, StockApplied
  <2>5. CASE CancelSent(t)
    <3>1. transfer[t].lines \in [Products -> Int]
      BY TransferRowType
    <3> QED
      BY <2>1, <2>2, <2>5, <3>1, TransferRowType DEF CancelSent, StockApplied
  <2> QED
    BY <1>2, <2>3, <2>4, <2>5 DEF TransferStep, Create, Update, CancelDraft, StockUnchanged
<1>3. CASE UNCHANGED vars
  BY <1>3 DEF vars, StockUnchanged
<1> QED
  BY <1>1, <1>2, <1>3 DEF Next

LEMMA NextLedger == TypeOK /\ LedgerExplainsLevels /\ [Next]_vars => LedgerExplainsLevels'
<1> SUFFICES ASSUME TypeOK, LedgerExplainsLevels, [Next]_vars PROVE LedgerExplainsLevels'
  OBVIOUS
<1>1. CASE StockUnchanged
  BY <1>1 DEF StockUnchanged, LedgerExplainsLevels, BalanceBefore
<1>2. CASE StockApplied
  BY <1>2, ApplyLedger DEF StockApplied
<1> QED
  BY <1>1, <1>2, StepsAreApplied

(* Every balance in stock_levels is the one its stock_movements rows lead to *)
THEOREM LedgerCorrect == Spec => []LedgerExplainsLevels
  BY InitType, NextType, InitLedger, NextLedger, PTL DEF Spec

-----------------------------------------------------------------------------
(* What is in transit is what the open transfers carry *)

LEMMA CarriedType ==
  ASSUME TypeOK, NEW p \in Products
  PROVE  [t \in Transfers |-> Carried(t, p)] \in [Transfers -> Int]
  BY DEF TypeOK, TransferRow, Carried

(* A step that changes what one transfer carries changes the total by as much *)
LEMMA CarriedChange ==
  ASSUME TypeOK, TypeOK', InTransitIsCarried, NEW t \in Transfers,
         NEW more \in [Products -> Int], AdjustInTransit(more),
         \A u \in Transfers \ {t} : transfer'[u] = transfer[u],
         \A p \in Products : Carried(t, p)' = Carried(t, p) + more[p]
  PROVE  InTransitIsCarried'
<1> SUFFICES ASSUME NEW p \in Products
             PROVE  inTransit'[p] = Total([u \in Transfers |-> Carried(u, p)'])
  BY DEF InTransitIsCarried
<1> DEFINE f == [u \in Transfers |-> Carried(u, p)]
           g == [u \in Transfers |-> Carried(u, p)']
<1>1. f \in [Transfers -> Int] /\ f[t] = Carried(t, p)
  BY CarriedType
<1>2. g \in [Transfers -> Int] /\ g[t] = Carried(t, p)'
  BY DEF TypeOK, TransferRow, Carried
<1>3. \A u \in Transfers \ {t} : g[u] = f[u]
  BY DEF Carried
<1>4. inTransit[p] = Total(f) /\ inTransit'[p] = inTransit[p] + more[p]
  BY DEF InTransitIsCarried, AdjustInTransit, TypeOK
<1> HIDE DEF f, g
<1>5. Total(g) = Total(f) - f[t] + g[t]
  BY <1>1, <1>2, <1>3, InventoryAssumption, TotalUpdate
<1>6. Total(f) \in Int
  BY <1>1, InventoryAssumption, TotalType
<1>7. g[t] = f[t] + more[p] /\ f[t] \in Int /\ more[p] \in Int
  BY <1>1, <1>2
<1>8. inTransit'[p] = Total(g)
  BY <1>4, <1>5, <1>6, <1>7
<1> QED
  BY <1>8 DEF g

LEMMA CarriedSame ==
  ASSUME InTransitIsCarried, inTransit' = inTransit,
         \A u \in Transfers, p \in Products : Carried(u, p)' = Carried(u, p)
  PROVE  InTransitIsCarried'
<1> SUFFICES ASSUME NEW p \in Products
             PROVE  inTransit'[p] = Total([u \in Transfers |-> Carried(u, p)'])
  BY DEF InTransitIsCarried
<1>1. [u \in Transfers |-> Carried(u, p)'] = [u \in Transfers |-> Carried(u, p)]
  OBVIOUS
<1> QED
  BY <1>1 DEF InTransitIsCarried

LEMMA InitCarried == Init => InTransitIsCarried
<1> SUFFICES ASSUME Init, NEW p \in Products
             PROVE  inTransit[p] = Total([t \in Transfers |-> Carried(t, p)])
  BY DEF InTransitIsCarried
<1>1. [t \in Transfers |-> Carried(t, p)] = [t \in Transfers |-> 0]
  BY DEF Init, Carried, NoRow
<1>2. inTransit[p] = 0
  BY DEF Init, Empty
<1> QED
  BY <1>1, <1>2, TotalZero

LEMMA NextCarried == TypeOK /\ InTransitIsCarried /\ [Next]_vars => InTransitIsCarried'
<1> SUFFICES ASSUME TypeOK, InTransitIsCarried, [Next]_vars PROVE InTransitIsCarried'
  OBVIOUS
<1>0. TypeOK'
  BY NextType
<1>1. ASSUME NEW w \in Warehouses, Documents(w)
      PROVE  InTransitIsCarried'
  <2>1. inTransit' = inTransit /\ transfer' = transfer
    BY <1>1, DocumentsAreDocumentSteps DEF DocumentStep
  <2> QED
    BY <2>1, CarriedSame DEF Carried
<1>2. ASSUME NEW t \in Transfers, TransferStep(t)
      PROVE  InTransitIsCarried'
  <2>1. ASSUME NEW from \in Warehouses, NEW to \in Warehouses, NEW lines \in Lines,
               Create(t, from, to, lines) \/ Update(t, from, to, lines)
        PROVE  InTransitIsCarried'
    <3>1. \A u \in Transfers, p \in Products : Carried(u, p)' = Carried(u, p)
      <4>1. transfer[t].status # "in_transit" /\ transfer'[t].status = "draft"
        <5>1. CASE Create(t, from, to, lines)
          BY <5>1 DEF Create, TypeOK
        <5>2. CASE Update(t, from, to, lines)
          <6> DEFINE row == [transfer[t] EXCEPT !.from = from, !.to = to, !.lines = lines]
          <6>1. row.status = transfer[t].status
            BY TransferRowType DEF TransferRow
          <6>2. transfer[t].status = "draft" /\ transfer' = [transfer EXCEPT ![t] = row]
            BY <5>2 DEF Update
          <6> HIDE DEF row
          <6> QED
            BY <6>1, <6>2 DEF TypeOK
        <5> QED
          BY <2>1, <5>1, <5>2
      <4>2. \A u \in Transfers \ {t} : transfer'[u] = transfer[u]
        BY <2>1 DEF Create, Update, TypeOK
      <4> QED
        BY <4>1, <4>2 DEF Carried
    <3> QED
      BY <2>1, <3>1, CarriedSame DEF Create, Update
  <2>2. CASE Send(t)
    <3>1. transfer[t].lines \in [Products -> Int]
      BY TransferRowType
    <3>2. \A p \in Products : Carried(t, p)' = Carried(t, p) + transfer[t].lines[p]
      BY <2>2, TransferRowType DEF Send, Carried, TypeOK, TransferRow
    <3> QED
      BY <1>0, <2>2, <3>1, <3>2, CarriedChange DEF Send, TypeOK
  <2>3. ASSUME NEW received \in Quantities, Receive(t, received)
        PROVE  InTransitIsCarried'
    <3>1. Out(transfer[t].lines) \in [Products -> Int]
      BY TransferRowType
    <3>2. \A p \in Products : Carried(t, p)' = Carried(t, p) + Out(transfer[t].lines)[p]
      BY <2>3, TransferRowType DEF Receive, Carried, TypeOK, TransferRow
    <3> QED
      BY <1>0, <2>3, <3>1, <3>2, CarriedChange DEF Receive, TypeOK
  <2>4. CASE CancelDraft(t)
    <3>1. \A u \in Transfers, p \in Products : Carried(u, p)' = Carried(u, p)
      BY <2>4 DEF CancelDraft, Carried, TypeOK, TransferRow
    <3> QED
      BY <2>4, <3>1, CarriedSame DEF CancelDraft
  <2>5. CASE CancelSent(t)
    <3>1. Out(transfer[t].lines) \in [Products -> Int]
      BY TransferRowType
    <3>2. \A p \in Products : Carried(t, p)' = Carried(t, p) + Out(transfer[t].lines)[p]
      BY <2>5, TransferRowType DEF CancelSent, Carried, TypeOK, TransferRow
    <3> QED
      BY <1>0, <2>5, <3>1, <3>2, CarriedChange DEF CancelSent, TypeOK
  <2> QED
    BY <1>2, <2>1, <2>2, <2>3, <2>4, <2>5 DEF TransferStep
<1>3. CASE UNCHANGED vars
  BY <1>3, CarriedSame DEF vars, Carried
<1> QED
  BY <1>1, <1>2, <1>3 DEF Next

(* inventory_items.inTransitQuantity is what the open transfers carry, after   *)
(* any sequence of sends, full and short receipts, and cancellations           *)
THEOREM InTransitCorrect == Spec => []InTransitIsCarried
  BY InitType, NextType, InitCarried, NextCarried, PTL DEF Spec

-----------------------------------------------------------------------------
(* A transfer moves its goods once *)

LEMMA MovedType ==
  ASSUME NEW rows \in Seq(Movement), NEW t
  PROVE  MovedIn(rows, t) \in [1..Len(rows) -> Int] /\ IsFiniteSet(1..Len(rows))
<1>1. Len(rows) \in Nat /\ DOMAIN rows = 1..Len(rows)
  OBVIOUS
<1>2. IsFiniteSet(1..Len(rows))
  BY <1>1, FS_Interval
<1>3. \A i \in 1..Len(rows) : rows[i] \in Movement
  OBVIOUS
<1>4. \A m \in Movement : m.quantity \in Int
  BY DEF Movement
<1>5. \A i \in 1..Len(rows) : (IF rows[i].transfer = t THEN rows[i].quantity ELSE 0) \in Int
  BY <1>3, <1>4
<1> QED
  BY <1>1, <1>2, <1>5 DEF MovedIn

LEMMA MovedAppend ==
  ASSUME NEW rows \in Seq(Movement), NEW row \in Movement, NEW t
  PROVE  /\ Total(MovedIn(rows, t)) \in Int
         /\ Total(MovedIn(Append(rows, row), t))
              = Total(MovedIn(rows, t)) + (IF row.transfer = t THEN row.quantity ELSE 0)
<1> DEFINE n == Len(rows)
           f == MovedIn(rows, t)
           g == MovedIn(Append(rows, row), t)
<1>1. n \in Nat /\ n + 1 \notin 1..n /\ 1..(n + 1) = (1..n) \cup {n + 1}
  OBVIOUS
<1>2. Append(rows, row) \in Seq(Movement) /\ Len(Append(rows, row)) = n + 1
  OBVIOUS
<1>3. f \in [1..n -> Int] /\ IsFiniteSet(1..n)
  BY MovedType
<1>4. g \in [1..(n + 1) -> Int]
  BY <1>1, <1>2, MovedType
<1>5. \A i \in 1..n : g[i] = f[i]
  BY DEF MovedIn
<1>6. g[n + 1] = IF row.transfer = t THEN row.quantity ELSE 0
  BY <1>2 DEF MovedIn
<1> HIDE DEF f, g, n
<1>7. Total(g) = Total(f) + g[n + 1]
  BY <1>1, <1>3, <1>4, <1>5, TotalAppend
<1>8. Total(f) \in Int
  BY <1>3, TotalType
<1> QED
  BY <1>6, <1>7, <1>8 DEF f, g

(* One call of apply adds the document's line to what its transfer moved, and  *)
(* to nothing else                                                             *)
LEMMA ApplyMoves ==
  ASSUME TypeOK, NEW w \in Warehouses,
         NEW delta \in [Products -> Int], NEW cost \in [Products -> UnitCostOrNone],
         NEW doc \in DocumentType, Apply(w, delta, cost, doc),
         NEW t \in Transfers, NEW v \in Warehouses, NEW p \in Products
  PROVE  /\ MovedBy(t, v, p) \in Int
         /\ MovedBy(t, v, p)' = MovedBy(t, v, p)
                                 + (IF v = w /\ doc.transfer = t THEN delta[p] ELSE 0)
<1> DEFINE rows == movements[v][p]
           row == Row(w, p, delta[p], cost[p], doc)
<1>1. rows \in Seq(Movement)
  BY DEF TypeOK
<1>2. row \in Movement /\ row.quantity = delta[p] /\ row.transfer = doc.transfer
  BY RowType DEF Row
<1>3. MovedBy(t, v, p) = Total(MovedIn(rows, t))
        /\ MovedBy(t, v, p)' = Total(MovedIn(movements'[v][p], t))
  BY DEF MovedBy, MovedIn
<1>4. Total(MovedIn(rows, t)) \in Int
  BY <1>1, MovedType, TotalType
<1>5. CASE v # w \/ delta[p] = 0
  <2>1. movements'[v][p] = rows
    BY <1>5 DEF Apply, TypeOK
  <2> QED
    BY <1>3, <1>4, <1>5, <2>1
<1>6. CASE v = w /\ delta[p] # 0
  <2>1. movements'[v][p] = Append(rows, row)
    BY <1>6 DEF Apply, TypeOK
  <2> HIDE DEF row, rows
  <2> QED
    BY <1>1, <1>2, <1>3, <1>6, <2>1, MovedAppend
<1> QED
  BY <1>3, <1>4, <1>5, <1>6

(* The quantity a transfer row says the warehouse gained *)
Expected(row, w, p) ==
  (IF row.status \in {"in_transit", "received"} /\ w = row.from THEN -row.lines[p] ELSE 0)
  + (IF row.status = "received" /\ w = row.to THEN row.received[p] ELSE 0)

LEMMA MovesOnceIsExpected ==
  TransferMovesOnce <=>
    \A t \in Transfers, w \in Warehouses, p \in Products :
      MovedBy(t, w, p) = Expected(transfer[t], w, p)
  BY DEF TransferMovesOnce, Expected

LEMMA InitMovesOnce == Init => TransferMovesOnce
<1> SUFFICES ASSUME Init, NEW t \in Transfers, NEW w \in Warehouses, NEW p \in Products
             PROVE  MovedBy(t, w, p) = Expected(transfer[t], w, p)
  BY MovesOnceIsExpected
<1>1. movements[w][p] = <<>>
  BY DEF Init
<1>2. MovedIn(movements[w][p], t) = [i \in {} |-> 0]
  BY <1>1 DEF MovedIn
<1>3. MovedBy(t, w, p) = 0
  BY <1>2, TotalZero DEF MovedBy
<1>4. transfer[t].status = "none"
  BY DEF Init, NoRow
<1> QED
  BY <1>3, <1>4 DEF Expected

(* A step that calls apply for transfer t and changes what its row expects     *)
(* accordingly keeps the property                                              *)
LEMMA AppliedMovesOnce ==
  ASSUME TypeOK, TransferMovesOnce, NEW w \in Warehouses, NEW t \in Transfers,
         NEW type \in MovementTypes, NEW delta \in [Products -> Int],
         Apply(w, delta, Free, TransferDocument(type, t)),
         \A u \in Transfers \ {t} : transfer'[u] = transfer[u],
         \A v \in Warehouses, p \in Products :
           Expected(transfer'[t], v, p)
             = Expected(transfer[t], v, p) + (IF v = w THEN delta[p] ELSE 0)
  PROVE  TransferMovesOnce'
<1> SUFFICES ASSUME NEW u \in Transfers, NEW v \in Warehouses, NEW p \in Products
             PROVE  MovedBy(u, v, p)' = Expected(transfer'[u], v, p)
  BY DEF TransferMovesOnce, Expected, MovedBy, MovedIn
<1>1. TransferDocument(type, t) \in DocumentType /\ TransferDocument(type, t).transfer = t
        /\ Free \in [Products -> UnitCostOrNone]
  BY DocumentsTyped, QuantityTypes
<1>2. MovedBy(u, v, p) \in Int
        /\ MovedBy(u, v, p)' = MovedBy(u, v, p) + (IF v = w /\ u = t THEN delta[p] ELSE 0)
  BY <1>1, ApplyMoves
<1>3. MovedBy(u, v, p) = Expected(transfer[u], v, p)
  BY MovesOnceIsExpected
<1>4. CASE u = t
  BY <1>2, <1>3, <1>4
<1>5. CASE u # t
  BY <1>2, <1>3, <1>5
<1> QED
  BY <1>4, <1>5

LEMMA NextMovesOnce == TypeOK /\ TransferMovesOnce /\ [Next]_vars => TransferMovesOnce'
<1> SUFFICES ASSUME TypeOK, TransferMovesOnce, [Next]_vars PROVE TransferMovesOnce'
  OBVIOUS
<1>1. ASSUME NEW w \in Warehouses, Documents(w)
      PROVE  TransferMovesOnce'
  <2>1. PICK x \in Warehouses, delta \in [Products -> Int],
             cost \in [Products -> UnitCostOrNone], doc \in DocumentType :
               /\ doc.transfer = NoTransfer
               /\ Apply(x, delta, cost, doc)
               /\ UNCHANGED <<inTransit, transfer>>
    BY <1>1, DocumentsAreDocumentSteps DEF DocumentStep
  <2>2. ASSUME NEW t \in Transfers, NEW v \in Warehouses, NEW p \in Products
        PROVE  MovedBy(t, v, p)' = Expected(transfer'[t], v, p)
    <3>1. doc.transfer # t
      BY <2>1, InventoryAssumption
    <3>3. MovedBy(t, v, p) \in Int /\ MovedBy(t, v, p)' = MovedBy(t, v, p)
      BY <2>1, <3>1, ApplyMoves
    <3>2. MovedBy(t, v, p) = Expected(transfer[t], v, p)
      BY MovesOnceIsExpected
    <3> QED
      BY <2>1, <3>2, <3>3
  <2> QED
    BY <2>2 DEF TransferMovesOnce, Expected, MovedBy, MovedIn
<1>2. ASSUME NEW t \in Transfers, TransferStep(t)
      PROVE  TransferMovesOnce'
  <2>0. transfer[t] \in TransferRow /\ transfer[t].lines \in [Products -> Nat]
    BY TransferRowType
  <2>1. ASSUME NEW row, transfer' = [transfer EXCEPT ![t] = row],
               row.status \notin {"in_transit", "received"},
               transfer[t].status \notin {"in_transit", "received"},
               UNCHANGED movements
        PROVE  TransferMovesOnce'
    <3>1. ASSUME NEW u \in Transfers, NEW v \in Warehouses, NEW p \in Products
          PROVE  MovedBy(u, v, p)' = Expected(transfer'[u], v, p)
      <4>1. MovedBy(u, v, p)' = MovedBy(u, v, p)
        BY <2>1 DEF MovedBy, MovedIn
      <4>2. MovedBy(u, v, p) = Expected(transfer[u], v, p)
        BY MovesOnceIsExpected
      <4>3. Expected(transfer'[u], v, p) = Expected(transfer[u], v, p)
        BY <2>1 DEF Expected
      <4> QED
        BY <4>1, <4>2, <4>3
    <3> QED
      BY <3>1 DEF TransferMovesOnce, Expected, MovedBy, MovedIn
  <2>2. ASSUME NEW from \in Warehouses, NEW to \in Warehouses, NEW lines \in Lines,
               Create(t, from, to, lines)
        PROVE  TransferMovesOnce'
    <3> DEFINE row == [status |-> "draft", from |-> from, to |-> to, lines |-> lines,
                       received |-> Empty]
    <3>1. row.status = "draft"
      OBVIOUS
    <3>2. transfer' = [transfer EXCEPT ![t] = row] /\ transfer[t].status = "none"
            /\ UNCHANGED movements
      BY <2>2 DEF Create
    <3> HIDE DEF row
    <3> QED
      BY <2>1, <3>1, <3>2
  <2>3. ASSUME NEW from \in Warehouses, NEW to \in Warehouses, NEW lines \in Lines,
               Update(t, from, to, lines)
        PROVE  TransferMovesOnce'
    <3> DEFINE row == [transfer[t] EXCEPT !.from = from, !.to = to, !.lines = lines]
    <3>1. row.status = transfer[t].status
      BY <2>0 DEF TransferRow
    <3>2. transfer' = [transfer EXCEPT ![t] = row] /\ transfer[t].status = "draft"
            /\ UNCHANGED movements
      BY <2>3 DEF Update
    <3> HIDE DEF row
    <3> QED
      BY <2>1, <3>1, <3>2
  <2>4. CASE Send(t)
    <3> DEFINE row == [transfer[t] EXCEPT !.status = "in_transit"]
    <3>1. /\ row.status = "in_transit" /\ row.from = transfer[t].from
          /\ row.to = transfer[t].to /\ row.lines = transfer[t].lines
      BY <2>0 DEF TransferRow
    <3>2. /\ transfer[t].status = "draft"
          /\ Apply(transfer[t].from, Out(transfer[t].lines), Free, TransferDocument("transfer_out", t))
          /\ transfer' = [transfer EXCEPT ![t] = row]
      BY <2>4 DEF Send
    <3> HIDE DEF row
    <3>3. \A u \in Transfers \ {t} : transfer'[u] = transfer[u]
      BY <3>2
    <3>4. \A v \in Warehouses, p \in Products :
            Expected(transfer'[t], v, p)
              = Expected(transfer[t], v, p)
                + (IF v = transfer[t].from THEN Out(transfer[t].lines)[p] ELSE 0)
      <4>1. transfer'[t] = row
        BY <3>2 DEF TypeOK
      <4>2. \A p \in Products : Out(transfer[t].lines)[p] = -transfer[t].lines[p]
                               /\ transfer[t].lines[p] \in Int
        BY <2>0, TransferRowType
      <4> QED
        BY <3>1, <3>2, <4>1, <4>2 DEF Expected
    <3> QED
      BY <3>2, <3>3, <3>4, TransferRowType, AppliedMovesOnce DEF MovementTypes
  <2>5. ASSUME NEW received \in Quantities, Receive(t, received)
        PROVE  TransferMovesOnce'
    <3> DEFINE row == [transfer[t] EXCEPT !.status = "received", !.received = received]
    <3>0. received \in [Products -> Nat]
      BY QuantityTypes
    <3>1. /\ row.status = "received" /\ row.from = transfer[t].from
          /\ row.to = transfer[t].to /\ row.lines = transfer[t].lines /\ row.received = received
      BY <2>0 DEF TransferRow
    <3>2. /\ transfer[t].status = "in_transit"
          /\ Apply(transfer[t].to, received, Free, TransferDocument("transfer_in", t))
          /\ transfer' = [transfer EXCEPT ![t] = row]
      BY <2>0, <2>5 DEF Receive, TransferRow
    <3> HIDE DEF row
    <3>3. \A u \in Transfers \ {t} : transfer'[u] = transfer[u]
      BY <3>2
    <3>4. \A v \in Warehouses, p \in Products :
            Expected(transfer'[t], v, p)
              = Expected(transfer[t], v, p) + (IF v = transfer[t].to THEN received[p] ELSE 0)
      <4>1. transfer'[t] = row
        BY <3>2 DEF TypeOK
      <4>2. \A p \in Products : received[p] \in Int /\ transfer[t].lines[p] \in Int
        BY <2>0, <3>0
      <4> QED
        BY <3>1, <3>2, <4>1, <4>2 DEF Expected
    <3> QED
      BY <3>0, <3>2, <3>3, <3>4, TransferRowType, AppliedMovesOnce DEF MovementTypes
  <2>6. CASE CancelDraft(t)
    <3> DEFINE row == [transfer[t] EXCEPT !.status = "cancelled"]
    <3>1. row.status = "cancelled"
      BY <2>0 DEF TransferRow
    <3>2. transfer' = [transfer EXCEPT ![t] = row] /\ transfer[t].status = "draft"
            /\ UNCHANGED movements
      BY <2>6 DEF CancelDraft
    <3> HIDE DEF row
    <3> QED
      BY <2>1, <3>1, <3>2
  <2>7. CASE CancelSent(t)
    <3> DEFINE row == [transfer[t] EXCEPT !.status = "cancelled"]
    <3>1. row.status = "cancelled"
      BY <2>0 DEF TransferRow
    <3>2. /\ transfer[t].status = "in_transit"
          /\ Apply(transfer[t].from, transfer[t].lines, Free, TransferDocument("transfer_in", t))
          /\ transfer' = [transfer EXCEPT ![t] = row]
      BY <2>7 DEF CancelSent
    <3> HIDE DEF row
    <3>3. \A u \in Transfers \ {t} : transfer'[u] = transfer[u]
      BY <3>2
    <3>4. \A v \in Warehouses, p \in Products :
            Expected(transfer'[t], v, p)
              = Expected(transfer[t], v, p)
                + (IF v = transfer[t].from THEN transfer[t].lines[p] ELSE 0)
      <4>1. transfer'[t] = row
        BY <3>2 DEF TypeOK
      <4>2. \A p \in Products : transfer[t].lines[p] \in Int
        BY <2>0
      <4> QED
        BY <3>1, <3>2, <4>1, <4>2 DEF Expected
    <3>5. transfer[t].lines \in [Products -> Int]
      BY <2>0
    <3> QED
      BY <3>2, <3>3, <3>4, <3>5, TransferRowType, AppliedMovesOnce DEF MovementTypes
  <2> QED
    BY <1>2, <2>2, <2>3, <2>4, <2>5, <2>6, <2>7 DEF TransferStep
<1>3. CASE UNCHANGED vars
  BY <1>3 DEF vars, TransferMovesOnce, MovedBy, MovedIn
<1> QED
  BY <1>1, <1>2, <1>3 DEF Next

(* Over the whole ledger a transfer took its goods from the sender once and     *)
(* gave what was received to the recipient once (TransfersService.send,         *)
(* receive, cancel), however its steps interleave with every other document     *)
THEOREM TransfersCorrect == Spec => []TransferMovesOnce
  BY InitType, NextType, InitMovesOnce, NextMovesOnce, PTL DEF Spec

-----------------------------------------------------------------------------
(* A balance below zero is traced to a till sale *)

LEMMA ApplyTraced ==
  ASSUME TypeOK, NegativeStockIsTraced, NEW w \in Warehouses,
         NEW delta \in [Products -> Int], NEW cost \in [Products -> UnitCostOrNone],
         NEW doc \in DocumentType, Apply(w, delta, cost, doc)
  PROVE  NegativeStockIsTraced'
<1> SUFFICES ASSUME NEW v \in Warehouses \ NegativeAllowed, NEW p \in Products, level'[v][p] < 0
             PROVE  \E i \in DOMAIN movements'[v][p] :
                      /\ movements'[v][p][i].fromPos
                      /\ \A j \in i..Len(movements'[v][p]) : movements'[v][p][j].balanceAfter < 0
  BY DEF NegativeStockIsTraced
<1> DEFINE rows == movements[v][p]
           row == Row(w, p, delta[p], cost[p], doc)
<1>1. rows \in Seq(Movement) /\ level[v][p] \in Int /\ delta[p] \in Int
  BY DEF TypeOK
<1>2. ASSUME level[v][p] < 0
      PROVE  \E i \in DOMAIN rows :
               rows[i].fromPos /\ \A j \in i..Len(rows) : rows[j].balanceAfter < 0
  BY <1>2 DEF NegativeStockIsTraced
<1>3. CASE v # w \/ delta[p] = 0
  <2>1. movements'[v][p] = rows /\ level'[v][p] = level[v][p]
    BY <1>1, <1>3 DEF Apply, TypeOK
  <2> QED
    BY <1>2, <2>1
<1>4. CASE v = w /\ delta[p] # 0
  <2>1. movements'[v][p] = Append(rows, row) /\ level'[v][p] = level[v][p] + delta[p]
    BY <1>4 DEF Apply, TypeOK
  <2>2. row \in Movement /\ row.balanceAfter = level[v][p] + delta[p] /\ row.fromPos = doc.fromPos
    BY <1>4, RowType DEF Row
  <2>3. Overdrawn(w, p, delta[p]) => doc.fromPos
    BY DEF Apply
  <2>4. row.balanceAfter < 0
    BY <2>1, <2>2
  <2> HIDE DEF rows, row
  <2>5. CASE delta[p] < 0
    <3>1. row.fromPos
      BY <1>4, <2>1, <2>2, <2>3, <2>5 DEF Overdrawn
    <3>2. Len(rows) + 1 \in DOMAIN Append(rows, row) /\ Append(rows, row)[Len(rows) + 1] = row
            /\ Len(Append(rows, row)) = Len(rows) + 1
      BY <1>1, <2>2
    <3>3. \A j \in (Len(rows) + 1)..Len(Append(rows, row)) : Append(rows, row)[j] = row
      BY <1>1, <3>2
    <3> QED
      BY <2>1, <2>4, <3>1, <3>2, <3>3
  <2>6. CASE delta[p] > 0
    <3>1. PICK i \in DOMAIN rows :
            rows[i].fromPos /\ \A j \in i..Len(rows) : rows[j].balanceAfter < 0
      BY <1>1, <1>2, <2>1, <2>6
    <3>2. i \in DOMAIN Append(rows, row) /\ Append(rows, row)[i] = rows[i]
      BY <1>1, <2>2
    <3>3. \A j \in i..Len(Append(rows, row)) : Append(rows, row)[j].balanceAfter < 0
      BY <1>1, <2>2, <2>4, <3>1
    <3> QED
      BY <2>1, <3>1, <3>2, <3>3
  <2> QED
    BY <1>1, <1>4, <2>5, <2>6
<1> QED
  BY <1>3, <1>4

LEMMA InitTraced == Init => NegativeStockIsTraced
  BY DEF Init, NegativeStockIsTraced, Empty

LEMMA NextTraced == TypeOK /\ NegativeStockIsTraced /\ [Next]_vars => NegativeStockIsTraced'
<1> SUFFICES ASSUME TypeOK, NegativeStockIsTraced, [Next]_vars PROVE NegativeStockIsTraced'
  OBVIOUS
<1>1. CASE StockUnchanged
  BY <1>1 DEF StockUnchanged, NegativeStockIsTraced
<1>2. CASE StockApplied
  BY <1>2, ApplyTraced DEF StockApplied
<1> QED
  BY <1>1, <1>2, StepsAreApplied

(* A warehouse that does not allow negative stock is below zero only since a    *)
(* till sale took it there (StockContext.allowNegative), never by a transfer,   *)
(* an office sale, a purchase return, an adjustment or a count                  *)
THEOREM NegativeStockTraced == Spec => []NegativeStockIsTraced
  BY InitType, NextType, InitTraced, NextTraced, PTL DEF Spec

(* Every quantity is accounted for, whatever documents came in whatever order *)
THEOREM StockIsAccounted == Spec => []StockAccounted
<1>1. LedgerExplainsLevels /\ InTransitIsCarried /\ TransferMovesOnce /\ NegativeStockIsTraced
        => StockAccounted
  BY DEF StockAccounted
<1> QED
  BY <1>1, LedgerCorrect, InTransitCorrect, TransfersCorrect, NegativeStockTraced, PTL

-----------------------------------------------------------------------------
(* The documents implement CompanyStock *)

(* One call of apply changes what the warehouses hold by the document's line;  *)
(* what moves between them counts as well                                      *)
LEMMA ApplyHeld ==
  ASSUME TypeOK, NEW w \in Warehouses,
         NEW delta \in [Products -> Int], NEW cost \in [Products -> UnitCostOrNone],
         NEW doc \in DocumentType, Apply(w, delta, cost, doc), NEW p \in Products,
         inTransit'[p] \in Int
  PROVE  OnHand(p)' = OnHand(p) + delta[p] + (inTransit'[p] - inTransit[p])
<1> DEFINE f == [v \in Warehouses |-> level[v][p]]
           g == [v \in Warehouses |-> level'[v][p]]
<1>1. f \in [Warehouses -> Int] /\ f[w] = level[w][p]
  BY DEF TypeOK
<1>2. g \in [Warehouses -> Int] /\ g[w] = level[w][p] + delta[p]
  BY ApplyType DEF Apply, TypeOK
<1>3. \A v \in Warehouses \ {w} : g[v] = f[v]
  BY DEF Apply, TypeOK
<1>4. OnHand(p) = Total(f) + inTransit[p] /\ OnHand(p)' = Total(g) + inTransit'[p]
  BY DEF OnHand
<1> HIDE DEF f, g
<1>5. Total(g) = Total(f) - f[w] + g[w]
  BY <1>1, <1>2, <1>3, InventoryAssumption, TotalUpdate
<1>6. Total(f) \in Int
  BY <1>1, InventoryAssumption, TotalType
<1>7. level[w][p] \in Int /\ delta[p] \in Int /\ inTransit[p] \in Int
  BY DEF TypeOK
<1> QED
  BY <1>1, <1>2, <1>4, <1>5, <1>6, <1>7

LEMMA InitCompany == Init => Company!Init
<1> SUFFICES ASSUME Init PROVE Company!Init
  OBVIOUS
<1>1. ASSUME NEW p \in Products PROVE OnHand(p) = 0
  <2>1. [w \in Warehouses |-> level[w][p]] = [w \in Warehouses |-> 0]
    BY DEF Init, Empty
  <2>2. inTransit[p] = 0
    BY DEF Init, Empty
  <2> QED
    BY <2>1, <2>2, TotalZero DEF OnHand
<1> QED
  BY <1>1 DEF Company!Init, Init, Empty

LEMMA CompanyTypes ==
  ASSUME TypeOK, TypeOK'
  PROVE  /\ [p \in Products |-> OnHand(p)'] \in [Products -> Int]
         /\ avgCost' \in [Products -> 0..MaxCost]
<1>1. ASSUME NEW p \in Products PROVE OnHand(p)' \in Int
  <2>1. [w \in Warehouses |-> level'[w][p]] \in [Warehouses -> Int]
    BY DEF TypeOK
  <2>2. Total([w \in Warehouses |-> level'[w][p]]) \in Int
    BY <2>1, InventoryAssumption, TotalType
  <2> QED
    BY <2>2 DEF OnHand, TypeOK
<1> QED
  BY <1>1 DEF TypeOK

LEMMA NextCompany ==
  TypeOK /\ [Next]_vars => [Company!Next]_<<[p \in Products |-> OnHand(p)], avgCost>>
<1> SUFFICES ASSUME TypeOK, [Next]_vars
             PROVE  Company!Next \/ UNCHANGED <<[p \in Products |-> OnHand(p)], avgCost>>
  OBVIOUS
<1>0. TypeOK'
  BY NextType
<1>1. ASSUME \A p \in Products :
               \/ avgCost'[p] = avgCost[p]
               \/ /\ OnHand(p)' > OnHand(p)
                  /\ \E cost \in 0..MaxCost :
                       avgCost'[p] = WeightedAverage(OnHand(p), avgCost[p],
                                                     OnHand(p)' - OnHand(p), cost)
      PROVE  Company!Next
  BY <1>0, <1>1, CompanyTypes
  DEF Company!Next, Company!MoveAtAverage, Company!BringIn, Company!Weighed, WeightedAverage,
      RoundedQuotient, Company!RoundedQuotient
<1>2. ASSUME NEW w \in Warehouses, NEW delta \in [Products -> Int], NEW doc \in DocumentType,
             Apply(w, delta, Free, doc)
      PROVE  Company!Next
  <2>1. \A p \in Products : avgCost'[p] = avgCost[p]
    BY <1>2 DEF Apply, AverageAfter, Incoming, Free, NoCost
  <2> QED
    BY <1>1, <2>1
<1>3. ASSUME NEW w \in Warehouses, Documents(w) PROVE Company!Next
  <2>1. PICK x \in Warehouses, delta \in [Products -> Int],
             cost \in [Products -> UnitCostOrNone], doc \in DocumentType :
               Apply(x, delta, cost, doc) /\ UNCHANGED <<inTransit, transfer>>
    BY <1>3, DocumentsAreDocumentSteps DEF DocumentStep
  <2>2. ASSUME NEW p \in Products
        PROVE  \/ avgCost'[p] = avgCost[p]
               \/ /\ OnHand(p)' > OnHand(p)
                  /\ \E c \in 0..MaxCost :
                       avgCost'[p] = WeightedAverage(OnHand(p), avgCost[p],
                                                     OnHand(p)' - OnHand(p), c)
    <3>1. avgCost'[p] = AverageAfter(p, delta[p], cost[p])
      BY <2>1 DEF Apply
    <3>2. inTransit'[p] = inTransit[p] /\ inTransit[p] \in Int /\ OnHand(p) \in Int
            /\ delta[p] \in Int
      BY <2>1, OnHandType DEF TypeOK
    <3>3. OnHand(p)' = OnHand(p) + delta[p]
      <4>1. OnHand(p)' = OnHand(p) + delta[p] + (inTransit'[p] - inTransit[p])
        BY <2>1, <3>2, ApplyHeld
      <4> QED
        BY <3>2, <4>1
    <3>4. CASE ~Incoming(delta[p], cost[p])
      BY <3>1, <3>4 DEF AverageAfter
    <3>5. CASE Incoming(delta[p], cost[p])
      <4>1. delta[p] > 0 /\ cost[p] \in 0..MaxCost
        BY <3>5 DEF Incoming, UnitCostOrNone
      <4>2. OnHand(p)' > OnHand(p) /\ OnHand(p)' - OnHand(p) = delta[p]
        BY <3>2, <3>3, <4>1
      <4>3. avgCost'[p] = WeightedAverage(OnHand(p), avgCost[p], delta[p], cost[p])
        BY <3>1, <3>5 DEF AverageAfter
      <4> QED
        BY <4>1, <4>2, <4>3
    <3> QED
      BY <3>4, <3>5
  <2> QED
    BY <1>1, <2>2
<1>4. ASSUME NEW t \in Transfers, TransferStep(t)
      PROVE  Company!Next
  <2>1. CASE UNCHANGED <<level, avgCost, inTransit, movements>>
    BY <1>1, <2>1
  <2>2. CASE Send(t)
    <3>1. TransferDocument("transfer_out", t) \in DocumentType
      BY DocumentsTyped DEF MovementTypes
    <3> QED
      BY <1>2, <2>2, <3>1, TransferRowType DEF Send
  <2>3. ASSUME NEW received \in Quantities, Receive(t, received) PROVE Company!Next
    <3>1. TransferDocument("transfer_in", t) \in DocumentType
      BY DocumentsTyped DEF MovementTypes
    <3>2. received \in [Products -> Int]
      BY QuantityTypes
    <3> QED
      BY <1>2, <2>3, <3>1, <3>2, TransferRowType DEF Receive
  <2>4. CASE CancelSent(t)
    <3>1. TransferDocument("transfer_in", t) \in DocumentType
      BY DocumentsTyped DEF MovementTypes
    <3>2. transfer[t].lines \in [Products -> Int]
      BY TransferRowType
    <3> QED
      BY <1>2, <2>4, <3>1, <3>2, TransferRowType DEF CancelSent
  <2> QED
    BY <1>4, <2>1, <2>2, <2>3, <2>4 DEF TransferStep, Create, Update, CancelDraft
<1>5. CASE UNCHANGED vars
  BY <1>5 DEF vars, OnHand
<1> QED
  BY <1>3, <1>4, <1>5 DEF Next

(* Whatever warehouse a document touches, the company as a whole sees the      *)
(* behaviour of CompanyStock: one quantity owned and one moving average per    *)
(* product, and only goods that come in at a cost move the average             *)
THEOREM CompanyViewHolds == Spec => CompanyView
  BY InitType, NextType, InitCompany, NextCompany, PTL DEF Spec, CompanyView, Company!Spec

-----------------------------------------------------------------------------
(* The moving average stays among the costs goods came in at *)

CostsOf(p) ==
  {row.unitCost : row \in {r \in UNION {RowsOf(w, p) : w \in Warehouses} : r.quantity > 0}}

(* While no goods came in at any cost the company holds none: the average then *)
(* says nothing, and the first goods to come in replace it                     *)
Bracketed(p) ==
  IF CostsOf(p) = {} THEN OnHand(p) <= 0
  ELSE \E lo, hi \in CostsOf(p) : lo <= avgCost[p] /\ avgCost[p] <= hi

AverageInv == \A p \in Products : Bracketed(p)

LEMMA CostsType ==
  ASSUME TypeOK, NEW p \in Products
  PROVE  /\ CostsOf(p) \subseteq 0..MaxCost
         /\ \A c : c \in CostsOf(p) <=>
              \E v \in Warehouses : \E r \in RowsOf(v, p) : r.quantity > 0 /\ c = r.unitCost
<1>1. \A v \in Warehouses : RowsOf(v, p) \subseteq Movement
  BY DEF RowsOf, TypeOK
<1> QED
  BY <1>1 DEF CostsOf, Movement

(* What apply adds to the rows of a balance *)
LEMMA ApplyRows ==
  ASSUME TypeOK, NEW w \in Warehouses,
         NEW delta \in [Products -> Int], NEW cost \in [Products -> UnitCostOrNone],
         NEW doc \in DocumentType, Apply(w, delta, cost, doc),
         NEW v \in Warehouses, NEW p \in Products
  PROVE  RowsOf(v, p)' = IF v = w /\ delta[p] # 0
                         THEN RowsOf(v, p) \cup {Row(w, p, delta[p], cost[p], doc)}
                         ELSE RowsOf(v, p)
<1>1. CASE v = w /\ delta[p] # 0
  <2>1. PICK rows, row : rows = movements[v][p] /\ row = Row(w, p, delta[p], cost[p], doc)
    OBVIOUS
  <2>2. rows \in Seq(Movement) /\ row \in Movement
    BY <2>1, RowType DEF TypeOK
  <2>3. movements'[v][p] = Append(rows, row)
    BY <1>1, <2>1 DEF Apply, TypeOK
  <2>4. /\ DOMAIN Append(rows, row) = DOMAIN rows \cup {Len(rows) + 1}
        /\ Append(rows, row)[Len(rows) + 1] = row
        /\ \A i \in DOMAIN rows : Append(rows, row)[i] = rows[i]
    BY <2>2
  <2>5. RowsOf(v, p)' = {Append(rows, row)[i] : i \in DOMAIN Append(rows, row)}
    BY <2>3 DEF RowsOf
  <2>6. RowsOf(v, p) = {rows[i] : i \in DOMAIN rows}
    BY <2>1 DEF RowsOf
  <2>7. RowsOf(v, p)' = RowsOf(v, p) \cup {row}
    BY <2>4, <2>5, <2>6
  <2> QED
    BY <1>1, <2>1, <2>7
<1>2. CASE ~(v = w /\ delta[p] # 0)
  <2>1. movements'[v][p] = movements[v][p]
    BY <1>2 DEF Apply, TypeOK
  <2> QED
    BY <1>2, <2>1 DEF RowsOf
<1> QED
  BY <1>1, <1>2

(* The cost of the row a line that brings goods in leaves *)
CostOfLine(p, delta, cost) == IF Incoming(delta, cost) THEN cost ELSE avgCost[p]

LEMMA ApplyCosts ==
  ASSUME TypeOK, TypeOK', NEW w \in Warehouses,
         NEW delta \in [Products -> Int], NEW cost \in [Products -> UnitCostOrNone],
         NEW doc \in DocumentType, Apply(w, delta, cost, doc), NEW p \in Products
  PROVE  /\ CostsOf(p) \subseteq CostsOf(p)'
         /\ delta[p] > 0 => CostOfLine(p, delta[p], cost[p]) \in CostsOf(p)'
         /\ delta[p] <= 0 => CostsOf(p)' \subseteq CostsOf(p)
<1>1. PICK row : row = Row(w, p, delta[p], cost[p], doc)
  OBVIOUS
<1>2. row.quantity = delta[p] /\ row.unitCost = CostOfLine(p, delta[p], cost[p])
  BY <1>1 DEF Row, CostOfLine
<1>3. \A v \in Warehouses :
        RowsOf(v, p)' = IF v = w /\ delta[p] # 0 THEN RowsOf(v, p) \cup {row} ELSE RowsOf(v, p)
  BY <1>1, ApplyRows
<1>4. \A c : c \in CostsOf(p) <=>
        \E v \in Warehouses : \E r \in RowsOf(v, p) : r.quantity > 0 /\ c = r.unitCost
  BY CostsType
<1>5. \A c : c \in CostsOf(p)' <=>
        \E v \in Warehouses : \E r \in RowsOf(v, p)' : r.quantity > 0 /\ c = r.unitCost
  <2>1. \A v \in Warehouses : RowsOf(v, p)' \subseteq Movement
    BY DEF RowsOf, TypeOK
  <2> QED
    BY <2>1 DEF CostsOf, Movement
<1>6. delta[p] \in Int
  OBVIOUS
<1>7. CostsOf(p) \subseteq CostsOf(p)'
  BY <1>3, <1>4, <1>5
<1>8. ASSUME delta[p] > 0 PROVE CostOfLine(p, delta[p], cost[p]) \in CostsOf(p)'
  <2>1. row \in RowsOf(w, p)'
    BY <1>3, <1>6, <1>8
  <2> QED
    BY <1>2, <1>5, <1>8, <2>1
<1>9. ASSUME delta[p] <= 0 PROVE CostsOf(p)' \subseteq CostsOf(p)
  <2>1. ~(row.quantity > 0)
    BY <1>2, <1>6, <1>9
  <2> QED
    BY <1>3, <1>4, <1>5, <2>1
<1> QED
  BY <1>7, <1>8, <1>9

(* An average of goods at two costs lies between them *)
LEMMA WeightedBetween ==
  ASSUME NEW q \in Nat \ {0}, NEW a \in Nat, NEW delta \in Nat \ {0}, NEW cost \in Nat,
         NEW lo \in Nat, NEW hi \in Nat,
         lo <= a, lo <= cost, a <= hi, cost <= hi
  PROVE  /\ lo <= RoundedQuotient(q * a + delta * cost, q + delta)
         /\ RoundedQuotient(q * a + delta * cost, q + delta) <= hi
<1>1. PICK n, d : n = q * a + delta * cost /\ d = q + delta
  OBVIOUS
<1>2. /\ q * a \in Nat /\ q * lo \in Nat /\ q * hi \in Nat
      /\ q * lo <= q * a /\ q * a <= q * hi
  BY SMT
<1>3. /\ delta * cost \in Nat /\ delta * lo \in Nat /\ delta * hi \in Nat
      /\ delta * lo <= delta * cost /\ delta * cost <= delta * hi
  BY SMT
<1>4. (q + delta) * lo = q * lo + delta * lo /\ (q + delta) * hi = q * hi + delta * hi
  BY SMT
<1>5. d \in Nat \ {0}
  BY <1>1
<1>6. PICK x, y, xl, yl, xh, yh :
        /\ x = q * a /\ y = delta * cost
        /\ xl = q * lo /\ yl = delta * lo /\ xh = q * hi /\ yh = delta * hi
  OBVIOUS
<1>7. n = x + y /\ d * lo = xl + yl /\ d * hi = xh + yh
  BY <1>1, <1>4, <1>6
<1>8. n \in Nat /\ d * lo <= n /\ n <= d * hi
  BY <1>2, <1>3, <1>6, <1>7
<1> QED
  BY <1>1, <1>5, <1>8, RoundedQuotientFloor, RoundedQuotientBound

(* A line that brings no goods in leaves the company with no more than it held *)
NoGain(delta) ==
  \A p \in Products : delta[p] <= 0 => delta[p] + (inTransit'[p] - inTransit[p]) <= 0

LEMMA AppliedBracketed ==
  ASSUME TypeOK, TypeOK', AverageInv, NEW w \in Warehouses,
         NEW delta \in [Products -> Int], NEW cost \in [Products -> UnitCostOrNone],
         NEW doc \in DocumentType, Apply(w, delta, cost, doc), NoGain(delta)
  PROVE  AverageInv'
<1> SUFFICES ASSUME NEW p \in Products PROVE Bracketed(p)'
  BY DEF AverageInv
<1>1. PICK before, after, q : before = CostsOf(p) /\ after = CostsOf(p)' /\ q = OnHand(p)
  OBVIOUS
<1>2. /\ before \subseteq 0..MaxCost /\ after \subseteq 0..MaxCost /\ before \subseteq after
      /\ delta[p] > 0 => CostOfLine(p, delta[p], cost[p]) \in after
      /\ delta[p] <= 0 => after = before
  <2>1. after \subseteq 0..MaxCost
    <3>1. \A v \in Warehouses : RowsOf(v, p)' \subseteq Movement
      BY DEF RowsOf, TypeOK
    <3> QED
      BY <1>1, <3>1 DEF CostsOf, Movement
  <2> QED
    BY <1>1, <2>1, CostsType, ApplyCosts
<1>3. /\ q \in Int /\ delta[p] \in Int /\ MaxCost \in Nat
      /\ avgCost[p] \in 0..MaxCost /\ avgCost'[p] \in 0..MaxCost
  <2>1. MaxCost \in Nat
    BY InventoryAssumption
  <2>2. q \in Int
    BY <1>1, OnHandType
  <2>3. avgCost[p] \in 0..MaxCost /\ avgCost'[p] \in 0..MaxCost
    BY DEF TypeOK
  <2> QED
    BY <2>1, <2>2, <2>3
<1>4. before = {} => q <= 0
  BY <1>1 DEF AverageInv, Bracketed
<1>5. before # {} => \E lo, hi \in before : lo <= avgCost[p] /\ avgCost[p] <= hi
  BY <1>1 DEF AverageInv, Bracketed
<1>6. avgCost'[p] = AverageAfter(p, delta[p], cost[p])
  BY DEF Apply
<1>7. CASE delta[p] <= 0
  <2>1. after = before /\ avgCost'[p] = avgCost[p]
    BY <1>2, <1>3, <1>6, <1>7 DEF AverageAfter, Incoming
  <2>3. delta[p] + (inTransit'[p] - inTransit[p]) <= 0 /\ inTransit[p] \in Int /\ inTransit'[p] \in Int
    BY <1>7 DEF NoGain, TypeOK
  <2>2. OnHand(p)' = q + delta[p] + (inTransit'[p] - inTransit[p])
    BY <1>1, <2>3, ApplyHeld
  <2>4. q <= 0 => OnHand(p)' <= 0
    BY <1>3, <2>2, <2>3
  <2> QED
    BY <1>1, <1>4, <1>5, <2>1, <2>4 DEF Bracketed
<1>8. CASE delta[p] > 0
  <2>0. PICK c : c = CostOfLine(p, delta[p], cost[p])
    OBVIOUS
  <2>1. c \in after
    BY <1>2, <1>8, <2>0
  <2>2. ASSUME NEW lo \in after, NEW hi \in after, lo <= avgCost'[p], avgCost'[p] <= hi
        PROVE  Bracketed(p)'
    BY <1>1, <2>1, <2>2 DEF Bracketed
  <2>3. CASE avgCost'[p] = c
    BY <1>3, <2>1, <2>2, <2>3
  <2>4. CASE avgCost'[p] # c
    <3>1. Incoming(delta[p], cost[p]) /\ c = cost[p] /\ q > 0
      BY <1>1, <1>3, <1>6, <2>0, <2>4 DEF CostOfLine, AverageAfter, WeightedAverage
    <3>2. cost[p] \in 0..MaxCost
      BY <3>1 DEF Incoming, UnitCostOrNone
    <3>3. avgCost'[p] = RoundedQuotient(q * avgCost[p] + delta[p] * c, q + delta[p])
      BY <1>1, <1>3, <1>6, <3>1 DEF AverageAfter, WeightedAverage
    <3>4. PICK l \in before, h \in before : l <= avgCost[p] /\ avgCost[p] <= h
      BY <1>3, <1>4, <1>5, <3>1
    <3>5. PICK lo, hi : lo = (IF c < l THEN c ELSE l) /\ hi = (IF c > h THEN c ELSE h)
      OBVIOUS
    <3>6. l \in Nat /\ h \in Nat /\ c \in Nat /\ avgCost[p] \in Nat /\ q \in Nat \ {0}
            /\ delta[p] \in Nat \ {0}
      BY <1>2, <1>3, <1>8, <3>1, <3>2
    <3>7. /\ lo \in Nat /\ hi \in Nat /\ lo <= avgCost[p] /\ lo <= c
          /\ avgCost[p] <= hi /\ c <= hi
      BY <3>4, <3>5, <3>6
    <3>8. lo \in after /\ hi \in after
      BY <1>2, <2>1, <3>5
    <3>9. PICK a, n : a = avgCost[p] /\ n = delta[p]
      OBVIOUS
    <3>10. a \in Nat /\ n \in Nat \ {0} /\ lo <= a /\ a <= hi
      BY <3>6, <3>7, <3>9
    <3>11. lo <= RoundedQuotient(q * a + n * c, q + n) /\ RoundedQuotient(q * a + n * c, q + n) <= hi
      BY <3>6, <3>7, <3>10, WeightedBetween
    <3>12. lo <= avgCost'[p] /\ avgCost'[p] <= hi
      BY <3>3, <3>9, <3>11
    <3> QED
      BY <2>2, <3>8, <3>12
  <2> QED
    BY <2>3, <2>4
<1> QED
  BY <1>3, <1>7, <1>8

LEMMA InitBracketed == Init => AverageInv
<1> SUFFICES ASSUME Init, NEW p \in Products PROVE Bracketed(p)
  BY DEF AverageInv
<1>1. CostsOf(p) = {}
  BY DEF Init, CostsOf, RowsOf
<1>2. [w \in Warehouses |-> level[w][p]] = [w \in Warehouses |-> 0] /\ inTransit[p] = 0
  BY DEF Init, Empty
<1>3. OnHand(p) = 0
  BY <1>2, TotalZero DEF OnHand
<1> QED
  BY <1>1, <1>3 DEF Bracketed

LEMMA NextBracketed == TypeOK /\ AverageInv /\ [Next]_vars => AverageInv'
<1> SUFFICES ASSUME TypeOK, AverageInv, [Next]_vars PROVE AverageInv'
  OBVIOUS
<1>0. TypeOK'
  BY NextType
<1>1. CASE UNCHANGED <<level, avgCost, inTransit, movements>>
  <2>1. ASSUME NEW p \in Products
        PROVE  CostsOf(p)' = CostsOf(p) /\ OnHand(p)' = OnHand(p) /\ avgCost'[p] = avgCost[p]
    BY <1>1 DEF CostsOf, RowsOf, OnHand
  <2> QED
    BY <2>1 DEF AverageInv, Bracketed
<1>2. ASSUME NEW w \in Warehouses, Documents(w) PROVE AverageInv'
  <2>1. PICK x \in Warehouses, delta \in [Products -> Int],
             cost \in [Products -> UnitCostOrNone], doc \in DocumentType :
               Apply(x, delta, cost, doc) /\ UNCHANGED <<inTransit, transfer>>
    BY <1>2, DocumentsAreDocumentSteps DEF DocumentStep
  <2>2. NoGain(delta)
    BY <2>1 DEF NoGain, TypeOK
  <2> QED
    BY <1>0, <2>1, <2>2, AppliedBracketed
<1>3. ASSUME NEW t \in Transfers, TransferStep(t) PROVE AverageInv'
  <2>0. Free \in [Products -> UnitCostOrNone]
    BY QuantityTypes
  <2>1. /\ TransferDocument("transfer_out", t) \in DocumentType
        /\ TransferDocument("transfer_in", t) \in DocumentType
    BY DocumentsTyped DEF MovementTypes
  <2>2. PICK lines : lines = transfer[t].lines
    OBVIOUS
  <2>3. /\ lines \in [Products -> Nat] /\ Out(lines) \in [Products -> Int]
        /\ \A p \in Products : Out(lines)[p] = -lines[p]
        /\ transfer[t].from \in Warehouses /\ transfer[t].to \in Warehouses
    BY <2>2, TransferRowType
  <2>4. CASE Send(t)
    <3>1. Apply(transfer[t].from, Out(lines), Free, TransferDocument("transfer_out", t))
            /\ AdjustInTransit(lines)
      BY <2>2, <2>4 DEF Send
    <3>2. NoGain(Out(lines))
      BY <2>3, <3>1 DEF NoGain, AdjustInTransit, TypeOK
    <3> QED
      BY <1>0, <2>0, <2>1, <2>3, <3>1, <3>2, AppliedBracketed
  <2>5. ASSUME NEW received \in Quantities, Receive(t, received) PROVE AverageInv'
    <3>1. Apply(transfer[t].to, received, Free, TransferDocument("transfer_in", t))
            /\ AdjustInTransit(Out(lines))
      BY <2>2, <2>5 DEF Receive
    <3>2. received \in [Products -> Nat] /\ received \in [Products -> Int]
      BY QuantityTypes
    <3>3. NoGain(received)
      BY <2>3, <3>1, <3>2 DEF NoGain, AdjustInTransit, TypeOK
    <3> QED
      BY <1>0, <2>0, <2>1, <2>3, <3>1, <3>2, <3>3, AppliedBracketed
  <2>6. CASE CancelSent(t)
    <3>1. Apply(transfer[t].from, lines, Free, TransferDocument("transfer_in", t))
            /\ AdjustInTransit(Out(lines))
      BY <2>2, <2>6 DEF CancelSent
    <3>2. NoGain(lines) /\ lines \in [Products -> Int]
      BY <2>3, <3>1 DEF NoGain, AdjustInTransit, TypeOK
    <3> QED
      BY <1>0, <2>0, <2>1, <2>3, <3>1, <3>2, AppliedBracketed
  <2> QED
    BY <1>1, <1>3, <2>4, <2>5, <2>6 DEF TransferStep, Create, Update, CancelDraft
<1> QED
  BY <1>1, <1>2, <1>3 DEF Next, vars

(* The moving average StockService.applyOne keeps stays among the unit costs   *)
(* of the rows that brought goods in, whatever is sold, returned, counted,     *)
(* moved or oversold in between: only goods that came in at a cost weigh in    *)
(* it, because the company holds none before the first of them                 *)
THEOREM AverageKept == Spec => []AverageWithinCosts
<1>1. AverageInv => AverageWithinCosts
  BY DEF AverageInv, Bracketed, AverageWithinCosts, CostsOf
<1> QED
  BY <1>1, InitType, NextType, InitBracketed, NextBracketed, PTL DEF Spec

-----------------------------------------------------------------------------
(* The value of the stock follows the ledger *)

(* One line: q on hand at average a, then n units at cost c, new average b.  *)
(* The value of the stock changes by n * c within the rounding of b          *)
LEMMA LineValue ==
  ASSUME NEW q \in Int, NEW n \in Int, NEW a \in Nat, NEW b \in Nat, NEW c \in Nat,
         \/ b = a /\ c = a
         \/ q = 0 /\ b = c
         \/ q \in Nat \ {0} /\ n \in Nat \ {0} /\ b = RoundedQuotient(q * a + n * c, q + n),
         NEW error, error = (q + n) * b - q * a - n * c
  PROVE  error = 0 \/ (2 * error <= q + n /\ -2 * error <= q + n)
<1>1. CASE b = a /\ c = a
  BY <1>1, SMT
<1>2. CASE q = 0 /\ b = c
  BY <1>2, SMT
<1>3. CASE q \in Nat \ {0} /\ n \in Nat \ {0} /\ b = RoundedQuotient(q * a + n * c, q + n)
  <2>1. PICK x, y, d : x = q * a /\ y = n * c /\ d = q + n
    OBVIOUS
  <2>2. x \in Nat /\ y \in Nat /\ d \in Nat \ {0}
    BY <1>3, <2>1
  <2>3. 2 * (d * b - (x + y)) <= d /\ -2 * (d * b - (x + y)) <= d
    BY <1>3, <2>1, <2>2, RoundedQuotientError
  <2>4. PICK e : e = d * b
    OBVIOUS
  <2>5. e \in Int /\ error = e - x - y
    BY <2>1, <2>2, <2>4
  <2> QED
    BY <2>1, <2>2, <2>3, <2>4, <2>5
<1> QED
  BY <1>1, <1>2, <1>3

LEMMA AppliedValue ==
  ASSUME TypeOK, TypeOK', NEW x \in Warehouses,
         NEW delta \in [Products -> Int], NEW cost \in [Products -> UnitCostOrNone],
         NEW doc \in DocumentType, Apply(x, delta, cost, doc),
         doc.transfer = NoTransfer => UNCHANGED inTransit,
         NEW w \in Warehouses, NEW p \in Products, movements'[w][p] # movements[w][p]
  PROVE  ValueFollows(w, p)
<1>1. PICK q, n, a, b, c : /\ q = OnHand(p) /\ n = delta[p] /\ a = avgCost[p] /\ b = avgCost'[p]
                           /\ c = CostOfLine(p, delta[p], cost[p])
  OBVIOUS
<1>2. w = x /\ n # 0
  BY <1>1 DEF Apply, TypeOK
<1>3. PICK row : row = Row(x, p, delta[p], cost[p], doc)
  OBVIOUS
<1>4. row.quantity = n /\ row.unitCost = c /\ row.transfer = doc.transfer /\ row \in Movement
  BY <1>1, <1>3, RowType DEF Row, CostOfLine
<1>5. movements'[w][p][Len(movements'[w][p])] = row
  <2>1. PICK rows : rows = movements[w][p]
    OBVIOUS
  <2>2. rows \in Seq(Movement)
    BY <2>1 DEF TypeOK
  <2>3. movements'[w][p] = Append(rows, row)
    BY <1>1, <1>2, <1>3, <2>1 DEF Apply, TypeOK
  <2>4. Append(rows, row)[Len(Append(rows, row))] = row
    BY <1>4, <2>2
  <2> QED
    BY <2>3, <2>4
<1>6. /\ q \in Int /\ n \in Int /\ a \in Nat /\ b \in Nat /\ MaxCost \in Nat
      /\ inTransit[p] \in Int /\ inTransit'[p] \in Int
  <2>1. MaxCost \in Nat
    BY InventoryAssumption
  <2>2. q \in Int
    BY <1>1, OnHandType
  <2>3. n \in Int
    BY <1>1
  <2>4. avgCost[p] \in 0..MaxCost /\ avgCost'[p] \in 0..MaxCost
    BY DEF TypeOK
  <2>5. inTransit[p] \in Int /\ inTransit'[p] \in Int
    BY DEF TypeOK
  <2> QED
    BY <1>1, <2>1, <2>2, <2>3, <2>4, <2>5
<1>7. b = AverageAfter(p, delta[p], cost[p])
  BY <1>1 DEF Apply
<1>8. SUFFICES ASSUME doc.transfer = NoTransfer, n < 0 \/ q >= 0,
                      NEW error, error = (q + n) * b - q * a - n * c
               PROVE  error = 0 \/ (2 * error <= q + n /\ -2 * error <= q + n)
  <2>1. ASSUME doc.transfer = NoTransfer PROVE OnHand(p)' = q + n
    <3>1. OnHand(p)' = q + n + (inTransit'[p] - inTransit[p])
      BY <1>1, <1>6, ApplyHeld
    <3> QED
      BY <1>6, <2>1, <3>1
  <2>2. Value(p) = q * a
    BY <1>1 DEF Value
  <2>3. ASSUME doc.transfer = NoTransfer PROVE Value(p)' = (q + n) * b
    BY <1>1, <2>1, <2>3 DEF Value
  <2> QED
    BY <1>1, <1>4, <1>5, <2>1, <2>2, <2>3 DEF ValueFollows
<1>9. CASE ~Incoming(delta[p], cost[p])
  <2>1. b = a /\ c = a
    BY <1>1, <1>7, <1>9 DEF AverageAfter, CostOfLine
  <2> QED
    BY <1>6, <1>8, <2>1, LineValue
<1>10. CASE Incoming(delta[p], cost[p])
  <2>1. n > 0 /\ c = cost[p] /\ c \in Nat
    BY <1>1, <1>6, <1>10 DEF Incoming, CostOfLine, UnitCostOrNone
  <2>2. q >= 0
    BY <1>6, <1>8, <2>1
  <2>3. \/ q = 0 /\ b = c
        \/ q \in Nat \ {0} /\ n \in Nat \ {0} /\ b = RoundedQuotient(q * a + n * c, q + n)
    BY <1>1, <1>6, <1>7, <1>10, <2>1, <2>2 DEF AverageAfter, WeightedAverage
  <2> QED
    BY <1>6, <1>8, <2>1, <2>3, LineValue
<1> QED
  BY <1>9, <1>10

LEMMA NextValue ==
  ASSUME TypeOK, [Next]_vars, NEW w \in Warehouses, NEW p \in Products,
         movements'[w][p] # movements[w][p]
  PROVE  ValueFollows(w, p)
<1>0. TypeOK'
  BY NextType
<1>1. ASSUME NEW v \in Warehouses, Documents(v) PROVE ValueFollows(w, p)
  <2>1. PICK x \in Warehouses, delta \in [Products -> Int],
             cost \in [Products -> UnitCostOrNone], doc \in DocumentType :
               Apply(x, delta, cost, doc) /\ UNCHANGED <<inTransit, transfer>>
    BY <1>1, DocumentsAreDocumentSteps DEF DocumentStep
  <2> QED
    BY <1>0, <2>1, AppliedValue
<1>2. ASSUME NEW t \in Transfers, TransferStep(t) PROVE ValueFollows(w, p)
  <2>0. Free \in [Products -> UnitCostOrNone]
    BY QuantityTypes
  <2>1. PICK sent, arrived : /\ sent = TransferDocument("transfer_out", t)
                             /\ arrived = TransferDocument("transfer_in", t)
    OBVIOUS
  <2>2. /\ sent \in DocumentType /\ sent.transfer # NoTransfer
        /\ arrived \in DocumentType /\ arrived.transfer # NoTransfer
    <3>1. "transfer_out" \in MovementTypes /\ "transfer_in" \in MovementTypes
      BY DEF MovementTypes
    <3>2. sent \in DocumentType /\ sent.transfer = t
      BY <2>1, <3>1, DocumentsTyped
    <3>3. arrived \in DocumentType /\ arrived.transfer = t
      BY <2>1, <3>1, DocumentsTyped
    <3> QED
      BY <3>2, <3>3, InventoryAssumption
  <2>3. /\ transfer[t].lines \in [Products -> Int] /\ Out(transfer[t].lines) \in [Products -> Int]
        /\ transfer[t].from \in Warehouses /\ transfer[t].to \in Warehouses
    BY TransferRowType
  <2>4. CASE Send(t)
    BY <1>0, <2>0, <2>1, <2>2, <2>3, <2>4, AppliedValue DEF Send
  <2>5. ASSUME NEW received \in Quantities, Receive(t, received) PROVE ValueFollows(w, p)
    <3>1. received \in [Products -> Int]
      BY QuantityTypes
    <3> QED
      BY <1>0, <2>0, <2>1, <2>2, <2>3, <2>5, <3>1, AppliedValue DEF Receive
  <2>6. CASE CancelSent(t)
    BY <1>0, <2>0, <2>1, <2>2, <2>3, <2>6, AppliedValue DEF CancelSent
  <2> QED
    BY <1>2, <2>4, <2>5, <2>6 DEF TransferStep, Create, Update, CancelDraft
<1> QED
  BY <1>1, <1>2 DEF Next, vars

(* Every row StockService.applyOne writes for a document other than a transfer *)
(* changes the value of the stock, at the moving average, by its quantity at   *)
(* its cost: exactly for what goes out or comes in at the average, and within  *)
(* the rounding of the average for what comes in at a cost of its own          *)
THEOREM ValueKept == Spec => ValueFollowsLedger
<1>1. TypeOK /\ [Next]_vars =>
        [\A w \in Warehouses, p \in Products :
           movements'[w][p] # movements[w][p] => ValueFollows(w, p)]_vars
  BY NextValue
<1> QED
  BY <1>1, InitType, NextType, PTL DEF Spec, ValueFollowsLedger

-----------------------------------------------------------------------------
(* Statement by statement *)

TxTyped ==
  /\ itemLock \in [Products -> Clients \cup {NoClient}]
  /\ rowLock \in [Transfers -> Clients \cup {NoClient}]
  /\ work \in [Clients -> JobType \cup {Idle}]
  /\ seen \in [Clients -> SeenType \cup {Idle}]
  /\ written \in [Clients -> [Products -> WrittenType \cup {Idle}]]
  /\ moved \in [Clients -> [Products -> Int]]

(* What the line of a job comes to, from what is committed now *)
DeltaNow(c, p) ==
  IF work[c].lines[p].kind = "target" THEN work[c].lines[p].n - level[work[c].w][p]
  ELSE work[c].lines[p].n
CostOfJob(c, p) == work[c].lines[p].cost

RowNow(c, p) ==
  IF DeltaNow(c, p) = 0 THEN Idle
  ELSE [average |-> AverageAfter(p, DeltaNow(c, p), CostOfJob(c, p)),
        row |-> Row(work[c].w, p, DeltaNow(c, p), CostOfJob(c, p), work[c].doc)]

(* A job is still the one its client began, but for the statements it has done *)
Doing(c, job) ==
  /\ work[c].w = job.w /\ work[c].doc = job.doc /\ work[c].lines = job.lines
  /\ work[c].carry = job.carry /\ work[c].status = job.status
  /\ work[c].received = job.received

Selling(c) ==
  \E w \in Warehouses, lines \in Lines :
    Doing(c, DocumentJob(w, Document("sale"), ChangeLines(Out(lines), NoCost)))
Buying(c) ==
  \E w \in Warehouses, lines \in Lines, cost \in Costs :
    Doing(c, DocumentJob(w, Document("purchase"), ChangeLines(lines, cost)))
Counting(c) ==
  \E w \in Warehouses, counted \in SUBSET Products \ {{}}, count \in Quantities :
    Doing(c, DocumentJob(w, Document("stocktake"), CountLines(counted, count)))
Moving(c) ==
  \E t \in Transfers :
    /\ rowLock[t] = c
    /\ \/ transfer[t].status = "draft" /\ Doing(c, SendJob(t))
       \/ transfer[t].status = "in_transit" /\ Doing(c, CancelJob(t))
       \/ /\ transfer[t].status = "in_transit"
          /\ \E received \in Quantities :
               /\ \A p \in Products : received[p] <= transfer[t].lines[p]
               /\ Doing(c, ReceiveJob(t, received))

Begun(c) == Selling(c) \/ Buying(c) \/ Counting(c) \/ Moving(c)

(* What is written of a line is what it comes to, and its item is locked *)
LineSound(c, p) ==
  IF p \in work[c].apply THEN written[c][p] = Idle
  ELSE /\ written[c][p] = RowNow(c, p)
       /\ ~Overdrawn(work[c].w, p, DeltaNow(c, p))
       /\ DeltaNow(c, p) # 0 => Len(movements[work[c].w][p]) < MaxMovements
       /\ work[c].lines[p] # NoLine => itemLock[p] = c

MoveSound(c, p) ==
  IF p \in work[c].move THEN moved[c][p] = 0
  ELSE /\ moved[c][p] = work[c].carry[p]
       /\ work[c].carry[p] # 0 => itemLock[p] = c

(* What a client has read is what is committed *)
SeenSound(c) ==
  seen[c] # Idle =>
    LET s == seen[c]
        p == s.product
        line == work[c].lines[p]
    IN  /\ p \in work[c].apply /\ itemLock[p] = c
        /\ s.avgCost = avgCost[p] /\ s.inTransit = inTransit[p]
        /\ s.at # "quantity" => s.quantity = level[work[c].w][p]
        /\ (s.at = "write" /\ line.kind = "change" /\ Incoming(line.n, line.cost)) =>
              s.onHand = OnHand(p)

BusySound(c) ==
  /\ Begun(c)
  /\ \A p \in Products : LineSound(c, p)
  /\ \A p \in Products : MoveSound(c, p)
  /\ SeenSound(c)

Resting(c) ==
  /\ seen[c] = Idle /\ moved[c] = Empty
  /\ \A p \in Products : written[c][p] = Idle

ClientSound(c) == IF Busy(c) THEN BusySound(c) ELSE Resting(c)

TxInv == TypeOK /\ TxTyped /\ \A c \in Clients : ClientSound(c)

-----------------------------------------------------------------------------
(* The jobs *)

LEMMA LinesTyped ==
  /\ \A q \in [Products -> Int], cost \in UnitCostOrNone : ChangeLines(q, cost) \in [Products -> LineType]
  /\ \A counted \in SUBSET Products, count \in [Products -> Nat] :
       CountLines(counted, count) \in [Products -> LineType]
<1>1. NoLine \in LineType
  BY DEF NoLine, LineType, NoCost
<1>2. \A n \in Int, cost \in UnitCostOrNone : Change(n, cost) \in LineType
  BY DEF Change, LineType, UnitCostOrNone
<1>3. \A n \in Nat : Target(n) \in LineType
  BY DEF Target, LineType
<1>4. ASSUME NEW q \in [Products -> Int], NEW cost \in UnitCostOrNone
      PROVE  ChangeLines(q, cost) \in [Products -> LineType]
  BY <1>1, <1>2 DEF ChangeLines
<1>5. ASSUME NEW counted \in SUBSET Products, NEW count \in [Products -> Nat]
      PROVE  CountLines(counted, count) \in [Products -> LineType]
  BY <1>1, <1>3 DEF CountLines
<1> QED
  BY <1>4, <1>5

LEMMA JobsTyped ==
  ASSUME NEW w \in Warehouses, NEW doc \in DocumentType, NEW lines \in [Products -> LineType],
         NEW carry \in [Products -> Int], NEW status \in Statuses, NEW received \in [Products -> Nat]
  PROVE  /\ DocumentJob(w, doc, lines) \in JobType
         /\ [DocumentJob(w, doc, lines) EXCEPT
              !.move = {p \in Products : carry[p] # 0}, !.carry = carry,
              !.status = status, !.received = received] \in JobType
<1>1. Empty \in [Products -> Int] /\ Empty \in [Products -> Nat]
  BY DEF Empty
<1>2. "none" \in Statuses
  BY DEF Statuses
<1>3. {p \in Products : lines[p] # NoLine} \in SUBSET Products
        /\ {p \in Products : carry[p] # 0} \in SUBSET Products
  OBVIOUS
<1> QED
  BY <1>1, <1>2, <1>3 DEF DocumentJob, JobType

LEMMA TransferJobsTyped ==
  ASSUME NEW w \in Warehouses, NEW type \in MovementTypes, NEW t \in Transfers,
         NEW quantities \in [Products -> Int], NEW carry \in [Products -> Int],
         NEW status \in Statuses, NEW received \in [Products -> Nat]
  PROVE  TransferJob(w, type, t, quantities, carry, status, received) \in JobType
<1>1. TransferDocument(type, t) \in DocumentType
  BY DocumentsTyped
<1>2. NoCost \in UnitCostOrNone
  BY DEF UnitCostOrNone
<1>3. ChangeLines(quantities, NoCost) \in [Products -> LineType]
  BY <1>2, LinesTyped
<1> QED
  BY <1>1, <1>3, JobsTyped DEF TransferJob

(* The job of a client, and what its lines come to *)
LEMMA JobHasType ==
  ASSUME TypeOK, TxTyped, NEW c \in Clients, Busy(c)
  PROVE  /\ work[c] \in JobType
         /\ work[c].w \in Warehouses /\ work[c].doc \in DocumentType
         /\ work[c].lines \in [Products -> LineType]
         /\ work[c].apply \in SUBSET Products /\ work[c].move \in SUBSET Products
         /\ work[c].carry \in [Products -> Int] /\ work[c].status \in Statuses
         /\ work[c].received \in [Products -> Nat]
         /\ \A p \in Products : DeltaNow(c, p) \in Int /\ CostOfJob(c, p) \in UnitCostOrNone
<1>1. work[c] \in JobType
  BY DEF TxTyped, Busy
<1>2. /\ work[c].w \in Warehouses /\ work[c].doc \in DocumentType
      /\ work[c].lines \in [Products -> LineType]
      /\ work[c].apply \in SUBSET Products /\ work[c].move \in SUBSET Products
      /\ work[c].carry \in [Products -> Int] /\ work[c].status \in Statuses
      /\ work[c].received \in [Products -> Nat]
  BY <1>1 DEF JobType
<1>3. ASSUME NEW p \in Products
      PROVE  DeltaNow(c, p) \in Int /\ CostOfJob(c, p) \in UnitCostOrNone
  <2>1. work[c].lines[p].n \in Int /\ work[c].lines[p].cost \in UnitCostOrNone
    BY <1>2 DEF LineType, UnitCostOrNone
  <2>2. level[work[c].w][p] \in Int
    BY <1>2 DEF TypeOK
  <2> QED
    BY <2>1, <2>2 DEF DeltaNow, CostOfJob
<1> QED
  BY <1>1, <1>2, <1>3

LEMMA RowNowType ==
  ASSUME TypeOK, TxTyped, NEW c \in Clients, Busy(c), NEW p \in Products
  PROVE  /\ RowNow(c, p) \in WrittenType \cup {Idle}
         /\ DeltaNow(c, p) # 0 <=> RowNow(c, p) # Idle
<1>1. /\ AverageAfter(p, DeltaNow(c, p), CostOfJob(c, p)) \in 0 .. MaxCost
      /\ Row(work[c].w, p, DeltaNow(c, p), CostOfJob(c, p), work[c].doc) \in Movement
  BY JobHasType, AverageType, RowType
<1> DEFINE made == [average |-> AverageAfter(p, DeltaNow(c, p), CostOfJob(c, p)),
                    row |-> Row(work[c].w, p, DeltaNow(c, p), CostOfJob(c, p), work[c].doc)]
<1>2. made \in WrittenType
  BY <1>1 DEF WrittenType
<1>3. Idle \notin WrittenType
  BY TransactionAssumption
<1>4. RowNow(c, p) = IF DeltaNow(c, p) = 0 THEN Idle ELSE made
  BY DEF RowNow
<1> HIDE DEF made
<1> QED
  BY <1>2, <1>3, <1>4
-----------------------------------------------------------------------------
(* What a client did stays right while others work *)

SameJob(c) ==
  /\ work'[c] # Idle
  /\ work'[c].w = work[c].w /\ work'[c].doc = work[c].doc /\ work'[c].lines = work[c].lines
  /\ work'[c].carry = work[c].carry /\ work'[c].status = work[c].status
  /\ work'[c].received = work[c].received

ItemKept(c, p) ==
  itemLock[p] = c =>
    /\ itemLock'[p] = c /\ avgCost'[p] = avgCost[p] /\ inTransit'[p] = inTransit[p]
    /\ \A w \in Warehouses : level'[w][p] = level[w][p] /\ movements'[w][p] = movements[w][p]

TransferKept(c, t) == rowLock[t] = c => rowLock'[t] = c /\ transfer'[t] = transfer[t]

ClientKept(c) ==
  /\ work'[c] = work[c] /\ seen'[c] = seen[c] /\ written'[c] = written[c] /\ moved'[c] = moved[c]
  /\ \A p \in Products : ItemKept(c, p)
  /\ \A t \in Transfers : TransferKept(c, t)

LEMMA BegunStays ==
  ASSUME NEW c \in Clients, SameJob(c), \A t \in Transfers : TransferKept(c, t), Begun(c)
  PROVE  Begun(c)'
<1>1. \A job : Doing(c, job) => Doing(c, job)'
  BY DEF SameJob, Doing
<1>2. CASE Selling(c)
  BY <1>2, <1>1 DEF Begun, Selling
<1>3. CASE Buying(c)
  BY <1>3, <1>1 DEF Begun, Buying
<1>4. CASE Counting(c)
  BY <1>4, <1>1 DEF Begun, Counting
<1>5. CASE Moving(c)
  <2>1. PICK t \in Transfers :
          /\ rowLock[t] = c
          /\ \/ transfer[t].status = "draft" /\ Doing(c, SendJob(t))
             \/ transfer[t].status = "in_transit" /\ Doing(c, CancelJob(t))
             \/ /\ transfer[t].status = "in_transit"
                /\ \E received \in Quantities :
                     /\ \A p \in Products : received[p] <= transfer[t].lines[p]
                     /\ Doing(c, ReceiveJob(t, received))
    BY <1>5 DEF Moving
  <2>2. rowLock'[t] = c /\ transfer'[t] = transfer[t]
    BY <2>1 DEF TransferKept
  <2>3. /\ SendJob(t)' = SendJob(t) /\ CancelJob(t)' = CancelJob(t)
        /\ \A received : ReceiveJob(t, received)' = ReceiveJob(t, received)
    BY <2>2 DEF SendJob, CancelJob, ReceiveJob
  <2>4. /\ Doing(c, SendJob(t)) => Doing(c, SendJob(t))'
        /\ Doing(c, CancelJob(t)) => Doing(c, CancelJob(t))'
        /\ \A received : Doing(c, ReceiveJob(t, received)) => Doing(c, ReceiveJob(t, received))'
    BY <2>3 DEF SameJob, Doing
  <2>5. Moving(c)'
    BY <2>1, <2>2, <2>4 DEF Moving
  <2> QED
    BY <2>5 DEF Begun
<1> QED
  BY <1>2, <1>3, <1>4, <1>5 DEF Begun

LEMMA DeltaStays ==
  ASSUME TypeOK, TxTyped, NEW c \in Clients, Busy(c), SameJob(c), NEW p \in Products,
         ItemKept(c, p), work[c].lines[p] # NoLine => itemLock[p] = c
  PROVE  DeltaNow(c, p)' = DeltaNow(c, p) /\ CostOfJob(c, p)' = CostOfJob(c, p)
<1>1. work[c].w \in Warehouses
  BY JobHasType
<1>2. work[c].lines[p].kind = "target" => work[c].lines[p] # NoLine
  BY DEF NoLine
<1>3. work[c].lines[p].kind = "target" => level'[work[c].w][p] = level[work[c].w][p]
  BY <1>1, <1>2 DEF ItemKept
<1> QED
  BY <1>3 DEF DeltaNow, CostOfJob, SameJob

(* A line that comes to nothing needs no lock; one that changes something has it *)
LEMMA NoLineNoDelta ==
  ASSUME NEW c \in Clients, NEW p \in Products, DeltaNow(c, p) # 0
  PROVE  work[c].lines[p] # NoLine
  BY DEF DeltaNow, NoLine

LEMMA HeldStays ==
  ASSUME NEW c \in Clients, NEW p \in Products, ItemKept(c, p), itemLock[p] = c
  PROVE  OnHand(p)' = OnHand(p)
<1>1. [w \in Warehouses |-> level'[w][p]] = [w \in Warehouses |-> level[w][p]]
        /\ inTransit'[p] = inTransit[p]
  BY DEF ItemKept
<1> QED
  BY <1>1 DEF OnHand

LEMMA LineStays ==
  ASSUME TypeOK, TxTyped, NEW c \in Clients, Busy(c), SameJob(c), NEW p \in Products,
         p \in work'[c].apply <=> p \in work[c].apply, written'[c][p] = written[c][p],
         ItemKept(c, p), LineSound(c, p)
  PROVE  LineSound(c, p)'
<1>1. CASE p \in work[c].apply
  BY <1>1 DEF LineSound
<1>2. CASE p \notin work[c].apply
  <2>1. /\ written[c][p] = RowNow(c, p)
        /\ ~Overdrawn(work[c].w, p, DeltaNow(c, p))
        /\ DeltaNow(c, p) # 0 => Len(movements[work[c].w][p]) < MaxMovements
        /\ work[c].lines[p] # NoLine => itemLock[p] = c
    BY <1>2 DEF LineSound
  <2>2. PICK n, k, w, doc : n = DeltaNow(c, p) /\ k = CostOfJob(c, p) /\ w = work[c].w /\ doc = work[c].doc
    OBVIOUS
  <2>3. DeltaNow(c, p)' = n /\ CostOfJob(c, p)' = k /\ work'[c].w = w /\ work'[c].doc = doc
    BY <2>1, <2>2, DeltaStays DEF SameJob
  <2>4. w \in Warehouses /\ n \in Int
    BY <2>2, JobHasType
  <2>5. CASE n = 0
    <3>1. RowNow(c, p)' = Idle /\ RowNow(c, p) = Idle
      BY <2>2, <2>3, <2>5 DEF RowNow
    <3>2. ~Overdrawn(work[c].w, p, DeltaNow(c, p))'
      BY <2>3, <2>5 DEF Overdrawn
    <3>3. (work[c].lines[p] # NoLine => itemLock[p] = c)'
      BY <2>1 DEF SameJob, ItemKept
    <3> QED
      BY <1>2, <2>1, <2>3, <2>5, <3>1, <3>2, <3>3 DEF LineSound
  <2>6. CASE n # 0
    <3>1. itemLock[p] = c
      BY <2>1, <2>2, <2>6, NoLineNoDelta
    <3>2. /\ itemLock'[p] = c /\ avgCost'[p] = avgCost[p]
          /\ level'[w][p] = level[w][p] /\ movements'[w][p] = movements[w][p]
          /\ OnHand(p)' = OnHand(p)
      BY <2>4, <3>1, HeldStays DEF ItemKept
    <3>3. AverageAfter(p, n, k)' = AverageAfter(p, n, k)
      BY <3>2 DEF AverageAfter
    <3>4. Row(w, p, n, k, doc)' = Row(w, p, n, k, doc)
      BY <3>2 DEF Row
    <3>5. RowNow(c, p)' = RowNow(c, p)
      BY <2>2, <2>3, <3>3, <3>4 DEF RowNow
    <3>6. Overdrawn(w, p, n)' = Overdrawn(w, p, n)
      BY <3>2 DEF Overdrawn
    <3> QED
      BY <1>2, <2>1, <2>2, <2>3, <3>2, <3>5, <3>6 DEF LineSound
  <2> QED
    BY <2>5, <2>6
<1> QED
  BY <1>1, <1>2

LEMMA MoveStays ==
  ASSUME NEW c \in Clients, SameJob(c), NEW p \in Products,
         p \in work'[c].move <=> p \in work[c].move, moved'[c][p] = moved[c][p],
         ItemKept(c, p), MoveSound(c, p)
  PROVE  MoveSound(c, p)'
  BY DEF SameJob, ItemKept, MoveSound

LEMMA SeenStays ==
  ASSUME TypeOK, TxTyped, NEW c \in Clients, Busy(c), SameJob(c),
         \A p \in Products : ItemKept(c, p), seen'[c] = seen[c],
         seen[c] # Idle => seen[c].product \in work'[c].apply, SeenSound(c)
  PROVE  SeenSound(c)'
<1> SUFFICES ASSUME seen[c] # Idle PROVE SeenSound(c)'
  BY DEF SeenSound
<1>1. PICK s, p, w : s = seen[c] /\ p = s.product /\ w = work[c].w
  OBVIOUS
<1>2. p \in Products /\ w \in Warehouses
  BY <1>1, JobHasType DEF TxTyped, SeenType
<1>3. itemLock[p] = c
  BY <1>1 DEF SeenSound
<1>4. /\ itemLock'[p] = c /\ avgCost'[p] = avgCost[p] /\ inTransit'[p] = inTransit[p]
      /\ level'[w][p] = level[w][p] /\ OnHand(p)' = OnHand(p)
  BY <1>2, <1>3, HeldStays DEF ItemKept
<1> QED
  BY <1>1, <1>4 DEF SeenSound, SameJob

LEMMA ClientStays ==
  ASSUME TypeOK, TxTyped, NEW c \in Clients, ClientKept(c), ClientSound(c)
  PROVE  ClientSound(c)'
<1>1. CASE ~Busy(c)
  BY <1>1 DEF ClientSound, ClientKept, Busy, Resting
<1>2. CASE Busy(c)
  <2>1. SameJob(c)
    BY <1>2 DEF SameJob, ClientKept, Busy
  <2>2. BusySound(c)
    BY <1>2 DEF ClientSound
  <2>3. Begun(c)'
    BY <2>1, <2>2, BegunStays DEF BusySound, ClientKept
  <2>4. ASSUME NEW p \in Products PROVE LineSound(c, p)' /\ MoveSound(c, p)'
    <3>1. LineSound(c, p)'
      BY <1>2, <2>1, <2>2, LineStays DEF BusySound, ClientKept
    <3>2. MoveSound(c, p)'
      BY <2>1, <2>2, MoveStays DEF BusySound, ClientKept
    <3> QED
      BY <3>1, <3>2
  <2>5. SeenSound(c)'
    <3>1. seen[c] # Idle => seen[c].product \in work'[c].apply
      BY <2>2 DEF BusySound, SeenSound, ClientKept
    <3> QED
      BY <1>2, <2>1, <2>2, <3>1, SeenStays DEF BusySound, ClientKept
  <2>6. Busy(c)'
    BY <2>1 DEF Busy, SameJob
  <2> QED
    BY <2>3, <2>4, <2>5, <2>6 DEF ClientSound, BusySound
<1> QED
  BY <1>1, <1>2

-----------------------------------------------------------------------------
(* One statement: it keeps the types, what its client did, and what others did *)

Progress(c) ==
  TxTyped' /\ ClientSound(c)' /\ \A d \in Clients \ {c} : ClientKept(d)

(* A client that begins a job *)
LEMMA JobBegins ==
  ASSUME TypeOK, TxTyped, NEW c \in Clients, ClientSound(c), ~Busy(c), NEW job \in JobType,
         work' = [work EXCEPT ![c] = job], UNCHANGED <<vars, itemLock, seen, written, moved>>,
         job.apply = {p \in Products : job.lines[p] # NoLine},
         job.move = {p \in Products : job.carry[p] # 0}, Begun(c)'
  PROVE  ClientSound(c)'
<1>1. work'[c] = job
  BY DEF TxTyped
<1>2. job # Idle
  BY TransactionAssumption
<1>3. seen'[c] = Idle /\ moved'[c] = Empty /\ \A p \in Products : written'[c][p] = Idle
  BY DEF ClientSound, Resting
<1>4. ASSUME NEW p \in Products PROVE LineSound(c, p)'
  <2>1. CASE p \in job.apply
    BY <1>1, <1>3, <2>1 DEF LineSound
  <2>2. CASE p \notin job.apply
    <3>1. job.lines[p] = NoLine
      BY <2>2
    <3>2. DeltaNow(c, p)' = 0
      BY <1>1, <3>1 DEF DeltaNow, NoLine
    <3>3. RowNow(c, p)' = Idle
      BY <3>2 DEF RowNow
    <3>4. ~Overdrawn(work[c].w, p, DeltaNow(c, p))'
      BY <3>2 DEF Overdrawn
    <3> QED
      BY <1>1, <1>3, <2>2, <3>1, <3>2, <3>3, <3>4 DEF LineSound
  <2> QED
    BY <2>1, <2>2
<1>5. ASSUME NEW p \in Products PROVE MoveSound(c, p)'
  BY <1>1, <1>3 DEF MoveSound, Empty
<1>6. SeenSound(c)'
  BY <1>3 DEF SeenSound
<1>7. Busy(c)'
  BY <1>1, <1>2 DEF Busy
<1> QED
  BY <1>4, <1>5, <1>6, <1>7 DEF ClientSound, BusySound

LEMMA OthersAtBegin ==
  ASSUME TxTyped, NEW c \in Clients, NEW job \in JobType, work' = [work EXCEPT ![c] = job],
         UNCHANGED <<vars, itemLock, seen, written, moved>>,
         rowLock' \in [Transfers -> Clients \cup {NoClient}],
         \A t \in Transfers : rowLock'[t] = rowLock[t] \/ rowLock[t] = NoClient
  PROVE  TxTyped' /\ \A d \in Clients \ {c} : ClientKept(d)
<1>1. TxTyped'
  BY DEF TxTyped
<1>2. ASSUME NEW d \in Clients \ {c} PROVE ClientKept(d)
  <2>1. work'[d] = work[d] /\ seen'[d] = seen[d] /\ written'[d] = written[d] /\ moved'[d] = moved[d]
    BY DEF TxTyped
  <2>2. \A p \in Products : ItemKept(d, p)
    BY DEF ItemKept, vars
  <2>3. \A t \in Transfers : TransferKept(d, t)
    BY TransactionAssumption DEF TransferKept, vars
  <2> QED
    BY <2>1, <2>2, <2>3 DEF ClientKept
<1> QED
  BY <1>1, <1>2

LEMMA BeginStep ==
  ASSUME TypeOK, TxTyped, NEW c \in Clients, ClientSound(c), NEW w \in Warehouses,
         NEW type \in MovementTypes, NEW lines \in [Products -> LineType],
         Begin(c, w, type, lines),
         Doing(c, DocumentJob(w, Document(type), lines))' => Begun(c)'
  PROVE  Progress(c)
<1>1. PICK job : job = DocumentJob(w, Document(type), lines)
  OBVIOUS
<1>2. Empty \in [Products -> Int] /\ Empty \in [Products -> Nat] /\ "none" \in Statuses
  BY DEF Empty, Statuses
<1>3. Document(type) \in DocumentType
  BY DEF Document, DocumentType
<1>4. job \in JobType
  BY <1>1, <1>2, <1>3, JobsTyped
<1>5. /\ work' = [work EXCEPT ![c] = job] /\ ~Busy(c)
      /\ UNCHANGED <<vars, itemLock, rowLock, seen, written, moved>>
  BY <1>1 DEF Begin
<1>6. job.apply = {p \in Products : job.lines[p] # NoLine}
        /\ job.move = {p \in Products : job.carry[p] # 0}
  BY <1>1 DEF DocumentJob, Empty
<1>7. Begun(c)'
  <2>1. work'[c] = job
    BY <1>5 DEF TxTyped
  <2> QED
    BY <1>1, <2>1 DEF Doing
<1>8. ClientSound(c)'
  BY <1>4, <1>5, <1>6, <1>7, JobBegins
<1>9. TxTyped' /\ \A d \in Clients \ {c} : ClientKept(d)
  BY <1>4, <1>5, OthersAtBegin DEF TxTyped
<1> QED
  BY <1>8, <1>9 DEF Progress

LEMMA LockRowStep ==
  ASSUME TypeOK, TxTyped, NEW c \in Clients, ClientSound(c), NEW t \in Transfers,
         NEW w \in Warehouses, NEW type \in MovementTypes,
         NEW quantities \in [Products -> Int], NEW carry \in [Products -> Int],
         NEW status \in Statuses, NEW received \in [Products -> Nat],
         NEW job, job = TransferJob(w, type, t, quantities, carry, status, received),
         LockRow(c, t, job), (rowLock[t] = c /\ Doing(c, job))' => Begun(c)'
  PROVE  Progress(c)
<1>1. job \in JobType
  BY TransferJobsTyped
<1>2. /\ work' = [work EXCEPT ![c] = job] /\ ~Busy(c)
      /\ UNCHANGED <<vars, itemLock, seen, written, moved>>
      /\ rowLock[t] = NoClient /\ rowLock' = [rowLock EXCEPT ![t] = c]
  BY DEF LockRow
<1>3. job.apply = {p \in Products : job.lines[p] # NoLine}
        /\ job.move = {p \in Products : job.carry[p] # 0}
  BY DEF TransferJob, DocumentJob
<1>4. Begun(c)'
  <2>1. work'[c] = job /\ rowLock'[t] = c
    BY <1>2 DEF TxTyped
  <2> QED
    BY <2>1 DEF Doing
<1>5. ClientSound(c)'
  BY <1>1, <1>2, <1>3, <1>4, JobBegins
<1>6. TxTyped' /\ \A d \in Clients \ {c} : ClientKept(d)
  BY <1>1, <1>2, OthersAtBegin DEF TxTyped
<1> QED
  BY <1>5, <1>6 DEF Progress

LEMMA RequestStep ==
  ASSUME TypeOK, TxTyped, NEW c \in Clients, ClientSound(c), Request(c)
  PROVE  Progress(c) /\ UNCHANGED vars
<1>1. ASSUME NEW w \in Warehouses, NEW lines \in Lines, BeginSale(c, w, lines)
      PROVE  Progress(c) /\ UNCHANGED vars
  <2>1. Out(lines) \in [Products -> Int] /\ NoCost \in UnitCostOrNone
    BY QuantityTypes DEF UnitCostOrNone
  <2>2. ChangeLines(Out(lines), NoCost) \in [Products -> LineType]
    BY <2>1, LinesTyped
  <2>3. Doing(c, DocumentJob(w, Document("sale"), ChangeLines(Out(lines), NoCost)))' => Begun(c)'
    BY DEF Begun, Selling
  <2>4. "sale" \in MovementTypes
    BY DEF MovementTypes
  <2>5. Begin(c, w, "sale", ChangeLines(Out(lines), NoCost))
    BY <1>1 DEF BeginSale
  <2>6. Progress(c)
    BY <2>2, <2>3, <2>4, <2>5, BeginStep
  <2> QED
    BY <2>5, <2>6 DEF Begin
<1>2. ASSUME NEW w \in Warehouses, NEW lines \in Lines, NEW cost \in Costs,
             BeginPurchase(c, w, lines, cost)
      PROVE  Progress(c) /\ UNCHANGED vars
  <2>1. lines \in [Products -> Int] /\ cost \in UnitCostOrNone
    BY QuantityTypes, InventoryAssumption DEF UnitCostOrNone
  <2>2. ChangeLines(lines, cost) \in [Products -> LineType]
    BY <2>1, LinesTyped
  <2>3. Doing(c, DocumentJob(w, Document("purchase"), ChangeLines(lines, cost)))' => Begun(c)'
    BY DEF Begun, Buying
  <2>4. "purchase" \in MovementTypes
    BY DEF MovementTypes
  <2>5. Begin(c, w, "purchase", ChangeLines(lines, cost))
    BY <1>2 DEF BeginPurchase
  <2>6. Progress(c)
    BY <2>2, <2>3, <2>4, <2>5, BeginStep
  <2> QED
    BY <2>5, <2>6 DEF Begin
<1>3. ASSUME NEW w \in Warehouses, NEW counted \in SUBSET Products \ {{}}, NEW count \in Quantities,
             BeginStocktake(c, w, counted, count)
      PROVE  Progress(c) /\ UNCHANGED vars
  <2>1. count \in [Products -> Nat] /\ counted \in SUBSET Products
    BY QuantityTypes
  <2>2. CountLines(counted, count) \in [Products -> LineType]
    BY <2>1, LinesTyped
  <2>3. Doing(c, DocumentJob(w, Document("stocktake"), CountLines(counted, count)))' => Begun(c)'
    BY DEF Begun, Counting
  <2>4. "stocktake" \in MovementTypes
    BY DEF MovementTypes
  <2>5. Begin(c, w, "stocktake", CountLines(counted, count))
    BY <1>3 DEF BeginStocktake
  <2>6. Progress(c)
    BY <2>2, <2>3, <2>4, <2>5, BeginStep
  <2> QED
    BY <2>5, <2>6 DEF Begin
<1>4. ASSUME NEW t \in Transfers,
             StartSend(c, t) \/ StartCancel(c, t) \/ \E received \in Quantities : StartReceive(c, t, received)
      PROVE  Progress(c) /\ UNCHANGED vars
  <2>1. /\ transfer[t].from \in Warehouses /\ transfer[t].to \in Warehouses
        /\ transfer[t].lines \in [Products -> Int] /\ Out(transfer[t].lines) \in [Products -> Int]
        /\ transfer[t].received \in [Products -> Nat]
    BY TransferRowType DEF TransferRow
  <2>2. /\ {"transfer_in", "transfer_out"} \subseteq MovementTypes
        /\ {"in_transit", "received", "cancelled"} \subseteq Statuses
    BY DEF MovementTypes, Statuses
  <2>3. ASSUME StartSend(c, t) PROVE Progress(c) /\ UNCHANGED vars
    <3>1. LockRow(c, t, SendJob(t)) /\ transfer[t].status = "draft"
      BY <2>3 DEF StartSend
    <3>2. transfer' = transfer /\ UNCHANGED vars
      BY <3>1 DEF LockRow, vars
    <3>3. PICK job : job = SendJob(t)
      OBVIOUS
    <3>4. SendJob(t)' = job
      BY <3>2, <3>3 DEF SendJob
    <3>5. (rowLock[t] = c /\ Doing(c, job))' => Begun(c)'
      BY <3>1, <3>2, <3>4 DEF Begun, Moving, Doing
    <3> QED
      BY <2>1, <2>2, <3>1, <3>2, <3>3, <3>5, LockRowStep DEF SendJob
  <2>4. ASSUME StartCancel(c, t) PROVE Progress(c) /\ UNCHANGED vars
    <3>1. LockRow(c, t, CancelJob(t)) /\ transfer[t].status = "in_transit"
      BY <2>4 DEF StartCancel
    <3>2. transfer' = transfer /\ UNCHANGED vars
      BY <3>1 DEF LockRow, vars
    <3>3. PICK job : job = CancelJob(t)
      OBVIOUS
    <3>4. CancelJob(t)' = job
      BY <3>2, <3>3 DEF CancelJob
    <3>5. (rowLock[t] = c /\ Doing(c, job))' => Begun(c)'
      BY <3>1, <3>2, <3>4 DEF Begun, Moving, Doing
    <3> QED
      BY <2>1, <2>2, <3>1, <3>2, <3>3, <3>5, LockRowStep DEF CancelJob
  <2>5. ASSUME NEW received \in Quantities, StartReceive(c, t, received)
        PROVE  Progress(c) /\ UNCHANGED vars
    <3>1. /\ LockRow(c, t, ReceiveJob(t, received)) /\ transfer[t].status = "in_transit"
          /\ \A p \in Products : received[p] <= transfer[t].lines[p]
      BY <2>5 DEF StartReceive
    <3>2. transfer' = transfer /\ UNCHANGED vars
      BY <3>1 DEF LockRow, vars
    <3>3. PICK job : job = ReceiveJob(t, received)
      OBVIOUS
    <3>4. ReceiveJob(t, received)' = job
      BY <3>2, <3>3 DEF ReceiveJob
    <3>5. (rowLock[t] = c /\ Doing(c, job))' => Begun(c)'
      BY <3>1, <3>2, <3>4 DEF Begun, Moving, Doing
    <3>6. received \in [Products -> Nat] /\ received \in [Products -> Int]
      BY QuantityTypes
    <3> QED
      BY <2>1, <2>2, <3>1, <3>2, <3>3, <3>5, <3>6, LockRowStep DEF ReceiveJob
  <2> QED
    BY <1>4, <2>3, <2>4, <2>5
<1> QED
  BY <1>1, <1>2, <1>3, <1>4 DEF Request

LEMMA OthersAtStatement ==
  ASSUME NEW c \in Clients, UNCHANGED <<vars, rowLock>>,
         \A p \in Products : itemLock'[p] = itemLock[p] \/ itemLock[p] \in {c, NoClient},
         \A d \in Clients \ {c} : /\ work'[d] = work[d] /\ seen'[d] = seen[d]
                                  /\ written'[d] = written[d] /\ moved'[d] = moved[d]
  PROVE  \A d \in Clients \ {c} : ClientKept(d)
<1> SUFFICES ASSUME NEW d \in Clients \ {c} PROVE ClientKept(d)
  OBVIOUS
<1>1. \A p \in Products : ItemKept(d, p)
  BY TransactionAssumption DEF ItemKept, vars
<1>2. \A t \in Transfers : TransferKept(d, t)
  BY DEF TransferKept, vars
<1> QED
  BY <1>1, <1>2 DEF ClientKept

LEMMA LockItemStep ==
  ASSUME TypeOK, TxTyped, NEW c \in Clients, ClientSound(c), Busy(c), NEW p \in Products,
         LockItem(c, p)
  PROVE  Progress(c)
<1>1. PICK read : read = [at |-> "quantity", product |-> p, avgCost |-> avgCost[p],
                          inTransit |-> inTransit[p], quantity |-> 0, onHand |-> 0]
  OBVIOUS
<1>2. read \in SeenType
  BY <1>1 DEF SeenType, TypeOK
<1>3. /\ seen' = [seen EXCEPT ![c] = read] /\ itemLock' = [itemLock EXCEPT ![p] = c]
      /\ itemLock[p] \in {c, NoClient} /\ UNCHANGED <<vars, rowLock, work, written, moved>>
      /\ p \in work[c].apply
  BY <1>1 DEF LockItem, MayLock
<1>4. TxTyped'
  BY <1>2, <1>3 DEF TxTyped
<1>5. \A d \in Clients \ {c} : ClientKept(d)
  <2>1. \A q \in Products : itemLock'[q] = itemLock[q] \/ itemLock[q] \in {c, NoClient}
    BY <1>3 DEF TxTyped
  <2>2. \A d \in Clients \ {c} : seen'[d] = seen[d]
    BY <1>3 DEF TxTyped
  <2> QED
    BY <1>3, <2>1, <2>2, OthersAtStatement
<1>6. ClientSound(c)'
  <2>1. BusySound(c)
    BY DEF ClientSound
  <2>2. SameJob(c) /\ \A t \in Transfers : TransferKept(c, t)
    BY <1>3 DEF SameJob, Busy, TransferKept, vars
  <2>3. \A q \in Products : ItemKept(c, q)
    BY <1>3 DEF ItemKept, TxTyped, vars
  <2>4. Begun(c)'
    BY <2>1, <2>2, BegunStays DEF BusySound
  <2>5. ASSUME NEW q \in Products PROVE LineSound(c, q)' /\ MoveSound(c, q)'
    <3>1. LineSound(c, q)'
      BY <1>3, <2>1, <2>2, <2>3, LineStays DEF BusySound
    <3>2. MoveSound(c, q)'
      BY <1>3, <2>1, <2>2, <2>3, MoveStays DEF BusySound
    <3> QED
      BY <3>1, <3>2
  <2>6. SeenSound(c)'
    <3>1. seen'[c] = read /\ itemLock'[p] = c
      BY <1>3 DEF TxTyped
    <3> QED
      BY <1>1, <1>3, <3>1 DEF SeenSound, vars
  <2>7. Busy(c)'
    BY <2>2 DEF Busy, SameJob
  <2> QED
    BY <2>4, <2>5, <2>6, <2>7 DEF ClientSound, BusySound
<1> QED
  BY <1>4, <1>5, <1>6 DEF Progress

LEMMA MoveInTransitStep ==
  ASSUME TypeOK, TxTyped, NEW c \in Clients, ClientSound(c), Busy(c), NEW p \in Products,
         MoveInTransit(c, p)
  PROVE  Progress(c)
<1>0. BusySound(c)
  BY DEF ClientSound
<1>1. PICK job, sum : /\ job = [work[c] EXCEPT !.move = @ \ {p}]
                      /\ sum = [moved[c] EXCEPT ![p] = @ + work[c].carry[p]]
  OBVIOUS
<1>2. /\ work' = [work EXCEPT ![c] = job] /\ moved' = [moved EXCEPT ![c] = sum]
      /\ itemLock' = [itemLock EXCEPT ![p] = c]
      /\ itemLock[p] \in {c, NoClient} /\ UNCHANGED <<vars, rowLock, seen, written>>
      /\ seen[c] = Idle /\ p \in work[c].move
  BY <1>1 DEF MoveInTransit, MayLock
<1>3. /\ job \in JobType
      /\ job.w = work[c].w /\ job.doc = work[c].doc /\ job.lines = work[c].lines
      /\ job.carry = work[c].carry /\ job.status = work[c].status /\ job.received = work[c].received
      /\ job.apply = work[c].apply /\ job.move = work[c].move \ {p}
  BY <1>1, JobHasType DEF JobType
<1>4. sum \in [Products -> Int] /\ sum[p] = work[c].carry[p]
        /\ \A q \in Products : q # p => sum[q] = moved[c][q]
  <2>1. moved[c] \in [Products -> Int] /\ work[c].carry \in [Products -> Int]
    BY JobHasType DEF TxTyped
  <2>2. moved[c][p] = 0
    BY <1>0, <1>2 DEF BusySound, MoveSound
  <2> QED
    BY <1>1, <2>1, <2>2
<1>5. TxTyped'
  BY <1>2, <1>3, <1>4 DEF TxTyped
<1>6. \A d \in Clients \ {c} : ClientKept(d)
  <2>1. \A q \in Products : itemLock'[q] = itemLock[q] \/ itemLock[q] \in {c, NoClient}
    BY <1>2 DEF TxTyped
  <2>2. \A d \in Clients \ {c} : work'[d] = work[d] /\ moved'[d] = moved[d]
    BY <1>2 DEF TxTyped
  <2> QED
    BY <1>2, <2>1, <2>2, OthersAtStatement
<1>7. ClientSound(c)'
  <2>1. work'[c] = job /\ moved'[c] = sum /\ itemLock'[p] = c
    BY <1>2 DEF TxTyped
  <2>2. SameJob(c) /\ \A t \in Transfers : TransferKept(c, t)
    <3>1. job # Idle
      BY <1>3, TransactionAssumption
    <3> QED
      BY <1>2, <1>3, <2>1, <3>1 DEF SameJob, TransferKept, vars
  <2>3. \A q \in Products : ItemKept(c, q)
    BY <1>2 DEF ItemKept, TxTyped, vars
  <2>4. Begun(c)'
    BY <1>0, <2>2, BegunStays DEF BusySound
  <2>5. ASSUME NEW q \in Products PROVE LineSound(c, q)' /\ MoveSound(c, q)'
    <3>1. LineSound(c, q)'
      BY <1>0, <1>2, <1>3, <2>1, <2>2, <2>3, LineStays DEF BusySound
    <3>2. CASE q # p
      <4>1. MoveSound(c, q)'
        BY <1>0, <1>3, <1>4, <2>1, <2>2, <2>3, <3>2, MoveStays DEF BusySound
      <4> QED
        BY <3>1, <4>1
    <3>3. CASE q = p
      <4>1. MoveSound(c, q)'
        BY <1>3, <1>4, <2>1, <3>3 DEF MoveSound
      <4> QED
        BY <3>1, <4>1
    <3> QED
      BY <3>2, <3>3
  <2>6. SeenSound(c)'
    BY <1>2 DEF SeenSound
  <2>7. Busy(c)'
    BY <2>2 DEF Busy, SameJob
  <2> QED
    BY <2>4, <2>5, <2>6, <2>7 DEF ClientSound, BusySound
<1> QED
  BY <1>5, <1>6, <1>7 DEF Progress

(* A read: only what the client has seen changes *)
LEMMA ReadStep ==
  ASSUME TypeOK, TxTyped, NEW c \in Clients, ClientSound(c), Busy(c), NEW s \in SeenType,
         seen' = [seen EXCEPT ![c] = s], UNCHANGED <<vars, itemLock, rowLock, work, written, moved>>,
         s.product \in work[c].apply, itemLock[s.product] = c,
         s.avgCost = avgCost[s.product], s.inTransit = inTransit[s.product],
         s.quantity = level[work[c].w][s.product],
         /\ s.at = "write"
         /\ work[c].lines[s.product].kind = "change"
         /\ Incoming(work[c].lines[s.product].n, work[c].lines[s.product].cost)
         => s.onHand = OnHand(s.product)
  PROVE  Progress(c)
<1>1. TxTyped'
  BY DEF TxTyped
<1>2. seen'[c] = s /\ \A d \in Clients \ {c} : seen'[d] = seen[d]
  BY DEF TxTyped
<1>3. \A d \in Clients \ {c} : ClientKept(d)
  BY <1>2, OthersAtStatement
<1>4. BusySound(c)
  BY DEF ClientSound
<1>5. SameJob(c) /\ (\A t \in Transfers : TransferKept(c, t)) /\ \A q \in Products : ItemKept(c, q)
  BY DEF SameJob, Busy, TransferKept, ItemKept, vars
<1>6. Begun(c)'
  BY <1>4, <1>5, BegunStays DEF BusySound
<1>7. ASSUME NEW q \in Products PROVE LineSound(c, q)' /\ MoveSound(c, q)'
  <2>1. LineSound(c, q)'
    BY <1>4, <1>5, LineStays DEF BusySound
  <2>2. MoveSound(c, q)'
    BY <1>4, <1>5, MoveStays DEF BusySound
  <2> QED
    BY <2>1, <2>2
<1>8. SeenSound(c)'
  <2>1. OnHand(s.product)' = OnHand(s.product)
    BY DEF OnHand, vars
  <2> QED
    BY <1>2, <2>1 DEF SeenSound, vars
<1>9. Busy(c)'
  BY DEF Busy
<1>10. ClientSound(c)'
  BY <1>6, <1>7, <1>8, <1>9 DEF ClientSound, BusySound
<1> QED
  BY <1>1, <1>3, <1>10 DEF Progress

LEMMA ReadQuantityStep ==
  ASSUME TypeOK, TxTyped, NEW c \in Clients, ClientSound(c), Busy(c), seen[c] # Idle, ReadQuantity(c)
  PROVE  Progress(c)
<1>1. PICK was, at : /\ was = seen[c]
                     /\ at = (IF Line(c).kind = "change" /\ Incoming(Line(c).n, Line(c).cost)
                              THEN "total" ELSE "write")
  OBVIOUS
<1>2. was \in SeenType /\ was.product \in Products
  BY <1>1 DEF TxTyped, SeenType
<1>3. PICK s : s = [was EXCEPT !.quantity = level[work[c].w][was.product], !.at = at]
  OBVIOUS
<1>4. level[work[c].w][was.product] \in Int
  BY <1>2, JobHasType DEF TypeOK
<1>5. /\ s \in SeenType /\ s.product = was.product /\ s.avgCost = was.avgCost
      /\ s.inTransit = was.inTransit /\ s.quantity = level[work[c].w][was.product]
      /\ s.at = at
  BY <1>1, <1>2, <1>3, <1>4 DEF SeenType
<1>6. /\ seen' = [seen EXCEPT ![c] = s]
      /\ UNCHANGED <<vars, itemLock, rowLock, work, written, moved>>
  BY <1>1, <1>2, <1>3 DEF ReadQuantity
<1>7. /\ was.product \in work[c].apply /\ itemLock[was.product] = c
      /\ was.avgCost = avgCost[was.product] /\ was.inTransit = inTransit[was.product]
  BY <1>1 DEF ClientSound, BusySound, SeenSound
<1>8. ~(/\ s.at = "write"
        /\ work[c].lines[s.product].kind = "change"
        /\ Incoming(work[c].lines[s.product].n, work[c].lines[s.product].cost))
  BY <1>1, <1>5 DEF Line
<1> QED
  BY <1>5, <1>6, <1>7, <1>8, ReadStep

LEMMA ReadTotalStep ==
  ASSUME TypeOK, TxTyped, NEW c \in Clients, ClientSound(c), Busy(c), seen[c] # Idle, ReadTotal(c)
  PROVE  Progress(c)
<1>1. PICK was : was = seen[c]
  OBVIOUS
<1>2. was \in SeenType /\ was.product \in Products
  BY <1>1 DEF TxTyped, SeenType
<1>3. /\ was.product \in work[c].apply /\ itemLock[was.product] = c
      /\ was.avgCost = avgCost[was.product] /\ was.inTransit = inTransit[was.product]
      /\ was.quantity = level[work[c].w][was.product]
  BY <1>1 DEF ClientSound, BusySound, SeenSound, ReadTotal
<1>4. PICK held : held = OnHand(was.product)
  OBVIOUS
<1>5. held \in Int
  BY <1>2, <1>4, OnHandType
<1>6. PICK s : s = [was EXCEPT !.at = "write", !.onHand = held]
  OBVIOUS
<1>7. /\ s \in SeenType /\ s.product = was.product /\ s.avgCost = was.avgCost
      /\ s.inTransit = was.inTransit /\ s.quantity = was.quantity /\ s.onHand = held
  BY <1>2, <1>5, <1>6 DEF SeenType
<1>8. /\ seen' = [seen EXCEPT ![c] = s]
      /\ UNCHANGED <<vars, itemLock, rowLock, work, written, moved>>
  <2>1. held = Total([w \in Warehouses |-> level[w][was.product]]) + was.inTransit
    BY <1>3, <1>4 DEF OnHand
  <2>2. seen' = [seen EXCEPT ![c].at = "write", ![c].onHand = held]
    BY <1>1, <2>1 DEF ReadTotal
  <2>3. seen' = [seen EXCEPT ![c] = s]
    BY <1>1, <1>6, <2>2 DEF TxTyped
  <2> QED
    BY <2>3 DEF ReadTotal
<1> QED
  BY <1>3, <1>4, <1>7, <1>8, ReadStep

(* A count names no cost *)
LEMMA CostsOfLines ==
  ASSUME NEW c \in Clients, Begun(c), NEW p \in Products
  PROVE  work[c].lines[p].kind = "change" \/ work[c].lines[p].cost = NoCost
<1>1. \A q, cost : ChangeLines(q, cost)[p].kind = "change" \/ ChangeLines(q, cost)[p].cost = NoCost
  BY DEF ChangeLines, NoLine, Change
<1>2. \A counted, count : CountLines(counted, count)[p].cost = NoCost
  BY DEF CountLines, NoLine, Target
<1>3. \A w, doc, lines : DocumentJob(w, doc, lines).lines = lines
  BY DEF DocumentJob
<1>4. \A w, type, t, q, carry, status, received :
        TransferJob(w, type, t, q, carry, status, received).lines = ChangeLines(q, NoCost)
  BY DEF TransferJob, DocumentJob
<1>5. CASE Selling(c)
  BY <1>1, <1>3, <1>5 DEF Selling, Doing
<1>6. CASE Buying(c)
  BY <1>1, <1>3, <1>6 DEF Buying, Doing
<1>7. CASE Counting(c)
  BY <1>2, <1>3, <1>7 DEF Counting, Doing
<1>8. CASE Moving(c)
  <2>1. PICK q : work[c].lines = ChangeLines(q, NoCost)
    <3>1. \A w, type, t, q, carry, status, received :
            Doing(c, TransferJob(w, type, t, q, carry, status, received)) =>
              work[c].lines = ChangeLines(q, NoCost)
      BY <1>4 DEF Doing
    <3> QED
      BY <1>8, <3>1 DEF Moving, SendJob, CancelJob, ReceiveJob
  <2> QED
    BY <1>1, <2>1
<1> QED
  BY <1>5, <1>6, <1>7, <1>8 DEF Begun

(* What applyOne writes from what it read is what the line comes to *)
LEMMA WrittenIsNow ==
  ASSUME TypeOK, TxTyped, NEW c \in Clients, ClientSound(c), Busy(c), seen[c] # Idle,
         seen[c].at = "write", NEW p, p = seen[c].product
  PROVE  /\ Delta(c) = DeltaNow(c, p)
         /\ (IF Delta(c) = 0 THEN Idle ELSE [average |-> NewAverage(c), row |-> LedgerRow(c)]) = RowNow(c, p)
         /\ Refused(c) <=> Overdrawn(work[c].w, p, DeltaNow(c, p))
<1>1. p \in Products
  BY DEF TxTyped, SeenType
<1>2. /\ seen[c].avgCost = avgCost[p] /\ seen[c].quantity = level[work[c].w][p]
      /\ (work[c].lines[p].kind = "change" /\ Incoming(work[c].lines[p].n, work[c].lines[p].cost))
            => seen[c].onHand = OnHand(p)
  BY DEF ClientSound, BusySound, SeenSound
<1>3. Line(c) = work[c].lines[p]
  BY DEF Line
<1>4. Delta(c) = DeltaNow(c, p) /\ CostOfJob(c, p) = Line(c).cost
  BY <1>2, <1>3 DEF Delta, DeltaNow, CostOfJob
<1>5. Incoming(DeltaNow(c, p), CostOfJob(c, p)) => seen[c].onHand = OnHand(p)
  <2>1. ASSUME Incoming(DeltaNow(c, p), CostOfJob(c, p)) PROVE seen[c].onHand = OnHand(p)
    <3>1. work[c].lines[p].kind = "change"
      BY <1>1, <2>1, CostsOfLines DEF Incoming, CostOfJob, ClientSound, BusySound
    <3>2. DeltaNow(c, p) = work[c].lines[p].n
      BY <3>1 DEF DeltaNow
    <3> QED
      BY <1>2, <2>1, <3>1, <3>2 DEF CostOfJob
  <2> QED
    BY <2>1
<1>6. NewAverage(c) = AverageAfter(p, DeltaNow(c, p), CostOfJob(c, p))
  BY <1>2, <1>4, <1>5 DEF NewAverage, AverageAfter
<1>7. LedgerRow(c) = Row(work[c].w, p, DeltaNow(c, p), CostOfJob(c, p), work[c].doc)
  BY <1>2, <1>4 DEF LedgerRow, Row
<1>8. Refused(c) <=> Overdrawn(work[c].w, p, DeltaNow(c, p))
  BY <1>2, <1>4 DEF Refused, Overdrawn
<1> QED
  BY <1>4, <1>6, <1>7, <1>8 DEF RowNow

LEMMA WriteLineStep ==
  ASSUME TypeOK, TxTyped, NEW c \in Clients, ClientSound(c), Busy(c), seen[c] # Idle, WriteLine(c)
  PROVE  Progress(c)
<1>0. BusySound(c)
  BY DEF ClientSound
<1>1. PICK p, made : p = seen[c].product /\ made = RowNow(c, p)
  OBVIOUS
<1>2. p \in Products /\ p \in work[c].apply /\ itemLock[p] = c
  BY <1>0, <1>1 DEF TxTyped, SeenType, BusySound, SeenSound
<1>3. PICK job, rows : job = [work[c] EXCEPT !.apply = @ \ {p}] /\ rows = [written[c] EXCEPT ![p] = made]
  OBVIOUS
<1>4. /\ job \in JobType
      /\ job.w = work[c].w /\ job.doc = work[c].doc /\ job.lines = work[c].lines
      /\ job.carry = work[c].carry /\ job.status = work[c].status /\ job.received = work[c].received
      /\ job.apply = work[c].apply \ {p} /\ job.move = work[c].move
  BY <1>3, JobHasType DEF JobType
<1>5. /\ rows \in [Products -> WrittenType \cup {Idle}] /\ rows[p] = made
      /\ \A q \in Products : q # p => rows[q] = written[c][q]
  <2>1. made \in WrittenType \cup {Idle}
    BY <1>1, <1>2, RowNowType
  <2>2. written[c] \in [Products -> WrittenType \cup {Idle}]
    BY DEF TxTyped
  <2> QED
    BY <1>2, <1>3, <2>1, <2>2
<1>6. /\ work' = [work EXCEPT ![c] = job] /\ written' = [written EXCEPT ![c] = rows]
      /\ seen' = [seen EXCEPT ![c] = Idle] /\ UNCHANGED <<vars, itemLock, rowLock, moved>>
  <2>1. (IF Delta(c) = 0 THEN Idle ELSE [average |-> NewAverage(c), row |-> LedgerRow(c)]) = made
    BY <1>1, WrittenIsNow DEF WriteLine
  <2> QED
    BY <1>1, <1>3, <2>1 DEF WriteLine
<1>7. /\ ~Overdrawn(work[c].w, p, DeltaNow(c, p))
      /\ DeltaNow(c, p) # 0 => Len(movements[work[c].w][p]) < MaxMovements
  BY <1>1, WrittenIsNow DEF WriteLine
<1>8. TxTyped'
  BY <1>4, <1>5, <1>6 DEF TxTyped
<1>9. \A d \in Clients \ {c} : ClientKept(d)
  <2>1. \A d \in Clients \ {c} : work'[d] = work[d] /\ written'[d] = written[d] /\ seen'[d] = seen[d]
    BY <1>6 DEF TxTyped
  <2> QED
    BY <1>6, <2>1, OthersAtStatement
<1>10. ClientSound(c)'
  <2>1. work'[c] = job /\ written'[c] = rows /\ seen'[c] = Idle
    BY <1>6 DEF TxTyped
  <2>2. SameJob(c) /\ (\A t \in Transfers : TransferKept(c, t)) /\ \A q \in Products : ItemKept(c, q)
    <3>1. job # Idle
      BY <1>4, TransactionAssumption
    <3> QED
      BY <1>4, <1>6, <2>1, <3>1 DEF SameJob, TransferKept, ItemKept, vars
  <2>3. Begun(c)'
    BY <1>0, <2>2, BegunStays DEF BusySound
  <2>4. ASSUME NEW q \in Products PROVE LineSound(c, q)'
    <3>1. CASE q # p
      BY <1>0, <1>4, <1>5, <2>1, <2>2, <3>1, LineStays DEF BusySound
    <3>2. CASE q = p
      <4>1. DeltaNow(c, p)' = DeltaNow(c, p) /\ CostOfJob(c, p)' = CostOfJob(c, p)
        BY <1>2, <2>2, DeltaStays
      <4>2. UNCHANGED vars /\ work'[c].w = work[c].w /\ work'[c].doc = work[c].doc
        BY <1>6, <2>2 DEF SameJob
      <4>3. PICK n, k, w, doc : n = DeltaNow(c, p) /\ k = CostOfJob(c, p) /\ w = work[c].w /\ doc = work[c].doc
        OBVIOUS
      <4>4. AverageAfter(p, n, k)' = AverageAfter(p, n, k) /\ Row(w, p, n, k, doc)' = Row(w, p, n, k, doc)
              /\ Overdrawn(w, p, n)' = Overdrawn(w, p, n)
        BY <4>2 DEF AverageAfter, Row, Overdrawn, OnHand, vars
      <4>5. RowNow(c, p)' = made
        BY <1>1, <4>1, <4>2, <4>3, <4>4 DEF RowNow
      <4>6. (~Overdrawn(work[c].w, p, DeltaNow(c, p)))'
        BY <1>7, <4>1, <4>2, <4>3, <4>4
      <4>7. (DeltaNow(c, p) # 0 => Len(movements[work[c].w][p]) < MaxMovements)'
        BY <1>7, <4>1, <4>2 DEF vars
      <4>8. written'[c][p] = made /\ p \notin work'[c].apply /\ itemLock'[p] = c
        BY <1>2, <1>4, <1>5, <1>6, <2>1
      <4>9. LineSound(c, p)'
        BY <4>5, <4>6, <4>7, <4>8 DEF LineSound
      <4> QED
        BY <3>2, <4>9
    <3> QED
      BY <3>1, <3>2
  <2>5. ASSUME NEW q \in Products PROVE MoveSound(c, q)'
    BY <1>0, <1>4, <1>6, <2>1, <2>2, MoveStays DEF BusySound
  <2>6. SeenSound(c)'
    BY <2>1 DEF SeenSound
  <2>7. Busy(c)'
    BY <2>2 DEF Busy, SameJob
  <2> QED
    BY <2>3, <2>4, <2>5, <2>6, <2>7 DEF ClientSound, BusySound
<1> QED
  BY <1>8, <1>9, <1>10 DEF Progress

(* The end of a transaction *)
LEMMA ResetStep ==
  ASSUME TxTyped, NEW c \in Clients, Reset(c)
  PROVE  /\ TxTyped' /\ ClientSound(c)'
         /\ \A d \in Clients \ {c} :
              /\ work'[d] = work[d] /\ seen'[d] = seen[d]
              /\ written'[d] = written[d] /\ moved'[d] = moved[d]
              /\ \A p \in Products : itemLock[p] = d => itemLock'[p] = d
              /\ \A t \in Transfers : rowLock[t] = d => rowLock'[t] = d
<1>1. TxTyped'
  BY DEF Reset, TxTyped, Empty
<1>2. ClientSound(c)'
  BY DEF Reset, TxTyped, ClientSound, Resting, Busy
<1>3. ASSUME NEW d \in Clients \ {c}
      PROVE  /\ work'[d] = work[d] /\ seen'[d] = seen[d]
             /\ written'[d] = written[d] /\ moved'[d] = moved[d]
             /\ \A p \in Products : itemLock[p] = d => itemLock'[p] = d
             /\ \A t \in Transfers : rowLock[t] = d => rowLock'[t] = d
  BY DEF Reset, TxTyped
<1> QED
  BY <1>1, <1>2, <1>3

LEMMA RollBackStep ==
  ASSUME TxTyped, NEW c \in Clients, RollBack(c)
  PROVE  Progress(c)
<1>1. Reset(c) /\ UNCHANGED vars
  BY DEF RollBack
<1>2. ASSUME NEW d \in Clients \ {c} PROVE ClientKept(d)
  BY <1>1, ResetStep DEF ClientKept, ItemKept, TransferKept, vars
<1> QED
  BY <1>1, <1>2, ResetStep DEF Progress

-----------------------------------------------------------------------------
(* A commit is a document of Inventory *)

(* Every line that changes something is written, and its item is locked *)
LEMMA CommitLines ==
  ASSUME TypeOK, TxTyped, NEW c \in Clients, ClientSound(c), Busy(c), CommitRows(c), NEW p \in Products
  PROVE  /\ written[c][p] = RowNow(c, p) /\ moved[c][p] = work[c].carry[p]
         /\ ~Overdrawn(work[c].w, p, DeltaNow(c, p))
         /\ DeltaNow(c, p) # 0 => Len(movements[work[c].w][p]) < MaxMovements
         /\ itemLock[p] # c => DeltaNow(c, p) = 0 /\ written[c][p] = Idle /\ moved[c][p] = 0
<1>1. LineSound(c, p) /\ MoveSound(c, p)
  BY DEF ClientSound, BusySound
<1>2. p \notin work[c].apply /\ p \notin work[c].move
  BY DEF CommitRows
<1>3. /\ written[c][p] = RowNow(c, p)
      /\ ~Overdrawn(work[c].w, p, DeltaNow(c, p))
      /\ DeltaNow(c, p) # 0 => Len(movements[work[c].w][p]) < MaxMovements
      /\ work[c].lines[p] # NoLine => itemLock[p] = c
  BY <1>1, <1>2 DEF LineSound
<1>4. moved[c][p] = work[c].carry[p] /\ (work[c].carry[p] # 0 => itemLock[p] = c)
  BY <1>1, <1>2 DEF MoveSound
<1>5. itemLock[p] # c => DeltaNow(c, p) = 0 /\ written[c][p] = Idle /\ moved[c][p] = 0
  BY <1>3, <1>4, NoLineNoDelta, RowNowType
<1> QED
  BY <1>3, <1>4, <1>5

LEMMA CommitApplies ==
  ASSUME TypeOK, TxTyped, NEW c \in Clients, ClientSound(c), Busy(c), CommitRows(c),
         NEW delta \in [Products -> Int], NEW cost \in [Products -> UnitCostOrNone],
         \A p \in Products : delta[p] = DeltaNow(c, p) /\ (delta[p] # 0 => cost[p] = CostOfJob(c, p))
  PROVE  Apply(work[c].w, delta, cost, work[c].doc) /\ AdjustInTransit(work[c].carry)
<1>1. PICK w, doc : w = work[c].w /\ doc = work[c].doc
  OBVIOUS
<1>2. ASSUME NEW p \in Products
      PROVE  /\ (IF written[c][p] = Idle THEN level[w][p] ELSE written[c][p].row.balanceAfter)
                  = level[w][p] + delta[p]
             /\ (IF written[c][p] = Idle THEN avgCost[p] ELSE written[c][p].average)
                  = AverageAfter(p, delta[p], cost[p])
             /\ (IF written[c][p] = Idle THEN movements[w][p]
                 ELSE Append(movements[w][p], written[c][p].row))
                  = IF delta[p] = 0 THEN movements[w][p]
                    ELSE Append(movements[w][p], Row(w, p, delta[p], cost[p], doc))
  <2>1. PICK n, k : n = delta[p] /\ k = cost[p]
    OBVIOUS
  <2>2. n = DeltaNow(c, p) /\ (n # 0 => k = CostOfJob(c, p)) /\ written[c][p] = RowNow(c, p)
    BY <2>1, CommitLines
  <2>3. CASE n = 0
    <3>1. written[c][p] = Idle
      BY <2>2, <2>3 DEF RowNow
    <3>2. level[w][p] \in Int
      BY <1>1, JobHasType DEF TypeOK
    <3>3. AverageAfter(p, n, k) = avgCost[p]
      BY <2>3 DEF AverageAfter, Incoming
    <3> QED
      BY <2>1, <2>3, <3>1, <3>2, <3>3
  <2>4. CASE n # 0
    <3>1. written[c][p] = [average |-> AverageAfter(p, n, k), row |-> Row(w, p, n, k, doc)]
      BY <1>1, <2>2, <2>4 DEF RowNow
    <3>2. written[c][p] # Idle
      BY <2>2, <2>4, RowNowType
    <3>3. Row(w, p, n, k, doc).balanceAfter = level[w][p] + n
      BY DEF Row
    <3> QED
      BY <2>1, <2>4, <3>1, <3>2, <3>3
  <2> QED
    BY <2>3, <2>4
<1>3. \A p \in Products : Overdrawn(w, p, delta[p]) => doc.fromPos
  BY <1>1, CommitLines
<1>4. \A p \in Products : delta[p] # 0 => Len(movements[w][p]) < MaxMovements
  BY <1>1, CommitLines
<1>5. /\ level' = [level EXCEPT ![w] = [p \in Products |->
            IF written[c][p] = Idle THEN level[w][p] ELSE written[c][p].row.balanceAfter]]
      /\ avgCost' = [p \in Products |->
            IF written[c][p] = Idle THEN avgCost[p] ELSE written[c][p].average]
      /\ movements' = [movements EXCEPT ![w] = [p \in Products |->
            IF written[c][p] = Idle THEN movements[w][p]
            ELSE Append(movements[w][p], written[c][p].row)]]
  BY <1>1 DEF CommitRows
<1>6. level' = [level EXCEPT ![w] = [p \in Products |-> level[w][p] + delta[p]]]
  BY <1>2, <1>5
<1>7. avgCost' = [p \in Products |-> AverageAfter(p, delta[p], cost[p])]
  BY <1>2, <1>5
<1>8. movements' = [movements EXCEPT ![w] = [p \in Products |->
        IF delta[p] = 0 THEN movements[w][p]
        ELSE Append(movements[w][p], Row(w, p, delta[p], cost[p], doc))]]
  BY <1>2, <1>5
<1>9. AdjustInTransit(work[c].carry)
  BY CommitLines DEF CommitRows, AdjustInTransit
<1> QED
  BY <1>1, <1>3, <1>4, <1>6, <1>7, <1>8, <1>9 DEF Apply

LEMMA ChangeDeltas ==
  ASSUME NEW c \in Clients, NEW q \in [Products -> Int], NEW k,
         work[c].lines = ChangeLines(q, k)
  PROVE  \A p \in Products : q[p] = DeltaNow(c, p) /\ (q[p] # 0 => k = CostOfJob(c, p))
  BY DEF ChangeLines, NoLine, Change, DeltaNow, CostOfJob

LEMMA CountDeltas ==
  ASSUME NEW c \in Clients, NEW counted, NEW count, NEW w, w = work[c].w,
         work[c].lines = CountLines(counted, count)
  PROVE  \A p \in Products :
           /\ (IF p \in counted THEN count[p] - level[w][p] ELSE 0) = DeltaNow(c, p)
           /\ NoCost = CostOfJob(c, p)
  BY DEF CountLines, NoLine, Target, DeltaNow, CostOfJob

(* The documents that are not transfers *)
LEMMA CommitIsDocument ==
  ASSUME TypeOK, TxTyped, NEW c \in Clients, ClientSound(c), Busy(c), CommitRows(c),
         Selling(c) \/ Buying(c) \/ Counting(c)
  PROVE  Next
<1>1. ASSUME NEW w, NEW type, NEW lines, Doing(c, DocumentJob(w, Document(type), lines))
      PROVE  /\ work[c].w = w /\ work[c].doc = Document(type) /\ work[c].lines = lines
             /\ work[c].carry = Empty /\ ~OnTransfer(c)
  BY <1>1 DEF Doing, DocumentJob, OnTransfer, Document
<1>2. ASSUME work[c].carry = Empty, AdjustInTransit(work[c].carry), ~OnTransfer(c)
      PROVE  UNCHANGED <<inTransit, transfer>>
  BY <1>2 DEF AdjustInTransit, Empty, TypeOK, CommitRows
<1>3. CASE Selling(c)
  <2>1. PICK w \in Warehouses, lines \in Lines :
          Doing(c, DocumentJob(w, Document("sale"), ChangeLines(Out(lines), NoCost)))
    BY <1>3 DEF Selling
  <2>2. /\ work[c].w = w /\ work[c].doc = Document("sale")
        /\ work[c].lines = ChangeLines(Out(lines), NoCost)
        /\ work[c].carry = Empty /\ ~OnTransfer(c)
    BY <1>1, <2>1
  <2>3. Out(lines) \in [Products -> Int] /\ Free \in [Products -> UnitCostOrNone]
    BY QuantityTypes
  <2>4. \A p \in Products : /\ Out(lines)[p] = DeltaNow(c, p)
                            /\ Out(lines)[p] # 0 => Free[p] = CostOfJob(c, p)
    BY <2>2, <2>3, ChangeDeltas DEF Free
  <2>5. Apply(w, Out(lines), Free, Document("sale")) /\ AdjustInTransit(work[c].carry)
    BY <2>2, <2>3, <2>4, CommitApplies
  <2>6. [Document("sale") EXCEPT !.fromPos = FALSE] = Document("sale")
    <3>1. PICK no : no = FALSE
      OBVIOUS
    <3>2. [[type |-> "sale", fromPos |-> no, transfer |-> NoTransfer] EXCEPT !.fromPos = no]
            = [type |-> "sale", fromPos |-> no, transfer |-> NoTransfer]
      OBVIOUS
    <3> QED
      BY <3>1, <3>2, Zenon DEF Document
  <2>7. Sale(w, lines, FALSE)
    BY <1>2, <2>2, <2>5, <2>6 DEF Sale
  <2> QED
    BY <2>7 DEF Next, Documents
<1>4. CASE Buying(c)
  <2>1. PICK w \in Warehouses, lines \in Lines, k \in Costs :
          Doing(c, DocumentJob(w, Document("purchase"), ChangeLines(lines, k)))
    BY <1>4 DEF Buying
  <2>2. /\ work[c].w = w /\ work[c].doc = Document("purchase")
        /\ work[c].lines = ChangeLines(lines, k)
        /\ work[c].carry = Empty /\ ~OnTransfer(c)
    BY <1>1, <2>1
  <2>3. PICK cost : cost = [p \in Products |-> k]
    OBVIOUS
  <2>4. lines \in [Products -> Int] /\ cost \in [Products -> UnitCostOrNone]
    BY <2>3, QuantityTypes, InventoryAssumption DEF UnitCostOrNone
  <2>5. \A p \in Products : /\ lines[p] = DeltaNow(c, p)
                            /\ lines[p] # 0 => cost[p] = CostOfJob(c, p)
    BY <2>2, <2>3, <2>4, ChangeDeltas
  <2>6. Apply(w, lines, cost, Document("purchase")) /\ AdjustInTransit(work[c].carry)
    BY <2>2, <2>4, <2>5, CommitApplies
  <2>7. Purchase(w, lines, k)
    BY <1>2, <2>2, <2>3, <2>6 DEF Purchase
  <2> QED
    BY <2>7 DEF Next, Documents
<1>5. CASE Counting(c)
  <2>1. PICK w \in Warehouses, counted \in SUBSET Products \ {{}}, count \in Quantities :
          Doing(c, DocumentJob(w, Document("stocktake"), CountLines(counted, count)))
    BY <1>5 DEF Counting
  <2>2. /\ work[c].w = w /\ work[c].doc = Document("stocktake")
        /\ work[c].lines = CountLines(counted, count)
        /\ work[c].carry = Empty /\ ~OnTransfer(c)
    BY <1>1, <2>1
  <2>3. PICK delta : delta = [p \in Products |-> IF p \in counted THEN count[p] - level[w][p] ELSE 0]
    OBVIOUS
  <2>4. delta \in [Products -> Int] /\ Free \in [Products -> UnitCostOrNone]
    BY <2>3, QuantityTypes DEF TypeOK
  <2>5. \A p \in Products : /\ delta[p] = DeltaNow(c, p)
                            /\ delta[p] # 0 => Free[p] = CostOfJob(c, p)
    BY <2>2, <2>3, CountDeltas DEF Free
  <2>6. Apply(w, delta, Free, Document("stocktake")) /\ AdjustInTransit(work[c].carry)
    BY <2>2, <2>4, <2>5, CommitApplies
  <2>7. PostStocktake(w, counted, count)
    BY <1>2, <2>2, <2>3, <2>6 DEF PostStocktake
  <2> QED
    BY <2>7 DEF Next, Documents
<1> QED
  BY <1>3, <1>4, <1>5

LEMMA CommitOfTransfer ==
  ASSUME TypeOK, TxTyped, NEW c \in Clients, ClientSound(c), Busy(c), CommitRows(c), NEW t \in Transfers,
         NEW w \in Warehouses, NEW type \in MovementTypes,
         NEW quantities \in [Products -> Int], NEW carry \in [Products -> Int],
         NEW status \in Statuses, NEW received \in [Products -> Nat],
         Doing(c, TransferJob(w, type, t, quantities, carry, status, received))
  PROVE  /\ Apply(w, quantities, Free, TransferDocument(type, t)) /\ AdjustInTransit(carry)
         /\ transfer' = [transfer EXCEPT ![t].status = status, ![t].received = received]
<1>1. /\ work[c].w = w /\ work[c].doc = TransferDocument(type, t)
      /\ work[c].lines = ChangeLines(quantities, NoCost) /\ work[c].carry = carry
      /\ work[c].status = status /\ work[c].received = received
  BY DEF Doing, TransferJob, DocumentJob
<1>2. Free \in [Products -> UnitCostOrNone]
  BY QuantityTypes
<1>3. \A p \in Products : /\ quantities[p] = DeltaNow(c, p)
                          /\ quantities[p] # 0 => Free[p] = CostOfJob(c, p)
  BY <1>1, ChangeDeltas DEF Free
<1>4. Apply(w, quantities, Free, TransferDocument(type, t)) /\ AdjustInTransit(carry)
  BY <1>1, <1>2, <1>3, CommitApplies
<1>5. work[c].doc.transfer = t /\ OnTransfer(c)
  BY <1>1, InventoryAssumption DEF TransferDocument, Document, OnTransfer
<1>6. transfer' = [transfer EXCEPT ![t].status = status, ![t].received = received]
  BY <1>1, <1>5 DEF CommitRows
<1> QED
  BY <1>4, <1>6

LEMMA CommitIsTransfer ==
  ASSUME TypeOK, TxTyped, NEW c \in Clients, ClientSound(c), Busy(c), CommitRows(c), Moving(c)
  PROVE  Next
<1>1. PICK t \in Transfers :
        \/ transfer[t].status = "draft" /\ Doing(c, SendJob(t))
        \/ transfer[t].status = "in_transit" /\ Doing(c, CancelJob(t))
        \/ /\ transfer[t].status = "in_transit"
           /\ \E received \in Quantities :
                /\ \A p \in Products : received[p] <= transfer[t].lines[p]
                /\ Doing(c, ReceiveJob(t, received))
  BY DEF Moving
<1>2. /\ transfer[t].from \in Warehouses /\ transfer[t].to \in Warehouses
      /\ transfer[t].lines \in [Products -> Int] /\ Out(transfer[t].lines) \in [Products -> Int]
      /\ transfer[t].received \in [Products -> Nat]
  BY TransferRowType DEF TransferRow
<1>3. /\ "transfer_in" \in MovementTypes /\ "transfer_out" \in MovementTypes
      /\ "in_transit" \in Statuses /\ "received" \in Statuses /\ "cancelled" \in Statuses
  BY DEF MovementTypes, Statuses
<1>4. \A s : [transfer EXCEPT ![t].status = s, ![t].received = transfer[t].received]
               = [transfer EXCEPT ![t].status = s]
  BY DEF TypeOK, TransferRow
<1>5. CASE transfer[t].status = "draft" /\ Doing(c, SendJob(t))
  <2>1. /\ Apply(transfer[t].from, Out(transfer[t].lines), Free, TransferDocument("transfer_out", t))
        /\ AdjustInTransit(transfer[t].lines)
        /\ transfer' = [transfer EXCEPT ![t].status = "in_transit", ![t].received = transfer[t].received]
    BY <1>2, <1>3, <1>5, CommitOfTransfer DEF SendJob
  <2>2. Send(t)
    BY <1>4, <1>5, <2>1 DEF Send
  <2> QED
    BY <2>2 DEF Next, TransferStep
<1>6. CASE transfer[t].status = "in_transit" /\ Doing(c, CancelJob(t))
  <2>1. /\ Apply(transfer[t].from, transfer[t].lines, Free, TransferDocument("transfer_in", t))
        /\ AdjustInTransit(Out(transfer[t].lines))
        /\ transfer' = [transfer EXCEPT ![t].status = "cancelled", ![t].received = transfer[t].received]
    BY <1>2, <1>3, <1>6, CommitOfTransfer DEF CancelJob
  <2>2. CancelSent(t)
    BY <1>4, <1>6, <2>1 DEF CancelSent
  <2> QED
    BY <2>2 DEF Next, TransferStep
<1>7. ASSUME transfer[t].status = "in_transit", NEW received \in Quantities,
             \A p \in Products : received[p] <= transfer[t].lines[p], Doing(c, ReceiveJob(t, received))
      PROVE  Next
  <2>0. received \in [Products -> Nat] /\ received \in [Products -> Int]
    BY QuantityTypes
  <2>1. /\ Apply(transfer[t].to, received, Free, TransferDocument("transfer_in", t))
        /\ AdjustInTransit(Out(transfer[t].lines))
        /\ transfer' = [transfer EXCEPT ![t].status = "received", ![t].received = received]
    BY <1>2, <1>3, <1>7, <2>0, CommitOfTransfer DEF ReceiveJob
  <2>2. Receive(t, received)
    BY <1>7, <2>1 DEF Receive
  <2> QED
    BY <2>2 DEF Next, TransferStep
<1> QED
  BY <1>1, <1>5, <1>6, <1>7

LEMMA CommitStep ==
  ASSUME TypeOK, TxTyped, \A d \in Clients : ClientSound(d), NEW c \in Clients, Busy(c), CommitRows(c)
  PROVE  Next /\ Progress(c)
<1>1. Next
  <2>1. Begun(c)
    BY DEF ClientSound, BusySound
  <2> QED
    BY <2>1, CommitIsDocument, CommitIsTransfer DEF Begun
<1>2. Reset(c)
  BY DEF CommitRows
<1>3. ASSUME NEW d \in Clients \ {c} PROVE ClientKept(d)
  <2>1. ASSUME NEW p \in Products PROVE ItemKept(d, p)
    <3> SUFFICES ASSUME itemLock[p] = d PROVE ItemKept(d, p)
      BY DEF ItemKept
    <3>1. written[c][p] = Idle /\ moved[c][p] = 0
      BY CommitLines
    <3>2. itemLock'[p] = d
      BY <1>2, ResetStep
    <3>3. avgCost'[p] = avgCost[p] /\ inTransit'[p] = inTransit[p]
      <4>1. avgCost'[p] = avgCost[p]
        BY <3>1 DEF CommitRows
      <4>2. inTransit'[p] = inTransit[p] + moved[c][p] /\ inTransit[p] \in Int
        BY DEF CommitRows, TypeOK
      <4> QED
        BY <3>1, <4>1, <4>2
    <3>4. PICK w : w = work[c].w
      OBVIOUS
    <3>5. /\ level' = [level EXCEPT ![w] = [q \in Products |->
               IF written[c][q] = Idle THEN level[w][q] ELSE written[c][q].row.balanceAfter]]
          /\ movements' = [movements EXCEPT ![w] = [q \in Products |->
               IF written[c][q] = Idle THEN movements[w][q]
               ELSE Append(movements[w][q], written[c][q].row)]]
      BY <3>4 DEF CommitRows
    <3>6. ASSUME NEW v \in Warehouses
          PROVE  level'[v][p] = level[v][p] /\ movements'[v][p] = movements[v][p]
      BY <3>1, <3>5 DEF TypeOK
    <3> QED
      BY <3>2, <3>3, <3>6 DEF ItemKept
  <2>2. ASSUME NEW t \in Transfers PROVE TransferKept(d, t)
    <3> SUFFICES ASSUME rowLock[t] = d PROVE TransferKept(d, t)
      BY DEF TransferKept
    <3>1. rowLock'[t] = d
      BY <1>2, ResetStep
    <3>2. OnTransfer(c) => rowLock[work[c].doc.transfer] = c
      <4>1. \A w, type, lines : Doing(c, DocumentJob(w, Document(type), lines)) => ~OnTransfer(c)
        BY DEF Doing, DocumentJob, Document, OnTransfer
      <4>2. \A w, type, s, q, carry, status, received :
              Doing(c, TransferJob(w, type, s, q, carry, status, received)) => work[c].doc.transfer = s
        BY DEF Doing, TransferJob, DocumentJob, TransferDocument, Document
      <4>3. Begun(c)
        BY DEF ClientSound, BusySound
      <4>4. CASE Selling(c) \/ Buying(c) \/ Counting(c)
        BY <4>1, <4>4 DEF Selling, Buying, Counting
      <4>5. CASE Moving(c)
        BY <4>2, <4>5 DEF Moving, SendJob, CancelJob, ReceiveJob
      <4> QED
        BY <4>3, <4>4, <4>5 DEF Begun
    <3>3. transfer'[t] = transfer[t]
      <4>1. CASE OnTransfer(c)
        <5>1. PICK s : s = work[c].doc.transfer
          OBVIOUS
        <5>2. s # t
          BY <3>2, <4>1, <5>1
        <5>3. transfer' = [transfer EXCEPT ![s].status = work[c].status, ![s].received = work[c].received]
          BY <4>1, <5>1 DEF CommitRows
        <5> QED
          BY <5>2, <5>3 DEF TypeOK
      <4>2. CASE ~OnTransfer(c)
        BY <4>2 DEF CommitRows
      <4> QED
        BY <4>1, <4>2
    <3> QED
      BY <3>1, <3>3 DEF TransferKept
  <2> QED
    BY <1>2, <2>1, <2>2, ResetStep DEF ClientKept
<1> QED
  BY <1>1, <1>2, <1>3, ResetStep DEF Progress

LEMMA ServeStep ==
  ASSUME TypeOK, TxTyped, \A d \in Clients : ClientSound(d), NEW c \in Clients, Serve(c)
  PROVE  [Next]_vars /\ Progress(c)
<1>0. Busy(c)
  BY DEF Serve
<1>1. ASSUME NEW p \in Products, LockItem(c, p) PROVE [Next]_vars /\ Progress(c)
  BY <1>0, <1>1, LockItemStep DEF LockItem
<1>2. ASSUME NEW p \in Products, MoveInTransit(c, p) PROVE [Next]_vars /\ Progress(c)
  BY <1>0, <1>2, MoveInTransitStep DEF MoveInTransit
<1>3. CASE seen[c] # Idle /\ ReadQuantity(c)
  BY <1>0, <1>3, ReadQuantityStep DEF ReadQuantity
<1>4. CASE seen[c] # Idle /\ ReadTotal(c)
  BY <1>0, <1>4, ReadTotalStep DEF ReadTotal
<1>5. CASE seen[c] # Idle /\ WriteLine(c)
  BY <1>0, <1>5, WriteLineStep DEF WriteLine
<1>6. CASE CommitRows(c)
  BY <1>0, <1>6, CommitStep
<1>7. CASE RollBack(c)
  BY <1>7, RollBackStep DEF RollBack
<1> QED
  BY <1>1, <1>2, <1>3, <1>4, <1>5, <1>6, <1>7 DEF Serve

LEMMA EditStep ==
  ASSUME TypeOK, NEW t \in Transfers, EditTransfer(t)
  PROVE  Next /\ \A c \in Clients : ClientKept(c)
<1>1. Next
  BY DEF EditTransfer, Next, TransferStep
<1>2. UNCHANGED clientVars /\ rowLock[t] = NoClient
  BY DEF EditTransfer
<1>3. UNCHANGED <<level, avgCost, inTransit, movements>>
  BY DEF EditTransfer, CancelDraft, Create, Update
<1>4. \A s \in Transfers : s # t => transfer'[s] = transfer[s]
  BY DEF EditTransfer, CancelDraft, Create, Update, TypeOK
<1>5. ASSUME NEW c \in Clients PROVE ClientKept(c)
  <2>1. \A p \in Products : ItemKept(c, p)
    BY <1>2, <1>3 DEF ItemKept, clientVars
  <2>2. \A s \in Transfers : TransferKept(c, s)
    BY <1>2, <1>4, TransactionAssumption DEF TransferKept, clientVars
  <2> QED
    BY <1>2, <2>1, <2>2 DEF ClientKept, clientVars
<1> QED
  BY <1>1, <1>5

LEMMA TxInitInv == TxInit => Init /\ TxInv
<1> SUFFICES ASSUME TxInit PROVE Init /\ TxInv
  OBVIOUS
<1>1. Init /\ TypeOK
  BY InitType DEF TxInit
<1>2. TxTyped
  BY DEF TxInit, TxTyped, Empty
<1>3. \A c \in Clients : ClientSound(c)
  BY DEF TxInit, ClientSound, Busy, Resting
<1> QED
  BY <1>1, <1>2, <1>3 DEF TxInv

LEMMA TxNextInv == TxInv /\ [TxNext]_txVars => TxInv' /\ [Next]_vars
<1> SUFFICES ASSUME TxInv, [TxNext]_txVars PROVE TxInv' /\ [Next]_vars
  OBVIOUS
<1>0. TypeOK /\ TxTyped /\ \A c \in Clients : ClientSound(c)
  BY DEF TxInv
<1>1. ASSUME NEW c \in Clients, [Next]_vars, Progress(c) PROVE TxInv'
  <2>1. TypeOK'
    BY <1>0, <1>1, NextType
  <2>2. TxTyped' /\ ClientSound(c)'
    BY <1>1 DEF Progress
  <2>3. ASSUME NEW d \in Clients \ {c} PROVE ClientSound(d)'
    BY <1>0, <1>1, ClientStays DEF Progress
  <2> QED
    BY <2>1, <2>2, <2>3 DEF TxInv
<1>2. ASSUME NEW c \in Clients, Request(c) \/ Serve(c) PROVE TxInv' /\ [Next]_vars
  <2>1. [Next]_vars /\ Progress(c)
    BY <1>0, <1>2, RequestStep, ServeStep
  <2> QED
    BY <1>1, <2>1
<1>3. ASSUME [Next]_vars, UNCHANGED clientVars, \A c \in Clients : ClientKept(c) PROVE TxInv'
  <2>1. TypeOK' /\ TxTyped'
    BY <1>0, <1>3, NextType DEF TxTyped, clientVars
  <2>2. ASSUME NEW c \in Clients PROVE ClientSound(c)'
    BY <1>0, <1>3, ClientStays
  <2> QED
    BY <2>1, <2>2 DEF TxInv
<1>4. ASSUME NEW t \in Transfers, EditTransfer(t) PROVE TxInv' /\ [Next]_vars
  BY <1>0, <1>3, <1>4, EditStep DEF EditTransfer
<1>5. CASE UNCHANGED txVars
  <2>1. UNCHANGED vars /\ UNCHANGED clientVars
    BY <1>5 DEF txVars
  <2>2. \A c \in Clients : ClientKept(c)
    BY <2>1 DEF ClientKept, ItemKept, TransferKept, vars, clientVars
  <2> QED
    BY <1>3, <2>1, <2>2
<1> QED
  BY <1>2, <1>4, <1>5 DEF TxNext

(* Whatever several clients interleave, and whoever is rolled back, what       *)
(* StockService.apply and TransfersService commit is one whole document at a   *)
(* time, computed from what was committed before it: the row locks of lockItem *)
(* and of the transfers make every value that was read still true when the     *)
(* client commits                                                              *)
THEOREM DocumentsAtomic == TxSpec => CommittedAsDocuments
<1>1. TxInv /\ [TxNext]_txVars => TxInv'
  BY TxNextInv
<1>2. TxInv /\ [TxNext]_txVars => [Next]_vars
  BY TxNextInv
<1> QED
  BY <1>1, <1>2, TxInitInv, PTL DEF TxSpec, CommittedAsDocuments, Spec

(* So the quantities are accounted for however the requests interleave: the    *)
(* ledger explains every balance, what is in transit is what the transfers     *)
(* carry, each of them moves its goods once, and no balance goes below zero    *)
(* that is not traced to a till sale                                           *)
THEOREM AccountedStatementByStatement == TxSpec => []StockAccounted
<1>1. Spec => []StockAccounted
  BY StockIsAccounted
<1> QED
  BY <1>1, DocumentsAtomic, PTL DEF CommittedAsDocuments

-----------------------------------------------------------------------------
(* The purchases *)

(* The invoice sums of a supplier, and what each document adds to them *)
Owed(s) == [i \in Invoices |-> IF Standing(i, s) THEN TotalOf(invoices[i].line) ELSE 0]

LeftOf(s) ==
  [i \in Invoices |->
     IF Standing(i, s)
     THEN TotalOf(invoices[i].line) - invoices[i].returnedAmount - invoices[i].paidAmount
     ELSE 0]

BackTo(s) ==
  [x \in Returns |->
     IF \E i \in Invoices : SentBack(x, i) /\ invoices[i].supplier = s
     THEN returns[x].total ELSE 0]

PaidTo(s) == [p \in Payments |-> IF Paid(p, s) THEN payments[p].amount ELSE 0]

OnAccount(s) ==
  [p \in Payments |->
     IF Paid(p, s) /\ payments[p].invoice = NoDocument THEN payments[p].amount ELSE 0]

PayableRight(s) ==
  Total(Owed(s)) - Total(BackTo(s)) - Total(PaidTo(s)) = Total(LeftOf(s)) - Total(OnAccount(s))

(* What was sent back of an invoice, and paid on it *)
BackOf(i) == [x \in Returns |-> IF SentBack(x, i) THEN returns[x].quantity ELSE 0]

PaidOn(i) ==
  [p \in Payments |->
     IF payments[p].status = "posted" /\ payments[p].invoice = i THEN payments[p].amount ELSE 0]

(* The rows of the tables and of the requests *)
WorkRow ==
  [do : {"none", "create", "update", "pay", "remove"}, document : Invoices \cup {NoDocument},
   supplier : Suppliers \cup {NoDocument}, line : PurchaseLine \cup {NoDocument}]

PurchaseRows ==
  /\ PurchasesTypeOK
  /\ suppliers \in [Suppliers -> {"none", "active", "stopped", "removed"}]
  /\ goods \in [Invoices -> Int]
  /\ purchaseWork \in [Desks -> WorkRow]
  /\ \A i \in Invoices :
       invoices[i].status # "none" =>
         invoices[i].supplier \in Suppliers /\ invoices[i].line \in PurchaseLine
  /\ \A r \in Desks :
       /\ purchaseWork[r].do # "none" => purchaseWork[r].supplier \in Suppliers
       /\ purchaseWork[r].do \in {"create", "update"} =>
            purchaseWork[r].document \in Invoices /\ purchaseWork[r].line \in PurchaseLine

(* An invoice keeps what was paid on it and sent back of it, its goods follow, and *)
(* it is cancelled with nothing of either booked on it                              *)
InvoiceBooks(i) ==
  /\ invoices[i].paidAmount = Total(PaidOn(i))
  /\ invoices[i].returnedQuantity = Total(BackOf(i))
  /\ goods[i] = (IF invoices[i].status = "posted" THEN invoices[i].line.quantity ELSE 0)
                  - invoices[i].returnedQuantity

InvoiceStage(i) ==
  /\ invoices[i].status \in {"none", "draft"} => invoices[i].returnedQuantity = 0
  /\ invoices[i].status # "posted" =>
       invoices[i].returnedAmount = 0 /\ invoices[i].paidAmount = 0
  /\ invoices[i].status = "posted" =>
       invoices[i].returnedQuantity <= invoices[i].line.quantity
  /\ 0 \notin Prices => invoices[i].returnedQuantity <= invoices[i].returnedAmount

(* A return is of an invoice that was posted, and worth a coin a piece at least *)
ReturnInOrder(x) ==
  returns[x].status # "none" =>
    /\ returns[x].invoice \in Invoices /\ returns[x].quantity > 0
    /\ invoices[returns[x].invoice].status \in {"posted", "cancelled"}
    /\ 0 \notin Prices => returns[x].quantity <= returns[x].total

(* A payment that stands is on an invoice that stands, of the same supplier *)
PaymentInOrder(p) ==
  payments[p].status = "posted" =>
    /\ payments[p].supplier \in Suppliers /\ payments[p].amount > 0
    /\ payments[p].invoice # NoDocument =>
         Standing(payments[p].invoice, payments[p].supplier)

(* A supplier that is being removed, or was, is in no document and no request enters *)
(* one of his, unless one was entered meanwhile                                        *)
Leaving(s) == suppliers[s] = "removed" \/ \E r \in Desks : Removing(r, s)

RemovedIsOut(s) ==
  Leaving(s) /\ s \notin crossed =>
    /\ \A i \in Invoices : invoices[i].supplier # s
    /\ \A p \in Payments : payments[p].supplier # s
    /\ \A r \in Desks : ~Entering(r, s)

BooksInv ==
  /\ \A i \in Invoices : InvoiceBooks(i)
  /\ \A i \in Invoices : InvoiceStage(i)
  /\ \A x \in Returns : ReturnInOrder(x)
  /\ \A p \in Payments : PaymentInOrder(p)
  /\ \A s \in Suppliers : PayableRight(s)

RemovedInv == \A s \in Suppliers : RemovedIsOut(s)

PurchasesInv == PurchaseRows /\ BooksInv /\ RemovedInv

-----------------------------------------------------------------------------
(* Amounts and sums *)

LEMMA LineAmounts ==
  ASSUME NEW line \in PurchaseLine
  PROVE  /\ line.quantity \in Nat \ {0} /\ line.unitPrice \in Nat
         /\ 0 \notin Prices => line.unitPrice > 0
         /\ Subtotal(line) \in Nat /\ Tax(line) \in Nat /\ TotalOf(line) \in Nat
<1>1. line.quantity \in Nat \ {0} /\ line.unitPrice \in Prices /\ line.unitPrice \in Nat
      /\ line.taxRate \in Nat
  BY PurchasingAssumption DEF PurchaseLine
<1>2. Subtotal(line) \in Nat
  BY <1>1 DEF Subtotal
<1>3. Subtotal(line) * line.taxRate \in Nat
  BY <1>1, <1>2
<1>4. Tax(line) \in Nat
  BY <1>3, RoundedQuotientType DEF Tax
<1> QED
  BY <1>1, <1>2, <1>4 DEF TotalOf

(* The share of a return is a coin a piece at least, unless the goods are free *)
LEMMA ReturnShareOf ==
  ASSUME NEW line \in PurchaseLine, NEW quantity \in Nat
  PROVE  /\ ReturnShare(line, quantity) \in Nat
         /\ 0 \notin Prices => quantity <= ReturnShare(line, quantity)
<1> DEFINE q == line.quantity
           a == Subtotal(line) * quantity
           b == Tax(line) * quantity
<1>1. q \in Nat \ {0} /\ a \in Nat /\ b \in Nat /\ line.unitPrice \in Nat
  BY LineAmounts
<1>2. RoundedQuotient(a, q) \in Nat /\ RoundedQuotient(b, q) \in Nat
  BY <1>1, RoundedQuotientType
<1>3. ASSUME 0 \notin Prices PROVE q * quantity <= a
  <2>1. line.unitPrice > 0
    BY <1>3, LineAmounts
  <2>2. PICK n \in Nat, u \in Nat \ {0} : n = q * quantity /\ u = line.unitPrice
    BY <1>1, <2>1
  <2>3. a = n * u
    BY <1>1, <2>2 DEF Subtotal
  <2>4. n <= n * u
    BY <2>2
  <2> QED
    BY <2>2, <2>3, <2>4
<1> HIDE DEF a, b, q
<1>4. ASSUME 0 \notin Prices PROVE quantity <= RoundedQuotient(a, q)
  BY <1>1, <1>3, <1>4, RoundedQuotientFloor
<1> QED
  BY <1>2, <1>4 DEF ReturnShare, a, b, q

(* The fields of the rows *)
RowFields ==
  /\ \A i \in Invoices :
       /\ invoices[i].status \in {"none", "draft", "posted", "cancelled"}
       /\ invoices[i].returnedQuantity \in Nat /\ invoices[i].returnedAmount \in Nat
       /\ invoices[i].paidAmount \in Nat /\ goods[i] \in Int
       /\ invoices[i].status # "none" =>
            /\ invoices[i].supplier \in Suppliers /\ invoices[i].line \in PurchaseLine
            /\ TotalOf(invoices[i].line) \in Nat /\ invoices[i].line.quantity \in Nat \ {0}
  /\ \A x \in Returns :
       /\ returns[x].status \in {"none", "draft", "posted", "cancelled"}
       /\ returns[x].invoice \in Invoices \cup {NoDocument}
       /\ returns[x].quantity \in Nat /\ returns[x].total \in Nat
  /\ \A p \in Payments :
       /\ payments[p].status \in {"none", "posted", "cancelled"}
       /\ payments[p].invoice \in Invoices \cup {NoDocument}
       /\ payments[p].amount \in Nat

LEMMA FieldTypes == PurchaseRows => RowFields
<1> SUFFICES ASSUME PurchaseRows PROVE RowFields
  OBVIOUS
<1>1. ASSUME NEW i \in Invoices
      PROVE  /\ invoices[i].status \in {"none", "draft", "posted", "cancelled"}
             /\ invoices[i].returnedQuantity \in Nat /\ invoices[i].returnedAmount \in Nat
             /\ invoices[i].paidAmount \in Nat /\ goods[i] \in Int
  <2>1. invoices[i] \in PurchaseInvoice
    BY DEF PurchaseRows, PurchasesTypeOK
  <2> QED
    BY <2>1 DEF PurchaseInvoice, PurchaseRows
<1>2. ASSUME NEW i \in Invoices, invoices[i].status # "none"
      PROVE  /\ invoices[i].supplier \in Suppliers /\ invoices[i].line \in PurchaseLine
             /\ TotalOf(invoices[i].line) \in Nat /\ invoices[i].line.quantity \in Nat \ {0}
  <2>1. invoices[i].supplier \in Suppliers /\ invoices[i].line \in PurchaseLine
    BY <1>2 DEF PurchaseRows
  <2> QED
    BY <2>1, LineAmounts
<1>3. ASSUME NEW x \in Returns
      PROVE  /\ returns[x].status \in {"none", "draft", "posted", "cancelled"}
             /\ returns[x].invoice \in Invoices \cup {NoDocument}
             /\ returns[x].quantity \in Nat /\ returns[x].total \in Nat
  <2>1. returns[x] \in PurchaseReturnRow
    BY DEF PurchaseRows, PurchasesTypeOK
  <2> QED
    BY <2>1 DEF PurchaseReturnRow
<1>4. ASSUME NEW p \in Payments
      PROVE  /\ payments[p].status \in {"none", "posted", "cancelled"}
             /\ payments[p].invoice \in Invoices \cup {NoDocument}
             /\ payments[p].amount \in Nat
  <2>1. payments[p] \in SupplierPayment
    BY DEF PurchaseRows, PurchasesTypeOK
  <2> QED
    BY <2>1 DEF SupplierPayment
<1> QED
  BY <1>1, <1>2, <1>3, <1>4 DEF RowFields

LEMMA FieldTypesNext == PurchaseRows' => RowFields'
  BY FieldTypes, PTL

(* The sums are of integers; what is sent back or paid is natural *)
PurchaseSums ==
  /\ \A s \in Suppliers :
       /\ Owed(s) \in [Invoices -> Int] /\ LeftOf(s) \in [Invoices -> Int]
       /\ BackTo(s) \in [Returns -> Int]
       /\ PaidTo(s) \in [Payments -> Int] /\ OnAccount(s) \in [Payments -> Int]
  /\ \A i \in Invoices : BackOf(i) \in [Returns -> Nat] /\ PaidOn(i) \in [Payments -> Nat]

LEMMA PurchaseSumTypes == RowFields => PurchaseSums
<1> SUFFICES ASSUME RowFields PROVE PurchaseSums
  OBVIOUS
<1>1. ASSUME NEW s \in Suppliers
      PROVE  Owed(s) \in [Invoices -> Int] /\ LeftOf(s) \in [Invoices -> Int]
  <2>1. ASSUME NEW i \in Invoices, Standing(i, s)
        PROVE  /\ TotalOf(invoices[i].line) \in Int
               /\ TotalOf(invoices[i].line) - invoices[i].returnedAmount
                    - invoices[i].paidAmount \in Int
    <3>1. /\ TotalOf(invoices[i].line) \in Nat /\ invoices[i].returnedAmount \in Nat
          /\ invoices[i].paidAmount \in Nat
      BY <2>1 DEF RowFields, Standing
    <3> QED
      BY <3>1
  <2> QED
    BY <2>1 DEF Owed, LeftOf
<1>2. ASSUME NEW s \in Suppliers
      PROVE  /\ BackTo(s) \in [Returns -> Int] /\ PaidTo(s) \in [Payments -> Int]
             /\ OnAccount(s) \in [Payments -> Int]
  BY DEF RowFields, BackTo, PaidTo, OnAccount
<1>3. ASSUME NEW i \in Invoices
      PROVE  BackOf(i) \in [Returns -> Nat] /\ PaidOn(i) \in [Payments -> Nat]
  BY DEF RowFields, BackOf, PaidOn
<1> QED
  BY <1>1, <1>2, <1>3 DEF PurchaseSums

LEMMA PurchaseSumTypesNext == RowFields' => PurchaseSums'
  BY PurchaseSumTypes, PTL

LEMMA PurchaseTotals ==
  ASSUME PurchaseSums, NEW s \in Suppliers
  PROVE  /\ Total(Owed(s)) \in Int /\ Total(LeftOf(s)) \in Int /\ Total(BackTo(s)) \in Int
         /\ Total(PaidTo(s)) \in Int /\ Total(OnAccount(s)) \in Int
<1>1. IsFiniteSet(Invoices) /\ IsFiniteSet(Returns) /\ IsFiniteSet(Payments)
  BY PurchasingAssumption
<1>2. /\ Owed(s) \in [Invoices -> Int] /\ LeftOf(s) \in [Invoices -> Int]
      /\ BackTo(s) \in [Returns -> Int]
      /\ PaidTo(s) \in [Payments -> Int] /\ OnAccount(s) \in [Payments -> Int]
  BY DEF PurchaseSums
<1>3. Total(Owed(s)) \in Int /\ Total(LeftOf(s)) \in Int
  BY <1>1, <1>2, TotalType
<1>4. Total(BackTo(s)) \in Int
  BY <1>1, <1>2, TotalType
<1>5. Total(PaidTo(s)) \in Int /\ Total(OnAccount(s)) \in Int
  BY <1>1, <1>2, TotalType
<1> QED
  BY <1>3, <1>4, <1>5

-----------------------------------------------------------------------------
(* What a step does to the sums *)

(* What is booked on an invoice that stands *)
Booked(i, s) ==
  IF Standing(i, s) THEN invoices[i].returnedAmount + invoices[i].paidAmount ELSE 0

(* One invoice changes: what was owed and what is left of it move apart by what is *)
(* booked on it                                                                      *)
LEMMA OneInvoice ==
  ASSUME RowFields, RowFields', NEW i \in Invoices, NEW s \in Suppliers,
         \A j \in Invoices \ {i} : invoices'[j] = invoices[j]
  PROVE  Total(Owed(s))' - Total(LeftOf(s))'
           = Total(Owed(s)) - Total(LeftOf(s)) - Booked(i, s) + Booked(i, s)'
<1>1. PurchaseSums /\ PurchaseSums'
  BY PurchaseSumTypes, PurchaseSumTypesNext
<1>2. PICK o, oo : o = Owed(s) /\ oo = Owed(s)'
  OBVIOUS
<1>3. PICK l, ll : l = LeftOf(s) /\ ll = LeftOf(s)'
  OBVIOUS
<1>4. o \in [Invoices -> Int] /\ oo \in [Invoices -> Int]
      /\ l \in [Invoices -> Int] /\ ll \in [Invoices -> Int]
  BY <1>1, <1>2, <1>3 DEF PurchaseSums
<1>5. \A j \in Invoices \ {i} : oo[j] = o[j] /\ ll[j] = l[j]
  BY <1>2, <1>3 DEF Owed, LeftOf, Standing
<1>6. o[i] - l[i] = Booked(i, s)
  <2>1. CASE Standing(i, s)
    <3>1. /\ TotalOf(invoices[i].line) \in Nat /\ invoices[i].returnedAmount \in Nat
          /\ invoices[i].paidAmount \in Nat
      BY <2>1 DEF RowFields, Standing
    <3>2. o[i] = TotalOf(invoices[i].line)
          /\ l[i] = TotalOf(invoices[i].line) - invoices[i].returnedAmount - invoices[i].paidAmount
      BY <2>1, <1>2, <1>3 DEF Owed, LeftOf
    <3> QED
      BY <2>1, <3>1, <3>2 DEF Booked
  <2> QED
    BY <2>1, <1>2, <1>3 DEF Owed, LeftOf, Booked
<1>7. oo[i] - ll[i] = Booked(i, s)'
  <2>1. CASE Standing(i, s)'
    <3>1. /\ TotalOf(invoices'[i].line) \in Nat /\ invoices'[i].returnedAmount \in Nat
          /\ invoices'[i].paidAmount \in Nat
      BY <2>1 DEF RowFields, Standing
    <3>2. oo[i] = TotalOf(invoices'[i].line)
          /\ ll[i] = TotalOf(invoices'[i].line) - invoices'[i].returnedAmount
                       - invoices'[i].paidAmount
      BY <2>1, <1>2, <1>3 DEF Owed, LeftOf
    <3> QED
      BY <2>1, <3>1, <3>2 DEF Booked
  <2> QED
    BY <2>1, <1>2, <1>3 DEF Owed, LeftOf, Booked
<1>8. Total(oo) = Total(o) - o[i] + oo[i]
  BY <1>4, <1>5, TotalUpdate, PurchasingAssumption
<1>9. Total(ll) = Total(l) - l[i] + ll[i]
  BY <1>4, <1>5, TotalUpdate, PurchasingAssumption
<1>10. Total(o) \in Int /\ Total(l) \in Int
  BY <1>4, TotalType, PurchasingAssumption
<1>11. PICK bn, ba \in Int : bn = Booked(i, s) /\ ba = Booked(i, s)'
  <2>1. o[i] - l[i] \in Int /\ oo[i] - ll[i] \in Int
    BY <1>4
  <2> QED
    BY <2>1, <1>6, <1>7
<1>12. o[i] \in Int /\ oo[i] \in Int /\ l[i] \in Int /\ ll[i] \in Int
  BY <1>4
<1>13. Total(oo) - Total(ll) = Total(o) - Total(l) - bn + ba
  BY <1>6, <1>7, <1>8, <1>9, <1>10, <1>11, <1>12
<1> QED
  BY <1>2, <1>3, <1>11, <1>13

(* What a payment takes from an invoice of a supplier *)
OnInvoice(p, s) ==
  IF Paid(p, s) /\ payments[p].invoice # NoDocument THEN payments[p].amount ELSE 0

(* One payment changes: what was paid and what was paid on account move apart by *)
(* what it takes from an invoice                                                   *)
LEMMA OnePayment ==
  ASSUME RowFields, RowFields', NEW p \in Payments, NEW s \in Suppliers,
         \A q \in Payments \ {p} : payments'[q] = payments[q]
  PROVE  Total(PaidTo(s))' - Total(OnAccount(s))'
           = Total(PaidTo(s)) - Total(OnAccount(s)) - OnInvoice(p, s) + OnInvoice(p, s)'
<1>1. PurchaseSums /\ PurchaseSums'
  BY PurchaseSumTypes, PurchaseSumTypesNext
<1>2. PICK o, oo : o = PaidTo(s) /\ oo = PaidTo(s)'
  OBVIOUS
<1>3. PICK l, ll : l = OnAccount(s) /\ ll = OnAccount(s)'
  OBVIOUS
<1>4. o \in [Payments -> Int] /\ oo \in [Payments -> Int]
      /\ l \in [Payments -> Int] /\ ll \in [Payments -> Int]
  BY <1>1, <1>2, <1>3 DEF PurchaseSums
<1>5. \A j \in Payments \ {p} : oo[j] = o[j] /\ ll[j] = l[j]
  BY <1>2, <1>3 DEF PaidTo, OnAccount, Paid
<1>6. payments[p].amount \in Int /\ payments'[p].amount \in Int
  BY DEF RowFields
<1>7. o[p] - l[p] = OnInvoice(p, s)
  BY <1>2, <1>3, <1>6 DEF PaidTo, OnAccount, OnInvoice
<1>8. oo[p] - ll[p] = OnInvoice(p, s)'
  BY <1>2, <1>3, <1>6 DEF PaidTo, OnAccount, OnInvoice
<1>9. Total(oo) = Total(o) - o[p] + oo[p]
  BY <1>4, <1>5, TotalUpdate, PurchasingAssumption
<1>10. Total(ll) = Total(l) - l[p] + ll[p]
  BY <1>4, <1>5, TotalUpdate, PurchasingAssumption
<1>11. Total(o) \in Int /\ Total(l) \in Int
  BY <1>4, TotalType, PurchasingAssumption
<1>12. PICK bn, ba \in Int : bn = OnInvoice(p, s) /\ ba = OnInvoice(p, s)'
  BY <1>6 DEF OnInvoice
<1>13. o[p] \in Int /\ oo[p] \in Int /\ l[p] \in Int /\ ll[p] \in Int
  BY <1>4
<1>14. Total(oo) - Total(ll) = Total(o) - Total(l) - bn + ba
  BY <1>7, <1>8, <1>9, <1>10, <1>11, <1>12, <1>13
<1> QED
  BY <1>2, <1>3, <1>12, <1>14

(* A payment that changes changes what was paid on each invoice alike *)
LEMMA OnePaymentOn ==
  ASSUME RowFields, RowFields', NEW p \in Payments, NEW i \in Invoices,
         \A q \in Payments \ {p} : payments'[q] = payments[q]
  PROVE  /\ Total(PaidOn(i))' = Total(PaidOn(i)) - PaidOn(i)[p] + PaidOn(i)'[p]
         /\ PaidOn(i)[p] \in Nat /\ PaidOn(i)'[p] \in Nat
         /\ PaidOn(i)[p] <= Total(PaidOn(i))
<1>1. PurchaseSums /\ PurchaseSums'
  BY PurchaseSumTypes, PurchaseSumTypesNext
<1>2. PICK o, oo : o = PaidOn(i) /\ oo = PaidOn(i)'
  OBVIOUS
<1>3. o \in [Payments -> Nat] /\ oo \in [Payments -> Nat]
      /\ o \in [Payments -> Int] /\ oo \in [Payments -> Int]
  BY <1>1, <1>2 DEF PurchaseSums
<1>4. \A j \in Payments \ {p} : oo[j] = o[j]
  BY <1>2 DEF PaidOn
<1>5. Total(oo) = Total(o) - o[p] + oo[p]
  BY <1>3, <1>4, TotalUpdate, PurchasingAssumption
<1>6. o[p] <= Total(o)
  BY <1>3, TotalAtLeast, PurchasingAssumption
<1> QED
  BY <1>2, <1>3, <1>5, <1>6

(* A return that changes changes what was sent back of each invoice alike .. *)
LEMMA OneReturnOf ==
  ASSUME RowFields, RowFields', NEW x \in Returns, NEW i \in Invoices,
         \A y \in Returns \ {x} : returns'[y] = returns[y]
  PROVE  Total(BackOf(i))' = Total(BackOf(i)) - BackOf(i)[x] + BackOf(i)'[x]
<1>1. PurchaseSums /\ PurchaseSums'
  BY PurchaseSumTypes, PurchaseSumTypesNext
<1>2. PICK o, oo : o = BackOf(i) /\ oo = BackOf(i)'
  OBVIOUS
<1>3. o \in [Returns -> Nat] /\ oo \in [Returns -> Nat]
      /\ o \in [Returns -> Int] /\ oo \in [Returns -> Int]
  BY <1>1, <1>2 DEF PurchaseSums
<1>4. \A j \in Returns \ {x} : oo[j] = o[j]
  BY <1>2 DEF BackOf, SentBack
<1>5. Total(oo) = Total(o) - o[x] + oo[x]
  BY <1>3, <1>4, TotalUpdate, PurchasingAssumption
<1> QED
  BY <1>2, <1>5

(* .. and, unless an invoice of which something was sent back changes its supplier, *)
(* what was sent back to each supplier                                                *)
SuppliersKept ==
  \A x \in Returns : returns[x].status = "posted" =>
    \A i \in Invoices :
      returns[x].invoice = i => invoices'[i].supplier = invoices[i].supplier

LEMMA OneReturnTo ==
  ASSUME RowFields, RowFields', SuppliersKept, NEW x \in Returns, NEW s \in Suppliers,
         \A y \in Returns \ {x} : returns'[y] = returns[y]
  PROVE  Total(BackTo(s))' = Total(BackTo(s)) - BackTo(s)[x] + BackTo(s)'[x]
<1>1. PurchaseSums /\ PurchaseSums'
  BY PurchaseSumTypes, PurchaseSumTypesNext
<1>2. PICK o, oo : o = BackTo(s) /\ oo = BackTo(s)'
  OBVIOUS
<1>3. o \in [Returns -> Int] /\ oo \in [Returns -> Int]
  BY <1>1, <1>2 DEF PurchaseSums
<1>4. ASSUME NEW y \in Returns \ {x} PROVE oo[y] = o[y]
  <2>1. \A i \in Invoices :
          SentBack(y, i)' /\ invoices'[i].supplier = s <=> SentBack(y, i) /\ invoices[i].supplier = s
    BY DEF SuppliersKept, SentBack
  <2> QED
    BY <2>1, <1>2 DEF BackTo
<1>5. Total(oo) = Total(o) - o[x] + oo[x]
  BY <1>3, <1>4, TotalUpdate, PurchasingAssumption
<1> QED
  BY <1>2, <1>5

(* Sums of rows that stay are as they were *)
LEMMA ReturnsStay ==
  ASSUME RowFields, RowFields', SuppliersKept, UNCHANGED returns
  PROVE  /\ \A s \in Suppliers : Total(BackTo(s))' = Total(BackTo(s))
         /\ \A i \in Invoices : Total(BackOf(i))' = Total(BackOf(i))
<1>1. \A i \in Invoices : BackOf(i)' = BackOf(i)
  BY DEF BackOf, SentBack
<1>2. ASSUME NEW s \in Suppliers PROVE BackTo(s)' = BackTo(s)
  <2>1. ASSUME NEW y \in Returns
        PROVE  (\E i \in Invoices : SentBack(y, i)' /\ invoices'[i].supplier = s)
                 <=> \E i \in Invoices : SentBack(y, i) /\ invoices[i].supplier = s
    BY DEF SuppliersKept, SentBack
  <2> QED
    BY <2>1 DEF BackTo
<1> QED
  BY <1>1, <1>2

LEMMA PaymentsStay ==
  ASSUME UNCHANGED payments
  PROVE  /\ \A s \in Suppliers :
              Total(PaidTo(s))' = Total(PaidTo(s)) /\ Total(OnAccount(s))' = Total(OnAccount(s))
         /\ \A i \in Invoices : Total(PaidOn(i))' = Total(PaidOn(i))
  BY DEF PaidTo, OnAccount, Paid, PaidOn

LEMMA InvoicesStay ==
  ASSUME UNCHANGED invoices, NEW s \in Suppliers
  PROVE  Total(Owed(s))' = Total(Owed(s)) /\ Total(LeftOf(s))' = Total(LeftOf(s))
  BY DEF Owed, LeftOf, Standing

-----------------------------------------------------------------------------
(* Frames: what a step that leaves most of the books keeps *)

LEMMA BooksStay ==
  ASSUME BooksInv, UNCHANGED <<invoices, returns, payments, goods>>
  PROVE  BooksInv'
<1>1. /\ invoices' = invoices /\ returns' = returns /\ payments' = payments /\ goods' = goods
  OBVIOUS
<1>2. ASSUME NEW i \in Invoices PROVE InvoiceBooks(i)' /\ InvoiceStage(i)'
  <2>1. InvoiceBooks(i) /\ InvoiceStage(i)
    BY DEF BooksInv
  <2> QED
    BY <1>1, <2>1 DEF InvoiceBooks, InvoiceStage, PaidOn, BackOf, SentBack
<1>3. ASSUME NEW x \in Returns PROVE ReturnInOrder(x)'
  BY <1>1 DEF BooksInv, ReturnInOrder
<1>4. ASSUME NEW p \in Payments PROVE PaymentInOrder(p)'
  BY <1>1 DEF BooksInv, PaymentInOrder, Standing
<1>5. ASSUME NEW s \in Suppliers PROVE PayableRight(s)'
  <2>1. PayableRight(s)
    BY DEF BooksInv
  <2> QED
    BY <1>1, <2>1
    DEF PayableRight, Owed, LeftOf, BackTo, PaidTo, OnAccount, Standing, SentBack, Paid
<1> QED
  BY <1>2, <1>3, <1>4, <1>5 DEF BooksInv

(* An invoice on which nothing is booked changes *)
LEMMA PlainInvoiceChanges ==
  ASSUME PurchasesInv, PurchaseRows', UNCHANGED <<returns, payments>>, NEW i \in Invoices,
         \A j \in Invoices \ {i} : invoices'[j] = invoices[j] /\ goods'[j] = goods[j],
         invoices[i].paidAmount = 0, invoices'[i].paidAmount = 0,
         invoices[i].returnedAmount = 0, invoices'[i].returnedAmount = 0,
         invoices'[i].returnedQuantity = invoices[i].returnedQuantity,
         invoices[i].status \in {"posted", "cancelled"} =>
           /\ invoices'[i].status \in {"posted", "cancelled"}
           /\ invoices'[i].supplier = invoices[i].supplier,
         InvoiceStage(i)',
         goods'[i] = (IF invoices'[i].status = "posted" THEN invoices'[i].line.quantity ELSE 0)
                       - invoices[i].returnedQuantity
  PROVE  BooksInv'
<1>1. RowFields /\ RowFields' /\ BooksInv /\ returns' = returns /\ payments' = payments
  BY FieldTypes, FieldTypesNext DEF PurchasesInv
<1>2. SuppliersKept
  <2> SUFFICES ASSUME NEW x \in Returns, returns[x].status = "posted", NEW j \in Invoices,
                      returns[x].invoice = j
               PROVE  invoices'[j].supplier = invoices[j].supplier
    BY DEF SuppliersKept
  <2>1. invoices[j].status \in {"posted", "cancelled"}
    BY <1>1 DEF BooksInv, ReturnInOrder
  <2> QED
    BY <2>1
<1>3. ASSUME NEW p \in Payments, payments[p].status = "posted" PROVE payments[p].invoice # i
  <2> SUFFICES ASSUME payments[p].invoice = i PROVE FALSE
    OBVIOUS
  <2>1. PaidOn(i)[p] = payments[p].amount /\ payments[p].amount > 0
    BY <1>1, <1>3 DEF PaidOn, BooksInv, PaymentInOrder
  <2>2. PaidOn(i) \in [Payments -> Nat]
    BY <1>1, PurchaseSumTypes DEF PurchaseSums
  <2>3. PaidOn(i)[p] <= Total(PaidOn(i))
    BY <2>2, TotalAtLeast, PurchasingAssumption
  <2>4. Total(PaidOn(i)) = 0
    BY <1>1 DEF BooksInv, InvoiceBooks
  <2> QED
    BY <1>1, <2>1, <2>3, <2>4 DEF RowFields
<1>4. ASSUME NEW j \in Invoices PROVE InvoiceBooks(j)'
  <2>1. InvoiceBooks(j) /\ Total(BackOf(j))' = Total(BackOf(j))
        /\ Total(PaidOn(j))' = Total(PaidOn(j))
    BY <1>1, <1>2, ReturnsStay, PaymentsStay DEF BooksInv
  <2>2. CASE j = i
    BY <2>1, <2>2 DEF InvoiceBooks
  <2>3. CASE j # i
    BY <2>1, <2>3 DEF InvoiceBooks
  <2> QED
    BY <2>2, <2>3
<1>5. ASSUME NEW j \in Invoices PROVE InvoiceStage(j)'
  <2>1. CASE j = i
    BY <2>1
  <2>2. CASE j # i
    BY <1>1, <2>2 DEF BooksInv, InvoiceStage
  <2> QED
    BY <2>1, <2>2
<1>6. ASSUME NEW x \in Returns PROVE ReturnInOrder(x)'
  <2>1. ReturnInOrder(x)
    BY <1>1 DEF BooksInv
  <2> QED
    BY <1>1, <2>1 DEF ReturnInOrder
<1>7. ASSUME NEW p \in Payments PROVE PaymentInOrder(p)'
  <2>1. PaymentInOrder(p)
    BY <1>1 DEF BooksInv
  <2>2. payments[p].invoice \in Invoices \cup {NoDocument}
    BY <1>1 DEF RowFields
  <2> QED
    BY <1>1, <1>3, <2>1, <2>2 DEF PaymentInOrder, Standing
<1>8. ASSUME NEW s \in Suppliers PROVE PayableRight(s)'
  <2>1. PayableRight(s)
    BY <1>1 DEF BooksInv
  <2>2. Booked(i, s) = 0 /\ Booked(i, s)' = 0
    BY DEF Booked
  <2>3. Total(Owed(s))' - Total(LeftOf(s))'
          = Total(Owed(s)) - Total(LeftOf(s)) - Booked(i, s) + Booked(i, s)'
    BY <1>1, OneInvoice
  <2>4. /\ Total(BackTo(s))' = Total(BackTo(s)) /\ Total(PaidTo(s))' = Total(PaidTo(s))
        /\ Total(OnAccount(s))' = Total(OnAccount(s))
    BY <1>1, <1>2, ReturnsStay, PaymentsStay
  <2>5. /\ Total(Owed(s)) \in Int /\ Total(LeftOf(s)) \in Int /\ Total(BackTo(s)) \in Int
        /\ Total(PaidTo(s)) \in Int /\ Total(OnAccount(s)) \in Int
    BY <1>1, PurchaseSumTypes, PurchaseTotals
  <2>6. Total(Owed(s))' \in Int /\ Total(LeftOf(s))' \in Int
    <3>1. Owed(s)' \in [Invoices -> Int] /\ LeftOf(s)' \in [Invoices -> Int]
      BY <1>1, PurchaseSumTypesNext DEF PurchaseSums
    <3> QED
      BY <3>1, TotalType, PurchasingAssumption
  <2> QED
    BY <2>1, <2>2, <2>3, <2>4, <2>5, <2>6 DEF PayableRight
<1> QED
  BY <1>4, <1>5, <1>6, <1>7, <1>8 DEF BooksInv

(* Suppliers a document may name: none of them is leaving unnoticed *)
Known(s) ==
  \/ s = NoDocument
  \/ \E i \in Invoices : invoices[i].supplier = s
  \/ \E p \in Payments : payments[p].supplier = s
  \/ \E r \in Desks : Entering(r, s)

LEMMA RemovedStay ==
  ASSUME RemovedInv, UNCHANGED crossed,
         \A s \in Suppliers : Leaving(s)' => Leaving(s),
         \A i \in Invoices : Known(invoices'[i].supplier),
         \A p \in Payments : Known(payments'[p].supplier),
         \A r \in Desks, s \in Suppliers : Entering(r, s)' => Entering(r, s)
  PROVE  RemovedInv'
<1> SUFFICES ASSUME NEW s \in Suppliers, Leaving(s), s \notin crossed
             PROVE  /\ \A i \in Invoices : invoices'[i].supplier # s
                    /\ \A p \in Payments : payments'[p].supplier # s
                    /\ \A r \in Desks : ~Entering(r, s)'
  BY DEF RemovedInv, RemovedIsOut
<1>1. ~Known(s)
  BY PurchasingAssumption DEF RemovedInv, RemovedIsOut, Known
<1>2. \A r \in Desks : ~Entering(r, s)
  BY DEF RemovedInv, RemovedIsOut
<1> QED
  BY <1>1, <1>2

-----------------------------------------------------------------------------
(* The steps *)

LEMMA StepSupplier ==
  ASSUME PurchasesInv, NEW s \in Suppliers, NEW state \in {"active", "stopped"},
         CreateSupplier(s) \/ UpdateSupplier(s, state)
  PROVE  PurchasesInv'
<1>1. PICK new \in {"active", "stopped"} : suppliers' = [suppliers EXCEPT ![s] = new]
  BY DEF CreateSupplier, UpdateSupplier
<1>2. /\ invoices' = invoices /\ returns' = returns /\ payments' = payments /\ goods' = goods
      /\ purchaseWork' = purchaseWork /\ crossed' = crossed
  BY DEF CreateSupplier, UpdateSupplier
<1>3. PurchaseRows'
  BY <1>1, <1>2 DEF PurchasesInv, PurchaseRows, PurchasesTypeOK
<1>4. BooksInv'
  BY <1>2, BooksStay DEF PurchasesInv
<1>5. RemovedInv'
  BY <1>1, <1>2
  DEF PurchasesInv, PurchaseRows, RemovedInv, RemovedIsOut, Leaving, Removing, Entering
<1> QED
  BY <1>3, <1>4, <1>5 DEF PurchasesInv

(* A request reads, or gives up *)
LEMMA WorkRows ==
  ASSUME PurchasesInv, UNCHANGED <<suppliers, invoices, returns, payments, goods>>,
         NEW r \in Desks, NEW w \in WorkRow, purchaseWork' = [purchaseWork EXCEPT ![r] = w],
         w.do # "none" => w.supplier \in Suppliers,
         w.do \in {"create", "update"} => w.document \in Invoices /\ w.line \in PurchaseLine
  PROVE  /\ PurchaseRows' /\ BooksInv'
         /\ purchaseWork'[r] = w /\ \A d \in Desks \ {r} : purchaseWork'[d] = purchaseWork[d]
<1>1. /\ purchaseWork' \in [Desks -> WorkRow] /\ purchaseWork'[r] = w
      /\ \A d \in Desks \ {r} : purchaseWork'[d] = purchaseWork[d]
  BY DEF PurchasesInv, PurchaseRows
<1>2. PurchaseRows'
  BY <1>1 DEF PurchasesInv, PurchaseRows, PurchasesTypeOK
<1>3. BooksInv'
  BY BooksStay DEF PurchasesInv
<1> QED
  BY <1>1, <1>2, <1>3

LEMMA NoWorkIsARow == NoWork \in WorkRow /\ NoWork.do = "none"
  BY DEF NoWork, WorkRow

LEMMA SupplierWork ==
  ASSUME NEW do \in {"pay", "remove"}, NEW s \in Suppliers,
         NEW w, w = [NoWork EXCEPT !.do = do, !.supplier = s]
  PROVE  w \in WorkRow /\ w.do = do /\ w.supplier = s
<1>1. w = [do |-> do, document |-> NoDocument, supplier |-> s, line |-> NoDocument]
  BY DEF NoWork
<1> QED
  BY <1>1 DEF WorkRow

LEMMA StepEnter ==
  ASSUME PurchasesInv, NEW r \in Desks, NEW w \in WorkRow, Enter(r, w),
         w.do \in {"create", "update", "pay"}, w.supplier \in Suppliers,
         w.do \in {"create", "update"} => w.document \in Invoices /\ w.line \in PurchaseLine,
         suppliers[w.supplier] # "removed" \/ \E i \in Invoices : invoices[i].supplier = w.supplier
  PROVE  PurchasesInv'
<1>1. /\ invoices' = invoices /\ returns' = returns /\ payments' = payments /\ goods' = goods
      /\ suppliers' = suppliers /\ purchaseWork' = [purchaseWork EXCEPT ![r] = w]
  BY DEF Enter
<1>2. /\ PurchaseRows' /\ BooksInv' /\ purchaseWork'[r] = w
      /\ \A d \in Desks \ {r} : purchaseWork'[d] = purchaseWork[d]
  BY <1>1, WorkRows
<1>3. /\ crossed \subseteq crossed'
      /\ w.supplier \notin crossed' => \A d \in Desks : ~Removing(d, w.supplier)
  BY DEF Enter, Cross
<1>4. ASSUME NEW s \in Suppliers PROVE RemovedIsOut(s)'
  <2> SUFFICES ASSUME Leaving(s)', s \notin crossed'
               PROVE  /\ \A i \in Invoices : invoices[i].supplier # s
                      /\ \A p \in Payments : payments[p].supplier # s
                      /\ \A d \in Desks : ~Entering(d, s)'
    BY <1>1 DEF RemovedIsOut
  <2>1. Leaving(s)
    BY <1>1, <1>2 DEF Leaving, Removing
  <2>2. /\ \A i \in Invoices : invoices[i].supplier # s
        /\ \A p \in Payments : payments[p].supplier # s
        /\ \A d \in Desks : ~Entering(d, s)
    BY <1>3, <2>1 DEF PurchasesInv, RemovedInv, RemovedIsOut
  <2>3. w.supplier # s
    BY <1>3, <2>1, <2>2 DEF Leaving
  <2> QED
    BY <1>2, <2>2, <2>3 DEF Entering
<1> QED
  BY <1>2, <1>4 DEF PurchasesInv, RemovedInv

LEMMA StepBegin ==
  ASSUME PurchasesInv, NEW r \in Desks, NEW i \in Invoices, NEW s \in Suppliers,
         NEW line \in PurchaseLine, BeginCreate(r, i, s, line) \/ BeginUpdate(r, i, s, line)
  PROVE  PurchasesInv'
<1>1. PICK w \in WorkRow :
        /\ Enter(r, w) /\ w.do \in {"create", "update"}
        /\ w.document = i /\ w.supplier = s /\ w.line = line
  BY DEF BeginCreate, BeginUpdate, WorkRow
<1>2. suppliers[s] # "removed" \/ \E j \in Invoices : invoices[j].supplier = s
  BY DEF BeginCreate, BeginUpdate, Active
<1> QED
  BY <1>1, <1>2, StepEnter

LEMMA StepBeginPay ==
  ASSUME PurchasesInv, NEW r \in Desks, NEW s \in Suppliers, BeginPay(r, s)
  PROVE  PurchasesInv'
<1>1. PICK w \in WorkRow : Enter(r, w) /\ w.do = "pay" /\ w.supplier = s
  BY SupplierWork DEF BeginPay
<1>2. suppliers[s] # "removed"
  BY DEF BeginPay, Active
<1> QED
  BY <1>1, <1>2, StepEnter

LEMMA StepBeginRemove ==
  ASSUME PurchasesInv, NEW r \in Desks, NEW s \in Suppliers, BeginRemove(r, s)
  PROVE  PurchasesInv'
<1>1. PICK w \in WorkRow : /\ purchaseWork' = [purchaseWork EXCEPT ![r] = w]
                           /\ w.do = "remove" /\ w.supplier = s
  BY SupplierWork DEF BeginRemove
<1>2. /\ invoices' = invoices /\ returns' = returns /\ payments' = payments /\ goods' = goods
      /\ suppliers' = suppliers
  BY DEF BeginRemove
<1>3. /\ PurchaseRows' /\ BooksInv' /\ purchaseWork'[r] = w
      /\ \A d \in Desks \ {r} : purchaseWork'[d] = purchaseWork[d]
  BY <1>1, <1>2, WorkRows
<1>4. crossed \subseteq crossed' /\ (s \notin crossed' => \A d \in Desks : ~Entering(d, s))
  BY DEF BeginRemove, Cross
<1>5. \A i \in Invoices : invoices[i].supplier # s
  BY DEF BeginRemove, DocumentsOf
<1>6. \A p \in Payments : payments[p].supplier # s
  BY DEF BeginRemove, DocumentsOf
<1>7. ASSUME NEW t \in Suppliers PROVE RemovedIsOut(t)'
  <2>1. \A d \in Desks : Entering(d, t)' => Entering(d, t)
    BY <1>1, <1>3 DEF Entering
  <2>2. CASE t = s
    BY <1>2, <1>4, <1>5, <1>6, <2>1, <2>2 DEF RemovedIsOut
  <2>3. CASE t # s
    <3>1. Leaving(t)' => Leaving(t)
      BY <1>1, <1>2, <1>3, <2>3 DEF Leaving, Removing
    <3> QED
      BY <1>2, <1>4, <2>1, <3>1 DEF PurchasesInv, RemovedInv, RemovedIsOut
  <2> QED
    BY <2>2, <2>3
<1> QED
  BY <1>3, <1>7 DEF PurchasesInv, RemovedInv

LEMMA StepCommitRemove ==
  ASSUME PurchasesInv, NEW r \in Desks, CommitRemove(r)
  PROVE  PurchasesInv'
<1>1. PICK s \in Suppliers : s = purchaseWork[r].supplier
  BY DEF CommitRemove, PurchasesInv, PurchaseRows
<1>2. /\ invoices' = invoices /\ returns' = returns /\ payments' = payments /\ goods' = goods
      /\ crossed' = crossed /\ suppliers' = [suppliers EXCEPT ![s] = "removed"]
      /\ purchaseWork' = [purchaseWork EXCEPT ![r] = NoWork] /\ Removing(r, s)
  BY <1>1 DEF CommitRemove, Leave, Removing
<1>3. /\ purchaseWork' \in [Desks -> WorkRow] /\ purchaseWork'[r] = NoWork
      /\ \A d \in Desks \ {r} : purchaseWork'[d] = purchaseWork[d]
  BY <1>2, NoWorkIsARow DEF PurchasesInv, PurchaseRows
<1>4. PurchaseRows'
  BY <1>2, <1>3, NoWorkIsARow DEF PurchasesInv, PurchaseRows, PurchasesTypeOK
<1>5. BooksInv'
  BY <1>2, BooksStay DEF PurchasesInv
<1>6. RemovedInv'
  <2>1. \A t \in Suppliers : Leaving(t)' => Leaving(t)
    BY <1>2, <1>3, NoWorkIsARow DEF Leaving, Removing, PurchasesInv, PurchaseRows
  <2>2. \A d \in Desks, t \in Suppliers : Entering(d, t)' => Entering(d, t)
    BY <1>3, NoWorkIsARow DEF Entering
  <2>3. \A i \in Invoices : Known(invoices'[i].supplier)
    BY <1>2 DEF Known
  <2>4. \A p \in Payments : Known(payments'[p].supplier)
    BY <1>2 DEF Known
  <2> QED
    BY <1>2, <2>1, <2>2, <2>3, <2>4, RemovedStay DEF PurchasesInv
<1> QED
  BY <1>4, <1>5, <1>6 DEF PurchasesInv

(* The request is done with: what it leaves to others *)
LEMMA LeaveWork ==
  ASSUME PurchasesInv, NEW r \in Desks, Leave(r), UNCHANGED <<suppliers, crossed>>,
         \A i \in Invoices : Known(invoices'[i].supplier),
         \A p \in Payments : Known(payments'[p].supplier)
  PROVE  /\ RemovedInv' /\ purchaseWork' \in [Desks -> WorkRow]
         /\ \A d \in Desks :
              /\ purchaseWork'[d].do # "none" => purchaseWork'[d].supplier \in Suppliers
              /\ purchaseWork'[d].do \in {"create", "update"} =>
                   purchaseWork'[d].document \in Invoices /\ purchaseWork'[d].line \in PurchaseLine
<1>1. /\ purchaseWork' \in [Desks -> WorkRow] /\ purchaseWork'[r] = NoWork
      /\ \A d \in Desks \ {r} : purchaseWork'[d] = purchaseWork[d]
  BY NoWorkIsARow DEF PurchasesInv, PurchaseRows, Leave
<1>2. \A t \in Suppliers : Leaving(t)' => Leaving(t)
  BY <1>1, NoWorkIsARow DEF Leaving, Removing
<1>3. \A d \in Desks, t \in Suppliers : Entering(d, t)' => Entering(d, t)
  BY <1>1, NoWorkIsARow DEF Entering
<1>4. RemovedInv'
  BY <1>2, <1>3, RemovedStay DEF PurchasesInv
<1> QED
  BY <1>1, <1>4, NoWorkIsARow DEF PurchasesInv, PurchaseRows

LEMMA StepGiveUp ==
  ASSUME PurchasesInv, NEW r \in Desks, GiveUp(r)
  PROVE  PurchasesInv'
<1>1. Leave(r) /\ UNCHANGED <<suppliers, invoices, returns, payments, goods, crossed>>
  BY DEF GiveUp
<1>2. (\A i \in Invoices : Known(invoices'[i].supplier))
      /\ \A p \in Payments : Known(payments'[p].supplier)
  BY <1>1 DEF Known
<1>3. PurchaseRows' /\ BooksInv'
  BY <1>1, NoWorkIsARow, WorkRows DEF Leave
<1>4. RemovedInv'
  BY <1>1, <1>2, LeaveWork
<1> QED
  BY <1>3, <1>4 DEF PurchasesInv

(* An invoice that changes, its fields given *)
LEMMA InvoiceRow ==
  ASSUME PurchasesInv, NEW i \in Invoices,
         invoices'[i].status \in {"draft", "posted", "cancelled"},
         invoices'[i].supplier \in Suppliers, invoices'[i].line \in PurchaseLine,
         invoices'[i].returnedQuantity \in Nat, invoices'[i].returnedAmount \in Nat,
         invoices'[i].paidAmount \in Nat,
         NEW d, invoices' = [invoices EXCEPT ![i] = d],
         d = [status |-> d.status, supplier |-> d.supplier, line |-> d.line,
              returnedQuantity |-> d.returnedQuantity, returnedAmount |-> d.returnedAmount,
              paidAmount |-> d.paidAmount]
  PROVE  /\ invoices' \in [Invoices -> PurchaseInvoice]
         /\ \A j \in Invoices \ {i} : invoices'[j] = invoices[j]
<1>1. invoices \in [Invoices -> PurchaseInvoice] /\ invoices'[i] = d
  BY DEF PurchasesInv, PurchaseRows, PurchasesTypeOK
<1>2. d \in PurchaseInvoice
  BY <1>1 DEF PurchaseInvoice
<1> QED
  BY <1>1, <1>2

LEMMA StepCommitCreate ==
  ASSUME PurchasesInv, NEW r \in Desks, CommitCreate(r)
  PROVE  PurchasesInv'
<1>1. PICK i \in Invoices, s \in Suppliers, line \in PurchaseLine :
        /\ i = purchaseWork[r].document /\ s = purchaseWork[r].supplier
        /\ line = purchaseWork[r].line
  BY DEF CommitCreate, PurchasesInv, PurchaseRows
<1>2. PICK d : d = [NewInvoice EXCEPT !.status = "draft", !.supplier = s, !.line = line]
  OBVIOUS
<1>3. /\ d.status = "draft" /\ d.supplier = s /\ d.line = line /\ d.returnedQuantity = 0
      /\ d.returnedAmount = 0 /\ d.paidAmount = 0
      /\ d = [status |-> d.status, supplier |-> d.supplier, line |-> d.line,
              returnedQuantity |-> d.returnedQuantity, returnedAmount |-> d.returnedAmount,
              paidAmount |-> d.paidAmount]
  <2>1. PICK n \in PurchaseInvoice : n = NewInvoice
    BY DEF NewInvoice, PurchaseInvoice
  <2>2. n.returnedQuantity = 0 /\ n.returnedAmount = 0 /\ n.paidAmount = 0
    BY <2>1 DEF NewInvoice
  <2> QED
    BY <1>2, <2>1, <2>2 DEF PurchaseInvoice
<1>4. /\ invoices[i].status = "none" /\ invoices' = [invoices EXCEPT ![i] = d] /\ Leave(r)
      /\ suppliers' = suppliers /\ returns' = returns /\ payments' = payments
      /\ goods' = goods /\ crossed' = crossed /\ Entering(r, s)
  BY <1>1, <1>2 DEF CommitCreate, Entering
<1>5. invoices'[i] = d /\ RowFields /\ BooksInv
  BY <1>4, FieldTypes DEF PurchasesInv, PurchaseRows, PurchasesTypeOK
<1>6. /\ invoices' \in [Invoices -> PurchaseInvoice]
      /\ \A j \in Invoices \ {i} : invoices'[j] = invoices[j]
  <2>1. /\ invoices'[i].status \in {"draft", "posted", "cancelled"}
        /\ invoices'[i].supplier \in Suppliers /\ invoices'[i].line \in PurchaseLine
        /\ invoices'[i].returnedQuantity \in Nat /\ invoices'[i].returnedAmount \in Nat
        /\ invoices'[i].paidAmount \in Nat
    BY <1>3, <1>5
  <2> QED
    BY <1>3, <1>4, <2>1, InvoiceRow
<1>7. \A j \in Invoices : Known(invoices'[j].supplier)
  BY <1>3, <1>4, <1>5, <1>6 DEF Known
<1>8. \A p \in Payments : Known(payments'[p].supplier)
  BY <1>4 DEF Known
<1>9. PurchaseRows' /\ RemovedInv'
  <2>1. /\ RemovedInv' /\ purchaseWork' \in [Desks -> WorkRow]
        /\ \A e \in Desks :
             /\ purchaseWork'[e].do # "none" => purchaseWork'[e].supplier \in Suppliers
             /\ purchaseWork'[e].do \in {"create", "update"} =>
                  purchaseWork'[e].document \in Invoices /\ purchaseWork'[e].line \in PurchaseLine
    BY <1>4, <1>7, <1>8, LeaveWork
  <2>2. \A j \in Invoices : invoices'[j].status # "none" =>
          invoices'[j].supplier \in Suppliers /\ invoices'[j].line \in PurchaseLine
    BY <1>3, <1>5, <1>6 DEF PurchasesInv, PurchaseRows
  <2> QED
    BY <1>4, <1>6, <2>1, <2>2 DEF PurchasesInv, PurchaseRows, PurchasesTypeOK
<1>10. BooksInv'
  <2>1. /\ invoices[i].returnedQuantity = 0 /\ invoices[i].returnedAmount = 0
        /\ invoices[i].paidAmount = 0 /\ goods[i] = 0
    BY <1>4, <1>5 DEF BooksInv, InvoiceStage, InvoiceBooks, RowFields
  <2>2. InvoiceStage(i)'
    BY <1>3, <1>5 DEF InvoiceStage
  <2> QED
    BY <1>3, <1>4, <1>5, <1>6, <1>9, <2>1, <2>2, PlainInvoiceChanges
<1> QED
  BY <1>9, <1>10 DEF PurchasesInv

LEMMA StepCommitUpdate ==
  ASSUME PurchasesInv, NEW r \in Desks, CommitUpdate(r)
  PROVE  PurchasesInv'
<1>1. PICK i \in Invoices, s \in Suppliers, line \in PurchaseLine :
        /\ i = purchaseWork[r].document /\ s = purchaseWork[r].supplier
        /\ line = purchaseWork[r].line
  BY DEF CommitUpdate, PurchasesInv, PurchaseRows
<1>2. PICK d : d = [invoices[i] EXCEPT !.supplier = s, !.line = line]
  OBVIOUS
<1>3. /\ invoices[i] \in PurchaseInvoice /\ RowFields /\ BooksInv
      /\ invoices \in [Invoices -> PurchaseInvoice]
  BY FieldTypes DEF PurchasesInv, PurchaseRows, PurchasesTypeOK
<1>4. /\ invoices[i].status = "draft" /\ Leave(r)
      /\ suppliers' = suppliers /\ returns' = returns /\ payments' = payments
      /\ goods' = goods /\ crossed' = crossed /\ Entering(r, s)
  BY <1>1 DEF CommitUpdate, Entering
<1>5. invoices' = [invoices EXCEPT ![i] = d]
  BY <1>1, <1>2, <1>3 DEF CommitUpdate
<1>6. /\ d.status = "draft" /\ d.supplier = s /\ d.line = line
      /\ d.returnedQuantity = invoices[i].returnedQuantity
      /\ d.returnedAmount = invoices[i].returnedAmount
      /\ d.paidAmount = invoices[i].paidAmount
      /\ d = [status |-> d.status, supplier |-> d.supplier, line |-> d.line,
              returnedQuantity |-> d.returnedQuantity, returnedAmount |-> d.returnedAmount,
              paidAmount |-> d.paidAmount]
  BY <1>2, <1>3, <1>4 DEF PurchaseInvoice
<1>7. invoices'[i] = d
  BY <1>3, <1>5
<1>8. /\ invoices' \in [Invoices -> PurchaseInvoice]
      /\ \A j \in Invoices \ {i} : invoices'[j] = invoices[j]
  BY <1>3, <1>5, <1>6, <1>7, InvoiceRow DEF RowFields
<1>9. \A j \in Invoices : Known(invoices'[j].supplier)
  BY <1>4, <1>6, <1>7, <1>8 DEF Known
<1>10. \A p \in Payments : Known(payments'[p].supplier)
  BY <1>4 DEF Known
<1>11. PurchaseRows' /\ RemovedInv'
  <2>1. /\ RemovedInv' /\ purchaseWork' \in [Desks -> WorkRow]
        /\ \A e \in Desks :
             /\ purchaseWork'[e].do # "none" => purchaseWork'[e].supplier \in Suppliers
             /\ purchaseWork'[e].do \in {"create", "update"} =>
                  purchaseWork'[e].document \in Invoices /\ purchaseWork'[e].line \in PurchaseLine
    BY <1>4, <1>9, <1>10, LeaveWork
  <2>2. \A j \in Invoices : invoices'[j].status # "none" =>
          invoices'[j].supplier \in Suppliers /\ invoices'[j].line \in PurchaseLine
    BY <1>6, <1>7, <1>8 DEF PurchasesInv, PurchaseRows
  <2> QED
    BY <1>4, <1>8, <2>1, <2>2 DEF PurchasesInv, PurchaseRows, PurchasesTypeOK
<1>12. BooksInv'
  <2>1. /\ invoices[i].returnedQuantity = 0 /\ invoices[i].returnedAmount = 0
        /\ invoices[i].paidAmount = 0 /\ goods[i] = 0
    BY <1>3, <1>4 DEF BooksInv, InvoiceStage, InvoiceBooks, RowFields
  <2>2. InvoiceStage(i)'
    BY <1>6, <1>7, <2>1 DEF InvoiceStage
  <2> QED
    BY <1>4, <1>6, <1>7, <1>8, <1>11, <2>1, <2>2, PlainInvoiceChanges
<1> QED
  BY <1>11, <1>12 DEF PurchasesInv

(* .. and when no request moves *)
LEMMA WorkStays ==
  ASSUME PurchasesInv, UNCHANGED <<suppliers, purchaseWork, crossed>>,
         \A i \in Invoices : Known(invoices'[i].supplier),
         \A p \in Payments : Known(payments'[p].supplier)
  PROVE  RemovedInv'
<1>1. \A s \in Suppliers : Leaving(s)' => Leaving(s)
  BY DEF Leaving, Removing
<1>2. \A r \in Desks, s \in Suppliers : Entering(r, s)' => Entering(r, s)
  BY DEF Entering
<1> QED
  BY <1>1, <1>2, RemovedStay DEF PurchasesInv

LEMMA StepStatus ==
  ASSUME PurchasesInv, NEW i \in Invoices, NEW state \in {"posted", "cancelled"},
         invoices' = [invoices EXCEPT ![i].status = state],
         goods' \in [Invoices -> Int], \A j \in Invoices \ {i} : goods'[j] = goods[j],
         goods'[i] = (IF state = "posted" THEN invoices[i].line.quantity ELSE 0)
                       - invoices[i].returnedQuantity,
         invoices[i].status \in {"draft", "posted"},
         invoices[i].status = "posted" => state = "cancelled",
         invoices[i].paidAmount = 0, invoices[i].returnedAmount = 0,
         UNCHANGED <<suppliers, returns, payments, purchaseWork, crossed>>
  PROVE  PurchasesInv'
<1>1. PICK d : d = [invoices[i] EXCEPT !.status = state]
  OBVIOUS
<1>2. /\ invoices[i] \in PurchaseInvoice /\ RowFields /\ BooksInv
      /\ invoices \in [Invoices -> PurchaseInvoice]
  BY FieldTypes DEF PurchasesInv, PurchaseRows, PurchasesTypeOK
<1>3. /\ d \in PurchaseInvoice /\ d.status = state /\ d.supplier = invoices[i].supplier
      /\ d.line = invoices[i].line /\ d.returnedQuantity = invoices[i].returnedQuantity
      /\ d.returnedAmount = 0 /\ d.paidAmount = 0
  BY <1>1, <1>2 DEF PurchaseInvoice
<1>4. /\ invoices' \in [Invoices -> PurchaseInvoice] /\ invoices'[i] = d
      /\ \A j \in Invoices \ {i} : invoices'[j] = invoices[j]
  BY <1>1, <1>2, <1>3
<1>5. PurchaseRows'
  <2>1. \A j \in Invoices : invoices'[j].status # "none" =>
          invoices'[j].supplier \in Suppliers /\ invoices'[j].line \in PurchaseLine
    BY <1>3, <1>4 DEF PurchasesInv, PurchaseRows
  <2> QED
    BY <1>4, <2>1 DEF PurchasesInv, PurchaseRows, PurchasesTypeOK
<1>6. RemovedInv'
  <2>1. \A j \in Invoices : Known(invoices'[j].supplier)
    BY <1>3, <1>4 DEF Known
  <2>2. \A p \in Payments : Known(payments'[p].supplier)
    BY DEF Known
  <2> QED
    BY <2>1, <2>2, WorkStays
<1>7. BooksInv'
  <2>1. InvoiceStage(i)
    BY <1>2 DEF BooksInv
  <2>2. /\ invoices[i].line.quantity \in Nat /\ invoices[i].returnedQuantity \in Nat
    BY <1>2 DEF RowFields
  <2>3. invoices[i].returnedQuantity <= invoices[i].line.quantity
    BY <2>1, <2>2 DEF InvoiceStage
  <2>4. InvoiceStage(i)'
    BY <1>3, <1>4, <2>1, <2>3 DEF InvoiceStage
  <2> QED
    BY <1>3, <1>4, <1>5, <2>4, PlainInvoiceChanges
<1> QED
  BY <1>5, <1>6, <1>7 DEF PurchasesInv

LEMMA StepPost ==
  ASSUME PurchasesInv, NEW i \in Invoices, Post(i)
  PROVE  PurchasesInv'
<1>1. RowFields /\ InvoiceStage(i) /\ InvoiceBooks(i) /\ goods \in [Invoices -> Int]
  BY FieldTypes DEF PurchasesInv, BooksInv, PurchaseRows
<1>2. /\ invoices[i].returnedQuantity = 0 /\ invoices[i].returnedAmount = 0
      /\ invoices[i].paidAmount = 0 /\ goods[i] = 0 /\ invoices[i].line.quantity \in Nat
  BY <1>1 DEF Post, InvoiceStage, InvoiceBooks, RowFields
<1>3. /\ goods' \in [Invoices -> Int] /\ goods'[i] = invoices[i].line.quantity - invoices[i].returnedQuantity
      /\ \A j \in Invoices \ {i} : goods'[j] = goods[j]
  BY <1>1, <1>2 DEF Post
<1>4. /\ invoices' = [invoices EXCEPT ![i].status = "posted"] /\ invoices[i].status = "draft"
      /\ UNCHANGED <<suppliers, returns, payments, purchaseWork, crossed>>
  BY DEF Post
<1> QED
  BY <1>2, <1>3, <1>4, StepStatus

LEMMA StepCancel ==
  ASSUME PurchasesInv, NEW i \in Invoices, Cancel(i)
  PROVE  PurchasesInv'
<1>1. RowFields /\ InvoiceStage(i) /\ InvoiceBooks(i) /\ goods \in [Invoices -> Int]
  BY FieldTypes DEF PurchasesInv, BooksInv, PurchaseRows
<1>2. /\ invoices[i].status \in {"draft", "posted"}
      /\ invoices[i].returnedAmount = 0 /\ invoices[i].paidAmount = 0
      /\ invoices[i].line.quantity \in Nat /\ invoices[i].returnedQuantity \in Nat
  BY <1>1 DEF Cancel, InvoiceStage, RowFields
<1>3. /\ goods' \in [Invoices -> Int] /\ goods'[i] = 0 - invoices[i].returnedQuantity
      /\ \A j \in Invoices \ {i} : goods'[j] = goods[j]
  <2>1. CASE invoices[i].status = "draft"
    <3>1. goods' = goods
      BY <2>1 DEF Cancel
    <3> QED
      BY <1>1, <2>1, <3>1 DEF InvoiceBooks
  <2>2. CASE invoices[i].status = "posted"
    <3>1. goods' = [goods EXCEPT ![i] = @ - invoices[i].line.quantity]
      BY <2>2 DEF Cancel
    <3>2. goods[i] = invoices[i].line.quantity - invoices[i].returnedQuantity
      BY <1>1, <2>2 DEF InvoiceBooks
    <3> QED
      BY <1>1, <1>2, <3>1, <3>2
  <2> QED
    BY <1>2, <2>1, <2>2
<1>4. /\ invoices' = [invoices EXCEPT ![i].status = "cancelled"]
      /\ UNCHANGED <<suppliers, returns, payments, purchaseWork, crossed>>
  BY DEF Cancel
<1> QED
  BY <1>2, <1>3, <1>4, StepStatus

(* The two sums of what is owed move together: what a step books on an invoice is *)
(* what its return or its payment brings                                            *)
LEMMA PayableCarried ==
  ASSUME RowFields, RowFields', NEW s \in Suppliers, PayableRight(s),
         NEW booked \in Int, NEW back \in Int, NEW paid \in Int, booked = back + paid,
         Total(Owed(s))' - Total(LeftOf(s))' = Total(Owed(s)) - Total(LeftOf(s)) + booked,
         Total(BackTo(s))' = Total(BackTo(s)) + back,
         Total(PaidTo(s))' - Total(OnAccount(s))' = Total(PaidTo(s)) - Total(OnAccount(s)) + paid
  PROVE  PayableRight(s)'
<1>1. PurchaseSums /\ PurchaseSums'
  BY PurchaseSumTypes, PurchaseSumTypesNext
<1>2. /\ Total(Owed(s)) \in Int /\ Total(LeftOf(s)) \in Int /\ Total(BackTo(s)) \in Int
      /\ Total(PaidTo(s)) \in Int /\ Total(OnAccount(s)) \in Int
  BY <1>1, PurchaseTotals
<1>3. /\ Owed(s)' \in [Invoices -> Int] /\ LeftOf(s)' \in [Invoices -> Int]
      /\ PaidTo(s)' \in [Payments -> Int] /\ OnAccount(s)' \in [Payments -> Int]
  BY <1>1 DEF PurchaseSums
<1>4. Total(Owed(s))' \in Int /\ Total(LeftOf(s))' \in Int
  BY <1>3, TotalType, PurchasingAssumption
<1>5. Total(PaidTo(s))' \in Int /\ Total(OnAccount(s))' \in Int
  BY <1>3, TotalType, PurchasingAssumption
<1> QED
  BY <1>2, <1>4, <1>5 DEF PayableRight

(* A payment that is made, on an invoice or on account *)
LEMMA PaymentRow ==
  ASSUME PurchasesInv, NEW p \in Payments, NEW s \in Suppliers,
         NEW i \in Invoices \cup {NoDocument}, NEW amount \in Amounts, Payment(p, s, i, amount)
  PROVE  /\ payments[p].status = "none" /\ payments' \in [Payments -> SupplierPayment]
         /\ payments'[p].status = "posted" /\ payments'[p].supplier = s
         /\ payments'[p].invoice = i /\ payments'[p].amount = amount
         /\ amount \in Nat /\ amount > 0
         /\ \A q \in Payments \ {p} : payments'[q] = payments[q]
<1>1. amount \in Nat /\ amount > 0
  BY PurchasingAssumption
<1>2. payments \in [Payments -> SupplierPayment]
  BY DEF PurchasesInv, PurchaseRows, PurchasesTypeOK
<1>3. PICK d : d = [status |-> "posted", supplier |-> s, invoice |-> i, amount |-> amount]
  OBVIOUS
<1>4. d \in SupplierPayment
  BY <1>1, <1>3 DEF SupplierPayment
<1>5. payments' = [payments EXCEPT ![p] = d] /\ payments[p].status = "none"
  BY <1>3 DEF Payment
<1> QED
  BY <1>1, <1>2, <1>3, <1>4, <1>5

LEMMA StepPayOnAccount ==
  ASSUME PurchasesInv, NEW r \in Desks, NEW p \in Payments, NEW amount \in Amounts,
         PayOnAccount(r, p, amount)
  PROVE  PurchasesInv'
<1>1. PICK s \in Suppliers : s = purchaseWork[r].supplier
  BY DEF PayOnAccount, PurchasesInv, PurchaseRows
<1>2. /\ Payment(p, s, NoDocument, amount) /\ Leave(r) /\ Entering(r, s)
      /\ suppliers' = suppliers /\ invoices' = invoices /\ returns' = returns
      /\ goods' = goods /\ crossed' = crossed
  BY <1>1 DEF PayOnAccount, Entering
<1>3. /\ payments[p].status = "none" /\ payments' \in [Payments -> SupplierPayment]
      /\ payments'[p].status = "posted" /\ payments'[p].supplier = s
      /\ payments'[p].invoice = NoDocument /\ payments'[p].amount = amount
      /\ amount \in Nat /\ amount > 0
      /\ \A q \in Payments \ {p} : payments'[q] = payments[q]
  BY <1>2, PaymentRow
<1>4. (\A j \in Invoices : Known(invoices'[j].supplier))
      /\ \A q \in Payments : Known(payments'[q].supplier)
  BY <1>2, <1>3 DEF Known
<1>5. PurchaseRows' /\ RemovedInv'
  <2>1. /\ RemovedInv' /\ purchaseWork' \in [Desks -> WorkRow]
        /\ \A e \in Desks :
             /\ purchaseWork'[e].do # "none" => purchaseWork'[e].supplier \in Suppliers
             /\ purchaseWork'[e].do \in {"create", "update"} =>
                  purchaseWork'[e].document \in Invoices /\ purchaseWork'[e].line \in PurchaseLine
    BY <1>2, <1>4, LeaveWork
  <2> QED
    BY <1>2, <1>3, <2>1 DEF PurchasesInv, PurchaseRows, PurchasesTypeOK
<1>6. RowFields /\ RowFields' /\ BooksInv
  BY <1>5, FieldTypes, FieldTypesNext DEF PurchasesInv
<1>7. SuppliersKept
  BY <1>2 DEF SuppliersKept
<1>8. ASSUME NEW i \in Invoices PROVE InvoiceBooks(i)' /\ InvoiceStage(i)'
  <2>1. InvoiceBooks(i) /\ InvoiceStage(i)
    BY <1>6 DEF BooksInv
  <2>2. Total(PaidOn(i))' = Total(PaidOn(i))
    <3>1. PaidOn(i)[p] = 0 /\ PaidOn(i)'[p] = 0
      BY <1>3, PurchasingAssumption DEF PaidOn
    <3>2. Total(PaidOn(i)) \in Int
      BY <1>6, TotalType, PurchaseSumTypes, PurchasingAssumption DEF PurchaseSums
    <3>3. Total(PaidOn(i))' = Total(PaidOn(i)) - PaidOn(i)[p] + PaidOn(i)'[p]
      BY <1>3, <1>6, OnePaymentOn
    <3> QED
      BY <3>1, <3>2, <3>3
  <2>3. Total(BackOf(i))' = Total(BackOf(i))
    BY <1>2, <1>6, <1>7, ReturnsStay
  <2> QED
    BY <1>2, <2>1, <2>2, <2>3 DEF InvoiceBooks, InvoiceStage
<1>9. ASSUME NEW x \in Returns PROVE ReturnInOrder(x)'
  BY <1>2, <1>6 DEF BooksInv, ReturnInOrder
<1>10. ASSUME NEW q \in Payments PROVE PaymentInOrder(q)'
  <2>1. PaymentInOrder(q)
    BY <1>6 DEF BooksInv
  <2>2. CASE q = p
    BY <1>3, <2>2 DEF PaymentInOrder
  <2>3. CASE q # p
    BY <1>2, <1>3, <2>1, <2>3 DEF PaymentInOrder, Standing
  <2> QED
    BY <2>2, <2>3
<1>11. ASSUME NEW t \in Suppliers PROVE PayableRight(t)'
  <2>1. PayableRight(t)
    BY <1>6 DEF BooksInv
  <2>2. /\ Total(Owed(t))' = Total(Owed(t)) /\ Total(LeftOf(t))' = Total(LeftOf(t))
        /\ Total(BackTo(t))' = Total(BackTo(t))
    BY <1>2, <1>6, <1>7, InvoicesStay, ReturnsStay
  <2>3. OnInvoice(p, t) = 0 /\ OnInvoice(p, t)' = 0
    BY <1>3 DEF OnInvoice, Paid
  <2>4. Total(PaidTo(t))' - Total(OnAccount(t))'
          = Total(PaidTo(t)) - Total(OnAccount(t)) - OnInvoice(p, t) + OnInvoice(p, t)'
    BY <1>3, <1>6, OnePayment
  <2>5. /\ Total(Owed(t)) \in Int /\ Total(LeftOf(t)) \in Int /\ Total(BackTo(t)) \in Int
        /\ Total(PaidTo(t)) \in Int /\ Total(OnAccount(t)) \in Int
    BY <1>6, PurchaseSumTypes, PurchaseTotals
  <2>6. Total(Owed(t))' - Total(LeftOf(t))' = Total(Owed(t)) - Total(LeftOf(t)) + 0
    BY <2>2, <2>5
  <2>7. Total(BackTo(t))' = Total(BackTo(t)) + 0
    BY <2>2, <2>5
  <2>8. Total(PaidTo(t))' - Total(OnAccount(t))' = Total(PaidTo(t)) - Total(OnAccount(t)) + 0
    BY <2>3, <2>4, <2>5
  <2> QED
    BY <1>6, <2>1, <2>6, <2>7, <2>8, PayableCarried
<1> QED
  BY <1>5, <1>8, <1>9, <1>10, <1>11 DEF PurchasesInv, BooksInv

(* An invoice and a payment on it change *)
LEMMA InvoicePaid ==
  ASSUME PurchasesInv, PurchaseRows', NEW i \in Invoices, NEW p \in Payments,
         NEW change \in Int,
         invoices[i].status = "posted",
         \A j \in Invoices \ {i} : invoices'[j] = invoices[j],
         /\ invoices'[i].status = "posted" /\ invoices'[i].supplier = invoices[i].supplier
         /\ invoices'[i].line = invoices[i].line
         /\ invoices'[i].returnedQuantity = invoices[i].returnedQuantity
         /\ invoices'[i].returnedAmount = invoices[i].returnedAmount
         /\ invoices'[i].paidAmount = invoices[i].paidAmount + change,
         \A q \in Payments \ {p} : payments'[q] = payments[q],
         \A j \in Invoices : PaidOn(j)'[p] = PaidOn(j)[p] + (IF j = i THEN change ELSE 0),
         \A s \in Suppliers :
           OnInvoice(p, s)' = OnInvoice(p, s) + (IF s = invoices[i].supplier THEN change ELSE 0),
         PaymentInOrder(p)',
         UNCHANGED <<returns, goods>>
  PROVE  BooksInv'
<1>1. /\ RowFields /\ RowFields' /\ BooksInv /\ returns' = returns /\ goods' = goods
  BY FieldTypes, FieldTypesNext DEF PurchasesInv
<1>2. SuppliersKept
  BY DEF SuppliersKept
<1>3. ASSUME NEW j \in Invoices PROVE InvoiceBooks(j)'
  <2>1. InvoiceBooks(j) /\ Total(BackOf(j))' = Total(BackOf(j))
    BY <1>1, <1>2, ReturnsStay DEF BooksInv
  <2>2. /\ Total(PaidOn(j))' = Total(PaidOn(j)) - PaidOn(j)[p] + PaidOn(j)'[p]
        /\ PaidOn(j)[p] \in Nat /\ PaidOn(j)'[p] \in Nat
    BY <1>1, OnePaymentOn
  <2>3. Total(PaidOn(j)) \in Nat
    BY <1>1, TotalNatural, PurchaseSumTypes, PurchasingAssumption DEF PurchaseSums
  <2>4. Total(PaidOn(j))' = Total(PaidOn(j)) + (IF j = i THEN change ELSE 0)
    BY <2>2, <2>3
  <2>5. CASE j = i
    BY <1>1, <2>1, <2>4, <2>5 DEF InvoiceBooks
  <2>6. CASE j # i
    <3>1. Total(PaidOn(j))' = Total(PaidOn(j))
      BY <2>3, <2>4, <2>6
    <3> QED
      BY <1>1, <2>1, <3>1, <2>6 DEF InvoiceBooks
  <2> QED
    BY <2>5, <2>6
<1>4. ASSUME NEW j \in Invoices PROVE InvoiceStage(j)'
  <2>1. InvoiceStage(j)
    BY <1>1 DEF BooksInv
  <2>2. CASE j = i
    BY <2>1, <2>2 DEF InvoiceStage
  <2>3. CASE j # i
    BY <2>1, <2>3 DEF InvoiceStage
  <2> QED
    BY <2>2, <2>3
<1>5. ASSUME NEW x \in Returns PROVE ReturnInOrder(x)'
  <2>1. ReturnInOrder(x)
    BY <1>1 DEF BooksInv
  <2> QED
    BY <1>1, <2>1 DEF ReturnInOrder
<1>6. ASSUME NEW q \in Payments PROVE PaymentInOrder(q)'
  <2>1. PaymentInOrder(q)
    BY <1>1 DEF BooksInv
  <2>2. payments[q].invoice \in Invoices \cup {NoDocument}
    BY <1>1 DEF RowFields
  <2>3. CASE q = p
    BY <2>3
  <2>4. CASE q # p
    BY <2>1, <2>2, <2>4 DEF PaymentInOrder, Standing
  <2> QED
    BY <2>3, <2>4
<1>7. ASSUME NEW s \in Suppliers PROVE PayableRight(s)'
  <2> DEFINE c == IF s = invoices[i].supplier THEN change ELSE 0
  <2>1. PayableRight(s) /\ c \in Int
    BY <1>1 DEF BooksInv
  <2>2. /\ Total(Owed(s)) \in Int /\ Total(LeftOf(s)) \in Int /\ Total(BackTo(s)) \in Int
        /\ Total(PaidTo(s)) \in Int /\ Total(OnAccount(s)) \in Int
    BY <1>1, PurchaseSumTypes, PurchaseTotals
  <2>3. Booked(i, s) \in Int /\ Booked(i, s)' = Booked(i, s) + c
    BY <1>1 DEF Booked, Standing, RowFields
  <2>4. OnInvoice(p, s) \in Int /\ OnInvoice(p, s)' = OnInvoice(p, s) + c
    BY <1>1 DEF OnInvoice, RowFields
  <2>5. Total(Owed(s))' - Total(LeftOf(s))'
          = Total(Owed(s)) - Total(LeftOf(s)) - Booked(i, s) + Booked(i, s)'
    BY <1>1, OneInvoice
  <2>6. Total(PaidTo(s))' - Total(OnAccount(s))'
          = Total(PaidTo(s)) - Total(OnAccount(s)) - OnInvoice(p, s) + OnInvoice(p, s)'
    BY <1>1, OnePayment
  <2> HIDE DEF c
  <2>7. Total(Owed(s))' - Total(LeftOf(s))' = Total(Owed(s)) - Total(LeftOf(s)) + c
    BY <2>1, <2>2, <2>3, <2>5
  <2>8. Total(PaidTo(s))' - Total(OnAccount(s))' = Total(PaidTo(s)) - Total(OnAccount(s)) + c
    BY <2>1, <2>2, <2>4, <2>6
  <2>9. Total(BackTo(s))' = Total(BackTo(s)) + 0
    BY <1>1, <1>2, <2>2, ReturnsStay
  <2>10. c = 0 + c
    BY <2>1
  <2> QED
    BY <1>1, <2>1, <2>7, <2>8, <2>9, <2>10, PayableCarried
<1> QED
  BY <1>3, <1>4, <1>5, <1>6, <1>7 DEF BooksInv

LEMMA StepPay ==
  ASSUME PurchasesInv, NEW r \in Desks, NEW p \in Payments, NEW i \in Invoices,
         NEW amount \in Amounts, Pay(r, p, i, amount)
  PROVE  PurchasesInv'
<1>1. PICK s \in Suppliers : s = purchaseWork[r].supplier
  BY DEF Pay, PurchasesInv, PurchaseRows
<1>2. /\ Payment(p, s, i, amount) /\ Leave(r) /\ Entering(r, s) /\ Standing(i, s)
      /\ suppliers' = suppliers /\ returns' = returns
      /\ goods' = goods /\ crossed' = crossed
      /\ invoices' = [invoices EXCEPT ![i].paidAmount = @ + amount]
  BY <1>1 DEF Pay, Entering
<1>3. /\ payments[p].status = "none" /\ payments' \in [Payments -> SupplierPayment]
      /\ payments'[p].status = "posted" /\ payments'[p].supplier = s
      /\ payments'[p].invoice = i /\ payments'[p].amount = amount
      /\ amount \in Nat /\ amount > 0
      /\ \A q \in Payments \ {p} : payments'[q] = payments[q]
  BY <1>2, PaymentRow
<1>4. /\ invoices[i] \in PurchaseInvoice /\ RowFields /\ invoices[i].paidAmount \in Nat
      /\ invoices \in [Invoices -> PurchaseInvoice]
      /\ invoices[i].status = "posted" /\ invoices[i].supplier = s
  BY <1>2, FieldTypes DEF PurchasesInv, PurchaseRows, PurchasesTypeOK, RowFields, Standing
<1>5. PICK d : d = [invoices[i] EXCEPT !.paidAmount = @ + amount]
  OBVIOUS
<1>6. /\ d \in PurchaseInvoice /\ d.status = invoices[i].status
      /\ d.supplier = invoices[i].supplier
      /\ d.line = invoices[i].line /\ d.returnedQuantity = invoices[i].returnedQuantity
      /\ d.returnedAmount = invoices[i].returnedAmount
      /\ d.paidAmount = invoices[i].paidAmount + amount
  BY <1>3, <1>4, <1>5 DEF PurchaseInvoice
<1>7. /\ invoices' \in [Invoices -> PurchaseInvoice] /\ invoices'[i] = d
      /\ \A j \in Invoices \ {i} : invoices'[j] = invoices[j]
  BY <1>2, <1>4, <1>5, <1>6
<1>8. (\A j \in Invoices : Known(invoices'[j].supplier))
      /\ \A q \in Payments : Known(payments'[q].supplier)
  BY <1>2, <1>3, <1>6, <1>7 DEF Known
<1>9. PurchaseRows' /\ RemovedInv'
  <2>1. /\ RemovedInv' /\ purchaseWork' \in [Desks -> WorkRow]
        /\ \A e \in Desks :
             /\ purchaseWork'[e].do # "none" => purchaseWork'[e].supplier \in Suppliers
             /\ purchaseWork'[e].do \in {"create", "update"} =>
                  purchaseWork'[e].document \in Invoices /\ purchaseWork'[e].line \in PurchaseLine
    BY <1>2, <1>8, LeaveWork
  <2>2. \A j \in Invoices : invoices'[j].status # "none" =>
          invoices'[j].supplier \in Suppliers /\ invoices'[j].line \in PurchaseLine
    BY <1>6, <1>7 DEF PurchasesInv, PurchaseRows
  <2> QED
    BY <1>2, <1>3, <1>7, <2>1, <2>2 DEF PurchasesInv, PurchaseRows, PurchasesTypeOK
<1>10. BooksInv'
  <2>1. \A j \in Invoices : PaidOn(j)'[p] = PaidOn(j)[p] + (IF j = i THEN amount ELSE 0)
    BY <1>3 DEF PaidOn
  <2>2. \A t \in Suppliers :
          OnInvoice(p, t)' = OnInvoice(p, t) + (IF t = invoices[i].supplier THEN amount ELSE 0)
    BY <1>3, <1>4, PurchasingAssumption DEF OnInvoice, Paid
  <2>3. PaymentInOrder(p)'
    BY <1>3, <1>4, <1>6, <1>7 DEF PaymentInOrder, Standing
  <2>4. amount \in Int
    BY <1>3
  <2>5. /\ invoices'[i].status = "posted" /\ invoices'[i].supplier = invoices[i].supplier
        /\ invoices'[i].line = invoices[i].line
        /\ invoices'[i].returnedQuantity = invoices[i].returnedQuantity
        /\ invoices'[i].returnedAmount = invoices[i].returnedAmount
        /\ invoices'[i].paidAmount = invoices[i].paidAmount + amount
    BY <1>4, <1>6, <1>7
  <2> QED
    BY <1>2, <1>3, <1>4, <1>7, <1>9, <2>1, <2>2, <2>3, <2>4, <2>5, InvoicePaid
<1> QED
  BY <1>9, <1>10 DEF PurchasesInv

LEMMA StepCancelPayment ==
  ASSUME PurchasesInv, NEW p \in Payments, CancelPayment(p)
  PROVE  PurchasesInv'
<1>1. /\ RowFields /\ BooksInv /\ payments \in [Payments -> SupplierPayment]
      /\ payments[p] \in SupplierPayment
      /\ invoices \in [Invoices -> PurchaseInvoice]
  BY FieldTypes DEF PurchasesInv, PurchaseRows, PurchasesTypeOK
<1>2. PICK i, a : i = payments[p].invoice /\ a = payments[p].amount
  OBVIOUS
<1>3. /\ payments[p].status = "posted" /\ suppliers' = suppliers /\ returns' = returns
      /\ goods' = goods /\ purchaseWork' = purchaseWork /\ crossed' = crossed
      /\ payments' = [payments EXCEPT ![p].status = "cancelled"]
  BY DEF CancelPayment
<1>4. PICK d : d = [payments[p] EXCEPT !.status = "cancelled"]
  OBVIOUS
<1>5. d \in SupplierPayment /\ d.status = "cancelled" /\ d.supplier = payments[p].supplier
  BY <1>1, <1>4 DEF SupplierPayment
<1>6. /\ payments' \in [Payments -> SupplierPayment] /\ payments'[p] = d
      /\ \A q \in Payments \ {p} : payments'[q] = payments[q]
  BY <1>1, <1>3, <1>4, <1>5
<1>7. PICK s \in Suppliers : s = payments[p].supplier
  BY <1>1, <1>3 DEF BooksInv, PaymentInOrder
<1>8. a \in Nat /\ a > 0 /\ i \in Invoices \cup {NoDocument}
  BY <1>1, <1>2, <1>3 DEF RowFields, BooksInv, PaymentInOrder
<1>9. PaymentInOrder(p)'
  BY <1>5, <1>6 DEF PaymentInOrder
<1>10. CASE i = NoDocument
  <2>1. invoices' = invoices
    BY <1>2, <1>10 DEF CancelPayment
  <2>2. PurchaseRows'
    BY <1>3, <1>6, <2>1 DEF PurchasesInv, PurchaseRows, PurchasesTypeOK
  <2>3. RowFields' /\ SuppliersKept
    BY <2>1, <2>2, FieldTypesNext DEF SuppliersKept
  <2>4. ASSUME NEW j \in Invoices PROVE InvoiceBooks(j)' /\ InvoiceStage(j)'
    <3>1. InvoiceBooks(j) /\ InvoiceStage(j)
      BY <1>1 DEF BooksInv
    <3>2. Total(PaidOn(j))' = Total(PaidOn(j))
      <4>1. PaidOn(j)[p] = 0 /\ PaidOn(j)'[p] = 0
        BY <1>2, <1>5, <1>6, <1>10, PurchasingAssumption DEF PaidOn
      <4>2. Total(PaidOn(j)) \in Int
        BY <1>1, TotalType, PurchaseSumTypes, PurchasingAssumption DEF PurchaseSums
      <4>3. Total(PaidOn(j))' = Total(PaidOn(j)) - PaidOn(j)[p] + PaidOn(j)'[p]
        BY <1>1, <1>6, <2>3, OnePaymentOn
      <4> QED
        BY <4>1, <4>2, <4>3
    <3>3. Total(BackOf(j))' = Total(BackOf(j))
      BY <1>1, <1>3, <2>3, ReturnsStay
    <3> QED
      BY <1>3, <2>1, <3>1, <3>2, <3>3 DEF InvoiceBooks, InvoiceStage
  <2>5. ASSUME NEW x \in Returns PROVE ReturnInOrder(x)'
    BY <1>1, <1>3, <2>1 DEF BooksInv, ReturnInOrder
  <2>6. ASSUME NEW q \in Payments PROVE PaymentInOrder(q)'
    <3>1. CASE q = p
      BY <1>9, <3>1
    <3>2. CASE q # p
      BY <1>1, <1>6, <2>1, <3>2 DEF BooksInv, PaymentInOrder, Standing
    <3> QED
      BY <3>1, <3>2
  <2>7. ASSUME NEW t \in Suppliers PROVE PayableRight(t)'
    <3>1. PayableRight(t)
      BY <1>1 DEF BooksInv
    <3>2. /\ Total(Owed(t))' = Total(Owed(t)) /\ Total(LeftOf(t))' = Total(LeftOf(t))
          /\ Total(BackTo(t))' = Total(BackTo(t))
      BY <1>1, <1>3, <2>1, <2>3, InvoicesStay, ReturnsStay
    <3>3. OnInvoice(p, t) = 0 /\ OnInvoice(p, t)' = 0
      BY <1>2, <1>5, <1>6, <1>10 DEF OnInvoice, Paid
    <3>4. Total(PaidTo(t))' - Total(OnAccount(t))'
            = Total(PaidTo(t)) - Total(OnAccount(t)) - OnInvoice(p, t) + OnInvoice(p, t)'
      BY <1>1, <1>6, <2>3, OnePayment
    <3>5. /\ Total(Owed(t)) \in Int /\ Total(LeftOf(t)) \in Int /\ Total(BackTo(t)) \in Int
          /\ Total(PaidTo(t)) \in Int /\ Total(OnAccount(t)) \in Int
      BY <1>1, PurchaseSumTypes, PurchaseTotals
    <3>6. Total(Owed(t))' - Total(LeftOf(t))' = Total(Owed(t)) - Total(LeftOf(t)) + 0
      BY <3>2, <3>5
    <3>7. Total(BackTo(t))' = Total(BackTo(t)) + 0
      BY <3>2, <3>5
    <3>8. Total(PaidTo(t))' - Total(OnAccount(t))' = Total(PaidTo(t)) - Total(OnAccount(t)) + 0
      BY <3>3, <3>4, <3>5
    <3> QED
      BY <1>1, <2>3, <3>1, <3>6, <3>7, <3>8, PayableCarried
  <2>8. RemovedInv'
    <3>1. (\A j \in Invoices : Known(invoices'[j].supplier))
          /\ \A q \in Payments : Known(payments'[q].supplier)
      BY <1>5, <1>6, <2>1 DEF Known
    <3> QED
      BY <1>3, <3>1, WorkStays
  <2> QED
    BY <2>2, <2>4, <2>5, <2>6, <2>7, <2>8 DEF PurchasesInv, BooksInv
<1>11. CASE i # NoDocument
  <2>1. i \in Invoices /\ Standing(i, s) /\ invoices[i].paidAmount \in Nat
        /\ invoices[i].status = "posted" /\ invoices[i].supplier = s
    BY <1>1, <1>2, <1>3, <1>7, <1>8, <1>11 DEF BooksInv, PaymentInOrder, Standing, RowFields
  <2>2. a <= invoices[i].paidAmount
    <3>1. PaidOn(i) \in [Payments -> Nat]
      BY <1>1, <2>1, PurchaseSumTypes DEF PurchaseSums
    <3>2. PaidOn(i)[p] <= Total(PaidOn(i))
      BY <3>1, TotalAtLeast, PurchasingAssumption
    <3>3. PaidOn(i)[p] = a
      BY <1>2, <1>3 DEF PaidOn
    <3>4. invoices[i].paidAmount = Total(PaidOn(i))
      BY <1>1, <2>1 DEF BooksInv, InvoiceBooks
    <3> QED
      BY <3>2, <3>3, <3>4
  <2>3. PICK e : e = [invoices[i] EXCEPT !.paidAmount = PaidLess(i, a)]
    OBVIOUS
  <2>4. PaidLess(i, a) = invoices[i].paidAmount - a /\ PaidLess(i, a) \in Nat
    BY <1>8, <2>1, <2>2 DEF PaidLess
  <2>5. /\ e \in PurchaseInvoice /\ e.status = invoices[i].status
        /\ e.supplier = invoices[i].supplier
        /\ e.line = invoices[i].line /\ e.returnedQuantity = invoices[i].returnedQuantity
        /\ e.returnedAmount = invoices[i].returnedAmount
        /\ e.paidAmount = PaidLess(i, a)
    BY <1>1, <2>1, <2>3, <2>4 DEF PurchaseInvoice
  <2>6. invoices' = [invoices EXCEPT ![i] = e]
    BY <1>2, <1>11, <2>3 DEF CancelPayment
  <2>7. /\ invoices' \in [Invoices -> PurchaseInvoice] /\ invoices'[i] = e
        /\ \A j \in Invoices \ {i} : invoices'[j] = invoices[j]
    BY <1>1, <2>1, <2>5, <2>6
  <2>8. PurchaseRows'
    <3>1. \A j \in Invoices : invoices'[j].status # "none" =>
            invoices'[j].supplier \in Suppliers /\ invoices'[j].line \in PurchaseLine
      BY <2>5, <2>7 DEF PurchasesInv, PurchaseRows
    <3> QED
      BY <1>3, <1>6, <2>7, <3>1 DEF PurchasesInv, PurchaseRows, PurchasesTypeOK
  <2>9. BooksInv'
    <3>1. \A j \in Invoices : PaidOn(j)'[p] = PaidOn(j)[p] + (IF j = i THEN -a ELSE 0)
      BY <1>2, <1>3, <1>5, <1>6, <1>8 DEF PaidOn
    <3>2. \A t \in Suppliers :
            OnInvoice(p, t)' = OnInvoice(p, t) + (IF t = invoices[i].supplier THEN -a ELSE 0)
      BY <1>2, <1>3, <1>5, <1>6, <1>7, <1>8, <1>11, <2>1 DEF OnInvoice, Paid
    <3>3. -a \in Int
      BY <1>8
    <3>4. /\ invoices'[i].status = "posted" /\ invoices'[i].supplier = invoices[i].supplier
          /\ invoices'[i].line = invoices[i].line
          /\ invoices'[i].returnedQuantity = invoices[i].returnedQuantity
          /\ invoices'[i].returnedAmount = invoices[i].returnedAmount
          /\ invoices'[i].paidAmount = invoices[i].paidAmount + (-a)
      BY <1>8, <2>1, <2>4, <2>5, <2>7
    <3> QED
      BY <1>3, <1>6, <1>9, <2>1, <2>7, <2>8, <3>1, <3>2, <3>3, <3>4, InvoicePaid
  <2>10. RemovedInv'
    <3>1. (\A j \in Invoices : Known(invoices'[j].supplier))
          /\ \A q \in Payments : Known(payments'[q].supplier)
      BY <1>5, <1>6, <2>5, <2>7 DEF Known
    <3> QED
      BY <1>3, <3>1, WorkStays
  <2> QED
    BY <2>8, <2>9, <2>10 DEF PurchasesInv
<1> QED
  BY <1>10, <1>11

(* A return that is not posted, before or after, is in no sum *)
LEMMA DraftReturnChanges ==
  ASSUME PurchasesInv, NEW x \in Returns, NEW d \in PurchaseReturnRow,
         returns' = [returns EXCEPT ![x] = d],
         returns[x].status # "posted", d.status # "posted",
         ReturnInOrder(x)',
         UNCHANGED <<suppliers, invoices, payments, goods, purchaseWork, crossed>>
  PROVE  PurchasesInv'
<1>1. returns \in [Returns -> PurchaseReturnRow] /\ RowFields /\ BooksInv
  BY FieldTypes DEF PurchasesInv, PurchaseRows, PurchasesTypeOK
<1>2. /\ returns' \in [Returns -> PurchaseReturnRow] /\ returns'[x] = d
      /\ \A y \in Returns \ {x} : returns'[y] = returns[y]
  BY <1>1
<1>3. PurchaseRows'
  BY <1>2 DEF PurchasesInv, PurchaseRows, PurchasesTypeOK
<1>4. RowFields' /\ SuppliersKept
  BY <1>3, FieldTypesNext DEF SuppliersKept
<1>5. RemovedInv'
  BY DEF PurchasesInv, RemovedInv, RemovedIsOut, Leaving, Removing, Entering
<1>6. ASSUME NEW i \in Invoices PROVE InvoiceBooks(i)' /\ InvoiceStage(i)'
  <2>1. InvoiceBooks(i) /\ InvoiceStage(i)
    BY <1>1 DEF BooksInv
  <2>2. BackOf(i)[x] = 0 /\ BackOf(i)'[x] = 0
    BY <1>2 DEF BackOf, SentBack
  <2>3. Total(BackOf(i)) \in Int
    BY <1>1, TotalNatural, PurchaseSumTypes, PurchasingAssumption DEF PurchaseSums
  <2>4. Total(BackOf(i))' = Total(BackOf(i)) - BackOf(i)[x] + BackOf(i)'[x]
    BY <1>1, <1>2, <1>4, OneReturnOf
  <2>5. Total(BackOf(i))' = Total(BackOf(i)) /\ Total(PaidOn(i))' = Total(PaidOn(i))
    BY <2>2, <2>3, <2>4, PaymentsStay
  <2> QED
    BY <2>1, <2>5 DEF InvoiceBooks, InvoiceStage
<1>7. ASSUME NEW y \in Returns PROVE ReturnInOrder(y)'
  <2>1. CASE y = x
    BY <2>1
  <2>2. CASE y # x
    BY <1>1, <1>2, <2>2 DEF BooksInv, ReturnInOrder
  <2> QED
    BY <2>1, <2>2
<1>8. ASSUME NEW p \in Payments PROVE PaymentInOrder(p)'
  BY <1>1 DEF BooksInv, PaymentInOrder, Standing
<1>9. ASSUME NEW s \in Suppliers PROVE PayableRight(s)'
  <2>1. PayableRight(s)
    BY <1>1 DEF BooksInv
  <2>2. BackTo(s)[x] = 0 /\ BackTo(s)'[x] = 0
    BY <1>2 DEF BackTo, SentBack
  <2>3. /\ Total(Owed(s)) \in Int /\ Total(LeftOf(s)) \in Int /\ Total(BackTo(s)) \in Int
        /\ Total(PaidTo(s)) \in Int /\ Total(OnAccount(s)) \in Int
    BY <1>1, PurchaseSumTypes, PurchaseTotals
  <2>4. Total(BackTo(s))' = Total(BackTo(s)) - BackTo(s)[x] + BackTo(s)'[x]
    BY <1>1, <1>2, <1>4, OneReturnTo
  <2>5. /\ Total(Owed(s))' = Total(Owed(s)) /\ Total(LeftOf(s))' = Total(LeftOf(s))
        /\ Total(PaidTo(s))' = Total(PaidTo(s)) /\ Total(OnAccount(s))' = Total(OnAccount(s))
    BY InvoicesStay, PaymentsStay
  <2>6. Total(Owed(s))' - Total(LeftOf(s))' = Total(Owed(s)) - Total(LeftOf(s)) + 0
    BY <2>3, <2>5
  <2>7. Total(BackTo(s))' = Total(BackTo(s)) + 0
    BY <2>2, <2>3, <2>4
  <2>8. Total(PaidTo(s))' - Total(OnAccount(s))' = Total(PaidTo(s)) - Total(OnAccount(s)) + 0
    BY <2>3, <2>5
  <2> QED
    BY <1>1, <1>4, <2>1, <2>6, <2>7, <2>8, PayableCarried
<1> QED
  BY <1>3, <1>5, <1>6, <1>7, <1>8, <1>9 DEF PurchasesInv, BooksInv

LEMMA StepCreateReturn ==
  ASSUME PurchasesInv, NEW x \in Returns, NEW i \in Invoices, NEW quantity \in Nat \ {0},
         CreateReturn(x, i, quantity)
  PROVE  PurchasesInv'
<1>1. invoices[i].status = "posted" /\ invoices[i].line \in PurchaseLine
      /\ returns \in [Returns -> PurchaseReturnRow]
  BY DEF CreateReturn, PurchasesInv, PurchaseRows, PurchasesTypeOK
<1>2. PICK share \in Nat : /\ share = ReturnShare(invoices[i].line, quantity)
                           /\ 0 \notin Prices => quantity <= share
  BY <1>1, ReturnShareOf
<1>3. PICK d : d = [status |-> "draft", invoice |-> i, quantity |-> quantity, total |-> share]
  OBVIOUS
<1>4. d \in PurchaseReturnRow
  BY <1>3 DEF PurchaseReturnRow
<1>5. /\ returns' = [returns EXCEPT ![x] = d] /\ returns[x].status = "none"
      /\ UNCHANGED <<suppliers, invoices, payments, goods, purchaseWork, crossed>>
  BY <1>2, <1>3 DEF CreateReturn
<1>6. returns'[x] = d /\ invoices' = invoices
  BY <1>1, <1>5
<1>7. ReturnInOrder(x)'
  BY <1>1, <1>2, <1>3, <1>6 DEF ReturnInOrder
<1>8. d.status # "posted" /\ returns[x].status # "posted"
  BY <1>3, <1>5
<1> QED
  BY <1>4, <1>5, <1>7, <1>8, DraftReturnChanges

LEMMA StepCancelReturn ==
  ASSUME PurchasesInv, NEW x \in Returns, CancelReturn(x)
  PROVE  PurchasesInv'
<1>1. /\ returns \in [Returns -> PurchaseReturnRow] /\ returns[x] \in PurchaseReturnRow
      /\ ReturnInOrder(x)
  BY DEF PurchasesInv, PurchaseRows, PurchasesTypeOK, BooksInv
<1>2. PICK d : d = [returns[x] EXCEPT !.status = "cancelled"]
  OBVIOUS
<1>3. /\ d \in PurchaseReturnRow /\ d.status = "cancelled" /\ d.invoice = returns[x].invoice
      /\ d.quantity = returns[x].quantity /\ d.total = returns[x].total
  BY <1>1, <1>2 DEF PurchaseReturnRow
<1>4. /\ returns' = [returns EXCEPT ![x] = d] /\ returns[x].status = "draft"
      /\ UNCHANGED <<suppliers, invoices, payments, goods, purchaseWork, crossed>>
  BY <1>1, <1>2 DEF CancelReturn
<1>5. returns'[x] = d /\ invoices' = invoices
  BY <1>1, <1>4
<1>6. ReturnInOrder(x)'
  BY <1>1, <1>3, <1>4, <1>5 DEF ReturnInOrder
<1> QED
  BY <1>3, <1>4, <1>6, DraftReturnChanges

LEMMA StepPostReturn ==
  ASSUME PurchasesInv, NEW x \in Returns, PostReturn(x)
  PROVE  PurchasesInv'
<1>1. /\ RowFields /\ BooksInv /\ returns \in [Returns -> PurchaseReturnRow]
      /\ returns[x] \in PurchaseReturnRow /\ goods \in [Invoices -> Int]
      /\ invoices \in [Invoices -> PurchaseInvoice]
  BY FieldTypes DEF PurchasesInv, PurchaseRows, PurchasesTypeOK
<1>2. returns[x].status = "draft" /\ ReturnInOrder(x)
  BY <1>1 DEF PostReturn, BooksInv
<1>3. PICK i \in Invoices, q \in Nat, total \in Nat :
        i = returns[x].invoice /\ q = returns[x].quantity /\ total = returns[x].total
  BY <1>1, <1>2 DEF ReturnInOrder, RowFields
<1>4. /\ invoices[i].status = "posted" /\ WithinRemaining(i, q)
      /\ goods' = [goods EXCEPT ![i] = @ - q]
      /\ returns' = [returns EXCEPT ![x].status = "posted"]
      /\ suppliers' = suppliers /\ payments' = payments
      /\ purchaseWork' = purchaseWork /\ crossed' = crossed
  BY <1>3 DEF PostReturn
<1>5. PICK d, e : /\ d = [returns[x] EXCEPT !.status = "posted"]
                  /\ e = [invoices[i] EXCEPT !.returnedQuantity = @ + q,
                                             !.returnedAmount = @ + total]
  OBVIOUS
<1>6. /\ d \in PurchaseReturnRow /\ d.status = "posted" /\ d.invoice = i
      /\ d.quantity = q /\ d.total = total
  BY <1>1, <1>3, <1>5 DEF PurchaseReturnRow
<1>7. /\ invoices[i] \in PurchaseInvoice /\ invoices[i].returnedQuantity \in Nat
      /\ invoices[i].returnedAmount \in Nat /\ invoices[i].paidAmount \in Nat
      /\ invoices[i].line.quantity \in Nat
      /\ invoices[i].supplier \in Suppliers
  BY <1>1, <1>4 DEF RowFields
<1>8. /\ e \in PurchaseInvoice /\ e.status = "posted" /\ e.supplier = invoices[i].supplier
      /\ e.line = invoices[i].line
      /\ e.returnedQuantity = invoices[i].returnedQuantity + q
      /\ e.returnedAmount = invoices[i].returnedAmount + total
      /\ e.paidAmount = invoices[i].paidAmount
  <2>1. PICK u \in Nat, v \in Nat : /\ u = invoices[i].returnedQuantity + q
                                    /\ v = invoices[i].returnedAmount + total
    BY <1>7
  <2>2. e = [invoices[i] EXCEPT !.returnedQuantity = u, !.returnedAmount = v]
    BY <1>5, <1>7, <2>1 DEF PurchaseInvoice
  <2> QED
    BY <1>4, <1>7, <2>1, <2>2 DEF PurchaseInvoice
<1>9. /\ returns' \in [Returns -> PurchaseReturnRow] /\ returns'[x] = d
      /\ \A y \in Returns \ {x} : returns'[y] = returns[y]
  BY <1>1, <1>4, <1>5, <1>6
<1>10. invoices' = [invoices EXCEPT ![i] = e]
  BY <1>1, <1>3, <1>5 DEF PostReturn
<1>11. /\ invoices' \in [Invoices -> PurchaseInvoice] /\ invoices'[i] = e
       /\ \A j \in Invoices \ {i} : invoices'[j] = invoices[j]
  BY <1>1, <1>8, <1>10
<1>12. /\ goods' \in [Invoices -> Int] /\ goods'[i] = goods[i] - q
       /\ \A j \in Invoices \ {i} : goods'[j] = goods[j]
  BY <1>1, <1>4
<1>13. PurchaseRows'
  <2>1. \A j \in Invoices : invoices'[j].status # "none" =>
          invoices'[j].supplier \in Suppliers /\ invoices'[j].line \in PurchaseLine
    BY <1>4, <1>8, <1>11 DEF PurchasesInv, PurchaseRows
  <2> QED
    BY <1>4, <1>9, <1>11, <1>12, <2>1 DEF PurchasesInv, PurchaseRows, PurchasesTypeOK
<1>14. RowFields' /\ SuppliersKept
  BY <1>8, <1>11, <1>13, FieldTypesNext DEF SuppliersKept
<1>15. RemovedInv'
  <2>1. \A j \in Invoices : Known(invoices'[j].supplier)
    BY <1>8, <1>11 DEF Known
  <2>2. \A p \in Payments : Known(payments'[p].supplier)
    BY <1>4 DEF Known
  <2> QED
    BY <1>4, <2>1, <2>2, WorkStays
<1>16. ASSUME NEW j \in Invoices PROVE InvoiceBooks(j)'
  <2>1. InvoiceBooks(j) /\ Total(PaidOn(j))' = Total(PaidOn(j))
    BY <1>1, <1>4, PaymentsStay DEF BooksInv
  <2>2. BackOf(j)[x] = 0 /\ BackOf(j)'[x] = (IF j = i THEN q ELSE 0)
    BY <1>2, <1>6, <1>9 DEF BackOf, SentBack
  <2>3. Total(BackOf(j)) \in Nat
    BY <1>1, TotalNatural, PurchaseSumTypes, PurchasingAssumption DEF PurchaseSums
  <2>4. Total(BackOf(j))' = Total(BackOf(j)) - BackOf(j)[x] + BackOf(j)'[x]
    BY <1>1, <1>9, <1>14, OneReturnOf
  <2>5. CASE j = i
    <3>1. Total(BackOf(i))' = Total(BackOf(i)) + q
      BY <2>2, <2>3, <2>4, <2>5
    <3> QED
      BY <1>4, <1>7, <1>8, <1>11, <1>12, <2>1, <2>5, <3>1 DEF InvoiceBooks
  <2>6. CASE j # i
    <3>1. Total(BackOf(j))' = Total(BackOf(j))
      BY <2>2, <2>3, <2>4, <2>6
    <3> QED
      BY <1>11, <1>12, <2>1, <2>6, <3>1 DEF InvoiceBooks
  <2> QED
    BY <2>5, <2>6
<1>17. ASSUME NEW j \in Invoices PROVE InvoiceStage(j)'
  <2>1. InvoiceStage(j)
    BY <1>1 DEF BooksInv
  <2>2. CASE j = i
    <3>1. invoices[i].returnedQuantity + q <= invoices[i].line.quantity
      BY <1>4, <1>7 DEF WithinRemaining
    <3>2. 0 \notin Prices =>
            invoices[i].returnedQuantity + q <= invoices[i].returnedAmount + total
      BY <1>2, <1>3, <1>7, <2>1, <2>2 DEF InvoiceStage, ReturnInOrder
    <3> QED
      BY <1>8, <1>11, <2>2, <3>1, <3>2 DEF InvoiceStage
  <2>3. CASE j # i
    BY <1>11, <2>1, <2>3 DEF InvoiceStage
  <2> QED
    BY <2>2, <2>3
<1>18. ASSUME NEW y \in Returns PROVE ReturnInOrder(y)'
  <2>1. ReturnInOrder(y)
    BY <1>1 DEF BooksInv
  <2>2. CASE y = x
    BY <1>2, <1>3, <1>6, <1>8, <1>9, <1>11, <2>2 DEF ReturnInOrder
  <2>3. CASE y # x
    BY <1>4, <1>8, <1>9, <1>11, <2>1, <2>3 DEF ReturnInOrder
  <2> QED
    BY <2>2, <2>3
<1>19. ASSUME NEW p \in Payments PROVE PaymentInOrder(p)'
  <2>1. PaymentInOrder(p)
    BY <1>1 DEF BooksInv
  <2>2. payments[p].invoice \in Invoices \cup {NoDocument}
    BY <1>1 DEF RowFields
  <2> QED
    BY <1>4, <1>8, <1>11, <2>1, <2>2 DEF PaymentInOrder, Standing
<1>20. ASSUME NEW s \in Suppliers PROVE PayableRight(s)'
  <2> DEFINE c == IF s = invoices[i].supplier THEN total ELSE 0
  <2>1. PayableRight(s) /\ c \in Int
    BY <1>1 DEF BooksInv
  <2>2. /\ Total(Owed(s)) \in Int /\ Total(LeftOf(s)) \in Int /\ Total(BackTo(s)) \in Int
        /\ Total(PaidTo(s)) \in Int /\ Total(OnAccount(s)) \in Int
    BY <1>1, PurchaseSumTypes, PurchaseTotals
  <2>3. Booked(i, s) \in Int /\ Booked(i, s)' = Booked(i, s) + c
    BY <1>4, <1>7, <1>8, <1>11 DEF Booked, Standing
  <2>4. BackTo(s)[x] = 0 /\ BackTo(s)'[x] = c
    BY <1>2, <1>6, <1>8, <1>9, <1>11 DEF BackTo, SentBack
  <2>5. Total(Owed(s))' - Total(LeftOf(s))'
          = Total(Owed(s)) - Total(LeftOf(s)) - Booked(i, s) + Booked(i, s)'
    BY <1>1, <1>11, <1>14, OneInvoice
  <2>6. Total(BackTo(s))' = Total(BackTo(s)) - BackTo(s)[x] + BackTo(s)'[x]
    BY <1>1, <1>9, <1>14, OneReturnTo
  <2> HIDE DEF c
  <2>7. Total(Owed(s))' - Total(LeftOf(s))' = Total(Owed(s)) - Total(LeftOf(s)) + c
    BY <2>1, <2>2, <2>3, <2>5
  <2>8. Total(BackTo(s))' = Total(BackTo(s)) + c
    BY <2>1, <2>2, <2>4, <2>6
  <2>9. Total(PaidTo(s))' - Total(OnAccount(s))' = Total(PaidTo(s)) - Total(OnAccount(s)) + 0
    BY <1>4, <2>2, PaymentsStay
  <2>10. c = c + 0
    BY <2>1
  <2> QED
    BY <1>1, <1>14, <2>1, <2>7, <2>8, <2>9, <2>10, PayableCarried
<1> QED
  BY <1>13, <1>15, <1>16, <1>17, <1>18, <1>19, <1>20 DEF PurchasesInv, BooksInv

LEMMA InitPurchases == PurchasesInit => PurchasesInv
<1> SUFFICES ASSUME PurchasesInit PROVE PurchasesInv
  OBVIOUS
<1>1. PurchaseRows
  <2>1. NewInvoice \in PurchaseInvoice /\ NewInvoice.status = "none"
    BY DEF NewInvoice, PurchaseInvoice
  <2>2. PurchasesTypeOK
    BY <2>1 DEF PurchasesInit, PurchasesTypeOK, PurchaseReturnRow, SupplierPayment
  <2> QED
    BY <2>1, <2>2, NoWorkIsARow DEF PurchasesInit, PurchaseRows
<1>2. RowFields /\ PurchaseSums
  BY <1>1, FieldTypes, PurchaseSumTypes
<1>3. /\ \A i \in Invoices :
           /\ invoices[i].status = "none" /\ invoices[i].returnedQuantity = 0
           /\ invoices[i].returnedAmount = 0 /\ invoices[i].paidAmount = 0
           /\ invoices[i].supplier = NoDocument /\ goods[i] = 0
      /\ \A x \in Returns : returns[x].status = "none"
      /\ \A p \in Payments : payments[p].status = "none" /\ payments[p].supplier = NoDocument
      /\ \A s \in Suppliers : suppliers[s] = "none"
      /\ \A r \in Desks : purchaseWork[r].do = "none"
  BY NoWorkIsARow DEF PurchasesInit, NewInvoice
<1>4. ASSUME NEW i \in Invoices PROVE InvoiceBooks(i) /\ InvoiceStage(i)
  <2>1. PaidOn(i) = [p \in Payments |-> 0] /\ BackOf(i) = [x \in Returns |-> 0]
    BY <1>3 DEF PaidOn, BackOf, SentBack
  <2>2. Total(PaidOn(i)) = 0 /\ Total(BackOf(i)) = 0
    BY <2>1, TotalZero
  <2> QED
    BY <1>3, <2>2 DEF InvoiceBooks, InvoiceStage
<1>5. \A x \in Returns : ReturnInOrder(x)
  BY <1>3 DEF ReturnInOrder
<1>6. \A p \in Payments : PaymentInOrder(p)
  BY <1>3 DEF PaymentInOrder
<1>7. ASSUME NEW s \in Suppliers PROVE PayableRight(s)
  <2>1. /\ Owed(s) = [i \in Invoices |-> 0] /\ LeftOf(s) = [i \in Invoices |-> 0]
        /\ BackTo(s) = [x \in Returns |-> 0]
        /\ PaidTo(s) = [p \in Payments |-> 0] /\ OnAccount(s) = [p \in Payments |-> 0]
    BY <1>3 DEF Owed, LeftOf, BackTo, PaidTo, OnAccount, Standing, SentBack, Paid
  <2>2. /\ Total(Owed(s)) = 0 /\ Total(LeftOf(s)) = 0 /\ Total(BackTo(s)) = 0
        /\ Total(PaidTo(s)) = 0 /\ Total(OnAccount(s)) = 0
    BY <2>1, TotalZero
  <2> QED
    BY <2>2 DEF PayableRight
<1>8. RemovedInv
  BY <1>3 DEF RemovedInv, RemovedIsOut, Leaving, Removing
<1> QED
  BY <1>1, <1>4, <1>5, <1>6, <1>7, <1>8 DEF PurchasesInv, BooksInv

LEMMA NextPurchases == ASSUME PurchasesInv, [PurchasesNext]_purchaseVars PROVE PurchasesInv'
<1>1. CASE PurchasesNext
  <2>1. ASSUME NEW s \in Suppliers, NEW state \in {"active", "stopped"},
               CreateSupplier(s) \/ UpdateSupplier(s, state)
        PROVE  PurchasesInv'
    BY <2>1, StepSupplier
  <2>2. ASSUME NEW s \in Suppliers, NEW r \in Desks, BeginRemove(r, s) \/ BeginPay(r, s)
        PROVE  PurchasesInv'
    BY <2>2, StepBeginRemove, StepBeginPay
  <2>3. ASSUME NEW s \in Suppliers, NEW r \in Desks, NEW i \in Invoices, NEW line \in PurchaseLine,
               BeginCreate(r, i, s, line) \/ BeginUpdate(r, i, s, line)
        PROVE  PurchasesInv'
    BY <2>3, StepBegin
  <2>4. ASSUME NEW r \in Desks, CommitRemove(r) \/ CommitCreate(r) \/ CommitUpdate(r) \/ GiveUp(r)
        PROVE  PurchasesInv'
    BY <2>4, StepCommitRemove, StepCommitCreate, StepCommitUpdate, StepGiveUp
  <2>5. ASSUME NEW r \in Desks, NEW p \in Payments, NEW amount \in Amounts,
               PayOnAccount(r, p, amount) \/ \E i \in Invoices : Pay(r, p, i, amount)
        PROVE  PurchasesInv'
    BY <2>5, StepPayOnAccount, StepPay
  <2>6. ASSUME NEW i \in Invoices, Post(i) \/ Cancel(i) PROVE PurchasesInv'
    BY <2>6, StepPost, StepCancel
  <2>7. ASSUME NEW i \in Invoices, NEW x \in Returns,
               NEW quantity \in UNION {1..q : q \in LineQuantities}, CreateReturn(x, i, quantity)
        PROVE  PurchasesInv'
    <3>1. quantity \in Nat \ {0}
      BY PurchasingAssumption
    <3> QED
      BY <2>7, <3>1, StepCreateReturn
  <2>8. ASSUME NEW p \in Payments, CancelPayment(p) PROVE PurchasesInv'
    BY <2>8, StepCancelPayment
  <2>9. ASSUME NEW x \in Returns, PostReturn(x) \/ CancelReturn(x) PROVE PurchasesInv'
    BY <2>9, StepPostReturn, StepCancelReturn
  <2> QED
    BY <1>1, <2>1, <2>2, <2>3, <2>4, <2>5, <2>6, <2>7, <2>8, <2>9 DEF PurchasesNext
<1>2. CASE UNCHANGED purchaseVars
  <2>1. /\ suppliers' = suppliers /\ invoices' = invoices /\ returns' = returns
        /\ payments' = payments /\ goods' = goods /\ purchaseWork' = purchaseWork
        /\ crossed' = crossed
    BY <1>2 DEF purchaseVars
  <2>2. PurchaseRows'
    BY <2>1 DEF PurchasesInv, PurchaseRows, PurchasesTypeOK
  <2>3. BooksInv'
    BY <2>1, BooksStay DEF PurchasesInv
  <2>4. RemovedInv'
    BY <2>1 DEF PurchasesInv, RemovedInv, RemovedIsOut, Leaving, Removing, Entering
  <2> QED
    BY <2>2, <2>3, <2>4 DEF PurchasesInv
<1> QED
  BY <1>1, <1>2

LEMMA PurchasesKept == PurchasesSpec => []PurchasesInv
<1>1. PurchasesInv /\ [PurchasesNext]_purchaseVars => PurchasesInv'
  BY NextPurchases
<1> QED
  BY InitPurchases, <1>1, PTL DEF PurchasesSpec

(* What the invariant says of the debt, and of the goods when none are free *)
LEMMA PurchasesSay ==
  ASSUME PurchasesInv PROVE PurchasesTypeOK /\ PayablesAddUp /\ RemovedHasNoDocument
<1>1. PayablesAddUp
  BY DEF PurchasesInv, BooksInv, PayableRight, PayablesAddUp, Balance,
         Owed, LeftOf, BackTo, PaidTo, OnAccount
<1>2. RemovedHasNoDocument
  BY DEF PurchasesInv, RemovedInv, RemovedIsOut, Leaving, RemovedHasNoDocument, DocumentsOf
<1> QED
  BY <1>1, <1>2 DEF PurchasesInv, PurchaseRows

LEMMA NothingUnpricedComesBack ==
  ASSUME PurchasesInv, 0 \notin Prices, NEW i \in Invoices, invoices[i].status # "posted"
  PROVE  invoices[i].returnedQuantity = 0 /\ invoices[i].paidAmount = 0
  BY FieldTypes DEF PurchasesInv, BooksInv, InvoiceStage, RowFields

LEMMA BooksSayGoods == ASSUME PurchasesInv, 0 \notin Prices PROVE GoodsFollowDocuments
<1> SUFFICES ASSUME NEW i \in Invoices
             PROVE  /\ goods[i] >= 0
                    /\ goods[i] = (IF invoices[i].status = "posted"
                                   THEN invoices[i].line.quantity ELSE 0) - Total(BackOf(i))
  BY DEF GoodsFollowDocuments, BackOf
<1>1. InvoiceBooks(i) /\ InvoiceStage(i) /\ RowFields
  BY FieldTypes DEF PurchasesInv, BooksInv
<1>2. goods[i] >= 0
  <2>1. CASE invoices[i].status = "posted"
    BY <1>1, <2>1 DEF InvoiceBooks, InvoiceStage, RowFields
  <2>2. CASE invoices[i].status # "posted"
    BY <1>1, <2>2, NothingUnpricedComesBack DEF InvoiceBooks
  <2> QED
    BY <2>1, <2>2
<1> QED
  BY <1>1, <1>2 DEF InvoiceBooks

(* What is owed to each supplier is what his invoices leave, less what was paid on  *)
(* account, and a supplier that was removed has no document unless one was being      *)
(* entered meanwhile: for any suppliers, invoices, returns, payments and requests and  *)
(* any prices (BALANCE_SQL, computeDerived, SupplierPaymentsService, PurchaseReturnsService) *)
THEOREM PayablesRight ==
  PurchasesSpec => [](PurchasesTypeOK /\ PayablesAddUp /\ RemovedHasNoDocument)
<1>1. PurchasesInv => PurchasesTypeOK /\ PayablesAddUp /\ RemovedHasNoDocument
  BY PurchasesSay
<1> QED
  BY <1>1, PurchasesKept, PTL

(* Unless goods are free, what is owed and what is in store follow the purchases     *)
THEOREM PurchasesRight == 0 \notin Prices => (PurchasesSpec => []PurchasesAddUp)
<1> SUFFICES ASSUME 0 \notin Prices PROVE PurchasesSpec => []PurchasesAddUp
  OBVIOUS
<1>1. PurchasesInv => PurchasesAddUp
  BY PurchasesSay, BooksSayGoods DEF PurchasesAddUp
<1> QED
  BY <1>1, PurchasesKept, PTL

(* .. and what was cancelled was neither paid nor sent back in part                   *)
(* (PurchaseInvoicesService.cancel)                                                   *)
THEOREM CancelledInFull == 0 \notin Prices => (PurchasesSpec => []CancelledUntouched)
<1> SUFFICES ASSUME 0 \notin Prices PROVE PurchasesSpec => []CancelledUntouched
  OBVIOUS
<1>1. ASSUME PurchasesInv PROVE CancelledUntouched
  <2> SUFFICES ASSUME NEW i \in Invoices, invoices[i].status = "cancelled"
               PROVE  invoices[i].paidAmount = 0 /\ \A x \in Returns : ~SentBack(x, i)
    BY DEF CancelledUntouched
  <2>1. invoices[i].returnedQuantity = 0 /\ invoices[i].paidAmount = 0
    BY <1>1, NothingUnpricedComesBack
  <2>2. ASSUME NEW x \in Returns, SentBack(x, i) PROVE FALSE
    <3>1. RowFields /\ InvoiceBooks(i) /\ ReturnInOrder(x)
      BY <1>1, FieldTypes DEF PurchasesInv, BooksInv
    <3>2. BackOf(i)[x] = returns[x].quantity /\ returns[x].quantity > 0
          /\ returns[x].quantity \in Nat
      BY <2>2, <3>1 DEF BackOf, SentBack, ReturnInOrder, RowFields
    <3>3. BackOf(i) \in [Returns -> Nat]
      BY <3>1, PurchaseSumTypes DEF PurchaseSums
    <3>4. BackOf(i)[x] <= Total(BackOf(i))
      BY <3>3, TotalAtLeast, PurchasingAssumption
    <3> QED
      BY <2>1, <3>1, <3>2, <3>4 DEF InvoiceBooks
  <2> QED
    BY <2>1, <2>2
<1> QED
  BY <1>1, PurchasesKept, PTL
=============================================================================
