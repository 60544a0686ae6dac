------------------------- MODULE StockTransactions -------------------------
(***************************************************************************)
(* The same documents as module Inventory, statement by statement: what     *)
(* several clients (HTTP requests, each in a PostgreSQL transaction at READ  *)
(* COMMITTED) do at the same time.  A client locks the transfer's row, then  *)
(* each item's row, reads the quantity, writes the new one, and commits or   *)
(* is rolled back at any point.  The variables of Inventory hold what is     *)
(* committed; the claim is that they change as Inventory says (Spec), one    *)
(* whole document at a time, and that the clients never wait in a circle.    *)
(***************************************************************************)
EXTENDS Inventory

CONSTANTS
  Clients,    \* requests that work at the same time
  NoClient,   \* the holder of a lock that is free
  Idle        \* the work of a client that has none, and what it has not read or written

VARIABLES
  itemLock, \* the client that holds the item's row FOR UPDATE
  rowLock,  \* the client that holds the transfer's row FOR UPDATE
  work,     \* per client: the document and the lines that are left
  seen,     \* per client: the statement it is at in a line, and what it has read for it
  written,  \* per client: the rows it wrote and has not committed
  moved     \* per client: its uncommitted changes of inTransitQuantity

clientVars == <<itemLock, rowLock, work, seen, written, moved>>
txVars == <<vars, clientVars>>

-----------------------------------------------------------------------------
(* Documents.  A line gives a change (change) or the quantity to reach (target) *)
NoLine == [kind |-> "none", n |-> 0, cost |-> NoCost]
Change(delta, cost) == [kind |-> "change", n |-> delta, cost |-> cost]
Target(quantity) == [kind |-> "target", n |-> quantity, cost |-> NoCost]

ChangeLines(quantities, cost) ==
  [p \in Products |-> IF quantities[p] = 0 THEN NoLine ELSE Change(quantities[p], cost)]
CountLines(counted, count) ==
  [p \in Products |-> IF p \in counted THEN Target(count[p]) ELSE NoLine]

(* apply: the products whose line is not written yet; move, carry: those whose  *)
(* in-transit quantity has to change, and by how much; status, received: what    *)
(* becomes of the transfer                                                       *)
DocumentJob(w, doc, lines) ==
  [w |-> w, doc |-> doc, lines |-> lines, apply |-> {p \in Products : lines[p] # NoLine},
   move |-> {}, carry |-> Empty, status |-> "none", received |-> Empty]

(* One of TransfersService: apply, with the lines that are not empty (a receipt  *)
(* leaves out what did not arrive), then adjustInTransit for every line sent     *)
TransferJob(w, type, t, quantities, carry, status, received) ==
  [DocumentJob(w, TransferDocument(type, t), ChangeLines(quantities, NoCost)) EXCEPT
    !.move = {p \in Products : carry[p] # 0}, !.carry = carry,
    !.status = status, !.received = received]

SendJob(t) ==
  TransferJob(transfer[t].from, "transfer_out", t, Out(transfer[t].lines),
              transfer[t].lines, "in_transit", transfer[t].received)
ReceiveJob(t, received) ==
  TransferJob(transfer[t].to, "transfer_in", t, received,
              Out(transfer[t].lines), "received", received)
CancelJob(t) ==
  TransferJob(transfer[t].from, "transfer_in", t, transfer[t].lines,
              Out(transfer[t].lines), "cancelled", transfer[t].received)

LineType == [kind : {"none", "change", "target"}, n : Int, cost : 0 .. MaxCost \cup {NoCost}]
DocumentType == [type : MovementTypes, fromPos : BOOLEAN, transfer : Transfers \cup {NoTransfer}]
JobType == [w : Warehouses, doc : DocumentType, lines : [Products -> LineType],
            apply : SUBSET Products, move : SUBSET Products, carry : [Products -> Int],
            status : Statuses, received : [Products -> Nat]]
SeenType == [at : {"quantity", "total", "write"}, product : Products, avgCost : 0 .. MaxCost,
             inTransit : Int, quantity : Int, onHand : Int]
WrittenType == [average : 0 .. MaxCost, row : Movement]

ASSUME TransactionAssumption ==
  /\ NoClient \notin Clients
  /\ Idle \notin JobType /\ Idle \notin SeenType /\ Idle \notin WrittenType

Busy(c) == work[c] # Idle
OnTransfer(c) == work[c].doc.transfer # NoTransfer

Reset(c) ==
  /\ work' = [work EXCEPT ![c] = Idle]
  /\ itemLock' = [p \in Products |-> IF itemLock[p] = c THEN NoClient ELSE itemLock[p]]
  /\ rowLock' = [t \in Transfers |-> IF rowLock[t] = c THEN NoClient ELSE rowLock[t]]
  /\ seen' = [seen EXCEPT ![c] = Idle]
  /\ written' = [written EXCEPT ![c] = [p \in Products |-> Idle]]
  /\ moved' = [moved EXCEPT ![c] = Empty]

-----------------------------------------------------------------------------
TxInit ==
  /\ Init
  /\ itemLock = [p \in Products |-> NoClient]
  /\ rowLock = [t \in Transfers |-> NoClient]
  /\ work = [c \in Clients |-> Idle]
  /\ seen = [c \in Clients |-> Idle]
  /\ written = [c \in Clients |-> [p \in Products |-> Idle]]
  /\ moved = [c \in Clients |-> Empty]

(* A document that is not a transfer begins its transaction *)
Begin(c, w, type, lines) ==
  /\ ~Busy(c)
  /\ work' = [work EXCEPT ![c] = DocumentJob(w, Document(type), lines)]
  /\ UNCHANGED <<vars, itemLock, rowLock, seen, written, moved>>

BeginSale(c, w, lines) == Begin(c, w, "sale", ChangeLines(Out(lines), NoCost))

BeginPurchase(c, w, lines, cost) == Begin(c, w, "purchase", ChangeLines(lines, cost))

BeginStocktake(c, w, counted, count) == Begin(c, w, "stocktake", CountLines(counted, count))

(* What holds the transfer's row in one statement after another, and no item:    *)
(* an insert nobody else can see before, an edit or the cancellation of a draft  *)
EditTransfer(t) ==
  /\ rowLock[t] = NoClient
  /\ \/ CancelDraft(t)
     \/ \E from, to \in Warehouses, lines \in Lines :
          Create(t, from, to, lines) \/ Update(t, from, to, lines)
  /\ UNCHANGED clientVars

(* TransfersService.lock, then the status test and the lines, under the lock *)
LockRow(c, t, job) ==
  /\ ~Busy(c)
  /\ rowLock[t] = NoClient
  /\ rowLock' = [rowLock EXCEPT ![t] = c]
  /\ work' = [work EXCEPT ![c] = job]
  /\ UNCHANGED <<vars, itemLock, seen, written, moved>>

StartSend(c, t) ==
  /\ transfer[t].status = "draft"
  /\ LockRow(c, t, SendJob(t))

StartReceive(c, t, received) ==
  /\ transfer[t].status = "in_transit"
  /\ \A p \in Products : received[p] <= transfer[t].lines[p]
  /\ LockRow(c, t, ReceiveJob(t, received))

StartCancel(c, t) ==
  /\ transfer[t].status = "in_transit"
  /\ LockRow(c, t, CancelJob(t))

-----------------------------------------------------------------------------
(* apply sorts its lines by product; adjustInTransit is called for the lines in   *)
(* the order in which SELECT returned them (linesOf has no ORDER BY)              *)
MayLock(c, p) ==
  IF work[c].apply # {} THEN p \in work[c].apply /\ \A q \in work[c].apply : p <= q
  ELSE p \in work[c].move

(* slip: the item's row is read without FOR UPDATE (CommittedAsDocuments) *)
ReadItem(c, p) ==
  /\ seen[c] = Idle /\ work[c].apply # {} /\ MayLock(c, p)
  /\ seen' = [seen EXCEPT ![c] = [at |-> "quantity", product |-> p, avgCost |-> avgCost[p],
                                  inTransit |-> inTransit[p], quantity |-> 0, onHand |-> 0]]
  /\ UNCHANGED <<vars, itemLock, rowLock, work, written, moved>>

(* lockItem for a line of apply: INSERT .. ON CONFLICT, SELECT .. FOR UPDATE *)
LockItem(c, p) ==
  /\ seen[c] = Idle /\ work[c].apply # {} /\ MayLock(c, p)
  /\ itemLock[p] \in {c, NoClient}
  /\ itemLock' = [itemLock EXCEPT ![p] = c]
  /\ seen' = [seen EXCEPT ![c] = [at |-> "quantity", product |-> p, avgCost |-> avgCost[p],
                                  inTransit |-> inTransit[p], quantity |-> 0, onHand |-> 0]]
  /\ UNCHANGED <<vars, rowLock, work, written, moved>>

(* adjustInTransit: lockItem, and an UPDATE relative to the row's value *)
MoveInTransit(c, p) ==
  /\ seen[c] = Idle /\ work[c].apply = {} /\ MayLock(c, p)
  /\ itemLock[p] \in {c, NoClient}
  /\ itemLock' = [itemLock EXCEPT ![p] = c]
  /\ moved' = [moved EXCEPT ![c][p] = @ + work[c].carry[p]]
  /\ work' = [work EXCEPT ![c].move = @ \ {p}]
  /\ UNCHANGED <<vars, rowLock, seen, written>>

(* applyOne, from what has been read so far *)
Line(c) == work[c].lines[seen[c].product]
Delta(c) == IF Line(c).kind = "target" THEN Line(c).n - seen[c].quantity ELSE Line(c).n

(* currentQuantity; only goods that come in at a cost need the total *)
ReadQuantity(c) ==
  /\ seen[c].at = "quantity"
  /\ LET read == [seen[c] EXCEPT !.quantity = level[work[c].w][seen[c].product]]
     IN  seen' = [seen EXCEPT ![c] = [read EXCEPT
           !.at = IF Line(c).kind = "change" /\ Incoming(Line(c).n, Line(c).cost)
                  THEN "total" ELSE "write"]]
  /\ UNCHANGED <<vars, itemLock, rowLock, work, written, moved>>

(* totalQuantity: the SUM of the quantities, with what is in transit *)
ReadTotal(c) ==
  /\ seen[c].at = "total"
  /\ seen' = [seen EXCEPT ![c].at = "write",
                          ![c].onHand = Total([w \in Warehouses |-> level[w][seen[c].product]])
                                          + seen[c].inTransit]
  /\ UNCHANGED <<vars, itemLock, rowLock, work, written, moved>>

(* The average, the test that the line does not overdraw, the new quantity and    *)
(* the ledger row                                                                 *)
NewAverage(c) ==
  IF Incoming(Delta(c), Line(c).cost)
  THEN WeightedAverage(seen[c].onHand, seen[c].avgCost, Delta(c), Line(c).cost)
  ELSE seen[c].avgCost
LedgerRow(c) ==
  [type |-> work[c].doc.type, quantity |-> Delta(c),
   unitCost |-> IF Incoming(Delta(c), Line(c).cost) THEN Line(c).cost ELSE seen[c].avgCost,
   balanceAfter |-> seen[c].quantity + Delta(c),
   fromPos |-> work[c].doc.fromPos, transfer |-> work[c].doc.transfer]
Refused(c) ==
  Delta(c) < 0 /\ seen[c].quantity + Delta(c) < 0 /\ work[c].w \notin NegativeAllowed

WriteLine(c) ==
  /\ seen[c].at = "write"
  /\ ~Refused(c)
  /\ Delta(c) # 0 => Len(movements[work[c].w][seen[c].product]) < MaxMovements
  /\ written' = [written EXCEPT ![c][seen[c].product] =
       IF Delta(c) = 0 THEN Idle ELSE [average |-> NewAverage(c), row |-> LedgerRow(c)]]
  /\ work' = [work EXCEPT ![c].apply = @ \ {seen[c].product}]
  /\ seen' = [seen EXCEPT ![c] = Idle]
  /\ UNCHANGED <<vars, itemLock, rowLock, moved>>

(* A refused line, an error, a lost connection: nothing of the document stays *)
RollBack(c) == Reset(c) /\ UNCHANGED vars

(* COMMIT makes the rows the client wrote what everybody reads *)
CommitRows(c) ==
  /\ seen[c] = Idle /\ work[c].apply = {} /\ work[c].move = {}
  /\ LET w == work[c].w
     IN  /\ level' = [level EXCEPT ![w] = [p \in Products |->
              IF written[c][p] = Idle THEN level[w][p] ELSE written[c][p].row.balanceAfter]]
         /\ avgCost' = [p \in Products |->
              IF written[c][p] = Idle THEN avgCost[p] ELSE written[c][p].average]
         /\ movements' = [movements EXCEPT ![w] = [p \in Products |->
              IF written[c][p] = Idle THEN movements[w][p]
              ELSE Append(movements[w][p], written[c][p].row)]]
  /\ inTransit' = [p \in Products |-> inTransit[p] + moved[c][p]]
  /\ transfer' = IF OnTransfer(c)
                 THEN [transfer EXCEPT ![work[c].doc.transfer].status = work[c].status,
                                       ![work[c].doc.transfer].received = work[c].received]
                 ELSE transfer
  /\ Reset(c)

-----------------------------------------------------------------------------
Request(c) ==
  \/ \E w \in Warehouses, lines \in Lines :
       BeginSale(c, w, lines) \/ \E cost \in Costs : BeginPurchase(c, w, lines, cost)
  \/ \E w \in Warehouses, counted \in SUBSET Products \ {{}}, count \in Quantities :
       BeginStocktake(c, w, counted, count)
  \/ \E t \in Transfers :
       StartSend(c, t) \/ StartCancel(c, t) \/ \E received \in Quantities : StartReceive(c, t, received)

Serve(c) ==
  /\ Busy(c)
  /\ \/ \E p \in Products : LockItem(c, p) \/ MoveInTransit(c, p)
     \/ seen[c] # Idle /\ (ReadQuantity(c) \/ ReadTotal(c) \/ WriteLine(c))
     \/ CommitRows(c)
     \/ RollBack(c)

TxNext ==
  \/ \E t \in Transfers : EditTransfer(t)
  \/ \E c \in Clients : Request(c) \/ Serve(c)

TxSpec == TxInit /\ [][TxNext]_txVars

-----------------------------------------------------------------------------
(* Whatever is interleaved and whoever is rolled back, what is committed      *)
(* changes by one whole document of module Inventory at a time, computed from  *)
(* the committed state it replaces: no balance, average or ledger row is       *)
(* based on a value somebody else has changed since it was read.               *)
CommittedAsDocuments == Spec

(* No client waits, through others, for itself: the comment in apply says that *)
(* the fixed order of the locks prevents a deadlock.  (A client that waits for *)
(* a transfer's row holds nothing yet.)                                        *)
WaitsFor(c, d) ==
  Busy(c) /\ seen[c] = Idle /\ c # d /\ \E p \in Products : MayLock(c, p) /\ itemLock[p] = d

NoDeadlock ==
  \A S \in SUBSET Clients \ {{}} : \E c \in S : \A d \in S : ~WaitsFor(c, d)
=============================================================================
