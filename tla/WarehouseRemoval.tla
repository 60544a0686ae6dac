-------------------------- MODULE WarehouseRemoval --------------------------
(***************************************************************************)
(* Warehouses that are stopped and removed while documents work on them.    *)
(* WarehousesService checks and writes in separate statements, outside any   *)
(* transaction; StockService.apply and TransfersService check that a         *)
(* warehouse is active at their start and write later.  A request is modelled *)
(* by those statements: what it read is kept in the request until it writes. *)
(***************************************************************************)
EXTENDS Integers

CONSTANTS
  Warehouses,
  MainWarehouse,        \* the main warehouse, never stopped nor removed
  Transfers,
  Calls,    \* requests being served
  MaxQty,      \* bound: the quantity of the one product in a warehouse
  Nothing         \* no transfer, no warehouse row

ASSUME MainIsAWarehouse == MainWarehouse \in Warehouses

VARIABLES
  warehouse, \* warehouses: isActive, and whether deletedAt is set
  stock,     \* stock_levels of the product
  transfer,  \* stock_transfers: status, from, to (every line has one unit)
  call,   \* what each request is about to do next, with what it has read
  contended  \* history: warehouses that two requests worked on at the same time

removalVars == <<warehouse, stock, transfer, call, contended>>

-----------------------------------------------------------------------------
Unasked == [do |-> "idle", w |-> MainWarehouse, t |-> Nothing, other |-> MainWarehouse, n |-> 0, row |-> Nothing]

Ask(do, w) == [Unasked EXCEPT !.do = do, !.w = w]

Active(w) == warehouse[w].isActive /\ ~warehouse[w].deleted

Open == {"draft", "in_transit"}
OpenTransfers(w) ==
  {t \in Transfers : transfer[t].status \in Open /\ w \in {transfer[t].from, transfer[t].to}}

RemovalInit ==
  /\ warehouse = [w \in Warehouses |-> [isActive |-> TRUE, deleted |-> FALSE]]
  /\ stock = [w \in Warehouses |-> 0]
  /\ transfer = [t \in Transfers |-> [status |-> "none", from |-> MainWarehouse, to |-> MainWarehouse]]
  /\ call = [r \in Calls |-> Unasked]
  /\ contended = {}

(* A request that has something left to do goes on with step *)
At(r, do) == call[r].do = do
Continue(r, step) == call' = [call EXCEPT ![r] = step]
Then(r, do) == Continue(r, [call[r] EXCEPT !.do = do])
End(r) == Continue(r, Unasked)

(* The warehouses a request works on: one, or the two of a transfer *)
Touched(step) == IF step.do = "idle" THEN {} ELSE {step.w, step.other} \ {MainWarehouse}

-----------------------------------------------------------------------------
(* WarehousesService.remove: findOne, the count of balances, the count of open *)
(* transfers, and softRemove, four statements                                  *)
Remove(r, w) ==
  /\ At(r, "idle") /\ w # MainWarehouse /\ ~warehouse[w].deleted
  /\ Continue(r, Ask("count_stock", w))
  /\ UNCHANGED <<warehouse, stock, transfer>>

CountStock(r) ==
  /\ At(r, "count_stock")
  /\ IF stock[call[r].w] # 0 THEN End(r) ELSE Then(r, "count_transfers")
  /\ UNCHANGED <<warehouse, stock, transfer>>

(* slip: only the transfers that leave the warehouse are counted               *)
(* (RemovedHoldsNothing)                                                       *)
CountTransfersOut(r) ==
  /\ At(r, "count_transfers")
  /\ IF \E t \in OpenTransfers(call[r].w) : transfer[t].from = call[r].w
     THEN End(r) ELSE Then(r, "soft_remove")
  /\ UNCHANGED <<warehouse, stock, transfer>>

CountTransfers(r) ==
  /\ At(r, "count_transfers")
  /\ IF OpenTransfers(call[r].w) # {} THEN End(r) ELSE Then(r, "soft_remove")
  /\ UNCHANGED <<warehouse, stock, transfer>>

SoftRemove(r) ==
  /\ At(r, "soft_remove")
  /\ warehouse' = [warehouse EXCEPT ![call[r].w].deleted = TRUE]
  /\ End(r)
  /\ UNCHANGED <<stock, transfer>>

(* WarehousesService.update: findOne, for a stop the count of open transfers,  *)
(* and save, which writes back the row as it was read with isActive as asked   *)
UpdateWarehouse(r, w, isActive) ==
  /\ At(r, "idle") /\ ~warehouse[w].deleted
  /\ ~isActive => w # MainWarehouse
  /\ Continue(r, [Ask(IF ~isActive /\ warehouse[w].isActive THEN "count_before_stop" ELSE "save", w)
                    EXCEPT !.row = [warehouse[w] EXCEPT !.isActive = isActive]])
  /\ UNCHANGED <<warehouse, stock, transfer>>

(* slip: a stop does not look at transfers (StoppedHasNoTransfer) *)
CountBeforeStopNot(r) ==
  /\ At(r, "count_before_stop")
  /\ Then(r, "save")
  /\ UNCHANGED <<warehouse, stock, transfer>>

CountBeforeStop(r) ==
  /\ At(r, "count_before_stop")
  /\ IF OpenTransfers(call[r].w) # {} THEN End(r) ELSE Then(r, "save")
  /\ UNCHANGED <<warehouse, stock, transfer>>

Save(r) ==
  /\ At(r, "save")
  /\ warehouse' = [warehouse EXCEPT ![call[r].w] = call[r].row]
  /\ End(r)
  /\ UNCHANGED <<stock, transfer>>

-----------------------------------------------------------------------------
(* A document of n units (negative: out): findActiveByIds when apply starts,   *)
(* the quantity at its end, under the item's lock                              *)
Begin(r, w, n) ==
  /\ At(r, "idle") /\ Active(w)
  /\ Continue(r, [Ask("post", w) EXCEPT !.n = n])
  /\ UNCHANGED <<warehouse, stock, transfer>>

Post(r) ==
  /\ At(r, "post")
  /\ IF stock[call[r].w] + call[r].n \in 0..MaxQty
     THEN stock' = [stock EXCEPT ![call[r].w] = @ + call[r].n]
     ELSE UNCHANGED stock \* refused: it would overdraw (or pass the bound)
  /\ End(r)
  /\ UNCHANGED <<warehouse, transfer>>

(* send, receive and cancel hold the transfer's row from the test of its       *)
(* status to the commit: two of them never work on one transfer together       *)
RowFree(t) == \A q \in Calls : call[q].do \in {"send", "receive", "take_back"} => call[q].t # t

(* TransfersService.create and update: assertValid before the transaction *)
Draft(r, t, from, to) ==
  /\ At(r, "idle") /\ from # to /\ Active(from) /\ Active(to)
  /\ transfer[t].status \in {"none", "draft"}
  /\ Continue(r, [Ask("write_draft", from) EXCEPT !.t = t, !.other = to])
  /\ UNCHANGED <<warehouse, stock, transfer>>

WriteDraft(r) ==
  LET t == call[r].t
  IN  /\ At(r, "write_draft")
      /\ RowFree(t)
      /\ IF transfer[t].status \in {"none", "draft"}
         THEN transfer' = [transfer EXCEPT ![t] =
                [status |-> "draft", from |-> call[r].w, to |-> call[r].other]]
         ELSE UNCHANGED transfer
      /\ End(r)
      /\ UNCHANGED <<warehouse, stock>>

Work(r, t, status, do, w, other) ==
  /\ At(r, "idle") /\ RowFree(t)
  /\ transfer[t].status = status
  /\ Active(w)
  /\ Continue(r, [Ask(do, w) EXCEPT !.t = t, !.other = other])
  /\ UNCHANGED <<warehouse, stock, transfer>>

StartSend(r, t) == Work(r, t, "draft", "send", transfer[t].from, transfer[t].to)
StartReceive(r, t) == Work(r, t, "in_transit", "receive", transfer[t].to, transfer[t].from)
StartCancel(r, t) == Work(r, t, "in_transit", "take_back", transfer[t].from, transfer[t].to)

(* The commit of the three: n units enter the warehouse the request works on *)
CommitTransfer(r, do, n, status) ==
  /\ At(r, do)
  /\ IF stock[call[r].w] + n \in 0..MaxQty
     THEN /\ stock' = [stock EXCEPT ![call[r].w] = @ + n]
          /\ transfer' = [transfer EXCEPT ![call[r].t].status = status]
     ELSE UNCHANGED <<stock, transfer>>
  /\ End(r)
  /\ UNCHANGED warehouse

Send(r) == CommitTransfer(r, "send", -1, "in_transit")
Receive(r) == CommitTransfer(r, "receive", 1, "received")
TakeBack(r) == CommitTransfer(r, "take_back", 1, "cancelled")

CancelDraft(r, t) ==
  /\ At(r, "idle") /\ RowFree(t)
  /\ transfer[t].status = "draft"
  /\ transfer' = [transfer EXCEPT ![t].status = "cancelled"]
  /\ UNCHANGED <<warehouse, stock, call>>

-----------------------------------------------------------------------------
Manage(r) ==
  \/ \E w \in Warehouses : Remove(r, w) \/ \E isActive \in BOOLEAN : UpdateWarehouse(r, w, isActive)
  \/ CountStock(r) \/ CountTransfers(r) \/ SoftRemove(r)
  \/ CountBeforeStop(r) \/ Save(r)

Trade(r) ==
  \/ \E w \in Warehouses, n \in {-1, 1} : Begin(r, w, n)
  \/ \E t \in Transfers, from, to \in Warehouses : Draft(r, t, from, to)
  \/ \E t \in Transfers : StartSend(r, t) \/ StartReceive(r, t) \/ StartCancel(r, t) \/ CancelDraft(r, t)
  \/ Post(r) \/ WriteDraft(r) \/ Send(r) \/ Receive(r) \/ TakeBack(r)

RemovalNext ==
  \E r \in Calls :
    /\ Manage(r) \/ Trade(r)
    /\ contended' = contended \cup
         UNION {Touched(call[q]) \cap Touched(call'[r]) : q \in Calls \ {r}}

RemovalSpec == RemovalInit /\ [][RemovalNext]_removalVars

-----------------------------------------------------------------------------
(* A removed warehouse holds no stock and no transfer that is still open:      *)
(* "no warehouse with balances or open transfers is deleted" (remove).  Its     *)
(* goods could no longer be sold, counted, received or taken back.  The checks  *)
(* are not under a lock: it is promised for warehouses nobody contended for.   *)
RemovedHoldsNothing ==
  \A w \in Warehouses \ contended :
    warehouse[w].deleted => stock[w] = 0 /\ OpenTransfers(w) = {}

(* A stopped warehouse has no open transfer, which nobody could send or receive *)
(* (update), again where nobody contended for it.                               *)
StoppedHasNoTransfer ==
  \A w \in Warehouses \ contended : ~warehouse[w].isActive => OpenTransfers(w) = {}

(* A warehouse that is gone or stopped left nothing behind *)
WarehouseLeftClean == RemovedHoldsNothing /\ StoppedHasNoTransfer
=============================================================================
