----------------------------- MODULE Delivery ------------------------------
(***************************************************************************)
(* Delivery orders around sales invoices (DeliveryService).  Most steps are   *)
(* one transaction that locks the order; making an order, cancelling one     *)
(* whose invoice is a draft, and an operation from a driver's phone are       *)
(* several, and a request is modelled by what is left of them.  An order is   *)
(* named after its invoice, which it has for itself.  Every invoice has Amount *)
(* units of 1.                                                               *)
(***************************************************************************)
EXTENDS Integers, FiniteSets, UnitSums

CONSTANTS
  Orders,
  Agents,         \* drivers and carriers
  Requests,
  Amount,          \* of an invoice
  MaxSettlements, \* bound
  None

ASSUME DeliveryAssumption ==
  /\ Amount \in Nat \ {0} /\ MaxSettlements \in Nat
  /\ None \notin Agents

VARIABLES
  order,       \* delivery_orders: status, agentId, codAmount, cod, whether it is settled
  invoice,     \* its invoice, with the receipt that paid it and what was given back by courier
  settlements, \* delivery_settlements: number, agent, orders, collectedTotal
  request,     \* what each request has left to do, with what it has read
  happened     \* history: a request stopped half-way ("stop"), the desk gave back or
               \* cancelled a part ("desk"), an order was assigned while a request was
               \* at work on it ("assign")

vars == <<order, invoice, settlements, request, happened>>

-----------------------------------------------------------------------------
Closed == {"delivered", "failed"}
Waiting == {"new", "assigned"}

NoOrder == [status |-> "none", agent |-> None, cod |-> FALSE, codAmount |-> 0, settled |-> FALSE]
NoInvoice == [status |-> "none", known |-> FALSE, paid |-> 0, returned |-> 0,
              byCourier |-> FALSE, receipt |-> 0, back |-> 0]
Idle == [do |-> "idle", o |-> None, agent |-> None, status |-> "none"]

Init ==
  /\ order = [o \in Orders |-> NoOrder]
  /\ invoice = [o \in Orders |-> NoInvoice]
  /\ settlements = {}
  /\ request = [r \in Requests |-> Idle]
  /\ happened = {}

At(r, do) == request[r].do = do
Continue(r, step) == request' = [request EXCEPT ![r] = step]
Then(r, do) == Continue(r, [request[r] EXCEPT !.do = do])
End(r) == Continue(r, Idle)
Happens(what) == happened' = happened \cup {what}
Alone == \A r \in Requests : At(r, "idle")

(* What the customer paid is on the agent until it is settled *)
OnAgent(i) == (IF i.byCourier THEN i.receipt ELSE 0) - i.back

(* issueWithin with one payment of the whole invoice *)
IssuedPaid(i, courier) ==
  [i EXCEPT !.status = "issued", !.paid = Amount, !.byCourier = courier, !.receipt = Amount]

-----------------------------------------------------------------------------
(* createOrder: a draft invoice in a transaction, then the order in another;    *)
(* when that one fails the draft is cancelled                                   *)
CreateInvoice(r, o, known) ==
  /\ At(r, "idle") /\ invoice[o].status = "none"
  /\ invoice' = [invoice EXCEPT ![o].status = "draft", ![o].known = known]
  /\ Continue(r, [Idle EXCEPT !.do = "create", !.o = o])
  /\ UNCHANGED <<order, settlements>>

CreateOrder(r, agent, cod) ==
  /\ At(r, "create")
  /\ order' = [order EXCEPT ![request[r].o] =
       [NoOrder EXCEPT !.status = IF agent = None THEN "new" ELSE "assigned", !.agent = agent,
                       !.cod = cod, !.codAmount = IF cod THEN Amount ELSE 0]]
  /\ End(r)
  /\ UNCHANGED <<invoice, settlements>>

CreateFails(r) ==
  /\ At(r, "create")
  /\ Then(r, "cancel_orphan")
  /\ UNCHANGED <<order, invoice, settlements>>

(* slip: the draft of an order that was not saved stays (DraftHasOpenOrder) *)
KeepOrphan(r) ==
  /\ At(r, "cancel_orphan")
  /\ End(r)
  /\ UNCHANGED <<order, invoice, settlements>>

CancelOrphan(r) ==
  /\ At(r, "cancel_orphan")
  /\ invoice' = [invoice EXCEPT ![request[r].o].status = "cancelled"]
  /\ End(r)
  /\ UNCHANGED <<order, settlements>>

-----------------------------------------------------------------------------
(* A till sells for delivery: the invoice is issued with the sale, and          *)
(* recordFromPos makes its order later, once                                    *)
PosSale(o, known, courier) ==
  /\ invoice[o].status = "none"
  /\ invoice' = [invoice EXCEPT ![o] = IssuedPaid([NoInvoice EXCEPT !.known = known], courier)]
  /\ UNCHANGED <<order, settlements, request>>

RecordFromPos(o, agent, out) ==
  /\ invoice[o].status = "issued" /\ order[o].status = "none"
  /\ order' = [order EXCEPT ![o] =
       [NoOrder EXCEPT !.status = CASE agent = None -> "new"
                                    [] agent # None /\ out -> "out"
                                    [] OTHER -> "assigned",
                       !.agent = agent, !.cod = invoice[o].byCourier,
                       !.codAmount = IF invoice[o].byCourier THEN Amount ELSE 0]]
  /\ UNCHANGED <<invoice, settlements, request>>

-----------------------------------------------------------------------------
(* The transactions on a locked order *)
Assign(o, agent) ==
  /\ order[o].status \in Waiting
  /\ order' = [order EXCEPT ![o].status = "assigned", ![o].agent = agent]
  /\ UNCHANGED <<invoice, settlements>>

(* The invoice is issued and paid when the goods go out, unless a till did so   *)
Dispatch(o) ==
  /\ order[o].status = "assigned"
  /\ order' = [order EXCEPT ![o].status = "out"]
  /\ \/ invoice[o].status = "issued" /\ UNCHANGED invoice
     \/ /\ invoice[o].status = "draft"
        /\ invoice' = [invoice EXCEPT ![o] = IssuedPaid(@, order[o].cod)]
  /\ UNCHANGED settlements

Deliver(o) ==
  /\ order[o].status = "out"
  /\ order' = [order EXCEPT ![o].status = "delivered"]
  /\ UNCHANGED <<invoice, settlements>>

(* slip: what the courier was to collect is given back in cash                 *)
(* (CourierOwesReceipts)                                                        *)
ReverseInCash(o) ==
  /\ invoice[o].returned < Amount
  /\ invoice' = [invoice EXCEPT ![o].returned = Amount, ![o].paid = 0]

(* reverseInvoice: the rest is returned and all that is paid given back, by     *)
(* courier or as it was prepaid; it is refused when nothing is left to return   *)
Reverse(o) ==
  /\ invoice[o].returned < Amount
  /\ invoice' = [invoice EXCEPT ![o].returned = Amount, ![o].paid = 0,
                                ![o].back = @ + IF order[o].cod THEN invoice[o].paid ELSE 0]

(* slip: the order of a failed delivery keeps its amount and its money          *)
(* (ReversedInFull)                                                             *)
FailKeepingMoney(o) ==
  /\ order[o].status = "out"
  /\ invoice' = [invoice EXCEPT ![o].returned = Amount]
  /\ order' = [order EXCEPT ![o].status = "failed"]
  /\ UNCHANGED settlements

Fail(o) ==
  /\ order[o].status = "out"
  /\ Reverse(o)
  /\ order' = [order EXCEPT ![o].status = "failed", ![o].codAmount = 0]
  /\ UNCHANGED settlements

(* slip: an order that was settled is taken again (SettledOnce) *)
SettlesAgain(agent, orders) ==
  \A o \in orders : order[o].agent = agent /\ order[o].status \in Closed

(* settle: finished orders of one agent that no settlement took *)
Settles(agent, orders) ==
  \A o \in orders : order[o].agent = agent /\ ~order[o].settled /\ order[o].status \in Closed

Collected(orders) ==
  Total([o \in {p \in orders : order[p].status = "delivered"} |-> order[o].codAmount])

Settle(agent, orders) ==
  /\ Cardinality(settlements) < MaxSettlements
  /\ Settles(agent, orders)
  /\ settlements' = settlements \cup 
       {[number |-> Cardinality(settlements) + 1, agent |-> agent, orders |-> orders,
         collected |-> Collected(orders)]}
  /\ order' = [o \in Orders |-> [order[o] EXCEPT !.settled = @ \/ o \in orders]]
  /\ UNCHANGED invoice

-----------------------------------------------------------------------------
(* runDriverOperation: the order is read, then the transaction is run, which    *)
(* does not look at the agent again                                             *)
DriverOperations == {"pickup", "deliver", "fail"}

Possible(do, o) ==
  CASE do = "pickup" -> order[o].status = "assigned" /\ invoice[o].status \in {"draft", "issued"}
    [] do = "deliver" -> order[o].status = "out"
    [] do = "fail" -> order[o].status = "out" /\ invoice[o].returned < Amount

Operation(do, o) ==
  \/ do = "pickup" /\ Dispatch(o)
  \/ do = "deliver" /\ Deliver(o)
  \/ do = "fail" /\ Fail(o)

Reached(do) ==
  CASE do = "pickup" -> {"out", "delivered", "failed"}
    [] do = "deliver" -> {"delivered"}
    [] do = "fail" -> {"failed"}

(* slip: the agent of the order is not looked at (DriverActsOnOwn) *)
DriverMayAny(agent, do, o) == order[o].status \notin {"none", "cancelled"} \cup Reached(do)

DriverMay(agent, do, o) ==
  order[o].agent = agent /\ order[o].status \notin {"none", "cancelled"} \cup Reached(do)

DriverOperation(r, agent, do, o) ==
  /\ At(r, "idle")
  /\ DriverMay(agent, do, o)
  /\ Continue(r, [Idle EXCEPT !.do = do, !.o = o, !.agent = agent])
  /\ UNCHANGED <<order, invoice, settlements>>

RunDriver(r) ==
  /\ request[r].do \in DriverOperations
  /\ IF Possible(request[r].do, request[r].o)
     THEN Operation(request[r].do, request[r].o)
     ELSE UNCHANGED <<order, invoice, settlements>>
  /\ End(r)

-----------------------------------------------------------------------------
(* cancel reads the order and its invoice ..                                    *)
Cancel(r, o) ==
  /\ At(r, "idle")
  /\ order[o].status \in Waiting
  /\ Continue(r, [Idle EXCEPT !.do = IF invoice[o].status = "issued" THEN "cancel_issued" ELSE "cancel_draft",
                              !.o = o, !.status = order[o].status])
  /\ UNCHANGED <<order, invoice, settlements>>

(* .. an issued invoice is reversed with the order locked ..                    *)
CancelIssued(r) ==
  /\ At(r, "cancel_issued")
  /\ LET o == request[r].o
     IN  IF order[o].status \in Waiting /\ invoice[o].returned < Amount
         THEN Reverse(o) /\ order' = [order EXCEPT ![o].status = "cancelled", ![o].codAmount = 0]
         ELSE UNCHANGED <<order, invoice>>
  /\ End(r)
  /\ UNCHANGED settlements

(* .. and for a draft the order is cancelled if it is still as it was read,     *)
(* then the invoice, and when that fails the order is put back                  *)
CancelDraft(r) ==
  /\ At(r, "cancel_draft")
  /\ IF order[request[r].o].status = request[r].status
     THEN order' = [order EXCEPT ![request[r].o].status = "cancelled"] /\ Then(r, "cancel_invoice")
     ELSE UNCHANGED order /\ End(r)
  /\ UNCHANGED <<invoice, settlements>>

CancelInvoice(r) ==
  /\ At(r, "cancel_invoice") /\ invoice[request[r].o].status = "draft"
  /\ invoice' = [invoice EXCEPT ![request[r].o].status = "cancelled"]
  /\ End(r)
  /\ UNCHANGED <<order, settlements>>

CancelFails(r) ==
  /\ At(r, "cancel_invoice")
  /\ Then(r, "restore")
  /\ UNCHANGED <<order, invoice, settlements>>

Restore(r) ==
  /\ At(r, "restore")
  /\ order' = [order EXCEPT ![request[r].o].status = request[r].status]
  /\ End(r)
  /\ UNCHANGED <<invoice, settlements>>

(* The server stops between two transactions, or the second fails as well       *)
Stop(r) ==
  /\ ~At(r, "idle")
  /\ End(r)
  /\ UNCHANGED <<order, invoice, settlements>>

-----------------------------------------------------------------------------
(* SalesReturnsService, from the office or a till: a part is returned and what  *)
(* is overpaid given back in cash, wholly to a customer without an account      *)
AtLeastZero(n) == IF n < 0 THEN 0 ELSE n
Overpaid(i) == AtLeastZero(i.paid - (Amount - i.returned))

Return(o, quantity, refund) ==
  /\ invoice[o].status = "issued"
  /\ quantity <= Amount - invoice[o].returned
  /\ LET back == [invoice[o] EXCEPT !.returned = @ + quantity]
     IN  /\ IF invoice[o].known THEN refund <= Overpaid(back) ELSE refund = Overpaid(back)
         /\ invoice' = [invoice EXCEPT ![o] = [back EXCEPT !.paid = @ - refund]]
  /\ UNCHANGED <<order, settlements, request>>

(* CustomerPaymentsService.cancel, of a customer with an account *)
CancelReceipt(o) ==
  /\ invoice[o].known /\ invoice[o].receipt > 0
  /\ invoice' = [invoice EXCEPT ![o].paid = AtLeastZero(@ - invoice[o].receipt), ![o].receipt = 0]
  /\ UNCHANGED <<order, settlements, request>>

-----------------------------------------------------------------------------
Create ==
  \E r \in Requests :
    \/ \E o \in Orders, known \in BOOLEAN : CreateInvoice(r, o, known)
    \/ \E agent \in Agents \cup {None}, cod \in BOOLEAN : CreateOrder(r, agent, cod)
    \/ CreateFails(r) \/ CancelOrphan(r)

Till ==
  \E o \in Orders :
    \/ \E known, courier \in BOOLEAN : PosSale(o, known, courier)
    \/ \E agent \in Agents \cup {None}, out \in BOOLEAN : RecordFromPos(o, agent, out)

Office ==
  /\ \/ \E o \in Orders : Dispatch(o) \/ Deliver(o) \/ Fail(o)
     \/ \E agent \in Agents, orders \in SUBSET Orders \ {{}} : Settle(agent, orders)
  /\ UNCHANGED request

Driver ==
  \E r \in Requests :
    \/ \E agent \in Agents, do \in DriverOperations, o \in Orders : DriverOperation(r, agent, do, o)
    \/ RunDriver(r)

CancelOrder ==
  \E r \in Requests :
    \/ \E o \in Orders : Cancel(r, o)
    \/ CancelIssued(r) \/ CancelDraft(r) \/ CancelInvoice(r) \/ CancelFails(r) \/ Restore(r)

Desk ==
  \E o \in Orders :
    \/ \E quantity \in 1 .. Amount, refund \in 0 .. Amount : Return(o, quantity, refund)
    \/ CancelReceipt(o)

AssignOrder ==
  \E o \in Orders, agent \in Agents :
    /\ Assign(o, agent)
    /\ UNCHANGED request
    /\ IF \E r \in Requests : request[r].do \in DriverOperations /\ request[r].o = o
       THEN Happens("assign") ELSE UNCHANGED happened

Next ==
  \/ /\ Create \/ Till \/ Office \/ Driver \/ CancelOrder
     /\ UNCHANGED happened
  \/ AssignOrder
  \/ (\E r \in Requests : Stop(r)) /\ Happens("stop")
  \/ Desk /\ Happens("desk")

Spec == Init /\ [][Next]_vars

-----------------------------------------------------------------------------
(* An order that was not delivered, or cancelled after its invoice was issued,   *)
(* leaves nothing behind: all its goods are back and nothing is paid on it       *)
(* (reverseInvoice and returnInFull).                                            *)
ReversedInFull ==
  \A o \in Orders :
    /\ order[o].status = "failed" => invoice[o].returned = Amount /\ invoice[o].paid = 0
    /\ order[o].status = "cancelled" /\ invoice[o].status = "issued" =>
         invoice[o].returned = Amount /\ invoice[o].paid = 0

(* What the agent is to hand over for an order on the road or delivered is what  *)
(* the receipts of its invoice say the agent holds, and nothing of an order that *)
(* came back, as long as the desk leaves the invoice alone (dispatch, fail,      *)
(* cancel; the accounts and the settlement read one each).                       *)
CourierOwesReceipts ==
  "desk" \notin happened =>
    \A o \in Orders :
      /\ order[o].status \in {"out", "delivered"} => OnAgent(invoice[o]) = order[o].codAmount
      /\ order[o].status = "failed" => OnAgent(invoice[o]) = 0

(* An order is settled once, finished and with its own agent, and the total of a *)
(* settlement is what its delivered orders were to collect, ever after (settle). *)
SettledOnce ==
  /\ \A s, t \in settlements : s.orders \cap t.orders # {} => s = t
  /\ \A s \in settlements :
       /\ \A o \in s.orders : order[o].settled /\ order[o].agent = s.agent /\ order[o].status \in Closed
       /\ s.collected = Collected(s.orders)

(* No invoice of a delivery stays a draft without an order that can issue or     *)
(* cancel it, when no request is at work and none stopped half-way (createOrder  *)
(* and cancel put back what their second transaction could not finish).          *)
DraftHasOpenOrder ==
  "stop" \notin happened /\ Alone =>
    \A o \in Orders : invoice[o].status = "draft" => order[o].status \in Waiting

(* A driver's operation changes orders that are the driver's own, whatever other *)
(* requests do meanwhile except giving the order to another driver (syncDriver). *)
DriverActsOnOwn(r) ==
  /\ "assign" \notin happened
  /\ request[r].do \in DriverOperations
  /\ request'[r].do = "idle"
  /\ order'[request[r].o] # order[request[r].o]
  => order[request[r].o].agent = request[r].agent

DriversOwnOrders == [][\A r \in Requests : DriverActsOnOwn(r)]_vars

(* The money of deliveries is with its agent once, until it is settled *)
MoneyOfAgents == CourierOwesReceipts /\ SettledOnce

(* Nothing is left of an order that came to nothing, and no draft without its order *)
NothingLeftOver == ReversedInFull /\ DraftHasOpenOrder
=============================================================================
