----------------------------- MODULE Purchasing -----------------------------
(***************************************************************************)
(* Purchases: invoices of suppliers, their payments and their returns.  An     *)
(* invoice has one line; amounts are whole units of the smallest coin.  What is *)
(* owed to a supplier is computed from documents, and what is left of an        *)
(* invoice is kept on the invoice.  A request that reads before its transaction *)
(* is two steps.                                                                 *)
(***************************************************************************)
EXTENDS Integers, FiniteSets, UnitSums

CONSTANTS
  Suppliers, Invoices, Returns, Payments,
  Desks,        \* requests at work
  LineQuantities, Prices, Rates,   \* of a line; rates in percent
  Amounts,      \* of a payment
  NoDocument

VARIABLES
  suppliers,
  invoices,   \* purchase_invoices with their line
  returns,    \* purchase_returns
  payments,   \* supplier_payments
  goods,      \* what the movements of each invoice and its returns add up to
  purchaseWork,   \* what each request has read
  crossed     \* history: suppliers whose removal overlapped a document of theirs being entered

purchaseVars == <<suppliers, invoices, returns, payments, goods, purchaseWork, crossed>>

-----------------------------------------------------------------------------
PurchaseLine == [quantity : LineQuantities, unitPrice : Prices, taxRate : Rates]

(* What the DTOs take: no quantity and no payment of nothing, but a price of nothing *)
ASSUME PurchasingAssumption ==
  /\ IsFiniteSet(Invoices) /\ IsFiniteSet(Returns) /\ IsFiniteSet(Payments)
  /\ LineQuantities \subseteq Nat \ {0} /\ Prices \subseteq Nat /\ Rates \subseteq Nat
  /\ Amounts \subseteq Nat \ {0}
  /\ NoDocument \notin Suppliers /\ NoDocument \notin Invoices

PurchaseInvoice ==
  [status : {"none", "draft", "posted", "cancelled"}, supplier : Suppliers \cup {NoDocument},
   line : PurchaseLine \cup {NoDocument}, returnedQuantity : Nat, returnedAmount : Nat, paidAmount : Nat]

NewInvoice == [status |-> "none", supplier |-> NoDocument, line |-> NoDocument,
               returnedQuantity |-> 0, returnedAmount |-> 0, paidAmount |-> 0]

PurchaseReturnRow ==
  [status : {"none", "draft", "posted", "cancelled"}, invoice : Invoices \cup {NoDocument},
   quantity : Nat, total : Nat]

SupplierPayment ==
  [status : {"none", "posted", "cancelled"}, supplier : Suppliers \cup {NoDocument},
   invoice : Invoices \cup {NoDocument}, amount : Nat]

NoWork == [do |-> "none", document |-> NoDocument, supplier |-> NoDocument, line |-> NoDocument]

PurchasesInit ==
  /\ suppliers = [s \in Suppliers |-> "none"]
  /\ invoices = [i \in Invoices |-> NewInvoice]
  /\ returns = [x \in Returns |-> [status |-> "none", invoice |-> NoDocument, quantity |-> 0, total |-> 0]]
  /\ payments = [p \in Payments |-> [status |-> "none", supplier |-> NoDocument,
                                     invoice |-> NoDocument, amount |-> 0]]
  /\ goods = [i \in Invoices |-> 0]
  /\ purchaseWork = [r \in Desks |-> NoWork]
  /\ crossed = {}

-----------------------------------------------------------------------------
(* computeLine, of prices without tax *)
Subtotal(line) == line.quantity * line.unitPrice
Tax(line) == RoundedQuotient(Subtotal(line) * line.taxRate, 100)
TotalOf(line) == Subtotal(line) + Tax(line)

(* computeReturnShare: the share of the quantity in each amount, rounded *)
ReturnShare(line, quantity) ==
  RoundedQuotient(Subtotal(line) * quantity, line.quantity) + RoundedQuotient(Tax(line) * quantity, line.quantity)

(* what is left to pay of an invoice *)
Remaining(i) ==
  LET left == TotalOf(invoices[i].line) - invoices[i].returnedAmount - invoices[i].paidAmount
  IN IF left > 0 THEN left ELSE 0

Active(s) == suppliers[s] = "active"
Entering(r, s) == purchaseWork[r].do \in {"create", "update", "pay"} /\ purchaseWork[r].supplier = s
Removing(r, s) == purchaseWork[r].do = "remove" /\ purchaseWork[r].supplier = s
Cross(s, overlap) == crossed' = IF overlap THEN crossed \cup {s} ELSE crossed

AtRest(r) == purchaseWork[r] = NoWork
Leave(r) == purchaseWork' = [purchaseWork EXCEPT ![r] = NoWork]

(* BALANCE_SQL: the invoices that stand, what was sent back of them and what was paid *)
Standing(i, s) == invoices[i].status = "posted" /\ invoices[i].supplier = s
SentBack(x, i) == returns[x].status = "posted" /\ returns[x].invoice = i
Paid(p, s) == payments[p].status = "posted" /\ payments[p].supplier = s

Balance(s) ==
  Total([i \in Invoices |-> IF Standing(i, s) THEN TotalOf(invoices[i].line) ELSE 0])
  - Total([x \in Returns |->
             IF \E i \in Invoices : SentBack(x, i) /\ invoices[i].supplier = s
             THEN returns[x].total ELSE 0])
  - Total([p \in Payments |-> IF Paid(p, s) THEN payments[p].amount ELSE 0])

-----------------------------------------------------------------------------
(* SuppliersService.create, update and remove *)
CreateSupplier(s) ==
  /\ suppliers[s] = "none"
  /\ suppliers' = [suppliers EXCEPT ![s] = "active"]
  /\ UNCHANGED <<invoices, returns, payments, goods, purchaseWork, crossed>>

UpdateSupplier(s, state) ==
  /\ suppliers[s] \in {"active", "stopped"} \ {state}
  /\ suppliers' = [suppliers EXCEPT ![s] = state]
  /\ UNCHANGED <<invoices, returns, payments, goods, purchaseWork, crossed>>

DocumentsOf(s) ==
  {i \in Invoices : invoices[i].supplier = s} \cup {p \in Payments : payments[p].supplier = s}

(* remove: the documents are counted before *)
BeginRemove(r, s) ==
  /\ AtRest(r) /\ suppliers[s] \in {"active", "stopped"} /\ DocumentsOf(s) = {}
  /\ purchaseWork' = [purchaseWork EXCEPT ![r] = [NoWork EXCEPT !.do = "remove", !.supplier = s]]
  /\ Cross(s, \E d \in Desks : Entering(d, s))
  /\ UNCHANGED <<suppliers, invoices, returns, payments, goods>>

CommitRemove(r) ==
  /\ purchaseWork[r].do = "remove"
  /\ suppliers' = [suppliers EXCEPT ![purchaseWork[r].supplier] = "removed"]
  /\ Leave(r)
  /\ UNCHANGED <<invoices, returns, payments, goods, crossed>>

(* A document of a supplier is entered: what it needs is read before *)
Enter(r, work) ==
  /\ AtRest(r)
  /\ purchaseWork' = [purchaseWork EXCEPT ![r] = work]
  /\ Cross(work.supplier, \E d \in Desks : Removing(d, work.supplier))
  /\ UNCHANGED <<suppliers, invoices, returns, payments, goods>>

-----------------------------------------------------------------------------
(* PurchaseInvoicesService.create: the supplier is looked up before *)
BeginCreate(r, i, s, line) ==
  /\ invoices[i].status = "none" /\ Active(s)
  /\ Enter(r, [do |-> "create", document |-> i, supplier |-> s, line |-> line])

CommitCreate(r) ==
  LET w == purchaseWork[r]
  IN /\ w.do = "create" /\ invoices[w.document].status = "none"
     /\ invoices' = [invoices EXCEPT ![w.document] =
          [NewInvoice EXCEPT !.status = "draft", !.supplier = w.supplier, !.line = w.line]]
     /\ Leave(r)
     /\ UNCHANGED <<suppliers, returns, payments, goods, crossed>>

(* update: the draft is read before, and again when it is locked *)
BeginUpdate(r, i, s, line) ==
  /\ invoices[i].status = "draft"
  /\ s # invoices[i].supplier => Active(s)
  /\ Enter(r, [do |-> "update", document |-> i, supplier |-> s, line |-> line])

CommitUpdate(r) ==
  LET w == purchaseWork[r]
  IN /\ w.do = "update" /\ invoices[w.document].status = "draft"
     /\ invoices' = [invoices EXCEPT ![w.document].supplier = w.supplier, ![w.document].line = w.line]
     /\ Leave(r)
     /\ UNCHANGED <<suppliers, returns, payments, goods, crossed>>

GiveUp(r) ==
  /\ ~AtRest(r)
  /\ Leave(r)
  /\ UNCHANGED <<suppliers, invoices, returns, payments, goods, crossed>>

(* post: the goods come in *)
Post(i) ==
  /\ invoices[i].status = "draft" /\ Active(invoices[i].supplier)
  /\ invoices' = [invoices EXCEPT ![i].status = "posted"]
  /\ goods' = [goods EXCEPT ![i] = @ + invoices[i].line.quantity]
  /\ UNCHANGED <<suppliers, returns, payments, purchaseWork, crossed>>

(* cancel a draft, or what was posted and is neither paid nor returned in part *)
Cancel(i) ==
  /\ \/ invoices[i].status = "draft" /\ UNCHANGED goods
     \/ /\ invoices[i].status = "posted"
        /\ invoices[i].paidAmount = 0 /\ invoices[i].returnedAmount = 0
        /\ goods' = [goods EXCEPT ![i] = @ - invoices[i].line.quantity]
  /\ invoices' = [invoices EXCEPT ![i].status = "cancelled"]
  /\ UNCHANGED <<suppliers, returns, payments, purchaseWork, crossed>>

-----------------------------------------------------------------------------
(* SupplierPaymentsService.create: the supplier is looked up before; on an invoice *)
(* that is locked, or on account                                                     *)
BeginPay(r, s) == Active(s) /\ Enter(r, [NoWork EXCEPT !.do = "pay", !.supplier = s])

Payment(p, s, i, amount) ==
  /\ payments[p].status = "none"
  /\ payments' = [payments EXCEPT ![p] =
       [status |-> "posted", supplier |-> s, invoice |-> i, amount |-> amount]]

Pay(r, p, i, amount) ==
  /\ purchaseWork[r].do = "pay" /\ Standing(i, purchaseWork[r].supplier)
  /\ amount <= Remaining(i)
  /\ invoices' = [invoices EXCEPT ![i].paidAmount = @ + amount]
  /\ Payment(p, purchaseWork[r].supplier, i, amount)
  /\ Leave(r)
  /\ UNCHANGED <<suppliers, returns, goods, crossed>>

PayOnAccount(r, p, amount) ==
  /\ purchaseWork[r].do = "pay"
  /\ Payment(p, purchaseWork[r].supplier, NoDocument, amount)
  /\ Leave(r)
  /\ UNCHANGED <<suppliers, invoices, returns, goods, crossed>>

(* slip: the invoice keeps what was paid on it (PayablesAddUp) *)
PaidAsBefore(i, amount) == invoices[i].paidAmount

PaidLess(i, amount) == IF invoices[i].paidAmount > amount THEN invoices[i].paidAmount - amount ELSE 0

CancelPayment(p) ==
  LET i == payments[p].invoice
  IN /\ payments[p].status = "posted"
     /\ payments' = [payments EXCEPT ![p].status = "cancelled"]
     /\ invoices' = IF i = NoDocument THEN invoices
                    ELSE [invoices EXCEPT ![i].paidAmount = PaidLess(i, payments[p].amount)]
     /\ UNCHANGED <<suppliers, returns, goods, purchaseWork, crossed>>

-----------------------------------------------------------------------------
(* slip: the returns before it are not looked at (GoodsFollowDocuments) *)
WithinBought(i, quantity) == quantity <= invoices[i].line.quantity

(* PurchaseReturnsService: a draft within what was left when it was entered, *)
(* posted within what is left now                                              *)
WithinRemaining(i, quantity) == quantity <= invoices[i].line.quantity - invoices[i].returnedQuantity

CreateReturn(x, i, quantity) ==
  /\ returns[x].status = "none" /\ invoices[i].status = "posted"
  /\ WithinRemaining(i, quantity)
  /\ returns' = [returns EXCEPT ![x] = [status |-> "draft", invoice |-> i, quantity |-> quantity,
                                        total |-> ReturnShare(invoices[i].line, quantity)]]
  /\ UNCHANGED <<suppliers, invoices, payments, goods, purchaseWork, crossed>>

PostReturn(x) ==
  LET i == returns[x].invoice   quantity == returns[x].quantity
  IN /\ returns[x].status = "draft" /\ invoices[i].status = "posted"
     /\ WithinRemaining(i, quantity)
     /\ goods' = [goods EXCEPT ![i] = @ - quantity]
     /\ invoices' = [invoices EXCEPT ![i].returnedQuantity = @ + quantity,
                                     ![i].returnedAmount = @ + returns[x].total]
     /\ returns' = [returns EXCEPT ![x].status = "posted"]
     /\ UNCHANGED <<suppliers, payments, purchaseWork, crossed>>

CancelReturn(x) ==
  /\ returns[x].status = "draft"
  /\ returns' = [returns EXCEPT ![x].status = "cancelled"]
  /\ UNCHANGED <<suppliers, invoices, payments, goods, purchaseWork, crossed>>

-----------------------------------------------------------------------------
PurchasesNext ==
  \/ \E s \in Suppliers :
       \/ CreateSupplier(s)
       \/ \E state \in {"active", "stopped"} : UpdateSupplier(s, state)
       \/ \E r \in Desks :
            \/ BeginRemove(r, s) \/ BeginPay(r, s)
            \/ \E i \in Invoices, line \in PurchaseLine :
                 BeginCreate(r, i, s, line) \/ BeginUpdate(r, i, s, line)
  \/ \E r \in Desks :
       \/ CommitRemove(r) \/ CommitCreate(r) \/ CommitUpdate(r) \/ GiveUp(r)
       \/ \E p \in Payments, amount \in Amounts :
            PayOnAccount(r, p, amount) \/ \E i \in Invoices : Pay(r, p, i, amount)
  \/ \E i \in Invoices :
       \/ Post(i) \/ Cancel(i)
       \/ \E x \in Returns, quantity \in UNION {1..q : q \in LineQuantities} :
            CreateReturn(x, i, quantity)
  \/ \E p \in Payments : CancelPayment(p)
  \/ \E x \in Returns : PostReturn(x) \/ CancelReturn(x)

PurchasesSpec == PurchasesInit /\ [][PurchasesNext]_purchaseVars

-----------------------------------------------------------------------------
(* The rows of the tables: the services of purchasing write no other *)
PurchasesTypeOK ==
  /\ invoices \in [Invoices -> PurchaseInvoice]
  /\ returns \in [Returns -> PurchaseReturnRow]
  /\ payments \in [Payments -> SupplierPayment]

(* What is owed to a supplier by his documents is what the invoices say is left *)
(* of them, less what was paid on account: payments and returns come in any       *)
(* order, are cancelled, and drafts of returns lie about meanwhile                 *)
PayablesAddUp ==
  \A s \in Suppliers :
    Balance(s) =
      Total([i \in Invoices |->
               IF Standing(i, s)
               THEN TotalOf(invoices[i].line) - invoices[i].returnedAmount - invoices[i].paidAmount
               ELSE 0])
      - Total([p \in Payments |->
                 IF Paid(p, s) /\ payments[p].invoice = NoDocument THEN payments[p].amount ELSE 0])

(* The goods of an invoice are there as long as it stands, less what its returns *)
(* took back, and never less than none                                              *)
GoodsFollowDocuments ==
  \A i \in Invoices :
    /\ goods[i] >= 0
    /\ goods[i] = (IF invoices[i].status = "posted" THEN invoices[i].line.quantity ELSE 0)
                    - Total([x \in Returns |-> IF SentBack(x, i) THEN returns[x].quantity ELSE 0])

(* A supplier that was removed has no document, unless one was being entered while *)
(* the request that removes him was at work                                           *)
RemovedHasNoDocument ==
  \A s \in Suppliers : suppliers[s] = "removed" /\ s \notin crossed => DocumentsOf(s) = {}

(* What was cancelled was neither paid nor sent back in part                        *)
CancelledUntouched ==
  \A i \in Invoices :
    invoices[i].status = "cancelled" =>
      invoices[i].paidAmount = 0 /\ \A x \in Returns : ~SentBack(x, i)

(* Books and goods of the purchases agree                                        *)
PurchasesAddUp == PurchasesTypeOK /\ PayablesAddUp /\ GoodsFollowDocuments /\ RemovedHasNoDocument
=============================================================================
