------------------------------- MODULE Sales -------------------------------
(***************************************************************************)
(* Sales invoices, their payments and their returns (SalesInvoicesService,   *)
(* CustomerPaymentsService, SalesReturnsService) for one customer and for    *)
(* walk-in buyers.  Amounts are whole: a unit costs 1, so that an amount      *)
(* returned is a quantity.  Everything done under the invoice's row lock is   *)
(* one action; issuing an invoice is two, because issueWithin reads the draft *)
(* and the customer's balance before it takes the lock.                       *)
(***************************************************************************)
EXTENDS Integers, FiniteSets, UnitSums

CONSTANTS
  Invoices, Payments, Returns, \* documents of each kind
  Requests,        \* requests that issue an invoice
  CreditLimit,     \* the customer's
  MaxTotal,        \* bound: the total of an invoice
  None

ASSUME SalesAssumption ==
  /\ IsFiniteSet(Invoices) /\ IsFiniteSet(Payments) /\ IsFiniteSet(Returns)
  /\ CreditLimit \in Nat /\ MaxTotal \in Nat /\ None \notin Invoices

VARIABLES
  invoice,  \* sales_invoices
  payment,  \* customer_payments
  return,   \* sales_returns, each of one line
  request,  \* what an issuing request has read
  clipped,  \* history: per invoice, what a cancelled receipt did not take off paid
  calm      \* history: nobody worked between the checks and the lock of another

vars == <<invoice, payment, return, request, clipped, calm>>

-----------------------------------------------------------------------------
Amounts == 0..MaxTotal

InvoiceRow == [status : {"none", "draft", "issued", "cancelled"}, customer : BOOLEAN,
               total : Amounts, paid : Amounts, returned : Amounts]
PaymentRow == [status : {"none", "posted", "cancelled"}, customer : BOOLEAN,
               invoice : Invoices \cup {None}, direction : {"in", "out"}, amount : Amounts]
ReturnRow == [status : {"none", "draft", "issued", "cancelled"},
              invoice : Invoices \cup {None}, total : Amounts]

NoInvoice == [status |-> "none", customer |-> FALSE, total |-> 0, paid |-> 0, returned |-> 0]
NoPayment == [status |-> "none", customer |-> FALSE, invoice |-> None, direction |-> "in", amount |-> 0]
NoReturn == [status |-> "none", invoice |-> None, total |-> 0]
Idle == [invoice |-> None, tendered |-> 0]

(* What is left to pay, and what was paid beyond the net amount (AfterLoad)   *)
AtLeastZero(n) == IF n < 0 THEN 0 ELSE n
(* slip: what was returned is still asked for (BalanceIsInvoices) *)
RemainingOfTotal(row) == AtLeastZero(row.total - row.paid)

Remaining(row) == AtLeastZero(row.total - row.returned - row.paid)
Overpaid(row) == AtLeastZero(row.paid - (row.total - row.returned))

(* What the payment rows say was collected, less what was paid back *)
Signed(p) == IF payment[p].direction = "in" THEN payment[p].amount ELSE -payment[p].amount
Posted(p) == payment[p].status = "posted"
Collected(i) ==
  Total([p \in Payments |-> IF Posted(p) /\ payment[p].invoice = i THEN Signed(p) ELSE 0])

(* CUSTOMER_BALANCE_SQL: what the customer owes, from the documents alone     *)
Balance ==
  Total([i \in Invoices |-> IF invoice[i].status = "issued" /\ invoice[i].customer
                            THEN invoice[i].total ELSE 0])
  - Total([k \in Returns |-> IF return[k].status = "issued" /\ invoice[return[k].invoice].customer
                             THEN return[k].total ELSE 0])
  - Total([p \in Payments |-> IF Posted(p) /\ payment[p].customer THEN Signed(p) ELSE 0])

-----------------------------------------------------------------------------
Init ==
  /\ invoice = [i \in Invoices |-> NoInvoice]
  /\ payment = [p \in Payments |-> NoPayment]
  /\ return = [k \in Returns |-> NoReturn]
  /\ request = [r \in Requests |-> Idle]
  /\ clipped = [i \in Invoices |-> 0]
  /\ calm = TRUE

(* The next free document of a kind, for instance a payment *)
Unused(documents) == {d \in DOMAIN documents : documents[d].status = "none"}

Create(i, customer, total) ==
  /\ invoice[i].status = "none"
  /\ invoice' = [invoice EXCEPT ![i] =
       [NoInvoice EXCEPT !.status = "draft", !.customer = customer, !.total = total]]
  /\ UNCHANGED <<payment, return, request>>

Update(i, customer, total) ==
  /\ invoice[i].status = "draft"
  /\ invoice' = [invoice EXCEPT ![i] = [@ EXCEPT !.customer = customer, !.total = total]]
  /\ UNCHANGED <<payment, return, request>>

Cancel(i) ==
  /\ invoice[i].status = "draft"
  /\ invoice' = [invoice EXCEPT ![i].status = "cancelled"]
  /\ UNCHANGED <<payment, return, request>>

(* recordPayment: a row of customer_payments for an invoice or on account      *)
Record(p, customer, i, direction, amount) ==
  payment' = [payment EXCEPT ![p] = [status |-> "posted", customer |-> customer, invoice |-> i,
                                     direction |-> direction, amount |-> amount]]

(* The rows for what is tendered when an invoice is issued: none for nothing   *)
Tender(customer, i, amount) ==
  IF amount = 0 THEN UNCHANGED payment
  ELSE \E p \in Unused(payment) : Record(p, customer, i, "in", amount)

(* slip: the limit is compared with the balance before this sale               *)
(* (IssuedWithinLimit)                                                         *)
WithinLimitBefore(credit) == Balance <= CreditLimit

WithinLimit(credit) == Balance + credit <= CreditLimit

(* slip: what is tendered is not compared with the total (TenderedWithinTotal) *)
CheckIssueUncapped(r, i, tendered) ==
  /\ request[r] = Idle
  /\ invoice[i].status = "draft"
  /\ IF invoice[i].customer THEN WithinLimit(invoice[i].total - tendered)
     ELSE tendered = invoice[i].total
  /\ request' = [request EXCEPT ![r] = [invoice |-> i, tendered |-> tendered]]
  /\ UNCHANGED <<invoice, payment, return>>

(* issueWithin, before the lock: the draft as it is read, and the balance      *)
CheckIssue(r, i, tendered) ==
  /\ request[r] = Idle
  /\ invoice[i].status = "draft"
  /\ tendered <= invoice[i].total
  /\ IF invoice[i].customer THEN WithinLimit(invoice[i].total - tendered)
     ELSE tendered = invoice[i].total
  /\ request' = [request EXCEPT ![r] = [invoice |-> i, tendered |-> tendered]]
  /\ UNCHANGED <<invoice, payment, return>>

(* issueWithin, from the lock on: only the status is looked at again           *)
Issue(r) ==
  LET i == request[r].invoice
  IN  /\ request[r] # Idle
      /\ invoice[i].status = "draft"
      /\ Tender(invoice[i].customer, i, request[r].tendered)
      /\ invoice' = [invoice EXCEPT ![i].status = "issued", ![i].paid = request[r].tendered]
      /\ request' = [request EXCEPT ![r] = Idle]
      /\ UNCHANGED return

(* The status is not draft any more, or the stock does not suffice             *)
FailIssue(r) ==
  /\ request[r] # Idle
  /\ request' = [request EXCEPT ![r] = Idle]
  /\ UNCHANGED <<invoice, payment, return>>

(* recordPosSale: an invoice issued on a till is recorded as it was printed;   *)
(* nobody else knows it yet, and its credit was checked on the till            *)
RecordPosSale(i, customer, total, tendered) ==
  /\ invoice[i].status = "none"
  /\ tendered <= total
  /\ tendered < total => customer
  /\ Tender(customer, i, tendered)
  /\ invoice' = [invoice EXCEPT ![i] =
       [status |-> "issued", customer |-> customer, total |-> total, paid |-> tendered,
        returned |-> 0]]
  /\ UNCHANGED <<return, request>>

-----------------------------------------------------------------------------
(* CustomerPaymentsService *)

(* slip: only a walk-in buyer's payment is compared with what is left (TypeOK) *)
PayAnyAmount(p, i, amount) ==
  /\ payment[p].status = "none"
  /\ invoice[i].status = "issued"
  /\ amount > 0 /\ (invoice[i].customer \/ amount <= Remaining(invoice[i]))
  /\ invoice' = [invoice EXCEPT ![i].paid = @ + amount]
  /\ Record(p, invoice[i].customer, i, "in", amount)
  /\ UNCHANGED <<return, request>>

Pay(p, i, amount) ==
  /\ payment[p].status = "none"
  /\ invoice[i].status = "issued"
  /\ amount > 0 /\ amount <= Remaining(invoice[i])
  /\ invoice' = [invoice EXCEPT ![i].paid = @ + amount]
  /\ Record(p, invoice[i].customer, i, "in", amount)
  /\ UNCHANGED <<return, request>>

PayOnAccount(p, amount) ==
  /\ payment[p].status = "none"
  /\ amount > 0
  /\ Record(p, TRUE, None, "in", amount)
  /\ UNCHANGED <<invoice, return, request>>

(* cancel takes the amount off paid, but never below zero: not what a return    *)
(* has refunded of it                                                          *)
CancelPayment(p) ==
  LET i == payment[p].invoice
  IN  /\ Posted(p) /\ payment[p].direction = "in" /\ payment[p].customer
      /\ payment' = [payment EXCEPT ![p].status = "cancelled"]
      /\ IF i = None THEN UNCHANGED <<invoice, clipped>>
         ELSE /\ invoice' = [invoice EXCEPT ![i].paid = AtLeastZero(@ - payment[p].amount)]
              /\ clipped' = [clipped EXCEPT ![i] = @ + AtLeastZero(payment[p].amount - invoice[i].paid)]
      /\ UNCHANGED <<return, request>>

-----------------------------------------------------------------------------
(* SalesReturnsService *)

(* Lines no larger than what is left to return, at this moment                 *)
CreateReturn(k, i, total) ==
  /\ return[k].status = "none"
  /\ invoice[i].status = "issued"
  /\ total > 0 /\ total <= invoice[i].total - invoice[i].returned
  /\ return' = [return EXCEPT ![k] = [status |-> "draft", invoice |-> i, total |-> total]]
  /\ UNCHANGED <<invoice, payment, request>>

(* slip: a walk-in buyer need not be given his money back (WalkInOwesNothing)  *)
RefundOptional(i, row, refund) ==
  /\ refund <= Overpaid(row)
  /\ invoice' = [invoice EXCEPT ![i] = [row EXCEPT !.paid = @ - refund]]
  /\ IF refund = 0 THEN UNCHANGED payment
     ELSE \E p \in Unused(payment) : Record(p, row.customer, i, "out", refund)

(* What is overpaid may be refunded; to a walk-in buyer all of it must be      *)
Refund(i, row, refund) ==
  /\ refund <= Overpaid(row)
  /\ row.customer \/ refund = Overpaid(row)
  /\ invoice' = [invoice EXCEPT ![i] = [row EXCEPT !.paid = @ - refund]]
  /\ IF refund = 0 THEN UNCHANGED payment
     ELSE \E p \in Unused(payment) : Record(p, row.customer, i, "out", refund)

(* slip: a draft made earlier is not compared again with what is left          *)
(* (ReturnsWithinSold)                                                         *)
IssueReturnUnchecked(k, refund) ==
  LET i == return[k].invoice
  IN  /\ return[k].status = "draft"
      /\ return' = [return EXCEPT ![k].status = "issued"]
      /\ Refund(i, [invoice[i] EXCEPT !.returned = @ + return[k].total], refund)
      /\ UNCHANGED request

(* slip: the refund is not taken off what the invoice says is paid             *)
(* (PaidIsCollected)                                                           *)
IssueReturnKeepingPaid(k, refund) ==
  LET i == return[k].invoice
      row == [invoice[i] EXCEPT !.returned = @ + return[k].total]
  IN  /\ return[k].status = "draft"
      /\ return[k].total <= invoice[i].total - invoice[i].returned
      /\ refund <= Overpaid(row) /\ (row.customer \/ refund = Overpaid(row))
      /\ return' = [return EXCEPT ![k].status = "issued"]
      /\ invoice' = [invoice EXCEPT ![i] = row]
      /\ IF refund = 0 THEN UNCHANGED payment
         ELSE \E p \in Unused(payment) : Record(p, row.customer, i, "out", refund)
      /\ UNCHANGED request

(* issueWithin of a return, under its own lock and the invoice's               *)
IssueReturn(k, refund) ==
  LET i == return[k].invoice
  IN  /\ return[k].status = "draft"
      /\ return[k].total <= invoice[i].total - invoice[i].returned
      /\ return' = [return EXCEPT ![k].status = "issued"]
      /\ Refund(i, [invoice[i] EXCEPT !.returned = @ + return[k].total], refund)
      /\ UNCHANGED request

CancelReturn(k) ==
  /\ return[k].status = "draft"
  /\ return' = [return EXCEPT ![k].status = "cancelled"]
  /\ UNCHANGED <<invoice, payment, request>>

-----------------------------------------------------------------------------
InvoiceStep(i) ==
  \/ \E customer \in BOOLEAN, total \in 1..MaxTotal : Create(i, customer, total) \/ Update(i, customer, total)
  \/ Cancel(i)
  \/ \E r \in Requests, tendered \in Amounts : CheckIssue(r, i, tendered)
  \/ \E customer \in BOOLEAN, total \in 1..MaxTotal, tendered \in Amounts :
       RecordPosSale(i, customer, total, tendered)

PaymentStep(p) ==
  \E amount \in 1..MaxTotal : PayOnAccount(p, amount) \/ \E i \in Invoices : Pay(p, i, amount)

ReturnStep(k) ==
  \/ \E i \in Invoices, total \in 1..MaxTotal : CreateReturn(k, i, total)
  \/ \E refund \in Amounts : IssueReturn(k, refund)
  \/ CancelReturn(k)

Next ==
  \/ /\ \E r \in Requests : Issue(r) \/ FailIssue(r)
     /\ UNCHANGED <<clipped, calm>>
  \/ /\ \/ /\ \/ \E i \in Invoices : InvoiceStep(i)
              \/ \E p \in Payments : PaymentStep(p)
              \/ \E k \in Returns : ReturnStep(k)
           /\ UNCHANGED clipped
        \/ \E p \in Payments : CancelPayment(p)
     /\ calm' = (calm /\ \A r \in Requests : request[r] = Idle)

Spec == Init /\ [][Next]_vars

-----------------------------------------------------------------------------
Issued(i) == invoice[i].status = "issued"

(* Amounts paid and returned stay within what an invoice may total             *)
TypeOK ==
  /\ invoice \in [Invoices -> InvoiceRow]
  /\ payment \in [Payments -> PaymentRow]
  /\ return \in [Returns -> ReturnRow]
  /\ request \in [Requests -> [invoice : Invoices \cup {None}, tendered : Amounts]]
  /\ clipped \in [Invoices -> Nat] /\ calm \in BOOLEAN

(* What an invoice says was paid is what its payments add up to: an invoice is *)
(* never shown as paid by money that was given back or whose receipt was       *)
(* cancelled ("a cancelled receipt goes back on the customer and the invoice"), *)
(* beyond what the receipt had been refunded before it was cancelled.          *)
PaidIsCollected ==
  \A i \in Invoices : Issued(i) => invoice[i].paid = Collected(i) + clipped[i]

(* The issued returns of an invoice are what it says was returned, and no more *)
(* than was sold, however many drafts were made against the same units.        *)
ReturnsWithinSold ==
  \A i \in Invoices :
    /\ invoice[i].returned = Total([k \in Returns |->
         IF return[k].status = "issued" /\ return[k].invoice = i THEN return[k].total ELSE 0])
    /\ invoice[i].returned <= invoice[i].total

(* A walk-in buyer's invoice is settled from the moment it is issued and stays *)
(* so: there is no account that could owe or keep the difference.  (This and    *)
(* the next two do not survive a change between issueWithin's checks and lock.) *)
WalkInOwesNothing ==
  calm => \A i \in Invoices :
            Issued(i) /\ ~invoice[i].customer => invoice[i].paid = invoice[i].total - invoice[i].returned

(* What is tendered when an invoice is issued never exceeds its total          *)
TenderedWithinTotal ==
  [][calm => \A i \in Invoices :
               ~Issued(i) /\ Issued(i)' => invoice'[i].paid <= invoice'[i].total]_vars

(* An invoice the office issues to the customer never leaves him over his      *)
(* credit limit.                                                               *)
IssuedWithinLimit ==
  [][calm => \A i \in Invoices :
               invoice[i].status = "draft" /\ Issued(i)' /\ invoice'[i].customer => Balance' <= CreditLimit]_vars

(* What the customer owes, by the documents, is what his invoices say is left  *)
(* to pay, less what they say is overpaid and what he paid on account: the     *)
(* statement and the invoices disagree about no more than what was refunded of  *)
(* receipts before they were cancelled.                                        *)
BalanceIsInvoices ==
  Balance =
    Total([i \in Invoices |-> IF Issued(i) /\ invoice[i].customer
                              THEN Remaining(invoice[i]) - Overpaid(invoice[i]) + clipped[i] ELSE 0])
    - Total([p \in Payments |-> IF Posted(p) /\ payment[p].invoice = None THEN Signed(p) ELSE 0])

(* Amounts, documents and invoices agree *)
InvoicesAddUp ==
  TypeOK /\ PaidIsCollected /\ ReturnsWithinSold /\ BalanceIsInvoices /\ WalkInOwesNothing

(* What the checks of issueWithin promise holds for what it issues *)
IssueChecked == TenderedWithinTotal /\ IssuedWithinLimit
=============================================================================
