----------------------------- MODULE SalesProofs -----------------------------
(* Sales, for any number of invoices, payments, returns and requests *)
EXTENDS Sales, WarehouseRemoval, Branches, UnitSumsProofs

-----------------------------------------------------------------------------
(* The inductive invariant *)

(* A request has read an invoice; a document that is there belongs to one that *)
(* was issued, and a receipt to its customer                                    *)
Documented ==
  /\ \A r \in Requests : request[r] # Idle => request[r].invoice \in Invoices
  /\ \A k \in Returns :
       return[k].status # "none" => return[k].invoice \in Invoices /\ Issued(return[k].invoice)
  /\ \A p \in Payments :
       Posted(p) => IF payment[p].invoice = None THEN payment[p].customer
                    ELSE /\ Issued(payment[p].invoice)
                         /\ payment[p].customer = invoice[payment[p].invoice].customer

(* Nothing was paid for, or returned of, an invoice before it is issued        *)
Untouched ==
  \A i \in Invoices :
    ~Issued(i) => invoice[i].paid = 0 /\ invoice[i].returned = 0 /\ clipped[i] = 0

(* While nobody works beside an issuing request, it is alone, and what it       *)
(* checked is still so when it takes the lock                                   *)
Checked(r) ==
  LET row == invoice[request[r].invoice]
      tendered == request[r].tendered
  IN  /\ row.status = "draft"
      /\ tendered <= row.total
      /\ IF row.customer THEN WithinLimit(row.total - tendered) ELSE tendered = row.total

CheckedWhileCalm ==
  calm => \A r \in Requests :
            request[r] # Idle => Checked(r) /\ \A s \in Requests \ {r} : request[s] = Idle

(* The amounts of the invariant are those of the documents *)
Amounted == PaidIsCollected /\ ReturnsWithinSold /\ BalanceIsInvoices

SalesInv == TypeOK /\ Documented /\ Untouched /\ Amounted /\ WalkInOwesNothing /\ CheckedWhileCalm

-----------------------------------------------------------------------------
(* The sums of the invariant, as functions *)

From(i) ==
  [p \in Payments |-> IF Posted(p) /\ payment[p].invoice = i THEN Signed(p) ELSE 0]
Back(i) ==
  [k \in Returns |-> IF return[k].status = "issued" /\ return[k].invoice = i
                     THEN return[k].total ELSE 0]
Invoiced ==
  [i \in Invoices |-> IF invoice[i].status = "issued" /\ invoice[i].customer
                      THEN invoice[i].total ELSE 0]
Credited ==
  [k \in Returns |-> IF return[k].status = "issued" /\ invoice[return[k].invoice].customer
                     THEN return[k].total ELSE 0]
Received ==
  [p \in Payments |-> IF Posted(p) /\ payment[p].customer THEN Signed(p) ELSE 0]
Owed ==
  [i \in Invoices |-> IF Issued(i) /\ invoice[i].customer
                      THEN Remaining(invoice[i]) - Overpaid(invoice[i]) + clipped[i] ELSE 0]
OnAccount ==
  [p \in Payments |-> IF Posted(p) /\ payment[p].invoice = None THEN Signed(p) ELSE 0]

(* What the invariant says about amounts, with these functions *)
SumForm ==
  /\ \A i \in Invoices : Issued(i) => invoice[i].paid = Total(From(i)) + clipped[i]
  /\ \A i \in Invoices : /\ invoice[i].returned = Total(Back(i))
                         /\ invoice[i].returned <= invoice[i].total
  /\ Total(Invoiced) - Total(Credited) - Total(Received) = Total(Owed) - Total(OnAccount)

BalanceForm == Balance = Total(Invoiced) - Total(Credited) - Total(Received)

LEMMA SumForms == (Amounted <=> SumForm) /\ BalanceForm
  BY DEF SumForm, BalanceForm, Collected, Balance, Amounted, PaidIsCollected, ReturnsWithinSold,
         BalanceIsInvoices, From, Back, Invoiced, Credited, Received, Owed, OnAccount

LEMMA SumFormsNext == (Amounted' <=> SumForm') /\ BalanceForm'
  BY SumForms, PTL

LEMMA RowTypes ==
  ASSUME TypeOK
  PROVE  /\ \A i \in Invoices :
              /\ invoice[i].status \in {"none", "draft", "issued", "cancelled"}
              /\ invoice[i].customer \in BOOLEAN
              /\ invoice[i].total \in 0..MaxTotal /\ invoice[i].paid \in 0..MaxTotal
              /\ invoice[i].returned \in 0..MaxTotal
              /\ Remaining(invoice[i]) \in Int /\ Overpaid(invoice[i]) \in Int
              /\ Remaining(invoice[i]) - Overpaid(invoice[i])
                   = invoice[i].total - invoice[i].returned - invoice[i].paid
              /\ clipped[i] \in Nat
         /\ \A p \in Payments :
              /\ payment[p].status \in {"none", "posted", "cancelled"}
              /\ payment[p].customer \in BOOLEAN
              /\ payment[p].invoice \in Invoices \cup {None}
              /\ payment[p].direction \in {"in", "out"}
              /\ payment[p].amount \in 0..MaxTotal /\ Signed(p) \in Int
         /\ \A k \in Returns :
              /\ return[k].status \in {"none", "draft", "issued", "cancelled"}
              /\ return[k].invoice \in Invoices \cup {None}
              /\ return[k].total \in 0..MaxTotal
  BY SalesAssumption
  DEF TypeOK, InvoiceRow, PaymentRow, ReturnRow, Amounts, Remaining, Overpaid, AtLeastZero, Signed

SumsTyped ==
  /\ Invoiced \in [Invoices -> Int] /\ Owed \in [Invoices -> Int]
  /\ Credited \in [Returns -> Int]
  /\ Received \in [Payments -> Int] /\ OnAccount \in [Payments -> Int]
  /\ \A i \in Invoices : From(i) \in [Payments -> Int] /\ Back(i) \in [Returns -> Int]

LEMMA SumTypes == TypeOK => SumsTyped
<1> SUFFICES ASSUME TypeOK PROVE SumsTyped
  OBVIOUS
<1>1. Invoiced \in [Invoices -> Int] /\ Owed \in [Invoices -> Int]
  BY RowTypes DEF Invoiced, Owed
<1>2. Credited \in [Returns -> Int] /\ \A i \in Invoices : Back(i) \in [Returns -> Int]
  BY RowTypes DEF Credited, Back
<1>3. Received \in [Payments -> Int] /\ OnAccount \in [Payments -> Int]
  BY RowTypes DEF Received, OnAccount
<1>4. \A i \in Invoices : From(i) \in [Payments -> Int]
  BY RowTypes DEF From
<1> QED
  BY <1>1, <1>2, <1>3, <1>4 DEF SumsTyped

LEMMA SumTypesNext == TypeOK' => SumsTyped'
  BY SumTypes, PTL

LEMMA TotalTypes ==
  ASSUME TypeOK
  PROVE  /\ Total(Invoiced) \in Int /\ Total(Owed) \in Int /\ Total(Credited) \in Int
         /\ Total(Received) \in Int /\ Total(OnAccount) \in Int
         /\ \A i \in Invoices : Total(From(i)) \in Int /\ Total(Back(i)) \in Int
<1>1. Total(Invoiced) \in Int /\ Total(Owed) \in Int
  BY SumTypes, TotalType, SalesAssumption DEF SumsTyped
<1>2. Total(Credited) \in Int /\ \A i \in Invoices : Total(Back(i)) \in Int
  BY SumTypes, TotalType, SalesAssumption DEF SumsTyped
<1>3. /\ Total(Received) \in Int /\ Total(OnAccount) \in Int
      /\ \A i \in Invoices : Total(From(i)) \in Int
  BY SumTypes, TotalType, SalesAssumption DEF SumsTyped
<1> QED
  BY <1>1, <1>2, <1>3

(* A step that changes one invoice changes the sums over invoices there        *)
LEMMA InvoiceSums ==
  ASSUME TypeOK, TypeOK', NEW i \in Invoices,
         \A j \in Invoices \ {i} : invoice'[j] = invoice[j] /\ clipped'[j] = clipped[j]
  PROVE  /\ Total(Invoiced)' = Total(Invoiced) - Invoiced[i] + (Invoiced[i])'
         /\ Total(Owed)' = Total(Owed) - Owed[i] + (Owed[i])'
<1>1. /\ Invoiced \in [Invoices -> Int] /\ Invoiced' \in [Invoices -> Int]
      /\ Owed \in [Invoices -> Int] /\ Owed' \in [Invoices -> Int]
  BY SumTypes, SumTypesNext DEF SumsTyped
<1>2. \A j \in Invoices \ {i} : Invoiced'[j] = Invoiced[j] /\ Owed'[j] = Owed[j]
  BY DEF Invoiced, Owed, Issued
<1>3. Total(Invoiced') = Total(Invoiced) - Invoiced[i] + Invoiced'[i]
  BY <1>1, <1>2, SalesAssumption, TotalUpdate
<1>4. Total(Owed') = Total(Owed) - Owed[i] + Owed'[i]
  BY <1>1, <1>2, SalesAssumption, TotalUpdate
<1> QED
  BY <1>3, <1>4

(* A step that changes one payment changes the sums over payments there        *)
LEMMA PaymentSums ==
  ASSUME TypeOK, TypeOK', NEW p \in Payments,
         \A q \in Payments \ {p} : payment'[q] = payment[q]
  PROVE  /\ Total(Received)' = Total(Received) - Received[p] + (Received[p])'
         /\ Total(OnAccount)' = Total(OnAccount) - OnAccount[p] + (OnAccount[p])'
         /\ \A i \in Invoices :
              Total(From(i))' = Total(From(i)) - From(i)[p] + (From(i)[p])'
<1>1. /\ Received \in [Payments -> Int] /\ Received' \in [Payments -> Int]
      /\ OnAccount \in [Payments -> Int] /\ OnAccount' \in [Payments -> Int]
      /\ \A i \in Invoices : From(i) \in [Payments -> Int] /\ From(i)' \in [Payments -> Int]
  BY SumTypes, SumTypesNext DEF SumsTyped
<1>2. \A q \in Payments \ {p} :
        /\ Received'[q] = Received[q] /\ OnAccount'[q] = OnAccount[q]
        /\ \A i \in Invoices : From(i)'[q] = From(i)[q]
  BY DEF Received, OnAccount, From, Posted, Signed
<1>3. Total(Received') = Total(Received) - Received[p] + Received'[p]
  BY <1>1, <1>2, SalesAssumption, TotalUpdate
<1>4. Total(OnAccount') = Total(OnAccount) - OnAccount[p] + OnAccount'[p]
  BY <1>1, <1>2, SalesAssumption, TotalUpdate
<1>5. ASSUME NEW i \in Invoices
      PROVE  Total(From(i)') = Total(From(i)) - From(i)[p] + From(i)'[p]
  BY <1>1, <1>2, SalesAssumption, TotalUpdate
<1> QED
  BY <1>3, <1>4, <1>5

(* A step that changes one return changes the sums over returns there, if      *)
(* nothing issued changes its customer                                         *)
LEMMA ReturnSums ==
  ASSUME TypeOK, TypeOK', NEW k \in Returns,
         \A l \in Returns \ {k} :
           /\ return'[l] = return[l]
           /\ return[l].status = "issued" =>
                invoice'[return[l].invoice].customer = invoice[return[l].invoice].customer
  PROVE  /\ Total(Credited)' = Total(Credited) - Credited[k] + (Credited[k])'
         /\ \A i \in Invoices :
              Total(Back(i))' = Total(Back(i)) - Back(i)[k] + (Back(i)[k])'
<1>1. /\ Credited \in [Returns -> Int] /\ Credited' \in [Returns -> Int]
      /\ \A i \in Invoices : Back(i) \in [Returns -> Int] /\ Back(i)' \in [Returns -> Int]
  BY SumTypes, SumTypesNext DEF SumsTyped
<1>2. \A l \in Returns \ {k} :
        Credited'[l] = Credited[l] /\ \A i \in Invoices : Back(i)'[l] = Back(i)[l]
  BY DEF Credited, Back
<1>3. Total(Credited') = Total(Credited) - Credited[k] + Credited'[k]
  BY <1>1, <1>2, SalesAssumption, TotalUpdate
<1>4. ASSUME NEW i \in Invoices
      PROVE  Total(Back(i)') = Total(Back(i)) - Back(i)[k] + Back(i)'[k]
  BY <1>1, <1>2, SalesAssumption, TotalUpdate
<1> QED
  BY <1>3, <1>4

-----------------------------------------------------------------------------
(* Types and documents *)

(* What every action adds to its own handler: the history                      *)
WorkingBeside == calm' = (calm /\ \A r \in Requests : request[r] = Idle)

Shaped == TypeOK /\ Documented /\ Untouched

(* A document that is there stays documented, and a new one must be            *)
LEMMA DocumentedStep ==
  ASSUME TypeOK, Documented,
         \A i \in Invoices : Issued(i) => invoice'[i].status = "issued" /\ invoice'[i].customer = invoice[i].customer,
         \A r \in Requests : \/ request'[r] = request[r]
                             \/ request'[r] = Idle
                             \/ request'[r].invoice \in Invoices,
         \A k \in Returns : \/ return'[k] = return[k]
                            \/ return'[k].invoice \in Invoices /\ invoice'[return'[k].invoice].status = "issued",
         \A p \in Payments :
           \/ payment'[p] = payment[p]
           \/ payment'[p].status # "posted"
           \/ payment'[p].invoice = None /\ payment'[p].customer
           \/ /\ payment'[p].invoice \in Invoices /\ invoice'[payment'[p].invoice].status = "issued"
              /\ payment'[p].customer = invoice'[payment'[p].invoice].customer
  PROVE  Documented'
<1>1. \A r \in Requests : request'[r] # Idle => request'[r].invoice \in Invoices
  BY DEF Documented
<1>2. \A k \in Returns :
        return'[k].status # "none" => return'[k].invoice \in Invoices /\ invoice'[return'[k].invoice].status = "issued"
  BY DEF Documented, Issued
<1>3. ASSUME NEW p \in Payments, payment'[p].status = "posted"
      PROVE  IF payment'[p].invoice = None THEN payment'[p].customer
             ELSE /\ invoice'[payment'[p].invoice].status = "issued"
                  /\ payment'[p].customer = invoice'[payment'[p].invoice].customer
  <2>1. CASE payment'[p] = payment[p]
    <3>1. Posted(p) /\ payment[p].invoice \in Invoices \cup {None}
      BY <1>3, <2>1 DEF Posted, TypeOK, PaymentRow
    <3> QED
      BY <2>1, <3>1 DEF Documented, Issued
  <2>2. CASE payment'[p] # payment[p]
    BY <1>3, <2>2, SalesAssumption
  <2> QED
    BY <2>1, <2>2
<1> QED
  BY <1>1, <1>2, <1>3 DEF Documented, Idle, Issued, Posted

LEMMA DraftShaped ==
  ASSUME Shaped, NEW i \in Invoices, NEW customer \in BOOLEAN, NEW total \in Amounts,
         Create(i, customer, total) \/ Update(i, customer, total) \/ Cancel(i),
         clipped' = clipped, calm' \in BOOLEAN
  PROVE  Shaped'
<1>1. /\ ~Issued(i) /\ UNCHANGED <<payment, return, request>>
      /\ \A j \in Invoices \ {i} : invoice'[j] = invoice[j]
      /\ invoice'[i] \in InvoiceRow /\ invoice'[i].status # "issued"
      /\ invoice' \in [Invoices -> InvoiceRow]
      /\ invoice'[i].paid = 0 /\ invoice'[i].returned = 0
  <2>1. invoice[i] \in InvoiceRow /\ total \in 0..MaxTotal
    BY SalesAssumption DEF Shaped, TypeOK, Amounts
  <2>2. CASE Create(i, customer, total)
    <3>1. NoInvoice \in InvoiceRow
      BY SalesAssumption DEF NoInvoice, InvoiceRow, Amounts
    <3> DEFINE row == [NoInvoice EXCEPT !.status = "draft", !.customer = customer, !.total = total]
    <3>2. row \in InvoiceRow
      BY <2>1, <3>1, SalesAssumption DEF InvoiceRow, Amounts
    <3>3. row.status = "draft" /\ row.paid = 0 /\ row.returned = 0
      BY DEF NoInvoice
    <3>4. invoice' = [invoice EXCEPT ![i] = row] /\ ~Issued(i) /\ UNCHANGED <<payment, return, request>>
      BY <2>2 DEF Create, Issued
    <3> HIDE DEF row
    <3> QED
      BY <3>2, <3>3, <3>4 DEF Shaped, TypeOK
  <2>3. CASE Update(i, customer, total)
    BY <2>1, <2>3, SalesAssumption DEF Shaped, TypeOK, Untouched, InvoiceRow, Amounts, Update, Issued
  <2>4. CASE Cancel(i)
    BY <2>1, <2>4, SalesAssumption DEF Shaped, TypeOK, Untouched, InvoiceRow, Amounts, Cancel, Issued
  <2> QED
    BY <2>2, <2>3, <2>4
<1>2. TypeOK'
  BY <1>1 DEF Shaped, TypeOK
<1>3. Documented'
  BY <1>1, DocumentedStep DEF Shaped, Issued
<1>4. Untouched'
  BY <1>1 DEF Shaped, Untouched, Issued
<1> QED
  BY <1>2, <1>3, <1>4 DEF Shaped

LEMMA RequestShaped ==
  ASSUME Shaped, NEW r \in Requests, NEW i \in Invoices, NEW tendered \in Amounts,
         CheckIssue(r, i, tendered) \/ FailIssue(r), clipped' = clipped, calm' \in BOOLEAN
  PROVE  Shaped'
<1>1. /\ UNCHANGED <<invoice, payment, return>>
      /\ \/ request' = [request EXCEPT ![r] = [invoice |-> i, tendered |-> tendered]]
         \/ request' = [request EXCEPT ![r] = Idle]
  BY DEF CheckIssue, FailIssue
<1>2. TypeOK'
  BY <1>1, SalesAssumption DEF Shaped, TypeOK, Idle, Amounts
<1>3. Documented'
  BY <1>1, SalesAssumption DEF Shaped, TypeOK, Documented, Issued, Posted
<1>4. Untouched'
  BY <1>1 DEF Shaped, Untouched, Issued
<1> QED
  BY <1>2, <1>3, <1>4 DEF Shaped

(* A row of the invoice is issued, and no other changes                        *)
IssuedAs(i, customer, total, tendered) ==
  /\ invoice' \in [Invoices -> InvoiceRow]
  /\ \A j \in Invoices \ {i} : invoice'[j] = invoice[j]
  /\ invoice'[i].status = "issued" /\ invoice'[i].customer = customer
  /\ invoice'[i].total = total /\ invoice'[i].paid = tendered /\ invoice'[i].returned = 0

(* An invoice is issued, with or without a receipt for what was tendered       *)
LEMMA TenderShaped ==
  ASSUME Shaped, NEW i \in Invoices, ~Issued(i), NEW customer \in BOOLEAN,
         NEW total \in 0..MaxTotal, NEW tendered \in Amounts,
         Tender(customer, i, tendered),
         IssuedAs(i, customer, total, tendered),
         return' = return, request' \in [Requests -> [invoice : Invoices \cup {None}, tendered : Amounts]],
         \A r \in Requests : request'[r] # Idle => request'[r].invoice \in Invoices,
         clipped' = clipped, calm' \in BOOLEAN
  PROVE  Shaped'
<1>1. /\ invoice' \in [Invoices -> InvoiceRow]
      /\ \A j \in Invoices : Issued(j) => invoice'[j] = invoice[j]
  BY DEF IssuedAs
<1>2. \A r \in Requests : request'[r] = Idle \/ request'[r].invoice \in Invoices
  OBVIOUS
<1>3. Untouched'
  BY DEF Shaped, Untouched, Issued, IssuedAs
<1>4. CASE tendered = 0
  <2>1. payment' = payment
    BY <1>4 DEF Tender
  <2>2. TypeOK'
    BY <1>1, <2>1 DEF Shaped, TypeOK
  <2>3. Documented'
    BY <1>1, <1>2, <2>1, DocumentedStep DEF Shaped, Issued
  <2> QED
    BY <1>3, <2>2, <2>3 DEF Shaped
<1>5. CASE tendered # 0
  <2>1. PICK p \in Unused(payment) : Record(p, customer, i, "in", tendered)
    BY <1>5 DEF Tender
  <2>2. /\ p \in Payments /\ payment' \in [Payments -> PaymentRow]
        /\ payment'[p].invoice = i /\ payment'[p].customer = customer
        /\ \A q \in Payments \ {p} : payment'[q] = payment[q]
    BY <2>1 DEF Shaped, TypeOK, Record, Unused, PaymentRow
  <2>3. TypeOK'
    BY <1>1, <2>2 DEF Shaped, TypeOK
  <2>4. Documented'
    BY <1>1, <1>2, <2>2, DocumentedStep DEF Shaped, Issued, IssuedAs
  <2> QED
    BY <1>3, <2>3, <2>4 DEF Shaped
<1> QED
  BY <1>4, <1>5

LEMMA IssueShaped ==
  ASSUME Shaped, NEW r \in Requests, Issue(r), clipped' = clipped, calm' \in BOOLEAN
  PROVE  Shaped'
<1> DEFINE i == request[r].invoice
<1>1. i \in Invoices /\ ~Issued(i) /\ request[r].tendered \in Amounts /\ invoice[i] \in InvoiceRow
  BY DEF Issue, Shaped, TypeOK, Documented, Issued
<1>2. /\ invoice[i].customer \in BOOLEAN /\ invoice[i].total \in 0..MaxTotal
      /\ invoice[i].returned = 0
  BY <1>1 DEF Shaped, TypeOK, InvoiceRow, Untouched, Amounts
<1>3. IssuedAs(i, invoice[i].customer, invoice[i].total, request[r].tendered)
  <2>1. invoice' = [invoice EXCEPT ![i].status = "issued", ![i].paid = request[r].tendered]
    BY DEF Issue
  <2> HIDE DEF i
  <2> QED
    BY <1>1, <1>2, <2>1 DEF IssuedAs, Shaped, TypeOK, InvoiceRow
<1>4. /\ request' \in [Requests -> [invoice : Invoices \cup {None}, tendered : Amounts]]
      /\ \A s \in Requests : request'[s] # Idle => request'[s].invoice \in Invoices
  BY SalesAssumption DEF Issue, Shaped, TypeOK, Documented, Idle, Amounts
<1>5. Tender(invoice[i].customer, i, request[r].tendered) /\ return' = return
  BY DEF Issue
<1> HIDE DEF i
<1> QED
  BY <1>1, <1>2, <1>3, <1>4, <1>5, TenderShaped

LEMMA PosSaleShaped ==
  ASSUME Shaped, NEW i \in Invoices, NEW customer \in BOOLEAN, NEW total \in 1..MaxTotal,
         NEW tendered \in Amounts, RecordPosSale(i, customer, total, tendered),
         clipped' = clipped, calm' \in BOOLEAN
  PROVE  Shaped'
<1>1. ~Issued(i) /\ total \in 0..MaxTotal
  BY SalesAssumption DEF RecordPosSale, Issued
<1>2. /\ request' \in [Requests -> [invoice : Invoices \cup {None}, tendered : Amounts]]
      /\ \A s \in Requests : request'[s] # Idle => request'[s].invoice \in Invoices
  BY DEF RecordPosSale, Shaped, TypeOK, Documented
<1>3. IssuedAs(i, customer, total, tendered)
  BY <1>1, SalesAssumption DEF RecordPosSale, IssuedAs, Shaped, TypeOK, InvoiceRow, Amounts
<1> QED
  BY <1>1, <1>2, <1>3, TenderShaped DEF RecordPosSale

LEMMA PayShaped ==
  ASSUME Shaped, NEW p \in Payments, NEW i \in Invoices, NEW amount \in 1..MaxTotal,
         Pay(p, i, amount), clipped' = clipped, calm' \in BOOLEAN
  PROVE  Shaped'
<1>1. /\ payment' \in [Payments -> PaymentRow] /\ UNCHANGED <<return, request>>
      /\ payment'[p].status = "posted" /\ payment'[p].invoice = i
      /\ payment'[p].customer = invoice[i].customer
      /\ \A q \in Payments \ {p} : payment'[q] = payment[q]
  BY SalesAssumption DEF Pay, Record, Shaped, TypeOK, PaymentRow, InvoiceRow, Amounts
<1>2. invoice[i].paid + amount \in Amounts /\ Issued(i)
  BY SalesAssumption
  DEF Pay, Issued, Remaining, AtLeastZero, Shaped, TypeOK, InvoiceRow, Amounts
<1>3. /\ invoice' \in [Invoices -> InvoiceRow]
      /\ \A j \in Invoices : /\ invoice'[j].status = invoice[j].status
                             /\ invoice'[j].customer = invoice[j].customer
                             /\ j # i => invoice'[j] = invoice[j]
  BY <1>2 DEF Pay, Shaped, TypeOK, InvoiceRow
<1>4. TypeOK'
  BY <1>1, <1>3 DEF Shaped, TypeOK
<1>5. Documented'
  BY <1>1, <1>2, <1>3, DocumentedStep DEF Shaped, Issued
<1>6. Untouched'
  BY <1>2, <1>3 DEF Shaped, Untouched, Issued
<1> QED
  BY <1>4, <1>5, <1>6 DEF Shaped

LEMMA PayOnAccountShaped ==
  ASSUME Shaped, NEW p \in Payments, NEW amount \in 1..MaxTotal,
         PayOnAccount(p, amount), clipped' = clipped, calm' \in BOOLEAN
  PROVE  Shaped'
<1>1. /\ payment' \in [Payments -> PaymentRow] /\ UNCHANGED <<invoice, return, request>>
      /\ payment'[p].invoice = None /\ payment'[p].customer
      /\ \A q \in Payments \ {p} : payment'[q] = payment[q]
  BY SalesAssumption DEF PayOnAccount, Record, Shaped, TypeOK, PaymentRow, Amounts
<1> QED
  BY <1>1, SalesAssumption DEF Shaped, TypeOK, Documented, Untouched, Issued, Posted

LEMMA CancelPaymentShaped ==
  ASSUME Shaped, NEW p \in Payments, CancelPayment(p), calm' \in BOOLEAN
  PROVE  Shaped'
<1> DEFINE i == payment[p].invoice
           a == payment[p].amount
<1>1. /\ payment' \in [Payments -> PaymentRow] /\ UNCHANGED <<return, request>>
      /\ payment'[p].status = "cancelled"
      /\ \A q \in Payments \ {p} : payment'[q] = payment[q]
  BY DEF CancelPayment, Shaped, TypeOK, PaymentRow
<1>2. a \in Amounts /\ i \in Invoices \cup {None}
  BY DEF Shaped, TypeOK, PaymentRow
<1>3. CASE i = None
  <2>1. UNCHANGED <<invoice, clipped>>
    BY <1>3 DEF CancelPayment
  <2> QED
    BY <1>1, <2>1 DEF Shaped, TypeOK, Documented, Untouched, Issued, Posted
<1>4. CASE i # None
  <2>1. i \in Invoices /\ Issued(i)
    BY <1>2, <1>4 DEF CancelPayment, Shaped, Documented
  <2>2. /\ invoice' = [invoice EXCEPT ![i].paid = AtLeastZero(@ - a)]
        /\ clipped' = [clipped EXCEPT ![i] = @ + AtLeastZero(a - invoice[i].paid)]
    BY <1>4 DEF CancelPayment
  <2>3. AtLeastZero(invoice[i].paid - a) \in Amounts /\ AtLeastZero(a - invoice[i].paid) \in Nat
    BY <1>2, <2>1, SalesAssumption DEF AtLeastZero, Shaped, TypeOK, InvoiceRow, Amounts
  <2>4. /\ invoice' \in [Invoices -> InvoiceRow] /\ clipped' \in [Invoices -> Nat]
        /\ \A j \in Invoices : /\ invoice'[j].status = invoice[j].status
                               /\ invoice'[j].customer = invoice[j].customer
                               /\ j # i => invoice'[j] = invoice[j] /\ clipped'[j] = clipped[j]
    BY <2>1, <2>2, <2>3 DEF Shaped, TypeOK, InvoiceRow
  <2> HIDE DEF i, a
  <2>5. TypeOK'
    BY <1>1, <2>4 DEF Shaped, TypeOK
  <2>6. Documented'
    BY <1>1, <2>4, DocumentedStep DEF Shaped, Issued, Posted
  <2>7. Untouched'
    BY <2>1, <2>4 DEF Shaped, Untouched, Issued
  <2> QED
    BY <2>5, <2>6, <2>7 DEF Shaped
<1> QED
  BY <1>3, <1>4

LEMMA ReturnDraftShaped ==
  ASSUME Shaped, NEW k \in Returns, NEW i \in Invoices, NEW total \in Amounts,
         CreateReturn(k, i, total) \/ CancelReturn(k), clipped' = clipped, calm' \in BOOLEAN
  PROVE  Shaped'
<1>1. /\ UNCHANGED <<invoice, payment, request>> /\ return' \in [Returns -> ReturnRow]
      /\ \A l \in Returns \ {k} : return'[l] = return[l]
      /\ return'[k].invoice \in Invoices /\ invoice[return'[k].invoice].status = "issued"
  BY SalesAssumption
  DEF CreateReturn, CancelReturn, Shaped, TypeOK, Documented, ReturnRow, Amounts, Issued
<1> QED
  BY <1>1 DEF Shaped, TypeOK, Documented, Untouched, Issued, Posted

(* Issuing a return: what it returns and what is given back stays within the    *)
(* invoice                                                                     *)
LEMMA IssueReturnShape ==
  ASSUME Shaped, ReturnsWithinSold, NEW k \in Returns, NEW refund \in Amounts,
         IssueReturn(k, refund), NEW i, i = return[k].invoice
  PROVE  /\ i \in Invoices /\ Issued(i) /\ return[k].status = "draft"
         /\ invoice' = [invoice EXCEPT ![i].returned = @ + return[k].total, ![i].paid = @ - refund]
         /\ invoice[i].returned + return[k].total <= invoice[i].total
         /\ invoice[i].paid - refund \in Amounts
         /\ refund <= AtLeastZero(invoice[i].paid - (invoice[i].total - invoice[i].returned - return[k].total))
         /\ invoice[i].customer \/
              refund = AtLeastZero(invoice[i].paid - (invoice[i].total - invoice[i].returned - return[k].total))
         /\ IF refund = 0 THEN payment' = payment
            ELSE \E p \in Unused(payment) : Record(p, invoice[i].customer, i, "out", refund)
<1>1. i \in Invoices /\ Issued(i) /\ return[k].status = "draft"
  BY DEF IssueReturn, Shaped, Documented
<1> DEFINE t == return[k].total
           row == [invoice[i] EXCEPT !.returned = @ + t]
<1>2. /\ invoice[i] \in InvoiceRow /\ t \in Nat
      /\ invoice[i].returned + t <= invoice[i].total
  BY <1>1, SalesAssumption DEF IssueReturn, Shaped, TypeOK, ReturnRow, InvoiceRow, Amounts
<1>3. /\ row.paid = invoice[i].paid /\ row.total = invoice[i].total
      /\ row.returned = invoice[i].returned + t /\ row.customer = invoice[i].customer
  BY <1>2 DEF InvoiceRow
<1>4. Overpaid(row) = AtLeastZero(invoice[i].paid - (invoice[i].total - invoice[i].returned - t))
  BY <1>2, <1>3 DEF Overpaid, InvoiceRow, Amounts
<1>5. Refund(i, row, refund)
  BY DEF IssueReturn
<1>6. invoice' = [invoice EXCEPT ![i].returned = @ + t, ![i].paid = @ - refund]
  BY <1>1, <1>2, <1>5 DEF Refund, Shaped, TypeOK, InvoiceRow
<1>7. invoice[i].paid - refund \in Amounts
  BY <1>2, <1>4, <1>5, SalesAssumption DEF Refund, AtLeastZero, InvoiceRow, Amounts
<1> HIDE DEF row
<1> QED
  BY <1>1, <1>2, <1>3, <1>4, <1>5, <1>6, <1>7 DEF Refund

LEMMA IssueReturnShaped ==
  ASSUME Shaped, ReturnsWithinSold, NEW k \in Returns, NEW refund \in Amounts,
         IssueReturn(k, refund), clipped' = clipped, calm' \in BOOLEAN
  PROVE  Shaped'
<1>0. PICK i : i = return[k].invoice
  OBVIOUS
<1> DEFINE t == return[k].total
<1>1. /\ i \in Invoices /\ Issued(i)
      /\ invoice' = [invoice EXCEPT ![i].returned = @ + t, ![i].paid = @ - refund]
      /\ invoice[i].returned + t <= invoice[i].total
      /\ invoice[i].paid - refund \in Amounts
      /\ IF refund = 0 THEN payment' = payment
         ELSE \E p \in Unused(payment) : Record(p, invoice[i].customer, i, "out", refund)
  BY <1>0, IssueReturnShape
<1>2. invoice[i].returned + t \in Amounts
  BY <1>1, SalesAssumption DEF Shaped, TypeOK, InvoiceRow, ReturnRow, Amounts
<1>3. /\ invoice' \in [Invoices -> InvoiceRow]
      /\ \A j \in Invoices : /\ invoice'[j].status = invoice[j].status
                             /\ invoice'[j].customer = invoice[j].customer
                             /\ j # i => invoice'[j] = invoice[j]
  BY <1>1, <1>2 DEF Shaped, TypeOK, InvoiceRow
<1>4. /\ return' \in [Returns -> ReturnRow] /\ request' = request
      /\ return'[k].invoice = i /\ \A l \in Returns \ {k} : return'[l] = return[l]
  BY <1>0 DEF IssueReturn, Shaped, TypeOK, ReturnRow
<1>5. Untouched'
  BY <1>1, <1>3 DEF Shaped, Untouched, Issued
<1>6. CASE refund = 0
  <2>1. payment' = payment
    BY <1>1, <1>6
  <2> QED
    BY <1>1, <1>3, <1>4, <1>5, <2>1, DocumentedStep DEF Shaped, TypeOK, Issued
<1>7. CASE refund # 0
  <2>1. PICK p \in Unused(payment) : Record(p, invoice[i].customer, i, "out", refund)
    BY <1>1, <1>7
  <2>2. /\ p \in Payments /\ payment' \in [Payments -> PaymentRow]
        /\ payment'[p].invoice = i /\ payment'[p].customer = invoice[i].customer
        /\ \A q \in Payments \ {p} : payment'[q] = payment[q]
    BY <1>1, <2>1 DEF Shaped, TypeOK, Record, Unused, PaymentRow, InvoiceRow
  <2>3. TypeOK'
    BY <1>3, <1>4, <2>2 DEF Shaped, TypeOK
  <2>4. Documented'
    BY <1>1, <1>3, <1>4, <2>2, DocumentedStep DEF Shaped, Issued
  <2> QED
    BY <1>5, <2>3, <2>4 DEF Shaped
<1> QED
  BY <1>6, <1>7

-----------------------------------------------------------------------------
(* Amounts *)

LEMMA TotalTypesNext ==
  ASSUME TypeOK'
  PROVE  /\ Total(Invoiced)' \in Int /\ Total(Owed)' \in Int /\ Total(Credited)' \in Int
         /\ Total(Received)' \in Int /\ Total(OnAccount)' \in Int
         /\ \A i \in Invoices : Total(From(i))' \in Int /\ Total(Back(i))' \in Int
<1>1. Total(Invoiced') \in Int /\ Total(Owed') \in Int
  BY SumTypesNext, TotalType, SalesAssumption DEF SumsTyped
<1>2. Total(Credited') \in Int /\ \A i \in Invoices : Total(Back(i)') \in Int
  BY SumTypesNext, TotalType, SalesAssumption DEF SumsTyped
<1>3. /\ Total(Received') \in Int /\ Total(OnAccount') \in Int
      /\ \A i \in Invoices : Total(From(i)') \in Int
  BY SumTypesNext, TotalType, SalesAssumption DEF SumsTyped
<1> QED
  BY <1>1, <1>2, <1>3

(* Nothing that counts changes *)
LEMMA QuietAmounted ==
  ASSUME Shaped, Shaped', SumForm, payment' = payment, clipped' = clipped,
         \A j \in Invoices : invoice'[j] = invoice[j] \/ (~Issued(j) /\ invoice'[j].status # "issued"),
         \A k \in Returns : \/ return'[k] = return[k]
                            \/ return[k].status # "issued" /\ return'[k].status # "issued"
  PROVE  SumForm'
<1>1. Invoiced' = Invoiced /\ Owed' = Owed
  BY DEF Invoiced, Owed, Issued
<1>2. Received' = Received /\ OnAccount' = OnAccount /\ \A i \in Invoices : From(i)' = From(i)
  BY DEF Received, OnAccount, From, Posted, Signed
<1>3. \A i \in Invoices : Back(i)' = Back(i)
  BY DEF Back
<1>4. Credited' = Credited
  <2>1. \A k \in Returns : return[k].status = "issued" => invoice'[return[k].invoice] = invoice[return[k].invoice]
    BY DEF Shaped, Documented
  <2> QED
    BY <2>1 DEF Credited
<1>5. \A i \in Invoices :
        /\ Total(From(i))' = Total(From(i)) /\ Total(Back(i))' = Total(Back(i))
  BY <1>2, <1>3
<1>6. /\ Total(Invoiced)' = Total(Invoiced) /\ Total(Credited)' = Total(Credited)
      /\ Total(Received)' = Total(Received) /\ Total(Owed)' = Total(Owed)
      /\ Total(OnAccount)' = Total(OnAccount)
  BY <1>1, <1>2, <1>4
<1>7. ASSUME NEW i \in Invoices
      PROVE  /\ invoice'[i].returned = invoice[i].returned
             /\ invoice'[i].returned <= invoice'[i].total
  <2>1. CASE invoice'[i] = invoice[i]
    BY <2>1 DEF SumForm
  <2>2. CASE invoice'[i] # invoice[i]
    <3>1. invoice[i].returned = 0 /\ invoice'[i].returned = 0 /\ invoice'[i].total \in 0..MaxTotal
      BY <2>2 DEF Shaped, Untouched, Issued, TypeOK, InvoiceRow, Amounts
    <3> QED
      BY <3>1, SalesAssumption
  <2> QED
    BY <2>1, <2>2
<1>8. \A i \in Invoices : invoice'[i].status = "issued" => Issued(i) /\ invoice'[i].paid = invoice[i].paid
  BY DEF Issued
<1> QED
  BY <1>5, <1>6, <1>7, <1>8 DEF SumForm, Issued

(* No receipt is for an invoice that is not issued *)
LEMMA NothingCollected ==
  ASSUME Shaped, NEW i \in Invoices, ~Issued(i)
  PROVE  Total(From(i)) = 0
<1>1. \A p \in Payments : Posted(p) => payment[p].invoice # i
  BY SalesAssumption DEF Shaped, Documented
<1>2. From(i) = [p \in Payments |-> 0]
  BY <1>1 DEF From
<1> QED
  BY <1>2, TotalZero

(* The values of the sums at what a step changes *)
InvoiceAt(i) ==
  /\ Invoiced[i] = IF Issued(i) /\ invoice[i].customer THEN invoice[i].total ELSE 0
  /\ Owed[i] = IF Issued(i) /\ invoice[i].customer
               THEN invoice[i].total - invoice[i].returned - invoice[i].paid + clipped[i] ELSE 0
PaymentAt(p) ==
  /\ Received[p] = IF Posted(p) /\ payment[p].customer THEN Signed(p) ELSE 0
  /\ OnAccount[p] = IF Posted(p) /\ payment[p].invoice = None THEN Signed(p) ELSE 0
  /\ \A i \in Invoices : From(i)[p] = IF Posted(p) /\ payment[p].invoice = i THEN Signed(p) ELSE 0
ReturnAt(k) ==
  /\ Credited[k] = IF return[k].status = "issued" /\ invoice[return[k].invoice].customer
                   THEN return[k].total ELSE 0
  /\ \A i \in Invoices : Back(i)[k] = IF return[k].status = "issued" /\ return[k].invoice = i
                                      THEN return[k].total ELSE 0

ValuesAt ==
  /\ \A i \in Invoices : InvoiceAt(i)
  /\ \A p \in Payments : PaymentAt(p)
  /\ \A k \in Returns : ReturnAt(k)

LEMMA Values == TypeOK => ValuesAt
<1> SUFFICES ASSUME TypeOK PROVE ValuesAt
  OBVIOUS
<1>1. \A i \in Invoices : InvoiceAt(i)
  BY RowTypes DEF InvoiceAt, Invoiced, Owed, Issued
<1>2. \A p \in Payments : PaymentAt(p)
  BY DEF PaymentAt, Received, OnAccount, From
<1>3. \A k \in Returns : ReturnAt(k)
  BY DEF ReturnAt, Credited, Back
<1> QED
  BY <1>1, <1>2, <1>3 DEF ValuesAt

LEMMA ValuesNext == TypeOK' => ValuesAt'
  BY Values, PTL

(* What a step does to an issued invoice that keeps its customer and its total  *)
LEMMA InvoiceChange ==
  ASSUME TypeOK, TypeOK', NEW i \in Invoices, Issued(i), invoice'[i].status = "issued",
         invoice'[i].customer = invoice[i].customer, invoice'[i].total = invoice[i].total,
         NEW change \in Int,
         invoice'[i].paid + invoice'[i].returned - clipped'[i] + change
           = invoice[i].paid + invoice[i].returned - clipped[i]
  PROVE  /\ (Invoiced[i])' = Invoiced[i] /\ Invoiced[i] \in Int /\ Owed[i] \in Int
         /\ (Owed[i])' = Owed[i] + (IF invoice[i].customer THEN change ELSE 0)
<1>1. /\ Invoiced[i] = IF invoice[i].customer THEN invoice[i].total ELSE 0
      /\ Owed[i] = IF invoice[i].customer
                   THEN invoice[i].total - invoice[i].returned - invoice[i].paid + clipped[i] ELSE 0
  BY Values DEF ValuesAt, InvoiceAt
<1>2. /\ (Invoiced[i])' = IF invoice'[i].customer THEN invoice'[i].total ELSE 0
      /\ (Owed[i])' = IF invoice'[i].customer
                      THEN invoice'[i].total - invoice'[i].returned - invoice'[i].paid + clipped'[i] ELSE 0
  BY ValuesNext DEF ValuesAt, InvoiceAt, Issued
<1>3. /\ invoice[i].total \in Int /\ invoice[i].returned \in Int /\ invoice[i].paid \in Int
      /\ clipped[i] \in Int
  BY RowTypes, SalesAssumption
<1>4. /\ invoice'[i].returned \in Int /\ invoice'[i].paid \in Int /\ clipped'[i] \in Int
  BY SalesAssumption DEF TypeOK, InvoiceRow, Amounts
<1> QED
  BY <1>1, <1>2, <1>3, <1>4

(* What a step does to the sums over payments: received from the customer, on   *)
(* account, and for the invoice i                                              *)
Moves(i, received, onAccount, collected) ==
  /\ Total(Received)' = Total(Received) + received
  /\ Total(OnAccount)' = Total(OnAccount) + onAccount
  /\ \A j \in Invoices :
       Total(From(j))' = Total(From(j)) + (IF j = i THEN collected ELSE 0)

LEMMA NothingMoves ==
  ASSUME TypeOK, payment' = payment, NEW i
  PROVE  Moves(i, 0, 0, 0)
<1>1. Received' = Received /\ OnAccount' = OnAccount /\ \A j \in Invoices : From(j)' = From(j)
  BY DEF Received, OnAccount, From, Posted, Signed
<1> QED
  BY <1>1, TotalTypes DEF Moves

LEMMA RecordMoves ==
  ASSUME TypeOK, TypeOK', NEW p \in Payments, ~Posted(p), NEW customer \in BOOLEAN,
         NEW i \in Invoices \cup {None}, NEW direction \in {"in", "out"}, NEW amount \in Amounts,
         Record(p, customer, i, direction, amount),
         NEW s, s = IF direction = "in" THEN amount ELSE -amount
  PROVE  Moves(i, IF customer THEN s ELSE 0, IF i = None THEN s ELSE 0, s)
<1>1. /\ payment'[p] = [status |-> "posted", customer |-> customer, invoice |-> i,
                        direction |-> direction, amount |-> amount]
      /\ \A q \in Payments \ {p} : payment'[q] = payment[q]
  BY DEF Record, TypeOK
<1>2. s \in Int
  BY SalesAssumption DEF Amounts
<1>3. /\ Received[p] = 0 /\ OnAccount[p] = 0 /\ \A j \in Invoices : From(j)[p] = 0
  BY Values DEF ValuesAt, PaymentAt
<1>4. /\ (Received[p])' = IF customer THEN s ELSE 0
      /\ (OnAccount[p])' = IF i = None THEN s ELSE 0
      /\ \A j \in Invoices : (From(j)[p])' = IF j = i THEN s ELSE 0
  BY <1>1, ValuesNext DEF ValuesAt, PaymentAt, Posted, Signed
<1> QED
  BY <1>1, <1>2, <1>3, <1>4, PaymentSums, TotalTypes DEF Moves

LEMMA TenderMoves ==
  ASSUME TypeOK, TypeOK', NEW customer \in BOOLEAN, NEW i \in Invoices, NEW amount \in Amounts,
         Tender(customer, i, amount)
  PROVE  Moves(i, IF customer THEN amount ELSE 0, 0, amount)
<1>1. CASE amount = 0
  BY <1>1, NothingMoves DEF Tender
<1>2. CASE amount # 0
  <2>1. PICK p \in Unused(payment) : Record(p, customer, i, "in", amount)
    BY <1>2 DEF Tender
  <2>2. p \in Payments /\ ~Posted(p) /\ i # None
    BY <2>1, SalesAssumption DEF TypeOK, Unused, Posted
  <2> QED
    BY <2>1, <2>2, RecordMoves
<1> QED
  BY <1>1, <1>2

(* No issued return is of another customer's invoice than before *)
LEMMA CustomersKept ==
  ASSUME Shaped, return' = return,
         \A j \in Invoices : Issued(j) => invoice'[j].customer = invoice[j].customer
  PROVE  Credited' = Credited /\ \A i \in Invoices : Back(i)' = Back(i)
<1>1. \A k \in Returns :
        return[k].status = "issued" =>
          invoice'[return[k].invoice].customer = invoice[return[k].invoice].customer
  BY DEF Shaped, Documented
<1> QED
  BY <1>1 DEF Credited, Back

LEMMA TenderAmounted ==
  ASSUME Shaped, Shaped', SumForm, NEW i \in Invoices, ~Issued(i), NEW customer \in BOOLEAN,
         NEW total \in 0..MaxTotal, NEW tendered \in Amounts,
         Tender(customer, i, tendered), IssuedAs(i, customer, total, tendered),
         return' = return, clipped' = clipped
  PROVE  SumForm'
<1>1. TypeOK /\ TypeOK'
  BY DEF Shaped
<1>2. Moves(i, IF customer THEN tendered ELSE 0, 0, tendered)
  BY <1>1, TenderMoves
<1>3. /\ Total(Credited)' = Total(Credited)
      /\ \A j \in Invoices : Total(Back(j))' = Total(Back(j))
  BY CustomersKept DEF IssuedAs
<1>4. /\ Total(Invoiced)' = Total(Invoiced) - Invoiced[i] + (Invoiced[i])'
      /\ Total(Owed)' = Total(Owed) - Owed[i] + (Owed[i])'
  BY <1>1, InvoiceSums DEF IssuedAs
<1>5. /\ clipped[i] = 0 /\ invoice[i].returned = 0
      /\ tendered \in Int /\ total \in Int
  BY SalesAssumption DEF Shaped, Untouched, Amounts
<1>6. /\ Invoiced[i] = 0 /\ Owed[i] = 0
      /\ (Invoiced[i])' = IF customer THEN total ELSE 0
      /\ (Owed[i])' = IF customer THEN total - tendered ELSE 0
  BY <1>1, <1>5, Values, ValuesNext DEF ValuesAt, InvoiceAt, IssuedAs, Issued
<1>7. Total(From(i)) = 0
  BY NothingCollected
<1>8. ASSUME NEW j \in Invoices
      PROVE  /\ Issued(j)' => invoice'[j].paid = Total(From(j))' + clipped'[j]
             /\ invoice'[j].returned = Total(Back(j))'
             /\ invoice'[j].returned <= invoice'[j].total
  <2>1. CASE j = i
    BY <1>2, <1>3, <1>5, <1>7, <2>1, SalesAssumption DEF Moves, SumForm, IssuedAs
  <2>2. CASE j # i
    BY <1>1, <1>2, <1>3, <2>2, TotalTypes DEF Moves, SumForm, IssuedAs, Issued
  <2> QED
    BY <2>1, <2>2
<1>9. Total(Invoiced)' - Total(Credited)' - Total(Received)' = Total(Owed)' - Total(OnAccount)'
  BY <1>1, <1>2, <1>3, <1>4, <1>5, <1>6, TotalTypes DEF Moves, SumForm
<1> QED
  BY <1>8, <1>9 DEF SumForm

LEMMA PayAmounted ==
  ASSUME Shaped, Shaped', SumForm, NEW p \in Payments, NEW i \in Invoices, NEW amount \in 1..MaxTotal,
         Pay(p, i, amount), clipped' = clipped
  PROVE  SumForm'
<1>1. TypeOK /\ TypeOK'
  BY DEF Shaped
<1>2. /\ Issued(i) /\ invoice[i].customer \in BOOLEAN /\ amount \in Amounts /\ amount \in Int
      /\ invoice'[i].paid = invoice[i].paid + amount
      /\ invoice'[i].status = invoice[i].status /\ invoice'[i].total = invoice[i].total
      /\ invoice'[i].returned = invoice[i].returned
      /\ \A j \in Invoices : /\ invoice'[j].customer = invoice[j].customer
                             /\ j # i => invoice'[j] = invoice[j]
  BY <1>1, SalesAssumption DEF Pay, Issued, TypeOK, InvoiceRow, Amounts
<1>3. Moves(i, IF invoice[i].customer THEN amount ELSE 0, 0, amount)
  <2>1. ~Posted(p) /\ i # None /\ Record(p, invoice[i].customer, i, "in", amount)
    BY SalesAssumption DEF Pay, Posted
  <2> QED
    BY <1>1, <1>2, <2>1, RecordMoves
<1>4. /\ Total(Credited)' = Total(Credited)
      /\ \A j \in Invoices : Total(Back(j))' = Total(Back(j))
  BY <1>2, CustomersKept DEF Pay
<1>5. /\ Total(Invoiced)' = Total(Invoiced) - Invoiced[i] + (Invoiced[i])'
      /\ Total(Owed)' = Total(Owed) - Owed[i] + (Owed[i])'
  BY <1>1, <1>2, InvoiceSums
<1>6. (Invoiced[i])' = Invoiced[i] /\ Invoiced[i] \in Int /\ Owed[i] \in Int
  BY <1>1, <1>2, Values, ValuesNext, RowTypes DEF ValuesAt, InvoiceAt, Issued
<1>7. (Owed[i])' = Owed[i] - (IF invoice[i].customer THEN amount ELSE 0)
  BY <1>1, <1>2, Values, ValuesNext, RowTypes DEF ValuesAt, InvoiceAt, Issued
<1>8. ASSUME NEW j \in Invoices
      PROVE  /\ Issued(j)' => invoice'[j].paid = Total(From(j))' + clipped'[j]
             /\ invoice'[j].returned = Total(Back(j))'
             /\ invoice'[j].returned <= invoice'[j].total
  BY <1>1, <1>2, <1>3, <1>4, RowTypes, TotalTypes DEF Moves, SumForm, Issued
<1>9. Total(Invoiced)' - Total(Credited)' - Total(Received)' = Total(Owed)' - Total(OnAccount)'
  BY <1>1, <1>2, <1>3, <1>4, <1>5, <1>6, <1>7, TotalTypes DEF Moves, SumForm
<1> QED
  BY <1>8, <1>9 DEF SumForm

LEMMA PayOnAccountAmounted ==
  ASSUME Shaped, Shaped', SumForm, NEW p \in Payments, NEW amount \in 1..MaxTotal,
         PayOnAccount(p, amount), clipped' = clipped
  PROVE  SumForm'
<1>1. TypeOK /\ TypeOK' /\ UNCHANGED <<invoice, return>> /\ amount \in Amounts /\ amount \in Int
  BY SalesAssumption DEF Shaped, PayOnAccount, Amounts
<1>2. Moves(None, amount, amount, amount)
  BY <1>1, RecordMoves DEF PayOnAccount, Posted
<1>3. Invoiced' = Invoiced /\ Owed' = Owed
  BY <1>1 DEF Invoiced, Owed, Issued
<1>4. Credited' = Credited /\ \A i \in Invoices : Back(i)' = Back(i)
  BY <1>1 DEF Credited, Back
<1>5. /\ Total(Invoiced)' = Total(Invoiced) /\ Total(Owed)' = Total(Owed)
      /\ Total(Credited)' = Total(Credited) /\ \A i \in Invoices : Total(Back(i))' = Total(Back(i))
  BY <1>3, <1>4
<1>6. \A i \in Invoices : Total(From(i))' = Total(From(i))
  BY <1>1, <1>2, TotalTypes, SalesAssumption DEF Moves
<1> QED
  BY <1>1, <1>2, <1>5, <1>6, TotalTypes DEF Moves, SumForm, Issued

LEMMA CancelPaymentAmounted ==
  ASSUME Shaped, Shaped', SumForm, NEW p \in Payments, CancelPayment(p)
  PROVE  SumForm'
<1>0. PICK i, a : i = payment[p].invoice /\ a = payment[p].amount
  OBVIOUS
<1>1. /\ TypeOK /\ TypeOK' /\ a \in Nat /\ return' = return
      /\ Posted(p) /\ payment[p].customer /\ Signed(p) = a /\ i \in Invoices \cup {None}
  BY <1>0, RowTypes, SalesAssumption DEF Shaped, CancelPayment, Signed, Amounts
<1>2. Moves(i, -a, IF i = None THEN -a ELSE 0, -a)
  <2>1. /\ Received[p] = a /\ OnAccount[p] = IF i = None THEN a ELSE 0
        /\ \A j \in Invoices : From(j)[p] = IF j = i THEN a ELSE 0
    BY <1>0, <1>1, Values DEF ValuesAt, PaymentAt
  <2>2. payment'[p].status = "cancelled" /\ \A q \in Payments \ {p} : payment'[q] = payment[q]
    BY <1>1 DEF CancelPayment, TypeOK, PaymentRow
  <2>3. (Received[p])' = 0 /\ (OnAccount[p])' = 0 /\ \A j \in Invoices : (From(j)[p])' = 0
    BY <1>1, <2>2, ValuesNext DEF ValuesAt, PaymentAt, Posted
  <2> QED
    BY <1>1, <2>1, <2>2, <2>3, PaymentSums, TotalTypes DEF Moves
<1>3. CASE i = None
  <2>1. UNCHANGED <<invoice, clipped>>
    BY <1>0, <1>3 DEF CancelPayment
  <2>2. /\ Invoiced' = Invoiced /\ Owed' = Owed
        /\ Credited' = Credited /\ \A j \in Invoices : Back(j)' = Back(j)
    BY <1>1, <2>1 DEF Invoiced, Owed, Issued, Credited, Back
  <2>3. /\ Total(Invoiced)' = Total(Invoiced) /\ Total(Owed)' = Total(Owed)
        /\ Total(Credited)' = Total(Credited) /\ \A j \in Invoices : Total(Back(j))' = Total(Back(j))
    BY <2>2
  <2>4. \A j \in Invoices : Total(From(j))' = Total(From(j))
    BY <1>1, <1>2, <1>3, TotalTypes, SalesAssumption DEF Moves
  <2> QED
    BY <1>1, <1>2, <1>3, <2>1, <2>3, <2>4, TotalTypes DEF Moves, SumForm, Issued
<1>4. CASE i # None
  <2>1. i \in Invoices /\ Issued(i) /\ invoice[i].customer
    BY <1>0, <1>1, <1>4 DEF Shaped, Documented
  <2>2. PICK rest, lost : /\ rest = AtLeastZero(invoice[i].paid - a)
                          /\ lost = AtLeastZero(a - invoice[i].paid)
    OBVIOUS
  <2>3. /\ rest \in Int /\ lost \in Int /\ rest - lost = invoice[i].paid - a
        /\ clipped[i] \in Int /\ invoice[i].returned \in Int /\ invoice[i].paid \in Int
    <3>1. clipped[i] \in Int /\ invoice[i].returned \in Int /\ invoice[i].paid \in Int
      BY <1>1, <2>1, RowTypes, SalesAssumption
    <3>2. a \in Int
      BY <1>1
    <3> QED
      BY <2>2, <3>1, <3>2 DEF AtLeastZero
  <2>4. /\ invoice'[i].paid = rest /\ clipped'[i] = clipped[i] + lost
        /\ invoice'[i].status = invoice[i].status /\ invoice'[i].total = invoice[i].total
        /\ invoice'[i].returned = invoice[i].returned
        /\ \A j \in Invoices : /\ invoice'[j].customer = invoice[j].customer
                               /\ j # i => invoice'[j] = invoice[j] /\ clipped'[j] = clipped[j]
    <3>1. /\ invoice' = [invoice EXCEPT ![i].paid = rest]
          /\ clipped' = [clipped EXCEPT ![i] = @ + lost]
      BY <1>0, <1>4, <2>2 DEF CancelPayment
    <3> QED
      BY <1>1, <2>1, <3>1 DEF TypeOK, InvoiceRow
  <2>5. /\ Total(Credited)' = Total(Credited)
        /\ \A j \in Invoices : Total(Back(j))' = Total(Back(j))
    BY <1>1, <2>4, CustomersKept
  <2>6. /\ Total(Invoiced)' = Total(Invoiced) - Invoiced[i] + (Invoiced[i])'
        /\ Total(Owed)' = Total(Owed) - Owed[i] + (Owed[i])'
    BY <1>1, <2>1, <2>4, InvoiceSums
  <2>7. /\ (Invoiced[i])' = Invoiced[i] /\ Invoiced[i] \in Int /\ Owed[i] \in Int
        /\ (Owed[i])' = Owed[i] + a
    <3>0. invoice'[i].customer = invoice[i].customer
      BY <2>1, <2>4
    <3>1. a \in Int /\ invoice'[i].status = "issued"
      BY <1>1, <2>1, <2>4 DEF Issued
    <3>2. invoice'[i].paid + invoice'[i].returned - clipped'[i] + a
            = invoice[i].paid + invoice[i].returned - clipped[i]
      <4>1. /\ invoice'[i].paid = rest /\ clipped'[i] = clipped[i] + lost
            /\ invoice'[i].returned = invoice[i].returned
        BY <2>4
      <4> QED
        BY <2>3, <3>1, <4>1
    <3> QED
      BY <1>1, <2>1, <2>4, <3>0, <3>1, <3>2, InvoiceChange
  <2>8. \A j \in Invoices : /\ invoice[j].paid \in Int /\ clipped[j] \in Int
                             /\ Total(From(j)) \in Int /\ Total(Back(j)) \in Int
    BY <1>1, RowTypes, TotalTypes, SalesAssumption
  <2>9. ASSUME NEW j \in Invoices
        PROVE  /\ Issued(j)' => invoice'[j].paid = Total(From(j))' + clipped'[j]
               /\ invoice'[j].returned = Total(Back(j))'
               /\ invoice'[j].returned <= invoice'[j].total
    <3>1. /\ Issued(j) => invoice[j].paid = Total(From(j)) + clipped[j]
          /\ invoice[j].returned = Total(Back(j)) /\ invoice[j].returned <= invoice[j].total
          /\ Total(Back(j))' = Total(Back(j))
          /\ Total(From(j))' = Total(From(j)) + (IF j = i THEN -a ELSE 0)
      BY <1>2, <2>5 DEF SumForm, Moves
    <3>2. CASE j = i
      BY <1>1, <2>1, <2>3, <2>4, <2>8, <3>1, <3>2
    <3>3. CASE j # i
      BY <2>4, <2>8, <3>1, <3>3 DEF Issued
    <3> QED
      BY <3>2, <3>3
  <2>10. Total(Invoiced)' - Total(Credited)' - Total(Received)' = Total(Owed)' - Total(OnAccount)'
    BY <1>1, <1>2, <1>4, <2>1, <2>5, <2>6, <2>7, TotalTypes DEF Moves, SumForm
  <2> QED
    BY <2>9, <2>10 DEF SumForm
<1> QED
  BY <1>3, <1>4

LEMMA IssueReturnAmounted ==
  ASSUME Shaped, Shaped', SumForm, NEW k \in Returns, NEW refund \in Amounts,
         IssueReturn(k, refund), clipped' = clipped
  PROVE  SumForm'
<1>0. PICK i : i = return[k].invoice
  OBVIOUS
<1> DEFINE t == return[k].total
<1>1. ReturnsWithinSold
  BY DEF SumForm, ReturnsWithinSold, Back
<1>2. /\ i \in Invoices /\ Issued(i) /\ return[k].status = "draft"
      /\ invoice' = [invoice EXCEPT ![i].returned = @ + t, ![i].paid = @ - refund]
      /\ invoice[i].returned + t <= invoice[i].total
      /\ IF refund = 0 THEN payment' = payment
         ELSE \E p \in Unused(payment) : Record(p, invoice[i].customer, i, "out", refund)
  BY <1>0, <1>1, IssueReturnShape
<1>3. TypeOK /\ TypeOK' /\ t \in Int /\ refund \in Int /\ invoice[i].customer \in BOOLEAN
  BY <1>2, RowTypes, SalesAssumption DEF Shaped, Amounts
<1>4. Moves(i, IF invoice[i].customer THEN -refund ELSE 0, 0, -refund)
  <2>1. CASE refund = 0
    BY <1>2, <1>3, <2>1, NothingMoves
  <2>2. CASE refund # 0
    <3>1. PICK p \in Unused(payment) : Record(p, invoice[i].customer, i, "out", refund)
      BY <1>2, <2>2
    <3>2. p \in Payments /\ ~Posted(p) /\ i # None
      BY <1>2, <1>3, <3>1, SalesAssumption DEF TypeOK, Unused, Posted
    <3> QED
      BY <1>2, <1>3, <3>1, <3>2, RecordMoves
  <2> QED
    BY <2>1, <2>2
<1>5. /\ invoice'[i].paid = invoice[i].paid - refund
      /\ invoice'[i].returned = invoice[i].returned + t
      /\ invoice'[i].status = invoice[i].status /\ invoice'[i].total = invoice[i].total
      /\ \A j \in Invoices : /\ invoice'[j].customer = invoice[j].customer
                             /\ j # i => invoice'[j] = invoice[j]
  BY <1>2, <1>3 DEF TypeOK, InvoiceRow
<1>6. /\ return'[k].status = "issued" /\ return'[k].total = t /\ return'[k].invoice = i
      /\ \A l \in Returns \ {k} : return'[l] = return[l]
  BY <1>0, <1>3 DEF IssueReturn, TypeOK, ReturnRow
<1> HIDE DEF t
<1>7. /\ Total(Credited)' = Total(Credited) + (IF invoice[i].customer THEN t ELSE 0)
      /\ \A j \in Invoices : Total(Back(j))' = Total(Back(j)) + (IF j = i THEN t ELSE 0)
  <2>1. \A l \in Returns \ {k} :
          return[l].status = "issued" =>
            invoice'[return[l].invoice].customer = invoice[return[l].invoice].customer
    BY <1>5 DEF Shaped, Documented
  <2>2. /\ Total(Credited)' = Total(Credited) - Credited[k] + (Credited[k])'
        /\ \A j \in Invoices : Total(Back(j))' = Total(Back(j)) - Back(j)[k] + (Back(j)[k])'
    BY <1>3, <1>6, <2>1, ReturnSums
  <2>3. Credited[k] = 0 /\ \A j \in Invoices : Back(j)[k] = 0
    BY <1>2, <1>3, Values DEF ValuesAt, ReturnAt
  <2>4. /\ (Credited[k])' = IF invoice[i].customer THEN t ELSE 0
        /\ \A j \in Invoices : (Back(j)[k])' = IF j = i THEN t ELSE 0
    <3>1. ReturnAt(k)'
      BY <1>3, ValuesNext DEF ValuesAt
    <3>2. invoice'[i].customer = invoice[i].customer
      BY <1>2, <1>5
    <3> QED
      BY <1>6, <3>1, <3>2 DEF ReturnAt
  <2> QED
    BY <1>3, <2>2, <2>3, <2>4, TotalTypes
<1>8. /\ Total(Invoiced)' = Total(Invoiced) - Invoiced[i] + (Invoiced[i])'
      /\ Total(Owed)' = Total(Owed) - Owed[i] + (Owed[i])'
  BY <1>2, <1>3, <1>5, InvoiceSums
<1>9. \A j \in Invoices : /\ invoice[j].paid \in Int /\ invoice[j].returned \in Int
                           /\ clipped[j] \in Int /\ invoice[j].total \in Int
                           /\ Total(From(j)) \in Int /\ Total(Back(j)) \in Int
  BY <1>3, RowTypes, TotalTypes, SalesAssumption
<1>10. /\ (Invoiced[i])' = Invoiced[i] /\ Invoiced[i] \in Int /\ Owed[i] \in Int
       /\ (Owed[i])' = Owed[i] + (IF invoice[i].customer THEN refund - t ELSE 0)
  <2>0. invoice'[i].customer = invoice[i].customer
    BY <1>2, <1>5
  <2>1. refund - t \in Int /\ invoice'[i].status = "issued"
    BY <1>2, <1>3, <1>5 DEF Issued
  <2>2. invoice'[i].paid + invoice'[i].returned - clipped'[i] + (refund - t)
          = invoice[i].paid + invoice[i].returned - clipped[i]
    BY <1>2, <1>3, <1>5, <1>9
  <2> QED
    BY <1>2, <1>3, <1>5, <2>0, <2>1, <2>2, InvoiceChange
<1>11. ASSUME NEW j \in Invoices
       PROVE  /\ Issued(j)' => invoice'[j].paid = Total(From(j))' + clipped'[j]
              /\ invoice'[j].returned = Total(Back(j))'
              /\ invoice'[j].returned <= invoice'[j].total
  <2>1. /\ Issued(j) => invoice[j].paid = Total(From(j)) + clipped[j]
        /\ invoice[j].returned = Total(Back(j)) /\ invoice[j].returned <= invoice[j].total
        /\ Total(Back(j))' = Total(Back(j)) + (IF j = i THEN t ELSE 0)
        /\ Total(From(j))' = Total(From(j)) + (IF j = i THEN -refund ELSE 0)
    BY <1>4, <1>7 DEF SumForm, Moves
  <2>2. CASE j = i
    BY <1>2, <1>3, <1>5, <1>9, <2>1, <2>2
  <2>3. CASE j # i
    BY <1>5, <1>9, <2>1, <2>3 DEF Issued
  <2> QED
    BY <2>2, <2>3
<1>12. Total(Invoiced)' - Total(Credited)' - Total(Received)' = Total(Owed)' - Total(OnAccount)'
  BY <1>3, <1>4, <1>7, <1>8, <1>10, TotalTypes DEF Moves, SumForm
<1> QED
  BY <1>11, <1>12 DEF SumForm

-----------------------------------------------------------------------------
(* Walk-in buyers, and what issuing requests have checked                      *)

LEMMA CheckedStays ==
  ASSUME SalesInv, [Next]_vars
  PROVE  CheckedWhileCalm'
<1> USE DEF SalesInv
<1>1. CASE UNCHANGED vars
  BY <1>1
  DEF vars, CheckedWhileCalm, Checked, WithinLimit, Balance, Posted, Signed
<1>2. ASSUME NEW r \in Requests, Issue(r) \/ FailIssue(r), calm' = calm
      PROVE  CheckedWhileCalm'
  <2>1. request' = [request EXCEPT ![r] = Idle] /\ request[r] # Idle
    BY <1>2 DEF Issue, FailIssue
  <2>2. calm' => \A s \in Requests : request'[s] = Idle
    BY <1>2, <2>1 DEF CheckedWhileCalm, TypeOK
  <2> QED
    BY <2>2 DEF CheckedWhileCalm
<1>3. ASSUME NEW r \in Requests, NEW i \in Invoices, NEW tendered \in Amounts,
             CheckIssue(r, i, tendered), WorkingBeside
      PROVE  CheckedWhileCalm'
  <2>1. /\ request' = [request EXCEPT ![r] = [invoice |-> i, tendered |-> tendered]]
        /\ UNCHANGED <<invoice, payment, return>>
    BY <1>3 DEF CheckIssue
  <2>2. request'[r] = [invoice |-> i, tendered |-> tendered]
    BY <2>1 DEF TypeOK
  <2>3. calm' => \A s \in Requests \ {r} : request'[s] = Idle
    BY <1>3, <2>1 DEF WorkingBeside, TypeOK
  <2>4. Balance' = Balance
    BY <2>1 DEF Balance, Posted, Signed
  <2>5. Checked(r)'
    BY <1>3, <2>1, <2>2, <2>4 DEF Checked, CheckIssue, WithinLimit
  <2> QED
    BY <2>3, <2>5 DEF CheckedWhileCalm
<1>4. ASSUME request' = request, WorkingBeside
      PROVE  CheckedWhileCalm'
  <2>1. calm' => \A r \in Requests : request'[r] = Idle
    BY <1>4 DEF WorkingBeside
  <2> QED
    BY <2>1 DEF CheckedWhileCalm
<1>5. ASSUME NEW i \in Invoices, InvoiceStep(i), WorkingBeside
      PROVE  CheckedWhileCalm'
  BY <1>3, <1>4, <1>5 DEF InvoiceStep, Create, Update, Cancel, RecordPosSale
<1>6. ASSUME NEW p \in Payments, PaymentStep(p) \/ CancelPayment(p), WorkingBeside
      PROVE  CheckedWhileCalm'
  BY <1>4, <1>6 DEF PaymentStep, Pay, PayOnAccount, CancelPayment
<1>7. ASSUME NEW k \in Returns, ReturnStep(k), WorkingBeside
      PROVE  CheckedWhileCalm'
  BY <1>4, <1>7 DEF ReturnStep, CreateReturn, IssueReturn, CancelReturn
<1> QED
  BY <1>1, <1>2, <1>5, <1>6, <1>7 DEF Next, WorkingBeside

(* The history after any step *)
Beside == calm' = calm \/ WorkingBeside

LEMMA CalmKept ==
  ASSUME TypeOK, Beside
  PROVE  calm' \in BOOLEAN /\ (calm' => calm)
<1>1. calm \in BOOLEAN
  BY DEF TypeOK
<1>2. ASSUME calm' = calm PROVE calm' \in BOOLEAN /\ (calm' => calm)
  BY <1>1, <1>2
<1>3. ASSUME WorkingBeside PROVE calm' \in BOOLEAN /\ (calm' => calm)
  BY <1>1, <1>3 DEF WorkingBeside
<1> QED
  BY <1>2, <1>3 DEF Beside

(* What issuing an invoice, paying it and issuing a return do to a walk-in      *)
(* buyer's invoice; anything else leaves it alone                              *)
LEMMA WalkInKept ==
  ASSUME WalkInOwesNothing, calm' => calm,
         \A j \in Invoices : \/ invoice'[j] = invoice[j]
                             \/ invoice'[j].status # "issued"
                             \/ invoice'[j].customer
                             \/ calm' => invoice'[j].paid = invoice'[j].total - invoice'[j].returned
  PROVE  WalkInOwesNothing'
  BY DEF WalkInOwesNothing, Issued

Settled == Shaped /\ SumForm /\ WalkInOwesNothing

LEMMA QuietSettled ==
  ASSUME Settled, Shaped', payment' = payment, clipped' = clipped, Beside,
         \A j \in Invoices : invoice'[j] = invoice[j] \/ (~Issued(j) /\ invoice'[j].status # "issued"),
         \A k \in Returns : \/ return'[k] = return[k]
                            \/ return[k].status # "issued" /\ return'[k].status # "issued"
  PROVE  Settled'
<1>1. SumForm'
  BY QuietAmounted DEF Settled
<1>2. WalkInOwesNothing'
  BY CalmKept, WalkInKept DEF Settled, Shaped, Issued
<1> QED
  BY <1>1, <1>2 DEF Settled

LEMMA DraftSettled ==
  ASSUME Settled, NEW i \in Invoices, NEW customer \in BOOLEAN, NEW total \in Amounts,
         Create(i, customer, total) \/ Update(i, customer, total) \/ Cancel(i),
         clipped' = clipped, Beside
  PROVE  Settled'
<1>1. Shaped'
  BY CalmKept, DraftShaped DEF Settled, Shaped
<1>2. /\ payment' = payment /\ return' = return /\ ~Issued(i) /\ invoice'[i].status # "issued"
      /\ \A j \in Invoices \ {i} : invoice'[j] = invoice[j]
  <2>1. invoice \in [Invoices -> InvoiceRow]
    BY DEF Settled, Shaped, TypeOK
  <2>2. CASE Create(i, customer, total)
    BY <2>1, <2>2 DEF Create, NoInvoice, Issued
  <2>3. CASE Update(i, customer, total)
    BY <2>1, <2>3 DEF Update, InvoiceRow, Issued
  <2>4. CASE Cancel(i)
    BY <2>1, <2>4 DEF Cancel, InvoiceRow, Issued
  <2> QED
    BY <2>2, <2>3, <2>4
<1>3. /\ \A j \in Invoices : invoice'[j] = invoice[j] \/ (~Issued(j) /\ invoice'[j].status # "issued")
      /\ \A k \in Returns : return'[k] = return[k]
  BY <1>2
<1> QED
  BY <1>1, <1>2, <1>3, QuietSettled

LEMMA RequestSettled ==
  ASSUME Settled, NEW r \in Requests, NEW i \in Invoices, NEW tendered \in Amounts,
         CheckIssue(r, i, tendered) \/ FailIssue(r),
         clipped' = clipped, Beside
  PROVE  Settled'
<1>1. Shaped'
  BY CalmKept, RequestShaped DEF Settled, Shaped
<1>2. payment' = payment /\ invoice' = invoice /\ return' = return
  BY DEF CheckIssue, FailIssue
<1> QED
  BY <1>1, <1>2, QuietSettled

LEMMA IssueSettled ==
  ASSUME Settled, CheckedWhileCalm, NEW r \in Requests, Issue(r), clipped' = clipped, calm' = calm
  PROVE  Settled'
<1>0. PICK i : i = request[r].invoice
  OBVIOUS
<1>1. /\ i \in Invoices /\ ~Issued(i) /\ invoice[i] \in InvoiceRow
      /\ request[r].tendered \in Amounts /\ request[r] # Idle
      /\ Tender(invoice[i].customer, i, request[r].tendered)
  BY <1>0 DEF Issue, Settled, Shaped, TypeOK, Documented, Issued
<1>2. Shaped'
  BY IssueShaped DEF Settled, Shaped, TypeOK
<1>3. IssuedAs(i, invoice[i].customer, invoice[i].total, request[r].tendered)
  BY <1>0, <1>1 DEF Issue, IssuedAs, Settled, Shaped, TypeOK, Untouched, InvoiceRow
<1>4. SumForm'
  <2>1. return' = return /\ invoice[i].customer \in BOOLEAN /\ invoice[i].total \in 0..MaxTotal
    BY <1>1 DEF Issue, InvoiceRow, Amounts
  <2> QED
    BY <1>1, <1>2, <1>3, <2>1, TenderAmounted DEF Settled
<1>5. WalkInOwesNothing'
  <2>1. calm /\ ~invoice[i].customer => request[r].tendered = invoice[i].total
    BY <1>0, <1>1 DEF CheckedWhileCalm, Checked
  <2>2. calm' /\ ~invoice'[i].customer => invoice'[i].paid = invoice'[i].total - invoice'[i].returned
    BY <1>1, <1>3, <2>1 DEF IssuedAs, InvoiceRow, Amounts
  <2>3. \A j \in Invoices \ {i} : invoice'[j] = invoice[j]
    BY <1>3 DEF IssuedAs
  <2> QED
    BY <2>2, <2>3, WalkInKept DEF Settled
<1> QED
  BY <1>2, <1>4, <1>5 DEF Settled

LEMMA PosSaleSettled ==
  ASSUME Settled, NEW i \in Invoices, NEW customer \in BOOLEAN, NEW total \in 1..MaxTotal,
         NEW tendered \in Amounts, RecordPosSale(i, customer, total, tendered),
         clipped' = clipped, Beside
  PROVE  Settled'
<1>1. calm' \in BOOLEAN /\ (calm' => calm)
  BY CalmKept DEF Settled, Shaped
<1>2. Shaped'
  BY <1>1, PosSaleShaped DEF Settled
<1>3. ~Issued(i) /\ total \in 0..MaxTotal /\ total \in Int /\ tendered \in Int /\ return' = return
  BY SalesAssumption DEF RecordPosSale, Issued, Amounts
<1>4. IssuedAs(i, customer, total, tendered)
  <2>1. invoice \in [Invoices -> InvoiceRow] /\ invoice' \in [Invoices -> InvoiceRow]
    BY <1>2 DEF Settled, Shaped, TypeOK
  <2> QED
    BY <2>1 DEF RecordPosSale, IssuedAs
<1>5. SumForm'
  BY <1>2, <1>3, <1>4, TenderAmounted DEF Settled, RecordPosSale
<1>6. WalkInOwesNothing'
  <2>1. ~customer => tendered = total
    BY <1>3 DEF RecordPosSale
  <2>2. ~invoice'[i].customer => invoice'[i].paid = invoice'[i].total - invoice'[i].returned
    BY <1>3, <1>4, <2>1 DEF IssuedAs
  <2>3. \A j \in Invoices \ {i} : invoice'[j] = invoice[j]
    BY <1>4 DEF IssuedAs
  <2> QED
    BY <1>1, <2>2, <2>3, WalkInKept DEF Settled
<1> QED
  BY <1>2, <1>5, <1>6 DEF Settled

LEMMA PaySettled ==
  ASSUME Settled, NEW p \in Payments, NEW i \in Invoices, NEW amount \in 1..MaxTotal,
         Pay(p, i, amount), clipped' = clipped, Beside
  PROVE  Settled'
<1>1. calm' \in BOOLEAN /\ (calm' => calm)
  BY CalmKept DEF Settled, Shaped
<1>2. Shaped'
  BY <1>1, PayShaped DEF Settled
<1>3. SumForm'
  BY <1>2, PayAmounted DEF Settled
<1>4. /\ \A j \in Invoices \ {i} : invoice'[j] = invoice[j]
      /\ invoice'[i].customer = invoice[i].customer
      /\ invoice[i] \in InvoiceRow
  BY DEF Pay, Settled, Shaped, TypeOK, InvoiceRow
<1>5. calm => invoice[i].customer
  <2>1. calm /\ ~invoice[i].customer => invoice[i].paid = invoice[i].total - invoice[i].returned
    BY DEF Pay, Settled, WalkInOwesNothing, Issued
  <2>2. amount > 0 /\ amount <= Remaining(invoice[i])
    BY DEF Pay
  <2>3. /\ invoice[i].paid \in Int /\ invoice[i].total \in Int /\ invoice[i].returned \in Int
        /\ amount \in Int
    BY <1>4, SalesAssumption DEF InvoiceRow, Amounts
  <2> QED
    BY <2>1, <2>2, <2>3 DEF Remaining, AtLeastZero
<1>6. calm' => invoice'[i].customer
  BY <1>1, <1>4, <1>5
<1>7. WalkInOwesNothing'
  BY <1>1, <1>4, <1>6, WalkInKept DEF Settled
<1> QED
  BY <1>2, <1>3, <1>7 DEF Settled

LEMMA PayOnAccountSettled ==
  ASSUME Settled, NEW p \in Payments, NEW amount \in 1..MaxTotal,
         PayOnAccount(p, amount), clipped' = clipped, Beside
  PROVE  Settled'
<1>1. calm' \in BOOLEAN /\ (calm' => calm)
  BY CalmKept DEF Settled, Shaped
<1>2. Shaped'
  BY <1>1, PayOnAccountShaped DEF Settled
<1>3. SumForm'
  BY <1>2, PayOnAccountAmounted DEF Settled
<1>4. WalkInOwesNothing'
  BY <1>1, WalkInKept DEF PayOnAccount, Settled
<1> QED
  BY <1>2, <1>3, <1>4 DEF Settled

LEMMA CancelPaymentSettled ==
  ASSUME Settled, NEW p \in Payments, CancelPayment(p), Beside
  PROVE  Settled'
<1>0. PICK i : i = payment[p].invoice
  OBVIOUS
<1>1. calm' \in BOOLEAN /\ (calm' => calm)
  BY CalmKept DEF Settled, Shaped
<1>2. Shaped'
  BY <1>1, CancelPaymentShaped DEF Settled
<1>3. SumForm'
  BY <1>2, CancelPaymentAmounted DEF Settled
<1>4. \A j \in Invoices : invoice'[j] = invoice[j] \/ invoice'[j].customer
  <2>1. CASE i = None
    BY <1>0, <2>1 DEF CancelPayment
  <2>2. CASE i # None
    <3>1. /\ i \in Invoices /\ invoice[i].customer /\ invoice \in [Invoices -> InvoiceRow]
      BY <1>0, <2>2 DEF CancelPayment, Settled, Shaped, Documented, TypeOK, PaymentRow
    <3> QED
      BY <1>0, <2>2, <3>1 DEF CancelPayment, InvoiceRow
  <2> QED
    BY <2>1, <2>2
<1>5. WalkInOwesNothing'
  BY <1>1, <1>4, WalkInKept DEF Settled
<1> QED
  BY <1>2, <1>3, <1>5 DEF Settled

LEMMA ReturnDraftSettled ==
  ASSUME Settled, NEW k \in Returns, NEW i \in Invoices, NEW total \in Amounts,
         CreateReturn(k, i, total) \/ CancelReturn(k), clipped' = clipped, Beside
  PROVE  Settled'
<1>1. calm' \in BOOLEAN /\ (calm' => calm)
  BY CalmKept DEF Settled, Shaped
<1>2. Shaped'
  BY <1>1, ReturnDraftShaped DEF Settled
<1>3. /\ invoice' = invoice /\ payment' = payment
      /\ \A l \in Returns \ {k} : return'[l] = return[l]
      /\ return[k].status # "issued" /\ return'[k].status # "issued"
  BY DEF CreateReturn, CancelReturn, Settled, Shaped, TypeOK, ReturnRow
<1> QED
  BY <1>1, <1>2, <1>3, QuietSettled

LEMMA IssueReturnSettled ==
  ASSUME Settled, NEW k \in Returns, NEW refund \in Amounts,
         IssueReturn(k, refund), clipped' = clipped, Beside
  PROVE  Settled'
<1>0. PICK i, t : i = return[k].invoice /\ t = return[k].total
  OBVIOUS
<1>1. calm' \in BOOLEAN /\ (calm' => calm)
  BY CalmKept DEF Settled, Shaped
<1>2. ReturnsWithinSold
  BY DEF Settled, SumForm, ReturnsWithinSold, Back
<1>3. Shaped'
  BY <1>1, <1>2, IssueReturnShaped DEF Settled
<1>4. SumForm'
  BY <1>3, IssueReturnAmounted DEF Settled
<1>5. /\ i \in Invoices /\ Issued(i)
      /\ invoice' = [invoice EXCEPT ![i].returned = @ + t, ![i].paid = @ - refund]
      /\ invoice[i].returned + t <= invoice[i].total
      /\ invoice[i].customer \/
           refund = AtLeastZero(invoice[i].paid - (invoice[i].total - invoice[i].returned - t))
  BY <1>0, <1>2, IssueReturnShape DEF Settled
<1>6. /\ invoice'[i].paid = invoice[i].paid - refund
      /\ invoice'[i].returned = invoice[i].returned + t
      /\ invoice'[i].total = invoice[i].total
      /\ \A j \in Invoices \ {i} : invoice'[j] = invoice[j]
      /\ invoice'[i].customer = invoice[i].customer
  BY <1>5 DEF Settled, Shaped, TypeOK, InvoiceRow
<1>7. /\ invoice[i].paid \in Int /\ invoice[i].total \in Int /\ invoice[i].returned \in Int
      /\ t \in Nat /\ refund \in Int
  BY <1>0, <1>5, SalesAssumption DEF Settled, Shaped, TypeOK, InvoiceRow, ReturnRow, Amounts
<1>8. calm' /\ ~invoice'[i].customer => invoice'[i].paid = invoice'[i].total - invoice'[i].returned
  <2>1. SUFFICES ASSUME calm, ~invoice[i].customer
                 PROVE  invoice'[i].paid = invoice'[i].total - invoice'[i].returned
    BY <1>1, <1>6
  <2>2. invoice[i].paid = invoice[i].total - invoice[i].returned
    BY <1>5, <2>1 DEF Settled, WalkInOwesNothing
  <2>3. refund = AtLeastZero(invoice[i].paid - (invoice[i].total - invoice[i].returned - t))
    BY <1>5, <2>1
  <2> QED
    BY <1>6, <1>7, <2>2, <2>3 DEF AtLeastZero
<1>9. WalkInOwesNothing'
  BY <1>1, <1>6, <1>8, WalkInKept DEF Settled
<1> QED
  BY <1>3, <1>4, <1>9 DEF Settled

-----------------------------------------------------------------------------
(* The invariant *)

LEMMA SalesSettled == SalesInv <=> Settled /\ CheckedWhileCalm
  BY SumForms DEF SalesInv, Settled, Shaped

LEMMA SalesSettledNext == SalesInv' <=> Settled' /\ CheckedWhileCalm'
  BY SalesSettled, PTL

LEMMA SalesInit == Init => SalesInv
<1> SUFFICES ASSUME Init PROVE SalesInv
  OBVIOUS
<1>1. TypeOK
  BY SalesAssumption
  DEF Init, TypeOK, InvoiceRow, PaymentRow, ReturnRow, Amounts, NoInvoice, NoPayment, NoReturn, Idle
<1>2. /\ \A i \in Invoices : invoice[i].status = "none" /\ invoice[i].paid = 0 /\ invoice[i].returned = 0
                             /\ invoice[i].total = 0 /\ clipped[i] = 0
      /\ \A p \in Payments : ~Posted(p)
      /\ \A k \in Returns : return[k].status = "none"
      /\ \A r \in Requests : request[r] = Idle
  BY DEF Init, NoInvoice, NoPayment, NoReturn, Posted
<1>3. Documented /\ Untouched /\ CheckedWhileCalm /\ WalkInOwesNothing
  BY <1>2 DEF Documented, Untouched, CheckedWhileCalm, WalkInOwesNothing, Issued
<1>4. SumForm
  <2>1. /\ \A i \in Invoices : From(i) = [p \in Payments |-> 0] /\ Back(i) = [k \in Returns |-> 0]
        /\ Invoiced = [i \in Invoices |-> 0] /\ Owed = [i \in Invoices |-> 0]
        /\ Credited = [k \in Returns |-> 0]
        /\ Received = [p \in Payments |-> 0] /\ OnAccount = [p \in Payments |-> 0]
    BY <1>2 DEF From, Back, Invoiced, Owed, Credited, Received, OnAccount, Issued
  <2>2. /\ \A i \in Invoices : Total(From(i)) = 0 /\ Total(Back(i)) = 0
        /\ Total(Invoiced) = 0 /\ Total(Owed) = 0 /\ Total(Credited) = 0
        /\ Total(Received) = 0 /\ Total(OnAccount) = 0
    BY <2>1, TotalZero
  <2> QED
    BY <1>2, <2>2 DEF SumForm, Issued
<1> QED
  BY <1>1, <1>3, <1>4, SalesSettled DEF Settled, Shaped

LEMMA SalesNext ==
  ASSUME SalesInv, [Next]_vars
  PROVE  SalesInv'
<1>1. Settled /\ CheckedWhileCalm
  BY SalesSettled
<1>2. CASE UNCHANGED vars
  <2>1. UNCHANGED <<invoice, payment, return, request, clipped, calm>>
    BY <1>2 DEF vars
  <2>2. Settled'
    BY <1>1, <2>1
    DEF Settled, Shaped, TypeOK, Documented, Untouched, SumForm, WalkInOwesNothing, From, Back,
        Invoiced, Owed, Credited, Received, OnAccount, Posted, Issued, Signed
  <2> QED
    BY <2>2, CheckedStays, SalesSettledNext
<1>3. ASSUME NEW r \in Requests, Issue(r) \/ FailIssue(r), UNCHANGED <<clipped, calm>>
      PROVE  Settled'
  <2>1. CASE Issue(r)
    BY <1>1, <1>3, <2>1, IssueSettled
  <2>2. CASE FailIssue(r)
    <3>1. request[r].invoice \in Invoices /\ request[r].tendered \in Amounts
      BY <1>1, <2>2 DEF FailIssue, Settled, Shaped, Documented, TypeOK
    <3> QED
      BY <1>1, <1>3, <2>2, <3>1, RequestSettled DEF Beside
  <2> QED
    BY <1>3, <2>1, <2>2
<1>4. ASSUME NEW i \in Invoices, InvoiceStep(i), clipped' = clipped, WorkingBeside
      PROVE  Settled'
  <2>1. ASSUME NEW customer \in BOOLEAN, NEW total \in 1..MaxTotal,
               Create(i, customer, total) \/ Update(i, customer, total)
        PROVE  Settled'
    <3>1. total \in Amounts
      BY SalesAssumption DEF Amounts
    <3> QED
      BY <1>1, <1>4, <2>1, <3>1, DraftSettled DEF Beside
  <2>2. ASSUME Cancel(i)
        PROVE  Settled'
    <3>1. 0 \in Amounts /\ TRUE \in BOOLEAN
      BY SalesAssumption DEF Amounts
    <3> QED
      BY <1>1, <1>4, <2>2, <3>1, DraftSettled DEF Beside
  <2>3. ASSUME NEW r \in Requests, NEW tendered \in Amounts, CheckIssue(r, i, tendered)
        PROVE  Settled'
    BY <1>1, <1>4, <2>3, RequestSettled DEF Beside
  <2>4. ASSUME NEW customer \in BOOLEAN, NEW total \in 1..MaxTotal, NEW tendered \in Amounts,
               RecordPosSale(i, customer, total, tendered)
        PROVE  Settled'
    BY <1>1, <1>4, <2>4, PosSaleSettled DEF Beside
  <2> QED
    BY <1>4, <2>1, <2>2, <2>3, <2>4 DEF InvoiceStep
<1>5. ASSUME NEW p \in Payments, PaymentStep(p), clipped' = clipped, WorkingBeside
      PROVE  Settled'
  <2>1. PICK amount \in 1..MaxTotal : PayOnAccount(p, amount) \/ \E i \in Invoices : Pay(p, i, amount)
    BY <1>5 DEF PaymentStep
  <2>2. CASE \E i \in Invoices : Pay(p, i, amount)
    BY <1>1, <1>5, <2>2, PaySettled DEF Beside
  <2>3. CASE PayOnAccount(p, amount)
    BY <1>1, <1>5, <2>3, PayOnAccountSettled DEF Beside
  <2> QED
    BY <2>1, <2>2, <2>3
<1>6. ASSUME NEW p \in Payments, CancelPayment(p), WorkingBeside
      PROVE  Settled'
  BY <1>1, <1>6, CancelPaymentSettled DEF Beside
<1>7. ASSUME NEW k \in Returns, ReturnStep(k), clipped' = clipped, WorkingBeside
      PROVE  Settled'
  <2>1. ASSUME NEW i \in Invoices, NEW total \in 1..MaxTotal, CreateReturn(k, i, total)
        PROVE  Settled'
    <3>1. total \in Amounts
      BY SalesAssumption DEF Amounts
    <3> QED
      BY <1>1, <1>7, <2>1, <3>1, ReturnDraftSettled DEF Beside
  <2>2. ASSUME NEW refund \in Amounts, IssueReturn(k, refund)
        PROVE  Settled'
    BY <1>1, <1>7, <2>2, IssueReturnSettled DEF Beside
  <2>3. ASSUME CancelReturn(k)
        PROVE  Settled'
    <3>1. return[k].invoice \in Invoices /\ return[k].total \in Amounts
      BY <1>1, <2>3 DEF CancelReturn, Settled, Shaped, Documented, TypeOK, ReturnRow
    <3> QED
      BY <1>1, <1>7, <2>3, <3>1, ReturnDraftSettled DEF Beside
  <2> QED
    BY <1>7, <2>1, <2>2, <2>3 DEF ReturnStep
<1>8. CASE Next
  <2>1. Settled'
    BY <1>3, <1>4, <1>5, <1>6, <1>7, <1>8 DEF Next, WorkingBeside
  <2> QED
    BY <2>1, CheckedStays, SalesSettledNext
<1> QED
  BY <1>2, <1>8

(* The amounts of invoices, receipts and returns agree, whoever works beside    *)
(* an issuing request, and a walk-in buyer's invoice stays settled              *)
THEOREM SalesAddUp == Spec => []InvoicesAddUp
<1>1. SalesInv => InvoicesAddUp
  BY DEF SalesInv, Amounted, InvoicesAddUp
<1> QED
  BY <1>1, SalesInit, SalesNext, PTL DEF Spec

-----------------------------------------------------------------------------
(* What the checks before the lock promise *)

(* An invoice is issued by a request, or was not there before *)
LEMMA IssuedBy ==
  ASSUME SalesInv, [Next]_vars, NEW j \in Invoices, ~Issued(j), invoice'[j].status = "issued"
  PROVE  \/ \E r \in Requests : /\ Issue(r) /\ j = request[r].invoice
                                /\ clipped' = clipped /\ calm' = calm
         \/ /\ invoice[j].status = "none"
            /\ invoice'[j].paid <= invoice'[j].total
<1>1. Settled /\ invoice \in [Invoices -> InvoiceRow]
  BY SalesSettled DEF SalesInv, TypeOK
<1>2. \/ UNCHANGED vars
      \/ \E r \in Requests : (Issue(r) \/ FailIssue(r)) /\ UNCHANGED <<clipped, calm>>
      \/ \E i \in Invoices : InvoiceStep(i)
      \/ \E p \in Payments : PaymentStep(p) \/ CancelPayment(p)
      \/ \E k \in Returns : ReturnStep(k)
  BY DEF Next
<1>3. CASE UNCHANGED vars
  BY <1>3 DEF vars, Issued
<1>4. ASSUME NEW r \in Requests, Issue(r) \/ FailIssue(r), UNCHANGED <<clipped, calm>>
      PROVE  Issue(r) /\ j = request[r].invoice /\ clipped' = clipped /\ calm' = calm
  BY <1>1, <1>4 DEF Issue, FailIssue, Issued
<1>5. ASSUME NEW i \in Invoices, InvoiceStep(i)
      PROVE  invoice[j].status = "none" /\ invoice'[j].paid <= invoice'[j].total
  <2>1. CASE \E customer \in BOOLEAN, total \in 1..MaxTotal :
               Create(i, customer, total) \/ Update(i, customer, total)
    <3>1. PICK customer, total : Create(i, customer, total) \/ Update(i, customer, total)
      BY <2>1
    <3>2. PICK row : /\ invoice' = [invoice EXCEPT ![i] = row] /\ row.status = "draft"
      <4>1. CASE Create(i, customer, total)
        <5>1. [NoInvoice EXCEPT !.status = "draft", !.customer = customer, !.total = total].status = "draft"
          BY DEF NoInvoice
        <5> QED
          BY <4>1, <5>1 DEF Create
      <4>2. CASE Update(i, customer, total)
        <5>1. [invoice[i] EXCEPT !.customer = customer, !.total = total].status = "draft"
          BY <1>1, <4>2 DEF Update, InvoiceRow
        <5> QED
          BY <4>2, <5>1 DEF Update
      <4> QED
        BY <3>1, <4>1, <4>2
    <3>3. invoice'[i].status = "draft" /\ \A x \in Invoices \ {i} : invoice'[x] = invoice[x]
      BY <1>1, <3>2
    <3> QED
      BY <3>3 DEF Issued
  <2>2. CASE Cancel(i)
    BY <1>1, <2>2 DEF Cancel, InvoiceRow, Issued
  <2>3. CASE \E r \in Requests, tendered \in Amounts : CheckIssue(r, i, tendered)
    BY <2>3 DEF CheckIssue, Issued
  <2>4. CASE \E customer \in BOOLEAN, total \in 1..MaxTotal, tendered \in Amounts :
               RecordPosSale(i, customer, total, tendered)
    BY <1>1, <2>4 DEF RecordPosSale, Issued
  <2> QED
    BY <1>5, <2>1, <2>2, <2>3, <2>4 DEF InvoiceStep
<1>6. ASSUME NEW p \in Payments, PaymentStep(p) \/ CancelPayment(p)
      PROVE  FALSE
  <2>1. CASE PaymentStep(p)
    BY <1>1, <2>1 DEF PaymentStep, Pay, PayOnAccount, InvoiceRow, Issued
  <2>2. CASE CancelPayment(p)
    <3>1. PICK i, paid : invoice' = invoice \/ invoice' = [invoice EXCEPT ![i].paid = paid]
      BY <2>2 DEF CancelPayment
    <3> QED
      BY <1>1, <3>1 DEF InvoiceRow, Issued
  <2> QED
    BY <1>6, <2>1, <2>2
<1>7. ASSUME NEW k \in Returns, ReturnStep(k)
      PROVE  FALSE
  <2>1. ASSUME NEW refund \in Amounts, IssueReturn(k, refund)
        PROVE  FALSE
    <3>1. PICK i : i = return[k].invoice
      OBVIOUS
    <3>2. invoice' = [invoice EXCEPT ![i].returned = @ + return[k].total, ![i].paid = @ - refund]
      BY <1>1, <2>1, <3>1, IssueReturnShape, SumForms DEF Settled, Amounted
    <3> QED
      BY <1>1, <3>2 DEF InvoiceRow, Issued
  <2> QED
    BY <1>7, <2>1 DEF ReturnStep, CreateReturn, CancelReturn, Issued
<1> QED
  BY <1>2, <1>3, <1>4, <1>5, <1>6, <1>7

(* Issuing an invoice adds what is left of it to what the customer owes        *)
LEMMA IssueBalance ==
  ASSUME SalesInv, SalesInv', NEW r \in Requests, Issue(r), clipped' = clipped,
         NEW i, i = request[r].invoice, invoice[i].customer
  PROVE  Balance' = Balance + (invoice[i].total - request[r].tendered)
<1>1. TypeOK /\ TypeOK' /\ Shaped
  BY DEF SalesInv, Shaped
<1>2. /\ i \in Invoices /\ ~Issued(i) /\ invoice[i] \in InvoiceRow
      /\ request[r].tendered \in Amounts /\ return' = return
      /\ Tender(invoice[i].customer, i, request[r].tendered)
  BY <1>1 DEF Issue, Shaped, TypeOK, Documented, Issued
<1>3. IssuedAs(i, invoice[i].customer, invoice[i].total, request[r].tendered)
  BY <1>1, <1>2 DEF Issue, IssuedAs, Shaped, TypeOK, Untouched, InvoiceRow
<1>4. /\ invoice[i].customer \in BOOLEAN /\ invoice[i].total \in Int /\ request[r].tendered \in Int
  BY <1>2, SalesAssumption DEF InvoiceRow, Amounts
<1>5. Total(Received)' = Total(Received) + request[r].tendered
  <2>1. Moves(i, IF invoice[i].customer THEN request[r].tendered ELSE 0, 0, request[r].tendered)
    BY <1>1, <1>2, <1>4, TenderMoves
  <2> QED
    BY <2>1 DEF Moves
<1>6. Total(Credited)' = Total(Credited)
  BY <1>1, <1>2, <1>3, CustomersKept DEF IssuedAs
<1>7. Total(Invoiced)' = Total(Invoiced) + invoice[i].total
  <2>1. Total(Invoiced)' = Total(Invoiced) - Invoiced[i] + (Invoiced[i])'
    BY <1>1, <1>2, <1>3, InvoiceSums DEF IssuedAs
  <2>2. Invoiced[i] = 0
    BY <1>1, <1>2, Values DEF ValuesAt, InvoiceAt
  <2>3. (Invoiced[i])' = invoice[i].total
    BY <1>1, <1>2, <1>3, ValuesNext DEF ValuesAt, InvoiceAt, IssuedAs, Issued
  <2> QED
    BY <1>1, <1>4, <2>1, <2>2, <2>3, TotalTypes
<1>8. /\ Balance = Total(Invoiced) - Total(Credited) - Total(Received)
      /\ Balance' = Total(Invoiced)' - Total(Credited)' - Total(Received)'
  BY SumForms, SumFormsNext DEF BalanceForm
<1> QED
  BY <1>1, <1>4, <1>5, <1>6, <1>7, <1>8, TotalTypes

LEMMA CheckedIssue ==
  ASSUME SalesInv, [Next]_vars, calm, NEW j \in Invoices, ~Issued(j), invoice'[j].status = "issued"
  PROVE  /\ invoice'[j].paid <= invoice'[j].total
         /\ invoice[j].status = "draft" /\ invoice'[j].customer => Balance' <= CreditLimit
<1>1. SalesInv'
  BY SalesNext
<1>2. ASSUME NEW r \in Requests, Issue(r), j = request[r].invoice, clipped' = clipped, calm' = calm
      PROVE  /\ invoice'[j].paid <= invoice'[j].total
             /\ invoice'[j].customer => Balance' <= CreditLimit
  <2>1. Checked(r)
    BY <1>2 DEF Issue, SalesInv, CheckedWhileCalm
  <2>2. /\ invoice'[j].paid = request[r].tendered /\ invoice'[j].total = invoice[j].total
        /\ invoice'[j].customer = invoice[j].customer
    BY <1>2 DEF Issue, SalesInv, TypeOK, InvoiceRow
  <2>3. ASSUME invoice[j].customer
        PROVE  Balance' <= CreditLimit
    <3>1. Balance' = Balance + (invoice[j].total - request[r].tendered)
      BY <1>1, <1>2, <2>3, IssueBalance
    <3> QED
      BY <1>2, <2>1, <2>3, <3>1 DEF Checked, WithinLimit
  <2> QED
    BY <1>2, <2>1, <2>2, <2>3 DEF Checked
<1> QED
  BY <1>2, IssuedBy

(* Nothing is tendered beyond the total and the office leaves no customer over  *)
(* his credit limit, as long as nobody works between issueWithin's checks and   *)
(* its lock: the two are checked before the lock and not again                 *)
THEOREM IssueIsChecked == Spec => IssueChecked
<1>1. SalesInv /\ [Next]_vars =>
        [calm => \A i \in Invoices :
                   ~Issued(i) /\ Issued(i)' => invoice'[i].paid <= invoice'[i].total]_vars
  BY CheckedIssue DEF Issued
<1>2. SalesInv /\ [Next]_vars =>
        [calm => \A i \in Invoices :
                   invoice[i].status = "draft" /\ Issued(i)' /\ invoice'[i].customer
                     => Balance' <= CreditLimit]_vars
  BY CheckedIssue DEF Issued
<1>3. Spec => TenderedWithinTotal
  BY <1>1, SalesInit, SalesNext, PTL DEF Spec, TenderedWithinTotal
<1>4. Spec => IssuedWithinLimit
  BY <1>2, SalesInit, SalesNext, PTL DEF Spec, IssuedWithinLimit
<1> QED
  BY <1>3, <1>4, PTL DEF IssueChecked
-----------------------------------------------------------------------------
(***************************************************************************)
(* Warehouses that are stopped and removed (WarehouseRemoval).  Of a warehouse *)
(* that no two requests worked on at once, every request that works on it can   *)
(* rely on what it has read.                                                    *)
(***************************************************************************)

RowSteps == {"count_before_stop", "save"}
Holding == {"send", "receive", "take_back"}
Trading == Holding \cup {"post", "write_draft"}
Removing == {"count_stock", "count_transfers", "soft_remove"}

WarehouseRows == [isActive : BOOLEAN, deleted : BOOLEAN]
TransferRows == [status : {"none", "draft", "in_transit", "received", "cancelled"},
                 from : Warehouses, to : Warehouses]
CallSteps ==
  [do : {"idle"} \cup RowSteps \cup Trading \cup Removing, w : Warehouses,
   t : Transfers \cup {Nothing}, other : Warehouses, n : {-1, 0, 1},
   row : WarehouseRows \cup {Nothing}]

RemovalTypeOK ==
  /\ warehouse \in [Warehouses -> WarehouseRows]
  /\ stock \in [Warehouses -> Int]
  /\ transfer \in [Transfers -> TransferRows]
  /\ call \in [Calls -> CallSteps]

(* What a step has read, and of which kind, whatever others do *)
StepRead(step) ==
  /\ step.do \in RowSteps => step.row \in WarehouseRows /\ ~step.row.deleted
  /\ step.do \in Holding \cup {"write_draft"} => step.t \in Transfers
  /\ step.do \in Removing => step.w # MainWarehouse
  /\ step.do \in Removing \cup RowSteps => step.other = MainWarehouse
  /\ step.do \in RowSteps /\ step.w = MainWarehouse => step.row.isActive

StepsRead == \A r \in Calls : StepRead(call[r])

(* The transfer whose row a call holds is as it was when the call locked it *)
WorkedOn(step) ==
  step.do \in Holding =>
    /\ transfer[step.t].status = (IF step.do = "send" THEN "draft" ELSE "in_transit")
    /\ {transfer[step.t].from, transfer[step.t].to} = {step.w, step.other}

TransfersHeld ==
  /\ \A r \in Calls : WorkedOn(call[r])
  /\ \A q, r \in Calls :
       q # r /\ call[q].do \in Holding /\ call[r].do \in Holding => call[q].t # call[r].t

ContendedKnown ==
  \A q, r \in Calls : q # r => Touched(call[q]) \cap Touched(call[r]) \subseteq contended

MainStays == Active(MainWarehouse)

CleanAt(w) ==
  /\ warehouse[w].deleted => stock[w] = 0 /\ OpenTransfers(w) = {}
  /\ ~warehouse[w].isActive => OpenTransfers(w) = {}

StepCleanAt(step, w) ==
  w \in Touched(step) =>
    /\ ~warehouse[w].deleted
    /\ step.do \in Trading => warehouse[w].isActive
    /\ step.do \in {"count_transfers", "soft_remove"} => stock[w] = 0
    /\ step.do = "soft_remove" => OpenTransfers(w) = {}
    /\ step.do = "save" /\ ~step.row.isActive => OpenTransfers(w) = {}

CleanUnlessContended ==
  \A w \in Warehouses \ contended :
    CleanAt(w) /\ \A r \in Calls : StepCleanAt(call[r], w)

RemovalInv ==
  /\ RemovalTypeOK /\ StepsRead /\ TransfersHeld /\ ContendedKnown /\ MainStays
  /\ CleanUnlessContended

-----------------------------------------------------------------------------
LEMMA RemovalInvInit == RemovalInit => RemovalInv
<1> SUFFICES ASSUME RemovalInit PROVE RemovalInv
  OBVIOUS
<1> USE DEF RemovalInit
<1>1. Unasked \in CallSteps /\ Unasked.do = "idle"
  BY MainIsAWarehouse DEF Unasked, CallSteps
<1>2. \A r \in Calls : call[r] = Unasked /\ call[r].do = "idle"
  BY <1>1
<1>3. \A w \in Warehouses : warehouse[w].isActive /\ ~warehouse[w].deleted /\ OpenTransfers(w) = {}
  BY DEF OpenTransfers, Open
<1>4. RemovalTypeOK
  BY <1>1, MainIsAWarehouse DEF RemovalTypeOK, WarehouseRows, TransferRows
<1>5. StepsRead /\ TransfersHeld
  BY <1>2 DEF StepsRead, StepRead, TransfersHeld, WorkedOn, Holding, RowSteps, Removing
<1>6. ContendedKnown /\ MainStays
  BY <1>2, <1>3, MainIsAWarehouse DEF ContendedKnown, Touched, MainStays, Active
<1>7. CleanUnlessContended
  BY <1>2, <1>3 DEF CleanUnlessContended, CleanAt, StepCleanAt, Touched
<1>8. QED
  BY <1>4, <1>5, <1>6, <1>7 DEF RemovalInv

(* A call that only takes another step: it worked on what it goes on to work on, *)
(* or it is counted as contending for it                                          *)
LEMMA RemovalStepTaken ==
  ASSUME RemovalInv, NEW r \in Calls, NEW step \in CallSteps,
         UNCHANGED <<warehouse, stock, transfer>>,
         Continue(r, step),
         contended' = contended \cup
           UNION {Touched(call[q]) \cap Touched(call'[r]) : q \in Calls \ {r}},
         StepRead(step), WorkedOn(step),
         step.do \in Holding =>
           \A q \in Calls \ {r} : call[q].do \in Holding => call[q].t # step.t,
         \A w \in Warehouses \ contended : StepCleanAt(step, w)
  PROVE  RemovalInv'
<1>1. call' = [call EXCEPT ![r] = step] /\ call \in [Calls -> CallSteps]
  BY DEF Continue, RemovalInv, RemovalTypeOK
<1>2. call'[r] = step /\ \A q \in Calls \ {r} : call'[q] = call[q]
  BY <1>1
<1>3. contended \subseteq contended'
      /\ \A q \in Calls \ {r} : Touched(call[q]) \cap Touched(step) \subseteq contended'
  BY <1>2
<1>4. RemovalTypeOK'
  BY <1>1 DEF RemovalInv, RemovalTypeOK
<1>5. StepsRead'
  <2> SUFFICES ASSUME NEW q \in Calls PROVE StepRead(call[q])'
    BY DEF StepsRead
  <2>1. CASE q = r
    BY <2>1, <1>2 DEF StepRead
  <2>2. CASE q # r
    BY <2>2, <1>2 DEF StepRead, RemovalInv, StepsRead
  <2>3. QED
    BY <2>1, <2>2
<1>6. TransfersHeld'
  <2>1. ASSUME NEW q \in Calls PROVE WorkedOn(call[q])'
    <3>1. CASE q = r
      BY <3>1, <1>2 DEF WorkedOn
    <3>2. CASE q # r
      BY <3>2, <1>2 DEF WorkedOn, RemovalInv, TransfersHeld
    <3>3. QED
      BY <3>1, <3>2
  <2>2. ASSUME NEW q \in Calls, NEW p \in Calls, q # p,
               call'[q].do \in Holding, call'[p].do \in Holding
        PROVE  call'[q].t # call'[p].t
    <3>1. CASE q = r
      BY <3>1, <2>2, <1>2
    <3>2. CASE p = r
      BY <3>2, <2>2, <1>2
    <3>3. CASE q # r /\ p # r
      BY <3>3, <2>2, <1>2 DEF RemovalInv, TransfersHeld
    <3>4. QED
      BY <3>1, <3>2, <3>3
  <2>3. QED
    BY <2>1, <2>2 DEF TransfersHeld
<1>7. ContendedKnown'
  <2> SUFFICES ASSUME NEW q \in Calls, NEW p \in Calls, q # p
               PROVE  Touched(call'[q]) \cap Touched(call'[p]) \subseteq contended'
    BY DEF ContendedKnown, Touched
  <2>1. CASE q = r
    BY <2>1, <1>2, <1>3
  <2>2. CASE p = r
    BY <2>2, <1>2, <1>3
  <2>3. CASE q # r /\ p # r
    BY <2>3, <1>2, <1>3 DEF RemovalInv, ContendedKnown
  <2>4. QED
    BY <2>1, <2>2, <2>3
<1>8. MainStays'
  BY DEF RemovalInv, MainStays, Active
<1>9. CleanUnlessContended'
  <2> SUFFICES ASSUME NEW w \in Warehouses, w \notin contended'
               PROVE  CleanAt(w)' /\ \A q \in Calls : StepCleanAt(call[q], w)'
    BY DEF CleanUnlessContended
  <2>1. w \notin contended
    BY <1>3
  <2>2. CleanAt(w)'
    BY <2>1 DEF RemovalInv, CleanUnlessContended, CleanAt, OpenTransfers
  <2>3. ASSUME NEW q \in Calls PROVE StepCleanAt(call[q], w)'
    <3>1. StepCleanAt(call'[q], w)
      BY <2>1, <1>2 DEF RemovalInv, CleanUnlessContended
    <3>2. QED
      BY <3>1 DEF StepCleanAt, OpenTransfers, Touched
  <2>4. QED
    BY <2>2, <2>3
<1>10. QED
  BY <1>4, <1>5, <1>6, <1>7, <1>8, <1>9 DEF RemovalInv

(* A call that is done: it wrote what it worked on, and leaves the rest alone *)
LEMMA RemovalCallDone ==
  ASSUME RemovalInv, NEW r \in Calls, NEW step \in CallSteps, step.do = "idle",
         Continue(r, step),
         contended' = contended \cup
           UNION {Touched(call[q]) \cap Touched(call'[r]) : q \in Calls \ {r}},
         warehouse' \in [Warehouses -> WarehouseRows],
         stock' \in [Warehouses -> Int],
         transfer' \in [Transfers -> TransferRows],
         Active(MainWarehouse)',
         \A q \in Calls \ {r} : WorkedOn(call[q])',
         \A w \in Warehouses : w # MainWarehouse /\ w \notin Touched(call[r]) =>
           /\ warehouse'[w] = warehouse[w]
           /\ stock'[w] = stock[w]
           /\ OpenTransfers(w)' \subseteq OpenTransfers(w),
         \A w \in Warehouses \ contended : w \in Touched(call[r]) => CleanAt(w)'
  PROVE  RemovalInv'
<1>1. call' = [call EXCEPT ![r] = step] /\ call \in [Calls -> CallSteps]
  BY DEF Continue, RemovalInv, RemovalTypeOK
<1>2. call'[r] = step /\ \A q \in Calls \ {r} : call'[q] = call[q]
  BY <1>1
<1>3. Touched(call'[r]) = {} /\ contended' = contended
  BY <1>2 DEF Touched
<1>4. RemovalTypeOK'
  BY <1>1 DEF RemovalTypeOK
<1>5. StepsRead'
  <2> SUFFICES ASSUME NEW q \in Calls PROVE StepRead(call[q])'
    BY DEF StepsRead
  <2>1. CASE q = r
    BY <2>1, <1>2 DEF StepRead, RowSteps, Holding, Removing
  <2>2. CASE q # r
    BY <2>2, <1>2 DEF StepRead, RemovalInv, StepsRead
  <2>3. QED
    BY <2>1, <2>2
<1>6. TransfersHeld'
  <2>1. ASSUME NEW q \in Calls PROVE WorkedOn(call[q])'
    <3>1. CASE q = r
      BY <3>1, <1>2 DEF WorkedOn, Holding
    <3>2. CASE q # r
      BY <3>2, <1>2
    <3>3. QED
      BY <3>1, <3>2
  <2>2. ASSUME NEW q \in Calls, NEW p \in Calls, q # p,
               call'[q].do \in Holding, call'[p].do \in Holding
        PROVE  call'[q].t # call'[p].t
    <3>1. q # r /\ p # r
      BY <2>2, <1>2 DEF Holding
    <3>2. QED
      BY <3>1, <2>2, <1>2 DEF RemovalInv, TransfersHeld
  <2>3. QED
    BY <2>1, <2>2 DEF TransfersHeld
<1>7. ContendedKnown'
  <2> SUFFICES ASSUME NEW q \in Calls, NEW p \in Calls, q # p
               PROVE  Touched(call'[q]) \cap Touched(call'[p]) \subseteq contended'
    BY DEF ContendedKnown, Touched
  <2>1. CASE q = r \/ p = r
    BY <2>1, <1>3
  <2>2. CASE q # r /\ p # r
    BY <2>2, <1>2, <1>3 DEF RemovalInv, ContendedKnown
  <2>3. QED
    BY <2>1, <2>2
<1>8. MainStays'
  BY DEF MainStays
<1>9. CleanUnlessContended'
  <2> SUFFICES ASSUME NEW w \in Warehouses, w \notin contended'
               PROVE  CleanAt(w)' /\ \A q \in Calls : StepCleanAt(call[q], w)'
    BY DEF CleanUnlessContended
  <2>1. w \notin contended
    BY <1>3
  <2>2. CASE w = MainWarehouse
    BY <2>2 DEF CleanAt, StepCleanAt, Touched, Active
  <2>3. CASE w \in Touched(call[r])
    <3>1. CleanAt(w)'
      BY <2>1, <2>3
    <3>2. ASSUME NEW q \in Calls PROVE w \notin Touched(call'[q])
      <4>1. CASE q = r
        BY <4>1, <1>3
      <4>2. CASE q # r
        BY <4>2, <2>1, <2>3, <1>2 DEF RemovalInv, ContendedKnown
      <4>3. QED
        BY <4>1, <4>2
    <3>3. \A q \in Calls : StepCleanAt(call[q], w)'
      BY <3>2 DEF StepCleanAt, Touched
    <3>4. QED
      BY <3>1, <3>3
  <2>4. CASE w # MainWarehouse /\ w \notin Touched(call[r])
    <3>1. /\ warehouse'[w] = warehouse[w]
          /\ stock'[w] = stock[w]
          /\ OpenTransfers(w)' \subseteq OpenTransfers(w)
      BY <2>4
    <3>2. CleanAt(w) /\ \A q \in Calls : StepCleanAt(call[q], w)
      BY <2>1 DEF RemovalInv, CleanUnlessContended
    <3>3. CleanAt(w)'
      BY <3>1, <3>2 DEF CleanAt
    <3>4. ASSUME NEW q \in Calls PROVE StepCleanAt(call[q], w)'
      <4>1. CASE q = r
        BY <4>1, <1>3 DEF StepCleanAt, Touched
      <4>2. CASE q # r
        <5>1. call'[q] = call[q] /\ StepCleanAt(call[q], w)
          BY <4>2, <1>2, <3>2
        <5>2. QED
          BY <5>1, <3>1 DEF StepCleanAt, Touched
      <4>3. QED
        BY <4>1, <4>2
    <3>5. QED
      BY <3>3, <3>4
  <2>5. QED
    BY <2>2, <2>3, <2>4
<1>10. QED
  BY <1>4, <1>5, <1>6, <1>7, <1>8, <1>9 DEF RemovalInv

(* What the other calls hold stays as it was, when no transfer changes *)
LEMMA RemovalOthersWork ==
  ASSUME NEW r \in Calls, NEW step, Continue(r, step), call \in [Calls -> CallSteps],
         transfer' = transfer, \A q \in Calls : WorkedOn(call[q])
  PROVE  \A q \in Calls \ {r} : WorkedOn(call[q])'
<1>1. \A q \in Calls \ {r} : call'[q] = call[q]
  BY DEF Continue
<1>2. QED
  BY <1>1 DEF WorkedOn

-----------------------------------------------------------------------------
(* The steps of the administration *)
LEMMA RemovalManageStep ==
  ASSUME RemovalInv, NEW r \in Calls, Manage(r),
         contended' = contended \cup
           UNION {Touched(call[q]) \cap Touched(call'[r]) : q \in Calls \ {r}}
  PROVE  RemovalInv'
<1> DEFINE step == call[r]
<1>1. /\ warehouse \in [Warehouses -> WarehouseRows]
      /\ stock \in [Warehouses -> Int]
      /\ transfer \in [Transfers -> TransferRows]
      /\ step \in CallSteps
  BY DEF RemovalInv, RemovalTypeOK
<1>2. Unasked \in CallSteps /\ Unasked.do = "idle"
  BY MainIsAWarehouse DEF Unasked, CallSteps
<1>3. StepRead(step) /\ \A q \in Calls : WorkedOn(call[q])
  BY DEF RemovalInv, StepsRead, TransfersHeld
<1>4. \A w \in Warehouses \ contended : CleanAt(w) /\ StepCleanAt(step, w)
  BY DEF RemovalInv, CleanUnlessContended
<1>5. warehouse[MainWarehouse].isActive /\ ~warehouse[MainWarehouse].deleted
  BY DEF RemovalInv, MainStays, Active
<1>6. ASSUME Continue(r, Unasked), UNCHANGED <<warehouse, stock, transfer>> PROVE RemovalInv'
  <2>1. StepRead(Unasked) /\ WorkedOn(Unasked) /\ \A w \in Warehouses : StepCleanAt(Unasked, w)
    BY <1>2 DEF StepRead, WorkedOn, StepCleanAt, Touched, RowSteps, Holding, Removing
  <2>2. Unasked.do \notin Holding
    BY <1>2 DEF Holding
  <2>3. QED
    BY <1>2, <1>6, <2>1, <2>2, RemovalStepTaken
(* A removal that goes on to its next statement *)
<1>7. ASSUME NEW do \in {"count_transfers", "soft_remove"}, step.do \in Removing,
             Then(r, do), UNCHANGED <<warehouse, stock, transfer>>,
             stock[step.w] = 0 \/ step.w \in contended,
             do = "soft_remove" => OpenTransfers(step.w) = {} \/ step.w \in contended
      PROVE  RemovalInv'
  <2>1. PICK new : new = [step EXCEPT !.do = do]
    OBVIOUS
  <2>2. /\ new \in CallSteps /\ new.do = do
        /\ new.w = step.w /\ new.other = step.other /\ new.row = step.row
    BY <2>1, <1>1, <1>7 DEF CallSteps, Removing
  <2>3. StepRead(new) /\ WorkedOn(new) /\ new.do \notin Holding
    BY <2>2, <1>7, <1>3 DEF StepRead, WorkedOn, RowSteps, Holding, Removing
  <2>4. Touched(new) = Touched(step) /\ Touched(step) = {step.w}
    BY <2>2, <1>7, <1>3 DEF Touched, StepRead, Removing
  <2>5. \A x \in Warehouses \ contended : StepCleanAt(new, x)
    BY <2>2, <2>4, <1>4, <1>7 DEF StepCleanAt, Trading, Holding
  <2>6. QED
    BY <1>7, <2>1, <2>2, <2>3, <2>5, RemovalStepTaken DEF Then
(* A row that is to be saved *)
<1>8. ASSUME NEW new \in CallSteps, NEW w \in Warehouses,
             new.do \in RowSteps, new.w = w, new.other = MainWarehouse,
             new.row \in WarehouseRows, ~new.row.deleted,
             w = MainWarehouse => new.row.isActive,
             Continue(r, new), UNCHANGED <<warehouse, stock, transfer>>,
             ~warehouse[w].deleted \/ w \in contended,
             new.do = "save" /\ ~new.row.isActive => OpenTransfers(w) = {} \/ w \in contended
      PROVE  RemovalInv'
  <2>1. StepRead(new) /\ WorkedOn(new) /\ new.do \notin Holding
    BY <1>8 DEF StepRead, WorkedOn, RowSteps, Holding, Removing
  <2>2. Touched(new) = {w} \ {MainWarehouse}
    BY <1>8 DEF Touched, RowSteps
  <2>3. \A x \in Warehouses \ contended : StepCleanAt(new, x)
    BY <2>2, <1>8 DEF StepCleanAt, Trading, Holding, RowSteps
  <2>4. QED
    BY <1>8, <2>1, <2>3, RemovalStepTaken
<1>9. ASSUME NEW w \in Warehouses, Remove(r, w) PROVE RemovalInv'
  <2>1. PICK new : new = Ask("count_stock", w)
    OBVIOUS
  <2>2. new \in CallSteps /\ new.do = "count_stock" /\ new.w = w /\ new.other = MainWarehouse
    BY <2>1, MainIsAWarehouse DEF Ask, Unasked, CallSteps, Removing
  <2>3. Touched(new) = {w} \ {MainWarehouse}
    BY <2>2 DEF Touched
  <2>4. StepRead(new) /\ WorkedOn(new) /\ new.do \notin Holding
    BY <2>2, <1>9 DEF Remove, StepRead, WorkedOn, RowSteps, Holding, Removing
  <2>5. \A x \in Warehouses : StepCleanAt(new, x)
    BY <2>2, <2>3, <1>9 DEF Remove, StepCleanAt, Trading, Holding
  <2>6. QED
    BY <1>9, <2>1, <2>2, <2>4, <2>5, RemovalStepTaken DEF Remove
<1>10. ASSUME CountStock(r) PROVE RemovalInv'
  <2>1. step.do \in Removing /\ UNCHANGED <<warehouse, stock, transfer>>
    BY <1>10 DEF CountStock, At, Removing
  <2>2. CASE stock[step.w] # 0
    BY <1>6, <1>10, <2>1, <2>2 DEF CountStock, End
  <2>3. CASE stock[step.w] = 0
    BY <1>7, <1>10, <2>1, <2>3 DEF CountStock
  <2>4. QED
    BY <2>2, <2>3
<1>11. ASSUME CountTransfers(r) PROVE RemovalInv'
  <2>1. step.do = "count_transfers" /\ UNCHANGED <<warehouse, stock, transfer>>
    BY <1>11 DEF CountTransfers, At
  <2>2. CASE OpenTransfers(step.w) # {}
    BY <1>6, <1>11, <2>1, <2>2 DEF CountTransfers, End
  <2>3. CASE OpenTransfers(step.w) = {}
    <3>1. step.w \in Warehouses /\ step.w \in Touched(step) /\ step.do \in Removing
      BY <2>1, <1>1, <1>3 DEF CallSteps, StepRead, Removing, Touched
    <3>2. stock[step.w] = 0 \/ step.w \in contended
      BY <3>1, <2>1, <1>4 DEF StepCleanAt
    <3>3. Then(r, "soft_remove")
      BY <1>11, <2>3 DEF CountTransfers
    <3>4. QED
      BY <1>7, <2>1, <2>3, <3>1, <3>2, <3>3
  <2>4. QED
    BY <2>2, <2>3
<1>12. ASSUME NEW w \in Warehouses, NEW isActive \in BOOLEAN, UpdateWarehouse(r, w, isActive)
       PROVE  RemovalInv'
  <2>1. PICK row : row = [warehouse[w] EXCEPT !.isActive = isActive]
    OBVIOUS
  <2>2. row \in WarehouseRows /\ row.deleted = warehouse[w].deleted /\ row.isActive = isActive
    BY <2>1, <1>1 DEF WarehouseRows
  <2>3. PICK do \in RowSteps :
          do = IF ~isActive /\ warehouse[w].isActive THEN "count_before_stop" ELSE "save"
    BY DEF RowSteps
  <2>4. PICK new : new = [Ask(do, w) EXCEPT !.row = row]
    OBVIOUS
  <2>5. /\ new \in CallSteps /\ new.do = do /\ new.w = w /\ new.other = MainWarehouse
        /\ new.row = row
    BY <2>2, <2>3, <2>4, MainIsAWarehouse DEF Ask, Unasked, CallSteps, RowSteps
  <2>6. /\ ~warehouse[w].deleted
        /\ w = MainWarehouse => isActive
        /\ Continue(r, new) /\ UNCHANGED <<warehouse, stock, transfer>>
    BY <1>12, <2>1, <2>3, <2>4 DEF UpdateWarehouse
  <2>7. do = "save" /\ ~isActive => ~warehouse[w].isActive
    BY <2>3
  <2>8. new.do = "save" /\ ~new.row.isActive => OpenTransfers(w) = {} \/ w \in contended
    BY <2>2, <2>5, <2>7, <1>4 DEF CleanAt
  <2>9. QED
    BY <1>8, <2>2, <2>3, <2>5, <2>6, <2>8
<1>13. ASSUME CountBeforeStop(r) PROVE RemovalInv'
  <2>1. step.do = "count_before_stop" /\ UNCHANGED <<warehouse, stock, transfer>>
    BY <1>13 DEF CountBeforeStop, At
  <2>2. CASE OpenTransfers(step.w) # {}
    BY <1>6, <1>13, <2>1, <2>2 DEF CountBeforeStop, End
  <2>3. CASE OpenTransfers(step.w) = {}
    <3>1. PICK new : new = [step EXCEPT !.do = "save"]
      OBVIOUS
    <3>2. /\ new \in CallSteps /\ new.do = "save" /\ new.w = step.w /\ new.other = step.other
          /\ new.row = step.row
      BY <3>1, <1>1 DEF CallSteps, RowSteps
    <3>3. /\ new.do \in RowSteps /\ new.other = MainWarehouse
          /\ new.row \in WarehouseRows /\ ~new.row.deleted
          /\ step.w = MainWarehouse => new.row.isActive
      BY <3>2, <2>1, <1>3 DEF StepRead, RowSteps
    <3>4. Continue(r, new)
      BY <1>13, <2>3, <3>1 DEF CountBeforeStop, Then
    <3>5. step.w \in Warehouses
      BY <1>1 DEF CallSteps
    <3>6. ~warehouse[step.w].deleted \/ step.w \in contended
      <4>1. CASE step.w = MainWarehouse
        BY <4>1, <1>5
      <4>2. CASE step.w # MainWarehouse
        BY <4>2, <3>5, <2>1, <1>4 DEF StepCleanAt, Touched
      <4>3. QED
        BY <4>1, <4>2
    <3>7. QED
      BY <1>8, <2>1, <2>3, <3>2, <3>3, <3>4, <3>5, <3>6
  <2>4. QED
    BY <2>2, <2>3
<1>14. ASSUME SoftRemove(r) PROVE RemovalInv'
  <2>1. /\ step.do = "soft_remove" /\ step.w \in Warehouses /\ step.w # MainWarehouse
        /\ step.other = MainWarehouse
    BY <1>14, <1>1, <1>3 DEF SoftRemove, At, CallSteps, StepRead, Removing
  <2>2. Touched(step) = {step.w}
    BY <2>1 DEF Touched
  <2>3. /\ warehouse' = [warehouse EXCEPT ![step.w].deleted = TRUE]
        /\ Continue(r, Unasked) /\ stock' = stock /\ transfer' = transfer
    BY <1>14 DEF SoftRemove, End
  <2>4. warehouse' \in [Warehouses -> WarehouseRows]
    BY <2>3, <1>1 DEF WarehouseRows
  <2>5. Active(MainWarehouse)'
    BY <2>1, <2>3, <1>1, <1>5, MainIsAWarehouse DEF Active
  <2>6. \A q \in Calls \ {r} : WorkedOn(call[q])'
    BY <2>3, <1>3, RemovalOthersWork DEF RemovalInv, RemovalTypeOK
  <2>7. \A w \in Warehouses : OpenTransfers(w)' = OpenTransfers(w)
    BY <2>3 DEF OpenTransfers
  <2>8. \A w \in Warehouses : w \notin Touched(step) =>
          warehouse'[w] = warehouse[w] /\ stock'[w] = stock[w]
    BY <2>2, <2>3, <1>1
  <2>9. \A w \in Warehouses \ contended : w \in Touched(step) => CleanAt(w)'
    BY <2>1, <2>2, <2>3, <2>7, <1>4 DEF CleanAt, StepCleanAt
  <2>10. QED
    BY <1>1, <1>2, <2>3, <2>4, <2>5, <2>6, <2>7, <2>8, <2>9, RemovalCallDone
<1>15. ASSUME Save(r) PROVE RemovalInv'
  <2>1. /\ step.do = "save" /\ step.w \in Warehouses /\ step.other = MainWarehouse
        /\ step.row \in WarehouseRows /\ ~step.row.deleted
        /\ step.w = MainWarehouse => step.row.isActive
    BY <1>15, <1>1, <1>3 DEF Save, At, CallSteps, StepRead, RowSteps
  <2>2. Touched(step) = {step.w} \ {MainWarehouse}
    BY <2>1 DEF Touched
  <2>3. /\ warehouse' = [warehouse EXCEPT ![step.w] = step.row]
        /\ Continue(r, Unasked) /\ stock' = stock /\ transfer' = transfer
    BY <1>15 DEF Save, End
  <2>4. warehouse' \in [Warehouses -> WarehouseRows] /\ warehouse'[step.w] = step.row
    BY <2>1, <2>3, <1>1
  <2>5. Active(MainWarehouse)'
    <3>1. CASE step.w = MainWarehouse
      BY <3>1, <2>1, <2>4 DEF Active
    <3>2. CASE step.w # MainWarehouse
      BY <3>2, <2>3, <1>1, <1>5, MainIsAWarehouse DEF Active
    <3>3. QED
      BY <3>1, <3>2
  <2>6. \A q \in Calls \ {r} : WorkedOn(call[q])'
    BY <2>3, <1>3, RemovalOthersWork DEF RemovalInv, RemovalTypeOK
  <2>7. \A w \in Warehouses : OpenTransfers(w)' = OpenTransfers(w)
    BY <2>3 DEF OpenTransfers
  <2>8. \A w \in Warehouses : w # MainWarehouse /\ w \notin Touched(step) =>
          warehouse'[w] = warehouse[w] /\ stock'[w] = stock[w]
    BY <2>2, <2>3, <1>1
  <2>9. \A w \in Warehouses \ contended : w \in Touched(step) => CleanAt(w)'
    BY <2>1, <2>2, <2>4, <2>7, <1>4 DEF CleanAt, StepCleanAt
  <2>10. QED
    BY <1>1, <1>2, <2>3, <2>4, <2>5, <2>6, <2>7, <2>8, <2>9, RemovalCallDone
<1>16. QED
  BY <1>9, <1>10, <1>11, <1>12, <1>13, <1>14, <1>15 DEF Manage

-----------------------------------------------------------------------------
(* The commit of a transfer: its status changes, and the stock of the warehouse *)
(* that the call works on                                                        *)
LEMMA RemovalCommitStep ==
  ASSUME RemovalInv, NEW r \in Calls, NEW do \in Holding, NEW n \in Int,
         NEW status \in {"in_transit", "received", "cancelled"},
         CommitTransfer(r, do, n, status),
         contended' = contended \cup
           UNION {Touched(call[q]) \cap Touched(call'[r]) : q \in Calls \ {r}}
  PROVE  RemovalInv'
<1> DEFINE step == call[r]
<1>1. /\ warehouse \in [Warehouses -> WarehouseRows]
      /\ stock \in [Warehouses -> Int]
      /\ transfer \in [Transfers -> TransferRows]
      /\ step \in CallSteps /\ call \in [Calls -> CallSteps]
  BY DEF RemovalInv, RemovalTypeOK
<1>2. Unasked \in CallSteps /\ Unasked.do = "idle"
  BY MainIsAWarehouse DEF Unasked, CallSteps
<1>3. /\ step.do = do /\ step.do # "idle" /\ step.t \in Transfers
      /\ step.w \in Warehouses /\ step.other \in Warehouses
  BY <1>1 DEF CommitTransfer, At, RemovalInv, StepsRead, StepRead, CallSteps, Holding
<1>4. {transfer[step.t].from, transfer[step.t].to} = {step.w, step.other}
      /\ transfer[step.t].status \in Open
  BY <1>3 DEF RemovalInv, TransfersHeld, WorkedOn, Open
<1>5. Touched(step) = {step.w, step.other} \ {MainWarehouse}
  BY <1>3 DEF Touched
<1>6. \A w \in Warehouses \ contended : CleanAt(w) /\ StepCleanAt(step, w)
  BY DEF RemovalInv, CleanUnlessContended
<1>7. Continue(r, Unasked) /\ warehouse' = warehouse
  BY DEF CommitTransfer, End
<1>8. Active(MainWarehouse)'
  BY <1>7 DEF Active, RemovalInv, MainStays
<1>9. \A w \in Warehouses \ contended : w \in Touched(step) => CleanAt(w)'
  BY <1>3, <1>6, <1>7 DEF CleanAt, StepCleanAt, Trading
<1>10. CASE UNCHANGED <<stock, transfer>>
  <2>1. \A q \in Calls \ {r} : WorkedOn(call[q])'
    BY <1>1, <1>7, <1>10, RemovalOthersWork DEF RemovalInv, TransfersHeld
  <2>2. \A w \in Warehouses : OpenTransfers(w)' = OpenTransfers(w)
    BY <1>10 DEF OpenTransfers
  <2>3. QED
    BY <1>1, <1>2, <1>7, <1>8, <1>9, <1>10, <2>1, <2>2, RemovalCallDone
<1>11. CASE /\ stock' = [stock EXCEPT ![step.w] = @ + n]
            /\ transfer' = [transfer EXCEPT ![step.t].status = status]
  <2>1. stock' \in [Warehouses -> Int]
    BY <1>1, <1>3, <1>11
  <2>2. transfer' \in [Transfers -> TransferRows]
    BY <1>1, <1>3, <1>11 DEF TransferRows
  <2>3. \A w \in Warehouses : w # MainWarehouse /\ w \notin Touched(step) => stock'[w] = stock[w]
    BY <1>1, <1>5, <1>11
  <2>4. /\ \A u \in Transfers \ {step.t} : transfer'[u] = transfer[u]
        /\ transfer'[step.t].from = transfer[step.t].from
        /\ transfer'[step.t].to = transfer[step.t].to
    BY <1>1, <1>3, <1>11 DEF TransferRows
  <2>5. \A w \in Warehouses : OpenTransfers(w)' \subseteq OpenTransfers(w)
    BY <1>3, <1>4, <2>4 DEF OpenTransfers
  <2>6. ASSUME NEW q \in Calls \ {r} PROVE WorkedOn(call[q])'
    <3>1. call'[q] = call[q] /\ WorkedOn(call[q])
      BY <1>7 DEF Continue, RemovalInv, TransfersHeld, RemovalTypeOK
    <3>2. call[q].do \in Holding => call[q].t \in Transfers /\ call[q].t # step.t
      BY <1>3 DEF RemovalInv, StepsRead, StepRead, TransfersHeld
    <3>3. QED
      BY <3>1, <3>2, <2>4 DEF WorkedOn
  <2>7. QED
    BY <1>1, <1>2, <1>7, <1>8, <1>9, <2>1, <2>2, <2>3, <2>5, <2>6, RemovalCallDone
<1>12. QED
  BY <1>10, <1>11 DEF CommitTransfer

LEMMA RemovalTradeStep ==
  ASSUME RemovalInv, NEW r \in Calls, Trade(r),
         contended' = contended \cup
           UNION {Touched(call[q]) \cap Touched(call'[r]) : q \in Calls \ {r}}
  PROVE  RemovalInv'
<1> DEFINE step == call[r]
<1>1. /\ warehouse \in [Warehouses -> WarehouseRows]
      /\ stock \in [Warehouses -> Int]
      /\ transfer \in [Transfers -> TransferRows]
      /\ step \in CallSteps /\ call \in [Calls -> CallSteps]
  BY DEF RemovalInv, RemovalTypeOK
<1>2. Unasked \in CallSteps /\ Unasked.do = "idle"
  BY MainIsAWarehouse DEF Unasked, CallSteps
<1>3. StepRead(step) /\ \A q \in Calls : WorkedOn(call[q])
  BY DEF RemovalInv, StepsRead, TransfersHeld
<1>4. \A w \in Warehouses \ contended : CleanAt(w) /\ StepCleanAt(step, w)
  BY DEF RemovalInv, CleanUnlessContended
<1>5. Active(MainWarehouse)
  BY DEF RemovalInv, MainStays
(* A document begins: its warehouses are active, or have a transfer still open *)
<1>6. ASSUME NEW new \in CallSteps, new.do \in Trading, Continue(r, new),
             UNCHANGED <<warehouse, stock, transfer>>,
             \A w \in {new.w, new.other} \ contended : Active(w),
             new.do \in Holding \cup {"write_draft"} => new.t \in Transfers,
             WorkedOn(new), new.do \in Holding => RowFree(new.t)
      PROVE  RemovalInv'
  <2>1. StepRead(new)
    BY <1>6 DEF StepRead, RowSteps, Trading, Holding, Removing
  <2>2. new.do \in Holding =>
          \A q \in Calls \ {r} : call[q].do \in Holding => call[q].t # new.t
    BY <1>6 DEF RowFree, Holding
  <2>3. \A w \in Warehouses \ contended : StepCleanAt(new, w)
    BY <1>6 DEF StepCleanAt, Touched, Active, Trading, Holding
  <2>4. QED
    BY <1>6, <2>1, <2>2, <2>3, RemovalStepTaken
<1>7. ASSUME NEW w \in Warehouses, NEW n \in {-1, 1}, Begin(r, w, n) PROVE RemovalInv'
  <2>1. PICK new : new = [Ask("post", w) EXCEPT !.n = n]
    OBVIOUS
  <2>2. new \in CallSteps /\ new.do = "post" /\ new.w = w /\ new.other = MainWarehouse
    BY <2>1, MainIsAWarehouse DEF Ask, Unasked, CallSteps, Trading
  <2>3. WorkedOn(new) /\ new.do \in Trading /\ new.do \notin Holding \cup {"write_draft"}
    BY <2>2 DEF WorkedOn, Holding, Trading
  <2>4. \A x \in {new.w, new.other} : Active(x)
    BY <1>7, <2>2, <1>5 DEF Begin
  <2>5. QED
    BY <1>6, <1>7, <2>1, <2>2, <2>3, <2>4 DEF Begin
<1>8. ASSUME NEW t \in Transfers, NEW from \in Warehouses, NEW to \in Warehouses,
             Draft(r, t, from, to)
      PROVE  RemovalInv'
  <2>1. PICK new : new = [Ask("write_draft", from) EXCEPT !.t = t, !.other = to]
    OBVIOUS
  <2>2. new \in CallSteps /\ new.do = "write_draft" /\ new.w = from /\ new.other = to /\ new.t = t
    BY <2>1, MainIsAWarehouse DEF Ask, Unasked, CallSteps, Trading
  <2>3. WorkedOn(new) /\ new.do \in Trading /\ new.do \notin Holding
    BY <2>2 DEF WorkedOn, Holding, Trading
  <2>4. \A x \in {new.w, new.other} : Active(x)
    BY <1>8, <2>2 DEF Draft
  <2>5. QED
    BY <1>6, <1>8, <2>1, <2>2, <2>3, <2>4 DEF Draft
<1>9. ASSUME NEW t \in Transfers, NEW status \in Open, NEW do \in Holding,
             NEW w \in Warehouses, NEW other \in Warehouses,
             Work(r, t, status, do, w, other),
             status = (IF do = "send" THEN "draft" ELSE "in_transit"),
             {transfer[t].from, transfer[t].to} = {w, other}
      PROVE  RemovalInv'
  <2>1. PICK new : new = [Ask(do, w) EXCEPT !.t = t, !.other = other]
    OBVIOUS
  <2>2. new \in CallSteps /\ new.do = do /\ new.w = w /\ new.other = other /\ new.t = t
    BY <2>1, MainIsAWarehouse DEF Ask, Unasked, CallSteps, Trading
  <2>3. WorkedOn(new) /\ new.do \in Trading
    BY <2>2, <1>9 DEF Work, WorkedOn, Trading
  <2>4. t \in OpenTransfers(w) /\ t \in OpenTransfers(other)
    BY <1>9 DEF Work, OpenTransfers
  <2>5. \A x \in {new.w, new.other} \ contended : Active(x)
    BY <2>2, <2>4, <1>4 DEF CleanAt, Active
  <2>6. QED
    BY <1>6, <1>9, <2>1, <2>2, <2>3, <2>5 DEF Work
<1>10. ASSUME NEW t \in Transfers, StartSend(r, t) \/ StartReceive(r, t) \/ StartCancel(r, t)
       PROVE  RemovalInv'
  <2>1. transfer[t].from \in Warehouses /\ transfer[t].to \in Warehouses
    BY <1>1 DEF TransferRows
  <2>2. CASE StartSend(r, t)
    BY <1>9, <2>1, <2>2 DEF StartSend, Open, Holding
  <2>3. CASE StartReceive(r, t)
    BY <1>9, <2>1, <2>3 DEF StartReceive, Open, Holding
  <2>4. CASE StartCancel(r, t)
    BY <1>9, <2>1, <2>4 DEF StartCancel, Open, Holding
  <2>5. QED
    BY <1>10, <2>2, <2>3, <2>4
<1>11. ASSUME NEW t \in Transfers, CancelDraft(r, t) PROVE RemovalInv'
  <2>1. /\ step.do = "idle" /\ RowFree(t) /\ transfer[t].status = "draft"
        /\ transfer' = [transfer EXCEPT ![t].status = "cancelled"]
        /\ warehouse' = warehouse /\ stock' = stock /\ call' = call
    BY <1>11 DEF CancelDraft, At
  <2>2. Continue(r, step) /\ Touched(step) = {}
    BY <1>1, <2>1 DEF Continue, Touched
  <2>3. transfer' \in [Transfers -> TransferRows]
    BY <1>1, <2>1 DEF TransferRows
  <2>4. /\ \A u \in Transfers \ {t} : transfer'[u] = transfer[u]
        /\ transfer'[t].status = "cancelled"
    BY <1>1, <2>1 DEF TransferRows
  <2>5. \A w \in Warehouses : OpenTransfers(w)' \subseteq OpenTransfers(w)
    BY <2>4 DEF OpenTransfers, Open
  <2>6. ASSUME NEW q \in Calls \ {r} PROVE WorkedOn(call[q])'
    <3>1. call[q].do \in Holding => call[q].t \in Transfers /\ call[q].t # t
      BY <2>1 DEF RowFree, Holding, RemovalInv, StepsRead, StepRead
    <3>2. QED
      BY <3>1, <2>1, <2>4, <1>3 DEF WorkedOn
  <2>7. Active(MainWarehouse)'
    BY <2>1, <1>5 DEF Active
  <2>8. QED
    BY <1>1, <2>1, <2>2, <2>3, <2>5, <2>6, <2>7, RemovalCallDone
<1>12. ASSUME Post(r) PROVE RemovalInv'
  <2>1. /\ step.do = "post" /\ step.w \in Warehouses /\ step.n \in Int
        /\ warehouse' = warehouse /\ transfer' = transfer /\ Continue(r, Unasked)
    BY <1>12, <1>1 DEF Post, At, End, CallSteps
  <2>2. stock' = stock \/ stock' = [stock EXCEPT ![step.w] = @ + step.n]
    BY <1>12 DEF Post
  <2>3. stock' \in [Warehouses -> Int]
    BY <1>1, <2>1, <2>2
  <2>4. \A w \in Warehouses : w # MainWarehouse /\ w \notin Touched(step) => stock'[w] = stock[w]
    BY <1>1, <2>1, <2>2 DEF Touched
  <2>5. \A q \in Calls \ {r} : WorkedOn(call[q])'
    BY <1>1, <1>3, <2>1, RemovalOthersWork
  <2>6. \A w \in Warehouses : OpenTransfers(w)' = OpenTransfers(w)
    BY <2>1 DEF OpenTransfers
  <2>7. \A w \in Warehouses \ contended : w \in Touched(step) => CleanAt(w)'
    BY <2>1, <1>4 DEF CleanAt, StepCleanAt, Trading
  <2>8. Active(MainWarehouse)'
    BY <2>1, <1>5 DEF Active
  <2>9. QED
    BY <1>1, <1>2, <2>1, <2>3, <2>4, <2>5, <2>6, <2>7, <2>8, RemovalCallDone
<1>13. ASSUME WriteDraft(r) PROVE RemovalInv'
  <2>1. /\ step.do = "write_draft" /\ step.w \in Warehouses /\ step.other \in Warehouses
        /\ step.t \in Transfers /\ RowFree(step.t)
        /\ warehouse' = warehouse /\ stock' = stock /\ Continue(r, Unasked)
    BY <1>13, <1>1, <1>3 DEF WriteDraft, At, End, CallSteps, StepRead
  <2>2. \/ transfer' = transfer
        \/ transfer' = [transfer EXCEPT ![step.t] =
             [status |-> "draft", from |-> step.w, to |-> step.other]]
    BY <1>13 DEF WriteDraft
  <2>3. transfer' \in [Transfers -> TransferRows]
    BY <1>1, <2>1, <2>2 DEF TransferRows
  <2>4. Touched(step) = {step.w, step.other} \ {MainWarehouse}
    BY <2>1 DEF Touched
  <2>5. \A u \in Transfers \ {step.t} : transfer'[u] = transfer[u]
    BY <1>1, <2>1, <2>2
  <2>6. \/ transfer'[step.t] = transfer[step.t]
        \/ transfer'[step.t].from = step.w /\ transfer'[step.t].to = step.other
    BY <1>1, <2>1, <2>2
  <2>7. \A w \in Warehouses : w # MainWarehouse /\ w \notin Touched(step) =>
          OpenTransfers(w)' \subseteq OpenTransfers(w)
    BY <2>4, <2>5, <2>6 DEF OpenTransfers
  <2>8. ASSUME NEW q \in Calls \ {r} PROVE WorkedOn(call[q])'
    <3>1. call'[q] = call[q]
      BY <2>1, <1>1 DEF Continue
    <3>2. call[q].do \in Holding => call[q].t \in Transfers /\ call[q].t # step.t
      BY <2>1 DEF RowFree, Holding, RemovalInv, StepsRead, StepRead
    <3>3. QED
      BY <3>1, <3>2, <2>5, <1>3 DEF WorkedOn
  <2>9. \A w \in Warehouses \ contended : w \in Touched(step) => CleanAt(w)'
    BY <2>1, <1>4 DEF CleanAt, StepCleanAt, Trading
  <2>10. Active(MainWarehouse)'
    BY <2>1, <1>5 DEF Active
  <2>11. QED
    BY <1>1, <1>2, <2>1, <2>3, <2>7, <2>8, <2>9, <2>10, RemovalCallDone
<1>14. ASSUME Send(r) \/ Receive(r) \/ TakeBack(r) PROVE RemovalInv'
  <2>1. -1 \in Int /\ 1 \in Int
    OBVIOUS
  <2>2. QED
    BY <1>14, <2>1, RemovalCommitStep DEF Send, Receive, TakeBack, Holding
<1>15. QED
  BY <1>7, <1>8, <1>10, <1>11, <1>12, <1>13, <1>14 DEF Trade

-----------------------------------------------------------------------------
LEMMA RemovalInvNext == RemovalInv /\ [RemovalNext]_removalVars => RemovalInv'
<1> SUFFICES ASSUME RemovalInv, [RemovalNext]_removalVars PROVE RemovalInv'
  OBVIOUS
<1>1. CASE RemovalNext
  BY <1>1, RemovalManageStep, RemovalTradeStep DEF RemovalNext
<1>2. CASE UNCHANGED removalVars
  BY <1>2 DEF removalVars, RemovalInv, RemovalTypeOK, StepsRead, StepRead, TransfersHeld, WorkedOn,
     ContendedKnown, MainStays, Active, CleanUnlessContended, CleanAt, StepCleanAt, OpenTransfers,
     Touched
<1>3. QED
  BY <1>1, <1>2

(* However many warehouses, transfers and requests there are, whatever quantity a *)
(* warehouse holds: one that was removed holds no stock and no open transfer, and  *)
(* one that was stopped has no open transfer, unless two requests worked on it at   *)
(* the same time.                                                                   *)
THEOREM WarehousesLeftClean == RemovalSpec => []WarehouseLeftClean
<1>1. RemovalInv => WarehouseLeftClean
  BY DEF RemovalInv, CleanUnlessContended, CleanAt, WarehouseLeftClean, RemovedHoldsNothing,
     StoppedHasNoTransfer
<1>2. QED
  BY <1>1, RemovalInvInit, RemovalInvNext, PTL DEF RemovalSpec
-----------------------------------------------------------------------------
(***************************************************************************)
(* Branches.  What a removal has counted stays counted: while it is at work,   *)
(* whoever brings something into its branch is remembered as late, so that it   *)
(* hides a branch with nothing in it but what came late.                        *)
(***************************************************************************)

BranchRows == [isActive : BOOLEAN, deleted : BOOLEAN]

(* Whatever belongs to a branch and would not be moved came late                        *)
OnlyLate(b) ==
  /\ \A w \in OwnWarehouses(b) : <<"warehouse", w>> \in late
  /\ \A u \in Users : b \in restricted[u] => <<"user", u>> \in late

(* What a request is about to write fits what it found                                  *)
BranchToSave(step) ==
  step.at = "branch" =>
    /\ step.row \in BranchRows /\ ~step.row.deleted
    /\ step.of = MainBranch => step.row.isActive

BranchToRemove(step) ==
  step.at = "remove" =>
    step.of \in DOMAIN branches /\ step.of # MainBranch /\ OnlyLate(step.of)

RowToSave(step) ==
  step.at = "user" => step.of \in Users /\ step.row \subseteq DOMAIN branches

Fits(step) == BranchToSave(step) /\ BranchToRemove(step) /\ RowToSave(step)

BranchesInv ==
  /\ branches \in [DOMAIN branches -> BranchRows]
  /\ restricted \in [Users -> SUBSET DOMAIN branches]
  /\ desks = [d \in Desks |-> desks[d]]
  /\ NothingLeftBehind
  /\ \A d \in Desks : Fits(desks[d])

-----------------------------------------------------------------------------
LEMMA BranchesInvInit == BranchesInit => BranchesInv
<1> SUFFICES ASSUME BranchesInit PROVE BranchesInv
  OBVIOUS
<1>1. DOMAIN branches = {MainBranch} /\ branches[MainBranch] = [isActive |-> TRUE, deleted |-> FALSE]
      /\ branches \in [DOMAIN branches -> BranchRows]
  BY DEF BranchesInit, BranchRows
<1>2. DOMAIN warehouses = {} /\ DOMAIN holders = {}
      /\ restricted = [u \in Users |-> {}] /\ desks = [d \in Desks |-> DeskFree]
  BY DEF BranchesInit
<1>3. NothingLeftBehind
  BY <1>1, <1>2 DEF NothingLeftBehind, Usable, Live
<1>4. \A d \in Desks : Fits(desks[d])
  BY <1>2 DEF Fits, BranchToSave, BranchToRemove, RowToSave, DeskFree
<1>5. QED
  BY <1>1, <1>2, <1>3, <1>4 DEF BranchesInv

(* What was ready to be written stays so, when no branch goes from the table and what *)
(* a removal counted is still all there is                                             *)
LEMMA StepsStillFit ==
  ASSUME NEW step, Fits(step),
         DOMAIN branches \subseteq DOMAIN branches',
         step.at = "remove" /\ OnlyLate(step.of) => OnlyLate(step.of)'
  PROVE  Fits(step)'
<1>1. BranchToSave(step)'
  BY DEF Fits, BranchToSave
<1>2. BranchToRemove(step)'
  BY DEF Fits, BranchToRemove
<1>3. RowToSave(step)'
  BY DEF Fits, RowToSave
<1>4. QED
  BY <1>1, <1>2, <1>3 DEF Fits

(* A request that reads: it fits what it found *)
LEMMA DeskStarts ==
  ASSUME BranchesInv, NEW d \in Desks, NEW step, Start(d, step), Fits(step),
         UNCHANGED <<branches, warehouses, holders, restricted, tokens, late>>
  PROVE  BranchesInv'
<1>1. desks' = [desks EXCEPT ![d] = step] /\ desks = [e \in Desks |-> desks[e]]
  BY DEF Start, BranchesInv
<1>2. desks' = [e \in Desks |-> desks'[e]] /\ desks'[d] = step
      /\ \A e \in Desks \ {d} : desks'[e] = desks[e]
  BY <1>1
<1>3. \A e \in Desks : Fits(desks'[e])
  BY <1>2 DEF BranchesInv
<1>4. \A e \in Desks : Fits(desks[e])'
  BY <1>3 DEF Fits, BranchToSave, BranchToRemove, RowToSave, OnlyLate, OwnWarehouses
<1>5. NothingLeftBehind'
  BY DEF BranchesInv, NothingLeftBehind, Usable, Live
<1>6. QED
  BY <1>2, <1>4, <1>5 DEF BranchesInv

(* A write that leaves to the removals at work what they counted *)
LEMMA DeskWrites ==
  ASSUME BranchesInv, NEW d \in Desks, Finish(d),
         \A e \in Desks \ {d} : desks[e].at = "remove" /\ OnlyLate(desks[e].of)
                                  => \A b : b = desks[e].of => OnlyLate(b)',
         DOMAIN branches \subseteq DOMAIN branches',
         branches' \in [DOMAIN branches' -> BranchRows],
         restricted' \in [Users -> SUBSET DOMAIN branches'],
         NothingLeftBehind'
  PROVE  BranchesInv'
<1>1. desks' = [desks EXCEPT ![d] = DeskFree] /\ desks = [e \in Desks |-> desks[e]]
  BY DEF Finish, BranchesInv
<1>2. desks' = [e \in Desks |-> desks'[e]] /\ desks'[d] = DeskFree
      /\ \A e \in Desks \ {d} : desks'[e] = desks[e]
  BY <1>1
<1>3. ASSUME NEW e \in Desks
      PROVE  Fits(desks[e])'
  <2>1. CASE e = d
    BY <2>1, <1>2 DEF DeskFree, Fits, BranchToSave, BranchToRemove, RowToSave
  <2>2. CASE e # d
    <3>1. PICK step : step = desks[e]
      OBVIOUS
    <3>2. Fits(step) /\ (step.at = "remove" /\ OnlyLate(step.of) => OnlyLate(step.of)')
      BY <3>1, <2>2 DEF BranchesInv
    <3>3. Fits(step)'
      BY <3>2, StepsStillFit
    <3>4. desks'[e] = step
      BY <3>1, <2>2, <1>2
    <3>5. QED
      BY <3>3, <3>4 DEF Fits, BranchToSave, BranchToRemove, RowToSave
  <2>3. QED
    BY <2>1, <2>2
<1>4. QED
  BY <1>2, <1>3 DEF BranchesInv

(* Writes that belong to no desk *)
LEMMA OthersWrite ==
  ASSUME BranchesInv, desks' = desks, restricted' = restricted, late' = late,
         DOMAIN branches \subseteq DOMAIN branches',
         branches' \in [DOMAIN branches' -> BranchRows],
         \A b : OwnWarehouses(b)' \subseteq OwnWarehouses(b),
         NothingLeftBehind'
  PROVE  BranchesInv'
<1>1. ASSUME NEW e \in Desks
      PROVE  Fits(desks[e])'
  <2>1. PICK step : step = desks[e]
    OBVIOUS
  <2>2. OnlyLate(step.of) => OnlyLate(step.of)'
    BY DEF OnlyLate
  <2>3. Fits(step)'
    BY <2>1, <2>2, StepsStillFit DEF BranchesInv
  <2>4. desks'[e] = step
    BY <2>1
  <2>5. QED
    BY <2>3, <2>4 DEF Fits, BranchToSave, BranchToRemove, RowToSave
<1>2. restricted' \in [Users -> SUBSET DOMAIN branches']
  BY DEF BranchesInv
<1>3. QED
  BY <1>1, <1>2 DEF BranchesInv

-----------------------------------------------------------------------------
(* Branches are added, edited and hidden *)
LEMMA BranchEditsFit ==
  ASSUME BranchesInv,
         \/ \E b \in Branch : CreateBranch(b)
         \/ \E d \in Desks, b \in DOMAIN branches, active \in BOOLEAN : \E u : BeginUpdateBranch(d, u, b, active)
         \/ \E d \in Desks : SaveBranch(d)
  PROVE  BranchesInv'
<1>1. /\ branches \in [DOMAIN branches -> BranchRows]
      /\ restricted \in [Users -> SUBSET DOMAIN branches]
      /\ NothingLeftBehind /\ Live(MainBranch) /\ branches[MainBranch].isActive
      /\ \A d \in Desks : Fits(desks[d])
  BY DEF BranchesInv, NothingLeftBehind, Usable
<1>2. ASSUME NEW b \in Branch, CreateBranch(b) PROVE BranchesInv'
  <2>1. PICK row : row = [isActive |-> TRUE, deleted |-> FALSE]
    OBVIOUS
  <2>2. /\ b \notin DOMAIN branches /\ branches' = Put(branches, b, row) /\ row \in BranchRows
        /\ UNCHANGED <<warehouses, holders, restricted, tokens, desks, late>>
    BY <1>2, <2>1 DEF CreateBranch, BranchRows
  <2>3. /\ DOMAIN branches' = DOMAIN branches \cup {b}
        /\ \A x \in DOMAIN branches : branches'[x] = branches[x]
        /\ branches' \in [DOMAIN branches' -> BranchRows]
    BY <2>2, <1>1 DEF Put
  <2>4. NothingLeftBehind'
    BY <2>2, <2>3, <1>1 DEF NothingLeftBehind, Usable, Live
  <2>5. \A x : OwnWarehouses(x)' = OwnWarehouses(x)
    BY <2>2 DEF OwnWarehouses
  <2>6. QED
    BY <2>2, <2>3, <2>4, <2>5, OthersWrite
<1>3. ASSUME NEW d \in Desks, NEW u, NEW b \in DOMAIN branches, NEW active \in BOOLEAN,
             BeginUpdateBranch(d, u, b, active)
      PROVE  BranchesInv'
  <2>1. PICK step : step = [at |-> "branch", of |-> b, row |-> [isActive |-> active, deleted |-> FALSE]]
    OBVIOUS
  <2>2. step.row \in BranchRows /\ ~step.row.deleted /\ step.row.isActive = active
    BY <2>1 DEF BranchRows
  <2>3. b = MainBranch => active
    BY <1>3, <1>1 DEF BeginUpdateBranch
  <2>4. Fits(step)
    BY <2>1, <2>2, <2>3 DEF Fits, BranchToSave, BranchToRemove, RowToSave
  <2>5. QED
    BY <1>3, <2>1, <2>4, DeskStarts DEF BeginUpdateBranch
<1>4. ASSUME NEW d \in Desks, SaveBranch(d) PROVE BranchesInv'
  <2>1. PICK b, row : b = desks[d].of /\ row = desks[d].row
    OBVIOUS
  <2>2. /\ desks[d].at = "branch" /\ branches' = Put(branches, b, row) /\ Finish(d)
        /\ UNCHANGED <<warehouses, holders, restricted, tokens, late>>
    BY <1>4, <2>1 DEF SaveBranch
  <2>3. row \in BranchRows /\ ~row.deleted /\ (b = MainBranch => row.isActive)
    BY <2>1, <2>2, <1>1 DEF Fits, BranchToSave
  <2>4. /\ DOMAIN branches' = DOMAIN branches \cup {b}
        /\ \A x \in DOMAIN branches \ {b} : branches'[x] = branches[x]
        /\ branches'[b] = row
        /\ branches' \in [DOMAIN branches' -> BranchRows]
    BY <2>2, <2>3, <1>1 DEF Put
  <2>5. \A x : Live(x) => Live(x)'
    BY <2>3, <2>4 DEF Live
  <2>6. Usable(MainBranch)'
    BY <2>3, <2>4, <1>1 DEF Usable, Live
  <2>7. NothingLeftBehind'
    BY <2>2, <2>5, <2>6, <1>1 DEF NothingLeftBehind, Live
  <2>8. restricted' \in [Users -> SUBSET DOMAIN branches']
    BY <2>2, <2>4, <1>1
  <2>9. \A x : OnlyLate(x) => OnlyLate(x)'
    BY <2>2 DEF OnlyLate, OwnWarehouses
  <2>10. QED
    BY <2>2, <2>4, <2>7, <2>8, <2>9, DeskWrites
<1>5. QED
  BY <1>2, <1>3, <1>4

(* A removal finds nothing that it would not move, and hides what it found *)
LEMMA RemovalsFit ==
  ASSUME BranchesInv,
         \/ \E d \in Desks, b \in DOMAIN branches : \E u : BeginRemove(d, u, b)
         \/ \E d \in Desks : CommitRemove(d)
  PROVE  BranchesInv'
<1>1. /\ branches \in [DOMAIN branches -> BranchRows]
      /\ restricted \in [Users -> SUBSET DOMAIN branches]
      /\ NothingLeftBehind /\ Live(MainBranch) /\ branches[MainBranch].isActive
      /\ \A d \in Desks : Fits(desks[d])
  BY DEF BranchesInv, NothingLeftBehind, Usable
<1>2. ASSUME NEW d \in Desks, NEW u, NEW b \in DOMAIN branches, BeginRemove(d, u, b)
      PROVE  BranchesInv'
  <2>1. PICK step : step = [at |-> "remove", of |-> b]
    OBVIOUS
  <2>2. OnlyLate(b)
    BY <1>2 DEF BeginRemove, Removable, OnlyLate
  <2>3. Fits(step)
    BY <1>2, <2>1, <2>2 DEF BeginRemove, Fits, BranchToSave, BranchToRemove, RowToSave
  <2>4. QED
    BY <1>2, <2>1, <2>3, DeskStarts DEF BeginRemove
<1>3. ASSUME NEW d \in Desks, CommitRemove(d) PROVE BranchesInv'
  <2>1. PICK b : b = desks[d].of
    OBVIOUS
  <2>2. /\ desks[d].at = "remove" /\ holders' = Moved(b)
        /\ branches' = [branches EXCEPT ![b].deleted = TRUE] /\ Finish(d)
        /\ UNCHANGED <<warehouses, restricted, tokens, late>>
    BY <1>3, <2>1 DEF CommitRemove
  <2>3. b \in DOMAIN branches /\ b # MainBranch /\ OnlyLate(b)
    BY <2>1, <2>2, <1>1 DEF Fits, BranchToRemove
  <2>4. /\ DOMAIN branches' = DOMAIN branches
        /\ \A x \in DOMAIN branches \ {b} : branches'[x] = branches[x]
        /\ branches' \in [DOMAIN branches' -> BranchRows]
    BY <2>2, <1>1 DEF BranchRows
  <2>5. \A x : Live(x) /\ x # b => Live(x)'
    BY <2>4 DEF Live
  <2>6. \A w \in DOMAIN warehouses : Live(warehouses[w].branchId)' \/ <<"warehouse", w>> \in late
    <3>1. ASSUME NEW w \in DOMAIN warehouses, warehouses[w].branchId = b
          PROVE  <<"warehouse", w>> \in late
      BY <2>3, <3>1 DEF OnlyLate, OwnWarehouses
    <3>2. ASSUME NEW w \in DOMAIN warehouses, warehouses[w].branchId # b
          PROVE  Live(warehouses[w].branchId)' \/ <<"warehouse", w>> \in late
      BY <2>2, <2>5, <1>1, <3>2 DEF NothingLeftBehind, Live
    <3>3. QED
      BY <3>1, <3>2
  <2>7. \A h \in DOMAIN holders' : Live(holders[h])' \/ <<"holder", h>> \in late
    <3>1. DOMAIN holders' = DOMAIN holders
          /\ \A h \in DOMAIN holders : holders'[h] = IF holders[h] = b THEN MainBranch ELSE holders[h]
      BY <2>2 DEF Moved
    <3>2. \A h \in DOMAIN holders : holders'[h] # b /\ (Live(holders'[h]) \/ <<"holder", h>> \in late)
      BY <3>1, <2>3, <1>1 DEF NothingLeftBehind
    <3>3. QED
      BY <3>1, <3>2, <2>4 DEF Live
  <2>8. \A u \in Users : (\A x \in restricted[u] : Live(x)') \/ <<"user", u>> \in late
    <3>1. ASSUME NEW u \in Users, b \in restricted[u]
          PROVE  <<"user", u>> \in late
      BY <2>3, <3>1 DEF OnlyLate
    <3>2. ASSUME NEW u \in Users, b \notin restricted[u]
          PROVE  (\A x \in restricted[u] : Live(x)') \/ <<"user", u>> \in late
      BY <2>5, <1>1, <3>2 DEF NothingLeftBehind
    <3>3. QED
      BY <3>1, <3>2
  <2>9. Usable(MainBranch)'
    BY <2>3, <2>4, <1>1 DEF Usable, Live
  <2>10. NothingLeftBehind'
    BY <2>2, <2>6, <2>7, <2>8, <2>9 DEF NothingLeftBehind, Live
  <2>11. \A x : OnlyLate(x) => OnlyLate(x)'
    BY <2>2 DEF OnlyLate, OwnWarehouses
  <2>12. restricted' \in [Users -> SUBSET DOMAIN branches']
    BY <2>2, <2>4, <1>1
  <2>13. QED
    BY <2>2, <2>4, <2>10, <2>11, <2>12, DeskWrites
<1>4. QED
  BY <1>2, <1>3

(* What comes into a branch that a removal has counted came late *)
LEMMA SavesFit ==
  ASSUME BranchesInv, NEW d \in Desks, SaveWarehouse(d) \/ SaveHolder(d) \/ SaveUser(d)
  PROVE  BranchesInv'
<1>1. /\ branches \in [DOMAIN branches -> BranchRows]
      /\ restricted \in [Users -> SUBSET DOMAIN branches]
      /\ NothingLeftBehind
      /\ \A e \in Desks : Fits(desks[e])
  BY DEF BranchesInv
<1>2. PICK x, row, kind : x = desks[d].of /\ row = desks[d].row /\ kind = desks[d].at
  OBVIOUS
<1>3. branches' = branches /\ Finish(d) /\ Usable(MainBranch)'
  BY <1>1 DEF SaveWarehouse, SaveHolder, SaveUser, NothingLeftBehind, Usable, Live
<1>4. ASSUME NEW into, Remember(d, into)
      PROVE  /\ \A e \in Desks : desks[e].at = "remove" /\ desks[e].of \in into => <<kind, x>> \in late'
             /\ (\A b \in into : Live(b)) \/ <<kind, x>> \in late'
             /\ \A k, y : <<k, y>> \in late /\ (k # kind \/ y # x) => <<k, y>> \in late'
  BY <1>2, <1>4 DEF Remember, Leaving
<1>5. CASE SaveWarehouse(d)
  <2>1. /\ kind = "warehouse" /\ warehouses' = Put(warehouses, x, row) /\ Remember(d, {row.branchId})
        /\ UNCHANGED <<branches, holders, restricted, tokens>>
    BY <1>2, <1>5 DEF SaveWarehouse
  <2>2. /\ DOMAIN warehouses' = DOMAIN warehouses \cup {x} /\ warehouses'[x] = row
        /\ \A w \in DOMAIN warehouses \ {x} : warehouses'[w] = warehouses[w]
    BY <2>1 DEF Put
  <2>3. /\ \A h : <<"holder", h>> \in late => <<"holder", h>> \in late'
        /\ \A u : <<"user", u>> \in late => <<"user", u>> \in late'
        /\ \A w : w # x /\ <<"warehouse", w>> \in late => <<"warehouse", w>> \in late'
        /\ Live(row.branchId) \/ <<"warehouse", x>> \in late'
        /\ \A e \in Desks : desks[e].at = "remove" /\ desks[e].of = row.branchId => <<"warehouse", x>> \in late'
    BY <1>4, <2>1
  <2>4. NothingLeftBehind'
    <3>1. \A w \in DOMAIN warehouses' : Live(warehouses'[w].branchId) \/ <<"warehouse", w>> \in late'
      BY <1>1, <2>2, <2>3 DEF NothingLeftBehind
    <3>2. \A h \in DOMAIN holders : Live(holders[h]) \/ <<"holder", h>> \in late'
      BY <1>1, <2>3 DEF NothingLeftBehind
    <3>3. \A u \in Users : (\A b \in restricted[u] : Live(b)) \/ <<"user", u>> \in late'
      BY <1>1, <2>3 DEF NothingLeftBehind
    <3>4. QED
      BY <1>3, <2>1, <3>1, <3>2, <3>3 DEF NothingLeftBehind, Live
  <2>5. ASSUME NEW e \in Desks \ {d}, desks[e].at = "remove", OnlyLate(desks[e].of), NEW b, b = desks[e].of
        PROVE  OnlyLate(b)'
    BY <2>1, <2>2, <2>3, <2>5 DEF OnlyLate, OwnWarehouses
  <2>6. QED
    BY <1>1, <1>3, <2>1, <2>4, <2>5, DeskWrites
<1>6. CASE SaveHolder(d)
  <2>1. /\ kind = "holder" /\ holders' = Put(holders, x, row) /\ Remember(d, {row})
        /\ UNCHANGED <<branches, warehouses, restricted, tokens>>
    BY <1>2, <1>6 DEF SaveHolder
  <2>2. /\ DOMAIN holders' = DOMAIN holders \cup {x} /\ holders'[x] = row
        /\ \A h \in DOMAIN holders \ {x} : holders'[h] = holders[h]
    BY <2>1 DEF Put
  <2>3. /\ \A w : <<"warehouse", w>> \in late => <<"warehouse", w>> \in late'
        /\ \A u : <<"user", u>> \in late => <<"user", u>> \in late'
        /\ \A h : h # x /\ <<"holder", h>> \in late => <<"holder", h>> \in late'
        /\ Live(row) \/ <<"holder", x>> \in late'
    BY <1>4, <2>1
  <2>4. NothingLeftBehind'
    <3>1. \A w \in DOMAIN warehouses : Live(warehouses[w].branchId) \/ <<"warehouse", w>> \in late'
      BY <1>1, <2>3 DEF NothingLeftBehind
    <3>2. \A h \in DOMAIN holders' : Live(holders'[h]) \/ <<"holder", h>> \in late'
      BY <1>1, <2>2, <2>3 DEF NothingLeftBehind
    <3>3. \A u \in Users : (\A b \in restricted[u] : Live(b)) \/ <<"user", u>> \in late'
      BY <1>1, <2>3 DEF NothingLeftBehind
    <3>4. QED
      BY <1>3, <2>1, <3>1, <3>2, <3>3 DEF NothingLeftBehind, Live
  <2>5. \A b : OnlyLate(b) => OnlyLate(b)'
    BY <2>1, <2>3 DEF OnlyLate, OwnWarehouses
  <2>6. QED
    BY <1>1, <1>3, <2>1, <2>4, <2>5, DeskWrites
<1>7. CASE SaveUser(d)
  <2>1. /\ kind = "user" /\ restricted' = [restricted EXCEPT ![x] = row] /\ Remember(d, row)
        /\ UNCHANGED <<branches, warehouses, holders, tokens>>
    BY <1>2, <1>7 DEF SaveUser
  <2>2. x \in Users /\ row \subseteq DOMAIN branches
    BY <1>1, <1>2, <2>1 DEF Fits, RowToSave
  <2>3. /\ \A w : <<"warehouse", w>> \in late => <<"warehouse", w>> \in late'
        /\ \A h : <<"holder", h>> \in late => <<"holder", h>> \in late'
        /\ \A u : u # x /\ <<"user", u>> \in late => <<"user", u>> \in late'
        /\ (\A b \in row : Live(b)) \/ <<"user", x>> \in late'
        /\ \A e \in Desks : desks[e].at = "remove" /\ desks[e].of \in row => <<"user", x>> \in late'
    BY <1>4, <2>1
  <2>4. /\ restricted' \in [Users -> SUBSET DOMAIN branches] /\ restricted'[x] = row
        /\ \A u \in Users \ {x} : restricted'[u] = restricted[u]
    BY <1>1, <2>1, <2>2
  <2>5. NothingLeftBehind'
    <3>1. \A w \in DOMAIN warehouses : Live(warehouses[w].branchId) \/ <<"warehouse", w>> \in late'
      BY <1>1, <2>3 DEF NothingLeftBehind
    <3>2. \A h \in DOMAIN holders : Live(holders[h]) \/ <<"holder", h>> \in late'
      BY <1>1, <2>3 DEF NothingLeftBehind
    <3>3. \A u \in Users : (\A b \in restricted'[u] : Live(b)) \/ <<"user", u>> \in late'
      BY <1>1, <2>3, <2>4 DEF NothingLeftBehind
    <3>4. QED
      BY <1>3, <2>1, <3>1, <3>2, <3>3 DEF NothingLeftBehind, Live
  <2>6. ASSUME NEW e \in Desks \ {d}, desks[e].at = "remove", OnlyLate(desks[e].of), NEW b, b = desks[e].of
        PROVE  OnlyLate(b)'
    BY <2>1, <2>3, <2>4, <2>6 DEF OnlyLate, OwnWarehouses
  <2>7. QED
    BY <1>1, <1>3, <2>1, <2>4, <2>5, <2>6, DeskWrites
<1>8. QED
  BY <1>5, <1>6, <1>7

(* What reads a branch, and what goes without a desk *)
LEMMA ReadersFit ==
  ASSUME BranchesInv,
         \/ \E d \in Desks : \E u, b, w :
              BeginWarehouse(d, u, w, b) \/ \E active \in BOOLEAN : BeginUpdateWarehouse(d, u, w, b, active)
         \/ \E d \in Desks : \E u, b, h : BeginHolder(d, u, h, b)
         \/ \E d \in Desks, v \in Users : \E u, asked : BeginUser(d, u, v, asked)
         \/ \E u, w : RemoveWarehouse(u, w)
         \/ \E u : Refresh(u)
  PROVE  BranchesInv'
<1>1. branches \in [DOMAIN branches -> BranchRows] /\ NothingLeftBehind
  BY DEF BranchesInv
<1>2. ASSUME NEW d \in Desks, NEW step, Start(d, step), step.at \in {"warehouse", "holder"},
             UNCHANGED <<branches, warehouses, holders, restricted, tokens, late>>
      PROVE  BranchesInv'
  <2>1. Fits(step)
    BY <1>2 DEF Fits, BranchToSave, BranchToRemove, RowToSave
  <2>2. QED
    BY <1>2, <2>1, DeskStarts
<1>3. CASE \E d \in Desks : \E u, b, w :
             BeginWarehouse(d, u, w, b) \/ \E active \in BOOLEAN : BeginUpdateWarehouse(d, u, w, b, active)
  <2>1. PICK d \in Desks : \E u, b, w :
          BeginWarehouse(d, u, w, b) \/ \E active \in BOOLEAN : BeginUpdateWarehouse(d, u, w, b, active)
    BY <1>3
  <2>2. \E w, new, row : Start(d, [at |-> "warehouse", of |-> w, new |-> new, row |-> row])
        /\ UNCHANGED <<branches, warehouses, holders, restricted, tokens, late>>
    BY <2>1 DEF BeginWarehouse, BeginUpdateWarehouse
  <2>3. QED
    BY <1>2, <2>2
<1>4. CASE \E d \in Desks : \E u, b, h : BeginHolder(d, u, h, b)
  <2>1. PICK d \in Desks : \E u, b, h : BeginHolder(d, u, h, b)
    BY <1>4
  <2>2. \E h, b : Start(d, [at |-> "holder", of |-> h, row |-> b])
        /\ UNCHANGED <<branches, warehouses, holders, restricted, tokens, late>>
    BY <2>1 DEF BeginHolder
  <2>3. QED
    BY <1>2, <2>2
<1>5. ASSUME NEW d \in Desks, NEW u, NEW v \in Users, NEW asked, BeginUser(d, u, v, asked)
      PROVE  BranchesInv'
  <2>1. PICK step : step = [at |-> "user", of |-> v, row |-> Granted(u, asked)]
    OBVIOUS
  <2>2. Granted(u, asked) \subseteq DOMAIN branches
    BY <1>5 DEF BeginUser, Live
  <2>3. Fits(step)
    BY <2>1, <2>2 DEF Fits, BranchToSave, BranchToRemove, RowToSave
  <2>4. QED
    BY <1>5, <2>1, <2>3, DeskStarts DEF BeginUser
<1>6. ASSUME NEW u, NEW w, RemoveWarehouse(u, w) PROVE BranchesInv'
  <2>1. /\ warehouses' = [x \in DOMAIN warehouses \ {w} |-> warehouses[x]]
        /\ UNCHANGED <<branches, holders, restricted, tokens, desks, late>>
    BY <1>6 DEF RemoveWarehouse
  <2>2. DOMAIN warehouses' \subseteq DOMAIN warehouses
        /\ \A x \in DOMAIN warehouses' : warehouses'[x] = warehouses[x]
    BY <2>1
  <2>3. \A b : OwnWarehouses(b)' \subseteq OwnWarehouses(b)
    BY <2>2 DEF OwnWarehouses
  <2>4. NothingLeftBehind'
    BY <2>1, <2>2, <1>1 DEF NothingLeftBehind, Usable, Live
  <2>5. QED
    BY <1>1, <2>1, <2>3, <2>4, OthersWrite
<1>7. ASSUME NEW u, Refresh(u) PROVE BranchesInv'
  <2>1. UNCHANGED <<branches, warehouses, holders, restricted, desks, late>>
    BY <1>7 DEF Refresh
  <2>2. NothingLeftBehind' /\ \A b : OwnWarehouses(b)' = OwnWarehouses(b)
    BY <2>1, <1>1 DEF NothingLeftBehind, Usable, Live, OwnWarehouses
  <2>3. QED
    BY <1>1, <2>1, <2>2, OthersWrite
<1>8. QED
  BY <1>3, <1>4, <1>5, <1>6, <1>7

LEMMA BranchesInvNext == BranchesInv /\ [BranchesNext]_branchVars => BranchesInv'
<1> SUFFICES ASSUME BranchesInv, [BranchesNext]_branchVars PROVE BranchesInv'
  OBVIOUS
<1>1. CASE BranchesNext
  BY <1>1, BranchEditsFit, RemovalsFit, SavesFit, ReadersFit DEF BranchesNext
<1>2. CASE UNCHANGED branchVars
  BY <1>2 DEF branchVars, BranchesInv, NothingLeftBehind, Usable, Live, Fits, BranchToSave,
     BranchToRemove, RowToSave, OnlyLate, OwnWarehouses
<1>3. QED
  BY <1>1, <1>2

(* Whatever the branches, warehouses, users and requests and however they overlap:     *)
(* what is left with a removed branch was last saved into it after its removal had       *)
(* counted, and the main branch is neither stopped nor removed.                          *)
THEOREM NothingIsLeftBehind == BranchesSpec => []NothingLeftBehind
<1>1. BranchesInv => NothingLeftBehind
  BY DEF BranchesInv
<1>2. QED
  BY <1>1, BranchesInvInit, BranchesInvNext, PTL DEF BranchesSpec
=============================================================================
