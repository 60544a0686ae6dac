SPECIFICATION PurchasesSpec
CONSTANTS
  Suppliers = {s1}
  Invoices = {i1}
  Returns = {x1}
  Payments = {}
  Desks = {r1}
  LineQuantities = {1}
  Prices = {0}
  Rates = {15}
  Amounts = {2}
  NoDocument = NoDocument
  s1 = s1
  i1 = i1
  x1 = x1
  r1 = r1
INVARIANTS
  CancelledUntouched
CHECK_DEADLOCK FALSE
