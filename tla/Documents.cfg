SPECIFICATION DocumentsSpec
CONSTANTS
  Invoices = {i1, i2, i3, i4, i5}
  FromTill = {i4, i5}
  Nobody = Nobody
  Nothing = Nothing
  i1 = i1
  i2 = i2
  i3 = i3
  i4 = i4
  i5 = i5
  Warehouses = {w1, w2}
  Products = {1}
  Transfers = {m1}
  NegativeAllowed = {w1}
  Costs = {2}
  MaxCost = 2
  MaxQty = 1
  MaxMovements = 2
  NoTransfer = noTransfer
  Clients = {c1, c2}
  NoClient = NoClient
  Idle = Idle
  w1 = w1
  w2 = w2
  m1 = m1
  c1 = c1
  c2 = c2
  noTransfer = noTransfer
SYMMETRY Symmetry
INVARIANTS
  ChainUnbroken
  NumbersInSequence
PROPERTIES
  CommittedAsDocuments
CHECK_DEADLOCK FALSE
