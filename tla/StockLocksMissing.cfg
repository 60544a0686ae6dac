SPECIFICATION TxSpec
CONSTANTS
  Warehouses = {w1, w2}
  Products = {1, 2}
  Transfers = {t1}
  NegativeAllowed = {w2}
  Costs = {}
  MaxCost = 2
  MaxQty = 1
  MaxMovements = 1
  NoTransfer = NoTransfer
  Clients = {c1, c2}
  NoClient = NoClient
  Idle = Idle
  w1 = w1
  w2 = w2
  t1 = t1
  c1 = c1
  c2 = c2
INVARIANTS
  NoDeadlock
CHECK_DEADLOCK FALSE
