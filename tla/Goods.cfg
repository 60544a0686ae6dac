SPECIFICATION GoodsSpec
CONSTANTS
  Warehouses = {w1, w2}
  Products = {p1}
  Transfers = {m1}
  NegativeAllowed = {w2}
  Costs = {1, 4}
  MaxCost = 4
  MaxQty = 1
  MaxMovements = 2
  NoTransfer = NoTransfer
  w1 = w1
  w2 = w2
  p1 = p1
  m1 = m1
  Suppliers = {s1}
  Invoices = {i1}
  Returns = {x1, x2}
  Payments = {y1, y2}
  Desks = {r1, r2}
  LineQuantities = {1, 3}
  Prices = {3}
  Rates = {15}
  Amounts = {5}
  NoDocument = NoDocument
  off = off
  s1 = s1
  i1 = i1
  x1 = x1
  x2 = x2
  y1 = y1
  y2 = y2
  r1 = r1
  r2 = r2
  a1 = a1
  a2 = a2
  u1 = u1
  u2 = u2
  t1 = t1
  t2 = t2
  c1 = c1
  c2 = c2
  b1 = b1
  d1 = d1
  d2 = d2
INVARIANTS
  StockAccounted
  AverageWithinCosts
  PurchasesAddUp
  CatalogKept
PROPERTIES
  ValueFollowsLedger
  CompanyView
CHECK_DEADLOCK FALSE
