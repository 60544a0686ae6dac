SPECIFICATION DeliverySpec
CONSTANTS
  Orders = {o1, o2}
  Agents = {a1, a2}
  Requests = {r1, r2}
  Amount = 2
  MaxSettlements = 2
  None = None
  o1 = o1
  o2 = o2
  a1 = a1
  a2 = a2
  r1 = r1
  r2 = r2
  DeliveryAgents = {c1, c2}
  Parcels = {p1}
  Desks = {d1}
  Tills = {t1}
  NoOne = NoOne
  TillAhead = 0
  MaxKeys = 2
  LastTime = 2
  c1 = c1
  c2 = c2
  p1 = p1
  d1 = d1
  t1 = t1
SYMMETRY Symmetry
INVARIANTS
  NothingLeftOver
  MoneyOfAgents
  AgentsInOrder
PROPERTIES
  DriversOwnOrders
CHECK_DEADLOCK FALSE
