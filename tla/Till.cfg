SPECIFICATION TillSpec
CONSTANTS
  off = off
  c1 = c1
  r1 = r1
  r2 = r2
  a1 = a1
  d1 = d1
  d2 = d2
  s1 = s1
  s2 = s2
  w1 = w1
  w2 = w2
  k1 = k1
  k2 = k2
  o1 = o1
  t1 = t1
  t2 = t2
  n1 = n1
  n2 = n2
  b1 = b1
  p1 = p1
  p2 = p2
  u1 = u1
  u2 = u2
  Cashiers = {c1}
  Editors = {r1, r2}
  TillSales = {a1}
  Wanted <- WithCustomers
  Promotions <- TwoPromotions
  NoCashier = off
  LastStamp = 3
  TillSkew = 1
  Tickets = {k1, k2}
  Orders = {o1}
  OrderOf <- OneOrder
  Tables = {t1, t2}
  Names = {n1, n2}
  Halls = {b1}
  Staff = {r1, r2}
  Day = 2
  ReadyHours = 1
  LastKitchenTime = 3
  Tills = {d1, d2}
  Screens = {s1, s2}
  Warehouses = {w1, w2}
  Requests = {r1, r2}
  MaxBindAttempts = 2
  MaxKeys = 2
  MaxFaults = 1
  Documents = {yd1}
  Vouchers = {v1}
  Closers = {yc1}
  PerYear = 1
  MaxDay = 3
  MaxCloses = 2
  MaxLocks = 1
  None = None
  yd1 = yd1
  v1 = v1
  yc1 = yc1
INVARIANTS
  YearsClosed
  RightWhenDone
  OneDevicePerScreen
PROPERTIES
  BoardInOrder
  SheetIsCurrent
CHECK_DEADLOCK FALSE
