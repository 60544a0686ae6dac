SPECIFICATION ShopsSpec
CONSTANTS
  Invoices = {i1, i2}
  Payments = {p1, p2}
  Returns = {k1, k2}
  Requests = {r1}
  CreditLimit = 2
  MaxTotal = 2
  None = None
  Warehouses = {w0, w1}
  MainWarehouse = w0
  Transfers = {t1}
  Calls = {r1, r2}
  MaxQty = 2
  Nothing = Nothing
  Branch = {b1}
  MainBranch = b0
  BranchWarehouses = {w1}
  Holders = {h1}
  Users = {u1}
  Desks = {d1, d2}
INVARIANTS
  InvoicesAddUp
  WarehouseLeftClean
  NothingLeftBehind
PROPERTIES
  IssueChecked
CHECK_DEADLOCK FALSE
