SPECIFICATION OfficeSpec
CONSTANTS
  off = off
  e1 = e1
  e2 = e2
  r1 = r1
  r2 = r2
  l1 = l1
  l2 = l2
  s1 = s1
  s2 = s2
  d1 = d1
  d2 = d2
  b1 = b1
  k1 = k1
  k2 = k2
  t1 = t1
  f1 = f1
  f2 = f2
  u1 = u1
  u2 = u2
  x1 = x1
  x2 = x2
  Users = {u1}
  Sessions = {s1}
  Desks = {r1, r2}
  Rights = {x1}
  Clients = {"mobile"}
  SESSION_TTL <- Lifetime
  AccessLife = 1
  CodeLife = 0
  MaxPasswords = 2
  LastTime = 2
  Accounts = {u1, u2}
  Scope <- Everybody
  Managers = {u1}
  Alerts = {x1, x2}
  GroupOf <- Group
  Scans = {1, 2}
  Terms = {l1}
  OwnerOf <- Owner
  StaffRequests = {l1}
  Stages = {0, 1}
  Grace = 1
  Retention = 0
  MaxNotes = 2
  MaxFailures = 1
  LastDay = 1
  Tenants = {t1}
  Plans = {f1, f2}
  FREE = f1
  PlanRows <- TwoRows
  Asked = {"cancelled"}
  Askers = {r1, r2}
  Onboarders = {e1}
  MaxRows = 2
  MaxUsers = 3
  TrialDays = 0
  MaxDays = 1
  LastPlanTime = 1
  Payrolls = {x1, x2}
  Months = {1, 2}
  Salary = 1
  Loans = {l1}
  Deductions = {d1}
  Bonuses = {b1}
  Payouts = {s1}
  Withholdings = {0, 2}
  Counts = {1, 2}
  SalaryRows = {s1, s2}
  Advances = {x1, x2}
  AdvanceDesks = {r1, r2}
  Totals = {1, 2}
  Amounts = {1, 2}
  LeaveRequests = {l1, l2}
  LeaveTypes = {"annual", "unpaid"}
  Spans <- LeaveSpans
  LastLeaveDay = 4
  Dates = {2, 4}
  Settlements = {s1}
  Allowances = {4}
  LeaveDesks = {r1, r2}
  YearLength = 2
  Hired = 1
  Contracted = 2
  Credit = 1
  MaxCarry = 1
  MaxBackfill = 1
INVARIANTS
  PayrollsAddUp
  AdvancesCovered
  LeavesAddUp
  DaysAddUp
  PunchesOfOwners
  DevicesInStep
  UsersWithinPlan
  SessionsFollowAccount
  SilencedIsTold
CHECK_DEADLOCK FALSE
