SPECIFICATION PayrollSpec
CONSTANTS
  Payrolls = {p1}
  Months = {1, 2}
  Loans = {}
  Deductions = {d1}
  Bonuses = {}
  Payouts = {}
  Counts = {1, 2}
  Salary = 1
  Withholdings = {0}
  p1 = p1
  d1 = d1
INVARIANTS
  CountedAsDeducted
CHECK_DEADLOCK FALSE
