SPECIFICATION Spec
CONSTANTS
  Sales = {s1}
  Receipts = {p1}
  AmountOf <- Amounts
  OpeningBalances = {0, 2}
  Runs = {cron, manual}
  Forcing = {manual}
  MaxFaults = 1
  MaxChanges = 2
  None = None
  s1 = s1
  p1 = p1
  cron = cron
  manual = manual
INVARIANTS
  EntriesOnce
  BooksMatchStatements
PROPERTIES
  EverythingPosted
