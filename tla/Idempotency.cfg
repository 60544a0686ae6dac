SPECIFICATION FairSpec
CONSTANTS
  Operations = {save, pay, move}
  Keys = {key1, key2}
  KeyOf <- KeysUsed
  PathOf <- Paths
  Requests = {r1, r2}
  MaxFaults = 3
  None = None
  save = save
  pay = pay
  move = move
  key1 = key1
  key2 = key2
  r1 = r1
  r2 = r2
INVARIANTS
  AppliedOnce
  AnswersAreFirst
PROPERTIES
  Answered
CHECK_DEADLOCK FALSE
