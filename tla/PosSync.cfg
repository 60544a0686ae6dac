SPECIFICATION FairSpec
CONSTANTS
  s1 = s1
  s2 = s2
  Shifts = {s1, s2}
  Operations <- TwoShifts
  Requests = {r1, r2}
  MaxOperations = 7
  MaxFaults = 1
  r1 = r1
  r2 = r2
INVARIANTS
  ShiftsAddUp
  DroppedIsRecorded
PROPERTIES
  QueueDrains
CHECK_DEADLOCK FALSE
