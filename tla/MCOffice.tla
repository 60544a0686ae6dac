----------------------------- MODULE MCOffice ------------------------------
(***************************************************************************)
(* What a company has beside its trade, on small instances: salaries,         *)
(* advances, leaves, attendance, devices, its plan, its users and what they   *)
(* are told.  These parts share nothing that changes: a behaviour is that of  *)
(* one of them (part), and the variables of the others are off or, for users   *)
(* and what they are told, as in the beginning.                                *)
(***************************************************************************)
EXTENDS Sessions, Notifications, Subscriptions, Payroll, Entitlements, Leaves

CONSTANTS
  off,
  e1, e2, r1, r2,     \* employees, requests being served
  l1, l2, s1, s2,     \* loans, leaves, terms and holidays; salaries, settlements, sessions
  d1, d2, b1, k1, k2, \* devices and deductions, a bonus, numbers of employees
  t1, f1, f2, u1, u2, \* a company, plans, users
  x1, x2              \* whatever else a part is about

VARIABLES
  part,
  punches, holidays, leaves, policy,
  staff, logs, punchWork, punchTime, crossedPins,
  devices, commands, templates, copying, stored, jobs, machine, net, history

dayVars ==
  <<punches, holidays, leaves, policy>>
punchVars ==
  <<staff, logs, punchWork, punchTime, crossedPins>>
deviceVars ==
  <<devices, commands, templates, copying, stored, jobs, machine, net, history>>

CodeOf == [e \in {e1, e2} |-> IF e = e1 THEN k1 ELSE k2]
Row(n) == [max_users |-> n, feature |-> TRUE]
TwoRows == {Row(1), Row(2)}

(* Two days of a shift that ends on the next day; the clock is moved in the first *)
SpringForward == [d \in 0..3 |-> IF d = 0 THEN -1 ELSE 0]
Attending == INSTANCE AttendanceDays WITH
  DayHours <- 6, LastDay <- 1, Changes <- SpringForward, LeadHours <- 1, WeekDays <- 2,
  Shift <- [start |-> 4, end |-> 2, grace |-> 0, offDays |-> {1}],
  NoShift <- [start |-> 0, end |-> 0, grace |-> 0, offDays |-> {}],
  Declared <- 1, Holidays <- {l1}, MaxHoliday <- 2, MaxPunches <- 2

(* Two phones of an employee ..                                                *)
Tapping == INSTANCE Punches WITH
  Employees <- {e1}, Code <- CodeOf, Pins <- {k1}, NoPin <- off, Phones <- {x1, x2}, NoPhone <- off,
  Devices <- {}, Desks <- {r1, r2}, LastTime <- 1, MaxLogs <- 2, MaxManual <- 1,
  work <- punchWork, now <- punchTime, crossed <- crossedPins

(* .. a device and an employee whose number changes ..                         *)
Linking == INSTANCE Punches WITH
  Employees <- {e1}, Code <- CodeOf, Pins <- {k1, k2}, NoPin <- off, Phones <- {}, NoPhone <- off,
  Devices <- {d1}, Desks <- {r1, r2}, LastTime <- 0, MaxLogs <- 2, MaxManual <- 0,
  work <- punchWork, now <- punchTime, crossed <- crossedPins

(* .. and one where two of them have numbers                                   *)
Sharing == INSTANCE Punches WITH
  Employees <- {e1, e2}, Code <- CodeOf, Pins <- {k1, k2}, NoPin <- off, Phones <- {}, NoPhone <- off,
  Devices <- {d1}, Desks <- {r1}, LastTime <- 0, MaxLogs <- 2, MaxManual <- 0,
  work <- punchWork, now <- punchTime, crossed <- crossedPins

(* A template that two devices share ..                                        *)
Enrolling == INSTANCE Devices WITH
  Devices <- {d1, d2}, Employees <- {e1}, Desks <- {r1}, CommandsPerPoll <- 2, MaxAttempts <- 1,
  MaxIndex <- 0, MaxVersion <- 1, MaxSeq <- 3, MaxAsked <- 0, MaxPurges <- 0,
  MaxAltered <- 0, policy <- copying

(* .. punches of a device that is changed, removed and added again ..          *)
Uploading == INSTANCE Devices WITH
  Devices <- {d1}, Employees <- {}, Desks <- {r1}, CommandsPerPoll <- 2, MaxAttempts <- 1,
  MaxIndex <- 2, MaxVersion <- 0, MaxSeq <- 0, MaxAsked <- 0, MaxPurges <- 0,
  MaxAltered <- 2, policy <- copying

(* .. polls that overlap, of commands that are sent again ..                   *)
Polling == INSTANCE Devices WITH
  Devices <- {d1}, Employees <- {e1}, Desks <- {r1, r2}, CommandsPerPoll <- 2, MaxAttempts <- 2,
  MaxIndex <- 0, MaxVersion <- 0, MaxSeq <- 2, MaxAsked <- 1, MaxPurges <- 0,
  MaxAltered <- 0, policy <- copying

(* .. and copying switched off                                                 *)
Purging == INSTANCE Devices WITH
  Devices <- {d1}, Employees <- {e1}, Desks <- {r1, r2}, CommandsPerPoll <- 2, MaxAttempts <- 1,
  MaxIndex <- 0, MaxVersion <- 1, MaxSeq <- 2, MaxAsked <- 1, MaxPurges <- 1,
  MaxAltered <- 0, policy <- copying

(* One device enrols, the other sends back; polls overlap; one request purges      *)
Copying == Enrolling!Next /\ ~devices'[d1].handshakeAt
PollTwice ==
  /\ Polling!Next
  /\ jobs'[r2].do \in {"none", "poll"}
  /\ Cardinality({m \in net' : m.to = "confirm"}) <= 1
PurgeBeside ==
  /\ Purging!Next
  /\ jobs'[r2].do \in {"none", "off", "purge"} /\ jobs'[r1].do \notin {"off", "purge"}

LeaveSpans == {<<1, 1>>, <<1, 2>>, <<2, 3>>}

Lifetime == [c \in Clients |-> 1]

(* A session whose password changes ..                                         *)
Signing == SessionsNext /\ UNCHANGED <<role, now>>

(* .. and one whose role does                                                  *)
Permitting ==
  /\ SessionsNext
  /\ desks'[r2] = NoStep
  /\ users'[u1].password = users[u1].password

(* Plans that change below a company that two requests are made to ..           *)
Limiting == PlansNext /\ DOMAIN plans' = {f1} /\ asking'[e1] = NotAsking

(* .. and a company that changes its plan                                      *)
Upgrading ==
  /\ PlansNext
  /\ asking'[r2] = NotAsking /\ asking'[e1] = NotAsking
  /\ \A p \in DOMAIN plans' : plans'[p].max_users = 1

(* .. and an employee who is added with an account meanwhile                      *)
Onboarding ==
  /\ PlansNext /\ DOMAIN plans' = {f1} /\ planTime' = 0
  /\ asking'[r2] = NotAsking

(* Everybody writes to everybody, and each condition is of a group of its own   *)
Everybody == [u \in Accounts |-> Accounts]
Group == [a \in {x1, x2} |-> IF a = x1 THEN 1 ELSE 2]
Owner == [t \in {l1} |-> u2]

(* Of two advances one is saved first                                          *)
Advancing == EntitlementNext /\ (advance'[x2].status # "none" => advance'[x1].status # "none")

(* A loan beside a leave settlement ..                                         *)
Withheld(n) == \A p \in Payrolls : payroll'[p].state # "none" => payroll'[p].item.withheld = n
NoBonus == \A x \in Bonuses : extra'[x].status = "none"
NoPayout == \A x \in Payouts : extra'[x].status = "none"
NoDebt(S) == \A d \in S : debt'[d].status = "none"
Lending ==
  /\ PayrollNext /\ NoDebt(Deductions) /\ NoBonus /\ Withheld(0)
  /\ payroll'[x1].month = 1

(* .. a deduction beside payrolls that each have a month ..                    *)
MonthEach ==
  /\ payroll'[x1].month = 1
  /\ payroll'[x2].state # "none" => payroll'[x2].month = 2
Deducting == PayrollNext /\ NoDebt(Loans) /\ NoBonus /\ NoPayout /\ Withheld(0) /\ MonthEach

(* .. and a bonus beside ones that leave nothing of the salary                 *)
Rewarding == PayrollNext /\ NoDebt(Debts) /\ NoPayout /\ Withheld(2) /\ MonthEach

(* Two requests for leave, one of them of leave that is paid ..                 *)
Asking ==
  /\ LeavesNext /\ leaveDay' <= 3 /\ leaveWork'[r2].do # "carry"
  /\ leave'[l1].status # "none" => leave'[l1].type = "annual"
  /\ \A r \in LeaveDesks : leaveWork'[r].do \notin {"FULL", "PARTIAL", "setBalance"}

(* .. one beside a settlement and the turns of the year ..                     *)
OneRequest ==
  /\ LeavesNext
  /\ leave'[l2].status = "none" /\ leaveWork'[r2].do \notin {"annual", "approved", "rejected"}
  /\ \A r \in LeaveDesks :
       /\ leaveWork'[r].do # "unpaid"
       /\ leaveWork'[r].do = "annual" => leaveWork'[r].n # leaveWork'[r].on + 1 \/ leaveWork'[r].on > 1
Settling == OneRequest /\ \A r \in LeaveDesks : leaveWork'[r].do # "setBalance"

(* .. and beside a balance that is set by hand                                 *)
Granting == OneRequest /\ leaveWork'[r2] = NoWork

(* Two rounds of the scanners ..                                               *)
OnlyAlerts ==
  /\ NoticesNext
  /\ UNCHANGED <<ends, events, today>>
  /\ \A n \in notes' : n.kind = "condition"
  /\ muted'[u2] = {} /\ \A row \in inbox' : ~row.read
Scanning == OnlyAlerts /\ active' \subseteq {x1}

(* .. a round that tells two groups ..                                         *)
Bundling == OnlyAlerts /\ scan'[2] = Resting

(* .. a request that is decided ..                                             *)
NoAlerts == NoticesNext /\ UNCHANGED <<active, scan>> /\ seq' <= 1
Requesting == NoAlerts /\ UNCHANGED ends /\ \A n \in notes' : n.kind # "expiry"

(* .. and a contract that ends                                                 *)
Expiring == NoAlerts /\ UNCHANGED events

-----------------------------------------------------------------------------
DayOff ==
  /\ punches = off /\ holidays = off /\ leaves = off /\ policy = off

PunchOff ==
  /\ staff = off /\ logs = off /\ punchWork = off /\ punchTime = off
  /\ crossedPins = off

DeviceOff ==
  /\ devices = off /\ commands = off /\ templates = off /\ copying = off
  /\ stored = off /\ jobs = off /\ machine = off /\ net = off /\ history = off

PlanOff == PlansInit /\ plans[f1].max_users = 1

OnlyPayroll ==
  /\ EntitlementInit /\ LeavesInit /\ DayOff /\ PunchOff /\ DeviceOff /\ PlanOff /\ SessionsInit
  /\ NoticesInit
BesidePayroll ==
  UNCHANGED <<part, entitlementVars, leaveVars, dayVars, punchVars, deviceVars, planVars,
    sessionVars, noticeVars>>

OnlyAdvance ==
  /\ PayrollInit /\ LeavesInit /\ DayOff /\ PunchOff /\ DeviceOff /\ PlanOff /\ SessionsInit
  /\ NoticesInit
BesideAdvance ==
  UNCHANGED <<part, payrollVars, leaveVars, dayVars, punchVars, deviceVars, planVars,
    sessionVars, noticeVars>>

OnlyLeave ==
  /\ PayrollInit /\ EntitlementInit /\ DayOff /\ PunchOff /\ DeviceOff /\ PlanOff
  /\ SessionsInit /\ NoticesInit
BesideLeave ==
  UNCHANGED <<part, payrollVars, entitlementVars, dayVars, punchVars, deviceVars, planVars,
    sessionVars, noticeVars>>

OnlyDay ==
  /\ PayrollInit /\ EntitlementInit /\ LeavesInit /\ PunchOff /\ DeviceOff /\ PlanOff
  /\ SessionsInit /\ NoticesInit
BesideDay ==
  UNCHANGED <<part, payrollVars, entitlementVars, leaveVars, punchVars, deviceVars, planVars,
    sessionVars, noticeVars>>

OnlyPunch ==
  /\ PayrollInit /\ EntitlementInit /\ LeavesInit /\ DayOff /\ DeviceOff /\ PlanOff
  /\ SessionsInit /\ NoticesInit
BesidePunch ==
  UNCHANGED <<part, payrollVars, entitlementVars, leaveVars, dayVars, deviceVars, planVars,
    sessionVars, noticeVars>>

OnlyDevice ==
  /\ PayrollInit /\ EntitlementInit /\ LeavesInit /\ DayOff /\ PunchOff /\ PlanOff /\ SessionsInit
  /\ NoticesInit
BesideDevice ==
  UNCHANGED <<part, payrollVars, entitlementVars, leaveVars, dayVars, punchVars, planVars,
    sessionVars, noticeVars>>

OnlyPlan ==
  /\ PayrollInit /\ EntitlementInit /\ LeavesInit /\ DayOff /\ PunchOff /\ DeviceOff
  /\ SessionsInit /\ NoticesInit
BesidePlan ==
  UNCHANGED <<part, payrollVars, entitlementVars, leaveVars, dayVars, punchVars, deviceVars,
    sessionVars, noticeVars>>

OnlySession ==
  /\ PayrollInit /\ EntitlementInit /\ LeavesInit /\ DayOff /\ PunchOff /\ DeviceOff /\ PlanOff
  /\ NoticesInit
BesideSession ==
  UNCHANGED <<part, payrollVars, entitlementVars, leaveVars, dayVars, punchVars, deviceVars,
    planVars, noticeVars>>

OnlyNotice ==
  /\ PayrollInit /\ EntitlementInit /\ LeavesInit /\ DayOff /\ PunchOff /\ DeviceOff /\ PlanOff
  /\ SessionsInit
BesideNotice ==
  UNCHANGED <<part, payrollVars, entitlementVars, leaveVars, dayVars, punchVars, deviceVars,
    planVars, sessionVars>>

OfficeInit ==
  \/ part = "lending" /\ OnlyPayroll /\ PayrollInit
  \/ part = "deducting" /\ OnlyPayroll /\ PayrollInit
  \/ part = "rewarding" /\ OnlyPayroll /\ PayrollInit
  \/ part = "advancing" /\ OnlyAdvance /\ EntitlementInit
  \/ part = "asking" /\ OnlyLeave /\ LeavesInit
  \/ part = "settling" /\ OnlyLeave /\ LeavesInit
  \/ part = "granting" /\ OnlyLeave /\ LeavesInit
  \/ part = "attending" /\ Attending!Init /\ OnlyDay
  \/ part = "tapping" /\ Tapping!Init /\ OnlyPunch
  \/ part = "linking" /\ Linking!Init /\ OnlyPunch
  \/ part = "sharing" /\ Sharing!Init /\ OnlyPunch
  \/ part = "enrolling" /\ Enrolling!Init /\ OnlyDevice
  \/ part = "uploading" /\ Uploading!Init /\ OnlyDevice
  \/ part = "polling" /\ Polling!Init /\ OnlyDevice
  \/ part = "purging" /\ Purging!Init /\ OnlyDevice
  \/ part = "limiting" /\ OnlyPlan /\ PlansInit
  \/ part = "upgrading" /\ OnlyPlan /\ PlanOff
  \/ part = "onboarding" /\ OnlyPlan /\ PlansInit
  \/ part = "signing" /\ OnlySession /\ SessionsInit
  \/ part = "permitting" /\ OnlySession /\ SessionsInit
  \/ part = "scanning" /\ OnlyNotice /\ NoticesInit
  \/ part = "bundling" /\ OnlyNotice /\ NoticesInit
  \/ part = "requesting" /\ OnlyNotice /\ NoticesInit
  \/ part = "expiring" /\ OnlyNotice /\ NoticesInit

OfficeNext ==
  \/ part = "lending" /\ Lending /\ BesidePayroll
  \/ part = "deducting" /\ Deducting /\ BesidePayroll
  \/ part = "rewarding" /\ Rewarding /\ BesidePayroll
  \/ part = "advancing" /\ Advancing /\ BesideAdvance
  \/ part = "asking" /\ Asking /\ BesideLeave
  \/ part = "settling" /\ Settling /\ BesideLeave
  \/ part = "granting" /\ Granting /\ BesideLeave
  \/ part = "attending" /\ Attending!Next /\ BesideDay
  \/ part = "tapping" /\ Tapping!Next /\ punchWork'[r2].do \in {"none", "mobile"} /\ BesidePunch
  \/ part = "linking" /\ Linking!Next /\ punchWork'[r2].do # "edit" /\ BesidePunch
  \/ part = "sharing" /\ Sharing!Next /\ punchWork'[r1].do # "edit" /\ BesidePunch
  \/ part = "enrolling" /\ Copying /\ BesideDevice
  \/ part = "uploading" /\ Uploading!Next /\ BesideDevice
  \/ part = "polling" /\ PollTwice /\ BesideDevice
  \/ part = "purging" /\ PurgeBeside /\ BesideDevice
  \/ part = "limiting" /\ Limiting /\ BesidePlan
  \/ part = "upgrading" /\ Upgrading /\ BesidePlan
  \/ part = "onboarding" /\ Onboarding /\ BesidePlan
  \/ part = "signing" /\ Signing /\ BesideSession
  \/ part = "permitting" /\ Permitting /\ BesideSession
  \/ part = "scanning" /\ Scanning /\ BesideNotice
  \/ part = "bundling" /\ Bundling /\ BesideNotice
  \/ part = "requesting" /\ Requesting /\ BesideNotice
  \/ part = "expiring" /\ Expiring /\ BesideNotice

officeVars ==
  <<part, payrollVars, entitlementVars, leaveVars, dayVars, punchVars, deviceVars, planVars,
    sessionVars, noticeVars>>

OfficeSpec == OfficeInit /\ [][OfficeNext]_officeVars

-----------------------------------------------------------------------------
(* The days of a month and the hours of a shift add up (attendance-days.ts) *)
DaysAddUp ==
  part = "attending" => Attending!DaysAddUp

(* A punch is saved once and belongs to the employee whose number it carries
   (PunchIngestService, EmployeesService) *)
PunchesOfOwners ==
  /\ part = "tapping" => Tapping!PunchesOfOwners
  /\ part = "linking" => Linking!PunchesOfOwners
  /\ part = "sharing" => Sharing!PunchesOfOwners

(* No punch of a device is lost, and no template goes round between devices
   (AdmsService, BiometricSyncService) *)
DevicesInStep ==
  /\ part = "enrolling" => Enrolling!DevicesInStep
  /\ part = "uploading" => Uploading!DevicesInStep
  /\ part = "polling" => Polling!DevicesInStep
  /\ part = "purging" => Purging!DevicesInStep
=============================================================================
