--------------------------- MODULE AttendanceDays ---------------------------
(***************************************************************************)
(* The days of one employee as attendance-days.ts judges them, from his       *)
(* punches, the calendar of the company and his leaves: what the daily        *)
(* summary, the monthly report and the payroll read.  Time is counted in      *)
(* hours from the midnight, in the zone of the company, that opens the month; *)
(* the day on which the clock changes is shorter or longer than DayHours.     *)
(***************************************************************************)
EXTENDS Integers, FiniteSets, Folds

CONSTANTS
  DayHours,    \* hours of a day whose clock does not change (DAY_MINUTES)
  LastDay,     \* the days of the month are 0..LastDay
  Changes,     \* what the clock adds to a day, -1, 0 or 1, by day
  Shift,       \* start, end and grace in hours, offDays; or NoShift
  NoShift,
  LeadHours,   \* SHIFT_DAY_LEAD_MINUTES
  WeekDays,    \* days of a week
  Declared,    \* the day the contract starts
  Holidays,    \* identifiers of holidays
  MaxHoliday,  \* MAX_HOLIDAY_DAYS
  MaxPunches   \* bound on the punches of the employee

VARIABLES
  punches,   \* attendance_logs of the employee
  holidays,  \* public_holidays
  leaves,    \* days of approved leave requests
  policy     \* attendance_settings

dayVars == <<punches, holidays, leaves, policy>>

-----------------------------------------------------------------------------
Days == 0..LastDay
DayLength(day) == DayHours + Changes[day]
Sum(f(_), S) == MapThenFoldSet(+, 0, f, LAMBDA T : CHOOSE t \in T : TRUE, S)

(* dayOffsetInZone: an instant so many hours after the midnight of a day *)
Midnight == [day \in 0..LastDay + 1 |-> Sum(DayLength, 0..day - 1)]
DayOffset(day, hours) == Midnight[day] + hours
Times == 0..DayOffset(LastDay + 1, 0) - 1

PunchLog == [time : Times, leave : BOOLEAN]
HolidayRow == [from : Days, to : Days]
NoHoliday == [from |-> LastDay, to |-> 0]

(* attendance_settings, and what is read where there are none *)
Policy == [weeklyOffDays : {{}, {0}, {1}}, overtimeMin : 0..1]
Defaults == [weeklyOffDays |-> {1}, overtimeMin |-> 1]

Init ==
  /\ punches = {}
  /\ holidays = [h \in Holidays |-> NoHoliday]
  /\ leaves = {}
  /\ policy = Defaults

-----------------------------------------------------------------------------
(* holidayRange *)
HolidayRange(from, to) == from <= to /\ to - from + 1 <= MaxHoliday

CreateHoliday(h, from, to) ==
  /\ holidays[h] = NoHoliday /\ HolidayRange(from, to)
  /\ holidays' = [holidays EXCEPT ![h] = [from |-> from, to |-> to]]
  /\ UNCHANGED <<punches, leaves, policy>>

(* updateHoliday: a new start alone moves a holiday of one day *)
UpdateHoliday(h, from, to) ==
  LET row == holidays[h]
      end == IF to # {} THEN CHOOSE t \in to : TRUE
             ELSE IF row.from = row.to THEN from ELSE row.to
  IN /\ row # NoHoliday /\ HolidayRange(from, end)
     /\ holidays' = [holidays EXCEPT ![h] = [from |-> from, to |-> end]]
     /\ UNCHANGED <<punches, leaves, policy>>

RemoveHoliday(h) ==
  /\ holidays[h] # NoHoliday
  /\ holidays' = [holidays EXCEPT ![h] = NoHoliday]
  /\ UNCHANGED <<punches, leaves, policy>>

UpdatePolicy(settings) ==
  /\ policy' = settings
  /\ UNCHANGED <<punches, holidays, leaves>>

(* LeaveRequest approved for a day of the month *)
ApproveLeave(day) ==
  /\ leaves' = leaves \cup {day}
  /\ UNCHANGED <<punches, holidays, policy>>

(* A punch that arrives, or is entered by hand, also as a leave *)
Punch(log) ==
  /\ Cardinality(punches) < MaxPunches
  /\ punches' = punches \cup {log}
  /\ UNCHANGED <<holidays, leaves, policy>>

(* updateLogTime *)
MovePunch(log, to) ==
  /\ log \in punches
  /\ punches' = (punches \ {log}) \cup {to}
  /\ UNCHANGED <<holidays, leaves, policy>>

Next ==
  \/ \E h \in Holidays, from \in Days :
       \/ \E to \in Days : CreateHoliday(h, from, to)
       \/ \E to \in {{}} \cup {{d} : d \in Days} : UpdateHoliday(h, from, to)
       \/ RemoveHoliday(h)
  \/ \E settings \in Policy : UpdatePolicy(settings)
  \/ \E day \in Days : ApproveLeave(day)
  \/ \E log \in PunchLog : Punch(log)
  \/ \E log \in punches, to \in PunchLog : MovePunch(log, to)

Spec == Init /\ [][Next]_dayVars

-----------------------------------------------------------------------------
(* getShiftWindow *)
Overnight == Shift.end <= Shift.start
Duration == IF Overnight THEN DayHours - Shift.start + Shift.end ELSE Shift.end - Shift.start

(* shiftDayRange: from some hours before the shift on, for a day *)
Lead == IF Shift = NoShift THEN 0 ELSE Shift.start - LeadHours
InShiftDay(time, day) ==
  /\ DayOffset(day, Lead) <= time
  /\ time < DayOffset(day, Lead + DayHours)

(* planDay *)
OffDays == IF Shift = NoShift THEN policy.weeklyOffDays ELSE Shift.offDays
Kind(day) ==
  IF \E h \in Holidays : holidays[h].from <= day /\ day <= holidays[h].to THEN "holiday"
  ELSE IF day % WeekDays \in OffDays THEN "off_day" ELSE "work"

(* employmentStarts: the contract, or the first punch if it was before *)
PunchDay(time) == CHOOSE d \in Days : DayOffset(d, 0) <= time /\ time < DayOffset(d + 1, 0)
StartDay ==
  LET first == {PunchDay(log.time) : log \in punches}
  IN CHOOSE d \in first \cup {Declared} : \A e \in first \cup {Declared} : d <= e

-----------------------------------------------------------------------------
Least(S) == CHOOSE t \in S : \A u \in S : t <= u
Last(S) == CHOOSE t \in S : \A u \in S : u <= t
Beyond(n, limit) == IF n > limit THEN n ELSE 0

(* againstShift *)
Late(day, in) == Beyond(in - DayOffset(day, Shift.start), Shift.grace)

(* slip: the end of an overnight shift is looked for on its first day (ShiftAccounted) *)
EarlyLeaveFirstDay(day, out) == Beyond(DayOffset(day, Shift.end) - out, Shift.grace)

EarlyLeave(day, out) ==
  Beyond(DayOffset(day, Shift.end + (IF Overnight THEN DayHours ELSE 0)) - out, Shift.grace)

Counted(hours) == IF hours >= policy.overtimeMin THEN hours ELSE 0

(* evaluateFor and evaluateDay: the status of a day and its hours *)
Nothing == [status |-> "absent", in |-> {}, out |-> {}, worked |-> 0, late |-> 0, early |-> 0, over |-> 0]
Evaluate(day) ==
  LET logs == {log \in punches : InShiftDay(log.time, day)}
      times == {log.time : log \in {l \in logs : ~l.leave}}
      present == [Nothing EXCEPT !.in = {Least(times)}, !.out = {Last(times)},
                                 !.worked = Last(times) - Least(times)]
  IN CASE logs = {} /\ day < StartDay -> [Nothing EXCEPT !.status = "not_employed"]
       [] \E log \in logs : log.leave -> [Nothing EXCEPT !.status = "on_leave"]
       [] logs = {} /\ day >= StartDay ->
            [Nothing EXCEPT !.status =
               IF day \in leaves THEN "on_leave"
               ELSE IF Kind(day) = "work" THEN "absent" ELSE Kind(day)]
       [] logs # {} /\ logs = {l \in logs : ~l.leave} ->
            CASE Cardinality(times) < 2 -> [present EXCEPT !.status = "incomplete"]
              [] Cardinality(times) > 1 /\ Kind(day) # "work" ->
                   [present EXCEPT !.status = "present", !.over = Counted(present.worked)]
              [] Cardinality(times) > 1 /\ Kind(day) = "work" /\ Shift = NoShift ->
                   [present EXCEPT !.status = "unclassified"]
              [] OTHER ->
                   [present EXCEPT !.status = "present",
                      !.late = Late(day, Least(times)), !.early = EarlyLeave(day, Last(times)),
                      !.over = Counted(Beyond(present.worked - Duration, 0))]

(* annotateDayHours: the part a punch has in its day *)
DayRole(time, day) ==
  LET times == {log.time : log \in {l \in punches : ~l.leave /\ InShiftDay(l.time, day)}}
  IN IF time = Least(times) THEN "check_in"
     ELSE IF time = Last(times) THEN "check_out" ELSE "during_day"

(* attendanceDays *)
AttendanceOf == [d \in Days |-> Evaluate(d)]

(* monthlyReportFor *)
Report(days) ==
  LET CountOf(statuses) == Cardinality({d \in Days : days[d].status \in statuses})
  IN [workingDays |-> Cardinality(Days) - CountOf({"off_day", "holiday", "not_employed"}),
      presentDays |-> Cardinality({d \in Days : days[d].in # {}}),
      leaveDays |-> CountOf({"on_leave"}),
      absentDays |-> CountOf({"absent"})]

-----------------------------------------------------------------------------
(* The rows of the tables: AttendanceService and AttendanceSettingsService write no other *)
TypeOK ==
  /\ punches \subseteq PunchLog /\ leaves \subseteq Days
  /\ holidays \in [Holidays -> HolidayRow] /\ policy \in Policy

(* The report of a month adds up: a working day is one of presence, of leave *)
(* or of absence, whatever punches, holidays and leaves fall together, and    *)
(* who was there without a break between two punches has one check-in a day   *)
ReportAddsUp ==
  LET days == AttendanceOf
      report == Report(days)
  IN /\ report.workingDays = report.presentDays + report.leaveDays + report.absentDays
     /\ \A d \in Days : days[d].in # {} =>
          /\ DayRole(Least(days[d].in), d) = "check_in"
          /\ days[d].status # "incomplete" => DayRole(Least(days[d].out), d) = "check_out"

(* What was worked, what is missing and what goes beyond make the shift: on a *)
(* day with a check-in and a check-out no hour of an overnight shift is lost   *)
(* or counted twice, up to the grace at both ends                             *)
ShiftAccounted ==
  \A d \in Days :
    LET day == Evaluate(d)
    IN Shift # NoShift /\ Kind(d) = "work" /\ day.status = "present" =>
         /\ day.worked + day.late + day.early >= Duration - 2 * Shift.grace
         /\ day.worked - day.over <= Duration + policy.overtimeMin
         /\ day.early <= Duration + LeadHours

(* The days of a month and the hours of a shift add up *)
DaysAddUp == TypeOK /\ ReportAddsUp /\ ShiftAccounted
=============================================================================
