------------------------------- MODULE Leaves -------------------------------
(***************************************************************************)
(* The leaves of one employee: requests, the yearly balances, the carry-over *)
(* of each anniversary and the settlements that pay leave out.  A balance is *)
(* locked by a settlement only; the carry-over and setBalance read it,        *)
(* compute, and write it back as they read it, later.  Time is counted in    *)
(* units of which a year has YearLength; an allowance is a multiple of        *)
(* YearLength, so that leave is earned in whole days.                        *)
(***************************************************************************)
EXTENDS UnitSums

CONSTANTS
  LeaveRequests,    \* leave requests
  LeaveTypes,  \* annual, unpaid and other ones
  LeaveDesks,       \* requests being served
  YearLength,
  Hired,       \* startDate of the contract
  LastLeaveDay,     \* bound: the last day of the model
  Spans,       \* the first and last days that are asked for
  Dates,       \* the dates of settlements
  Allowances,  \* the yearly allowances there are
  Contracted,  \* annualLeaveDays of the contract
  Credit,      \* creditLimitFixedDays
  MaxCarry,    \* maxCarryOverDays
  MaxBackfill, \* maxBackfillYears
  Settlements  \* identifiers of settlements

LeaveDays == 0..LastLeaveDay
YearOfDay(d) == d \div YearLength
YearsOf == 0..YearOfDay(LastLeaveDay)
Anniversary(y) == Hired + YearLength * (y - YearOfDay(Hired))

(* What a request may be about to do beside asking for a leave of some type *)
Works == {"none", "approved", "rejected", "setBalance", "carry", "FULL", "PARTIAL"}

ASSUME LeaveConstants ==
  /\ IsFiniteSet(LeaveRequests) /\ IsFiniteSet(Settlements)
  /\ LastLeaveDay \in Nat /\ YearLength \in Nat \ {0} /\ Hired \in LeaveDays
  /\ Spans \subseteq LeaveDays \X LeaveDays /\ Dates \subseteq LeaveDays
  /\ Allowances \subseteq Nat /\ Contracted \in Nat
  /\ Credit \in Nat /\ MaxCarry \in Nat /\ MaxBackfill \in Nat
  /\ "annual" \in LeaveTypes /\ LeaveTypes \cap Works = {}

VARIABLES
  leaveDay,
  leave,      \* leave_requests
  balance,    \* leave_balances by year
  carried,    \* CARRY_OVER rows of leave_balance_history, by cycle
  settlement, \* settlements, with the day from which their leave was earned
  leaveWork,  \* what each request has read and is about to write
  staleYears, \* history: years whose balance was written from a stale reading
  together    \* history: what was requested, decided or carried over at the same time

leaveVars == <<leaveDay, leave, balance, carried, settlement, leaveWork, staleYears, together>>

-----------------------------------------------------------------------------
LeaveRow ==
  [status : {"none", "pending", "approved", "rejected"}, type : LeaveTypes, from : LeaveDays, to : LeaveDays]

BalanceRow ==
  [exists : BOOLEAN, allowance : Int, consumed : Int, start : LeaveDays, carriedOver : Int]

SettlementRow == [type : {"none", "FULL", "PARTIAL"}, date : LeaveDays, days : Int, from : LeaveDays]

NoBalance == [exists |-> FALSE, allowance |-> 0, consumed |-> 0, start |-> Hired, carriedOver |-> 0]
NoWork == [do |-> "none", on |-> 0, row |-> NoBalance, n |-> 0]

LeavesInit ==
  /\ leaveDay = Hired
  /\ leave = [l \in LeaveRequests |-> [status |-> "none", type |-> "annual", from |-> 0, to |-> 0]]
  /\ balance = [y \in YearsOf |-> NoBalance]
  /\ carried = [y \in YearsOf |-> 0]
  /\ settlement = [s \in Settlements |-> [type |-> "none", date |-> 0, days |-> 0, from |-> 0]]
  /\ leaveWork = [r \in LeaveDesks |-> NoWork]
  /\ staleYears = {} /\ together = {}

-----------------------------------------------------------------------------
AtLeast(n, m) == IF n < m THEN m ELSE n
AtMost(n, m) == IF n > m THEN m ELSE n

(* calculateDurationDays, its ends counted or not *)
Duration(from, to) == AtLeast(to - from, 0)
Inclusive(from, to) == AtLeast(to - from + 1, 0)

(* clipDaysToPeriod *)
Clipped(l, from, to) == Inclusive(AtLeast(leave[l].from, from), AtMost(leave[l].to, to))

Approved(type) == {l \in LeaveRequests : leave[l].status = "approved" /\ leave[l].type = type}

(* getUnpaidDaysInPeriod and getConsumedAnnualDaysInPeriod *)
UnpaidDays(from, to) == Total([l \in Approved("unpaid") |-> Clipped(l, from, to)])
ConsumedAnnual(from) ==
  Total([l \in {l \in Approved("annual") : leave[l].from >= from} |->
           Inclusive(leave[l].from, leave[l].to)])

(* calculateAccrual: what is carried over and earned less what was taken *)
Earned(row, asOf) ==
  (row.allowance \div YearLength)
    * AtLeast(Duration(row.start, asOf) - UnpaidDays(row.start, asOf), 0)
Available(row, asOf) ==
  AtLeast(row.carriedOver + Earned(row, asOf) - ConsumedAnnual(row.start) - row.consumed, 0)

(* A balance that is created where there is none *)
NewBalance(allowance) == [NoBalance EXCEPT !.exists = TRUE, !.allowance = allowance]
BalanceOf(y) == IF balance[y].exists THEN balance[y] ELSE NewBalance(Contracted)

-----------------------------------------------------------------------------
AtRest(r) == leaveWork[r] = NoWork
Hold(r, do, on, row, n) == leaveWork' = [leaveWork EXCEPT ![r] = [do |-> do, on |-> on, row |-> row, n |-> n]]
LetGo(r) == leaveWork' = [leaveWork EXCEPT ![r] = NoWork]

Overlaps(l, from, to) == leave[l].from <= to /\ leave[l].to >= from
Standing == {l \in LeaveRequests : leave[l].status \in {"approved", "pending"}}

Covered(type, from, to) ==
  type = "annual" => Inclusive(from, to) <= Available(BalanceOf(YearOfDay(from)), from) + Credit

Askable(from, to) == from <= to /\ ~\E l \in Standing : Overlaps(l, from, to)

MadeBalance(type, y) ==
  IF type = "annual" THEN [balance EXCEPT ![y] = BalanceOf(y)] ELSE balance

(* LeavesService.create: the dates, those of the other requests, the balance *)
(* of the year of an annual leave (made here if there is none) with its credit *)
CheckRequest(r, type, from, to) ==
  /\ AtRest(r) /\ Askable(from, to) /\ Covered(type, from, to)
  /\ balance' = MadeBalance(type, YearOfDay(from))
  /\ together' = IF \E q \in LeaveDesks : leaveWork[q].do \in LeaveTypes
                 THEN together \cup {"requests"} ELSE together
  /\ Hold(r, type, from, NoBalance, to)
  /\ UNCHANGED <<leaveDay, leave, carried, settlement, staleYears>>

(* one that the balance does not cover leaves the row it made for the year *)
DenyRequest(type, from, to) ==
  /\ Askable(from, to) /\ ~Covered(type, from, to)
  /\ balance' = MadeBalance(type, YearOfDay(from))
  /\ UNCHANGED <<leaveDay, leave, carried, settlement, leaveWork, staleYears, together>>

(* and the row saved *)
SaveRequest(r, l) ==
  LET from == leaveWork[r].on   to == leaveWork[r].n
  IN /\ leaveWork[r].do \in LeaveTypes
     /\ leave[l].status = "none"
     /\ leave' = [leave EXCEPT ![l] =
          [status |-> "pending", type |-> leaveWork[r].do, from |-> from, to |-> to]]
     /\ LetGo(r)
     /\ UNCHANGED <<leaveDay, balance, carried, settlement, staleYears, together>>

LeaveDecisions == [pending |-> {"approved", "rejected"}, approved |-> {"rejected"}]

(* updateStatus with deductBalance: an annual leave needs the balance of its *)
(* year; what it takes is computed from the approved leaves from then on     *)
CheckDecision(r, l, status) ==
  /\ AtRest(r)
  /\ leave[l].status \in DOMAIN LeaveDecisions /\ status \in LeaveDecisions[leave[l].status]
  /\ status = "approved" /\ leave[l].type = "annual" => balance[YearOfDay(leave[l].from)].exists
  /\ together' = IF \E q \in LeaveDesks : leaveWork[q].do \in {"approved", "rejected"} /\ leaveWork[q].on = l
                 THEN together \cup {"decisions"} ELSE together
  /\ Hold(r, status, l, NoBalance, 0)
  /\ UNCHANGED <<leaveDay, leave, balance, carried, settlement, staleYears>>

(* and the status saved *)
SaveDecision(r) ==
  /\ leaveWork[r].do \in {"approved", "rejected"}
  /\ leave' = [leave EXCEPT ![leaveWork[r].on].status = leaveWork[r].do]
  /\ LetGo(r)
  /\ UNCHANGED <<leaveDay, balance, carried, settlement, staleYears, together>>

-----------------------------------------------------------------------------
(* A row is written back as it was read: what changed meanwhile is lost *)
WriteBack(y, row, read) ==
  /\ balance' = [balance EXCEPT ![y] = row]
  /\ staleYears' = IF balance[y] = read THEN staleYears ELSE staleYears \cup {y}

(* setBalance: findOne, and save of the row *)
BeginSetBalance(r, y, allowance) ==
  /\ AtRest(r)
  /\ Hold(r, "setBalance", y, balance[y], allowance)
  /\ UNCHANGED <<leaveDay, leave, balance, carried, settlement, staleYears, together>>

SetBalance(r) ==
  LET y == leaveWork[r].on   read == leaveWork[r].row
  IN /\ leaveWork[r].do = "setBalance"
     /\ read.exists \/ ~balance[y].exists      \* a second row of the year is refused
     /\ WriteBack(y, IF read.exists THEN [read EXCEPT !.allowance = leaveWork[r].n]
                     ELSE NewBalance(leaveWork[r].n), read)
     /\ LetGo(r)
     /\ UNCHANGED <<leaveDay, leave, carried, settlement, together>>

(* The insert of a row that another request made meanwhile fails: its request ends *)
Refused(r) ==
  /\ leaveWork[r].do \in {"setBalance", "carry"}
  /\ ~leaveWork[r].row.exists /\ balance[leaveWork[r].on].exists
  /\ LetGo(r)
  /\ UNCHANGED <<leaveDay, leave, balance, carried, settlement, staleYears, together>>

(* processContractCarryOver: a cycle whose anniversary has come, within the *)
(* years looked back to, that no row of the history names; the cron and the *)
(* manual recalculation alike                                               *)
DueCycles ==
  {y \in YearsOf :
     /\ y > YearOfDay(Hired) /\ y >= YearOfDay(leaveDay) - MaxBackfill /\ y <= YearOfDay(leaveDay)
     /\ Anniversary(y) <= leaveDay /\ carried[y] = 0}

(* runCarryOverCycle reads the balances of both years: what it carries is *)
(* what the year before left at the anniversary, up to the limit          *)
CarryOf(y) ==
  LET before == IF balance[y - 1].exists THEN balance[y - 1] ELSE NewBalance(0)
  IN AtMost(Available([before EXCEPT !.allowance = Contracted], Anniversary(y)), MaxCarry)

(* slip: the new cycle starts with a new row (ConsumedIsSettled) *)
CarriedOntoNew(read) == NewBalance(Contracted)

CarriedOnto(read) == IF read.exists THEN read ELSE NewBalance(Contracted)

BeginCarryOver(r, y) ==
  /\ AtRest(r) /\ y \in DueCycles
  /\ \A q \in YearsOf : q < y => q \notin DueCycles   \* the oldest first
  /\ together' = IF \E q \in LeaveDesks : leaveWork[q].do = "carry" /\ leaveWork[q].on = y
                 THEN together \cup {"cycles"} ELSE together
  /\ Hold(r, "carry", y, balance[y], CarryOf(y))
  /\ UNCHANGED <<leaveDay, leave, balance, carried, settlement, staleYears>>

(* and writes the new balance with its row of the history *)
CarryOver(r) ==
  LET y == leaveWork[r].on   read == leaveWork[r].row
      row == CarriedOnto(read)
  IN /\ leaveWork[r].do = "carry"
     /\ read.exists \/ ~balance[y].exists
     /\ balance' = [balance EXCEPT ![y] =
          [row EXCEPT !.carriedOver = leaveWork[r].n, !.start = Anniversary(y)]]
     /\ staleYears' = IF balance[y] = read THEN staleYears ELSE staleYears \cup {y}
     /\ carried' = [carried EXCEPT ![y] = @ + 1]
     /\ LetGo(r)
     /\ UNCHANGED <<leaveDay, leave, settlement, together>>

(* confirmSettlement before its transaction: no settlement of the same date *)
CheckSettlement(r, type, date, days) ==
  /\ AtRest(r)
  /\ ~\E s \in Settlements : settlement[s].type # "none" /\ settlement[s].date = date
  /\ Hold(r, type, date, NoBalance, days)
  /\ UNCHANGED <<leaveDay, leave, balance, carried, settlement, staleYears, together>>

(* the transaction, under the lock of the balance: all that is available, or *)
(* as much of it as was asked for, is consumed; a full settlement starts the  *)
(* accrual again                                                              *)
Settle(r, s) ==
  LET type == leaveWork[r].do   date == leaveWork[r].on   y == YearOfDay(date)
      row == BalanceOf(y)
      available == Available(row, date)
      days == IF type = "FULL" THEN available ELSE leaveWork[r].n
      settled == [row EXCEPT !.consumed = @ + days]
  IN /\ type \in {"FULL", "PARTIAL"} /\ settlement[s].type = "none"
     /\ type = "PARTIAL" => days > 0 /\ days <= available
     /\ balance' = [balance EXCEPT ![y] =
          IF type = "FULL" THEN [settled EXCEPT !.start = date, !.carriedOver = 0] ELSE settled]
     /\ settlement' = [settlement EXCEPT ![s] =
          [type |-> type, date |-> date, days |-> days, from |-> row.start]]
     /\ LetGo(r)
     /\ UNCHANGED <<leaveDay, leave, carried, staleYears, together>>

Rejected(r) ==
  /\ leaveWork[r].do = "PARTIAL"
  /\ leaveWork[r].n > Available(BalanceOf(YearOfDay(leaveWork[r].on)), leaveWork[r].on)
  /\ LetGo(r)
  /\ UNCHANGED <<leaveDay, leave, balance, carried, settlement, staleYears, together>>

Tomorrow ==
  /\ leaveDay < LastLeaveDay
  /\ leaveDay' = leaveDay + 1
  /\ UNCHANGED <<leave, balance, carried, settlement, leaveWork, staleYears, together>>

LeavesNext ==
  \/ \E r \in LeaveDesks :
       \/ \E type \in LeaveTypes, days \in Spans : CheckRequest(r, type, days[1], days[2])
       \/ \E l \in LeaveRequests : SaveRequest(r, l)
       \/ \E l \in LeaveRequests, status \in {"approved", "rejected"} : CheckDecision(r, l, status)
       \/ SaveDecision(r)
       \/ \E y \in YearsOf, n \in Allowances : BeginSetBalance(r, y, n)
       \/ SetBalance(r)
       \/ \E y \in YearsOf : BeginCarryOver(r, y)
       \/ CarryOver(r)
       \/ \E date \in Dates, type \in {"FULL", "PARTIAL"}, n \in 1..2 : CheckSettlement(r, type, date, n)
       \/ \E s \in Settlements : Settle(r, s)
       \/ Refused(r) \/ Rejected(r)
  \/ \E type \in LeaveTypes, days \in Spans : DenyRequest(type, days[1], days[2])
  \/ Tomorrow

LeavesSpec == LeavesInit /\ [][LeavesNext]_leaveVars

-----------------------------------------------------------------------------
(* The rows of the tables: LeavesService and SettlementsService write no other *)
LeaveRows ==
  /\ leave \in [LeaveRequests -> LeaveRow]
  /\ balance \in [YearsOf -> BalanceRow]
  /\ settlement \in [Settlements -> SettlementRow]

(* No day is asked for twice: standing requests are apart, unless two of them *)
(* were made, or one was decided twice, at the same time                      *)
LeavesApart ==
  together \cap {"requests", "decisions"} = {} =>
    \A l, other \in Standing : l # other => ~Overlaps(l, leave[other].from, leave[other].to)

(* What a balance says was consumed beside leaves is what the settlements of *)
(* its year paid, unless the row was written back from an old reading        *)
ConsumedIsSettled ==
  \A y \in YearsOf \ staleYears :
    balance[y].consumed =
      Total([s \in {s \in Settlements : settlement[s].type # "none" /\ YearOfDay(settlement[s].date) = y} |->
               settlement[s].days])

(* A cycle is carried over once, whatever the cron and the manual runs do one *)
(* after the other, never above the limit, and starts at its anniversary at   *)
(* the earliest                                                               *)
CarriedOnce ==
  \A y \in YearsOf \ staleYears :
    /\ "cycles" \notin together => carried[y] <= 1
    /\ balance[y].carriedOver <= MaxCarry
    /\ carried[y] > 0 => balance[y].start >= Anniversary(y) \/ \E s \in Settlements : settlement[s].type = "FULL"

(* Leaves, balances and cycles agree *)
LeavesAddUp == LeaveRows /\ LeavesApart /\ ConsumedIsSettled /\ CarriedOnce
=============================================================================
