------------------------------ MODULE Payroll ------------------------------
(***************************************************************************)
(* The monthly payrolls of one employee.  generateMonthlyPayroll reads the   *)
(* loans, deductions, bonuses and settlements of the month and saves a draft *)
(* in a later transaction; disbursePayroll locks the payroll, brings what    *)
(* was paid ahead of it up to date, counts the installments and commits.     *)
(* Both are two steps here, what they read is kept between them; so is the   *)
(* direct disbursement of a bonus or a settlement.  Every bonus, settlement  *)
(* and installment is one unit of money.                                     *)
(***************************************************************************)
EXTENDS Integers, FiniteSets

CONSTANTS
  Payrolls,      \* identifiers of payrolls
  Months,        \* the months of the model, 1..n
  Loans, Deductions, Bonuses,
  Payouts,       \* leave settlements
  Salary,        \* basic salary and allowances
  Withholdings,  \* what leave, absence and lateness may take off in a month
  Counts         \* the numbers of installments there are

(* Rows of four tables have different identifiers *)
ASSUME PayrollConstants ==
  /\ IsFiniteSet(Payrolls)
  /\ IsFiniteSet(Loans \cup Deductions) /\ Loans \cap Deductions = {}
  /\ IsFiniteSet(Bonuses \cup Payouts) /\ Bonuses \cap Payouts = {}
  /\ Months \subseteq Nat /\ 1 \in Months
  /\ Salary \in Nat /\ Withholdings \subseteq Nat
  /\ Counts \subseteq Nat \ {0}

VARIABLES
  payroll,   \* payrolls with the item of the employee
  debt,      \* loans and deductions
  extra,     \* bonuses and leave settlements
  direct,    \* direct disbursements at work: the row as it was checked, or NoExtra
  thisMonth, \* the current month
  overlapped, \* history: months two of whose payrolls were generated at the same time
  contested, \* history: rows that a payment and something else worked on at the same time
  edited     \* history: bonuses that were edited or removed once approved

payrollVars == <<payroll, debt, extra, direct, thisMonth, overlapped, contested, edited>>

-----------------------------------------------------------------------------
Debts == Loans \cup Deductions
Extras == Bonuses \cup Payouts

LoanStatus == {"pending", "approved", "rejected", "completed"}
DeductionStatus == {"pending", "active", "completed", "cancelled"}
BonusStatus == {"pending", "approved", "rejected", "paid"}

LoanRow ==
  [status : LoanStatus \cup {"none"}, count : Counts \cup {0}, paid : Nat, start : Months]
DeductionRow ==
  [status : DeductionStatus \cup {"none", "removed"}, count : Counts \cup {0}, paid : Nat, start : Months]
BonusRow ==
  [status : BonusStatus \cup {"none", "removed"}, month : Months, isDisbursed : BOOLEAN]
PayoutRow ==
  [status : {"none", "approved"}, month : Months, isDisbursed : BOOLEAN]

(* The item of a payroll: what it pays and what it holds back *)
Item ==
  [extras : SUBSET Extras, prepaid : SUBSET Extras, debts : SUBSET Debts,
   withheld : Withholdings \cup {0}, net : Nat]

(* A payroll, and what its disbursement has read: the extras that were paid ahead *)
(* of it, the debts whose installment it counts and those it takes for finished   *)
PayrollRow ==
  [state : {"none", "computing", "draft", "paying", "paid"}, month : Months, item : Item,
   fresh : SUBSET Extras, counted : SUBSET Debts, completes : SUBSET Debts]

NoItem == [extras |-> {}, prepaid |-> {}, debts |-> {},
           withheld |-> 0, net |-> 0]
NoPayroll == [state |-> "none", month |-> 1, item |-> NoItem,
              fresh |-> {}, counted |-> {}, completes |-> {}]

NoExtra == [status |-> "none", month |-> 1, isDisbursed |-> FALSE]

PayrollInit ==
  /\ payroll = [p \in Payrolls |-> NoPayroll]
  /\ debt = [d \in Debts |-> [status |-> "none", count |-> 0, paid |-> 0, start |-> 1]]
  /\ extra = [x \in Extras |-> NoExtra]
  /\ direct = [x \in Extras |-> NoExtra]
  /\ thisMonth = 1
  /\ overlapped = {} /\ contested = {} /\ edited = {}

-----------------------------------------------------------------------------
(* assertStatusTransition: a listed status, not the present one, reached from it *)
Transition(allowed, current, next) == current \in DOMAIN allowed /\ next \in allowed[current]

DebtsUnchanged == UNCHANGED <<payroll, extra, direct, thisMonth, overlapped, contested, edited>>

(* LoansService.create *)
RequestLoan(d, start, count) ==
  /\ d \in Loans /\ debt[d].status = "none" /\ count >= 2
  /\ debt' = [debt EXCEPT ![d] = [@ EXCEPT !.status = "pending", !.start = start, !.count = count]]
  /\ DebtsUnchanged

(* LoansService.updateStatus *)
LoanDecisions == [pending |-> {"approved", "rejected"}]
DecideLoan(d, status) ==
  /\ d \in Loans
  /\ Transition(LoanDecisions, debt[d].status, status)
  /\ debt' = [debt EXCEPT ![d].status = status]
  /\ DebtsUnchanged

(* DeductionsService.create: the request may name any status *)
CreateDeduction(d, status, start, count) ==
  /\ d \in Deductions /\ debt[d].status = "none"
  /\ debt' = [debt EXCEPT ![d] = [@ EXCEPT !.status = status, !.start = start, !.count = count]]
  /\ DebtsUnchanged

(* DeductionsService.updateStatus *)
DeductionDecisions == [pending |-> {"active", "cancelled"}, active |-> {"cancelled"}]
DecideDeduction(d, status) ==
  /\ d \in Deductions
  /\ Transition(DeductionDecisions, debt[d].status, status)
  /\ debt' = [debt EXCEPT ![d].status = status]
  /\ DebtsUnchanged

(* DeductionsService.update: any field, the status among them *)
EditDeduction(d, status, count) ==
  /\ d \in Deductions /\ debt[d].status \notin {"none", "removed"}
  /\ debt' = [debt EXCEPT ![d] = [@ EXCEPT !.status = status, !.count = count]]
  /\ DebtsUnchanged

(* DeductionsService.remove *)
RemoveDeduction(d) ==
  /\ d \in Deductions /\ debt[d].status \notin {"none", "removed"}
  /\ debt' = [debt EXCEPT ![d].status = "removed"]
  /\ DebtsUnchanged

-----------------------------------------------------------------------------
ExtrasUnchanged == UNCHANGED <<payroll, debt, thisMonth, overlapped>>

(* BonusesService.create: the request may name any status *)
CreateBonus(x, status, month) ==
  /\ x \in Bonuses /\ extra[x].status = "none"
  /\ extra' = [extra EXCEPT ![x] = [@ EXCEPT !.status = status, !.month = month]]
  /\ UNCHANGED <<direct, contested, edited>> /\ ExtrasUnchanged

(* BonusesService.updateStatus: what was disbursed is not rejected *)
DecideBonus(x, status) ==
  /\ x \in Bonuses
  /\ Transition([pending |-> {"approved", "rejected"},
                 approved |-> IF extra[x].isDisbursed THEN {} ELSE {"rejected"}],
                extra[x].status, status)
  /\ extra' = [extra EXCEPT ![x].status = status]
  /\ UNCHANGED <<direct, contested, edited>> /\ ExtrasUnchanged

(* BonusesService.update: any field, whatever was done with the bonus *)
EditBonus(x, status, month) ==
  /\ x \in Bonuses /\ extra[x].status \notin {"none", "removed"}
  /\ extra' = [extra EXCEPT ![x] = [@ EXCEPT !.status = status, !.month = month]]
  /\ edited' = edited \cup {x}
  /\ UNCHANGED <<direct, contested>> /\ ExtrasUnchanged

(* BonusesService.remove *)
RemoveBonus(x) ==
  /\ x \in Bonuses /\ extra[x].status \notin {"none", "removed"}
  /\ extra' = [extra EXCEPT ![x].status = "removed"]
  /\ edited' = edited \cup {x}
  /\ UNCHANGED <<direct, contested>> /\ ExtrasUnchanged

(* The settlement that SettlementsService.confirmSettlement leaves behind *)
ConfirmSettlement(x, month) ==
  /\ x \in Payouts /\ extra[x].status = "none"
  /\ extra' = [extra EXCEPT ![x] = [@ EXCEPT !.status = "approved", !.month = month]]
  /\ UNCHANGED <<direct, contested, edited>> /\ ExtrasUnchanged

(* isPaidViaDisbursedPayroll *)
PaidByPayroll(month) == \E p \in Payrolls : payroll[p].state = "paid" /\ payroll[p].month = month

BeingPaid(month) == \E p \in Payrolls : payroll[p].state = "paying" /\ payroll[p].month = month

(* disburseBonus and disburseSettlement look first ... *)
CheckDirect(x) ==
  /\ direct[x] = NoExtra
  /\ extra[x].status = "approved" /\ ~extra[x].isDisbursed
  /\ ~PaidByPayroll(extra[x].month)
  /\ direct' = [direct EXCEPT ![x] = extra[x]]
  /\ contested' = IF BeingPaid(extra[x].month) THEN contested \cup {x} ELSE contested
  /\ UNCHANGED <<extra, edited>> /\ ExtrasUnchanged

(* ... and save the row as they found it, one that was removed meanwhile too *)
SaveDirect(x) ==
  /\ direct[x] # NoExtra
  /\ extra' = [extra EXCEPT ![x] = [direct[x] EXCEPT !.isDisbursed = TRUE]]
  /\ contested' = IF extra[x] = direct[x] THEN contested ELSE contested \cup {x}
  /\ direct' = [direct EXCEPT ![x] = NoExtra]
  /\ UNCHANGED edited /\ ExtrasUnchanged

-----------------------------------------------------------------------------
PayrollsUnchanged == UNCHANGED <<extra, direct, thisMonth, edited>>

AtLeastZero(n) == IF n < 0 THEN 0 ELSE n

(* Net salary: what is due less what is held back or was paid ahead *)
Net(item) ==
  AtLeastZero(Salary + Cardinality(item.extras)
                - (Cardinality(item.debts) + item.withheld + Cardinality(item.prepaid)))

OfMonth(month) == {x \in Extras : extra[x].status = "approved" /\ extra[x].month = month}
Prepaid(month) == {x \in OfMonth(month) : extra[x].isDisbursed}

Unpaid(d) == debt[d].paid < debt[d].count
Started(d, month) == debt[d].status # "none" /\ debt[d].start <= month

(* What the draft holds back: approved loans, and deductions in any state *)
DebtsOfDraft(month) ==
  {d \in Debts : /\ Started(d, month) /\ Unpaid(d) /\ debt[d].status # "removed"
                 /\ d \in Loans => debt[d].status = "approved"}

(* What the disbursement counts: approved loans and active deductions *)
DebtsToCount(month) ==
  {d \in Debts : /\ Started(d, month) /\ Unpaid(d)
                 /\ debt[d].status = IF d \in Loans THEN "approved" ELSE "active"}

Draft(month, withheld) ==
  LET item == [extras |-> OfMonth(month), prepaid |-> Prepaid(month),
               debts |-> DebtsOfDraft(month), withheld |-> withheld, net |-> 0]
  IN [item EXCEPT !.net = Net(item)]

OfTheMonth(month) ==
  {p \in Payrolls : payroll[p].state \notin {"none", "computing"} /\ payroll[p].month = month}

(* generateMonthlyPayroll up to its transaction *)
Generate(p, month, withheld) ==
  /\ payroll[p].state = "none" /\ month <= thisMonth
  /\ OfTheMonth(month) = {}
  /\ payroll' = [payroll EXCEPT ![p] =
       [@ EXCEPT !.state = "computing", !.month = month, !.item = Draft(month, withheld)]]
  /\ overlapped' = IF \E q \in Payrolls : payroll[q].state = "computing" /\ payroll[q].month = month
                   THEN overlapped \cup {month} ELSE overlapped
  /\ UNCHANGED <<debt, contested>> /\ PayrollsUnchanged

(* its transaction: the draft and its items *)
SaveDraft(p) ==
  /\ payroll[p].state = "computing"
  /\ payroll' = [payroll EXCEPT ![p].state = "draft"]
  /\ UNCHANGED <<debt, overlapped, contested>> /\ PayrollsUnchanged

(* deleteDraft *)
DeleteDraft(p) ==
  /\ payroll[p].state = "draft"
  /\ payroll' = [payroll EXCEPT ![p] = NoPayroll]
  /\ UNCHANGED <<debt, overlapped, contested>> /\ PayrollsUnchanged

(* What is being paid directly in a month, and the debts other payrolls count *)
PaidDirectly(month) == {x \in Extras : direct[x] # NoExtra /\ direct[x].month = month}
BeingCounted == UNION {payroll[p].counted : p \in {p \in Payrolls : payroll[p].state = "paying"}}

(* disbursePayroll under the lock of the payroll: what it reads *)
BeginDisburse(p) ==
  LET month == payroll[p].month
      due == DebtsToCount(month)
  IN /\ payroll[p].state = "draft"
     /\ payroll' = [payroll EXCEPT ![p] =
          [@ EXCEPT !.state = "paying", !.fresh = Prepaid(month), !.counted = due,
                    !.completes = {d \in due : debt[d].paid + 1 >= debt[d].count}]]
     /\ contested' = contested \cup PaidDirectly(month) \cup (due \cap BeingCounted)
     /\ UNCHANGED <<debt, overlapped>> /\ PayrollsUnchanged

(* slip: what was paid since the draft was made is not brought up to date (NotPaidTwice) *)
ResyncNothing(item, fresh) == item

(* What was disbursed since the draft goes off the net, what no longer was *)
(* comes back                                                              *)
Resync(item, fresh) ==
  [item EXCEPT !.prepaid = fresh,
     !.net = AtLeastZero(@ - (Cardinality(fresh) - Cardinality(item.prepaid)))]

(* what it writes and its commit; a row that is gone takes nothing *)
CommitDisburse(p) ==
  LET row == payroll[p]
  IN /\ row.state = "paying"
     /\ payroll' = [payroll EXCEPT ![p] =
          [row EXCEPT !.state = "paid", !.item = Resync(@, row.fresh)]]
     /\ debt' = [d \in Debts |->
          IF d \notin row.counted \/ debt[d].status = "removed" THEN debt[d]
          ELSE [debt[d] EXCEPT !.paid = @ + 1,
                  !.status = IF d \in row.completes THEN "completed" ELSE @]]
     /\ UNCHANGED <<overlapped, contested>> /\ PayrollsUnchanged

(* its rollback *)
RollbackDisburse(p) ==
  /\ payroll[p].state = "paying"
  /\ payroll' = [payroll EXCEPT ![p] =
       [@ EXCEPT !.state = "draft", !.fresh = {}, !.counted = {}, !.completes = {}]]
  /\ UNCHANGED <<debt, overlapped, contested>> /\ PayrollsUnchanged

NextMonth ==
  /\ thisMonth + 1 \in Months
  /\ thisMonth' = thisMonth + 1
  /\ UNCHANGED <<payroll, debt, extra, direct, overlapped, contested, edited>>

-----------------------------------------------------------------------------
DebtStep(d) ==
  \/ \E start \in Months, count \in Counts : RequestLoan(d, start, count)
  \/ \E status \in LoanStatus : DecideLoan(d, status)
  \/ \E status \in DeductionStatus, start \in Months, count \in Counts :
       CreateDeduction(d, status, start, count)
  \/ \E status \in DeductionStatus : DecideDeduction(d, status)
  \/ \E status \in DeductionStatus, count \in Counts : EditDeduction(d, status, count)
  \/ RemoveDeduction(d)

ExtraStep(x) ==
  \/ \E status \in BonusStatus, month \in Months : CreateBonus(x, status, month)
  \/ \E status \in BonusStatus : DecideBonus(x, status)
  \/ \E status \in BonusStatus, month \in Months : EditBonus(x, status, month)
  \/ RemoveBonus(x)
  \/ \E month \in Months : ConfirmSettlement(x, month)
  \/ CheckDirect(x)
  \/ SaveDirect(x)

PayrollStep(p) ==
  \/ \E month \in Months, withheld \in Withholdings : Generate(p, month, withheld)
  \/ SaveDraft(p)
  \/ DeleteDraft(p)
  \/ BeginDisburse(p)
  \/ CommitDisburse(p)
  \/ RollbackDisburse(p)

PayrollNext ==
  \/ \E d \in Debts : DebtStep(d)
  \/ \E x \in Extras : ExtraStep(x)
  \/ \E p \in Payrolls : PayrollStep(p)
  \/ NextMonth

PayrollSpec == PayrollInit /\ [][PayrollNext]_payrollVars

-----------------------------------------------------------------------------
(* The rows of the tables: PayrollService writes no other *)
PayrollRows ==
  /\ payroll \in [Payrolls -> PayrollRow]
  /\ \A d \in Loans : debt[d] \in LoanRow
  /\ \A d \in Deductions : debt[d] \in DeductionRow
  /\ \A x \in Bonuses : extra[x] \in BonusRow
  /\ \A x \in Payouts : extra[x] \in PayoutRow

Paid == {p \in Payrolls : payroll[p].state = "paid"}

(* What the employee got for an extra: from the cash desk, and by the payrolls *)
(* that had it among their dues and not among what was paid ahead              *)
Received(x) ==
  (IF extra[x].isDisbursed THEN 1 ELSE 0)
    + Cardinality({p \in Paid : x \in payroll[p].item.extras})
    - Cardinality({p \in Paid : x \in payroll[p].item.prepaid})

(* A bonus or a settlement is paid once at most, directly or by a payroll,    *)
(* whatever the order of its disbursement, the draft and the payment: as long *)
(* as its row was not edited, no two drafts of its month were made at once,   *)
(* and its direct payment was apart from the payroll's and from a decision    *)
NotPaidTwice ==
  \A x \in Extras \ (edited \cup contested) : extra[x].month \notin overlapped => Received(x) <= 1

(* The installments of a loan end with the last one, which completes it,      *)
(* unless two payrolls counted one at the same time                           *)
InstallmentsEnd ==
  \A d \in Loans \ contested :
    /\ debt[d].paid <= debt[d].count
    /\ debt[d].status = "completed" <=> debt[d].status # "none" /\ debt[d].paid = debt[d].count

(* The payslip of a paid payroll adds up: what was brought up to date since *)
(* the draft keeps the net what the lines of the slip make, unless a bonus  *)
(* that was paid ahead was edited or removed                                *)
PayslipAddsUp == \A p \in Paid : edited = {} => payroll[p].item.net = Net(payroll[p].item)

(* disbursePayroll counts the installments that the draft held back: "the   *)
(* active ones only, the same as were deducted by the draft" (comment of    *)
(* payroll.service.ts:650)                                                  *)
CountedAsDeducted == \A p \in Paid : payroll[p].counted = payroll[p].item.debts

(* Paid once, taken back in full and shown on the payslip *)
PayrollsAddUp == PayrollRows /\ NotPaidTwice /\ InstallmentsEnd /\ PayslipAddsUp
=============================================================================
