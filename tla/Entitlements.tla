---------------------------- MODULE Entitlements ----------------------------
(***************************************************************************)
(* The salary of one employee and what is granted on it: advances, and the   *)
(* award at the end of service.  The services read a row, check it and save  *)
(* it in statements of their own, and TypeORM writes back every column in    *)
(* which the row differs from what was read: a request keeps the row it read *)
(* until it saves.                                                           *)
(***************************************************************************)
EXTENDS UnitSums

CONSTANTS
  SalaryRows,  \* identifiers of salaries, a table without a unique key
  Advances,
  AdvanceDesks,       \* requests being served
  Totals,      \* the total salaries there are
  Amounts      \* the amounts that are asked for

ASSUME EntitlementConstants ==
  IsFiniteSet(Advances) /\ Amounts \subseteq Nat /\ Totals \subseteq Nat

VARIABLES
  salaries,  \* the total of each salary row, 0 for none
  advance,   \* advances
  advanceDesk,      \* what each request is about to save
  handedOver,    \* history: advances whose money was handed over
  peak,      \* history: the highest total salary
  crossed,   \* history: advances that two requests worked on at a time
  beside     \* history: an advance was asked for while another one was

entitlementVars == <<salaries, advance, advanceDesk, handedOver, peak, crossed, beside>>

-----------------------------------------------------------------------------
AdvanceStatus == {"pending", "approved", "rejected", "paid"}

AdvanceRow ==
  [status : AdvanceStatus \cup {"none"}, amount : Amounts \cup {0}, isDisbursed : BOOLEAN]

NoAdvance == [status |-> "none", amount |-> 0, isDisbursed |-> FALSE]
NoDesk == [a |-> "none", row |-> NoAdvance]

EntitlementInit ==
  /\ salaries = [s \in SalaryRows |-> 0]
  /\ advance = [a \in Advances |-> NoAdvance]
  /\ advanceDesk = [r \in AdvanceDesks |-> NoDesk]
  /\ handedOver = {} /\ peak = 0 /\ crossed = {} /\ beside = FALSE

-----------------------------------------------------------------------------
(* SalariesService.create and update: calculateTotal of the allowances *)
SaveSalary(s, total) ==
  /\ salaries' = [salaries EXCEPT ![s] = total]
  /\ peak' = IF total > peak THEN total ELSE peak
  /\ UNCHANGED <<advance, advanceDesk, handedOver, crossed, beside>>

Unchecked == UNCHANGED <<salaries, advance, handedOver, peak>>

AdvancesAtWork == {advanceDesk[r].a : r \in {r \in AdvanceDesks : advanceDesk[r] # NoDesk}}

(* A request has read the row of an advance, checked it and is about to save row *)
TakeAdvance(r, a, row) ==
  /\ advanceDesk[r] = NoDesk
  /\ advanceDesk' = [advanceDesk EXCEPT ![r] = [a |-> a, row |-> row]]
  /\ crossed' = crossed \cup (AdvancesAtWork \cap {a})

Granted == {a \in Advances : advance[a].status \in {"pending", "approved"}}
SumOf(S) == Total([a \in S |-> advance[a].amount])

(* slip: each advance is compared with the salary by itself (AdvancesWithinSalary) *)
EachWithin(salary, amount) == amount <= salary

Within(salary, amount) == amount <= salary /\ SumOf(Granted) + amount <= salary

(* AdvancesService.create: the salary found, the amount, what is granted yet *)
AskAdvance(r, a, amount) ==
  /\ advance[a].status = "none" /\ a \notin AdvancesAtWork
  /\ \E s \in SalaryRows :
       salaries[s] > 0 /\ Within(salaries[s], amount)
  /\ TakeAdvance(r, a, [status |-> "pending", amount |-> amount, isDisbursed |-> FALSE])
  /\ beside' = (beside \/ \E b \in AdvancesAtWork : advance[b].status = "none")
  /\ Unchecked

AdvanceDecisions(row) ==
  [pending |-> {"approved", "rejected"},
   approved |-> IF row.isDisbursed THEN {} ELSE {"rejected"}]

(* AdvancesService.updateStatus: what was handed over is not rejected *)
DecideAdvance(r, a, status) ==
  /\ advance[a].status \in DOMAIN AdvanceDecisions(advance[a])
  /\ status \in AdvanceDecisions(advance[a])[advance[a].status]
  /\ TakeAdvance(r, a, [advance[a] EXCEPT !.status = status])
  /\ UNCHANGED beside /\ Unchecked

(* AdvancesService.disburseAdvance *)
DisburseAdvance(r, a) ==
  /\ advance[a].status = "approved" /\ ~advance[a].isDisbursed
  /\ TakeAdvance(r, a, [advance[a] EXCEPT !.isDisbursed = TRUE])
  /\ UNCHANGED beside /\ Unchecked

(* repo.save of any of them *)
SaveAdvance(r) ==
  LET a == advanceDesk[r].a
  IN /\ advanceDesk[r] # NoDesk
     /\ advance' = [advance EXCEPT ![a] = advanceDesk[r].row]
     /\ handedOver' = IF advanceDesk[r].row.isDisbursed THEN handedOver \cup {a} ELSE handedOver
     /\ advanceDesk' = [advanceDesk EXCEPT ![r] = NoDesk]
     /\ UNCHANGED <<salaries, peak, crossed, beside>>

EntitlementNext ==
  \/ \E s \in SalaryRows, total \in Totals : SaveSalary(s, total)
  \/ \E r \in AdvanceDesks, a \in Advances :
       \/ \E amount \in Amounts : AskAdvance(r, a, amount)
       \/ \E status \in AdvanceStatus : DecideAdvance(r, a, status)
       \/ DisburseAdvance(r, a)
  \/ \E r \in AdvanceDesks : SaveAdvance(r)

EntitlementSpec == EntitlementInit /\ [][EntitlementNext]_entitlementVars

-----------------------------------------------------------------------------
(* The rows of the table: AdvancesService writes no other *)
AdvanceRows == advance \in [Advances -> AdvanceRow]

(* The award at the end of service, in seventy-seconds of a month's salary for *)
(* each month of service: half a salary a year for five years, a whole one     *)
(* after them, and of it what the reason leaves                                *)
MonthsOf(n) == 12 * n
HalfUpTo(months) == IF months <= MonthsOf(5) THEN months ELSE MonthsOf(5) + 2 * (months - MonthsOf(5))

Entitled(months) ==   \* the thirds of the award of one who resigns
  CASE months < MonthsOf(2) -> 0
    [] MonthsOf(2) <= months /\ months < MonthsOf(5) -> 1
    [] MonthsOf(5) <= months /\ months < MonthsOf(10) -> 2
    [] OTHER -> 3

Award(months, reason) ==
  HalfUpTo(months) * (IF reason = "resignation" THEN Entitled(months) ELSE 3)

(* The advances of an employee stay within the highest salary he had, unless *)
(* one was asked for while another one was, or two requests worked on one     *)
AdvancesWithinSalary == ~beside /\ crossed = {} => SumOf(Granted) <= peak

(* Money that was handed over is owed: its advance stays approved and marked, *)
(* so that the payroll takes it back, unless two requests worked on it        *)
HandedIsOwed ==
  \A a \in handedOver \ crossed : advance[a].status = "approved" /\ advance[a].isDisbursed

(* The award never falls with longer service, whatever the reason, and who *)
(* resigns gets no more than who is let go                                 *)
AwardGrows ==
  \A months \in 0..MonthsOf(11) :
    /\ \A reason \in {"resignation", "termination"} : Award(months, reason) <= Award(months + 1, reason)
    /\ Award(months, "resignation") <= Award(months, "termination")

(* What is granted is covered, what was handed over is owed, and the award *)
(* depends on no state                                                      *)
AdvancesCovered == AdvanceRows /\ AdvancesWithinSalary /\ HandedIsOwed /\ AwardGrows
=============================================================================
