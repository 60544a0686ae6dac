--------------------------- MODULE Subscriptions ---------------------------
(***************************************************************************)
(* Companies, their subscriptions to plans, and the guard that admits a      *)
(* request only while the subscription serves (SubscriptionsService,         *)
(* SubscriptionManagerService, PlansService, TenantsService and              *)
(* SubscriptionGuard).  The guard reads the subscription again for each of   *)
(* its questions, and any reader that finds it over saves it as expired.     *)
(***************************************************************************)
EXTENDS Integers, Sequences, FiniteSets

CONSTANTS
  Tenants, Plans,
  FREE,        \* the plan of a trial, one of Plans
  PlanRows,    \* rows of the plans table to choose from: max_users and the feature
  Asked,       \* statuses the owner asks for
  Askers,       \* requests that add a user (POST /users)
  Onboarders,   \* requests that add an employee with an account (POST /employees/onboard)
  MaxRows,     \* bound: subscriptions of one company
  MaxUsers,    \* bound: users of one company
  TrialDays, MaxDays,
  LastPlanTime  \* bound: the clock

Unlimited == -1
NoEnd == -1
Statuses == {"trial", "active", "expired", "cancelled", "suspended", "pending"}

ASSUME PlansAssumption ==
  /\ FREE \in Plans /\ Asked \subseteq Statuses
  /\ IsFiniteSet(Askers) /\ Askers \cap Onboarders = {}
  /\ \A p \in PlanRows : p.max_users \in Nat \cup {Unlimited} /\ p.feature \in BOOLEAN
  /\ TrialDays \in Nat /\ MaxDays \in Nat /\ LastPlanTime \in Nat /\ TrialDays <= MaxDays

VARIABLES
  plans,      \* plans by name
  subs,       \* subscriptions of each company, oldest first
  headcount,  \* users of each company that are not removed, from its registration or POST /users ..
  onboarded,  \* .. and those that came with an employee
  removed,    \* companies that were removed
  asking,
  planTime,
  allowed     \* history: the largest max_users a company has had

planVars == <<plans, subs, headcount, onboarded, removed, asking, planTime, allowed>>

Subscription == [plan : Plans, status : Statuses, end : 0 .. LastPlanTime + MaxDays \cup {NoEnd}]
NotAsking == [at |-> "none"]

(* Requests that pass SubscriptionGuard                                           *)
Guarded == Askers \cup Onboarders

PlanRow(p) == [max_users |-> p.max_users, feature |-> p.feature, isActive |-> TRUE]

PlansInit ==
  /\ plans \in [{FREE} -> {PlanRow(p) : p \in PlanRows}]
  /\ subs = [t \in {} |-> <<>>]
  /\ headcount = [t \in Tenants |-> 0] /\ onboarded = [t \in Tenants |-> 0]
  /\ removed = {}
  /\ asking = [d \in Guarded |-> NotAsking]
  /\ planTime = 0
  /\ allowed = [t \in Tenants |-> 0]

Companies == DOMAIN subs
UsersOf(t) == headcount[t] + onboarded[t]
Current(t) == subs[t][Len(subs[t])]
LimitOf(t) == plans[Current(t).plan].max_users

-----------------------------------------------------------------------------
(* create checks that the name is free; update and remove save the whole plan    *)
CreatePlan(p, row) ==
  /\ p \notin DOMAIN plans
  /\ plans' = [x \in DOMAIN plans \cup {p} |-> IF x = p THEN PlanRow(row) ELSE plans[x]]
  /\ UNCHANGED <<subs, headcount, onboarded, removed, asking, planTime>>

UpdatePlan(p, row) ==
  /\ p \in DOMAIN plans
  /\ plans' = [plans EXCEPT ![p] = [PlanRow(row) EXCEPT !.isActive = plans[p].isActive]]
  /\ UNCHANGED <<subs, headcount, onboarded, removed, asking, planTime>>

RemovePlan(p) ==
  /\ p \in DOMAIN plans
  /\ plans' = [plans EXCEPT ![p].isActive = FALSE]
  /\ UNCHANGED <<subs, headcount, onboarded, removed, asking, planTime>>

(* register: the company, its trial and its first user in one transaction         *)
Trial == [plan |-> FREE, status |-> "trial", end |-> planTime + TrialDays]
Register(t) ==
  /\ t \notin Companies
  /\ subs' = [x \in Companies \cup {t} |-> IF x = t THEN <<Trial>> ELSE subs[x]]
  /\ headcount' = [headcount EXCEPT ![t] = 1]
  /\ UNCHANGED <<plans, onboarded, removed, asking, planTime>>

(* remove hides the company and its users; the subscription stays as it is        *)
RemoveTenant(t) ==
  /\ t \in Companies \ removed
  /\ removed' = removed \cup {t}
  /\ headcount' = [headcount EXCEPT ![t] = 0] /\ onboarded' = [onboarded EXCEPT ![t] = 0]
  /\ UNCHANGED <<plans, subs, asking, planTime>>

-----------------------------------------------------------------------------
(* The owner's operations read the newest row, change it and save it.  One owner   *)
(* is at work at a time; what interleaves with him are the requests that save the   *)
(* row they read as expired                                                          *)
ValidNext(s) ==
  CASE s = "trial"     -> {"active", "expired", "cancelled", "suspended", "pending"}
    [] s = "active"    -> {"suspended", "cancelled", "expired", "pending"}
    [] s = "pending"   -> {"active", "cancelled", "suspended"}
    [] s = "suspended" -> {"active", "cancelled", "expired", "pending"}
    [] s = "expired"   -> {"active", "pending", "suspended"}
    [] s = "cancelled" -> {"active", "pending"}

(* durationDays, or 0 when it is not given                                         *)
EndAfter(row, s, days) ==
  IF s = "active" /\ days > 0 THEN planTime + days
  ELSE row.end   \* "pending" assigns undefined, which save leaves out

WithStatus(row, s, days) == [row EXCEPT !.status = s, !.end = EndAfter(row, s, days)]

(* renew counts from the end that is still to come                                 *)
Renewed(row, days) ==
  [row EXCEPT !.status = "active", !.end = (IF row.end > planTime THEN row.end ELSE planTime) + days]

SaveRow(t, row, next) ==
  /\ subs' = [subs EXCEPT ![t] = [@ EXCEPT ![Len(@)] = row] \o next]
  /\ UNCHANGED <<plans, headcount, onboarded, removed, asking, planTime>>

UpdateStatus(t, s, days) ==
  /\ s \in ValidNext(Current(t).status)
  /\ SaveRow(t, WithStatus(Current(t), s, days), <<>>)

RenewPlan(t, days) ==
  /\ Renewed(Current(t), days).end <= LastPlanTime + MaxDays
  /\ SaveRow(t, Renewed(Current(t), days), <<>>)

ChangePlan(t, p, days) ==
  /\ p \in DOMAIN plans /\ Len(subs[t]) < MaxRows
  /\ SaveRow(t, [Current(t) EXCEPT !.status = "cancelled"],
          <<[plan |-> p, status |-> "active", end |-> planTime + days]>>)

-----------------------------------------------------------------------------
Expirable(row) == row.status \in {"trial", "active"} /\ row.end # NoEnd /\ planTime > row.end
Serves(row) == row.status \in {"active", "trial"}
SetAsking(d, step) == asking' = [asking EXCEPT ![d] = step]
AfterLook(t, at) ==
  CASE at = "active"  -> [at |-> "feature", of |-> t]
    [] at = "feature" -> [at |-> "quota", of |-> t]
    [] at = "quota"   -> [at |-> "count", of |-> t, limit |-> LimitOf(t)]

Ask(d, t) ==
  /\ asking[d].at = "none" /\ t \in Companies
  /\ SetAsking(d, [at |-> "active", of |-> t])
  /\ UNCHANGED <<plans, subs, headcount, onboarded, removed, planTime>>

(* isSubscriptionActive, hasFeature and checkQuota each read the newest row; the   *)
(* last does not look at the status again                                          *)
LookAtPlan(d) ==
  /\ asking[d].at \in {"active", "feature", "quota"}
  /\ LET t == asking[d].of
         row == Current(t)
         passes == CASE asking[d].at = "active"  -> Serves(row)
                     [] asking[d].at = "feature" -> Serves(row) /\ plans[row.plan].feature
                     [] asking[d].at = "quota"   -> TRUE
     IN  /\ ~Expirable(row)
         /\ SetAsking(d, IF passes THEN AfterLook(t, asking[d].at) ELSE NotAsking)
  /\ UNCHANGED <<plans, subs, headcount, onboarded, removed, planTime>>

FindOver(d) ==
  /\ asking[d].at \in {"active", "feature", "quota"}
  /\ LET t == asking[d].of
     IN  /\ Expirable(Current(t))
         /\ SetAsking(d, [at |-> "expire", asked |-> asking[d].at, of |-> t,
                       limit |-> LimitOf(t), i |-> Len(subs[t]),
                    row |-> [Current(t) EXCEPT !.status = "expired"]])
  /\ UNCHANGED <<plans, subs, headcount, onboarded, removed, planTime>>

SaveExpired(d) ==
  /\ asking[d].at = "expire"
  /\ subs' = [subs EXCEPT ![asking[d].of] = [@ EXCEPT ![asking[d].i] = asking[d].row]]
  /\ SetAsking(d, IF asking[d].asked = "quota"
                  THEN [at |-> "count", of |-> asking[d].of, limit |-> asking[d].limit]
                  ELSE NotAsking)
  /\ UNCHANGED <<plans, headcount, onboarded, removed, planTime>>

(* slip: the limit itself still has room (UsersWithinPlan)                          *)
HasRoomTooLate(used, limit) == limit = Unlimited \/ used <= limit

(* UsersQuotaResolver counts; a plan without a limit is not counted at all.  For  *)
(* an employee with an account max_employees is asked instead, and no count of     *)
(* users: what EmployeesQuotaResolver finds is not modelled, and may be either     *)
HasRoom(used, limit) == limit = Unlimited \/ used < limit
Count(d) ==
  /\ asking[d].at = "count"
  /\ \E room \in BOOLEAN :
       /\ d \in Askers => (room <=> HasRoom(UsersOf(asking[d].of), asking[d].limit))
       /\ SetAsking(d, IF room THEN [at |-> "create", of |-> asking[d].of] ELSE NotAsking)
  /\ UNCHANGED <<plans, subs, headcount, onboarded, removed, planTime>>

(* UsersService.create, and the account that onboard saves with the employee      *)
CreateUser(d) ==
  /\ asking[d].at = "create" /\ UsersOf(asking[d].of) < MaxUsers
  /\ headcount' = IF d \in Askers THEN [headcount EXCEPT ![asking[d].of] = @ + 1] ELSE headcount
  /\ onboarded' = IF d \in Askers THEN onboarded ELSE [onboarded EXCEPT ![asking[d].of] = @ + 1]
  /\ SetAsking(d, NotAsking)
  /\ UNCHANGED <<plans, subs, removed, planTime>>

DropUser(t) ==
  /\ \/ headcount[t] > 0 /\ headcount' = [headcount EXCEPT ![t] = @ - 1] /\ UNCHANGED onboarded
     \/ onboarded[t] > 0 /\ onboarded' = [onboarded EXCEPT ![t] = @ - 1] /\ UNCHANGED headcount
  /\ UNCHANGED <<plans, subs, removed, asking, planTime>>

PlanTick ==
  /\ planTime < LastPlanTime /\ planTime' = planTime + 1
  /\ UNCHANGED <<plans, subs, headcount, onboarded, removed, asking>>

Most(a, b) == IF a > b THEN a ELSE b
Larger(a, b) == IF Unlimited \in {a, b} THEN Unlimited ELSE Most(a, b)
TrackLimits ==
  allowed' = [t \in Tenants |-> IF t \in DOMAIN subs' THEN Larger(allowed[t], LimitOf(t)') ELSE 0]

PlanStep ==
  \/ \E p \in Plans, row \in PlanRows : CreatePlan(p, row) \/ UpdatePlan(p, row)
  \/ \E p \in Plans : RemovePlan(p)
  \/ \E t \in Tenants : Register(t) \/ RemoveTenant(t) \/ DropUser(t)
  \/ \E t \in Companies, s \in Asked, days \in 0 .. MaxDays : UpdateStatus(t, s, days)
  \/ \E t \in Companies, days \in 1 .. MaxDays : RenewPlan(t, days)
  \/ \E t \in Companies, p \in Plans, days \in 1 .. MaxDays : ChangePlan(t, p, days)
  \/ \E d \in Guarded, t \in Tenants : Ask(d, t)
  \/ \E d \in Guarded : LookAtPlan(d) \/ FindOver(d) \/ SaveExpired(d) \/ Count(d) \/ CreateUser(d)
  \/ PlanTick

PlansNext == PlanStep /\ TrackLimits
PlansSpec == PlansInit /\ [][PlansNext]_planVars
-----------------------------------------------------------------------------
(* The rows of the table: SubscriptionsService writes no other                     *)
PlansTypeOK == \A t \in Companies : subs[t] \in Seq(Subscription)

(* The users a company registered with or added by POST /users are never more   *)
(* than the largest limit it had, but for the requests that were counted at the    *)
(* same time: SubscriptionGuard counts before the handler writes, so each request   *)
(* beyond the first may find the same room (one user is there from the              *)
(* registration, whatever the plan says).  Accounts that come with employees         *)
(* (POST /employees/onboard) are not asked for max_users: they take room from the     *)
(* others, and have no limit but the one of employees.                                *)
UsersWithinPlan ==
  /\ PlansTypeOK
  /\ \A t \in Companies : allowed[t] # Unlimited =>
       headcount[t] <= Most(1, allowed[t] + Cardinality(Askers) - 1)
=============================================================================
