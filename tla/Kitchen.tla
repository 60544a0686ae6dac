------------------------------ MODULE Kitchen ------------------------------
(***************************************************************************)
(* The restaurant (RestaurantService): tables, and the tickets that tills    *)
(* send to the kitchen through their queue and that the kitchen's screen and *)
(* the tills move on at the same time.  A status is read, checked and saved  *)
(* with the whole row; closing an order is one UPDATE.                       *)
(***************************************************************************)
EXTENDS Integers, FiniteSets

CONSTANTS
  Tickets, Orders,
  OrderOf,      \* orderRef of each ticket
  Tables, Names, Halls,  \* tables, their names without regard to case, branches
  Staff,        \* requests of the kitchen's screen, the tills and the office
  Day,          \* ACTIVE_WINDOW_HOURS in the unit of the clock
  ReadyHours,   \* READY_VISIBLE_HOURS
  LastKitchenTime \* bound: the clock

AllHalls == "all"
Statuses == {"new", "preparing", "ready", "served", "cancelled"}

ASSUME KitchenAssumption ==
  /\ OrderOf \in [Tickets -> Orders]
  /\ Day \in Nat \ {0} /\ ReadyHours \in Nat \ {0} /\ LastKitchenTime \in Nat

VARIABLES
  tables,    \* dining_tables: name, branch, and whether it is removed
  tickets,   \* kitchen_orders by id
  sentClock, \* what each till has in its queue for a ticket: the time it was sent by its clock
  staff,     \* each request: the rows it will write
  kitchenTime,
  quiet      \* history: no two requests about tables overlapped

kitchenVars == <<tables, tickets, sentClock, staff, kitchenTime, quiet>>

Unset == -1
TimeOrUnset == {Unset} \cup 0 .. LastKitchenTime
DiningTable == [name : Names, branchId : Halls \cup {AllHalls}, removed : BOOLEAN]
KitchenOrder ==
  [status : Statuses, started : BOOLEAN, readyAt : TimeOrUnset, served : BOOLEAN, sentAt : 0 .. LastKitchenTime]
AtEase == [at |-> "none"]

KitchenInit ==
  /\ tables = [t \in {} |-> {}]
  /\ tickets = [k \in {} |-> {}]
  /\ sentClock = [k \in Tickets |-> Unset]
  /\ staff = [a \in Staff |-> AtEase]
  /\ kitchenTime = 0
  /\ quiet = TRUE

Sent == DOMAIN tickets
TakeUp(a, step) == staff[a].at = "none" /\ staff' = [staff EXCEPT ![a] = step]
LayDown(a) == staff' = [staff EXCEPT ![a] = AtEase]

-----------------------------------------------------------------------------
(* slip: a table is compared with those of its own branch only (BoardInOrder)   *)
SameScopeOfBranch(b) == {t \in DOMAIN tables : ~tables[t].removed /\ tables[t].branchId = b}

(* sameScope: a table of one branch is seen with the tables of all branches,    *)
(* and one of all branches with every other                                     *)
SameScope(b) ==
  {t \in DOMAIN tables : ~tables[t].removed /\ (b = AllHalls \/ tables[t].branchId \in {b, AllHalls})}
NameFree(name, b, except) == \A t \in SameScope(b) \ {except} : tables[t].name # name

AtTables(a) == staff[a].at = "tables"
Promised == UNION {DOMAIN staff[a].rows : a \in {x \in Staff : AtTables(x)}}
TakeUpTables(a, rows) ==
  /\ TakeUp(a, [at |-> "tables", rows |-> rows])
  /\ quiet' = (quiet /\ \A b \in Staff : ~AtTables(b))
  /\ UNCHANGED <<tables, tickets, sentClock, kitchenTime>>

(* createTable, and createTables for several names at once, of which those that *)
(* are taken are left out                                                       *)
BeginCreateTables(a, b, named) ==
  /\ DOMAIN named # {} /\ DOMAIN named \cap (DOMAIN tables \cup Promised) = {}
  /\ \A t, u \in DOMAIN named : t # u => named[t] # named[u]
  /\ \A t \in DOMAIN named : NameFree(named[t], b, t)
  /\ TakeUpTables(a, [t \in DOMAIN named |-> [name |-> named[t], branchId |-> b, removed |-> FALSE]])

(* updateTable checks the name when it or the branch is another                 *)
BeginUpdateTable(a, t, name, b) ==
  /\ t \in DOMAIN tables /\ ~tables[t].removed
  /\ <<name, b>> # <<tables[t].name, tables[t].branchId>>
  /\ NameFree(name, b, t)
  /\ TakeUpTables(a, [x \in {t} |-> [name |-> name, branchId |-> b, removed |-> FALSE]])

(* .. then save: the whole row, deletedAt included                              *)
SaveTables(a) ==
  /\ AtTables(a)
  /\ LET rows == staff[a].rows
     IN  tables' = [t \in DOMAIN tables \cup DOMAIN rows |-> IF t \in DOMAIN rows THEN rows[t] ELSE tables[t]]
  /\ LayDown(a)
  /\ UNCHANGED <<tickets, sentClock, kitchenTime, quiet>>

RemoveTable(t) ==
  /\ t \in DOMAIN tables /\ ~tables[t].removed
  /\ tables' = [tables EXCEPT ![t].removed = TRUE]
  /\ UNCHANGED <<tickets, sentClock, staff, kitchenTime, quiet>>

-----------------------------------------------------------------------------
(* The till sends a ticket, with the time of its own clock, right or wrong; the *)
(* upload may come much later and more than once                                *)
SendTicket(k, at) ==
  /\ sentClock[k] = Unset
  /\ sentClock' = [sentClock EXCEPT ![k] = at]
  /\ UNCHANGED <<tables, tickets, staff, kitchenTime, quiet>>

(* slip: the till's time is taken as it is (BoardInOrder) *)
SentTimeAsIs(sent) == sent

(* sentTime: a clock that is ahead, or more than a day behind, counts as now    *)
SentTime(sent) == IF sent > kitchenTime \/ kitchenTime - sent > Day THEN kitchenTime ELSE sent

(* board: what is to be cooked, and what has been ready for a short time        *)
OnBoard(k) ==
  /\ tickets[k].sentAt > kitchenTime - Day
  /\ \/ tickets[k].status \in {"new", "preparing"}
     \/ tickets[k].status = "ready" /\ tickets[k].readyAt > kitchenTime - ReadyHours

(* recordKitchenOrder: once, however often it is uploaded                       *)
RecordTicket(k) ==
  /\ sentClock[k] # Unset /\ k \notin Sent
  /\ tickets' = [x \in Sent \cup {k} |->
       IF x = k THEN [status |-> "new", started |-> FALSE, readyAt |-> Unset, served |-> FALSE,
                      sentAt |-> SentTime(sentClock[k])]
       ELSE tickets[x]]
  /\ UNCHANGED <<tables, sentClock, staff, kitchenTime, quiet>>

(* closeKitchenOrders: what is ready has been served                            *)
CloseOrder(o) ==
  /\ tickets' = [k \in Sent |->
       IF OrderOf[k] = o /\ tickets[k].status = "ready"
       THEN [tickets[k] EXCEPT !.status = "served", !.served = TRUE] ELSE tickets[k]]
  /\ UNCHANGED <<tables, sentClock, staff, kitchenTime, quiet>>

-----------------------------------------------------------------------------
(* TRANSITIONS *)
Transitions == [new |-> {"preparing", "ready", "cancelled"},
                preparing |-> {"new", "ready", "cancelled"},
                ready |-> {"preparing", "served"},
                served |-> {"ready"},
                cancelled |-> {}]

OrNow(time) == IF time = Unset THEN kitchenTime ELSE time

(* slip: a ticket taken back from the counter keeps the time it was ready       *)
(* (BoardInOrder)                                                               *)
AppliedKeepingReady(row, status) ==
  [row EXCEPT !.status = status,
     !.started = status # "new" /\ (@ \/ status \in {"preparing", "ready"}),
     !.readyAt = CASE status = "ready" -> kitchenTime [] status = "served" -> OrNow(@) [] OTHER -> @,
     !.served = status # "ready" /\ (@ \/ status = "served")]

(* applyStatus: a step back clears the time of the step that was undone         *)
Applied(row, status) ==
  [row EXCEPT !.status = status,
     !.started = status # "new" /\ (@ \/ status \in {"preparing", "ready"}),
     !.readyAt = CASE status = "preparing" -> Unset [] status = "ready" -> kitchenTime
                   [] status = "served" -> OrNow(@) [] OTHER -> @,
     !.served = status # "ready" /\ (@ \/ status = "served")]

(* updateStatus on the kitchen's screen ..                                      *)
BeginStatus(a, k, status) ==
  /\ k \in Sent /\ status \in Transitions[tickets[k].status]
  /\ TakeUp(a, [at |-> "status", of |-> k, row |-> Applied(tickets[k], status)])
  /\ UNCHANGED <<tables, tickets, sentClock, kitchenTime, quiet>>

(* .. and serveFromDevice on the till, from any status                          *)
BeginServe(a, k) ==
  /\ k \in Sent /\ tickets[k].status # "served"
  /\ TakeUp(a, [at |-> "status", of |-> k, row |-> Applied(tickets[k], "served")])
  /\ UNCHANGED <<tables, tickets, sentClock, kitchenTime, quiet>>

SaveStatus(a) ==
  /\ staff[a].at = "status"
  /\ tickets' = [tickets EXCEPT ![staff[a].of] = staff[a].row]
  /\ LayDown(a)
  /\ UNCHANGED <<tables, sentClock, kitchenTime, quiet>>

KitchenTick ==
  /\ kitchenTime < LastKitchenTime
  /\ kitchenTime' = kitchenTime + 1
  /\ UNCHANGED <<tables, tickets, sentClock, staff, quiet>>

KitchenNext ==
  \/ \E a \in Staff :
       \/ \E b \in Halls \cup {AllHalls} :
            \/ \E new \in SUBSET Tables : \E named \in [new -> Names] : BeginCreateTables(a, b, named)
            \/ \E t \in Tables, name \in Names : BeginUpdateTable(a, t, name, b)
       \/ \E k \in Tickets : (\E status \in Statuses : BeginStatus(a, k, status)) \/ BeginServe(a, k)
       \/ SaveTables(a) \/ SaveStatus(a)
  \/ \E t \in Tables : RemoveTable(t)
  \/ \E k \in Tickets : (\E at \in 0 .. LastKitchenTime : SendTicket(k, at)) \/ RecordTicket(k)
  \/ \E o \in Orders : CloseOrder(o)
  \/ KitchenTick

KitchenSpec == KitchenInit /\ [][KitchenNext]_kitchenVars

-----------------------------------------------------------------------------
(* The rows of the tables: RestaurantService writes no other *)
KitchenTypeOK ==
  /\ DOMAIN tables \subseteq Tables /\ \A t \in DOMAIN tables : tables[t] \in DiningTable
  /\ Sent \subseteq Tickets /\ \A k \in Sent : tickets[k] \in KitchenOrder

(* A ticket that arrives is on the kitchen's board at once, however long the    *)
(* till was offline and whatever its clock says: sentTime and board agree about *)
(* the day, but for a ticket that is a day old to the tick.                     *)
NewOnBoard ==
  \A k \in DOMAIN tickets' \ Sent : sentClock[k] # kitchenTime - Day => OnBoard(k)'

(* The times of a ticket are those of its status: nothing is ready before it    *)
(* was started or served before it was ready, also when the kitchen, the till   *)
(* and the closing of the order move it at the same time and back again.        *)
TimesFollowStatus ==
  \A k \in Sent :
    LET x == tickets[k]
        ready == x.readyAt # Unset
    IN  CASE x.status = "new" -> ~x.started /\ ~ready /\ ~x.served
          [] x.status = "preparing" -> x.started /\ ~ready /\ ~x.served
          [] x.status = "ready" -> x.started /\ ready /\ ~x.served
          [] x.status = "served" -> ready /\ x.served
          [] OTHER -> ~ready /\ ~x.served

(* Two tables that a waiter sees together have different names, in one branch   *)
(* or in all, also when a table moves to another branch; two requests at a time *)
(* can break it, as nothing but the check keeps the names apart.                *)
NamesApart ==
  quiet => \A t, u \in DOMAIN tables :
    /\ t # u /\ ~tables[t].removed /\ ~tables[u].removed
    /\ tables[t].branchId = tables[u].branchId \/ AllHalls \in {tables[t].branchId, tables[u].branchId}
    => tables[t].name # tables[u].name

(* RestaurantService: the board shows what is to be cooked, the times of a       *)
(* ticket fit its status, and tables can be told apart                           *)
BoardInOrder ==
  /\ [](KitchenTypeOK /\ TimesFollowStatus /\ NamesApart)
  /\ [][NewOnBoard]_kitchenVars
=============================================================================
