------------------------------ MODULE MCTill -------------------------------
(***************************************************************************)
(* What a till works with besides its sales, on small instances: the rights   *)
(* it downloaded, the device it is bound to, the tickets it sends to the       *)
(* kitchen and the counts it uploads; and the years of the books that its       *)
(* takings end in.  They share nothing that changes: a behaviour is that of      *)
(* one of them (part), and the variables of the others are off or, for the        *)
(* bindings and the years, as in the beginning.                                    *)
(***************************************************************************)
EXTENDS PosTerminals, PosRights, Kitchen, YearEnd

CONSTANTS
  off,
  c1, r1, r2, a1,         \* a cashier, requests, a sale
  d1, d2, s1, s2, w1, w2, \* devices, screens, warehouses
  k1, k2, o1,             \* tickets and their order
  t1, t2, n1, n2, b1,     \* tables, names, a branch
  p1, p2, u1, u2          \* products and users

VARIABLES
  part,
  status, updatedAt, lines, countable, clock, counts, view, newest, removed

sheetVars ==
  <<status, updatedAt, lines, countable, clock, counts, view, newest, removed>>

Promotion(endsAt) == [isActive |-> TRUE, startsAt |-> 0, endsAt |-> endsAt]
TwoPromotions == {Promotion(1), Promotion(2)}
WithCustomers == {{"creditSales"}, {"customers"}, {"customers", "creditSales"}}
OneOrder == [k \in {k1, k2} |-> o1]

(* One request of the office after the other, and all a screen does ..          *)
OneEditor == RightsNext /\ editor'[r2] = NoEdit
OnTime == \A s \in DOMAIN offline : offline[s].issuedAt = offline[s].doneAt
AfterAnother == OneEditor /\ OnTime'

(* .. or its rights alone, with a clock of its own                              *)
RightsAlone ==
  /\ promotions = Promotion(1) /\ ~signedIn
  /\ \A s \in DOMAIN offline : offline[s].kind # "cheap"
OwnClock == OneEditor /\ RightsAlone'

(* .. or beside two requests at a time                                          *)
AtOnce == RightsNext /\ RightsAlone' /\ OnTime'

(* The tills stay where they are ..                                            *)
InPlace == \A d \in Tills : device[d].warehouse = w1
AtRest == TerminalsInit /\ InPlace

(* .. while two requests bind one screen ..                                    *)
Binding ==
  /\ TerminalsNext /\ InPlace' /\ faults' = 0
  /\ \A r \in Requests : "screen" \in DOMAIN request'[r] => request'[r].screen = s1

(* .. two screens want the same device ..                                       *)
Wanting == TerminalsNext /\ InPlace' /\ faults' = 0 /\ keys' <= 1

(* .. and a request stops or loses its answer, and devices move                 *)
Moving ==
  /\ TerminalsNext
  /\ request'[r2] = Idle
  /\ "screen" \in DOMAIN request'[r1] => request'[r1].screen = s1

(* Years are closed and opened again, while the lock date stays where it is ..  *)
FirstDay == YearsInit /\ thisDay = 1
Closing == YearsNext /\ locks' = 0

(* .. or it is changed, and there is one year to close                          *)
Locking == YearsNext /\ thisDay' <= 2

(* A ticket that two requests move ..                                           *)
Cooking == KitchenNext /\ DOMAIN tables' = {} /\ \A a \in Staff : ~AtTables(a)' /\ sentClock'[k2] = Unset

(* .. two tickets of one order ..                                               *)
Serving ==
  KitchenNext /\ DOMAIN tables' = {} /\ \A a \in Staff : ~AtTables(a)' /\ staff'[r2] = AtEase /\ kitchenTime' <= 1

(* .. and the tables                                                            *)
Seating == KitchenNext /\ kitchenTime' = 0 /\ \A k \in Tickets : sentClock'[k] = Unset

(* Devices count two products beside one user of the dashboard ..              *)
Counting == INSTANCE Stocktake WITH
  Products <- {p1, p2}, Quantities <- {0, 1}, Users <- {u1}, Skew <- 1, MaxLines <- 1,
  MaxBatch <- 2, MaxClock <- 2, MaxCounts <- 2, None <- off

(* .. and two users save the same sheet                                         *)
Saving == INSTANCE Stocktake WITH
  Products <- {p1}, Quantities <- {0, 1}, Users <- {u1, u2}, Skew <- 1, MaxLines <- 1,
  MaxBatch <- 2, MaxClock <- 3, MaxCounts <- 2, None <- off

-----------------------------------------------------------------------------
RightsOff ==
  RightsInit /\ promotions = Promotion(1) /\ \A c \in Cashiers : cashiers[c].canReturn

SheetOff ==
  /\ status = off /\ updatedAt = off /\ lines = off /\ countable = off
  /\ clock = off /\ counts = off /\ view = off /\ newest = off /\ removed = off

TillInit ==
  /\ KitchenInit
  /\ \/ part \in {"rights", "ahead", "editing"} /\ RightsOff /\ AtRest /\ FirstDay /\ SheetOff
     \/ part = "moving" /\ TerminalsInit /\ FirstDay /\ RightsOff /\ SheetOff
     \/ part \in {"binding", "wanting", "cooking", "serving", "seating"} /\ AtRest /\ FirstDay /\ RightsOff /\ SheetOff
     \/ part \in {"closing", "locking"} /\ YearsInit /\ AtRest /\ RightsOff /\ SheetOff
     \/ part = "counting" /\ Counting!Init /\ RightsOff /\ AtRest /\ FirstDay
     \/ part = "saving" /\ Saving!Init /\ RightsOff /\ AtRest /\ FirstDay

TillNext ==
  \/ /\ UNCHANGED <<part, yearVars>>
     /\ \/ part = "rights" /\ AfterAnother /\ UNCHANGED <<terminalVars, kitchenVars, sheetVars>>
        \/ part = "ahead" /\ OwnClock /\ UNCHANGED <<terminalVars, kitchenVars, sheetVars>>
        \/ part = "editing" /\ AtOnce /\ UNCHANGED <<terminalVars, kitchenVars, sheetVars>>
        \/ part = "moving" /\ Moving /\ UNCHANGED <<rightsVars, kitchenVars, sheetVars>>
        \/ part = "binding" /\ Binding /\ UNCHANGED <<rightsVars, kitchenVars, sheetVars>>
        \/ part = "wanting" /\ Wanting /\ UNCHANGED <<rightsVars, kitchenVars, sheetVars>>
        \/ part = "cooking" /\ Cooking /\ UNCHANGED <<rightsVars, terminalVars, sheetVars>>
        \/ part = "serving" /\ Serving /\ UNCHANGED <<rightsVars, terminalVars, sheetVars>>
        \/ part = "seating" /\ Seating /\ UNCHANGED <<rightsVars, terminalVars, sheetVars>>
        \/ part = "counting" /\ Counting!Next /\ UNCHANGED <<rightsVars, terminalVars, kitchenVars>>
        \/ part = "saving" /\ Saving!Next /\ UNCHANGED <<rightsVars, terminalVars, kitchenVars>>
  \/ /\ UNCHANGED <<part, rightsVars, terminalVars, kitchenVars, sheetVars>>
     /\ \/ part = "closing" /\ Closing
        \/ part = "locking" /\ Locking

tillVars == <<part, rightsVars, terminalVars, kitchenVars, sheetVars, yearVars>>

TillSpec == TillInit /\ [][TillNext]_tillVars

-----------------------------------------------------------------------------
(* A sheet keeps within its limit and is made of the newest counts, and what a    *)
(* user had not seen is not saved over (StocktakesService)                        *)
SheetIsCurrent ==
  /\ [](part = "counting" => Counting!TypeOK /\ Counting!LineIsNewest)
  /\ [](part = "saving" => Saving!TypeOK /\ Saving!LineIsNewest)
  /\ [][/\ part = "counting" => Counting!UnseenKept
        /\ part = "saving" => Saving!UnseenKept]_tillVars
=============================================================================
