------------------------------ MODULE PosSync ------------------------------
(***************************************************************************)
(* The upload of a till's queue: PosService.syncDevice runs the operations   *)
(* of a request in order, each on its own, and answers for each; the screen  *)
(* drops what was recorded and sends the rest again.  Requests may overlap   *)
(* (a screen that gave up waiting sends again), an answer may be lost, and   *)
(* a request may stop between two statements.  A closed shift is kept right  *)
(* by working its figures out again when an operation arrives late.          *)
(***************************************************************************)
EXTENDS Integers, Sequences, FiniteSets

CONSTANTS
  Shifts,
  Requests,
  Operations,    \* what the screen did, in order: kind, shift, cash, number
  MaxOperations, \* MAX_SYNC_OPERATIONS of one request
  MaxFaults      \* bound: refusals, failures and lost answers

ASSUME SyncAssumption ==
  /\ MaxOperations \in Nat \ {0} /\ MaxFaults \in Nat
  /\ Operations \in Seq([kind : {"open", "sale", "return", "move", "close"}, shift : Shifts, cash : Int, number : Nat])

Ops == DOMAIN Operations
Kind(o) == Operations[o].kind
ShiftOf(o) == Operations[o].shift
Documents == {o \in Ops : Kind(o) \in {"sale", "return", "move"}}

VARIABLES
  shift,       \* pos_shifts: status, expectedCash (above the opening cash), lateOperations
  recorded,    \* documents recorded: invoices and returns by uuid, cash moves by id
  lastCounter, \* pos_devices.lastCounter
  queue,       \* what the screen's queue still holds; it is in the order of the operations
  request,     \* each request: the operations left, where it is, what it has read
  faults,
  calm         \* history: no two uploads overlapped, and none stopped between two statements

vars == <<shift, recorded, lastCounter, queue, request, faults, calm>>

-----------------------------------------------------------------------------
(* What the shift's documents add up to: shiftTotals, shiftRefunds and          *)
(* shiftCashMoves, three queries that run side by side; a sum counts what was   *)
(* put in less what was taken out, unit by unit                                 *)
Sources == {"sale", "return", "move"}
Counted(s, kind, docs) == {o \in docs : Kind(o) = kind /\ ShiftOf(o) = s}
PutIn(docs) == UNION {{o} \X (1 .. Operations[o].cash) : o \in docs}
TakenOut(docs) == UNION {{o} \X (1 .. -Operations[o].cash) : o \in docs}
Figure(s, kind, docs) ==
  LET counted == Counted(s, kind, docs)
  IN  Cardinality(PutIn(counted)) - Cardinality(TakenOut(counted))
Expected(read) == read["sale"] - read["return"] + read["move"]
FiguresOf(s, docs) == [kind \in Sources |-> Figure(s, kind, docs)]

NoFigures == [kind \in Sources |-> 0]
Away == [todo |-> {}, at |-> "away", done |-> {}, new |-> FALSE, unread |-> {}, read |-> NoFigures]

Init ==
  /\ shift = [s \in Shifts |-> [status |-> "none", expected |-> 0, late |-> 0]]
  /\ recorded = {}
  /\ lastCounter = 0
  /\ queue = Ops
  /\ request = [r \in Requests |-> Away]
  /\ faults = 0
  /\ calm = TRUE

At(r, where) == request[r].at = where
Earliest(os) == CHOOSE o \in os : \A q \in os : o <= q
Doing(r) == Earliest(request[r].todo)
Continue(r, step) == request' = [request EXCEPT ![r] = step]
GoTo(r, where) == Continue(r, [request[r] EXCEPT !.at = where])

(* The result of the operation: ok and duplicate are dropped by the screen,     *)
(* an error stays in its queue; the next operation follows in any case          *)
Result(r, done) ==
  Continue(r, [Away EXCEPT !.todo = request[r].todo \ {Doing(r)},
                           !.at = IF request[r].todo = {Doing(r)} THEN "answer" ELSE "next",
                           !.done = request[r].done \cup (IF done THEN {Doing(r)} ELSE {})])

Fault == faults < MaxFaults /\ faults' = faults + 1

-----------------------------------------------------------------------------
AnotherOpen(s) == \E t \in Shifts \ {s} : shift[t].status = "open"

(* slip: a shift has to follow a closed one, the first of a device too          *)
(* (QueueDrains)                                                                *)
FindShiftBefore(r) ==
  /\ At(r, "next") /\ Kind(Doing(r)) = "open"
  /\ LET s == ShiftOf(Doing(r))
     IN  CASE shift[s].status # "none" -> Result(r, TRUE)
           [] shift[s].status = "none" /\ \A t \in Shifts : shift[t].status # "closed" -> Result(r, FALSE)
           [] OTHER -> GoTo(r, "insert")
  /\ UNCHANGED <<shift, recorded, lastCounter, queue, faults, calm>>

(* openShift: is it there, is another one open ..  *)
FindShift(r) ==
  /\ At(r, "next") /\ Kind(Doing(r)) = "open"
  /\ LET s == ShiftOf(Doing(r))
     IN  CASE shift[s].status # "none" -> Result(r, TRUE)
           [] shift[s].status = "none" /\ AnotherOpen(s) -> Result(r, FALSE)
           [] OTHER -> GoTo(r, "insert")
  /\ UNCHANGED <<shift, recorded, lastCounter, queue, faults, calm>>

(* slip: no unique index, the check before is trusted (OneOpenShift) *)
InsertShiftUnguarded(r) ==
  /\ At(r, "insert")
  /\ LET s == ShiftOf(Doing(r))
     IN  /\ Result(r, TRUE)
         /\ shift' = IF shift[s].status = "none" THEN [shift EXCEPT ![s].status = "open"] ELSE shift
  /\ UNCHANGED <<recorded, lastCounter, queue, faults, calm>>

(* .. then the insert, which the partial unique index refuses while another     *)
(* shift of the device is open                                                  *)
InsertShift(r) ==
  /\ At(r, "insert")
  /\ LET s == ShiftOf(Doing(r))
     IN  \/ /\ shift[s].status = "none" /\ ~AnotherOpen(s)
            /\ shift' = [shift EXCEPT ![s].status = "open"]
            /\ Result(r, TRUE)
         \/ /\ shift[s].status # "none" \/ AnotherOpen(s)
            /\ Result(r, shift[s].status # "none")
            /\ UNCHANGED shift
  /\ UNCHANGED <<recorded, lastCounter, queue, faults, calm>>

-----------------------------------------------------------------------------
(* The invoice that a return is made from must have been recorded *)
Source(o) ==
  Kind(o) = "return" =>
    \E i \in recorded : Kind(i) = "sale" /\ Operations[i].number = Operations[o].number

(* recordSale, recordReturn and recordCashMove: the shift, then the document by *)
(* its id.  A sale that is there already still raises the counter.              *)
FindDocument(r) ==
  /\ At(r, "next") /\ Doing(r) \in Documents
  /\ LET o == Doing(r)
     IN  CASE shift[ShiftOf(o)].status = "none" -> Result(r, FALSE)
           [] shift[ShiftOf(o)].status # "none" /\ o \in recorded ->
                IF Kind(o) = "sale" THEN GoTo(r, "count") ELSE Result(r, TRUE)
           [] OTHER -> IF Source(o) THEN GoTo(r, "record") ELSE Result(r, FALSE)
  /\ UNCHANGED <<shift, recorded, lastCounter, queue, faults, calm>>

(* The transaction that records it; one that overlaps and came first makes the  *)
(* unique index refuse it                                                       *)
Record(r) ==
  /\ At(r, "record")
  /\ IF Doing(r) \in recorded
     THEN Result(r, FALSE) /\ UNCHANGED recorded
     ELSE /\ recorded' = recorded \cup {Doing(r)}
          /\ Continue(r, [request[r] EXCEPT
               !.new = TRUE, !.at = IF Kind(Doing(r)) = "sale" THEN "count" ELSE "check"])
  /\ UNCHANGED <<shift, lastCounter, queue, faults, calm>>

(* It is refused (a product that is not there yet, figures that do not agree)   *)
Refuse(r) ==
  /\ At(r, "record") /\ Fault
  /\ Result(r, FALSE)
  /\ UNCHANGED <<shift, recorded, lastCounter, queue, calm>>

Larger(a, b) == IF a > b THEN a ELSE b

(* slip: the counter is raised for new sales only (DroppedIsRecorded) *)
RaiseCounterIfNew(r) ==
  /\ At(r, "count")
  /\ lastCounter' = IF request[r].new THEN Larger(lastCounter, Operations[Doing(r)].number) ELSE lastCounter
  /\ IF request[r].new THEN GoTo(r, "check") ELSE Result(r, TRUE)
  /\ UNCHANGED <<shift, recorded, queue, faults, calm>>

(* raiseCounter: GREATEST in one statement *)
RaiseCounter(r) ==
  /\ At(r, "count")
  /\ lastCounter' = Larger(lastCounter, Operations[Doing(r)].number)
  /\ IF request[r].new THEN GoTo(r, "check") ELSE Result(r, TRUE)
  /\ UNCHANGED <<shift, recorded, queue, faults, calm>>

(* slip: closed shifts are left as they are (FiguresFollowDocuments) *)
CheckNothing(r) ==
  /\ At(r, "check")
  /\ Result(r, TRUE)
  /\ UNCHANGED <<shift, recorded, lastCounter, queue, faults, calm>>

(* recalculateIfClosed reads the shift *)
CheckClosed(r) ==
  /\ At(r, "check")
  /\ IF shift[ShiftOf(Doing(r))].status = "closed"
     THEN Continue(r, [request[r] EXCEPT !.at = "recalculate", !.unread = Sources])
     ELSE Result(r, TRUE)
  /\ UNCHANGED <<shift, recorded, lastCounter, queue, faults, calm>>

(* shiftFigures, for closeShift and recalculateIfClosed *)
ReadFigures(r) ==
  /\ \E kind \in request[r].unread :
       Continue(r, [request[r] EXCEPT !.unread = @ \ {kind},
                                      !.read[kind] = Figure(ShiftOf(Doing(r)), kind, recorded)])
  /\ UNCHANGED <<shift, recorded, lastCounter, queue, faults, calm>>

Recalculate(r) ==
  /\ At(r, "recalculate") /\ request[r].unread = {}
  /\ shift' = [shift EXCEPT ![ShiftOf(Doing(r))].expected = Expected(request[r].read),
                            ![ShiftOf(Doing(r))].late = @ + 1]
  /\ Result(r, TRUE)
  /\ UNCHANGED <<recorded, lastCounter, queue, faults, calm>>

-----------------------------------------------------------------------------
(* closeShift: the shift, its figures, and the update *)
StartClose(r) ==
  /\ At(r, "next") /\ Kind(Doing(r)) = "close"
  /\ LET status == shift[ShiftOf(Doing(r))].status
     IN  IF status = "open"
         THEN Continue(r, [request[r] EXCEPT !.at = "close", !.unread = Sources])
         ELSE Result(r, status = "closed")
  /\ UNCHANGED <<shift, recorded, lastCounter, queue, faults, calm>>

Close(r) ==
  /\ At(r, "close") /\ request[r].unread = {}
  /\ shift' = [shift EXCEPT ![ShiftOf(Doing(r))].status = "closed",
                            ![ShiftOf(Doing(r))].expected = Expected(request[r].read)]
  /\ Result(r, TRUE)
  /\ UNCHANGED <<recorded, lastCounter, queue, faults, calm>>

-----------------------------------------------------------------------------
(* A later statement of the operation fails: an error is its result *)
Fail(r) ==
  /\ Fault /\ calm' = FALSE
  /\ request[r].at \in {"insert", "count", "check", "recalculate", "close"}
  /\ Result(r, FALSE)
  /\ UNCHANGED <<shift, recorded, lastCounter, queue>>

(* The server stops: what was committed stays, nothing is answered *)
Stop(r) ==
  /\ Fault /\ calm' = FALSE
  /\ ~At(r, "away")
  /\ Continue(r, Away)
  /\ UNCHANGED <<shift, recorded, lastCounter, queue>>

(* The screen sends the head of its queue *)
FirstOf(os) == {o \in os : Cardinality({q \in os : q < o}) < MaxOperations}

Send(r) ==
  /\ At(r, "away") /\ queue # {}
  /\ Continue(r, [Away EXCEPT !.at = "next",
                              !.todo = FirstOf(queue)])
  /\ calm' = (calm /\ \A q \in Requests : At(q, "away"))
  /\ UNCHANGED <<shift, recorded, lastCounter, queue, faults>>

(* The answer arrives: what was recorded leaves the queue *)
Answer(r) ==
  /\ At(r, "answer")
  /\ queue' = queue \ request[r].done
  /\ Continue(r, Away)
  /\ UNCHANGED <<shift, recorded, lastCounter, faults, calm>>

(* .. or is lost *)
LoseAnswer(r) ==
  /\ At(r, "answer") /\ Fault
  /\ Continue(r, Away)
  /\ UNCHANGED <<shift, recorded, lastCounter, queue, calm>>

Step(r) ==
  \/ FindShift(r) \/ InsertShift(r)
  \/ FindDocument(r) \/ Record(r) \/ RaiseCounter(r) \/ CheckClosed(r)
  \/ ReadFigures(r) \/ Recalculate(r)
  \/ StartClose(r) \/ Close(r)
  \/ Answer(r)

Next ==
  \E r \in Requests :
    Send(r) \/ Step(r) \/ Refuse(r) \/ Fail(r) \/ Stop(r) \/ LoseAnswer(r)

Spec == Init /\ [][Next]_vars

(* The server goes on with a request it has taken, and the screen sends again   *)
(* as long as its queue holds something                                         *)
Fairness == \A r \in Requests : WF_vars(Step(r)) /\ WF_vars(Send(r))

FairSpec == Spec /\ Fairness

-----------------------------------------------------------------------------
Waiting == {"away", "next", "answer"}
Working == {"insert", "record", "count", "check", "recalculate", "close"}

(* The rows of a device, and what a request keeps between two statements        *)
TypeOK ==
  /\ shift \in [Shifts -> [status : {"none", "open", "closed"}, expected : Int, late : Nat]]
  /\ recorded \subseteq Documents /\ lastCounter \in Nat /\ queue \subseteq Ops
  /\ request \in [Requests -> [todo : SUBSET Ops, at : Waiting \cup Working, done : SUBSET Ops, new : BOOLEAN,
                                unread : SUBSET Sources, read : [Sources -> Int]]]
  /\ faults \in 0 .. MaxFaults /\ calm \in BOOLEAN

(* A device never has two open shifts, although two uploads may check and then  *)
(* open one each (openShift and its partial unique index).                      *)
OneOpenShift == \A s, t \in Shifts : shift[s].status = "open" /\ shift[t].status = "open" => s = t

Taken(o) ==
  CASE Kind(o) = "open" -> shift[ShiftOf(o)].status # "none"
    [] Kind(o) = "close" -> shift[ShiftOf(o)].status = "closed"
    [] Kind(o) = "sale" -> o \in recorded /\ lastCounter >= Operations[o].number
    [] OTHER -> o \in recorded

(* Nothing is lost with an answer: whatever the screen has dropped from its      *)
(* queue is recorded, and the counter that a new screen goes on from covers the  *)
(* numbers of those sales, whatever was interrupted, repeated or overlapped.     *)
DroppedIsRecorded == \A o \in Ops \ queue : Taken(o)

(* The figures of a closed shift are those of its documents, also of the ones    *)
(* that arrived after it was closed, when no upload is at work                   *)
(* (recalculateIfClosed); uploads that overlapped or stopped break it.           *)
FiguresFollowDocuments ==
  calm /\ (\A r \in Requests : At(r, "away")) =>
    \A s \in Shifts :
      shift[s].status = "closed" => shift[s].expected = Expected(FiguresOf(s, recorded))

(* The queue is uploaded in the end: an operation that fails stops none of the   *)
(* others, and whatever had to wait for it is taken the next time, even when the *)
(* next shift was opened before the one that failed.                             *)
QueueDrains == <>[](queue = {})

(* One drawer at a time, with the figures of its documents *)
ShiftsAddUp == TypeOK /\ OneOpenShift /\ FiguresFollowDocuments
=============================================================================
